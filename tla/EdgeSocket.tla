------------------------------ MODULE EdgeSocket ------------------------------
(***************************************************************************)
(* A non-blocking TCP socket on an edge-triggered epoll instance, as far   *)
(* as the event loops of rs/tcpproxy and c/tcp_echo rely on it.  The       *)
(* socket belongs to the kernel, not to the repository.  Data are counted  *)
(* in units; a unit is whatever one call may move.                         *)
(***************************************************************************)
EXTENDS Naturals

CONSTANT Room    \* units the send buffer of a socket holds

ASSUME RoomAssumption == Room \in Nat \ {0}

\* up: connected; rcv: units received and not read; fin: the peer will send no
\* more; rst: the connection was reset; snd: units the peer has not taken;
\* nospace: a write failed for lack of room since the peer took something;
\* armed: on epoll's ready list.
Socket == [up : BOOLEAN, rcv : Nat, fin : BOOLEAN, rst : BOOLEAN,
           snd : 0..Room, nospace : BOOLEAN, armed : BOOLEAN]

\* A socket just added to epoll: a connected one is writable at once.
Added(up) == [up |-> up, rcv |-> 0, fin |-> FALSE, rst |-> FALSE,
              snd |-> 0, nospace |-> FALSE, armed |-> up]

\* What epoll reports.  A reset raises EPOLLERR and EPOLLHUP too; both loops treat
\* them as readable and writable.
Mask(k) == (IF k.rcv > 0 \/ k.fin \/ k.rst THEN {"IN"} ELSE {})
             \cup (IF (k.up /\ k.snd < Room) \/ k.rst THEN {"OUT"} ELSE {})

Reported(k) == [k EXCEPT !.armed = FALSE]

(* The peer, and the network on its behalf *)
CanArrive(k) == k.up /\ ~k.fin /\ ~k.rst
Arrived(k) == [k EXCEPT !.rcv = @ + 1, !.armed = TRUE]
Finished(k) == [k EXCEPT !.fin = TRUE, !.armed = TRUE]
WasReset(k) == [k EXCEPT !.rst = TRUE, !.snd = 0, !.armed = TRUE]
Connected(k) == [k EXCEPT !.up = TRUE, !.armed = TRUE]

\* The peer takes a unit; epoll hears of it only if a write had failed.
Taken(k) == [k EXCEPT !.snd = @ - 1, !.nospace = FALSE, !.armed = @ \/ k.nospace]

(* The calls of the program.  A read of a drained socket returns EAGAIN, one of an
   ended socket 0 or an error. *)
Drained(k) == k.rcv = 0 /\ ~k.fin /\ ~k.rst
Ended(k) == k.rcv = 0 /\ (k.fin \/ k.rst)
Read(k, n) == [k EXCEPT !.rcv = @ - n]
Wrote(k, n) == [k EXCEPT !.snd = @ + n]
Refused(k) == [k EXCEPT !.nospace = k.up]
===============================================================================
