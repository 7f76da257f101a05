---------------------------- MODULE WakeupProofs -----------------------------
(***************************************************************************)
(* Proofs about the four small programs that wait to be woken: the event   *)
(* loops of rs/tcpproxy and c/tcp_echo, which wait for edges of epoll, the *)
(* receiver of rs/one_notify, which waits for its waker, and the gors of   *)
(* go/gorpool, which wait for their channel or their timer.  For any size  *)
(* of pipe, buffer and send buffers, for peers that send any amount of     *)
(* data, and for any sets of wakers, gors, callers and functions.          *)
(***************************************************************************)
EXTENDS TcpProxy, TcpEcho, OneNotify, Gorpool, SequenceTheorems, TLAPS

(* rs/tcpproxy *)

\* The loop is at an event.
Handling == at \in {"event", "splice_in", "splice_out"}

One(b) == IF b THEN 1 ELSE 0

\* Who holds the Context, and when it is marked bad.  A socket has one event in a
\* batch, so that the Context is in `unused` twice at most.
Lifetime ==
    /\ at \in {"wait", "sweep"} => batch = NoEvents
    /\ Handling \/ (todo = {} /\ free = FALSE)
    /\ at = "wait" => unused = 0
    /\ at # "wait" => open
    /\ at # "sweep" /\ open => ~bad /\ frees = 0 /\ refs = unused + 2
    /\ ~open => refs = 0
    /\ at = "sweep" => /\ unused > 0
                       /\ refs = unused + Released
                       /\ frees = 2 - Released
    /\ unused + One(batch["client"] # {}) + One(batch["backend"] # {}) + One(Handling) <= 2

\* Every unit sent is in the socket, in the pipe, or handed on.
Conserved == open => \A s \in Side : sent[s] = sock[s].rcv + buffered[s] + sunk[s]

\* An end of file is final, and is acted on when nothing is left before it.
EofFinal ==
    open => /\ \A s \in Side : ended[s] => Ended(sock[s]) /\ buffered[s] = 0
            /\ at = "splice_in" => ~eof
            /\ at = "splice_out" /\ eof => Ended(sock[dir]) /\ buffered[dir] = 0

\* The socket of the other side will report room.
Waiting(s) == LET k == sock[Other(s)]
              IN  k.nospace \/ (k.armed /\ "OUT" \in Mask(k)) \/ ~k.up

\* The direction is copied in the current batch, or the connection is given up.
Coming(s) ==
    \/ "OUT" \in batch[Other(s)]
    \/ who = Other(s) /\ "OUT" \in todo
    \/ at \in {"splice_in", "splice_out"} /\ dir = s
    \/ free \/ unused > 0

PipeServed ==
    open => \A s \in Side : buffered[s] > 0 => Waiting(s) \/ Coming(s)

\* A socket that is not connected took nothing and refused nothing.
Unconnected == open => \A s \in Side : ~sock[s].up => sock[s].snd = 0 /\ ~sock[s].nospace

ProxyInv == ProxyTypeOK /\ Lifetime /\ Conserved /\ EofFinal /\ PipeServed /\ Unconnected

-----------------------------------------------------------------------------
\* What the kernel and the calls make of a socket is a socket.
LEMMA AddedSocket == \A b \in BOOLEAN : Added(b) \in Socket
BY RoomAssumption DEF Added, Socket

\* The same for the other operations, under the guards the actions have.
LEMMA SocketOps ==
    ASSUME NEW k \in Socket
    PROVE  /\ Arrived(k) \in Socket /\ Finished(k) \in Socket /\ WasReset(k) \in Socket
           /\ Connected(k) \in Socket /\ Reported(k) \in Socket /\ Refused(k) \in Socket
           /\ k.snd > 0 => Taken(k) \in Socket
           /\ \A n \in Nat : n <= k.rcv => Read(k, n) \in Socket
           /\ \A n \in Nat : k.snd + n <= Room => Wrote(k, n) \in Socket
<1>. USE RoomAssumption DEF Socket
<1>1. Arrived(k) \in Socket
  <2>1. k.rcv + 1 \in Nat
    OBVIOUS
  <2>. QED BY <2>1 DEF Arrived
<1>2. Finished(k) \in Socket
  BY DEF Finished
<1>3. WasReset(k) \in Socket
  <2>1. 0 \in 0..Room
    OBVIOUS
  <2>. QED BY <2>1 DEF WasReset
<1>4. Connected(k) \in Socket /\ Reported(k) \in Socket /\ Refused(k) \in Socket
  BY DEF Connected, Reported, Refused
<1>5. ASSUME k.snd > 0 PROVE  Taken(k) \in Socket
  <2>1. k.snd - 1 \in 0..Room
    BY <1>5
  <2>2. (k.armed \/ k.nospace) \in BOOLEAN
    OBVIOUS
  <2>. QED BY <2>1, <2>2 DEF Taken
<1>6. \A n \in Nat : n <= k.rcv => Read(k, n) \in Socket
  BY DEF Read
<1>7. \A n \in Nat : k.snd + n <= Room => Wrote(k, n) \in Socket
  BY DEF Wrote
<1>. QED BY <1>1, <1>2, <1>3, <1>4, <1>5, <1>6, <1>7

\* main starts without a connection.
LEMMA ProxyInitInv == ProxyInit => ProxyInv
<1>. SUFFICES ASSUME ProxyInit PROVE ProxyInv
  OBVIOUS
<1>1. ProxyTypeOK
  <2>1. sock \in [Side -> Socket]
    BY AddedSocket DEF ProxyInit
  <2>2. /\ buffered \in [Side -> 0..Slots]
        /\ sent \in [Side -> Nat] /\ sunk \in [Side -> Nat]
    BY PipeAssumption DEF ProxyInit, Zero
  <2>3. batch \in [Side -> SUBSET {"IN", "OUT"}] /\ ended \in [Side -> BOOLEAN]
    BY DEF ProxyInit, NoEvents
  <2>4. /\ open \in BOOLEAN /\ bad \in BOOLEAN /\ free \in BOOLEAN /\ eof \in BOOLEAN
        /\ todo \subseteq {"IN", "OUT"} /\ who \in Side /\ dir \in Side /\ load \in Loads
    BY DEF ProxyInit, Side
  <2>5. refs \in 0..4 /\ frees \in {0, 2} /\ unused \in 0..2 /\ at = "wait"
    BY DEF ProxyInit
  <2>. QED BY <2>1, <2>2, <2>3, <2>4, <2>5 DEF ProxyTypeOK
<1>2. Lifetime
  BY DEF ProxyInit, Lifetime, NoEvents, Handling, One, Side
<1>3. Conserved /\ EofFinal /\ PipeServed /\ Unconnected
  BY DEF ProxyInit, Conserved, EofFinal, PipeServed, Unconnected
<1>. QED BY <1>1, <1>2, <1>3 DEF ProxyInv

\* References, marks and the vector `unused`.
LEMMA LifetimeStep ==
    ASSUME ProxyTypeOK, Lifetime, [ProxyNext]_proxyVars
    PROVE  Lifetime'
<1>. USE RoomAssumption, PipeAssumption DEF ProxyTypeOK, Side, Lifetime, Handling, One, NoEvents, Released
<1>1. ASSUME NEW s \in Side, PeerSends(s) PROVE  Lifetime'
  BY <1>1 DEF PeerSends, PeerStep, CanArrive, Arrived, event, copying
<1>2. ASSUME NEW s \in Side, PeerFinishes(s) PROVE  Lifetime'
  BY <1>2 DEF PeerFinishes, PeerStep, CanArrive, Finished, event, copying
<1>3. ASSUME NEW s \in Side, PeerResets(s) PROVE  Lifetime'
  BY <1>3 DEF PeerResets, PeerStep, WasReset, event, copying
<1>4. ASSUME NEW s \in Side, PeerTakes(s) PROVE  Lifetime'
  BY <1>4 DEF PeerTakes, PeerStep, Taken, event, copying
<1>5. CASE BackendConnects
  BY <1>5 DEF BackendConnects, PeerStep, Connected, event, copying
<1>6. CASE HandleClient
  BY <1>6 DEF HandleClient, Added, Zero, event, copying
<1>7. CASE EpollWait
  BY <1>7 DEF EpollWait, Ready, Reported, event, copying
<1>8. CASE EndBatch
  BY <1>8 DEF EndBatch, connection, event, copying
<1>9. CASE BeginCopy
  BY <1>9 DEF BeginCopy, Direction, Left, connection, event, copying
<1>10. CASE EndEvent
  BY <1>10 DEF EndEvent, NoEvent, event, copying
<1>11. CASE Shutdown
  <2>1. batch = NoEvents /\ todo = {} /\ free = FALSE /\ unused \in {1, 2}
    BY <1>11 DEF Shutdown
  <2>2. /\ Released = IF bad THEN 0 ELSE 2
        /\ refs = unused + Released /\ frees = 2 - Released
    BY <1>11 DEF Shutdown
  <2>3. refs' = unused - 1 /\ frees' = 2 /\ bad' = TRUE /\ unused' = unused - 1
    BY <1>11, <2>1, <2>2 DEF Shutdown
  <2>4. at' = IF unused = 2 THEN "sweep" ELSE "wait"
    BY <1>11, <2>1, <2>3 DEF Shutdown
  <2>6. open' = (refs' > 0)
    BY <1>11, Zenon DEF Shutdown
  <2>5. batch' = NoEvents /\ todo' = {} /\ free' = FALSE
    BY <1>11, <2>1 DEF Shutdown, event
  <2>7. CASE unused = 1
    BY <2>3, <2>4, <2>5, <2>6, <2>7
  <2>8. CASE unused = 2
    BY <2>3, <2>4, <2>5, <2>6, <2>8
  <2>. QED BY <2>1, <2>7, <2>8
<1>12. ASSUME NEW s \in Side, NextEvent(s) PROVE  Lifetime'
  BY <1>12 DEF NextEvent, connection, event, copying
<1>13. ASSUME NEW n \in 1..PipeSize, SpliceIn(n) PROVE  Lifetime'
  BY <1>13 DEF SpliceIn, Read, event, copying
<1>14. ASSUME NEW n \in 1..PipeSize, SpliceOut(n) PROVE  Lifetime'
  BY <1>14 DEF SpliceOut, Wrote, event, copying
<1>15. CASE SpliceInEnds
  BY <1>15 DEF SpliceInEnds, connection, event, copying
<1>16. CASE SpliceInZero
  BY <1>16 DEF SpliceInZero, EofSeen, connection, event, copying
<1>17. CASE SpliceInFails
  BY <1>17 DEF SpliceInFails, Failed, NoCopy, connection, event, copying
<1>18. CASE SpliceOutAgain
  BY <1>18 DEF SpliceOutAgain, Refused, NoCopy, event, copying
<1>19. CASE SpliceOutFails
  BY <1>19 DEF SpliceOutFails, Failed, NoCopy, connection, event, copying
<1>20. CASE CopyEnds
  BY <1>20 DEF CopyEnds, NoCopy, event, copying
<1>21. CASE UNCHANGED proxyVars
  BY <1>21 DEF proxyVars, connection, event, copying
<1>. QED BY <1>1, <1>2, <1>3, <1>4, <1>5, <1>6, <1>7, <1>8, <1>9, <1>10, <1>11, <1>12, <1>13, <1>14, <1>15, <1>16, <1>17, <1>18, <1>19, <1>20, <1>21 DEF ProxyNext, Peers, Loop

\* The sockets.
LEMMA SockStep ==
    ASSUME ProxyTypeOK, Lifetime, [ProxyNext]_proxyVars
    PROVE  (sock \in [Side -> Socket])'
<1>. USE RoomAssumption, PipeAssumption DEF Side, Other
<1>1. ASSUME NEW s \in Side, PeerSends(s) PROVE  (sock \in [Side -> Socket])'
  BY <1>1, SocketOps DEF PeerSends, PeerStep, CanArrive, connection, ProxyTypeOK
<1>2. ASSUME NEW s \in Side, PeerFinishes(s) PROVE  (sock \in [Side -> Socket])'
  BY <1>2, SocketOps DEF PeerFinishes, PeerStep, CanArrive, connection, ProxyTypeOK
<1>3. ASSUME NEW s \in Side, PeerResets(s) PROVE  (sock \in [Side -> Socket])'
  BY <1>3, SocketOps DEF PeerResets, PeerStep, connection, ProxyTypeOK
<1>4. ASSUME NEW s \in Side, PeerTakes(s) PROVE  (sock \in [Side -> Socket])'
  BY <1>4, SocketOps DEF PeerTakes, PeerStep, connection, ProxyTypeOK
<1>5. CASE BackendConnects
  BY <1>5, SocketOps DEF BackendConnects, PeerStep, connection, ProxyTypeOK
<1>6. CASE HandleClient
  BY <1>6, AddedSocket DEF HandleClient, Zero, connection, ProxyTypeOK
<1>7. CASE EpollWait
  BY <1>7, SocketOps DEF EpollWait, Ready, connection, ProxyTypeOK
<1>8. CASE EndBatch
  BY <1>8, SocketOps DEF EndBatch, connection, ProxyTypeOK
<1>9. CASE BeginCopy
  BY <1>9, SocketOps DEF BeginCopy, Direction, Left, connection, ProxyTypeOK
<1>10. CASE EndEvent
  BY <1>10, SocketOps DEF EndEvent, NoEvent, connection, ProxyTypeOK
<1>11. CASE Shutdown
  BY <1>11, AddedSocket DEF Shutdown, connection, ProxyTypeOK
<1>12. ASSUME NEW s \in Side, NextEvent(s) PROVE  (sock \in [Side -> Socket])'
  BY <1>12, SocketOps DEF NextEvent, connection, ProxyTypeOK
<1>13. ASSUME NEW n \in 1..PipeSize, SpliceIn(n) PROVE  (sock \in [Side -> Socket])'
  BY <1>13, SocketOps DEF SpliceIn, connection, ProxyTypeOK
<1>14. ASSUME NEW n \in 1..PipeSize, SpliceOut(n) PROVE  (sock \in [Side -> Socket])'
  BY <1>14, SocketOps DEF SpliceOut, connection, ProxyTypeOK
<1>15. CASE SpliceInEnds
  BY <1>15, SocketOps DEF SpliceInEnds, connection, ProxyTypeOK
<1>16. CASE SpliceInZero
  BY <1>16, SocketOps DEF SpliceInZero, EofSeen, connection, ProxyTypeOK
<1>17. CASE SpliceInFails
  BY <1>17, SocketOps DEF SpliceInFails, Failed, NoCopy, connection, ProxyTypeOK
<1>18. CASE SpliceOutAgain
  BY <1>18, SocketOps DEF SpliceOutAgain, NoCopy, connection, ProxyTypeOK
<1>19. CASE SpliceOutFails
  BY <1>19, SocketOps DEF SpliceOutFails, Failed, NoCopy, connection, ProxyTypeOK
<1>20. CASE CopyEnds
  BY <1>20, SocketOps DEF CopyEnds, NoCopy, connection, ProxyTypeOK
<1>21. CASE UNCHANGED proxyVars
  BY <1>21 DEF proxyVars, connection, ProxyTypeOK
<1>. QED BY <1>1, <1>2, <1>3, <1>4, <1>5, <1>6, <1>7, <1>8, <1>9, <1>10, <1>11, <1>12, <1>13, <1>14, <1>15, <1>16, <1>17, <1>18, <1>19, <1>20, <1>21 DEF ProxyNext, Peers, Loop

\* Types; the counts follow from Lifetime.
LEMMA ProxyTypeStep ==
    ASSUME ProxyTypeOK, Lifetime, Lifetime', (sock \in [Side -> Socket])', [ProxyNext]_proxyVars
    PROVE  ProxyTypeOK'
<1>. USE RoomAssumption, PipeAssumption DEF ProxyTypeOK, Side, Lifetime, Handling, One
<1>1. ASSUME NEW s \in Side, PeerSends(s) PROVE  ProxyTypeOK'
  <2>1. (sent \in [Side -> Nat])'
    BY <1>1 DEF PeerSends
  <2>. QED BY <1>1, <2>1 DEF PeerSends, PeerStep, event, copying
<1>2. ASSUME NEW s \in Side, PeerFinishes(s) PROVE  ProxyTypeOK'
  BY <1>2, SocketOps DEF PeerFinishes, PeerStep, CanArrive, event, copying, Other, Socket
<1>3. ASSUME NEW s \in Side, PeerResets(s) PROVE  ProxyTypeOK'
  BY <1>3, SocketOps DEF PeerResets, PeerStep, event, copying, Other, Socket
<1>4. ASSUME NEW s \in Side, PeerTakes(s) PROVE  ProxyTypeOK'
  BY <1>4, SocketOps DEF PeerTakes, PeerStep, event, copying, Other, Socket
<1>5. CASE BackendConnects
  BY <1>5, SocketOps DEF BackendConnects, PeerStep, event, copying, Other, Socket
<1>6. CASE HandleClient
  <2>1. (buffered \in [Side -> 0..Slots])' /\ (sent \in [Side -> Nat])' /\ (sunk \in [Side -> Nat])'
    BY <1>6 DEF HandleClient, Zero
  <2>2. (ended \in [Side -> BOOLEAN])'
    BY <1>6 DEF HandleClient
  <2>3. open' = TRUE /\ bad' = FALSE /\ refs' = 2 /\ frees' = 0
    BY <1>6, Zenon DEF HandleClient
  <2>4. UNCHANGED <<batch, unused, at, event, copying, load>>
    BY <1>6, Zenon DEF HandleClient
  <2>5. open' \in BOOLEAN /\ bad' \in BOOLEAN
    BY <2>3, Zenon
  <2>6. refs' \in 0..4 /\ frees' \in {0, 2}
    BY <2>3, SMT
  <2>. QED BY <2>1, <2>2, <2>4, <2>5, <2>6 DEF event, copying
<1>7. CASE EpollWait
  BY <1>7, SocketOps DEF EpollWait, Ready, event, copying, Other, Socket, Mask
<1>8. CASE EndBatch
  BY <1>8, SocketOps DEF EndBatch, connection, event, copying, Other, Socket
<1>9. CASE BeginCopy
  BY <1>9, SocketOps DEF BeginCopy, Direction, Left, connection, event, copying, Other, Socket
<1>10. CASE EndEvent
  <2>1. (refs \in 0..4)' /\ (unused \in 0..2)'
    BY <1>10 DEF EndEvent
  <2>. QED BY <1>10, <2>1 DEF EndEvent, NoEvent, copying
<1>11. CASE Shutdown
  <2>1. Released \in {0, 2}
    BY DEF Released
  <2>2. (refs \in 0..4)' /\ (unused \in 0..2)' /\ (frees \in {0, 2})'
    BY <1>11, <2>1 DEF Shutdown
  <2>3. open' \in BOOLEAN /\ bad' \in BOOLEAN /\ at' \in {"wait", "sweep"}
    BY <1>11 DEF Shutdown
  <2>. QED BY <1>11, <2>2, <2>3 DEF Shutdown, event, copying
<1>12. ASSUME NEW s \in Side, NextEvent(s) PROVE  ProxyTypeOK'
  BY <1>12, SocketOps DEF NextEvent, connection, event, copying, Other, Socket
<1>13. ASSUME NEW n \in 1..PipeSize, SpliceIn(n) PROVE  ProxyTypeOK'
  <2>1. (buffered \in [Side -> 0..Slots])'
    BY <1>13 DEF SpliceIn
  <2>. QED BY <1>13, <2>1 DEF SpliceIn, event, copying
<1>14. ASSUME NEW n \in 1..PipeSize, SpliceOut(n) PROVE  ProxyTypeOK'
  <2>1. (buffered \in [Side -> 0..Slots])' /\ (sunk \in [Side -> Nat])'
    BY <1>14 DEF SpliceOut
  <2>. QED BY <1>14, <2>1 DEF SpliceOut, event, copying
<1>15. CASE SpliceInEnds
  BY <1>15, SocketOps DEF SpliceInEnds, connection, event, copying, Other, Socket
<1>16. CASE SpliceInZero
  BY <1>16, SocketOps DEF SpliceInZero, EofSeen, connection, event, copying, Other, Socket
<1>17. CASE SpliceInFails
  BY <1>17, SocketOps DEF SpliceInFails, Failed, NoCopy, connection, event, copying, Other, Socket
<1>18. CASE SpliceOutAgain
  BY <1>18, SocketOps DEF SpliceOutAgain, NoCopy, event, copying, Other, Socket
<1>19. CASE SpliceOutFails
  BY <1>19, SocketOps DEF SpliceOutFails, Failed, NoCopy, connection, event, copying, Other, Socket
<1>20. CASE CopyEnds
  BY <1>20, SocketOps DEF CopyEnds, NoCopy, event, copying, Other, Socket
<1>21. CASE UNCHANGED proxyVars
  BY <1>21 DEF proxyVars, connection, event, copying
<1>. QED BY <1>1, <1>2, <1>3, <1>4, <1>5, <1>6, <1>7, <1>8, <1>9, <1>10, <1>11, <1>12, <1>13, <1>14, <1>15, <1>16, <1>17, <1>18, <1>19, <1>20, <1>21 DEF ProxyNext, Peers, Loop

\* No unit is lost or made up.
LEMMA ConservedStep ==
    ASSUME ProxyTypeOK, Lifetime, Conserved, [ProxyNext]_proxyVars
    PROVE  Conserved'
<1>. USE RoomAssumption, PipeAssumption DEF ProxyTypeOK, Side, Socket, Conserved, Other, Lifetime, Handling
<1>1. ASSUME NEW s \in Side, PeerSends(s) PROVE  Conserved'
  BY <1>1 DEF PeerSends, PeerStep, CanArrive, Arrived, event, copying
<1>2. ASSUME NEW s \in Side, PeerFinishes(s) PROVE  Conserved'
  BY <1>2 DEF PeerFinishes, PeerStep, CanArrive, Finished, event, copying
<1>3. ASSUME NEW s \in Side, PeerResets(s) PROVE  Conserved'
  BY <1>3 DEF PeerResets, PeerStep, WasReset, event, copying
<1>4. ASSUME NEW s \in Side, PeerTakes(s) PROVE  Conserved'
  BY <1>4 DEF PeerTakes, PeerStep, Taken, event, copying
<1>5. CASE BackendConnects
  BY <1>5 DEF BackendConnects, PeerStep, Connected, event, copying
<1>6. CASE HandleClient
  BY <1>6 DEF HandleClient, Added, Zero, event, copying
<1>7. CASE EpollWait
  BY <1>7 DEF EpollWait, Ready, Reported, event, copying
<1>8. CASE EndBatch
  BY <1>8 DEF EndBatch, connection, event, copying
<1>9. CASE BeginCopy
  BY <1>9 DEF BeginCopy, Direction, Left, connection, event, copying
<1>10. CASE EndEvent
  BY <1>10 DEF EndEvent, NoEvent, event, copying
<1>11. CASE Shutdown
  BY <1>11 DEF Shutdown, Released, Added, event, copying
<1>12. ASSUME NEW s \in Side, NextEvent(s) PROVE  Conserved'
  BY <1>12 DEF NextEvent, connection, event, copying
<1>13. ASSUME NEW n \in 1..PipeSize, SpliceIn(n) PROVE  Conserved'
  BY <1>13 DEF SpliceIn, Read, event, copying
<1>14. ASSUME NEW n \in 1..PipeSize, SpliceOut(n) PROVE  Conserved'
  BY <1>14 DEF SpliceOut, Wrote, event, copying
<1>15. CASE SpliceInEnds
  BY <1>15 DEF SpliceInEnds, connection, event, copying
<1>16. CASE SpliceInZero
  BY <1>16 DEF SpliceInZero, EofSeen, connection, event, copying
<1>17. CASE SpliceInFails
  BY <1>17 DEF SpliceInFails, Failed, NoCopy, connection, event, copying
<1>18. CASE SpliceOutAgain
  BY <1>18 DEF SpliceOutAgain, Refused, NoCopy, event, copying
<1>19. CASE SpliceOutFails
  BY <1>19 DEF SpliceOutFails, Failed, NoCopy, connection, event, copying
<1>20. CASE CopyEnds
  BY <1>20 DEF CopyEnds, NoCopy, event, copying
<1>21. CASE UNCHANGED proxyVars
  BY <1>21 DEF proxyVars, connection, event, copying
<1>. QED BY <1>1, <1>2, <1>3, <1>4, <1>5, <1>6, <1>7, <1>8, <1>9, <1>10, <1>11, <1>12, <1>13, <1>14, <1>15, <1>16, <1>17, <1>18, <1>19, <1>20, <1>21 DEF ProxyNext, Peers, Loop

\* The end of file.
LEMMA EofStep ==
    ASSUME ProxyTypeOK, Lifetime, Conserved, EofFinal, [ProxyNext]_proxyVars
    PROVE  EofFinal'
<1>. USE RoomAssumption, PipeAssumption DEF ProxyTypeOK, Side, Socket, EofFinal, Ended, Other, Lifetime, Handling, Conserved
<1>1. ASSUME NEW s \in Side, PeerSends(s) PROVE  EofFinal'
  BY <1>1 DEF PeerSends, PeerStep, CanArrive, Arrived, event, copying
<1>2. ASSUME NEW s \in Side, PeerFinishes(s) PROVE  EofFinal'
  BY <1>2 DEF PeerFinishes, PeerStep, CanArrive, Finished, event, copying
<1>3. ASSUME NEW s \in Side, PeerResets(s) PROVE  EofFinal'
  BY <1>3 DEF PeerResets, PeerStep, WasReset, event, copying
<1>4. ASSUME NEW s \in Side, PeerTakes(s) PROVE  EofFinal'
  BY <1>4 DEF PeerTakes, PeerStep, Taken, event, copying
<1>5. CASE BackendConnects
  BY <1>5 DEF BackendConnects, PeerStep, Connected, event, copying
<1>6. CASE HandleClient
  BY <1>6 DEF HandleClient, Added, Zero, event, copying
<1>7. CASE EpollWait
  <2>1. \A s \in Side : Ended(sock[s]) => Ended(sock'[s])
    BY <1>7 DEF EpollWait, Reported
  <2>. QED BY <1>7, <2>1 DEF EpollWait
<1>8. CASE EndBatch
  BY <1>8 DEF EndBatch, connection, event, copying
<1>9. CASE BeginCopy
  BY <1>9 DEF BeginCopy, Direction, Left, connection, event, copying
<1>10. CASE EndEvent
  BY <1>10 DEF EndEvent, NoEvent, event, copying
<1>11. CASE Shutdown
  BY <1>11 DEF Shutdown, Released, Added, event, copying
<1>12. ASSUME NEW s \in Side, NextEvent(s) PROVE  EofFinal'
  BY <1>12 DEF NextEvent, connection, event, copying
<1>13. ASSUME NEW n \in 1..PipeSize, SpliceIn(n) PROVE  EofFinal'
  BY <1>13 DEF SpliceIn, Read, event, copying
<1>14. ASSUME NEW n \in 1..PipeSize, SpliceOut(n) PROVE  EofFinal'
  BY <1>14 DEF SpliceOut, Wrote, event, copying
<1>15. CASE SpliceInEnds
  BY <1>15 DEF SpliceInEnds, connection, copying
<1>16. CASE SpliceInZero
  BY <1>16 DEF SpliceInZero, EofSeen, connection, event, copying
<1>17. CASE SpliceInFails
  BY <1>17 DEF SpliceInFails, Failed, NoCopy, connection, event, copying
<1>18. CASE SpliceOutAgain
  BY <1>18 DEF SpliceOutAgain, Refused, NoCopy, event, copying
<1>19. CASE SpliceOutFails
  BY <1>19 DEF SpliceOutFails, Failed, NoCopy, connection, event, copying
<1>20. CASE CopyEnds
  BY <1>20 DEF CopyEnds, NoCopy, event, copying
<1>21. CASE UNCHANGED proxyVars
  BY <1>21 DEF proxyVars, connection, event, copying
<1>. QED BY <1>1, <1>2, <1>3, <1>4, <1>5, <1>6, <1>7, <1>8, <1>9, <1>10, <1>11, <1>12, <1>13, <1>14, <1>15, <1>16, <1>17, <1>18, <1>19, <1>20, <1>21 DEF ProxyNext, Peers, Loop

\* The backend before it is connected.
LEMMA UnconnectedStep ==
    ASSUME ProxyTypeOK, Lifetime, Unconnected, [ProxyNext]_proxyVars
    PROVE  Unconnected'
<1>. USE RoomAssumption, PipeAssumption DEF ProxyTypeOK, Side, Socket, Unconnected, Other, Lifetime, Handling
<1>1. ASSUME NEW s \in Side, PeerSends(s) PROVE  Unconnected'
  BY <1>1 DEF PeerSends, PeerStep, CanArrive, Arrived, event, copying
<1>2. ASSUME NEW s \in Side, PeerFinishes(s) PROVE  Unconnected'
  BY <1>2 DEF PeerFinishes, PeerStep, CanArrive, Finished, event, copying
<1>3. ASSUME NEW s \in Side, PeerResets(s) PROVE  Unconnected'
  BY <1>3 DEF PeerResets, PeerStep, WasReset, event, copying
<1>4. ASSUME NEW s \in Side, PeerTakes(s) PROVE  Unconnected'
  BY <1>4 DEF PeerTakes, PeerStep, Taken, event, copying
<1>5. CASE BackendConnects
  BY <1>5 DEF BackendConnects, PeerStep, Connected, event, copying
<1>6. CASE HandleClient
  BY <1>6 DEF HandleClient, Added, Zero, event, copying
<1>7. CASE EpollWait
  BY <1>7 DEF EpollWait, Ready, Reported, event, copying
<1>8. CASE EndBatch
  BY <1>8 DEF EndBatch, connection, event, copying
<1>9. CASE BeginCopy
  BY <1>9 DEF BeginCopy, Direction, Left, connection, event, copying
<1>10. CASE EndEvent
  BY <1>10 DEF EndEvent, NoEvent, event, copying
<1>11. CASE Shutdown
  BY <1>11 DEF Shutdown, Released, Added, event, copying
<1>12. ASSUME NEW s \in Side, NextEvent(s) PROVE  Unconnected'
  BY <1>12 DEF NextEvent, connection, event, copying
<1>13. ASSUME NEW n \in 1..PipeSize, SpliceIn(n) PROVE  Unconnected'
  BY <1>13 DEF SpliceIn, Read, event, copying
<1>14. ASSUME NEW n \in 1..PipeSize, SpliceOut(n) PROVE  Unconnected'
  BY <1>14 DEF SpliceOut, Wrote, event, copying
<1>15. CASE SpliceInEnds
  BY <1>15 DEF SpliceInEnds, connection, event, copying
<1>16. CASE SpliceInZero
  BY <1>16 DEF SpliceInZero, EofSeen, connection, event, copying
<1>17. CASE SpliceInFails
  BY <1>17 DEF SpliceInFails, Failed, NoCopy, connection, event, copying
<1>18. CASE SpliceOutAgain
  BY <1>18 DEF SpliceOutAgain, Refused, NoCopy, event, copying
<1>19. CASE SpliceOutFails
  BY <1>19 DEF SpliceOutFails, Failed, NoCopy, connection, event, copying
<1>20. CASE CopyEnds
  BY <1>20 DEF CopyEnds, NoCopy, event, copying
<1>21. CASE UNCHANGED proxyVars
  BY <1>21 DEF proxyVars, connection, event, copying
<1>. QED BY <1>1, <1>2, <1>3, <1>4, <1>5, <1>6, <1>7, <1>8, <1>9, <1>10, <1>11, <1>12, <1>13, <1>14, <1>15, <1>16, <1>17, <1>18, <1>19, <1>20, <1>21 DEF ProxyNext, Peers, Loop

\* Data in a pipe.
LEMMA PipeStep ==
    ASSUME ProxyTypeOK, Lifetime, Unconnected, PipeServed, [ProxyNext]_proxyVars
    PROVE  PipeServed'
<1>. USE RoomAssumption, PipeAssumption DEF ProxyTypeOK, Side, Socket, PipeServed, Waiting, Coming, Mask, Other, Unconnected, Lifetime, Handling
<1>1. ASSUME NEW s \in Side, PeerSends(s) PROVE  PipeServed'
  BY <1>1 DEF PeerSends, PeerStep, CanArrive, Arrived, event, copying
<1>2. ASSUME NEW s \in Side, PeerFinishes(s) PROVE  PipeServed'
  BY <1>2 DEF PeerFinishes, PeerStep, CanArrive, Finished, event, copying
<1>3. ASSUME NEW s \in Side, PeerResets(s) PROVE  PipeServed'
  BY <1>3 DEF PeerResets, PeerStep, WasReset, event, copying
<1>4. ASSUME NEW s \in Side, PeerTakes(s) PROVE  PipeServed'
  BY <1>4 DEF PeerTakes, PeerStep, Taken, event, copying
<1>5. CASE BackendConnects
  BY <1>5 DEF BackendConnects, PeerStep, Connected, event, copying
<1>6. CASE HandleClient
  BY <1>6 DEF HandleClient, Added, Zero, event, copying
<1>7. CASE EpollWait
  <2>1. ASSUME NEW s \in Side, Waiting(s) PROVE  Waiting(s)' \/ Coming(s)'
    BY <1>7, <2>1 DEF EpollWait, Ready, Reported
  <2>2. ASSUME NEW s \in Side, Coming(s) PROVE  FALSE
    <3>1. batch = NoEvents /\ todo = {} /\ free = FALSE /\ unused = 0
      BY <1>7 DEF EpollWait
    <3>. QED BY <1>7, <2>2, <3>1 DEF EpollWait, NoEvents
  <2>. QED BY <1>7, <2>1, <2>2 DEF EpollWait
<1>8. CASE EndBatch
  BY <1>8 DEF EndBatch, connection, event, copying
<1>9. CASE BeginCopy
  BY <1>9 DEF BeginCopy, Direction, Left, connection, event, copying
<1>10. CASE EndEvent
  BY <1>10 DEF EndEvent, NoEvent, event, copying
<1>11. CASE Shutdown
  BY <1>11 DEF Shutdown, Released, Added, event, copying
<1>12. ASSUME NEW s \in Side, NextEvent(s) PROVE  PipeServed'
  BY <1>12 DEF NextEvent, connection, event, copying
<1>13. ASSUME NEW n \in 1..PipeSize, SpliceIn(n) PROVE  PipeServed'
  BY <1>13 DEF SpliceIn, Read, event, copying
<1>14. ASSUME NEW n \in 1..PipeSize, SpliceOut(n) PROVE  PipeServed'
  BY <1>14 DEF SpliceOut, Wrote, event, copying
<1>15. CASE SpliceInEnds
  BY <1>15 DEF SpliceInEnds, connection, event, copying
<1>16. CASE SpliceInZero
  BY <1>16 DEF SpliceInZero, EofSeen, connection, event, copying
<1>17. CASE SpliceInFails
  BY <1>17 DEF SpliceInFails, Failed, NoCopy, connection, event, copying
<1>18. CASE SpliceOutAgain
  BY <1>18 DEF SpliceOutAgain, Refused, NoCopy, event, copying
<1>19. CASE SpliceOutFails
  BY <1>19 DEF SpliceOutFails, Failed, NoCopy, connection, event, copying
<1>20. CASE CopyEnds
  BY <1>20 DEF CopyEnds, NoCopy, event, copying
<1>21. CASE UNCHANGED proxyVars
  BY <1>21 DEF proxyVars, connection, event, copying
<1>. QED BY <1>1, <1>2, <1>3, <1>4, <1>5, <1>6, <1>7, <1>8, <1>9, <1>10, <1>11, <1>12, <1>13, <1>14, <1>15, <1>16, <1>17, <1>18, <1>19, <1>20, <1>21 DEF ProxyNext, Peers, Loop

\* Every step of the loop and of the peers keeps the invariant.
LEMMA ProxyNextInv == ProxyInv /\ [ProxyNext]_proxyVars => ProxyInv'
BY LifetimeStep, SockStep, ProxyTypeStep, ConservedStep, EofStep, UnconnectedStep, PipeStep DEF ProxyInv

\* The invariant holds in every behaviour, without fairness.
LEMMA ProxyInvariance == ProxySafety => []ProxyInv
BY ProxyInitInv, ProxyNextInv, PTL DEF ProxySafety

-----------------------------------------------------------------------------
\* Types, with the pipe never over its size and never more than four references to
\* a Context.
THEOREM ProxyTypeCorrect == ProxySafety => []ProxyTypeOK
<1>1. ProxyInv => ProxyTypeOK
  BY DEF ProxyInv
<1>. QED BY <1>1, ProxyInvariance, PTL

\* main never follows a pointer to a PollDesp that an earlier event of the batch
\* freed, and frees none twice.
THEOREM MemorySafe == ProxySafety => []NoUseAfterFree
<1>1. ProxyInv => NoUseAfterFree
  BY DEF ProxyInv, ProxyTypeOK, Lifetime, NoUseAfterFree, Handling
<1>. QED BY <1>1, ProxyInvariance, PTL

\* Context::drop has run for every failed connection before the loop waits again.
THEOREM NothingLeaked == ProxySafety => []NoLeak
<1>1. ProxyInv => NoLeak
  BY DEF ProxyInv, Lifetime, NoLeak
<1>. QED BY <1>1, ProxyInvariance, PTL

\* Data that splice_out could not write are picked up by an event that is to come.
THEOREM PipesServed == ProxySafety => []PipeCovered
<1>1. ProxyInv => PipeCovered
  <2>. SUFFICES ASSUME ProxyInv, at = "wait", open, NEW s \in Side, buffered[s] > 0
                PROVE  Waiting(s)
    BY DEF PipeCovered, Waiting
  <2>1. batch = NoEvents /\ todo = {} /\ free = FALSE /\ unused = 0
    BY DEF ProxyInv, Lifetime, Handling
  <2>2. ~Coming(s)
    BY <2>1 DEF Coming, NoEvents, Other, Side
  <2>. QED BY <2>2 DEF ProxyInv, PipeServed
<1>. QED BY <1>1, ProxyInvariance, PTL

\* Err(0) for an end of file means that everything before it was handed on.
THEOREM NothingCutOff == ProxySafety => []EofComplete
<1>1. ProxyInv => EofComplete
  BY DEF ProxyInv, ProxyTypeOK, Conserved, EofFinal, EofComplete, Ended, Socket
<1>. QED BY <1>1, ProxyInvariance, PTL

\* The event loop reuses no PollDesp that it freed, and no failed connection stays behind.
THEOREM ConnectionSafe == ProxySafety => []ConnectionMemory
<1>1. NoUseAfterFree /\ NoLeak => ConnectionMemory
  BY DEF ConnectionMemory
<1>. QED BY <1>1, MemorySafe, NothingLeaked, PTL

\* What a pipe holds is always covered by an event to come, and an end of file overtakes none of it.
THEOREM CompleteForwarding == ProxySafety => []ProxyComplete
<1>1. PipeCovered /\ EofComplete => ProxyComplete
  BY DEF ProxyComplete
<1>. QED BY <1>1, PipesServed, NothingCutOff, PTL

-----------------------------------------------------------------------------
(* c/tcp_echo *)

\* The part of the buffer between wr and sz holds the units that come next.
BufHolds ==
    /\ taken = Len(echoed) + (sz - wr)
    /\ \A i \in wr..sz - 1 : buf[i] = Len(echoed) + 1 + (i - wr)

\* A flag is clear only while epoll owes an event: prd when the socket was drained,
\* pwr when a write was refused.  The loop waits with pwr set only when it wrote all.
FlagsInv ==
    /\ epc # "wait" => conn
    /\ epc = "read" => prd
    /\ epc = "write" => pwr
    /\ conn => /\ csock.up
               /\ ~prd => csock.armed \/ Drained(csock)
               /\ ~pwr => \/ csock.nospace /\ csock.snd = Room /\ ~csock.rst
                          \/ csock.armed /\ csock.snd < Room
               /\ epc = "wait" /\ wr < sz => ~pwr

EchoInv == EchoTypeOK /\ BufHolds /\ EchoExact /\ FlagsInv

-----------------------------------------------------------------------------
\* The server starts without a client.
LEMMA EchoInitInv == EchoInit => EchoInv
<1>. SUFFICES ASSUME EchoInit PROVE EchoInv
  OBVIOUS
<1>1. EchoTypeOK
  <2>1. csock \in Socket
    BY AddedSocket DEF EchoInit
  <2>2. buf \in [0..BufSize - 1 -> Nat] /\ echoed \in Seq(Nat)
    BY DEF EchoInit, Blank
  <2>3. conn \in BOOLEAN /\ prd \in BOOLEAN /\ pwr \in BOOLEAN /\ request \in Requests
    BY DEF EchoInit
  <2>4. sz \in 0..BufSize /\ wr \in 0..sz /\ given \in Nat /\ taken \in Nat /\ round \in Nat
    BY BufAssumption DEF EchoInit
  <2>. QED BY <2>1, <2>2, <2>3, <2>4 DEF EchoInit, EchoTypeOK
<1>2. BufHolds /\ EchoExact
  BY DEF EchoInit, BufHolds, EchoExact
<1>3. FlagsInv
  BY DEF EchoInit, FlagsInv
<1>. QED BY <1>1, <1>2, <1>3 DEF EchoInv

\* Types: the indices stay inside the buffer.
LEMMA EchoTypeStep ==
    ASSUME EchoTypeOK, FlagsInv, [EchoNext]_echoVars
    PROVE  EchoTypeOK'
<1>. USE RoomAssumption, BufAssumption DEF EchoTypeOK
<1>1. CASE ClientSends
  BY <1>1, SocketOps, AddedSocket DEF ClientSends, ClientStep, CanArrive, client
<1>2. CASE ClientFinishes
  BY <1>2, SocketOps, AddedSocket DEF ClientFinishes, ClientStep, CanArrive, client
<1>3. CASE ClientResets
  BY <1>3, SocketOps, AddedSocket DEF ClientResets, ClientStep, client
<1>4. CASE ClientTakes
  BY <1>4, SocketOps, AddedSocket DEF ClientTakes, ClientStep, client
<1>5. CASE HandleNewClient
  <2>1. csock' \in Socket
    BY <1>5, AddedSocket DEF HandleNewClient
  <2>2. (buf \in [0..BufSize - 1 -> Nat])' /\ (echoed \in Seq(Nat))'
    BY <1>5 DEF HandleNewClient, Blank
  <2>3. (conn \in BOOLEAN /\ prd \in BOOLEAN /\ pwr \in BOOLEAN)'
    BY <1>5 DEF HandleNewClient
  <2>4. (sz \in 0..BufSize /\ wr \in 0..sz /\ given \in Nat /\ taken \in Nat /\ round \in Nat)'
    BY <1>5 DEF HandleNewClient
  <2>. QED BY <1>5, <2>1, <2>2, <2>3, <2>4 DEF HandleNewClient
<1>6. CASE Event
  BY <1>6, SocketOps, AddedSocket DEF Event, client
<1>7. CASE ReadAgain
  BY <1>7, SocketOps, AddedSocket DEF ReadAgain, AfterRead, client
<1>8. CASE ReadFull
  BY <1>8, SocketOps, AddedSocket DEF ReadFull, AfterRead, client
<1>9. CASE ReadEnds
  BY <1>9, SocketOps, AddedSocket DEF ReadEnds, CloseClient, client
<1>10. CASE WriteAgain
  BY <1>10, SocketOps, AddedSocket DEF WriteAgain, client
<1>11. CASE WriteFails
  BY <1>11, SocketOps, AddedSocket DEF WriteFails, CloseClient, client
<1>12. CASE WriteDone
  BY <1>12, SocketOps, AddedSocket DEF WriteDone, Rewind, client
<1>13. ASSUME NEW n \in 1..BufSize, ReadSome(n) PROVE  EchoTypeOK'
  BY <1>13, SocketOps, AddedSocket DEF ReadSome, client
<1>14. ASSUME NEW n \in 1..BufSize, WriteSome(n) PROVE  EchoTypeOK'
  BY <1>14, SocketOps, AddedSocket DEF WriteSome, client
<1>15. CASE UNCHANGED echoVars
  BY <1>15 DEF echoVars, client
<1>. QED BY <1>1, <1>2, <1>3, <1>4, <1>5, <1>6, <1>7, <1>8, <1>9, <1>10, <1>11, <1>12, <1>13, <1>14, <1>15 DEF EchoNext, EchoLoop

\* The flags against what epoll will report.
LEMMA FlagsStep ==
    ASSUME EchoTypeOK, FlagsInv, [EchoNext]_echoVars
    PROVE  FlagsInv'
<1>. USE RoomAssumption, BufAssumption DEF EchoTypeOK, FlagsInv, Socket, Drained, Ended, Mask
<1>1. CASE ClientSends
  BY <1>1 DEF ClientSends, ClientStep, CanArrive, Arrived, client
<1>2. CASE ClientFinishes
  BY <1>2 DEF ClientFinishes, ClientStep, CanArrive, Finished, client
<1>3. CASE ClientResets
  BY <1>3 DEF ClientResets, ClientStep, WasReset, client
<1>4. CASE ClientTakes
  BY <1>4 DEF ClientTakes, ClientStep, Taken, client
<1>5. CASE HandleNewClient
  BY <1>5 DEF HandleNewClient, Blank, Added, client
<1>6. CASE Event
  BY <1>6 DEF Event, Reported, client
<1>7. CASE ReadAgain
  BY <1>7 DEF ReadAgain, AfterRead, client
<1>8. CASE ReadFull
  BY <1>8 DEF ReadFull, AfterRead, client
<1>9. CASE ReadEnds
  BY <1>9 DEF ReadEnds, CloseClient, Added, client
<1>10. CASE WriteAgain
  BY <1>10 DEF WriteAgain, Refused, client
<1>11. CASE WriteFails
  BY <1>11 DEF WriteFails, CloseClient, Added, client
<1>12. CASE WriteDone
  BY <1>12 DEF WriteDone, Rewind, client
<1>13. ASSUME NEW n \in 1..BufSize, ReadSome(n) PROVE  FlagsInv'
  BY <1>13 DEF ReadSome, Read, client
<1>14. ASSUME NEW n \in 1..BufSize, WriteSome(n) PROVE  FlagsInv'
  BY <1>14 DEF WriteSome, Wrote, client
<1>15. CASE UNCHANGED echoVars
  BY <1>15 DEF echoVars, client
<1>. QED BY <1>1, <1>2, <1>3, <1>4, <1>5, <1>6, <1>7, <1>8, <1>9, <1>10, <1>11, <1>12, <1>13, <1>14, <1>15 DEF EchoNext, EchoLoop

\* The buffer against what was written.
LEMMA BufStep ==
    ASSUME EchoTypeOK, EchoTypeOK', BufHolds, EchoExact, [EchoNext]_echoVars
    PROVE  BufHolds' /\ EchoExact'
<1>. USE RoomAssumption, BufAssumption DEF EchoTypeOK, BufHolds, EchoExact
<1>1. CASE ClientSends
  BY <1>1 DEF ClientSends, ClientStep, CanArrive, client
<1>2. CASE ClientFinishes
  BY <1>2 DEF ClientFinishes, ClientStep, CanArrive, client
<1>3. CASE ClientResets
  BY <1>3 DEF ClientResets, ClientStep, client
<1>4. CASE ClientTakes
  BY <1>4 DEF ClientTakes, ClientStep, client
<1>5. CASE HandleNewClient
  BY <1>5 DEF HandleNewClient, Blank, client
<1>6. CASE Event
  BY <1>6 DEF Event, client
<1>7. CASE ReadAgain
  BY <1>7 DEF ReadAgain, AfterRead, client
<1>8. CASE ReadFull
  BY <1>8 DEF ReadFull, AfterRead, client
<1>9. CASE ReadEnds
  BY <1>9 DEF ReadEnds, CloseClient, client
<1>10. CASE WriteAgain
  BY <1>10 DEF WriteAgain, client
<1>11. CASE WriteFails
  BY <1>11 DEF WriteFails, CloseClient, client
<1>12. CASE WriteDone
  BY <1>12 DEF WriteDone, Rewind, client
<1>13. ASSUME NEW n \in 1..BufSize, ReadSome(n) PROVE  BufHolds' /\ EchoExact'
  BY <1>13 DEF ReadSome, client
<1>14. ASSUME NEW n \in 1..BufSize, WriteSome(n) PROVE  BufHolds' /\ EchoExact'
  <2>. HIDE DEF EchoTypeOK, BufHolds, EchoExact
  <2>. DEFINE chunk == [i \in 1..n |-> buf[wr + i - 1]]
              k == Len(echoed)
  <2>1. /\ wr + n <= sz /\ wr' = wr + n
        /\ echoed' = echoed \o chunk
        /\ UNCHANGED <<buf, sz, taken>>
    BY <1>14 DEF WriteSome
  <2>2. /\ n \in Nat /\ n > 0 /\ wr \in Nat /\ sz \in Nat /\ sz <= BufSize
        /\ echoed \in Seq(Nat) /\ taken \in Nat
    BY DEF EchoTypeOK
  <2>3. k \in Nat /\ DOMAIN echoed = 1..k
    BY <2>2, LenProperties
  <2>4. ASSUME NEW i \in 1..n PROVE  chunk[i] = k + i
    <3>1. wr + i - 1 \in wr..sz - 1 /\ k + 1 + ((wr + i - 1) - wr) = k + i
      BY <2>1, <2>2, <2>3
    <3>2. buf[wr + i - 1] = k + 1 + ((wr + i - 1) - wr)
      BY <3>1 DEF BufHolds
    <3>. QED BY <3>1, <3>2
  <2>5. chunk \in Seq(Nat) /\ Len(chunk) = n
    <3>1. ASSUME NEW i \in 1..n PROVE  chunk[i] \in Nat
      <4>1. k + i \in Nat
        BY <2>2, <2>3
      <4>. QED BY <2>4, <4>1, Zenon
    <3>. QED BY <2>2, <3>1
  <2>. HIDE DEF chunk, k
  <2>6. /\ Len(echoed \o chunk) = Len(echoed) + Len(chunk)
        /\ \A i \in 1..Len(echoed) + Len(chunk) : (echoed \o chunk)[i] =
                IF i <= Len(echoed) THEN echoed[i] ELSE chunk[i - Len(echoed)]
        /\ (echoed \o chunk) \in Seq(Nat)
    BY <2>2, <2>5, ConcatProperties, Zenon
  <2>7. /\ Len(echoed') = k + n /\ DOMAIN echoed' = 1..k + n
        /\ \A i \in 1..k + n : echoed'[i] = IF i <= k THEN echoed[i] ELSE chunk[i - k]
    <3>1. DOMAIN echoed' = 1..Len(echoed')
      BY <2>1, <2>6, LenProperties
    <3>. QED BY <2>1, <2>5, <2>6, <3>1 DEF k
  <2>8. EchoExact'
    <3>1. ASSUME NEW i \in 1..k + n PROVE  echoed'[i] = i
      <4>1. CASE i <= k
        <5>1. i \in 1..k
          BY <2>2, <2>3, <4>1
        <5>. QED BY <2>3, <2>7, <4>1, <5>1 DEF EchoExact
      <4>2. CASE ~(i <= k)
        <5>1. i - k \in 1..n /\ k + (i - k) = i
          BY <2>2, <2>3, <4>2
        <5>. QED BY <2>4, <2>7, <4>2, <5>1
      <4>. QED BY <4>1, <4>2
    <3>. QED BY <2>7, <3>1 DEF EchoExact
  <2>9. BufHolds'
    <3>1. taken = k + (sz - wr)
      BY DEF BufHolds, k
    <3>2. taken' = Len(echoed') + (sz' - wr')
      <4>1. Len(echoed') = k + n /\ taken' = taken /\ sz' = sz /\ wr' = wr + n
        BY <2>1, <2>7
      <4>. QED BY ONLY <2>2, <2>3, <3>1, <4>1
    <3>3. ASSUME NEW i \in wr + n..sz - 1 PROVE  buf[i] = (k + n) + 1 + (i - (wr + n))
      <4>1. i \in wr..sz - 1 /\ k + 1 + (i - wr) = (k + n) + 1 + (i - (wr + n))
        BY <2>2, <2>3
      <4>2. buf[i] = k + 1 + (i - wr)
        BY <4>1 DEF BufHolds, k
      <4>. QED BY <4>1, <4>2
    <3>. QED BY <2>1, <2>7, <3>2, <3>3 DEF BufHolds
  <2>. QED BY <2>8, <2>9
<1>15. CASE UNCHANGED echoVars
  BY <1>15 DEF echoVars, client
<1>. QED BY <1>1, <1>2, <1>3, <1>4, <1>5, <1>6, <1>7, <1>8, <1>9, <1>10, <1>11, <1>12, <1>13, <1>14, <1>15 DEF EchoNext, EchoLoop

\* Every step keeps the invariant.
LEMMA EchoNextInv == EchoInv /\ [EchoNext]_echoVars => EchoInv'
BY EchoTypeStep, FlagsStep, BufStep DEF EchoInv

\* The invariant holds in every behaviour, without fairness.
LEMMA EchoInvariance == EchoSafety => []EchoInv
BY EchoInitInv, EchoNextInv, PTL DEF EchoSafety

-----------------------------------------------------------------------------
\* Types; sz and wr never leave the buffer and never cross.
THEOREM EchoTypeCorrect == EchoSafety => []EchoTypeOK
<1>1. EchoInv => EchoTypeOK
  BY DEF EchoInv
<1>. QED BY <1>1, EchoInvariance, PTL

\* handle_client_io writes what it read, once and in order.
THEOREM EchoCorrect == EchoSafety => []EchoExact
<1>1. EchoInv => EchoExact
  BY DEF EchoInv
<1>. QED BY <1>1, EchoInvariance, PTL

\* No edge is forgotten: prd and pwr keep it, or epoll still has it.
THEOREM FlagsCorrect == EchoSafety => []FlagsHonest
<1>1. EchoInv => FlagsHonest
  BY DEF EchoInv, EchoTypeOK, FlagsInv, FlagsHonest, Mask, Drained, Socket
<1>. QED BY <1>1, EchoInvariance, PTL

\* An echo that could not be written waits for an event that is to come.
THEOREM EchoServed == EchoSafety => []EchoCovered
<1>1. EchoInv => EchoCovered
  BY DEF EchoInv, EchoTypeOK, FlagsInv, EchoCovered, Mask, Socket
<1>. QED BY <1>1, EchoInvariance, PTL

\* The echo is exact, and no edge and no unwritten byte is forgotten on the way.
THEOREM SoundEcho == EchoSafety => []EchoSound
<1>1. EchoExact /\ FlagsHonest /\ EchoCovered => EchoSound
  BY DEF EchoSound
<1>. QED BY <1>1, EchoCorrect, FlagsCorrect, EchoServed, PTL

-----------------------------------------------------------------------------
(* rs/one_notify *)

\* Once pulse has seen WAITING nobody but itself leaves that state.
TxControl ==
    /\ pc["tx"] \in {"try", "swap", "take", "store"} => state = "WAITING"
    /\ inHand # None <=> pc["tx"] \in {"store", "release", "wake"}
    /\ pc["tx"] = "store" => waker = None

\* What poll knows at each of its steps under the latch.
RxControl ==
    /\ pc["rx"] = "wait" => state # "WAITING" /\ seen = "IDLE"
    /\ pc["rx"] = "waker" => state = "WAITING" /\ seen # "SIGNALED"
    /\ pc["rx"] = "release" =>
          \/ seen = "SIGNALED" /\ state = "SIGNALED"
          \/ seen # "SIGNALED" /\ state = "WAITING" /\ waker = ctx
    /\ pc["rx"] # "idle" \/ parked => ctx # None
    /\ parked => pc["rx"] = "idle"

\* In state WAITING a waker is registered, about to be, or in the sender's hands.
WaitingCovered ==
    state = "WAITING" => waker # None \/ pc["rx"] = "waker" \/ pc["tx"] = "store"

NotifyInv == /\ NotifyTypeOK
        /\ MutualExclusion
        /\ TxControl
        /\ RxControl
        /\ WaitingCovered
        /\ ReadyPaid
        /\ ParkedCovered

-----------------------------------------------------------------------------
\* Nothing is stored and nobody waits.
LEMMA NotifyInitInv == NotifyInit => NotifyInv
BY DEF NotifyInit, NotifyInv, NotifyTypeOK, States, TxSteps, RxSteps, Threads, MutualExclusion, Critical,
       TxControl, RxControl, WaitingCovered, ReadyPaid, ParkedCovered

\* Every step preserves the invariant.
LEMMA NotifyNextInv == NotifyInv /\ [NotifyNext]_notifyVars => NotifyInv'
<1>. SUFFICES ASSUME NotifyInv, [NotifyNext]_notifyVars PROVE NotifyInv'
  OBVIOUS
<1>0. /\ NotifyTypeOK /\ MutualExclusion /\ TxControl /\ RxControl
      /\ WaitingCovered /\ ReadyPaid /\ ParkedCovered
  BY DEF NotifyInv
<1>. USE NoneAssumption DEF Goto, Threads
<1>1. ASSUME NEW x \in Threads, LatchLoad(x) PROVE NotifyInv'
  <2>1. NotifyTypeOK'
    BY <1>0, <1>1 DEF LatchLoad, NotifyTypeOK, TxSteps, RxSteps
  <2>2. MutualExclusion'
    BY <1>0, <1>1 DEF LatchLoad, MutualExclusion, Critical
  <2>3. TxControl'
    BY <1>0, <1>1 DEF LatchLoad, TxControl
  <2>4. RxControl'
    BY <1>0, <1>1 DEF LatchLoad, RxControl
  <2>5. WaitingCovered'
    BY <1>0, <1>1 DEF LatchLoad, WaitingCovered
  <2>6. ReadyPaid'
    BY <1>0, <1>1 DEF LatchLoad, ReadyPaid
  <2>7. ParkedCovered'
    BY <1>0, <1>1 DEF LatchLoad, ParkedCovered
  <2>. QED BY <2>1, <2>2, <2>3, <2>4, <2>5, <2>6, <2>7 DEF NotifyInv
<1>2. ASSUME NEW x \in Threads, LatchSwap(x) PROVE NotifyInv'
  <2>1. NotifyTypeOK'
    BY <1>0, <1>2 DEF LatchSwap, Entry, NotifyTypeOK, TxSteps, RxSteps
  <2>2. MutualExclusion'
    BY <1>0, <1>2 DEF LatchSwap, Expected, Entry, NotifyTypeOK, MutualExclusion, Critical
  <2>3. TxControl'
    BY <1>0, <1>2 DEF LatchSwap, Entry, NotifyTypeOK, TxControl
  <2>4. RxControl'
    BY <1>0, <1>2 DEF LatchSwap, Entry, NotifyTypeOK, RxControl
  <2>5. WaitingCovered'
    BY <1>0, <1>2 DEF LatchSwap, NotifyTypeOK, WaitingCovered
  <2>6. ReadyPaid'
    BY <1>0, <1>2 DEF LatchSwap, Entry, NotifyTypeOK, ReadyPaid
  <2>7. ParkedCovered'
    BY <1>0, <1>2 DEF LatchSwap, RxControl, ParkedCovered
  <2>. QED BY <2>1, <2>2, <2>3, <2>4, <2>5, <2>6, <2>7 DEF NotifyInv
<1>3. CASE Pulse
  <2>1. NotifyTypeOK'
    BY <1>0, <1>3 DEF Pulse, NotifyTypeOK, TxSteps
  <2>2. MutualExclusion'
    BY <1>0, <1>3 DEF Pulse, MutualExclusion, Critical
  <2>3. TxControl'
    BY <1>0, <1>3 DEF Pulse, TxControl
  <2>4. RxControl'
    BY <1>0, <1>3 DEF Pulse, RxControl
  <2>5. WaitingCovered'
    BY <1>0, <1>3 DEF Pulse, WaitingCovered
  <2>6. ReadyPaid'
    BY <1>0, <1>3 DEF Pulse, ReadyPaid
  <2>7. ParkedCovered'
    BY <1>0, <1>3 DEF Pulse, ParkedCovered
  <2>. QED BY <2>1, <2>2, <2>3, <2>4, <2>5, <2>6, <2>7 DEF NotifyInv
<1>4. CASE PulseLoad
  <2>1. NotifyTypeOK'
    BY <1>0, <1>4 DEF PulseLoad, Decided, NotifyTypeOK, TxSteps
  <2>2. MutualExclusion'
    BY <1>0, <1>4 DEF PulseLoad, Decided, MutualExclusion, Critical
  <2>3. TxControl'
    BY <1>0, <1>4 DEF PulseLoad, Decided, TxControl
  <2>4. RxControl'
    BY <1>0, <1>4 DEF PulseLoad, RxControl
  <2>5. WaitingCovered'
    BY <1>0, <1>4 DEF PulseLoad, WaitingCovered
  <2>6. ReadyPaid'
    BY <1>0, <1>4 DEF PulseLoad, ReadyPaid
  <2>7. ParkedCovered'
    BY <1>0, <1>4 DEF PulseLoad, ParkedCovered
  <2>. QED BY <2>1, <2>2, <2>3, <2>4, <2>5, <2>6, <2>7 DEF NotifyInv
<1>5. CASE PulseCas
  <2>1. NotifyTypeOK'
    BY <1>0, <1>5 DEF PulseCas, Decided, NotifyTypeOK, States, TxSteps
  <2>2. MutualExclusion'
    BY <1>0, <1>5 DEF PulseCas, Decided, MutualExclusion, Critical
  <2>3. TxControl'
    BY <1>0, <1>5 DEF PulseCas, Decided, TxControl
  <2>4. RxControl'
    BY <1>0, <1>5 DEF PulseCas, RxControl
  <2>5. WaitingCovered'
    BY <1>0, <1>5 DEF PulseCas, WaitingCovered
  <2>6. ReadyPaid'
    BY <1>0, <1>5 DEF PulseCas, ReadyPaid
  <2>7. ParkedCovered'
    BY <1>0, <1>5 DEF PulseCas, ParkedCovered
  <2>. QED BY <2>1, <2>2, <2>3, <2>4, <2>5, <2>6, <2>7 DEF NotifyInv
<1>6. CASE PulseTake
  <2>1. NotifyTypeOK'
    BY <1>0, <1>6 DEF PulseTake, NotifyTypeOK, TxSteps
  <2>2. MutualExclusion'
    BY <1>0, <1>6 DEF PulseTake, MutualExclusion, Critical
  <2>3. TxControl'
    BY <1>0, <1>6 DEF PulseTake, NotifyTypeOK, MutualExclusion, Critical, TxControl, WaitingCovered
  <2>4. RxControl'
    BY <1>0, <1>6 DEF PulseTake, MutualExclusion, Critical, RxControl
  <2>5. WaitingCovered'
    BY <1>0, <1>6 DEF PulseTake, NotifyTypeOK, WaitingCovered
  <2>6. ReadyPaid'
    BY <1>0, <1>6 DEF PulseTake, ReadyPaid
  <2>7. ParkedCovered'
    BY <1>0, <1>6 DEF PulseTake, NotifyTypeOK, ParkedCovered
  <2>. QED BY <2>1, <2>2, <2>3, <2>4, <2>5, <2>6, <2>7 DEF NotifyInv
<1>7. CASE PulseStore
  <2>1. NotifyTypeOK'
    BY <1>0, <1>7 DEF PulseStore, NotifyTypeOK, States, TxSteps
  <2>2. MutualExclusion'
    BY <1>0, <1>7 DEF PulseStore, MutualExclusion, Critical
  <2>3. TxControl'
    BY <1>0, <1>7 DEF PulseStore, NotifyTypeOK, TxControl
  <2>4. RxControl'
    BY <1>0, <1>7 DEF PulseStore, MutualExclusion, Critical, RxControl
  <2>5. WaitingCovered'
    BY <1>0, <1>7 DEF PulseStore, WaitingCovered
  <2>6. ReadyPaid'
    BY <1>0, <1>7 DEF PulseStore, TxControl, ReadyPaid
  <2>7. ParkedCovered'
    BY <1>0, <1>7 DEF PulseStore, TxControl, RxControl, ParkedCovered
  <2>. QED BY <2>1, <2>2, <2>3, <2>4, <2>5, <2>6, <2>7 DEF NotifyInv
<1>8. CASE PulseRelease
  <2>1. NotifyTypeOK'
    BY <1>0, <1>8 DEF PulseRelease, Unlocked, NotifyTypeOK, TxSteps
  <2>2. MutualExclusion'
    BY <1>0, <1>8 DEF PulseRelease, Unlocked, NotifyTypeOK, MutualExclusion, Critical
  <2>3. TxControl'
    BY <1>0, <1>8 DEF PulseRelease, TxControl
  <2>4. RxControl'
    BY <1>0, <1>8 DEF PulseRelease, RxControl
  <2>5. WaitingCovered'
    BY <1>0, <1>8 DEF PulseRelease, WaitingCovered
  <2>6. ReadyPaid'
    BY <1>0, <1>8 DEF PulseRelease, ReadyPaid
  <2>7. ParkedCovered'
    BY <1>0, <1>8 DEF PulseRelease, ParkedCovered
  <2>. QED BY <2>1, <2>2, <2>3, <2>4, <2>5, <2>6, <2>7 DEF NotifyInv
<1>9. CASE PulseWake
  <2>1. NotifyTypeOK'
    BY <1>0, <1>9 DEF PulseWake, WakenBy, NotifyTypeOK, TxSteps, TxControl
  <2>2. MutualExclusion'
    BY <1>0, <1>9 DEF PulseWake, MutualExclusion, Critical
  <2>3. TxControl'
    BY <1>0, <1>9 DEF PulseWake, NotifyTypeOK, TxControl
  <2>4. RxControl'
    BY <1>0, <1>9 DEF PulseWake, RxControl
  <2>5. WaitingCovered'
    BY <1>0, <1>9 DEF PulseWake, WaitingCovered
  <2>6. ReadyPaid'
    BY <1>0, <1>9 DEF PulseWake, ReadyPaid
  <2>7. ParkedCovered'
    BY <1>0, <1>9 DEF PulseWake, WakenBy, ParkedCovered
  <2>. QED BY <2>1, <2>2, <2>3, <2>4, <2>5, <2>6, <2>7 DEF NotifyInv
<1>10. ASSUME NEW v \in Wakers, Poll(v) PROVE NotifyInv'
  <2>1. NotifyTypeOK'
    BY <1>0, <1>10 DEF Poll, NotifyTypeOK, RxSteps
  <2>2. MutualExclusion'
    BY <1>0, <1>10 DEF Poll, MutualExclusion, Critical
  <2>3. TxControl'
    BY <1>0, <1>10 DEF Poll, TxControl
  <2>4. RxControl'
    BY <1>0, <1>10 DEF Poll, RxControl
  <2>5. WaitingCovered'
    BY <1>0, <1>10 DEF Poll, WaitingCovered
  <2>6. ReadyPaid'
    BY <1>0, <1>10 DEF Poll, ReadyPaid
  <2>7. ParkedCovered'
    BY <1>0, <1>10 DEF Poll, ParkedCovered
  <2>. QED BY <2>1, <2>2, <2>3, <2>4, <2>5, <2>6, <2>7 DEF NotifyInv
<1>11. CASE PollLoad
  <2>1. NotifyTypeOK'
    BY <1>0, <1>11 DEF PollLoad, NotifyTypeOK, RxSteps
  <2>2. MutualExclusion'
    BY <1>0, <1>11 DEF PollLoad, MutualExclusion, Critical
  <2>3. TxControl'
    BY <1>0, <1>11 DEF PollLoad, TxControl
  <2>4. RxControl'
    BY <1>0, <1>11 DEF PollLoad, RxControl
  <2>5. WaitingCovered'
    BY <1>0, <1>11 DEF PollLoad, WaitingCovered
  <2>6. ReadyPaid'
    BY <1>0, <1>11 DEF PollLoad, ReadyPaid
  <2>7. ParkedCovered'
    BY <1>0, <1>11 DEF PollLoad, ParkedCovered
  <2>. QED BY <2>1, <2>2, <2>3, <2>4, <2>5, <2>6, <2>7 DEF NotifyInv
<1>12. CASE PollReload
  <2>1. NotifyTypeOK'
    BY <1>0, <1>12 DEF PollReload, NotifyTypeOK, States, RxSteps
  <2>2. MutualExclusion'
    BY <1>0, <1>12 DEF PollReload, States, NotifyTypeOK, MutualExclusion, Critical
  <2>3. TxControl'
    BY <1>0, <1>12 DEF PollReload, TxControl
  <2>4. RxControl'
    BY <1>0, <1>12 DEF PollReload, NotifyTypeOK, States, RxControl
  <2>5. WaitingCovered'
    BY <1>0, <1>12 DEF PollReload, WaitingCovered
  <2>6. ReadyPaid'
    BY <1>0, <1>12 DEF PollReload, States, NotifyTypeOK, ReadyPaid
  <2>7. ParkedCovered'
    BY <1>0, <1>12 DEF PollReload, ParkedCovered
  <2>. QED BY <2>1, <2>2, <2>3, <2>4, <2>5, <2>6, <2>7 DEF NotifyInv
<1>13. CASE PollWait
  <2>1. NotifyTypeOK'
    BY <1>0, <1>13 DEF PollWait, NotifyTypeOK, States, RxSteps
  <2>2. MutualExclusion'
    BY <1>0, <1>13 DEF PollWait, MutualExclusion, Critical
  <2>3. TxControl'
    BY <1>0, <1>13 DEF PollWait, TxControl
  <2>4. RxControl'
    BY <1>0, <1>13 DEF PollWait, NotifyTypeOK, RxControl
  <2>5. WaitingCovered'
    BY <1>0, <1>13 DEF PollWait, NotifyTypeOK, WaitingCovered
  <2>6. ReadyPaid'
    BY <1>0, <1>13 DEF PollWait, ReadyPaid
  <2>7. ParkedCovered'
    BY <1>0, <1>13 DEF PollWait, ParkedCovered
  <2>. QED BY <2>1, <2>2, <2>3, <2>4, <2>5, <2>6, <2>7 DEF NotifyInv
<1>14. CASE PollWaker
  <2>1. NotifyTypeOK'
    BY <1>0, <1>14 DEF PollWaker, Registered, NotifyTypeOK, RxSteps
  <2>2. MutualExclusion'
    BY <1>0, <1>14 DEF PollWaker, MutualExclusion, Critical
  <2>3. TxControl'
    BY <1>0, <1>14 DEF PollWaker, MutualExclusion, Critical, TxControl
  <2>4. RxControl'
    BY <1>0, <1>14 DEF PollWaker, Registered, RxControl
  <2>5. WaitingCovered'
    BY <1>0, <1>14 DEF PollWaker, Registered, WaitingCovered, RxControl
  <2>6. ReadyPaid'
    BY <1>0, <1>14 DEF PollWaker, ReadyPaid
  <2>7. ParkedCovered'
    BY <1>0, <1>14 DEF PollWaker, RxControl, ParkedCovered
  <2>. QED BY <2>1, <2>2, <2>3, <2>4, <2>5, <2>6, <2>7 DEF NotifyInv
<1>15. CASE PollRelease
  <2>1. NotifyTypeOK'
    BY <1>0, <1>15 DEF PollRelease, Unlocked, NotifyTypeOK, RxSteps
  <2>2. MutualExclusion'
    BY <1>0, <1>15 DEF PollRelease, Unlocked, NotifyTypeOK, MutualExclusion, Critical
  <2>3. TxControl'
    BY <1>0, <1>15 DEF PollRelease, NotifyTypeOK, TxControl
  <2>4. RxControl'
    BY <1>0, <1>15 DEF PollRelease, NotifyTypeOK, RxControl
  <2>5. WaitingCovered'
    BY <1>0, <1>15 DEF PollRelease, WaitingCovered, RxControl
  <2>6. ReadyPaid'
    BY <1>0, <1>15 DEF PollRelease, Unsignaled, NotifyTypeOK, RxControl, ReadyPaid
  <2>7. ParkedCovered'
    BY <1>0, <1>15 DEF PollRelease, Unsignaled, RxControl, ParkedCovered
  <2>. QED BY <2>1, <2>2, <2>3, <2>4, <2>5, <2>6, <2>7 DEF NotifyInv
<1>16. CASE PollReady
  <2>1. NotifyTypeOK'
    BY <1>0, <1>16 DEF PollReady, NotifyTypeOK, States, RxSteps
  <2>2. MutualExclusion'
    BY <1>0, <1>16 DEF PollReady, MutualExclusion, Critical
  <2>3. TxControl'
    BY <1>0, <1>16 DEF PollReady, TxControl, ReadyPaid
  <2>4. RxControl'
    BY <1>0, <1>16 DEF PollReady, RxControl
  <2>5. WaitingCovered'
    BY <1>0, <1>16 DEF PollReady, WaitingCovered
  <2>6. ReadyPaid'
    BY <1>0, <1>16 DEF PollReady, NotifyTypeOK, ReadyPaid
  <2>7. ParkedCovered'
    BY <1>0, <1>16 DEF PollReady, ReadyPaid, ParkedCovered
  <2>. QED BY <2>1, <2>2, <2>3, <2>4, <2>5, <2>6, <2>7 DEF NotifyInv
<1>17. CASE UNCHANGED notifyVars
  BY <1>0, <1>17 DEF NotifyInv, notifyVars, NotifyTypeOK, MutualExclusion, TxControl, RxControl, WaitingCovered,
     ReadyPaid, ParkedCovered
<1>. QED BY <1>1, <1>2, <1>3, <1>4, <1>5, <1>6, <1>7, <1>8, <1>9, <1>10, <1>11, <1>12, <1>13, <1>14, <1>15, <1>16, <1>17 DEF NotifyNext, TxStep, RxStep

\* The inductive invariant holds in every reachable state.
THEOREM NotifyInvariance == NotifySafety => []NotifyInv
<1>1. NotifyInit => NotifyInv
  BY NotifyInitInv
<1>2. NotifyInv /\ [NotifyNext]_notifyVars => NotifyInv'
  BY NotifyNextInv
<1>. QED BY <1>1, <1>2, PTL DEF NotifySafety

\* The words of the notification keep their types.
THEOREM NotifyTypeCorrect == NotifySafety => []NotifyTypeOK
<1>1. NotifyInv => NotifyTypeOK
  BY DEF NotifyInv
<1>. QED BY <1>1, NotifyInvariance, PTL

\* The latch lets one side at a time use the waker cell, and the assertion "waker must be
\* not none" of pulse never fails.
THEOREM AssertionHolds == NotifySafety => []CellGuarded
<1>1. NotifyInv => CellGuarded
  BY DEF NotifyInv, TxControl, WakerPresent, CellGuarded
<1>. QED BY <1>1, NotifyInvariance, PTL

\* Every Ready consumes a signal that a pulse has set.
THEOREM NoReadyWithoutPulse == NotifySafety => []ReadyPaid
<1>1. NotifyInv => ReadyPaid
  BY DEF NotifyInv
<1>. QED BY <1>1, NotifyInvariance, PTL

\* A sleeping receiver can always be woken through the waker of its latest poll.
THEOREM WakerNeverLost == NotifySafety => []ParkedCovered
<1>1. NotifyInv => ParkedCovered
  BY DEF NotifyInv
<1>. QED BY <1>1, NotifyInvariance, PTL

-----------------------------------------------------------------------------
(* go/gorpool *)

\* Where a gor is while it is on the slice, being addressed, or holding a
\* function in its channel; and that one which was never started is untouched.
Placed ==
    /\ \A i \in 1 .. Len(idle) : where[idle[i]] \in {"select", "expired"}
    /\ \A c \in Callers : to[c] # Nil => where[to[c]] \in {"select", "expired"}
    /\ \A g \in Gors : /\ ch[g] # Nil => where[g] \in {"select", "expired"}
                       /\ where[g] = "free" => idx[g] = -1

PoolInv == TypeOK /\ IdleExact /\ BusyOnce /\ SendReady /\ FnHeld /\ Placed

-----------------------------------------------------------------------------
\* The slice without its last element.
LEMMA FrontProperties ==
    ASSUME NEW s \in Seq(Gors), s # <<>>
    PROVE  /\ Len(s) \in Nat \ {0}
           /\ Front(s) \in Seq(Gors)
           /\ Len(Front(s)) = Len(s) - 1
           /\ \A i \in 1 .. Len(s) - 1 : Front(s)[i] = s[i]
<1>1. Len(s) \in Nat \ {0} /\ \A i \in 1 .. Len(s) : s[i] \in Gors
  BY EmptySeq
<1>2. \A i \in 1 .. Len(s) - 1 : s[i] \in Gors
  BY <1>1
<1>. DEFINE u == SubSeq(s, 1, Len(s) - 1)
<1>3. /\ u \in Seq(Gors)
      /\ Len(u) = IF 1 <= Len(s) - 1 THEN (Len(s) - 1) - 1 + 1 ELSE 0
      /\ \A i \in 1 .. (Len(s) - 1) - 1 + 1 : u[i] = s[1 + i - 1]
  BY <1>1, <1>2, SubSeqProperties
<1>4. u = Front(s)
  BY DEF Front
<1>. HIDE DEF u
<1>5. Len(u) = Len(s) - 1
  <2>1. \A n \in Nat \ {0} : (IF 1 <= n - 1 THEN (n - 1) - 1 + 1 ELSE 0) = n - 1
    OBVIOUS
  <2>. QED BY <1>1, <1>3, <2>1
<1>6. \A i \in 1 .. Len(s) - 1 : u[i] = s[i]
  BY <1>1, <1>3
<1>. QED BY <1>1, <1>3, <1>4, <1>5, <1>6

\* No gor was started.
LEMMA PoolInitInv == Init => PoolInv
<1>. SUFFICES ASSUME Init PROVE PoolInv
  OBVIOUS
<1>1. TypeOK
  BY EmptySeq DEF Init, TypeOK, Stages
<1>2. IdleExact /\ SendReady /\ Placed
  BY DEF Init, IdleExact, SendReady, Placed
<1>3. BusyOnce /\ FnHeld
  BY NilAssumption DEF Init, BusyOnce, Busy, FnHeld, Pending
<1>. QED BY <1>1, <1>2, <1>3 DEF PoolInv

\* A caller claims gor g, which nobody else uses.
LEMMA AddressInv ==
    ASSUME PoolInv, NEW c \in Callers, NEW f \in Fns, NEW g \in Gors, Address(c, f, g),
           ~Busy(g), where'[g] \in {"select", "expired"}, idx'[g] = -1,
           \A h \in Gors \ {g} : where'[h] = where[h] /\ idx'[h] = idx[h],
           IdleExact', TypeOK', \A i \in 1 .. Len(idle') : where'[idle'[i]] \in {"select", "expired"}
    PROVE  PoolInv'
<1>0. TypeOK /\ BusyOnce /\ SendReady /\ FnHeld /\ Placed
  BY DEF PoolInv
<1>1. /\ fn' = [fn EXCEPT ![c] = f] /\ to' = [to EXCEPT ![c] = g]
      /\ passed' = passed \cup {f} /\ f \notin passed /\ fn[c] = Nil /\ to[c] = Nil
      /\ ch' = ch /\ job' = job /\ returned' = returned
  BY <1>0 DEF Address, TypeOK
<1>2. ch[g] = Nil /\ job[g] = Nil /\ \A d \in Callers : to[d] # g
  BY <1>0 DEF Busy, TypeOK
<1>3. BusyOnce'
  <2>1. \A h \in Gors \ {g} : Busy(h)' => Busy(h)
    BY <1>0, <1>1 DEF Busy, TypeOK
  <2>. QED BY <1>0, <1>1, <1>2, <2>1 DEF BusyOnce, TypeOK
<1>4. SendReady' /\ Placed'
  BY <1>0, <1>1, <1>2 DEF SendReady, Placed, TypeOK
<1>5. FnHeld'
  <2>1. Pending' = Pending \cup {f} /\ f \notin Pending
    BY <1>0, <1>1 DEF Pending, TypeOK
  <2>2. \A d \in Callers : fn'[d] = IF d = c THEN f ELSE fn[d]
    BY <1>0, <1>1 DEF TypeOK
  <2>3. \A p \in Pending' : \/ \E d \in Callers : fn'[d] = p
                            \/ \E h \in Gors : ch'[h] = p \/ job'[h] = p
    BY <1>0, <1>1, <2>1, <2>2, NilAssumption DEF FnHeld, TypeOK
  <2>4. /\ \A d \in Callers : fn[d] # f
        /\ \A h \in Gors : ch[h] # f /\ job[h] # f
    BY <1>0, <2>1, NilAssumption DEF FnHeld
  <2>. QED BY <1>0, <1>1, <2>1, <2>2, <2>3, <2>4 DEF FnHeld
<1>. QED BY <1>3, <1>4, <1>5 DEF PoolInv
\* Go pops the last idle gor.
LEMMA GoReuseInv ==
    ASSUME PoolInv, NEW c \in Callers, NEW f \in Fns, GoReuse(c, f)
    PROVE  PoolInv'
<1>. DEFINE n == Len(idle)
            g == idle[n]
<1>0. TypeOK /\ IdleExact /\ BusyOnce /\ Placed
  BY DEF PoolInv
<1>1. /\ n \in Nat \ {0} /\ idle' \in Seq(Gors) /\ Len(idle') = n - 1
      /\ \A i \in 1 .. n - 1 : idle'[i] = idle[i]
  BY <1>0, FrontProperties DEF GoReuse, Popped, TypeOK
<1>2. n \in 1 .. n /\ g \in Gors /\ \A i \in 1 .. n : idle[i] \in Gors
  BY <1>0, <1>1 DEF TypeOK
<1>3. Address(c, f, g) /\ idx' = [idx EXCEPT ![g] = -1] /\ where' = where
  BY DEF GoReuse, Claimed
<1>. HIDE DEF n, g
<1>4. idx[g] = n - 1 /\ where[g] \in {"select", "expired"}
  BY <1>0, <1>2 DEF IdleExact, Placed, g, n
<1>5. ~Busy(g)
  BY <1>0, <1>1, <1>2, <1>4 DEF BusyOnce
<1>6. \A i \in 1 .. n - 1 : idle[i] # g /\ i \in 1 .. n
  BY <1>0, <1>1, <1>4 DEF IdleExact, n
<1>7. IdleExact'
  <2>1. \A i \in 1 .. n - 1 : idx'[idle[i]] = i - 1
    BY <1>0, <1>1, <1>2, <1>3, <1>6 DEF IdleExact, TypeOK, n
  <2>2. ASSUME NEW h \in Gors, idx'[h] >= 0, where'[h] # "down"
        PROVE  idx'[h] < n - 1 /\ idle'[idx'[h] + 1] = h
    <3>1. h # g /\ idx'[h] = idx[h]
      BY <1>0, <1>2, <1>3, <2>2 DEF TypeOK
    <3>2. idx[h] \in Nat /\ idx[h] < n /\ idle[idx[h] + 1] = h
      BY <1>0, <1>3, <2>2, <3>1 DEF IdleExact, TypeOK, n
    <3>3. idx[h] # n - 1
      BY <1>1, <3>1, <3>2 DEF g
    <3>. QED BY <1>1, <3>1, <3>2, <3>3
  <2>. QED BY <1>1, <2>1, <2>2 DEF IdleExact
<1>8. TypeOK'
  BY <1>0, <1>1, <1>2, <1>3, NilAssumption DEF Address, TypeOK
<1>9. \A i \in 1 .. Len(idle') : where'[idle'[i]] \in {"select", "expired"}
  BY <1>0, <1>1, <1>3, <1>6 DEF Placed, n
<1>10. /\ where'[g] \in {"select", "expired"} /\ idx'[g] = -1
       /\ \A h \in Gors \ {g} : where'[h] = where[h] /\ idx'[h] = idx[h]
  BY <1>0, <1>2, <1>3, <1>4 DEF TypeOK
<1>. QED BY <1>2, <1>3, <1>5, <1>7, <1>8, <1>9, <1>10, AddressInv

\* Go starts a new gor.
LEMMA GoNewInv ==
    ASSUME PoolInv, NEW c \in Callers, NEW f \in Fns, NEW g \in Gors, GoNew(c, f, g)
    PROVE  PoolInv'
<1>0. TypeOK /\ IdleExact /\ BusyOnce /\ Placed
  BY DEF PoolInv
<1>1. /\ idle = <<>> /\ idle' = <<>> /\ idx' = idx /\ where[g] = "free"
      /\ where' = [where EXCEPT ![g] = "select"] /\ Address(c, f, g)
  BY DEF GoNew
<1>2. ~Busy(g) /\ idx[g] = -1
  BY <1>0, <1>1 DEF BusyOnce, Placed
<1>3. IdleExact' /\ \A i \in 1 .. Len(idle') : where'[idle'[i]] \in {"select", "expired"}
  BY <1>0, <1>1, <1>2 DEF IdleExact, TypeOK
<1>4. TypeOK'
  BY <1>0, <1>1, NilAssumption DEF Address, TypeOK, Stages
<1>5. /\ where'[g] \in {"select", "expired"} /\ idx'[g] = -1
      /\ \A h \in Gors \ {g} : where'[h] = where[h] /\ idx'[h] = idx[h]
  BY <1>0, <1>1, <1>2 DEF TypeOK
<1>. QED BY <1>1, <1>2, <1>3, <1>4, <1>5, AddressInv

\* The send fills the channel of a gor that has nothing else.
LEMMA SendInv ==
    ASSUME PoolInv, NEW c \in Callers, Send(c)
    PROVE  PoolInv'
<1>. DEFINE g == to[c]
<1>0. TypeOK /\ IdleExact /\ BusyOnce /\ SendReady /\ FnHeld /\ Placed
  BY DEF PoolInv
<1>1. /\ fn[c] # Nil /\ fn[c] \in Fns /\ g \in Gors /\ g # Nil
      /\ ch[g] = Nil /\ job[g] = Nil
  BY <1>0 DEF Send, TypeOK, SendReady
<1>2. /\ ch' = [ch EXCEPT ![g] = fn[c]]
      /\ fn' = [fn EXCEPT ![c] = Nil] /\ to' = [to EXCEPT ![c] = Nil]
      /\ UNCHANGED <<idle, idx, where, job, passed, returned>>
  BY DEF Send
<1>3. \A d \in Callers : d # c => to[d] # g /\ to'[d] = to[d] /\ fn'[d] = fn[d]
  BY <1>0, <1>1, <1>2 DEF BusyOnce, TypeOK
<1>4. to'[c] = Nil /\ fn'[c] = Nil /\ ch'[g] = fn[c] /\ \A h \in Gors \ {g} : ch'[h] = ch[h]
  BY <1>0, <1>1, <1>2 DEF TypeOK
<1>5. Busy(g) /\ where[g] \in {"select", "expired"}
  BY <1>0, <1>1 DEF Busy, Placed
<1>. HIDE DEF g
<1>6. TypeOK'
  BY <1>0, <1>1, <1>2 DEF TypeOK
<1>7. IdleExact'
  BY <1>0, <1>2 DEF IdleExact
<1>8. BusyOnce'
  <2>1. \A h \in Gors : Busy(h)' => Busy(h)
    BY <1>0, <1>1, <1>2, <1>3, <1>4, <1>5, NilAssumption DEF Busy
  <2>. QED BY <1>0, <1>2, <1>3, <1>4, <2>1 DEF BusyOnce
<1>9. SendReady' /\ Placed'
  <2>1. \A d \in Callers : to'[d] # Nil => d # c /\ to'[d] # g /\ to'[d] = to[d] /\ to[d] \in Gors
    BY <1>0, <1>3, <1>4 DEF TypeOK
  <2>2. SendReady'
    BY <1>0, <1>2, <1>4, <2>1 DEF SendReady
  <2>. QED BY <1>0, <1>2, <1>4, <1>5, <2>1, <2>2 DEF Placed
<1>10. FnHeld'
  <2>1. /\ fn[c] \in Pending /\ Pending' = Pending
        /\ \A d \in Callers : d # c => fn[d] # fn[c]
        /\ \A h \in Gors : ch[h] # fn[c] /\ job[h] # fn[c]
    BY <1>0, <1>1, <1>2 DEF FnHeld, Pending
  <2>2. \A f \in Pending' : \/ \E d \in Callers : fn'[d] = f
                            \/ \E h \in Gors : ch'[h] = f \/ job'[h] = f
    <3>1. Nil \notin Pending
      BY <1>0, NilAssumption DEF TypeOK, Pending
    <3>2. \A h \in Gors : ch[h] # Nil => h # g
      BY <1>1
    <3>. QED BY <1>0, <1>1, <1>2, <1>3, <1>4, <2>1, <3>1, <3>2 DEF FnHeld
  <2>3. \A d \in Callers : fn'[d] # Nil => d # c /\ fn'[d] = fn[d] /\ fn[d] # Nil
    BY <1>3, <1>4
  <2>4. \A h \in Gors : \/ h = g /\ ch'[h] = fn[c]
                        \/ h # g /\ ch'[h] = ch[h]
    BY <1>4
  <2>5. \A d \in Callers : fn'[d] # Nil =>
          /\ fn'[d] \in Pending
          /\ \A e \in Callers : fn'[e] = fn'[d] => e = d
          /\ \A h \in Gors : ch'[h] # fn'[d] /\ job'[h] # fn'[d]
    BY <1>0, <1>2, <2>1, <2>3, <2>4 DEF FnHeld
  <2>6. \A h \in Gors : ch'[h] # Nil =>
          /\ ch'[h] \in Pending
          /\ \A k \in Gors : job'[k] # ch'[h] /\ (ch'[k] = ch'[h] => k = h)
    BY <1>0, <1>2, <2>1, <2>4 DEF FnHeld
  <2>. QED BY <1>0, <1>2, <2>1, <2>2, <2>5, <2>6 DEF FnHeld
<1>. QED BY <1>6, <1>7, <1>8, <1>9, <1>10 DEF PoolInv

\* The function moves from the channel to the gor.
LEMMA ReceiveInv ==
    ASSUME PoolInv, NEW g \in Gors, Receive(g)
    PROVE  PoolInv'
<1>0. TypeOK /\ IdleExact /\ BusyOnce /\ SendReady /\ FnHeld /\ Placed
  BY DEF PoolInv
<1>1. /\ ch[g] # Nil /\ ch[g] \in Fns /\ where[g] = "select" /\ job[g] = Nil
      /\ idx[g] = -1 /\ Busy(g)
  BY <1>0 DEF Receive, TypeOK, BusyOnce, Busy
<1>2. /\ job' = [job EXCEPT ![g] = ch[g]] /\ ch' = [ch EXCEPT ![g] = Nil]
      /\ where' = [where EXCEPT ![g] = "run"]
      /\ UNCHANGED <<idle, idx, fn, to, passed, returned>>
  BY DEF Receive, callers
<1>3. /\ job'[g] = ch[g] /\ ch'[g] = Nil /\ where'[g] = "run"
      /\ \A h \in Gors \ {g} : job'[h] = job[h] /\ ch'[h] = ch[h] /\ where'[h] = where[h]
  BY <1>0, <1>2 DEF TypeOK
<1>4. \A c \in Callers : to[c] # g
  BY <1>0, <1>1, NilAssumption DEF SendReady, TypeOK
<1>5. TypeOK'
  BY <1>0, <1>1, <1>2 DEF TypeOK, Stages
<1>6. IdleExact'
  BY <1>0, <1>1, <1>2, <1>3 DEF IdleExact
<1>7. BusyOnce'
  <2>1. \A h \in Gors \ {g} : Busy(h)' => Busy(h)
    BY <1>2, <1>3 DEF Busy
  <2>. QED BY <1>0, <1>1, <1>2, <1>3, <2>1 DEF BusyOnce
<1>8. SendReady'
  BY <1>0, <1>2, <1>3, <1>4 DEF SendReady, TypeOK
<1>9. Placed'
  <2>1. \A i \in 1 .. Len(idle) : idle[i] # g /\ idle[i] \in Gors
    BY <1>0, <1>1 DEF IdleExact, TypeOK
  <2>. QED BY <1>0, <1>1, <1>2, <1>3, <1>4, <2>1 DEF Placed, TypeOK
<1>10. FnHeld'
  <2>1. /\ ch[g] \in Pending /\ Pending' = Pending
        /\ \A d \in Callers : fn[d] # ch[g]
        /\ \A h \in Gors : job[h] # ch[g] /\ (ch[h] = ch[g] => h = g)
    BY <1>0, <1>1, <1>2 DEF FnHeld, Pending
  <2>2. Nil \notin Pending
    BY <1>0, NilAssumption DEF TypeOK, Pending
  <2>3. \A f \in Pending' : \/ \E d \in Callers : fn'[d] = f
                            \/ \E h \in Gors : ch'[h] = f \/ job'[h] = f
    BY <1>0, <1>1, <1>2, <1>3, <2>1, <2>2 DEF FnHeld
  <2>4. \A h \in Gors : /\ job'[h] = IF h = g THEN ch[g] ELSE job[h]
                        /\ ch'[h] = IF h = g THEN Nil ELSE ch[h]
    BY <1>3
  <2>. QED BY <1>0, <1>2, <2>1, <2>3, <2>4 DEF FnHeld
<1>. QED BY <1>5, <1>6, <1>7, <1>8, <1>9, <1>10 DEF PoolInv

\* The gor has nothing left and is not on the slice.
LEMMA FnReturnsInv ==
    ASSUME PoolInv, NEW g \in Gors, FnReturns(g)
    PROVE  PoolInv'
<1>0. TypeOK /\ IdleExact /\ BusyOnce /\ SendReady /\ FnHeld /\ Placed
  BY DEF PoolInv
<1>1. /\ job[g] # Nil /\ job[g] \in Fns /\ where[g] = "run" /\ Busy(g) /\ idx[g] = -1
  BY <1>0 DEF FnReturns, TypeOK, BusyOnce, Busy
<1>2. /\ job' = [job EXCEPT ![g] = Nil] /\ where' = [where EXCEPT ![g] = "park"]
      /\ returned' = returned \cup {job[g]}
      /\ UNCHANGED <<idle, idx, ch, fn, to, passed>>
  BY DEF FnReturns, callers
<1>3. /\ job'[g] = Nil /\ where'[g] = "park"
      /\ \A h \in Gors \ {g} : job'[h] = job[h] /\ where'[h] = where[h]
  BY <1>0, <1>2 DEF TypeOK
<1>4. \A c \in Callers : to[c] # g
  BY <1>0, <1>1, NilAssumption DEF SendReady, TypeOK
<1>5. /\ job[g] \in Pending /\ Pending' = Pending \ {job[g]}
  BY <1>0, <1>1, <1>2 DEF FnHeld, Pending
<1>6. TypeOK'
  BY <1>0, <1>1, <1>2, <1>5 DEF TypeOK, Stages, Pending
<1>7. IdleExact'
  BY <1>0, <1>1, <1>2, <1>3 DEF IdleExact
<1>8. BusyOnce'
  <2>1. \A h \in Gors \ {g} : Busy(h)' => Busy(h)
    BY <1>2, <1>3 DEF Busy
  <2>. QED BY <1>0, <1>1, <1>2, <1>3, <2>1 DEF BusyOnce
<1>9. SendReady'
  BY <1>0, <1>2, <1>3, <1>4 DEF SendReady, TypeOK
<1>10. Placed'
  <2>1. \A i \in 1 .. Len(idle) : idle[i] # g /\ idle[i] \in Gors
    BY <1>0, <1>1 DEF IdleExact, TypeOK
  <2>2. ch[g] = Nil
    BY <1>0, <1>1 DEF Placed
  <2>. QED BY <1>0, <1>1, <1>2, <1>3, <1>4, <2>1, <2>2 DEF Placed, TypeOK
<1>11. FnHeld'
  <2>1. /\ \A d \in Callers : fn[d] # job[g]
        /\ \A h \in Gors : ch[h] # job[g] /\ (job[h] = job[g] => h = g)
    BY <1>0, <1>1 DEF FnHeld
  <2>2. \A h \in Gors : job'[h] = IF h = g THEN Nil ELSE job[h]
    BY <1>3
  <2>3. \A f \in Pending' : \/ \E d \in Callers : fn'[d] = f
                            \/ \E h \in Gors : ch'[h] = f \/ job'[h] = f
    BY <1>0, <1>2, <1>5, <2>1, <2>2 DEF FnHeld
  <2>. QED BY <1>0, <1>2, <1>5, <2>1, <2>2, <2>3 DEF FnHeld
<1>. QED BY <1>6, <1>7, <1>8, <1>9, <1>10, <1>11 DEF PoolInv

\* The slice grows by a gor that nobody addresses.
LEMMA ParkInv ==
    ASSUME PoolInv, NEW g \in Gors, Park(g)
    PROVE  PoolInv'
<1>. DEFINE n == Len(idle)
<1>0. TypeOK /\ IdleExact /\ BusyOnce /\ SendReady /\ FnHeld /\ Placed
  BY DEF PoolInv
<1>1. /\ where[g] = "park" /\ idx[g] = -1 /\ Busy(g) /\ n \in Nat
  BY <1>0 DEF Park, TypeOK, BusyOnce, Busy
<1>2. /\ idx' = [idx EXCEPT ![g] = n] /\ where' = [where EXCEPT ![g] = "select"]
      /\ UNCHANGED <<ch, job, fn, to, passed, returned>>
  BY DEF Park, callers
<1>3. /\ idx'[g] = n /\ where'[g] = "select"
      /\ \A h \in Gors \ {g} : idx'[h] = idx[h] /\ where'[h] = where[h]
  BY <1>0, <1>1, <1>2 DEF TypeOK
<1>4. /\ idle' \in Seq(Gors) /\ Len(idle') = n + 1 /\ idle'[n + 1] = g
      /\ \A i \in 1 .. n : idle'[i] = idle[i]
  BY <1>0, AppendProperties DEF Park, TypeOK
<1>5. \A i \in 1 .. n : idle[i] # g /\ idle[i] \in Gors
  BY <1>0, <1>1 DEF IdleExact, TypeOK
<1>6. ch[g] = Nil /\ job[g] = Nil /\ \A c \in Callers : to[c] # g
  BY <1>0, <1>1, NilAssumption DEF Placed, TypeOK
<1>. HIDE DEF n
<1>7. TypeOK'
  BY <1>0, <1>1, <1>2, <1>4, <1>6 DEF TypeOK, Stages
<1>8. IdleExact'
  <2>1. \A i \in 1 .. n + 1 : idx'[idle'[i]] = i - 1
    <3>1. \A i \in 1 .. n + 1 : i \in 1 .. n \/ i = n + 1
      BY <1>1
    <3>. QED BY <1>0, <1>1, <1>3, <1>4, <1>5, <3>1 DEF IdleExact, n
  <2>2. ASSUME NEW h \in Gors, idx'[h] >= 0, where'[h] # "down"
        PROVE  idx'[h] < n + 1 /\ idle'[idx'[h] + 1] = h
    <3>1. CASE h = g
      BY <1>1, <1>3, <1>4, <3>1
    <3>2. CASE h # g
      <4>1. idx'[h] = idx[h] /\ idx[h] \in Nat /\ idx[h] < n /\ idle[idx[h] + 1] = h
        BY <1>0, <1>3, <2>2, <3>2 DEF IdleExact, TypeOK, n
      <4>2. idx[h] + 1 \in 1 .. n
        BY <1>1, <4>1
      <4>. QED BY <1>1, <1>4, <4>1, <4>2
    <3>. QED BY <3>1, <3>2
  <2>. QED BY <1>4, <2>1, <2>2 DEF IdleExact
<1>9. BusyOnce'
  <2>1. \A h \in Gors \ {g} : Busy(h)' => Busy(h)
    BY <1>2, <1>3 DEF Busy
  <2>2. ~Busy(g)'
    BY <1>2, <1>3, <1>6 DEF Busy
  <2>. QED BY <1>0, <1>2, <1>3, <2>1, <2>2 DEF BusyOnce
<1>10. SendReady' /\ FnHeld'
  BY <1>0, <1>2 DEF SendReady, FnHeld, Pending
<1>11. Placed'
  <2>1. \A i \in 1 .. Len(idle') : where'[idle'[i]] \in {"select", "expired"}
    <3>1. \A i \in 1 .. n + 1 : i \in 1 .. n \/ i = n + 1
      BY <1>1
    <3>. QED BY <1>0, <1>3, <1>4, <1>5, <3>1 DEF Placed, n
  <2>. QED BY <1>0, <1>2, <1>3, <1>6, <2>1 DEF Placed, TypeOK
<1>. QED BY <1>7, <1>8, <1>9, <1>10, <1>11 DEF PoolInv

\* Entering and leaving the timer's branch changes nothing but the gor's place.
LEMMA TickInv ==
    ASSUME PoolInv, NEW g \in Gors, Tick(g) \/ StayUp(g)
    PROVE  PoolInv'
<1>0. TypeOK /\ IdleExact /\ BusyOnce /\ SendReady /\ FnHeld /\ Placed
  BY DEF PoolInv
<1>1. PICK v \in {"select", "expired"} : where' = [where EXCEPT ![g] = v]
  BY DEF Tick, StayUp
<1>2. /\ where[g] \in {"select", "expired"}
      /\ UNCHANGED <<idle, idx, ch, job, fn, to, passed, returned>>
  BY DEF Tick, StayUp, callers
<1>3. where'[g] \in {"select", "expired"} /\ \A h \in Gors \ {g} : where'[h] = where[h]
  BY <1>0, <1>1 DEF TypeOK
<1>4. TypeOK'
  BY <1>0, <1>1, <1>2 DEF TypeOK, Stages
<1>5. IdleExact' /\ SendReady' /\ FnHeld'
  BY <1>0, <1>2, <1>3 DEF IdleExact, SendReady, FnHeld, Pending
<1>6. BusyOnce'
  <2>1. \A h \in Gors : Busy(h)' <=> Busy(h)
    BY <1>2, <1>3 DEF Busy
  <2>. QED BY <1>0, <1>2, <1>3, <2>1 DEF BusyOnce
<1>7. Placed'
  <2>1. /\ \A i \in 1 .. Len(idle) : idle[i] \in Gors
        /\ \A c \in Callers : to[c] # Nil => to[c] \in Gors
    BY <1>0 DEF TypeOK
  <2>. QED BY <1>0, <1>2, <1>3, <2>1 DEF Placed
<1>. QED BY <1>4, <1>5, <1>6, <1>7 DEF PoolInv

\* A gor leaves the slice from any place in it and ends.
LEMMA GoDownInv ==
    ASSUME PoolInv, NEW g \in Gors, GoDown(g)
    PROVE  PoolInv'
<1>. DEFINE n == Len(idle)
            k == idx[g]
            t == idle[n]
            s == [idle EXCEPT ![k + 1] = t]
<1>0. TypeOK /\ IdleExact /\ BusyOnce /\ SendReady /\ FnHeld /\ Placed
  BY DEF PoolInv
<1>1. /\ where[g] = "expired" /\ k >= 0 /\ idle' = Front(s)
      /\ idx' = [idx EXCEPT ![t] = k] /\ where' = [where EXCEPT ![g] = "down"]
      /\ UNCHANGED <<ch, job, fn, to, passed, returned>>
  BY DEF GoDown, StillListed, MovedIdx, callers
<1>2. n \in Nat /\ k \in Nat /\ k < n /\ idle[k + 1] = g
  BY <1>0, <1>1 DEF IdleExact, TypeOK
<1>3. n \in 1 .. n /\ k + 1 \in 1 .. n /\ \A i \in 1 .. n : idle[i] \in Gors
  BY <1>0, <1>2 DEF TypeOK
<1>4. t \in Gors /\ idx[t] = n - 1
  BY <1>0, <1>3 DEF IdleExact
<1>5. /\ s \in Seq(Gors) /\ Len(s) = n
      /\ \A i \in 1 .. n : s[i] = IF i = k + 1 THEN t ELSE idle[i]
  BY <1>0, <1>3, <1>4, ExceptSeq DEF TypeOK
<1>. HIDE DEF s
<1>6. s # <<>>
  BY <1>2, <1>5, EmptySeq
<1>7. /\ idle' \in Seq(Gors) /\ Len(idle') = n - 1
      /\ \A i \in 1 .. n - 1 : idle'[i] = s[i]
  BY <1>1, <1>5, <1>6, FrontProperties
<1>8. \A i \in 1 .. n - 1 : idle'[i] = IF i = k + 1 THEN t ELSE idle[i]
  BY <1>2, <1>5, <1>7
<1>9. /\ where'[g] = "down" /\ \A h \in Gors \ {g} : where'[h] = where[h]
      /\ idx'[t] = k /\ \A h \in Gors \ {t} : idx'[h] = idx[h]
  BY <1>0, <1>1, <1>4 DEF TypeOK
<1>10. ~Busy(g) /\ ch[g] = Nil /\ job[g] = Nil /\ \A c \in Callers : to[c] # g
  BY <1>0, <1>1, <1>2 DEF BusyOnce, Busy, TypeOK
<1>11. \A i \in 1 .. n : idx[idle[i]] = i - 1
  BY <1>0 DEF IdleExact
<1>12. \A i \in 1 .. n - 1 : idle[i] # t
  BY <1>2, <1>4, <1>11
<1>. HIDE DEF t, n, k
<1>13. TypeOK'
  <2>1. idx' \in [Gors -> Nat \cup {-1}]
    BY <1>0, <1>1, <1>2 DEF TypeOK
  <2>. QED BY <1>0, <1>1, <1>7, <1>10, <2>1 DEF TypeOK, Stages
<1>14. IdleExact'
  <2>1. \A i \in 1 .. n - 1 : idx'[idle'[i]] = i - 1
    <3>1. \A i \in 1 .. n - 1 : i # k + 1 => idx'[idle'[i]] = idx[idle[i]]
      BY <1>2, <1>3, <1>8, <1>9, <1>12
    <3>2. \A i \in 1 .. n - 1 : i = k + 1 => idx'[idle'[i]] = k
      BY <1>8, <1>9
    <3>. QED BY <1>2, <1>11, <3>1, <3>2
  <2>2. ASSUME NEW h \in Gors, idx'[h] >= 0, where'[h] # "down"
        PROVE  idx'[h] < n - 1 /\ idle'[idx'[h] + 1] = h
    <3>1. h # g /\ where[h] # "down"
      BY <1>9, <2>2
    <3>2. CASE h = t
      <4>1. k # n - 1
        BY <1>2, <3>1, <3>2 DEF t
      <4>2. k + 1 \in 1 .. n - 1
        BY <1>2, <4>1
      <4>. QED BY <1>2, <1>8, <1>9, <3>2, <4>1, <4>2
    <3>3. CASE h # t
      <4>1. idx'[h] = idx[h] /\ idx[h] \in Nat /\ idx[h] < n /\ idle[idx[h] + 1] = h
        BY <1>0, <1>9, <2>2, <3>1, <3>3 DEF IdleExact, TypeOK, n
      <4>2. idx[h] # n - 1 /\ idx[h] # k
        BY <1>2, <3>1, <3>3, <4>1 DEF t
      <4>3. idx[h] + 1 \in 1 .. n - 1 /\ idx[h] + 1 # k + 1 /\ idx[h] < n - 1
        BY <1>2, <4>1, <4>2
      <4>. QED BY <1>8, <4>1, <4>3
    <3>. QED BY <3>2, <3>3
  <2>. QED BY <1>7, <2>1, <2>2 DEF IdleExact
<1>15. BusyOnce'
  <2>1. \A h \in Gors : Busy(h)' => Busy(h) /\ h # g
    BY <1>1, <1>9, <1>10 DEF Busy
  <2>2. \A h \in Gors : Busy(h) => h # t
    BY <1>0, <1>2, <1>4 DEF BusyOnce
  <2>. QED BY <1>0, <1>1, <1>9, <2>1, <2>2 DEF BusyOnce
<1>16. SendReady' /\ FnHeld'
  BY <1>0, <1>1 DEF SendReady, FnHeld, Pending
<1>17. Placed'
  <2>1. \A i \in 1 .. n - 1 : \E j \in 1 .. n : idle'[i] = idle[j] /\ j # k + 1
    <3>. SUFFICES ASSUME NEW i \in 1 .. n - 1
                  PROVE  \E j \in 1 .. n : idle'[i] = idle[j] /\ j # k + 1
      OBVIOUS
    <3>1. CASE i = k + 1
      BY <1>2, <1>3, <1>8, <3>1 DEF t
    <3>2. CASE i # k + 1
      BY <1>2, <1>8, <3>2
    <3>. QED BY <3>1, <3>2
  <2>2. \A j \in 1 .. n : j # k + 1 => idle[j] # g
    BY <1>2, <1>11 DEF k
  <2>3. \A i \in 1 .. Len(idle') : where'[idle'[i]] \in {"select", "expired"}
    BY <1>0, <1>3, <1>7, <1>9, <2>1, <2>2 DEF Placed, n
  <2>4. \A h \in Gors : where'[h] = "free" => idx'[h] = -1
    <3>1. where[t] # "free"
      BY <1>0, <1>2, <1>4 DEF Placed
    <3>. QED BY <1>0, <1>9, <3>1 DEF Placed
  <2>5. \A c \in Callers : to[c] # Nil => to[c] \in Gors
    BY <1>0 DEF TypeOK
  <2>. QED BY <1>0, <1>1, <1>9, <1>10, <2>3, <2>4, <2>5 DEF Placed
<1>. QED BY <1>13, <1>14, <1>15, <1>16, <1>17 DEF PoolInv

\* Every step preserves the invariant.
LEMMA PoolStepInv == PoolInv /\ [Next]_vars => PoolInv'
<1>. SUFFICES ASSUME PoolInv, [Next]_vars PROVE PoolInv'
  OBVIOUS
<1>1. ASSUME NEW c \in Callers, NEW f \in Fns, GoReuse(c, f) PROVE PoolInv'
  BY <1>1, GoReuseInv
<1>2. ASSUME NEW c \in Callers, NEW f \in Fns, NEW g \in Gors, GoNew(c, f, g) PROVE PoolInv'
  BY <1>2, GoNewInv
<1>3. ASSUME NEW c \in Callers, Send(c) PROVE PoolInv'
  BY <1>3, SendInv
<1>4. ASSUME NEW g \in Gors, Receive(g) PROVE PoolInv'
  BY <1>4, ReceiveInv
<1>5. ASSUME NEW g \in Gors, FnReturns(g) PROVE PoolInv'
  BY <1>5, FnReturnsInv
<1>6. ASSUME NEW g \in Gors, Park(g) PROVE PoolInv'
  BY <1>6, ParkInv
<1>7. ASSUME NEW g \in Gors, Tick(g) \/ StayUp(g) PROVE PoolInv'
  BY <1>7, TickInv
<1>8. ASSUME NEW g \in Gors, GoDown(g) PROVE PoolInv'
  BY <1>8, GoDownInv
<1>9. CASE UNCHANGED vars
  BY <1>9 DEF PoolInv, TypeOK, IdleExact, BusyOnce, Busy, SendReady, FnHeld, Pending, Placed,
              vars, callers
<1>. QED BY <1>1, <1>2, <1>3, <1>4, <1>5, <1>6, <1>7, <1>8, <1>9 DEF Next

\* The inductive invariant holds in every reachable state of the pool.
THEOREM PoolInvariance == Safety => []PoolInv
<1>1. Init => PoolInv
  BY PoolInitInv
<1>2. PoolInv /\ [Next]_vars => PoolInv'
  BY PoolStepInv
<1>. QED BY <1>1, <1>2, PTL DEF Safety

\* The fields of the pool and of the gors keep their types.
THEOREM PoolTypeCorrect == Safety => []TypeOK
<1>1. PoolInv => TypeOK
  BY DEF PoolInv
<1>. QED BY <1>1, PoolInvariance, PTL

\* The idx fields and the idle slice agree whatever the order in which Go pops, gors park
\* and timers remove gors from the middle; and Go never hands a second function to a gor
\* that still has one, nor any to a gor that has ended.
THEOREM SliceExact == Safety => []GorsExact
<1>1. PoolInv => GorsExact
  BY DEF PoolInv, GorsExact
<1>. QED BY <1>1, PoolInvariance, PTL

\* The send in Go finds an empty channel, so Go never blocks; and no function is lost or
\* duplicated between Go and the gor that executes it.
THEOREM NoFnLost == Safety => []FnDelivered
<1>1. PoolInv => FnDelivered
  BY DEF PoolInv, FnDelivered
<1>. QED BY <1>1, PoolInvariance, PTL

-----------------------------------------------------------------------------
(* Gorpool implements TaskPool *)

\* The stage of a function depends on passed, returned and who executes it.
LEMMA StatusMove ==
    ASSUME NEW f \in Fns, NEW a, NEW b, Status[f] = a, Status'[f] = b,
           \A p \in Fns \ {f} : /\ p \in passed' <=> p \in passed
                                /\ p \in returned' <=> p \in returned
                                /\ (\E g \in Gors : job'[g] = p) <=> (\E g \in Gors : job[g] = p)
    PROVE  Abstract!Move(f, a, b)
<1>1. \A p \in Fns \ {f} : Status'[p] = Status[p]
  BY DEF Status
<1>2. Status = [p \in Fns |-> Status[p]] /\ Status' = [p \in Fns |-> Status'[p]]
  BY DEF Status
<1>3. Status' = [Status EXCEPT ![f] = b]
  BY <1>1, <1>2
<1>. QED BY <1>3 DEF Abstract!Move

\* Go submits a function, a receive starts it and its return finishes it; no other step is seen.
LEMMA RefineStep ==
    ASSUME PoolInv, [Next]_vars
    PROVE  [Abstract!Next]_Status
<1>0. TypeOK /\ FnHeld /\ BusyOnce
  BY DEF PoolInv
<1>1. ASSUME NEW c \in Callers, NEW f \in Fns, NEW g, Address(c, f, g)
      PROVE  Abstract!Submit(f)
  <2>1. /\ f \notin passed /\ passed' = passed \cup {f} /\ returned' = returned /\ job' = job
        /\ f \notin returned
    BY <1>0, <1>1 DEF Address, TypeOK
  <2>2. \A h \in Gors : job[h] # f
    BY <1>0, <2>1, NilAssumption DEF FnHeld, Pending
  <2>3. Status[f] = "new" /\ Status'[f] = "queued"
    BY <2>1, <2>2 DEF Status
  <2>. QED BY <2>1, <2>3, StatusMove DEF Abstract!Submit
<1>2. ASSUME NEW g \in Gors, Receive(g), NEW f, f = ch[g]
      PROVE  f \in Fns /\ Abstract!Start(f)
  <2>1. /\ f \in Fns /\ f # Nil /\ job[g] = Nil /\ job' = [job EXCEPT ![g] = f]
        /\ passed' = passed /\ returned' = returned
    BY <1>0, <1>2 DEF Receive, TypeOK
  <2>2. /\ f \in passed /\ f \notin returned
        /\ \A h \in Gors : job[h] # f
    BY <1>0, <1>2, <2>1 DEF FnHeld, Pending
  <2>3. job'[g] = f /\ \A h \in Gors \ {g} : job'[h] = job[h]
    BY <1>0, <2>1 DEF TypeOK
  <2>4. Status[f] = "queued" /\ Status'[f] = "running"
    BY <2>1, <2>2, <2>3 DEF Status
  <2>5. \A p \in Fns \ {f} : (\E h \in Gors : job'[h] = p) <=> (\E h \in Gors : job[h] = p)
    BY <2>1, <2>3, NilAssumption
  <2>. QED BY <2>1, <2>4, <2>5, StatusMove DEF Abstract!Start
<1>3. ASSUME NEW g \in Gors, FnReturns(g), NEW f, f = job[g]
      PROVE  f \in Fns /\ Abstract!Finish(f)
  <2>1. /\ f \in Fns /\ f # Nil /\ job' = [job EXCEPT ![g] = Nil]
        /\ passed' = passed /\ returned' = returned \cup {f}
    BY <1>0, <1>3 DEF FnReturns, TypeOK
  <2>2. f \in passed /\ f \notin returned
    BY <1>0, <1>3, <2>1 DEF FnHeld, Pending
  <2>3. job'[g] = Nil /\ \A h \in Gors \ {g} : job'[h] = job[h]
    BY <1>0, <2>1 DEF TypeOK
  <2>4. Status[f] = "running" /\ Status'[f] = "done"
    BY <1>3, <2>1, <2>2 DEF Status
  <2>5. \A p \in Fns \ {f} : (\E h \in Gors : job'[h] = p) <=> (\E h \in Gors : job[h] = p)
    BY <1>3, <2>1, <2>3, NilAssumption
  <2>. QED BY <2>1, <2>4, <2>5, StatusMove DEF Abstract!Finish
<1>4. CASE \E c \in Callers, f \in Fns, g \in Gors \cup {idle[Len(idle)]} : Address(c, f, g)
  BY <1>1, <1>4 DEF Abstract!Next
<1>5. CASE \E g \in Gors : Receive(g) \/ FnReturns(g)
  BY <1>2, <1>3, <1>5 DEF Abstract!Next
<1>6. ASSUME ~ \E c \in Callers, f \in Fns, g \in Gors \cup {idle[Len(idle)]} : Address(c, f, g),
             ~ \E g \in Gors : Receive(g) \/ FnReturns(g)
      PROVE  UNCHANGED Status
  <2>1. UNCHANGED <<passed, returned, job>>
    BY <1>6 DEF Next, GoReuse, GoNew, Send, Park, Tick, GoDown, StayUp, vars
  <2>. QED BY <2>1 DEF Status
<1>. QED BY <1>4, <1>5, <1>6

\* Every step of the pool is a step of TaskPool or leaves its view of the functions
\* alone: a function given to Go is executed at most once and never dropped midway.
THEOREM PoolRefinement == Safety => RefinesTaskPool
<1>1. Init => Abstract!Init
  BY DEF Init, Abstract!Init, Status
<1>2. PoolInv /\ [Next]_vars => [Abstract!Next]_Status
  BY RefineStep
<1>. QED BY <1>1, <1>2, PoolInvariance, PTL DEF Safety, RefinesTaskPool, Abstract!Safety
=============================================================================
