------------------------------- MODULE TcpProxy -------------------------------
(***************************************************************************)
(* rs/tcpproxy: one proxied connection, from accept to the release of its  *)
(* Context, under the single-threaded event loop of main.  A direction is  *)
(* named by the side its data come from: "client" for in_buf (copy_from),  *)
(* "backend" for out_buf (copy_to).  Every splice is a step; the peers and *)
(* the network act between any two of them.                                *)
(***************************************************************************)
EXTENDS EdgeSocket

Side == {"client", "backend"}

CONSTANTS
    PipeSize,    \* PIPE_SIZE: what F_GETPIPE_SZ says
    Slots,       \* units the pipe really takes (it has slots for pages, not bytes)
    Loads        \* bound: what the peers send (most units of each side in one
                 \* connection, and how much of it may be under way at once)

ASSUME PipeAssumption ==
    /\ Slots \in Nat \ {0} /\ PipeSize \in Nat /\ Slots <= PipeSize
    /\ Loads \subseteq [client : Nat, backend : Nat, burst : Nat]

Other(s) == IF s = "client" THEN "backend" ELSE "client"

VARIABLES
    open,             \* the Context exists
    sock, buffered,   \* the sockets; PipeBuf.buffered of each direction
    bad, refs, frees, \* Context.bad; its strong count; PollDesps freed
    batch,            \* events of this epoll_wait still to be looked at
    unused,           \* clones of the Context in the vector `unused`
    at,               \* where the loop is
    who, todo, free,  \* the event looked at, what is left of it, the flag `free`
    dir, eof,         \* the direction being copied, what splice_in returned
    sent, sunk, ended,\* auxiliary: units sent; units handed on; end of file acted on
    load              \* bound: the member of Loads chosen

connection == <<open, sock, buffered, bad, refs, frees, sent, sunk, ended>>
event == <<who, todo, free>>
copying == <<dir, eof>>
proxyVars == <<connection, batch, unused, at, event, copying, load>>

NoEvents == [s \in Side |-> {}]
Zero == [s \in Side |-> 0]

\* Locals that are out of scope have no say; they are given these values.
NoEvent == who' = "client" /\ free' = FALSE
NoCopy == dir' = "client" /\ eof' = FALSE

ProxyInit ==
    /\ open = FALSE
    /\ sock = [s \in Side |-> Added(FALSE)] /\ buffered = Zero
    /\ bad = FALSE /\ refs = 0 /\ frees = 0
    /\ batch = NoEvents /\ unused = 0 /\ at = "wait"
    /\ who = "client" /\ todo = {} /\ free = FALSE
    /\ dir = "client" /\ eof = FALSE
    /\ sent = Zero /\ sunk = Zero /\ ended = [s \in Side |-> FALSE]
    /\ load \in Loads

-----------------------------------------------------------------------------
(* The peers *)

PeerStep(s, k) ==
    /\ open
    /\ sock' = [sock EXCEPT ![s] = k]
    /\ UNCHANGED <<open, buffered, bad, refs, frees, sunk, ended, batch, unused, at, event, copying, load>>

PeerSends(s) ==
    /\ CanArrive(sock[s]) /\ sent[s] < load[s] /\ sent[s] - sunk[s] < load.burst
    /\ sent' = [sent EXCEPT ![s] = @ + 1]
    /\ PeerStep(s, Arrived(sock[s]))

PeerFinishes(s) ==
    /\ CanArrive(sock[s])
    /\ PeerStep(s, Finished(sock[s])) /\ UNCHANGED sent

\* Also a connection attempt that fails after EINPROGRESS.
PeerResets(s) ==
    /\ ~sock[s].rst
    /\ PeerStep(s, WasReset(sock[s])) /\ UNCHANGED sent

PeerTakes(s) ==
    /\ sock[s].snd > 0
    /\ PeerStep(s, Taken(sock[s])) /\ UNCHANGED sent

BackendConnects ==
    /\ ~sock["backend"].up /\ ~sock["backend"].rst
    /\ PeerStep("backend", Connected(sock["backend"])) /\ UNCHANGED sent

Peers ==
    \/ \E s \in Side : PeerSends(s) \/ PeerFinishes(s) \/ PeerResets(s) \/ PeerTakes(s)
    \/ BackendConnects

-----------------------------------------------------------------------------
(* accept and handle_client *)

\* The backend's connect is in progress, the two PollDesps hold the references.
\* A connect that fails at once closes the client and leaves nothing behind.
HandleClient ==
    /\ at = "wait" /\ ~open
    /\ open' = TRUE
    /\ sock' = [s \in Side |-> Added(s = "client")]
    /\ buffered' = Zero
    /\ bad' = FALSE /\ refs' = 2 /\ frees' = 0
    /\ sent' = Zero /\ sunk' = Zero /\ ended' = [s \in Side |-> FALSE]
    /\ UNCHANGED <<batch, unused, at, event, copying, load>>

-----------------------------------------------------------------------------
(* The event loop *)

Ready == [s \in Side |-> IF sock[s].armed THEN Mask(sock[s]) ELSE {}]

EpollWait ==
    /\ at = "wait" /\ open
    /\ \E s \in Side : Ready[s] # {}
    /\ batch' = Ready
    /\ sock' = [s \in Side |-> Reported(sock[s])]
    /\ at' = "batch"
    /\ UNCHANGED <<open, buffered, bad, refs, frees, sent, sunk, ended, unused, event, copying, load>>

\* epoll reports the events in any order.
NextEvent(s) ==
    /\ at = "batch" /\ batch[s] # {}
    /\ who' = s /\ todo' = batch[s] /\ free' = FALSE
    /\ batch' = [batch EXCEPT ![s] = {}]
    /\ at' = "event"
    /\ UNCHANGED <<connection, unused, copying, load>>

\* Mutation: EPOLLOUT copies in the same direction as EPOLLIN.
OwnDirection(half) == who

\* EPOLLIN copies from the socket of the event, EPOLLOUT to it.
Direction(half) == IF half = "IN" THEN who ELSE Other(who)

\* Mutation: EPOLLOUT is looked at only without EPOLLIN.
NothingLeft(half) == {}

Left(half) == todo \ {half}

\* EPOLLIN is looked at first; to copy for a bad Context fails.
BeginCopy ==
    /\ at = "event" /\ todo # {}
    /\ LET half == IF "IN" \in todo THEN "IN" ELSE "OUT"
       IN  dir' = Direction(half) /\ todo' = Left(half)
    /\ eof' = FALSE
    /\ free' = (free \/ bad)
    /\ at' = IF bad THEN "event" ELSE "splice_in"
    /\ UNCHANGED <<connection, batch, unused, who, load>>

\* The end of copy: an error, or an end of file with an empty buffer, is Err.
Failed == free' = TRUE /\ at' = "event" /\ NoCopy

\* splice_in: a read that takes n units.
SpliceIn(n) ==
    /\ at = "splice_in"
    /\ n <= sock[dir].rcv /\ buffered[dir] + n <= Slots
    /\ sock' = [sock EXCEPT ![dir] = Read(@, n)]
    /\ buffered' = [buffered EXCEPT ![dir] = @ + n]
    /\ UNCHANGED <<open, bad, refs, frees, sent, sunk, ended, batch, unused, at, event, copying, load>>

\* splice_in ends without an end of file: the buffer is full, or EAGAIN because the
\* pipe is (before PIPE_SIZE is reached) or because the socket is drained.
SpliceInEnds ==
    /\ at = "splice_in"
    /\ buffered[dir] \in {PipeSize, Slots} \/ Drained(sock[dir])
    /\ at' = "splice_out"
    /\ UNCHANGED <<connection, batch, unused, event, copying, load>>

\* splice returned 0: the end of file counts only if nothing is buffered.
EofSeen == buffered[dir] = 0

SpliceInZero ==
    /\ at = "splice_in" /\ buffered[dir] < Slots
    /\ Ended(sock[dir])
    /\ eof' = EofSeen
    /\ at' = "splice_out"
    /\ UNCHANGED <<connection, batch, unused, event, dir, load>>

SpliceInFails ==
    /\ at = "splice_in" /\ buffered[dir] < Slots
    /\ Ended(sock[dir]) /\ sock[dir].rst
    /\ Failed
    /\ UNCHANGED <<connection, batch, unused, who, todo, load>>

SpliceOut(n) ==
    /\ at = "splice_out"
    /\ n <= buffered[dir]
    /\ LET k == sock[Other(dir)]
       IN  /\ k.up /\ ~k.rst /\ k.snd + n <= Room
           /\ sock' = [sock EXCEPT ![Other(dir)] = Wrote(k, n)]
    /\ buffered' = [buffered EXCEPT ![dir] = @ - n]
    /\ sunk' = [sunk EXCEPT ![dir] = @ + n]
    /\ UNCHANGED <<open, bad, refs, frees, sent, ended, batch, unused, at, event, copying, load>>

\* EAGAIN from the socket written to: it is full, or not connected yet.
SpliceOutAgain ==
    /\ at = "splice_out" /\ buffered[dir] > 0
    /\ LET k == sock[Other(dir)]
       IN  /\ ~k.rst /\ (k.up => k.snd = Room)
           /\ sock' = [sock EXCEPT ![Other(dir)] = Refused(k)]
    /\ at' = "event" /\ NoCopy
    /\ UNCHANGED <<open, buffered, bad, refs, frees, sent, sunk, ended, batch, unused, event, load>>

SpliceOutFails ==
    /\ at = "splice_out" /\ buffered[dir] > 0 /\ sock[Other(dir)].rst
    /\ Failed
    /\ UNCHANGED <<connection, batch, unused, who, todo, load>>

\* The buffer is empty: Err(0) after an end of file, Ok otherwise.
CopyEnds ==
    /\ at = "splice_out" /\ buffered[dir] = 0
    /\ at' = "event" /\ NoCopy
    /\ free' = (free \/ eof)
    /\ ended' = [ended EXCEPT ![dir] = @ \/ eof]
    /\ UNCHANGED <<open, sock, buffered, bad, refs, frees, sent, sunk, batch, unused, who, todo, load>>

\* Mutation: the connection is shut down inside the batch.
EndEventFrees ==
    /\ at = "event" /\ todo = {}
    /\ unused' = IF free THEN unused + 1 ELSE unused
    /\ refs' = IF free /\ ~bad THEN refs - 1 ELSE refs
    /\ frees' = IF free /\ ~bad THEN frees + 2 ELSE frees
    /\ bad' = (bad \/ free)
    /\ at' = "batch" /\ NoEvent
    /\ UNCHANGED <<open, sock, buffered, sent, sunk, ended, batch, todo, copying, load>>

EndEvent ==
    /\ at = "event" /\ todo = {}
    /\ unused' = IF free THEN unused + 1 ELSE unused
    /\ refs' = IF free THEN refs + 1 ELSE refs
    /\ at' = "batch" /\ NoEvent
    /\ UNCHANGED <<open, sock, buffered, bad, frees, sent, sunk, ended, batch, todo, copying, load>>

EndBatch ==
    /\ at = "batch" /\ batch = NoEvents
    /\ at' = IF unused > 0 THEN "sweep" ELSE "wait"
    /\ UNCHANGED <<connection, batch, unused, event, copying, load>>

\* The PollDesps that shutdown frees, each with its reference to the Context.
Released == IF bad THEN 0 ELSE 2

\* Context::shutdown on one element of `unused`, and the drop of that element; the
\* Context goes, and its sockets are closed, with the last reference.
Shutdown ==
    /\ at = "sweep"
    /\ unused' = unused - 1
    /\ frees' = frees + Released
    /\ refs' = refs - Released - 1
    /\ bad' = TRUE
    /\ open' = (refs' > 0)
    /\ sock' = IF open' THEN sock ELSE [s \in Side |-> Added(FALSE)]
    /\ at' = IF unused' > 0 THEN "sweep" ELSE "wait"
    /\ UNCHANGED <<buffered, sent, sunk, ended, batch, event, copying, load>>

Loop ==
    \/ EpollWait \/ EndBatch \/ BeginCopy \/ EndEvent \/ Shutdown
    \/ \E s \in Side : NextEvent(s)
    \/ \E n \in 1..PipeSize : SpliceIn(n) \/ SpliceOut(n)
    \/ SpliceInEnds \/ SpliceInZero \/ SpliceInFails
    \/ SpliceOutAgain \/ SpliceOutFails \/ CopyEnds

ProxyNext == Peers \/ HandleClient \/ Loop

ProxySafety == ProxyInit /\ [][ProxyNext]_proxyVars

\* The loop runs whenever it can; connecting ends one way or the other; a peer
\* takes what it is sent.
ProxyFairness ==
    /\ WF_proxyVars(Loop)
    /\ WF_proxyVars(BackendConnects)
    /\ \A s \in Side : WF_proxyVars(PeerTakes(s))

-----------------------------------------------------------------------------
(* Properties *)

ProxyTypeOK ==
    /\ open \in BOOLEAN /\ bad \in BOOLEAN /\ free \in BOOLEAN /\ eof \in BOOLEAN
    /\ sock \in [Side -> Socket]
    /\ buffered \in [Side -> 0..Slots]
    /\ sent \in [Side -> Nat] /\ sunk \in [Side -> Nat]
    /\ ended \in [Side -> BOOLEAN]
    /\ batch \in [Side -> SUBSET {"IN", "OUT"}] /\ todo \subseteq {"IN", "OUT"}
    /\ who \in Side /\ dir \in Side
    /\ at \in {"wait", "batch", "event", "splice_in", "splice_out", "sweep"}
    /\ refs \in 0..4 /\ frees \in {0, 2} /\ unused \in 0..2
    /\ load \in Loads

\* An event that epoll returned, and the one being handled, point at PollDesps that
\* are still allocated and through them at a live Context, and the PollDesps are
\* freed once: shutdown waits for the end of the batch and looks at `bad`.
NoUseAfterFree ==
    /\ (batch # NoEvents \/ at \in {"event", "splice_in", "splice_out"}) =>
          open /\ refs >= 2 /\ frees = 0
    /\ at = "sweep" => open
    /\ frees <= 2

\* Before the loop waits again, a connection that failed is gone, sockets and pipes
\* included, and one that did not is held by exactly its two PollDesps.
NoLeak ==
    at = "wait" =>
        /\ unused = 0
        /\ open => ~bad /\ refs = 2
        /\ ~open => refs = 0

\* When the loop waits, data left in a pipe are not forgotten: the socket they are
\* for will report that it can be written to.
PipeCovered ==
    at = "wait" /\ open =>
        \A s \in Side : buffered[s] > 0 =>
            LET k == sock[Other(s)]
            IN  k.nospace \/ (k.armed /\ "OUT" \in Mask(k)) \/ ~k.up

\* A connection is given up because of an end of file only when everything that
\* came before the end of file was handed to the other socket.
EofComplete ==
    open => \A s \in Side : ended[s] => sunk[s] = sent[s]

\* As long as what is under way fits into the pipe, what a peer sends is handed on
\* to the other socket, or the connection is closed.  (A larger burst may be left in
\* the socket: the loop of splice_in stops at a full pipe, nothing resumes it.)
Forwarded ==
    \A s \in Side : \A n \in 1..Slots + 1 :
        (load.burst <= Slots /\ open /\ sent[s] >= n) ~> (~open \/ sunk[s] >= n)

\* An end of file that is reported when everything before it was handed on closes
\* the connection.  (One that splice_in meets behind data is forgotten.)
EofAnswered ==
    \A s \in Side :
        (open /\ sock[s].fin /\ sock[s].armed /\ sunk[s] = sent[s]) ~> ~open

\* PollDesps and Context live as long as an event may lead to them, and no longer.
ConnectionMemory == NoUseAfterFree /\ NoLeak

\* What the pipes hold is neither forgotten nor overtaken by an end of file.
ProxyComplete == PipeCovered /\ EofComplete

\* What fits into the pipe is handed on in the end, and so is an end of file.
ProxyProgress == Forwarded /\ EofAnswered
===============================================================================
