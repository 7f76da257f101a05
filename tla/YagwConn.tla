------------------------------- MODULE YagwConn -------------------------------
(***************************************************************************)
(* A connection of the gateway go/yagw: the epoll loop of server.go, the   *)
(* workers it hands the connection's polldesp to, the on_poll they call,   *)
(* the connection's own goroutine (mainproc of netconn.go), its timers,    *)
(* and the peer at the other end of the socket.                            *)
(*                                                                         *)
(* Every atomic load and store and every channel operation is a step.  A   *)
(* load whose outcome is acted on by a store to the same variable is one   *)
(* step with it where a store of the other side in between would make no   *)
(* difference.  Data are counted: a packet is PacketLen chunks, a reply is *)
(* one unit of the write buffer and of the socket's send buffer.           *)
(***************************************************************************)
EXTENDS Naturals, FiniteSets

CONSTANTS
    Workers,     \* goroutines running worker_proc
    Home,        \* the worker of wq[fd % nworkers]
    None,
    PacketLen,   \* chunks in a packet
    MaxSend,     \* bound: chunks the peer sends
    Room,        \* replies the socket's send buffer holds
    WLimit,      \* WBUF_SIZE_LIMIT, in replies
    WqCap, GqCap,\* capacities of the channels
    Hangups      \* bound: who may end the connection (peer, timer, failing login)

ASSUME ConnAssumption ==
    /\ Home \in Workers /\ None \notin Workers
    /\ {PacketLen, Room, WLimit, WqCap, GqCap} \subseteq Nat \ {0}
    /\ MaxSend \in Nat
    /\ Hangups \subseteq {"peer", "timer", "login"}

VARIABLES
    inbuf, sent, eof,       \* unread chunks; chunks sent so far; the peer closed
    room, nospace, armed,   \* free send buffer; SOCK_NOSPACE; on epoll's ready list
    pdbad, own, r, w,       \* polldesp
    bad, auth, busy, wpending, pr, ravail, wavail, down, gstart,  \* netconn
    wq, gq, local,          \* copies of the polldesp in the channels; whose localq has it
    epc, ev,                \* the event loop and the event it processes
    wpc, reading, writing,  \* the workers and the results of on_poll
    mpc, wbuf,              \* mainproc and the length of its write buffer
    tpc                     \* the connection's timer

kernel == <<inbuf, sent, eof, room, nospace, armed>>
pd == <<pdbad, own, r, w>>
conn == <<bad, auth, busy, wpending, pr, ravail, wavail, down, gstart>>
queues == <<wq, gq, local>>
loop == <<epc, ev>>
work == <<wpc, reading, writing>>
main == <<mpc, wbuf>>
vars == <<kernel, pd, conn, queues, loop, work, main, tpc>>

\* The connection is accepted, wrapped by new_netconn, added to epoll (which finds
\* the socket writable) and given its login timeout.
Init ==
    /\ inbuf = 0 /\ sent = 0 /\ eof = FALSE
    /\ room = Room /\ nospace = FALSE /\ armed = TRUE
    /\ pdbad = FALSE /\ own = FALSE /\ r = FALSE /\ w = FALSE
    /\ bad = FALSE /\ auth = FALSE /\ busy = FALSE /\ wpending = TRUE /\ pr = 0
    /\ ravail = FALSE /\ wavail = FALSE /\ down = FALSE /\ gstart = FALSE
    /\ wq = 0 /\ gq = 0 /\ local = None
    /\ epc = "wait" /\ ev = {}
    /\ wpc = [x \in Workers |-> "idle"]
    /\ reading = [x \in Workers |-> FALSE] /\ writing = [x \in Workers |-> FALSE]
    /\ mpc = "none" /\ wbuf = 0
    /\ tpc = "armed"

-----------------------------------------------------------------------------
(* The peer and the socket *)

PeerSend ==
    /\ ~eof /\ sent < MaxSend
    /\ inbuf' = inbuf + 1
    /\ sent' = sent + 1
    /\ armed' = ~pdbad
    /\ UNCHANGED <<eof, room, nospace, pd, conn, queues, loop, work, main, tpc>>

\* The peer takes a reply; epoll hears of it if a write had failed for lack of space.
PeerReceive ==
    /\ room < Room
    /\ room' = room + 1
    /\ nospace' = FALSE
    /\ armed' = (armed \/ (nospace /\ ~pdbad))
    /\ UNCHANGED <<inbuf, sent, eof, pd, conn, queues, loop, work, main, tpc>>

PeerClose ==
    /\ "peer" \in Hangups /\ ~eof
    /\ eof' = TRUE
    /\ armed' = ~pdbad
    /\ UNCHANGED <<inbuf, sent, room, nospace, pd, conn, queues, loop, work, main, tpc>>

\* What epoll reports of the socket.
Readiness == (IF inbuf > 0 \/ eof THEN {"in"} ELSE {})
             \cup (IF room > 0 THEN {"out"} ELSE {})
             \cup (IF eof THEN {"rdhup"} ELSE {})

-----------------------------------------------------------------------------
(* server_eventloop *)

\* Edge-triggered: a reported descriptor leaves the ready list.
EpollWait ==
    /\ epc = "wait" /\ armed
    /\ armed' = FALSE
    /\ ev' = Readiness
    /\ epc' = IF Readiness = {} THEN "wait" ELSE "setr"
    /\ UNCHANGED <<inbuf, sent, eof, room, nospace, pd, conn, queues, work, main, tpc>>

EventR ==
    /\ epc = "setr"
    /\ r' = (r \/ (~pdbad /\ "in" \in ev))
    /\ epc' = IF pdbad THEN "wait" ELSE "setw"
    /\ UNCHANGED <<kernel, pdbad, own, w, conn, queues, ev, work, main, tpc>>

EventW ==
    /\ epc = "setw"
    /\ w' = (w \/ ev \cap {"out", "rdhup"} # {})
    /\ epc' = "own"
    /\ UNCHANGED <<kernel, pdbad, own, r, conn, queues, ev, work, main, tpc>>

\* A polldesp that a worker owns is left to that worker.
EventOwn ==
    /\ epc = "own"
    /\ epc' = IF own THEN "wait" ELSE "send"
    /\ UNCHANGED <<kernel, pd, conn, queues, ev, work, main, tpc>>

EventSend ==
    /\ epc = "send"
    /\ \/ wq < WqCap /\ wq' = wq + 1 /\ epc' = "wait"
       \/ wq = WqCap /\ wq' = wq /\ epc' = "sendg"
    /\ UNCHANGED <<kernel, pd, conn, gq, local, ev, work, main, tpc>>

EventSendG ==
    /\ epc = "sendg"
    /\ gq < GqCap
    /\ gq' = gq + 1
    /\ epc' = "wait"
    /\ UNCHANGED <<kernel, pd, conn, wq, local, ev, work, main, tpc>>

-----------------------------------------------------------------------------
(* worker_proc *)

Go(x, next) == wpc' = [wpc EXCEPT ![x] = next]

TakeWq(x) ==
    /\ wpc[x] = "idle" /\ x = Home /\ wq > 0
    /\ wq' = wq - 1
    /\ Go(x, "claim")
    /\ UNCHANGED <<kernel, pd, conn, gq, local, loop, reading, writing, main, tpc>>

\* The local queue is next when wq is found empty.
TakeLocal(x) ==
    /\ wpc[x] = "idle" /\ local = x
    /\ x = Home => wq = 0
    /\ local' = None
    /\ Go(x, "poll")
    /\ UNCHANGED <<kernel, pd, conn, wq, gq, loop, reading, writing, main, tpc>>

\* With nothing of its own to do, a worker also takes from the global queue.
TakeGq(x) ==
    /\ wpc[x] = "idle" /\ local # x /\ gq > 0
    /\ gq' = gq - 1
    /\ Go(x, "claim")
    /\ UNCHANGED <<kernel, pd, conn, wq, local, loop, reading, writing, main, tpc>>

\* Mutation of Unowned: whoever received the polldesp polls it.
UnownedOrNot == TRUE

\* CompareAndSwapInt32(&pd.own, 0, 1) succeeds.
Unowned == ~own

Claim(x) ==
    /\ wpc[x] = "claim"
    /\ \/ Unowned /\ own' = TRUE /\ Go(x, "poll")
       \/ ~Unowned /\ own' = own /\ Go(x, "idle")
    /\ UNCHANGED <<kernel, pdbad, r, w, conn, queues, loop, reading, writing, main, tpc>>

\* A bad polldesp is dropped with own still set.
PollPdBad(x) ==
    /\ wpc[x] = "poll"
    /\ Go(x, IF pdbad THEN "idle" ELSE "bad")
    /\ reading' = [reading EXCEPT ![x] = FALSE]
    /\ writing' = [writing EXCEPT ![x] = FALSE]
    /\ UNCHANGED <<kernel, pd, conn, queues, loop, main, tpc>>

Disown(x) ==
    /\ wpc[x] = "disown"
    /\ own' = FALSE
    /\ Go(x, "recheck")
    /\ UNCHANGED <<kernel, pdbad, r, w, conn, queues, loop, reading, writing, main, tpc>>

Recheck(x) ==
    /\ wpc[x] = "recheck"
    /\ Go(x, IF (r /\ reading[x]) \/ (w /\ writing[x]) THEN "adopt" ELSE "idle")
    /\ UNCHANGED <<kernel, pd, conn, queues, loop, reading, writing, main, tpc>>

\* The polldesp is claimed again and put on the local queue.
Adopt(x) ==
    /\ wpc[x] = "adopt"
    /\ own' = TRUE
    /\ local' = IF Unowned THEN x ELSE local
    /\ Go(x, "idle")
    /\ UNCHANGED <<kernel, pdbad, r, w, conn, wq, gq, loop, reading, writing, main, tpc>>

-----------------------------------------------------------------------------
(* netconn.on_poll, called by worker x *)

PollBad(x) ==
    /\ wpc[x] = "bad"
    /\ Go(x, IF bad THEN "disown" ELSE "busy")
    /\ UNCHANGED <<kernel, pd, conn, queues, loop, reading, writing, main, tpc>>

PollBusy(x) ==
    /\ wpc[x] = "busy"
    /\ Go(x, IF busy THEN "w" ELSE "r")
    /\ UNCHANGED <<kernel, pd, conn, queues, loop, reading, writing, main, tpc>>

PollR(x) ==
    /\ wpc[x] = "r"
    /\ r' = FALSE
    /\ Go(x, IF r THEN "read" ELSE "w")
    /\ UNCHANGED <<kernel, pdbad, own, w, conn, queues, loop, reading, writing, main, tpc>>

\* Mutation of Got: a read that is not bounded by the length of the packet.
GotAll == inbuf

\* Chunks that packet_reader.readfrom gets before the packet is complete or the
\* socket has no more.
Got == IF inbuf < PacketLen - pr THEN inbuf ELSE PacketLen - pr

\* readfrom: the packet is ready, or EAGAIN, or an error (end of file, closed fd).
PollRead(x) ==
    /\ wpc[x] = "read"
    /\ \/ /\ down
          /\ Go(x, "close")
          /\ UNCHANGED <<inbuf, pr, reading>>
       \/ /\ ~down
          /\ inbuf' = inbuf - Got
          /\ pr' = pr + Got
          /\ \/ /\ pr' = PacketLen
                /\ reading' = [reading EXCEPT ![x] = FALSE]
                /\ Go(x, "setr")
             \/ /\ pr' # PacketLen /\ eof
                /\ reading' = reading
                /\ Go(x, "close")
             \/ /\ pr' # PacketLen /\ ~eof
                /\ reading' = [reading EXCEPT ![x] = TRUE]
                /\ Go(x, "r")
    /\ UNCHANGED <<sent, eof, room, nospace, armed, pd, bad, auth, busy, wpending, ravail,
                   wavail, down, gstart, queues, loop, writing, main, tpc>>

\* There may be more to read after a whole packet.
PollSetR(x) ==
    /\ wpc[x] = "setr"
    /\ r' = TRUE
    /\ Go(x, "setbusy")
    /\ UNCHANGED <<kernel, pdbad, own, w, conn, queues, loop, reading, writing, main, tpc>>

\* Mutation of PollSetBusy: only a goroutine that is already there is told.
PollSetBusyQuiet(x) ==
    /\ wpc[x] = "setbusy"
    /\ busy' = TRUE
    /\ Go(x, IF gstart THEN "ravail" ELSE "w")
    /\ UNCHANGED <<kernel, pd, bad, auth, wpending, pr, ravail, wavail, down, gstart,
                   queues, loop, reading, writing, main, tpc>>

PollSetBusy(x) ==
    /\ wpc[x] = "setbusy"
    /\ busy' = TRUE
    /\ Go(x, "ravail")
    /\ UNCHANGED <<kernel, pd, bad, auth, wpending, pr, ravail, wavail, down, gstart,
                   queues, loop, reading, writing, main, tpc>>

PollRavail(x) ==
    /\ wpc[x] = "ravail"
    /\ ravail' = TRUE
    /\ Go(x, "w")
    /\ UNCHANGED <<kernel, pd, bad, auth, busy, wpending, pr, wavail, down, gstart,
                   queues, loop, reading, writing, main, tpc>>

PollW(x) ==
    /\ wpc[x] = "w"
    /\ writing' = [writing EXCEPT ![x] = wpending]
    /\ Go(x, IF wpending /\ w THEN "clearw" ELSE "start")
    /\ UNCHANGED <<kernel, pd, conn, queues, loop, reading, main, tpc>>

PollClearW(x) ==
    /\ wpc[x] = "clearw"
    /\ w' = FALSE
    /\ Go(x, "clearwp")
    /\ UNCHANGED <<kernel, pdbad, own, r, conn, queues, loop, reading, writing, main, tpc>>

PollClearWp(x) ==
    /\ wpc[x] = "clearwp"
    /\ wpending' = FALSE
    /\ Go(x, "wavail")
    /\ UNCHANGED <<kernel, pd, bad, auth, busy, pr, ravail, wavail, down, gstart,
                   queues, loop, reading, writing, main, tpc>>

PollWavail(x) ==
    /\ wpc[x] = "wavail"
    /\ wavail' = TRUE
    /\ writing' = [writing EXCEPT ![x] = FALSE]
    /\ Go(x, "start")
    /\ UNCHANGED <<kernel, pd, bad, auth, busy, wpending, pr, ravail, down, gstart,
                   queues, loop, reading, main, tpc>>

\* if !c.g_start && busy: the goroutine of the connection is to be started.
PollStart(x) ==
    /\ wpc[x] = "start"
    /\ Go(x, IF ~gstart /\ busy THEN "go" ELSE "disown")
    /\ UNCHANGED <<kernel, pd, conn, queues, loop, reading, writing, main, tpc>>

PollGo(x) ==
    /\ wpc[x] = "go"
    /\ mpc' = "login"
    /\ gstart' = TRUE
    /\ Go(x, "disown")
    /\ UNCHANGED <<kernel, pd, bad, auth, busy, wpending, pr, ravail, wavail, down,
                   queues, loop, reading, writing, wbuf, tpc>>

-----------------------------------------------------------------------------
(* netconn.mainproc *)

MainLogin ==
    /\ mpc = "login" /\ ravail
    /\ ravail' = FALSE
    /\ mpc' = "handle_login"
    /\ UNCHANGED <<kernel, pd, bad, auth, busy, wpending, pr, wavail, down, gstart,
                   queues, loop, work, wbuf, tpc>>

\* Not a login command, a malformed body, missing fields or a failing rpc_auth_user.
LoginMayFail == "login" \in Hangups

\* handle_login fails, or queues its reply; the reader is reset and the loop entered.
MainLoginDone ==
    /\ mpc = "handle_login"
    /\ \/ /\ LoginMayFail
          /\ mpc' = "close"
          /\ UNCHANGED <<pr, auth, wbuf>>
       \/ /\ pr' = 0
          /\ auth' = TRUE
          /\ wbuf' = wbuf + 1
          /\ mpc' = "select"
    /\ UNCHANGED <<kernel, pd, bad, busy, wpending, ravail, wavail, down, gstart,
                   queues, loop, work, tpc>>

MainRequest ==
    /\ mpc = "select" /\ ravail
    /\ ravail' = FALSE
    /\ mpc' = "handle"
    /\ UNCHANGED <<kernel, pd, bad, auth, busy, wpending, pr, wavail, down, gstart,
                   queues, loop, work, wbuf, tpc>>

\* client.handle: a ping is answered, other commands are not.
Replies == {0, 1}

\* The packet is handled and the reader reset.
MainHandled ==
    /\ mpc = "handle"
    /\ \E n \in Replies : wbuf' = wbuf + n
    /\ pr' = 0
    /\ mpc' = "flush"
    /\ UNCHANGED <<kernel, pd, bad, auth, busy, wpending, ravail, wavail, down, gstart,
                   queues, loop, work, tpc>>

MainWritable ==
    /\ mpc = "select" /\ wavail
    /\ wavail' = FALSE
    /\ mpc' = "flush"
    /\ UNCHANGED <<kernel, pd, bad, auth, busy, wpending, pr, ravail, down, gstart,
                   queues, loop, work, wbuf, tpc>>

MainDown ==
    /\ mpc \in {"login", "select"} /\ down
    /\ mpc' = "end"
    /\ UNCHANGED <<kernel, pd, conn, queues, loop, work, wbuf, tpc>>

\* flush_wbuf: a write of what fits, an error on a closed socket, or EAGAIN.
MainWrite ==
    /\ mpc = "flush"
    /\ \/ /\ wbuf = 0
          /\ mpc' = "release"
          /\ UNCHANGED <<wbuf, room, nospace>>
       \/ /\ wbuf > 0 /\ (down \/ eof)
          /\ mpc' = "close"
          /\ UNCHANGED <<wbuf, room, nospace>>
       \/ /\ wbuf > 0 /\ ~down /\ room > 0
          /\ wbuf' = IF wbuf > room THEN wbuf - room ELSE 0
          /\ room' = IF wbuf > room THEN 0 ELSE room - wbuf
          /\ UNCHANGED <<mpc, nospace>>
       \/ /\ wbuf > 0 /\ ~down /\ room = 0
          /\ nospace' = TRUE
          /\ mpc' = "pend"
          /\ UNCHANGED <<wbuf, room>>
    /\ UNCHANGED <<inbuf, sent, eof, armed, pd, conn, queues, loop, work, tpc>>

MainPend ==
    /\ mpc = "pend"
    /\ wpending' = TRUE
    /\ mpc' = "pended"
    /\ UNCHANGED <<kernel, pd, bad, auth, busy, pr, ravail, wavail, down, gstart,
                   queues, loop, work, wbuf, tpc>>

\* If the socket became writable meanwhile the write is tried again.
MainPended ==
    /\ mpc = "pended"
    /\ w' = FALSE
    /\ mpc' = IF w THEN "unpend" ELSE "release"
    /\ UNCHANGED <<kernel, pdbad, own, r, conn, queues, loop, work, wbuf, tpc>>

MainUnpend ==
    /\ mpc = "unpend"
    /\ wpending' = FALSE
    /\ mpc' = "flush"
    /\ UNCHANGED <<kernel, pd, bad, auth, busy, pr, ravail, wavail, down, gstart,
                   queues, loop, work, wbuf, tpc>>

\* busy is over, unless the write buffer is too long to read more requests.
MayRelease == busy /\ wbuf < WLimit

MainRelease ==
    /\ mpc = "release"
    /\ busy' = (busy /\ ~MayRelease)
    /\ mpc' = IF MayRelease THEN "released" ELSE "select"
    /\ UNCHANGED <<kernel, pd, bad, auth, wpending, pr, ravail, wavail, down, gstart,
                   queues, loop, work, wbuf, tpc>>

MainReleased ==
    /\ mpc = "released"
    /\ mpc' = IF r THEN "queue" ELSE "select"
    /\ UNCHANGED <<kernel, pd, conn, queues, loop, work, wbuf, tpc>>

MainQueue ==
    /\ mpc = "queue" /\ gq < GqCap
    /\ gq' = gq + 1
    /\ mpc' = "select"
    /\ UNCHANGED <<kernel, pd, conn, wq, local, loop, work, wbuf, tpc>>

-----------------------------------------------------------------------------
(* netconn.Close: by a worker, by mainproc, by a timer *)

\* CompareAndSwapInt32(&c.bad, 0, 1): only the caller that sets bad goes on.
SetBad ==
    /\ bad' = TRUE
    /\ UNCHANGED <<kernel, pd, auth, busy, wpending, pr, ravail, wavail, down, gstart,
                   queues, loop>>

\* The polldesp is marked and taken out of epoll.
FreePd == pdbad' = TRUE /\ armed' = FALSE

\* Mutation of Shut: down is not closed.
ShutQuiet ==
    /\ FreePd
    /\ UNCHANGED <<inbuf, sent, eof, room, nospace, own, r, w, conn, queues, loop>>

\* free_pd(&c.pd), close(c.down) and the close of the fd.
Shut ==
    /\ FreePd
    /\ down' = TRUE
    /\ UNCHANGED <<inbuf, sent, eof, room, nospace, own, r, w, bad, auth, busy, wpending, pr,
                   ravail, wavail, gstart, queues, loop>>

WorkerClose(x) ==
    /\ \/ wpc[x] = "close" /\ SetBad /\ Go(x, IF bad THEN "disown" ELSE "closing")
       \/ wpc[x] = "closing" /\ Shut /\ Go(x, "disown")
    /\ UNCHANGED <<reading, writing, main, tpc>>

MainClose ==
    /\ \/ mpc = "close" /\ SetBad /\ mpc' = IF bad THEN "end" ELSE "closing"
       \/ mpc = "closing" /\ Shut /\ mpc' = "end"
    /\ UNCHANGED <<work, wbuf, tpc>>

\* No login in time, or no ping: nonameconn.OnTime, client.OnTime.
TimerClose ==
    /\ \/ "timer" \in Hangups /\ tpc = "armed" /\ SetBad /\ tpc' = IF bad THEN "off" ELSE "closing"
       \/ tpc = "closing" /\ Shut /\ tpc' = "off"
    /\ UNCHANGED <<work, main>>

-----------------------------------------------------------------------------
Peer == PeerSend \/ PeerReceive \/ PeerClose

EventLoop == \/ EpollWait
             \/ EventR
             \/ EventW
             \/ EventOwn
             \/ EventSend
             \/ EventSendG

Worker(x) == \/ TakeWq(x)
             \/ TakeLocal(x)
             \/ TakeGq(x)
             \/ Claim(x)
             \/ PollPdBad(x)
             \/ Disown(x)
             \/ Recheck(x)
             \/ Adopt(x)
             \/ PollBad(x)
             \/ PollBusy(x)
             \/ PollR(x)
             \/ PollRead(x)
             \/ PollSetR(x)
             \/ PollSetBusy(x)
             \/ PollRavail(x)
             \/ PollW(x)
             \/ PollClearW(x)
             \/ PollClearWp(x)
             \/ PollWavail(x)
             \/ PollStart(x)
             \/ PollGo(x)
             \/ WorkerClose(x)

Mainproc == \/ MainLogin
            \/ MainLoginDone
            \/ MainRequest
            \/ MainHandled
            \/ MainWritable
            \/ MainDown
            \/ MainWrite
            \/ MainPend
            \/ MainPended
            \/ MainUnpend
            \/ MainRelease
            \/ MainReleased
            \/ MainQueue
            \/ MainClose

Next == Peer \/ EventLoop \/ (\E x \in Workers : Worker(x)) \/ Mainproc \/ TimerClose

Safety == Init /\ [][Next]_vars

-----------------------------------------------------------------------------
(* Properties *)

\* Steps of a worker that owns the polldesp.
Owning == {"poll", "bad", "busy", "r", "read", "setr", "setbusy", "ravail", "w", "clearw",
           "clearwp", "wavail", "start", "go", "close", "closing", "disown"}

TypeOK ==
    /\ {inbuf, sent, room, wq, gq, wbuf} \subseteq Nat
    /\ inbuf + pr <= sent /\ pr <= PacketLen
    /\ room <= Room /\ wq <= WqCap /\ gq <= GqCap
    /\ {eof, nospace, armed, pdbad, own, r, w, bad, auth, busy, wpending, ravail, wavail, down,
        gstart} \subseteq BOOLEAN
    /\ local \in Workers \cup {None}
    /\ ev \subseteq {"in", "out", "rdhup"}
    /\ wpc \in [Workers -> Owning \cup {"idle", "claim", "recheck", "adopt"}]
    /\ reading \in [Workers -> BOOLEAN] /\ writing \in [Workers -> BOOLEAN]

\* own is an exclusive right: one worker polls the connection or has it in its local
\* queue, however often its polldesp is in the channels; and the right is never lost
\* while the connection is alive.
OwnExclusive ==
    LET Holders == {x \in Workers : wpc[x] \in Owning} \cup ({local} \ {None})
    IN  /\ Cardinality({x \in Workers : wpc[x] \in Owning}) + (IF local = None THEN 0 ELSE 1) <= 1
        /\ Holders # {} => own
        /\ own => Holders # {} \/ pdbad

\* The goroutine of the connection is started once, although g_start is a plain field.
StartedOnce == \A x \in Workers : wpc[x] = "go" => mpc = "none"

Handling == mpc \in {"handle_login", "handle"}

\* What busy is for: while mainproc handles a request no worker reads into pr, and
\* what it handles is a whole packet.
BusySection == Handling => pr = PacketLen /\ \A x \in Workers : wpc[x] # "read"

\* A complete packet is being announced, or announced, or being handled.
PacketSeen ==
    pr = PacketLen => \/ ravail \/ Handling
                      \/ \E x \in Workers : wpc[x] \in {"setr", "setbusy", "ravail"}
                      \/ mpc \in {"close", "closing", "end"}

\* After Close the goroutine of the connection ends.
CloseEnds == <>bad => <>[](mpc \in {"none", "end"})

\* The event loop, which serves every connection, is never held up for good by a full
\* queue.
LoopFree == epc # "wait" ~> epc = "wait"

\* One worker polls the connection at a time, and starts its goroutine once.
ConnectionOwned == OwnExclusive /\ StartedOnce

\* A connection that is closed comes to rest, and holds up neither its goroutine nor the
\* event loop.
ConnectionEnds == CloseEnds /\ LoopFree
=============================================================================
