---------------------------- MODULE GoEpollProofs ----------------------------
(***************************************************************************)
(* Proofs about the two Go programs over an edge-triggered epoll: the life *)
(* of the gateway's polldesps, a connection of the gateway, and the poll   *)
(* descriptors of go/sys, for any number of polldesps, workers, threads,   *)
(* files and slots and any capacity of the lists and channels.             *)
(***************************************************************************)
EXTENDS GoEpoll, FiniteSetTheorems, TLAPS

-----------------------------------------------------------------------------
(* YagwRecycle *)

\* The states of a polldesp that has left epoll, and of one that the list may hold.
OutOfEpoll == {"none", "push", "raise", "write", "freed"}
Listed == {"raise", "write", "freed"}

\* EPOLL_CTL_DEL comes before the push, and nothing on the list is collected: whoever
\* is in a batch is in epoll, on its way to the list, or on it.
PdLife ==
    /\ {EventFd, ListenFd} \subseteq polled
    /\ \A p \in Polldesps :
        /\ life[p] \in OutOfEpoll => p \notin polled
        /\ p \in freepds => life[p] \in Listed
        /\ p \in batch => life[p] # "none" /\ (life[p] \in Listed => p \in freepds)

RecycleInv == RecycleTypeOK /\ PdLife

\* A server starts with nothing in use and nothing to recycle.
LEMMA RecycleInitInv == RecycleInit => RecycleInv
<1>. SUFFICES ASSUME RecycleInit PROVE RecycleInv
  OBVIOUS
<1>1. RecycleTypeOK
  <2>1. life \in [Polldesps -> {"none", "used", "del", "push", "raise", "write", "freed"}]
    BY DEF RecycleInit
  <2>2. /\ ready \subseteq polled /\ polled \subseteq Polldesps \cup {EventFd, ListenFd}
        /\ batch \subseteq Polldesps \cup {EventFd, ListenFd} /\ freepds \subseteq Polldesps
        /\ {recycling, acceptable} \subseteq BOOLEAN
    BY DEF RecycleInit
  <2>3. /\ num \in 0..RecycleLimit /\ backlog \in 0..MaxBacklog
        /\ rpc \in {"wait", "events", "cleared"} /\ tick \in {"idle", "write"}
        /\ apc \in {"idle", "accept"}
    BY RecycleAssumption DEF RecycleInit
  <2>. QED BY <2>1, <2>2, <2>3 DEF RecycleTypeOK
<1>2. PdLife
  BY RecycleAssumption DEF RecycleInit, PdLife, OutOfEpoll, Listed
<1>. QED BY <1>1, <1>2 DEF RecycleInv

\* The peers.
LEMMA PeersRecycle ==
    ASSUME RecycleInv, Connect \/ \E p \in Polldesps : Traffic(p)
    PROVE  RecycleInv'
BY RecycleAssumption DEF RecycleInv, RecycleTypeOK, PdLife, Connect, Traffic, loopPart, listPart,
                         acceptPart

\* A polldesp that is allocated is in no batch.
LEMMA AcceptRecycle ==
    ASSUME RecycleInv, accept_proc
    PROVE  RecycleInv'
<1>. USE RecycleAssumption
<1>1. CASE TakeAcceptable
  BY <1>1 DEF RecycleInv, RecycleTypeOK, PdLife, TakeAcceptable, epollPart, loopPart, listPart
<1>2. CASE Accept
  <2>1. CASE backlog > 0 /\ Unused # {} /\ apc' = apc /\ Accepted(NextPd)
    <3>1. NextPd \in Polldesps /\ life[NextPd] = "none"
      BY <2>1 DEF NextPd, Unused
    <3>. DEFINE q == NextPd
    <3>. HIDE DEF q
    <3>2. q \in Polldesps /\ life[q] = "none" /\ Accepted(q)
      BY <2>1, <3>1 DEF q
    <3>. QED BY <2>1, <3>2 DEF Accepted, Free, RecycleInv, RecycleTypeOK, PdLife, OutOfEpoll,
                               Listed, loopPart, listPart
  <2>2. CASE backlog = 0 /\ apc' = "idle" /\ UNCHANGED <<life, epollPart, loopPart, listPart,
                                                         tick, acceptable, backlog>>
    BY <2>2 DEF RecycleInv, RecycleTypeOK, PdLife, epollPart, loopPart, listPart
  <2>. QED BY <1>2, <2>1, <2>2 DEF Accept
<1>. QED BY <1>1, <1>2 DEF accept_proc

\* free_pd, and the garbage collector.
LEMMA FreeRecycle ==
    ASSUME RecycleInv, NEW p \in Polldesps, MarkBad(p) \/ free_pd(p) \/ Collect(p)
    PROVE  RecycleInv'
<1>. USE RecycleAssumption DEF RecycleInv, RecycleTypeOK, PdLife, OutOfEpoll, Listed, Free,
         epollPart, loopPart, listPart, acceptPart
<1>1. CASE MarkBad(p)
  BY <1>1 DEF MarkBad
<1>2. CASE EpollDel(p)
  BY <1>2 DEF EpollDel
<1>3. CASE Push(p)
  BY <1>3 DEF Push
<1>4. CASE Raise(p)
  BY <1>4 DEF Raise
<1>5. CASE RaiseWrite(p)
  BY <1>5 DEF RaiseWrite
<1>6. CASE Collect(p)
  BY <1>6 DEF Collect
<1>. QED BY <1>1, <1>2, <1>3, <1>4, <1>5, <1>6 DEF free_pd

\* The event loop and the ticker.
LEMMA LoopRecycle ==
    ASSUME RecycleInv, tick_recyclepd \/ server_eventloop
    PROVE  RecycleInv'
<1>. USE RecycleAssumption DEF RecycleInv, RecycleTypeOK, PdLife, OutOfEpoll, Listed,
         epollPart, loopPart, listPart, acceptPart
<1>1. CASE Tick
  BY <1>1 DEF Tick
<1>2. CASE TickWrite
  BY <1>2 DEF TickWrite
<1>3. CASE Wait
  BY <1>3 DEF Wait
<1>4. ASSUME NEW x \in batch, Event(x) PROVE RecycleInv'
  BY <1>4 DEF Event
<1>5. CASE Clear
  BY <1>5 DEF Clear
<1>6. CASE Reset
  BY <1>6 DEF Reset
<1>. QED BY <1>1, <1>2, <1>3, <1>4, <1>5, <1>6 DEF tick_recyclepd, server_eventloop

\* No step of the event loop, of closing or of the tick breaks it.
LEMMA RecycleNextInv == RecycleInv /\ [RecycleNext]_recycleVars => RecycleInv'
<1>. SUFFICES ASSUME RecycleInv, [RecycleNext]_recycleVars PROVE RecycleInv'
  OBVIOUS
<1>1. CASE UNCHANGED recycleVars
  BY <1>1 DEF recycleVars, RecycleInv, RecycleTypeOK, PdLife
<1>2. CASE RecycleNext
  BY <1>2, PeersRecycle, AcceptRecycle, FreeRecycle, LoopRecycle DEF RecycleNext
<1>. QED BY <1>1, <1>2

\* A polldesp that is listed or still registered is not in the pool.
LEMMA RecycleInvPdKept == RecycleInv => PdKept
BY DEF RecycleInv, PdLife, PdKept, OutOfEpoll, Listed

-----------------------------------------------------------------------------
(* YagwConn *)

Owners == {x \in Workers : wpc[x] \in Owning}

\* own is set while the polldesp is polled or in a local queue, of which there is one at a
\* time, and stays set otherwise only when the polldesp is bad.
Ownership ==
    /\ \A x, y \in Owners : x = y
    /\ Owners # {} => own /\ local = None
    /\ local # None => own
    /\ own => Owners # {} \/ local # None \/ pdbad

\* g_start says that the goroutine was started, to the one worker that may ask.
Started == (gstart <=> mpc # "none") /\ \A x \in Workers : wpc[x] = "go" => ~gstart

\* TypeOK, one variable at a time.
Counts ==
    /\ inbuf \in Nat /\ sent \in Nat /\ pr \in Nat /\ inbuf + pr <= sent /\ pr <= PacketLen
    /\ room \in Nat /\ room <= Room /\ wbuf \in Nat
    /\ wq \in Nat /\ wq <= WqCap /\ gq \in Nat /\ gq <= GqCap
KernelFlags == eof \in BOOLEAN /\ nospace \in BOOLEAN /\ armed \in BOOLEAN
PdFlags == pdbad \in BOOLEAN /\ own \in BOOLEAN /\ r \in BOOLEAN /\ w \in BOOLEAN
ConnFlags ==
    /\ bad \in BOOLEAN /\ auth \in BOOLEAN /\ busy \in BOOLEAN /\ wpending \in BOOLEAN
    /\ ravail \in BOOLEAN /\ wavail \in BOOLEAN /\ down \in BOOLEAN /\ gstart \in BOOLEAN
Flags == KernelFlags /\ PdFlags /\ ConnFlags
Places ==
    /\ local \in Workers \cup {None} /\ ev \subseteq {"in", "out", "rdhup"}
    /\ wpc \in [Workers -> Owning \cup {"idle", "claim", "recheck", "adopt"}]
    /\ reading \in [Workers -> BOOLEAN] /\ writing \in [Workers -> BOOLEAN]

ConnInv == Counts /\ Flags /\ Places /\ Ownership /\ Started /\ PacketSeen

\* The capacities are positive numbers.
LEMMA ConnNat == {PacketLen, Room, WLimit, WqCap, GqCap} \subseteq Nat \ {0}
BY ConnAssumption

\* A connection starts before its first event, with nobody at work on it.
LEMMA ConnInitInv == Init => ConnInv
<1>. SUFFICES ASSUME Init PROVE ConnInv
  OBVIOUS
<1>. USE ConnAssumption DEF Init
<1>1. Counts
  <2>1. PacketLen \in Nat /\ Room \in Nat /\ WqCap \in Nat /\ GqCap \in Nat
    BY ConnNat
  <2>. QED BY <2>1 DEF Counts
<1>5. Flags
  BY DEF Flags, KernelFlags, PdFlags, ConnFlags
<1>6. Places
  BY DEF Places
<1>2. Ownership
  BY DEF Ownership, Owners, Owning
<1>3. Started
  BY DEF Started
<1>4. PacketSeen
  BY DEF PacketSeen
<1>. QED BY <1>1, <1>2, <1>3, <1>4, <1>5, <1>6 DEF ConnInv

\* The parts that count and place things give the types.
LEMMA ConnInvTypeOK == ConnInv => TypeOK
BY DEF ConnInv, Counts, Flags, KernelFlags, PdFlags, ConnFlags, Places, TypeOK

\* A step that leaves the workers and own alone keeps the ownership.
LEMMA OwnershipSame ==
    ASSUME Ownership, UNCHANGED <<wpc, own, local>>, pdbad => pdbad'
    PROVE  Ownership'
BY DEF Ownership, Owners

\* An owner that remains one, or a worker that remains none, keeps it too.
LEMMA OwnershipMove ==
    ASSUME Places, Ownership, NEW x \in Workers, NEW next,
           wpc' = [wpc EXCEPT ![x] = next], wpc[x] \in Owning <=> next \in Owning,
           UNCHANGED <<own, local>>, pdbad => pdbad'
    PROVE  Ownership'
<1>1. Owners' = Owners
  BY DEF Owners, Places
<1>. QED BY <1>1 DEF Ownership

\* So does a step of another process on the rest of the invariant.
LEMMA ConnSame ==
    ASSUME ConnInv, UNCHANGED <<wpc, own, local, mpc, gstart, pr>>, ravail => ravail',
           pdbad => pdbad'
    PROVE  Ownership' /\ Started' /\ PacketSeen'
<1>1. Ownership'
  BY OwnershipSame DEF ConnInv
<1>2. Started'
  BY DEF ConnInv, Started
<1>3. PacketSeen'
  BY DEF ConnInv, PacketSeen, Handling
<1>. QED BY <1>1, <1>2, <1>3

\* The peer, the event loop and the timer.
LEMMA OthersConn ==
    ASSUME ConnInv, Peer \/ EventLoop \/ TimerClose
    PROVE  ConnInv'
<1>. USE DEF kernel, pd, conn, queues, loop, work, main
<1>1. UNCHANGED <<wpc, own, local, mpc, gstart, pr>> /\ (ravail => ravail') /\ (pdbad => pdbad')
  BY DEF Peer, EventLoop, PeerSend, PeerReceive, PeerClose, EpollWait, EventR, EventW, EventOwn,
         EventSend, EventSendG, TimerClose, SetBad, Shut, FreePd
<1>2. Counts'
  BY ConnNat DEF ConnInv, Counts, Peer, EventLoop, PeerSend, PeerReceive, PeerClose, EpollWait,
         EventR, EventW, EventOwn, EventSend, EventSendG, TimerClose, SetBad, Shut, FreePd
<1>3. KernelFlags'
  <2>. USE DEF ConnInv, Flags, KernelFlags, PdFlags
  <2>1. CASE PeerSend
    BY <2>1 DEF PeerSend
  <2>2. CASE PeerReceive
    BY <2>2 DEF PeerReceive
  <2>3. CASE PeerClose
    BY <2>3 DEF PeerClose
  <2>4. CASE EventLoop \/ TimerClose
    BY <2>4 DEF EventLoop, EpollWait, EventR, EventW, EventOwn, EventSend, EventSendG, TimerClose,
                SetBad, Shut, FreePd
  <2>. QED BY <2>1, <2>2, <2>3, <2>4 DEF Peer
<1>5. PdFlags'
  BY DEF ConnInv, Flags, PdFlags, Peer, EventLoop, PeerSend, PeerReceive, PeerClose, EpollWait,
         EventR, EventW, EventOwn, EventSend, EventSendG, TimerClose, SetBad, Shut, FreePd
<1>6. ConnFlags'
  <2>1. CASE TimerClose
    BY <2>1 DEF ConnInv, Flags, ConnFlags, TimerClose, SetBad, Shut
  <2>2. CASE Peer \/ EventLoop
    <3>1. UNCHANGED conn
      BY <2>2 DEF Peer, EventLoop, PeerSend, PeerReceive, PeerClose, EpollWait, EventR, EventW,
                  EventOwn, EventSend, EventSendG
    <3>. QED BY <3>1 DEF ConnInv, Flags, ConnFlags
  <2>. QED BY <2>1, <2>2
<1>4. Places'
  BY <1>1 DEF ConnInv, Places, Readiness, Peer, EventLoop, PeerSend, PeerReceive, PeerClose,
         EpollWait, EventR, EventW, EventOwn, EventSend, EventSendG, TimerClose, SetBad, Shut, FreePd
<1>. QED BY <1>1, <1>2, <1>3, <1>4, <1>5, <1>6, ConnSame DEF ConnInv, Flags

\* A step of a worker leaves every variable its type.
LEMMA WorkerTypes ==
    ASSUME ConnInv, NEW x \in Workers, Worker(x)
    PROVE  Counts' /\ Flags' /\ Places'
<1>. USE DEF kernel, pd, conn, queues, loop, work, main, Go
<1>1. Counts'
  <2>1. CASE PollRead(x)
    BY <2>1, ConnNat DEF ConnInv, Counts, PollRead, Got
  <2>2. CASE TakeWq(x) \/ TakeGq(x)
    BY <2>2, ConnNat DEF ConnInv, Counts, TakeWq, TakeGq
  <2>3. CASE ~(PollRead(x) \/ TakeWq(x) \/ TakeGq(x))
    <3>1. UNCHANGED <<inbuf, sent, pr, room, wbuf, wq, gq>>
      BY <2>3 DEF Worker, TakeLocal, Claim, PollPdBad, Disown, Recheck, Adopt, PollBad, PollBusy, PollR,
                  PollSetR, PollSetBusy, PollRavail, PollW, PollClearW, PollClearWp, PollWavail,
                  PollStart, PollGo, WorkerClose, SetBad, Shut, FreePd
    <3>. QED BY <3>1 DEF ConnInv, Counts
  <2>. QED BY <2>1, <2>2, <2>3
<1>2. KernelFlags' /\ PdFlags'
  <2>1. CASE WorkerClose(x)
    BY <2>1 DEF ConnInv, Flags, KernelFlags, PdFlags, WorkerClose, SetBad, Shut, FreePd
  <2>2. CASE ~WorkerClose(x)
    <3>1. UNCHANGED <<eof, nospace, armed, pdbad>>
      BY <2>2 DEF Worker, TakeWq, TakeLocal, TakeGq, Claim, PollPdBad, Disown, Recheck, Adopt, PollBad,
                  PollBusy, PollR, PollRead, PollSetR, PollSetBusy, PollRavail, PollW, PollClearW,
                  PollClearWp, PollWavail, PollStart, PollGo
    <3>2. /\ own' \in {own, TRUE, FALSE}
          /\ r' \in {r, TRUE, FALSE}
          /\ w' \in {w, TRUE, FALSE}
      BY <2>2 DEF Worker, TakeWq, TakeLocal, TakeGq, Claim, PollPdBad, Disown, Recheck, Adopt, PollBad,
                  PollBusy, PollR, PollRead, PollSetR, PollSetBusy, PollRavail, PollW, PollClearW,
                  PollClearWp, PollWavail, PollStart, PollGo
    <3>. QED BY <3>1, <3>2 DEF ConnInv, Flags, KernelFlags, PdFlags
  <2>. QED BY <2>1, <2>2
<1>3. ConnFlags'
  <2>1. UNCHANGED <<auth, wpending>> \/ (wpending' = FALSE /\ UNCHANGED auth)
    BY DEF Worker, TakeWq, TakeLocal, TakeGq, Claim, PollPdBad, Disown, Recheck, Adopt, PollBad,
                PollBusy, PollR, PollRead, PollSetR, PollSetBusy, PollRavail, PollW, PollClearW,
                PollClearWp, PollWavail, PollStart, PollGo, WorkerClose, SetBad, Shut
  <2>2. bad' \in {bad, TRUE} /\ busy' \in {busy, TRUE} /\ ravail' \in {ravail, TRUE}
    BY DEF Worker, TakeWq, TakeLocal, TakeGq, Claim, PollPdBad, Disown, Recheck, Adopt, PollBad,
                PollBusy, PollR, PollRead, PollSetR, PollSetBusy, PollRavail, PollW, PollClearW,
                PollClearWp, PollWavail, PollStart, PollGo, WorkerClose, SetBad, Shut
  <2>3. wavail' \in {wavail, TRUE} /\ down' \in {down, TRUE} /\ gstart' \in {gstart, TRUE}
    BY DEF Worker, TakeWq, TakeLocal, TakeGq, Claim, PollPdBad, Disown, Recheck, Adopt, PollBad,
                PollBusy, PollR, PollRead, PollSetR, PollSetBusy, PollRavail, PollW, PollClearW,
                PollClearWp, PollWavail, PollStart, PollGo, WorkerClose, SetBad, Shut
  <2>4. auth' \in BOOLEAN /\ wpending' \in BOOLEAN
    BY <2>1 DEF ConnInv, Flags, ConnFlags
  <2>5. bad' \in BOOLEAN /\ busy' \in BOOLEAN /\ ravail' \in BOOLEAN
    BY <2>2 DEF ConnInv, Flags, ConnFlags
  <2>6. wavail' \in BOOLEAN /\ down' \in BOOLEAN /\ gstart' \in BOOLEAN
    BY <2>3 DEF ConnInv, Flags, ConnFlags
  <2>. QED BY <2>4, <2>5, <2>6, Zenon DEF ConnFlags
<1>4. Places'
  <2>. USE DEF ConnInv, Places, Owning
  <2>1. CASE TakeWq(x)
    BY <2>1 DEF TakeWq
  <2>2. CASE TakeLocal(x)
    BY <2>2 DEF TakeLocal
  <2>3. CASE TakeGq(x)
    BY <2>3 DEF TakeGq
  <2>4. CASE Claim(x)
    BY <2>4 DEF Claim
  <2>5. CASE PollPdBad(x)
    BY <2>5 DEF PollPdBad
  <2>6. CASE Disown(x)
    BY <2>6 DEF Disown
  <2>7. CASE Recheck(x)
    BY <2>7 DEF Recheck
  <2>8. CASE Adopt(x)
    BY <2>8 DEF Adopt
  <2>9. CASE PollBad(x)
    BY <2>9 DEF PollBad
  <2>10. CASE PollBusy(x)
    BY <2>10 DEF PollBusy
  <2>11. CASE PollR(x)
    BY <2>11 DEF PollR
  <2>12. CASE PollRead(x)
    BY <2>12 DEF PollRead
  <2>13. CASE PollSetR(x)
    BY <2>13 DEF PollSetR
  <2>14. CASE PollSetBusy(x)
    BY <2>14 DEF PollSetBusy
  <2>15. CASE PollRavail(x)
    BY <2>15 DEF PollRavail
  <2>16. CASE PollW(x)
    BY <2>16 DEF PollW, Flags, ConnFlags
  <2>17. CASE PollClearW(x)
    BY <2>17 DEF PollClearW
  <2>18. CASE PollClearWp(x)
    BY <2>18 DEF PollClearWp
  <2>19. CASE PollWavail(x)
    BY <2>19 DEF PollWavail
  <2>20. CASE PollStart(x)
    BY <2>20 DEF PollStart
  <2>21. CASE PollGo(x)
    BY <2>21 DEF PollGo
  <2>22. CASE WorkerClose(x)
    BY <2>22 DEF WorkerClose, SetBad, Shut
  <2>. QED BY <2>1, <2>2, <2>3, <2>4, <2>5, <2>6, <2>7, <2>8, <2>9, <2>10, <2>11, <2>12,
           <2>13, <2>14, <2>15, <2>16, <2>17, <2>18, <2>19, <2>20, <2>21, <2>22 DEF Worker
<1>. QED BY <1>1, <1>2, <1>3, <1>4 DEF Flags

\* own passes from worker to worker through the local queue, and is given up and claimed
\* in one step each.
LEMMA WorkerOwnership ==
    ASSUME ConnInv, NEW x \in Workers, Worker(x)
    PROVE  Ownership'
<1>. USE DEF kernel, pd, conn, queues, loop, work, main, Go
<1>0. /\ Places /\ Ownership /\ own \in BOOLEAN
      /\ None \notin Workers
  BY ConnAssumption DEF ConnInv, Flags, PdFlags
<1>1. CASE TakeLocal(x)
  <2>1. Owners = {} /\ own
    BY <1>0, <1>1 DEF TakeLocal, Ownership
  <2>2. Owners' = {x}
    BY <1>0, <1>1, <2>1 DEF TakeLocal, Owners, Places, Owning
  <2>. QED BY <1>1, <2>1, <2>2 DEF TakeLocal, Ownership
<1>2. CASE Claim(x)
  <2>1. CASE ~own
    <3>1. Owners = {} /\ local = None
      BY <1>0, <2>1 DEF Ownership
    <3>2. Owners' = {x}
      BY <1>0, <1>2, <2>1, <3>1 DEF Claim, Unowned, Owners, Places, Owning
    <3>. QED BY <1>2, <2>1, <3>1, <3>2 DEF Claim, Unowned, Ownership
  <2>2. CASE own
    <3>1. /\ wpc' = [wpc EXCEPT ![x] = "idle"]
          /\ wpc[x] \in Owning <=> "idle" \in Owning
          /\ UNCHANGED <<own, local>> /\ (pdbad => pdbad')
      BY <1>2, <2>2 DEF Claim, Unowned, Owning
    <3>. QED BY <1>0, <3>1, OwnershipMove
  <2>. QED BY <1>0, <2>1, <2>2
<1>3. CASE PollPdBad(x)
  <2>1. CASE pdbad
    <3>1. Owners = {x} /\ own /\ local = None
      BY <1>0, <1>3 DEF PollPdBad, Ownership, Owners, Owning
    <3>2. Owners' = {}
      BY <1>0, <1>3, <2>1, <3>1 DEF PollPdBad, Owners, Places, Owning
    <3>. QED BY <1>3, <2>1, <3>1, <3>2 DEF PollPdBad, Ownership
  <2>2. CASE ~pdbad
    <3>1. /\ wpc' = [wpc EXCEPT ![x] = "bad"]
          /\ wpc[x] \in Owning <=> "bad" \in Owning
          /\ UNCHANGED <<own, local>> /\ (pdbad => pdbad')
      BY <1>3, <2>2 DEF PollPdBad, Owning
    <3>. QED BY <1>0, <3>1, OwnershipMove
  <2>. QED BY <2>1, <2>2
<1>4. CASE Disown(x)
  <2>1. Owners = {x} /\ own /\ local = None
    BY <1>0, <1>4 DEF Disown, Ownership, Owners, Owning
  <2>2. Owners' = {}
    BY <1>0, <1>4, <2>1 DEF Disown, Owners, Places, Owning
  <2>. QED BY <1>4, <2>1, <2>2 DEF Disown, Ownership
<1>5. CASE Adopt(x)
  <2>1. Owners' = Owners
    BY <1>0, <1>5 DEF Adopt, Owners, Places, Owning
  <2>. QED BY <1>0, <1>5, <2>1 DEF Adopt, Unowned, Ownership
<1>6. CASE ~(TakeLocal(x) \/ Claim(x) \/ PollPdBad(x) \/ Disown(x) \/ Adopt(x))
  <2>1. PICK next : /\ wpc' = [wpc EXCEPT ![x] = next]
                    /\ wpc[x] \in Owning <=> next \in Owning
                    /\ UNCHANGED <<own, local>>
                    /\ pdbad => pdbad'
    BY <1>6 DEF Worker, TakeWq, TakeGq, Recheck, PollBad, PollBusy, PollR, PollRead, PollSetR,
                PollSetBusy, PollRavail, PollW, PollClearW, PollClearWp, PollWavail, PollStart,
                PollGo, WorkerClose, SetBad, Shut, FreePd, Owning
  <2>. QED BY <1>0, <2>1, OwnershipMove
<1>. QED BY <1>1, <1>2, <1>3, <1>4, <1>5, <1>6

\* The goroutine is started by the owner, who has seen that it was not.
LEMMA WorkerStarted ==
    ASSUME ConnInv, NEW x \in Workers, Worker(x)
    PROVE  Started'
<1>. USE DEF kernel, pd, conn, queues, loop, work, main, Go
<1>0. Places /\ Ownership /\ Started
  BY DEF ConnInv
<1>1. CASE PollGo(x)
  <2>1. \A y \in Workers : wpc'[y] # "go"
    BY <1>0, <1>1 DEF PollGo, Ownership, Owners, Owning, Places
  <2>. QED BY <1>1, <2>1 DEF PollGo, Started
<1>2. CASE PollStart(x)
  BY <1>0, <1>2 DEF PollStart, Started, Places
<1>3. CASE ~(PollGo(x) \/ PollStart(x))
  <2>1. PICK next : wpc' = [wpc EXCEPT ![x] = next] /\ next # "go" /\ UNCHANGED <<mpc, gstart>>
    BY <1>3 DEF Worker, TakeWq, TakeLocal, TakeGq, Claim, PollPdBad, Disown, Recheck, Adopt, PollBad,
                PollBusy, PollR, PollRead, PollSetR, PollSetBusy, PollRavail, PollW, PollClearW,
                PollClearWp, PollWavail, WorkerClose, SetBad, Shut
  <2>. QED BY <1>0, <2>1 DEF Started, Places
<1>. QED BY <1>1, <1>2, <1>3

\* A complete packet is announced before the worker does anything else.
LEMMA WorkerPacket ==
    ASSUME ConnInv, NEW x \in Workers, Worker(x)
    PROVE  PacketSeen'
<1>. USE DEF kernel, pd, conn, queues, loop, work, main, Go
<1>0. Places /\ Started /\ PacketSeen
  BY DEF ConnInv
<1>1. CASE PollRead(x)
  BY <1>0, <1>1 DEF PollRead, PacketSeen, Places, Handling
<1>2. CASE PollSetR(x) \/ PollSetBusy(x) \/ PollRavail(x)
  BY <1>0, <1>2 DEF PollSetR, PollSetBusy, PollRavail, PacketSeen, Places, Handling
<1>3. CASE PollGo(x)
  <2>1. mpc = "none"
    BY <1>0, <1>3 DEF PollGo, Started
  <2>. QED BY <1>0, <1>3, <2>1 DEF PollGo, PacketSeen, Places, Handling
<1>4. CASE ~(PollRead(x) \/ PollSetR(x) \/ PollSetBusy(x) \/ PollRavail(x) \/ PollGo(x))
  <2>1. PICK next : /\ wpc' = [wpc EXCEPT ![x] = next] /\ UNCHANGED <<mpc, pr, ravail>>
                    /\ wpc[x] \notin {"setr", "setbusy", "ravail"}
    BY <1>4 DEF Worker, TakeWq, TakeLocal, TakeGq, Claim, PollPdBad, Disown, Recheck, Adopt, PollBad,
                PollBusy, PollR, PollW, PollClearW, PollClearWp, PollWavail, PollStart,
                WorkerClose, SetBad, Shut
  <2>. QED BY <1>0, <2>1 DEF PacketSeen, Places, Handling
<1>. QED BY <1>1, <1>2, <1>3, <1>4

\* mainproc.  It resets the reader with every packet it has handled.
LEMMA MainConn ==
    ASSUME ConnInv, Mainproc
    PROVE  ConnInv'
<1>. USE DEF kernel, pd, conn, queues, loop, work, main
<1>0. Counts /\ Flags /\ Places /\ Ownership /\ Started /\ PacketSeen
  BY DEF ConnInv
<1>1. Counts'
  <2>1. CASE MainWrite
    BY <1>0, <2>1, ConnNat DEF Counts, MainWrite
  <2>2. CASE MainQueue
    BY <1>0, <2>2, ConnNat DEF Counts, MainQueue
  <2>3. CASE MainLoginDone \/ MainHandled
    BY <1>0, <2>3, ConnNat DEF Counts, MainLoginDone, MainHandled, Replies
  <2>4. CASE ~(MainWrite \/ MainQueue \/ MainLoginDone \/ MainHandled)
    <3>1. UNCHANGED <<inbuf, sent, pr, room, wbuf, wq, gq>>
      BY <2>4 DEF Mainproc, MainLogin, MainRequest, MainWritable, MainDown, MainPend, MainPended,
                  MainUnpend, MainRelease, MainReleased, MainClose, SetBad, Shut, FreePd
    <3>. QED BY <1>0, <3>1 DEF Counts
  <2>. QED BY <2>1, <2>2, <2>3, <2>4
<1>2. KernelFlags' /\ PdFlags'
  <2>1. /\ nospace' \in {nospace, TRUE} /\ armed' \in {armed, FALSE} /\ pdbad' \in {pdbad, TRUE}
        /\ w' \in {w, FALSE} /\ UNCHANGED <<eof, own, r>>
    BY DEF Mainproc, MainLogin, MainLoginDone, MainRequest, MainHandled, MainWritable, MainDown, MainWrite,
           MainPend, MainPended, MainUnpend, MainRelease, MainReleased, MainQueue, MainClose,
           SetBad, Shut, FreePd
  <2>. QED BY <1>0, <2>1 DEF Flags, KernelFlags, PdFlags
<1>3. ConnFlags'
  <2>1. bad' \in {bad, TRUE} /\ auth' \in {auth, TRUE} /\ busy' \in {busy, FALSE} /\ UNCHANGED gstart
    <3>1. CASE MainRelease
      BY <1>0, <3>1 DEF MainRelease, MayRelease, Flags, ConnFlags
    <3>2. CASE ~MainRelease
      BY <3>2 DEF Mainproc, MainLogin, MainLoginDone, MainRequest, MainHandled, MainWritable, MainDown,
                  MainWrite, MainPend, MainPended, MainUnpend, MainReleased, MainQueue, MainClose,
                  SetBad, Shut, FreePd
    <3>. QED BY <3>1, <3>2
  <2>2. /\ wpending' \in {wpending, TRUE, FALSE} /\ ravail' \in {ravail, FALSE}
        /\ wavail' \in {wavail, FALSE} /\ down' \in {down, TRUE}
    BY DEF Mainproc, MainLogin, MainLoginDone, MainRequest, MainHandled, MainWritable, MainDown, MainWrite,
           MainPend, MainPended, MainUnpend, MainRelease, MainReleased, MainQueue, MainClose,
           SetBad, Shut, FreePd
  <2>3. bad' \in BOOLEAN /\ auth' \in BOOLEAN /\ busy' \in BOOLEAN /\ gstart' \in BOOLEAN
    BY <1>0, <2>1 DEF Flags, ConnFlags
  <2>4. wpending' \in BOOLEAN /\ ravail' \in BOOLEAN /\ wavail' \in BOOLEAN /\ down' \in BOOLEAN
    BY <1>0, <2>2 DEF Flags, ConnFlags
  <2>. QED BY <2>3, <2>4, Zenon DEF ConnFlags
<1>4. Places' /\ Ownership'
  <2>1. UNCHANGED <<local, ev, wpc, reading, writing, own>> /\ (pdbad => pdbad')
    BY DEF Mainproc, MainLogin, MainLoginDone, MainRequest, MainHandled, MainWritable, MainDown, MainWrite,
           MainPend, MainPended, MainUnpend, MainRelease, MainReleased, MainQueue, MainClose,
           SetBad, Shut, FreePd
  <2>2. Places'
    BY <1>0, <2>1 DEF Places
  <2>. QED BY <1>0, <2>1, <2>2, OwnershipSame
<1>5. Started'
  <2>1. UNCHANGED <<wpc, gstart>> /\ mpc # "none" /\ mpc' # "none"
    BY DEF Mainproc, MainLogin, MainLoginDone, MainRequest, MainHandled, MainWritable, MainDown, MainWrite,
           MainPend, MainPended, MainUnpend, MainRelease, MainReleased, MainQueue, MainClose,
           SetBad, Shut, FreePd
  <2>. QED BY <1>0, <2>1 DEF Started
<1>6. PacketSeen'
  <2>1. CASE MainLoginDone \/ MainHandled
    <3>1. pr' = 0 \/ mpc' = "close"
      BY <2>1 DEF MainLoginDone, MainHandled
    <3>. QED BY <3>1, ConnNat DEF PacketSeen
  <2>2. CASE MainLogin \/ MainRequest
    BY <2>2 DEF MainLogin, MainRequest, PacketSeen, Handling
  <2>3. CASE ~(MainLoginDone \/ MainHandled \/ MainLogin \/ MainRequest)
    <3>1. /\ UNCHANGED <<pr, ravail, wpc>> /\ ~Handling
          /\ mpc \in {"close", "closing", "end"} => mpc' \in {"close", "closing", "end"}
      BY <2>3 DEF Mainproc, Handling, MainWritable, MainDown, MainWrite, MainPend, MainPended, MainUnpend,
                  MainRelease, MainReleased, MainQueue, MainClose, SetBad, Shut, FreePd
    <3>. QED BY <1>0, <3>1 DEF PacketSeen
  <2>. QED BY <2>1, <2>2, <2>3
<1>. QED BY <1>1, <1>2, <1>3, <1>4, <1>5, <1>6 DEF ConnInv, Flags

\* No step of the kernel, of the event loop, of a worker or of main breaks it.
LEMMA ConnNextInv == ConnInv /\ [Next]_vars => ConnInv'
<1>. SUFFICES ASSUME ConnInv, [Next]_vars PROVE ConnInv'
  OBVIOUS
<1>1. CASE UNCHANGED vars
  <2>. USE <1>1 DEF vars, kernel, pd, conn, queues, loop, work, main, ConnInv
  <2>1. Counts'
    BY DEF Counts
  <2>2. Flags' /\ Places'
    BY DEF Flags, KernelFlags, PdFlags, ConnFlags, Places
  <2>3. Ownership' /\ Started' /\ PacketSeen'
    BY ConnSame
  <2>. QED BY <2>1, <2>2, <2>3
<1>2. CASE Peer \/ EventLoop \/ TimerClose
  BY <1>2, OthersConn
<1>3. ASSUME NEW x \in Workers, Worker(x) PROVE ConnInv'
  BY <1>3, WorkerTypes, WorkerOwnership, WorkerStarted, WorkerPacket DEF ConnInv
<1>4. CASE Mainproc
  BY <1>4, MainConn
<1>. QED BY <1>1, <1>2, <1>3, <1>4 DEF Next

\* The invariant gives the properties.
LEMMA ConnInvOwned == ConnInv => ConnectionOwned
<1>. SUFFICES ASSUME ConnInv PROVE ConnectionOwned
  OBVIOUS
<1>1. OwnExclusive
  <2>1. CASE Owners = {}
    <3>1. Cardinality(Owners) = 0
      BY <2>1, FS_EmptySet
    <3>. QED BY <2>1, <3>1 DEF ConnInv, Ownership, OwnExclusive, Owners
  <2>2. CASE Owners # {}
    <3>1. PICK x : Owners = {x}
      BY <2>2 DEF ConnInv, Ownership
    <3>2. Cardinality(Owners) = 1
      BY <3>1, FS_Singleton
    <3>. QED BY <2>2, <3>2 DEF ConnInv, Ownership, OwnExclusive, Owners
  <2>. QED BY <2>1, <2>2
<1>2. StartedOnce
  BY DEF ConnInv, Started, StartedOnce
<1>. QED BY <1>1, <1>2 DEF ConnectionOwned

-----------------------------------------------------------------------------
(* SysPool *)

OpeningPCs == {"alloc", "new", "count", "uncount", "next", "pop", "scan", "mark", "append",
               "register", "add"}
ClosingPCs == {"recycle", "unmark", "sub", "del"}
PuttingPCs == {"link", "expect", "push"}
SysPCs == {"idle"} \cup OpeningPCs \cup ClosingPCs \cup PuttingPCs

SysThread == [pc : SysPCs, slot : SlotIds \cup {Nil}, next : slots \cup {Nil}, idx : Indices,
              file : Files \cup {Nil}]

\* SysTypeOK without the bound of the counts, and that links and descriptors lead to slots
\* that are in p.slots.
SysWords ==
    /\ slots \subseteq SlotIds /\ partial \in slots \cup {Nil}
    /\ pnext \in [SlotIds -> slots \cup {Nil}] /\ cnt \in [SlotIds -> Nat]
    /\ marks \subseteq SlotIds \X Indices
    /\ reg \in [SlotIds \X Indices -> Files \cup {Nil}]
    /\ fpd \in [Files -> (slots \X Indices) \cup {NoPd}]
    /\ fstate \in [Files -> {"none", "opening", "open", "closing"}]
    /\ thread \in [Threads -> SysThread]

\* A file that is being opened or closed is so by one thread.
FilesHeld ==
    \A t \in Threads :
      /\ thread[t].pc # "idle" => File(t) \in Files
      /\ thread[t].pc \in OpeningPCs => fstate[File(t)] = "opening"
      /\ thread[t].pc \in ClosingPCs => fstate[File(t)] = "closing"
      /\ thread[t].pc \in PuttingPCs => fstate[File(t)] \in {"opening", "closing"}
      /\ \A u \in Threads : thread[t].pc # "idle" /\ thread[u].pc # "idle" /\ File(t) = File(u)
                            => t = u

\* A thread works on a slot that is in p.slots, except on the one it has just made.
SlotsKnown ==
    \A t \in Threads :
      /\ thread[t].pc \in {"idle", "alloc", "new"} => Slot(t) = Nil
      /\ thread[t].pc = "append" => Slot(t) \in SlotIds
      /\ thread[t].pc \notin {"idle", "alloc", "new", "append"} => Slot(t) \in slots

\* The thread has a descriptor: it was given one, or gives it back.
HasPd(t) ==
    \/ thread[t].pc \in {"append", "register", "add", "recycle", "unmark"}
    \/ thread[t].pc \in PuttingPCs /\ fstate[File(t)] = "opening"

\* The marked descriptors are those that a thread or an open file has, each of them one.
Descriptors ==
    /\ \A t \in Threads : HasPd(t) => Pd(t) \in marks
    /\ \A t, u \in Threads : HasPd(t) /\ HasPd(u) /\ Pd(t) = Pd(u) => t = u
    /\ \A t \in Threads : thread[t].pc = "add" => reg[Pd(t)] = File(t) /\ fpd[File(t)] = Pd(t)
    /\ \A f \in Files : fstate[f] = "open" => fpd[f] \in marks /\ reg[fpd[f]] = f
    /\ \A f \in Files, t \in Threads : fstate[f] = "open" /\ HasPd(t) => Pd(t) # fpd[f]
    /\ \A d \in marks : \/ \E t \in Threads : HasPd(t) /\ Pd(t) = d
                        \/ \E f \in Files : fstate[f] = "open" /\ fpd[f] = d

\* A slot counts its marks and the threads that have counted but not marked, or unmarked but
\* not uncounted, or have to take their count back.
MarksOf(s) == {d \in marks : d[1] = s}
Scanning(s) == {t \in Threads : Slot(t) = s /\ thread[t].pc \in {"scan", "mark"}}
Leaving(s) == {t \in Threads : Slot(t) = s /\ thread[t].pc \in {"uncount", "sub"}}

Counted ==
    \A s \in SlotIds :
      /\ cnt[s] = Cardinality(MarksOf(s)) + Cardinality(Scanning(s)) + Cardinality(Leaving(s))
      /\ Cardinality(MarksOf(s)) + Cardinality(Scanning(s)) <= SlotSize

SysInv == SysWords /\ FilesHeld /\ SlotsKnown /\ Descriptors /\ Counted

\* No slot exists when the program starts.
LEMMA SysInitInv == SysInit => SysInv
<1>. SUFFICES ASSUME SysInit PROVE SysInv
  OBVIOUS
<1>1. 1 \in Indices /\ SlotSize \in Nat
  BY SysAssumption DEF Indices
<1>2. ThreadIdle \in SysThread
  BY <1>1 DEF SysInit, ThreadIdle, SysThread, SysPCs
<1>3. \A t \in Threads : thread[t].pc = "idle" /\ Slot(t) = Nil
  BY DEF SysInit, ThreadIdle, Slot
<1>4. SysWords
  BY <1>1, <1>2, SysAssumption DEF SysInit, SysWords, NoPd
<1>5. FilesHeld /\ SlotsKnown
  BY <1>3 DEF FilesHeld, SlotsKnown, OpeningPCs, ClosingPCs, PuttingPCs
<1>6. Descriptors
  BY <1>3 DEF SysInit, Descriptors, HasPd, PuttingPCs
<1>7. Counted
  <2>1. \A s \in SlotIds : MarksOf(s) = {} /\ Scanning(s) = {} /\ Leaving(s) = {}
    BY <1>3 DEF SysInit, MarksOf, Scanning, Leaving
  <2>2. \A s \in SlotIds : cnt[s] = 0
    BY DEF SysInit
  <2>3. Cardinality({}) = 0
    BY FS_EmptySet
  <2>. QED BY <2>1, <2>2, <2>3, <1>1 DEF Counted
<1>. QED BY <1>4, <1>5, <1>6, <1>7 DEF SysInv

\* A step that moves one thread, and changes neither its file nor the descriptor it has.
LEMMA SysMove ==
    ASSUME FilesHeld, Descriptors, thread \in [Threads -> SysThread],
           NEW t \in Threads, NEW v, thread' = [thread EXCEPT ![t] = v],
           UNCHANGED <<marks, reg, fpd, fstate>>,
           v.file = File(t), v.pc # "idle" /\ thread[t].pc # "idle" /\ v.pc # "add",
           v.pc \in OpeningPCs => fstate[File(t)] = "opening",
           v.pc \in ClosingPCs => fstate[File(t)] = "closing",
           v.pc \in PuttingPCs => fstate[File(t)] \in {"opening", "closing"},
           HasPd(t)' <=> HasPd(t), HasPd(t) => v.slot = Slot(t) /\ v.idx = thread[t].idx
    PROVE  FilesHeld' /\ Descriptors'
<1>1. /\ thread'[t] = v
      /\ \A u \in Threads : u # t => thread'[u] = thread[u]
  OBVIOUS
<1>2. FilesHeld'
  BY <1>1 DEF FilesHeld, File
<1>3. \A u \in Threads : (HasPd(u)' <=> HasPd(u)) /\ (HasPd(u) => Pd(u)' = Pd(u))
  BY <1>1 DEF HasPd, Pd, Slot, File
<1>4. Descriptors'
  <2>1. \A u \in Threads : HasPd(u)' => Pd(u)' \in marks'
    BY <1>3 DEF Descriptors
  <2>2. \A u, x \in Threads : HasPd(u)' /\ HasPd(x)' /\ Pd(u)' = Pd(x)' => u = x
    BY <1>3 DEF Descriptors
  <2>3. \A u \in Threads : thread'[u].pc = "add" => reg'[Pd(u)'] = File(u)'
                                                    /\ fpd'[File(u)'] = Pd(u)'
    BY <1>1, <1>3 DEF Descriptors, File, HasPd
  <2>4. \A f \in Files : fstate'[f] = "open" => fpd'[f] \in marks' /\ reg'[fpd'[f]] = f
    BY DEF Descriptors
  <2>5. \A f \in Files, u \in Threads : fstate'[f] = "open" /\ HasPd(u)' => Pd(u)' # fpd'[f]
    BY <1>3 DEF Descriptors
  <2>6. \A d \in marks' : \/ \E u \in Threads : HasPd(u)' /\ Pd(u)' = d
                          \/ \E f \in Files : fstate'[f] = "open" /\ fpd'[f] = d
    BY <1>3 DEF Descriptors
  <2>. QED BY <2>1, <2>2, <2>3, <2>4, <2>5, <2>6 DEF Descriptors
<1>. QED BY <1>2, <1>4

\* A step that marks nothing, and after which whoever counted in a slot still does.
LEMMA CountSame ==
    ASSUME Counted, thread \in [Threads -> SysThread],
           NEW t \in Threads, NEW v, thread' = [thread EXCEPT ![t] = v],
           UNCHANGED <<cnt, marks>>,
           \A P \in {{"scan", "mark"}, {"uncount", "sub"}} :
              /\ v.pc \in P <=> thread[t].pc \in P
              /\ v.pc \in P => v.slot = Slot(t)
    PROVE  Counted'
<1>1. /\ thread'[t] = v
      /\ \A u \in Threads : u # t => thread'[u] = thread[u]
  OBVIOUS
<1>2. \A s \in SlotIds : MarksOf(s)' = MarksOf(s) /\ Scanning(s)' = Scanning(s)
                         /\ Leaving(s)' = Leaving(s)
  BY <1>1 DEF MarksOf, Scanning, Leaving, Slot
<1>. QED BY <1>2 DEF Counted

\* The steps of alloc and putpartial that give and take no descriptor.
LEMMA WalkSys ==
    ASSUME SysInv, NEW t \in Threads,
           AllocTop(t) \/ AllocNext(t) \/ AllocPop(t) \/ AllocScan(t) \/ AllocAppend(t) \/ putpartial(t)
    PROVE  SysInv'
<1>. USE DEF At, GoTo, poolVars, fileVars
<1>0. SysWords /\ FilesHeld /\ SlotsKnown /\ Descriptors /\ Counted
  BY DEF SysInv
<1>a. /\ thread \in [Threads -> SysThread] /\ thread[t] \in SysThread
      /\ Nil \notin SlotIds /\ Nil \notin Files /\ slots \subseteq SlotIds
  BY <1>0, SysAssumption DEF SysWords
<1>b. 1 \in Indices
  BY SysAssumption DEF Indices
<1>1. CASE AllocTop(t)
  <2>. DEFINE v == thread'[t]
  <2>1. /\ thread' = [thread EXCEPT ![t] = v]
        /\ v \in SysThread' /\ v.file = File(t) /\ v.pc \in SysPCs
    BY <1>0, <1>a, <1>b, <1>1 DEF AllocTop, SysThread, SysPCs, OpeningPCs, ClosingPCs,
       PuttingPCs, SysWords, File, Slot
  <2>2. SysWords'
    BY <1>0, <1>a, <1>1, <2>1 DEF AllocTop, SysWords, SysThread, Slot, SlotsKnown
  <2>3. SlotsKnown'
    BY <1>0, <1>a, <1>1, <2>1 DEF AllocTop, SysWords, SlotsKnown, Slot
  <2>4. FilesHeld' /\ Descriptors' /\ Counted'
    <3>1. UNCHANGED <<cnt, marks, reg, fpd, fstate>>
      BY <1>1 DEF AllocTop
    <3>2. /\ v.pc # "idle" /\ thread[t].pc # "idle" /\ v.pc # "add"
          /\ v.pc \in OpeningPCs => fstate[File(t)] = "opening"
          /\ v.pc \in ClosingPCs => fstate[File(t)] = "closing"
          /\ v.pc \in PuttingPCs => fstate[File(t)] \in {"opening", "closing"}
      BY <1>0, <1>a, <1>1 DEF AllocTop, FilesHeld, OpeningPCs, ClosingPCs, PuttingPCs, File
    <3>3. /\ HasPd(t)' <=> HasPd(t)
          /\ HasPd(t) => v.slot = Slot(t) /\ v.idx = thread[t].idx
      BY <1>0, <1>a, <1>1, <2>1 DEF AllocTop, HasPd, FilesHeld, OpeningPCs, PuttingPCs, File, Slot
    <3>4. \A P \in {{"scan", "mark"}, {"uncount", "sub"}} :
             /\ v.pc \in P <=> thread[t].pc \in P
             /\ v.pc \in P => v.slot = Slot(t)
      BY <1>0, <1>a, <1>1 DEF AllocTop, Slot
    <3>. HIDE DEF v
    <3>. QED BY <1>0, <1>a, <2>1, <3>1, <3>2, <3>3, <3>4, SysMove, CountSame
  <2>. QED BY <2>2, <2>3, <2>4 DEF SysInv
<1>2. CASE AllocNext(t)
  <2>. DEFINE v == thread'[t]
  <2>1. /\ thread' = [thread EXCEPT ![t] = v]
        /\ v \in SysThread' /\ v.file = File(t) /\ v.pc \in SysPCs
    BY <1>0, <1>a, <1>b, <1>2 DEF AllocNext, SysThread, SysPCs, OpeningPCs, ClosingPCs,
       PuttingPCs, SysWords, File, Slot
  <2>2. SysWords'
    BY <1>0, <1>a, <1>2, <2>1 DEF AllocNext, SysWords, SysThread, Slot, SlotsKnown
  <2>3. SlotsKnown'
    BY <1>0, <1>a, <1>2, <2>1 DEF AllocNext, SysWords, SlotsKnown, Slot
  <2>4. FilesHeld' /\ Descriptors' /\ Counted'
    <3>1. UNCHANGED <<cnt, marks, reg, fpd, fstate>>
      BY <1>2 DEF AllocNext
    <3>2. /\ v.pc # "idle" /\ thread[t].pc # "idle" /\ v.pc # "add"
          /\ v.pc \in OpeningPCs => fstate[File(t)] = "opening"
          /\ v.pc \in ClosingPCs => fstate[File(t)] = "closing"
          /\ v.pc \in PuttingPCs => fstate[File(t)] \in {"opening", "closing"}
      BY <1>0, <1>a, <1>2 DEF AllocNext, FilesHeld, OpeningPCs, ClosingPCs, PuttingPCs, File
    <3>3. /\ HasPd(t)' <=> HasPd(t)
          /\ HasPd(t) => v.slot = Slot(t) /\ v.idx = thread[t].idx
      BY <1>0, <1>a, <1>2, <2>1 DEF AllocNext, HasPd, FilesHeld, OpeningPCs, PuttingPCs, File, Slot
    <3>4. \A P \in {{"scan", "mark"}, {"uncount", "sub"}} :
             /\ v.pc \in P <=> thread[t].pc \in P
             /\ v.pc \in P => v.slot = Slot(t)
      BY <1>0, <1>a, <1>2 DEF AllocNext, Slot
    <3>. HIDE DEF v
    <3>. QED BY <1>0, <1>a, <2>1, <3>1, <3>2, <3>3, <3>4, SysMove, CountSame
  <2>. QED BY <2>2, <2>3, <2>4 DEF SysInv
<1>3. CASE AllocPop(t)
  <2>. DEFINE v == thread'[t]
  <2>1. /\ thread' = [thread EXCEPT ![t] = v]
        /\ v \in SysThread' /\ v.file = File(t) /\ v.pc \in SysPCs
    BY <1>0, <1>a, <1>b, <1>3 DEF AllocPop, ThreadIdle, SysThread, SysPCs, OpeningPCs, ClosingPCs,
       PuttingPCs, SysWords, File, Slot
  <2>2. SysWords'
    BY <1>0, <1>a, <1>3, <2>1 DEF AllocPop, SysWords, SysThread, Slot, SlotsKnown
  <2>3. SlotsKnown'
    BY <1>0, <1>a, <1>3, <2>1 DEF AllocPop, ThreadIdle, SysWords, SlotsKnown, Slot
  <2>4. FilesHeld' /\ Descriptors' /\ Counted'
    <3>1. UNCHANGED <<cnt, marks, reg, fpd, fstate>>
      BY <1>3 DEF AllocPop
    <3>2. /\ v.pc # "idle" /\ thread[t].pc # "idle" /\ v.pc # "add"
          /\ v.pc \in OpeningPCs => fstate[File(t)] = "opening"
          /\ v.pc \in ClosingPCs => fstate[File(t)] = "closing"
          /\ v.pc \in PuttingPCs => fstate[File(t)] \in {"opening", "closing"}
      BY <1>0, <1>a, <1>3 DEF AllocPop, ThreadIdle, FilesHeld, OpeningPCs, ClosingPCs, PuttingPCs, File
    <3>3. /\ HasPd(t)' <=> HasPd(t)
          /\ HasPd(t) => v.slot = Slot(t) /\ v.idx = thread[t].idx
      BY <1>0, <1>a, <1>3, <2>1 DEF AllocPop, ThreadIdle, HasPd, FilesHeld, OpeningPCs, PuttingPCs, File, Slot
    <3>4. \A P \in {{"scan", "mark"}, {"uncount", "sub"}} :
             /\ v.pc \in P <=> thread[t].pc \in P
             /\ v.pc \in P => v.slot = Slot(t)
      BY <1>0, <1>a, <1>3 DEF AllocPop, ThreadIdle, Slot
    <3>. HIDE DEF v
    <3>. QED BY <1>0, <1>a, <2>1, <3>1, <3>2, <3>3, <3>4, SysMove, CountSame
  <2>. QED BY <2>2, <2>3, <2>4 DEF SysInv
<1>4. CASE AllocScan(t)
  <2>0. PICK i \in Indices : /\ thread[t].pc = "scan"
                             /\ thread' = [thread EXCEPT ![t].idx = i, ![t].pc = "mark"]
                             /\ UNCHANGED <<partial, pnext, cnt, marks, slots, reg, fpd, fstate>>
    BY <1>4 DEF AllocScan
  <2>. DEFINE v == thread'[t]
  <2>1. /\ thread' = [thread EXCEPT ![t] = v]
        /\ v \in SysThread' /\ v.file = File(t) /\ v.pc \in SysPCs
    BY <1>0, <1>a, <1>b, <2>0 DEF SysThread, SysPCs, OpeningPCs, ClosingPCs,
       PuttingPCs, SysWords, File, Slot
  <2>2. SysWords'
    BY <1>0, <1>a, <2>0, <2>1 DEF SysWords, SysThread, Slot, SlotsKnown
  <2>3. SlotsKnown'
    BY <1>0, <1>a, <2>0, <2>1 DEF SysWords, SlotsKnown, Slot
  <2>4. FilesHeld' /\ Descriptors' /\ Counted'
    <3>1. UNCHANGED <<cnt, marks, reg, fpd, fstate>>
      BY <2>0
    <3>2. /\ v.pc # "idle" /\ thread[t].pc # "idle" /\ v.pc # "add"
          /\ v.pc \in OpeningPCs => fstate[File(t)] = "opening"
          /\ v.pc \in ClosingPCs => fstate[File(t)] = "closing"
          /\ v.pc \in PuttingPCs => fstate[File(t)] \in {"opening", "closing"}
      BY <1>0, <1>a, <2>0 DEF FilesHeld, OpeningPCs, ClosingPCs, PuttingPCs, File
    <3>3. /\ HasPd(t)' <=> HasPd(t)
          /\ HasPd(t) => v.slot = Slot(t) /\ v.idx = thread[t].idx
      BY <1>0, <1>a, <2>0, <2>1 DEF HasPd, FilesHeld, OpeningPCs, PuttingPCs, File, Slot
    <3>4. \A P \in {{"scan", "mark"}, {"uncount", "sub"}} :
             /\ v.pc \in P <=> thread[t].pc \in P
             /\ v.pc \in P => v.slot = Slot(t)
      BY <1>0, <1>a, <2>0 DEF Slot
    <3>. HIDE DEF v
    <3>. QED BY <1>0, <1>a, <2>1, <3>1, <3>2, <3>3, <3>4, SysMove, CountSame
  <2>. QED BY <2>2, <2>3, <2>4 DEF SysInv
<1>5. CASE AllocAppend(t)
  <2>. DEFINE v == thread'[t]
  <2>1. /\ thread' = [thread EXCEPT ![t] = v]
        /\ v \in SysThread' /\ v.file = File(t) /\ v.pc \in SysPCs
    BY <1>0, <1>a, <1>b, <1>5 DEF AllocAppend, SysThread, SysPCs, OpeningPCs, ClosingPCs,
       PuttingPCs, SysWords, File, Slot
  <2>2. SysWords'
    BY <1>0, <1>a, <1>5, <2>1 DEF AllocAppend, SysWords, SysThread, Slot, SlotsKnown
  <2>3. SlotsKnown'
    BY <1>0, <1>a, <1>5, <2>1 DEF AllocAppend, SysWords, SlotsKnown, Slot
  <2>4. FilesHeld' /\ Descriptors' /\ Counted'
    <3>1. UNCHANGED <<cnt, marks, reg, fpd, fstate>>
      BY <1>5 DEF AllocAppend
    <3>2. /\ v.pc # "idle" /\ thread[t].pc # "idle" /\ v.pc # "add"
          /\ v.pc \in OpeningPCs => fstate[File(t)] = "opening"
          /\ v.pc \in ClosingPCs => fstate[File(t)] = "closing"
          /\ v.pc \in PuttingPCs => fstate[File(t)] \in {"opening", "closing"}
      BY <1>0, <1>a, <1>5 DEF AllocAppend, FilesHeld, OpeningPCs, ClosingPCs, PuttingPCs, File
    <3>3. /\ HasPd(t)' <=> HasPd(t)
          /\ HasPd(t) => v.slot = Slot(t) /\ v.idx = thread[t].idx
      BY <1>0, <1>a, <1>5, <2>1 DEF AllocAppend, HasPd, FilesHeld, OpeningPCs, PuttingPCs, File, Slot
    <3>4. \A P \in {{"scan", "mark"}, {"uncount", "sub"}} :
             /\ v.pc \in P <=> thread[t].pc \in P
             /\ v.pc \in P => v.slot = Slot(t)
      BY <1>0, <1>a, <1>5 DEF AllocAppend, Slot
    <3>. HIDE DEF v
    <3>. QED BY <1>0, <1>a, <2>1, <3>1, <3>2, <3>3, <3>4, SysMove, CountSame
  <2>. QED BY <2>2, <2>3, <2>4 DEF SysInv
<1>6. CASE PutLink(t)
  <2>. DEFINE v == thread'[t]
  <2>1. /\ thread' = [thread EXCEPT ![t] = v]
        /\ v \in SysThread' /\ v.file = File(t) /\ v.pc \in SysPCs
    BY <1>0, <1>a, <1>b, <1>6 DEF PutLink, SysThread, SysPCs, OpeningPCs, ClosingPCs,
       PuttingPCs, SysWords, File, Slot
  <2>2. SysWords'
    BY <1>0, <1>a, <1>6, <2>1 DEF PutLink, SysWords, SysThread, Slot, SlotsKnown
  <2>3. SlotsKnown'
    BY <1>0, <1>a, <1>6, <2>1 DEF PutLink, SysWords, SlotsKnown, Slot
  <2>4. FilesHeld' /\ Descriptors' /\ Counted'
    <3>1. UNCHANGED <<cnt, marks, reg, fpd, fstate>>
      BY <1>6 DEF PutLink
    <3>2. /\ v.pc # "idle" /\ thread[t].pc # "idle" /\ v.pc # "add"
          /\ v.pc \in OpeningPCs => fstate[File(t)] = "opening"
          /\ v.pc \in ClosingPCs => fstate[File(t)] = "closing"
          /\ v.pc \in PuttingPCs => fstate[File(t)] \in {"opening", "closing"}
      BY <1>0, <1>a, <1>6 DEF PutLink, FilesHeld, OpeningPCs, ClosingPCs, PuttingPCs, File
    <3>3. /\ HasPd(t)' <=> HasPd(t)
          /\ HasPd(t) => v.slot = Slot(t) /\ v.idx = thread[t].idx
      BY <1>0, <1>a, <1>6, <2>1 DEF PutLink, HasPd, FilesHeld, OpeningPCs, PuttingPCs, File, Slot
    <3>4. \A P \in {{"scan", "mark"}, {"uncount", "sub"}} :
             /\ v.pc \in P <=> thread[t].pc \in P
             /\ v.pc \in P => v.slot = Slot(t)
      BY <1>0, <1>a, <1>6 DEF PutLink, Slot
    <3>. HIDE DEF v
    <3>. QED BY <1>0, <1>a, <2>1, <3>1, <3>2, <3>3, <3>4, SysMove, CountSame
  <2>. QED BY <2>2, <2>3, <2>4 DEF SysInv
<1>7. CASE PutExpect(t)
  <2>. DEFINE v == thread'[t]
  <2>1. /\ thread' = [thread EXCEPT ![t] = v]
        /\ v \in SysThread' /\ v.file = File(t) /\ v.pc \in SysPCs
    BY <1>0, <1>a, <1>b, <1>7 DEF PutExpect, SysThread, SysPCs, OpeningPCs, ClosingPCs,
       PuttingPCs, SysWords, File, Slot
  <2>2. SysWords'
    BY <1>0, <1>a, <1>7, <2>1 DEF PutExpect, SysWords, SysThread, Slot, SlotsKnown
  <2>3. SlotsKnown'
    BY <1>0, <1>a, <1>7, <2>1 DEF PutExpect, SysWords, SlotsKnown, Slot
  <2>4. FilesHeld' /\ Descriptors' /\ Counted'
    <3>1. UNCHANGED <<cnt, marks, reg, fpd, fstate>>
      BY <1>7 DEF PutExpect
    <3>2. /\ v.pc # "idle" /\ thread[t].pc # "idle" /\ v.pc # "add"
          /\ v.pc \in OpeningPCs => fstate[File(t)] = "opening"
          /\ v.pc \in ClosingPCs => fstate[File(t)] = "closing"
          /\ v.pc \in PuttingPCs => fstate[File(t)] \in {"opening", "closing"}
      BY <1>0, <1>a, <1>7 DEF PutExpect, FilesHeld, OpeningPCs, ClosingPCs, PuttingPCs, File
    <3>3. /\ HasPd(t)' <=> HasPd(t)
          /\ HasPd(t) => v.slot = Slot(t) /\ v.idx = thread[t].idx
      BY <1>0, <1>a, <1>7, <2>1 DEF PutExpect, HasPd, FilesHeld, OpeningPCs, PuttingPCs, File, Slot
    <3>4. \A P \in {{"scan", "mark"}, {"uncount", "sub"}} :
             /\ v.pc \in P <=> thread[t].pc \in P
             /\ v.pc \in P => v.slot = Slot(t)
      BY <1>0, <1>a, <1>7 DEF PutExpect, Slot
    <3>. HIDE DEF v
    <3>. QED BY <1>0, <1>a, <2>1, <3>1, <3>2, <3>3, <3>4, SysMove, CountSame
  <2>. QED BY <2>2, <2>3, <2>4 DEF SysInv
<1>8. CASE PutPush(t)
  <2>. DEFINE v == thread'[t]
  <2>1. /\ thread' = [thread EXCEPT ![t] = v]
        /\ v \in SysThread' /\ v.file = File(t) /\ v.pc \in SysPCs
    BY <1>0, <1>a, <1>b, <1>8 DEF PutPush, SysThread, SysPCs, OpeningPCs, ClosingPCs,
       PuttingPCs, SysWords, File, Slot
  <2>2. SysWords'
    BY <1>0, <1>a, <1>8, <2>1 DEF PutPush, SysWords, SysThread, Slot, SlotsKnown
  <2>3. SlotsKnown'
    BY <1>0, <1>a, <1>8, <2>1 DEF PutPush, SysWords, SlotsKnown, Slot
  <2>4. FilesHeld' /\ Descriptors' /\ Counted'
    <3>1. UNCHANGED <<cnt, marks, reg, fpd, fstate>>
      BY <1>8 DEF PutPush
    <3>2. /\ v.pc # "idle" /\ thread[t].pc # "idle" /\ v.pc # "add"
          /\ v.pc \in OpeningPCs => fstate[File(t)] = "opening"
          /\ v.pc \in ClosingPCs => fstate[File(t)] = "closing"
          /\ v.pc \in PuttingPCs => fstate[File(t)] \in {"opening", "closing"}
      BY <1>0, <1>a, <1>8 DEF PutPush, FilesHeld, OpeningPCs, ClosingPCs, PuttingPCs, File
    <3>3. /\ HasPd(t)' <=> HasPd(t)
          /\ HasPd(t) => v.slot = Slot(t) /\ v.idx = thread[t].idx
      BY <1>0, <1>a, <1>8, <2>1 DEF PutPush, HasPd, FilesHeld, OpeningPCs, PuttingPCs, File, Slot
    <3>4. \A P \in {{"scan", "mark"}, {"uncount", "sub"}} :
             /\ v.pc \in P <=> thread[t].pc \in P
             /\ v.pc \in P => v.slot = Slot(t)
      BY <1>0, <1>a, <1>8 DEF PutPush, Slot
    <3>. HIDE DEF v
    <3>. QED BY <1>0, <1>a, <2>1, <3>1, <3>2, <3>3, <3>4, SysMove, CountSame
  <2>. QED BY <2>2, <2>3, <2>4 DEF SysInv
<1>. QED BY <1>1, <1>2, <1>3, <1>4, <1>5, <1>6, <1>7, <1>8 DEF putpartial

\* What is counted is finite, and counted by Cardinality.
LEMMA CardAdd ==
    ASSUME NEW S, NEW x, IsFiniteSet(S), x \notin S
    PROVE  Cardinality(S \cup {x}) = Cardinality(S) + 1
BY FS_AddElement

\* A finite set loses one element.
LEMMA CardRemove ==
    ASSUME NEW S, NEW x, IsFiniteSet(S), x \in S
    PROVE  Cardinality(S \ {x}) = Cardinality(S) - 1 /\ Cardinality(S) > 0
<1>1. Cardinality(S \ {x}) = Cardinality(S) - 1 /\ IsFiniteSet(S \ {x})
  BY FS_RemoveElement
<1>2. Cardinality(S) \in Nat /\ Cardinality(S \ {x}) \in Nat
  BY <1>1, FS_CardinalityType
<1>. QED BY <1>1, <1>2

\* What is counted of a slot is finite, as there are finitely many indices and threads.
LEMMA CountedFinite ==
    ASSUME SysWords, NEW s \in SlotIds
    PROVE  /\ IsFiniteSet(MarksOf(s)) /\ Cardinality(MarksOf(s)) \in Nat
           /\ IsFiniteSet(Scanning(s)) /\ Cardinality(Scanning(s)) \in Nat
           /\ IsFiniteSet(Leaving(s)) /\ Cardinality(Leaving(s)) \in Nat
           /\ Cardinality(Leaving(s)) <= Cardinality(Threads)
<1>1. IsFiniteSet(SlotIds \X Indices)
  <2>1. SlotSize \in Int /\ IsFiniteSet(SlotIds)
    BY SysAssumption
  <2>2. IsFiniteSet(Indices)
    BY <2>1, FS_Interval DEF Indices
  <2>. QED BY <2>1, <2>2, FS_Product
<1>2. MarksOf(s) \in SUBSET (SlotIds \X Indices)
  BY DEF MarksOf, SysWords
<1>3. Scanning(s) \in SUBSET Threads /\ Leaving(s) \in SUBSET Threads
  BY DEF Scanning, Leaving
<1>4. IsFiniteSet(Threads)
  BY SysAssumption
<1>5. IsFiniteSet(MarksOf(s)) /\ IsFiniteSet(Scanning(s)) /\ IsFiniteSet(Leaving(s))
      /\ Cardinality(Leaving(s)) <= Cardinality(Threads)
  BY <1>1, <1>2, <1>3, <1>4, FS_Subset
<1>. QED BY <1>5, FS_CardinalityType

\* The thread counts, and takes its count back when the slot was full.
LEMMA CountSys ==
    ASSUME SysInv, NEW t \in Threads, AllocCount(t) \/ AllocUncount(t) \/ FreeSub(t)
    PROVE  SysInv'
<1>. USE DEF At, GoTo, Add, poolVars, fileVars
<1>. DEFINE v == thread'[t]
<1>0. SysWords /\ FilesHeld /\ SlotsKnown /\ Descriptors /\ Counted
  BY DEF SysInv
<1>a. /\ thread \in [Threads -> SysThread] /\ thread[t] \in SysThread
      /\ Nil \notin SlotIds /\ SlotSize \in Nat /\ slots \subseteq SlotIds
  BY <1>0, SysAssumption DEF SysWords
<1>b. PICK s0 \in slots : s0 = Slot(t) /\ s0 \in SlotIds
  BY <1>0, <1>a DEF AllocCount, AllocUncount, FreeSub, SlotsKnown
<1>c. PICK pc : /\ thread' = [thread EXCEPT ![t].pc = pc]
                /\ \/ /\ thread[t].pc = "count" /\ cnt' = [cnt EXCEPT ![s0] = @ + 1]
                      /\ pc = IF cnt[s0] + 1 <= SlotSize THEN "scan" ELSE "uncount"
                   \/ /\ thread[t].pc = "uncount" /\ cnt' = [cnt EXCEPT ![s0] = @ - 1]
                      /\ pc = "next"
                   \/ /\ thread[t].pc = "sub" /\ cnt' = [cnt EXCEPT ![s0] = @ - 1]
                      /\ pc \in {"link", "del"}
                /\ UNCHANGED <<partial, pnext, marks, slots, reg, fpd, fstate>>
  BY <1>b DEF AllocCount, AllocUncount, FreeSub, Fits
<1>1. /\ thread' = [thread EXCEPT ![t] = v] /\ v \in SysThread'
      /\ v.file = File(t) /\ v.slot = s0 /\ v.pc = pc
      /\ \A u \in Threads : u # t => thread'[u] = thread[u]
  BY <1>0, <1>a, <1>b, <1>c DEF SysThread, SysPCs, OpeningPCs, ClosingPCs, PuttingPCs, File, Slot
<1>2. FilesHeld' /\ Descriptors'
  <2>1. /\ v.pc # "idle" /\ thread[t].pc # "idle" /\ v.pc # "add"
        /\ v.pc \in OpeningPCs => fstate[File(t)] = "opening"
        /\ v.pc \in ClosingPCs => fstate[File(t)] = "closing"
        /\ v.pc \in PuttingPCs => fstate[File(t)] \in {"opening", "closing"}
    BY <1>0, <1>a, <1>c, <1>1 DEF FilesHeld, OpeningPCs, ClosingPCs, PuttingPCs, File
  <2>2. ~HasPd(t)' /\ ~HasPd(t)
    BY <1>0, <1>c, <1>1 DEF HasPd, FilesHeld, OpeningPCs, ClosingPCs, PuttingPCs, File
  <2>. HIDE DEF v
  <2>. QED BY <1>0, <1>a, <1>c, <1>1, <2>1, <2>2, SysMove
<1>3. SlotsKnown'
  BY <1>0, <1>a, <1>b, <1>c, <1>1 DEF SlotsKnown, Slot
<1>4. /\ \A s \in SlotIds : /\ MarksOf(s)' = MarksOf(s)
                            /\ s # s0 => Scanning(s)' = Scanning(s) /\ Leaving(s)' = Leaving(s)
      /\ pc = "scan" => Scanning(s0)' = Scanning(s0) \cup {t} /\ Leaving(s0)' = Leaving(s0)
      /\ pc = "uncount" => Scanning(s0)' = Scanning(s0) /\ Leaving(s0)' = Leaving(s0) \cup {t}
      /\ pc \notin {"scan", "uncount"} => /\ Scanning(s0)' = Scanning(s0)
                                          /\ Leaving(s0)' = Leaving(s0) \ {t}
  <2>1. \A s \in SlotIds : MarksOf(s)' = MarksOf(s)
    BY <1>c DEF MarksOf
  <2>2. \A s \in SlotIds : s # s0 => Scanning(s)' = Scanning(s) /\ Leaving(s)' = Leaving(s)
    BY <1>1, <1>b DEF Scanning, Leaving, Slot
  <2>3. Scanning(s0)' = IF pc = "scan" THEN Scanning(s0) \cup {t} ELSE Scanning(s0)
    BY <1>1, <1>b, <1>c DEF Scanning, Slot
  <2>4. Leaving(s0)' = CASE pc = "scan" -> Leaving(s0)
                         [] pc = "uncount" -> Leaving(s0) \cup {t}
                         [] OTHER -> Leaving(s0) \ {t}
    BY <1>1, <1>b, <1>c DEF Leaving, Slot
  <2>. QED BY <2>1, <2>2, <2>3, <2>4
<1>5. /\ t \notin Scanning(s0) /\ (pc = "uncount" => t \notin Leaving(s0))
      /\ (pc \notin {"scan", "uncount"} => t \in Leaving(s0))
  BY <1>b, <1>c DEF Scanning, Leaving, Slot
<1>. DEFINE m(s) == Cardinality(MarksOf(s))
            c(s) == Cardinality(Scanning(s))
            l(s) == Cardinality(Leaving(s))
<1>6. \A s \in SlotIds : /\ m(s) \in Nat /\ c(s) \in Nat /\ l(s) \in Nat
                         /\ cnt[s] = m(s) + c(s) + l(s) /\ m(s) + c(s) <= SlotSize
  BY <1>0, CountedFinite DEF Counted
<1>7. /\ pc = "scan" => m(s0)' = m(s0) /\ c(s0)' = c(s0) + 1 /\ l(s0)' = l(s0)
      /\ pc = "uncount" => m(s0)' = m(s0) /\ c(s0)' = c(s0) /\ l(s0)' = l(s0) + 1
      /\ pc \notin {"scan", "uncount"} => /\ m(s0)' = m(s0) /\ c(s0)' = c(s0)
                                          /\ l(s0)' = l(s0) - 1 /\ l(s0) > 0
  <2>1. IsFiniteSet(Scanning(s0)) /\ IsFiniteSet(Leaving(s0))
    BY <1>0, <1>b, CountedFinite
  <2>2. Cardinality(Scanning(s0) \cup {t}) = c(s0) + 1
    BY <1>5, <2>1, CardAdd
  <2>3. t \notin Leaving(s0) => Cardinality(Leaving(s0) \cup {t}) = l(s0) + 1
    BY <2>1, CardAdd
  <2>4. t \in Leaving(s0) => Cardinality(Leaving(s0) \ {t}) = l(s0) - 1 /\ l(s0) > 0
    BY <2>1, CardRemove
  <2>5. m(s0)' = m(s0)
    BY <1>b, <1>4
  <2>6. pc = "scan" => c(s0)' = c(s0) + 1 /\ l(s0)' = l(s0)
    BY <1>4, <2>2
  <2>7. pc = "uncount" => c(s0)' = c(s0) /\ l(s0)' = l(s0) + 1
    BY <1>4, <1>5, <2>3
  <2>8. pc \notin {"scan", "uncount"} => c(s0)' = c(s0) /\ l(s0)' = l(s0) - 1 /\ l(s0) > 0
    BY <1>4, <1>5, <2>4
  <2>. QED BY <2>5, <2>6, <2>7, <2>8
<1>8. \A s \in SlotIds \ {s0} : m(s)' = m(s) /\ c(s)' = c(s) /\ l(s)' = l(s) /\ cnt'[s] = cnt[s]
  BY <1>0, <1>4, <1>c DEF SysWords
<1>9. \A s \in SlotIds : /\ cnt'[s] \in Nat /\ cnt'[s] = m(s)' + c(s)' + l(s)'
                         /\ m(s)' + c(s)' <= SlotSize
  <2>1. /\ cnt'[s0] \in Nat /\ cnt'[s0] = m(s0)' + c(s0)' + l(s0)'
        /\ m(s0)' + c(s0)' <= SlotSize
    <3>. HIDE DEF m, c, l
    <3>1. /\ cnt[s0] \in Nat /\ m(s0) \in Nat /\ c(s0) \in Nat /\ l(s0) \in Nat
          /\ cnt[s0] = m(s0) + c(s0) + l(s0) /\ m(s0) + c(s0) <= SlotSize
      BY <1>0, <1>b, <1>6 DEF SysWords
    <3>2. cnt'[s0] = IF pc \in {"scan", "uncount"} THEN cnt[s0] + 1 ELSE cnt[s0] - 1
      BY <1>0, <1>b, <1>c DEF SysWords
    <3>3. pc = "scan" => cnt[s0] + 1 <= SlotSize
      BY <1>c
    <3>. QED BY <1>a, <1>7, <3>1, <3>2, <3>3
  <2>2. \A s \in SlotIds \ {s0} : /\ cnt'[s] \in Nat /\ cnt'[s] = m(s)' + c(s)' + l(s)'
                                  /\ m(s)' + c(s)' <= SlotSize
    <3>. HIDE DEF m, c, l
    <3>. QED BY <1>6, <1>8, <1>0 DEF SysWords
  <2>. HIDE DEF m, c, l
  <2>. QED BY <2>1, <2>2
<1>10. Counted'
  BY <1>9 DEF Counted
<1>11. SysWords'
  <2>1. thread' \in [Threads -> SysThread']
    BY <1>a, <1>c, <1>1 DEF SysThread
  <2>2. cnt' \in [SlotIds -> Nat]
    BY <1>0, <1>c, <1>9 DEF SysWords
  <2>. QED BY <1>0, <1>c, <2>1, <2>2 DEF SysWords
<1>. QED BY <1>2, <1>3, <1>10, <1>11 DEF SysInv

\* The exchange gives the descriptor to one thread; another finds it marked and looks again.
LEMMA MarkSys ==
    ASSUME SysInv, NEW t \in Threads, AllocMark(t)
    PROVE  SysInv'
<1>. USE DEF At, poolVars, fileVars
<1>. DEFINE v == thread'[t]
<1>0. SysWords /\ FilesHeld /\ SlotsKnown /\ Descriptors /\ Counted
  BY DEF SysInv
<1>a. /\ thread \in [Threads -> SysThread] /\ thread[t] \in SysThread
      /\ Nil \notin SlotIds /\ SlotSize \in Nat /\ 1 \in Indices /\ slots \subseteq SlotIds
  BY <1>0, SysAssumption DEF SysWords, Indices
<1>b. PICK s0 \in slots : s0 = Slot(t) /\ s0 \in SlotIds
  BY <1>0, <1>a DEF AllocMark, SlotsKnown
<1>c. PICK i0 \in Indices : i0 = thread[t].idx
  BY <1>a DEF SysThread
<1>d. /\ thread[t].pc = "mark" /\ Pd(t) = <<s0, i0>> /\ marks' = marks \cup {<<s0, i0>>}
      /\ UNCHANGED <<partial, pnext, cnt, slots, reg, fpd, fstate>>
  BY <1>b, <1>c DEF AllocMark, Pd
<1>e. thread' = [thread EXCEPT ![t].pc = IF <<s0, i0>> \notin marks THEN "register" ELSE "scan",
                               ![t].idx = IF <<s0, i0>> \notin marks THEN i0 ELSE 1]
  BY <1>b, <1>c DEF AllocMark, MarkWon, Pd
<1>1. /\ thread' = [thread EXCEPT ![t] = v] /\ v \in SysThread'
      /\ v.file = File(t) /\ v.slot = s0
      /\ v.pc = IF <<s0, i0>> \notin marks THEN "register" ELSE "scan"
      /\ v.idx = IF <<s0, i0>> \notin marks THEN i0 ELSE 1
      /\ \A u \in Threads : u # t => thread'[u] = thread[u]
  BY <1>0, <1>a, <1>b, <1>d, <1>e DEF SysThread, SysPCs, OpeningPCs, File, Slot
<1>2. SysWords' /\ SlotsKnown'
  <2>1. thread' \in [Threads -> SysThread']
    <3>1. SysThread' = SysThread
      BY <1>d DEF SysThread
    <3>. QED BY <1>a, <1>1, <3>1
  <2>2. SysWords'
    BY <1>0, <1>b, <1>d, <2>1 DEF SysWords
  <2>. QED BY <1>0, <1>a, <1>b, <1>d, <1>1, <2>2 DEF SlotsKnown, Slot
<1>3. CASE <<s0, i0>> \in marks
  <2>1. marks' = marks /\ v.pc = "scan"
    BY <1>1, <1>d, <1>3
  <2>2. /\ fstate[File(t)] = "opening" /\ ~HasPd(t) /\ ~HasPd(t)'
    BY <1>0, <1>d, <1>1, <2>1 DEF FilesHeld, OpeningPCs, HasPd, PuttingPCs
  <2>3. v.pc \in OpeningPCs /\ v.pc \notin ClosingPCs \cup PuttingPCs
    BY <2>1 DEF OpeningPCs, ClosingPCs, PuttingPCs
  <2>. HIDE DEF v
  <2>4. FilesHeld' /\ Descriptors'
    BY <1>0, <1>a, <1>d, <1>1, <2>1, <2>2, <2>3, SysMove
  <2>5. Counted'
    <3>1. UNCHANGED <<cnt, marks>> /\ v.pc = "scan" /\ thread[t].pc = "mark" /\ v.slot = Slot(t)
      BY <1>b, <1>d, <1>1, <2>1
    <3>2. \A P \in {{"scan", "mark"}, {"uncount", "sub"}} :
             /\ v.pc \in P <=> thread[t].pc \in P
             /\ v.pc \in P => v.slot = Slot(t)
      BY <3>1
    <3>. QED BY <1>0, <1>a, <1>1, <3>1, <3>2, CountSame
  <2>. QED BY <1>2, <2>4, <2>5 DEF SysInv
<1>4. CASE <<s0, i0>> \notin marks
  <2>1. v.pc = "register" /\ Slot(t)' = s0 /\ File(t)' = File(t) /\ Pd(t)' = <<s0, i0>>
    BY <1>1, <1>4 DEF Slot, File, Pd
  <2>2. /\ \A u \in Threads : u # t => (HasPd(u)' <=> HasPd(u)) /\ Pd(u)' = Pd(u)
        /\ HasPd(t)' /\ ~HasPd(t)
    BY <1>d, <1>1, <2>1 DEF HasPd, Pd, Slot, File, PuttingPCs
  <2>3. FilesHeld'
    BY <1>0, <1>d, <1>1, <2>1 DEF FilesHeld, File, OpeningPCs, ClosingPCs, PuttingPCs
  <2>4. Descriptors'
    <3>1. \A u \in Threads : HasPd(u)' => Pd(u)' \in marks'
      BY <1>0, <1>d, <2>1, <2>2 DEF Descriptors
    <3>2. \A u, x \in Threads : HasPd(u)' /\ HasPd(x)' /\ Pd(u)' = Pd(x)' => u = x
      BY <1>0, <1>4, <2>1, <2>2 DEF Descriptors
    <3>3. \A u \in Threads : thread'[u].pc = "add" => reg'[Pd(u)'] = File(u)'
                                                      /\ fpd'[File(u)'] = Pd(u)'
      BY <1>0, <1>d, <1>1, <2>1, <2>2 DEF Descriptors, File
    <3>4. \A f \in Files : fstate'[f] = "open" => fpd'[f] \in marks' /\ reg'[fpd'[f]] = f
      BY <1>0, <1>d DEF Descriptors
    <3>5. \A f \in Files, u \in Threads : fstate'[f] = "open" /\ HasPd(u)' => Pd(u)' # fpd'[f]
      BY <1>0, <1>d, <1>4, <2>1, <2>2 DEF Descriptors
    <3>6. \A d \in marks' : \/ \E u \in Threads : HasPd(u)' /\ Pd(u)' = d
                            \/ \E f \in Files : fstate'[f] = "open" /\ fpd'[f] = d
      BY <1>0, <1>d, <2>1, <2>2 DEF Descriptors
    <3>. QED BY <3>1, <3>2, <3>3, <3>4, <3>5, <3>6 DEF Descriptors
  <2>5. /\ MarksOf(s0)' = MarksOf(s0) \cup {<<s0, i0>>} /\ <<s0, i0>> \notin MarksOf(s0)
        /\ Scanning(s0)' = Scanning(s0) \ {t} /\ t \in Scanning(s0)
        /\ Leaving(s0)' = Leaving(s0)
    BY <1>b, <1>d, <1>1, <1>4, <2>1 DEF MarksOf, Scanning, Leaving, Slot
  <2>6. \A s \in SlotIds : s # s0 => /\ MarksOf(s)' = MarksOf(s) /\ Scanning(s)' = Scanning(s)
                                     /\ Leaving(s)' = Leaving(s)
    BY <1>b, <1>d, <1>1 DEF MarksOf, Scanning, Leaving, Slot
  <2>7. Counted'
    <3>. DEFINE m(s) == Cardinality(MarksOf(s))
                c(s) == Cardinality(Scanning(s))
                l(s) == Cardinality(Leaving(s))
    <3>1. \A s \in SlotIds : /\ m(s) \in Nat /\ c(s) \in Nat /\ l(s) \in Nat
                             /\ cnt[s] = m(s) + c(s) + l(s) /\ m(s) + c(s) <= SlotSize
      BY <1>0, CountedFinite DEF Counted
    <3>2. m(s0)' = m(s0) + 1 /\ c(s0)' = c(s0) - 1 /\ l(s0)' = l(s0)
      <4>1. IsFiniteSet(MarksOf(s0)) /\ IsFiniteSet(Scanning(s0))
        BY <1>0, <1>b, CountedFinite
      <4>2. Cardinality(MarksOf(s0) \cup {<<s0, i0>>}) = m(s0) + 1
        BY <2>5, <4>1, CardAdd
      <4>3. Cardinality(Scanning(s0) \ {t}) = c(s0) - 1
        BY <2>5, <4>1, CardRemove
      <4>. QED BY <2>5, <4>2, <4>3
    <3>3. \A s \in SlotIds : s # s0 => m(s)' = m(s) /\ c(s)' = c(s) /\ l(s)' = l(s)
      BY <2>6
    <3>4. \A s \in SlotIds : cnt'[s] = m(s)' + c(s)' + l(s)' /\ m(s)' + c(s)' <= SlotSize
      <4>. HIDE DEF m, c, l
      <4>. QED BY <1>d, <3>1, <3>2, <3>3
    <3>. QED BY <3>4 DEF Counted
  <2>. QED BY <1>2, <2>3, <2>4, <2>7 DEF SysInv
<1>. QED BY <1>3, <1>4

\* The descriptor that is given back is no file's and no other thread's.
LEMMA UnmarkSys ==
    ASSUME SysInv, NEW t \in Threads, FreeUnmark(t)
    PROVE  SysInv'
<1>. USE DEF At, GoTo, poolVars, fileVars
<1>. DEFINE v == thread'[t]
<1>0. SysWords /\ FilesHeld /\ SlotsKnown /\ Descriptors /\ Counted
  BY DEF SysInv
<1>a. /\ thread \in [Threads -> SysThread] /\ thread[t] \in SysThread
      /\ Nil \notin SlotIds /\ SlotSize \in Nat /\ slots \subseteq SlotIds
  BY <1>0, SysAssumption DEF SysWords
<1>b. PICK s0 \in slots : s0 = Slot(t) /\ s0 \in SlotIds
  BY <1>0, <1>a DEF FreeUnmark, SlotsKnown
<1>c. PICK i0 \in Indices : i0 = thread[t].idx
  BY <1>a DEF SysThread
<1>d. /\ thread[t].pc = "unmark" /\ Pd(t) = <<s0, i0>> /\ marks' = marks \ {<<s0, i0>>}
      /\ UNCHANGED <<partial, pnext, cnt, slots, reg, fpd, fstate>>
      /\ thread' = [thread EXCEPT ![t].pc = "sub"]
  BY <1>b, <1>c DEF FreeUnmark, Pd
<1>1. /\ v \in SysThread' /\ v.file = File(t) /\ v.slot = s0 /\ v.pc = "sub"
      /\ \A u \in Threads : u # t => thread'[u] = thread[u]
  BY <1>0, <1>a, <1>b, <1>d DEF SysThread, SysPCs, ClosingPCs, File, Slot
<1>2. SysWords' /\ SlotsKnown'
  <2>1. thread' \in [Threads -> SysThread']
    BY <1>a, <1>d, <1>1 DEF SysThread
  <2>2. SysWords'
    BY <1>0, <1>d, <2>1 DEF SysWords
  <2>. QED BY <1>0, <1>a, <1>b, <1>d, <1>1, <2>2 DEF SlotsKnown, Slot
<1>3. FilesHeld'
  BY <1>0, <1>d, <1>1 DEF FilesHeld, File, OpeningPCs, ClosingPCs, PuttingPCs
<1>4. /\ \A u \in Threads : u # t => (HasPd(u)' <=> HasPd(u)) /\ Pd(u)' = Pd(u)
      /\ HasPd(t) /\ ~HasPd(t)'
  BY <1>d, <1>1 DEF HasPd, Pd, Slot, File, PuttingPCs
<1>5. Descriptors'
  <2>1. \A u \in Threads : HasPd(u)' => Pd(u)' \in marks'
    BY <1>0, <1>d, <1>4 DEF Descriptors
  <2>2. \A u, x \in Threads : HasPd(u)' /\ HasPd(x)' /\ Pd(u)' = Pd(x)' => u = x
    BY <1>0, <1>4 DEF Descriptors
  <2>3. \A u \in Threads : thread'[u].pc = "add" => reg'[Pd(u)'] = File(u)'
                                                    /\ fpd'[File(u)'] = Pd(u)'
    BY <1>0, <1>d, <1>1, <1>4 DEF Descriptors, File
  <2>4. \A f \in Files : fstate'[f] = "open" => fpd'[f] \in marks' /\ reg'[fpd'[f]] = f
    BY <1>0, <1>d, <1>4 DEF Descriptors
  <2>5. \A f \in Files, u \in Threads : fstate'[f] = "open" /\ HasPd(u)' => Pd(u)' # fpd'[f]
    BY <1>0, <1>d, <1>4 DEF Descriptors
  <2>6. \A d \in marks' : \/ \E u \in Threads : HasPd(u)' /\ Pd(u)' = d
                          \/ \E f \in Files : fstate'[f] = "open" /\ fpd'[f] = d
    BY <1>0, <1>d, <1>4 DEF Descriptors
  <2>. QED BY <2>1, <2>2, <2>3, <2>4, <2>5, <2>6 DEF Descriptors
<1>6. /\ MarksOf(s0)' = MarksOf(s0) \ {<<s0, i0>>} /\ <<s0, i0>> \in MarksOf(s0)
      /\ Scanning(s0)' = Scanning(s0)
      /\ Leaving(s0)' = Leaving(s0) \cup {t} /\ t \notin Leaving(s0)
  BY <1>0, <1>b, <1>d, <1>1, <1>4 DEF MarksOf, Scanning, Leaving, Slot, Descriptors
<1>7. \A s \in SlotIds : s # s0 => /\ MarksOf(s)' = MarksOf(s) /\ Scanning(s)' = Scanning(s)
                                   /\ Leaving(s)' = Leaving(s)
  BY <1>b, <1>d, <1>1 DEF MarksOf, Scanning, Leaving, Slot
<1>8. Counted'
  <2>. DEFINE m(s) == Cardinality(MarksOf(s))
              c(s) == Cardinality(Scanning(s))
              l(s) == Cardinality(Leaving(s))
  <2>1. \A s \in SlotIds : /\ m(s) \in Nat /\ c(s) \in Nat /\ l(s) \in Nat
                           /\ cnt[s] = m(s) + c(s) + l(s) /\ m(s) + c(s) <= SlotSize
    BY <1>0, CountedFinite DEF Counted
  <2>2. m(s0)' = m(s0) - 1 /\ c(s0)' = c(s0) /\ l(s0)' = l(s0) + 1
    <3>1. IsFiniteSet(MarksOf(s0)) /\ IsFiniteSet(Leaving(s0))
      BY <1>0, <1>b, CountedFinite
    <3>2. Cardinality(MarksOf(s0) \ {<<s0, i0>>}) = m(s0) - 1
      BY <1>6, <3>1, CardRemove
    <3>3. Cardinality(Leaving(s0) \cup {t}) = l(s0) + 1
      BY <1>6, <3>1, CardAdd
    <3>. QED BY <1>6, <3>2, <3>3
  <2>3. \A s \in SlotIds : s # s0 => m(s)' = m(s) /\ c(s)' = c(s) /\ l(s)' = l(s)
    BY <1>7
  <2>4. \A s \in SlotIds : cnt'[s] = m(s)' + c(s)' + l(s)' /\ m(s)' + c(s)' <= SlotSize
    <3>. HIDE DEF m, c, l
    <3>. QED BY <1>a, <1>d, <2>1, <2>2, <2>3
  <2>. QED BY <2>4 DEF Counted
<1>. QED BY <1>2, <1>3, <1>5, <1>8 DEF SysInv

\* A slot that is made is nobody's, so that nothing in it is marked.
LEMMA NewSys ==
    ASSUME SysInv, NEW t \in Threads, AllocNew(t)
    PROVE  SysInv'
<1>. USE DEF At, poolVars, fileVars
<1>. DEFINE v == thread'[t]
<1>0. SysWords /\ FilesHeld /\ SlotsKnown /\ Descriptors /\ Counted
  BY DEF SysInv
<1>a. /\ thread \in [Threads -> SysThread] /\ thread[t] \in SysThread
      /\ Nil \notin SlotIds /\ SlotSize \in Nat /\ SlotSize >= 1 /\ 1 \in Indices
      /\ slots \subseteq SlotIds
  BY <1>0, SysAssumption DEF SysWords, Indices
<1>b. PICK s0 \in UnusedSlots : s0 = CHOOSE s \in UnusedSlots : TRUE
  BY DEF AllocNew
<1>c. s0 \in SlotIds /\ s0 \notin slots /\ s0 # Nil /\ \A u \in Threads : Slot(u) # s0
  BY <1>a, <1>b DEF UnusedSlots
<1>d. /\ thread[t].pc = "new" /\ marks' = marks \cup {<<s0, 1>>} /\ cnt' = [cnt EXCEPT ![s0] = 1]
      /\ UNCHANGED <<partial, pnext, slots, reg, fpd, fstate>>
  BY <1>b DEF AllocNew
<1>e. thread' = [thread EXCEPT ![t].slot = s0, ![t].idx = 1, ![t].pc = "append"]
  BY <1>b DEF AllocNew
<1>1. /\ thread' = [thread EXCEPT ![t] = v] /\ v \in SysThread'
      /\ v.file = File(t) /\ v.slot = s0 /\ v.pc = "append" /\ v.idx = 1
      /\ \A u \in Threads : u # t => thread'[u] = thread[u]
  BY <1>0, <1>a, <1>c, <1>d, <1>e DEF SysThread, SysPCs, OpeningPCs, File
<1>2. SysWords' /\ SlotsKnown'
  <2>1. thread' \in [Threads -> SysThread']
    <3>1. SysThread' = SysThread
      BY <1>d DEF SysThread
    <3>. QED BY <1>a, <1>1, <3>1
  <2>2. cnt' \in [SlotIds -> Nat] /\ marks' \subseteq SlotIds \X Indices
    BY <1>0, <1>a, <1>c, <1>d DEF SysWords
  <2>3. SysWords'
    BY <1>0, <1>d, <2>1, <2>2 DEF SysWords
  <2>. QED BY <1>0, <1>c, <1>d, <1>1, <2>3 DEF SlotsKnown, Slot
<1>3. FilesHeld'
  BY <1>0, <1>d, <1>1 DEF FilesHeld, File, OpeningPCs, ClosingPCs, PuttingPCs
<1>4. /\ \A u \in Threads : u # t => (HasPd(u)' <=> HasPd(u)) /\ Pd(u)' = Pd(u)
      /\ HasPd(t)' /\ ~HasPd(t) /\ Pd(t)' = <<s0, 1>>
  BY <1>d, <1>1 DEF HasPd, Pd, Slot, File, PuttingPCs
<1>5. \A d \in marks : d[1] # s0
  <2>. SUFFICES ASSUME NEW d \in marks, d[1] = s0 PROVE FALSE
    OBVIOUS
  <2>1. CASE \E u \in Threads : HasPd(u) /\ Pd(u) = d
    BY <1>c, <2>1 DEF Pd
  <2>2. ASSUME NEW f \in Files, fstate[f] = "open", fpd[f] = d PROVE FALSE
    <3>1. fpd[f] \in (slots \X Indices) \cup {NoPd}
      BY <1>0 DEF SysWords
    <3>. QED BY <1>c, <2>2, <3>1 DEF NoPd
  <2>. QED BY <1>0, <2>1, <2>2 DEF Descriptors
<1>6. /\ <<s0, 1>> \notin marks
      /\ \A u \in Threads : HasPd(u) => Pd(u) # <<s0, 1>>
      /\ \A f \in Files : fstate[f] = "open" => fpd[f] # <<s0, 1>>
  BY <1>0, <1>5 DEF Descriptors
<1>7. Descriptors'
  <2>1. \A u \in Threads : HasPd(u)' => Pd(u)' \in marks'
    BY <1>0, <1>d, <1>4 DEF Descriptors
  <2>2. \A u, x \in Threads : HasPd(u)' /\ HasPd(x)' /\ Pd(u)' = Pd(x)' => u = x
    BY <1>0, <1>4, <1>6 DEF Descriptors
  <2>3. \A u \in Threads : thread'[u].pc = "add" => reg'[Pd(u)'] = File(u)'
                                                    /\ fpd'[File(u)'] = Pd(u)'
    BY <1>0, <1>d, <1>1, <1>4 DEF Descriptors, File
  <2>4. \A f \in Files : fstate'[f] = "open" => fpd'[f] \in marks' /\ reg'[fpd'[f]] = f
    BY <1>0, <1>d DEF Descriptors
  <2>5. \A f \in Files, u \in Threads : fstate'[f] = "open" /\ HasPd(u)' => Pd(u)' # fpd'[f]
    BY <1>0, <1>d, <1>4, <1>6 DEF Descriptors
  <2>6. \A d \in marks' : \/ \E u \in Threads : HasPd(u)' /\ Pd(u)' = d
                          \/ \E f \in Files : fstate'[f] = "open" /\ fpd'[f] = d
    BY <1>0, <1>d, <1>4 DEF Descriptors
  <2>. QED BY <2>1, <2>2, <2>3, <2>4, <2>5, <2>6 DEF Descriptors
<1>8. MarksOf(s0)' = {<<s0, 1>>} /\ Scanning(s0)' = {} /\ Leaving(s0)' = {}
  BY <1>c, <1>d, <1>1, <1>5 DEF MarksOf, Scanning, Leaving, Slot
<1>9. \A s \in SlotIds : s # s0 => /\ MarksOf(s)' = MarksOf(s) /\ Scanning(s)' = Scanning(s)
                                   /\ Leaving(s)' = Leaving(s)
  BY <1>d, <1>1 DEF MarksOf, Scanning, Leaving, Slot
<1>10. Counted'
  <2>1. Cardinality({<<s0, 1>>}) = 1 /\ Cardinality({}) = 0
    BY FS_Singleton, FS_EmptySet
  <2>2. /\ cnt'[s0] = Cardinality(MarksOf(s0))' + Cardinality(Scanning(s0))'
                      + Cardinality(Leaving(s0))'
        /\ Cardinality(MarksOf(s0))' + Cardinality(Scanning(s0))' <= SlotSize
    BY <1>0, <1>a, <1>c, <1>d, <1>8, <2>1 DEF SysWords
  <2>3. \A s \in SlotIds : s # s0 => cnt'[s] = cnt[s]
    BY <1>0, <1>d DEF SysWords
  <2>. QED BY <1>0, <1>9, <2>2, <2>3 DEF Counted
<1>. QED BY <1>2, <1>3, <1>7, <1>10 DEF SysInv

\* A file that nobody uses is taken.
LEMMA OpenSys ==
    ASSUME SysInv, NEW t \in Threads, openFile(t)
    PROVE  SysInv'
<1>. USE DEF At, GoTo, poolVars, fileVars
<1>. DEFINE v == thread'[t]
<1>0. SysWords /\ FilesHeld /\ SlotsKnown /\ Descriptors /\ Counted
  BY DEF SysInv
<1>a. /\ thread \in [Threads -> SysThread] /\ thread[t] \in SysThread
      /\ Nil \notin SlotIds /\ Nil \notin Files /\ 1 \in Indices /\ slots \subseteq SlotIds
  BY <1>0, SysAssumption DEF SysWords, Indices
<1>b. PICK f0 \in UnusedFiles : f0 = CHOOSE f \in UnusedFiles : TRUE
  BY DEF openFile
<1>c. f0 \in Files /\ fstate[f0] = "none"
  BY <1>b DEF UnusedFiles
<1>d. /\ thread[t].pc = "idle" /\ fstate' = [fstate EXCEPT ![f0] = "opening"]
      /\ UNCHANGED <<partial, pnext, cnt, marks, slots, reg, fpd>>
  BY <1>b DEF openFile
<1>e. thread' = [thread EXCEPT ![t] = [ThreadIdle EXCEPT !.pc = "alloc", !.file = f0]]
  BY <1>b DEF openFile
<1>1. /\ thread' = [thread EXCEPT ![t] = v] /\ v \in SysThread'
      /\ v.file = f0 /\ v.slot = Nil /\ v.pc = "alloc"
      /\ \A u \in Threads : u # t => thread'[u] = thread[u]
  BY <1>a, <1>c, <1>d, <1>e DEF SysThread, SysPCs, OpeningPCs, ThreadIdle
<1>2. SysWords' /\ SlotsKnown'
  <2>1. thread' \in [Threads -> SysThread']
    <3>1. SysThread' = SysThread
      BY <1>d DEF SysThread
    <3>. QED BY <1>a, <1>1, <3>1
  <2>2. SysWords'
    BY <1>0, <1>c, <1>d, <2>1 DEF SysWords
  <2>. QED BY <1>0, <1>a, <1>d, <1>1, <2>1, <2>2 DEF SlotsKnown, Slot
<1>3. \A f \in Files : fstate'[f] = IF f = f0 THEN "opening" ELSE fstate[f]
  BY <1>0, <1>d DEF SysWords
<1>4. \A u \in Threads : u # t => /\ thread[u].pc # "idle" => File(u) # f0
                                  /\ HasPd(u)' <=> HasPd(u)
                                  /\ Pd(u)' = Pd(u) /\ File(u)' = File(u)
  <2>1. \A u \in Threads : thread[u].pc # "idle" => File(u) \in Files /\ File(u) # f0
    BY <1>0, <1>a, <1>c DEF FilesHeld, SysThread, SysPCs, OpeningPCs, ClosingPCs, PuttingPCs
  <2>. QED BY <1>1, <1>3, <2>1 DEF HasPd, Pd, Slot, File, PuttingPCs
<1>5. ~HasPd(t)' /\ ~HasPd(t) /\ File(t)' = f0
  BY <1>d, <1>1 DEF HasPd, PuttingPCs, File
<1>6. FilesHeld'
  BY <1>0, <1>c, <1>1, <1>3, <1>4, <1>5 DEF FilesHeld, OpeningPCs, ClosingPCs, PuttingPCs
<1>7. Descriptors'
  <2>1. \A u \in Threads : HasPd(u)' => Pd(u)' \in marks'
    BY <1>0, <1>d, <1>4, <1>5 DEF Descriptors
  <2>2. \A u, x \in Threads : HasPd(u)' /\ HasPd(x)' /\ Pd(u)' = Pd(x)' => u = x
    BY <1>0, <1>4, <1>5 DEF Descriptors
  <2>3. \A u \in Threads : thread'[u].pc = "add" => reg'[Pd(u)'] = File(u)'
                                                    /\ fpd'[File(u)'] = Pd(u)'
    BY <1>0, <1>d, <1>1, <1>4 DEF Descriptors, File, HasPd
  <2>4. \A f \in Files : fstate'[f] = "open" => fpd'[f] \in marks' /\ reg'[fpd'[f]] = f
    BY <1>0, <1>c, <1>d, <1>3 DEF Descriptors
  <2>5. \A f \in Files, u \in Threads : fstate'[f] = "open" /\ HasPd(u)' => Pd(u)' # fpd'[f]
    BY <1>0, <1>d, <1>3, <1>4, <1>5 DEF Descriptors
  <2>6. \A d \in marks' : \/ \E u \in Threads : HasPd(u)' /\ Pd(u)' = d
                          \/ \E f \in Files : fstate'[f] = "open" /\ fpd'[f] = d
    BY <1>0, <1>c, <1>d, <1>3, <1>4, <1>5 DEF Descriptors
  <2>. QED BY <2>1, <2>2, <2>3, <2>4, <2>5, <2>6 DEF Descriptors
<1>8. Counted'
  <2>1. \A P \in {{"scan", "mark"}, {"uncount", "sub"}} : v.pc \notin P /\ thread[t].pc \notin P
    BY <1>d, <1>1
  <2>2. UNCHANGED <<cnt, marks>>
    BY <1>d
  <2>. HIDE DEF v
  <2>. QED BY <1>0, <1>a, <1>1, <2>1, <2>2, CountSame
<1>. QED BY <1>2, <1>6, <1>7, <1>8 DEF SysInv

\* The descriptor and the file name each other; nobody else has either.
LEMMA RegisterSys ==
    ASSUME SysInv, NEW t \in Threads, PollRegister(t) \/ PollRecycle(t)
    PROVE  SysInv'
<1>. USE DEF At, GoTo, poolVars, fileVars
<1>. DEFINE v == thread'[t]
<1>0. SysWords /\ FilesHeld /\ SlotsKnown /\ Descriptors /\ Counted
  BY DEF SysInv
<1>a. /\ thread \in [Threads -> SysThread] /\ thread[t] \in SysThread
      /\ Nil \notin SlotIds /\ Nil \notin Files /\ 1 \in Indices /\ slots \subseteq SlotIds
  BY <1>0, SysAssumption DEF SysWords, Indices
<1>. DEFINE f0 == File(t)
            d0 == Pd(t)
<1>d. /\ thread[t].pc \in {"register", "recycle"} /\ UNCHANGED <<partial, pnext, cnt, marks, slots, fstate>>
      /\ thread[t].pc = "register" => /\ fpd' = [fpd EXCEPT ![f0] = d0]
                                      /\ reg' = [reg EXCEPT ![d0] = f0]
      /\ thread[t].pc = "recycle" => fpd' = fpd /\ reg' = [reg EXCEPT ![d0] = Nil]
      /\ thread' = [thread EXCEPT ![t].pc = IF thread[t].pc = "register" THEN "add" ELSE "unmark"]
  BY DEF PollRegister, PollRecycle
<1>1. /\ thread' = [thread EXCEPT ![t] = v] /\ v \in SysThread'
      /\ v.file = f0 /\ v.slot = Slot(t) /\ v.idx = thread[t].idx
      /\ v.pc = IF thread[t].pc = "register" THEN "add" ELSE "unmark"
      /\ \A u \in Threads : u # t => thread'[u] = thread[u]
  BY <1>a, <1>d DEF SysThread, SysPCs, OpeningPCs, ClosingPCs, File, Slot
<1>b. /\ f0 \in Files /\ Slot(t) \in slots /\ HasPd(t) /\ d0 \in marks
      /\ d0 \in slots \X Indices /\ d0 \in SlotIds \X Indices
      /\ fstate[f0] = IF thread[t].pc = "register" THEN "opening" ELSE "closing"
  <2>1. f0 \in Files /\ fstate[f0] = IF thread[t].pc = "register" THEN "opening" ELSE "closing"
    BY <1>0, <1>d DEF FilesHeld, OpeningPCs, ClosingPCs
  <2>2. Slot(t) \in slots /\ HasPd(t)
    BY <1>0, <1>d DEF SlotsKnown, HasPd
  <2>3. thread[t].idx \in Indices
    BY <1>a DEF SysThread
  <2>. QED BY <1>0, <1>a, <2>1, <2>2, <2>3 DEF Descriptors, Pd
<1>2. SysWords' /\ SlotsKnown'
  <2>1. thread' \in [Threads -> SysThread']
    <3>1. SysThread' = SysThread
      BY <1>d DEF SysThread
    <3>. QED BY <1>a, <1>1, <3>1
  <2>2. SysWords'
    BY <1>0, <1>b, <1>d, <2>1 DEF SysWords
  <2>. QED BY <1>0, <1>a, <1>d, <1>1, <2>1, <2>2 DEF SlotsKnown, Slot
<1>3. \A u \in Threads : /\ u # t /\ thread[u].pc # "idle" => File(u) # f0
                         /\ u # t /\ HasPd(u) => Pd(u) # d0
                         /\ HasPd(u)' <=> HasPd(u)
                         /\ Pd(u)' = Pd(u) /\ File(u)' = File(u)
  <2>1. \A u \in Threads : u # t => /\ thread[u].pc # "idle" => File(u) # f0
                                    /\ HasPd(u) => Pd(u) # d0
    BY <1>0, <1>b, <1>d DEF FilesHeld, Descriptors
  <2>2. \A u \in Threads : Pd(u)' = Pd(u) /\ File(u)' = File(u)
    BY <1>1 DEF Pd, Slot, File
  <2>3. \A u \in Threads : u # t => (HasPd(u)' <=> HasPd(u))
    BY <1>d, <1>1, <2>2 DEF HasPd
  <2>4. HasPd(t)'
    BY <1>1 DEF HasPd
  <2>. QED BY <1>b, <2>1, <2>2, <2>3, <2>4
<1>4. FilesHeld'
  BY <1>0, <1>b, <1>d, <1>1, <1>3 DEF FilesHeld, OpeningPCs, ClosingPCs, PuttingPCs
<1>5. \A f \in Files : fstate[f] = "open" => f # f0 /\ fpd'[f] = fpd[f] /\ fpd[f] # d0
                                             /\ reg'[fpd[f]] = reg[fpd[f]]
  BY <1>0, <1>b, <1>d DEF SysWords, Descriptors
<1>6. \A u \in Threads : u # t /\ HasPd(u) => reg'[Pd(u)] = reg[Pd(u)]
                                              /\ fpd'[File(u)] = fpd[File(u)]
  <2>. SUFFICES ASSUME NEW u \in Threads, u # t, HasPd(u)
                PROVE  reg'[Pd(u)] = reg[Pd(u)] /\ fpd'[File(u)] = fpd[File(u)]
    OBVIOUS
  <2>1. thread[u].pc # "idle"
    BY DEF HasPd, PuttingPCs
  <2>2. File(u) \in Files /\ File(u) # f0
    BY <1>0, <1>3, <2>1 DEF FilesHeld
  <2>3. Pd(u) \in SlotIds \X Indices /\ Pd(u) # d0
    BY <1>0, <1>3 DEF Descriptors, SysWords
  <2>. HIDE DEF f0, d0
  <2>. QED BY <1>0, <1>d, <2>2, <2>3 DEF SysWords
<1>7. thread[t].pc = "register" => reg'[d0] = f0 /\ fpd'[f0] = d0
  BY <1>0, <1>b, <1>d DEF SysWords
<1>8. Descriptors'
  <2>1. \A u \in Threads : HasPd(u)' => Pd(u)' \in marks'
    BY <1>0, <1>d, <1>3 DEF Descriptors
  <2>2. \A u, x \in Threads : HasPd(u)' /\ HasPd(x)' /\ Pd(u)' = Pd(x)' => u = x
    BY <1>0, <1>3 DEF Descriptors
  <2>3. \A u \in Threads : thread'[u].pc = "add" => reg'[Pd(u)'] = File(u)'
                                                    /\ fpd'[File(u)'] = Pd(u)'
    BY <1>0, <1>d, <1>1, <1>3, <1>6, <1>7 DEF Descriptors, File, HasPd
  <2>4. \A f \in Files : fstate'[f] = "open" => fpd'[f] \in marks' /\ reg'[fpd'[f]] = f
    BY <1>0, <1>d, <1>5 DEF Descriptors
  <2>5. \A f \in Files, u \in Threads : fstate'[f] = "open" /\ HasPd(u)' => Pd(u)' # fpd'[f]
    BY <1>0, <1>d, <1>3, <1>5 DEF Descriptors
  <2>6. \A d \in marks' : \/ \E u \in Threads : HasPd(u)' /\ Pd(u)' = d
                          \/ \E f \in Files : fstate'[f] = "open" /\ fpd'[f] = d
    BY <1>0, <1>d, <1>3, <1>5 DEF Descriptors
  <2>. QED BY <2>1, <2>2, <2>3, <2>4, <2>5, <2>6 DEF Descriptors
<1>9. Counted'
  <2>1. \A P \in {{"scan", "mark"}, {"uncount", "sub"}} : v.pc \notin P /\ thread[t].pc \notin P
    BY <1>d, <1>1
  <2>2. UNCHANGED <<cnt, marks>>
    BY <1>d
  <2>. HIDE DEF v
  <2>. QED BY <1>0, <1>a, <1>1, <2>1, <2>2, CountSame
<1>. QED BY <1>2, <1>4, <1>8, <1>9 DEF SysInv

\* EPOLL_CTL_ADD: the file takes the descriptor over from the thread, or is closed by it.
LEMMA AddSys ==
    ASSUME SysInv, NEW t \in Threads, PollAdd(t)
    PROVE  SysInv'
<1>. USE DEF At, GoTo, poolVars, fileVars
<1>. DEFINE v == thread'[t]
<1>0. SysWords /\ FilesHeld /\ SlotsKnown /\ Descriptors /\ Counted
  BY DEF SysInv
<1>a. /\ thread \in [Threads -> SysThread] /\ thread[t] \in SysThread
      /\ Nil \notin SlotIds /\ Nil \notin Files /\ 1 \in Indices /\ slots \subseteq SlotIds
  BY <1>0, SysAssumption DEF SysWords, Indices
<1>. DEFINE f0 == File(t)
            d0 == Pd(t)
<1>d. thread[t].pc = "add" /\ UNCHANGED <<partial, pnext, cnt, marks, slots, reg, fpd>>
  BY DEF PollAdd
<1>b. /\ f0 \in Files /\ Slot(t) \in slots /\ HasPd(t) /\ d0 \in marks
      /\ fstate[f0] = "opening" /\ reg[d0] = f0 /\ fpd[f0] = d0
  <2>1. f0 \in Files /\ fstate[f0] = "opening"
    BY <1>0, <1>d DEF FilesHeld, OpeningPCs
  <2>2. Slot(t) \in slots /\ HasPd(t)
    BY <1>0, <1>d DEF SlotsKnown, HasPd
  <2>. QED BY <1>0, <1>d, <2>1, <2>2 DEF Descriptors
<1>e. \/ fstate' = [fstate EXCEPT ![f0] = "open"] /\ thread' = [thread EXCEPT ![t] = ThreadIdle]
      \/ fstate' = [fstate EXCEPT ![f0] = "closing"] /\ thread' = [thread EXCEPT ![t].pc = "recycle"]
  BY DEF PollAdd
<1>1. /\ thread' = [thread EXCEPT ![t] = v] /\ v \in SysThread'
      /\ \A u \in Threads : u # t => thread'[u] = thread[u]
      /\ \/ v.pc = "idle" /\ v.slot = Nil /\ fstate' = [fstate EXCEPT ![f0] = "open"]
         \/ /\ v.pc = "recycle" /\ v.slot = Slot(t) /\ v.idx = thread[t].idx /\ v.file = f0
            /\ fstate' = [fstate EXCEPT ![f0] = "closing"]
  BY <1>a, <1>d, <1>e DEF SysThread, SysPCs, ClosingPCs, ThreadIdle, File, Slot
<1>2. SysWords' /\ SlotsKnown'
  <2>1. thread' \in [Threads -> SysThread']
    <3>1. SysThread' = SysThread
      BY <1>d DEF SysThread
    <3>. QED BY <1>a, <1>1, <3>1
  <2>2. SysWords'
    BY <1>0, <1>d, <1>e, <2>1 DEF SysWords
  <2>. QED BY <1>0, <1>b, <1>d, <1>1, <2>2 DEF SlotsKnown, Slot
<1>3. /\ \A f \in Files : f # f0 => fstate'[f] = fstate[f]
      /\ fstate'[f0] = IF v.pc = "idle" THEN "open" ELSE "closing"
  BY <1>0, <1>b, <1>1 DEF SysWords
<1>4. \A u \in Threads : u # t => /\ thread[u].pc # "idle" => File(u) \in Files /\ File(u) # f0
                                  /\ HasPd(u)' <=> HasPd(u)
                                  /\ Pd(u)' = Pd(u) /\ File(u)' = File(u)
                                  /\ HasPd(u) => Pd(u) # d0
  <2>1. \A u \in Threads : u # t /\ thread[u].pc # "idle" => File(u) \in Files /\ File(u) # f0
    BY <1>0, <1>d DEF FilesHeld
  <2>2. \A u \in Threads : u # t => (HasPd(u)' <=> HasPd(u))
    BY <1>1, <1>3, <2>1 DEF HasPd, File, PuttingPCs
  <2>. QED BY <1>0, <1>1, <1>b, <2>1, <2>2 DEF Descriptors, Pd, Slot, File
<1>5. v.pc = "idle" => ~HasPd(t)'
  BY DEF HasPd, PuttingPCs
<1>6. v.pc = "recycle" => HasPd(t)' /\ Pd(t)' = d0 /\ File(t)' = f0
  BY <1>1 DEF HasPd, Pd, Slot, File
<1>7. FilesHeld'
  BY <1>0, <1>b, <1>d, <1>1, <1>3, <1>4, <1>6 DEF FilesHeld, OpeningPCs, ClosingPCs, PuttingPCs
<1>8. Descriptors'
  <2>1. \A u \in Threads : HasPd(u)' => Pd(u)' \in marks'
    BY <1>0, <1>b, <1>d, <1>1, <1>4, <1>5, <1>6 DEF Descriptors
  <2>2. \A u, x \in Threads : HasPd(u)' /\ HasPd(x)' /\ Pd(u)' = Pd(x)' => u = x
    BY <1>0, <1>1, <1>4, <1>5, <1>6 DEF Descriptors
  <2>3. \A u \in Threads : thread'[u].pc = "add" => reg'[Pd(u)'] = File(u)'
                                                    /\ fpd'[File(u)'] = Pd(u)'
    BY <1>0, <1>d, <1>1, <1>4 DEF Descriptors, File, HasPd
  <2>4. \A f \in Files : fstate'[f] = "open" => fpd'[f] \in marks' /\ reg'[fpd'[f]] = f
    BY <1>0, <1>b, <1>d, <1>1, <1>3 DEF Descriptors
  <2>5. \A f \in Files, u \in Threads : fstate'[f] = "open" /\ HasPd(u)' => Pd(u)' # fpd'[f]
    BY <1>0, <1>b, <1>d, <1>1, <1>3, <1>4, <1>5, <1>6 DEF Descriptors
  <2>6. \A d \in marks' : \/ \E u \in Threads : HasPd(u)' /\ Pd(u)' = d
                          \/ \E f \in Files : fstate'[f] = "open" /\ fpd'[f] = d
    BY <1>0, <1>b, <1>d, <1>1, <1>3, <1>4, <1>5, <1>6 DEF Descriptors
  <2>. QED BY <2>1, <2>2, <2>3, <2>4, <2>5, <2>6 DEF Descriptors
<1>9. Counted'
  <2>1. \A P \in {{"scan", "mark"}, {"uncount", "sub"}} : v.pc \notin P /\ thread[t].pc \notin P
    BY <1>d, <1>1
  <2>2. UNCHANGED <<cnt, marks>>
    BY <1>d
  <2>. HIDE DEF v
  <2>. QED BY <1>0, <1>a, <1>1, <2>1, <2>2, CountSame
<1>. QED BY <1>2, <1>7, <1>8, <1>9 DEF SysInv

\* The thread that closes a file takes its descriptor over.
LEMMA CloseSys ==
    ASSUME SysInv, NEW t \in Threads, Close(t)
    PROVE  SysInv'
<1>. USE DEF At, GoTo, poolVars, fileVars
<1>. DEFINE v == thread'[t]
<1>0. SysWords /\ FilesHeld /\ SlotsKnown /\ Descriptors /\ Counted
  BY DEF SysInv
<1>a. /\ thread \in [Threads -> SysThread] /\ thread[t] \in SysThread
      /\ Nil \notin SlotIds /\ Nil \notin Files /\ 1 \in Indices /\ slots \subseteq SlotIds
  BY <1>0, SysAssumption DEF SysWords, Indices
<1>b. PICK f0 \in Files :
        /\ thread[t].pc = "idle" /\ fstate[f0] = "open" /\ fstate' = [fstate EXCEPT ![f0] = "closing"]
        /\ thread' = [thread EXCEPT ![t] = [ThreadIdle EXCEPT
              !.pc = "recycle", !.file = f0, !.slot = fpd[f0][1], !.idx = fpd[f0][2]]]
        /\ UNCHANGED <<partial, pnext, cnt, marks, slots, reg, fpd>>
  BY DEF Close
<1>c. fpd[f0] \in marks /\ fpd[f0] \in slots \X Indices
  <2>1. fpd[f0] \in marks /\ fpd[f0] \in (slots \X Indices) \cup {NoPd}
    BY <1>0, <1>b DEF Descriptors, SysWords
  <2>2. fpd[f0] # NoPd
    BY <1>0, <1>a, <2>1 DEF NoPd, SysWords
  <2>. QED BY <2>1, <2>2
<1>d. thread[t].pc = "idle" /\ UNCHANGED <<partial, pnext, cnt, marks, slots, reg, fpd>>
  BY <1>b
<1>1. /\ thread' = [thread EXCEPT ![t] = v] /\ v \in SysThread'
      /\ v.pc = "recycle" /\ v.file = f0 /\ <<v.slot, v.idx>> = fpd[f0] /\ v.slot \in slots
      /\ \A u \in Threads : u # t => thread'[u] = thread[u]
  <2>1. PICK s0 \in slots, i0 \in Indices : fpd[f0] = <<s0, i0>>
    BY <1>c
  <2>2. v = [ThreadIdle EXCEPT !.pc = "recycle", !.file = f0, !.slot = s0, !.idx = i0]
    BY <1>a, <1>b, <2>1
  <2>3. v = [pc |-> "recycle", slot |-> s0, next |-> Nil, idx |-> i0, file |-> f0]
    BY <2>2 DEF ThreadIdle
  <2>4. v \in SysThread'
    <3>1. "recycle" \in SysPCs
      BY DEF SysPCs, ClosingPCs
    <3>2. s0 \in SlotIds \cup {Nil} /\ f0 \in Files \cup {Nil} /\ Nil \in slots \cup {Nil}
      BY <1>a
    <3>. HIDE DEF v
    <3>3. v \in SysThread
      BY ONLY <2>3, <3>1, <3>2 DEF SysThread
    <3>4. SysThread' = SysThread
      BY <1>d DEF SysThread
    <3>. QED BY <3>3, <3>4, Zenon
  <2>5. thread' = [thread EXCEPT ![t] = v]
    <3>1. v = [ThreadIdle EXCEPT !.pc = "recycle", !.file = f0, !.slot = fpd[f0][1], !.idx = fpd[f0][2]]
      BY <1>a, <1>b, Zenon
    <3>. HIDE DEF v
    <3>. QED BY <1>b, <3>1, Zenon
  <2>. HIDE DEF v
  <2>6. v.pc = "recycle" /\ v.file = f0 /\ <<v.slot, v.idx>> = fpd[f0] /\ v.slot \in slots
    BY <2>1, <2>3
  <2>7. \A u \in Threads : u # t => thread'[u] = thread[u]
    BY <1>a, <2>5
  <2>. QED BY <2>4, <2>5, <2>6, <2>7
<1>2. SysWords' /\ SlotsKnown'
  <2>1. thread' \in [Threads -> SysThread']
    <3>1. SysThread' = SysThread
      BY <1>d DEF SysThread
    <3>. QED BY <1>a, <1>1, <3>1
  <2>2. SysWords'
    BY <1>0, <1>b, <2>1 DEF SysWords
  <2>. QED BY <1>0, <1>a, <1>d, <1>1, <2>1, <2>2 DEF SlotsKnown, Slot
<1>3. \A f \in Files : fstate'[f] = IF f = f0 THEN "closing" ELSE fstate[f]
  BY <1>0, <1>b DEF SysWords
<1>4. \A u \in Threads : u # t => /\ thread[u].pc # "idle" => File(u) \in Files /\ File(u) # f0
                                  /\ HasPd(u)' <=> HasPd(u)
                                  /\ Pd(u)' = Pd(u) /\ File(u)' = File(u)
                                  /\ HasPd(u) => Pd(u) # fpd[f0]
  <2>1. \A u \in Threads : thread[u].pc # "idle" => File(u) \in Files /\ File(u) # f0
    BY <1>0, <1>a, <1>b DEF FilesHeld, SysThread, SysPCs, OpeningPCs, ClosingPCs, PuttingPCs
  <2>2. \A u \in Threads : u # t => (HasPd(u)' <=> HasPd(u))
    BY <1>1, <1>3, <2>1 DEF HasPd, File, PuttingPCs
  <2>3. \A u \in Threads : u # t => Pd(u)' = Pd(u) /\ File(u)' = File(u)
    BY <1>1 DEF Pd, Slot, File
  <2>. QED BY <1>0, <1>b, <2>1, <2>2, <2>3 DEF Descriptors
<1>5. ~HasPd(t) /\ HasPd(t)' /\ Pd(t)' = fpd[f0] /\ File(t)' = f0
  BY <1>b, <1>1 DEF HasPd, PuttingPCs, Pd, Slot, File
<1>6. FilesHeld'
  BY <1>0, <1>1, <1>3, <1>4, <1>5 DEF FilesHeld, OpeningPCs, ClosingPCs, PuttingPCs
<1>7. \A f \in Files : fstate[f] = "open" /\ f # f0 => fpd[f] # fpd[f0]
  BY <1>0, <1>b DEF Descriptors
<1>8. Descriptors'
  <2>1. \A u \in Threads : HasPd(u)' => Pd(u)' \in marks'
    BY <1>0, <1>c, <1>d, <1>4, <1>5 DEF Descriptors
  <2>2. \A u, x \in Threads : HasPd(u)' /\ HasPd(x)' /\ Pd(u)' = Pd(x)' => u = x
    BY <1>0, <1>4, <1>5 DEF Descriptors
  <2>3. \A u \in Threads : thread'[u].pc = "add" => reg'[Pd(u)'] = File(u)'
                                                    /\ fpd'[File(u)'] = Pd(u)'
    BY <1>0, <1>d, <1>1, <1>4 DEF Descriptors, File, HasPd
  <2>4. \A f \in Files : fstate'[f] = "open" => fpd'[f] \in marks' /\ reg'[fpd'[f]] = f
    BY <1>0, <1>d, <1>3 DEF Descriptors
  <2>5. \A f \in Files, u \in Threads : fstate'[f] = "open" /\ HasPd(u)' => Pd(u)' # fpd'[f]
    BY <1>0, <1>d, <1>3, <1>4, <1>5, <1>7 DEF Descriptors
  <2>6. \A d \in marks' : \/ \E u \in Threads : HasPd(u)' /\ Pd(u)' = d
                          \/ \E f \in Files : fstate'[f] = "open" /\ fpd'[f] = d
    BY <1>0, <1>d, <1>3, <1>4, <1>5 DEF Descriptors
  <2>. QED BY <2>1, <2>2, <2>3, <2>4, <2>5, <2>6 DEF Descriptors
<1>9. Counted'
  <2>1. \A P \in {{"scan", "mark"}, {"uncount", "sub"}} : v.pc \notin P /\ thread[t].pc \notin P
    BY <1>d, <1>1
  <2>2. UNCHANGED <<cnt, marks>>
    BY <1>d
  <2>. HIDE DEF v
  <2>. QED BY <1>0, <1>a, <1>1, <2>1, <2>2, CountSame
<1>. QED BY <1>2, <1>6, <1>8, <1>9 DEF SysInv

\* The File is garbage.
LEMMA DelSys ==
    ASSUME SysInv, NEW t \in Threads, PollDel(t)
    PROVE  SysInv'
<1>. USE DEF At, GoTo, poolVars, fileVars
<1>. DEFINE v == thread'[t]
<1>0. SysWords /\ FilesHeld /\ SlotsKnown /\ Descriptors /\ Counted
  BY DEF SysInv
<1>a. /\ thread \in [Threads -> SysThread] /\ thread[t] \in SysThread
      /\ Nil \notin SlotIds /\ Nil \notin Files /\ 1 \in Indices /\ slots \subseteq SlotIds
  BY <1>0, SysAssumption DEF SysWords, Indices
<1>. DEFINE f0 == File(t)
<1>d. /\ thread[t].pc = "del" /\ fstate' = [fstate EXCEPT ![f0] = "none"]
      /\ fpd' = [fpd EXCEPT ![f0] = NoPd]
      /\ UNCHANGED <<partial, pnext, cnt, marks, slots, reg>>
  BY DEF PollDel
<1>e. thread' = [thread EXCEPT ![t] = ThreadIdle]
  BY DEF PollDel
<1>b. f0 \in Files /\ fstate[f0] = "closing"
  BY <1>0, <1>d DEF FilesHeld, ClosingPCs
<1>1. /\ thread' = [thread EXCEPT ![t] = v] /\ v \in SysThread'
      /\ v.pc = "idle" /\ v.slot = Nil
      /\ \A u \in Threads : u # t => thread'[u] = thread[u]
  BY <1>a, <1>d, <1>e DEF SysThread, SysPCs, ThreadIdle
<1>2. SysWords' /\ SlotsKnown'
  <2>1. thread' \in [Threads -> SysThread']
    <3>1. SysThread' = SysThread
      BY <1>d DEF SysThread
    <3>. QED BY <1>a, <1>1, <3>1
  <2>2. SysWords'
    BY <1>0, <1>d, <2>1 DEF SysWords
  <2>. QED BY <1>0, <1>a, <1>d, <1>1, <2>1, <2>2 DEF SlotsKnown, Slot
<1>3. /\ \A f \in Files : f # f0 => fstate'[f] = fstate[f] /\ fpd'[f] = fpd[f]
      /\ fstate'[f0] = "none"
  BY <1>0, <1>b, <1>d DEF SysWords
<1>4. \A u \in Threads : u # t => /\ thread[u].pc # "idle" => File(u) \in Files /\ File(u) # f0
                                  /\ HasPd(u)' <=> HasPd(u)
                                  /\ Pd(u)' = Pd(u) /\ File(u)' = File(u)
  <2>1. \A u \in Threads : u # t /\ thread[u].pc # "idle" => File(u) \in Files /\ File(u) # f0
    BY <1>0, <1>d DEF FilesHeld
  <2>2. \A u \in Threads : u # t => (HasPd(u)' <=> HasPd(u))
    BY <1>1, <1>3, <2>1 DEF HasPd, File, PuttingPCs
  <2>. QED BY <1>1, <2>1, <2>2 DEF Pd, Slot, File
<1>5. ~HasPd(t) /\ ~HasPd(t)'
  BY <1>d, <1>1 DEF HasPd, PuttingPCs
<1>6. FilesHeld'
  BY <1>0, <1>1, <1>3, <1>4 DEF FilesHeld, OpeningPCs, ClosingPCs, PuttingPCs
<1>7. \A u \in Threads : u # t /\ thread[u].pc = "add" => fpd'[File(u)] = fpd[File(u)]
  BY <1>3, <1>4
<1>8. Descriptors'
  <2>1. \A u \in Threads : HasPd(u)' => Pd(u)' \in marks'
    BY <1>0, <1>d, <1>4, <1>5 DEF Descriptors
  <2>2. \A u, x \in Threads : HasPd(u)' /\ HasPd(x)' /\ Pd(u)' = Pd(x)' => u = x
    BY <1>0, <1>4, <1>5 DEF Descriptors
  <2>3. \A u \in Threads : thread'[u].pc = "add" => reg'[Pd(u)'] = File(u)'
                                                    /\ fpd'[File(u)'] = Pd(u)'
    BY <1>0, <1>d, <1>1, <1>4, <1>7 DEF Descriptors, File, HasPd
  <2>4. \A f \in Files : fstate'[f] = "open" => fpd'[f] \in marks' /\ reg'[fpd'[f]] = f
    BY <1>0, <1>d, <1>3 DEF Descriptors
  <2>5. \A f \in Files, u \in Threads : fstate'[f] = "open" /\ HasPd(u)' => Pd(u)' # fpd'[f]
    BY <1>0, <1>d, <1>3, <1>4, <1>5 DEF Descriptors
  <2>6. \A d \in marks' : \/ \E u \in Threads : HasPd(u)' /\ Pd(u)' = d
                          \/ \E f \in Files : fstate'[f] = "open" /\ fpd'[f] = d
    BY <1>0, <1>b, <1>d, <1>3, <1>4, <1>5 DEF Descriptors
  <2>. QED BY <2>1, <2>2, <2>3, <2>4, <2>5, <2>6 DEF Descriptors
<1>9. Counted'
  <2>1. \A P \in {{"scan", "mark"}, {"uncount", "sub"}} : v.pc \notin P /\ thread[t].pc \notin P
    BY <1>d, <1>1
  <2>2. UNCHANGED <<cnt, marks>>
    BY <1>d
  <2>. HIDE DEF v
  <2>. QED BY <1>0, <1>a, <1>1, <2>1, <2>2, CountSame
<1>. QED BY <1>2, <1>6, <1>8, <1>9 DEF SysInv

\* No step of an allocation, of a free or of a lookup breaks it.
LEMMA SysNextInv == SysInv /\ [SysNext]_sysVars => SysInv'
<1>. SUFFICES ASSUME SysInv, [SysNext]_sysVars PROVE SysInv'
  OBVIOUS
<1>1. CASE UNCHANGED sysVars
  <2>. USE <1>1 DEF sysVars, SysInv
  <2>1. SysWords' /\ FilesHeld' /\ SlotsKnown'
    BY DEF SysWords, SysThread, FilesHeld, SlotsKnown, Slot, File
  <2>2. \A u \in Threads : (HasPd(u)' <=> HasPd(u)) /\ Pd(u)' = Pd(u) /\ File(u)' = File(u)
    BY DEF HasPd, Pd, Slot, File
  <2>3. Descriptors'
    BY <2>2 DEF Descriptors
  <2>4. \A s \in SlotIds : MarksOf(s)' = MarksOf(s) /\ Scanning(s)' = Scanning(s)
                           /\ Leaving(s)' = Leaving(s)
    BY DEF MarksOf, Scanning, Leaving, Slot
  <2>5. Counted'
    BY <2>4 DEF Counted
  <2>. QED BY <2>1, <2>3, <2>5
<1>2. CASE SysNext
  BY <1>2, WalkSys, CountSys, MarkSys, UnmarkSys, NewSys, OpenSys, RegisterSys, AddSys, CloseSys,
     DelSys DEF SysNext, alloc
<1>. QED BY <1>1, <1>2

\* The invariant gives the types and the properties.
LEMMA SysInvTypeOK == SysInv => SysTypeOK
<1>. SUFFICES ASSUME SysInv PROVE SysTypeOK
  OBVIOUS
<1>1. SysWords /\ Counted
  BY DEF SysInv
<1>2. cnt \in [SlotIds -> 0..(SlotSize + Cardinality(Threads))]
  <2>. SUFFICES ASSUME NEW s \in SlotIds PROVE cnt[s] \in 0..(SlotSize + Cardinality(Threads))
    BY <1>1 DEF SysWords
  <2>. DEFINE m == Cardinality(MarksOf(s))
              c == Cardinality(Scanning(s))
              l == Cardinality(Leaving(s))
              n == Cardinality(Threads)
  <2>1. m \in Nat /\ c \in Nat /\ l \in Nat /\ l <= n /\ n \in Nat
    BY <1>1, CountedFinite, SysAssumption, FS_CardinalityType
  <2>2. cnt[s] = m + c + l /\ m + c <= SlotSize /\ SlotSize \in Nat
    BY <1>1, SysAssumption DEF Counted
  <2>. HIDE DEF m, c, l, n
  <2>3. cnt[s] \in 0..(SlotSize + n)
    BY <2>1, <2>2
  <2>. QED BY <2>3 DEF n
<1>3. fpd \in [Files -> (SlotIds \X Indices) \cup {NoPd}]
  BY <1>1 DEF SysWords
<1>. QED BY <1>1, <1>2, <1>3 DEF SysWords, SysTypeOK

\* What the run checks of the slots follows.
LEMMA SysInvExact == SysInv => SlotsExact
<1>. SUFFICES ASSUME SysInv PROVE SlotsExact
  OBVIOUS
<1>1. SysWords /\ Descriptors /\ Counted
  BY DEF SysInv
<1>2. PdRegistered
  BY <1>1 DEF Descriptors, PdRegistered
<1>3. ScanFinds
  BY <1>1 DEF Counted, MarksOf, Scanning, ScanFinds
<1>4. SlotKept
  BY <1>1 DEF SysWords, SlotKept, NoPd
<1>. QED BY <1>2, <1>3, <1>4 DEF SlotsExact

-----------------------------------------------------------------------------
(* The three programs together *)

GoInv == program \in {"connection", "recycle", "sys"} /\ ConnInv /\ RecycleInv /\ SysInv

\* The three programs start in their invariants.
LEMMA GoInitInv == GoInit => GoInv
BY ConnInitInv, RecycleInitInv, SysInitInv DEF GoInit, GoInv

\* A step of one program leaves the others alone.
LEMMA GoNextInv == GoInv /\ [GoNext]_goVars => GoInv'
<1>. SUFFICES ASSUME GoInv, [GoNext]_goVars PROVE GoInv'
  OBVIOUS
<1>1. /\ [Next]_vars /\ [RecycleNext]_recycleVars /\ [SysNext]_sysVars
      /\ program' = program
  BY DEF GoNext, goVars
<1>. QED BY <1>1, ConnNextInv, RecycleNextInv, SysNextInv DEF GoInv

\* The three invariants hold of every reachable state.
LEMMA GoInvariant == GoSafety => []GoInv
BY GoInitInv, GoNextInv, PTL DEF GoSafety

\* Every variable of the three programs keeps its type: the counters stay within their
\* channels, the list within its limit, and a slot's count within SlotSize and one for
\* each thread.
THEOREM GoTypeCorrect == GoSafety => []GoTypeOK
<1>1. GoInv => GoTypeOK
  <2>. SUFFICES ASSUME GoInv PROVE GoTypeOK
    OBVIOUS
  <2>1. TypeOK /\ RecycleTypeOK /\ SysTypeOK
    BY ConnInvTypeOK, SysInvTypeOK DEF GoInv, RecycleInv
  <2>. QED BY <2>1 DEF GoInv, GoTypeOK
<1>. QED BY <1>1, GoInvariant, PTL

\* One worker at a time polls the connection or has it in its local queue, the claim is lost
\* only with the connection, and the goroutine is started once.
THEOREM ConnectionOwnership == GoSafety => []ConnectionOwned
<1>1. GoInv => ConnectionOwned
  BY ConnInvOwned DEF GoInv
<1>. QED BY <1>1, GoInvariant, PTL

\* A packet that is complete is announced to mainproc, or mainproc has ended.
THEOREM PacketAnnounced == GoSafety => []PacketSeen
<1>1. GoInv => PacketSeen
  BY DEF GoInv, ConnInv
<1>. QED BY <1>1, GoInvariant, PTL

\* epoll and the current batch name no polldesp that the garbage collector may take.
THEOREM PolldespsKept == GoSafety => []PdKept
<1>1. GoInv => PdKept
  BY RecycleInvPdKept DEF GoInv
<1>. QED BY <1>1, GoInvariant, PTL

\* An open file has a descriptor of its own in a slot that is kept, and a thread whose count
\* fitted finds an unmarked one.
THEOREM SlotsAreExact == GoSafety => []SlotsExact
<1>1. GoInv => SlotsExact
  BY SysInvExact DEF GoInv
<1>. QED BY <1>1, GoInvariant, PTL

\* The connection by itself, as the run of BusySection takes it.
THEOREM ConnectionSafety == Safety => [](TypeOK /\ ConnectionOwned /\ PacketSeen)
<1>1. ConnInv => TypeOK /\ ConnectionOwned /\ PacketSeen
  BY ConnInvTypeOK, ConnInvOwned DEF ConnInv
<1>. QED BY <1>1, ConnInitInv, ConnNextInv, PTL DEF Safety
=============================================================================
