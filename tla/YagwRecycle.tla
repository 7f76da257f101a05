----------------------------- MODULE YagwRecycle -----------------------------
(***************************************************************************)
(* The life of the gateway's polldesps (go/yagw/server.go): accept_proc    *)
(* puts them into epoll, free_pd takes them out.  epoll's events hold      *)
(* pointers to them which the garbage collector does not see, so free_pd   *)
(* keeps what it frees on a list, and the event loop drops the list after  *)
(* a batch of events.  A full list or a timer wakes the loop through an    *)
(* eventfd.                                                                *)
(*                                                                         *)
(* Until it is freed a polldesp is held by its login timer or its          *)
(* goroutine, while it is being freed by the goroutine that does so.       *)
(***************************************************************************)
EXTENDS Naturals, FiniteSets

CONSTANTS
    Polldesps,         \* polldesps of connections
    EventFd, ListenFd, \* server.event_pd and server.listen_pd
    RecycleLimit,      \* RECYCLEPD_LIMIT
    MaxBacklog         \* bound: connections waiting to be accepted

ASSUME RecycleAssumption ==
    /\ IsFiniteSet(Polldesps) /\ RecycleLimit \in Nat \ {0} /\ MaxBacklog \in Nat
    /\ EventFd # ListenFd /\ {EventFd, ListenFd} \cap Polldesps = {}

VARIABLES
    life,           \* of each polldesp: how far free_pd has come
    polled, ready,  \* what is in epoll, and what it has an event of
    batch,          \* what the event loop has been given and not looked at
    freepds, num,   \* the list and its counter
    recycling,
    rpc, tick,      \* the event loop and tick_recyclepd
    backlog,        \* connections nobody has accepted
    acceptable, apc \* the channel to accept_proc, and accept_proc

recycleVars == <<life, polled, ready, batch, freepds, num, recycling, rpc, tick, backlog,
                 acceptable, apc>>

\* server_start.  A polldesp that nothing refers to any more can be allocated again.
RecycleInit ==
    /\ life = [p \in Polldesps |-> "none"]
    /\ polled = {EventFd, ListenFd} /\ ready = {} /\ batch = {}
    /\ freepds = {} /\ num = 0 /\ recycling = FALSE
    /\ rpc = "wait" /\ tick = "idle"
    /\ backlog = 0 /\ acceptable = FALSE /\ apc = "idle"

epollPart == <<polled, ready>>
loopPart == <<batch, rpc>>
listPart == <<freepds, num, recycling>>
acceptPart == <<backlog, acceptable, apc>>

Free(p, next) == life' = [life EXCEPT ![p] = next]

\* Polldesps that can be allocated, and the one that is: it does not matter which.
Unused == {p \in Polldesps : life[p] = "none"}
NextPd == CHOOSE p \in Unused : TRUE

----------------------------------------------------------------------------
(* The peers *)

\* Something happens on a socket.
Traffic(p) ==
    /\ p \in polled \ ready
    /\ ready' = ready \cup {p}
    /\ UNCHANGED <<life, polled, loopPart, listPart, tick, acceptPart>>

\* A connection arrives.
Connect ==
    /\ backlog < MaxBacklog
    /\ backlog' = backlog + 1
    /\ ready' = ready \cup {ListenFd}
    /\ UNCHANGED <<life, polled, loopPart, listPart, tick, acceptable, apc>>

----------------------------------------------------------------------------
(* accept_proc *)

TakeAcceptable ==
    /\ apc = "idle" /\ acceptable
    /\ acceptable' = FALSE /\ apc' = "accept"
    /\ UNCHANGED <<life, epollPart, loopPart, listPart, tick, backlog>>

\* The new connection is put into epoll, which finds it writable.
Accepted(p) ==
    /\ Free(p, "used")
    /\ polled' = polled \cup {p} /\ ready' = ready \cup {p}
    /\ backlog' = backlog - 1
    /\ UNCHANGED <<loopPart, listPart, tick, acceptable>>

\* Mutation: one connection for a message in the channel.
AcceptOne ==
    /\ apc = "accept"
    /\ apc' = "idle"
    /\ \/ backlog > 0 /\ Unused # {} /\ Accepted(NextPd)
       \/ backlog = 0 /\ UNCHANGED <<life, epollPart, loopPart, listPart, tick, acceptable, backlog>>

\* accept4 until EAGAIN.
Accept ==
    /\ apc = "accept"
    /\ \/ backlog > 0 /\ Unused # {} /\ apc' = apc /\ Accepted(NextPd)
       \/ /\ backlog = 0 /\ apc' = "idle"
          /\ UNCHANGED <<life, epollPart, loopPart, listPart, tick, acceptable, backlog>>

accept_proc == TakeAcceptable \/ Accept

----------------------------------------------------------------------------
(* free_pd *)

\* The first of those who close the connection goes on.
MarkBad(p) ==
    /\ life[p] = "used"
    /\ Free(p, "del")
    /\ UNCHANGED <<epollPart, loopPart, listPart, tick, acceptPart>>

\* Mutation: EPOLL_CTL_DEL is left to the close of the descriptor, which another holder delays.
EpollDelLate(p) ==
    /\ life[p] = "del"
    /\ Free(p, "push")
    /\ UNCHANGED <<epollPart, loopPart, listPart, tick, acceptPart>>

EpollDel(p) ==
    /\ life[p] = "del"
    /\ Free(p, "push")
    /\ polled' = polled \ {p} /\ ready' = ready \ {p}
    /\ UNCHANGED <<loopPart, listPart, tick, acceptPart>>

\* freelist.push: the push that fills the list asks for a wakeup.
Push(p) ==
    /\ life[p] = "push"
    /\ freepds' = freepds \cup {p}
    /\ num' = IF num < RecycleLimit THEN num + 1 ELSE num
    /\ Free(p, IF num = RecycleLimit - 1 THEN "raise" ELSE "freed")
    /\ UNCHANGED <<epollPart, loopPart, recycling, tick, acceptPart>>

\* raise_recyclepd, unless a wakeup is on its way: the flag first, then the eventfd.
Raise(p) ==
    /\ life[p] = "raise"
    /\ Free(p, IF recycling THEN "freed" ELSE "write")
    /\ recycling' = TRUE
    /\ UNCHANGED <<epollPart, loopPart, freepds, num, tick, acceptPart>>

RaiseWrite(p) ==
    /\ life[p] = "write"
    /\ Free(p, "freed")
    /\ ready' = ready \cup {EventFd}
    /\ UNCHANGED <<polled, loopPart, listPart, tick, acceptPart>>

free_pd(p) == EpollDel(p) \/ Push(p) \/ Raise(p) \/ RaiseWrite(p)

\* Every five minutes.
Tick ==
    /\ tick = "idle"
    /\ tick' = IF recycling THEN "idle" ELSE "write"
    /\ recycling' = TRUE
    /\ UNCHANGED <<life, epollPart, loopPart, freepds, num, acceptPart>>

TickWrite ==
    /\ tick = "write"
    /\ tick' = "idle"
    /\ ready' = ready \cup {EventFd}
    /\ UNCHANGED <<life, polled, loopPart, listPart, acceptPart>>

tick_recyclepd == Tick \/ TickWrite

----------------------------------------------------------------------------
(* server_eventloop *)

\* EpollWait returns what is ready; nevents is at least 64.
Wait ==
    /\ rpc = "wait" /\ ready # {}
    /\ batch' = ready /\ ready' = {}
    /\ rpc' = "events"
    /\ UNCHANGED <<life, polled, listPart, tick, acceptPart>>

\* The loop looks at the polldesp of an event, reads the eventfd or wakes accept_proc,
\* unless a message to it is already there.
Event(x) ==
    /\ rpc = "events" /\ x \in batch
    /\ batch' = batch \ {x}
    /\ acceptable' = (acceptable \/ x = ListenFd)
    /\ UNCHANGED <<life, epollPart, listPart, rpc, tick, backlog, apc>>

\* After the batch the list is dropped, ...
Clear ==
    /\ rpc = "events" /\ batch = {}
    /\ freepds' = {} /\ num' = 0
    /\ rpc' = "cleared"
    /\ UNCHANGED <<life, epollPart, batch, recycling, tick, acceptPart>>

\* ... and then the flag reset.
Reset ==
    /\ rpc = "cleared"
    /\ recycling' = FALSE
    /\ rpc' = "wait"
    /\ UNCHANGED <<life, epollPart, batch, freepds, num, tick, acceptPart>>

server_eventloop == Wait \/ (\E x \in batch : Event(x)) \/ Clear \/ Reset

\* The garbage collector takes a polldesp that neither the list nor a goroutine holds.
Collect(p) ==
    /\ life[p] = "freed" /\ p \notin freepds
    /\ Free(p, "none")
    /\ UNCHANGED <<epollPart, loopPart, listPart, tick, acceptPart>>

RecycleNext ==
    \/ Connect \/ accept_proc
    \/ \E p \in Polldesps : Traffic(p) \/ MarkBad(p) \/ free_pd(p) \/ Collect(p)
    \/ tick_recyclepd \/ server_eventloop

----------------------------------------------------------------------------
(* Properties *)

RecycleTypeOK ==
    /\ life \in [Polldesps -> {"none", "used", "del", "push", "raise", "write", "freed"}]
    /\ ready \subseteq polled /\ polled \subseteq Polldesps \cup {EventFd, ListenFd}
    /\ batch \subseteq Polldesps \cup {EventFd, ListenFd} /\ freepds \subseteq Polldesps
    /\ {recycling, acceptable} \subseteq BOOLEAN
    /\ num \in 0..RecycleLimit
    /\ rpc \in {"wait", "events", "cleared"} /\ tick \in {"idle", "write"}
    /\ apc \in {"idle", "accept"} /\ backlog \in 0..MaxBacklog

\* No pointer in epoll or in a batch outlives its polldesp: the list keeps what is freed
\* until the batch that may name it is over, whenever the connection is closed.
PdKept == \A p \in (polled \cup batch) \cap Polldesps : life[p] \in {"none", "freed"} => p \in freepds

\* The list does not keep anything for ever, also when the push that filled it saw recycling
\* still set by the wakeup before.
FreedDropped == \A p \in Polldesps : p \in freepds ~> p \notin freepds

\* A connection does not wait in the backlog for ever: an edge of the listening socket that
\* comes while accept_proc is about to stop, or finds the channel full, is not lost.
ConnAccepted == backlog > 0 ~> backlog = 0 \/ apc = "accept"

\* The event loop serves the free list and the listening socket, although both may announce
\* themselves while the announcement before is being taken back.
AcceptServed == FreedDropped /\ ConnAccepted
=============================================================================
