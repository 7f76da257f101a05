------------------------------ MODULE OneNotify ------------------------------
(***************************************************************************)
(* The one-to-one notification of rs/sync/src/notify.rs and the spin latch *)
(* of rs/sync/src/latch.rs it is built on.                                 *)
(*                                                                         *)
(* One sender calls pulse, one receiver is a future that a task polls.     *)
(* Every load, store, exchange and access to the waker cell is a step of   *)
(* its own.  A step on one atomic sees the latest store to it, which the   *)
(* Acquire and Release orderings of the code and the SeqCst ones of the    *)
(* latch provide for what is read after them.                              *)
(***************************************************************************)
CONSTANTS
    Wakers,    \* the wakers of the tasks that may poll the receiver
    None

ASSUME NoneAssumption == None \notin Wakers

VARIABLES
    state,     \* OneNotifyInner.state
    latch,     \* the latch's word: 0 or 1
    waker,     \* the waker cell
    pc,        \* the next step of the sender ("tx") and of the receiver ("rx")
    inHand,     \* w in pulse, until it is woken
    seen,      \* state in poll, read under the latch
    ctx,       \* cx.waker() of the current or latest poll
    parked,    \* the latest poll returned Pending and no other has begun
    woken      \* wakers that were woken and whose task has not polled since

notifyVars == <<state, latch, waker, pc, inHand, seen, ctx, parked, woken>>

Threads == {"tx", "rx"}
States == {"IDLE", "SIGNALED", "WAITING"}
TxSteps == {"idle", "load", "cas", "try", "swap", "take", "store", "release", "wake"}
RxSteps == {"idle", "load", "try", "swap", "reload", "wait", "waker", "release", "consume"}

\* Steps between Latch::acquire and Latch::release.
Critical == {"take", "store", "reload", "wait", "waker", "release"}

\* one_notify()
NotifyInit ==
    /\ state = "IDLE"
    /\ latch = 0
    /\ waker = None
    /\ pc = [x \in Threads |-> "idle"]
    /\ inHand = None
    /\ seen = "IDLE"
    /\ ctx = None
    /\ parked = FALSE
    /\ woken = {}

Goto(x, next) == pc' = [pc EXCEPT ![x] = next]

-----------------------------------------------------------------------------
(* Latch *)

\* try_acquire loads 0; a load of 1 makes acquire spin, which changes nothing.
LatchLoad(x) ==
    /\ pc[x] = "try"
    /\ latch = 0
    /\ Goto(x, "swap")
    /\ UNCHANGED <<state, latch, waker, inHand, seen, ctx, parked, woken>>

\* Mutation of Expected: the word is written without comparing it first.
Unexpected == TRUE

\* compare_exchange(0, 1) finds what it expects.
Expected == latch = 0

Entry(x) == IF x = "tx" THEN "take" ELSE "reload"

\* The exchange: into the critical section, or round the loop of acquire again.
LatchSwap(x) ==
    /\ pc[x] = "swap"
    /\ \/ /\ Expected
          /\ latch' = 1
          /\ Goto(x, Entry(x))
       \/ /\ ~Expected
          /\ latch' = latch
          /\ Goto(x, "try")
    /\ UNCHANGED <<state, waker, inHand, seen, ctx, parked, woken>>

\* release stores 0.
Unlocked == latch' = 0

-----------------------------------------------------------------------------
(* OneNotifyTx::pulse *)

Pulse ==
    /\ pc["tx"] = "idle"
    /\ Goto("tx", "load")
    /\ UNCHANGED <<state, latch, waker, inHand, seen, ctx, parked, woken>>

\* What pulse does once it knows the state: wake a waiter, or be done.
Decided(s) == IF s = "WAITING" THEN "try" ELSE "idle"

PulseLoad ==
    /\ pc["tx"] = "load"
    /\ Goto("tx", IF state = "IDLE" THEN "cas" ELSE Decided(state))
    /\ UNCHANGED <<state, latch, waker, inHand, seen, ctx, parked, woken>>

\* compare_exchange(STATE_IDLE, STATE_SIGNALED) yields the state it found.
PulseCas ==
    /\ pc["tx"] = "cas"
    /\ state' = IF state = "IDLE" THEN "SIGNALED" ELSE state
    /\ Goto("tx", Decided(state))
    /\ UNCHANGED <<latch, waker, inHand, seen, ctx, parked, woken>>

\* mem::replace(waker, None)
PulseTake ==
    /\ pc["tx"] = "take"
    /\ inHand' = waker
    /\ waker' = None
    /\ Goto("tx", "store")
    /\ UNCHANGED <<state, latch, seen, ctx, parked, woken>>

PulseStore ==
    /\ pc["tx"] = "store"
    /\ state' = "IDLE"
    /\ Goto("tx", "release")
    /\ UNCHANGED <<latch, waker, inHand, seen, ctx, parked, woken>>

PulseRelease ==
    /\ pc["tx"] = "release"
    /\ Unlocked
    /\ Goto("tx", "wake")
    /\ UNCHANGED <<state, waker, inHand, seen, ctx, parked, woken>>

\* Mutation of WakenBy: the waker is dropped instead of woken.
DroppedBy(w) == woken

\* wake(): the task of w will poll again.
WakenBy(w) == woken \cup {w}

PulseWake ==
    /\ pc["tx"] = "wake"
    /\ woken' = WakenBy(inHand)
    /\ inHand' = None
    /\ Goto("tx", "idle")
    /\ UNCHANGED <<state, latch, waker, seen, ctx, parked>>

-----------------------------------------------------------------------------
(* OneNotifyRx::poll *)

\* The task of waker v polls: because it was woken, because the latest poll was
\* Ready and the receiver is awaited again, or for no reason at all.
Poll(v) ==
    /\ pc["rx"] = "idle"
    /\ Goto("rx", "load")
    /\ ctx' = v
    /\ parked' = FALSE
    /\ woken' = woken \ {v}
    /\ UNCHANGED <<state, latch, waker, inHand, seen>>

PollLoad ==
    /\ pc["rx"] = "load"
    /\ Goto("rx", IF state = "SIGNALED" THEN "consume" ELSE "try")
    /\ UNCHANGED <<state, latch, waker, inHand, seen, ctx, parked, woken>>

\* The state is read again, now under the latch.
PollReload ==
    /\ pc["rx"] = "reload"
    /\ seen' = state
    /\ Goto("rx", CASE state = "SIGNALED" -> "release"
                    [] state = "IDLE" -> "wait"
                    [] state = "WAITING" -> "waker")
    /\ UNCHANGED <<state, latch, waker, inHand, ctx, parked, woken>>

PollWait ==
    /\ pc["rx"] = "wait"
    /\ state' = "WAITING"
    /\ Goto("rx", "waker")
    /\ UNCHANGED <<latch, waker, inHand, seen, ctx, parked, woken>>

\* Second mutation of Registered: a waker that is there is never replaced.
RegisteredOnce == IF waker = None THEN ctx ELSE waker

\* The cell after will_wake was asked: the waker of this poll.
Registered == IF waker = ctx THEN waker ELSE ctx

PollWaker ==
    /\ pc["rx"] = "waker"
    /\ waker' = Registered
    /\ Goto("rx", "release")
    /\ UNCHANGED <<state, latch, inHand, seen, ctx, parked, woken>>

\* Mutation of Unsignaled: only a state that was already WAITING is worth waiting.
UnsignaledWaiting == seen = "WAITING"

Unsignaled == seen # "SIGNALED"

\* The latch is released and poll returns Pending, or goes on to consume.
PollRelease ==
    /\ pc["rx"] = "release"
    /\ Unlocked
    /\ \/ /\ Unsignaled
          /\ parked' = TRUE
          /\ Goto("rx", "idle")
       \/ /\ ~Unsignaled
          /\ parked' = FALSE
          /\ Goto("rx", "consume")
    /\ UNCHANGED <<state, waker, inHand, seen, ctx, woken>>

\* The signal is consumed and poll returns Ready.
PollReady ==
    /\ pc["rx"] = "consume"
    /\ state' = "IDLE"
    /\ Goto("rx", "idle")
    /\ UNCHANGED <<latch, waker, inHand, seen, ctx, parked, woken>>

-----------------------------------------------------------------------------
TxStep == \/ LatchLoad("tx")
          \/ LatchSwap("tx")
          \/ PulseLoad
          \/ PulseCas
          \/ PulseTake
          \/ PulseStore
          \/ PulseRelease
          \/ PulseWake

RxStep == \/ LatchLoad("rx")
          \/ LatchSwap("rx")
          \/ PollLoad
          \/ PollReload
          \/ PollWait
          \/ PollWaker
          \/ PollRelease
          \/ PollReady

NotifyNext == \/ Pulse
        \/ TxStep
        \/ RxStep
        \/ \E v \in Wakers : Poll(v)

NotifySafety == NotifyInit /\ [][NotifyNext]_notifyVars

\* A receiver that is not parked is polled, and so is one whose waker was woken.
PollExpected == \E v \in Wakers : (parked => v \in woken) /\ Poll(v)

(***************************************************************************)
(* A pulse and a poll that have begun are executed to their end; whoever   *)
(* keeps asking for the latch gets it, the other side giving it up after a *)
(* few steps and yielding while it spins; the executor polls the task it   *)
(* was asked to wake.  Nobody has to call pulse.                           *)
(***************************************************************************)
NotifyFairness == /\ WF_notifyVars(TxStep)
                  /\ SF_notifyVars(LatchSwap("tx") /\ Expected)
                  /\ WF_notifyVars(RxStep)
                  /\ SF_notifyVars(LatchSwap("rx") /\ Expected)
                  /\ WF_notifyVars(PollExpected)

NotifySpec == NotifySafety /\ NotifyFairness

-----------------------------------------------------------------------------
(* Properties *)

NotifyTypeOK ==
    /\ state \in States
    /\ latch \in {0, 1}
    /\ waker \in Wakers \cup {None}
    /\ pc \in [Threads -> TxSteps \cup RxSteps]
    /\ pc["tx"] \in TxSteps /\ pc["rx"] \in RxSteps
    /\ inHand \in Wakers \cup {None}
    /\ seen \in States
    /\ ctx \in Wakers \cup {None}
    /\ parked \in BOOLEAN
    /\ woken \subseteq Wakers

\* The waker cell, an UnsafeCell, is only used by one side at a time: the load and
\* the exchange of try_acquire let one thread in until it releases the latch.
MutualExclusion ==
    /\ ~(pc["tx"] \in Critical /\ pc["rx"] \in Critical)
    /\ latch = 0 <=> \A x \in Threads : pc[x] \notin Critical

\* The assertion of pulse, "waker must be not none", holds whenever it is reached:
\* a sender that read WAITING outside the latch still finds a waker inside it.
WakerPresent == pc["tx"] = "store" => inHand # None

\* The waker cell is used by one side at a time, and what pulse finds in it is there.
CellGuarded == MutualExclusion /\ WakerPresent

\* poll consumes a signal that is still there, although it loaded the state earlier
\* and without the latch at the end: there are never more Ready than pulses.
ReadyPaid == pc["rx"] = "consume" => state = "SIGNALED"

\* While the receiver's task sleeps, the waker of its latest poll, not that of an
\* earlier one, is registered in state WAITING, in the sender's hands, or woken.
ParkedCovered ==
    parked => \/ state = "WAITING" /\ waker = ctx
              \/ inHand = ctx /\ pc["tx"] \in {"store", "release", "wake"}
              \/ ctx \in woken

\* A pulse that begins while the receiver sleeps makes its task poll again.
PulseWakes == pc["tx"] = "load" /\ parked ~> ~parked

\* A pulse that begins while the receiver waits is received: a poll returns Ready.
PulseReceived == pc["tx"] = "load" /\ parked ~> pc["rx"] = "consume"
=============================================================================
