------------------------------- MODULE Gorpool -------------------------------
(***************************************************************************)
(* The goroutine pool of go/gorpool/gorpool.go.                            *)
(*                                                                         *)
(* Pool.Go hands a function to an idle gor, the last of the slice p.idle,  *)
(* or to a new one.  A gor runs what it receives, then puts itself back on *)
(* the slice; a gor that receives nothing for a minute takes itself off    *)
(* the slice and ends.  The slice and the idx of every gor are changed     *)
(* only under p.mu, one step each; the channel operations are outside it.  *)
(* A timer may fire whenever its gor is in the select (Reset does not      *)
(* drain a tick that came while a function was running).                   *)
(***************************************************************************)
EXTENDS Integers, Sequences

CONSTANTS
    Gors,      \* the gor structs that can be allocated
    Callers,   \* goroutines that call Pool.Go
    Fns,       \* the functions they pass, each once
    Nil        \* no function, no gor

ASSUME NilAssumption == Nil \notin Fns \cup Gors

VARIABLES
    idle,      \* p.idle
    idx,       \* g.idx
    ch,        \* g.ch, a channel of capacity 1
    where,     \* where each gor's goroutine is
    job,       \* the function a gor is executing
    fn, to,    \* the arguments of a caller's pending send: g.ch <- fn
    passed,    \* functions passed to Go
    returned   \* functions that have returned

callers == <<fn, to>>
vars == <<idle, idx, ch, where, job, callers, passed, returned>>

Stages == {"free", "select", "run", "park", "expired", "down"}

\* The zero Pool.
Init ==
    /\ idle = <<>>
    /\ idx = [g \in Gors |-> -1]
    /\ ch = [g \in Gors |-> Nil]
    /\ where = [g \in Gors |-> "free"]
    /\ job = [g \in Gors |-> Nil]
    /\ fn = [c \in Callers |-> Nil]
    /\ to = [c \in Callers |-> Nil]
    /\ passed = {}
    /\ returned = {}

Front(s) == SubSeq(s, 1, Len(s) - 1)

-----------------------------------------------------------------------------
(* Pool.Go *)

\* Caller c is going to send f to g.
Address(c, f, g) ==
    /\ fn[c] = Nil
    /\ f \notin passed
    /\ passed' = passed \cup {f}
    /\ fn' = [fn EXCEPT ![c] = f]
    /\ to' = [to EXCEPT ![c] = g]
    /\ UNCHANGED <<ch, job, returned>>

\* g.idx = -1
Claimed(g) == [idx EXCEPT ![g] = -1]

\* p.idle = p.idle[:len(p.idle)-1]
Popped == Front(idle)

\* An idle gor is popped under p.mu.
GoReuse(c, f) ==
    /\ idle # <<>>
    /\ Address(c, f, idle[Len(idle)])
    /\ idx' = Claimed(idle[Len(idle)])
    /\ idle' = Popped
    /\ UNCHANGED where

\* There is none: a new gor is started, with nothing in its channel yet.
GoNew(c, f, g) ==
    /\ idle = <<>>
    /\ where[g] = "free"
    /\ Address(c, f, g)
    /\ where' = [where EXCEPT ![g] = "select"]
    /\ UNCHANGED <<idle, idx>>

\* Mutation of Send: a send that gives up when the gor is not in its select.
SendTry(c) ==
    /\ fn[c] # Nil
    /\ ch' = IF where[to[c]] = "select" THEN [ch EXCEPT ![to[c]] = fn[c]] ELSE ch
    /\ fn' = [fn EXCEPT ![c] = Nil]
    /\ to' = [to EXCEPT ![c] = Nil]
    /\ UNCHANGED <<idle, idx, where, job, passed, returned>>

\* g.ch <- fn, which would block if the buffer were full; then Go returns.
Send(c) ==
    /\ fn[c] # Nil
    /\ ch[to[c]] = Nil
    /\ ch' = [ch EXCEPT ![to[c]] = fn[c]]
    /\ fn' = [fn EXCEPT ![c] = Nil]
    /\ to' = [to EXCEPT ![c] = Nil]
    /\ UNCHANGED <<idle, idx, where, job, passed, returned>>

-----------------------------------------------------------------------------
(* Pool.gorproc *)

\* case fn := <-g.ch
Receive(g) ==
    /\ where[g] = "select"
    /\ ch[g] # Nil
    /\ job' = [job EXCEPT ![g] = ch[g]]
    /\ ch' = [ch EXCEPT ![g] = Nil]
    /\ where' = [where EXCEPT ![g] = "run"]
    /\ UNCHANGED <<idle, idx, callers, passed, returned>>

\* fn() returns.
FnReturns(g) ==
    /\ where[g] = "run"
    /\ returned' = returned \cup {job[g]}
    /\ job' = [job EXCEPT ![g] = Nil]
    /\ where' = [where EXCEPT ![g] = "park"]
    /\ UNCHANGED <<idle, idx, ch, callers, passed>>

\* The gor appends itself to the slice, under p.mu.
Park(g) ==
    /\ where[g] = "park"
    /\ idx' = [idx EXCEPT ![g] = Len(idle)]
    /\ idle' = Append(idle, g)
    /\ where' = [where EXCEPT ![g] = "select"]
    /\ UNCHANGED <<ch, job, callers, passed, returned>>

\* case <-tm.C: the tick is taken, p.mu is still to be locked.
Tick(g) ==
    /\ where[g] = "select"
    /\ where' = [where EXCEPT ![g] = "expired"]
    /\ UNCHANGED <<idle, idx, ch, job, callers, passed, returned>>

\* Mutation of StillListed: the gor ends whether or not it was claimed.
AlwaysListed(g) == idle # <<>>

\* g.idx >= 0: no caller has claimed the gor.
StillListed(g) == idx[g] >= 0

\* Mutation of MovedIdx: the gor that fills the hole keeps its old index.
UnmovedIdx(g) == idx

\* t.idx = g.idx for the last gor t
MovedIdx(g) == [idx EXCEPT ![idle[Len(idle)]] = idx[g]]

\* The gor takes itself off the slice, the last one filling its place, and ends.
GoDown(g) ==
    /\ where[g] = "expired"
    /\ StillListed(g)
    /\ LET t == idle[Len(idle)] IN
          /\ idx' = MovedIdx(g)
          /\ idle' = Front([idle EXCEPT ![idx[g] + 1] = t])
    /\ where' = [where EXCEPT ![g] = "down"]
    /\ UNCHANGED <<ch, job, callers, passed, returned>>

\* A caller claimed it in the meantime: it goes round the loop again.
StayUp(g) ==
    /\ where[g] = "expired"
    /\ ~StillListed(g)
    /\ where' = [where EXCEPT ![g] = "select"]
    /\ UNCHANGED <<idle, idx, ch, job, callers, passed, returned>>

-----------------------------------------------------------------------------
Next ==
    \/ \E c \in Callers, f \in Fns : \/ GoReuse(c, f)
                                     \/ \E g \in Gors : GoNew(c, f, g)
    \/ \E c \in Callers : Send(c)
    \/ \E g \in Gors : \/ Receive(g)
                       \/ FnReturns(g)
                       \/ Park(g)
                       \/ Tick(g)
                       \/ GoDown(g)
                       \/ StayUp(g)

Safety == Init /\ [][Next]_vars

(***************************************************************************)
(* Goroutines that can go on do, and the functions return.  A select that  *)
(* is entered again and again with a filled channel takes it some time: Go *)
(* chooses among the ready cases at random and the timer needs a minute    *)
(* for its next tick.  No timer has to fire.                               *)
(***************************************************************************)
Fairness ==
    /\ \A c \in Callers : WF_vars(Send(c))
    /\ \A g \in Gors : /\ SF_vars(Receive(g))
                       /\ WF_vars(FnReturns(g))
                       /\ WF_vars(Park(g))
                       /\ WF_vars(GoDown(g) \/ StayUp(g))

Spec == Safety /\ Fairness

-----------------------------------------------------------------------------
(* Properties *)

\* Every variable has the type its Go declaration and the flow of its goroutine
\* allow; a gor never executes anything but a function.
TypeOK ==
    /\ idle \in Seq(Gors)
    /\ idx \in [Gors -> Nat \cup {-1}]
    /\ ch \in [Gors -> Fns \cup {Nil}]
    /\ where \in [Gors -> Stages]
    /\ job \in [Gors -> Fns \cup {Nil}]
    /\ fn \in [Callers -> Fns \cup {Nil}]
    /\ to \in [Callers -> Gors \cup {Nil}]
    /\ passed \subseteq Fns
    /\ returned \subseteq passed
    /\ \A g \in Gors : where[g] = "run" <=> job[g] # Nil
    /\ \A c \in Callers : fn[c] = Nil <=> to[c] = Nil

\* g.idx is the position of g in p.idle exactly while g is there: pops at the end
\* and swap-removals in the middle keep the two in step.
IdleExact ==
    /\ \A i \in 1 .. Len(idle) : idx[idle[i]] = i - 1
    /\ \A g \in Gors : idx[g] >= 0 /\ where[g] # "down"
                          => idx[g] < Len(idle) /\ idle[idx[g] + 1] = g

\* A gor that somebody sends to, or that has something to receive or to finish.
Busy(g) == \/ where[g] \in {"run", "park"}
           \/ ch[g] # Nil
           \/ \E c \in Callers : to[c] = g

\* A gor is handed at most one function at a time, and a gor that was handed one
\* has not ended and cannot be handed another: it is not on the slice.
BusyOnce ==
    /\ \A g \in Gors : Busy(g) => idx[g] = -1 /\ where[g] \notin {"free", "down"}
    /\ \A c, d \in Callers : to[c] = to[d] /\ to[c] # Nil => c = d

\* The send in Go never blocks, although it is made outside p.mu.
SendReady == \A c \in Callers : to[c] # Nil => ch[to[c]] = Nil /\ job[to[c]] = Nil

Pending == passed \ returned

\* A function that was given to the pool and has not returned is in exactly one
\* place: on its way, in one channel, or being executed by one gor.
FnHeld ==
    /\ \A f \in Pending : \/ \E c \in Callers : fn[c] = f
                          \/ \E g \in Gors : ch[g] = f \/ job[g] = f
    /\ \A c \in Callers : fn[c] # Nil =>
          /\ fn[c] \in Pending
          /\ \A d \in Callers : fn[d] = fn[c] => d = c
          /\ \A g \in Gors : ch[g] # fn[c] /\ job[g] # fn[c]
    /\ \A g \in Gors : ch[g] # Nil =>
          /\ ch[g] \in Pending
          /\ \A h \in Gors : job[h] # ch[g] /\ (ch[h] = ch[g] => h = g)
    /\ \A g \in Gors : job[g] # Nil =>
          /\ job[g] \in Pending
          /\ \A h \in Gors : job[h] = job[g] => h = g

\* Slice, indices and gors agree: a gor that Go handed a function is off the slice, alive and
\* has no other one, whatever pops, parks and timers did before.
GorsExact == IdleExact /\ BusyOnce

\* A function given to Go goes through the channel of one gor, which has room for it.
FnDelivered == SendReady /\ FnHeld

\* What the pool promises about the functions.
Status == [f \in Fns |-> IF f \notin passed THEN "new"
                         ELSE IF f \in returned THEN "done"
                         ELSE IF \E g \in Gors : job[g] = f THEN "running"
                         ELSE "queued"]

Abstract == INSTANCE TaskPool WITH Tasks <- Fns, status <- Status

\* Every function given to Go is executed, once, by one gor.
ImplementsTaskPool == Abstract!Spec

\* The safety part of the same.
RefinesTaskPool == Abstract!Safety
=============================================================================
