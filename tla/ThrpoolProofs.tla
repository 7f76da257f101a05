---------------------------- MODULE ThrpoolProofs ----------------------------
(***************************************************************************)
(* Proofs about Thrpool, for any number of workers, callers and tasks.     *)
(***************************************************************************)
EXTENDS Thrpool, FiniteSetTheorems, SequenceTheorems, TLAPS

Leaving == {"cleanup", "sigexit", "exited"}
InDestroy == {"d_clear", "d_free", "d_flag", "d_loop", "d_wait"}

\* Who holds task_m, and that the list is empty meanwhile.
MutexControl ==
    /\ \A w \in Workers : pc[w] = "sleep" <=> task_m = w
    /\ task_m # Null => front = Null

\* When a thread has a node in its hands.
NodeControl ==
    /\ \A x \in Threads : arg[x] # Null <=> pc[x] = "enq"
    /\ \A w \in Workers : /\ pc[w] = "run" => cur[w] # Null
                          /\ cur[w] # Null => pc[w] \in {"run", "enq", "enqsig"}

\* The life of the pool follows its owner.
PoolControl ==
    /\ pool = "none" <=> pc[Owner] \in {"create", "count"}
    /\ pool = "live" <=> pc[Owner] \in CallerPCs
    /\ pool = "closing" <=> pc[Owner] \in InDestroy
    /\ pool = "freed" <=> pc[Owner] = "done"
    /\ pool # "live" => \A c \in Callers \ {Owner} : pc[c] = "idle"
    /\ pool = "live" => \A w \in Workers : pc[w] # "none"

\* When destroy is set, and what only happens then.
DestroyControl ==
    /\ destroy <=> pc[Owner] \in {"d_loop", "d_wait", "done"}
    /\ \A w \in Workers : pc[w] \in Leaving => destroy
    /\ doomed # <<>> => pc[Owner] = "d_free"

\* How the program counters of the threads, the mutex and the flags go together.
Control == MutexControl /\ NodeControl /\ PoolControl /\ DestroyControl

\* A node that is about to be queued ends the list it will be linked into.
PassedUnlinked == \A x \in Threads : arg[x] # Null => next[arg[x]] = Null

\* Nothing was allocated before thrpool_create returned, or when it failed.
NoTaskYet ==
    pool = "none" \/ (\E w \in Workers : pc[w] = "none")
        => \A t \in Tasks : mem[t] = "free"

\* The last worker to leave found the list empty and nobody can add to it.
Drained ==
    Workers # {} /\ (\A w \in Workers : pc[w] \in Leaving \cup {"none"})
        => fifo = <<>>

IInv == /\ TypeOK
        /\ Control
        /\ ListOK
        /\ TaskOwned
        /\ PassedUnlinked
        /\ RunningExact
        /\ NoTaskYet
        /\ Drained
        /\ NoLostTask
        /\ WaiterSeen
        /\ pool = "freed" => running = 0

\* Each kind of thread stays inside its own code.
PcOK == /\ \A w \in Workers : pc[w] \in WorkerPCs
        /\ \A c \in Callers : pc[c] \in (IF c = Owner THEN OwnerPCs ELSE CallerPCs)
-----------------------------------------------------------------------------
(* Facts used in several places *)

\* A signal on task_c moves the sender and at most one sleeping worker.
LEMMA SignalEffect ==
    ASSUME TypeOK, NEW x \in Threads, NEW p, pc[x] # "wait_c", SignalTask(x, p)
    PROVE  /\ pc' = [y \in Threads |-> pc'[y]]
           /\ pc'[x] = p
           /\ \A y \in Threads \ {x} :
                 \/ pc'[y] = pc[y]
                 \/ y \in Workers /\ pc[y] = "wait_c" /\ pc'[y] = "top"
           /\ (\E w \in Workers : pc[w] = "wait_c")
                 => \E w \in Workers : pc'[w] = "top"
<1>1. CASE \E w \in Workers : pc[w] = "wait_c"
  <2>1. PICK w \in Workers : /\ pc[w] = "wait_c"
                             /\ pc' = [pc EXCEPT ![w] = "top", ![x] = p]
    BY <1>1 DEF SignalTask
  <2>. QED BY <2>1 DEF TypeOK, Threads
<1>2. CASE ~ \E w \in Workers : pc[w] = "wait_c"
  BY <1>2 DEF SignalTask, TypeOK, Threads
<1>. QED BY <1>1, <1>2

\* A counted worker keeps running_workers positive once the pool was created.
LEMMA CountedPositive ==
    ASSUME TypeOK, RunningExact, pc[Owner] # "count",
           NEW w \in Workers, w \in Counted
    PROVE  running > 0
<1>1. IsFiniteSet(Counted)
  BY ThreadsAssumption, FS_Subset DEF Counted
<1>2. Cardinality(Counted) \in Nat /\ Cardinality(Counted) # 0
  BY <1>1, FS_CardinalityType, FS_EmptySet
<1>. QED BY <1>2 DEF RunningExact, TypeOK

LEMMA EnqSignalEffect ==
    ASSUME TypeOK, NEW x \in Threads, EnqSignal(x)
    PROVE  /\ x \in Callers => pc'[x] = "idle"
           /\ x \in Workers => pc'[x] = IF cur[x] = Null THEN "top" ELSE "run"
           /\ \A y \in Threads \ {x} :
                 pc'[y] = pc[y] \/ (y \in Workers /\ pc[y] = "wait_c" /\ pc'[y] = "top")
           /\ (\E w \in Workers : pc[w] = "wait_c") => \E w \in Workers : pc'[w] = "top"
<1>1. pc[x] # "wait_c" /\ SignalTask(x, AfterEnq(x))
  BY DEF EnqSignal
<1>2. x \in Workers => x \notin Callers
  BY ThreadsAssumption
<1>3. pc'[x] = AfterEnq(x)
  BY <1>1, SignalEffect
<1>. QED BY <1>1, <1>2, <1>3, SignalEffect DEF AfterEnq

LEMMA DestroyWaitEffect ==
    ASSUME TypeOK, DestroyWait
    PROVE  /\ pc'[Owner] = "d_wait"
           /\ \A y \in Threads \ {Owner} :
                 pc'[y] = pc[y] \/ (y \in Workers /\ pc[y] = "wait_c" /\ pc'[y] = "top")
           /\ (\E w \in Workers : pc[w] = "wait_c") => \E w \in Workers : pc'[w] = "top"
<1>1. Owner \in Threads /\ pc[Owner] # "wait_c" /\ SignalTask(Owner, "d_wait")
  BY ThreadsAssumption DEF DestroyWait, Threads
<1>. QED BY <1>1, SignalEffect

LEMMA DestroyFlagEffect ==
    ASSUME DestroyFlag
    PROVE  /\ pc[Owner] \in {"d_flag", "d_free"}
           /\ pc' = [pc EXCEPT ![Owner] = "d_loop"]
           /\ destroy' = TRUE
           /\ UNCHANGED <<pool, running, wait0, list, nodes, others>>
BY DEF DestroyFlag, Step

-----------------------------------------------------------------------------
LEMMA TypeStep ==
    ASSUME IInv, [Next]_vars
    PROVE  TypeOK'
<1>0. TypeOK /\ Control /\ ListOK /\ RunningExact
  BY DEF IInv
<1>1. ASSUME NEW w \in Workers, SpawnWorker(w) PROVE TypeOK'
  BY <1>0, <1>1, ThreadsAssumption, NullAssumption DEF TypeOK, flags, list, nodes, others,
     bounds, Threads, WorkerPCs, CallerPCs, OwnerPCs, SpawnWorker, Step
<1>2. ASSUME NEW w \in Workers, WorkerTake(w) PROVE TypeOK'
  <2>1. fifo # <<>>
    BY <1>0, <1>2 DEF TypeOK, flags, list, nodes, others, bounds, Threads, WorkerPCs,
     CallerPCs, OwnerPCs, ListOK, Chained, WorkerTake
  <2>. QED BY <1>0, <2>1, <1>2, NullAssumption, ThreadsAssumption DEF TypeOK, flags, list,
     nodes, others, bounds, Threads, WorkerPCs, CallerPCs, OwnerPCs, WorkerTake, Step
<1>3. ASSUME NEW w \in Workers, WorkerEmpty(w) PROVE TypeOK'
  BY <1>0, <1>3, ThreadsAssumption, NullAssumption DEF TypeOK, flags, list, nodes, others,
     bounds, Threads, WorkerPCs, CallerPCs, OwnerPCs, WorkerEmpty, Woken0
<1>4. ASSUME NEW w \in Workers, WorkerSleep(w) PROVE TypeOK'
  BY <1>0, <1>4, ThreadsAssumption, NullAssumption DEF TypeOK, flags, list, nodes, others,
     bounds, Threads, WorkerPCs, CallerPCs, OwnerPCs, WorkerSleep, Step
<1>5. ASSUME NEW w \in Workers, TaskAgain(w) PROVE TypeOK'
  BY <1>0, <1>5, ThreadsAssumption, NullAssumption DEF TypeOK, flags, list, nodes, others,
     bounds, Threads, WorkerPCs, CallerPCs, OwnerPCs, TaskAgain, Unlinked, Step
<1>6. ASSUME NEW w \in Workers, TaskEnd(w) PROVE TypeOK'
  BY <1>0, <1>6, ThreadsAssumption, NullAssumption DEF TypeOK, flags, list, nodes, others,
     bounds, Threads, WorkerPCs, CallerPCs, OwnerPCs, TaskEnd, Step
<1>7. ASSUME NEW w \in Workers, Cleanup(w) PROVE TypeOK'
  <2>1. running > 0
    BY <1>0, <1>7, CountedPositive DEF TypeOK, Cleanup, Step, Control, DestroyControl,
     Counted, Leaving
  <2>. QED BY <1>0, <2>1, <1>7, ThreadsAssumption DEF TypeOK, flags, list, nodes, others,
     bounds, Threads, WorkerPCs, CallerPCs, OwnerPCs, Cleanup, Step
<1>8. ASSUME NEW w \in Workers, CleanupSignal(w) PROVE TypeOK'
  BY <1>0, <1>8, ThreadsAssumption, NullAssumption DEF TypeOK, flags, list, nodes, others,
     bounds, Threads, WorkerPCs, CallerPCs, OwnerPCs, CleanupSignal, Step
<1>9. ASSUME NEW x \in Threads, TaskEnq(x) PROVE TypeOK'
  <2>1. arg[x] \in Tasks
    BY <1>0, <1>9 DEF TypeOK, flags, list, nodes, others, bounds, Threads, WorkerPCs,
     CallerPCs, OwnerPCs, Control, NodeControl, TaskEnq, Step
  <2>2. pc' \in [Threads -> WorkerPCs \cup OwnerPCs] /\ PcOK'
    BY <1>0, <1>9, ThreadsAssumption DEF TypeOK, flags, list, nodes, others, bounds, Threads,
     WorkerPCs, CallerPCs, OwnerPCs, TaskEnq, Step, PcOK
  <2>3. fifo' \in Seq(Tasks)
    BY <1>0, <2>1, <1>9 DEF TypeOK, flags, list, nodes, others, bounds, Threads, WorkerPCs,
     CallerPCs, OwnerPCs, TaskEnq
  <2>4. /\ next' \in [Tasks -> Tasks \cup {Null}]
        /\ arg' \in [Threads -> Tasks \cup {Null}]
    BY <1>0, <2>1, <1>9 DEF TypeOK, flags, list, nodes, others, bounds, Threads, WorkerPCs,
     CallerPCs, OwnerPCs, TaskEnq
  <2>. QED BY <1>0, <2>1, <2>2, <2>3, <2>4, <1>9 DEF TypeOK, flags, list, nodes, others,
     bounds, Threads, WorkerPCs, CallerPCs, OwnerPCs, TaskEnq, PcOK
<1>10. ASSUME NEW x \in Threads, EnqSignal(x) PROVE TypeOK'
  <2>1. pc[x] # "wait_c" /\ SignalTask(x, AfterEnq(x))
    BY <1>10 DEF EnqSignal
  <2>2. /\ pc' = [y \in Threads |-> pc'[y]]
        /\ pc'[x] = AfterEnq(x)
        /\ \A y \in Threads \ {x} : pc'[y] = pc[y] \/ (y \in Workers /\ pc'[y] = "top")
    BY <1>0, <2>1, SignalEffect
  <2>3. /\ x \in Callers => pc'[x] = "idle"
        /\ x \in Workers => pc'[x] \in {"top", "run"}
    BY <2>2, ThreadsAssumption DEF AfterEnq
  <2>4. \A w \in Workers : pc'[w] \in WorkerPCs
    BY <1>0, <2>2, <2>3 DEF TypeOK, Threads, WorkerPCs
  <2>5. \A c \in Callers : pc'[c] \in (IF c = Owner THEN OwnerPCs ELSE CallerPCs)
    BY <1>0, <2>2, <2>3, ThreadsAssumption DEF TypeOK, Threads, CallerPCs, OwnerPCs
  <2>6. pc' \in [Threads -> WorkerPCs \cup OwnerPCs]
    BY <2>2, <2>4, <2>5 DEF Threads, OwnerPCs
  <2>. QED BY <1>0, <2>4, <2>5, <2>6, <1>10
     DEF TypeOK, flags, list, nodes, others, bounds, EnqSignal
<1>11. ASSUME NEW x \in Threads, SpuriousWakeup(x) PROVE TypeOK'
  <2>1. pc' \in [Threads -> WorkerPCs \cup OwnerPCs] /\ PcOK'
    BY <1>0, <1>11, ThreadsAssumption DEF TypeOK, flags, list, nodes, others, bounds,
     Threads, WorkerPCs, CallerPCs, OwnerPCs, SpuriousWakeup, AfterWait, PcOK
  <2>. QED BY <1>0, <2>1, <1>11 DEF TypeOK, flags, list, nodes, others, bounds, Threads,
     WorkerPCs, CallerPCs, OwnerPCs, SpuriousWakeup, PcOK
<1>12. ASSUME NEW w \in Workers, NEW t \in Tasks, TaskAdds(w, t) PROVE TypeOK'
  BY <1>0, <1>12, ThreadsAssumption, NullAssumption DEF TypeOK, flags, list, nodes, others,
     bounds, Threads, WorkerPCs, CallerPCs, OwnerPCs, TaskAdds, NewTask, Step
<1>13. ASSUME NEW c \in Callers, NEW t \in Tasks, AddTask(c, t) PROVE TypeOK'
  BY <1>0, <1>13, ThreadsAssumption, NullAssumption DEF TypeOK, flags, list, nodes, others,
     bounds, Threads, WorkerPCs, CallerPCs, OwnerPCs, AddTask, NewTask, Step
<1>14. ASSUME NEW c \in Callers, WaitSleep(c) PROVE TypeOK'
  BY <1>0, <1>14, ThreadsAssumption, NullAssumption DEF TypeOK, flags, list, nodes, others,
     bounds, Threads, WorkerPCs, CallerPCs, OwnerPCs, WaitSleep, Step
<1>15. ASSUME NEW c \in Callers, WaitReturn(c) PROVE TypeOK'
  BY <1>0, <1>15, ThreadsAssumption, NullAssumption DEF TypeOK, flags, list, nodes, others,
     bounds, Threads, WorkerPCs, CallerPCs, OwnerPCs, WaitReturn, Step
<1>16. ASSUME NEW wait \in BOOLEAN, Destroy(wait) PROVE TypeOK'
  BY <1>0, <1>16, ThreadsAssumption, NullAssumption DEF TypeOK, flags, list, nodes, others,
     bounds, Threads, WorkerPCs, CallerPCs, OwnerPCs, Destroy, Step
<1>17. CASE CountWorker
  BY <1>0, <1>17, ThreadsAssumption, NullAssumption DEF TypeOK, flags, list, nodes, others,
     bounds, Threads, WorkerPCs, CallerPCs, OwnerPCs, CountWorker, Step
<1>18. CASE SpawnFails
  BY <1>0, <1>18, ThreadsAssumption, NullAssumption DEF TypeOK, flags, list, nodes, others,
     bounds, Threads, WorkerPCs, CallerPCs, OwnerPCs, SpawnFails, Step
<1>19. CASE Created
  BY <1>0, <1>19, ThreadsAssumption, NullAssumption DEF TypeOK, flags, list, nodes, others,
     bounds, Threads, WorkerPCs, CallerPCs, OwnerPCs, Created, Step
<1>20. CASE DestroyClear
  BY <1>0, <1>20, ThreadsAssumption, NullAssumption DEF TypeOK, flags, list, nodes, others,
     bounds, Threads, WorkerPCs, CallerPCs, OwnerPCs, DestroyClear, Step
<1>21. CASE DestroyFree
  <2>1. doomed # <<>>
    BY <1>0, <1>21 DEF TypeOK, flags, list, nodes, others, bounds, Threads, WorkerPCs,
     CallerPCs, OwnerPCs, ListOK, Chained, DestroyFree
  <2>. QED BY <1>0, <2>1, <1>21, ThreadsAssumption DEF TypeOK, flags, list, nodes, others,
     bounds, Threads, WorkerPCs, CallerPCs, OwnerPCs, DestroyFree, Freed
<1>22. CASE DestroyFlag
  <2>1. PcOK' /\ pc' \in [Threads -> WorkerPCs \cup OwnerPCs]
    BY <1>0, <1>22, DestroyFlagEffect, ThreadsAssumption
    DEF TypeOK, PcOK, Threads, WorkerPCs, CallerPCs, OwnerPCs
  <2>. QED BY <1>0, <1>22, <2>1, DestroyFlagEffect
     DEF TypeOK, PcOK, list, nodes, others, bounds
<1>23. CASE DestroyWait
  <2>1. pc[Owner] # "wait_c" /\ SignalTask(Owner, "d_wait") /\ Owner \in Threads
    BY <1>23, ThreadsAssumption DEF DestroyWait, Threads
  <2>2. /\ pc' = [y \in Threads |-> pc'[y]]
        /\ pc'[Owner] = "d_wait"
        /\ \A y \in Threads \ {Owner} : pc'[y] = pc[y] \/ (y \in Workers /\ pc'[y] = "top")
    BY <1>0, <2>1, SignalEffect
  <2>3. \A w \in Workers : pc'[w] \in WorkerPCs
    BY <1>0, <2>2, ThreadsAssumption DEF TypeOK, Threads, WorkerPCs
  <2>4. \A c \in Callers : pc'[c] \in (IF c = Owner THEN OwnerPCs ELSE CallerPCs)
    BY <1>0, <2>2, ThreadsAssumption DEF TypeOK, Threads, CallerPCs, OwnerPCs
  <2>5. pc' \in [Threads -> WorkerPCs \cup OwnerPCs]
    BY <2>2, <2>3, <2>4 DEF Threads, OwnerPCs
  <2>. QED BY <1>0, <2>3, <2>4, <2>5, <1>23
     DEF TypeOK, flags, list, nodes, others, bounds, DestroyWait
<1>24. CASE DestroyEnd
  BY <1>0, <1>24, ThreadsAssumption, NullAssumption DEF TypeOK, flags, list, nodes, others,
     bounds, Threads, WorkerPCs, CallerPCs, OwnerPCs, DestroyEnd, Step
<1>25. CASE UNCHANGED vars
  BY <1>0, <1>25, ThreadsAssumption, NullAssumption DEF TypeOK, flags, list, nodes, others,
     bounds, Threads, WorkerPCs, CallerPCs, OwnerPCs, vars
<1>. QED BY <1>1, <1>2, <1>3, <1>4, <1>5, <1>6, <1>7, <1>8, <1>9, <1>10, <1>11, <1>12, <1>13,
     <1>14, <1>15, <1>16, <1>17, <1>18, <1>19, <1>20, <1>21, <1>22, <1>23, <1>24, <1>25
     DEF Next, WorkerStep, CallStep, OwnerStep

LEMMA ControlStep ==
    ASSUME IInv, [Next]_vars
    PROVE  Control'
<1>0. TypeOK /\ Control /\ ListOK /\ TaskOwned /\ TypeOK'
  BY TypeStep DEF IInv
<1>1. ASSUME NEW w \in Workers, SpawnWorker(w) PROVE Control'
  BY <1>0, <1>1, ThreadsAssumption, NullAssumption
  DEF TypeOK, flags, list, nodes, others, bounds, Threads, CallerPCs, Control, MutexControl,
     NodeControl, PoolControl, DestroyControl, Leaving, InDestroy, SpawnWorker, Step
<1>2. ASSUME NEW w \in Workers, WorkerTake(w) PROVE Control'
  <2>1. MutexControl'
    BY <1>0, <1>2, NullAssumption DEF TypeOK, Threads, Control, MutexControl, WorkerTake, Step
  <2>2. NodeControl'
    BY <1>0, <1>2 DEF TypeOK, Threads, Control, NodeControl, WorkerTake, Step
  <2>3. PoolControl' /\ DestroyControl'
    BY <1>0, <1>2, ThreadsAssumption DEF TypeOK, flags, Threads, CallerPCs, Control,
       PoolControl, DestroyControl, Leaving, InDestroy, WorkerTake, Step
  <2>. QED BY <2>1, <2>2, <2>3 DEF Control
<1>3. ASSUME NEW w \in Workers, WorkerEmpty(w) PROVE Control'
  BY <1>0, <1>3, ThreadsAssumption, NullAssumption
  DEF TypeOK, flags, list, nodes, others, bounds, Threads, CallerPCs, Control, MutexControl,
     NodeControl, PoolControl, DestroyControl, Leaving, InDestroy, WorkerEmpty, Woken0
<1>4. ASSUME NEW w \in Workers, WorkerSleep(w) PROVE Control'
  BY <1>0, <1>4, ThreadsAssumption, NullAssumption
  DEF TypeOK, flags, list, nodes, others, bounds, Threads, CallerPCs, Control, MutexControl,
     NodeControl, PoolControl, DestroyControl, Leaving, InDestroy, WorkerSleep, Step
<1>5. ASSUME NEW w \in Workers, TaskAgain(w) PROVE Control'
  BY <1>0, <1>5, ThreadsAssumption, NullAssumption
  DEF TypeOK, flags, list, nodes, others, bounds, Threads, CallerPCs, Control, MutexControl,
     NodeControl, PoolControl, DestroyControl, Leaving, InDestroy, TaskAgain, Unlinked, Step
<1>6. ASSUME NEW w \in Workers, TaskEnd(w) PROVE Control'
  BY <1>0, <1>6, ThreadsAssumption, NullAssumption
  DEF TypeOK, flags, list, nodes, others, bounds, Threads, CallerPCs, Control, MutexControl,
     NodeControl, PoolControl, DestroyControl, Leaving, InDestroy, TaskEnd, Step
<1>7. ASSUME NEW w \in Workers, Cleanup(w) PROVE Control'
  BY <1>0, <1>7, ThreadsAssumption, NullAssumption
  DEF TypeOK, flags, list, nodes, others, bounds, Threads, CallerPCs, Control, MutexControl,
     NodeControl, PoolControl, DestroyControl, Leaving, InDestroy, Cleanup, Step
<1>8. ASSUME NEW w \in Workers, CleanupSignal(w) PROVE Control'
  BY <1>0, <1>8, ThreadsAssumption, NullAssumption
  DEF TypeOK, flags, list, nodes, others, bounds, Threads, CallerPCs, Control, MutexControl,
     NodeControl, PoolControl, DestroyControl, Leaving, InDestroy, CleanupSignal, Step
<1>9. ASSUME NEW x \in Threads, TaskEnq(x) PROVE Control'
  BY <1>0, <1>9, ThreadsAssumption, NullAssumption
  DEF TypeOK, flags, list, nodes, others, bounds, Threads, CallerPCs, Control, MutexControl,
     NodeControl, PoolControl, DestroyControl, Leaving, InDestroy, TaskEnq, Step
<1>10. ASSUME NEW x \in Threads, EnqSignal(x) PROVE Control'
  <2>1. /\ x \in Callers => pc'[x] = "idle"
        /\ x \in Workers => pc'[x] = IF cur[x] = Null THEN "top" ELSE "run"
        /\ \A y \in Threads \ {x} :
              pc'[y] = pc[y] \/ (y \in Workers /\ pc[y] = "wait_c" /\ pc'[y] = "top")
    BY <1>0, <1>10, EnqSignalEffect
  <2>2. \A y \in Threads : /\ pc'[y] = "enq" <=> pc[y] = "enq"
                           /\ pc'[y] = "sleep" <=> pc[y] = "sleep"
    BY <1>0, <2>1, <1>10, ThreadsAssumption DEF TypeOK, Threads, EnqSignal
  <2>3. MutexControl'
    BY <1>0, <2>2, <1>10
    DEF list, others, Threads, Control, MutexControl, EnqSignal
  <2>4. NodeControl'
    BY <1>0, <2>1, <2>2, <1>10, ThreadsAssumption
    DEF TypeOK, nodes, Threads, Control, NodeControl, EnqSignal
  <2>5. PoolControl'
    <3>1. pc'[Owner] = pc[Owner] \/ (Owner = x /\ pc[x] = "enqsig" /\ pc'[x] = "idle")
      BY <2>1, <1>10, ThreadsAssumption DEF Threads, EnqSignal
    <3>2. \A c \in Callers : pc[c] = "idle" => pc'[c] = "idle"
      BY <2>1, ThreadsAssumption DEF Threads
    <3>3. \A w \in Workers : pc[w] # "none" => pc'[w] # "none"
      BY <2>1, <1>10, ThreadsAssumption DEF Threads
    <3>. QED BY <1>0, <3>1, <3>2, <3>3, <1>10
       DEF flags, CallerPCs, Control, PoolControl, InDestroy, EnqSignal
  <2>6. DestroyControl'
    BY <1>0, <2>1, <1>10, ThreadsAssumption
    DEF TypeOK, flags, others, Threads, Control, DestroyControl, Leaving, EnqSignal
  <2>. QED BY <2>3, <2>4, <2>5, <2>6 DEF Control
<1>11. ASSUME NEW x \in Threads, SpuriousWakeup(x) PROVE Control'
  BY <1>0, <1>11, ThreadsAssumption, NullAssumption
  DEF TypeOK, flags, list, nodes, others, bounds, Threads, CallerPCs, Control, MutexControl,
     NodeControl, PoolControl, DestroyControl, Leaving, InDestroy, SpuriousWakeup, AfterWait
<1>12. ASSUME NEW w \in Workers, NEW t \in Tasks, TaskAdds(w, t) PROVE Control'
  BY <1>0, <1>12, ThreadsAssumption, NullAssumption
  DEF TypeOK, flags, list, nodes, others, bounds, Threads, CallerPCs, Control, MutexControl,
     NodeControl, PoolControl, DestroyControl, Leaving, InDestroy, TaskAdds, NewTask, Step
<1>13. ASSUME NEW c \in Callers, NEW t \in Tasks, AddTask(c, t) PROVE Control'
  BY <1>0, <1>13, ThreadsAssumption, NullAssumption
  DEF TypeOK, flags, list, nodes, others, bounds, Threads, CallerPCs, Control, MutexControl,
     NodeControl, PoolControl, DestroyControl, Leaving, InDestroy, AddTask, NewTask, Step
<1>14. ASSUME NEW c \in Callers, WaitSleep(c) PROVE Control'
  BY <1>0, <1>14, ThreadsAssumption, NullAssumption
  DEF TypeOK, flags, list, nodes, others, bounds, Threads, CallerPCs, Control, MutexControl,
     NodeControl, PoolControl, DestroyControl, Leaving, InDestroy, WaitSleep, Step
<1>15. ASSUME NEW c \in Callers, WaitReturn(c) PROVE Control'
  BY <1>0, <1>15, ThreadsAssumption, NullAssumption
  DEF TypeOK, flags, list, nodes, others, bounds, Threads, CallerPCs, Control, MutexControl,
     NodeControl, PoolControl, DestroyControl, Leaving, InDestroy, WaitReturn, Step
<1>16. ASSUME NEW wait \in BOOLEAN, Destroy(wait) PROVE Control'
  BY <1>0, <1>16, ThreadsAssumption, NullAssumption
  DEF TypeOK, flags, list, nodes, others, bounds, Threads, CallerPCs, Control, MutexControl,
     NodeControl, PoolControl, DestroyControl, Leaving, InDestroy, Destroy, Step
<1>17. CASE CountWorker
  BY <1>0, <1>17, ThreadsAssumption, NullAssumption
  DEF TypeOK, flags, list, nodes, others, bounds, Threads, CallerPCs, Control, MutexControl,
     NodeControl, PoolControl, DestroyControl, Leaving, InDestroy, CountWorker, Step
<1>18. CASE SpawnFails
  BY <1>0, <1>18, ThreadsAssumption, NullAssumption
  DEF TypeOK, flags, list, nodes, others, bounds, Threads, CallerPCs, Control, MutexControl,
     NodeControl, PoolControl, DestroyControl, Leaving, InDestroy, SpawnFails, Step
<1>19. CASE Created
  BY <1>0, <1>19, ThreadsAssumption, NullAssumption
  DEF TypeOK, flags, list, nodes, others, bounds, Threads, CallerPCs, Control, MutexControl,
     NodeControl, PoolControl, DestroyControl, Leaving, InDestroy, Created, Step
<1>20. CASE DestroyClear
  BY <1>0, <1>20, ThreadsAssumption, NullAssumption
  DEF TypeOK, flags, list, nodes, others, bounds, Threads, CallerPCs, Control, MutexControl,
     NodeControl, PoolControl, DestroyControl, Leaving, InDestroy, DestroyClear, Step
<1>21. CASE DestroyFree
  BY <1>0, <1>21, ThreadsAssumption, NullAssumption
  DEF TypeOK, flags, list, nodes, others, bounds, Threads, CallerPCs, Control, MutexControl,
     NodeControl, PoolControl, DestroyControl, Leaving, InDestroy, DestroyFree, Freed
<1>22. CASE DestroyFlag
  <2>1. victim = Null => doomed = <<>>
    BY <1>0, NullAssumption DEF ListOK, Chained, TypeOK
  <2>2. \A y \in Threads : /\ pc'[y] = "enq" <=> pc[y] = "enq"
                           /\ pc'[y] = "sleep" <=> pc[y] = "sleep"
    BY <1>0, <2>1, <1>22, ThreadsAssumption DEF TypeOK, Threads, DestroyFlag, Step
  <2>3. MutexControl'
    BY <1>0, <2>2, <1>22
    DEF list, others, Threads, Control, MutexControl, DestroyFlag, Step
  <2>4. NodeControl'
    BY <1>0, <2>1, <2>2, <1>22, ThreadsAssumption
    DEF TypeOK, nodes, Threads, Control, NodeControl, DestroyFlag, Step
  <2>5. PoolControl'
    BY <1>0, <2>1, <1>22, ThreadsAssumption
    DEF TypeOK, flags, Threads, CallerPCs, Control, PoolControl, InDestroy, DestroyFlag, Step
  <2>6. DestroyControl'
    BY <1>0, <2>1, <1>22, ThreadsAssumption
    DEF TypeOK, flags, others, Threads, Control, DestroyControl, Leaving, DestroyFlag, Step
  <2>. QED BY <2>3, <2>4, <2>5, <2>6 DEF Control
<1>23. CASE DestroyWait
  <2>1. /\ pc'[Owner] = "d_wait"
        /\ \A y \in Threads \ {Owner} :
              pc'[y] = pc[y] \/ (y \in Workers /\ pc[y] = "wait_c" /\ pc'[y] = "top")
    BY <1>0, <1>23, DestroyWaitEffect
  <2>2. \A y \in Threads : /\ pc'[y] = "enq" <=> pc[y] = "enq"
                           /\ pc'[y] = "sleep" <=> pc[y] = "sleep"
    BY <1>0, <2>1, <1>23, ThreadsAssumption DEF TypeOK, Threads, DestroyWait
  <2>3. MutexControl'
    BY <1>0, <2>2, <1>23
    DEF list, others, Threads, Control, MutexControl, DestroyWait
  <2>4. NodeControl'
    BY <1>0, <2>1, <2>2, <1>23, ThreadsAssumption
    DEF TypeOK, nodes, Threads, Control, NodeControl, DestroyWait
  <2>5. PoolControl'
    BY <1>0, <2>1, <1>23, ThreadsAssumption
    DEF TypeOK, flags, Threads, CallerPCs, Control, PoolControl, InDestroy, DestroyWait
  <2>6. DestroyControl'
    BY <1>0, <2>1, <1>23, ThreadsAssumption
    DEF TypeOK, flags, others, Threads, Control, DestroyControl, Leaving, DestroyWait
  <2>. QED BY <2>3, <2>4, <2>5, <2>6 DEF Control
<1>24. CASE DestroyEnd
  BY <1>0, <1>24, ThreadsAssumption, NullAssumption
  DEF TypeOK, flags, list, nodes, others, bounds, Threads, CallerPCs, Control, MutexControl,
     NodeControl, PoolControl, DestroyControl, Leaving, InDestroy, DestroyEnd, Step
<1>25. CASE UNCHANGED vars
  BY <1>0, <1>25, ThreadsAssumption, NullAssumption
  DEF TypeOK, flags, list, nodes, others, bounds, Threads, CallerPCs, Control, MutexControl,
     NodeControl, PoolControl, DestroyControl, Leaving, InDestroy, vars
<1>. QED BY <1>1, <1>2, <1>3, <1>4, <1>5, <1>6, <1>7, <1>8, <1>9, <1>10, <1>11, <1>12, <1>13,
     <1>14, <1>15, <1>16, <1>17, <1>18, <1>19, <1>20, <1>21, <1>22, <1>23, <1>24, <1>25
     DEF Next, WorkerStep, CallStep, OwnerStep

-----------------------------------------------------------------------------
(* The list and the nodes *)

\* The invariants about nodes, and the variables they are about.
Held == ListOK /\ TaskOwned /\ PassedUnlinked
heldVars == <<list, nodes, victim, doomed>>

LEMMA HeldUnchanged ==
    ASSUME Held, UNCHANGED heldVars
    PROVE  Held'
<1>1. ListOK' /\ PassedUnlinked'
  BY DEF Held, heldVars, list, nodes, ListOK, Chained, PassedUnlinked
<1>2. TaskOwned'
  BY DEF Held, heldVars, list, nodes, TaskOwned, Queued, Doomed, Executed, Passed
<1>. QED BY <1>1, <1>2 DEF Held

LEMMA NewTaskHeld ==
    ASSUME TypeOK, NodeControl, Held,
           NEW x \in Threads, NEW p, p # "enq", NEW t \in Tasks, NewTask(x, p, t)
    PROVE  Held'
<1>1. ~Queued(t) /\ ~Doomed(t) /\ ~Executed(t) /\ ~Passed(t)
  BY DEF Held, TaskOwned, NewTask
<1>2. /\ UNCHANGED <<front, rear, fifo, victim, doomed, cur>>
      /\ next' = [next EXCEPT ![t] = Null]
      /\ mem' = [mem EXCEPT ![t] = "live"]
      /\ arg' = [arg EXCEPT ![x] = t]
      /\ arg[x] = Null
  BY DEF NewTask, others, Step, NodeControl
<1>3. ListOK' /\ PassedUnlinked'
  BY <1>1, <1>2 DEF Held, ListOK, Chained, PassedUnlinked, TypeOK, Queued, Doomed
<1>4. \A u \in Tasks : /\ Queued(u)' <=> Queued(u)
                       /\ Doomed(u)' <=> Doomed(u)
                       /\ Executed(u)' <=> Executed(u)
                       /\ Passed(u)' <=> Passed(u) \/ u = t
  BY <1>1, <1>2, NullAssumption DEF TypeOK, Queued, Doomed, Executed, Passed
<1>5. TaskOwned'
  BY <1>1, <1>2, <1>4, NullAssumption DEF Held, TaskOwned, TypeOK, Passed
<1>. QED BY <1>3, <1>5 DEF Held

LEMMA TaskEnqHeld ==
    ASSUME TypeOK, NodeControl, Held, NEW x \in Threads, TaskEnq(x)
    PROVE  Held'
<1>. DEFINE t == arg[x]
            n == Len(fifo)
<1>1. t \in Tasks /\ next[t] = Null
  BY DEF Held, NodeControl, TaskEnq, Step, TypeOK, PassedUnlinked
<1>2. Passed(t) /\ mem[t] = "live" /\ ~Queued(t) /\ ~Doomed(t) /\ ~Executed(t)
  BY <1>1 DEF Held, TaskOwned, Passed
<1>3. /\ UNCHANGED <<victim, doomed, cur, mem>>
      /\ front' = IF front = Null THEN t ELSE front
      /\ next' = IF front = Null THEN next ELSE [next EXCEPT ![rear] = t]
      /\ rear' = t
      /\ fifo' = Append(fifo, t)
      /\ arg' = [arg EXCEPT ![x] = Null]
  BY DEF TaskEnq, others
<1>4. fifo \in Seq(Tasks) /\ n \in Nat
  BY DEF TypeOK
<1>5. /\ fifo' # <<>>
      /\ Len(fifo') = n + 1
      /\ \A i \in 1 .. n : fifo'[i] = fifo[i]
      /\ fifo'[n + 1] = t
  BY <1>1, <1>3, <1>4
<1>. HIDE DEF t
<1>6. /\ front = Null <=> fifo = <<>>
      /\ front = Null <=> n = 0
      /\ front # Null => rear = fifo[n] /\ rear \in Tasks /\ Queued(rear)
  BY <1>4, NullAssumption DEF Held, ListOK, Chained, TypeOK, Queued
<1>7. Chained(front, fifo)'
  <2>1. CASE front = Null
    BY <1>1, <1>3, <1>4, <1>5, <1>6, <2>1 DEF Chained
  <2>2. CASE front # Null
    <3>1. front' = fifo'[1] /\ n \in 1 .. n
      BY <1>3, <1>4, <1>5, <1>6, <2>2 DEF Held, ListOK, Chained
    <3>2. \A i \in 1 .. n - 1 : next'[fifo'[i]] = fifo'[i + 1]
      <4>. SUFFICES ASSUME NEW i \in 1 .. n - 1
                    PROVE  next'[fifo'[i]] = fifo'[i + 1]
        OBVIOUS
      <4>1. i \in 1 .. n /\ n \in 1 .. n /\ i + 1 \in 1 .. n /\ i # n
        BY <1>4
      <4>2. fifo[i] # rear /\ fifo[i] \in Tasks
        BY <1>4, <1>6, <2>2, <4>1 DEF Held, TaskOwned
      <4>3. next[fifo[i]] = fifo[i + 1]
        BY <4>1 DEF Held, ListOK, Chained
      <4>. QED BY <1>3, <1>5, <2>2, <4>1, <4>2, <4>3 DEF TypeOK
    <3>3. next'[fifo'[n]] = fifo'[n + 1]
      BY <1>3, <1>5, <1>6, <2>2, <3>1 DEF TypeOK
    <3>4. next'[fifo'[n + 1]] = Null
      BY <1>1, <1>2, <1>3, <1>5, <1>6, <2>2 DEF TypeOK
    <3>. QED BY <1>4, <1>5, <3>1, <3>2, <3>3, <3>4 DEF Chained
  <2>. QED BY <2>1, <2>2
<1>8. Chained(victim, doomed)'
  BY <1>3, <1>6 DEF Held, ListOK, Chained, TaskOwned, TypeOK, Doomed
<1>9. ListOK'
  BY <1>3, <1>5, <1>7, <1>8 DEF ListOK
<1>10. PassedUnlinked'
  BY <1>3, <1>6, NullAssumption DEF Held, PassedUnlinked, TaskOwned, TypeOK, Passed
<1>11. \A u \in Tasks : /\ Queued(u)' <=> Queued(u) \/ u = t
                        /\ Doomed(u)' <=> Doomed(u)
                        /\ Executed(u)' <=> Executed(u)
                        /\ Passed(u)' <=> Passed(u) /\ u # t
  <2>1. \A u \in Tasks : Queued(u)' <=> Queued(u) \/ u = t
    BY <1>4, <1>5 DEF Queued
  <2>2. \A u \in Tasks : Passed(u)' <=> Passed(u) /\ u # t
    BY <1>1, <1>3, NullAssumption DEF Held, TaskOwned, TypeOK, Passed, t
  <2>. QED BY <1>3, <2>1, <2>2 DEF Doomed, Executed
<1>12. \A i, j \in 1 .. Len(fifo') : fifo'[i] = fifo'[j] => i = j
  BY <1>2, <1>4, <1>5 DEF Held, TaskOwned, Queued
<1>13. TaskOwned'
  BY <1>1, <1>2, <1>3, <1>11, <1>12, NullAssumption DEF Held, TaskOwned, TypeOK
<1>. QED BY <1>9, <1>10, <1>13 DEF Held

\* What taking the first node off a chain leaves.
LEMMA ChainTail ==
    ASSUME NEW p, NEW s \in Seq(Tasks), Chained(p, s), p # Null
    PROVE  /\ s # <<>> /\ p = s[1] /\ p \in Tasks
           /\ Len(s) \in Nat /\ Len(s) >= 1
           /\ Tail(s) \in Seq(Tasks) /\ Len(Tail(s)) = Len(s) - 1
           /\ \A i \in 1 .. Len(s) - 1 : Tail(s)[i] = s[i + 1]
           /\ Chained(next[p], Tail(s))
           /\ Tail(s) # <<>> => Tail(s)[Len(Tail(s))] = s[Len(s)]
<1>1. /\ s # <<>> /\ p = s[1] /\ p \in Tasks
      /\ Len(s) \in Nat /\ Len(s) >= 1
  BY DEF Chained
<1>. DEFINE u == Tail(s)
<1>2. /\ u \in Seq(Tasks) /\ Len(u) = Len(s) - 1
      /\ \A i \in 1 .. Len(u) : u[i] = s[i + 1]
  BY <1>1, HeadTailProperties
<1>. HIDE DEF u
<1>3. u = <<>> <=> Len(s) = 1
  BY <1>1, <1>2, EmptySeq
<1>4. Chained(next[p], u)
  BY <1>1, <1>2, <1>3 DEF Chained
<1>5. u # <<>> => u[Len(u)] = s[Len(s)]
  BY <1>1, <1>2, <1>3
<1>6. \A i \in 1 .. Len(s) - 1 : u[i] = s[i + 1]
  BY <1>2
<1>. QED BY <1>1, <1>2, <1>4, <1>5, <1>6 DEF u

LEMMA WorkerTakeHeld ==
    ASSUME TypeOK, NodeControl, Held, NEW w \in Workers, WorkerTake(w)
    PROVE  Held'
<1>. DEFINE t == front
            n == Len(fifo)
<1>1. /\ UNCHANGED <<rear, next, mem, arg, victim, doomed>>
      /\ front' = next[t]
      /\ fifo' = Tail(fifo)
      /\ cur' = [cur EXCEPT ![w] = t]
      /\ cur[w] = Null
      /\ Chained(front, fifo) /\ t # Null
  BY DEF WorkerTake, Step, NodeControl, Held, ListOK
<1>2. /\ fifo # <<>> /\ t = fifo[1] /\ t \in Tasks /\ n \in Nat /\ n >= 1
      /\ fifo' \in Seq(Tasks) /\ Len(fifo') = n - 1
      /\ \A i \in 1 .. n - 1 : fifo'[i] = fifo[i + 1]
      /\ Chained(next[front], fifo')
      /\ fifo' # <<>> => fifo'[Len(fifo')] = fifo[n]
  BY <1>1, ChainTail DEF TypeOK
<1>3. Queued(t) /\ mem[t] = "live" /\ ~Doomed(t) /\ ~Executed(t) /\ ~Passed(t)
  BY <1>2 DEF Held, TaskOwned, Queued
<1>. HIDE DEF t
<1>4. ListOK' /\ PassedUnlinked'
  BY <1>1, <1>2 DEF Held, ListOK, Chained, PassedUnlinked, t
<1>5. \A u \in Tasks : Queued(u)' <=> Queued(u) /\ u # t
  <2>1. ASSUME NEW u \in Tasks, Queued(u)' PROVE Queued(u) /\ u # t
    <3>1. PICK i \in 1 .. n - 1 : fifo[i + 1] = u
      BY <1>2, <2>1 DEF Queued
    <3>2. i + 1 \in 1 .. n /\ 1 \in 1 .. n
      BY <1>2, <3>1
    <3>. QED BY <1>2, <3>1, <3>2 DEF Held, TaskOwned, Queued
  <2>2. ASSUME NEW u \in Tasks, Queued(u), u # t PROVE Queued(u)'
    <3>1. PICK i \in 1 .. n : fifo[i] = u
      BY <2>2 DEF Queued
    <3>2. i - 1 \in 1 .. n - 1 /\ (i - 1) + 1 = i
      BY <1>2, <2>2, <3>1
    <3>. QED BY <1>2, <3>1, <3>2 DEF Queued
  <2>. QED BY <2>1, <2>2
<1>6. \A u \in Tasks : /\ Doomed(u)' <=> Doomed(u)
                       /\ Executed(u)' <=> Executed(u) \/ u = t
                       /\ Passed(u)' <=> Passed(u)
  BY <1>1, NullAssumption DEF TypeOK, Doomed, Executed, Passed
<1>7. \A i, j \in 1 .. Len(fifo') : fifo'[i] = fifo'[j] => i = j
  <2>. SUFFICES ASSUME NEW i \in 1 .. n - 1, NEW j \in 1 .. n - 1, fifo'[i] = fifo'[j]
                PROVE  i = j
    BY <1>2
  <2>1. i + 1 \in 1 .. n /\ j + 1 \in 1 .. n /\ fifo[i + 1] = fifo[j + 1]
    BY <1>2
  <2>. QED BY <1>2, <2>1 DEF Held, TaskOwned
<1>8. \A v, u \in Workers : cur'[v] = cur'[u] /\ cur'[v] # Null => v = u
  BY <1>1, <1>2, <1>3 DEF Held, TaskOwned, TypeOK, Executed
<1>9. TaskOwned'
  BY <1>1, <1>3, <1>5, <1>6, <1>7, <1>8 DEF Held, TaskOwned
<1>. QED BY <1>4, <1>9 DEF Held

LEMMA TaskAgainHeld ==
    ASSUME TypeOK, NodeControl, Held, NEW w \in Workers, TaskAgain(w)
    PROVE  Held'
<1>. DEFINE t == cur[w]
<1>1. /\ UNCHANGED <<front, rear, fifo, mem, victim, doomed>>
      /\ next' = [next EXCEPT ![t] = Null]
      /\ arg' = [arg EXCEPT ![w] = t]
      /\ cur' = [cur EXCEPT ![w] = Null]
      /\ arg[w] = Null /\ w \in Threads
      /\ t \in Tasks
  BY DEF TaskAgain, Step, Unlinked, others, NodeControl, Threads, TypeOK
<1>2. Executed(t) /\ mem[t] = "live" /\ ~Queued(t) /\ ~Doomed(t) /\ ~Passed(t)
  BY <1>1 DEF Held, TaskOwned, Executed
<1>3. \A v \in Workers : cur'[v] = t <=> FALSE
  BY <1>1, NullAssumption DEF Held, TaskOwned, TypeOK
<1>. HIDE DEF t
<1>4. ListOK' /\ PassedUnlinked'
  BY <1>1, <1>2 DEF Held, ListOK, Chained, PassedUnlinked, TypeOK, Queued, Doomed
<1>5. \A u \in Tasks : /\ Queued(u)' <=> Queued(u)
                       /\ Doomed(u)' <=> Doomed(u)
                       /\ Executed(u)' <=> Executed(u) /\ u # t
                       /\ Passed(u)' <=> Passed(u) \/ u = t
  <2>1. \A u \in Tasks : Executed(u)' <=> Executed(u) /\ u # t
    BY <1>1, <1>3, NullAssumption DEF TypeOK, Executed, t
  <2>. QED BY <1>1, <2>1, NullAssumption DEF TypeOK, Queued, Doomed, Passed
<1>6. \A v, u \in Workers : cur'[v] = cur'[u] /\ cur'[v] # Null => v = u
  BY <1>1 DEF Held, TaskOwned, TypeOK
<1>7. \A x, y \in Threads : arg'[x] = arg'[y] /\ arg'[x] # Null => x = y
  BY <1>1, <1>2 DEF Held, TaskOwned, TypeOK, Passed
<1>8. TaskOwned'
  BY <1>1, <1>2, <1>5, <1>6, <1>7 DEF Held, TaskOwned
<1>. QED BY <1>4, <1>8 DEF Held

LEMMA TaskEndHeld ==
    ASSUME TypeOK, NodeControl, Held, NEW w \in Workers, TaskEnd(w)
    PROVE  Held'
<1>. DEFINE t == cur[w]
<1>1. /\ UNCHANGED <<front, rear, next, fifo, arg, victim, doomed>>
      /\ mem' = [mem EXCEPT ![t] = "done"]
      /\ cur' = [cur EXCEPT ![w] = Null]
      /\ t \in Tasks
  BY DEF TaskEnd, Step, list, others, NodeControl, TypeOK
<1>2. Executed(t) /\ ~Queued(t) /\ ~Doomed(t) /\ ~Passed(t)
  BY <1>1 DEF Held, TaskOwned, Executed
<1>3. \A v \in Workers : cur'[v] # t
  BY <1>1, NullAssumption DEF Held, TaskOwned, TypeOK
<1>. HIDE DEF t
<1>4. ListOK' /\ PassedUnlinked'
  BY <1>1 DEF Held, ListOK, Chained, PassedUnlinked
<1>5. \A u \in Tasks : /\ Queued(u)' <=> Queued(u)
                       /\ Doomed(u)' <=> Doomed(u)
                       /\ Executed(u)' <=> Executed(u) /\ u # t
                       /\ Passed(u)' <=> Passed(u)
  <2>1. \A u \in Tasks : Executed(u)' <=> Executed(u) /\ u # t
    BY <1>1, <1>3, NullAssumption DEF TypeOK, Executed, t
  <2>. QED BY <1>1, <2>1 DEF Queued, Doomed, Passed
<1>6. \A v, u \in Workers : cur'[v] = cur'[u] /\ cur'[v] # Null => v = u
  BY <1>1 DEF Held, TaskOwned, TypeOK
<1>7. TaskOwned'
  BY <1>1, <1>2, <1>5, <1>6 DEF Held, TaskOwned, TypeOK
<1>. QED BY <1>4, <1>7 DEF Held

LEMMA DestroyClearHeld ==
    ASSUME TypeOK, DestroyControl, Held, DestroyClear
    PROVE  Held'
<1>1. /\ UNCHANGED <<rear, next, mem, cur, arg>>
      /\ victim' = front /\ doomed' = fifo
      /\ front' = Null /\ fifo' = <<>>
      /\ doomed = <<>>
  BY DEF DestroyClear, Step, nodes, DestroyControl
<1>2. ListOK' /\ PassedUnlinked'
  BY <1>1 DEF Held, ListOK, Chained, PassedUnlinked
<1>3. \A u \in Tasks : /\ ~Queued(u)' /\ ~Doomed(u)
                       /\ Doomed(u)' <=> Queued(u)
                       /\ Executed(u)' <=> Executed(u)
                       /\ Passed(u)' <=> Passed(u)
  BY <1>1 DEF Queued, Doomed, Executed, Passed
<1>4. TaskOwned'
  BY <1>1, <1>3 DEF Held, TaskOwned
<1>. QED BY <1>2, <1>4 DEF Held

LEMMA DestroyFreeHeld ==
    ASSUME TypeOK, Held, DestroyFree
    PROVE  Held'
<1>. DEFINE t == victim
            n == Len(doomed)
<1>1. /\ UNCHANGED <<front, rear, next, fifo, cur, arg>>
      /\ victim' = next[t]
      /\ doomed' = Tail(doomed)
      /\ mem' = [mem EXCEPT ![t] = "dropped"]
      /\ Chained(victim, doomed) /\ t # Null
  BY DEF DestroyFree, Freed, list, Held, ListOK
<1>2. /\ t = doomed[1] /\ t \in Tasks /\ n \in Nat /\ n >= 1
      /\ doomed' \in Seq(Tasks) /\ Len(doomed') = n - 1
      /\ \A i \in 1 .. n - 1 : doomed'[i] = doomed[i + 1]
      /\ Chained(next[t], doomed')
  BY <1>1, ChainTail DEF TypeOK
<1>3. Doomed(t) /\ ~Queued(t) /\ ~Executed(t) /\ ~Passed(t)
  BY <1>2 DEF Held, TaskOwned, Doomed
<1>. HIDE DEF t
<1>4. ListOK' /\ PassedUnlinked'
  BY <1>1, <1>2 DEF Held, ListOK, Chained, PassedUnlinked
<1>5. \A u \in Tasks : Doomed(u)' <=> Doomed(u) /\ u # t
  <2>1. ASSUME NEW u \in Tasks, Doomed(u)' PROVE Doomed(u) /\ u # t
    <3>1. PICK i \in 1 .. n - 1 : doomed[i + 1] = u
      BY <1>2, <2>1 DEF Doomed
    <3>2. i + 1 \in 1 .. n /\ 1 \in 1 .. n
      BY <1>2, <3>1
    <3>. QED BY <1>2, <3>1, <3>2 DEF Held, TaskOwned, Doomed
  <2>2. ASSUME NEW u \in Tasks, Doomed(u), u # t PROVE Doomed(u)'
    <3>1. PICK i \in 1 .. n : doomed[i] = u
      BY <2>2 DEF Doomed
    <3>2. i - 1 \in 1 .. n - 1 /\ (i - 1) + 1 = i
      BY <1>2, <2>2, <3>1
    <3>. QED BY <1>2, <3>1, <3>2 DEF Doomed
  <2>. QED BY <2>1, <2>2
<1>6. \A u \in Tasks : /\ Queued(u)' <=> Queued(u)
                       /\ Executed(u)' <=> Executed(u)
                       /\ Passed(u)' <=> Passed(u)
  BY <1>1 DEF Queued, Executed, Passed
<1>7. \A i, j \in 1 .. Len(doomed') : doomed'[i] = doomed'[j] => i = j
  <2>. SUFFICES ASSUME NEW i \in 1 .. n - 1, NEW j \in 1 .. n - 1, doomed'[i] = doomed'[j]
                PROVE  i = j
    BY <1>2
  <2>1. i + 1 \in 1 .. n /\ j + 1 \in 1 .. n /\ doomed[i + 1] = doomed[j + 1]
    BY <1>2
  <2>. QED BY <1>2, <2>1 DEF Held, TaskOwned
<1>8. TaskOwned'
  BY <1>1, <1>2, <1>3, <1>5, <1>6, <1>7 DEF Held, TaskOwned, TypeOK
<1>. QED BY <1>4, <1>8 DEF Held

LEMMA HeldStep ==
    ASSUME IInv, [Next]_vars
    PROVE  Held'
<1>0. TypeOK /\ NodeControl /\ DestroyControl /\ Held
  BY DEF IInv, Control, Held
<1>1. ASSUME NEW w \in Workers, SpawnWorker(w) PROVE Held'
  BY <1>0, <1>1, HeldUnchanged DEF heldVars, list, nodes, others, SpawnWorker
<1>2. ASSUME NEW w \in Workers, WorkerTake(w) PROVE Held'
  BY <1>0, <1>2, WorkerTakeHeld
<1>3. ASSUME NEW w \in Workers, WorkerEmpty(w) PROVE Held'
  BY <1>0, <1>3, HeldUnchanged DEF heldVars, list, nodes, others, WorkerEmpty
<1>4. ASSUME NEW w \in Workers, WorkerSleep(w) PROVE Held'
  BY <1>0, <1>4, HeldUnchanged DEF heldVars, list, nodes, others, WorkerSleep
<1>5. ASSUME NEW w \in Workers, TaskAgain(w) PROVE Held'
  BY <1>0, <1>5, TaskAgainHeld
<1>6. ASSUME NEW w \in Workers, TaskEnd(w) PROVE Held'
  BY <1>0, <1>6, TaskEndHeld
<1>7. ASSUME NEW w \in Workers, Cleanup(w) PROVE Held'
  BY <1>0, <1>7, HeldUnchanged DEF heldVars, list, nodes, others, Cleanup
<1>8. ASSUME NEW w \in Workers, CleanupSignal(w) PROVE Held'
  BY <1>0, <1>8, HeldUnchanged DEF heldVars, list, nodes, others, CleanupSignal
<1>9. ASSUME NEW x \in Threads, TaskEnq(x) PROVE Held'
  BY <1>0, <1>9, TaskEnqHeld
<1>10. ASSUME NEW x \in Threads, EnqSignal(x) PROVE Held'
  BY <1>0, <1>10, HeldUnchanged DEF heldVars, list, nodes, others, EnqSignal
<1>11. ASSUME NEW x \in Threads, SpuriousWakeup(x) PROVE Held'
  BY <1>0, <1>11, HeldUnchanged DEF heldVars, list, nodes, others, SpuriousWakeup
<1>12. ASSUME NEW w \in Workers, NEW t \in Tasks, TaskAdds(w, t) PROVE Held'
  <2>1. w \in Threads
    BY DEF Threads
  <2>. QED BY <1>0, <2>1, <1>12, NewTaskHeld DEF TaskAdds
<1>13. ASSUME NEW c \in Callers, NEW t \in Tasks, AddTask(c, t) PROVE Held'
  <2>1. c \in Threads
    BY DEF Threads
  <2>. QED BY <1>0, <2>1, <1>13, NewTaskHeld DEF AddTask
<1>14. ASSUME NEW c \in Callers, WaitSleep(c) PROVE Held'
  BY <1>0, <1>14, HeldUnchanged DEF heldVars, list, nodes, others, WaitSleep
<1>15. ASSUME NEW c \in Callers, WaitReturn(c) PROVE Held'
  BY <1>0, <1>15, HeldUnchanged DEF heldVars, list, nodes, others, WaitReturn
<1>16. ASSUME NEW wait \in BOOLEAN, Destroy(wait) PROVE Held'
  BY <1>0, <1>16, HeldUnchanged DEF heldVars, list, nodes, others, Destroy
<1>17. CASE CountWorker
  BY <1>0, <1>17, HeldUnchanged DEF heldVars, list, nodes, others, CountWorker
<1>18. CASE SpawnFails
  BY <1>0, <1>18, HeldUnchanged DEF heldVars, list, nodes, others, SpawnFails
<1>19. CASE Created
  BY <1>0, <1>19, HeldUnchanged DEF heldVars, list, nodes, others, Created
<1>20. CASE DestroyClear
  BY <1>0, <1>20, DestroyClearHeld
<1>21. CASE DestroyFree
  BY <1>0, <1>21, DestroyFreeHeld
<1>22. CASE DestroyFlag
  BY <1>0, <1>22, HeldUnchanged DEF heldVars, list, nodes, others, DestroyFlag
<1>23. CASE DestroyWait
  BY <1>0, <1>23, HeldUnchanged DEF heldVars, list, nodes, others, DestroyWait
<1>24. CASE DestroyEnd
  BY <1>0, <1>24, HeldUnchanged DEF heldVars, list, nodes, others, DestroyEnd
<1>25. CASE UNCHANGED vars
  BY <1>0, <1>25, HeldUnchanged DEF heldVars, list, nodes, others, vars
<1>. QED BY <1>1, <1>2, <1>3, <1>4, <1>5, <1>6, <1>7, <1>8, <1>9, <1>10, <1>11, <1>12, <1>13,
     <1>14, <1>15, <1>16, <1>17, <1>18, <1>19, <1>20, <1>21, <1>22, <1>23, <1>24, <1>25
     DEF Next, WorkerStep, CallStep, OwnerStep

LEMMA WaitStep ==
    ASSUME IInv, [Next]_vars
    PROVE  WaiterSeen'
<1>0. TypeOK /\ WaiterSeen
  BY DEF IInv
<1>. USE ThreadsAssumption DEF TypeOK, flags, list, nodes, others, bounds, Threads,
         WaiterSeen
<1>1. ASSUME NEW w \in Workers, SpawnWorker(w) PROVE WaiterSeen'
  BY <1>0, <1>1 DEF SpawnWorker, Step
<1>2. ASSUME NEW w \in Workers, WorkerTake(w) PROVE WaiterSeen'
  BY <1>0, <1>2 DEF WorkerTake, Step
<1>3. ASSUME NEW w \in Workers, WorkerEmpty(w) PROVE WaiterSeen'
  BY <1>0, <1>3 DEF WorkerEmpty, Woken0
<1>4. ASSUME NEW w \in Workers, WorkerSleep(w) PROVE WaiterSeen'
  BY <1>0, <1>4 DEF WorkerSleep, Step
<1>5. ASSUME NEW w \in Workers, TaskAgain(w) PROVE WaiterSeen'
  BY <1>0, <1>5 DEF TaskAgain, Unlinked, Step
<1>6. ASSUME NEW w \in Workers, TaskEnd(w) PROVE WaiterSeen'
  BY <1>0, <1>6 DEF TaskEnd, Step
<1>7. ASSUME NEW w \in Workers, Cleanup(w) PROVE WaiterSeen'
  BY <1>0, <1>7 DEF Cleanup, Step
<1>8. ASSUME NEW w \in Workers, CleanupSignal(w) PROVE WaiterSeen'
  BY <1>0, <1>8 DEF CleanupSignal, Step
<1>9. ASSUME NEW x \in Threads, TaskEnq(x) PROVE WaiterSeen'
  BY <1>0, <1>9 DEF TaskEnq, Step
<1>10. ASSUME NEW x \in Threads, EnqSignal(x) PROVE WaiterSeen'
  BY <1>0, <1>10, EnqSignalEffect DEF EnqSignal
<1>11. ASSUME NEW x \in Threads, SpuriousWakeup(x) PROVE WaiterSeen'
  BY <1>0, <1>11 DEF SpuriousWakeup, AfterWait
<1>12. ASSUME NEW w \in Workers, NEW t \in Tasks, TaskAdds(w, t) PROVE WaiterSeen'
  BY <1>0, <1>12 DEF TaskAdds, NewTask, Step
<1>13. ASSUME NEW c \in Callers, NEW t \in Tasks, AddTask(c, t) PROVE WaiterSeen'
  BY <1>0, <1>13 DEF AddTask, NewTask, Step
<1>14. ASSUME NEW c \in Callers, WaitSleep(c) PROVE WaiterSeen'
  BY <1>0, <1>14 DEF WaitSleep, Step
<1>15. ASSUME NEW c \in Callers, WaitReturn(c) PROVE WaiterSeen'
  BY <1>0, <1>15 DEF WaitReturn, Step
<1>16. ASSUME NEW wait \in BOOLEAN, Destroy(wait) PROVE WaiterSeen'
  BY <1>0, <1>16 DEF Destroy, Step
<1>17. CASE CountWorker
  BY <1>0, <1>17 DEF CountWorker, Step
<1>18. CASE SpawnFails
  BY <1>0, <1>18 DEF SpawnFails, Step
<1>19. CASE Created
  BY <1>0, <1>19 DEF Created, Step
<1>20. CASE DestroyClear
  BY <1>0, <1>20 DEF DestroyClear, Step
<1>21. CASE DestroyFree
  BY <1>0, <1>21 DEF DestroyFree, Freed
<1>22. CASE DestroyFlag
  BY <1>0, <1>22 DEF DestroyFlag, Step
<1>23. CASE DestroyWait
  BY <1>0, <1>23, DestroyWaitEffect DEF DestroyWait
<1>24. CASE DestroyEnd
  BY <1>0, <1>24 DEF DestroyEnd, Step
<1>25. CASE UNCHANGED vars
  BY <1>0, <1>25 DEF vars
<1>. QED BY <1>1, <1>2, <1>3, <1>4, <1>5, <1>6, <1>7, <1>8, <1>9, <1>10, <1>11, <1>12, <1>13,
     <1>14, <1>15, <1>16, <1>17, <1>18, <1>19, <1>20, <1>21, <1>22, <1>23, <1>24, <1>25
     DEF Next, WorkerStep, CallStep, OwnerStep

LEMMA NoTaskYetStep ==
    ASSUME IInv, [Next]_vars
    PROVE  NoTaskYet'
<1>0. TypeOK /\ NoTaskYet /\ Control /\ TaskOwned /\ ListOK
  BY DEF IInv
<1>1. ASSUME NEW w \in Workers, SpawnWorker(w) PROVE NoTaskYet'
  BY <1>0, <1>1, NullAssumption, ThreadsAssumption
  DEF TypeOK, flags, list, nodes, others, bounds, Threads, NoTaskYet, Control, NodeControl,
     PoolControl, TaskOwned, Executed, CallerPCs, SpawnWorker, Step
<1>2. ASSUME NEW w \in Workers, WorkerTake(w) PROVE NoTaskYet'
  BY <1>0, <1>2, NullAssumption, ThreadsAssumption
  DEF TypeOK, flags, list, nodes, others, bounds, Threads, NoTaskYet, Control, NodeControl,
     PoolControl, TaskOwned, Executed, CallerPCs, WorkerTake, Step
<1>3. ASSUME NEW w \in Workers, WorkerEmpty(w) PROVE NoTaskYet'
  BY <1>0, <1>3, NullAssumption, ThreadsAssumption
  DEF TypeOK, flags, list, nodes, others, bounds, Threads, NoTaskYet, Control, NodeControl,
     PoolControl, TaskOwned, Executed, CallerPCs, WorkerEmpty, Woken0
<1>4. ASSUME NEW w \in Workers, WorkerSleep(w) PROVE NoTaskYet'
  BY <1>0, <1>4, NullAssumption, ThreadsAssumption
  DEF TypeOK, flags, list, nodes, others, bounds, Threads, NoTaskYet, Control, NodeControl,
     PoolControl, TaskOwned, Executed, CallerPCs, WorkerSleep, Step
<1>5. ASSUME NEW w \in Workers, TaskAgain(w) PROVE NoTaskYet'
  BY <1>0, <1>5, NullAssumption, ThreadsAssumption
  DEF TypeOK, flags, list, nodes, others, bounds, Threads, NoTaskYet, Control, NodeControl,
     PoolControl, TaskOwned, Executed, CallerPCs, TaskAgain, Unlinked, Step
<1>6. ASSUME NEW w \in Workers, TaskEnd(w) PROVE NoTaskYet'
  <2>1. cur[w] \in Tasks /\ mem[cur[w]] = "live"
    BY <1>0, <1>6 DEF TypeOK, Control, NodeControl, TaskOwned, Executed, TaskEnd, Step
  <2>2. /\ UNCHANGED pool
        /\ \A v \in Workers : pc'[v] = "none" => pc[v] = "none"
    BY <1>0, <1>6 DEF TypeOK, Threads, TaskEnd, Step, flags
  <2>. QED BY <1>0, <2>1, <2>2 DEF NoTaskYet
<1>7. ASSUME NEW w \in Workers, Cleanup(w) PROVE NoTaskYet'
  BY <1>0, <1>7, NullAssumption, ThreadsAssumption
  DEF TypeOK, flags, list, nodes, others, bounds, Threads, NoTaskYet, Control, NodeControl,
     PoolControl, TaskOwned, Executed, CallerPCs, Cleanup, Step
<1>8. ASSUME NEW w \in Workers, CleanupSignal(w) PROVE NoTaskYet'
  BY <1>0, <1>8, NullAssumption, ThreadsAssumption
  DEF TypeOK, flags, list, nodes, others, bounds, Threads, NoTaskYet, Control, NodeControl,
     PoolControl, TaskOwned, Executed, CallerPCs, CleanupSignal, Step
<1>9. ASSUME NEW x \in Threads, TaskEnq(x) PROVE NoTaskYet'
  BY <1>0, <1>9, NullAssumption, ThreadsAssumption
  DEF TypeOK, flags, list, nodes, others, bounds, Threads, NoTaskYet, Control, NodeControl,
     PoolControl, TaskOwned, Executed, CallerPCs, TaskEnq, Step
<1>10. ASSUME NEW x \in Threads, EnqSignal(x) PROVE NoTaskYet'
  <2>1. /\ UNCHANGED <<pool, mem>>
        /\ \A v \in Workers : pc'[v] = "none" => pc[v] = "none"
    BY <1>0, <1>10, EnqSignalEffect DEF Threads, EnqSignal, flags, nodes
  <2>. QED BY <1>0, <2>1 DEF NoTaskYet
<1>11. ASSUME NEW x \in Threads, SpuriousWakeup(x) PROVE NoTaskYet'
  BY <1>0, <1>11, NullAssumption, ThreadsAssumption
  DEF TypeOK, flags, list, nodes, others, bounds, Threads, NoTaskYet, Control, NodeControl,
     PoolControl, TaskOwned, Executed, CallerPCs, SpuriousWakeup, AfterWait
<1>12. ASSUME NEW w \in Workers, NEW t \in Tasks, TaskAdds(w, t) PROVE NoTaskYet'
  <2>1. cur[w] \in Tasks /\ mem[cur[w]] = "live"
    BY <1>0, <1>12 DEF TypeOK, Control, NodeControl, TaskOwned, Executed, TaskAdds, NewTask, Step
  <2>2. /\ UNCHANGED pool
        /\ \A v \in Workers : pc'[v] = "none" => pc[v] = "none"
    BY <1>0, <1>12 DEF TypeOK, Threads, TaskAdds, NewTask, Step, flags
  <2>. QED BY <1>0, <2>1, <2>2 DEF NoTaskYet
<1>13. ASSUME NEW c \in Callers, NEW t \in Tasks, AddTask(c, t) PROVE NoTaskYet'
  BY <1>0, <1>13, NullAssumption, ThreadsAssumption
  DEF TypeOK, flags, list, nodes, others, bounds, Threads, NoTaskYet, Control, NodeControl,
     PoolControl, TaskOwned, Executed, CallerPCs, AddTask, NewTask, Step
<1>14. ASSUME NEW c \in Callers, WaitSleep(c) PROVE NoTaskYet'
  BY <1>0, <1>14, NullAssumption, ThreadsAssumption
  DEF TypeOK, flags, list, nodes, others, bounds, Threads, NoTaskYet, Control, NodeControl,
     PoolControl, TaskOwned, Executed, CallerPCs, WaitSleep, Step
<1>15. ASSUME NEW c \in Callers, WaitReturn(c) PROVE NoTaskYet'
  BY <1>0, <1>15, NullAssumption, ThreadsAssumption
  DEF TypeOK, flags, list, nodes, others, bounds, Threads, NoTaskYet, Control, NodeControl,
     PoolControl, TaskOwned, Executed, CallerPCs, WaitReturn, Step
<1>16. ASSUME NEW wait \in BOOLEAN, Destroy(wait) PROVE NoTaskYet'
  BY <1>0, <1>16, NullAssumption, ThreadsAssumption
  DEF TypeOK, flags, list, nodes, others, bounds, Threads, NoTaskYet, Control, NodeControl,
     PoolControl, TaskOwned, Executed, CallerPCs, Destroy, Step
<1>17. CASE CountWorker
  BY <1>0, <1>17, NullAssumption, ThreadsAssumption
  DEF TypeOK, flags, list, nodes, others, bounds, Threads, NoTaskYet, Control, NodeControl,
     PoolControl, TaskOwned, Executed, CallerPCs, CountWorker, Step
<1>18. CASE SpawnFails
  BY <1>0, <1>18, NullAssumption, ThreadsAssumption
  DEF TypeOK, flags, list, nodes, others, bounds, Threads, NoTaskYet, Control, NodeControl,
     PoolControl, TaskOwned, Executed, CallerPCs, SpawnFails, Step
<1>19. CASE Created
  BY <1>0, <1>19, NullAssumption, ThreadsAssumption
  DEF TypeOK, flags, list, nodes, others, bounds, Threads, NoTaskYet, Control, NodeControl,
     PoolControl, TaskOwned, Executed, CallerPCs, Created, Step
<1>20. CASE DestroyClear
  BY <1>0, <1>20, NullAssumption, ThreadsAssumption
  DEF TypeOK, flags, list, nodes, others, bounds, Threads, NoTaskYet, Control, NodeControl,
     PoolControl, TaskOwned, Executed, CallerPCs, DestroyClear, Step
<1>21. CASE DestroyFree
  <2>0. victim = doomed[1] /\ victim \in Tasks /\ 1 \in 1 .. Len(doomed)
    BY <1>0, <1>21, ChainTail DEF TypeOK, ListOK, DestroyFree
  <2>1. victim \in Tasks /\ mem[victim] = "live"
    BY <1>0, <2>0 DEF TaskOwned, Doomed
  <2>2. UNCHANGED <<pool, pc>>
    BY <1>21 DEF DestroyFree, flags
  <2>. QED BY <1>0, <2>1, <2>2 DEF NoTaskYet
<1>22. CASE DestroyFlag
  BY <1>0, <1>22, NullAssumption, ThreadsAssumption
  DEF TypeOK, flags, list, nodes, others, bounds, Threads, NoTaskYet, Control, NodeControl,
     PoolControl, TaskOwned, Executed, CallerPCs, DestroyFlag, Step
<1>23. CASE DestroyWait
  <2>1. /\ UNCHANGED <<pool, mem>>
        /\ \A v \in Workers : pc'[v] = "none" => pc[v] = "none"
    BY <1>0, <1>23, DestroyWaitEffect, ThreadsAssumption DEF Threads, DestroyWait, flags, nodes
  <2>. QED BY <1>0, <2>1 DEF NoTaskYet
<1>24. CASE DestroyEnd
  BY <1>0, <1>24, NullAssumption, ThreadsAssumption
  DEF TypeOK, flags, list, nodes, others, bounds, Threads, NoTaskYet, Control, NodeControl,
     PoolControl, TaskOwned, Executed, CallerPCs, DestroyEnd, Step
<1>25. CASE UNCHANGED vars
  BY <1>0, <1>25, NullAssumption, ThreadsAssumption
  DEF TypeOK, flags, list, nodes, others, bounds, Threads, NoTaskYet, Control, NodeControl,
     PoolControl, TaskOwned, Executed, CallerPCs, vars
<1>. QED BY <1>1, <1>2, <1>3, <1>4, <1>5, <1>6, <1>7, <1>8, <1>9, <1>10, <1>11, <1>12, <1>13,
     <1>14, <1>15, <1>16, <1>17, <1>18, <1>19, <1>20, <1>21, <1>22, <1>23, <1>24, <1>25
     DEF Next, WorkerStep, CallStep, OwnerStep

LEMMA DrainedStep ==
    ASSUME IInv, [Next]_vars
    PROVE  Drained'
<1>0. TypeOK /\ Drained /\ Control /\ ListOK
  BY DEF IInv
<1>. USE ThreadsAssumption DEF TypeOK, flags, list, nodes, others, bounds, Threads,
         Drained, Control, PoolControl, DestroyControl, ListOK, Chained, CallerPCs, Leaving
<1>1. ASSUME NEW w \in Workers, SpawnWorker(w) PROVE Drained'
  BY <1>0, <1>1 DEF SpawnWorker, Step
<1>2. ASSUME NEW w \in Workers, WorkerTake(w) PROVE Drained'
  BY <1>0, <1>2 DEF WorkerTake, Step
<1>3. ASSUME NEW w \in Workers, WorkerEmpty(w) PROVE Drained'
  <2>1. front = Null => fifo = <<>>
    BY <1>0, NullAssumption DEF TypeOK, ListOK, Chained
  <2>. QED BY <2>1, <1>3 DEF WorkerEmpty, list, Drained
<1>4. ASSUME NEW w \in Workers, WorkerSleep(w) PROVE Drained'
  BY <1>0, <1>4 DEF WorkerSleep, Step
<1>5. ASSUME NEW w \in Workers, TaskAgain(w) PROVE Drained'
  BY <1>0, <1>5 DEF TaskAgain, Unlinked, Step
<1>6. ASSUME NEW w \in Workers, TaskEnd(w) PROVE Drained'
  BY <1>0, <1>6 DEF TaskEnd, Step
<1>7. ASSUME NEW w \in Workers, Cleanup(w) PROVE Drained'
  BY <1>0, <1>7 DEF Cleanup, Step
<1>8. ASSUME NEW w \in Workers, CleanupSignal(w) PROVE Drained'
  BY <1>0, <1>8 DEF CleanupSignal, Step
<1>9. ASSUME NEW x \in Threads, TaskEnq(x) PROVE Drained'
  BY <1>0, <1>9 DEF TaskEnq, Step
<1>10. ASSUME NEW x \in Threads, EnqSignal(x) PROVE Drained'
  BY <1>0, <1>10, EnqSignalEffect DEF EnqSignal
<1>11. ASSUME NEW x \in Threads, SpuriousWakeup(x) PROVE Drained'
  BY <1>0, <1>11 DEF SpuriousWakeup, AfterWait
<1>12. ASSUME NEW w \in Workers, NEW t \in Tasks, TaskAdds(w, t) PROVE Drained'
  BY <1>0, <1>12 DEF TaskAdds, NewTask, Step
<1>13. ASSUME NEW c \in Callers, NEW t \in Tasks, AddTask(c, t) PROVE Drained'
  BY <1>0, <1>13 DEF AddTask, NewTask, Step
<1>14. ASSUME NEW c \in Callers, WaitSleep(c) PROVE Drained'
  BY <1>0, <1>14 DEF WaitSleep, Step
<1>15. ASSUME NEW c \in Callers, WaitReturn(c) PROVE Drained'
  BY <1>0, <1>15 DEF WaitReturn, Step
<1>16. ASSUME NEW wait \in BOOLEAN, Destroy(wait) PROVE Drained'
  BY <1>0, <1>16 DEF Destroy, Step
<1>17. CASE CountWorker
  BY <1>0, <1>17 DEF CountWorker, Step
<1>18. CASE SpawnFails
  BY <1>0, <1>18 DEF SpawnFails, Step
<1>19. CASE Created
  BY <1>0, <1>19 DEF Created, Step
<1>20. CASE DestroyClear
  BY <1>0, <1>20 DEF DestroyClear, Step
<1>21. CASE DestroyFree
  BY <1>0, <1>21 DEF DestroyFree, Freed
<1>22. CASE DestroyFlag
  <2>1. UNCHANGED fifo /\ \A w \in Workers : pc'[w] = pc[w]
    BY <1>0, <1>22, DestroyFlagEffect
  <2>. QED BY <1>0, <2>1
<1>23. CASE DestroyWait
  BY <1>0, <1>23, DestroyWaitEffect DEF DestroyWait
<1>24. CASE DestroyEnd
  BY <1>0, <1>24 DEF DestroyEnd, Step
<1>25. CASE UNCHANGED vars
  BY <1>0, <1>25 DEF vars
<1>. QED BY <1>1, <1>2, <1>3, <1>4, <1>5, <1>6, <1>7, <1>8, <1>9, <1>10, <1>11, <1>12, <1>13,
     <1>14, <1>15, <1>16, <1>17, <1>18, <1>19, <1>20, <1>21, <1>22, <1>23, <1>24, <1>25
     DEF Next, WorkerStep, CallStep, OwnerStep

LEMMA NoLostStep ==
    ASSUME IInv, [Next]_vars
    PROVE  NoLostTask'
<1>0. TypeOK /\ Control /\ ListOK /\ Drained /\ NoLostTask
  BY DEF IInv
<1>. USE ThreadsAssumption DEF TypeOK, flags, list, nodes, others, bounds, Threads,
         NoLostTask, Control, MutexControl
<1>1. ASSUME NEW w \in Workers, SpawnWorker(w) PROVE NoLostTask'
  BY <1>0, <1>1 DEF SpawnWorker, Step
<1>2. ASSUME NEW w \in Workers, WorkerTake(w) PROVE NoLostTask'
  BY <1>0, <1>2 DEF WorkerTake, Step
<1>3. ASSUME NEW w \in Workers, WorkerEmpty(w) PROVE NoLostTask'
  BY <1>0, <1>3 DEF WorkerEmpty, Woken0
<1>4. ASSUME NEW w \in Workers, WorkerSleep(w) PROVE NoLostTask'
  BY <1>0, <1>4 DEF WorkerSleep, Step
<1>5. ASSUME NEW w \in Workers, TaskAgain(w) PROVE NoLostTask'
  BY <1>0, <1>5 DEF TaskAgain, Unlinked, Step
<1>6. ASSUME NEW w \in Workers, TaskEnd(w) PROVE NoLostTask'
  BY <1>0, <1>6 DEF TaskEnd, Step
<1>7. ASSUME NEW w \in Workers, Cleanup(w) PROVE NoLostTask'
  BY <1>0, <1>7 DEF Cleanup, Step
<1>8. ASSUME NEW w \in Workers, CleanupSignal(w) PROVE NoLostTask'
  BY <1>0, <1>8 DEF CleanupSignal, Step
<1>9. ASSUME NEW x \in Threads, TaskEnq(x) PROVE NoLostTask'
  BY <1>0, <1>9 DEF TaskEnq, Step
<1>10. ASSUME NEW x \in Threads, EnqSignal(x) PROVE NoLostTask'
  <2>. SUFFICES ASSUME front # Null, Workers # {},
                      \A w \in Workers : pc'[w] \notin {"top", "run", "enq", "enqsig"}
               PROVE  FALSE
    BY <1>10 DEF NoLostTask, EnqSignal, list, Threads
  <2>1. x \in Callers
    BY <1>0, <1>10, EnqSignalEffect DEF Threads
  <2>2. pool = "live" /\ ~destroy
    BY <1>0, <2>1, <1>10 DEF Control, PoolControl, DestroyControl, CallerPCs, EnqSignal
  <2>3. PICK w \in Workers : TRUE
    OBVIOUS
  <2>4. pc[w] # "wait_c" /\ pc'[w] = pc[w] /\ w # x
    <3>1. w # x /\ w \in Threads
      BY <2>1, ThreadsAssumption DEF Threads
    <3>2. ~ \E v \in Workers : pc[v] = "wait_c"
      BY <1>0, <1>10, EnqSignalEffect
    <3>. QED BY <1>0, <1>10, <3>1, <3>2, EnqSignalEffect
  <2>5. pc[w] \notin {"none", "sleep"} \cup Leaving
    BY <1>0, <2>2, NullAssumption
    DEF Control, PoolControl, DestroyControl, MutexControl, Leaving, Threads
  <2>6. pc'[w] = "enqsig"
    BY <1>0, <2>4, <2>5 DEF TypeOK, WorkerPCs, Leaving
  <2>. QED BY <2>6 DEF Threads
<1>11. ASSUME NEW x \in Threads, SpuriousWakeup(x) PROVE NoLostTask'
  BY <1>0, <1>11 DEF SpuriousWakeup, AfterWait
<1>12. ASSUME NEW w \in Workers, NEW t \in Tasks, TaskAdds(w, t) PROVE NoLostTask'
  BY <1>0, <1>12 DEF TaskAdds, NewTask, Step
<1>13. ASSUME NEW c \in Callers, NEW t \in Tasks, AddTask(c, t) PROVE NoLostTask'
  BY <1>0, <1>13 DEF AddTask, NewTask, Step
<1>14. ASSUME NEW c \in Callers, WaitSleep(c) PROVE NoLostTask'
  BY <1>0, <1>14 DEF WaitSleep, Step
<1>15. ASSUME NEW c \in Callers, WaitReturn(c) PROVE NoLostTask'
  BY <1>0, <1>15 DEF WaitReturn, Step
<1>16. ASSUME NEW wait \in BOOLEAN, Destroy(wait) PROVE NoLostTask'
  BY <1>0, <1>16 DEF Destroy, Step
<1>17. CASE CountWorker
  BY <1>0, <1>17 DEF CountWorker, Step
<1>18. CASE SpawnFails
  BY <1>0, <1>18 DEF SpawnFails, Step
<1>19. CASE Created
  BY <1>0, <1>19 DEF Created, Step
<1>20. CASE DestroyClear
  BY <1>0, <1>20 DEF DestroyClear, Step
<1>21. CASE DestroyFree
  BY <1>0, <1>21 DEF DestroyFree, Freed
<1>22. CASE DestroyFlag
  BY <1>0, <1>22 DEF DestroyFlag, Step
<1>23. CASE DestroyWait
  BY <1>0, <1>23, DestroyWaitEffect DEF DestroyWait
<1>24. CASE DestroyEnd
  BY <1>0, <1>24 DEF DestroyEnd, Step
<1>25. CASE UNCHANGED vars
  BY <1>0, <1>25 DEF vars
<1>. QED BY <1>1, <1>2, <1>3, <1>4, <1>5, <1>6, <1>7, <1>8, <1>9, <1>10, <1>11, <1>12, <1>13,
     <1>14, <1>15, <1>16, <1>17, <1>18, <1>19, <1>20, <1>21, <1>22, <1>23, <1>24, <1>25
     DEF Next, WorkerStep, CallStep, OwnerStep

LEMMA RunningStep ==
    ASSUME IInv, [Next]_vars
    PROVE  RunningExact'
<1>0. TypeOK /\ RunningExact
  BY DEF IInv
<1>00. IsFiniteSet(Counted) /\ Cardinality(Counted) \in Nat
  BY ThreadsAssumption, FS_Subset, FS_CardinalityType DEF Counted
<1>1. ASSUME NEW w \in Workers, SpawnWorker(w) PROVE RunningExact'
  <2>1. Counted' = Counted \cup {w} /\ w \notin Counted
    BY <1>0, <1>1, ThreadsAssumption DEF TypeOK, Threads, Counted, SpawnWorker
  <2>2. Cardinality(Counted') = Cardinality(Counted) + 1
    BY <1>00, <2>1, FS_AddElement
  <2>3. pc[Owner] # "count" /\ pc'[Owner] = "count" /\ running' = running
    BY <1>0, <1>1, ThreadsAssumption DEF TypeOK, Threads, SpawnWorker, flags
  <2>. QED BY <1>0, <1>00, <2>2, <2>3 DEF RunningExact, TypeOK
<1>2. ASSUME NEW w \in Workers, WorkerTake(w) PROVE RunningExact'
  BY <1>0, <1>2, ThreadsAssumption
  DEF TypeOK, flags, list, nodes, others, bounds, Threads, RunningExact, Counted, WorkerTake,
     Step
<1>3. ASSUME NEW w \in Workers, WorkerEmpty(w) PROVE RunningExact'
  BY <1>0, <1>3, ThreadsAssumption
  DEF TypeOK, flags, list, nodes, others, bounds, Threads, RunningExact, Counted,
     WorkerEmpty, Woken0
<1>4. ASSUME NEW w \in Workers, WorkerSleep(w) PROVE RunningExact'
  BY <1>0, <1>4, ThreadsAssumption
  DEF TypeOK, flags, list, nodes, others, bounds, Threads, RunningExact, Counted,
     WorkerSleep, Step
<1>5. ASSUME NEW w \in Workers, TaskAgain(w) PROVE RunningExact'
  BY <1>0, <1>5, ThreadsAssumption
  DEF TypeOK, flags, list, nodes, others, bounds, Threads, RunningExact, Counted, TaskAgain,
     Unlinked, Step
<1>6. ASSUME NEW w \in Workers, TaskEnd(w) PROVE RunningExact'
  BY <1>0, <1>6, ThreadsAssumption
  DEF TypeOK, flags, list, nodes, others, bounds, Threads, RunningExact, Counted, TaskEnd, Step
<1>7. ASSUME NEW w \in Workers, Cleanup(w) PROVE RunningExact'
  <2>1. Counted' = Counted \ {w} /\ w \in Counted
    BY <1>0, <1>7, ThreadsAssumption DEF TypeOK, Threads, Counted, Cleanup, Step
  <2>2. Cardinality(Counted') = Cardinality(Counted) - 1
    BY <1>00, <2>1, FS_RemoveElement
  <2>3. pc'[Owner] = pc[Owner] /\ running' = running - 1
    BY <1>0, <1>7, ThreadsAssumption DEF TypeOK, Threads, Cleanup, Step
  <2>. QED BY <1>0, <1>00, <2>2, <2>3 DEF RunningExact, TypeOK
<1>8. ASSUME NEW w \in Workers, CleanupSignal(w) PROVE RunningExact'
  BY <1>0, <1>8, ThreadsAssumption
  DEF TypeOK, flags, list, nodes, others, bounds, Threads, RunningExact, Counted,
     CleanupSignal, Step
<1>9. ASSUME NEW x \in Threads, TaskEnq(x) PROVE RunningExact'
  BY <1>0, <1>9, ThreadsAssumption
  DEF TypeOK, flags, list, nodes, others, bounds, Threads, RunningExact, Counted, TaskEnq, Step
<1>10. ASSUME NEW x \in Threads, EnqSignal(x) PROVE RunningExact'
  <2>1. /\ Counted' = Counted /\ running' = running
        /\ pc'[Owner] = "count" <=> pc[Owner] = "count"
    BY <1>0, <1>10, EnqSignalEffect, ThreadsAssumption DEF Counted, Threads, EnqSignal, flags
  <2>. QED BY <1>0, <2>1 DEF RunningExact
<1>11. ASSUME NEW x \in Threads, SpuriousWakeup(x) PROVE RunningExact'
  BY <1>0, <1>11, ThreadsAssumption
  DEF TypeOK, flags, list, nodes, others, bounds, Threads, RunningExact, Counted,
     SpuriousWakeup, AfterWait
<1>12. ASSUME NEW w \in Workers, NEW t \in Tasks, TaskAdds(w, t) PROVE RunningExact'
  BY <1>0, <1>12, ThreadsAssumption
  DEF TypeOK, flags, list, nodes, others, bounds, Threads, RunningExact, Counted, TaskAdds,
     NewTask, Step
<1>13. ASSUME NEW c \in Callers, NEW t \in Tasks, AddTask(c, t) PROVE RunningExact'
  BY <1>0, <1>13, ThreadsAssumption
  DEF TypeOK, flags, list, nodes, others, bounds, Threads, RunningExact, Counted, AddTask,
     NewTask, Step
<1>14. ASSUME NEW c \in Callers, WaitSleep(c) PROVE RunningExact'
  BY <1>0, <1>14, ThreadsAssumption
  DEF TypeOK, flags, list, nodes, others, bounds, Threads, RunningExact, Counted, WaitSleep,
     Step
<1>15. ASSUME NEW c \in Callers, WaitReturn(c) PROVE RunningExact'
  BY <1>0, <1>15, ThreadsAssumption
  DEF TypeOK, flags, list, nodes, others, bounds, Threads, RunningExact, Counted, WaitReturn,
     Step
<1>16. ASSUME NEW wait \in BOOLEAN, Destroy(wait) PROVE RunningExact'
  BY <1>0, <1>16, ThreadsAssumption
  DEF TypeOK, flags, list, nodes, others, bounds, Threads, RunningExact, Counted, Destroy, Step
<1>17. CASE CountWorker
  <2>1. /\ Counted' = Counted /\ running' = running + 1
        /\ pc[Owner] = "count" /\ pc'[Owner] = "create"
    BY <1>0, <1>17, ThreadsAssumption DEF TypeOK, Threads, Counted, CountWorker, Step
  <2>. QED BY <1>0, <1>00, <2>1 DEF RunningExact, TypeOK
<1>18. CASE SpawnFails
  BY <1>0, <1>18, ThreadsAssumption
  DEF TypeOK, flags, list, nodes, others, bounds, Threads, RunningExact, Counted, SpawnFails,
     Step
<1>19. CASE Created
  BY <1>0, <1>19, ThreadsAssumption
  DEF TypeOK, flags, list, nodes, others, bounds, Threads, RunningExact, Counted, Created, Step
<1>20. CASE DestroyClear
  BY <1>0, <1>20, ThreadsAssumption
  DEF TypeOK, flags, list, nodes, others, bounds, Threads, RunningExact, Counted,
     DestroyClear, Step
<1>21. CASE DestroyFree
  BY <1>0, <1>21, ThreadsAssumption
  DEF TypeOK, flags, list, nodes, others, bounds, Threads, RunningExact, Counted,
     DestroyFree, Freed
<1>22. CASE DestroyFlag
  BY <1>0, <1>22, ThreadsAssumption
  DEF TypeOK, flags, list, nodes, others, bounds, Threads, RunningExact, Counted,
     DestroyFlag, Step
<1>23. CASE DestroyWait
  BY <1>0, <1>23, DestroyWaitEffect, ThreadsAssumption
  DEF TypeOK, flags, list, nodes, others, bounds, Threads, RunningExact, Counted, DestroyWait
<1>24. CASE DestroyEnd
  BY <1>0, <1>24, ThreadsAssumption
  DEF TypeOK, flags, list, nodes, others, bounds, Threads, RunningExact, Counted, DestroyEnd,
     Step
<1>25. CASE UNCHANGED vars
  BY <1>0, <1>25, ThreadsAssumption
  DEF TypeOK, flags, list, nodes, others, bounds, Threads, RunningExact, Counted, vars
<1>. QED BY <1>1, <1>2, <1>3, <1>4, <1>5, <1>6, <1>7, <1>8, <1>9, <1>10, <1>11, <1>12, <1>13,
     <1>14, <1>15, <1>16, <1>17, <1>18, <1>19, <1>20, <1>21, <1>22, <1>23, <1>24, <1>25
     DEF Next, WorkerStep, CallStep, OwnerStep

\* A freed pool stays without workers.
LEMMA FreedStep ==
    ASSUME IInv, [Next]_vars
    PROVE  (pool = "freed" => running = 0)'
<1>0. /\ TypeOK /\ PoolControl /\ DestroyControl /\ RunningExact
      /\ pool = "freed" => running = 0
  BY DEF IInv, Control
<1>1. ASSUME NEW w \in Workers, Cleanup(w), pool = "freed"
      PROVE  FALSE
  BY <1>0, <1>1, CountedPositive DEF Cleanup, Step, Counted, PoolControl
<1>2. CASE \E w \in Workers : Cleanup(w)
  BY <1>1, <1>2 DEF Cleanup
<1>3. CASE ~ \E w \in Workers : Cleanup(w)
  <2>1. CASE DestroyEnd \/ CountWorker \/ SpawnFails \/ Created
             \/ \E wait \in BOOLEAN : Destroy(wait)
    BY <1>0, <2>1, ThreadsAssumption
    DEF DestroyEnd, CountWorker, SpawnFails, Created, Destroy, Step, PoolControl
  <2>2. CASE ~(DestroyEnd \/ CountWorker \/ SpawnFails \/ Created
               \/ \E wait \in BOOLEAN : Destroy(wait))
    <3>1. UNCHANGED <<pool, running>>
      BY <1>3, <2>2 DEF Next, WorkerStep, CallStep, OwnerStep, SpawnWorker, WorkerTake,
         WorkerEmpty, WorkerSleep, TaskAgain, TaskEnd, CleanupSignal, TaskEnq, EnqSignal,
         SpuriousWakeup, TaskAdds, AddTask, NewTask, WaitSleep, WaitReturn, DestroyClear,
         DestroyFree, DestroyFlag, DestroyWait, flags, vars
    <3>. QED BY <1>0, <3>1
  <2>. QED BY <2>1, <2>2
<1>. QED BY <1>2, <1>3

LEMMA InitInv == Init => IInv
<1>. SUFFICES ASSUME Init PROVE IInv
  OBVIOUS
<1>. USE ThreadsAssumption, NullAssumption DEF Init
<1>1. TypeOK
  <2>1. /\ \A w \in Workers : pc[w] = "none"
        /\ \A c \in Callers : pc[c] = IF c = Owner THEN "create" ELSE "idle"
    BY DEF Threads
  <2>2. pc \in [Threads -> WorkerPCs \cup OwnerPCs]
    BY DEF Threads, WorkerPCs, CallerPCs, OwnerPCs
  <2>3. fifo \in Seq(Tasks) /\ doomed \in Seq(Tasks)
    BY EmptySeq
  <2>4. /\ \A w \in Workers : pc[w] \in WorkerPCs
        /\ \A c \in Callers : pc[c] \in (IF c = Owner THEN OwnerPCs ELSE CallerPCs)
    BY <2>1 DEF WorkerPCs, CallerPCs, OwnerPCs
  <2>5. /\ next \in [Tasks -> Tasks \cup {Null}]
        /\ mem \in [Tasks -> {"free", "live", "done", "dropped"}]
        /\ cur \in [Workers -> Tasks \cup {Null}]
        /\ arg \in [Threads -> Tasks \cup {Null}]
        /\ runs \in [Tasks -> Nat]
    OBVIOUS
  <2>. QED BY <2>2, <2>3, <2>4, <2>5 DEF TypeOK
<1>2. Control
  <2>1. MutexControl /\ NodeControl
    BY DEF MutexControl, NodeControl, Threads
  <2>2. PoolControl
    BY DEF PoolControl, Threads, CallerPCs, InDestroy
  <2>3. DestroyControl
    BY DEF DestroyControl, Threads, Leaving
  <2>. QED BY <2>1, <2>2, <2>3 DEF Control
<1>3. ListOK /\ PassedUnlinked
  BY DEF ListOK, Chained, PassedUnlinked, Threads
<1>4. TaskOwned
  BY DEF TaskOwned, Queued, Doomed, Executed, Passed
<1>5. RunningExact
  <2>1. Counted = {} /\ pc[Owner] # "count"
    BY DEF Counted, Threads
  <2>. QED BY <2>1, FS_EmptySet DEF RunningExact
<1>6. NoTaskYet /\ Drained /\ NoLostTask /\ WaiterSeen
  BY DEF NoTaskYet, Drained, NoLostTask, WaiterSeen, Threads
<1>. QED BY <1>1, <1>2, <1>3, <1>4, <1>5, <1>6 DEF IInv

LEMMA StepInv == IInv /\ [Next]_vars => IInv'
<1>. SUFFICES ASSUME IInv, [Next]_vars PROVE IInv'
  OBVIOUS
<1>1. TypeOK' /\ Control'
  BY TypeStep, ControlStep
<1>2. ListOK' /\ TaskOwned' /\ PassedUnlinked'
  BY HeldStep DEF Held
<1>3. RunningExact' /\ NoTaskYet' /\ Drained' /\ NoLostTask' /\ WaiterSeen'
  BY RunningStep, NoTaskYetStep, DrainedStep, NoLostStep, WaitStep
<1>4. (pool = "freed" => running = 0)'
  BY FreedStep
<1>. QED BY <1>1, <1>2, <1>3, <1>4 DEF IInv

THEOREM Invariance == Safety => []IInv
<1>. QED BY InitInv, StepInv, PTL DEF Safety

\* No variable of the pool ever leaves its type; in particular running_workers
\* never becomes negative.
THEOREM TypeCorrect == Safety => []TypeOK
<1>1. IInv => TypeOK
  BY DEF IInv
<1>. QED BY <1>1, Invariance, PTL

\* The list is always well formed and no task node is leaked, linked twice,
\* freed twice or executed by two workers at once.
THEOREM NodesSafe == Safety => []TasksOwned
<1>1. IInv => TasksOwned
  BY DEF IInv, TasksOwned
<1>. QED BY <1>1, Invariance, PTL

\* No wakeup of a worker for a queued task is ever lost, and wait_task_0 is never cleared
\* under a thread that still sleeps in thrpool_wait.
THEOREM NoWakeupLost == Safety => []NoLostWakeup
<1>1. IInv => NoLostWakeup
  BY DEF IInv, NoLostWakeup
<1>. QED BY <1>1, Invariance, PTL

\* running_workers counts exactly the workers thrpool_destroy has to wait for; so when it
\* frees the pool every worker is out of its loop and every node was freed.
THEOREM FreedIsClean == Safety => []FreedSafely
<1>1. IInv => FreedClean
  <2>. SUFFICES ASSUME IInv, pool = "freed"
                PROVE  /\ \A w \in Workers : pc[w] \in {"none", "sigexit", "exited"}
                       /\ \A c \in Callers : pc[c] \in {"idle", "done"}
                       /\ Workers # {} => \A t \in Tasks : mem[t] # "live"
    BY DEF FreedClean
  <2>1. TypeOK /\ Control /\ TaskOwned /\ Drained /\ RunningExact /\ running = 0
    BY DEF IInv
  <2>2. pc[Owner] = "done" /\ \A c \in Callers : pc[c] \in {"idle", "done"}
    BY <2>1 DEF Control, PoolControl
  <2>3. \A w \in Workers : pc[w] \in {"none", "sigexit", "exited"}
    BY <2>1, <2>2, CountedPositive DEF Counted, TypeOK
  <2>4. Workers # {} => fifo = <<>> /\ doomed = <<>>
    BY <2>1, <2>2, <2>3 DEF Drained, Control, DestroyControl, Leaving
  <2>5. /\ \A w \in Workers : cur[w] = Null
        /\ \A x \in Threads : arg[x] = Null
    BY <2>1, <2>2, <2>3 DEF Control, NodeControl, Threads
  <2>6. Workers # {} => \A t \in Tasks : mem[t] # "live"
    BY <2>1, <2>4, <2>5, NullAssumption
    DEF TaskOwned, Queued, Doomed, Executed, Passed
  <2>. QED BY <2>2, <2>3, <2>6
<1>2. IInv => FreedSafely
  BY <1>1 DEF IInv, FreedSafely
<1>. QED BY <1>2, Invariance, PTL

-----------------------------------------------------------------------------
(* Thrpool implements TaskPool *)

\* The stage of a task depends only on its memory and on who executes it.
LEMMA StatusMove ==
    ASSUME NEW t \in Tasks, NEW a, NEW b, Status[t] = a, Status'[t] = b,
           \A u \in Tasks \ {t} : mem'[u] = mem[u] /\ (Executed(u)' <=> Executed(u))
    PROVE  Abstract!Move(t, a, b)
<1>1. \A u \in Tasks \ {t} : Status'[u] = Status[u]
  BY DEF Status
<1>2. Status = [u \in Tasks |-> Status[u]] /\ Status' = [u \in Tasks |-> Status'[u]]
  BY DEF Status
<1>3. Status' = [Status EXCEPT ![t] = b]
  BY <1>1, <1>2
<1>. QED BY <1>3 DEF Abstract!Move

LEMMA RefineStep ==
    ASSUME IInv, [Next]_vars
    PROVE  [Abstract!Next]_Status
<1>0. TypeOK /\ NodeControl /\ TaskOwned /\ ListOK
  BY DEF IInv, Control
<1>1. ASSUME NEW x \in Threads, NEW p, NEW t \in Tasks, NewTask(x, p, t)
      PROVE  Abstract!Submit(t)
  <2>1. Status[t] = "new"
    BY <1>1 DEF NewTask, Status
  <2>2. ~Executed(t)
    BY <1>0, <1>1 DEF NewTask, TaskOwned
  <2>3. mem' = [mem EXCEPT ![t] = "live"] /\ cur' = cur
    BY <1>1 DEF NewTask
  <2>4. Status'[t] = "queued"
    BY <1>0, <2>2, <2>3 DEF Status, Executed, TypeOK
  <2>. QED BY <1>0, <2>1, <2>3, <2>4, StatusMove DEF Abstract!Submit, Executed, TypeOK
<1>2. ASSUME NEW w \in Workers, WorkerTake(w), NEW t, t = front
      PROVE  t \in Tasks /\ Abstract!Start(t)
  <2>1. t = fifo[1] /\ t \in Tasks /\ 1 \in 1 .. Len(fifo)
    BY <1>0, <1>2, ChainTail DEF TypeOK, ListOK, WorkerTake
  <2>2. mem[t] = "live" /\ ~Executed(t)
    BY <1>0, <2>1 DEF TaskOwned, Queued
  <2>3. mem' = mem /\ cur' = [cur EXCEPT ![w] = t] /\ cur[w] = Null
    BY <1>0, <1>2 DEF WorkerTake, Step, NodeControl
  <2>4. \A u \in Tasks \ {t} : Executed(u)' <=> Executed(u)
    BY <1>0, <2>3, NullAssumption DEF Executed, TypeOK
  <2>5. Executed(t)'
    BY <1>0, <2>3 DEF Executed, TypeOK
  <2>6. Status[t] = "queued" /\ Status'[t] = "running"
    BY <2>1, <2>2, <2>3, <2>5 DEF Status
  <2>. QED BY <2>1, <2>3, <2>4, <2>6, StatusMove DEF Abstract!Start
<1>3. ASSUME NEW w \in Workers, pc[w] = "run", cur' = [cur EXCEPT ![w] = Null],
             NEW t, t = cur[w]
      PROVE  /\ t \in Tasks /\ mem[t] = "live" /\ Status[t] = "running"
             /\ ~Executed(t)'
             /\ \A u \in Tasks \ {t} : Executed(u)' <=> Executed(u)
  <2>1. t \in Tasks /\ Executed(t) /\ mem[t] = "live"
    BY <1>0, <1>3 DEF NodeControl, TypeOK, TaskOwned, Executed
  <2>2. ~Executed(t)'
    BY <1>0, <1>3, <2>1, NullAssumption DEF TaskOwned, TypeOK, Executed
  <2>3. \A u \in Tasks \ {t} : Executed(u)' <=> Executed(u)
    BY <1>0, <1>3, NullAssumption DEF TypeOK, Executed
  <2>. QED BY <2>1, <2>2, <2>3 DEF Status
<1>4. ASSUME NEW w \in Workers, TaskAgain(w), NEW t, t = cur[w]
      PROVE  t \in Tasks /\ Abstract!Again(t)
  <2>1. pc[w] = "run" /\ cur' = [cur EXCEPT ![w] = Null] /\ mem' = mem
    BY <1>4 DEF TaskAgain, Step
  <2>2. Status'[t] = "queued"
    BY <1>3, <1>4, <2>1 DEF Status
  <2>. QED BY <1>3, <1>4, <2>1, <2>2, StatusMove DEF Abstract!Again
<1>5. ASSUME NEW w \in Workers, TaskEnd(w), NEW t, t = cur[w]
      PROVE  t \in Tasks /\ Abstract!Finish(t)
  <2>1. /\ pc[w] = "run" /\ cur' = [cur EXCEPT ![w] = Null]
        /\ mem' = [mem EXCEPT ![t] = "done"]
    BY <1>5 DEF TaskEnd, Step
  <2>2. Status'[t] = "done"
    BY <1>0, <1>3, <1>5, <2>1 DEF Status, TypeOK
  <2>. QED BY <1>0, <1>3, <1>5, <2>1, <2>2, StatusMove DEF Abstract!Finish, TypeOK
<1>6. ASSUME DestroyFree
      PROVE  victim \in Tasks /\ Abstract!Drop(victim)
  <2>1. victim = doomed[1] /\ victim \in Tasks /\ 1 \in 1 .. Len(doomed)
    BY <1>0, <1>6, ChainTail DEF TypeOK, ListOK, DestroyFree
  <2>2. mem[victim] = "live" /\ ~Executed(victim)
    BY <1>0, <2>1 DEF TaskOwned, Doomed
  <2>3. mem' = [mem EXCEPT ![victim] = "dropped"] /\ cur' = cur
    BY <1>6 DEF DestroyFree, Freed
  <2>4. Status[victim] = "queued" /\ Status'[victim] = "dropped"
    BY <1>0, <2>1, <2>2, <2>3 DEF Status, TypeOK
  <2>. QED BY <1>0, <2>1, <2>3, <2>4, StatusMove DEF Abstract!Drop, Executed, TypeOK
<1>7. ASSUME UNCHANGED <<mem, cur>>
      PROVE  UNCHANGED Status
  BY <1>7 DEF Status, Executed
<1>8. CASE \E x \in Threads, p \in {"idle", "run"}, t \in Tasks : NewTask(x, p, t)
  BY <1>1, <1>8 DEF Abstract!Next
<1>9. CASE \E w \in Workers : WorkerTake(w) \/ TaskAgain(w) \/ TaskEnd(w)
  BY <1>2, <1>4, <1>5, <1>9 DEF Abstract!Next
<1>10. CASE DestroyFree
  BY <1>6, <1>10 DEF Abstract!Next
<1>11. ASSUME ~ \E x \in Threads, p \in {"idle", "run"}, t \in Tasks : NewTask(x, p, t),
              ~ \E w \in Workers : WorkerTake(w) \/ TaskAgain(w) \/ TaskEnd(w),
              ~DestroyFree
       PROVE  UNCHANGED <<mem, cur>>
  BY <1>11 DEF Next, WorkerStep, CallStep, OwnerStep, AddTask, TaskAdds, Threads,
     SpawnWorker, WorkerEmpty, WorkerSleep, Cleanup, CleanupSignal, TaskEnq, EnqSignal,
     SpuriousWakeup, WaitSleep, WaitReturn, Destroy, CountWorker, SpawnFails, Created,
     DestroyClear, DestroyFlag, DestroyWait, DestroyEnd, nodes, vars
<1>. QED BY <1>7, <1>8, <1>9, <1>10, <1>11

\* Every step of the pool is a step of TaskPool or leaves its view of the tasks
\* alone: tasks move only along their stages.
THEOREM Refinement == Safety => RefinesTaskPool
<1>1. Init => Abstract!Init
  BY DEF Init, Abstract!Init, Status
<1>2. IInv /\ [Next]_vars => [Abstract!Next]_Status
  BY RefineStep
<1>. QED BY <1>1, <1>2, Invariance, PTL DEF Safety, RefinesTaskPool, Abstract!Safety
=============================================================================
