------------------------------- MODULE Thrpool -------------------------------
(***************************************************************************)
(* The thread pool of c/thrpool/thrpool.c.                                 *)
(*                                                                         *)
(* The pool is one linked list of tasks (task_front, task_rear) under the  *)
(* mutex task_m, three condition variables, and two plain fields that      *)
(* threads read without the mutex that guards their writers: destroy and   *)
(* running_workers.  Threads are the workers and the callers of the API;   *)
(* one caller, Owner, creates and destroys the pool.                       *)
(*                                                                         *)
(* Grain.  A critical section of task_m is one step, except a worker that  *)
(* found the list empty: it tests destroy, which thrpool_destroy sets      *)
(* without the mutex, and only then enters pthread_cond_wait, so these are *)
(* two steps and task_m is held in between.  Sections of worker_m hold the *)
(* whole of what they do and are one step each.  A signal sent after the   *)
(* unlock is a step of its own.                                            *)
(*                                                                         *)
(* Contract assumed of the callers: a pool is used only after              *)
(* thrpool_create returned it, and thrpool_destroy is called once, when no *)
(* other caller is inside the API.  Tasks may call thrpool_add_task.       *)
(***************************************************************************)
EXTENDS Integers, Sequences, FiniteSets

CONSTANTS
    Workers,      \* the threads thrpool_create is asked to start
    Callers,      \* the threads that use the API
    Owner,        \* the caller that creates and destroys the pool
    Tasks,        \* the task nodes that malloc can return
    Null,         \* the null pointer
    MaxRuns,      \* bound: executions of one task
    MaxSpurious   \* bound: spurious wakeups in a behaviour

Threads == Workers \cup Callers

ASSUME ThreadsAssumption == /\ IsFiniteSet(Workers)
                            /\ Owner \in Callers
                            /\ Workers \cap Callers = {}

ASSUME NullAssumption == Null \notin Tasks /\ Null \notin Threads

ASSUME BoundsAssumption == MaxRuns \in Nat \ {0} /\ MaxSpurious \in Nat

VARIABLES
    pool,         \* "none", "live" (returned to the caller), "closing", "freed"
    destroy,      \* ti->destroy
    running,      \* ti->running_workers
    wait0,        \* ti->wait_task_0
    front,        \* ti->task_front
    rear,         \* ti->task_rear
    next,         \* t->next of every node
    mem,          \* each node: "free", "live", "done" or "dropped" (both freed)
    task_m,       \* the thread that holds task_m across steps, or Null
    pc,           \* where each thread is
    cur,          \* the node a worker executes (t in _worker)
    arg,          \* the node a thread is passing to _task_enq
    victim,       \* t in thrpool_destroy
    runs,         \* executions of each task so far
    spurious,     \* spurious wakeups so far
    fifo,         \* auxiliary: the nodes linked from front, in the order they were added
    doomed        \* auxiliary: the nodes linked from victim

\* fifo and doomed are never read by a guard or by another variable's next value.
flags == <<pool, destroy, running, wait0>>
list == <<front, rear, next, fifo>>
nodes == <<mem, cur, arg>>
bounds == <<runs, spurious>>
others == <<task_m, victim, doomed, bounds>>
vars == <<flags, list, nodes, others, pc>>

WorkerPCs == {"none", "top", "sleep", "wait_c", "run", "enq", "enqsig",
              "cleanup", "sigexit", "exited"}
CallerPCs == {"idle", "enq", "enqsig", "wait_0", "woken_0"}
OwnerPCs == CallerPCs \cup {"create", "count", "d_clear", "d_free", "d_flag",
                            "d_loop", "d_wait", "done"}

\* The memset of thrpool_create: everything is zero and no worker exists yet.
Init ==
    /\ pool = "none"
    /\ destroy = FALSE
    /\ running = 0
    /\ wait0 = FALSE
    /\ front = Null
    /\ rear = Null
    /\ next = [t \in Tasks |-> Null]
    /\ mem = [t \in Tasks |-> "free"]
    /\ task_m = Null
    /\ pc = [x \in Threads |-> IF x \in Workers THEN "none"
                               ELSE IF x = Owner THEN "create" ELSE "idle"]
    /\ cur = [w \in Workers |-> Null]
    /\ arg = [x \in Threads |-> Null]
    /\ victim = Null
    /\ runs = [t \in Tasks |-> 0]
    /\ spurious = 0
    /\ fifo = <<>>
    /\ doomed = <<>>

-----------------------------------------------------------------------------
\* Thread x goes from p to q.
Step(x, p, q) == pc[x] = p /\ pc' = [pc EXCEPT ![x] = q]

(* thrpool_create *)

\* pthread_create succeeds: the new worker may run before it is counted.
SpawnWorker(w) ==
    /\ pc[Owner] = "create"
    /\ pc[w] = "none"
    /\ pc' = [pc EXCEPT ![w] = "top", ![Owner] = "count"]
    /\ UNCHANGED <<flags, list, nodes, others>>

\* ti->running_workers++, outside worker_m.
CountWorker ==
    /\ Step(Owner, "count", "create")
    /\ running' = running + 1
    /\ UNCHANGED <<pool, destroy, wait0, list, nodes, others>>

\* pthread_create fails: the pool is destroyed, not waiting for tasks.
SpawnFails ==
    /\ Step(Owner, "create", "d_clear")
    /\ \E w \in Workers : pc[w] = "none"
    /\ pool' = "closing"
    /\ UNCHANGED <<destroy, running, wait0, list, nodes, others>>

\* All workers are started: the caller gets the pool.
Created ==
    /\ Step(Owner, "create", "idle")
    /\ \A w \in Workers : pc[w] # "none"
    /\ pool' = "live"
    /\ UNCHANGED <<destroy, running, wait0, list, nodes, others>>

-----------------------------------------------------------------------------
(* thrpool_add_task and _task_enq *)

\* Mutation of SignalTask: nobody is signalled.
SignalNobody(x, p) == pc' = [pc EXCEPT ![x] = p]

\* pthread_cond_signal(&ti->task_c) sent by x, which goes on at p: any one
\* waiter, if there is one, goes back to compete for task_m.
SignalTask(x, p) ==
    IF \E w \in Workers : pc[w] = "wait_c"
    THEN \E w \in Workers : /\ pc[w] = "wait_c"
                            /\ pc' = [pc EXCEPT ![w] = "top", ![x] = p]
    ELSE pc' = [pc EXCEPT ![x] = p]

\* x, at p, allocates node t and fills it in.  The test of destroy is made
\* here, the node is linked later.
NewTask(x, p, t) ==
    /\ Step(x, p, "enq")
    /\ ~destroy
    /\ mem[t] = "free"
    /\ mem' = [mem EXCEPT ![t] = "live"]
    /\ next' = [next EXCEPT ![t] = Null]
    /\ arg' = [arg EXCEPT ![x] = t]
    /\ UNCHANGED <<flags, front, rear, fifo, cur, others>>

\* A caller adds a task; so may a task that is being executed.
AddTask(c, t) == pool = "live" /\ NewTask(c, "idle", t)
TaskAdds(w, t) == NewTask(w, "run", t)

\* The critical section of _task_enq.
TaskEnq(x) ==
    /\ Step(x, "enq", "enqsig")
    /\ task_m = Null
    /\ front' = IF front = Null THEN arg[x] ELSE front
    /\ next' = IF front = Null THEN next ELSE [next EXCEPT ![rear] = arg[x]]
    /\ rear' = arg[x]
    /\ fifo' = Append(fifo, arg[x])
    /\ arg' = [arg EXCEPT ![x] = Null]
    /\ UNCHANGED <<flags, mem, cur, others>>

\* Where x goes on after _task_enq: a caller returns, a worker resumes the
\* task that added one, or its loop when it re-queued its own.
AfterEnq(x) == IF x \in Callers THEN "idle"
               ELSE IF cur[x] = Null THEN "top" ELSE "run"

\* The signal at the end of _task_enq, after the unlock.
EnqSignal(x) ==
    /\ pc[x] = "enqsig"
    /\ SignalTask(x, AfterEnq(x))
    /\ UNCHANGED <<flags, list, nodes, others>>

-----------------------------------------------------------------------------
(* thrpool_wait *)

\* Mutation of WaitSleep: the waiter does not set wait_task_0.
WaitSleepUnseen(c) ==
    /\ Step(c, "idle", "wait_0")
    /\ pool = "live" /\ task_m = Null /\ front # Null
    /\ UNCHANGED <<flags, list, nodes, others>>

\* The list is not empty: register and sleep on task_0_c.  (With an empty list
\* thrpool_wait returns at once and changes nothing.)
WaitSleep(c) ==
    /\ Step(c, "idle", "wait_0")
    /\ pool = "live" /\ task_m = Null /\ front # Null
    /\ wait0' = TRUE
    /\ UNCHANGED <<pool, destroy, running, list, nodes, others>>

\* Woken, it takes task_m back, lets it go and returns: the list is not looked
\* at again.
WaitReturn(c) ==
    /\ Step(c, "woken_0", "idle")
    /\ task_m = Null
    /\ UNCHANGED <<flags, list, nodes, others>>

-----------------------------------------------------------------------------
(* _worker *)

\* task_m is taken (first or after a wakeup) and the list has a task.
WorkerTake(w) ==
    /\ Step(w, "top", "run")
    /\ task_m = Null /\ front # Null
    /\ cur' = [cur EXCEPT ![w] = front]
    /\ front' = next[front]
    /\ fifo' = Tail(fifo)
    /\ runs' = [runs EXCEPT ![front] = @ + 1]
    /\ UNCHANGED <<flags, rear, next, mem, arg, task_m, victim, doomed, spurious>>

\* pthread_cond_broadcast(&ti->task_0_c): who is woken.
Woken0 == {c \in Callers : pc[c] = "wait_0"}

\* The list is empty: those in thrpool_wait are woken; then destroy decides
\* between leaving the loop and going to sleep with task_m still held.
WorkerEmpty(w) ==
    /\ pc[w] = "top"
    /\ task_m = Null /\ front = Null
    /\ wait0' = FALSE
    /\ task_m' = IF destroy THEN Null ELSE w
    /\ pc' = [x \in Threads |->
                 IF x = w THEN (IF destroy THEN "cleanup" ELSE "sleep")
                 ELSE IF wait0 /\ x \in Woken0 THEN "woken_0" ELSE pc[x]]
    /\ UNCHANGED <<pool, destroy, running, list, nodes, victim, doomed, bounds>>

\* pthread_cond_wait(&ti->task_c, &ti->task_m) joins the waiters and unlocks.
WorkerSleep(w) ==
    /\ Step(w, "sleep", "wait_c")
    /\ task_m' = Null
    /\ UNCHANGED <<flags, list, nodes, victim, doomed, bounds>>

\* t->next = NULL before the node is queued again.
Unlinked(t) == [next EXCEPT ![t] = Null]

\* taskfn returned non-zero: the node is queued again.
TaskAgain(w) ==
    /\ Step(w, "run", "enq")
    /\ runs[cur[w]] < MaxRuns
    /\ next' = Unlinked(cur[w])
    /\ arg' = [arg EXCEPT ![w] = cur[w]]
    /\ cur' = [cur EXCEPT ![w] = Null]
    /\ UNCHANGED <<flags, front, rear, fifo, mem, others>>

\* taskfn returned zero: the node is freed.
TaskEnd(w) ==
    /\ Step(w, "run", "top")
    /\ mem' = [mem EXCEPT ![cur[w]] = "done"]
    /\ cur' = [cur EXCEPT ![w] = Null]
    /\ UNCHANGED <<flags, list, arg, others>>

\* _worker_cleanup: the worker stops being counted, under worker_m ...
Cleanup(w) ==
    /\ Step(w, "cleanup", "sigexit")
    /\ running' = running - 1
    /\ UNCHANGED <<pool, destroy, wait0, list, nodes, others>>

\* ... and signals worker_c after it let worker_m go.
CleanupSignal(w) ==
    /\ pc[w] = "sigexit"
    /\ pc' = [pc EXCEPT ![w] = "exited",
                        ![Owner] = IF @ = "d_wait" THEN "d_loop" ELSE @]
    /\ UNCHANGED <<flags, list, nodes, others>>

-----------------------------------------------------------------------------
(* thrpool_destroy *)

\* The call; wait selects whether the queued tasks are kept.
Destroy(wait) ==
    /\ Step(Owner, "idle", IF wait THEN "d_flag" ELSE "d_clear")
    /\ pool = "live"
    /\ \A c \in Callers : pc[c] = "idle"
    /\ pool' = "closing"
    /\ UNCHANGED <<destroy, running, wait0, list, nodes, others>>

\* Mutation of DestroyClear: the list is read but not detached.
DestroyClearKeepsFront ==
    /\ Step(Owner, "d_clear", "d_free")
    /\ task_m = Null
    /\ victim' = front /\ doomed' = fifo
    /\ UNCHANGED <<flags, list, nodes, task_m, bounds>>

\* !wait: the list is detached under task_m.
DestroyClear ==
    /\ Step(Owner, "d_clear", "d_free")
    /\ task_m = Null
    /\ victim' = front /\ doomed' = fifo
    /\ front' = Null /\ fifo' = <<>>
    /\ UNCHANGED <<flags, rear, next, nodes, task_m, bounds>>

\* Mutation of Freed: the node is walked over and not freed.
Leaked(t) == mem

\* free(t) in thrpool_destroy.
Freed(t) == [mem EXCEPT ![t] = "dropped"]

\* One round of the loop that frees the detached nodes.
DestroyFree ==
    /\ pc[Owner] = "d_free"
    /\ victim # Null
    /\ mem' = Freed(victim)
    /\ victim' = next[victim] /\ doomed' = Tail(doomed)
    /\ UNCHANGED <<flags, list, pc, cur, arg, task_m, bounds>>

\* ti->destroy = 1, with no mutex held.
DestroyFlag ==
    /\ \/ Step(Owner, "d_flag", "d_loop")
       \/ Step(Owner, "d_free", "d_loop") /\ victim = Null
    /\ destroy' = TRUE
    /\ UNCHANGED <<pool, running, wait0, list, nodes, others>>

\* Workers are left: signal one of the sleeping ones, without task_m, and wait
\* on worker_c.
DestroyWait ==
    /\ pc[Owner] = "d_loop"
    /\ running > 0
    /\ SignalTask(Owner, "d_wait")
    /\ UNCHANGED <<flags, list, nodes, others>>

\* Mutation of DestroyEnd: the pool is freed without waiting for the workers.
DestroyEndEarly ==
    /\ Step(Owner, "d_loop", "done")
    /\ pool' = "freed"
    /\ UNCHANGED <<destroy, running, wait0, list, nodes, others>>

\* No worker is left: the pool is torn down and freed.
DestroyEnd ==
    /\ Step(Owner, "d_loop", "done")
    /\ running = 0
    /\ pool' = "freed"
    /\ UNCHANGED <<destroy, running, wait0, list, nodes, others>>

-----------------------------------------------------------------------------
\* Where a thread goes on after pthread_cond_wait.
AfterWait(p) == CASE p = "wait_c" -> "top"
                  [] p = "wait_0" -> "woken_0"
                  [] p = "d_wait" -> "d_loop"

\* pthread_cond_wait may return although nobody signalled.
SpuriousWakeup(x) ==
    /\ spurious < MaxSpurious
    /\ pc[x] \in {"wait_c", "wait_0", "d_wait"}
    /\ pc' = [pc EXCEPT ![x] = AfterWait(@)]
    /\ spurious' = spurious + 1
    /\ UNCHANGED <<flags, list, nodes, task_m, victim, doomed, runs>>

\* What a worker does once it runs, tasks that add tasks apart.
WorkerStep(w) ==
    \/ WorkerTake(w)
    \/ WorkerEmpty(w)
    \/ WorkerSleep(w)
    \/ TaskAgain(w)
    \/ TaskEnd(w)
    \/ Cleanup(w)
    \/ CleanupSignal(w)

\* The steps of an API call that has begun.
CallStep(x) == TaskEnq(x) \/ EnqSignal(x)

OwnerStep ==
    \/ CountWorker
    \/ SpawnFails
    \/ Created
    \/ DestroyClear
    \/ DestroyFree
    \/ DestroyFlag
    \/ DestroyWait
    \/ DestroyEnd

Next ==
    \/ \E w \in Workers : SpawnWorker(w) \/ WorkerStep(w)
    \/ \E x \in Threads : CallStep(x) \/ SpuriousWakeup(x)
    \/ \E w \in Workers, t \in Tasks : TaskAdds(w, t)
    \/ \E c \in Callers, t \in Tasks : AddTask(c, t)
    \/ \E c \in Callers : WaitSleep(c) \/ WaitReturn(c)
    \/ \E wait \in BOOLEAN : Destroy(wait)
    \/ OwnerStep

(***************************************************************************)
(* A thread that can go on does: the scheduler runs every thread, mutexes  *)
(* are handed over, and a task function returns.  Nobody has to call the   *)
(* API, and no spurious wakeup has to happen.                              *)
(***************************************************************************)
Fairness ==
    /\ \A w \in Workers : WF_vars(WorkerStep(w))
    /\ \A x \in Threads : WF_vars(CallStep(x))
    /\ \A c \in Callers : WF_vars(WaitReturn(c))
    /\ WF_vars(OwnerStep \/ \E w \in Workers : SpawnWorker(w))

Safety == Init /\ [][Next]_vars

Spec == Safety /\ Fairness

-----------------------------------------------------------------------------
(* Properties *)

\* Every variable has the type its C declaration and the flow of its thread
\* allow.
TypeOK ==
    /\ pool \in {"none", "live", "closing", "freed"}
    /\ destroy \in BOOLEAN
    /\ running \in Nat
    /\ wait0 \in BOOLEAN
    /\ front \in Tasks \cup {Null}
    /\ rear \in Tasks \cup {Null}
    /\ next \in [Tasks -> Tasks \cup {Null}]
    /\ mem \in [Tasks -> {"free", "live", "done", "dropped"}]
    /\ task_m \in Workers \cup {Null}
    /\ pc \in [Threads -> WorkerPCs \cup OwnerPCs]
    /\ \A w \in Workers : pc[w] \in WorkerPCs
    /\ \A c \in Callers : pc[c] \in (IF c = Owner THEN OwnerPCs ELSE CallerPCs)
    /\ cur \in [Workers -> Tasks \cup {Null}]
    /\ arg \in [Threads -> Tasks \cup {Null}]
    /\ victim \in Tasks \cup {Null}
    /\ runs \in [Tasks -> Nat]
    /\ spurious \in Nat
    /\ fifo \in Seq(Tasks)
    /\ doomed \in Seq(Tasks)

\* The nodes of sequence s are chained by next, p points at the first one and
\* the last one ends the chain.
Chained(p, s) ==
    /\ p = IF s = <<>> THEN Null ELSE s[1]
    /\ \A i \in 1 .. Len(s) :
          next[s[i]] = IF i = Len(s) THEN Null ELSE s[i + 1]

\* task_front leads through exactly the queued nodes in the order they were
\* queued, task_rear is the last of them whenever there is one (it dangles
\* otherwise and must not be followed), and the nodes thrpool_destroy detached
\* form a list of their own that no enqueue can reach.
ListOK ==
    /\ Chained(front, fifo)
    /\ fifo # <<>> => rear = fifo[Len(fifo)]
    /\ Chained(victim, doomed)

\* The places that hold a node: the list, the list being freed, a worker that
\* executes it, a thread about to queue it.
Queued(t) == \E i \in 1 .. Len(fifo) : fifo[i] = t
Doomed(t) == \E i \in 1 .. Len(doomed) : doomed[i] = t
Executed(t) == \E w \in Workers : cur[w] = t
Passed(t) == \E x \in Threads : arg[x] = t

\* An allocated node is in exactly one place, and a freed one in none: no node
\* is leaked, freed twice, linked twice or executed by two workers at once.
TaskOwned ==
    /\ \A t \in Tasks :
          /\ mem[t] = "live" => Queued(t) \/ Doomed(t) \/ Executed(t) \/ Passed(t)
          /\ Queued(t) => mem[t] = "live" /\ ~Doomed(t) /\ ~Executed(t) /\ ~Passed(t)
          /\ Doomed(t) => mem[t] = "live" /\ ~Executed(t) /\ ~Passed(t)
          /\ Executed(t) => mem[t] = "live" /\ ~Passed(t)
          /\ Passed(t) => mem[t] = "live"
    /\ \A i, j \in 1 .. Len(fifo) : fifo[i] = fifo[j] => i = j
    /\ \A i, j \in 1 .. Len(doomed) : doomed[i] = doomed[j] => i = j
    /\ \A v, w \in Workers : cur[v] = cur[w] /\ cur[v] # Null => v = w
    /\ \A x, y \in Threads : arg[x] = arg[y] /\ arg[x] # Null => x = y

\* Workers that thrpool_destroy still has to wait for.
Counted == {w \in Workers : pc[w] \notin {"none", "sigexit", "exited"}}

\* running_workers, incremented without worker_m and decremented with it, is the
\* number of workers that may still touch a task, one less only between
\* pthread_create and the increment.
RunningExact ==
    Cardinality(Counted) = running + (IF pc[Owner] = "count" THEN 1 ELSE 0)

\* A queued task never waits for a signal that was already sent: while the list
\* is not empty some worker is awake or some thread has still to signal task_c.
NoLostTask ==
    front # Null /\ Workers # {} =>
        \/ \E w \in Workers : pc[w] \in {"top", "run", "enq"}
        \/ \E x \in Threads : pc[x] = "enqsig"

\* Whoever sleeps in thrpool_wait has wait_task_0 set for it.
WaiterSeen == \A c \in Callers : pc[c] = "wait_0" => wait0

\* When the pool is freed no node is left in it and no worker will use it
\* again, but for the signal that _worker_cleanup sends after its unlock (which
\* may come too late: see the README).  Without workers nobody empties the list.
FreedClean ==
    pool = "freed" =>
        /\ \A w \in Workers : pc[w] \in {"none", "sigexit", "exited"}
        /\ \A c \in Callers : pc[c] \in {"idle", "done"}
        /\ Workers # {} => \A t \in Tasks : mem[t] # "live"

\* The linked list is the queue, and every node has exactly one holder, through every order
\* of enqueue, take, re-queue and detach.
TasksOwned == ListOK /\ TaskOwned

\* No wakeup is lost, of a worker for a queued task or of a thread in thrpool_wait.
NoLostWakeup == NoLostTask /\ WaiterSeen

\* running_workers, on which thrpool_destroy decides to free the pool, counts the workers
\* that still use it, and nothing is left when it is freed.
FreedSafely == RunningExact /\ FreedClean

\* What the pool promises about its tasks.
Status ==
    [t \in Tasks |-> CASE mem[t] = "free" -> "new"
                       [] mem[t] \in {"done", "dropped"} -> mem[t]
                       [] OTHER -> IF Executed(t) THEN "running" ELSE "queued"]

Abstract == INSTANCE TaskPool WITH status <- Status

\* Every behaviour of the pool, fairness included, is one of TaskPool: each task
\* moves only along its stages, and an accepted task is finished or dropped.
ImplementsTaskPool == Abstract!Spec

\* The safety part of the same.
RefinesTaskPool == Abstract!Safety

\* thrpool_wait returns once the pool is left to work.
WaitReturns == \A c \in Callers : pc[c] = "wait_0" ~> pc[c] = "idle"

\* thrpool_destroy returns.
DestroyReturns == pool = "closing" ~> pool = "freed"
=============================================================================
