------------------------------ MODULE TaskPool ------------------------------
(***************************************************************************)
(* What a pool of workers promises about the tasks it is given.  It is the *)
(* abstract specification of both c/thrpool (Thrpool) and go/gorpool       *)
(* (Gorpool): a task that was accepted is executed by one worker at a      *)
(* time, may ask to be executed again, and ends either because it was      *)
(* done or because the pool was told to drop what had not been started.    *)
(***************************************************************************)
CONSTANT Tasks

VARIABLE status

Stages == {"new", "queued", "running", "done", "dropped"}

TypeOK == status \in [Tasks -> Stages]

Init == status = [t \in Tasks |-> "new"]

\* A move of one task from stage a to stage b, all others staying put.
Move(t, a, b) == /\ status[t] = a
                 /\ status' = [status EXCEPT ![t] = b]

\* The pool accepts a task: from here on it is responsible for it.
Submit(t) == Move(t, "new", "queued")

\* A worker begins to execute it.
Start(t) == Move(t, "queued", "running")

\* The execution asked for another one.
Again(t) == Move(t, "running", "queued")

\* The last execution returned.
Finish(t) == Move(t, "running", "done")

\* The pool gives up a task that no worker is executing.
Drop(t) == Move(t, "queued", "dropped")

Next == \E t \in Tasks : \/ Submit(t)
                         \/ Start(t)
                         \/ Again(t)
                         \/ Finish(t)
                         \/ Drop(t)

Safety == Init /\ [][Next]_status

(***************************************************************************)
(* An accepted task does not stay where it is: a queued one is started or  *)
(* dropped and a running one comes to the end of its execution.            *)
(***************************************************************************)
Spec == /\ Safety
        /\ \A t \in Tasks : /\ WF_status(Start(t) \/ Drop(t))
                            /\ WF_status(Again(t) \/ Finish(t))
=============================================================================
