------------------------------- MODULE GoEpoll -------------------------------
(***************************************************************************)
(* What the two Go programs over an edge-triggered epoll keep, checked     *)
(* together: a behaviour is one of a connection of go/yagw, of the life of *)
(* its polldesps, or of the pool of go/sys.                                *)
(***************************************************************************)
EXTENDS YagwConn, YagwRecycle, SysPool

VARIABLE program

goVars == <<program, vars, recycleVars, sysVars>>

GoInit ==
    /\ program \in {"connection", "recycle", "sys"}
    /\ Init /\ RecycleInit /\ SysInit

GoNext ==
    \/ program = "connection" /\ Next /\ UNCHANGED <<program, recycleVars, sysVars>>
    \/ program = "recycle" /\ RecycleNext /\ UNCHANGED <<program, vars, sysVars>>
    \/ program = "sys" /\ SysNext /\ UNCHANGED <<program, vars, recycleVars>>

GoSafety == GoInit /\ [][GoNext]_goVars

Connection == program = "connection"
Recycle == program = "recycle"

(***************************************************************************)
(* Every goroutine that can take a step does, a Close that has begun is    *)
(* finished, and the ticker ticks.  Nothing is assumed about the peers,    *)
(* the timers or the choices of a select; as the peer of YagwConn sends a  *)
(* bounded number of chunks no select is entered for ever.  Of the pool of *)
(* go/sys nothing is promised.                                             *)
(***************************************************************************)
GoSpec ==
    /\ GoSafety
    /\ WF_vars(Connection /\ EventLoop)
    /\ \A x \in Workers : WF_vars(Connection /\ Worker(x))
    /\ WF_vars(Connection /\ Mainproc)
    /\ WF_vars(Connection /\ tpc = "closing" /\ TimerClose)
    /\ WF_recycleVars(Recycle /\ server_eventloop)
    /\ WF_recycleVars(Recycle /\ tick_recyclepd)
    /\ WF_recycleVars(Recycle /\ accept_proc)
    /\ \A p \in Polldesps : WF_recycleVars(Recycle /\ free_pd(p))

----------------------------------------------------------------------------
\* Every variable of the three parts has its type.
GoTypeOK ==
    CASE program = "connection" -> TypeOK
      [] program = "recycle" -> RecycleTypeOK
      [] program = "sys" -> SysTypeOK
==============================================================================
