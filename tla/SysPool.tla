------------------------------- MODULE SysPool -------------------------------
(***************************************************************************)
(* The poll descriptors of go/sys (polldesp.go, poll.go, file.go).  They   *)
(* come from slots of SlotSize each.  A slot has a mark for every          *)
(* descriptor and a count; slots with room are linked in a stack that is   *)
(* changed by compare-and-swap.  Threads open and close files, which       *)
(* allocate a descriptor and free it.                                      *)
(*                                                                         *)
(* Every access to a shared word is a step.                                *)
(***************************************************************************)
EXTENDS Naturals, FiniteSets

CONSTANTS
    Threads,
    Files,
    SlotIds,     \* bound: slots that can be made
    SlotSize,    \* slotSize
    Nil

ASSUME SysAssumption ==
    /\ SlotSize \in Nat \ {0} /\ Nil \notin SlotIds \cup Files
    /\ IsFiniteSet(Threads) /\ IsFiniteSet(SlotIds)

VARIABLES
    partial,           \* top of the stack
    pnext, cnt,        \* of each slot
    marks,             \* marked descriptors
    slots,             \* p.slots, by which the garbage collector knows the slots
    reg,               \* the file in each descriptor
    fpd,               \* the descriptor of each file
    fstate,            \* none, opening, open, closing or closed
    thread             \* where each thread is

sysVars == <<partial, pnext, cnt, marks, slots, reg, fpd, fstate, thread>>
poolVars == <<partial, pnext, cnt, marks, slots>>
fileVars == <<reg, fpd, fstate>>

Indices == 1..SlotSize
NoPd == <<Nil, 1>>

\* slot, next, idx: local variables.  file: the file opened or closed.
ThreadIdle == [pc |-> "idle", slot |-> Nil, next |-> Nil, idx |-> 1, file |-> Nil]

SysInit ==
    /\ partial = Nil
    /\ pnext = [s \in SlotIds |-> Nil] /\ cnt = [s \in SlotIds |-> 0]
    /\ marks = {} /\ slots = {}
    /\ reg = [d \in SlotIds \X Indices |-> Nil]
    /\ fpd = [f \in Files |-> NoPd] /\ fstate = [f \in Files |-> "none"]
    /\ thread = [t \in Threads |-> ThreadIdle]

At(t, pc) == thread[t].pc = pc
GoTo(t, pc) == thread' = [thread EXCEPT ![t].pc = pc]
Slot(t) == thread[t].slot
File(t) == thread[t].file
Pd(t) == <<Slot(t), thread[t].idx>>
Add(s, n) == cnt' = [cnt EXCEPT ![s] = @ + n]

----------------------------------------------------------------------------
(* pdpool.alloc *)

AllocTop(t) ==
    /\ At(t, "alloc")
    /\ thread' = [thread EXCEPT ![t].slot = partial,
                                ![t].pc = IF partial = Nil THEN "new" ELSE "count"]
    /\ UNCHANGED <<poolVars, fileVars>>

\* The count of a slot with room for one more.
Fits(n) == n <= SlotSize

AllocCount(t) ==
    /\ At(t, "count")
    /\ Add(Slot(t), 1)
    /\ GoTo(t, IF Fits(cnt[Slot(t)] + 1) THEN "scan" ELSE "uncount")
    /\ UNCHANGED <<partial, pnext, marks, slots, fileVars>>

AllocUncount(t) ==
    /\ At(t, "uncount")
    /\ cnt' = [cnt EXCEPT ![Slot(t)] = @ - 1]
    /\ GoTo(t, "next")
    /\ UNCHANGED <<partial, pnext, marks, slots, fileVars>>

\* The full slot is taken off the stack, if it is still on top: its successor is read first.
AllocNext(t) ==
    /\ At(t, "next")
    /\ thread' = [thread EXCEPT ![t].next = pnext[Slot(t)], ![t].pc = "pop"]
    /\ UNCHANGED <<poolVars, fileVars>>

AllocPop(t) ==
    /\ At(t, "pop")
    /\ partial' = IF partial = Slot(t) THEN thread[t].next ELSE partial
    /\ thread' = [thread EXCEPT ![t] = [ThreadIdle EXCEPT !.pc = "alloc", !.file = File(t)]]
    /\ UNCHANGED <<pnext, cnt, marks, slots, fileVars>>

\* bytes.IndexByte finds a descriptor that was not marked when it looked; it is called until
\* it does.
AllocScan(t) ==
    /\ At(t, "scan")
    /\ \E i \in Indices :
         /\ <<Slot(t), i>> \notin marks
         /\ thread' = [thread EXCEPT ![t].idx = i, ![t].pc = "mark"]
    /\ UNCHANGED <<poolVars, fileVars>>

\* Mutation of MarkWon: the mark is stored, not exchanged.
MarkAnyway(d) == TRUE

\* lockCmpxchg8 finds the descriptor unmarked.
MarkWon(d) == d \notin marks

AllocMark(t) ==
    /\ At(t, "mark")
    /\ marks' = marks \cup {Pd(t)}
    /\ thread' = [thread EXCEPT ![t].pc = IF MarkWon(Pd(t)) THEN "register" ELSE "scan",
                                ![t].idx = IF MarkWon(Pd(t)) THEN @ ELSE 1]
    /\ UNCHANGED <<partial, pnext, cnt, slots, fileVars>>

\* Slots that were not made yet.
UnusedSlots == {s \in SlotIds \ slots : \A u \in Threads : Slot(u) # s}

\* A new slot, of which the first descriptor is taken.
AllocNew(t) ==
    /\ At(t, "new")
    /\ UnusedSlots # {}
    /\ LET s == CHOOSE s \in UnusedSlots : TRUE  \* it does not matter which
       IN  /\ cnt' = [cnt EXCEPT ![s] = 1]
           /\ marks' = marks \cup {<<s, 1>>}
           /\ thread' = [thread EXCEPT ![t].slot = s, ![t].idx = 1, ![t].pc = "append"]
    /\ UNCHANGED <<partial, pnext, slots, fileVars>>

AllocAppend(t) ==
    /\ At(t, "append")
    /\ slots' = slots \cup {Slot(t)}
    /\ GoTo(t, "link")
    /\ UNCHANGED <<partial, pnext, cnt, marks, fileVars>>

----------------------------------------------------------------------------
(* pdpool.putpartial: slot.pnext, shared with whoever pushes the same slot, is stored, ...  *)

PutLink(t) ==
    /\ At(t, "link")
    /\ pnext' = [pnext EXCEPT ![Slot(t)] = partial]
    /\ GoTo(t, "expect")
    /\ UNCHANGED <<partial, cnt, marks, slots, fileVars>>

\* ... read again ...
PutExpect(t) ==
    /\ At(t, "expect")
    /\ thread' = [thread EXCEPT ![t].next = pnext[Slot(t)], ![t].pc = "push"]
    /\ UNCHANGED <<poolVars, fileVars>>

\* ... and expected on top.  alloc goes on with its descriptor, pollClose takes the file out
\* of epoll.
PutPush(t) ==
    /\ At(t, "push")
    /\ partial' = IF partial = thread[t].next THEN Slot(t) ELSE partial
    /\ thread' = [thread EXCEPT
         ![t].next = Nil,
         ![t].pc = IF partial # thread[t].next THEN "link"
                   ELSE IF fstate[File(t)] = "opening" THEN "register" ELSE "del"]
    /\ UNCHANGED <<pnext, cnt, marks, slots, fileVars>>

putpartial(t) == PutLink(t) \/ PutExpect(t) \/ PutPush(t)

----------------------------------------------------------------------------
(* pdpool.free *)

\* The mark is a plain store.
FreeUnmark(t) ==
    /\ At(t, "unmark")
    /\ marks' = marks \ {Pd(t)}
    /\ GoTo(t, "sub")
    /\ UNCHANGED <<partial, pnext, cnt, slots, fileVars>>

\* A slot that was full has room again.
FreeSub(t) ==
    /\ At(t, "sub")
    /\ cnt' = [cnt EXCEPT ![Slot(t)] = @ - 1]
    /\ GoTo(t, IF cnt[Slot(t)] = SlotSize THEN "link" ELSE "del")
    /\ UNCHANGED <<partial, pnext, marks, slots, fileVars>>

----------------------------------------------------------------------------
(* openFile and File.Close, with pollOpen and pollClose *)

UnusedFiles == {f \in Files : fstate[f] = "none"}

openFile(t) ==
    /\ At(t, "idle")
    /\ UnusedFiles # {}
    /\ LET f == CHOOSE f \in UnusedFiles : TRUE  \* it does not matter which
       IN  /\ fstate' = [fstate EXCEPT ![f] = "opening"]
           /\ thread' = [thread EXCEPT ![t] = [ThreadIdle EXCEPT !.pc = "alloc", !.file = f]]
    /\ UNCHANGED <<poolVars, reg, fpd>>

\* The descriptor and the file, which no other thread knows, name each other.
PollRegister(t) ==
    /\ At(t, "register")
    /\ fpd' = [fpd EXCEPT ![File(t)] = Pd(t)]
    /\ reg' = [reg EXCEPT ![Pd(t)] = File(t)]
    /\ GoTo(t, "add")
    /\ UNCHANGED <<poolVars, fstate>>

\* EPOLL_CTL_ADD, or the descriptor is given back.
PollAdd(t) ==
    /\ At(t, "add")
    /\ \/ /\ fstate' = [fstate EXCEPT ![File(t)] = "open"]
          /\ thread' = [thread EXCEPT ![t] = ThreadIdle]
       \/ /\ fstate' = [fstate EXCEPT ![File(t)] = "closing"]
          /\ GoTo(t, "recycle")
    /\ UNCHANGED <<poolVars, reg, fpd>>

\* The first who closes the file goes on.
Close(t) ==
    /\ At(t, "idle")
    /\ \E f \in Files :
         /\ fstate[f] = "open"
         /\ fstate' = [fstate EXCEPT ![f] = "closing"]
         /\ thread' = [thread EXCEPT ![t] = [ThreadIdle EXCEPT
              !.pc = "recycle", !.file = f, !.slot = fpd[f][1], !.idx = fpd[f][2]]]
    /\ UNCHANGED <<poolVars, reg, fpd>>

PollRecycle(t) ==
    /\ At(t, "recycle")
    /\ reg' = [reg EXCEPT ![Pd(t)] = Nil]
    /\ GoTo(t, "unmark")
    /\ UNCHANGED <<poolVars, fpd, fstate>>

\* EPOLL_CTL_DEL and close; the File is garbage then, and may be another.
PollDel(t) ==
    /\ At(t, "del")
    /\ fstate' = [fstate EXCEPT ![File(t)] = "none"]
    /\ fpd' = [fpd EXCEPT ![File(t)] = NoPd]
    /\ thread' = [thread EXCEPT ![t] = ThreadIdle]
    /\ UNCHANGED <<poolVars, reg>>

alloc(t) ==
    \/ AllocTop(t) \/ AllocCount(t) \/ AllocUncount(t) \/ AllocNext(t) \/ AllocPop(t)
    \/ AllocScan(t) \/ AllocMark(t) \/ AllocNew(t) \/ AllocAppend(t) \/ putpartial(t)

SysNext ==
    \E t \in Threads :
       \/ alloc(t) \/ FreeUnmark(t) \/ FreeSub(t)
       \/ openFile(t) \/ PollRegister(t) \/ PollAdd(t)
       \/ Close(t) \/ PollRecycle(t) \/ PollDel(t)

----------------------------------------------------------------------------
(* Properties *)

SysTypeOK ==
    /\ partial \in slots \cup {Nil}
    /\ pnext \in [SlotIds -> slots \cup {Nil}]
    /\ cnt \in [SlotIds -> 0..(SlotSize + Cardinality(Threads))]
    /\ marks \subseteq SlotIds \X Indices
    /\ reg \in [SlotIds \X Indices -> Files \cup {Nil}]
    /\ fpd \in [Files -> (SlotIds \X Indices) \cup {NoPd}]
    /\ fstate \in [Files -> {"none", "opening", "open", "closing"}]

\* The descriptor of an open file is marked and holds that file, and no other file's: the
\* two exchanges that give a thread a descriptor of a slot are enough.
PdRegistered ==
    \A f \in Files : fstate[f] = "open" => fpd[f] \in marks /\ reg[fpd[f]] = f

\* A thread whose count fitted finds an unmarked descriptor, whatever the counts above
\* SlotSize of those that did not: the scan does not run for ever.
ScanFinds ==
    \A s \in SlotIds :
       Cardinality({d \in marks : d[1] = s})
         + Cardinality({t \in Threads : Slot(t) = s /\ thread[t].pc \in {"scan", "mark"}}) <= SlotSize

\* The pool's links and the descriptors are words the garbage collector does not follow: a
\* slot that only they name has to be in p.slots.
SlotKept ==
    {partial} \cup {pnext[s] : s \in SlotIds} \cup {fpd[f][1] : f \in Files} \subseteq slots \cup {Nil}

\* Every open file has a descriptor of its own, in a slot that is kept, and a thread that was
\* given a count in a slot finds one there.
SlotsExact == PdRegistered /\ ScanFinds /\ SlotKept
=============================================================================
