-------------------------------- MODULE Zik --------------------------------
(***************************************************************************)
(* The kernel driver of zax-inspector.  A request compares a table of the  *)
(* kernel with the original one in its file: it reports the entries to a   *)
(* page of the window or restores them.  The thread of each process that   *)
(* has the device open runs its requests; another driver may write an      *)
(* entry from another processor at any moment.                             *)
(*                                                                         *)
(* An address is the original one or another one (TRUE: hooked).           *)
(***************************************************************************)
EXTENDS Naturals, Sequences, FiniteSets

CONSTANTS
    Instances,   \* processes of ZaxInspector
    Limit,       \* entries of a table
    MaxHooks     \* bound: entries another driver writes

ASSUME ZikAssumption == IsFiniteSet(Instances) /\ Limit \in Nat \ {0} /\ MaxHooks \in Nat

VARIABLES
    driver,      \* none, running, or pending: stopped with a handle of its device open
    table,       \* table[t][i]: the entry is hooked
    req,         \* the request of each process
    hooks,       \* entries written by the other driver so far
    since,       \* auxiliary: entries it wrote since the last request began
    halted       \* the system has stopped

zikVars == <<driver, table, req, hooks, since, halted>>

\* The service table and the one of win32k.
Tables == {"ssdt", "ssdts"}

\* op and write: the control code.  buf: there is a user buffer, where count and items are put.
\* wp: write protection and interrupts are off.  file: the image's file is open.
NoRequest == [op |-> "none", write |-> FALSE, buf |-> FALSE, pc |-> "none", i |-> 0, count |-> 0,
              items |-> <<>>, ok |-> FALSE, wp |-> FALSE, file |-> FALSE]

ZikInit ==
    /\ driver = "none"
    /\ table = [t \in Tables |-> [i \in 1..Limit |-> FALSE]]
    /\ req = [p \in Instances |-> NoRequest]
    /\ hooks = 0 /\ since = {} /\ halted = FALSE

----------------------------------------------------------------------------
(* The life of the driver *)

\* The device is created for one handle at a time.
Exclusive(handles) == handles = {}

\* The driver is loaded, or the device or its link cannot be created.
DriverEntry == driver = "none" /\ driver' \in {"none", "running"}

\* With the last handle a stopped driver is unloaded: DriverUnload deletes link and device.
DriverUnload(d, handles) == IF d = "pending" /\ handles = {} THEN "none" ELSE d

\* The driver after a stop.
DriverAfter(handles) == DriverUnload(IF driver = "running" THEN "pending" ELSE driver, handles)

----------------------------------------------------------------------------
(* Requests *)

At(p, op, pc) == req[p].op = op /\ req[p].pc = pc

\* EnumSSDT's status is not looked at.
Ignored(op, ok) == ok \/ op = "ssdt"

Completed(r, ok) == [r EXCEPT !.pc = "done", !.ok = Ignored(r.op, ok)]

Becomes(p, r) == req' = [req EXCEPT ![p] = r]

\* The table and its file are found and memory is there, or not.
EnumEnter(p, op) ==
    /\ At(p, op, "enter")
    /\ Becomes(p, [req[p] EXCEPT !.pc = "open"]) \/ Becomes(p, Completed(req[p], FALSE))
    /\ UNCHANGED <<driver, table, hooks, since, halted>>

\* A failed IoCreateFile leaves hFile uninitialised, and EnumSSDTShadow closes it if it is not
\* zero: a handle that names nothing stops the system.
EnumOpen(p, op) ==
    /\ At(p, op, "open")
    /\ \/ Becomes(p, [req[p] EXCEPT !.pc = "read", !.file = TRUE]) /\ halted' = halted
       \/ /\ Becomes(p, Completed(req[p], FALSE))
          /\ halted' \in {FALSE, op = "ssdts"}
    /\ UNCHANGED <<driver, table, hooks, since>>

\* Mutation: wp_off before the file is read.
EnumReadEarly(p, op) ==
    /\ At(p, op, "read")
    /\ LET r == [req[p] EXCEPT !.wp = req[p].write]
       IN  \/ Becomes(p, [r EXCEPT !.pc = "entry", !.count = IF r.buf THEN Limit ELSE 0])
           \/ Becomes(p, Completed([r EXCEPT !.file = FALSE], FALSE))
    /\ UNCHANGED <<driver, table, hooks, since, halted>>

\* The original entries are read from the file, or the file is closed.
EnumRead(p, op) ==
    /\ At(p, op, "read")
    /\ \/ Becomes(p, [req[p] EXCEPT !.pc = "entry", !.wp = req[p].write,
                                    !.count = IF req[p].buf THEN Limit ELSE 0])
       \/ Becomes(p, Completed([req[p] EXCEPT !.file = FALSE], FALSE))
    /\ UNCHANGED <<driver, table, hooks, since, halted>>

\* Mutation of EnumEntries: the last entry is left out.
EnumEntriesButLast == Limit - 1

\* Turns of the loop.
EnumEntries == Limit

\* An entry is restored or reported.
EnumEntry(p, op) ==
    /\ At(p, op, "entry") /\ req[p].i < EnumEntries
    /\ LET r == req[p]  i == r.i + 1
       IN  /\ table' = IF r.write THEN [table EXCEPT ![op][i] = FALSE] ELSE table
           /\ Becomes(p, [r EXCEPT !.i = i, !.items = IF r.buf THEN Append(@, table[op][i]) ELSE @])
    /\ UNCHANGED <<driver, hooks, since, halted>>

EnumEnd(p, op) ==
    /\ At(p, op, "entry") /\ req[p].i = EnumEntries
    /\ Becomes(p, Completed([req[p] EXCEPT !.wp = FALSE, !.file = FALSE], TRUE))
    /\ UNCHANGED <<driver, table, hooks, since, halted>>

EnumStep(p, op) ==
    EnumEnter(p, op) \/ EnumOpen(p, op) \/ EnumRead(p, op) \/ EnumEntry(p, op) \/ EnumEnd(p, op)

EnumSSDT(p) == EnumStep(p, "ssdt")
EnumSSDTShadow(p) == EnumStep(p, "ssdts")

\* Mutation: one entry more than the page expects.
EnumIDTOneMore(p) ==
    /\ At(p, "idt", "enter")
    /\ LET items == [i \in 1..(Limit + 1) |-> FALSE]
       IN  Becomes(p, Completed([req[p] EXCEPT !.items = IF req[p].buf THEN items ELSE @], req[p].buf))
    /\ UNCHANGED <<driver, table, hooks, since, halted>>

\* All gates are copied to the buffer, if it can be written to.
EnumIDT(p) ==
    /\ At(p, "idt", "enter")
    /\ LET items == [i \in 1..Limit |-> FALSE]
       IN  Becomes(p, Completed([req[p] EXCEPT !.items = IF req[p].buf THEN items ELSE @], req[p].buf))
    /\ UNCHANGED <<driver, table, hooks, since, halted>>

\* The status is unsuccessful from the beginning, and is tested before anything is done.
EnumKernel(p) ==
    /\ At(p, "kernel", "enter")
    /\ Becomes(p, Completed(req[p], FALSE))
    /\ UNCHANGED <<driver, table, hooks, since, halted>>

DeviceDispatch(p) == EnumSSDT(p) \/ EnumSSDTShadow(p) \/ EnumIDT(p) \/ EnumKernel(p)

\* The other driver.
Hook(t, i) ==
    /\ hooks < MaxHooks
    /\ hooks' = hooks + 1
    /\ table' = [table EXCEPT ![t][i] = TRUE]
    /\ since' = since \cup {<<t, i>>}
    /\ UNCHANGED <<driver, req, halted>>
=============================================================================
