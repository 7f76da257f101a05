---------------------------- MODULE ZaxInspector ----------------------------
(***************************************************************************)
(* Processes of zax-inspector over one driver (Zik).  A process installs   *)
(* the driver as a service, replacing what it finds, opens its device,     *)
(* shows a page of one of the kernel's tables, and stops the driver when   *)
(* its window is closed.  Each process has one thread; a process may be    *)
(* killed when its thread is not in the kernel.                            *)
(*                                                                         *)
(* The service manager and the I/O manager are modelled by what the        *)
(* program's calls do: a service that is deleted while its driver runs or  *)
(* somebody has it open is marked, and goes when that ends; a marked       *)
(* service can be opened and stopped, but neither started nor created      *)
(* again; a driver that is stopped while its device is open refuses to be  *)
(* opened and is unloaded with the last handle.                            *)
(***************************************************************************)
EXTENDS Zik, SequencesExt

CONSTANT MaxEvents    \* bound: starts of a process and commands of its user

ASSUME ZaxAssumption == MaxEvents \in Nat

VARIABLES
    svc,         \* the service: none, there or marked
    proc,        \* the processes
    events,      \* starts and commands so far
    old,         \* auxiliary: processes that began after the present driver
    dirty        \* auxiliary: a process ended without ui_on_close, and the driver is still there

vars == <<zikVars, svc, proc, events, old, dirty>>

Pages == {"ssdt", "ssdts", "idt", "kernel"}

\* page: g_nCurrentPage and the columns.  list: the rows of the list view; stale (auxiliary): how
\* many of them, the last ones, a Restore all has left there.  file: the rows of an export, until
\* the next command.  cmd: what the thread is doing.
Off == [pc |-> "off", open |-> FALSE, page |-> "none", list |-> <<>>, stale |-> 0, file |-> <<>>,
        cmd |-> "none"]

Init ==
    /\ ZikInit
    /\ svc = "none" /\ proc = [p \in Instances |-> Off]
    /\ events = 0 /\ old = {} /\ dirty = FALSE

Open(ps) == {p \in Instances : ps[p].open}
AnyOpen == Open(proc)

\* The service is gone when it is marked, its driver not loaded and nobody has it open.
Removed(s, d, ps) ==
    IF s = "marked" /\ d = "none" /\ \A p \in Instances : ps[p].pc # "delete" THEN "none" ELSE s

\* What the managers make of driver d and service s; bad: a process ends without ui_on_close.
Settle(d, s, bad) ==
    /\ driver' = DriverUnload(d, Open(proc'))
    /\ svc' = Removed(s, driver', proc')
    /\ old' = IF driver' = "none" THEN {} ELSE {p \in old : proc'[p].pc # "off"}
    /\ dirty' = ((dirty \/ bad) /\ driver' # "none")

Proc(p, r) == proc' = [proc EXCEPT ![p] = r]
GoOn(p, pc) == Proc(p, [proc[p] EXCEPT !.pc = pc])
InPc(p, pc) == proc[p].pc = pc /\ ~halted
SameTables == UNCHANGED <<table, req, hooks, since, halted, events>>

----------------------------------------------------------------------------
(* ui_on_before_create *)

Systems == [build : {2600, 7600, 7601}, server : BOOLEAN]

rt_check_verion(s) == ~s.server /\ s.build \in {2600, 7601}
rt_is_administrator == BOOLEAN
rt_enable_privilege == BOOLEAN

\* The process begins, and ends again if it must not or cannot go on.
ui_on_before_create(p) ==
    /\ InPc(p, "off") /\ events < MaxEvents
    /\ events' = events + 1
    /\ \E s \in Systems, admin \in rt_is_administrator, debug \in rt_enable_privilege :
         LET started == rt_check_verion(s) /\ admin /\ debug
         IN  /\ GoOn(p, IF started THEN "stop" ELSE "off")
             /\ old' = IF started /\ driver # "none" THEN old \cup {p} ELSE old
    /\ UNCHANGED <<zikVars, svc, dirty>>

\* SERVICE_CONTROL_STOP.
drv_control == IF svc = "none" THEN driver ELSE DriverAfter(AnyOpen)

\* Mutation: the service is deleted without being stopped.
InstallStopNone(p) ==
    /\ InPc(p, "stop")
    /\ GoOn(p, IF svc = "none" THEN "create" ELSE "delete")
    /\ Settle(driver, svc, FALSE)
    /\ SameTables

\* drv_install always replaces the service.  From here to DeleteService it is open.
InstallStop(p) ==
    /\ InPc(p, "stop")
    /\ GoOn(p, IF svc = "none" THEN "create" ELSE "delete")
    /\ Settle(drv_control, svc, FALSE)
    /\ SameTables

InstallDelete(p) ==
    /\ InPc(p, "delete")
    /\ GoOn(p, "create")
    /\ Settle(driver, "marked", FALSE)
    /\ SameTables

InstallCreate(p) ==
    /\ InPc(p, "create")
    /\ GoOn(p, "start")
    /\ Settle(driver, IF svc = "none" THEN "there" ELSE svc, FALSE)
    /\ SameTables

drv_install(p) == InstallStop(p) \/ InstallDelete(p) \/ InstallCreate(p)

\* The answer is not looked at.
drv_start(p) ==
    /\ InPc(p, "start")
    /\ GoOn(p, "link")
    /\ \/ svc = "there" /\ DriverEntry
       \/ (svc # "there" \/ driver # "none") /\ driver' = driver
    /\ old' = IF driver = "none" THEN {} ELSE old
    /\ UNCHANGED <<svc, dirty>>
    /\ SameTables

drv_link(p) ==
    /\ InPc(p, "link")
    /\ Proc(p, [proc[p] EXCEPT !.pc = "window", !.open = (driver = "running" /\ Exclusive(AnyOpen))])
    /\ UNCHANGED <<driver, svc, old, dirty>>
    /\ SameTables

drv_initialize(p) == drv_install(p) \/ drv_start(p) \/ drv_link(p)

----------------------------------------------------------------------------
(* Ends of a process *)

\* Its handles are closed.
Gone(p) ==
    /\ Proc(p, Off)
    /\ req' = [req EXCEPT ![p] = NoRequest]
    /\ Settle(driver, svc, TRUE)
    /\ UNCHANGED <<table, hooks, since, halted, events>>

Killed(p) ==
    /\ proc[p].pc # "off" /\ ~halted
    /\ req[p].pc \in {"none", "done"}
    /\ Gone(p)

----------------------------------------------------------------------------
(* Pages *)

\* The buffer of a page, unless there is no memory.
rt_valloc == BOOLEAN

\* The thread enters the driver, or finds that it has no device.
drv_callkernel(p, page, write, buf) ==
    LET r == [NoRequest EXCEPT !.op = page, !.write = write, !.buf = buf]
    IN  /\ req' = [req EXCEPT ![p] = [r EXCEPT !.pc = IF proc[p].open THEN "enter" ELSE "done"]]
        /\ since' = IF proc[p].open THEN {} ELSE since

\* page_ssdt, page_ssdts, page_idt and page_kernel begin alike.
PageRead(p, page) == \E buf \in rt_valloc : drv_callkernel(p, page, FALSE, buf)

OnlyProc == UNCHANGED <<driver, table, hooks, halted, svc, old, dirty>>

page_refresh(p, page, cmd) ==
    /\ Proc(p, [proc[p] EXCEPT !.pc = "request", !.page = page, !.list = <<>>, !.stale = 0,
                               !.file = <<>>, !.cmd = cmd])
    /\ PageRead(p, page)

\* The columns of the page, and its rows.
page_chage(p, page) == page_refresh(p, page, "refresh") /\ OnlyProc

ui_on_after_create(p) == page_chage(p, "ssdt")

\* A window that cannot be created ends the process, without drv_deinitialize.
ui_create(p) ==
    /\ InPc(p, "window")
    /\ \/ ui_on_after_create(p) /\ events' = events
       \/ Gone(p)

\* The user's commands, when the thread waits for a message.
Op(p) == InPc(p, "idle") /\ events < MaxEvents /\ events' = events + 1

ui_on_tabctrl_change(p) == Op(p) /\ \E page \in Pages : page_chage(p, page)

\* The menu of a page.
Menus == [page \in Pages |-> {"refresh", "export"} \cup (IF page = "idt" THEN {} ELSE {"restoreall"})]

\* The menu of the current page, if a row was hit.
ui_on_lv_rightclick(p, cmd) == proc[p].list # <<>> /\ cmd \in Menus[proc[p].page]

\* The dialog may be cancelled; the file cannot be created then.
rt_save_dialog == BOOLEAN

page_export(p) ==
    \E saved \in rt_save_dialog :
       \/ saved /\ page_refresh(p, proc[p].page, "export")
       \/ ~saved /\ UNCHANGED <<proc, req, since>>

\* The list view is not cleared.
page_restoreall(p) ==
    /\ Proc(p, [proc[p] EXCEPT !.pc = "request", !.stale = Len(proc[p].list), !.file = <<>>,
                               !.cmd = "restoreall"])
    /\ drv_callkernel(p, proc[p].page, TRUE, FALSE)

ui_on_command(p) ==
    /\ Op(p)
    /\ \/ ui_on_lv_rightclick(p, "refresh") /\ page_refresh(p, proc[p].page, "refresh")
       \/ ui_on_lv_rightclick(p, "export") /\ page_export(p)
       \/ ui_on_lv_rightclick(p, "restoreall") /\ page_restoreall(p)
    /\ OnlyProc

\* The rows of an answer: page, index, hooked.  What the driver did not write is zero.
RowsUpTo(r, n) == [i \in 1..n |-> <<r.op, i, i <= Len(r.items) /\ r.items[i]>>]

page_ssdt(r) == RowsUpTo(r, r.count)
page_ssdts(r) == RowsUpTo(r, r.count)
page_idt(r) == RowsUpTo(r, Limit)
\* Every row is put on top.
page_kernel(r) == [i \in 1..r.count |-> <<r.op, 1, FALSE>>]

PageRows(r) == CASE r.op = "ssdt" -> page_ssdt(r) [] r.op = "ssdts" -> page_ssdts(r)
                 [] r.op = "idt" -> page_idt(r) [] r.op = "kernel" -> page_kernel(r)

\* Mutation: every row is put on top.
ui_lv_insert_itemFront(list, i, row) == <<row>> \o list

\* A row is inserted before the one with its index.
ui_lv_insert_item(list, i, row) == SubSeq(list, 1, i - 1) \o <<row>> \o SubSeq(list, i, Len(list))

\* A row is appended to the file of an export.
rt_write(file, row, cmd) == IF cmd = "export" THEN Append(file, row) ELSE file

\* The loop over the rows of an answer.
Answered(r, cmd, list) ==
    FoldLeft(LAMBDA lf, row : <<ui_lv_insert_item(lf[1], row[2], row), rt_write(lf[2], row, cmd)>>,
             <<list, <<>>>>, PageRows(r))

\* drv_callkernel returns.  After a restore the page is read again, on top of what it shows.
\* Without a buffer a page that trusts the answer ends the process.
PageStep(p) ==
    /\ InPc(p, "request") /\ req[p].pc = "done"
    /\ LET r == req[p]
           shown == IF r.ok THEN Answered(r, proc[p].cmd, proc[p].list) ELSE <<proc[p].list, <<>>>>
       IN  \/ /\ r.write
              /\ Proc(p, [proc[p] EXCEPT !.cmd = "refresh"])
              /\ PageRead(p, r.op)
              /\ OnlyProc /\ events' = events
           \/ /\ ~r.write /\ (r.ok => r.buf)
              /\ Proc(p, [proc[p] EXCEPT !.pc = "idle", !.cmd = "none", !.list = shown[1], !.file = shown[2]])
              /\ req' = [req EXCEPT ![p] = NoRequest]
              /\ since' = since
              /\ OnlyProc /\ events' = events
           \/ /\ ~r.write /\ r.ok /\ ~r.buf
              /\ Gone(p)

----------------------------------------------------------------------------
(* ui_on_close *)

\* drv_deinitialize stops the driver while its device is still open ...
ui_on_close(p) ==
    /\ InPc(p, "idle")
    /\ GoOn(p, "closing")
    /\ Settle(drv_control, svc, FALSE)
    /\ SameTables

\* ... and then closes it.
drv_deinitialize(p) ==
    /\ InPc(p, "closing")
    /\ Proc(p, Off)
    /\ Settle(driver, svc, FALSE)
    /\ SameTables

ui_wndproc(p) == ui_on_tabctrl_change(p) \/ ui_on_command(p) \/ ui_on_close(p) \/ drv_deinitialize(p)

ui_main(p) == ui_on_before_create(p) \/ drv_initialize(p) \/ ui_create(p) \/ PageStep(p) \/ ui_wndproc(p)

Next ==
    \/ \E p \in Instances :
         \/ ui_main(p) \/ Killed(p)
         \/ ~halted /\ DeviceDispatch(p) /\ UNCHANGED <<svc, proc, events, old, dirty>>
    \/ \E t \in Tables, i \in 1..Limit :
         ~halted /\ Hook(t, i) /\ UNCHANGED <<svc, proc, events, old, dirty>>

Spec == Init /\ [][Next]_vars

----------------------------------------------------------------------------
(* Properties *)

Busy(p) == req[p].pc \notin {"none", "done"}

\* Every variable has its type; no answer has more entries than the page expects of a table.
ZaxTypeOK ==
    /\ driver \in {"none", "running", "pending"} /\ svc \in {"none", "there", "marked"}
    /\ table \in [Tables -> [1..Limit -> BOOLEAN]]
    /\ hooks \in 0..MaxHooks /\ events \in 0..MaxEvents
    /\ since \subseteq Tables \X (1..Limit) /\ old \subseteq Instances
    /\ halted \in BOOLEAN /\ dirty \in BOOLEAN
    /\ \A p \in Instances :
         /\ req[p].op \in Pages \cup {"none"} /\ req[p].pc \in {"none", "enter", "open", "read", "entry", "done"}
         /\ req[p].i \in 0..Limit /\ req[p].count \in 0..Limit /\ Len(req[p].items) <= Limit
         /\ proc[p].pc \in {"off", "stop", "delete", "create", "start", "link", "window", "request", "idle", "closing"}
         /\ proc[p].page \in Pages \cup {"none"} /\ proc[p].open \in BOOLEAN
         /\ proc[p].cmd \in {"none", "refresh", "export", "restoreall"}

\* On every path out of EnumSSDT and EnumSSDTShadow the processor's write protection and its
\* interrupts are on again and the image's file is closed.
WpRestored == \A p \in Instances : ~Busy(p) => ~req[p].wp /\ ~req[p].file

\* The loops over the tables have no lock, and never run twice at once: the device has one handle.
OneRequest == \A p, q \in Instances : Busy(p) /\ Busy(q) => p = q

\* A request that went through its table restored or reported all of it, save for the entries
\* the other driver wrote after it began.
TableTrue ==
    \A p \in Instances :
       LET r == req[p]
       IN  r.pc = "done" /\ r.op \in Tables /\ r.i > 0 =>
             \A i \in 1..Limit : <<r.op, i>> \notin since =>
                /\ r.write => ~table[r.op][i]
                /\ ~r.write /\ r.buf => i <= Len(r.items) /\ r.items[i] = table[r.op][i]

\* A process has the device of a driver that was loaded after the process began: drv_install
\* never leaves it with the one of a process that was killed.
FreshDriver == \A p \in Instances : proc[p].open => p \notin old

\* When every process has closed its window the driver is unloaded, whatever they did to each
\* other's service on the way.
UnloadedAtEnd == (\A p \in Instances : proc[p].pc = "off") /\ ~dirty => driver = "none"

\* The list view shows rows of the current page only, although page number, columns and rows
\* are set by different functions.
RowsOfPage == \A p \in Instances : \A i \in DOMAIN proc[p].list : proc[p].list[i][1] = proc[p].page

\* The rows above those a Restore all has left.
TopRows(p) == Len(proc[p].list) - proc[p].stale

\* They are the whole table or nothing, each entry once and in its place, and say of every entry
\* what the kernel's table holds, unless another driver wrote it since they were asked for.
\* Nothing of the kind is true of the rows below.
RowsTrue ==
    \A p \in Instances :
       LET l == proc[p].list  page == proc[p].page
       IN  /\ TopRows(p) \in {0, Limit}
           /\ \A i \in 1..TopRows(p) :
                /\ l[i][2] = i
                /\ page \in Tables /\ <<page, i>> \notin since => l[i][3] = table[page][i]

\* The file page_export writes has the rows of the list view, in their order, and no row that a
\* Restore all has left.
ExportIsList ==
    \A p \in Instances : proc[p].file # <<>> => proc[p].file = proc[p].list /\ proc[p].stale = 0

\* Whatever way a request ends it leaves the processor as it was, and it never met another.
RequestSafe == WpRestored /\ OneRequest

\* A process works with a driver of its own, and takes it along.
DriverReplaced == FreshDriver /\ UnloadedAtEnd

\* What page_refresh and page_chage show, and what page_export writes, is the table of the
\* current page; after Restore all it is the upper part of what is shown.
ListTrue == RowsOfPage /\ RowsTrue /\ ExportIsList

Symmetric == Permutations(Instances)
=============================================================================
