------------------------------ MODULE ZaxProofs ------------------------------
(***************************************************************************)
(* Proofs about ZaxInspector and its driver, for any number of processes,  *)
(* tables of any length, and any number of writes of the other driver.     *)
(* The invariant of the driver and its service comes first; the rows of    *)
(* the list view have two of their own (Lists, Tops), which rest on it.    *)
(***************************************************************************)
EXTENDS ZaxInspector, FiniteSetTheorems, SequenceTheorems, TLAPS

RequestPCs == {"none", "enter", "open", "read", "entry", "done"}
ProcessPCs == {"off", "stop", "delete", "create", "start", "link", "window", "request", "idle", "closing"}
Commands == {"none", "refresh", "export", "restoreall"}

Request == [op : Pages \cup {"none"}, write : BOOLEAN, buf : BOOLEAN, pc : RequestPCs,
            i : 0..Limit, count : 0..Limit, items : Seq(BOOLEAN),
            ok : BOOLEAN, wp : BOOLEAN, file : BOOLEAN]

\* A process.  Of the rows only the fields that hold them are stated.
IsProcess(r) ==
    r \in [pc : ProcessPCs, open : BOOLEAN, page : Pages \cup {"none"},
           list : {r.list}, stale : {r.stale}, file : {r.file}, cmd : Commands]

Types ==
    /\ driver \in {"none", "running", "pending"} /\ svc \in {"none", "there", "marked"}
    /\ table \in [Tables -> [1..Limit -> BOOLEAN]]
    /\ req \in [Instances -> Request]
    /\ hooks \in 0..MaxHooks /\ events \in 0..MaxEvents
    /\ since \subseteq Tables \X (1..Limit) /\ old \subseteq Instances
    /\ halted \in BOOLEAN /\ dirty \in BOOLEAN
    /\ DOMAIN proc = Instances /\ \A p \in Instances : IsProcess(proc[p])

\* What a request has at its step: the write protection is off in the loop only, and the
\* loop's index counts the entries in the buffer.
ReqShape(r) ==
    /\ r.wp => r.pc = "entry"
    /\ r.file => r.pc \in {"read", "entry"}
    /\ r.pc \in {"none", "enter", "open", "read"} => r.i = 0 /\ r.items = <<>>
    /\ r.pc \in {"open", "read", "entry"} => r.op \in Tables
    /\ r.op \in Tables => Len(r.items) = IF r.buf THEN r.i ELSE 0
    /\ r.op \notin Tables => r.i = 0
    /\ Len(r.items) <= Limit
    /\ r.pc = "done" /\ r.i > 0 => r.i = Limit

\* The entries the loop has passed are restored or reported, but for those written since.
Copied(r, tab, late) ==
    r.op \in Tables => \A i \in 1..r.i : <<r.op, i>> \notin late =>
        /\ r.write => ~tab[r.op][i]
        /\ ~r.write /\ r.buf => r.items[i] = tab[r.op][i]

Requests == \A p \in Instances : ReqShape(req[p]) /\ Copied(req[p], table, since)

\* The device has one handle, and a request that met the driver has it.
OneHandle == \A p, q \in Instances : proc[p].open /\ proc[q].open => p = q

HandleKept ==
    \A p \in Instances :
       /\ proc[p].open => proc[p].pc \in {"window", "request", "idle", "closing"}
       /\ Busy(p) \/ req[p].i > 0 => proc[p].open
       /\ req[p].pc # "none" => proc[p].pc = "request"

\* A process that has yet to close its window.
Holding == {"link", "window", "request", "idle"}

\* A driver has a service; one that a process found when it began is on its way out when
\* that process has stopped it; a stopped one waits for a handle, and one that runs for the
\* process that will stop it.
DriverLife ==
    /\ svc = "none" => driver = "none"
    /\ driver = "none" => old = {}
    /\ \A p \in old : /\ ~proc[p].open /\ proc[p].pc # "off"
                      /\ proc[p].pc # "stop" => driver = "pending"
    /\ driver = "pending" => AnyOpen # {}
    /\ driver = "running" /\ ~dirty => \E p \in Instances : proc[p].pc \in Holding

IInv == Types /\ Requests /\ OneHandle /\ HandleKept /\ DriverLife

-----------------------------------------------------------------------------
\* What the run checks follows from the invariant.
LEMMA InvTypeOK == IInv => ZaxTypeOK
<1>. SUFFICES ASSUME IInv PROVE ZaxTypeOK
  OBVIOUS
<1>1. ASSUME NEW p \in Instances
      PROVE  /\ req[p].op \in Pages \cup {"none"} /\ req[p].pc \in RequestPCs
             /\ req[p].i \in 0..Limit /\ req[p].count \in 0..Limit /\ Len(req[p].items) <= Limit
  <2>1. req[p] \in Request /\ ReqShape(req[p])
    BY DEF IInv, Types, Requests
  <2>. QED BY <2>1 DEF Request, ReqShape
<1>2. ASSUME NEW p \in Instances
      PROVE  /\ proc[p].pc \in ProcessPCs /\ proc[p].open \in BOOLEAN
             /\ proc[p].page \in Pages \cup {"none"} /\ proc[p].cmd \in Commands
  BY DEF IInv, Types, IsProcess
<1>. QED BY <1>1, <1>2 DEF IInv, Types, ZaxTypeOK, RequestPCs, ProcessPCs, Commands

\* A request that is not in the driver has left the processor as it was.
LEMMA InvRequestSafe == IInv => RequestSafe
<1>. SUFFICES ASSUME IInv PROVE RequestSafe
  OBVIOUS
<1>1. WpRestored
  <2>. SUFFICES ASSUME NEW p \in Instances, ~Busy(p) PROVE ~req[p].wp /\ ~req[p].file
    BY DEF WpRestored
  <2>1. ReqShape(req[p])
    BY DEF IInv, Requests
  <2>. QED BY <2>1 DEF ReqShape, Busy
<1>2. OneRequest
  BY DEF IInv, HandleKept, OneHandle, OneRequest
<1>. QED BY <1>1, <1>2 DEF RequestSafe

\* A request that is done went through the whole table or through none of it.
LEMMA InvTableTrue == IInv => TableTrue
<1>. SUFFICES ASSUME IInv, NEW p \in Instances, req[p].pc = "done", req[p].op \in Tables, req[p].i > 0,
                     NEW i \in 1..Limit, <<req[p].op, i>> \notin since
              PROVE  /\ req[p].write => ~table[req[p].op][i]
                     /\ ~req[p].write /\ req[p].buf =>
                           i <= Len(req[p].items) /\ req[p].items[i] = table[req[p].op][i]
  BY DEF TableTrue
<1>1. ReqShape(req[p]) /\ Copied(req[p], table, since)
  BY DEF IInv, Requests
<1>2. req[p].i = Limit /\ (req[p].buf => Len(req[p].items) = Limit)
  BY <1>1 DEF ReqShape
<1>. QED BY <1>1, <1>2, ZikAssumption DEF Copied

\* A process with a handle came before its driver, and somebody will stop a driver that runs.
LEMMA InvDriverReplaced == IInv => DriverReplaced
<1>. SUFFICES ASSUME IInv PROVE DriverReplaced
  OBVIOUS
<1>1. FreshDriver
  BY DEF IInv, DriverLife, FreshDriver
<1>2. UnloadedAtEnd
  <2>. SUFFICES ASSUME \A p \in Instances : proc[p].pc = "off", ~dirty, driver # "none" PROVE FALSE
    BY DEF UnloadedAtEnd
  <2>1. \A p \in Instances : proc[p].pc \notin Holding /\ ~proc[p].open
    BY DEF IInv, HandleKept, Holding
  <2>2. driver # "running"
    BY <2>1 DEF IInv, DriverLife
  <2>3. driver # "pending"
    BY <2>1 DEF IInv, DriverLife, AnyOpen, Open
  <2>. QED BY <2>2, <2>3 DEF IInv, Types
<1>. QED BY <1>1, <1>2 DEF DriverReplaced

-----------------------------------------------------------------------------
(* The driver *)

\* No process runs in the beginning, and there is no driver.
LEMMA InitInv == Init => IInv
<1>. SUFFICES ASSUME Init PROVE IInv
  OBVIOUS
<1>. USE ZikAssumption, ZaxAssumption DEF Init, ZikInit
<1>1. NoRequest \in Request
  BY DEF NoRequest, Request, RequestPCs
<1>2. \A p \in Instances : proc[p] = Off /\ req[p] = NoRequest
  OBVIOUS
<1>3. IsProcess(Off)
  BY DEF IsProcess, Off, ProcessPCs, Commands
<1>4. Types
  <2>1. req \in [Instances -> Request]
    BY <1>1
  <2>2. table \in [Tables -> [1..Limit -> BOOLEAN]]
    OBVIOUS
  <2>3. DOMAIN proc = Instances
    OBVIOUS
  <2>4. \A p \in Instances : IsProcess(proc[p])
    BY <1>2, <1>3
  <2>5. hooks \in 0..MaxHooks /\ events \in 0..MaxEvents
    OBVIOUS
  <2>6. since \subseteq Tables \X (1..Limit) /\ old \subseteq Instances
    OBVIOUS
  <2>7. /\ driver \in {"none", "running", "pending"} /\ svc \in {"none", "there", "marked"}
        /\ halted \in BOOLEAN /\ dirty \in BOOLEAN
    OBVIOUS
  <2>. QED BY ONLY <2>1, <2>2, <2>3, <2>4, <2>5, <2>6, <2>7 DEF Types
<1>5. Requests
  <2>1. NoRequest.op = "none" /\ NoRequest.pc = "none" /\ NoRequest.i = 0 /\ NoRequest.items = <<>>
        /\ ~NoRequest.wp /\ ~NoRequest.file
    BY DEF NoRequest
  <2>2. ReqShape(NoRequest)
    BY <2>1 DEF ReqShape, Tables
  <2>3. Copied(NoRequest, table, since)
    BY <2>1 DEF Copied
  <2>. QED BY <1>2, <2>2, <2>3 DEF Requests
<1>6. OneHandle /\ HandleKept
  BY <1>2 DEF OneHandle, HandleKept, Off, NoRequest, Busy
<1>. QED BY <1>4, <1>5, <1>6 DEF IInv, DriverLife

\* A step of the driver changes one request, the table and whether the system goes on.
LEMMA RequestStep ==
    ASSUME IInv, NEW p \in Instances, NEW r \in Request, Busy(p), Becomes(p, r),
           UNCHANGED <<driver, hooks, since, svc, proc, events, old, dirty>>,
           halted' \in BOOLEAN, table' \in [Tables -> [1..Limit -> BOOLEAN]],
           r.pc # "none", ReqShape(r), Copied(r, table', since),
           \A q \in Instances \ {p} : Copied(req[q], table', since)
    PROVE  IInv'
<1>1. req'[p] = r /\ \A q \in Instances \ {p} : req'[q] = req[q]
  BY DEF IInv, Types, Becomes
<1>2. Types'
  <2>1. req' \in [Instances -> Request]
    BY DEF IInv, Types, Becomes
  <2>. QED BY <2>1 DEF IInv, Types
<1>3. Requests'
  <2>1. \A q \in Instances \ {p} : ReqShape(req[q])
    BY DEF IInv, Requests
  <2>. QED BY <1>1, <2>1 DEF Requests
<1>4. OneHandle'
  BY DEF IInv, OneHandle
<1>5. HandleKept'
  <2>1. proc[p].open /\ proc[p].pc = "request"
    BY DEF IInv, HandleKept, Busy
  <2>. QED BY <1>1, <2>1 DEF IInv, HandleKept, Busy
<1>6. DriverLife'
  BY DEF IInv, DriverLife, AnyOpen, Open
<1>. QED BY <1>2, <1>3, <1>4, <1>5, <1>6 DEF IInv

\* Two requests never meet: one that has passed entries has the handle.
LEMMA OthersIdle ==
    ASSUME IInv, NEW p \in Instances, proc[p].open, NEW q \in Instances \ {p}
    PROVE  req[q].i = 0
<1>1. ~proc[q].open
  BY DEF IInv, OneHandle
<1>2. req[q].i \in 0..Limit
  BY DEF IInv, Types, Request
<1>. QED BY <1>1, <1>2, ZikAssumption DEF IInv, HandleKept

\* A request that is at no entry has passed none.
LEMMA CopiedNone == ASSUME NEW r, r.i = 0, NEW tab, NEW late PROVE Copied(r, tab, late)
BY DEF Copied

\* The steps of the driver that leave the table alone keep the other requests as they are.
LEMMA OthersCopied ==
    ASSUME IInv, NEW p \in Instances PROVE \A q \in Instances \ {p} : Copied(req[q], table, since)
BY DEF IInv, Requests

\* The fields of a request.
LEMMA RequestFields ==
    ASSUME IInv, NEW p \in Instances
    PROVE  /\ req[p] \in Request /\ ReqShape(req[p]) /\ Copied(req[p], table, since)
           /\ table \in [Tables -> [1..Limit -> BOOLEAN]] /\ halted \in BOOLEAN
BY DEF IInv, Types, Requests

\* A request ends: what it has left is kept, and the buffer is not touched.
LEMMA CompletedRequest ==
    ASSUME NEW r \in Request, NEW ok \in BOOLEAN
    PROVE  /\ Completed(r, ok) \in Request
           /\ Completed(r, ok).pc = "done"
           /\ Completed(r, ok).op = r.op /\ Completed(r, ok).write = r.write
           /\ Completed(r, ok).buf = r.buf /\ Completed(r, ok).i = r.i
           /\ Completed(r, ok).items = r.items
           /\ Completed(r, ok).wp = r.wp /\ Completed(r, ok).file = r.file
<1>1. Ignored(r.op, ok) \in BOOLEAN
  BY DEF Ignored
<1>. QED BY <1>1 DEF Completed, Request, RequestPCs

\* A request that ends before its loop began.
LEMMA EndsEarly ==
    ASSUME IInv, NEW p \in Instances, req[p].pc \in {"enter", "open"} \/ req[p].pc = "read",
           NEW r \in Request, r.op = req[p].op, r.write = req[p].write, r.buf = req[p].buf,
           r.i = req[p].i, r.items = req[p].items, ~r.wp, ~r.file, Becomes(p, Completed(r, FALSE)),
           UNCHANGED <<driver, table, hooks, since, svc, proc, events, old, dirty>>,
           halted' \in BOOLEAN
    PROVE  IInv'
<1>. DEFINE c == Completed(r, FALSE)
<1>1. /\ c \in Request /\ c.pc = "done" /\ c.op = r.op /\ c.buf = r.buf
      /\ c.i = r.i /\ c.items = r.items /\ ~c.wp /\ ~c.file
  BY CompletedRequest
<1>2. Busy(p)
  BY DEF Busy
<1>3. req[p].i = 0 /\ req[p].items = <<>> /\ ReqShape(req[p])
  BY RequestFields DEF ReqShape
<1>4. ReqShape(c)
  <2>. HIDE DEF c
  <2>1. c.i = 0 /\ c.items = <<>> /\ c.pc = "done" /\ ~c.wp /\ ~c.file
    BY <1>1, <1>3
  <2>. QED BY <2>1, ZikAssumption DEF ReqShape
<1>5. Copied(c, table', since)
  BY <1>1, <1>3, CopiedNone
<1>6. \A q \in Instances \ {p} : Copied(req[q], table', since)
  BY OthersCopied
<1>7. table' \in [Tables -> [1..Limit -> BOOLEAN]]
  BY RequestFields
<1>8. Becomes(p, c) /\ c.pc # "none"
  BY <1>1
<1>. HIDE DEF c
<1>. QED BY <1>1, <1>2, <1>4, <1>5, <1>6, <1>7, <1>8, RequestStep

\* The table and its file are looked for.
LEMMA EnterInv ==
    ASSUME IInv, NEW p \in Instances, NEW op \in Tables, EnumEnter(p, op),
           UNCHANGED <<svc, proc, events, old, dirty>>
    PROVE  IInv'
<1>1. /\ req[p] \in Request /\ ReqShape(req[p]) /\ req[p].op = op /\ req[p].pc = "enter"
      /\ table' \in [Tables -> [1..Limit -> BOOLEAN]] /\ halted' \in BOOLEAN
  BY RequestFields DEF EnumEnter, At
<1>2. CASE Becomes(p, [req[p] EXCEPT !.pc = "open"])
  <2>. DEFINE r == [req[p] EXCEPT !.pc = "open"]
  <2>1. /\ r \in Request /\ r.pc = "open" /\ r.op = op /\ r.buf = req[p].buf
        /\ r.i = req[p].i /\ r.items = req[p].items /\ r.wp = req[p].wp /\ r.file = req[p].file
    BY <1>1 DEF Request, RequestPCs
  <2>2. ReqShape(r) /\ r.i = 0
    BY <1>1, <2>1 DEF ReqShape
  <2>3. Copied(r, table', since) /\ \A q \in Instances \ {p} : Copied(req[q], table', since)
    BY <2>2, CopiedNone, OthersCopied DEF EnumEnter
  <2>. HIDE DEF r
  <2>4. Becomes(p, r)
    BY <1>2 DEF r
  <2>. QED BY <1>1, <2>1, <2>2, <2>3, <2>4, RequestStep DEF EnumEnter, Busy
<1>3. CASE Becomes(p, Completed(req[p], FALSE))
  <2>1. ~req[p].wp /\ ~req[p].file
    BY <1>1 DEF ReqShape
  <2>. QED BY <1>1, <1>3, <2>1, EndsEarly DEF EnumEnter
<1>. QED BY <1>2, <1>3 DEF EnumEnter

\* The image's file is opened, or is not there.
LEMMA OpenInv ==
    ASSUME IInv, NEW p \in Instances, NEW op \in Tables, EnumOpen(p, op),
           UNCHANGED <<svc, proc, events, old, dirty>>
    PROVE  IInv'
<1>1. /\ req[p] \in Request /\ ReqShape(req[p]) /\ req[p].op = op /\ req[p].pc = "open"
      /\ table' \in [Tables -> [1..Limit -> BOOLEAN]] /\ halted' \in BOOLEAN
  BY RequestFields DEF EnumOpen, At
<1>2. CASE Becomes(p, [req[p] EXCEPT !.pc = "read", !.file = TRUE])
  <2>. DEFINE r == [req[p] EXCEPT !.pc = "read", !.file = TRUE]
  <2>1. /\ r \in Request /\ r.pc = "read" /\ r.op = op /\ r.buf = req[p].buf
        /\ r.i = req[p].i /\ r.items = req[p].items /\ r.wp = req[p].wp
    BY <1>1 DEF Request, RequestPCs
  <2>2. ReqShape(r) /\ r.i = 0
    BY <1>1, <2>1 DEF ReqShape
  <2>3. Copied(r, table', since) /\ \A q \in Instances \ {p} : Copied(req[q], table', since)
    BY <2>2, CopiedNone, OthersCopied DEF EnumOpen
  <2>. HIDE DEF r
  <2>4. Becomes(p, r)
    BY <1>2 DEF r
  <2>. QED BY <1>1, <2>1, <2>2, <2>3, <2>4, RequestStep DEF EnumOpen, Busy
<1>3. CASE Becomes(p, Completed(req[p], FALSE))
  <2>1. ~req[p].wp /\ ~req[p].file
    BY <1>1 DEF ReqShape
  <2>. QED BY <1>1, <1>3, <2>1, EndsEarly DEF EnumOpen
<1>. QED BY <1>2, <1>3 DEF EnumOpen

\* The original entries are read, and the loop begins; or the file is closed.
LEMMA ReadInv ==
    ASSUME IInv, NEW p \in Instances, NEW op \in Tables, EnumRead(p, op),
           UNCHANGED <<svc, proc, events, old, dirty>>
    PROVE  IInv'
<1>1. /\ req[p] \in Request /\ ReqShape(req[p]) /\ req[p].op = op /\ req[p].pc = "read"
      /\ table' \in [Tables -> [1..Limit -> BOOLEAN]] /\ halted' \in BOOLEAN
  BY RequestFields DEF EnumRead, At
<1>2. ASSUME NEW n \in 0..Limit,
             Becomes(p, [req[p] EXCEPT !.pc = "entry", !.wp = req[p].write, !.count = n])
      PROVE  IInv'
  <2>. DEFINE r == [req[p] EXCEPT !.pc = "entry", !.wp = req[p].write, !.count = n]
  <2>1. /\ r \in Request /\ r.pc = "entry" /\ r.op = op /\ r.buf = req[p].buf
        /\ r.i = req[p].i /\ r.items = req[p].items
    BY <1>1 DEF Request, RequestPCs
  <2>2. ReqShape(r) /\ r.i = 0
    BY <1>1, <2>1 DEF ReqShape
  <2>3. Copied(r, table', since) /\ \A q \in Instances \ {p} : Copied(req[q], table', since)
    BY <2>2, CopiedNone, OthersCopied DEF EnumRead
  <2>. HIDE DEF r
  <2>4. Becomes(p, r)
    BY <1>2 DEF r
  <2>. QED BY <1>1, <2>1, <2>2, <2>3, <2>4, RequestStep DEF EnumRead, Busy
<1>3. CASE Becomes(p, Completed([req[p] EXCEPT !.file = FALSE], FALSE))
  <2>. DEFINE r == [req[p] EXCEPT !.file = FALSE]
  <2>1. /\ r \in Request /\ r.op = req[p].op /\ r.write = req[p].write /\ r.buf = req[p].buf
        /\ r.i = req[p].i /\ r.items = req[p].items /\ r.wp = req[p].wp /\ ~r.file
    BY <1>1 DEF Request
  <2>2. ~req[p].wp
    BY <1>1 DEF ReqShape
  <2>. HIDE DEF r
  <2>3. Becomes(p, Completed(r, FALSE))
    BY <1>3 DEF r
  <2>. QED BY <1>1, <2>1, <2>2, <2>3, EndsEarly DEF EnumRead
<1>4. (IF req[p].buf THEN Limit ELSE 0) \in 0..Limit
  BY ZikAssumption
<1>. QED BY <1>2, <1>3, <1>4 DEF EnumRead

\* A turn of the loop: no other request counts on the table, and the entries behind the
\* loop's index stay what they are.
LEMMA EntryInv ==
    ASSUME IInv, NEW p \in Instances, NEW op \in Tables, EnumEntry(p, op),
           UNCHANGED <<svc, proc, events, old, dirty>>
    PROVE  IInv'
<1>1. /\ req[p] \in Request /\ ReqShape(req[p]) /\ Copied(req[p], table, since)
      /\ req[p].op = op /\ req[p].pc = "entry" /\ req[p].i < Limit
      /\ table \in [Tables -> [1..Limit -> BOOLEAN]] /\ halted' \in BOOLEAN
  BY RequestFields DEF EnumEntry, At, EnumEntries
<1>. DEFINE i == req[p].i + 1
            its == IF req[p].buf THEN Append(req[p].items, table[op][i]) ELSE req[p].items
            r == [req[p] EXCEPT !.i = i, !.items = its]
<1>2. req[p].i \in 0..Limit /\ i \in 1..Limit
  BY <1>1, ZikAssumption DEF Request
<1>3. req[p].items \in Seq(BOOLEAN) /\ table[op][i] \in BOOLEAN
  BY <1>1, <1>2 DEF Request
<1>4. its \in Seq(BOOLEAN)
  <2>. HIDE DEF i
  <2>1. Append(req[p].items, table[op][i]) \in Seq(BOOLEAN)
    BY <1>3
  <2>. QED BY <1>3, <2>1
<1>5. /\ r \in Request /\ r.pc = "entry" /\ r.op = op /\ r.buf = req[p].buf /\ r.write = req[p].write
      /\ r.i = i /\ r.items = its /\ r.wp = req[p].wp /\ r.file = req[p].file
  <2>. HIDE DEF i, its
  <2>1. i \in 0..Limit
    BY <1>2
  <2>. QED BY <1>1, <1>4, <2>1 DEF Request
<1>6. Len(req[p].items) = IF req[p].buf THEN req[p].i ELSE 0
  BY <1>1 DEF ReqShape
<1>7. Len(its) = IF req[p].buf THEN i ELSE 0
  BY <1>3, <1>6
<1>8. ReqShape(r)
  <2>. HIDE DEF i, its, r
  <2>. QED BY <1>2, <1>5, <1>7, ZikAssumption DEF ReqShape
<1>9. /\ table' \in [Tables -> [1..Limit -> BOOLEAN]]
      /\ req[p].write => ~table'[op][i]
      /\ ~req[p].write => table' = table
      /\ \A j \in 1..Limit : j # i => table'[op][j] = table[op][j]
  <2>1. table' = IF req[p].write THEN [table EXCEPT ![op][i] = FALSE] ELSE table
    BY DEF EnumEntry
  <2>. HIDE DEF i
  <2>. QED BY <1>1, <1>2, <2>1
<1>10. Copied(r, table', since)
  <2>. SUFFICES ASSUME NEW j \in 1..i, <<op, j>> \notin since
                PROVE  /\ req[p].write => ~table'[op][j]
                       /\ ~req[p].write /\ req[p].buf => its[j] = table'[op][j]
    BY <1>5 DEF Copied
  <2>1. CASE j = i
    <3>1. req[p].buf => its[i] = table[op][i]
      BY <1>3, <1>6, <1>2
    <3>. HIDE DEF i, its
    <3>. QED BY <2>1, <3>1, <1>9
  <2>2. CASE j # i
    <3>1. j \in 1..req[p].i /\ j \in 1..Limit
      BY <1>2, <2>2, ZikAssumption
    <3>2. /\ req[p].write => ~table[op][j]
          /\ ~req[p].write /\ req[p].buf => req[p].items[j] = table[op][j]
      BY <1>1, <3>1 DEF Copied
    <3>3. req[p].buf => its[j] = req[p].items[j]
      BY <1>3, <1>6, <3>1
    <3>. HIDE DEF i, its
    <3>. QED BY <2>2, <3>1, <3>2, <3>3, <1>9
  <2>. QED BY <2>1, <2>2
<1>11. \A q \in Instances \ {p} : Copied(req[q], table', since)
  <2>1. proc[p].open
    BY <1>1 DEF IInv, HandleKept, Busy
  <2>. QED BY <2>1, OthersIdle, CopiedNone
<1>12. Becomes(p, r)
  BY <1>1 DEF EnumEntry
<1>. HIDE DEF i, its, r
<1>. QED BY <1>1, <1>5, <1>8, <1>9, <1>10, <1>11, <1>12, RequestStep DEF EnumEntry, Busy

\* The loop has passed all entries.
LEMMA EndInv ==
    ASSUME IInv, NEW p \in Instances, NEW op \in Tables, EnumEnd(p, op),
           UNCHANGED <<svc, proc, events, old, dirty>>
    PROVE  IInv'
<1>1. /\ req[p] \in Request /\ ReqShape(req[p]) /\ Copied(req[p], table, since)
      /\ req[p].op = op /\ req[p].pc = "entry" /\ req[p].i = Limit
      /\ table' \in [Tables -> [1..Limit -> BOOLEAN]] /\ halted' \in BOOLEAN
  BY RequestFields DEF EnumEnd, At, EnumEntries
<1>. DEFINE e == [req[p] EXCEPT !.wp = FALSE, !.file = FALSE]
            r == Completed(e, TRUE)
<1>2. /\ e \in Request /\ e.op = op /\ e.buf = req[p].buf /\ e.write = req[p].write
      /\ e.i = Limit /\ e.items = req[p].items /\ ~e.wp /\ ~e.file
  BY <1>1 DEF Request
<1>3. /\ r \in Request /\ r.pc = "done" /\ r.op = op /\ r.buf = req[p].buf /\ r.write = req[p].write
      /\ r.i = Limit /\ r.items = req[p].items /\ ~r.wp /\ ~r.file
  <2>. HIDE DEF e
  <2>. QED BY <1>2, CompletedRequest
<1>4. Becomes(p, r)
  BY DEF EnumEnd
<1>. HIDE DEF r
<1>5. ReqShape(r)
  BY <1>1, <1>3, ZikAssumption DEF ReqShape
<1>6. Copied(r, table', since) /\ \A q \in Instances \ {p} : Copied(req[q], table', since)
  <2>1. table' = table
    BY DEF EnumEnd
  <2>2. Copied(r, table, since)
    BY <1>1, <1>3 DEF Copied
  <2>. QED BY <2>1, <2>2, OthersCopied
<1>. QED BY <1>1, <1>3, <1>4, <1>5, <1>6, RequestStep DEF EnumEnd, Busy

\* The descriptor table is copied at once; it has no loop.
LEMMA IDTInv ==
    ASSUME IInv, NEW p \in Instances, EnumIDT(p), UNCHANGED <<svc, proc, events, old, dirty>>
    PROVE  IInv'
<1>1. /\ req[p] \in Request /\ ReqShape(req[p]) /\ req[p].op = "idt" /\ req[p].pc = "enter"
      /\ table' \in [Tables -> [1..Limit -> BOOLEAN]] /\ halted' \in BOOLEAN
  BY RequestFields DEF EnumIDT, At
<1>. DEFINE gates == [i \in 1..Limit |-> FALSE]
            its == IF req[p].buf THEN gates ELSE req[p].items
            e == [req[p] EXCEPT !.items = its]
            r == Completed(e, req[p].buf)
<1>2. gates \in Seq(BOOLEAN) /\ Len(gates) = Limit
  BY ZikAssumption
<1>3. req[p].items = <<>> /\ req[p].i = 0 /\ ~req[p].wp /\ ~req[p].file
  BY <1>1 DEF ReqShape
<1>4. its \in Seq(BOOLEAN) /\ Len(its) <= Limit
  <2>. HIDE DEF gates
  <2>1. CASE req[p].buf
    BY <1>2, <2>1, ZikAssumption
  <2>2. CASE ~req[p].buf
    <3>1. its = <<>>
      BY <1>3, <2>2
    <3>. HIDE DEF its
    <3>. QED BY <3>1, ZikAssumption
  <2>. QED BY <2>1, <2>2
<1>5. e \in Request /\ e.op = "idt" /\ e.i = 0 /\ e.items = its /\ ~e.wp /\ ~e.file
  <2>. HIDE DEF its
  <2>. QED BY <1>1, <1>3, <1>4 DEF Request
<1>6. /\ r \in Request /\ r.pc = "done" /\ r.op = "idt" /\ r.i = 0 /\ r.items = its
      /\ ~r.wp /\ ~r.file
  <2>1. req[p].buf \in BOOLEAN
    BY <1>1 DEF Request
  <2>. HIDE DEF e
  <2>. QED BY <1>5, <2>1, CompletedRequest
<1>7. Becomes(p, r)
  BY DEF EnumIDT
<1>. HIDE DEF r, its
<1>8. ReqShape(r)
  BY <1>4, <1>6 DEF ReqShape, Tables
<1>9. Copied(r, table', since) /\ \A q \in Instances \ {p} : Copied(req[q], table', since)
  BY <1>6, CopiedNone, OthersCopied DEF EnumIDT
<1>. QED BY <1>1, <1>6, <1>7, <1>8, <1>9, RequestStep DEF EnumIDT, Busy

\* The steps of the driver.
LEMMA DeviceInv ==
    ASSUME IInv, NEW p \in Instances, DeviceDispatch(p), UNCHANGED <<svc, proc, events, old, dirty>>
    PROVE  IInv'
<1>1. ASSUME NEW op \in Tables, EnumStep(p, op) PROVE IInv'
  BY <1>1, EnterInv, OpenInv, ReadInv, EntryInv, EndInv DEF EnumStep
<1>2. CASE EnumSSDT(p)
  BY <1>1, <1>2 DEF EnumSSDT, Tables
<1>3. CASE EnumSSDTShadow(p)
  BY <1>1, <1>3 DEF EnumSSDTShadow, Tables
<1>4. CASE EnumIDT(p)
  BY <1>4, IDTInv
<1>5. CASE EnumKernel(p)
  <2>1. /\ req[p] \in Request /\ ReqShape(req[p]) /\ req[p].pc = "enter" /\ halted' \in BOOLEAN
    BY <1>5, RequestFields DEF EnumKernel, At
  <2>2. ~req[p].wp /\ ~req[p].file
    BY <2>1 DEF ReqShape
  <2>. QED BY <1>5, <2>1, <2>2, EndsEarly DEF EnumKernel
<1>. QED BY <1>2, <1>3, <1>4, <1>5 DEF DeviceDispatch

\* The other driver writes an entry: no request is held to that entry any more.
LEMMA HookInv ==
    ASSUME IInv, NEW t \in Tables, NEW i \in 1..Limit, Hook(t, i),
           UNCHANGED <<svc, proc, events, old, dirty>>
    PROVE  IInv'
<1>1. Types'
  <2>1. hooks' \in 0..MaxHooks
    BY ZikAssumption DEF IInv, Types, Hook
  <2>2. table' \in [Tables -> [1..Limit -> BOOLEAN]]
    BY DEF IInv, Types, Hook
  <2>3. since' \subseteq Tables \X (1..Limit)
    BY DEF IInv, Types, Hook
  <2>. QED BY <2>1, <2>2, <2>3 DEF IInv, Types, Hook
<1>2. Requests'
  <2>. SUFFICES ASSUME NEW p \in Instances PROVE ReqShape(req[p]) /\ Copied(req[p], table', since')
    BY DEF Requests, Hook
  <2>1. ReqShape(req[p]) /\ Copied(req[p], table, since) /\ req[p] \in Request
    BY RequestFields
  <2>2. Copied(req[p], table', since')
    <3>. SUFFICES ASSUME req[p].op \in Tables, NEW j \in 1..req[p].i, <<req[p].op, j>> \notin since'
                  PROVE  /\ req[p].write => ~table'[req[p].op][j]
                         /\ ~req[p].write /\ req[p].buf => req[p].items[j] = table'[req[p].op][j]
      BY DEF Copied
    <3>1. <<req[p].op, j>> \notin since /\ <<req[p].op, j>> # <<t, i>>
      BY DEF Hook
    <3>2. table'[req[p].op][j] = table[req[p].op][j]
      <4>1. table' = [table EXCEPT ![t][i] = TRUE]
        BY DEF Hook
      <4>2. table \in [Tables -> [1..Limit -> BOOLEAN]]
        BY RequestFields
      <4>3. j \in 1..Limit
        BY <2>1, ZikAssumption DEF Request
      <4>. QED BY <3>1, <4>1, <4>2, <4>3
    <3>. QED BY <2>1, <3>1, <3>2 DEF Copied
  <2>. QED BY <2>1, <2>2
<1>. QED BY <1>1, <1>2 DEF IInv, OneHandle, HandleKept, Busy, DriverLife, AnyOpen, Open, Hook

-----------------------------------------------------------------------------
(* The service and its driver *)

\* A step of process p leaves the other ones alone.
OnlyStep(p) ==
    /\ DOMAIN proc' = Instances /\ IsProcess(proc'[p])
    /\ \A q \in Instances \ {p} : proc'[q] = proc[q]

\* What becomes of a process whose thread goes on, or that ends.
LEMMA GoOnStep ==
    ASSUME IInv, NEW p \in Instances, NEW pc \in ProcessPCs, GoOn(p, pc)
    PROVE  OnlyStep(p) /\ proc'[p].pc = pc /\ proc'[p].open = proc[p].open
<1>1. DOMAIN proc = Instances /\ IsProcess(proc[p])
  BY DEF IInv, Types
<1>2. proc' = [proc EXCEPT ![p] = [proc[p] EXCEPT !.pc = pc]]
  BY DEF GoOn, Proc
<1>3. proc'[p] = [proc[p] EXCEPT !.pc = pc]
  BY <1>1, <1>2
<1>4. proc'[p].pc = pc /\ proc'[p].open = proc[p].open /\ IsProcess(proc'[p])
  BY <1>1, <1>3 DEF IsProcess
<1>. QED BY <1>1, <1>2, <1>4 DEF OnlyStep

\* A process that ends closes its handle and leaves nothing under way.
LEMMA OffStep ==
    ASSUME IInv, NEW p \in Instances, Proc(p, Off)
    PROVE  OnlyStep(p) /\ proc'[p].pc = "off" /\ ~proc'[p].open
<1>1. DOMAIN proc = Instances
  BY DEF IInv, Types
<1>2. proc'[p] = Off /\ DOMAIN proc' = Instances /\ \A q \in Instances \ {p} : proc'[q] = proc[q]
  BY <1>1 DEF Proc
<1>3. IsProcess(Off)
  BY DEF IsProcess, Off, ProcessPCs, Commands
<1>. QED BY <1>2, <1>3 DEF OnlyStep, Off

\* What the managers make of the driver and the service keeps the driver's life, when the
\* driver of a service that goes has gone, and the driver is stopped by every process
\* that ceases to hold it.
LEMMA SettleLife ==
    ASSUME IInv, NEW p \in Instances, OnlyStep(p),
           NEW d \in {"none", "running", "pending"}, NEW s \in {"none", "there", "marked"},
           NEW bad \in BOOLEAN, Settle(d, s, bad),
           s = "none" => d = "none",
           driver = "pending" => d # "running",
           d = "running" => driver = "running" /\ (bad \/ proc[p].pc \notin Holding),
           p \in old => (d # "running" \/ proc'[p].pc = "off") /\ ~proc'[p].open
    PROVE  /\ DriverLife'
           /\ driver' \in {"none", "running", "pending"} /\ svc' \in {"none", "there", "marked"}
           /\ old' \subseteq Instances /\ dirty' \in BOOLEAN
<1>1. /\ driver' = IF d = "pending" /\ Open(proc') = {} THEN "none" ELSE d
      /\ svc' = Removed(s, driver', proc')
      /\ old' = IF driver' = "none" THEN {} ELSE {q \in old : proc'[q].pc # "off"}
      /\ dirty' = ((dirty \/ bad) /\ driver' # "none")
  BY DEF Settle, DriverUnload
<1>2. svc' \in {s, "none"} /\ (svc' # s => driver' = "none")
  BY <1>1 DEF Removed
<1>3. old \subseteq Instances /\ dirty \in BOOLEAN
  BY DEF IInv, Types
<1>4. /\ driver' \in {"none", "running", "pending"} /\ svc' \in {"none", "there", "marked"}
      /\ old' \subseteq Instances /\ dirty' \in BOOLEAN
  BY <1>1, <1>2, <1>3
<1>5. (svc' = "none" => driver' = "none") /\ (driver' = "none" => old' = {})
  BY <1>1, <1>2
<1>6. ASSUME NEW q \in old'
      PROVE  ~proc'[q].open /\ proc'[q].pc # "off" /\ (proc'[q].pc # "stop" => driver' = "pending")
  <2>1. q \in old /\ proc'[q].pc # "off" /\ driver' # "none" /\ q \in Instances
    BY <1>1, <1>3, <1>6
  <2>2. CASE q = p
    BY <1>1, <2>1, <2>2
  <2>3. CASE q # p
    <3>1. proc'[q] = proc[q]
      BY <2>1, <2>3 DEF OnlyStep
    <3>2. ~proc[q].open /\ (proc[q].pc # "stop" => driver = "pending")
      BY <2>1 DEF IInv, DriverLife
    <3>. QED BY <1>1, <2>1, <3>1, <3>2
  <2>. QED BY <2>2, <2>3
<1>7. driver' = "pending" => Open(proc') # {}
  BY <1>1
<1>8. ASSUME driver' = "running", ~dirty' PROVE \E q \in Instances : proc'[q].pc \in Holding
  <2>1. driver = "running" /\ ~dirty /\ proc[p].pc \notin Holding
    BY <1>1, <1>3, <1>8
  <2>2. PICK q \in Instances : proc[q].pc \in Holding
    BY <2>1 DEF IInv, DriverLife
  <2>3. proc'[q] = proc[q]
    BY <2>1, <2>2 DEF OnlyStep
  <2>. QED BY <2>2, <2>3
<1>9. DriverLife'
  BY <1>5, <1>6, <1>7, <1>8 DEF DriverLife, AnyOpen
<1>. QED BY <1>4, <1>9

\* A process that asks nothing of the driver.
LEMMA QuietStep ==
    ASSUME IInv, NEW p \in Instances, OnlyStep(p), proc[p].pc # "request",
           UNCHANGED <<table, req, hooks, since, halted>>, events' \in 0..MaxEvents,
           proc'[p].open => /\ proc'[p].pc \in {"window", "request", "idle", "closing"}
                            /\ proc[p].open \/ AnyOpen = {},
           driver' \in {"none", "running", "pending"}, svc' \in {"none", "there", "marked"},
           old' \subseteq Instances, dirty' \in BOOLEAN, DriverLife'
    PROVE  IInv'
<1>1. \A q \in Instances \ {p} : proc'[q] = proc[q]
  BY DEF OnlyStep
<1>2. Types'
  BY <1>1 DEF IInv, Types, OnlyStep
<1>3. Requests'
  BY DEF IInv, Requests
<1>4. OneHandle'
  BY <1>1 DEF IInv, OneHandle, AnyOpen, Open
<1>5. HandleKept'
  <2>1. req[p].pc = "none"
    BY DEF IInv, HandleKept
  <2>2. req[p].i = 0
    BY <2>1, RequestFields DEF ReqShape
  <2>. QED BY <1>1, <2>1, <2>2 DEF IInv, HandleKept, Busy
<1>. QED BY <1>2, <1>3, <1>4, <1>5 DEF IInv

\* A stop: a driver that runs is stopped, and waits for its handle.
LEMMA Stopped ==
    ASSUME IInv
    PROVE  drv_control \in {"none", "pending"}
<1>. QED BY DEF IInv, Types, DriverLife, drv_control, DriverAfter, DriverUnload

\* A process without its handle replaces the service it finds.
LEMMA InstallInv ==
    ASSUME IInv, NEW p \in Instances, drv_install(p)
    PROVE  IInv'
<1>1. PICK pc \in {"create", "delete", "start"} : GoOn(p, pc)
  BY DEF drv_install, InstallStop, InstallDelete, InstallCreate
<1>2. OnlyStep(p) /\ proc'[p].pc = pc /\ proc'[p].open = proc[p].open
  BY <1>1, GoOnStep DEF ProcessPCs
<1>3. /\ proc[p].pc \in {"stop", "delete", "create"} /\ ~proc[p].open /\ proc[p].pc \notin Holding
      /\ SameTables
  BY DEF drv_install, InstallStop, InstallDelete, InstallCreate, InPc, IInv, HandleKept, Holding
<1>4. /\ driver \in {"none", "running", "pending"} /\ svc \in {"none", "there", "marked"}
      /\ events \in 0..MaxEvents /\ DriverLife
  BY DEF IInv, Types
<1>5. /\ DriverLife'
      /\ driver' \in {"none", "running", "pending"} /\ svc' \in {"none", "there", "marked"}
      /\ old' \subseteq Instances /\ dirty' \in BOOLEAN
  <2>1. CASE InstallStop(p)
    <3>1. Settle(drv_control, svc, FALSE)
      BY <2>1 DEF InstallStop
    <3>2. drv_control \in {"none", "pending"} /\ (svc = "none" => drv_control = "none")
      BY <1>4, Stopped DEF drv_control, DriverLife
    <3>. HIDE DEF drv_control
    <3>. QED BY <1>2, <1>3, <1>4, <3>1, <3>2, SettleLife
  <2>2. CASE InstallDelete(p)
    <3>1. Settle(driver, "marked", FALSE)
      BY <2>2 DEF InstallDelete
    <3>2. p \in old => driver # "running"
      BY <1>4, <2>2 DEF DriverLife, InstallDelete, InPc
    <3>. QED BY <1>2, <1>3, <1>4, <3>1, <3>2, SettleLife
  <2>3. CASE InstallCreate(p)
    <3>. DEFINE s == IF svc = "none" THEN "there" ELSE svc
    <3>1. Settle(driver, s, FALSE) /\ s \in {"there", "marked"}
      BY <1>4, <2>3 DEF InstallCreate
    <3>2. p \in old => driver # "running"
      BY <1>4, <2>3 DEF DriverLife, InstallCreate, InPc
    <3>. HIDE DEF s
    <3>. QED BY <1>2, <1>3, <1>4, <3>1, <3>2, SettleLife
  <2>. QED BY <2>1, <2>2, <2>3 DEF drv_install
<1>6. UNCHANGED <<table, req, hooks, since, halted>> /\ events' \in 0..MaxEvents
  BY <1>3, <1>4 DEF SameTables
<1>7. proc[p].pc # "request" /\ ~proc'[p].open
  BY <1>2, <1>3
<1>. QED BY <1>2, <1>5, <1>6, <1>7, QuietStep

\* The driver is loaded, or the one that is there stays.
LEMMA StartInv ==
    ASSUME IInv, NEW p \in Instances, drv_start(p)
    PROVE  IInv'
<1>1. /\ OnlyStep(p) /\ proc'[p].pc = "link" /\ proc'[p].open = proc[p].open
      /\ proc[p].pc = "start" /\ ~proc[p].open
  BY GoOnStep DEF drv_start, InPc, ProcessPCs, IInv, HandleKept
<1>2. /\ UNCHANGED <<table, req, hooks, since, halted, svc, dirty>> /\ events' \in 0..MaxEvents
      /\ svc \in {"none", "there", "marked"} /\ dirty \in BOOLEAN /\ old \subseteq Instances
      /\ driver \in {"none", "running", "pending"} /\ DriverLife
  BY DEF drv_start, SameTables, IInv, Types
<1>3. /\ driver = "none" => driver' \in {"none", "running"} /\ (driver' = "running" => svc = "there")
      /\ driver # "none" => driver' = driver
      /\ old' = IF driver = "none" THEN {} ELSE old
  BY DEF drv_start, DriverEntry
<1>4. AnyOpen' = AnyOpen
  <2>1. \A q \in Instances : proc'[q].open = proc[q].open
    BY <1>1 DEF OnlyStep
  <2>. QED BY <2>1 DEF AnyOpen, Open
<1>5. DriverLife'
  <2>1. (svc' = "none" => driver' = "none") /\ (driver' = "none" => old' = {})
    BY <1>2, <1>3 DEF DriverLife
  <2>2. ASSUME NEW q \in old'
        PROVE  ~proc'[q].open /\ proc'[q].pc # "off" /\ (proc'[q].pc # "stop" => driver' = "pending")
    <3>1. q \in old /\ driver # "none" /\ driver' = driver
      BY <1>3, <2>2
    <3>. QED BY <1>1, <1>2, <3>1 DEF DriverLife, OnlyStep
  <2>3. driver' = "pending" => AnyOpen' # {}
    BY <1>2, <1>3, <1>4 DEF DriverLife
  <2>4. proc'[p].pc \in Holding
    BY <1>1 DEF Holding
  <2>. QED BY <2>1, <2>2, <2>3, <2>4 DEF DriverLife
<1>6. driver' \in {"none", "running", "pending"} /\ old' \subseteq Instances
  BY <1>2, <1>3
<1>. QED BY <1>1, <1>2, <1>5, <1>6, QuietStep

\* The device is opened, if its driver runs and nobody has it.
LEMMA LinkInv ==
    ASSUME IInv, NEW p \in Instances, drv_link(p)
    PROVE  IInv'
<1>. DEFINE open == driver = "running" /\ Exclusive(AnyOpen)
<1>1. /\ proc[p].pc = "link" /\ ~proc[p].open /\ DOMAIN proc = Instances /\ IsProcess(proc[p])
      /\ UNCHANGED <<driver, svc, old, dirty, table, req, hooks, since, halted, events>>
      /\ proc' = [proc EXCEPT ![p] = [proc[p] EXCEPT !.pc = "window", !.open = open]]
  BY DEF drv_link, InPc, SameTables, Proc, IInv, HandleKept, Types
<1>2. /\ open \in BOOLEAN
      /\ open => driver = "running" /\ AnyOpen = {}
  BY DEF Exclusive
<1>. HIDE DEF open
<1>3. proc'[p] = [proc[p] EXCEPT !.pc = "window", !.open = open]
  BY <1>1
<1>4. OnlyStep(p) /\ proc'[p].pc = "window" /\ proc'[p].open = open
  <2>1. proc'[p].pc = "window" /\ proc'[p].open = open /\ IsProcess(proc'[p])
    BY <1>1, <1>2, <1>3 DEF IsProcess, ProcessPCs
  <2>. QED BY <1>1, <2>1 DEF OnlyStep
<1>5. DriverLife /\ driver \in {"none", "running", "pending"} /\ old \subseteq Instances
  BY DEF IInv, Types
<1>6. DriverLife'
  <2>1. ASSUME NEW q \in old
        PROVE  ~proc'[q].open /\ proc'[q].pc # "off" /\ (proc'[q].pc # "stop" => driver = "pending")
    BY <1>1, <1>2, <1>4, <1>5, <2>1 DEF DriverLife, OnlyStep
  <2>2. driver = "pending" => AnyOpen' # {}
    <3>. SUFFICES ASSUME driver = "pending" PROVE AnyOpen' # {}
      OBVIOUS
    <3>1. PICK q \in Instances : proc[q].open
      BY <1>5 DEF DriverLife, AnyOpen, Open
    <3>2. proc'[q].open
      BY <1>1, <1>4, <3>1 DEF OnlyStep
    <3>. QED BY <3>2 DEF AnyOpen, Open
  <2>3. proc'[p].pc \in Holding
    BY <1>4 DEF Holding
  <2>. QED BY <1>1, <1>5, <2>1, <2>2, <2>3 DEF DriverLife
<1>7. /\ svc' \in {"none", "there", "marked"} /\ dirty' \in BOOLEAN /\ events' \in 0..MaxEvents
  BY <1>1 DEF IInv, Types
<1>. QED BY <1>1, <1>2, <1>4, <1>5, <1>6, <1>7, QuietStep

\* A process begins; the driver it finds is not its own.
LEMMA BeginInv ==
    ASSUME IInv, NEW p \in Instances, ui_on_before_create(p)
    PROVE  IInv'
<1>1. PICK started \in BOOLEAN :
         /\ GoOn(p, IF started THEN "stop" ELSE "off")
         /\ old' = IF started /\ driver # "none" THEN old \cup {p} ELSE old
  <2>1. PICK s \in Systems, admin \in rt_is_administrator, debug \in rt_enable_privilege :
           LET started == rt_check_verion(s) /\ admin /\ debug
           IN  /\ GoOn(p, IF started THEN "stop" ELSE "off")
               /\ old' = IF started /\ driver # "none" THEN old \cup {p} ELSE old
    BY DEF ui_on_before_create
  <2>. DEFINE b == rt_check_verion(s) /\ admin /\ debug
  <2>2. b \in BOOLEAN
    OBVIOUS
  <2>3. GoOn(p, IF b THEN "stop" ELSE "off") /\ old' = IF b /\ driver # "none" THEN old \cup {p} ELSE old
    BY <2>1
  <2>. HIDE DEF b
  <2>. QED BY <2>2, <2>3
<1>2. /\ proc[p].pc = "off" /\ ~proc[p].open /\ UNCHANGED <<zikVars, svc, dirty>>
      /\ events < MaxEvents /\ events' = events + 1 /\ events \in 0..MaxEvents
      /\ svc \in {"none", "there", "marked"} /\ dirty \in BOOLEAN /\ old \subseteq Instances
      /\ driver \in {"none", "running", "pending"} /\ DriverLife
  BY DEF ui_on_before_create, InPc, IInv, HandleKept, Types
<1>3. OnlyStep(p) /\ proc'[p].open = proc[p].open /\ proc'[p].pc = IF started THEN "stop" ELSE "off"
  BY <1>1, GoOnStep DEF ProcessPCs
<1>4. UNCHANGED <<driver, table, req, hooks, since, halted>> /\ events' \in 0..MaxEvents
  BY <1>2, ZaxAssumption DEF zikVars
<1>5. AnyOpen' = AnyOpen
  <2>1. \A q \in Instances : proc'[q].open = proc[q].open
    BY <1>3 DEF OnlyStep
  <2>. QED BY <2>1 DEF AnyOpen, Open
<1>6. DriverLife'
  <2>1. driver' = "none" => old' = {}
    BY <1>1, <1>2, <1>4 DEF DriverLife
  <2>2. ASSUME NEW q \in old'
        PROVE  ~proc'[q].open /\ proc'[q].pc # "off" /\ (proc'[q].pc # "stop" => driver' = "pending")
    <3>1. p \notin old
      BY <1>2 DEF DriverLife
    <3>2. CASE q = p
      BY <1>1, <1>2, <1>3, <2>2, <3>1, <3>2
    <3>3. CASE q # p
      <4>1. q \in old /\ proc'[q] = proc[q]
        BY <1>1, <1>2, <1>3, <2>2, <3>3 DEF OnlyStep
      <4>. QED BY <1>2, <1>4, <4>1 DEF DriverLife
    <3>. QED BY <3>2, <3>3
  <2>3. ASSUME driver = "running", ~dirty PROVE \E q \in Instances : proc'[q].pc \in Holding
    <3>1. PICK q \in Instances : proc[q].pc \in Holding
      BY <1>2, <2>3 DEF DriverLife
    <3>2. q # p
      BY <1>2, <3>1 DEF Holding
    <3>. QED BY <1>3, <3>1, <3>2 DEF OnlyStep
  <2>. QED BY <1>2, <1>4, <1>5, <2>1, <2>2, <2>3 DEF DriverLife
<1>7. old' \subseteq Instances
  BY <1>1, <1>2
<1>8. /\ driver' \in {"none", "running", "pending"} /\ svc' \in {"none", "there", "marked"}
      /\ dirty' \in BOOLEAN
  BY <1>2, <1>4
<1>9. proc[p].pc # "request" /\ ~proc'[p].open
  BY <1>2, <1>3
<1>. QED BY <1>3, <1>4, <1>6, <1>7, <1>8, <1>9, QuietStep

\* A window is closed: the driver is stopped first, then the handle goes.
LEMMA CloseInv ==
    ASSUME IInv, NEW p \in Instances, ui_on_close(p) \/ drv_deinitialize(p)
    PROVE  IInv'
<1>1. /\ driver \in {"none", "running", "pending"} /\ svc \in {"none", "there", "marked"}
      /\ events \in 0..MaxEvents /\ DriverLife
      /\ proc[p].pc \in {"idle", "closing"}
      /\ UNCHANGED <<table, req, hooks, since, halted, events>>
  BY DEF IInv, Types, ui_on_close, drv_deinitialize, InPc, SameTables
<1>2. CASE ui_on_close(p)
  <2>1. OnlyStep(p) /\ proc'[p].pc = "closing" /\ proc'[p].open = proc[p].open
    BY <1>2, GoOnStep DEF ui_on_close, ProcessPCs
  <2>2. Settle(drv_control, svc, FALSE)
    BY <1>2 DEF ui_on_close
  <2>3. drv_control \in {"none", "pending"} /\ (svc = "none" => drv_control = "none")
    BY <1>1, Stopped DEF drv_control, DriverLife
  <2>4. p \in old => ~proc'[p].open
    BY <1>1, <2>1 DEF DriverLife
  <2>. HIDE DEF drv_control
  <2>5. /\ DriverLife'
        /\ driver' \in {"none", "running", "pending"} /\ svc' \in {"none", "there", "marked"}
        /\ old' \subseteq Instances /\ dirty' \in BOOLEAN
    BY <1>1, <2>1, <2>2, <2>3, <2>4, SettleLife
  <2>. QED BY <1>1, <2>1, <2>5, QuietStep
<1>3. CASE drv_deinitialize(p)
  <2>1. OnlyStep(p) /\ proc'[p].pc = "off" /\ ~proc'[p].open
    BY <1>3, OffStep DEF drv_deinitialize
  <2>2. Settle(driver, svc, FALSE) /\ proc[p].pc \notin Holding
    BY <1>3 DEF drv_deinitialize, InPc, Holding
  <2>3. svc = "none" => driver = "none"
    BY <1>1 DEF DriverLife
  <2>4. /\ DriverLife'
        /\ driver' \in {"none", "running", "pending"} /\ svc' \in {"none", "there", "marked"}
        /\ old' \subseteq Instances /\ dirty' \in BOOLEAN
    BY <1>1, <2>1, <2>2, <2>3, SettleLife
  <2>. QED BY <1>1, <2>1, <2>4, QuietStep
<1>. QED BY <1>2, <1>3

-----------------------------------------------------------------------------
(* Pages *)

\* A process leaves a request behind, or begins one.
LEMMA RequestChanges ==
    ASSUME IInv, NEW p \in Instances, OnlyStep(p), NEW r \in Request, Becomes(p, r),
           ReqShape(r), r.i = 0,
           UNCHANGED <<table, hooks, halted>>, events' \in 0..MaxEvents,
           since' = since \/ (since' = {} /\ proc[p].open),
           proc'[p].open => proc[p].open /\ proc'[p].pc \in {"window", "request", "idle", "closing"},
           r.pc \notin {"none", "done"} => proc'[p].open,
           r.pc # "none" => proc'[p].pc = "request",
           driver' \in {"none", "running", "pending"}, svc' \in {"none", "there", "marked"},
           old' \subseteq Instances, dirty' \in BOOLEAN, DriverLife'
    PROVE  IInv'
<1>1. /\ \A q \in Instances \ {p} : proc'[q] = proc[q]
      /\ \A q \in Instances \ {p} : req'[q] = req[q]
      /\ req'[p] = r /\ req' \in [Instances -> Request]
  BY DEF OnlyStep, Becomes, IInv, Types
<1>2. Types'
  <2>1. since' \subseteq Tables \X (1..Limit)
    BY DEF IInv, Types
  <2>. QED BY <1>1, <2>1 DEF IInv, Types, OnlyStep
<1>3. Requests'
  <2>1. ReqShape(r) /\ Copied(r, table', since')
    BY CopiedNone
  <2>2. ASSUME NEW q \in Instances \ {p} PROVE ReqShape(req[q]) /\ Copied(req[q], table', since')
    <3>1. ReqShape(req[q])
      BY RequestFields
    <3>2. CASE since' = since
      <4>1. Copied(req[q], table, since)
        BY OthersCopied
      <4>2. table' = table
        OBVIOUS
      <4>. QED BY <3>1, <3>2, <4>1, <4>2
    <3>3. CASE since' # since
      <4>1. proc[p].open
        BY <3>3
      <4>2. req[q].i = 0
        BY <4>1, OthersIdle
      <4>. QED BY <3>1, <4>2, CopiedNone
    <3>. QED BY <3>1, <3>2, <3>3
  <2>. QED BY <1>1, <2>1, <2>2 DEF Requests
<1>4. OneHandle'
  BY <1>1 DEF IInv, OneHandle
<1>5. HandleKept'
  BY <1>1 DEF IInv, HandleKept, Busy
<1>. QED BY <1>2, <1>3, <1>4, <1>5 DEF IInv

\* A request that has not begun.
LEMMA NoRequestShape ==
    /\ NoRequest \in Request /\ ReqShape(NoRequest)
    /\ NoRequest.pc = "none" /\ NoRequest.i = 0 /\ NoRequest.items = <<>>
    /\ ~NoRequest.wp /\ ~NoRequest.file
<1>1. NoRequest \in Request
  BY ZikAssumption DEF NoRequest, Request, RequestPCs
<1>2. /\ NoRequest.op = "none" /\ NoRequest.pc = "none" /\ NoRequest.i = 0 /\ NoRequest.items = <<>>
      /\ ~NoRequest.wp /\ ~NoRequest.file
  BY DEF NoRequest
<1>3. ReqShape(NoRequest)
  BY <1>2, ZikAssumption DEF ReqShape, Tables
<1>. QED BY <1>1, <1>2, <1>3

\* A process ends without ui_on_close; its request is not in the driver.
LEMMA GoneInv ==
    ASSUME IInv, NEW p \in Instances, Gone(p)
    PROVE  IInv'
<1>1. OnlyStep(p) /\ proc'[p].pc = "off" /\ ~proc'[p].open
  BY OffStep DEF Gone
<1>2. /\ driver \in {"none", "running", "pending"} /\ svc \in {"none", "there", "marked"}
      /\ events' \in 0..MaxEvents /\ UNCHANGED <<table, hooks, since, halted>>
      /\ svc = "none" => driver = "none"
  BY DEF Gone, IInv, Types, DriverLife
<1>3. Settle(driver, svc, TRUE) /\ Becomes(p, NoRequest)
  BY DEF Gone, Becomes
<1>4. /\ DriverLife'
      /\ driver' \in {"none", "running", "pending"} /\ svc' \in {"none", "there", "marked"}
      /\ old' \subseteq Instances /\ dirty' \in BOOLEAN
  BY <1>1, <1>2, <1>3, SettleLife
<1>. QED BY <1>1, <1>2, <1>3, <1>4, NoRequestShape, RequestChanges

\* A process whose window is there holds the driver before and after a command.
LEMMA PageLife ==
    ASSUME IInv, NEW p \in Instances, OnlyStep(p), UNCHANGED <<driver, svc, old, dirty>>,
           proc[p].pc \in {"window", "request", "idle"}, proc'[p].pc \in {"request", "idle"},
           proc'[p].open = proc[p].open
    PROVE  DriverLife'
<1>1. DriverLife
  BY DEF IInv
<1>2. \A q \in Instances \ {p} : proc'[q] = proc[q]
  BY DEF OnlyStep
<1>3. AnyOpen' = AnyOpen
  <2>1. \A q \in Instances : proc'[q].open = proc[q].open
    BY <1>2
  <2>. QED BY <2>1 DEF AnyOpen, Open
<1>4. ASSUME NEW q \in old
      PROVE  ~proc'[q].open /\ proc'[q].pc # "off" /\ (proc'[q].pc # "stop" => driver = "pending")
  <2>1. q \in Instances
    BY DEF IInv, Types
  <2>2. ~proc[q].open /\ proc[q].pc # "off" /\ (proc[q].pc # "stop" => driver = "pending")
    BY <1>1 DEF DriverLife
  <2>. QED BY <1>2, <2>1, <2>2
<1>5. proc'[p].pc \in Holding
  BY DEF Holding
<1>. QED BY <1>1, <1>3, <1>4, <1>5 DEF DriverLife

\* The thread enters the driver if the process has the device.
LEMMA CallKernel ==
    ASSUME IInv, NEW p \in Instances, NEW page \in Pages \cup {"none"}, NEW write \in BOOLEAN,
           NEW buf \in BOOLEAN, drv_callkernel(p, page, write, buf)
    PROVE  \E r \in Request :
              /\ Becomes(p, r) /\ ReqShape(r) /\ r.i = 0
              /\ r.pc = IF proc[p].open THEN "enter" ELSE "done"
              /\ since' = since \/ (since' = {} /\ proc[p].open)
<1>. DEFINE r == [NoRequest EXCEPT !.op = page, !.write = write, !.buf = buf]
            e == [r EXCEPT !.pc = IF proc[p].open THEN "enter" ELSE "done"]
<1>1. /\ r \in Request /\ r.i = 0 /\ r.items = <<>> /\ ~r.wp /\ ~r.file
  BY NoRequestShape DEF Request
<1>2. Becomes(p, e) /\ (since' = since \/ (since' = {} /\ proc[p].open))
  BY DEF drv_callkernel, Becomes
<1>3. e \in Request
  <2>. HIDE DEF r
  <2>. QED BY <1>1 DEF Request, RequestPCs
<1>4. /\ e.pc = IF proc[p].open THEN "enter" ELSE "done"
      /\ e.i = 0 /\ e.items = <<>> /\ ~e.wp /\ ~e.file
  <2>. HIDE DEF r
  <2>. QED BY <1>1 DEF Request
<1>. HIDE DEF e
<1>5. ReqShape(e)
  BY <1>4, ZikAssumption DEF ReqShape
<1>. QED BY <1>2, <1>3, <1>4, <1>5

\* A process changes its fields.
LEMMA ProcStep ==
    ASSUME IInv, NEW p \in Instances, NEW r, IsProcess(r), Proc(p, r)
    PROVE  OnlyStep(p) /\ proc'[p] = r
<1>1. DOMAIN proc = Instances
  BY DEF IInv, Types
<1>2. proc'[p] = r /\ DOMAIN proc' = Instances /\ \A q \in Instances \ {p} : proc'[q] = proc[q]
  BY <1>1 DEF Proc
<1>. QED BY <1>2 DEF OnlyStep

\* A page of a window calls the driver.
LEMMA PageCallInv ==
    ASSUME IInv, NEW p \in Instances, NEW page \in Pages \cup {"none"}, NEW write \in BOOLEAN,
           NEW buf \in BOOLEAN, drv_callkernel(p, page, write, buf), OnlyStep(p),
           proc[p].pc \in {"window", "request", "idle"}, proc'[p].pc = "request",
           proc'[p].open = proc[p].open, OnlyProc, events' \in 0..MaxEvents
    PROVE  IInv'
<1>1. PICK r \in Request :
         /\ Becomes(p, r) /\ ReqShape(r) /\ r.i = 0
         /\ r.pc = IF proc[p].open THEN "enter" ELSE "done"
         /\ since' = since \/ (since' = {} /\ proc[p].open)
  BY CallKernel
<1>2. UNCHANGED <<driver, table, hooks, halted, svc, old, dirty>>
  BY DEF OnlyProc
<1>3. /\ driver' \in {"none", "running", "pending"} /\ svc' \in {"none", "there", "marked"}
      /\ old' \subseteq Instances /\ dirty' \in BOOLEAN
  BY <1>2 DEF IInv, Types
<1>4. DriverLife'
  BY <1>2, PageLife
<1>5. /\ r.pc # "none"
      /\ r.pc \notin {"none", "done"} => proc'[p].open
      /\ proc'[p].open => proc[p].open /\ proc'[p].pc \in {"window", "request", "idle", "closing"}
  BY <1>1
<1>. QED BY <1>1, <1>2, <1>3, <1>4, <1>5, RequestChanges

\* A page is read from the beginning: the rows and the file of the one before are gone.
LEMMA RefreshInv ==
    ASSUME IInv, NEW p \in Instances, NEW page \in Pages \cup {"none"}, NEW cmd \in Commands,
           page_refresh(p, page, cmd), proc[p].pc \in {"window", "idle"}, OnlyProc, events' \in 0..MaxEvents
    PROVE  IInv'
<1>. DEFINE r == [proc[p] EXCEPT !.pc = "request", !.page = page, !.list = <<>>, !.stale = 0,
                              !.file = <<>>, !.cmd = cmd]
<1>1. IsProcess(proc[p])
  BY DEF IInv, Types
<1>2. IsProcess(r) /\ r.pc = "request" /\ r.open = proc[p].open
  BY <1>1 DEF IsProcess, ProcessPCs
<1>3. Proc(p, r)
  BY DEF page_refresh
<1>. HIDE DEF r
<1>4. OnlyStep(p) /\ proc'[p] = r
  BY <1>2, <1>3, ProcStep
<1>5. PICK buf \in BOOLEAN : drv_callkernel(p, page, FALSE, buf)
  BY DEF page_refresh, PageRead, rt_valloc
<1>. QED BY <1>2, <1>4, <1>5, PageCallInv

\* The restore of a table.
LEMMA RestoreInv ==
    ASSUME IInv, NEW p \in Instances, page_restoreall(p), proc[p].pc = "idle", OnlyProc,
           events' \in 0..MaxEvents
    PROVE  IInv'
<1>. DEFINE r == [proc[p] EXCEPT !.pc = "request", !.stale = Len(proc[p].list), !.file = <<>>,
                              !.cmd = "restoreall"]
<1>1. IsProcess(proc[p])
  BY DEF IInv, Types
<1>2. IsProcess(r) /\ r.pc = "request" /\ r.open = proc[p].open
  BY <1>1 DEF IsProcess, ProcessPCs, Commands
<1>3. Proc(p, r)
  BY DEF page_restoreall
<1>. HIDE DEF r
<1>4. OnlyStep(p) /\ proc'[p] = r
  BY <1>2, <1>3, ProcStep
<1>5. drv_callkernel(p, proc[p].page, TRUE, FALSE) /\ proc[p].page \in Pages \cup {"none"}
  BY <1>1 DEF page_restoreall, IsProcess
<1>. QED BY <1>2, <1>4, <1>5, PageCallInv

\* The answer of the driver: a page that wrote reads its table again; one that read shows it.
LEMMA PageStepInv ==
    ASSUME IInv, NEW p \in Instances, PageStep(p)
    PROVE  IInv'
<1>1. proc[p].pc = "request" /\ IsProcess(proc[p]) /\ req[p] \in Request /\ events \in 0..MaxEvents
  BY RequestFields DEF PageStep, InPc, IInv, Types
<1>2. ASSUME Proc(p, [proc[p] EXCEPT !.cmd = "refresh"]), PageRead(p, req[p].op),
             OnlyProc, events' = events
      PROVE  IInv'
  <2>. DEFINE r == [proc[p] EXCEPT !.cmd = "refresh"]
  <2>1. IsProcess(r) /\ r.pc = "request" /\ r.open = proc[p].open
    BY <1>1 DEF IsProcess, ProcessPCs, Commands
  <2>2. Proc(p, r)
    BY <1>2
  <2>. HIDE DEF r
  <2>3. OnlyStep(p) /\ proc'[p] = r
    BY <2>1, <2>2, ProcStep
  <2>4. PICK buf \in BOOLEAN : drv_callkernel(p, req[p].op, FALSE, buf)
    BY <1>2 DEF PageRead, rt_valloc
  <2>5. req[p].op \in Pages \cup {"none"}
    BY <1>1 DEF Request
  <2>. QED BY <1>1, <1>2, <2>1, <2>3, <2>4, <2>5, PageCallInv
<1>3. ASSUME NEW list, NEW file,
             Proc(p, [proc[p] EXCEPT !.pc = "idle", !.cmd = "none", !.list = list, !.file = file]),
             req' = [req EXCEPT ![p] = NoRequest], since' = since, OnlyProc, events' = events
      PROVE  IInv'
  <2>. DEFINE r == [proc[p] EXCEPT !.pc = "idle", !.cmd = "none", !.list = list, !.file = file]
  <2>1. IsProcess(r) /\ r.pc = "idle" /\ r.open = proc[p].open
    BY <1>1 DEF IsProcess, ProcessPCs, Commands
  <2>2. Proc(p, r)
    BY <1>3
  <2>. HIDE DEF r
  <2>3. OnlyStep(p) /\ proc'[p].pc = "idle" /\ proc'[p].open = proc[p].open
    BY <2>1, <2>2, ProcStep
  <2>4. UNCHANGED <<driver, table, hooks, halted, svc, old, dirty>>
    BY <1>3 DEF OnlyProc
  <2>5. DriverLife'
    BY <1>1, <2>3, <2>4, PageLife
  <2>6. /\ driver' \in {"none", "running", "pending"} /\ svc' \in {"none", "there", "marked"}
        /\ old' \subseteq Instances /\ dirty' \in BOOLEAN
    BY <2>4 DEF IInv, Types
  <2>7. Becomes(p, NoRequest)
    BY <1>3 DEF Becomes
  <2>. QED BY <1>1, <1>3, <2>3, <2>4, <2>5, <2>6, <2>7, NoRequestShape, RequestChanges
<1>. QED BY <1>2, <1>3, GoneInv DEF PageStep

\* The window is created and shows its first page, or the process ends.
LEMMA CreateInv ==
    ASSUME IInv, NEW p \in Instances, ui_create(p)
    PROVE  IInv'
<1>1. proc[p].pc = "window" /\ events \in 0..MaxEvents
  BY DEF ui_create, InPc, IInv, Types
<1>2. CASE ui_on_after_create(p) /\ events' = events
  <2>1. page_refresh(p, "ssdt", "refresh") /\ OnlyProc
    BY <1>2 DEF ui_on_after_create, page_chage
  <2>. QED BY <1>1, <1>2, <2>1, RefreshInv DEF Pages, Commands
<1>. QED BY <1>2, GoneInv DEF ui_create

\* A tab is chosen.
LEMMA TabInv ==
    ASSUME IInv, NEW p \in Instances, ui_on_tabctrl_change(p)
    PROVE  IInv'
<1>1. PICK page \in Pages : page_refresh(p, page, "refresh") /\ OnlyProc
  BY DEF ui_on_tabctrl_change, page_chage
<1>2. proc[p].pc = "idle" /\ events' \in 0..MaxEvents
  BY ZaxAssumption DEF ui_on_tabctrl_change, Op, InPc, IInv, Types
<1>. QED BY <1>1, <1>2, RefreshInv DEF Commands

\* A command of the page's menu; an export may be given up in the dialog.
LEMMA CommandInv ==
    ASSUME IInv, NEW p \in Instances, ui_on_command(p)
    PROVE  IInv'
<1>1. proc[p].pc = "idle" /\ events' \in 0..MaxEvents /\ OnlyProc
  BY ZaxAssumption DEF ui_on_command, Op, InPc, IInv, Types
<1>2. proc[p].page \in Pages \cup {"none"} /\ {"refresh", "export"} \subseteq Commands
  BY DEF IInv, Types, IsProcess, Commands
<1>3. CASE page_refresh(p, proc[p].page, "refresh")
  BY <1>1, <1>2, <1>3, RefreshInv
<1>4. CASE page_export(p)
  <2>1. CASE page_refresh(p, proc[p].page, "export")
    BY <1>1, <1>2, <2>1, RefreshInv
  <2>2. CASE UNCHANGED <<proc, req, since>>
    <3>1. UNCHANGED <<proc, req, since, driver, table, hooks, halted, svc, old, dirty>>
      BY <1>1, <2>2 DEF OnlyProc
    <3>. QED BY <1>1, <3>1 DEF IInv, Types, Requests, OneHandle, HandleKept, Busy, DriverLife, AnyOpen, Open
  <2>. QED BY <1>4, <2>1, <2>2 DEF page_export
<1>5. CASE page_restoreall(p)
  BY <1>1, <1>5, RestoreInv
<1>. QED BY <1>3, <1>4, <1>5 DEF ui_on_command

\* Every step of every process, of its thread in the driver, and of the other driver.
LEMMA NextInv == IInv /\ [Next]_vars => IInv'
<1>. SUFFICES ASSUME IInv, [Next]_vars PROVE IInv'
  OBVIOUS
<1>1. ASSUME NEW p \in Instances, ui_main(p) PROVE IInv'
  <2>1. CASE ui_on_before_create(p)
    BY <2>1, BeginInv
  <2>2. CASE drv_initialize(p)
    BY <2>2, InstallInv, StartInv, LinkInv DEF drv_initialize
  <2>3. CASE ui_create(p)
    BY <2>3, CreateInv
  <2>4. CASE PageStep(p)
    BY <2>4, PageStepInv
  <2>5. CASE ui_wndproc(p)
    BY <2>5, TabInv, CommandInv, CloseInv DEF ui_wndproc
  <2>. QED BY <1>1, <2>1, <2>2, <2>3, <2>4, <2>5 DEF ui_main
<1>2. ASSUME NEW p \in Instances, Killed(p) PROVE IInv'
  BY <1>2, GoneInv DEF Killed
<1>3. ASSUME NEW p \in Instances, DeviceDispatch(p), UNCHANGED <<svc, proc, events, old, dirty>>
      PROVE  IInv'
  BY <1>3, DeviceInv
<1>4. ASSUME NEW t \in Tables, NEW i \in 1..Limit, Hook(t, i), UNCHANGED <<svc, proc, events, old, dirty>>
      PROVE  IInv'
  BY <1>4, HookInv
<1>5. CASE UNCHANGED vars
  BY <1>5 DEF vars, zikVars, IInv, Types, Requests, OneHandle, HandleKept, Busy, DriverLife, AnyOpen, Open
<1>. QED BY <1>1, <1>2, <1>3, <1>4, <1>5 DEF Next

\* The invariant holds of every state the processes can reach.
LEMMA Invariant == Spec => []IInv
<1>. QED BY InitInv, NextInv, PTL DEF Spec

-----------------------------------------------------------------------------
\* Every variable has its type, and no answer of the driver is longer than the page's buffer.
THEOREM ZaxTypeCorrect == Spec => []ZaxTypeOK
BY Invariant, InvTypeOK, PTL

\* A request leaves the processor's write protection, its interrupts and the image's file as
\* they were on every path out of the driver, and two requests are never in it: the loops of
\* EnumSSDT and EnumSSDTShadow have no lock, only the exclusive handle.
THEOREM RequestsAreSafe == Spec => []RequestSafe
BY Invariant, InvRequestSafe, PTL

\* What a page shows is what the table holds, and what it restores is restored, but for the
\* entries another driver wrote in the meantime.
THEOREM TablesAreTrue == Spec => []TableTrue
BY Invariant, InvTableTrue, PTL

\* drv_install leaves no process with the driver of a dead one, and the driver is unloaded
\* when the last window is closed, whatever the processes did to each other's service.
THEOREM DriverIsReplaced == Spec => []DriverReplaced
BY Invariant, InvDriverReplaced, PTL

-----------------------------------------------------------------------------
(* The rows of an answer *)

\* Induction over the natural numbers, for a set: the least one outside it is not 0.
LEMMA NatSet ==
    ASSUME NEW S, 0 \in S, \A k \in Nat : k \in S => k + 1 \in S
    PROVE  Nat \subseteq S
<1>. SUFFICES ASSUME NEW n \in Nat, n \notin S PROVE FALSE
  OBVIOUS
<1>. DEFINE T == {1..m : m \in 0..n \ S}
            R == StrictSubsetOrdering(1..n)
<1>1. IsWellFoundedOn(R, FiniteSubsetsOf(1..n))
  BY FS_StrictSubsetOrderingWellFounded
<1>2. FiniteSubsetsOf(1..n) = SUBSET (1..n)
  <2>1. IsFiniteSet(1..n)
    BY FS_Interval
  <2>. QED BY <2>1, FS_FiniteSubsetsOfFinite
<1>3. T \subseteq SUBSET (1..n) /\ T # {}
  OBVIOUS
<1>4. PICK x \in T : \A y \in T : <<y, x>> \notin R
  <2>. HIDE DEF T, R
  <2>. QED BY <1>1, <1>2, <1>3, WFMin
<1>5. PICK m \in 0..n \ S : x = 1..m
  OBVIOUS
<1>6. m # 0 /\ m - 1 \in 0..n \ S
  BY <1>5
<1>7. 1..(m - 1) \in T /\ <<1..(m - 1), x>> \in R
  <2>1. /\ 1..(m - 1) \in SUBSET (1..n) /\ x \in SUBSET (1..n)
        /\ m \in x /\ m \notin 1..(m - 1) /\ 1..(m - 1) \subseteq x
    BY <1>5, <1>6
  <2>2. <<1..(m - 1), x>> \in R
    BY <2>1 DEF StrictSubsetOrdering
  <2>. QED BY <1>6, <2>2
<1>. QED BY <1>4, <1>7

\* A turn of the loop over the rows, and the function it computes: what it makes of the rows
\* with the indices in a set, in their order.
Turn(lf, row, cmd) == <<ui_lv_insert_item(lf[1], row[2], row), rt_write(lf[2], row, cmd)>>

IsLoop(f, D, rows, cmd, list) ==
    f = [s \in SUBSET D |->
           IF s = {} THEN <<list, <<>>>> ELSE Turn(f[s \ {Max(s)}], rows[Max(s)], cmd)]

\* The fold of Answered is that function at all indices.
LEMMA AnsweredIsLoop ==
    ASSUME NEW r, NEW cmd, NEW list
    PROVE  Answered(r, cmd, list) =
             (CHOOSE f : IsLoop(f, DOMAIN PageRows(r), PageRows(r), cmd, list))[DOMAIN PageRows(r)]
BY DEF Answered, FoldLeft, MapThenFoldSet, IsLoop, Turn

\* The greatest index.
LEMMA MaxIs ==
    ASSUME NEW k \in Nat, NEW s \in SUBSET (1..k), k \in s
    PROVE  Max(s) = k
<1>. DEFINE P(x) == x \in s /\ \A y \in s : x >= y
<1>1. P(k)
  OBVIOUS
<1>2. \A x : P(x) => x = k
  OBVIOUS
<1>3. P(CHOOSE x : P(x))
  BY <1>1, Zenon
<1>4. Max(s) = CHOOSE x : P(x)
  BY DEF Max
<1>. QED BY <1>2, <1>3, <1>4

\* The loop has a result for any number of rows.
LEMMA LoopExists ==
    ASSUME NEW n \in Nat, NEW rows, NEW cmd, NEW list
    PROVE  \E f : IsLoop(f, 1..n, rows, cmd, list)
<1>. DEFINE S == {k \in Nat : \E f : IsLoop(f, 1..k, rows, cmd, list)}
<1>1. 0 \in S
  <2>. DEFINE f == [s \in SUBSET (1..0) |-> <<list, <<>>>>]
  <2>1. IsLoop(f, 1..0, rows, cmd, list)
    BY DEF IsLoop
  <2>. QED BY <2>1
<1>2. ASSUME NEW k \in Nat, k \in S PROVE k + 1 \in S
  <2>1. PICK f : IsLoop(f, 1..k, rows, cmd, list)
    BY <1>2
  <2>. DEFINE base == <<list, <<>>>>
             g == [s \in SUBSET (1..(k + 1)) |->
                     IF s = {} THEN base
                     ELSE IF k + 1 \in s THEN Turn(f[s \ {k + 1}], rows[k + 1], cmd) ELSE f[s]]
  <2>2. \A s \in SUBSET (1..k) : f[s] = IF s = {} THEN base ELSE Turn(f[s \ {Max(s)}], rows[Max(s)], cmd)
    <3>. DEFINE h == [s \in SUBSET (1..k) |-> IF s = {} THEN base ELSE Turn(f[s \ {Max(s)}], rows[Max(s)], cmd)]
    <3>1. f = h
      BY <2>1 DEF IsLoop
    <3>2. \A s \in SUBSET (1..k) : h[s] = IF s = {} THEN base ELSE Turn(f[s \ {Max(s)}], rows[Max(s)], cmd)
      OBVIOUS
    <3>. HIDE DEF h
    <3>. QED BY <3>1, <3>2, Zenon
  <2>3. ASSUME NEW s \in SUBSET (1..k) PROVE g[s] = f[s]
    <3>1. s \in SUBSET (1..(k + 1)) /\ k + 1 \notin s
      OBVIOUS
    <3>. QED BY <3>1, <2>2, Zenon
  <2>4. ASSUME NEW s \in SUBSET (1..(k + 1)), s # {}
        PROVE  g[s] = Turn(g[s \ {Max(s)}], rows[Max(s)], cmd)
    <3>1. CASE k + 1 \in s
      <4>1. Max(s) = k + 1 /\ s \ {k + 1} \in SUBSET (1..k)
        BY <3>1, MaxIs
      <4>2. g[s] = Turn(f[s \ {k + 1}], rows[k + 1], cmd)
        BY <2>4, <3>1, Zenon
      <4>3. g[s \ {k + 1}] = f[s \ {k + 1}]
        BY <4>1, <2>3
      <4>. HIDE DEF g
      <4>. QED BY <4>1, <4>2, <4>3
    <3>2. CASE k + 1 \notin s
      <4>1. s \in SUBSET (1..k) /\ s \ {Max(s)} \in SUBSET (1..k)
        <5>1. \A x \in s : x \in 1..(k + 1) /\ x # k + 1
          BY <3>2
        <5>2. \A x \in 1..(k + 1) : x # k + 1 => x \in 1..k
          OBVIOUS
        <5>. QED BY ONLY <5>1, <5>2
      <4>2. g[s] = f[s] /\ g[s \ {Max(s)}] = f[s \ {Max(s)}]
        BY <4>1, <2>3
      <4>. HIDE DEF g
      <4>. QED BY <4>1, <4>2, <2>2, <2>4
    <3>. QED BY <3>1, <3>2
  <2>5. IsLoop(g, 1..(k + 1), rows, cmd, list)
    <3>. DEFINE h == [s \in SUBSET (1..(k + 1)) |-> IF s = {} THEN base ELSE Turn(g[s \ {Max(s)}], rows[Max(s)], cmd)]
    <3>1. \A s \in SUBSET (1..(k + 1)) : g[s] = h[s]
      <4>1. g[{}] = base
        <5>1. {} \in SUBSET (1..(k + 1))
          OBVIOUS
        <5>. QED BY <5>1, Zenon
      <4>. HIDE DEF g
      <4>. QED BY <4>1, <2>4, Zenon
    <3>2. DOMAIN g = SUBSET (1..(k + 1)) /\ g = [s \in DOMAIN g |-> g[s]]
      OBVIOUS
    <3>3. h = [s \in SUBSET (1..(k + 1)) |-> h[s]]
      OBVIOUS
    <3>4. g = h
      <4>. HIDE DEF g, h
      <4>. QED BY <3>1, <3>2, <3>3
    <3>. QED BY <3>4 DEF IsLoop
  <2>. QED BY <2>5
<1>. HIDE DEF S
<1>3. Nat \subseteq S
  BY <1>1, <1>2, NatSet
<1>4. n \in S
  BY <1>3
<1>. QED BY <1>4 DEF S

\* Page, index, hooked.
Row == Pages \X (1..Limit) \X BOOLEAN

\* What the loop has made of k rows: they are in the list in their order, before what was there,
\* and in the file of an export.
Shown(v, k, rows, cmd, list) ==
    /\ v = <<v[1], v[2]>>
    /\ v[1] \in Seq(Row) /\ Len(v[1]) = k + Len(list)
    /\ \A i \in 1..(k + Len(list)) : v[1][i] = IF i <= k THEN rows[i] ELSE list[i - k]
    /\ v[2] \in Seq(Row) /\ Len(v[2]) = IF cmd = "export" THEN k ELSE 0
    /\ \A i \in 1..Len(v[2]) : v[2][i] = rows[i]

\* A row is inserted behind the ones that were.
LEMMA TurnShows ==
    ASSUME NEW n \in Nat, NEW rows \in [1..n -> Row], NEW cmd, NEW list \in Seq(Row),
           \A i \in 1..n : rows[i][2] = i,
           NEW k \in 0..(n - 1), NEW v, Shown(v, k, rows, cmd, list)
    PROVE  Shown(Turn(v, rows[k + 1], cmd), k + 1, rows, cmd, list)
<1>. DEFINE L == v[1]
            m == Len(list)
            row == rows[k + 1]
            A == SubSeq(L, 1, k)
            B == SubSeq(L, k + 1, Len(L))
            N == A \o <<row>> \o B
            F == rt_write(v[2], row, cmd)
<1>1. m \in Nat /\ row \in Row /\ row[2] = k + 1 /\ k \in Nat
  BY LenProperties
<1>2. L \in Seq(Row) /\ Len(L) = k + m /\ \A i \in 1..(k + m) : L[i] \in Row
  BY <1>1, ElementOfSeq DEF Shown
<1>3. A \in Seq(Row) /\ Len(A) = k /\ \A i \in 1..k : A[i] = L[i]
  <2>1. \A i \in 1..k : L[i] \in Row
    BY <1>1, <1>2
  <2>. HIDE DEF L
  <2>2. A \in Seq(Row) /\ Len(A) = (IF 1 <= k THEN k - 1 + 1 ELSE 0) /\ \A i \in 1..(k - 1 + 1) : A[i] = L[1 + i - 1]
    BY <1>1, <2>1, SubSeqProperties
  <2>. HIDE DEF A
  <2>. QED BY <1>1, <2>2
<1>4. B \in Seq(Row) /\ Len(B) = m /\ \A i \in 1..m : B[i] = L[k + i]
  <2>1. \A i \in (k + 1)..Len(L) : L[i] \in Row
    BY <1>1, <1>2
  <2>2. k + 1 \in Int /\ Len(L) \in Int
    BY <1>1, <1>2
  <2>. HIDE DEF L
  <2>3. /\ B \in Seq(Row) /\ Len(B) = (IF k + 1 <= Len(L) THEN Len(L) - (k + 1) + 1 ELSE 0)
        /\ \A i \in 1..(Len(L) - (k + 1) + 1) : B[i] = L[k + 1 + i - 1]
    BY <2>1, <2>2, SubSeqProperties
  <2>. HIDE DEF B
  <2>. QED BY <1>1, <1>2, <2>3
<1>5. /\ A \o <<row>> \in Seq(Row) /\ Len(A \o <<row>>) = k + 1
      /\ \A i \in 1..(k + 1) : (A \o <<row>>)[i] = IF i <= k THEN L[i] ELSE row
  <2>1. <<row>> \in Seq(Row) /\ Len(<<row>>) = 1 /\ <<row>>[1] = row
    BY <1>1
  <2>. HIDE DEF A, row, L
  <2>2. /\ A \o <<row>> \in Seq(Row) /\ Len(A \o <<row>>) = k + 1
        /\ \A i \in 1..(k + 1) : (A \o <<row>>)[i] = IF i <= k THEN A[i] ELSE <<row>>[i - k]
    BY <1>3, <2>1, ConcatProperties
  <2>. QED BY <1>1, <1>3, <2>1, <2>2
<1>6. /\ N \in Seq(Row) /\ Len(N) = k + 1 + m
      /\ \A i \in 1..(k + 1 + m) : N[i] = IF i <= k + 1 THEN (IF i <= k THEN L[i] ELSE row) ELSE L[i - 1]
  <2>. DEFINE C == A \o <<row>>
  <2>1. C \in Seq(Row) /\ Len(C) = k + 1 /\ \A i \in 1..(k + 1) : C[i] = IF i <= k THEN L[i] ELSE row
    BY <1>5
  <2>2. N = C \o B
    OBVIOUS
  <2>. HIDE DEF A, B, C, N, L, row
  <2>3. /\ N \in Seq(Row) /\ Len(N) = Len(C) + Len(B)
        /\ \A i \in 1..(Len(C) + Len(B)) : N[i] = IF i <= Len(C) THEN C[i] ELSE B[i - Len(C)]
    <3>1. B \in Seq(Row) /\ C \in Seq(Row)
      BY <1>4, <2>1
    <3>2. /\ C \o B \in Seq(Row) /\ Len(C \o B) = Len(C) + Len(B)
          /\ \A i \in 1..(Len(C) + Len(B)) : (C \o B)[i] = IF i <= Len(C) THEN C[i] ELSE B[i - Len(C)]
      BY ONLY <3>1, ConcatProperties, Zenon
    <3>. QED BY ONLY <2>2, <3>2
  <2>4. \A i \in 1..(k + 1 + m) : i > k + 1 => B[i - (k + 1)] = L[i - 1]
    <3>. SUFFICES ASSUME NEW i \in 1..(k + 1 + m), i > k + 1 PROVE B[i - (k + 1)] = L[i - 1]
      OBVIOUS
    <3>1. i - (k + 1) \in 1..m /\ k + (i - (k + 1)) = i - 1
      BY <1>1
    <3>. QED BY <3>1, <1>4
  <2>5. N \in Seq(Row) /\ Len(N) = k + 1 + m
    BY <1>1, <1>4, <2>1, <2>3
  <2>6. ASSUME NEW i \in 1..(k + 1 + m)
        PROVE  N[i] = IF i <= k + 1 THEN (IF i <= k THEN L[i] ELSE row) ELSE L[i - 1]
    <3>1. N[i] = IF i <= k + 1 THEN C[i] ELSE B[i - (k + 1)]
      BY <1>4, <2>1, <2>3
    <3>2. CASE i <= k + 1
      <4>1. i \in 1..(k + 1)
        BY <1>1, <3>2
      <4>. QED BY <2>1, <3>1, <3>2, <4>1, Zenon
    <3>3. CASE ~(i <= k + 1)
      <4>1. B[i - (k + 1)] = L[i - 1]
        BY <1>1, <2>4, <3>3
      <4>. QED BY <3>1, <3>3, <4>1, Zenon
    <3>. QED BY <3>2, <3>3
  <2>. QED BY <2>5, <2>6
<1>7. \A i \in 1..(k + 1 + m) : N[i] = IF i <= k + 1 THEN rows[i] ELSE list[i - (k + 1)]
  <2>. SUFFICES ASSUME NEW i \in 1..(k + 1 + m) PROVE N[i] = IF i <= k + 1 THEN rows[i] ELSE list[i - (k + 1)]
    OBVIOUS
  <2>. HIDE DEF N, L
  <2>1. \A j \in 1..(k + m) : L[j] = IF j <= k THEN rows[j] ELSE list[j - k]
    BY DEF Shown, L
  <2>2. CASE i <= k
    BY <1>1, <1>6, <2>1, <2>2
  <2>3. CASE i = k + 1
    BY <1>1, <1>6, <2>3
  <2>4. CASE i > k + 1
    <3>1. i - 1 \in 1..(k + m) /\ ~(i - 1 <= k) /\ (i - 1) - k = i - (k + 1)
      BY <1>1, <2>4
    <3>2. L[i - 1] = list[i - (k + 1)]
      BY <2>1, <3>1
    <3>3. ~(i <= k + 1)
      BY <1>1, <2>4
    <3>4. N[i] = L[i - 1]
      BY <1>6, <3>3, Zenon
    <3>. QED BY <3>2, <3>3, <3>4, Zenon
  <2>. QED BY <1>1, <2>2, <2>3, <2>4
<1>8. /\ F \in Seq(Row) /\ Len(F) = IF cmd = "export" THEN k + 1 ELSE 0
      /\ \A i \in 1..Len(F) : F[i] = rows[i]
  <2>1. v[2] \in Seq(Row) /\ Len(v[2]) = (IF cmd = "export" THEN k ELSE 0) /\ \A i \in 1..Len(v[2]) : v[2][i] = rows[i]
    BY DEF Shown
  <2>2. CASE cmd = "export"
    <3>. HIDE DEF row
    <3>1. F = Append(v[2], row)
      BY <2>2 DEF rt_write
    <3>2. /\ Append(v[2], row) \in Seq(Row) /\ Len(Append(v[2], row)) = k + 1
          /\ \A i \in 1..(k + 1) : Append(v[2], row)[i] = IF i <= k THEN v[2][i] ELSE row
      BY <1>1, <2>1, <2>2
    <3>3. \A i \in 1..(k + 1) : F[i] = rows[i]
      <4>. SUFFICES ASSUME NEW i \in 1..(k + 1) PROVE F[i] = rows[i]
        OBVIOUS
      <4>1. CASE i <= k
        <5>1. i \in 1..Len(v[2]) /\ F[i] = v[2][i]
          <6>. HIDE DEF F
          <6>. QED BY <1>1, <2>1, <2>2, <3>1, <3>2, <4>1
        <5>. QED BY <2>1, <5>1, Zenon
      <4>2. CASE ~(i <= k)
        <5>1. i = k + 1 /\ F[i] = row
          <6>. HIDE DEF F
          <6>. QED BY <1>1, <3>1, <3>2, <4>2
        <5>. QED BY <5>1 DEF row
      <4>. QED BY <4>1, <4>2
    <3>4. Len(F) = k + 1 /\ F \in Seq(Row)
      BY <3>1, <3>2, Zenon
    <3>. HIDE DEF F
    <3>. QED BY <2>2, <3>3, <3>4
  <2>3. CASE cmd # "export"
    BY <2>1, <2>3 DEF rt_write
  <2>. QED BY <2>2, <2>3
<1>9. Turn(v, row, cmd) = <<N, F>>
  <2>1. row[2] - 1 = k
    BY <1>1
  <2>. HIDE DEF row
  <2>. QED BY <1>1, <2>1 DEF Turn, ui_lv_insert_item
<1>. HIDE DEF N, F, L
<1>10. k + 1 + m = (k + 1) + Len(list)
  OBVIOUS
<1>. QED BY <1>6, <1>7, <1>8, <1>9, <1>10 DEF Shown

\* The list view after the answer shows its rows before what it showed, and the file has them.
LEMMA AnsweredShows ==
    ASSUME NEW r, NEW n \in Nat, PageRows(r) \in [1..n -> Row], \A i \in 1..n : PageRows(r)[i][2] = i,
           NEW cmd, NEW list \in Seq(Row)
    PROVE  Shown(Answered(r, cmd, list), n, PageRows(r), cmd, list)
<1>. DEFINE rows == PageRows(r)
            f == CHOOSE f : IsLoop(f, 1..n, rows, cmd, list)
            S == {k \in Nat : k <= n => Shown(f[1..k], k, rows, cmd, list)}
<1>1. DOMAIN rows = 1..n
  OBVIOUS
<1>2. Answered(r, cmd, list) = f[1..n]
  BY <1>1, AnsweredIsLoop
<1>3. IsLoop(f, 1..n, rows, cmd, list)
  <2>. HIDE DEF rows
  <2>1. \E g : IsLoop(g, 1..n, rows, cmd, list)
    BY LoopExists
  <2>. QED BY <2>1, Zenon
<1>. HIDE DEF f
<1>4. f[{}] = <<list, <<>>>> /\ \A s \in SUBSET (1..n) : s # {} => f[s] = Turn(f[s \ {Max(s)}], rows[Max(s)], cmd)
  <2>. HIDE DEF rows
  <2>. DEFINE h == [s \in SUBSET (1..n) |-> IF s = {} THEN <<list, <<>>>> ELSE Turn(f[s \ {Max(s)}], rows[Max(s)], cmd)]
  <2>1. f = h
    BY <1>3 DEF IsLoop
  <2>2. {} \in SUBSET (1..n)
    OBVIOUS
  <2>3. /\ h[{}] = <<list, <<>>>>
        /\ \A s \in SUBSET (1..n) : s # {} => h[s] = Turn(f[s \ {Max(s)}], rows[Max(s)], cmd)
    BY <2>2, Zenon
  <2>. HIDE DEF h
  <2>. QED BY <2>1, <2>3, Zenon
<1>5. 0 \in S
  <2>1. 1..0 = {} /\ Len(list) \in Nat
    BY LenProperties
  <2>. DEFINE b == <<list, <<>>>>
  <2>2. b[1] = list /\ b[2] = <<>> /\ <<>> \in Seq(Row) /\ Len(<<>>) = 0 /\ b = <<b[1], b[2]>>
    OBVIOUS
  <2>. HIDE DEF b
  <2>3. Shown(b, 0, rows, cmd, list)
    BY <2>1, <2>2 DEF Shown
  <2>. QED BY <1>4, <2>1, <2>3 DEF b
<1>6. ASSUME NEW k \in Nat, k \in S PROVE k + 1 \in S
  <2>. SUFFICES ASSUME k + 1 <= n PROVE Shown(f[1..(k + 1)], k + 1, rows, cmd, list)
    OBVIOUS
  <2>1. Shown(f[1..k], k, rows, cmd, list) /\ k \in 0..(n - 1)
    BY <1>6
  <2>2. Max(1..(k + 1)) = k + 1 /\ 1..(k + 1) \in SUBSET (1..n) /\ 1..(k + 1) # {} /\ (1..(k + 1)) \ {k + 1} = 1..k
    <3>1. k + 1 \in Nat /\ 1..(k + 1) \in SUBSET (1..(k + 1)) /\ k + 1 \in 1..(k + 1)
      OBVIOUS
    <3>2. Max(1..(k + 1)) = k + 1
      BY ONLY <3>1, MaxIs
    <3>3. 1..(k + 1) \in SUBSET (1..n) /\ 1..(k + 1) # {}
      <4>. HIDE DEF f, rows, S
      <4>1. k + 1 <= n /\ k \in Nat /\ n \in Nat
        OBVIOUS
      <4>2. \A x \in 1..(k + 1) : x \in 1..n
        BY ONLY <4>1
      <4>. QED BY ONLY <3>1, <4>2
    <3>4. (1..(k + 1)) \ {k + 1} = 1..k
      OBVIOUS
    <3>. QED BY <3>2, <3>3, <3>4, Zenon
  <2>3. f[1..(k + 1)] = Turn(f[1..k], rows[k + 1], cmd)
    <3>. HIDE DEF rows
    <3>. QED BY <2>2, <1>4
  <2>4. rows \in [1..n -> Row] /\ \A i \in 1..n : rows[i][2] = i
    OBVIOUS
  <2>. DEFINE v == f[1..k]
  <2>5. Shown(v, k, rows, cmd, list) /\ list \in Seq(Row) /\ n \in Nat
    BY <2>1
  <2>. HIDE DEF rows, v
  <2>6. Shown(Turn(v, rows[k + 1], cmd), k + 1, rows, cmd, list)
    BY ONLY <2>1, <2>4, <2>5, TurnShows
  <2>. QED BY <2>3, <2>6 DEF v
<1>7. n \in S
  <2>. HIDE DEF S
  <2>. QED BY <1>5, <1>6, NatSet
<1>. QED BY <1>2, <1>7

\* The rows of a process and its file: a request is for the page they are of, it is made when no
\* row is above those of a Restore all, and an export begins without any.  Only the pages the
\* driver can fill get rows.
Listed(r, q) ==
    /\ r.list \in Seq(Row) /\ r.file \in Seq(Row) /\ r.stale \in 0..Len(r.list)
    /\ \A i \in DOMAIN r.list : r.list[i][1] = r.page
    /\ r.file # <<>> => r.file = r.list /\ r.stale = 0
    /\ r.pc = "request" => q.op = r.page /\ r.stale = Len(r.list) /\ r.file = <<>> /\ (r.cmd = "export" => r.list = <<>>)
    /\ q.ok => q.op \in {"ssdt", "ssdts", "idt"} /\ r.open /\ r.pc = "request"

\* The entries of an answer are counted when the loop begins, which it does with all of them.
Counted(q) ==
    q.count # 0 => /\ q.count = Limit /\ q.buf /\ q.op \in Tables /\ q.pc \in {"entry", "done"}
                   /\ q.pc = "done" => q.i = Limit

Lists == \A p \in Instances : Listed(proc[p], req[p]) /\ Counted(req[p])

\* The rows above those of a Restore all are the whole table or none, each in its place, and of a
\* process that has the device; they agree with the table but for the entries written since.
Fresh(r, tab, late) ==
    LET n == Len(r.list) - r.stale
    IN  /\ n \in {0, Limit}
        /\ n > 0 => r.open
        /\ \A i \in 1..n :
             /\ r.list[i][2] = i
             /\ r.page \in Tables /\ <<r.page, i>> \notin late => r.list[i][3] = tab[r.page][i]

Tops == \A p \in Instances : Fresh(proc[p], table, since)

\* The rows of an answer are of its page, and numbered.
LEMMA AnswerRows ==
    ASSUME NEW r \in Request, r.op \in {"ssdt", "ssdts", "idt"}
    PROVE  \E n \in Nat : /\ PageRows(r) \in [1..n -> Row]
                          /\ \A i \in 1..n : PageRows(r)[i][1] = r.op /\ PageRows(r)[i][2] = i
<1>1. ASSUME NEW n \in 0..Limit
      PROVE  /\ n \in Nat /\ RowsUpTo(r, n) \in [1..n -> Row]
             /\ \A i \in 1..n : RowsUpTo(r, n)[i][1] = r.op /\ RowsUpTo(r, n)[i][2] = i
  <2>1. Limit \in Nat /\ n \in Nat /\ \A i \in 1..n : i \in 1..Limit
    BY ZikAssumption
  <2>2. r.op \in Pages
    BY DEF Pages
  <2>3. \A i \in 1..n : (i <= Len(r.items) /\ r.items[i]) \in BOOLEAN
    OBVIOUS
  <2>4. \A i \in 1..n : <<r.op, i, i <= Len(r.items) /\ r.items[i]>> \in Row
    BY <2>1, <2>2, <2>3 DEF Row
  <2>. QED BY <2>1, <2>4 DEF RowsUpTo
<1>2. r.count \in 0..Limit /\ Limit \in 0..Limit
  BY ZikAssumption DEF Request
<1>3. \E n \in 0..Limit : PageRows(r) = RowsUpTo(r, n)
  BY <1>2 DEF PageRows, page_ssdt, page_ssdts, page_idt
<1>. QED BY <1>1, <1>3

\* The new list view has rows of the page only, and the file of an export has its rows.
LEMMA AnsweredListed ==
    ASSUME NEW r \in Request, r.op \in {"ssdt", "ssdts", "idt"}, NEW cmd, NEW list \in Seq(Row),
           \A i \in DOMAIN list : list[i][1] = r.op, cmd = "export" => list = <<>>,
           NEW v, v = Answered(r, cmd, list)
    PROVE  /\ v[1] \in Seq(Row) /\ v[2] \in Seq(Row)
           /\ \A i \in DOMAIN v[1] : v[1][i][1] = r.op
           /\ v[2] # <<>> => v[2] = v[1] /\ Len(list) = 0
           /\ Len(list) <= Len(v[1])
<1>1. PICK n \in Nat : /\ PageRows(r) \in [1..n -> Row]
                       /\ \A i \in 1..n : PageRows(r)[i][1] = r.op /\ PageRows(r)[i][2] = i
  BY AnswerRows
<1>. DEFINE rows == PageRows(r)
            m == Len(list)
<1>2. Shown(v, n, rows, cmd, list)
  BY <1>1, AnsweredShows
<1>3. m \in Nat /\ DOMAIN list = 1..m
  BY LenProperties
<1>4. v[1] \in Seq(Row) /\ v[2] \in Seq(Row) /\ Len(v[1]) = n + m /\ DOMAIN v[1] = 1..(n + m)
  BY <1>2, LenProperties DEF Shown
<1>5. ASSUME NEW i \in 1..(n + m) PROVE v[1][i][1] = r.op
  <2>1. v[1][i] = IF i <= n THEN rows[i] ELSE list[i - n]
    BY <1>2 DEF Shown
  <2>. HIDE DEF rows
  <2>2. CASE i <= n
    <3>1. i \in 1..n
      BY <2>2
    <3>. QED BY <1>1, <2>1, <2>2, <3>1 DEF rows
  <2>3. CASE ~(i <= n)
    <3>1. i - n \in DOMAIN list
      BY <1>3, <2>3
    <3>. QED BY <2>1, <2>3, <3>1
  <2>. QED BY <2>2, <2>3
<1>6. ASSUME v[2] # <<>> PROVE v[2] = v[1] /\ m = 0
  <2>1. Len(v[2]) # 0
    BY <1>4, <1>6, EmptySeq
  <2>2. cmd = "export" /\ Len(v[2]) = n
    BY <1>2, <2>1 DEF Shown
  <2>3. m = 0
    BY <2>2
  <2>. HIDE DEF rows, m
  <2>4. Len(v[1]) = Len(v[2])
    BY <1>4, <2>2, <2>3
  <2>5. \A i \in 1..n : v[1][i] = rows[i] /\ v[2][i] = rows[i]
    BY <1>2, <2>2, <2>3 DEF Shown, m
  <2>6. v[2] = v[1]
    BY <1>4, <2>2, <2>4, <2>5, SeqEqual
  <2>. QED BY <2>6, <2>3 DEF m
<1>7. m <= Len(v[1])
  BY <1>3, <1>4
<1>. QED BY <1>4, <1>5, <1>6, <1>7

\* A step of one process keeps the rows of the others.
LEMMA ListsStep ==
    ASSUME IInv, Lists, NEW p \in Instances, OnlyStep(p),
           \A q \in Instances \ {p} : req'[q] = req[q],
           Listed(proc'[p], req'[p]), Counted(req'[p])
    PROVE  Lists'
BY DEF Lists, OnlyStep

\* A step that is no page's keeps the rows.
LEMMA GoOnLists ==
    ASSUME IInv, Lists, NEW p \in Instances, NEW pc \in ProcessPCs \ {"request"}, GoOn(p, pc),
           req' = req, proc[p].pc # "request"
    PROVE  Lists'
<1>. DEFINE r == [proc[p] EXCEPT !.pc = pc]
<1>1. OnlyStep(p) /\ proc'[p] = r
  <2>1. DOMAIN proc = Instances
    BY DEF IInv, Types
  <2>. QED BY <2>1, GoOnStep DEF GoOn, Proc
<1>2. IsProcess(proc[p]) /\ Listed(proc[p], req[p]) /\ Counted(req[p])
  BY DEF IInv, Types, Lists
<1>3. /\ r.list = proc[p].list /\ r.file = proc[p].file /\ r.page = proc[p].page /\ r.pc # "request"
      /\ r.stale = proc[p].stale
  BY <1>2 DEF IsProcess
<1>. HIDE DEF r
<1>4. Listed(r, req[p])
  BY <1>2, <1>3 DEF Listed
<1>. QED BY <1>1, <1>2, <1>4, ListsStep

\* A process that ends has no rows.
LEMMA OffLists ==
    ASSUME IInv, Lists, NEW p \in Instances, Proc(p, Off),
           (req' = req /\ proc[p].pc # "request") \/ req' = [req EXCEPT ![p] = NoRequest]
    PROVE  Lists'
<1>1. OnlyStep(p) /\ proc'[p] = Off
  <2>1. DOMAIN proc = Instances
    BY DEF IInv, Types
  <2>. QED BY <2>1, OffStep DEF Proc
<1>2. /\ Off.list = <<>> /\ Off.file = <<>> /\ Off.pc = "off" /\ Off.stale = 0 /\ ~NoRequest.ok
      /\ NoRequest.count = 0
  BY DEF Off, NoRequest
<1>3. (\A q \in Instances \ {p} : req'[q] = req[q]) /\ ((req'[p] = req[p] /\ proc[p].pc # "request") \/ req'[p] = NoRequest)
  BY DEF IInv, Types
<1>4. Listed(proc[p], req[p]) /\ Counted(req[p])
  BY DEF Lists
<1>5. Listed(Off, req'[p]) /\ Counted(req'[p])
  BY <1>2, <1>3, <1>4 DEF Listed, Counted
<1>. QED BY <1>1, <1>3, <1>5, ListsStep

\* A page is asked for.
LEMMA CallLists ==
    ASSUME IInv, Lists, NEW p \in Instances, NEW r, OnlyStep(p), proc'[p] = r,
           NEW write, NEW buf, drv_callkernel(p, r.page, write, buf),
           r.list \in Seq(Row), r.file \in Seq(Row), \A i \in DOMAIN r.list : r.list[i][1] = r.page,
           r.stale = Len(r.list), r.file = <<>>, r.cmd = "export" => r.list = <<>>
    PROVE  Lists'
<1>1. /\ \A q \in Instances \ {p} : req'[q] = req[q]
      /\ ~req'[p].ok /\ req'[p].op = r.page /\ req'[p].count = 0
  BY DEF IInv, Types, drv_callkernel, NoRequest
<1>2. Listed(r, req'[p]) /\ Counted(req'[p])
  <2>1. Len(r.list) \in Nat
    BY LenProperties
  <2>. QED BY <1>1, <2>1 DEF Listed, Counted
<1>. QED BY <1>1, <1>2, ListsStep

\* A page is read from the beginning.
LEMMA RefreshLists ==
    ASSUME IInv, Lists, NEW p \in Instances, NEW page, NEW cmd, page_refresh(p, page, cmd),
           page \in Pages \cup {"none"}, cmd \in Commands
    PROVE  Lists'
<1>. DEFINE r == [proc[p] EXCEPT !.pc = "request", !.page = page, !.list = <<>>, !.stale = 0,
                              !.file = <<>>, !.cmd = cmd]
<1>1. IsProcess(proc[p])
  BY DEF IInv, Types
<1>2. IsProcess(r) /\ r.page = page /\ r.list = <<>> /\ r.stale = 0 /\ r.file = <<>>
  BY <1>1 DEF IsProcess, ProcessPCs
<1>3. Proc(p, r)
  BY DEF page_refresh
<1>. HIDE DEF r
<1>4. OnlyStep(p) /\ proc'[p] = r
  BY <1>2, <1>3, ProcStep
<1>5. PICK buf \in BOOLEAN : drv_callkernel(p, page, FALSE, buf)
  BY DEF page_refresh, PageRead, rt_valloc
<1>6. <<>> \in Seq(Row) /\ DOMAIN <<>> = {} /\ Len(<<>>) = 0
  OBVIOUS
<1>7. drv_callkernel(p, r.page, FALSE, buf)
  BY <1>2, <1>5
<1>. QED BY <1>2, <1>4, <1>6, <1>7, CallLists

\* The restore keeps the rows until the page is read again.
LEMMA RestoreLists ==
    ASSUME IInv, Lists, NEW p \in Instances, page_restoreall(p)
    PROVE  Lists'
<1>. DEFINE r == [proc[p] EXCEPT !.pc = "request", !.stale = Len(proc[p].list), !.file = <<>>,
                              !.cmd = "restoreall"]
<1>1. IsProcess(proc[p]) /\ Listed(proc[p], req[p])
  BY DEF IInv, Types, Lists
<1>2. /\ IsProcess(r) /\ r.page = proc[p].page /\ r.list = proc[p].list /\ r.file = <<>>
      /\ r.stale = Len(proc[p].list) /\ r.cmd = "restoreall"
  BY <1>1 DEF IsProcess, ProcessPCs, Commands
<1>3. Proc(p, r)
  BY DEF page_restoreall
<1>. HIDE DEF r
<1>4. OnlyStep(p) /\ proc'[p] = r
  BY <1>2, <1>3, ProcStep
<1>5. drv_callkernel(p, r.page, TRUE, FALSE)
  BY <1>2 DEF page_restoreall
<1>6. <<>> \in Seq(Row)
  OBVIOUS
<1>. QED BY <1>1, <1>2, <1>4, <1>5, <1>6, CallLists DEF Listed

\* The rows of an answer are put into the list view, or the page is read again.
LEMMA PageStepLists ==
    ASSUME IInv, Lists, NEW p \in Instances, PageStep(p)
    PROVE  Lists'
<1>. DEFINE q == req[p]
            shown == IF q.ok THEN Answered(q, proc[p].cmd, proc[p].list) ELSE <<proc[p].list, <<>>>>
<1>1. /\ proc[p].pc = "request" /\ IsProcess(proc[p]) /\ q \in Request
      /\ Listed(proc[p], q) /\ q.op = proc[p].page
  BY RequestFields DEF PageStep, InPc, IInv, Types, Lists, Listed
<1>2. ASSUME Proc(p, [proc[p] EXCEPT !.cmd = "refresh"]), PageRead(p, q.op)
      PROVE  Lists'
  <2>. DEFINE r == [proc[p] EXCEPT !.cmd = "refresh"]
  <2>1. /\ IsProcess(r) /\ r.page = q.op /\ r.list = proc[p].list /\ r.file = <<>> /\ r.cmd = "refresh"
        /\ r.stale = Len(r.list)
    <3>1. proc[p].file = <<>>
      BY <1>1 DEF Listed
    <3>. QED BY <1>1, <3>1 DEF IsProcess, Commands, Listed
  <2>2. Proc(p, r)
    BY <1>2
  <2>. HIDE DEF r
  <2>3. OnlyStep(p) /\ proc'[p] = r
    BY <2>1, <2>2, ProcStep
  <2>4. PICK buf \in BOOLEAN : drv_callkernel(p, r.page, FALSE, buf)
    BY <1>2, <2>1 DEF PageRead, rt_valloc
  <2>5. <<>> \in Seq(Row)
    OBVIOUS
  <2>. QED BY <1>1, <2>1, <2>3, <2>4, <2>5, CallLists DEF Listed
<1>3. ASSUME Proc(p, [proc[p] EXCEPT !.pc = "idle", !.cmd = "none", !.list = shown[1], !.file = shown[2]]),
             req' = [req EXCEPT ![p] = NoRequest]
      PROVE  Lists'
  <2>. DEFINE v == shown
              r == [proc[p] EXCEPT !.pc = "idle", !.cmd = "none", !.list = v[1], !.file = v[2]]
  <2>1. /\ v[1] \in Seq(Row) /\ v[2] \in Seq(Row)
        /\ \A i \in DOMAIN v[1] : v[1][i][1] = q.op
        /\ v[2] # <<>> => v[2] = v[1] /\ Len(proc[p].list) = 0
        /\ Len(proc[p].list) <= Len(v[1])
    <3>1. /\ proc[p].list \in Seq(Row) /\ \A i \in DOMAIN proc[p].list : proc[p].list[i][1] = q.op
          /\ proc[p].cmd = "export" => proc[p].list = <<>>
          /\ q.ok => q.op \in {"ssdt", "ssdts", "idt"}
      BY <1>1 DEF Listed
    <3>. HIDE DEF q
    <3>2. CASE q.ok
      <4>1. shown = Answered(q, proc[p].cmd, proc[p].list)
        BY <3>2
      <4>. HIDE DEF shown
      <4>. QED BY <1>1, <3>1, <3>2, <4>1, AnsweredListed
    <3>3. CASE ~q.ok
      <4>1. shown[1] = proc[p].list /\ shown[2] = <<>> /\ <<>> \in Seq(Row)
        BY <3>3
      <4>. HIDE DEF shown
      <4>2. Len(proc[p].list) \in Nat
        BY <3>1, LenProperties
      <4>. QED BY <3>1, <4>1, <4>2
    <3>. QED BY <3>2, <3>3
  <2>. HIDE DEF v, shown
  <2>2. /\ IsProcess(r) /\ r.pc = "idle" /\ r.page = q.op /\ r.list = v[1] /\ r.file = v[2]
        /\ r.stale = proc[p].stale
    BY <1>1 DEF IsProcess, ProcessPCs, Commands
  <2>3. Proc(p, r)
    BY <1>3 DEF v
  <2>. HIDE DEF r
  <2>4. OnlyStep(p) /\ proc'[p] = r
    BY <2>2, <2>3, ProcStep
  <2>5. (\A x \in Instances \ {p} : req'[x] = req[x]) /\ ~req'[p].ok /\ req'[p].count = 0
    BY <1>3 DEF IInv, Types, NoRequest
  <2>6. r.stale = Len(proc[p].list) /\ r.stale \in 0..Len(r.list)
    <3>1. proc[p].stale = Len(proc[p].list) /\ Len(proc[p].list) \in Nat /\ Len(v[1]) \in Nat
      BY <1>1, <2>1, LenProperties DEF Listed
    <3>. QED BY <2>1, <2>2, <3>1
  <2>7. Listed(r, req'[p]) /\ Counted(req'[p])
    BY <2>1, <2>2, <2>5, <2>6 DEF Listed, Counted
  <2>. QED BY <2>4, <2>5, <2>7, ListsStep
<1>4. CASE Gone(p)
  BY <1>4, OffLists DEF Gone
<1>. QED BY <1>2, <1>3, <1>4 DEF PageStep

\* A request keeps its page, and is answered with rows for three of the pages only.
LEMMA DeviceLists ==
    ASSUME IInv, Lists, NEW p \in Instances, DeviceDispatch(p), proc' = proc
    PROVE  Lists'
<1>1. /\ req[p] \in Request /\ DOMAIN req = Instances /\ Listed(proc[p], req[p]) /\ Counted(req[p])
      /\ ReqShape(req[p])
  BY RequestFields DEF IInv, Types, Lists
<1>2. ASSUME NEW r, Becomes(p, r), r.op = req[p].op, r.ok => r.op \in {"ssdt", "ssdts", "idt"}, Counted(r)
      PROVE  Lists'
  <2>0. proc[p].open /\ proc[p].pc = "request"
    BY DEF IInv, HandleKept, Busy, DeviceDispatch, EnumSSDT, EnumSSDTShadow, EnumStep, EnumEnter, EnumOpen,
           EnumRead, EnumEntry, EnumEnd, EnumIDT, EnumKernel, At
  <2>1. req'[p] = r /\ \A q \in Instances \ {p} : req'[q] = req[q]
    BY <1>1, <1>2 DEF Becomes
  <2>. QED BY <1>1, <1>2, <2>0, <2>1 DEF Lists, Listed
<1>3. ASSUME NEW r \in Request, NEW ok, Becomes(p, Completed(r, ok)), r.op = req[p].op,
             Ignored(r.op, ok) => r.op \in {"ssdt", "ssdts", "idt"},
             r.count # 0 => r.count = Limit /\ r.buf /\ r.op \in Tables /\ r.i = Limit
      PROVE  Lists'
  <2>1. /\ Completed(r, ok).op = r.op /\ Completed(r, ok).ok = Ignored(r.op, ok)
        /\ Completed(r, ok).count = r.count /\ Completed(r, ok).buf = r.buf
        /\ Completed(r, ok).i = r.i /\ Completed(r, ok).pc = "done"
    BY DEF Completed, Request
  <2>2. Counted(Completed(r, ok))
    BY <1>3, <2>1 DEF Counted
  <2>. QED BY <1>2, <1>3, <2>1, <2>2
<1>4. ASSUME NEW op \in Tables, EnumStep(p, op) PROVE Lists'
  <2>1. req[p].op \in {"ssdt", "ssdts", "idt"} /\ req[p].op = op
    BY <1>4 DEF EnumStep, EnumEnter, EnumOpen, EnumRead, EnumEntry, EnumEnd, At, Tables
  <2>2. ASSUME NEW r, Becomes(p, r), r.op = req[p].op, Counted(r) PROVE Lists'
    BY <1>2, <2>1, <2>2
  <2>3. CASE EnumEnter(p, op)
    <3>1. [req[p] EXCEPT !.pc = "open"].op = req[p].op /\ [req[p] EXCEPT !.pc = "open"].count = req[p].count
      BY <1>1 DEF Request
    <3>2. req[p].count = 0
      BY <1>1, <2>3 DEF EnumEnter, At, Counted
    <3>3. Counted([req[p] EXCEPT !.pc = "open"])
      BY <3>1, <3>2 DEF Counted
    <3>. QED BY <1>1, <1>3, <2>1, <2>2, <2>3, <3>1, <3>2, <3>3 DEF EnumEnter
  <2>4. CASE EnumOpen(p, op)
    <3>. DEFINE r == [req[p] EXCEPT !.pc = "read", !.file = TRUE]
    <3>1. r.op = req[p].op /\ r.count = req[p].count
      BY <1>1 DEF Request
    <3>2. req[p].count = 0
      BY <1>1, <2>4 DEF EnumOpen, At, Counted
    <3>3. Becomes(p, r) \/ Becomes(p, Completed(req[p], FALSE))
      BY <2>4 DEF EnumOpen
    <3>. HIDE DEF r
    <3>4. Counted(r)
      BY <3>1, <3>2 DEF Counted
    <3>. QED BY <1>1, <1>3, <2>1, <2>2, <3>1, <3>2, <3>3, <3>4
  <2>5. CASE EnumRead(p, op)
    <3>. DEFINE r == [req[p] EXCEPT !.pc = "entry", !.wp = req[p].write,
                                    !.count = IF req[p].buf THEN Limit ELSE 0]
                e == [req[p] EXCEPT !.file = FALSE]
    <3>1. /\ r.op = req[p].op /\ r.pc = "entry" /\ r.buf = req[p].buf
          /\ r.count = IF req[p].buf THEN Limit ELSE 0
          /\ e \in Request /\ e.op = req[p].op /\ e.count = req[p].count
      BY <1>1 DEF Request
    <3>2. Becomes(p, r) \/ Becomes(p, Completed(e, FALSE))
      BY <2>5 DEF EnumRead
    <3>3. req[p].count = 0
      BY <1>1, <2>5 DEF EnumRead, At, Counted
    <3>. HIDE DEF r, e
    <3>4. Counted(r)
      BY <2>1, <3>1 DEF Counted
    <3>. QED BY <1>3, <2>1, <2>2, <3>1, <3>2, <3>3, <3>4
  <2>6. CASE EnumEntry(p, op)
    <3>. DEFINE i == req[p].i + 1
                its == IF req[p].buf THEN Append(req[p].items, table[op][i]) ELSE req[p].items
                r == [req[p] EXCEPT !.i = i, !.items = its]
    <3>1. Becomes(p, r)
      BY <2>6 DEF EnumEntry
    <3>. HIDE DEF i, its
    <3>2. r.op = req[p].op /\ r.count = req[p].count /\ r.buf = req[p].buf /\ r.pc = req[p].pc
      BY <1>1 DEF Request
    <3>3. req[p].pc = "entry"
      BY <2>6 DEF EnumEntry, At
    <3>. HIDE DEF r
    <3>4. Counted(r)
      BY <1>1, <3>2, <3>3 DEF Counted
    <3>. QED BY <2>2, <3>1, <3>2, <3>4
  <2>7. CASE EnumEnd(p, op)
    <3>. DEFINE e == [req[p] EXCEPT !.wp = FALSE, !.file = FALSE]
    <3>1. /\ e \in Request /\ e.op = req[p].op /\ e.count = req[p].count /\ e.buf = req[p].buf
          /\ e.i = req[p].i
      BY <1>1 DEF Request
    <3>2. Becomes(p, Completed(e, TRUE)) /\ req[p].i = Limit
      BY <2>7 DEF EnumEnd, EnumEntries
    <3>. HIDE DEF e
    <3>3. e.count # 0 => e.count = Limit /\ e.buf /\ e.op \in Tables /\ e.i = Limit
      BY <1>1, <3>1, <3>2 DEF Counted
    <3>. QED BY <1>3, <2>1, <3>1, <3>2, <3>3
  <2>. QED BY <1>4, <2>3, <2>4, <2>5, <2>6, <2>7 DEF EnumStep
<1>5. ASSUME EnumIDT(p) PROVE Lists'
  <2>. DEFINE its == IF req[p].buf THEN [i \in 1..Limit |-> FALSE] ELSE req[p].items
              r == [req[p] EXCEPT !.items = its]
              c == Completed(r, req[p].buf)
  <2>1. Becomes(p, c) /\ req[p].op = "idt" /\ req[p].pc = "enter"
    BY <1>5 DEF EnumIDT, At
  <2>. HIDE DEF its
  <2>2. c.op = req[p].op /\ c.count = req[p].count
    BY <1>1 DEF Completed, Request
  <2>. HIDE DEF c
  <2>3. Counted(c)
    BY <1>1, <2>1, <2>2 DEF Counted
  <2>. QED BY <1>2, <2>1, <2>2, <2>3
<1>6. ASSUME EnumKernel(p) PROVE Lists'
  <2>1. req[p].count = 0
    BY <1>1, <1>6 DEF EnumKernel, At, Counted
  <2>. QED BY <1>1, <1>3, <1>6, <2>1 DEF EnumKernel, At, Ignored
<1>. QED BY <1>4, <1>5, <1>6 DEF DeviceDispatch, EnumSSDT, EnumSSDTShadow, Tables

\* The installation of the driver shows nothing yet.
LEMMA InstallLists ==
    ASSUME IInv, Lists, NEW p \in Instances, ui_on_before_create(p) \/ drv_initialize(p)
    PROVE  Lists'
<1>1. CASE \E pc \in ProcessPCs \ {"request"} : GoOn(p, pc) /\ req' = req /\ proc[p].pc # "request"
  BY <1>1, GoOnLists
<1>2. CASE drv_link(p)
  <2>. DEFINE open == driver = "running" /\ Exclusive(AnyOpen)
              r == [proc[p] EXCEPT !.pc = "window", !.open = open]
  <2>1. IsProcess(proc[p]) /\ Listed(proc[p], req[p]) /\ Counted(req[p]) /\ open \in BOOLEAN
    BY DEF IInv, Types, Lists
  <2>2. Proc(p, r) /\ req' = req
    BY <1>2 DEF drv_link, SameTables
  <2>. HIDE DEF open
  <2>3. /\ IsProcess(r) /\ r.pc = "window" /\ r.page = proc[p].page
        /\ r.list = proc[p].list /\ r.stale = proc[p].stale /\ r.file = proc[p].file
    BY <2>1 DEF IsProcess, ProcessPCs
  <2>. HIDE DEF r
  <2>4. OnlyStep(p) /\ proc'[p] = r
    BY <2>2, <2>3, ProcStep
  <2>5. ~req[p].ok
    BY <1>2, <2>1 DEF drv_link, InPc, Listed
  <2>6. Listed(r, req'[p]) /\ Counted(req'[p])
    BY <2>1, <2>2, <2>3, <2>5 DEF Listed
  <2>. QED BY <2>2, <2>4, <2>6, ListsStep
<1>3. CASE ui_on_before_create(p)
  BY <1>1, <1>3 DEF ui_on_before_create, InPc, ProcessPCs, zikVars
<1>4. CASE drv_install(p) \/ drv_start(p)
  BY <1>1, <1>4 DEF drv_install, InstallStop, InstallDelete, InstallCreate, drv_start, InPc, SameTables, ProcessPCs
<1>. QED BY <1>2, <1>3, <1>4 DEF drv_initialize

\* The window and its commands.
LEMMA WindowLists ==
    ASSUME IInv, Lists, NEW p \in Instances, ui_create(p) \/ ui_wndproc(p)
    PROVE  Lists'
<1>1. proc[p].page \in Pages \cup {"none"} /\ {"refresh", "export"} \subseteq Commands
  BY DEF IInv, Types, IsProcess, Commands
<1>2. CASE ui_create(p)
  BY <1>1, <1>2, RefreshLists, OffLists DEF ui_create, ui_on_after_create, page_chage, Gone, Pages
<1>3. CASE ui_on_tabctrl_change(p)
  BY <1>1, <1>3, RefreshLists DEF ui_on_tabctrl_change, page_chage
<1>4. CASE ui_on_command(p)
  <2>1. CASE UNCHANGED <<proc, req, since>>
    BY <2>1 DEF Lists
  <2>. QED BY <1>1, <1>4, <2>1, RefreshLists, RestoreLists DEF ui_on_command, page_export
<1>5. CASE ui_on_close(p)
  BY <1>5, GoOnLists DEF ui_on_close, InPc, SameTables, ProcessPCs
<1>6. CASE drv_deinitialize(p)
  BY <1>6, OffLists DEF drv_deinitialize, InPc, SameTables
<1>. QED BY <1>2, <1>3, <1>4, <1>5, <1>6 DEF ui_wndproc

\* Every step keeps the rows true.
LEMMA NextLists == IInv /\ Lists /\ [Next]_vars => Lists'
<1>. SUFFICES ASSUME IInv, Lists, [Next]_vars PROVE Lists'
  OBVIOUS
<1>1. ASSUME NEW p \in Instances, ui_main(p) PROVE Lists'
  BY <1>1, InstallLists, WindowLists, PageStepLists DEF ui_main
<1>2. ASSUME NEW p \in Instances, Killed(p) PROVE Lists'
  BY <1>2, OffLists DEF Killed, Gone
<1>3. ASSUME NEW p \in Instances, DeviceDispatch(p), proc' = proc PROVE Lists'
  BY <1>3, DeviceLists
<1>4. ASSUME NEW t, NEW i, Hook(t, i), proc' = proc PROVE Lists'
  BY <1>4 DEF Hook, Lists
<1>5. CASE UNCHANGED vars
  BY <1>5 DEF vars, zikVars, Lists
<1>. QED BY <1>1, <1>2, <1>3, <1>4, <1>5 DEF Next

-----------------------------------------------------------------------------
(* The rows and the kernel's table *)

\* The rows of an answer are the whole table or none, and agree with it.
LEMMA AnswerTop ==
    ASSUME NEW r \in Request, r.op \in {"ssdt", "ssdts", "idt"}, r.pc = "done", ~r.write, r.buf,
           NEW tab, NEW late, ReqShape(r), Copied(r, tab, late), Counted(r)
    PROVE  \E n \in {0, Limit} :
              /\ PageRows(r) \in [1..n -> Row]
              /\ \A i \in 1..n :
                   /\ PageRows(r)[i][1] = r.op /\ PageRows(r)[i][2] = i
                   /\ r.op \in Tables /\ <<r.op, i>> \notin late => PageRows(r)[i][3] = tab[r.op][i]
<1>1. ASSUME NEW n \in {0, Limit}, PageRows(r) = RowsUpTo(r, n),
             n # 0 /\ r.op \in Tables => r.i = Limit
      PROVE  /\ PageRows(r) \in [1..n -> Row]
             /\ \A i \in 1..n :
                  /\ PageRows(r)[i][1] = r.op /\ PageRows(r)[i][2] = i
                  /\ r.op \in Tables /\ <<r.op, i>> \notin late => PageRows(r)[i][3] = tab[r.op][i]
  <2>. DEFINE F(i) == i <= Len(r.items) /\ r.items[i]
  <2>1. RowsUpTo(r, n) = [i \in 1..n |-> <<r.op, i, F(i)>>]
    BY DEF RowsUpTo
  <2>2. \A i \in 1..n : i \in 1..Limit /\ F(i) \in BOOLEAN
    BY ZikAssumption
  <2>3. r.op \in Pages
    BY DEF Pages
  <2>4. ASSUME NEW i \in 1..n, r.op \in Tables, <<r.op, i>> \notin late PROVE F(i) = tab[r.op][i]
    <3>1. r.i = Limit /\ Limit \in Nat /\ i \in 1..Limit
      BY <1>1, <2>2, <2>4, ZikAssumption
    <3>2. Len(r.items) = Limit
      BY <2>4, <3>1 DEF ReqShape
    <3>3. r.items[i] = tab[r.op][i]
      BY <2>4, <3>1 DEF Copied
    <3>4. r.items[i] \in BOOLEAN
      <4>1. r.items \in Seq(BOOLEAN) /\ i \in 1..Len(r.items)
        BY <3>1, <3>2 DEF Request
      <4>. QED BY <4>1
    <3>. QED BY <3>1, <3>2, <3>3, <3>4
  <2>. HIDE DEF F
  <2>5. \A i \in 1..n : <<r.op, i, F(i)>> \in Row
    BY <2>2, <2>3 DEF Row
  <2>. QED BY <1>1, <2>1, <2>4, <2>5
<1>2. CASE r.op = "idt"
  <2>1. PageRows(r) = RowsUpTo(r, Limit) /\ r.op \notin Tables
    BY <1>2 DEF PageRows, page_idt, Tables
  <2>. QED BY <1>1, <2>1
<1>3. CASE r.op # "idt"
  <2>1. PageRows(r) = RowsUpTo(r, r.count)
    BY <1>3 DEF PageRows, page_ssdt, page_ssdts
  <2>2. r.count \in {0, Limit} /\ (r.count # 0 => r.i = Limit)
    BY DEF Counted
  <2>. QED BY <1>1, <2>1, <2>2
<1>. QED BY <1>2, <1>3

\* Without rows above those of a Restore all there is nothing to agree.
LEMMA NoTop ==
    ASSUME NEW r, Len(r.list) \in Nat, r.stale = Len(r.list), NEW tab, NEW late
    PROVE  Fresh(r, tab, late)
BY DEF Fresh

\* The answer's rows are put above the others.
LEMMA AnsweredTop ==
    ASSUME NEW r \in Request, r.op \in {"ssdt", "ssdts", "idt"}, r.pc = "done", ~r.write, r.buf,
           NEW tab, NEW late, ReqShape(r), Copied(r, tab, late), Counted(r),
           NEW cmd, NEW list \in Seq(Row), NEW v, v = Answered(r, cmd, list),
           NEW q, q.list = v[1], q.stale = Len(list), q.page = r.op, q.open
    PROVE  Fresh(q, tab, late)
<1>1. PICK n \in {0, Limit} :
         /\ PageRows(r) \in [1..n -> Row]
         /\ \A i \in 1..n :
              /\ PageRows(r)[i][1] = r.op /\ PageRows(r)[i][2] = i
              /\ r.op \in Tables /\ <<r.op, i>> \notin late => PageRows(r)[i][3] = tab[r.op][i]
  BY AnswerTop
<1>. DEFINE rows == PageRows(r)
<1>2. n \in Nat
  BY ZikAssumption
<1>3. Shown(v, n, rows, cmd, list)
  BY <1>1, <1>2, AnsweredShows
<1>. HIDE DEF rows
<1>4. Len(list) \in Nat /\ Len(v[1]) = n + Len(list) /\ \A i \in 1..n : v[1][i] = rows[i]
  <2>1. Len(list) \in Nat
    BY LenProperties
  <2>2. /\ Len(v[1]) = n + Len(list)
        /\ \A i \in 1..(n + Len(list)) : v[1][i] = IF i <= n THEN rows[i] ELSE list[i - n]
    BY <1>3 DEF Shown
  <2>3. \A i \in 1..n : i \in 1..(n + Len(list)) /\ i <= n
    BY <1>2, <2>1
  <2>4. \A i \in 1..n : v[1][i] = rows[i]
    BY <2>2, <2>3
  <2>. QED BY <2>1, <2>2, <2>4
<1>5. Len(q.list) - q.stale = n
  BY <1>2, <1>4
<1>6. ASSUME NEW i \in 1..n
      PROVE  /\ q.list[i][2] = i
             /\ q.page \in Tables /\ <<q.page, i>> \notin late => q.list[i][3] = tab[q.page][i]
  BY <1>1, <1>4 DEF rows
<1>. QED BY <1>5, <1>6 DEF Fresh

\* The rows above depend on four fields of a process.
LEMMA SameTop ==
    ASSUME NEW r, NEW s, s.list = r.list, s.stale = r.stale, s.page = r.page, NEW tab, NEW late,
           Fresh(r, tab, late), Len(r.list) - r.stale > 0 => s.open
    PROVE  Fresh(s, tab, late)
BY DEF Fresh

\* A step of one process: the others have no such rows if it has the device and asks for its own.
LEMMA TopsStep ==
    ASSUME IInv, Lists, Tops, NEW p \in Instances, OnlyStep(p), table' = table,
           since' = since \/ (since' = {} /\ proc[p].open),
           Fresh(proc'[p], table, since')
    PROVE  Tops'
<1>. SUFFICES ASSUME NEW q \in Instances PROVE Fresh(proc'[q], table, since')
  BY DEF Tops
<1>1. CASE q = p
  BY <1>1
<1>2. CASE q # p
  <2>1. proc'[q] = proc[q] /\ Fresh(proc[q], table, since)
    BY <1>2 DEF OnlyStep, Tops
  <2>2. CASE since' = since
    BY <2>1, <2>2
  <2>3. CASE proc[p].open
    <3>1. ~proc[q].open
      BY <1>2, <2>3 DEF IInv, OneHandle
    <3>2. Len(proc[q].list) \in Nat /\ proc[q].stale \in 0..Len(proc[q].list)
      BY LenProperties DEF Lists, Listed
    <3>3. proc[q].stale = Len(proc[q].list)
      BY <2>1, <3>1, <3>2, ZikAssumption DEF Fresh
    <3>. QED BY <2>1, <3>2, <3>3, NoTop
  <2>. QED BY <2>2, <2>3
<1>. QED BY <1>1, <1>2

\* A step that is no page's.
LEMMA GoOnTops ==
    ASSUME IInv, Lists, Tops, NEW p \in Instances, NEW pc \in ProcessPCs, GoOn(p, pc),
           table' = table, since' = since
    PROVE  Tops'
<1>. DEFINE r == [proc[p] EXCEPT !.pc = pc]
<1>1. OnlyStep(p) /\ proc'[p] = r
  <2>1. DOMAIN proc = Instances
    BY DEF IInv, Types
  <2>. QED BY <2>1, GoOnStep DEF GoOn, Proc
<1>2. IsProcess(proc[p]) /\ Fresh(proc[p], table, since)
  BY DEF IInv, Types, Tops
<1>3. r.list = proc[p].list /\ r.stale = proc[p].stale /\ r.page = proc[p].page /\ r.open = proc[p].open
  BY <1>2 DEF IsProcess
<1>. HIDE DEF r
<1>4. Len(proc[p].list) - proc[p].stale > 0 => r.open
  BY <1>2, <1>3 DEF Fresh
<1>5. Fresh(r, table, since)
  BY <1>2, <1>3, <1>4, SameTop
<1>. QED BY <1>1, <1>5, TopsStep

\* A process that ends shows nothing.
LEMMA OffTops ==
    ASSUME IInv, Lists, Tops, NEW p \in Instances, Proc(p, Off), table' = table, since' = since
    PROVE  Tops'
<1>1. OnlyStep(p) /\ proc'[p] = Off
  <2>1. DOMAIN proc = Instances
    BY DEF IInv, Types
  <2>. QED BY <2>1, OffStep DEF Proc
<1>2. Fresh(Off, table, since)
  <2>1. Len(Off.list) \in Nat /\ Off.stale = Len(Off.list)
    BY DEF Off
  <2>. QED BY <2>1, NoTop
<1>. QED BY <1>1, <1>2, TopsStep

\* A process that asks for a page has no rows above the stale ones.
LEMMA RequestTops ==
    ASSUME IInv, Lists, Tops, Lists', NEW p \in Instances, NEW r, IsProcess(r), r.pc = "request", Proc(p, r),
           NEW page, NEW write, NEW buf, drv_callkernel(p, page, write, buf), table' = table
    PROVE  Tops'
<1>1. OnlyStep(p) /\ proc'[p] = r
  BY ProcStep
<1>2. since' = since \/ (since' = {} /\ proc[p].open)
  BY DEF drv_callkernel
<1>3. Listed(r, req'[p])
  BY <1>1 DEF Lists
<1>4. Len(r.list) \in Nat /\ r.stale = Len(r.list)
  BY <1>3, LenProperties DEF Listed
<1>5. Fresh(r, table, since')
  BY <1>4, NoTop
<1>. QED BY <1>1, <1>2, <1>5, TopsStep

\* The three steps that ask for a page.
LEMMA RefreshTops ==
    ASSUME IInv, Lists, Tops, Lists', NEW p \in Instances, NEW page \in Pages \cup {"none"},
           NEW cmd \in Commands, page_refresh(p, page, cmd), table' = table
    PROVE  Tops'
<1>. DEFINE r == [proc[p] EXCEPT !.pc = "request", !.page = page, !.list = <<>>, !.stale = 0,
                              !.file = <<>>, !.cmd = cmd]
<1>1. IsProcess(proc[p])
  BY DEF IInv, Types
<1>2. IsProcess(r) /\ r.pc = "request"
  BY <1>1 DEF IsProcess, ProcessPCs
<1>3. Proc(p, r)
  BY DEF page_refresh
<1>. HIDE DEF r
<1>4. PICK buf \in BOOLEAN : drv_callkernel(p, page, FALSE, buf)
  BY DEF page_refresh, PageRead, rt_valloc
<1>. QED BY <1>2, <1>3, <1>4, RequestTops

\* The restore leaves its rows below.
LEMMA RestoreTops ==
    ASSUME IInv, Lists, Tops, Lists', NEW p \in Instances, page_restoreall(p), table' = table
    PROVE  Tops'
<1>. DEFINE r == [proc[p] EXCEPT !.pc = "request", !.stale = Len(proc[p].list), !.file = <<>>,
                              !.cmd = "restoreall"]
<1>1. IsProcess(proc[p])
  BY DEF IInv, Types
<1>2. IsProcess(r) /\ r.pc = "request"
  BY <1>1 DEF IsProcess, ProcessPCs, Commands
<1>3. Proc(p, r)
  BY DEF page_restoreall
<1>. HIDE DEF r
<1>4. drv_callkernel(p, proc[p].page, TRUE, FALSE)
  BY DEF page_restoreall
<1>. QED BY <1>2, <1>3, <1>4, RequestTops

\* The rows of an answer are what the request has found.
LEMMA PageStepTops ==
    ASSUME IInv, Lists, Tops, Lists', NEW p \in Instances, PageStep(p)
    PROVE  Tops'
<1>. DEFINE q == req[p]
            shown == IF q.ok THEN Answered(q, proc[p].cmd, proc[p].list) ELSE <<proc[p].list, <<>>>>
<1>1. /\ proc[p].pc = "request" /\ IsProcess(proc[p]) /\ q \in Request /\ q.pc = "done"
      /\ Listed(proc[p], q) /\ Counted(q) /\ q.op = proc[p].page
      /\ ReqShape(q) /\ Copied(q, table, since) /\ Fresh(proc[p], table, since)
  BY RequestFields DEF PageStep, InPc, IInv, Types, Lists, Listed, Tops
<1>2. ASSUME Proc(p, [proc[p] EXCEPT !.cmd = "refresh"]), PageRead(p, q.op), table' = table
      PROVE  Tops'
  <2>. DEFINE r == [proc[p] EXCEPT !.cmd = "refresh"]
  <2>1. IsProcess(r) /\ r.pc = "request"
    BY <1>1 DEF IsProcess, Commands
  <2>2. Proc(p, r)
    BY <1>2
  <2>. HIDE DEF r
  <2>3. PICK buf \in BOOLEAN : drv_callkernel(p, q.op, FALSE, buf)
    BY <1>2 DEF PageRead, rt_valloc
  <2>. QED BY <1>2, <2>1, <2>2, <2>3, RequestTops
<1>3. ASSUME Proc(p, [proc[p] EXCEPT !.pc = "idle", !.cmd = "none", !.list = shown[1], !.file = shown[2]]),
             since' = since, table' = table, ~q.write, q.ok => q.buf
      PROVE  Tops'
  <2>. DEFINE v == shown
              r == [proc[p] EXCEPT !.pc = "idle", !.cmd = "none", !.list = v[1], !.file = v[2]]
  <2>. HIDE DEF v
  <2>1. /\ IsProcess(r) /\ r.page = q.op /\ r.list = v[1] /\ r.stale = Len(proc[p].list)
        /\ r.open = proc[p].open
    BY <1>1 DEF IsProcess, ProcessPCs, Commands, Listed
  <2>2. Proc(p, r)
    BY <1>3 DEF v
  <2>. HIDE DEF r
  <2>3. OnlyStep(p) /\ proc'[p] = r
    BY <2>1, <2>2, ProcStep
  <2>4. proc[p].list \in Seq(Row) /\ (q.ok => q.op \in {"ssdt", "ssdts", "idt"})
    BY <1>1 DEF Listed
  <2>5. CASE q.ok
    <3>1. v = Answered(q, proc[p].cmd, proc[p].list)
      BY <2>5 DEF v
    <3>2. proc[p].open
      BY <1>1, <2>5 DEF Listed
    <3>. HIDE DEF q
    <3>3. Fresh(r, table, since)
      BY <1>1, <1>3, <2>1, <2>4, <2>5, <3>1, <3>2, AnsweredTop
    <3>. QED BY <1>3, <2>3, <3>3, TopsStep
  <2>6. CASE ~q.ok
    <3>1. v[1] = proc[p].list
      BY <2>6 DEF v
    <3>2. Len(r.list) \in Nat /\ r.stale = Len(r.list)
      BY <2>1, <2>4, <3>1, LenProperties
    <3>3. Fresh(r, table, since)
      BY <3>2, NoTop
    <3>. QED BY <1>3, <2>3, <3>3, TopsStep
  <2>. QED BY <2>5, <2>6
<1>4. CASE Gone(p)
  <2>1. since' = since /\ table' = table
    BY <1>4 DEF Gone
  <2>. QED BY <1>4, <2>1, OffTops DEF Gone
<1>. QED BY <1>2, <1>3, <1>4 DEF PageStep, OnlyProc

\* The installation of the driver: only drv_link changes a field the rows above depend on.
LEMMA InstallTops ==
    ASSUME IInv, Lists, Tops, NEW p \in Instances, ui_on_before_create(p) \/ drv_initialize(p)
    PROVE  Tops'
<1>1. CASE \E pc \in ProcessPCs : GoOn(p, pc) /\ table' = table /\ since' = since
  BY <1>1, GoOnTops
<1>2. CASE drv_link(p)
  <2>. DEFINE open == driver = "running" /\ Exclusive(AnyOpen)
              r == [proc[p] EXCEPT !.pc = "window", !.open = open]
  <2>1. /\ IsProcess(proc[p]) /\ Fresh(proc[p], table, since) /\ open \in BOOLEAN
        /\ ~proc[p].open
    BY <1>2 DEF IInv, Types, Tops, HandleKept, drv_link, InPc
  <2>2. Proc(p, r) /\ table' = table /\ since' = since
    BY <1>2 DEF drv_link, SameTables
  <2>. HIDE DEF open
  <2>3. IsProcess(r) /\ r.page = proc[p].page /\ r.list = proc[p].list /\ r.stale = proc[p].stale
    BY <2>1 DEF IsProcess, ProcessPCs
  <2>. HIDE DEF r
  <2>4. ~(Len(proc[p].list) - proc[p].stale > 0)
    BY <2>1 DEF Fresh
  <2>5. Fresh(r, table, since)
    BY <2>1, <2>3, <2>4, SameTop
  <2>6. OnlyStep(p) /\ proc'[p] = r
    BY <2>2, <2>3, ProcStep
  <2>. QED BY <2>2, <2>5, <2>6, TopsStep
<1>3. CASE ui_on_before_create(p)
  BY <1>1, <1>3 DEF ui_on_before_create, ProcessPCs, zikVars
<1>4. CASE drv_install(p) \/ drv_start(p)
  BY <1>1, <1>4 DEF drv_install, InstallStop, InstallDelete, InstallCreate, drv_start, SameTables, ProcessPCs
<1>. QED BY <1>2, <1>3, <1>4 DEF drv_initialize

\* The window and its commands.
LEMMA WindowTops ==
    ASSUME IInv, Lists, Tops, Lists', NEW p \in Instances, ui_create(p) \/ ui_wndproc(p)
    PROVE  Tops'
<1>1. proc[p].page \in Pages \cup {"none"} /\ {"refresh", "export"} \subseteq Commands
  BY DEF IInv, Types, IsProcess, Commands
<1>2. CASE ui_create(p)
  <2>1. ASSUME page_refresh(p, "ssdt", "refresh"), table' = table PROVE Tops'
    BY <1>1, <2>1, RefreshTops DEF Pages
  <2>2. CASE Gone(p)
    BY <2>2, OffTops DEF Gone
  <2>. QED BY <1>2, <2>1, <2>2 DEF ui_create, ui_on_after_create, page_chage, OnlyProc
<1>3. CASE ui_on_tabctrl_change(p)
  BY <1>1, <1>3, RefreshTops DEF ui_on_tabctrl_change, page_chage, OnlyProc
<1>4. CASE ui_on_command(p)
  <2>1. table' = table
    BY <1>4 DEF ui_on_command, OnlyProc
  <2>2. CASE UNCHANGED <<proc, req, since>>
    BY <2>1, <2>2 DEF Tops
  <2>. QED BY <1>1, <1>4, <2>1, <2>2, RefreshTops, RestoreTops DEF ui_on_command, page_export
<1>5. CASE ui_on_close(p)
  BY <1>5, GoOnTops DEF ui_on_close, SameTables, ProcessPCs
<1>6. CASE drv_deinitialize(p)
  BY <1>6, OffTops DEF drv_deinitialize, SameTables
<1>. QED BY <1>2, <1>3, <1>4, <1>5, <1>6 DEF ui_wndproc

\* A request that restores an entry is the one of the only process that could have such rows,
\* and that has none while it asks.
LEMMA DeviceTops ==
    ASSUME IInv, Lists, Tops, NEW p \in Instances, DeviceDispatch(p), proc' = proc
    PROVE  Tops'
<1>1. since' = since
  BY DEF DeviceDispatch, EnumSSDT, EnumSSDTShadow, EnumStep, EnumEnter, EnumOpen,
         EnumRead, EnumEntry, EnumEnd, EnumIDT, EnumKernel
<1>2. proc[p].open /\ proc[p].pc = "request"
  BY DEF IInv, HandleKept, Busy, DeviceDispatch, EnumSSDT, EnumSSDTShadow, EnumStep, EnumEnter, EnumOpen,
         EnumRead, EnumEntry, EnumEnd, EnumIDT, EnumKernel, At
<1>3. SUFFICES ASSUME NEW q \in Instances PROVE Fresh(proc[q], table', since)
  BY <1>1 DEF Tops
<1>4. /\ Len(proc[q].list) \in Nat /\ proc[q].stale \in 0..Len(proc[q].list)
      /\ proc[q].pc = "request" => proc[q].stale = Len(proc[q].list)
      /\ Fresh(proc[q], table, since)
  BY LenProperties DEF Lists, Listed, Tops
<1>5. proc[q].stale = Len(proc[q].list)
  <2>1. CASE q = p
    BY <1>2, <1>4, <2>1
  <2>2. CASE q # p
    <3>1. ~proc[q].open
      BY <1>2, <2>2 DEF IInv, OneHandle
    <3>. QED BY <1>4, <3>1, ZikAssumption DEF Fresh
  <2>. QED BY <2>1, <2>2
<1>. QED BY <1>4, <1>5, NoTop

\* No row is held to an entry the other driver has written.
LEMMA HookTops ==
    ASSUME IInv, Lists, Tops, NEW t \in Tables, NEW i \in 1..Limit, Hook(t, i), proc' = proc
    PROVE  Tops'
<1>. SUFFICES ASSUME NEW q \in Instances PROVE Fresh(proc[q], table', since')
  BY DEF Tops
<1>. DEFINE r == proc[q]
            n == Len(r.list) - r.stale
<1>1. Fresh(r, table, since)
  BY DEF Tops
<1>2. n \in {0, Limit} /\ n \in Nat
  BY <1>1, ZikAssumption DEF Fresh
<1>3. table' = [table EXCEPT ![t][i] = TRUE] /\ since' = since \cup {<<t, i>>}
  BY DEF Hook
<1>4. table \in [Tables -> [1..Limit -> BOOLEAN]]
  BY DEF IInv, Types
<1>5. ASSUME NEW j \in 1..n, r.page \in Tables, <<r.page, j>> \notin since'
      PROVE  <<r.page, j>> \notin since /\ table'[r.page][j] = table[r.page][j]
  <2>1. j \in 1..Limit
    BY <1>2
  <2>2. <<r.page, j>> \notin since /\ <<r.page, j>> # <<t, i>>
    BY <1>3, <1>5
  <2>. HIDE DEF n, r
  <2>. QED BY <1>3, <1>4, <1>5, <2>1, <2>2
<1>. QED BY <1>1, <1>5 DEF Fresh

\* Every step keeps the rows above as they are in the table.
LEMMA NextTops == IInv /\ Lists /\ Tops /\ [Next]_vars => Tops'
<1>. SUFFICES ASSUME IInv, Lists, Tops, [Next]_vars PROVE Tops'
  OBVIOUS
<1>1. Lists'
  BY NextLists
<1>2. ASSUME NEW p \in Instances, ui_main(p) PROVE Tops'
  BY <1>1, <1>2, InstallTops, WindowTops, PageStepTops DEF ui_main
<1>3. ASSUME NEW p \in Instances, Killed(p) PROVE Tops'
  BY <1>3, OffTops DEF Killed, Gone
<1>4. ASSUME NEW p \in Instances, DeviceDispatch(p), proc' = proc PROVE Tops'
  BY <1>4, DeviceTops
<1>5. ASSUME NEW t \in Tables, NEW i \in 1..Limit, Hook(t, i), proc' = proc PROVE Tops'
  BY <1>5, HookTops
<1>6. CASE UNCHANGED vars
  BY <1>6 DEF vars, zikVars, Tops
<1>. QED BY <1>2, <1>3, <1>4, <1>5, <1>6 DEF Next

\* The list view shows rows of the current page only.  Above the rows a Restore all has left the
\* whole table is shown or nothing, every entry once, in its place, and hooked or not as it is in
\* the kernel, but for the entries another driver wrote since; and a file of page_export has
\* exactly these rows.  Of the rows below only the page is right.
THEOREM ListsAreTrue == Spec => []ListTrue
<1>1. Init => Lists /\ Tops
  <2>. SUFFICES ASSUME Init, NEW p \in Instances
                PROVE  Listed(proc[p], req[p]) /\ Counted(req[p]) /\ Fresh(proc[p], table, since)
    BY DEF Lists, Tops
  <2>1. proc[p] = Off /\ req[p] = NoRequest
    BY DEF Init, ZikInit
  <2>2. /\ Off.list = <<>> /\ Off.file = <<>> /\ Off.pc = "off" /\ Off.stale = 0 /\ ~NoRequest.ok
        /\ <<>> \in Seq(Row) /\ DOMAIN <<>> = {} /\ Len(<<>>) = 0 /\ NoRequest.count = 0
    BY DEF Off, NoRequest
  <2>3. Listed(Off, NoRequest) /\ Counted(NoRequest)
    BY <2>2 DEF Listed, Counted
  <2>4. Fresh(Off, table, since)
    BY <2>2, NoTop
  <2>. QED BY <2>1, <2>3, <2>4
<1>2. Lists /\ Tops => ListTrue
  <2>. SUFFICES ASSUME Lists, Tops PROVE ListTrue
    OBVIOUS
  <2>1. RowsOfPage /\ ExportIsList
    BY DEF Lists, Listed, RowsOfPage, ExportIsList
  <2>2. RowsTrue
    BY DEF Tops, Fresh, RowsTrue, TopRows
  <2>. QED BY <2>1, <2>2 DEF ListTrue
<1>. QED BY <1>1, <1>2, Invariant, NextLists, NextTops, PTL DEF Spec
=============================================================================
