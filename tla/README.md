# TLA+ models of misc

`misc` is a collection of small programs and libraries in C, C++, C#, Go, Java, Rust
and Swift. They share no code. This project models those that carry logic of their
own, one group of modules per program. The concurrent ones come first: they are the parts
whose errors a test meets only by luck. The sequential ones follow as algorithms that are
compared with reference definitions.

Contents: 1 inventory, 2 plan, 3 the modules, 4 runs, 5 bounds, 6 fairness,
7 proofs, 8 disagreements between the code and what is said of it, 9 what is not
modelled.

## 1 Inventory

### Modelled

**c/thrpool**, a pthread pool. State: a singly linked list of tasks (`task_front`,
`task_rear`) under `task_m`; `running_workers` under `worker_m` for its decrements
only; `destroy` and `wait_task_0`; three condition variables. Operations:
`thrpool_create`, `thrpool_add_task`, `thrpool_wait`, `thrpool_destroy`, the loop of
`_worker` and its cleanup. Workers and callers interact through the list and the
condition variables. Hard: a flag written without the mutex of the condition it
belongs to, signals sent after the unlock, a counter incremented by the creator while
the worker already runs, tasks that add tasks, freeing the pool under the last worker.
Correct means: the list is a list, a task is executed once or dropped once, no task
waits for a signal already sent, the pool is freed when nobody uses it, `wait` and
`destroy` return.

**go/gorpool**, a pool of goroutines. State: the slice `p.idle` of parked `gor`s
under `p.mu`, the `idx` of every gor, its channel of capacity one, its timer.
Operations: `Pool.Go`, and in each gor receive, run, park, time out. Hard: `Go` sends
outside the mutex while the receiver may time out; removal from the middle of the
slice. Correct means: indices and slice agree, a gor is handed one function at a time,
the send never blocks, every function is executed exactly once.

**rs/sync**, a spin latch and a one-to-one notification. State: an atomic `state`
(IDLE, SIGNALED, WAITING), the latch word, a cell with the waker. Operations: `pulse`,
`poll`, `acquire`, `release`. Hard: every atomic access interleaves with the other
side; part of the protocol runs outside the latch. Correct means: the cell is used by
one side at a time, the assertion in `pulse` never fires, a sleeping task is woken by
a pulse, a pulse is received.

**go/yagw**, an epoll gateway. State of a connection: the flags `own`, `r`, `w`, `bad`
of its polldesp, `busy`, `auth`, `wpending`, the packet reader `pr`, the signal
channels `ravail`, `wavail`, `down`. Around it: the event loop, one queue per worker
and a global one (`wq`, `gq`), a local queue per worker, the connection's goroutine
`mainproc`, timers, the peer. Hard: all of these touch the flags without a lock, epoll
is edge triggered, queues are bounded, `Close` comes from anywhere. Correct means: one
worker polls a connection at a time, `mainproc` is started once, a request is neither
read over nor forgotten, what arrives is read, a closed connection comes to rest.

**rs/tcpproxy**, a TCP proxy. State of a connection: two pipes (`in_buf`, `out_buf`)
with their `buffered` counts, a `Context` shared by two `PollDesp`s through a strong
count, the mark `bad`, the vector `unused` of a batch. Operations: `handle_client`, the
event loop, `copy` with `splice_in` and `splice_out`, `shutdown`, the drops. Hard: both
sockets of a connection may be in one batch of events, epoll is edge triggered, the pipe
is bounded, the backend is still connecting. Correct means: no event is followed to freed
memory, nothing leaks, data are forwarded completely, an end of file does not overtake
them.

**c/tcp_echo**, an echo server. State of a client: a buffer with `sz` and `wr`, the flags
`prd` and `pwr`. Operations: `accept_client`, `handle_client_io`, `close_client`, the
event loop. Hard: partial reads and writes, flags that stand for events sent once.
Correct means: the echo is the input, and no readiness is forgotten.

**go/yagw, accepting and freeing**. State: the backlog of the listening socket, epoll's set
and ready list, the batch of the event loop, the list `freepds` with its counter and the flag
`recycling`, the eventfd, the ticker. Operations: `accept_proc`, `free_pd`, `raise_recyclepd`,
`tick_recyclepd`, the event loop. Hard: epoll holds pointers the garbage collector does not
see; list, counter, flag and eventfd are changed in separate steps; the listening socket is
edge triggered. Correct means: no event points at a polldesp that may be collected, the list is
dropped in the end, no connection stays in the backlog.

**go/sys**, a lock-free pool of poll descriptors under `openFile` and `File.Close`. State: slots
with a count and marks, a stack of slots with room (`partial`, `pnext`), the slice `slots`, the
registered files. Hard: a stack changed by compare-and-swap, counts that overshoot and are
taken back, links that are plain integers. Correct means: a descriptor belongs to one open
file, a thread that got a count finds a descriptor, a slot in use is not collected.

**cpp/wohn**, a dialog that starts and stops the hosted network of Windows. State: the core's
copy of the settings, the callbacks, the two shared connections; the dialog's widgets,
`gHNStarted`, `gNCShared`. Operations: initialise, start, stop, share, close, and the
notifications of the WLAN service. Hard: the callbacks run on a thread of the service and send
messages to the dialog's thread, which may be in the middle of a call into the service; calls
fail half way, or are passed over in silence. Correct means: the dialog shows the network as it is,
a refused setting is taken back, what is shared is known to the program or was lost to it by a call
that failed, closing ends and gives everything back but the sharing.

**c/zax-inspector**, a kernel driver that compares and restores the system's tables, and the
window that installs it as a service and shows the tables. State: the service, the driver, its
request (place, entry, write protection, file), the tables; per process the page, the rows, the
export. Operations: install, open, request, refresh, restore, export, close, and a process that
is killed. Hard: two processes replace each other's service; another driver writes the tables
meanwhile; interrupts and write protection are off during the loops; an instruction length off
by one. Correct means: every path restores the processor, no two requests run at once, a
finished request has done its whole table, a process uses its own driver and takes it along,
the list is the table (above the old rows, after Restore all) and an export is the list.

**c/dotjson, cpp/md5, cpp/envext**: a JSON decoder and encoder with a hash table, the MD5
digest, a plug-in that sets environment variables from a file. No concurrency; hard are
counting passes that must agree with filling passes, growing tables, numbers that end too
early, padding at the boundary of a block, lines that use what earlier lines set. Correct
means: what the grammar, RFC 1321 and the order of the lines say.

### Not modelled

| part | why |
|---|---|
| go/epaxos | `State.setCmdLocked` makes `cmds` with `ins.I.Rid` rows and then indexes row `ins.I.Rid`: it panics at the first store of every replica, whatever its number, and again in `loadCmdsLocked` after the restart, on the instance persisted just before. No state behind the first store is reachable, so a faithful model has no protocol to check |
| rs/inotify | planned: the walk over the event buffer, the removal of a watch on drop |
| java PullToRefresh | planned: the touch and scroll states of the view |
| swift/TodoList | planned: the sorted list with cached indices |
| cs/DotJson, go/jsoniter, go/jsonpb | planned as algorithms, like dotjson |
| go/re0, go/alg dijkstra, go/stdmv | planned as algorithms: the automaton against the language, distances against paths, build constraints against their Boolean meaning |
| go/livedmc | planned with low priority: packets cut out of a stream |
| json2go, xml, collision, screen-mask, gen_sql.sh | no state of their own (text layout, geometry, a window, a text filter) |

## 2 Plan

Done: Thrpool, Gorpool and their abstraction TaskPool; OneNotify; YagwConn, YagwRecycle and
SysPool, composed in GoEpoll; EdgeSocket with TcpProxy and TcpEcho, composed in EventLoops;
WohnCore and WohnUI; Zik and ZaxInspector; JsonTable, DotJson, LDasm, ZaxRT, Md5p and EnvExt,
compared with references in Algorithms and JsonAlgorithms. The safety properties of all of these
are proved, except those of the JSON decoder and encoder.

What would come next, in this order:

1. PullToRefresh and TodoList, sequential state machines.
2. More algorithms in Algorithms: the other JSON readers, re0, dijkstra, build constraints,
   varints, the inotify buffer.

## 3 The modules

Each component has a module with its state, actions, specification (`Safety` without fairness,
`Spec` with it) and properties; `...Proofs` holds the theorems. A property that a run checks is
often a conjunction of named parts, each with its own comment (`TasksOwned` is `ListOK` and
`TaskOwned`); the proofs and the text below use the names of the parts. Definitions marked as
mutations are variants of a definition with a plausible mistake; they are used only to confirm that
a property can fail.

**TaskPool** is the abstract promise of a pool: a task goes from new to queued, to
running, to done, or from queued to dropped, and no accepted task stays where it is.
Both pools are shown to implement it through the refinement mapping `Status`.

**Thrpool** (`c/thrpool/thrpool.c`). A critical section of `task_m` is one step, except
where `destroy` is read: a worker that found the list empty reads `destroy` while it
holds `task_m`, then waits, and `thrpool_destroy` sets the flag without the mutex, so
the two are separate steps. A signal after an unlock is a separate step. `front`,
`rear` and `next` are the real pointers; `fifo` and `doomed` are auxiliary sequences
that no action reads. `SpawnFails` is the error path of `thrpool_create`,
`SpuriousWakeup` the one POSIX allows. Callers follow the contract: `thrpool_destroy`
is called once and alone.

**Gorpool** (`go/gorpool/gorpool.go`). `GoReuse` and `GoNew` are the two ways out of
the mutex section of `Go`, `Send` is the channel send after it; `Receive`, `FnReturns`,
`Park`, `Tick`, `GoDown` and `StayUp` are the loop of a gor. `Front` is the pop, the
swap-removal of `GoDown` is written as in the code, with the moved gor's `idx`.
`where` is the place of a gor in `gorproc`, `Nil` the function or gor that is not there.

**OneNotify** (`rs/sync/src/notify.rs`, `latch.rs`). Every atomic access and every use
of the waker cell is a step. The receiver may be polled at any time, with any waker
(spurious polls, a task that moves); `WakenBy` and `PollExpected` stand for the
executor, which is outside the repository.

**YagwConn** (`go/yagw/server.go`, `netconn.go`, `proto.go`, `client.go`). One
connection, with every process that touches it: `EventLoop`, `Worker(x)`, `Mainproc`,
`TimerClose`, `Peer`. The kernel is modelled by what the code relies on: an
edge-triggered ready list (`armed`), a receive buffer, a send buffer of `Room` units
and the no-space mark after which epoll reports writability again. Loads and stores of
the flags are separate steps unless a store of another process in between makes no
difference. Data are counted in chunks; `Got` is `packet_reader.readfrom`, with a short
read or a complete packet. Reads after the descriptor is closed fail.

**EdgeSocket** is the kernel's side of the two event loops: a record per socket, and an
operator for each thing the peer, the network or a system call does to it. `armed` says
that the socket is on epoll's ready list, `nospace` that a refused write makes epoll
report the next room.

**TcpProxy** (`rs/tcpproxy/src/main.rs`, `sys.rs`). One connection at a time, accepted
again after it was dropped. `at` is the place in the loop of `main` and in `copy`; every
`splice` is a step, so that peers act between any two. `Slots` says that a pipe may be
full before `PIPE_SIZE` bytes are in it. `refs` is the strong count of the `Rc`, `frees`
counts `PollDesp`s given back to the allocator.

**TcpEcho** (`c/tcp_echo/main.c`). One client at a time. The client's units are numbered
and `buf` is a real array, so that indices and resets decide what is written.

**EventLoops** puts the two programs into one specification: a behaviour is one of either.

**YagwRecycle** (`go/yagw/server.go`). `life` says how far `free_pd` has come with each polldesp;
`rpc` is the place of the event loop, `batch` what it was given and has not looked at. The loop
takes all that is ready, since its array has room for at least 64 events. Every access to the
list, the counter, the flag and the eventfd is a step.

**SysPool** (`go/sys/polldesp.go`, `poll.go`, `file.go`). Every access to a shared word is a step;
`marks` and `reg` are the descriptors' words. EPOLL_CTL_ADD may fail.

**GoEpoll** puts YagwConn, YagwRecycle and SysPool into one specification, like EventLoops;
GoEpollProofs has the theorems about all three.

**WohnCore** and **WohnUI** (`cpp/wohn`). The operators of WohnCore are the functions of
WohnCore.cpp; WohnUI composes them into the handlers of the dialog. Two threads act: the
notification thread makes the callbacks, whose every window call waits until the dialog's
thread answers messages (`Pumping`); a handler of the dialog is cut where it calls the service.
A text is its length, which is what the program's checks look at. `missed` is auxiliary: a
change was dropped because no callback was registered, or a query failed. The WLAN service, the
sharing manager and COM are external; each of their calls may fail. `lost` is auxiliary: the
connections that stay shared though no pointer names them. `cor_ics_initialize` adds the ones its
enumeration does not come to or passes over, `cor_ics_disable` and `cor_ics_enable` the ones whose
sharing they could not end; nothing else does.

**Zik** and **ZaxInspector** (`c/zax-inspector`). Zik is the driver with its requests, one step per
table entry; ZaxInspector has the processes, one thread each, which install the driver, show
pages and close, and which may be killed outside the kernel. The service manager and the I/O
manager are external and modelled by what the program's calls do. An address is the original
one or another one. `since`, `old`, `dirty` and `stale` are auxiliary; `stale` counts the rows that
a Restore all has left at the end of the list.

**JsonTable**, **DotJson**, **LDasm**, **ZaxRT**, **Md5p**, **EnvExt** are the pure algorithms as
operators. **Algorithms** builds inputs word by word, one kind per behaviour (`mode`), and compares
the results: the table of an object with a set of keys, the walk over code with instructions put
together from their parts, the address conversions with the section table, numbers and bytes with
their texts, the blocks of MD5 with the padded message and the schedule of RFC 1321, the
environment with the assignments in order. **JsonAlgorithms** adds the decoder and the encoder of
DotJson: a decoded text is compared with a stack machine for the JSON grammar, numbers and strings
with their definition, an encoded text with what is decoded from it. DotJson descends into nested
values with RECURSIVE operators; everything in Algorithms does without them (a loop is a fold, or a
recursive function over the number of its turns), so that it can be proved about.

## 4 Runs

| run | result | shows |
|---|---|---|
| thrpool | pass | list shape, ownership of tasks, exact worker count, no lost task, no lost waiter, clean freeing; TaskPool is implemented, fairness included; `thrpool_wait` returns |
| thrpool_destroy | violation | `thrpool_destroy` may never return (section 8) |
| gorpool | pass | slice and indices agree, one function per gor, sends do not block, functions are in exactly one place; TaskPool is implemented, so every function is executed |
| notify | pass | exclusion, the assertion, no Ready without a pulse, the latest waker is never lost; a pulse makes a sleeping receiver poll again |
| notify_receive | violation | pulses that are not received (section 8) |
| go_epoll | pass | yagw: exclusive ownership, one start of `mainproc`, complete packets are announced, no event points at a polldesp that was let go; go/sys: every open file has a descriptor of its own in a slot that is kept, and scans find one |
| go_epoll_live | pass | a closed connection comes to rest and the event loop is not blocked for good; the free list is dropped and the backlog is served |
| yagw_section | violation | `busy` released too early (section 8) |
| event_loops | pass | tcpproxy: no use after free, no leak, data in a pipe and ends of file are served, bursts that fit are forwarded; tcp_echo: the echo is the input, flags keep every edge, requests are answered, a client that hangs up is closed |
| algorithms | pass | dotjson, the instruction lengths and conversions of zax-inspector, MD5 and envext agree with their references on every input up to the bounds, or are wrong in exactly the cases of section 8 |
| wohn | pass | dialog and network agree whenever nothing is under way, a refused setting is taken back, what is shared is named by the two pointers or was lost for a named reason; the dialog catches up, and closing outside a callback ends |
| zax | pass | every path restores write protection and closes the file, requests exclude each other, a finished request did its table, drivers are replaced and unloaded, the rows above those a Restore all left are the table, each once and in its place, and an export has only such rows |

Deadlock checking is off where the program may stop: pools whose callers make no more
calls, a connection that was closed or whose peer is silent, a server without clients, a dialog
that was closed, an input that is complete. In OneNotify it is on.

## 5 Bounds

- Thrpool: two workers, the owner and one more caller, two task nodes,
  `MaxRuns` executions of a task (2: a task that adds a task and is added again),
  `MaxSpurious` = 1. Two workers and two callers are enough for every pair of roles to
  race. No symmetry is used.
- Gorpool: three gors give a removal from the front, the middle and the end of the
  slice; four functions let a gor be reused after it was moved.
- OneNotify: three wakers, so that a poll may replace the registered one while another
  is in the sender's hands. Pulses and polls are unbounded.
- YagwConn: two workers; queues of capacity one, so that they are full; `MaxSend`
  chunks from the peer (two requests in go_epoll; one in go_epoll_live, where three causes
  of closing and temporal properties make the graph large); `Room` of one so that the send
  buffer fills; `WLimit` of one reply in go_epoll, so that the second request reaches it, of two
  in the other runs; `Hangups` says who may close the connection.
- EventLoops: a pipe of two units and a peer that sends three at once, two, or two peers
  that send one each (`SomeLoads`): the pipe is empty, partly full, full, and full with
  more to come. A buffer of three units and requests of two, three and four: below, at and
  above its size; five units in a connection, so that it starts over. A send buffer of one
  unit, so that writes are refused.

- YagwRecycle: two polldesps and a limit of one, so that the list is at its limit and grows
  beyond it; a backlog of one, in go_epoll_live two with one polldesp.
- SysPool: two threads, three files, two slots of two descriptors: a slot is filled, emptied and
  shared, and a count overshoots.
- WohnUI: two changes by the service and two clicks, which is what it takes for a click to meet
  a callback and for a second to meet its trace; texts at and around the limits of the checks
  (0, 6 and 32 for the SSID; 7, 9, 63 and 64 bytes for the key); an earlier run that left nothing
  shared, or the adapter and a connection (`SharedAtFirst`).
- ZaxInspector: two processes, symmetric (the only run with symmetry; no temporal property is
  checked in it), tables of two entries, one entry written by the other driver, five starts and
  commands: a process is killed and replaced while the other one works.
- JsonAlgorithms: texts of nine words of the JSON grammar (with an error, they go on with closing
  brackets only, so that every way to end them is tried), numbers of six characters, strings of four
  pieces, six keys (the table grows once), six characters of comment, three instructions, five
  section words, three bytes, messages up to 191 bytes (two block boundaries and both paddings),
  four lines. Hashes keep their low 14 bits, more than any table here looks at; `WordBits` is 8,
  so that the length of a message spills into its second word; the halves of a handler's address
  have 8 bits instead of 16.

The proofs of section 7 have no bounds on these sets.

## 6 Fairness

Weak fairness on the steps of a thread that can go on: the schedulers of Linux and of
Go run every runnable thread. Strong fairness in two places. `Receive` of a gor: a
select with a filled channel is re-entered only after a timer tick, a minute apart, and
Go chooses among ready cases at random. The exchange of the latch: the holder keeps it
for a few steps and yields while spinning, so the other side does not lose every race.
Nobody has to call an API, no timer has to fire, no spurious wakeup has to happen, and
no peer has to send or close. In EventLoops the peers take what they are sent and a
connect in progress completes: the progress properties are about clients that read, and
nothing could move otherwise; in YagwConn no peer has to receive. In GoEpoll each goroutine and
the ticker of `tick_recyclepd` go on, nothing is assumed of SysPool. In WohnUI a delivered
notification, a callback and a handler that has begun go on; the user need not click and the
service need not change. Task functions and
functions given to `Go` are assumed to return.

## 7 Proofs

Every invariant that a passing run checks, except `JsonDecodes` and `JsonKept`, is a theorem. It
holds for every value of the constants that satisfies the named assumptions (`ThreadsAssumption`,
`NullAssumption`, `BoundsAssumption`, `NilAssumption`, `NoneAssumption`, `RoomAssumption`,
`PipeAssumption`, `BufAssumption`, `ConnAssumption`, `RecycleAssumption`, `SysAssumption`,
`WohnAssumption`, `ZikAssumption`, `ZaxAssumption`, `KeysAssumption`, `BytesAssumption`,
`HashModAssumption`, `WordBitsAssumption`): any number of workers, callers, tasks, gors, functions,
wakers, polldesps, threads, files, slots, connections, processes and entries, any bound on the
events, and inputs of any length. The assumptions say that sets of threads are finite, that a bound
is a number and a capacity above zero, that a null value is none of the others, that an SSID is at
most 32 long, that a table has at most 2^30 entries, that a DWORD has at most four bytes, that a
word has at most 32 bits and at least the seven that a block's length needs, and that a hash keeps
at least the bits a table of 16 slots looks at.

For the state machines each theorem follows the same argument: `Init => IInv`,
`IInv /\ [Next]_vars => IInv'` with one step per action, and `IInv => property`. TLC checked each
inductive invariant on instances like those of the runs before it was proved. A module with several
specifications gives each invariant the name of its program (`NotifyInv`, `ProxyInv`, `EchoInv`,
`PoolInv`).

- **ThrpoolProofs**. The properties are not inductive alone. `Control` ties each
  thread's place to `cur`, `arg`, `task_m` and the phase of the pool (for instance:
  during destruction no other caller is inside); `PassedUnlinked` says that a node about
  to be queued is not in the list, which an enqueue at `rear` needs; `NoTaskYet` and
  `Drained` bound what may be queued before the first and after the last worker.
  Proved: type correctness, `TasksOwned` (`ListOK`, `TaskOwned`), `NoLostWakeup`
  (`NoLostTask`, `WaiterSeen`), `FreedSafely` (`RunningExact`, `FreedClean`), and the safety
  part of the refinement of TaskPool.
- **WakeupProofs**, the four small programs that wait to be woken.
  - Gorpool: `PoolInv` adds `Placed`: a filled channel belongs to a gor in its select or at its
    timeout, and a free gor is not on the slice. Proved: type correctness, `GorsExact`
    (`IdleExact`, `BusyOnce`), `FnDelivered` (`SendReady`, `FnHeld`), refinement of TaskPool.
  - OneNotify: `NotifyInv` adds `TxControl` and `RxControl` (what each side has seen at each step,
    given what the other may have done since) and `WaitingCovered` (in state WAITING the waker is
    there, about to be registered, or just taken). Proved: type correctness, `CellGuarded`
    (exclusion and the assertion of `pulse`), `ReadyPaid`, `ParkedCovered`.
  - TcpProxy: `Lifetime` ties the strong count to the `PollDesp`s and to `unused` and bounds
    `unused` by the events of a batch; `Conserved` accounts for every unit; `EofFinal` says that an
    end of file cannot be followed by data; `PipeServed` extends `PipeCovered` into the batch: data
    in a pipe are owed an event, or are about to be copied, or the connection is given up. Proved:
    type correctness, `ConnectionMemory` (`NoUseAfterFree`, `NoLeak`), `ProxyComplete`
    (`PipeCovered`, `EofComplete`).
  - TcpEcho: `BufHolds` says which units lie between `wr` and `sz`; `FlagsInv` that a flag is clear
    only while epoll owes the event. Proved: type correctness and `EchoSound` (`EchoExact`,
    `FlagsHonest`, `EchoCovered`).
- **GoEpollProofs**. Three invariants, one for each program. `ConnInv` splits the type invariant
  and adds `Ownership` (the worker that polls, or the local queue, and `own` for either, without
  counting) and `Started` (`g_start` is set exactly when the goroutine began). `RecycleInv` adds
  `PdLife`: epoll does not have a polldesp that was pushed, and one in a batch is on the list as
  soon as it was pushed. `SysInv` is about counts that overshoot: `Counted` says that the count of a
  slot is its marks, the threads that scan it and the threads that have to take their count back,
  and that the first two fit; `Descriptors` that a mark belongs to one thread or one file;
  `FilesHeld` and `SlotsKnown` tie threads to files and to the slots in `p.slots`. The type
  invariant bounds the counts by the number of threads, which follows from `Counted`. Proved:
  `GoTypeOK`, `ConnectionOwned`, `PacketSeen`, `PdKept`, `SlotsExact`, and the first, second and
  third for YagwConn's own specification.
- **WohnProofs**. That dialog and network agree when all is quiet says nothing of the states in
  between, so the invariant follows the network's state along the notifications that were not
  delivered (`Chain`), through the callbacks being made (`TodoBase`) to the widgets: `Settled` says
  that a field nobody is going to set (`Due`) is right already. `Last` and `Stopping` are about
  clicks: the stop button of a network that has become unavailable must not lead to a state
  nobody shows. `Phases` ties handles, callbacks and settings to the dialog's life, `Sharing` the
  pointers and `lost` to what is shared. Proved: `WohnTypeOK`, `UiAgrees`, `SettingsKept`, `SharingReleased`.
- **ZaxProofs**. `Requests` says of each step what is switched off and open, and that the entries
  the loop has passed are restored or reported, unless they were written since; that nobody else
  restores meanwhile rests on `OneHandle` and `HandleKept`. `DriverLife` says which process will
  stop the driver: one that is running has a process that will close its window, one that was found
  by a process goes before that process opens it. Proved: `ZaxTypeOK`, `RequestSafe`, `TableTrue`,
  `DriverReplaced`, and `ListTrue`. The last one needs to know what the loop over the rows, a fold,
  makes of an answer of any length: `NatSet` is an induction principle for sets of numbers,
  `LoopExists` shows that the fold's function exists, `TurnShows` and `AnsweredShows` what it
  yields; `Lists` and `Tops` (the rows above the stale ones are as the driver answered, and the answer
  as the table, but for entries written since) are inductive invariants of their own, relative to `IInv`.

- **LoopTheorems** is about loops, not about a program. Its constant operators are a turn of a loop
  (`op`) and what is true after k turns (`holds`); a module that knows both instantiates it.
  `NatSet` is induction over the natural numbers for a set; from it follow `FoldTrace` and
  `LoopTrace`, that a left fold and a recursive function over the turns have the values of a
  sequence of intermediate results, and `FoldInvariant` and `LoopInvariant`: what is true at first
  and handed on by every turn is true at the end. This replaces induction over data, which the
  provers cannot do with an operator as a parameter: what is proved of a turn is an ordinary step.
- **AlgorithmProofs**. `InputOK` says what words the inputs are made of. `DwordsWritten`: the digits
  that `rt_dwtos` takes from a number from the right, reversed and padded, have the number as their
  value (`Divides` keeps quotient and digits in step) and fit exactly when they should. `rt_stodw`
  undoes the divisions as long as it meets no letter, and falls behind for ever at the first one
  (`ShortOf`): decimal texts are read back, tenfold if another character follows, hexadecimal ones
  exactly without letters. `BytesWritten`: `rt_btos` writes every byte at its place. With
  `RawIsRight` and `OffsetJoined`, which say in which cases `RVAToRaw` and `MAKELONG` are right and
  that they are wrong in all others, they give `ZaxConverts` for every input. `DigestsLikeRFC`: the blocks that `GetSum`
  cuts off and the tail that it pads, with its two cases, join to the padded message; the step
  tables are those of the RFC and a rotation is undone by the opposite one. `EnvLoaded`: `env_load`
  performs the lines in order, and on a second pass the variables set so far are as they were after
  the same lines of the first pass, the others as they were in the end (`Again`).
- **SearchProofs**, zik and dotjson. `Measured` says that `SizeOfCode` finds the length of an
  instruction and that its prefixes and opcode are where they ought to be; `PlainSizes` and
  `LongSizes` show it for every kind of instruction in the model, standing anywhere in any code and
  followed by anything. The loops that add up lengths then stay on the offsets of the instructions
  (`Laid`, `CodeAt`), so that `CodeWalked` holds for any number of instructions. `TableOf` says that
  probing for the key of an entry comes to it before it comes to an empty slot (`Reaches`), and that
  `len` counts the slots in use; `Store` keeps this while there is room, `object_grow` makes room
  without losing an entry, because it is called when the table is full and its loop to the old
  `len` sees every slot. So `FindsKeys`, a conjunct of `JsonKept`, holds for any names and any number
  of insertions up to 2^30 (`TableFinds`).

Only model-checked: the liveness properties (`WaitReturns`, `PulseWakes`, `ConnectionEnds`,
`AcceptServed`, `ProxyProgress`, `EchoProgress`, `UiSettles`) and the fairness part of the two
refinements, since temporal reasoning under fairness is outside the prover; and `JsonDecodes` and
the rest of `JsonKept`: decoder, encoder and their references call themselves for nested values, and
the provers cannot unfold a RECURSIVE operator. The type invariants of Thrpool, Gorpool, OneNotify,
TcpProxy and TcpEcho are theorems and not part of the runs any more.

## 8 Disagreements

Found while modelling; `PROJECT.json` quotes the lines.

- `thrpool_destroy` sets `destroy` and broadcasts without `task_m`; a worker between
  its test of `destroy` and `pthread_cond_wait` misses both and sleeps for ever, and so
  does the caller (`DestroyReturns`).
- `OneNotifyTx::pulse` on a waiting receiver sets the state back to IDLE before it
  wakes the task, so the poll that follows is pending again (`PulseReceived`).
- yagw: `mainproc` clears `busy` after a wakeup for writing, while a request is still
  waiting in the packet reader (`BusySection`), which also defeats the limit of the
  write buffer.

Seen while modelling, without a run of their own; the models have these behaviours, and the
properties are stated so that they hold in spite of them:

- A signal set between the second look and the store in `OneNotifyRx::poll` is overwritten.
- yagw: an event that comes between a worker's look at `r` and its release of `own` is handled
  by nobody until the next one.
- go/sys: a full slot stays on top of the stack until an allocation fails on it; a free before
  that pushes it again and links it to itself, and once it is full `alloc` pops it without end.
- Wohn: `cor_ics_initialize` looks only at LAN connections that are not disconnected
  (`NC_SUPPORT`, WohnCore.cpp:8, 549), goes on after calls that fail, uses a `SharingType` that a
  failed call leaves uninitialised, and returns true in any case (523-583): a connection that an
  earlier run left shared may stay shared with null pointers, unknown to the core. `cor_ics_disable`
  drops its pointers though `DisableSharing` failed (598-616). `SharingReleased` says that these are
  all the connections that stay shared unknown (`lost`).
- Wohn: `WlanCloseHandle` waits for a callback that waits for the dialog's thread, which is in
  `WlanCloseHandle`; a changed password is passed to `cor_wlan_set_ssid`.
- zax-inspector: `RVAToRaw` looks at the first, second, fourth, seventh ... section only; the join
  of a handler's address is wrong when the top bit of its low half is set, unless the high half has
  ones only; the kernel page is always empty; a process that fails in `ui_create` leaves the driver
  loaded.
- zax-inspector: Restore all reads the page again without clearing the list (ZaxPage.c:43-48,
  82-88). The new rows are inserted on top and every old row stays below them, with what it said
  before; if the page cannot be read again only the old rows are shown. `ListTrue` is about the
  rows above those.
- zax-inspector: `rt_stodw` counts the letters of a hexadecimal text from zero, so that A is read
  as 0, and takes letters up to Z (ZaxRT.c:154-158); it multiplies before it tests a character, so
  that a number before an invalid one comes out ten- or sixteenfold (148); it leaves `*pdwOut`
  alone when there is no character of a number (167). `WritesNumbers` states what it reads back.
- dotjson frees only `len` of the `cap` slots of an object's table.
- envext looks at a value again as if it were a line.

## 9 Not modelled, within the modelled parts

- Thrpool: the signal of `_worker_cleanup` after the pool was freed; tasks that end
  their thread with `pthread_exit`; failures of `malloc`.
- Gorpool: `Go(nil)` and functions that panic.
- OneNotify: orderings weaker than those the code asks for; dropping one side.
- TcpProxy, TcpEcho: several connections at a time (they share only the loop), resolving
  of addresses, failures that end the process. Both programs stop reading at a full pipe
  or buffer and have nothing that resumes them when the same handler empties it, and the
  proxy forgets an end of file it meets behind data; an end of file of one side drops
  what the other direction holds, and the echo server closes before it echoes. Nothing in
  the repository promises otherwise, so the progress properties say how far progress goes.
- YagwConn: several connections and the reuse of descriptor numbers, `client.post` and
  `deliver` (no caller in the repository), packets with a malformed length. A worker that lost a
  write event is the counterpart of the event nobody handles (section 8) and
  has no property of its own.
- SysPool: `pollWait` and `onFilePoll`, that is, what happens to the events of a file.
- WohnUI: the contents of the log; `cor_unregister_notify`, which nobody calls.
- WohnCore: netshell.dll, which is loaded and never freed, and `pHNStatus`, which every query of
  the state allocates anew: `held` is the set of what is held, and does not count.
- Zik: `EnumIDT` reads 0x7ff gates where the table has 256 (only the gates of the table are in the
  model); `ZwReadFile` answers STATUS_PENDING for a file opened without synchronous I/O (a read is
  complete or fails in the model); the headers that `RVAToRaw` reads behind the last section (they
  find nothing in the model).
- Properties that hold do not catch all of: the lost signal of `OneNotifyRx::poll`, the unserved
  event of yagw and the endless pop of go/sys (section 8); the entry of a table that is hooked
  behind the loop of a request (`TableTrue` exempts what was written since the request began).
- ZaxInspector: the layout of window and structures, `check_pae`, and the kernel page's columns;
  memory of the pool and of the processes except for what a request reads.
- Md5p: the 32-bit sums and constants of a step: only the functions of its words, the order of
  the steps and the blocks are checked.
- EnvExt: the plug-in's entry points and menu.
