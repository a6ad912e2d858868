# Verification project for JCode-Watcher

JCode-Watcher records what students do in their browser IDEs. Two collectors run on
every node: *filemon* watches the source files of the students' workspaces and stores
snapshots, *procmon* traces processes with eBPF and reports builds and runs. Both hand
their events to a durable spool on the node and from there, in batches, to a *backend*
(FastAPI on PostgreSQL) that dashboards query.

This directory holds TLA+ models of that program, TLC configurations that check them on
small instances and TLAPS proofs of theorems for instances of every size. All paths
below are relative to `src/`; `filemon/`, `procmon/` and `backend/` stand for
`src/packages/filemon/` and so on.

## 1. Inventory

### Delivery: spool, sender, batch endpoint
* **State.** The SQLite table `pending_event` (durable), the `asyncio.Lock` of the
  sender, local variables of `flush_once` across its awaits, the event tables of the
  backend with a unique `event_id`.
* **Operations.** `EventSpool.enqueue/pending/acknowledge/retry_later/contains`;
  `register_snapshot`/`send_event`, `flush_once`, `run_retry_loop`;
  `register_event_batch`, `insert_event_batch`.
* **Interaction.** The pipeline task and the retry loop both call `flush_once`; HTTP to
  the backend; acknowledged ids come back.
* **Hard.** A crash between POST and acknowledge; an answer that is lost after the
  commit; a request that arrives after its sender gave up; two flushes at once; one of
  several spool operations failing; events that can never be delivered beside ones that
  can.
* **Correct when** no accepted event is lost, none is stored twice, success is reported
  only for stored events, and every deliverable event is delivered in the end.

### Debouncer (filemon)
* **State.** `buckets` (events, `first_ts`, `timer_task` per path), sleeping timer
  tasks, `processed_queue`.
* **Operations.** `process_event` (modified, deleted), `_timer_callback`, `_flush_bucket`.
* **Hard.** Arrivals, cancelled and surviving timers, and forced flushes race for the
  same bucket.
* **Correct when** the events of a path come out in order and once, the newest state of
  a path is never swallowed, no bucket waits without a timer, and the delay is bounded.

### File watching (filemon)
* **State.** `previous` scan and applied mutation markers of `SelectivePollingObserver`,
  marker files written by the deployment, the raw queue.
* **Operations.** `scan_source_files`, `scan_mutation_markers`,
  `apply_system_mutation_baselines`, `changed_events`, the poll loop, the handler's
  `on_modified/on_deleted/on_moved`, `PathFilter`.
* **Hard.** The tree changes while it is scanned; files are scanned before markers; a
  system mutation and a student's edit overlap; a restart forgets the last scan; an
  `OSError` looks like a deletion.
* **Correct when** a change of a student yields an event, a change of the system none,
  and a change is never lost while the process stays up.

### File pipeline (filemon)
* **State.** The file on disk, the snapshot directory, the record of the event.
* **Operations.** `_handle_deleted_event`, `_handle_modified_event`, `read_and_verify`,
  `create_snapshot_with_data`, `create_empty_snapshot_with_info`, path parsing.
* **Hard.** The file changes, grows or vanishes between `getsize`, `open`, `read` and
  `fstat`; a crash between writing the snapshot and spooling its event.
* **Correct when** what is registered was the file's content at one moment and has a
  snapshot file.

### Lifecycle and readiness (filemon, procmon)
* **State.** `ReadinessState`, the task group, the executor, the observer thread.
* **Hard.** SIGTERM runs `shutdown` while the tasks go on; readiness set after it was
  withdrawn; a dead polling thread noticed ten seconds later.
* **Correct when** readiness means the spool works, and a stopping process does not
  drop what it has taken.

### Process tracing (procmon kernel side and collector)
* **State.** The BPF map from pid to `data_t`, the tail-called program chain, the perf
  ring, the polling thread, the bounded `asyncio` queue.
* **Operations.** `init_handler`, `binary_handler`, `cwd_handler`, `args_handler`,
  `exit_handler`; `_event_callback`, `_lost_callback`, `_enqueue_on_loop`.
* **Hard.** Threads of one process exiting on their own, re-exec, a full map or queue,
  a callback that passes a pointer into the ring, a polling thread that dies.
* **Correct when** each traced process yields at most one event, with its own data.

### Process pipeline (procmon)
* **State.** None: `ProcessClassifier`, `FileParser`, `PathParser`, `StudentParser`,
  `Pipeline.pipeline` and the sender's serialisation are functions of one record.
* **Hard.** Paths that `bpf.c` captures only in part; options whose values look like source
  files; paths with `..`; containers of one assignment and of several.
* **Correct when** a process is classified by what it ran and attributed to the student and
  the assignment it worked on, and a student's work is not filtered away.

### Course resolution (both collectors)
`CourseIdResolver`: a cache with a lifetime, refreshed from the Kubernetes API.
Hard: stale entries, a refresh that fails while old data exists.

### Backend: events, queries, log cache
* **State.** The event tables with open transactions; per replica a `BoundedTTLCache` of
  answered queries; cursors in the hands of clients.
* **Operations.** `POST /events/batch`, `/events/build`, `/events/run`; the paged queries of
  `routers/v2.py`; the build and run logs of `routers/student.py` through the cache.
* **Interaction.** Replicas share the database and nothing else; a write invalidates the
  cache of the replica that served it.
* **Hard.** Requests that insert the same event ids at once; a read that misses, queries
  and stores its answer after a concurrent commit has invalidated its key; rows that are
  inserted between two pages, equal timestamps, ids that commit out of order.
* **Correct when** an acknowledged event is stored, requests do not deadlock, a cached
  answer is no staler than its lifetime, and paging misses and repeats nothing.

Averages, trends, dashboards and selections (`crud/`, `services/`) are single queries.

### Deployment, hooks, schema
Shell and Python deployment scripts, manifests, the notebook hook, Alembic migrations,
logging and metrics.

## 2. Plan

| order | module | of | composes | state |
|---|---|---|---|---|
| 1 | `EventDelivery` | what delivery promises | | done |
| 2 | `CollectorDelivery` | spool, sender, network, endpoint | refines `EventDelivery` | done, proved |
| 3 | `Debouncer` | buckets and timers | | done, proved |
| 4 | `FilePolling` | scans, markers, events | feeds `Debouncer` | done, proved |
| 5 | `FilePipeline` | read, snapshot, spool; start, shutdown | promises of 3 and 4, feeds 2 | done, proved |
| 6 | `BpfRecords` | `bpf.c`'s programs and map | | done, proved |
| 7 | `PerfCollector` | perf ring, polling thread, queue, main loop | fed by 6 | done, proved |
| 8 | `ProcessPipeline` | capture, classification, attribution | fed by 7, feeds 2 | done, proved |
| 9 | `BackendEvents` | transactions, log cache, cursors | the endpoint of 2 | done, proved |
| 10 | `CourseResolver` | cache of course ids | | open |

Every safety property a run checks is the subject of a theorem (section 5). Worth proving next:
* that `FilePipeline` keeps a promise stated without its program counters, as `CollectorDelivery` does;
* module 10, should it be written.

## 3. The modules

`MC*.tla` only declare model values; all definitions are in the modules below.

### EventDelivery
The promise of `deploy/README.md:20`: an event accepted into the spool is stored by the
backend before the spool forgets it. Three sets (`accepted`, `stored`, `released`), three
actions.

### CollectorDelivery
One collector process with its two asyncio tasks, its spool, the requests on the network
and the backend's endpoint.

| state | code |
|---|---|
| `spool`, `wait`, `born` | rows of `pending_event`: `event_id`, `next_attempt_at`, `created_at` |
| `rows` | rows with this `event_id` in the backend's event tables |
| `pipePc`, `cur`, `result` | the call of `register_snapshot` / `send_event` and its results |
| `loopPc`, `sleep` | `run_retry_loop` |
| `lock` | `_flush_lock` |
| `flushPc`, `records`, `attempted`, `acked` | per task: where `flush_once` is and its locals |
| `call`, `orphans` | requests awaited, requests whose sender gave up |

One action stands for the code between two awaits of `flush_once` (`AcquireLock`, `Select`,
`Resolve`, `DeferAll`, `Post`, `ReceiveOk`, `ReceiveFailure`, `AcknowledgeCompleted`,
`DeferUnacknowledged`, `DeferAttempted`) or of its callers (`TakeEvent`, `EnqueueEvent`,
`CheckContains`, `LoopWakes`); `BackendAccepts`, `BackendRefuses` and `LateRequest` are the
endpoint; `Tick`, `Crash`, `Restart` are the world. Every SQLite operation may raise
instead; `Raise` is what then happens, and it is the one place where filemon (the loop is in
a `TaskGroup`, its exception ends the process) and procmon (a bare `create_task`, only the
loop ends) differ: the constant `Supervised`.

The refinement mapping is `accepted <- Accepted` (events that were ever enqueued),
`stored <- Stored`, `released <- Accepted \ spool`.

Abstracted: the payload (an event is its id; whether it validates and whether its course
resolves are the constants `Invalid` and `Unresolvable`); the exact back-off (a deferred
record waits `Retry` ticks, as the code's constant delay); course resolution (any outcome
per attempt for a resolvable event).

### Debouncer
`bucket[k]` is the last event of the bucket of path `k` (the only one ever emitted), `age`
the time since `first_ts`, `timer` its `timer_task`, `timers`/`left` the sleeping tasks and
what is left of their sleep, `processed` all that was put on `processed_queue`. Actions:
`Modified` (`NewBucket`, `ExtendBucket`, `ReplaceBucket` are the branches of
`_add_to_bucket`), `Deleted`, `TimerFires`, `Tick`. The handlers are one step each because
`processed_queue` is unbounded, so that none of their awaits suspends; for the same reason
the flag `in_flight` is never seen set by another task and is left out. With `Prompt` time
does not pass an expired timer; without it timers run as late as they like.

### FilePolling
The polling thread over one assignment directory, together with the Generator (another
service: external) and the students who write to it.

| state | code |
|---|---|
| `log`, `file`, `marker`, `now` | the workspace: every change with its author and time, the last change per file, the marker file, the clock |
| `todo`, `current`, `previous` | the scan in progress, its result so far, the last scan |
| `seenMarker`, `prevMarker` | the marker as this poll and the one before read it |
| `events`, `asked` | events to be handled; the one `is_system_mutation_event` decides on, with the marker whose payload it read |
| `reported` | what `put_nowait` was given (history, with the file's state at that moment) |
| `baselined` | changes the first scan after a start took as given (history) |

Each file is read by a step of its own (`ScanFile`), then the marker's signature
(`StatMarker`) and content (`Compare`, which then does what the loop body does without
another read: `apply_system_mutation_baselines`, `changed_events`); the handler reads the
payload (`Ask`) and afterwards the two files' times (`Decide`). Students, Generator and
clock move between any two of these steps. A scan may fail to read a file or the marker;
the handler may fail to read the marker. `Restart` is a scan that raises, noticed by
`monitor_watchdog`, or a killed process.

Abstracted: a `FileSignature` is taken to identify the change that produced it (mtime in
nanoseconds, size and inode); `PathFilter`'s patterns (`Paths` are files that pass);
`failed` mutations, which are handled like `completed` ones; the marker's `updatedAtNs` and
its mtime are one time.

### FilePipeline
One file, from a change to the event in the spool, inside the life of the filemon process.

| state | code |
|---|---|
| `log`, `now` | every change of the file with size, mtime, inode; the clock of the mtimes |
| `dirty`, `known`, `waiting` | observer and debouncer, reduced to their promise: a change is followed by an event |
| `queue`, `pc`, `job` | `processed_queue`; where `process_event` is, and its locals |
| `files`, `spool`, `ids` | the snapshot directory; what `register_snapshot` enqueued; event ids |
| `phase`, `observer`, `executor`, `ready`, `server`, `term` | `main`: its task group, the observer thread, the executor, readiness and its server, the task of `shutdown` |

The steps are those between which something else can run: `Take`, `CheckSize` (also the path
and `submit`, which raises after shutdown), in the executor's thread `OpenFile`, `ReadFirst`,
`ReadSecond` (a read is two steps: a write may fall between them) and `Verify`, then
`CreateSnapshot`, `WriteSnapshot`, `Enqueue`, `Registered`. `StepFails` is an exception that
`process_event` logs and forgets. `Signal`, `ShutdownBegins`, `ShutdownEnds` are SIGTERM:
between the two the event loop is blocked by `executor.shutdown(wait=True)` while the thread
goes on. `WatchdogRaises`, `TaskFails`, `Cancel`, `End` are the task group; `Kill`, `Restart`
the kubelet. An event carries the last change before it (`upto`); a snapshot is the pair of
versions its two halves were read from. `missed` (history) says why the file may be uncaptured: the
process has taken no event since it started, or the last one it took failed.

Abstracted: a rewritten file keeps its inode, a removed one does not; the paths parse; the
flush after `Enqueue` is `CollectorDelivery`'s; a spooled event stays in `spool`.

### BpfRecords
`bpf.c` on several CPUs. `map` is `process_data` (from process to one of the preallocated
elements), `cell` what the elements hold, also when deleted from the map: `exit_handler`
keeps a pointer over `lookup`, `perf_submit` and `delete`. `threads`, `program`, `execs` and
`ended` are the kernel's view; `ended` is the status each program has come to its end with, by
`exit_group`, a signal or its last thread. `InitHandler`, `BinaryHandler`, `CwdHandler`,
`ArgsHandler` are the tail-called chain; the last three are one `Handler` with the field it fills
in and the next program, and may give up and delete the record. `ExitHandler`, `StoreCode`,
`Submit`, `Delete` are the steps of `exit_handler`. `Fork`, `StartThread`, `ExitGroup` are
external; a process's exec waits for its other threads to be gone.

`exit_handler` runs in each thread, and the first thread to exit reports the program. If that is a
worker that returns while others go on (`early`, history), the report comes before the program's
end and has the thread's code, 0, in place of the program's, although procmon's README
(`packages/procmon/README.md:253`) says that it is sent when the process ends. `ReportsAreWhole` compares the reported code with how the program
ended, for all programs that are not in `early`; it lets a death by a signal pass, which
`exit_code >> 8` (`bpf.c:280`) turns into code 0.

Two outcomes are kept visible rather than ruled out: `dropped` (an exec whose record was
refused, abandoned or not submitted: nothing in the code counts these) and `raced` (two
threads of a process in `exit_handler` at once, in which case the code may report a program
twice, or write the exit code into an element that belongs to another process by then).

The per-CPU scratch record `tmp_array` is not stale when reused: its fields other than pid
and host name are never written, since the handlers fill in the map's copy.

### PerfCollector
From `perf_submit` to `_convert_process_struct`. `memory`, `head`, `tail` are the ring:
record *n* lies in slot *n* mod `RingSize`, and may be overwritten once the callback has
returned. `ready` are the callbacks of `call_soon_threadsafe`, `queue` the `asyncio.Queue`,
`main` the main loop. What travels is a view (`.contents`), named by the record it was made
for; `converted` keeps view and contents read through it, in two halves, and whether the kernel had
come round to the slot again by then (`fresh`). `lost`, `unsaid`,
`lostWith`, `lostCount` follow a record that found no room to `_lost_callback`; `dropped` is
`dropped_count`. `PollFails` is the exception that ends `_run_polling` for good. The rings
of all CPUs are modelled as one.

`CollectorInv` counts views: each record's view is converted, dropped or on its way, whatever its
memory holds. `ConvertedInOrder` is about the contents: a record that has not been overwritten
when its turn comes is converted whole, and no conversion holds anything of a record whose turn is
past. It does not say that a report comes once: in place of one it has overwritten, a later report
is converted early, and again in its own turn (`perf_aliasing`).

### ProcessPipeline
`Walk` is `get_dentry_path` with its ways to stop (too deep, a name too long, no room),
`CopyArgs` the copy of `ARGSIZE` bytes of arguments; `Capture` is what `ProcessStruct` holds of a
process. `Classify`, `FindPythonFile`, `FindCFile`, `ParsePath`, `HomeworkOf`, `AssignmentOfHost`
are the parsers, `LabelProcess` and `Pipeline` the pipeline with its filters in their order,
`Serialize` the sender. One process at a time (`Exit`, `Handle`, `Done`): the code is sequential
and the runs are over its inputs. A path is its sequence of names, an argument what the parsers
ask of it (an option that takes a value, `-m`, a `.c` or `.py` file, anything else) and its length;
`CutArg` says what each beginning of it looks like to the parsers, since the copy may end within
it. A host name is whether it matches, its student and its suffix. Names have lengths, so that
the limits of `bpf.c` bite; version numbers in binaries' names are left out. The `target` of an event
is the `target_path` the sender sends: `source_file`, which `_get_absolute_source_file` makes of
the captured working directory and the source, or else the binary's path. Filter 4 of the
pipeline is not in the model: `_label_process` returns `USER_BINARY` only with a homework
directory, so it cannot fire.

`CaptureIsFaithful` states what is captured: two ways of losing part of a path raise no flag (no
room, `bpf.c:69`; a name of exactly 64 characters, which loses its last one, `bpf.c:64`); a cut in
the arguments does, and nothing reads the flags. What then may be said of an event, however little
was captured, is `EventsAreRight`: its target is the end of the real path of the file (of the
program, or of the first *captured* argument that is a source and not an option's value:
`Targets`), and the assignment is the container's or one on that real path. More is not so: with a
working directory captured in part the target is not the path of the source (in `/usr/<long>/x`, `x.c`
becomes `/x/x.c`), and with a cut in the last argument the event is of a source that was never given
(`x.c++` becomes `x.c`). The run reaches both.

`WorkIsReported` says of a process captured whole, whose own path and sources have no tab or line break
(the parser refuses those), that it is reported if and only if `IsWork`. `IsWork` is what the code
takes for work, and leaves out two things one might have counted: a Python process with `-m`
anywhere among its arguments, the script's own included (`file_parser.py:40-48`), and, in the
container of one assignment, a program of the student's that does not lie in an assignment's
directory: filter 4 (`pipeline.py:115-119`) makes an exception for that container, but
`_label_process` has given such a program no type, and filter 1 (`pipeline.py:76-83`) has dropped it.

### BackendEvents
The backend's requests statement by statement: `Receive`, `Insert` (one row, waiting for an
uncommitted row with its event id, as `ON CONFLICT DO NOTHING` does), `Commit`,
`Invalidate` (and answer), `RequestFails`, `Crash`. `tx[w]` is the request a thread serves,
`rows` the table with who inserted and, once committed, when. The cache is that of one
replica, `Observed`; `Hit`, `Read`, `Store` are `BoundedTTLCache.get` and `set` around the
query of `fetch_build_log`/`fetch_run_log`, with the least recently used entry first.
`OpenPages`, `NextPage` are a client that follows `next_cursor`: a page is a set of rows
(`PageOf`), the answer says whether more follow (`HasMore`) and where to go on (`Cursor`, its
oldest row).

All events are of one student and assignment. A query's key is one of `Queries`: under the
events' own class and homework (`OwnNames`), which a write invalidates, or under other names
that select the same rows, since `assignment_predicates` goes by the number in
`assignment-N` alone. A behaviour shows either the paging client or the cached queries
(`client`), which do not read what the other writes.

## 4. The runs

| run | question | shows |
|---|---|---|
| `delivery_safety` | Are events lost or duplicated by procmon's two tasks, a crash, a spool fault, lost answers and late requests? | No; success is reported only of stored events, a batch that is sent is still due, and each step implements `EventDelivery`. The inductive invariant of the proofs holds. |
| `delivery_live` | Is everything delivered in the end (filemon)? | Yes, with one crash, one fault and one unresolvable event, while fewer events are unresolvable than fit a batch; and no registration hangs on the lock. |
| `delivery_dead_loop` | ... after an SQLite error in procmon's loop? | **No**, until the next event or a restart. |
| `debouncer` | Do order, coalescing, timers and bounds survive forced flushes and deletions; does every path come out? | Yes; at most one stray timer per path; a bucket lives less than `MaxWait + Window`. |
| `polling_silent` | Is a change of the Generator ever taken for a student's, or an edit taken into the baseline without being reported? | Not with two mutations, a failing read and a restart, unless a mutation begins within the handler's check; and only if a mutation covers the edit or filemon was started after it. |
| `polling_live` | Is every edit noticed, with two files? | Yes, if polls go on, though reads fail. |
| `file_pipeline` | Does what is registered have its snapshot, of one version of the file; is the last change captured; does the process end when told to? | Yes, but for what size and mtime cannot tell apart, a file that grows past the limit while it is read (an event follows), and events that fail or meet a shutdown. |
| `bpf_records` | Is each program reported at most once and with its own data; does the map fill up with the dead? | Yes, unless two threads of a process run `exit_handler` at once; no. The exit code is the program's unless a thread left it early or a signal killed it. |
| `perf_collector` | Is a view lost without being counted, a record that is still there converted out of its turn, or one converted after its turn; does the queue drain? | No; yes, while the polling thread lives. |
| `perf_aliasing` | Does the pipeline get the record that was submitted? | **No**: it reads the ring's memory after the kernel may have reused it. |
| `process_pipeline` | What is captured of a process, and is what an event says of it so; is a student's work reported? | The ends of its paths and the beginning of its arguments; yes, as far as that goes, see `ProcessPipeline` above; yes, if it is captured whole. |
| `backend_events` | Can overlapping batches deadlock or lose an acknowledged event; how stale is a cached answer; does paging miss a row? | No, thanks to the order of the spool; at most its lifetime and the time of a query, and not at all stale about what this replica acknowledged since, under the events' own names; no. |

### Findings
The two runs marked **No** are findings; `PROJECT.json` quotes the line each contradicts.

Known limits of the code that no run is kept for, each at the place where the properties
make an exception for it:
* `EventSpool.pending` selects the oldest due records: with as many unresolvable events as a
  batch holds they are selected again and again and the events behind them wait for ever.
* `register_event_batch` answers 422 for a whole batch: one payload that does not validate
  keeps the others of its batch from being stored.
* `DEBOUNCE_MAX_WAIT` is compared only when the next event arrives: a bucket lives up to one
  window more. After a forced flush the old timer still runs and flushes the next bucket
  early (`debouncer.py:90`).
* An edit that no poll has seen before a mutation begins goes down with its baseline
  (`polling_observer.py:163`).
* `is_system_mutation_event` reads the marker's payload before it stats the file and the
  marker (`source_path_filter.py:62-70`): with a mutation that begins in between, a change of
  the Generator is reported (`unsure` in `FilePolling`, as when the marker is unreadable).
* `exit_code >> 8` reports a death by a signal as exit code 0 (`bpf.c:280`), which the dashboard
  does not count as a failure (`backend/crud/dashboard.py:31`).
* The first thread of a program to exit has it reported and its record deleted, with the thread's exit
  code; when the program ends nothing is sent (`bpf.c:266-288`, against
  `packages/procmon/README.md:253`; `early` in `BpfRecords`).
* `error_flags` is not looked at. A working directory captured in part is joined with the source
  all the same (`pipeline.py:131-133`), so that `source_file`, "소스 파일 절대 경로" in
  `models/event.py:19`, need not be the path of the source; and arguments cut within a name
  (`bpf.c:252-258`) may name a source that was not given.
* SIGTERM closes the executor while the pipeline goes on taking events; they are dropped with
  the message for a file that changed (`pipeline.py:99`).
* Readiness may be set after shutdown has withdrawn it (`main.py:107`); the readiness server is
  closed then, so that nobody is told.

### Bounds and why they are enough
* Delivery: two events, so that one can be in the way of the other and a batch can be cut
  (`Batch = 1`) or whole (`Batch = 2`); one crash and one fault, each at every point,
  together enough for a fault while recovering; `Retry = 1` because only zero and non-zero
  waits are told apart. The proofs cover every number of each.
* Debouncer: two paths and six events: a forced flush, its stray timer, a second forced
  flush and a deletion fit. The proofs cover all sizes, and timers that are late.
* Polling: two changes (one by the Generator, one by a student, or two of either), two mutations, times 0 to 2
  with a grace of one tick, one failing read, one restart; polls are not bounded. `Lag`, the time from
  the start of a poll to the end of the next, is at most `Grace`: production polls every 5
  seconds with a grace of 30 (`settings.py:23,25`), and with a larger `Lag` a deletion by
  the Generator is reported. `polling_silent` excludes an unreadable marker in the
  handler, since the code then lets the event pass; `polling_live` includes it, with two files
  and two points of time.
  In the ticks of the model an edit in the tick in which a mutation ends counts as covered
  by it, as `<=` on mtimes does.
* File pipeline: three changes suffice for one before, one during and one after a read, or for a
  removal and a new file; two sizes on either side of the limit; two mtimes, so that changes may
  or may not share one; one trouble (a fault, a dying thread, SIGTERM, a restart) at every point.
* `bpf_records`: two CPUs (a third adds no kind of race between two programs); a map of one entry
  and two elements, so that it is full with one record and an element is reused while a
  pointer to it is held; two threads, two execs, two students' processes and one other, one
  failing handler. Processes, CPUs, threads and elements are symmetric.
* `perf_collector`: ring and queue wrap around and overflow with seven records.
* `process_pipeline`: every combination of three hosts, seven binaries, eight
  working directories and up to three of ten arguments, of which six bytes fit: all of three short ones, or
  one and a part of the next. Names are of three lengths: short, at the limit, beyond it. A walk may
  end for each of its reasons and at the root, for working directories with and without the
  assignment left in what is captured, and for a binary that is then taken for a compiler or for a
  program of an assignment. Lengths of arguments are scaled down; the proofs are for any.
* `backend_events`: three events, two of one time; batches of one to three of them; two writers,
  at either of two replicas; two requests, so that one can be the retry of the other; one failure
  or crash; a cache of one entry, so that eviction happens, asked under two names; pages of one row; a
  lifetime and a query of one tick. Writers are symmetric.

### Fairness
* Delivery: the tasks of a running process go on (weak fairness); `asyncio.Lock` wakes its
  waiters in order, hence strong fairness for `AcquireLock`; the container is restarted; and
  outages end: a resolution, a transaction, an answer that is tried for ever succeeds once
  (strong fairness). Faults, new events and late requests are never promised.
* Debouncer: time passes and expired timers run (the event loop). Events need not come.
* Polling: the thread goes on. Nothing of students, Generator or clock.
* File pipeline: observer, debouncer, pipeline (loop and thread) and `main` with its monitor go
  on; changes, faults, signals and kills need not happen.
* Perf collector: the polling thread, the callbacks and the main loop go on, and a send ends
  (`CollectorDelivery`'s `RegistrationReturns`). The kernel need not submit anything.

`CHECK_DEADLOCK FALSE` stands where the system may really stop: the delivery
configurations (all events handled, nothing spooled, no crash left), `FilePipeline` (the process
has ended and is not restarted), `PerfCollector` (the program has been stopped) and
`BackendEvents` (no request comes and the client has read its last page).

## 5. The proofs

`CollectorDeliveryProofs` proves, for any finite set of events, any batch size, any bound on
crashes and faults and both kinds of collector:
* `Safety`: `DeliveryInv` is an invariant. None of the safety properties is inductive alone.
  `NoAcceptedEventLost` needs that what a response acknowledges is stored (`DataInv`), and
  that needs `attempted` to be accepted and stale locals to be cleared. `PostedIsPending`
  needs the lock: `ControlInv` says that `flushPc[t] # "idle"` exactly for the holder, so no
  other flush changes the spool between `Select` and the answer, and an enqueue, which may
  come at any time, adds a row but removes none.
* `NothingLost`, `StoredOnce`, `SuccessIsStored`, `NoStaleBatch` follow from it.
* `Refinement`: `Spec => Promise!Spec`. `EnqueueEvent` maps to `Accept`, `BackendAccepts` and
  `LateRequest` to `Store` of the events that are new, `AcknowledgeCompleted` to `Release`,
  all else to stuttering (`InvisibleSteps`).

The only assumption is `DeliveryAssumption` (constants of the right kinds).

`DebouncerProofs` proves, for any paths, window, maximum wait and number of events, with prompt
and with late timers: `Safety` (`DebouncerInv`), hence `InOrder`, `NoneForgotten`, `Timed`, and
`Delay` for prompt ones. The
strengthening is `BucketInv`: the bucket holds the newest event of its path, set its timer,
and nothing as new has been emitted; age plus time left stays below `MaxWait + Window`.
Order then survives a stray timer, because a flush appends the bucket's event, which is
newer than all that was emitted of the path.

`StraysAreFew` adds `StrayInv`: when timers are prompt, a path has at most one
timer beside its bucket's own, and the age of the bucket plus what is left of that timer is
at most `Window`: it has fired before this bucket can be old enough to leave a stray in its turn.

`BpfRecordsProofs` proves `RecordsSafe`, `ReportsWhole`, `ReportedOnce` and `EndsAccountedFor`
for any number of CPUs and threads and any finite sets of processes and elements. `RecordsInv`,
which the run checks, is inductive: who is in which program of the chain (`ProgramsInv`) says what
the record holds so far (`FieldsInv`); each exec has one process, and a record or an account of
its fate (`ExecsInv`); and while no two threads of a process have met in `exit_handler`, the one
that is there holds its process's own record, unreported, and its status is the one the program
ended with, unless a thread left early (`UnracedInv`). The reports follow. For the exit code two
facts are needed of every step: the status a program ended with never changes, and `early` only
grows (`EndsStay`); and a thread that leaves a program that is not in `early` afterwards has ended
it (`Leaving`).

`PerfCollectorProofs` proves `CollectorSafe` and `Ordered` for any ring, queue and number of records.
The strengthening is that callbacks, queue and main loop hold increasing record numbers, each
stage behind the one before it (`LineInv`); and that the losses the ring has still to tell add up
(`Ledger`: the sum is carried along as a sequence of partial sums, and shown at the end to be
the recursive one of `CollectorInv`). For `Ordered` it has to be said what the ring holds (`Contents`):
a slot holds the record it was written for or, once the kernel has come round to it, a later one,
and so do the halves read from it. So a conversion holds nothing older than its own view, and the
views are in order. Two records in the ring lie in different slots because
a multiple of `RingSize` is no smaller than `RingSize`.

`BackendEventsProofs` proves `BackendSafe`, `NoDeadlock`, `NoStalerThanTTL`, `AckInvalidates` and
`ExactPages` for any events, writers, replicas, readers, cache size and page limit. The inductive
invariant, `Whole`, has a part for the table, for the cache and for the session.
* `NoDeadlock`: a batch is in the order of the events, so a request waits for one whose own next
  event is greater; in a ring of waiting requests, the one with the greatest is in the way.
* `NoStalerThanTTL`, `AckInvalidates`: an entry misses nothing committed before its query was made, at
  most `MaxRead` before it was stored; a request removes the entries of its replica after its
  commit and before its answer.
* `ExactPages`: a page is the newest rows behind the cursor, so that what it leaves out is older than
  all it holds; ids grow, and a committed row stays where it is.
Facts about finite data (a bounded set of numbers has a greatest one, `Keep` is a part of its
argument, a table has a first and a last row) are proved by contradiction from the least
counterexample, with the well-foundedness of `<`, since the library's induction theorems take an
operator that no backend can instantiate.

`FilePollingProofs` proves `NoEditLost` and, when `Lag <= Grace`, `Silent`, for any files, mutations, faults,
restarts and bounds on time.
* `Mutations`: a change of the Generator is in the running mutation or no newer than the end of the
  last one. A file that is there and newer than the marker is therefore a student's.
* `Scans`, `EventsInv`: a file that has not changed since the last poll began is, in the result of
  a scan since then, as it is or unread. So the event of a file that is gone says that it went
  after the last poll began, at most `Lag` ago; when the marker is older than `Grace`, it went after the
  mutation. That the times fit is the one hypothesis, and section 4 says what production has.
* `EditsInv`: an edit in the baseline that is still the file's last change is reported, covered, or an
  event waits for the handler's decision.
The two exceptions of `GeneratorIsSilent` are in the theorem as they are in the code: a marker that
is unreadable, or rewritten during the check. Otherwise the handler alone keeps the Generator
silent; what `apply_system_mutation_baselines` compares with matters for `NoEditLost` only.

`FilePipelineProofs` proves `RegisteredIsThere`, `SnapshotsSound`, `OrphansFew`, `QuietCaptured`
and `ReadyWorks` for any sizes and any bounds on changes and troubles, from one inductive
invariant, `Whole`:
* `OwnFile`: the snapshot at hand has an id of its own and its file is there, whole before it is
  enqueued; hence `FileInv`.
* `Reads`, `Verified`: the first `fstat`, the two reads and the second `fstat` see versions of one
  inode, none older than the one before; hence `SnapshotsAreSound`.
* `UpToDate`: unless a change is still to be observed, the newest event that is pending or at hand
  is about the last change; when there is none, the last one registered is, or the file is exempt.
* `FewOrphans` counts the files nobody names against the troubles so far.
* `Closing`: an executor that is closed was closed by `shutdown`, which has withdrawn readiness and
  takes the server down before anything else may run.

An earlier form of `QuietMeansCaptured` exempted every change up to the one of a failed
event or a restart. Looking for the invariant showed that this is not what the code gives: a file
that is captured, removed while filemon is down and written and removed again before the first scan
is left as it was captured, with no event to come. The exemption is now that no event has been
taken since the start, or that the last one failed.

`ProcessPipelineProofs` proves `Captures`, `Sendable`, `Right` and `WorkIsSeen` for any hosts, paths,
arguments and limits. The state machine is simple (`IInv`: what is captured, and what became of it, is
of the process at hand); the work is in what the functions compute.
* `Walk`, `CopyArgs`, `FindCFile`, `Normalize` and `Length` are recursive functions. `Recursion` shows that
  a recursion has a solution, `Unrolled` that a function that takes its steps is one; hence
  `WalkRecursion` and its like, from which `UpTo` carries what holds of each turn to the end.
* `WalkIsSound`: what has been copied is the end of the path, and the position in the buffer tells the
  names that are left. So with room for all, and no flag, the walk ends at the root.
* `CopyIsSound`: while there is room all arguments so far are there; the one for which it does not
  suffice is cut, and nothing is copied after it.
* `FirstC`: options come in runs, and what stands behind a run is a value if the run is odd (`Values`),
  which is when `skip_next` is set.
* `NormCutOff`: of two paths of which one is the end of the other, but for names cut off, so are the
  normal forms: each `..` takes a name from both, or from the longer one only. An assignment
  directory is never a cut name, so it is on the real path too (`OnThePath`). What an argument makes
  of the end of a directory is the end of what it makes of the directory (`JoinEnd`, `JoinNorm`).
* `HomeworkType`: the code's nested conditions find an assignment where, and only where, a root is
  followed by an assignment directory (`InHomework`).
Its assumptions say what the inputs are: a dentry is never named `..`, a host that matches has a student,
arguments, whole or cut, are of the form above, `MAX_DENTRY_LEVEL` and `MAX_PATH_LEN` are not zero.

What is assumed of the constants is in the modules (`DebouncerAssumption`, `BpfAssumption` and so
on): that they are numbers or sets of the right kinds, that finite sets are finite, that values
which stand for none are none of them, that `MaxWait` is above `Window` and that there are more elements
than `MaxEntries`. Each action has a lemma of its own; a theorem combines them.

Only model-checked: liveness (`EveryEventDelivered`, `RegistrationReturns`,
`EventuallyEmitted`, `EditsAreSettled`, `EventuallyCaptured`, `EndsWhenStopping`,
`EventuallySettled`), which is beyond the prover.

## 6. What is not modelled

* Course resolution: only its answer per event appears (in `CollectorDelivery`).
* Averages, trends, dashboards, selections of the backend: single `SELECT` statements over
  committed rows, without state of their own; what they compute is SQL's matter. Authentication
  of requests.
* `on_moved`: inotify mode only; it hands a deletion and a modification to the debouncer.
* The 30-second limit on the first scan (`polling_observer.py:212`): a start that fails.
* Which file names `PathFilter` lets pass and how `SourcePathParser` splits a path.
* Mount points inside a path: `get_dentry_path` does not cross them, so that a path is relative
  to its mount; the model's paths are what a walk from the leaf meets.
* Text that is not UTF-8, a character cut in two by a limit: in a path or a host name the conversion
  then raises and the event is dropped; in an argument the character is replaced
  (`pipeline.py:250`), which no parser asks about.
* Empty arguments: they take a byte of `ARGSIZE` and are then dropped (`pipeline.py:252`); the model's
  arguments are the others.
* Power failures that take back what `fsync` was not called for.
* Logging and metrics, in every component. Deployment scripts, manifests, the notebook hook and
  migrations: no state that lives on.
