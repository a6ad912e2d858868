----------------------------- MODULE FilePipeline -----------------------------
(***************************************************************************)
(* filemon from a changed file to its registered snapshot, within the life *)
(* of the filemon process.                                                 *)
(*                                                                         *)
(* One source file, which a student changes at any moment: while its event *)
(* waits, while its size is checked, while it is read in a thread of the   *)
(* executor.  The pipeline checks what it read, writes a snapshot file and *)
(* enqueues the event in the spool; CollectorDelivery takes it from there. *)
(* The observer and the debouncer (FilePolling, Debouncer) appear here     *)
(* only by what they promise: a change of the file is followed by an event.*)
(*                                                                         *)
(* main starts and supervises the tasks; SIGTERM runs shutdown as one more *)
(* task beside them, and the process ends when monitor_watchdog finds the  *)
(* observer stopped.                                                       *)
(***************************************************************************)
EXTENDS Integers, Sequences, FiniteSets

CONSTANTS
    Sizes,          \* sizes a file may have
    MaxSize,        \* MAX_CAPTURABLE_FILE_SIZE
    MaxTime,        \* bound on the clock of mtimes
    MaxChanges,     \* bound on changes of the file
    MaxTroubles     \* bound on faults, SIGTERMs and restarts together

ASSUME FilePipelineAssumption ==
    /\ Sizes \subseteq Nat /\ Sizes # {} /\ MaxSize \in Nat
    /\ MaxTime \in Nat /\ MaxChanges \in Nat /\ MaxTroubles \in Nat

VARIABLES
    \* the workspace
    now,        \* the clock, as coarse as mtimes are
    log,        \* every change of the file: there, size, mtime, inode
    \* observer and debouncer
    dirty,      \* the observer has not seen the last change
    known,      \* the file was there when it last looked
    waiting,    \* the event in the debouncer, or NoEvent
    \* the pipeline
    queue,      \* processed_queue
    pc,         \* where process_event is; "get" between events
    job,        \* its local variables
    \* what outlives the process
    files,      \* snapshot files
    spool,      \* events enqueued, in order
    ids,        \* event ids given out
    \* the process
    phase,      \* "starting", "running", "cancelled", "ended"
    observer,   \* the observer thread is alive
    executor,   \* the executor takes work
    ready,      \* ReadinessState
    server,     \* the readiness server answers
    term,       \* SIGTERM: "no", "pending" (shutdown to run), "blocking", "done"
    \* troubles had: I/O errors, threads and tasks that die; SIGTERMs; restarts
    faults, signals, restarts,
    \* history
    missed      \* no event since the start, or the last one taken failed

workspace == <<now, log>>
watch == <<dirty, known, waiting>>
storage == <<files, spool, ids>>
process == <<phase, observer, executor, ready, server, term>>
budgets == <<signals, restarts>>
vars == <<workspace, watch, queue, pc, job, storage, process, faults, budgets,
          missed>>

\* An event knows the last change before it.
NoEvent == [type |-> "none", upto |-> 0]
NoJob == [type |-> "none", upto |-> 0, inode |-> 0, before |-> 0, first |-> 0,
          second |-> 0, id |-> 0]

There(v) == v # 0 /\ log[v].there
Last == Len(log)

Init ==
    /\ now = 0
    /\ log = <<>>
    /\ dirty = FALSE /\ known = FALSE
    /\ waiting = NoEvent
    /\ queue = <<>>
    /\ pc = "get"
    /\ job = NoJob
    /\ files = {} /\ spool = <<>> /\ ids = 0
    /\ phase = "starting"
    /\ observer = TRUE /\ executor = TRUE /\ ready = FALSE /\ server = TRUE
    /\ term = "no"
    /\ faults = 0 /\ signals = 0 /\ restarts = 0
    /\ missed = FALSE

Alive == phase \in {"starting", "running"}
\* The event loop is free to run a task of the TaskGroup.
Loop == Alive /\ term # "blocking"
Trouble == faults + signals + restarts < MaxTroubles
Fault == Trouble /\ faults' = faults + 1
-----------------------------------------------------------------------------
(***************************************************************************)
(* The student, and what observer and debouncer make of it.                *)
(***************************************************************************)

Inode == IF Last = 0 THEN 1
         ELSE IF There(Last) THEN log[Last].inode ELSE log[Last].inode + 1

Append1(there, size) ==
    /\ Last < MaxChanges
    /\ log' = Append(log, [there |-> there, size |-> size, mtime |-> now,
                           inode |-> Inode])
    /\ dirty' = TRUE
    /\ UNCHANGED <<now, known, waiting, queue, pc, job, storage, process, faults,
                   budgets, missed>>

Write == \E size \in Sizes : Append1(TRUE, size)

Remove == There(Last) /\ Append1(FALSE, 0)

Tick ==
    /\ now < MaxTime
    /\ now' = now + 1
    /\ UNCHANGED <<log, watch, queue, pc, job, storage, process, faults, budgets,
                   missed>>

\* The newest event of the file replaces the one that waits.  A file that came
\* and went between two looks makes none.
Observe ==
    /\ observer /\ Alive /\ dirty
    /\ dirty' = FALSE
    /\ known' = There(Last)
    /\ waiting' = IF There(Last) THEN [type |-> "modified", upto |-> Last]
                  ELSE IF known THEN [type |-> "deleted", upto |-> Last]
                  ELSE waiting
    /\ UNCHANGED <<workspace, queue, pc, job, storage, process, faults, budgets,
                   missed>>

Flush ==
    /\ Loop
    /\ waiting # NoEvent
    /\ queue' = Append(queue, waiting)
    /\ waiting' = NoEvent
    /\ UNCHANGED <<workspace, dirty, known, pc, job, storage, process, faults,
                   budgets, missed>>
-----------------------------------------------------------------------------
(***************************************************************************)
(* FilemonPipeline.process_event.                                          *)
(***************************************************************************)

\* The event is over, one way or the other; what it was about may be lost.
Drop == pc' = "get" /\ job' = NoJob

\* Faulty variant: events that pile up for the file are taken for one.
TakeAll ==
    /\ Loop
    /\ pc = "get" /\ queue # <<>>
    /\ job' = [NoJob EXCEPT !.type = Head(queue).type, !.upto = Head(queue).upto]
    /\ queue' = <<>>
    /\ pc' = IF Head(queue).type = "modified" THEN "size" ELSE "empty"
    /\ missed' = FALSE
    /\ UNCHANGED <<workspace, watch, storage, process, faults, budgets>>

Take ==
    /\ Loop
    /\ pc = "get" /\ queue # <<>>
    /\ job' = [NoJob EXCEPT !.type = Head(queue).type, !.upto = Head(queue).upto]
    /\ queue' = Tail(queue)
    /\ pc' = IF Head(queue).type = "modified" THEN "size" ELSE "empty"
    /\ missed' = FALSE
    /\ UNCHANGED <<workspace, watch, storage, process, faults, budgets>>

TooLarge(size) == size > MaxSize

\* getsize, the path, and submit, which raises RuntimeError after shutdown: the
\* handler for a file that changed swallows it.
CheckSize ==
    /\ Loop
    /\ pc = "size"
    /\ \/ /\ ~There(Last) \/ TooLarge(log[Last].size)
          /\ Drop
          /\ UNCHANGED missed
       \/ /\ There(Last) /\ ~TooLarge(log[Last].size)
          /\ IF executor
             THEN pc' = "open" /\ UNCHANGED <<job, missed>>
             ELSE Drop /\ missed' = TRUE
    /\ UNCHANGED <<workspace, watch, queue, storage, process, faults, budgets>>

\* In the executor's thread, which goes on when the loop is blocked.
Thread == Alive

OpenFile ==
    /\ Thread
    /\ pc = "open"
    /\ IF There(Last)
       THEN /\ pc' = "first"
            /\ job' = [job EXCEPT !.inode = log[Last].inode, !.before = Last]
       ELSE Drop
    /\ UNCHANGED <<workspace, watch, queue, storage, process, faults, budgets,
                   missed>>

\* The last change of the open file, which may be another one's name by now.
OfInode ==
    CHOOSE v \in 1..Last :
        /\ log[v].there /\ log[v].inode = job.inode
        /\ \A w \in (v + 1)..Last : ~log[w].there \/ log[w].inode # job.inode

ReadFirst ==
    /\ Thread
    /\ pc = "first"
    /\ job' = [job EXCEPT !.first = OfInode]
    /\ pc' = "second"
    /\ UNCHANGED <<workspace, watch, queue, storage, process, faults, budgets,
                   missed>>

ReadSecond ==
    /\ Thread
    /\ pc = "second"
    /\ job' = [job EXCEPT !.second = OfInode]
    /\ pc' = "verify"
    /\ UNCHANGED <<workspace, watch, queue, storage, process, faults, budgets,
                   missed>>

Signature(v) == <<log[v].size, log[v].mtime>>

\* Faulty variant: only the size is compared.
SameSize(v, w) == log[v].size = log[w].size

SameFile(v, w) == Signature(v) = Signature(w)

\* The second fstat; a difference raises RuntimeError, and the event is dropped.
Verify ==
    /\ Thread
    /\ pc = "verify"
    /\ IF SameFile(job.before, OfInode)
       THEN pc' = "snapshot" /\ UNCHANGED job
       ELSE Drop
    /\ UNCHANGED <<workspace, watch, queue, storage, process, faults, budgets,
                   missed>>

\* A deleted file: an empty snapshot, whether or not the file is back.
Data == IF job.type = "deleted" THEN <<>> ELSE <<job.first, job.second>>

\* Faulty variant: the event is enqueued before its snapshot is written.
CreateAndEnqueue ==
    /\ Loop
    /\ pc \in {"snapshot", "empty"}
    /\ ids' = ids + 1
    /\ job' = [job EXCEPT !.id = ids + 1]
    /\ files' = files \cup {[id |-> ids + 1, data |-> <<>>]}
    /\ spool' = Append(spool, [id |-> ids + 1, upto |-> job.upto, data |-> Data])
    /\ pc' = IF pc = "snapshot" THEN "write" ELSE "flush"
    /\ UNCHANGED <<workspace, watch, queue, process, faults, budgets, missed>>

\* mkdir and open(.., "wb"): the file is there, and empty.
CreateSnapshot ==
    /\ Loop
    /\ pc \in {"snapshot", "empty"}
    /\ ids' = ids + 1
    /\ job' = [job EXCEPT !.id = ids + 1]
    /\ files' = files \cup {[id |-> ids + 1, data |-> <<>>]}
    /\ pc' = IF pc = "snapshot" THEN "write" ELSE "enqueue"
    /\ UNCHANGED <<workspace, watch, queue, spool, process, faults, budgets,
                   missed>>

WriteSnapshot ==
    /\ Loop
    /\ pc = "write"
    /\ files' = {f \in files : f.id # job.id} \cup {[id |-> job.id, data |-> Data]}
    /\ pc' = "enqueue"
    /\ UNCHANGED <<workspace, watch, queue, job, spool, ids, process, faults,
                   budgets, missed>>

\* Faulty variant: an event that a newer one has overtaken is not spooled.
EnqueueNewest ==
    /\ Loop
    /\ pc = "enqueue"
    /\ spool' = IF queue = <<>>
                THEN Append(spool, [id |-> job.id, upto |-> job.upto, data |-> Data])
                ELSE spool
    /\ pc' = "flush"
    /\ UNCHANGED <<workspace, watch, queue, job, files, ids, process, faults,
                   budgets, missed>>

\* register_snapshot: spool.enqueue, then the flush.
Enqueue ==
    /\ Loop
    /\ pc = "enqueue"
    /\ spool' = Append(spool, [id |-> job.id, upto |-> job.upto, data |-> Data])
    /\ pc' = "flush"
    /\ UNCHANGED <<workspace, watch, queue, job, files, ids, process, faults,
                   budgets, missed>>

\* The flush has returned or raised.
Registered ==
    /\ Loop
    /\ pc = "flush"
    /\ Drop
    /\ UNCHANGED <<workspace, watch, queue, storage, process, faults, budgets,
                   missed>>

\* OSError or sqlite3.Error, caught and logged: no retry.
StepFails ==
    /\ Loop
    /\ pc \in {"size", "snapshot", "empty", "write", "enqueue"}
    /\ Fault
    /\ Drop
    /\ missed' = TRUE
    /\ UNCHANGED <<workspace, watch, queue, storage, process, budgets>>

PipelineStep ==
    \/ Take \/ CheckSize \/ OpenFile \/ ReadFirst \/ ReadSecond \/ Verify
    \/ CreateSnapshot \/ WriteSnapshot \/ Enqueue \/ Registered
-----------------------------------------------------------------------------
(***************************************************************************)
(* main: start, shutdown, end.                                             *)
(***************************************************************************)

\* retry_started is set: `async with` goes on and readiness is marked, also
\* when SIGTERM came first.
MarkReady ==
    /\ Loop
    /\ phase = "starting"
    /\ phase' = "running"
    /\ ready' = TRUE
    /\ UNCHANGED <<workspace, watch, queue, pc, job, storage, observer, executor,
                   server, term, faults, budgets, missed>>

\* The handler of SIGTERM creates the task of shutdown.
Signal ==
    /\ Loop
    /\ Trouble
    /\ signals' = signals + 1
    /\ term' = "pending"
    /\ UNCHANGED <<workspace, watch, queue, pc, job, storage, phase, observer,
                   executor, ready, server, faults, restarts, missed>>

\* Faulty variant: shutdown leaves the observer to the end of the process.
ShutdownBeginsWatching ==
    /\ Loop
    /\ term = "pending"
    /\ term' = "blocking"
    /\ ready' = FALSE
    /\ executor' = FALSE
    /\ UNCHANGED <<workspace, watch, queue, pc, job, storage, phase, observer,
                   server, faults, budgets, missed>>

\* shutdown withdraws readiness, stops the observer and closes the executor,
\* whose running thread it waits for, blocking the loop.
ShutdownBegins ==
    /\ Loop
    /\ term = "pending"
    /\ term' = "blocking"
    /\ ready' = FALSE
    /\ observer' = FALSE
    /\ executor' = FALSE
    /\ UNCHANGED <<workspace, watch, queue, pc, job, storage, phase, server,
                   faults, budgets, missed>>

Reading == pc \in {"open", "first", "second", "verify"}

\* Faulty variant: the readiness server is left running.
ShutdownEndsServing ==
    /\ Alive
    /\ term = "blocking" /\ ~Reading
    /\ term' = "done"
    /\ UNCHANGED <<workspace, watch, queue, pc, job, storage, phase, observer,
                   executor, ready, server, faults, budgets, missed>>

ShutdownEnds ==
    /\ Alive
    /\ term = "blocking" /\ ~Reading
    /\ term' = "done"
    /\ server' = FALSE
    /\ UNCHANGED <<workspace, watch, queue, pc, job, storage, phase, observer,
                   executor, ready, faults, budgets, missed>>

ObserverDies ==
    /\ Alive /\ observer
    /\ Fault
    /\ observer' = FALSE
    /\ UNCHANGED <<workspace, watch, queue, pc, job, storage, phase, executor,
                   ready, server, term, budgets, missed>>

\* A task of the group raises: monitor_watchdog, at its next look, when the
\* observer is not alive, or run_retry_loop on an error of its own.  The
\* others are cancelled where they await.
Cancel ==
    /\ phase' = "cancelled"
    /\ Drop
    /\ queue' = <<>> /\ waiting' = NoEvent
    /\ UNCHANGED <<workspace, dirty, known, storage, observer, executor, ready,
                   server, term, budgets, missed>>

WatchdogRaises == Loop /\ ~observer /\ Cancel /\ UNCHANGED faults
TaskFails == Loop /\ Fault /\ Cancel

\* The finally clause: shutdown once more, and the process is over.
End ==
    /\ phase = "cancelled"
    /\ phase' = "ended"
    /\ observer' = FALSE /\ executor' = FALSE /\ ready' = FALSE /\ server' = FALSE
    /\ UNCHANGED <<workspace, watch, queue, pc, job, storage, term, faults,
                   budgets, missed>>

\* The process is killed, at any moment.
Kill ==
    /\ phase # "ended" /\ Trouble
    /\ phase' = "ended"
    /\ Drop
    /\ queue' = <<>> /\ waiting' = NoEvent
    /\ observer' = FALSE /\ executor' = FALSE /\ ready' = FALSE /\ server' = FALSE
    /\ UNCHANGED <<workspace, dirty, known, storage, term, faults, budgets,
                   missed>>

\* A new process: its observer takes the file as it is for its baseline.
Restart ==
    /\ phase = "ended"
    /\ Trouble
    /\ restarts' = restarts + 1
    /\ phase' = "starting"
    /\ observer' = TRUE /\ executor' = TRUE /\ server' = TRUE
    /\ term' = "no"
    /\ dirty' = FALSE
    /\ known' = There(Last)
    /\ missed' = TRUE
    /\ UNCHANGED <<workspace, waiting, queue, pc, job, storage, ready, faults,
                   signals>>

Lifecycle ==
    \/ MarkReady \/ ShutdownBegins \/ ShutdownEnds \/ WatchdogRaises \/ End
    \/ Restart

Next ==
    \/ Write \/ Remove \/ Tick \/ Observe \/ Flush
    \/ PipelineStep \/ StepFails
    \/ Lifecycle \/ Signal \/ ObserverDies \/ TaskFails \/ Kill

Spec == Init /\ [][Next]_vars

\* Observer, debouncer, pipeline, monitor and kubelet go on; changes, signals
\* and faults need not happen.
FairSpec ==
    /\ Spec
    /\ WF_vars(Observe) /\ WF_vars(Flush)
    /\ WF_vars(PipelineStep)
    /\ WF_vars(Lifecycle)
-----------------------------------------------------------------------------
Changes == 0..MaxChanges
Types == {"none", "modified", "deleted"}
Contents == {<<>>} \cup ((1..Last) \X (1..Last))

\* The values each variable ranges over: the file, its events and what is kept
\* of them; the process.
DataOK ==
    /\ now \in 0..MaxTime
    /\ log \in Seq([there : BOOLEAN, size : Sizes \cup {0}, mtime : 0..MaxTime,
                    inode : 1..(MaxChanges + 1)])
    /\ Last \in Changes
    /\ dirty \in BOOLEAN /\ known \in BOOLEAN
    /\ waiting \in [type : Types, upto : 0..Last]
    /\ queue \in Seq([type : Types, upto : 0..Last])
    /\ pc \in {"get", "size", "open", "first", "second", "verify", "snapshot",
               "empty", "write", "enqueue", "flush"}
    /\ job \in [type : Types, upto : 0..Last, inode : 0..(MaxChanges + 1),
                before : Changes, first : Changes, second : Changes, id : 0..ids]
    /\ ids \in Nat
    /\ files \subseteq [id : 1..ids, data : Contents]
    /\ \A f, g \in files : f.id = g.id => f = g
    /\ spool \in Seq([id : 1..ids, upto : 0..Last, data : Contents])
ProcessOK ==
    /\ phase \in {"starting", "running", "cancelled", "ended"}
    /\ observer \in BOOLEAN /\ executor \in BOOLEAN
    /\ ready \in BOOLEAN /\ server \in BOOLEAN
    /\ term \in {"no", "pending", "blocking", "done"}
    /\ faults \in 0..MaxTroubles /\ signals \in 0..MaxTroubles
    /\ restarts \in 0..MaxTroubles /\ missed \in BOOLEAN
TypeOK == DataOK /\ ProcessOK

\* Whatever is spooled has its snapshot, complete: whenever the process dies,
\* the backend never hears of a file that is not there or half written.
RegisteredHasSnapshot ==
    \A i \in DOMAIN spool :
        [id |-> spool[i].id, data |-> spool[i].data] \in files

\* Both: ids are unique, and each registered one has its file.
FileInv == TypeOK /\ RegisteredHasSnapshot

\* A snapshot that no event names is left only by a fault or by the end of a
\* process, one by each.
OrphansAreFew ==
    LET named == {spool[i].id : i \in DOMAIN spool}
        orphans == {f \in files : f.id \notin named}
    IN  Cardinality(orphans) <= faults + restarts
            + (IF pc \in {"write", "enqueue"} \/ phase \in {"cancelled", "ended"}
               THEN 1 ELSE 0)

\* A registered snapshot whose parts are of different versions of the file has
\* escaped the check: a version no newer than the first and one no older than
\* the second agree in size and mtime.
TornOnlyUnnoticed ==
    \A i \in DOMAIN spool :
        LET data == spool[i].data
        IN  data # <<>> /\ data[1] # data[2] =>
                \E v \in 1..data[1], w \in data[2]..Last :
                    log[v].size = log[w].size /\ log[v].mtime = log[w].mtime

\* A file beyond the limit is registered only when it grew after its size was
\* checked: the version is newer than the event, and another event follows.
OversizeIsAhead ==
    \A i \in DOMAIN spool :
        LET data == spool[i].data
        IN  data # <<>> /\ log[data[1]].size > MaxSize => data[1] > spool[i].upto

\* What is registered is sound: of one version and within the limit, but for the
\* two cases that the checks cannot see.
SnapshotsAreSound == TornOnlyUnnoticed /\ OversizeIsAhead

\* The last event registered is about the file as change n left it.
Captured(n) ==
    LET data == spool[Len(spool)].data
    IN  IF There(n) THEN spool # <<>> /\ data = <<n, n>>
        ELSE spool = <<>> \/ data = <<>>

Exempt(n) == missed \/ (There(n) /\ log[n].size > MaxSize)

\* Once every event is handled, the last one registered is about the file as
\* it is: no matter how changes, reads, dropped events and deletions overtook
\* one another.  Exempt is a file that is too large, one whose last event
\* failed, and one with no event yet since the process was started.
QuietMeansCaptured ==
    Alive /\ ~dirty /\ waiting = NoEvent /\ queue = <<>> /\ pc = "get"
        => Exempt(Last) \/ Captured(Last)

\* A process that calls itself ready takes work: though main may mark readiness
\* after shutdown has withdrawn it.
ReadyMeansWorking == server /\ ready => executor

\* A change that stays is in the end captured, unless the process stops.
EventuallyCaptured ==
    []<>(Exempt(Last) \/ Captured(Last) \/ term # "no" \/ phase = "ended")

\* After SIGTERM, or when the observer dies, the process comes to its end.
EndsWhenStopping == (term # "no" \/ ~observer) ~> phase = "ended"
===============================================================================
