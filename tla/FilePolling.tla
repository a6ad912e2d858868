----------------------------- MODULE FilePolling -----------------------------
(***************************************************************************)
(* filemon's SelectivePollingObserver over the source files of one         *)
(* assignment directory, and the WatchdogHandler it calls.                 *)
(*                                                                         *)
(* Students and the Generator (another service) change the files.  The     *)
(* Generator brackets its changes with a marker file whose state is        *)
(* in_progress and then completed or failed; those changes are not student *)
(* activity and must not be reported.  The polling thread reads the files  *)
(* one after the other, then the marker, compares with what it saw the     *)
(* time before, and asks the marker again for each event: files, marker    *)
(* and clock move between any two of these reads.                          *)
(*                                                                         *)
(* Each change of a file is known by its index in log; a FileSignature     *)
(* (mtime, size, inode) is taken to identify the change that left it.      *)
(***************************************************************************)
EXTENDS Integers, Sequences

CONSTANTS
    Paths,          \* source files of the directory that pass PathFilter
    Grace,          \* settings.SYSTEM_MUTATION_GRACE_SECONDS, in ticks
    Lag,            \* bound, in ticks: from the start of one poll to the end
                    \* of the next
    MaxTime,        \* bound on the clock
    MaxChanges,     \* bound on changes of files
    MaxMutations,   \* bound on mutations of the Generator
    MaxFaults,      \* bound on files or markers a scan cannot read
    MaxAskFaults,   \* bound on markers the handler cannot read
    MaxRestarts     \* bound on restarts of filemon

ASSUME PollingAssumption ==
    /\ Grace \in Nat /\ Lag \in Nat
    /\ MaxTime \in Nat /\ MaxChanges \in Nat /\ MaxMutations \in Nat
    /\ MaxFaults \in Nat /\ MaxAskFaults \in Nat /\ MaxRestarts \in Nat

VARIABLES
    \* the workspace
    now,        \* the clock
    log,        \* every change of a file: path, by, time, gone
    file,       \* [Paths]: the last change of the file, 0 when there is none
    marker,     \* the marker file: id of its writing, time, state
    \* the polling thread
    pc,         \* where _run is
    todo,       \* the files this scan has still to read
    current,    \* [Paths]: what this scan read
    previous,   \* [Paths]: what the scan before read
    seenMarker, \* the marker this poll read: signature and state
    prevMarker, \* the marker the poll before read
    events,     \* the changed_events still to be handled
    asked,      \* the event is_system_mutation_event decides on, and the
                \* marker whose payload it read
    began,      \* when the last poll that is over, and this one, began
    \* history
    reported,   \* the events put on the raw queue
    baselined,  \* changes that the first scan after a start took as given
    \* budgets
    faults, askFaults, restarts

workspace == <<now, log, file, marker>>
poll == <<todo, current, previous, seenMarker, prevMarker, began>>
budgets == <<faults, askFaults, restarts>>
vars == <<workspace, pc, poll, events, asked, reported, baselined, budgets>>

NoMarker == [id |-> 0, time |-> 0, state |-> "none"]
NoEvent == [path |-> "none", type |-> "none", seen |-> 0, payload |-> NoMarker]

\* The file exists after change v.
There(v) == v # 0 /\ ~log[v].gone

Nothing == [p \in Paths |-> 0]

Init ==
    /\ now = 0
    /\ log = <<>>
    /\ file = Nothing
    /\ marker = NoMarker
    /\ pc = "start"
    /\ todo = Paths
    /\ current = Nothing
    /\ previous = Nothing
    /\ seenMarker = NoMarker
    /\ prevMarker = NoMarker
    /\ events = {}
    /\ asked = NoEvent
    /\ began = <<0, 0>>
    /\ reported = {}
    /\ baselined = {}
    /\ faults = 0
    /\ askFaults = 0
    /\ restarts = 0

Fault == faults < MaxFaults /\ faults' = faults + 1
NoFault == UNCHANGED faults
AskFault == askFaults < MaxAskFaults /\ askFaults' = askFaults + 1
NoAskFault == UNCHANGED askFaults
-----------------------------------------------------------------------------
(***************************************************************************)
(* The workspace.                                                          *)
(***************************************************************************)

Change(p, by, gone) ==
    /\ Len(log) < MaxChanges
    /\ gone => There(file[p])
    /\ log' = Append(log, [path |-> p, by |-> by, time |-> now, gone |-> gone])
    /\ file' = [file EXCEPT ![p] = Len(log) + 1]
    /\ UNCHANGED <<now, marker, pc, poll, events, asked, reported, baselined,
                   budgets>>

StudentChanges(p) == \E gone \in BOOLEAN : Change(p, "student", gone)

GeneratorChanges(p) ==
    /\ marker.state = "in_progress"
    /\ \E gone \in BOOLEAN : Change(p, "generator", gone)

WriteMarker(state) ==
    /\ marker' = [id |-> marker.id + 1, time |-> now, state |-> state]
    /\ UNCHANGED <<now, log, file, pc, poll, events, asked, reported,
                   baselined, budgets>>

MutationBegins ==
    /\ marker.state # "in_progress"
    /\ marker.id < 2 * MaxMutations
    /\ WriteMarker("in_progress")

\* "failed" is handled like "completed".
MutationEnds ==
    /\ marker.state = "in_progress"
    /\ WriteMarker("completed")

Tick ==
    /\ now < MaxTime
    /\ now < began[1] + Lag
    /\ now' = now + 1
    /\ UNCHANGED <<log, file, marker, pc, poll, events, asked, reported,
                   baselined, budgets>>
-----------------------------------------------------------------------------
(***************************************************************************)
(* The polling thread.  "start" is the scan before the loop, whose result  *)
(* is only the baseline.                                                   *)
(***************************************************************************)

Scanning == pc \in {"start", "scan"}

\* _stop_event.wait(interval) times out.
StartScan ==
    /\ pc = "wait"
    /\ pc' = "scan"
    /\ todo' = Paths
    /\ began' = <<began[1], now>>
    /\ UNCHANGED <<workspace, current, previous, seenMarker, prevMarker, events,
                   asked, reported, baselined, budgets>>

\* open and fstat; a file that cannot be opened is left out of the result.
ScanFile(p) ==
    /\ Scanning
    /\ p \in todo
    /\ todo' = todo \ {p}
    /\ \/ /\ current' = [current EXCEPT ![p] = file[p]]
          /\ NoFault
       \/ /\ current' = [current EXCEPT ![p] = 0]
          /\ Fault
    /\ UNCHANGED <<workspace, pc, previous, seenMarker, prevMarker, began,
                   events, asked, reported, baselined, askFaults, restarts>>

\* marker.stat() comes before marker.read_text().
StatMarker ==
    /\ Scanning
    /\ todo = {}
    /\ seenMarker' = marker
    /\ pc' = IF pc = "start" THEN "start_state" ELSE "state"
    /\ UNCHANGED <<workspace, todo, current, previous, prevMarker, began,
                   events, asked, reported, baselined, budgets>>

\* The marker as scan_mutation_markers returns it: the signature from before,
\* the state from now.  A marker that is unreadable or was not there at the
\* stat is left out.
ReadState(m) ==
    \/ /\ m = IF seenMarker = NoMarker THEN NoMarker
              ELSE [seenMarker EXCEPT !.state = marker.state]
       /\ NoFault
    \/ /\ m = NoMarker
       /\ Fault

\* Faulty variant: a finished mutation takes in every file of the directory.
BaselineEverything(m) ==
    IF m.state = "in_progress" \/ (m # NoMarker /\ m # prevMarker)
    THEN current
    ELSE previous

\* apply_system_mutation_baselines: what `current` is compared with.
Baseline(m) ==
    IF m.state = "in_progress" THEN current
    ELSE IF m = NoMarker \/ m = prevMarker THEN previous
    ELSE [p \in Paths |->
            IF ~There(current[p]) \/ log[current[p]].time <= m.time
            THEN current[p]
            ELSE previous[p]]

\* Faulty variant: new files are not reported.
ChangedEventsKnownOnly(comparison) ==
    {[path |-> p, type |-> "deleted", seen |-> current[p]] :
        p \in {q \in Paths : There(comparison[q]) /\ ~There(current[q])}}
    \cup
    {[path |-> p, type |-> "modified", seen |-> current[p]] :
        p \in {q \in Paths : /\ There(current[q]) /\ There(comparison[q])
                             /\ current[q] # comparison[q]}}

ChangedEvents(comparison) ==
    {[path |-> p, type |-> "deleted", seen |-> current[p]] :
        p \in {q \in Paths : There(comparison[q]) /\ ~There(current[q])}}
    \cup
    {[path |-> p, type |-> "modified", seen |-> current[p]] :
        p \in {q \in Paths : There(current[q]) /\ current[q] # comparison[q]}}

\* The scan is complete; from here to the next one only events are handled,
\* none of which reads `previous`.
Compare ==
    /\ pc \in {"start_state", "state"}
    /\ \E m \in {seenMarker, [seenMarker EXCEPT !.state = marker.state], NoMarker} :
          /\ ReadState(m)
          /\ prevMarker' = m
          /\ events' = IF pc = "state" THEN ChangedEvents(Baseline(m)) ELSE {}
    /\ baselined' = IF pc = "state" THEN baselined
                    ELSE baselined \cup {current[p] : p \in Paths}
    /\ pc' = "emit"
    /\ previous' = current
    /\ seenMarker' = NoMarker
    /\ current' = Nothing
    /\ UNCHANGED <<workspace, todo, began, asked, reported, askFaults, restarts>>

\* put_nowait of the event; the file is by now at change `is`, and `unsure`
\* tells that the check could not read the marker, or not the same one throughout.
Report(e, unsure) ==
    reported' = reported \cup {[path |-> e.path, type |-> e.type, seen |-> e.seen,
                                is |-> file[e.path], unsure |-> unsure]}

\* on_deleted / on_modified ask is_system_mutation_event, which reads the
\* marker's payload first.  A marker that is missing or unreadable decides
\* nothing: the event passes.
Ask(e) ==
    /\ pc = "emit"
    /\ e \in events
    /\ e.type = "modified" => \A d \in events : d.type = "modified"
    /\ events' = events \ {e}
    /\ \/ /\ marker.state = "in_progress"
          /\ NoAskFault
          /\ UNCHANGED <<pc, asked, reported>>
       \/ /\ \/ marker = NoMarker /\ NoAskFault /\ Report(e, FALSE)
             \/ AskFault /\ Report(e, TRUE)
          /\ UNCHANGED <<pc, asked>>
       \/ /\ marker.state = "completed"
          /\ pc' = "ask"
          /\ asked' = [path |-> e.path, type |-> e.type, seen |-> e.seen,
                       payload |-> marker]
          /\ NoAskFault
          /\ UNCHANGED reported
    /\ UNCHANGED <<workspace, poll, baselined, faults, restarts>>

\* Faulty variant: only the payload is looked at.
IsSystemMutationByState(e) == FALSE

\* The rest of is_system_mutation_event: the file and the marker as they are
\* by now, the payload as it was read.
IsSystemMutation(e) ==
    IF There(file[e.path])
    THEN log[file[e.path]].time <= marker.time
    ELSE now - e.payload.time <= Grace

Decide ==
    /\ pc = "ask"
    /\ pc' = "emit"
    /\ asked' = NoEvent
    /\ IF IsSystemMutation(asked)
       THEN UNCHANGED reported
       ELSE Report(asked, marker # asked.payload)
    /\ UNCHANGED <<workspace, poll, events, baselined, budgets>>

EndPoll ==
    /\ pc = "emit"
    /\ events = {}
    /\ pc' = "wait"
    /\ began' = <<began[2], began[2]>>
    /\ UNCHANGED <<workspace, todo, current, previous, seenMarker, prevMarker,
                   events, asked, reported, baselined, budgets>>

\* The scan raises, or the process is killed: the thread ends, monitor_watchdog
\* ends the process, and its successor starts from a new baseline.
Restart ==
    /\ restarts < MaxRestarts
    /\ restarts' = restarts + 1
    /\ pc' = "start"
    /\ todo' = Paths
    /\ current' = Nothing
    /\ previous' = Nothing
    /\ seenMarker' = NoMarker
    /\ prevMarker' = NoMarker
    /\ events' = {}
    /\ asked' = NoEvent
    /\ began' = <<now, now>>
    /\ UNCHANGED <<workspace, reported, baselined, faults, askFaults>>

PollStep ==
    \/ StartScan
    \/ \E p \in Paths : ScanFile(p)
    \/ StatMarker
    \/ Compare
    \/ \E e \in events : Ask(e)
    \/ Decide
    \/ EndPoll

Next ==
    \/ \E p \in Paths : StudentChanges(p) \/ GeneratorChanges(p)
    \/ MutationBegins
    \/ MutationEnds
    \/ Tick
    \/ PollStep
    \/ Restart

Spec == Init /\ [][Next]_vars

\* The thread polls for ever.  Nothing is promised of students, Generator,
\* clock or restarts.
FairSpec == Spec /\ WF_vars(PollStep)
-----------------------------------------------------------------------------
Changes == 1..Len(log)
Markers == [id : Nat, time : 0..MaxTime,
            state : {"none", "in_progress", "completed"}]
Events == [path : Paths, type : {"deleted", "modified"}, seen : Changes \cup {0}]
Asks == [path : Paths, type : {"deleted", "modified"}, seen : Changes \cup {0},
         payload : Markers]

\* The values each variable ranges over; a poll has one event per path.
TypeOK ==
    /\ now \in 0..MaxTime
    /\ log \in Seq([path : Paths, by : {"student", "generator"},
                    time : 0..MaxTime, gone : BOOLEAN])
    /\ file \in [Paths -> Changes \cup {0}]
    /\ marker \in Markers
    /\ pc \in {"start", "start_state", "wait", "scan", "state", "emit", "ask"}
    /\ todo \in SUBSET Paths
    /\ current \in [Paths -> Changes \cup {0}]
    /\ previous \in [Paths -> Changes \cup {0}]
    /\ seenMarker \in Markers /\ prevMarker \in Markers
    /\ events \in SUBSET Events
    /\ \A e, f \in events : e.path = f.path => e = f
    /\ asked \in Asks \cup {NoEvent}
    /\ began \in (0..MaxTime) \X (0..MaxTime)
    /\ reported \subseteq [path : Paths, type : {"deleted", "modified"},
                           seen : Changes \cup {0}, is : Changes, unsure : BOOLEAN]
    /\ baselined \in SUBSET (Changes \cup {0})
    /\ faults \in 0..MaxFaults /\ askFaults \in 0..MaxAskFaults
    /\ restarts \in 0..MaxRestarts

Reported(v) == \E r \in reported : r.type = "modified" /\ r.seen = v

\* The poll that first saw change v is over, and v is still what the file is.
Settled(v) ==
    LET p == log[v].path
    IN  file[p] = v /\ previous[p] = v /\ pc \in {"wait", "scan", "state"}

StudentEdits == {v \in Changes : log[v].by = "student" /\ ~log[v].gone}

\* A mutation is running, or one has ended that is not older than change v.
Covered(v) ==
    \/ marker.state = "in_progress"
    \/ marker # NoMarker /\ marker.time >= log[v].time

\* An edit of a student that a poll has taken into its baseline, after which
\* it will never be noticed, has been reported; unless it is covered by a
\* mutation or filemon was started after the edit.
EditsAreReported ==
    \A v \in StudentEdits \ baselined :
        Settled(v) => Reported(v) \/ Covered(v)

\* What is reported as a student's was left by a student: the file as it is when
\* the handler lets its event pass.  Although files are read before the marker,
\* the marker's signature before its state, and both again by the handler; and
\* although a scan may fail to read a marker or a file.  The exceptions are real:
\* an unreadable marker lets every event pass, and when a mutation begins within the
\* handler's check, a file it writes may be newer than the marker's stat.
GeneratorIsSilent == \A r \in reported : r.unsure \/ log[r.is].by = "student"

\* Both: the state is in order, and no event is the Generator's.
PollingInv == TypeOK /\ GeneratorIsSilent

\* Every edit of a student is in the end reported, overtaken by another
\* change, covered by a mutation, or older than the start of filemon.
EditsAreSettled ==
    \A v \in 1..MaxChanges :
        v \in StudentEdits
            ~> /\ v \in Changes
               /\ \/ Reported(v)
                  \/ Covered(v)
                  \/ v \in baselined
                  \/ file[log[v].path] # v
=============================================================================
