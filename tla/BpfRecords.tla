----------------------------- MODULE BpfRecords -----------------------------
(***************************************************************************)
(* procmon's BPF programs: how an exec becomes a record and an exit turns  *)
(* the record into a report.                                               *)
(*                                                                         *)
(* sched_process_exec runs init_handler, which tail-calls the handlers of  *)
(* the binary, the working directory and the arguments; each looks the     *)
(* record up again by the process id.  sched_process_exit runs             *)
(* exit_handler once for every THREAD, but looks the record up by the      *)
(* process.  A program is not preempted on its CPU; programs on different  *)
(* CPUs interleave, and an element of process_data that one of them        *)
(* deletes is given to the next key while another may still point to it.   *)
(***************************************************************************)
EXTENDS Integers, FiniteSets

CONSTANTS
    Cpus,
    Procs,          \* processes (thread groups)
    Threads,        \* threads a process may have
    Students,       \* the processes of jcode- containers
    Cells,          \* preallocated elements of process_data
    MaxEntries,     \* max_entries of process_data
    MaxExecs,       \* bound on execs
    MaxFaults       \* bound on handlers that find no task, mm, exe, fs or pwd

ASSUME BpfAssumption ==
    /\ Students \subseteq Procs
    /\ IsFiniteSet(Cells) /\ IsFiniteSet(Procs)
    /\ "none" \notin Cells \cup Procs
    /\ MaxEntries \in Nat /\ MaxExecs \in Nat /\ MaxFaults \in Nat
    /\ MaxEntries < Cardinality(Cells)

\* Wait statuses as the kernel keeps them, of exit(code) and of a death by signal 9.
ExitCodes == {0, 1}
Exited(code) == 256 * code
Killed == 9
Statuses == {Exited(code) : code \in ExitCodes} \cup {Killed}

NoCell == "none"
None == "none"

VARIABLES
    \* the kernel
    threads,    \* [Procs]: the threads that have not reached their exit
    unstarted,  \* [Procs]: the threads the program may still start
    program,    \* [Procs]: number of the exec the process is running, or 0
    execs,      \* how many execs there were
    ended,      \* [exec]: the status exit_group, a signal or the last thread has
                \* ended the program with, or -1
    \* the BPF programs
    cpu,        \* [Cpus]: the program that runs there, and where it is
    map,        \* process_data: [Procs -> Cells or NoCell]
    cell,       \* [Cells]: contents, also of elements not in use
    reports,    \* what perf_submit has taken
    faults,
    \* history
    early,      \* execs one of whose threads has exited before the program ended
    dropped,    \* execs whose record was refused, abandoned or not submitted
    raced       \* two exit_handlers have held the record of one process

kernel == <<threads, unstarted, program, execs, ended, early>>
vars == <<kernel, cpu, map, cell, reports, faults, dropped, raced>>

\* What a record holds is known by the exec it is about; 0 is not filled in.
Blank(p, n) == [pid |-> p, exec |-> n, binary |-> 0, cwd |-> 0, args |-> 0,
                code |-> 0]
Idle == [at |-> "idle", proc |-> None, status |-> 0, cell |-> NoCell]

Init ==
    /\ threads = [p \in Procs |-> {}]
    /\ unstarted = [p \in Procs |-> {}]
    /\ program = [p \in Procs |-> 0]
    /\ execs = 0
    /\ ended = [n \in 1..MaxExecs |-> -1]
    /\ early = {}
    /\ cpu = [c \in Cpus |-> Idle]
    /\ map = [p \in Procs |-> NoCell]
    /\ cell = [s \in Cells |-> Blank(None, 0)]
    /\ reports = {}
    /\ faults = 0
    /\ dropped = {}
    /\ raced = FALSE

Keys == {p \in Procs : map[p] # NoCell}
Free == Cells \ {map[p] : p \in Procs}
Goto(c, at) == cpu' = [cpu EXCEPT ![c].at = at]
Return(c) == cpu' = [cpu EXCEPT ![c] = Idle]
Forget(p) == map' = [map EXCEPT ![p] = NoCell]

\* Where the programs of an exec, and of an exit, may be.
Chain == {"binary", "cwd", "args"}
Exit == {"code", "submit", "delete"}

\* p is in no BPF program of its exec.
OutsideExec(p) == \A c \in Cpus : cpu[c].at \in Chain => cpu[c].proc # p
Exiting(p) == {c \in Cpus : cpu[c].proc = p /\ cpu[c].at \in Exit}
-----------------------------------------------------------------------------
(***************************************************************************)
(* Threads, and exit_group or a signal that ends them all.                 *)
(***************************************************************************)

\* The status all threads of p are to end with, or -1.
Dying(p) == IF program[p] = 0 THEN -1 ELSE ended[program[p]]

\* A process is forked; its id may have been another's before.  It has no record,
\* and one thread.
Fork(p) ==
    /\ threads[p] = {} /\ Exiting(p) = {}
    /\ \E t \in Threads : threads' = [threads EXCEPT ![p] = {t}]
    /\ unstarted' = [unstarted EXCEPT ![p] = {}]
    /\ program' = [program EXCEPT ![p] = 0]
    /\ UNCHANGED <<execs, ended, early, cpu, map, cell, reports, faults, dropped,
                   raced>>

StartThread(p) ==
    /\ threads[p] # {} /\ Dying(p) = -1 /\ OutsideExec(p)
    /\ \E t \in unstarted[p] :
          /\ threads' = [threads EXCEPT ![p] = @ \cup {t}]
          /\ unstarted' = [unstarted EXCEPT ![p] = @ \ {t}]
    /\ UNCHANGED <<program, execs, ended, early, cpu, map, cell, reports, faults,
                   dropped, raced>>

\* One thread alone may exit with any status anyhow.
ExitGroup(p) ==
    /\ Cardinality(threads[p]) > 1 /\ program[p] # 0 /\ Dying(p) = -1
    /\ OutsideExec(p)
    /\ \E status \in Statuses : ended' = [ended EXCEPT ![program[p]] = status]
    /\ unstarted' = [unstarted EXCEPT ![p] = {}]
    /\ UNCHANGED <<threads, program, execs, early, cpu, map, cell, reports,
                   faults, dropped, raced>>
-----------------------------------------------------------------------------
(***************************************************************************)
(* sched_process_exec.  The other threads are gone by then, their          *)
(* exit_handlers included.                                                 *)
(***************************************************************************)

Put(p, n) ==
    /\ \E s \in Free : /\ map' = [map EXCEPT ![p] = s]
                       /\ cell' = [cell EXCEPT ![s] = Blank(p, n)]
    /\ UNCHANGED dropped

Refuse(n) ==
    /\ dropped' = dropped \cup {n}
    /\ UNCHANGED <<map, cell>>

\* Faulty variant: a record that is there is kept (BPF_NOEXIST).
UpdateAbsent(p, n) ==
    IF map[p] # NoCell THEN UNCHANGED <<map, cell, dropped>>
    ELSE IF Cardinality(Keys) < MaxEntries THEN Put(p, n)
    ELSE Refuse(n)

\* process_data.update: a key that is there gets a new element, a new key one
\* if max_entries allows; the result is not looked at.
Update(p, n) ==
    IF map[p] # NoCell \/ Cardinality(Keys) < MaxEntries
    THEN Put(p, n)
    ELSE Refuse(n)

InitHandler(c, p) ==
    /\ cpu[c] = Idle
    /\ execs < MaxExecs
    /\ Cardinality(threads[p]) = 1 /\ Dying(p) = -1
    /\ OutsideExec(p) /\ Exiting(p) = {}
    /\ execs' = execs + 1
    /\ program' = [program EXCEPT ![p] = execs + 1]
    /\ unstarted' = [unstarted EXCEPT ![p] = Threads \ threads[p]]
    /\ IF p \in Students
       THEN /\ Update(p, execs + 1)
            /\ cpu' = [cpu EXCEPT ![c] = [Idle EXCEPT !.at = "binary", !.proc = p]]
       ELSE UNCHANGED <<map, cell, dropped, cpu>>
    /\ UNCHANGED <<threads, ended, early, reports, faults, raced>>

Abandon(p) ==
    /\ dropped' = dropped \cup {program[p]}
    /\ Forget(p)

\* One of the handlers of the chain: it looks its record up, and either fills
\* in its field and tail-calls the next, or deletes the record.
Handler(c, at, next) ==
    LET p == cpu[c].proc
    IN  /\ cpu[c].at = at
        /\ \/ /\ map[p] = NoCell
              /\ Return(c)
              /\ UNCHANGED <<map, cell, faults, dropped>>
           \/ /\ map[p] # NoCell
              /\ faults < MaxFaults
              /\ faults' = faults + 1
              /\ Abandon(p)
              /\ Return(c)
              /\ UNCHANGED cell
           \/ /\ map[p] # NoCell
              /\ cell' = [cell EXCEPT ![map[p]][at] = program[p]]
              /\ IF next = "idle" THEN Return(c) ELSE Goto(c, next)
              /\ UNCHANGED <<map, faults, dropped>>
        /\ UNCHANGED <<kernel, reports, raced>>

BinaryHandler(c) == Handler(c, "binary", "cwd")
CwdHandler(c) == Handler(c, "cwd", "args")
ArgsHandler(c) == Handler(c, "args", "idle")
-----------------------------------------------------------------------------
(***************************************************************************)
(* sched_process_exit, in each thread.                                     *)
(***************************************************************************)

\* The thread's exit code: its group's; its own 0 when it merely returns and
\* others go on; anything when it is the last.
ExitStatuses(p) ==
    IF Dying(p) # -1 THEN {Dying(p)}
    ELSE IF Cardinality(threads[p]) = 1 THEN Statuses
    ELSE {0}

\* Faulty variant: the death of a process by a signal is ignored.
LookupNormal(c, p, status) ==
    IF map[p] = NoCell \/ status = 9
    THEN UNCHANGED <<cpu, raced>>
    ELSE /\ cpu' = [cpu EXCEPT ![c] = [at |-> "code", proc |-> p,
                                       status |-> status, cell |-> map[p]]]
         /\ raced' = (raced \/ Exiting(p) # {})

Lookup(c, p, status) ==
    IF map[p] = NoCell
    THEN UNCHANGED <<cpu, raced>>
    ELSE /\ cpu' = [cpu EXCEPT ![c] = [at |-> "code", proc |-> p,
                                       status |-> status, cell |-> map[p]]]
         /\ raced' = (raced \/ Exiting(p) # {})

\* The program ends with the thread, or goes on.
Leave(p, status) ==
    IF program[p] = 0 THEN UNCHANGED <<ended, early>>
    ELSE IF Dying(p) # -1 \/ Cardinality(threads[p]) = 1
    THEN ended' = [ended EXCEPT ![program[p]] = status] /\ UNCHANGED early
    ELSE early' = early \cup {program[p]} /\ UNCHANGED ended

ExitHandler(c, p) ==
    /\ cpu[c] = Idle
    /\ OutsideExec(p)
    /\ \E t \in threads[p] : threads' = [threads EXCEPT ![p] = @ \ {t}]
    /\ \E status \in ExitStatuses(p) : Lookup(c, p, status) /\ Leave(p, status)
    /\ UNCHANGED <<unstarted, program, execs, map, cell, reports,
                   faults, dropped>>

\* data->exit_code = task->exit_code >> 8
StoreCode(c) ==
    /\ cpu[c].at = "code"
    /\ cell' = [cell EXCEPT ![cpu[c].cell].code = cpu[c].status \div 256]
    /\ Goto(c, "submit")
    /\ UNCHANGED <<kernel, map, reports, faults, dropped, raced>>

\* Faulty variant: a record that cannot be submitted is left for a later try.
SubmitOrGiveUp(c) ==
    LET p == cpu[c].proc
    IN  /\ cpu[c].at = "submit"
        /\ \/ /\ reports' = reports \cup
                   {[data |-> cell[cpu[c].cell], by |-> p, of |-> program[p],
                     cpu |-> c]}
              /\ Goto(c, "delete")
              /\ UNCHANGED dropped
           \/ /\ dropped' = dropped \cup {program[p]}
              /\ Return(c)
              /\ UNCHANGED reports
        /\ UNCHANGED <<kernel, map, cell, faults, raced>>

\* perf_submit copies the element; it may fail, and its result is not looked at.
Submit(c) ==
    LET p == cpu[c].proc
    IN  /\ cpu[c].at = "submit"
        /\ \/ /\ reports' = reports \cup
                   {[data |-> cell[cpu[c].cell], by |-> p, of |-> program[p],
                     cpu |-> c]}
              /\ UNCHANGED dropped
           \/ /\ dropped' = dropped \cup {program[p]}
              /\ UNCHANGED reports
        /\ Goto(c, "delete")
        /\ UNCHANGED <<kernel, map, cell, faults, raced>>

\* Faulty variant: the record is deleted when its process has no thread left.
DeleteLast(c) ==
    LET p == cpu[c].proc
    IN  /\ cpu[c].at = "delete"
        /\ IF Cardinality(threads[p]) = 1 THEN Forget(p) ELSE UNCHANGED map
        /\ Return(c)
        /\ UNCHANGED <<kernel, cell, reports, faults, dropped, raced>>

\* process_data.delete, by key.
Delete(c) ==
    /\ cpu[c].at = "delete"
    /\ Forget(cpu[c].proc)
    /\ Return(c)
    /\ UNCHANGED <<kernel, cell, reports, faults, dropped, raced>>

Next ==
    \/ \E p \in Procs : Fork(p) \/ StartThread(p) \/ ExitGroup(p)
    \/ \E c \in Cpus :
          \/ \E p \in Procs : InitHandler(c, p) \/ ExitHandler(c, p)
          \/ BinaryHandler(c) \/ CwdHandler(c) \/ ArgsHandler(c)
          \/ StoreCode(c) \/ Submit(c) \/ Delete(c)

Spec == Init /\ [][Next]_vars
-----------------------------------------------------------------------------
Records == [pid : Procs \cup {None}, exec : 0..MaxExecs, binary : 0..MaxExecs,
            cwd : 0..MaxExecs, args : 0..MaxExecs, code : ExitCodes]

\* The values each variable ranges over; map is one-to-one on its keys.
TypeOK ==
    /\ threads \in [Procs -> SUBSET Threads]
    /\ unstarted \in [Procs -> SUBSET Threads]
    /\ program \in [Procs -> 0..execs] /\ execs \in 0..MaxExecs
    /\ ended \in [1..MaxExecs -> Statuses \cup {-1}] /\ early \subseteq 1..MaxExecs
    /\ cpu \in [Cpus -> [at : {"idle"} \cup Chain \cup Exit,
                         proc : Procs \cup {None}, status : Statuses,
                         cell : Cells \cup {NoCell}]]
    /\ map \in [Procs -> Cells \cup {NoCell}]
    /\ \A p, q \in Keys : map[p] = map[q] => p = q
    /\ cell \in [Cells -> Records]
    /\ reports \subseteq [data : Records, by : Procs, of : 1..MaxExecs,
                          cpu : Cpus]
    /\ faults \in 0..MaxFaults
    /\ dropped \subseteq 1..MaxExecs
    /\ raced \in BOOLEAN

\* process_data does not fill up with the dead: a record's process still has a
\* thread whose exit will delete it, or an exit_handler about to.
RecordsAreLive ==
    \A p \in Keys : threads[p] # {} \/ Exiting(p) # {}

\* What became of the n-th exec is known.
Accounted(n) == n \in dropped \cup {r.of : r \in reports}

\* A process is in the chain of one exec at a time, and none of its threads exits
\* meanwhile; who is about to delete a record has had his try at submitting it.
ProgramOK(c) ==
    LET p == cpu[c].proc
    IN  /\ cpu[c].at = "idle" => cpu[c] = Idle
        /\ cpu[c].at \in Chain =>
              /\ p \in Students /\ program[p] # 0
              /\ threads[p] # {} /\ Exiting(p) = {}
              /\ \A d \in Cpus \ {c} : cpu[d].at \in Chain => cpu[d].proc # p
        /\ cpu[c].at \in Exit =>
              /\ p \in Students /\ program[p] # 0
              /\ cpu[c].cell \in Cells
              /\ cpu[c].at = "delete" => Accounted(program[p])
ProgramsInv == \A c \in Cpus : ProgramOK(c)

\* A record is about the exec its process is running, and holds the fields of
\* the handlers that are past.
RecordOK(p) ==
    LET data == cell[map[p]]
    IN  /\ p \in Students /\ program[p] # 0
        /\ data.pid = p /\ data.exec = program[p]
        /\ OutsideExec(p) => {data.binary, data.cwd, data.args} = {program[p]}
        /\ \A c \in Cpus : cpu[c].proc = p =>
              /\ cpu[c].at \in {"cwd", "args"} => data.binary = program[p]
              /\ cpu[c].at = "args" => data.cwd = program[p]
FieldsInv == \A p \in Keys : RecordOK(p)

\* An exec has one number and one process; it has a record or is accounted for.
ExecsInv ==
    /\ \A p, q \in Procs : program[p] = program[q] /\ p # q => program[p] = 0
    /\ \A r \in reports : r.of <= execs
    /\ \A p \in Students : program[p] # 0 => p \in Keys \/ Accounted(program[p])

\* While no two threads of a process have met in exit_handler, the one that is
\* there holds its process's record, and submits it once; its status is the
\* program's, unless a thread has gone before the others.
HoldsOwn(c) ==
    LET p == cpu[c].proc
    IN  cpu[c].at \in Exit =>
            /\ Exiting(p) = {c}
            /\ map[p] = cpu[c].cell
            /\ program[p] \notin early => ended[program[p]] = cpu[c].status
            /\ cpu[c].at = "submit" =>
                  cell[cpu[c].cell].code = cpu[c].status \div 256
Unreported(p) ==
    \/ \E c \in Exiting(p) : cpu[c].at = "delete"
    \/ \A r \in reports : r.of # program[p]
UnracedInv ==
    \/ raced
    \/ /\ \A c \in Cpus : HoldsOwn(c)
       /\ \A p \in Keys : Unreported(p)

\* All of them: the map, as a bounded resource, is in order; and each record is
\* that of the program its process runs.
RecordsInv ==
    /\ TypeOK /\ RecordsAreLive
    /\ ProgramsInv /\ FieldsInv /\ ExecsInv /\ UnracedInv

\* A report tells one story: process, binary, directory and arguments are of the
\* program that the exiting process was running, whatever it ran before, whoever
\* had its id before, and whatever other CPUs do.  If no thread of the program
\* exited while others went on, the program has ended and the exit code is the
\* one it ended with; unless a signal killed it, which no report tells.  Nothing
\* of this if two threads of a process were in exit_handler at once.
ReportsAreWhole ==
    raced \/ \A r \in reports :
        /\ r.data.pid = r.by
        /\ {r.data.exec, r.data.binary, r.data.cwd, r.data.args} = {r.of}
        /\ r.of \notin early => ended[r.of] \in {Exited(r.data.code), Killed}

\* However many threads a program has, it is reported once.  Same exception.
OneReportPerProgram ==
    raced \/ \A r, s \in reports : r.of = s.of => r = s

\* A program of a student that has come to its end has been reported, or its
\* record was refused by a full map, abandoned by a handler or not submitted.
EndsAreAccountedFor ==
    \A p \in Students :
        program[p] # 0 /\ threads[p] = {} /\ Exiting(p) = {}
            => program[p] \in dropped \cup {r.of : r \in reports}
=============================================================================
