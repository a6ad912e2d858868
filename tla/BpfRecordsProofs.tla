--------------------------- MODULE BpfRecordsProofs ---------------------------
(***************************************************************************)
(* Proofs about BpfRecords: RecordsInv is inductive, and gives that the    *)
(* map holds no dead process, that a report tells one story, that each     *)
(* program is reported once, and that none ends unaccounted for.           *)
(***************************************************************************)
EXTENDS BpfRecords, FiniteSetTheorems, TLAPS

USE DEF Chain, Exit, NoCell, None

\* Where a CPU may be.
Places == [at : {"idle"} \cup Chain \cup Exit, proc : Procs \cup {None},
           status : Statuses, cell : Cells \cup {NoCell}]

LEMMA IdleIsPlace ==
    /\ Idle \in Places
    /\ Idle.at = "idle" /\ Idle.proc = None /\ Idle.cell = NoCell
  BY DEF Idle, Places, Statuses, Exited, ExitCodes

\* Wait statuses and the codes in them.
LEMMA StatusFacts ==
    /\ \A s \in Statuses : /\ s # -1
                            /\ s \div 256 \in ExitCodes
                            /\ s \in {Exited(s \div 256), Killed}
    /\ \A k \in ExitCodes : Exited(k) # -1 /\ k \in {0, 1}
    /\ Killed # -1 /\ {0} \subseteq Statuses
  BY DEF Statuses, ExitCodes, Exited, Killed

\* What a program has ended with stays, and so does that a thread left it early.
EndsStay ==
    /\ early \subseteq early'
    /\ \A n \in 1..MaxExecs : ended[n] # -1 => ended'[n] = ended[n]

\* A thread leaves its program: no other program's end is touched.
LEMMA Leaving ==
    ASSUME TypeOK, NEW p \in Procs, NEW status \in ExitStatuses(p),
           Leave(p, status)
    PROVE  /\ status \in Statuses
           /\ ended' \in [1..MaxExecs -> Statuses \cup {-1}]
           /\ early' \subseteq 1..MaxExecs
           /\ EndsStay
           /\ \A n \in 1..MaxExecs \ {program[p]} :
                 ended'[n] = ended[n] /\ (n \in early' => n \in early)
           /\ program[p] # 0 /\ program[p] \notin early' =>
                 ended'[program[p]] = status
  <1>1. /\ ended \in [1..MaxExecs -> Statuses \cup {-1}] /\ early \subseteq 1..MaxExecs
        /\ program[p] \in Nat /\ (program[p] # 0 => program[p] \in 1..MaxExecs)
    BY BpfAssumption DEF TypeOK
  <1>2. /\ status \in Statuses
        /\ program[p] # 0 /\ ended[program[p]] # -1 => status = ended[program[p]]
    BY <1>1, StatusFacts DEF ExitStatuses, Dying
  <1>3. CASE program[p] = 0 /\ UNCHANGED <<ended, early>>
    BY <1>1, <1>2, <1>3 DEF EndsStay
  <1>4. CASE /\ program[p] # 0
             /\ ended' = [ended EXCEPT ![program[p]] = status] /\ early' = early
    BY <1>1, <1>2, <1>4 DEF EndsStay
  <1>5. CASE /\ program[p] # 0
             /\ early' = early \cup {program[p]} /\ ended' = ended
    BY <1>1, <1>2, <1>5 DEF EndsStay
  <1> QED
    BY <1>3, <1>4, <1>5 DEF Leave

LEMMA InitInv ==
    Init => RecordsInv
  <1> SUFFICES ASSUME Init PROVE RecordsInv
    OBVIOUS
  <1> USE BpfAssumption DEF Init
  <1>1. TypeOK
    <2>1. MaxExecs \in Nat /\ 0 \in 0..MaxExecs
      OBVIOUS
    <2>2. Blank(None, 0) \in Records
      BY <2>1 DEF Blank, Records, ExitCodes
    <2>3. cell \in [Cells -> Records]
      BY <2>2
    <2>4. cpu \in [Cpus -> Places]
      BY IdleIsPlace
    <2>5. Keys = {}
      BY DEF Keys
    <2>6. /\ ended \in [1..MaxExecs -> Statuses \cup {-1}] /\ early \subseteq 1..MaxExecs
          /\ program \in [Procs -> 0..execs]
      OBVIOUS
    <2>7. faults \in 0..MaxFaults /\ execs \in 0..MaxExecs
      OBVIOUS
    <2> QED
      BY <2>3, <2>4, <2>5, <2>6, <2>7 DEF TypeOK, Places
  <1>2. RecordsAreLive /\ ProgramsInv /\ FieldsInv /\ ExecsInv /\ UnracedInv
    BY IdleIsPlace DEF RecordsAreLive, ProgramsInv, ProgramOK, FieldsInv, ExecsInv,
       UnracedInv, HoldsOwn, Unreported, Keys, Exiting
  <1> QED
    BY <1>1, <1>2 DEF RecordsInv

\* Processes that are forked, start threads or are told to die: the BPF programs
\* and their data stay as they are.
LEMMA ForkInv ==
    ASSUME RecordsInv, NEW p \in Procs, Fork(p)
    PROVE  RecordsInv'
  <1> USE BpfAssumption DEF Fork
  <1>1. TypeOK'
    BY DEF RecordsInv, TypeOK, Records, Keys
  <1>2. map[p] = NoCell /\ Exiting(p) = {} /\ OutsideExec(p)
    <2>1. threads[p] = {} /\ Exiting(p) = {}
      OBVIOUS
    <2>2. map[p] = NoCell
      BY <2>1 DEF RecordsInv, RecordsAreLive, Keys
    <2>3. \A c \in Cpus : ProgramOK(c)
      BY DEF RecordsInv, ProgramsInv
    <2> QED
      BY ONLY <2>1, <2>2, <2>3 DEF ProgramOK, OutsideExec, Chain
  <1>3. RecordsAreLive'
    <2> SUFFICES ASSUME NEW q \in Keys' PROVE threads'[q] # {} \/ Exiting(q)' # {}
      BY DEF RecordsAreLive
    <2>1. q \in Keys /\ q # p /\ Exiting(q)' = Exiting(q)
      BY <1>2 DEF Keys, Exiting
    <2>2. threads'[q] = threads[q]
      BY <2>1 DEF RecordsInv, TypeOK, Keys
    <2> QED
      BY <2>1, <2>2 DEF RecordsInv, RecordsAreLive
  <1>4. ProgramsInv'
    BY <1>2 DEF RecordsInv, TypeOK, ProgramsInv, ProgramOK, Exiting, OutsideExec, Accounted
  <1>5. FieldsInv'
    <2>1. Keys' = Keys /\ p \notin Keys
      BY <1>2 DEF Keys
    <2>2. \A q \in Keys : q # p /\ program'[q] = program[q]
      BY <2>1 DEF RecordsInv, TypeOK, Keys
    <2>3. UNCHANGED <<cpu, map, cell>> /\ \A q \in Keys : RecordOK(q)
      BY DEF RecordsInv, FieldsInv
    <2>4. ASSUME NEW q \in Keys PROVE RecordOK(q)'
      BY ONLY <2>2, <2>3, <2>4 DEF RecordOK, OutsideExec
    <2> QED
      BY <2>1, <2>4 DEF FieldsInv
  <1>6. ExecsInv'
    BY DEF RecordsInv, TypeOK, ExecsInv, Keys, Accounted
  <1>7. UnracedInv'
    <2> SUFFICES ASSUME ~raced PROVE UnracedInv'
      BY DEF UnracedInv
    <2>1. /\ \A q \in Procs \ {p} : program'[q] = program[q]
          /\ UNCHANGED <<ended, early, cpu, map, cell, reports, raced>>
      BY DEF RecordsInv, TypeOK
    <2>2. ASSUME NEW c \in Cpus PROVE HoldsOwn(c)'
      <3>1. HoldsOwn(c) /\ ProgramOK(c)
        BY DEF RecordsInv, UnracedInv, ProgramsInv
      <3>2. cpu[c].at \in Exit => cpu[c].proc \in Procs \ {p}
        BY <1>2, <3>1, BpfAssumption DEF ProgramOK, Exiting
      <3> QED
        BY <2>1, <3>1, <3>2 DEF HoldsOwn, Exiting
    <2>3. ASSUME NEW q \in Keys' PROVE Unreported(q)'
      <3>1. q \in Procs \ {p} /\ Unreported(q)
        BY <1>2, <2>1 DEF RecordsInv, UnracedInv, Keys
      <3> QED
        BY <2>1, <3>1 DEF Unreported, Exiting
    <2> QED
      BY <2>2, <2>3 DEF UnracedInv
  <1> QED
    BY <1>1, <1>3, <1>4, <1>5, <1>6, <1>7 DEF RecordsInv

LEMMA ProgramsUntouched ==
    ASSUME RecordsInv, TypeOK',
           UNCHANGED <<program, execs, early, cpu, map, cell, reports, dropped,
                       raced>>,
           \A q \in Procs : threads[q] # {} => threads'[q] # {},
           EndsStay
    PROVE  RecordsInv'
  <1>1. RecordsAreLive'
    BY DEF RecordsInv, RecordsAreLive, Keys, Exiting
  <1>2. ProgramsInv'
    <2>1. ProgramsInv /\ Students \subseteq Procs
      BY BpfAssumption DEF RecordsInv
    <2>2. \A q \in Procs : Exiting(q)' = Exiting(q)
      BY DEF Exiting
    <2>3. \A m : Accounted(m)' = Accounted(m)
      BY DEF Accounted
    <2> QED
      BY <2>1, <2>2, <2>3 DEF ProgramsInv, ProgramOK
  <1>3. FieldsInv' /\ ExecsInv'
    BY DEF RecordsInv, FieldsInv, RecordOK, ExecsInv, Keys, OutsideExec, Accounted
  <1>4. UnracedInv'
    <2> SUFFICES ASSUME ~raced PROVE UnracedInv'
      BY DEF UnracedInv
    <2>1. ASSUME NEW c \in Cpus, cpu[c].at \in Exit PROVE HoldsOwn(c)'
      <3>1. HoldsOwn(c) /\ ProgramOK(c) /\ TypeOK
        BY DEF RecordsInv, UnracedInv, ProgramsInv
      <3>2. cpu[c].status \in Statuses /\ cpu[c].status # -1
        BY <3>1, StatusFacts DEF TypeOK
      <3>3. program[cpu[c].proc] \in 1..MaxExecs
        BY <2>1, <3>1, BpfAssumption DEF TypeOK, ProgramOK
      <3>4. ended[program[cpu[c].proc]] = cpu[c].status =>
               ended'[program[cpu[c].proc]] = cpu[c].status
        BY <3>2, <3>3 DEF EndsStay
      <3> QED
        BY <3>1, <3>4 DEF HoldsOwn, Exiting
    <2>2. UnracedInv
      BY DEF RecordsInv
    <2> QED
      BY <2>1, <2>2 DEF UnracedInv, HoldsOwn, Unreported, Keys, Exiting
  <1> QED
    BY <1>1, <1>2, <1>3, <1>4 DEF RecordsInv

LEMMA StartThreadInv ==
    ASSUME RecordsInv, NEW p \in Procs, StartThread(p)
    PROVE  RecordsInv'
  <1>1. TypeOK'
    BY BpfAssumption DEF StartThread, RecordsInv, TypeOK, Records, Keys
  <1>2. \A q \in Procs : threads[q] # {} => threads'[q] # {}
    BY DEF StartThread, RecordsInv, TypeOK
  <1> QED
    BY <1>1, <1>2, ProgramsUntouched DEF StartThread, EndsStay

LEMMA ExitGroupEnds ==
    ASSUME RecordsInv, NEW p \in Procs, ExitGroup(p)
    PROVE  EndsStay
  BY DEF ExitGroup, EndsStay, Dying, RecordsInv, TypeOK

LEMMA ExitGroupInv ==
    ASSUME RecordsInv, NEW p \in Procs, ExitGroup(p)
    PROVE  RecordsInv'
  <1>1. TypeOK'
    BY BpfAssumption DEF ExitGroup, RecordsInv, TypeOK, Records, Keys
  <1>2. EndsStay
    BY ExitGroupEnds
  <1> QED
    BY <1>1, <1>2, ProgramsUntouched DEF ExitGroup

\* An exec: the record of its process is new, or refused.
LEMMA InitHandlerInv ==
    ASSUME RecordsInv, NEW c \in Cpus, NEW p \in Procs, InitHandler(c, p)
    PROVE  RecordsInv'
  <1> DEFINE n == execs + 1
             chain == [Idle EXCEPT !.at = "binary", !.proc = p]
  <1>0. chain \in Places /\ chain.at = "binary" /\ chain.proc = p
    BY IdleIsPlace DEF Idle, Places
  <1>1. /\ cpu[c] = Idle /\ OutsideExec(p) /\ Exiting(p) = {} /\ threads[p] # {}
        /\ execs < MaxExecs /\ execs' = n
        /\ program' = [program EXCEPT ![p] = n]
        /\ unstarted' = [unstarted EXCEPT ![p] = Threads \ threads[p]]
        /\ UNCHANGED <<threads, ended, early, reports, faults, raced>>
    BY FS_EmptySet DEF InitHandler
  <1>2. TypeOK /\ n \in Nat /\ n \in 1..MaxExecs
    BY <1>1, BpfAssumption DEF RecordsInv, TypeOK
  <1>3. /\ program'[p] = n
        /\ \A q \in Procs \ {p} : program'[q] = program[q]
        /\ \A q \in Procs : program[q] # n
        /\ \A r \in reports : r.of < n
        /\ program' \in [Procs -> 0..n]
    <2>1. \A q \in Procs : program[q] \in 0..execs
      BY <1>2 DEF TypeOK
    <2>2. \A r \in reports : r.of \in Nat /\ r.of <= execs
      BY <1>2 DEF RecordsInv, TypeOK, ExecsInv
    <2> QED
      BY <1>1, <1>2, <2>1, <2>2 DEF TypeOK
  <1>4. \/ /\ p \notin Students /\ p \notin Keys
           /\ UNCHANGED <<map, cell, dropped, cpu>>
        \/ /\ p \in Students
           /\ \E s \in Free : /\ map' = [map EXCEPT ![p] = s]
                              /\ cell' = [cell EXCEPT ![s] = Blank(p, n)]
           /\ UNCHANGED dropped
           /\ cpu' = [cpu EXCEPT ![c] = chain]
        \/ /\ p \in Students /\ p \notin Keys
           /\ dropped' = dropped \cup {n} /\ UNCHANGED <<map, cell>>
           /\ cpu' = [cpu EXCEPT ![c] = chain]
    BY DEF InitHandler, Update, Put, Refuse, RecordsInv, FieldsInv, RecordOK, Keys
  <1> HIDE DEF chain
  <1>5. CASE p \notin Students
    <2>1. p \notin Keys /\ UNCHANGED <<map, cell, dropped, cpu>>
      BY <1>4, <1>5
    <2> USE <1>1, <1>2, <1>3, <1>5, <2>1
    <2>2. TypeOK'
      BY DEF TypeOK, Keys
    <2>3. RecordsAreLive' /\ ProgramsInv'
      BY DEF RecordsInv, RecordsAreLive, ProgramsInv, ProgramOK, Keys, Exiting, Accounted
    <2>4. FieldsInv' /\ UnracedInv'
      <3>1. Keys' = Keys /\ \A q \in Keys : program'[q] = program[q]
        BY DEF Keys
      <3>2. ASSUME NEW d \in Cpus, cpu[d].at \in Exit
            PROVE  cpu[d].proc \in Procs
        BY <3>2, BpfAssumption DEF RecordsInv, ProgramsInv, ProgramOK
      <3>3. FieldsInv'
        <4> SUFFICES ASSUME NEW q \in Keys PROVE RecordOK(q)'
          BY <3>1 DEF FieldsInv
        <4>1. RecordOK(q) /\ program'[q] = program[q] /\ map' = map /\ cell' = cell
          BY <3>1 DEF RecordsInv, FieldsInv
        <4>2. OutsideExec(q)' = OutsideExec(q) /\ cpu' = cpu
          BY DEF OutsideExec
        <4> QED
          BY ONLY <4>1, <4>2 DEF RecordOK
      <3>4. ASSUME NEW q \in Procs PROVE Exiting(q)' = Exiting(q)
        BY DEF Exiting
      <3>5. (\A d \in Cpus : HoldsOwn(d)) => (\A d \in Cpus : HoldsOwn(d)')
        BY <3>2, <3>4 DEF HoldsOwn
      <3>6. ASSUME NEW q \in Keys', Unreported(q) PROVE Unreported(q)'
        BY <3>1, <3>4, <3>6 DEF Unreported, Keys
      <3> QED
        BY <3>1, <3>3, <3>5, <3>6 DEF RecordsInv, UnracedInv
    <2>5. ExecsInv'
      BY BpfAssumption DEF RecordsInv, TypeOK, ExecsInv, Keys, Accounted
    <2> QED
      BY <2>2, <2>3, <2>4, <2>5 DEF RecordsInv
  <1>6. CASE p \in Students
    <2>1. /\ cpu' \in [Cpus -> Places]
          /\ cpu'[c].at = "binary" /\ cpu'[c].proc = p
          /\ \A d \in Cpus \ {c} : cpu'[d] = cpu[d]
      <3>1. cpu \in [Cpus -> Places]
        BY <1>2 DEF TypeOK, Places
      <3>2. cpu' = [cpu EXCEPT ![c] = chain]
        BY <1>4, <1>6
      <3> QED
        BY ONLY <1>0, <3>1, <3>2
    <2>2. \A q \in Procs : Exiting(q)' = Exiting(q)
      BY <1>1, <2>1, IdleIsPlace DEF Exiting
    <2>3. Blank(p, n) \in Records /\ Blank(p, n).pid = p /\ Blank(p, n).exec = n
      BY <1>2, BpfAssumption DEF Blank, Records, ExitCodes
    <2>4. /\ map' \in [Procs -> Cells \cup {NoCell}]
          /\ cell' \in [Cells -> Records]
          /\ \A q \in Procs \ {p} : map'[q] = map[q]
          /\ \A q \in Keys \ {p} : map[q] \in Cells /\ cell'[map[q]] = cell[map[q]]
          /\ \/ /\ map'[p] \in Cells
                /\ \A q \in Keys : map'[p] # map[q]
                /\ cell'[map'[p]] = Blank(p, n)
                /\ dropped' = dropped
             \/ /\ p \notin Keys /\ map' = map /\ cell' = cell
                /\ dropped' = dropped \cup {n}
      <3>1. CASE p \notin Keys /\ dropped' = dropped \cup {n} /\ UNCHANGED <<map, cell>>
        BY <1>2, <3>1, BpfAssumption DEF TypeOK, Keys
      <3>2. CASE \E e \in Free : /\ map' = [map EXCEPT ![p] = e]
                                 /\ cell' = [cell EXCEPT ![e] = Blank(p, n)]
                                 /\ dropped' = dropped
        <4>1. PICK e \in Free : /\ map' = [map EXCEPT ![p] = e]
                                /\ cell' = [cell EXCEPT ![e] = Blank(p, n)]
                                /\ dropped' = dropped
          BY <3>2
        <4>2. e \in Cells /\ e # NoCell /\ \A q \in Procs : map[q] # e
          BY BpfAssumption DEF Free
        <4>3. /\ map \in [Procs -> Cells \cup {NoCell}]
              /\ cell \in [Cells -> Records]
          BY <1>2 DEF TypeOK
        <4> HIDE DEF n
        <4>4. /\ map' \in [Procs -> Cells \cup {NoCell}]
              /\ map'[p] = e
              /\ \A q \in Procs \ {p} : map'[q] = map[q]
          BY <4>1, <4>2, <4>3
        <4>5. /\ cell' \in [Cells -> Records]
              /\ cell'[e] = Blank(p, n)
              /\ \A q \in Keys : map[q] \in Cells /\ cell'[map[q]] = cell[map[q]]
          BY <2>3, <4>1, <4>2, <4>3 DEF Keys
        <4> QED
          BY <4>1, <4>2, <4>4, <4>5 DEF Keys
      <3> QED
        BY <1>4, <1>6, <3>1, <3>2
    <2>5. /\ dropped \subseteq dropped' /\ dropped' \subseteq 1..MaxExecs
          /\ p \in Keys' \/ n \in dropped'
          /\ Keys' \ {p} = Keys \ {p}
      <3>1. dropped \subseteq 1..MaxExecs
        BY <1>2 DEF TypeOK
      <3>2. \A e \in Cells : e # NoCell
        BY BpfAssumption
      <3>3. \A q \in Procs \ {p} : map'[q] = map[q]
        BY <2>4
      <3>4. Keys' \ {p} = Keys \ {p}
        BY <3>3 DEF Keys
      <3> HIDE DEF n
      <3>5. CASE map'[p] \in Cells /\ dropped' = dropped
        BY <3>1, <3>2, <3>4, <3>5 DEF Keys
      <3>6. CASE dropped' = dropped \cup {n}
        BY <1>2, <3>1, <3>4, <3>6
      <3> QED
        BY <2>4, <3>5, <3>6
    <2>6. TypeOK'
      <3>1. \A q, r \in Keys' : map'[q] = map'[r] => q = r
        BY <1>2, <2>4, <2>5 DEF TypeOK, Keys
      <3>2. unstarted' \in [Procs -> SUBSET Threads]
        BY <1>1, <1>2 DEF TypeOK
      <3> QED
        BY <1>1, <1>2, <1>3, <2>1, <2>4, <2>5, <3>1, <3>2 DEF TypeOK, Places
    <2>7. RecordsAreLive'
      BY <1>1, <2>2, <2>5 DEF RecordsInv, RecordsAreLive, Keys
    <2>8. \A m : Accounted(m) => Accounted(m)'
      BY <1>1, <2>5 DEF Accounted
    <2>9. ProgramsInv'
      <3> SUFFICES ASSUME NEW d \in Cpus PROVE ProgramOK(d)'
        BY DEF ProgramsInv
      <3>1. CASE d = c
        <4>1. \A e \in Cpus \ {c} : cpu'[e].at \in Chain => cpu'[e].proc # p
          BY <1>1, <2>1 DEF OutsideExec
        <4> QED
          BY <1>1, <1>2, <1>3, <1>6, <2>1, <2>2, <3>1, <4>1 DEF ProgramOK
      <3>2. CASE d # c
        <4>1. cpu'[d] = cpu[d]
          BY <2>1, <3>2
        <4>2. cpu[d].at \in Chain \cup Exit => cpu[d].proc \in Procs \ {p}
          BY <1>1, BpfAssumption DEF OutsideExec, Exiting, RecordsInv, ProgramsInv, ProgramOK
        <4>3. ProgramOK(d)
          BY DEF RecordsInv, ProgramsInv
        <4>4. PICK q : q = cpu[d].proc
          OBVIOUS
        <4>5. q = cpu'[d].proc
          BY <4>1, <4>4
        <4>6. cpu[d].at \in Chain \cup Exit =>
                  q # p /\ Exiting(q)' = Exiting(q) /\ program'[q] = program[q]
          BY <1>3, <2>2, <4>2, <4>4
        <4>7. cpu'[d].at = "idle" => cpu'[d] = Idle
          BY <4>1, <4>3 DEF ProgramOK
        <4>8. cpu'[d].at \in Chain =>
                  /\ q \in Students /\ program'[q] # 0
                  /\ threads'[q] # {} /\ Exiting(q)' = {}
          BY <1>1, <4>1, <4>3, <4>4, <4>6 DEF ProgramOK
        <4>9. cpu'[d].at \in Chain =>
                  \A e \in Cpus \ {d} : cpu'[e].at \in Chain => cpu'[e].proc # q
          BY <2>1, <4>1, <4>3, <4>4, <4>6 DEF ProgramOK
        <4>10. cpu'[d].at \in Exit =>
                  /\ q \in Students /\ program'[q] # 0
                  /\ cpu'[d].cell \in Cells
                  /\ cpu'[d].at = "delete" => Accounted(program[q])'
          BY <2>8, <4>1, <4>3, <4>4, <4>6 DEF ProgramOK
        <4> QED
          BY ONLY <4>5, <4>7, <4>8, <4>9, <4>10 DEF ProgramOK
      <3> QED
        BY <3>1, <3>2
    <2>10. FieldsInv'
      <3> SUFFICES ASSUME NEW q \in Keys' PROVE RecordOK(q)'
        BY DEF FieldsInv
      <3>1. CASE q = p
        <4>1. cell'[map'[p]] = Blank(p, n)
          BY <2>4, <3>1 DEF Keys
        <4>2. ~OutsideExec(p)'
          BY <2>1 DEF OutsideExec
        <4>3. \A d \in Cpus : cpu'[d].proc = p => cpu'[d].at \notin {"cwd", "args"}
          BY <1>1, <2>1 DEF OutsideExec
        <4> QED
          BY <1>2, <1>3, <1>6, <2>3, <3>1, <4>1, <4>2, <4>3 DEF RecordOK, Blank
      <3>2. CASE q # p
        <4>1. q \in Keys /\ map'[q] = map[q] /\ cell'[map[q]] = cell[map[q]]
          BY <2>4, <2>5, <3>2 DEF Keys
        <4>2. program'[q] = program[q]
          BY <1>3, <3>2, <4>1 DEF Keys
        <4>3. OutsideExec(q)' = OutsideExec(q)
          BY <1>1, <2>1, <3>2, IdleIsPlace DEF OutsideExec
        <4>4. FieldsInv
          BY DEF RecordsInv
        <4> QED
          BY <2>1, <3>2, <4>1, <4>2, <4>3, <4>4 DEF FieldsInv, RecordOK
      <3> QED
        BY <3>1, <3>2
    <2>11. ExecsInv'
      <3>1. \A q, r \in Procs : program'[q] = program'[r] /\ q # r => program'[q] = 0
        BY <1>3 DEF RecordsInv, ExecsInv
      <3>2. \A r \in reports' : r.of <= execs'
        BY <1>1, <1>2, <1>3 DEF RecordsInv, ExecsInv, TypeOK
      <3>3. ASSUME NEW q \in Students, program'[q] # 0
            PROVE  q \in Keys' \/ Accounted(program[q])'
        <4>1. CASE q = p
          BY <1>3, <2>5, <4>1 DEF Accounted
        <4>2. CASE q # p
          BY <1>3, <2>5, <2>8, <3>3, <4>2, BpfAssumption DEF RecordsInv, ExecsInv
        <4> QED
          BY <4>1, <4>2
      <3> QED
        BY <3>1, <3>2, <3>3 DEF ExecsInv
    <2>12. UnracedInv'
      <3> SUFFICES ASSUME ~raced
                   PROVE  UnracedInv'
        BY <1>1 DEF UnracedInv, HoldsOwn, Unreported
      <3>1. ASSUME NEW d \in Cpus, cpu'[d].at \in Exit
            PROVE  HoldsOwn(d)'
        <4>1. d # c /\ cpu'[d] = cpu[d]
          BY <2>1, <3>1
        <4>2. /\ cpu[d].proc \in Procs \ {p} /\ cpu[d].cell \in Cells
              /\ Exiting(cpu[d].proc) = {d} /\ map[cpu[d].proc] = cpu[d].cell
              /\ program[cpu[d].proc] \notin early =>
                    ended[program[cpu[d].proc]] = cpu[d].status
              /\ cpu[d].at = "submit" =>
                    cell[cpu[d].cell].code = cpu[d].status \div 256
          BY <1>1, <3>1, <4>1, BpfAssumption
             DEF RecordsInv, ProgramsInv, ProgramOK, UnracedInv, HoldsOwn, Unreported, Exiting
        <4>3. cpu[d].proc \in Keys
          BY <4>2, BpfAssumption DEF Keys
        <4> QED
          BY <1>1, <1>3, <2>2, <2>4, <4>1, <4>2, <4>3 DEF HoldsOwn
      <3>2. ASSUME NEW q \in Keys'
            PROVE  Unreported(q)'
        <4>1. CASE q = p
          BY <1>1, <1>2, <1>3, <4>1 DEF Unreported
        <4>2. CASE q # p
          <5>1. q \in Keys /\ program'[q] = program[q]
            BY <1>3, <2>5, <4>2 DEF Keys
          <5>2. \/ \E d \in Exiting(q) : cpu[d].at = "delete"
                \/ \A r \in reports : r.of # program[q]
            BY <5>1 DEF RecordsInv, UnracedInv, HoldsOwn, Unreported
          <5>3. \A d \in Exiting(q) : d # c /\ cpu'[d] = cpu[d]
            BY <1>1, <2>1, IdleIsPlace DEF Exiting
          <5> QED
            <6>1. CASE \E d \in Exiting(q) : cpu[d].at = "delete"
              <7>1. PICK d \in Exiting(q) : cpu[d].at = "delete"
                BY <6>1
              <7>2. d \in Exiting(q)' /\ cpu'[d].at = "delete"
                BY <2>2, <5>1, <5>3, <7>1 DEF Keys
              <7> QED
                BY <7>2 DEF Unreported
            <6>2. CASE \A r \in reports : r.of # program[q]
              BY <1>1, <5>1, <6>2 DEF Unreported
            <6> QED
              BY <5>2, <6>1, <6>2
        <4> QED
          BY <4>1, <4>2
      <3> QED
        BY <3>1, <3>2 DEF UnracedInv, HoldsOwn, Unreported
    <2> QED
      BY <2>6, <2>7, <2>9, <2>10, <2>11, <2>12 DEF RecordsInv
  <1> QED
    BY <1>5, <1>6


\* A handler fills in its own field of a record and no other.
LEMMA FillField ==
    ASSUME NEW d \in Records, NEW at \in Chain, NEW v \in 0..MaxExecs
    PROVE  LET e == [d EXCEPT ![at] = v]
           IN  /\ e \in Records
               /\ e.pid = d.pid /\ e.exec = d.exec /\ e.code = d.code
               /\ e.binary = IF at = "binary" THEN v ELSE d.binary
               /\ e.cwd = IF at = "cwd" THEN v ELSE d.cwd
               /\ e.args = IF at = "args" THEN v ELSE d.args
  <1>1. CASE at = "binary"
    BY <1>1 DEF Records
  <1>2. CASE at = "cwd"
    BY <1>2 DEF Records
  <1>3. CASE at = "args"
    BY <1>3 DEF Records
  <1> QED
    BY <1>1, <1>2, <1>3

\* One of the handlers of the chain.
LEMMA HandlerInv ==
    ASSUME RecordsInv, NEW c \in Cpus, NEW at, NEW next, Handler(c, at, next),
           \/ at = "binary" /\ next = "cwd"
           \/ at = "cwd" /\ next = "args"
           \/ at = "args" /\ next = "idle"
    PROVE  RecordsInv'
  <1> DEFINE p == cpu[c].proc
  <1>0. at \in Chain
    OBVIOUS
  <1>1. /\ cpu[c].at = at
        /\ UNCHANGED <<threads, unstarted, ended, early, program, execs, reports, raced>>
    BY DEF Handler, kernel
  <1>2. /\ p \in Students /\ p \in Procs /\ program[p] # 0
        /\ threads[p] # {} /\ Exiting(p) = {}
        /\ \A d \in Cpus \ {c} : cpu[d].at \in Chain => cpu[d].proc # p
    BY <1>0, <1>1, BpfAssumption DEF RecordsInv, ProgramsInv, ProgramOK
  <1>3. TypeOK /\ program[p] \in 1..MaxExecs
    BY <1>2, BpfAssumption DEF RecordsInv, TypeOK
  <1>4. /\ cpu' \in [Cpus -> Places]
        /\ \A d \in Cpus \ {c} : cpu'[d] = cpu[d]
        /\ \/ cpu'[c] = Idle
           \/ /\ next # "idle" /\ cpu'[c].at = next /\ cpu'[c].proc = p
              /\ map' = map
    <2>1. cpu \in [Cpus -> Places]
      BY <1>3 DEF TypeOK, Places
    <2>2. CASE Return(c)
      BY <2>1, <2>2, IdleIsPlace DEF Return
    <2>3. CASE Goto(c, next) /\ next # "idle" /\ map' = map
      <3>1. next \in Chain
        BY <2>3
      <3> QED
        BY <2>1, <2>3, <3>1 DEF Goto, Places
    <2> QED
      BY <2>2, <2>3 DEF Handler
  <1>5. \A q \in Procs : Exiting(q)' = Exiting(q)
    BY <1>0, <1>1, <1>4, IdleIsPlace DEF Exiting
  <1>6. /\ map' \in [Procs -> Cells \cup {NoCell}]
        /\ cell' \in [Cells -> Records]
        /\ faults' \in 0..MaxFaults
        /\ \A q \in Procs \ {p} : map'[q] = map[q]
        /\ map'[p] = NoCell => p \notin Keys \/ program[p] \in dropped'
        /\ map'[p] # NoCell => map'[p] = map[p]
        /\ \A s \in Cells : s # map[p] => cell'[s] = cell[s]
        /\ dropped' \in {dropped, dropped \cup {program[p]}}
    <2>1. /\ map \in [Procs -> Cells \cup {NoCell}]
          /\ cell \in [Cells -> Records] /\ faults \in 0..MaxFaults
      BY <1>3 DEF TypeOK
    <2>2. CASE /\ map[p] = NoCell
               /\ UNCHANGED <<map, cell, faults, dropped>>
      BY <1>2, <2>1, <2>2 DEF Keys
    <2>3. CASE /\ map[p] # NoCell /\ faults < MaxFaults /\ faults' = faults + 1
               /\ Abandon(p) /\ UNCHANGED cell
      BY <1>2, <2>1, <2>3, BpfAssumption DEF Abandon, Forget
    <2>4. CASE /\ map[p] # NoCell
               /\ cell' = [cell EXCEPT ![map[p]][at] = program[p]]
               /\ UNCHANGED <<map, faults, dropped>>
      <3>1. map[p] \in Cells /\ cell[map[p]] \in Records
        BY <1>2, <2>1, <2>4
      <3>2. [cell[map[p]] EXCEPT ![at] = program[p]] \in Records
        BY <1>0, <1>3, <3>1, FillField
      <3>3. cell' = [cell EXCEPT ![map[p]] = [cell[map[p]] EXCEPT ![at] = program[p]]]
        BY <2>4
      <3>4. cell' \in [Cells -> Records]
        BY <2>1, <3>1, <3>2, <3>3
      <3>5. \A s \in Cells : s # map[p] => cell'[s] = cell[s]
        BY <2>1, <3>1, <3>3
      <3> QED
        BY <2>1, <2>4, <3>4, <3>5
    <2> QED
      BY <2>2, <2>3, <2>4 DEF Handler
  <1>7. \/ p \notin Keys'
        \/ LET d == cell[map[p]]
               e == cell'[map[p]]
           IN  /\ p \in Keys /\ map'[p] = map[p]
               /\ cpu'[c] = Idle => at = "args"
               /\ e.pid = d.pid /\ e.exec = d.exec
               /\ e.binary = IF at = "binary" THEN program[p] ELSE d.binary
               /\ e.cwd = IF at = "cwd" THEN program[p] ELSE d.cwd
               /\ e.args = IF at = "args" THEN program[p] ELSE d.args
    <2>1. /\ map \in [Procs -> Cells \cup {NoCell}]
          /\ cell \in [Cells -> Records] /\ cpu \in [Cpus -> Places]
      BY <1>3 DEF TypeOK, Places
    <2>2. CASE p \notin Keys'
      BY <2>2
    <2>3. CASE /\ map[p] # NoCell
               /\ cell' = [cell EXCEPT ![map[p]][at] = program[p]]
               /\ IF next = "idle" THEN Return(c) ELSE Goto(c, next)
               /\ UNCHANGED map
      <3>1. p \in Keys /\ map[p] \in Cells /\ cell[map[p]] \in Records
        BY <1>2, <2>1, <2>3 DEF Keys
      <3>2. cpu'[c] = Idle => next = "idle"
        BY <2>1, <2>3, IdleIsPlace DEF Goto, Places
      <3>3. cell'[map[p]] = [cell[map[p]] EXCEPT ![at] = program[p]]
        BY <2>1, <2>3, <3>1
      <3> HIDE DEF p
      <3> QED
        BY <1>0, <1>3, <2>3, <3>1, <3>2, <3>3, FillField
    <2>4. CASE map[p] = NoCell /\ map' = map
      BY <2>4 DEF Keys
    <2>5. CASE Abandon(p)
      BY <1>2, <2>1, <2>5 DEF Abandon, Forget, Keys
    <2> QED
      BY <2>3, <2>4, <2>5 DEF Handler
  <1>8. Keys' \subseteq Keys
    BY <1>2, <1>3, <1>6 DEF Keys, TypeOK
  <1> HIDE DEF p
  <1>9. TypeOK'
    <2>1. \A q, r \in Keys' : map'[q] = map'[r] => q = r
      <3>1. \A q, r \in Keys : map[q] = map[r] => q = r
        BY <1>3 DEF TypeOK
      <3>2. \A q \in Keys' : q \in Keys /\ map'[q] = map[q]
        BY <1>6, <1>8 DEF Keys
      <3> QED
        BY <3>1, <3>2
    <2>2. dropped' \subseteq 1..MaxExecs
      BY <1>3, <1>6 DEF TypeOK
    <2> QED
      BY <1>1, <1>3, <1>4, <1>6, <2>1, <2>2 DEF TypeOK, Places
  <1>10. RecordsAreLive'
    BY <1>1, <1>5, <1>8 DEF RecordsInv, RecordsAreLive, Keys
  <1>11. ProgramsInv'
    <2> SUFFICES ASSUME NEW d \in Cpus PROVE ProgramOK(d)'
      BY DEF ProgramsInv
    <2>1. dropped \subseteq dropped' /\ reports' = reports
      BY <1>1, <1>6
    <2>2. CASE d = c
      <3>1. CASE cpu'[c] = Idle
        BY <2>2, <3>1, IdleIsPlace DEF ProgramOK
      <3>2. CASE next # "idle" /\ cpu'[c].at = next /\ cpu'[c].proc = p
        <4>1. cpu'[c].at \in Chain /\ cpu'[c].at \notin Exit /\ cpu'[c].at # "idle"
          BY <3>2
        <4> QED
          BY <1>1, <1>2, <1>4, <1>5, <2>2, <3>2, <4>1 DEF ProgramOK
      <3> QED
        BY <1>4, <3>1, <3>2
    <2>3. CASE d # c
      <3>1. cpu'[d] = cpu[d]
        BY <1>4, <2>3
      <3>2. ProgramOK(d)
        BY DEF RecordsInv, ProgramsInv
      <3>3. cpu[d].at \in Chain \cup Exit => cpu[d].proc \in Procs
        BY <3>2, BpfAssumption DEF ProgramOK
      <3>4. cpu[d].at \in Chain =>
               \A e \in Cpus \ {d} : cpu'[e].at \in Chain => cpu'[e].proc # cpu[d].proc
        BY <1>0, <1>1, <1>2, <1>4, <2>3, <3>2, IdleIsPlace DEF ProgramOK
      <3> QED
        BY <1>1, <1>5, <2>1, <3>1, <3>2, <3>3, <3>4 DEF ProgramOK, Accounted
    <2> QED
      BY <2>2, <2>3
  <1>12. FieldsInv'
    <2> SUFFICES ASSUME NEW q \in Keys' PROVE RecordOK(q)'
      BY DEF FieldsInv
    <2>1. RecordOK(q) /\ q \in Keys /\ q \in Procs
      BY <1>8 DEF RecordsInv, FieldsInv, Keys
    <2>2. CASE q = p
      <3>1. \A d \in Cpus \ {c} : cpu'[d].proc = p => cpu'[d].at \notin Chain
        BY <1>2, <1>4
      <3>2. p = cpu[c].proc /\ cpu[c].at = at
        BY <1>1 DEF p
      <3> DEFINE d == cell[map[p]]
                 e == cell'[map'[p]]
      <3>3. /\ p \in Students /\ program[p] # 0
            /\ d.pid = p /\ d.exec = program[p]
            /\ at \in {"cwd", "args"} => d.binary = program[p]
            /\ at = "args" => d.cwd = program[p]
        BY <2>1, <2>2, <3>2 DEF RecordOK
      <3>4. /\ e.pid = d.pid /\ e.exec = d.exec
            /\ cpu'[c] = Idle => at = "args"
            /\ e.binary = IF at = "binary" THEN program[p] ELSE d.binary
            /\ e.cwd = IF at = "cwd" THEN program[p] ELSE d.cwd
            /\ e.args = IF at = "args" THEN program[p] ELSE d.args
        BY <1>7, <2>2
      <3> HIDE DEF d, e
      <3>5. /\ p \in Students /\ program'[p] # 0
            /\ e.pid = p /\ e.exec = program'[p]
            /\ e.binary = program'[p]
            /\ at \in {"cwd", "args"} => e.cwd = program'[p]
            /\ at = "args" => e.args = program'[p]
        BY <1>0, <1>1, <3>3, <3>4
      <3>6. OutsideExec(q)' => at = "args"
        BY <1>4, <2>2, <3>4 DEF OutsideExec
      <3>7. \A k \in Cpus : cpu'[k].proc = p /\ cpu'[k].at = "args" => at \in {"cwd", "args"}
        BY <1>4, <3>1, IdleIsPlace
      <3> QED
        BY <2>2, <3>5, <3>6, <3>7 DEF RecordOK, e
    <2>3. CASE q # p
      <3>1. map'[q] = map[q] /\ map[q] \in Cells /\ map[q] # map[p]
        BY <1>2, <1>3, <1>6, <2>1, <2>3 DEF TypeOK, Keys
      <3>2. cell'[map[q]] = cell[map[q]]
        BY <1>6, <3>1
      <3>3. \A d \in Cpus : cpu'[d].proc = q => cpu'[d] = cpu[d]
        BY <1>4, <2>1, <2>3, IdleIsPlace, BpfAssumption
      <3>4. \A d \in Cpus : cpu[d].proc = q => cpu'[d] = cpu[d]
        BY <1>4, <2>3 DEF p
      <3>5. OutsideExec(q)' => OutsideExec(q)
        BY <3>4 DEF OutsideExec
      <3> QED
        BY <1>1, <2>1, <3>1, <3>2, <3>3, <3>5 DEF RecordOK
    <2> QED
      BY <2>2, <2>3
  <1>13. ExecsInv'
    BY <1>1, <1>2, <1>6 DEF RecordsInv, ExecsInv, Keys, Accounted
  <1>14. UnracedInv'
    <2> SUFFICES ASSUME ~raced PROVE UnracedInv'
      BY <1>1 DEF UnracedInv
    <2>1. ASSUME NEW d \in Cpus, cpu'[d].at \in Exit
          PROVE  HoldsOwn(d)'
      <3>1. d # c /\ cpu'[d] = cpu[d]
        BY <1>4, <2>1, IdleIsPlace
      <3>2. /\ cpu[d].proc \in Procs /\ cpu[d].proc # p /\ cpu[d].cell \in Cells
            /\ HoldsOwn(d)
        BY <1>2, <2>1, <3>1, BpfAssumption
           DEF RecordsInv, ProgramsInv, ProgramOK, UnracedInv, Exiting
      <3>3. map[cpu[d].proc] = cpu[d].cell /\ cpu[d].cell # NoCell
        BY <2>1, <3>1, <3>2, BpfAssumption DEF HoldsOwn
      <3>4. cpu[d].cell # map[p]
        BY <1>2, <1>3, <3>2, <3>3 DEF TypeOK, Keys
      <3>5. /\ map'[cpu[d].proc] = map[cpu[d].proc]
            /\ cell'[cpu[d].cell] = cell[cpu[d].cell]
            /\ Exiting(cpu[d].proc)' = Exiting(cpu[d].proc)
        <4>1. PICK q \in Procs \ {p}, s \in Cells \ {map[p]} :
                 q = cpu[d].proc /\ s = cpu[d].cell
          BY <3>2, <3>4
        <4>2. map'[q] = map[q] /\ cell'[s] = cell[s] /\ Exiting(q)' = Exiting(q)
          BY <1>5, <1>6, <4>1
        <4> QED
          BY <3>1, <4>1, <4>2
      <3> QED
        BY <1>1, <3>1, <3>2, <3>5 DEF HoldsOwn
    <2>2. ASSUME NEW q \in Keys'
          PROVE  Unreported(q)'
      <3>1. q \in Procs /\ Unreported(q)
        BY <1>8 DEF Keys, RecordsInv, UnracedInv
      <3>2. \A d \in Exiting(q) : cpu'[d] = cpu[d]
        BY <1>0, <1>1, <1>4 DEF Exiting
      <3>3. \A d \in Exiting(q) : d \in Exiting(q)' /\ cpu'[d] = cpu[d]
        BY <1>5, <3>1, <3>2
      <3> QED
        BY <1>1, <3>1, <3>3 DEF Unreported
    <2> QED
      BY <2>1, <2>2 DEF UnracedInv, HoldsOwn
  <1> QED
    BY <1>9, <1>10, <1>11, <1>12, <1>13, <1>14 DEF RecordsInv


\* A thread exits: it finds its process's record, or there is nothing to do.
LEMMA ExitHandlerInv ==
    ASSUME RecordsInv, NEW c \in Cpus, NEW p \in Procs, ExitHandler(c, p)
    PROVE  RecordsInv'
  <1>1. /\ cpu[c] = Idle /\ OutsideExec(p)
        /\ UNCHANGED <<unstarted, program, execs, map, cell, reports, faults,
                       dropped>>
    BY DEF ExitHandler
  <1>2. TypeOK
    BY DEF RecordsInv
  <1>3. PICK t \in threads[p] : threads' = [threads EXCEPT ![p] = @ \ {t}]
    BY DEF ExitHandler
  <1>4. /\ threads' \in [Procs -> SUBSET Threads]
        /\ \A q \in Procs \ {p} : threads'[q] = threads[q]
    BY <1>2, <1>3 DEF TypeOK
  <1>5. PICK status \in ExitStatuses(p) : Lookup(c, p, status) /\ Leave(p, status)
    BY DEF ExitHandler
  <1>6. /\ status \in Statuses
        /\ ended' \in [1..MaxExecs -> Statuses \cup {-1}]
        /\ early' \subseteq 1..MaxExecs
        /\ EndsStay
        /\ \A n \in 1..MaxExecs \ {program[p]} :
              ended'[n] = ended[n] /\ (n \in early' => n \in early)
        /\ program[p] # 0 /\ program[p] \notin early' =>
              ended'[program[p]] = status
    BY <1>2, <1>5, Leaving
  <1>7. Keys' = Keys
    BY <1>1 DEF Keys
  <1>8. \A d \in Cpus : cpu[d].at \in Chain => cpu[d].proc # p
    BY <1>1 DEF OutsideExec
  <1>9. ASSUME NEW d \in Cpus PROVE ProgramOK(d)
    BY DEF RecordsInv, ProgramsInv
  <1>90. ASSUME NEW q \in Students, q # p, program[q] # 0,
                program'[q] \notin early'
         PROVE  program[q] \notin early /\ ended'[program[q]] = ended[program[q]]
    <2>1. program[q] \in 1..MaxExecs /\ program[q] # program[p]
      BY <1>2, <1>90, BpfAssumption DEF RecordsInv, TypeOK, ExecsInv
    <2> QED
      BY <1>1, <1>6, <1>90, <2>1 DEF EndsStay
  <1>10. CASE map[p] = NoCell /\ UNCHANGED <<cpu, raced>>
    <2>1. TypeOK'
      BY <1>1, <1>2, <1>4, <1>6, <1>10, BpfAssumption DEF TypeOK, Keys
    <2>2. RecordsAreLive'
      BY <1>1, <1>4, <1>10 DEF RecordsInv, RecordsAreLive, Keys, Exiting
    <2>3. ASSUME NEW d \in Cpus PROVE ProgramOK(d)'
      <3>1. \A q \in Procs : Exiting(q)' = Exiting(q)
        BY <1>10 DEF Exiting
      <3>2. cpu[d].at \in Chain \cup Exit => cpu[d].proc \in Procs
        BY <1>9, BpfAssumption DEF ProgramOK
      <3> QED
        BY <1>1, <1>4, <1>8, <1>9, <1>10, <3>1, <3>2 DEF ProgramOK, Accounted
    <2>4. FieldsInv'
      BY <1>1, <1>7, <1>10 DEF RecordsInv, FieldsInv, RecordOK, OutsideExec
    <2>5. ExecsInv'
      BY <1>1, <1>7, <1>10 DEF RecordsInv, ExecsInv, Accounted
    <2>6. UnracedInv'
      <3> SUFFICES ASSUME ~raced PROVE UnracedInv'
        BY <1>10 DEF UnracedInv
      <3>1. ASSUME NEW d \in Cpus, cpu[d].at \in Exit PROVE HoldsOwn(d)'
        <4>1. HoldsOwn(d) /\ ProgramOK(d)
          BY <1>9 DEF RecordsInv, UnracedInv
        <4>2. cpu[d].proc \in Students \ {p} /\ program[cpu[d].proc] # 0
          BY <1>10, <3>1, <4>1, BpfAssumption DEF HoldsOwn, ProgramOK
        <4> QED
          BY <1>1, <1>10, <1>90, <4>1, <4>2 DEF HoldsOwn, Exiting
      <3> QED
        BY <1>1, <1>7, <1>10, <3>1 DEF RecordsInv, UnracedInv, HoldsOwn, Unreported,
           Exiting
    <2> QED
      BY <2>1, <2>2, <2>3, <2>4, <2>5, <2>6 DEF RecordsInv, ProgramsInv
  <1>11. CASE /\ map[p] # NoCell
              /\ cpu' = [cpu EXCEPT ![c] = [at |-> "code", proc |-> p,
                                            status |-> status, cell |-> map[p]]]
              /\ raced' = (raced \/ Exiting(p) # {})
    <2>1. /\ p \in Keys /\ p \in Students /\ program[p] # 0 /\ map[p] \in Cells
      BY <1>2, <1>11 DEF RecordsInv, TypeOK, FieldsInv, RecordOK, Keys
    <2>2. /\ cpu' \in [Cpus -> Places]
          /\ cpu'[c].at = "code" /\ cpu'[c].proc = p /\ cpu'[c].cell = map[p]
          /\ cpu'[c].status = status
          /\ \A d \in Cpus \ {c} : cpu'[d] = cpu[d]
      <3>1. [at |-> "code", proc |-> p, status |-> status, cell |-> map[p]] \in Places
        BY <1>6, <2>1 DEF Places
      <3> QED
        BY <1>2, <1>11, <3>1 DEF TypeOK, Places
    <2>3. /\ Exiting(p)' = Exiting(p) \cup {c}
          /\ \A q \in Procs \ {p} : Exiting(q)' = Exiting(q)
      BY <1>1, <2>2, IdleIsPlace DEF Exiting
    <2>4. \A q \in Procs : OutsideExec(q)' = OutsideExec(q)
      BY <1>1, <2>2, IdleIsPlace DEF OutsideExec
    <2>5. TypeOK'
      <3>1. \A q, r \in Keys' : map'[q] = map'[r] => q = r
        BY <1>1, <1>2, <1>7 DEF TypeOK
      <3>2. raced' \in BOOLEAN
        BY <1>11
      <3> QED
        BY <1>1, <1>2, <1>4, <1>6, <2>2, <3>1, <3>2 DEF TypeOK, Places
    <2>6. RecordsAreLive'
      <3> SUFFICES ASSUME NEW q \in Keys' PROVE threads'[q] # {} \/ Exiting(q)' # {}
        BY DEF RecordsAreLive
      <3>1. q \in Keys /\ q \in Procs
        BY <1>7 DEF Keys
      <3> QED
        BY <1>4, <2>3, <3>1 DEF RecordsInv, RecordsAreLive
    <2>7. ASSUME NEW d \in Cpus PROVE ProgramOK(d)'
      <3>1. CASE d = c
        BY <1>1, <2>1, <2>2, <3>1 DEF ProgramOK
      <3>2. CASE d # c
        <4>1. cpu'[d] = cpu[d]
          BY <2>2, <3>2
        <4>2. cpu[d].at \in Chain \cup Exit => cpu[d].proc \in Procs
          BY <1>9, BpfAssumption DEF ProgramOK
        <4>3. cpu[d].at \in Chain =>
                /\ cpu[d].proc # p /\ threads'[cpu[d].proc] # {}
                /\ \A e \in Cpus \ {d} : cpu'[e].at \in Chain => cpu'[e].proc # cpu[d].proc
          BY <1>4, <1>8, <1>9, <2>2, <4>2 DEF ProgramOK
        <4> QED
          BY <1>1, <1>9, <2>3, <4>1, <4>2, <4>3 DEF ProgramOK, Accounted
      <3> QED
        BY <3>1, <3>2
    <2>8. ASSUME NEW q \in Keys' PROVE RecordOK(q)'
      <3>1. q \in Procs /\ RecordOK(q)
        BY <1>7 DEF RecordsInv, FieldsInv, Keys
      <3>2. \A d \in Cpus : cpu'[d].at \in {"cwd", "args"} => cpu'[d] = cpu[d]
        BY <2>2
      <3> QED
        BY <1>1, <2>4, <3>1, <3>2 DEF RecordOK
    <2>9. ExecsInv'
      BY <1>1, <1>7 DEF RecordsInv, ExecsInv, Accounted
    <2>10. UnracedInv'
      <3> SUFFICES ASSUME ~raced, Exiting(p) = {} PROVE UnracedInv'
        BY <1>11 DEF UnracedInv
      <3>1. ASSUME NEW d \in Cpus PROVE HoldsOwn(d)'
        <4>1. CASE d = c
          BY <1>1, <1>6, <2>1, <2>2, <2>3, <4>1 DEF HoldsOwn
        <4>2. CASE d # c
          <5>1. cpu[d].at \in Exit =>
                   /\ cpu[d].proc \in Students /\ cpu[d].proc \in Procs
                   /\ cpu[d].proc # p /\ program[cpu[d].proc] # 0
            BY <1>9, BpfAssumption DEF ProgramOK, Exiting
          <5>2. HoldsOwn(d)
            BY DEF RecordsInv, UnracedInv
          <5> QED
            BY <1>1, <1>90, <2>2, <2>3, <4>2, <5>1, <5>2 DEF HoldsOwn
        <4> QED
          BY <4>1, <4>2
      <3>2. ASSUME NEW q \in Keys' PROVE Unreported(q)'
        <4>1. q \in Procs /\ Unreported(q)
          BY <1>7 DEF RecordsInv, UnracedInv, Keys
        <4>2. CASE q = p
          BY <1>1, <4>1, <4>2 DEF Unreported
        <4>3. CASE q # p
          <5>1. \A d \in Exiting(q) : d \in Exiting(q)' /\ cpu'[d] = cpu[d]
            BY <1>1, <2>2, <2>3, <4>1, <4>3, IdleIsPlace DEF Exiting
          <5> QED
            BY <1>1, <4>1, <5>1 DEF Unreported
        <4> QED
          BY <4>2, <4>3
      <3> QED
        BY <3>1, <3>2 DEF UnracedInv
    <2> QED
      BY <2>5, <2>6, <2>7, <2>8, <2>9, <2>10 DEF RecordsInv, ProgramsInv, FieldsInv
  <1> QED
    BY <1>5, <1>10, <1>11 DEF Lookup


\* exit_handler goes on to its next step.
LEMMA ExitGoesOn ==
    ASSUME RecordsInv, NEW c \in Cpus, cpu[c].at \in Exit, NEW at \in Exit,
           Goto(c, at)
    PROVE  /\ cpu' \in [Cpus -> Places]
           /\ cpu'[c].at = at /\ cpu'[c].proc = cpu[c].proc
           /\ cpu'[c].cell = cpu[c].cell /\ cpu'[c].status = cpu[c].status
           /\ \A d \in Cpus \ {c} : cpu'[d] = cpu[d]
           /\ \A q : Exiting(q)' = Exiting(q)
           /\ \A q : OutsideExec(q)' = OutsideExec(q)
  <1>1. cpu \in [Cpus -> Places]
    BY DEF RecordsInv, TypeOK, Places
  <1>2. /\ cpu' \in [Cpus -> Places]
        /\ cpu'[c].at = at /\ cpu'[c].proc = cpu[c].proc
        /\ cpu'[c].cell = cpu[c].cell /\ cpu'[c].status = cpu[c].status
        /\ \A d \in Cpus \ {c} : cpu'[d] = cpu[d]
    BY <1>1 DEF Goto, Places
  <1>3. ASSUME NEW q PROVE Exiting(q)' = Exiting(q)
    BY <1>2 DEF Exiting
  <1>4. ASSUME NEW q PROVE OutsideExec(q)' = OutsideExec(q)
    BY <1>2 DEF OutsideExec
  <1> QED
    BY <1>2, <1>3, <1>4

\* The exit code goes into the element that was found, whoever has it now.
LEMMA StoreCodeInv ==
    ASSUME RecordsInv, NEW c \in Cpus, StoreCode(c)
    PROVE  RecordsInv'
  <1>1. /\ cpu[c].at = "code" /\ Goto(c, "submit")
        /\ cell' = [cell EXCEPT ![cpu[c].cell].code = cpu[c].status \div 256]
        /\ UNCHANGED <<threads, unstarted, ended, early, program, execs, map, reports,
                       faults, dropped, raced>>
    BY DEF StoreCode, kernel
  <1>2. /\ cpu' \in [Cpus -> Places]
        /\ cpu'[c].at = "submit" /\ cpu'[c].proc = cpu[c].proc
        /\ cpu'[c].cell = cpu[c].cell /\ cpu'[c].status = cpu[c].status
        /\ \A d \in Cpus \ {c} : cpu'[d] = cpu[d]
        /\ \A q : Exiting(q)' = Exiting(q)
        /\ \A q : OutsideExec(q)' = OutsideExec(q)
    BY <1>1, ExitGoesOn
  <1>3. TypeOK /\ Keys' = Keys
    BY <1>1 DEF RecordsInv, Keys
  <1>4. ASSUME NEW d \in Cpus PROVE ProgramOK(d)
    BY DEF RecordsInv, ProgramsInv
  <1>5. cpu[c].cell \in Cells /\ cpu[c].status \div 256 \in ExitCodes
    BY <1>1, <1>3, <1>4, StatusFacts DEF ProgramOK, TypeOK
  <1> DEFINE s0 == cpu[c].cell
             k0 == cpu[c].status \div 256
             d0 == [cell[s0] EXCEPT !.code = k0]
  <1>55. /\ cell \in [Cells -> Records] /\ s0 \in Cells /\ k0 \in ExitCodes
         /\ cell' = [cell EXCEPT ![s0] = d0]
    BY <1>1, <1>3, <1>5 DEF TypeOK
  <1> HIDE DEF s0, k0
  <1>56. /\ d0 \in Records /\ d0.code = k0
         /\ d0.pid = cell[s0].pid /\ d0.exec = cell[s0].exec
         /\ d0.binary = cell[s0].binary /\ d0.cwd = cell[s0].cwd
         /\ d0.args = cell[s0].args
    BY <1>55 DEF Records
  <1> HIDE DEF d0
  <1>6. /\ cell' \in [Cells -> Records]
        /\ cell'[cpu[c].cell].code = cpu[c].status \div 256
        /\ \A s \in Cells : /\ cell'[s].pid = cell[s].pid
                            /\ cell'[s].exec = cell[s].exec
                            /\ cell'[s].binary = cell[s].binary
                            /\ cell'[s].cwd = cell[s].cwd
                            /\ cell'[s].args = cell[s].args
                            /\ s # cpu[c].cell => cell'[s].code = cell[s].code
    <2>1. /\ cell' \in [Cells -> Records] /\ cell'[s0] = d0
          /\ \A s \in Cells : s # s0 => cell'[s] = cell[s]
      BY <1>55, <1>56
    <2> QED
      BY <1>56, <2>1 DEF s0, k0
  <1>7. TypeOK'
    <2>1. \A q, r \in Keys' : map'[q] = map'[r] => q = r
      BY <1>1, <1>3 DEF TypeOK
    <2> QED
      BY <1>1, <1>2, <1>3, <1>6, <2>1 DEF TypeOK, Places
  <1>8. RecordsAreLive' /\ ExecsInv'
    BY <1>1, <1>2, <1>3 DEF RecordsInv, RecordsAreLive, ExecsInv, Accounted
  <1>9. ASSUME NEW d \in Cpus PROVE ProgramOK(d)'
    <2>1. CASE d = c
      BY <1>1, <1>2, <1>4, <2>1 DEF ProgramOK
    <2>2. CASE d # c
      <3>1. cpu[c].at = "code" /\ UNCHANGED <<threads, program, reports, dropped>>
        BY <1>1
      <3> QED
        BY <1>2, <1>4, <2>2, <3>1 DEF ProgramOK, Accounted
    <2> QED
      BY <2>1, <2>2
  <1>10. ASSUME NEW q \in Keys' PROVE RecordOK(q)'
    <2>1. /\ q \in Keys /\ RecordOK(q) /\ map[q] \in Cells /\ map'[q] = map[q]
      BY <1>1, <1>3 DEF RecordsInv, FieldsInv, TypeOK, Keys
    <2>2. \A d \in Cpus : cpu'[d].at \in {"cwd", "args"} => cpu'[d] = cpu[d]
      BY <1>2
    <2>3. program' = program
      BY <1>1
    <2> DEFINE d == cell[map[q]]
               e == cell'[map'[q]]
    <2>4. /\ e.pid = d.pid /\ e.exec = d.exec /\ e.binary = d.binary
          /\ e.cwd = d.cwd /\ e.args = d.args
      BY <1>6, <2>1
    <2>5. OutsideExec(q)' = OutsideExec(q)
      BY <1>2
    <2>6. d = cell[map[q]] /\ e = cell'[map'[q]]
      OBVIOUS
    <2> HIDE DEF d, e
    <2> QED
      BY <2>1, <2>2, <2>3, <2>4, <2>5, <2>6 DEF RecordOK
  <1>11. UnracedInv'
    <2> SUFFICES ASSUME ~raced PROVE UnracedInv'
      BY <1>1 DEF UnracedInv
    <2>1. ASSUME NEW d \in Cpus PROVE HoldsOwn(d)'
      <3>1. HoldsOwn(d) /\ HoldsOwn(c)
        BY DEF RecordsInv, UnracedInv
      <3>2. CASE d = c
        BY <1>1, <1>2, <1>6, <3>1, <3>2 DEF HoldsOwn
      <3>3. CASE d # c /\ cpu[d].at \in Exit
        <4>1. cpu[d].proc # cpu[c].proc
          BY <1>1, <3>1, <3>3 DEF HoldsOwn
        <4>2. /\ cpu[d].cell \in Cells /\ cpu[d].proc \in Procs
              /\ cpu[c].proc \in Procs
          BY <1>1, <1>4, <3>3, BpfAssumption DEF ProgramOK
        <4>3. cpu[d].cell # cpu[c].cell
          <5>1. /\ map[cpu[d].proc] = cpu[d].cell /\ map[cpu[c].proc] = cpu[c].cell
                /\ cpu[d].cell # NoCell /\ cpu[c].cell # NoCell
            BY <1>1, <1>5, <3>1, <3>3, <4>2, BpfAssumption DEF HoldsOwn
          <5>2. cpu[d].proc \in Keys /\ cpu[c].proc \in Keys
            BY <4>2, <5>1 DEF Keys
          <5>3. \A q, r \in Keys : map[q] = map[r] => q = r
            BY <1>3 DEF TypeOK
          <5> QED
            BY <4>1, <5>1, <5>2, <5>3
        <4> QED
          BY <1>1, <1>2, <1>6, <3>1, <3>3, <4>2, <4>3 DEF HoldsOwn
      <3>4. CASE d # c /\ cpu[d].at \notin Exit
        BY <1>2, <3>4 DEF HoldsOwn
      <3> QED
        BY <3>2, <3>3, <3>4
    <2>2. ASSUME NEW q \in Keys' PROVE Unreported(q)'
      <3>1. Unreported(q)
        BY <1>3 DEF RecordsInv, UnracedInv
      <3>2. \A d \in Exiting(q) : cpu[d].at = "delete" =>
               d \in Exiting(q)' /\ cpu'[d].at = "delete"
        BY <1>1, <1>2 DEF Exiting
      <3> QED
        BY <1>1, <3>1, <3>2 DEF Unreported
    <2> QED
      BY <2>1, <2>2 DEF UnracedInv
  <1> QED
    BY <1>7, <1>8, <1>9, <1>10, <1>11 DEF RecordsInv, ProgramsInv, FieldsInv

\* The report, if perf_submit takes it.
LEMMA SubmitInv ==
    ASSUME RecordsInv, NEW c \in Cpus, Submit(c)
    PROVE  /\ RecordsInv'
           /\ ReportsAreWhole => ReportsAreWhole'
           /\ OneReportPerProgram => OneReportPerProgram'
  <1> DEFINE p == cpu[c].proc
             report == [data |-> cell[cpu[c].cell], by |-> p, of |-> program[p],
                        cpu |-> c]
  <1>1. /\ cpu[c].at = "submit" /\ Goto(c, "delete")
        /\ UNCHANGED <<threads, unstarted, ended, early, program, execs, map, cell,
                       faults, raced>>
        /\ \/ reports' = reports \cup {report} /\ dropped' = dropped
           \/ reports' = reports /\ dropped' = dropped \cup {program[p]}
    BY DEF Submit, kernel
  <1>2. /\ cpu' \in [Cpus -> Places]
        /\ cpu'[c].at = "delete" /\ cpu'[c].proc = p
        /\ cpu'[c].cell = cpu[c].cell /\ cpu'[c].status = cpu[c].status
        /\ \A d \in Cpus \ {c} : cpu'[d] = cpu[d]
        /\ \A q : Exiting(q)' = Exiting(q)
        /\ \A q : OutsideExec(q)' = OutsideExec(q)
    BY <1>1, ExitGoesOn
  <1>3. TypeOK /\ Keys' = Keys
    BY <1>1 DEF RecordsInv, Keys
  <1>4. ASSUME NEW d \in Cpus PROVE ProgramOK(d)
    BY DEF RecordsInv, ProgramsInv
  <1>5. /\ p \in Students /\ p \in Procs /\ program[p] \in 1..MaxExecs
        /\ program[p] <= execs
        /\ cpu[c].cell \in Cells /\ c \in Exiting(p)
        /\ cell[cpu[c].cell] \in Records /\ cpu[c].status \in Statuses
    <2>1. p \in Students /\ p \in Procs /\ program[p] # 0 /\ cpu[c].cell \in Cells
      BY <1>1, <1>4, BpfAssumption DEF ProgramOK
    <2>2. program[p] \in 0..execs /\ execs \in 0..MaxExecs
      BY <1>3, <2>1 DEF TypeOK
    <2>3. cell[cpu[c].cell] \in Records /\ cpu[c].status \in Statuses
      BY <1>3, <2>1 DEF TypeOK
    <2> QED
      BY <1>1, <2>1, <2>2, <2>3, BpfAssumption DEF Exiting
  <1>6. /\ report.data = cell[cpu[c].cell] /\ report.by = p
        /\ report.of = program[p]
    OBVIOUS
  <1>7. /\ reports' \subseteq [data : Records, by : Procs, of : 1..MaxExecs,
                               cpu : Cpus]
        /\ dropped' \subseteq 1..MaxExecs
    <2>1. report \in [data : Records, by : Procs, of : 1..MaxExecs, cpu : Cpus]
      BY <1>5, BpfAssumption
    <2> HIDE DEF report, p
    <2> QED
      BY <1>1, <1>3, <1>5, <2>1 DEF TypeOK
  <1> HIDE DEF report
  <1>8. TypeOK'
    <2>1. \A q, r \in Keys' : map'[q] = map'[r] => q = r
      BY <1>1, <1>3 DEF TypeOK
    <2> QED
      BY <1>1, <1>2, <1>3, <1>7, <2>1 DEF TypeOK, Places
  <1>9. RecordsAreLive'
    BY <1>1, <1>2, <1>3 DEF RecordsInv, RecordsAreLive
  <1>10. program[p] \in dropped' \cup {r.of : r \in reports'}
    BY <1>1, <1>6
  <1>11. /\ reports \subseteq reports' /\ dropped \subseteq dropped'
         /\ \A r \in reports' : r \in reports \/ r = report
    BY <1>1
  <1>12. ASSUME NEW d \in Cpus PROVE ProgramOK(d)'
    <2>1. CASE d = c
      BY <1>1, <1>2, <1>5, <1>10, <2>1 DEF ProgramOK, Accounted
    <2>2. CASE d # c
      BY <1>1, <1>2, <1>4, <1>11, <2>2 DEF ProgramOK, Accounted
    <2> QED
      BY <2>1, <2>2
  <1>13. ASSUME NEW q \in Keys' PROVE RecordOK(q)'
    <2>1. \A d \in Cpus : cpu'[d].at \in {"cwd", "args"} => cpu'[d] = cpu[d]
      BY <1>2
    <2> QED
      BY <1>1, <1>2, <1>3, <2>1 DEF RecordOK, RecordsInv, FieldsInv
  <1>14. ExecsInv'
    BY <1>1, <1>3, <1>5, <1>6, <1>11 DEF RecordsInv, ExecsInv, Accounted
  <1>15. UnracedInv'
    <2> SUFFICES ASSUME ~raced PROVE UnracedInv'
      BY <1>1 DEF UnracedInv
    <2>1. ASSUME NEW d \in Cpus PROVE HoldsOwn(d)'
      <3>1. HoldsOwn(d)
        BY DEF RecordsInv, UnracedInv
      <3>2. CASE d = c
        BY <1>1, <1>2, <3>1, <3>2 DEF HoldsOwn
      <3>3. CASE d # c
        BY <1>1, <1>2, <3>1, <3>3 DEF HoldsOwn
      <3> QED
        BY <3>2, <3>3
    <2>2. ASSUME NEW q \in Keys' PROVE Unreported(q)'
      <3>1. q \in Procs /\ Unreported(q)
        BY <1>3 DEF RecordsInv, UnracedInv, Keys
      <3>2. CASE q = p
        BY <1>2, <1>5, <3>2 DEF Unreported
      <3>3. CASE q # p
        <4>1. program[q] # program[p]
          BY <1>5, <3>1, <3>3 DEF RecordsInv, ExecsInv
        <4>2. \A d \in Exiting(q) : d \in Exiting(q)' /\ cpu'[d] = cpu[d]
          BY <1>2, <3>3 DEF Exiting
        <4> QED
          BY <1>1, <1>6, <1>11, <3>1, <4>1, <4>2 DEF Unreported
      <3> QED
        BY <3>2, <3>3
    <2> QED
      BY <2>1, <2>2 DEF UnracedInv
  <1>16. RecordsInv'
    BY <1>8, <1>9, <1>12, <1>13, <1>14, <1>15 DEF RecordsInv, ProgramsInv, FieldsInv
  <1>17. ASSUME ~raced
         PROVE  /\ p \in Keys /\ map[p] = cpu[c].cell
                /\ cell[cpu[c].cell].code = cpu[c].status \div 256
                /\ program[p] \notin early => ended[program[p]] = cpu[c].status
                /\ \A r \in reports : r.of # program[p]
    <2>1. HoldsOwn(c)
      BY <1>17 DEF RecordsInv, UnracedInv
    <2>2. /\ Exiting(p) = {c} /\ map[p] = cpu[c].cell /\ p \in Keys
          /\ cell[cpu[c].cell].code = cpu[c].status \div 256
          /\ program[p] \notin early => ended[program[p]] = cpu[c].status
      BY <1>1, <1>5, <2>1, BpfAssumption DEF HoldsOwn, Keys
    <2>3. Unreported(p)
      BY <1>17, <2>2 DEF RecordsInv, UnracedInv
    <2> QED
      BY <1>1, <2>2, <2>3 DEF Unreported
  <1>18. ASSUME ReportsAreWhole PROVE ReportsAreWhole'
    <2> SUFFICES ASSUME ~raced PROVE ReportsAreWhole'
      BY <1>1 DEF ReportsAreWhole
    <2>1. OutsideExec(p)
      BY <1>4, <1>5 DEF ProgramOK, OutsideExec
    <2>2. RecordOK(p)
      BY <1>17 DEF RecordsInv, FieldsInv
    <2>3. /\ report.data.pid = report.by
          /\ {report.data.exec, report.data.binary, report.data.cwd,
              report.data.args} = {report.of}
          /\ report.of \notin early =>
                ended[report.of] \in {Exited(report.data.code), Killed}
      <3>1. report.data = cell[map[p]]
        BY <1>6, <1>17
      <3>2. /\ cell[map[p]].pid = p /\ cell[map[p]].exec = program[p]
            /\ {cell[map[p]].binary, cell[map[p]].cwd, cell[map[p]].args} = {program[p]}
        BY <2>1, <2>2 DEF RecordOK
      <3>3. report.of \notin early =>
               ended[report.of] \in {Exited(report.data.code), Killed}
        BY <1>5, <1>6, <1>17, StatusFacts
      <3>4. {report.data.exec, report.data.binary, report.data.cwd,
             report.data.args} = {report.of}
        BY <1>6, <3>1, <3>2
      <3> QED
        BY <1>6, <3>1, <3>2, <3>3, <3>4
    <2> QED
      BY <1>1, <1>11, <1>18, <2>3 DEF ReportsAreWhole
  <1>19. ASSUME OneReportPerProgram PROVE OneReportPerProgram'
    BY <1>1, <1>6, <1>11, <1>17, <1>19 DEF OneReportPerProgram
  <1> QED
    BY <1>16, <1>18, <1>19

\* The record is deleted; its program is accounted for.
LEMMA DeleteInv ==
    ASSUME RecordsInv, NEW c \in Cpus, Delete(c)
    PROVE  RecordsInv'
  <1> DEFINE p == cpu[c].proc
  <1>1. /\ cpu[c].at = "delete" /\ cpu' = [cpu EXCEPT ![c] = Idle]
        /\ map' = [map EXCEPT ![p] = NoCell]
        /\ UNCHANGED <<threads, unstarted, ended, early, program, execs, cell, reports,
                       faults, dropped, raced>>
    BY DEF Delete, kernel, Forget, Return
  <1>2. TypeOK
    BY DEF RecordsInv
  <1>3. ASSUME NEW d \in Cpus PROVE ProgramOK(d)
    BY DEF RecordsInv, ProgramsInv
  <1>4. p \in Students /\ p \in Procs /\ program[p] # 0 /\ Accounted(program[p])
    BY <1>1, <1>3, BpfAssumption DEF ProgramOK
  <1> HIDE DEF p
  <1>5. /\ cpu' \in [Cpus -> Places] /\ cpu'[c] = Idle
        /\ \A d \in Cpus \ {c} : cpu'[d] = cpu[d]
    BY <1>1, <1>2, IdleIsPlace DEF TypeOK, Places
  <1>6. /\ map' \in [Procs -> Cells \cup {NoCell}]
        /\ map'[p] = NoCell
        /\ \A q \in Procs \ {p} : map'[q] = map[q]
        /\ Keys' = Keys \ {p}
    BY <1>1, <1>2, <1>4 DEF TypeOK, Keys
  <1>7. /\ \A q \in Procs : Exiting(q)' = Exiting(q) \ {c}
        /\ \A q \in Procs \ {p} : Exiting(q)' = Exiting(q)
    BY <1>5, IdleIsPlace DEF Exiting, p
  <1>8. \A q : OutsideExec(q)' = OutsideExec(q)
    BY <1>1, <1>5, IdleIsPlace DEF OutsideExec
  <1>9. TypeOK'
    <2>1. \A q, r \in Keys' : map'[q] = map'[r] => q = r
      BY <1>2, <1>6 DEF TypeOK, Keys
    <2> QED
      BY <1>1, <1>2, <1>5, <1>6, <2>1 DEF TypeOK, Places
  <1>10. RecordsAreLive'
    <2> SUFFICES ASSUME NEW q \in Keys' PROVE threads'[q] # {} \/ Exiting(q)' # {}
      BY DEF RecordsAreLive
    <2>1. q \in Keys /\ q \in Procs \ {p}
      BY <1>6 DEF Keys
    <2> QED
      BY <1>1, <1>7, <2>1 DEF RecordsInv, RecordsAreLive
  <1>11. ASSUME NEW d \in Cpus PROVE ProgramOK(d)'
    <2>1. CASE d = c
      BY <1>5, <2>1, IdleIsPlace DEF ProgramOK
    <2>2. CASE d # c
      <3>1. cpu[d].at \in Chain \cup Exit => cpu[d].proc \in Procs
        BY <1>3, BpfAssumption DEF ProgramOK
      <3>2. \A e \in Cpus : cpu'[e].at \in Chain => cpu'[e] = cpu[e]
        BY <1>5, IdleIsPlace
      <3> QED
        BY <1>1, <1>3, <1>5, <1>7, <2>2, <3>1, <3>2 DEF ProgramOK, Accounted
    <2> QED
      BY <2>1, <2>2
  <1>12. ASSUME NEW q \in Keys' PROVE RecordOK(q)'
    <2>1. q \in Keys /\ q # p /\ q \in Procs /\ RecordOK(q) /\ map'[q] = map[q]
      BY <1>6 DEF RecordsInv, FieldsInv, Keys
    <2>2. \A d \in Cpus : cpu'[d].at \in {"cwd", "args"} => cpu'[d] = cpu[d]
      BY <1>5, IdleIsPlace
    <2> QED
      BY <1>1, <1>8, <2>1, <2>2 DEF RecordOK
  <1>13. ExecsInv'
    BY <1>1, <1>4, <1>6 DEF RecordsInv, ExecsInv, Accounted
  <1>14. UnracedInv'
    <2> SUFFICES ASSUME ~raced PROVE UnracedInv'
      BY <1>1 DEF UnracedInv
    <2>1. ASSUME NEW d \in Cpus PROVE HoldsOwn(d)'
      <3>1. HoldsOwn(d) /\ HoldsOwn(c)
        BY DEF RecordsInv, UnracedInv
      <3>2. CASE d = c
        BY <1>5, <3>2, IdleIsPlace DEF HoldsOwn
      <3>3. CASE d # c
        <4>1. cpu[d].at \in Exit => cpu[d].proc \in Procs \ {p}
          BY <1>1, <1>3, <3>1, <3>3, BpfAssumption DEF HoldsOwn, ProgramOK, p
        <4> QED
          BY <1>1, <1>5, <1>6, <1>7, <3>1, <3>3, <4>1 DEF HoldsOwn
      <3> QED
        BY <3>2, <3>3
    <2>2. ASSUME NEW q \in Keys' PROVE Unreported(q)'
      <3>1. q \in Procs \ {p} /\ Unreported(q)
        BY <1>6 DEF RecordsInv, UnracedInv, Keys
      <3>2. \A d \in Exiting(q) : d \in Exiting(q)' /\ cpu'[d] = cpu[d]
        BY <1>5, <1>7, <3>1 DEF Exiting, p
      <3> QED
        BY <1>1, <3>1, <3>2 DEF Unreported
    <2> QED
      BY <2>1, <2>2 DEF UnracedInv
  <1> QED
    BY <1>9, <1>10, <1>11, <1>12, <1>13, <1>14 DEF RecordsInv, ProgramsInv, FieldsInv

\* The inductive invariant: what the map and the programs are like, and that the
\* reports so far are whole and one for each program.
ReportsInv == RecordsInv /\ ReportsAreWhole /\ OneReportPerProgram

LEMMA ReportsKept ==
    ASSUME ReportsInv, UNCHANGED reports, raced => raced', EndsStay
    PROVE  ReportsAreWhole' /\ OneReportPerProgram'
  <1>1. OneReportPerProgram'
    BY DEF ReportsInv, OneReportPerProgram
  <1>2. ASSUME ~raced', NEW r \in reports, r.of \notin early'
        PROVE  ended'[r.of] \in {Exited(r.data.code), Killed}
    <2>1. /\ r.of \in 1..MaxExecs /\ r.data.code \in ExitCodes
      BY DEF ReportsInv, RecordsInv, TypeOK, Records
    <2>2. ended[r.of] \in {Exited(r.data.code), Killed}
      BY <1>2 DEF ReportsInv, ReportsAreWhole, EndsStay
    <2>3. ended[r.of] # -1
      BY <2>1, <2>2, StatusFacts
    <2> QED
      BY <2>1, <2>2, <2>3 DEF EndsStay
  <1> QED
    BY <1>1, <1>2 DEF ReportsInv, ReportsAreWhole

LEMMA StepInv ==
    ReportsInv /\ [Next]_vars => ReportsInv'
  <1> SUFFICES ASSUME ReportsInv, [Next]_vars PROVE ReportsInv'
    OBVIOUS
  <1>0. RecordsInv
    BY DEF ReportsInv
  <1>1. ASSUME NEW p \in Procs, Fork(p) PROVE ReportsInv'
    BY <1>0, <1>1, ForkInv, ReportsKept DEF ReportsInv, Fork, EndsStay
  <1>2. ASSUME NEW p \in Procs, StartThread(p) PROVE ReportsInv'
    BY <1>0, <1>2, StartThreadInv, ReportsKept DEF ReportsInv, StartThread, EndsStay
  <1>3. ASSUME NEW p \in Procs, ExitGroup(p) PROVE ReportsInv'
    BY <1>0, <1>3, ExitGroupInv, ExitGroupEnds, ReportsKept DEF ReportsInv, ExitGroup
  <1>4. ASSUME NEW c \in Cpus, NEW p \in Procs, InitHandler(c, p) PROVE ReportsInv'
    <2>1. UNCHANGED <<reports, raced>> /\ EndsStay
      BY <1>4 DEF InitHandler, EndsStay
    <2> QED
      BY <1>0, <1>4, <2>1, InitHandlerInv, ReportsKept DEF ReportsInv
  <1>5. ASSUME NEW c \in Cpus, BinaryHandler(c) \/ CwdHandler(c) \/ ArgsHandler(c)
        PROVE  ReportsInv'
    <2>1. PICK at \in Chain, next \in Chain \cup {"idle"} :
             /\ Handler(c, at, next)
             /\ \/ at = "binary" /\ next = "cwd"
                \/ at = "cwd" /\ next = "args"
                \/ at = "args" /\ next = "idle"
      BY <1>5 DEF BinaryHandler, CwdHandler, ArgsHandler
    <2>2. UNCHANGED <<reports, raced>> /\ EndsStay
      BY <2>1 DEF Handler, kernel, EndsStay
    <2>3. RecordsInv'
      BY <1>0, <2>1, HandlerInv
    <2> QED
      BY <2>2, <2>3, ReportsKept DEF ReportsInv
  <1>6. ASSUME NEW c \in Cpus, NEW p \in Procs, ExitHandler(c, p) PROVE ReportsInv'
    <2>1. UNCHANGED reports
      BY <1>6 DEF ExitHandler
    <2>2. raced => raced'
      BY <1>6 DEF ExitHandler, Lookup
    <2>3. EndsStay
      BY <1>0, <1>6, Leaving DEF ExitHandler, RecordsInv
    <2> QED
      BY <1>0, <1>6, <2>1, <2>2, <2>3, ExitHandlerInv, ReportsKept DEF ReportsInv
  <1>7. ASSUME NEW c \in Cpus, StoreCode(c) PROVE ReportsInv'
    <2>1. UNCHANGED <<reports, raced>> /\ EndsStay
      BY <1>7 DEF StoreCode, kernel, EndsStay
    <2> QED
      BY <1>0, <1>7, <2>1, StoreCodeInv, ReportsKept DEF ReportsInv
  <1>8. ASSUME NEW c \in Cpus, Submit(c) PROVE ReportsInv'
    BY <1>0, <1>8, SubmitInv DEF ReportsInv
  <1>9. ASSUME NEW c \in Cpus, Delete(c) PROVE ReportsInv'
    <2>1. UNCHANGED <<reports, raced>> /\ EndsStay
      BY <1>9 DEF Delete, kernel, EndsStay
    <2> QED
      BY <1>0, <1>9, <2>1, DeleteInv, ReportsKept DEF ReportsInv
  <1>10. CASE UNCHANGED vars
    <2>1. TypeOK'
      BY <1>0, <1>10 DEF vars, kernel, RecordsInv, TypeOK, Keys
    <2>2. /\ UNCHANGED <<program, execs, early, cpu, map, cell, reports, dropped,
                         raced>>
          /\ \A q \in Procs : threads[q] # {} => threads'[q] # {}
          /\ EndsStay
      BY <1>10 DEF vars, kernel, EndsStay
    <2> QED
      BY <1>0, <2>1, <2>2, ProgramsUntouched, ReportsKept DEF ReportsInv
  <1> QED
    BY <1>1, <1>2, <1>3, <1>4, <1>5, <1>6, <1>7, <1>8, <1>9, <1>10 DEF Next

LEMMA Inductive ==
    Spec => []ReportsInv
  <1>1. Init => ReportsInv
    BY InitInv DEF ReportsInv, ReportsAreWhole, OneReportPerProgram, Init
  <1> QED
    BY <1>1, StepInv, PTL DEF Spec

\* However execs, exits and CPUs interleave, process_data holds one element for
\* each record, the record of the program its process is running, filled in by
\* the handlers that are past; no record outlives its process's last exit_handler.
THEOREM RecordsSafe ==
    Spec => []RecordsInv
  <1>1. ReportsInv => RecordsInv
    BY DEF ReportsInv
  <1> QED
    BY <1>1, Inductive, PTL

\* What exit_handler submits is about one program: its process, its binary,
\* directory and arguments; and, if no thread left the program early, the code the
\* program, not the thread, exited with, unless a signal killed it.  All unless two
\* threads of the process were in exit_handler at once.
THEOREM ReportsWhole ==
    Spec => []ReportsAreWhole
  <1>1. ReportsInv => ReportsAreWhole
    BY DEF ReportsInv
  <1> QED
    BY <1>1, Inductive, PTL

\* exit_handler runs in every thread, and submits a program once, but for that
\* same race.
THEOREM ReportedOnce ==
    Spec => []OneReportPerProgram
  <1>1. ReportsInv => OneReportPerProgram
    BY DEF ReportsInv
  <1> QED
    BY <1>1, Inductive, PTL

\* A student's program that has ended was reported, refused by a full map,
\* abandoned by a handler, or not taken by perf_submit: it is not just forgotten.
THEOREM EndsAccountedFor ==
    Spec => []EndsAreAccountedFor
  <1>1. ReportsInv => EndsAreAccountedFor
    BY BpfAssumption DEF ReportsInv, RecordsInv, RecordsAreLive, ExecsInv,
       EndsAreAccountedFor, Accounted
  <1> QED
    BY <1>1, Inductive, PTL

=============================================================================
