-------------------------- MODULE FilePipelineProofs --------------------------
(***************************************************************************)
(* Theorems about FilePipeline, for every set of sizes and every bound on  *)
(* changes and troubles: what is registered has its snapshot               *)
(* (RegisteredIsThere), snapshots are sound (SnapshotsSound), few are left *)
(* over (OrphansFew), the last change is captured when all is quiet        *)
(* (QuietCaptured), and a ready process works (ReadyWorks).  All five      *)
(* follow from one inductive invariant, Whole.                             *)
(***************************************************************************)
EXTENDS FilePipeline, FiniteSetTheorems, TLAPS

Kinds == {"modified", "deleted"}

\* Where process_event is says what its local variables are; a process that is
\* not alive handles nothing.
Steps ==
    /\ waiting = NoEvent \/ waiting.type \in Kinds
    /\ \A i \in 1..Len(queue) : queue[i].type \in Kinds
    /\ ~Alive => pc = "get" /\ queue = <<>> /\ waiting = NoEvent
    /\ pc = "get" => job = NoJob
    /\ pc \in {"size", "open", "first", "second", "verify", "snapshot", "write"} =>
          job.type = "modified"
    /\ pc = "empty" => job.type = "deleted"
    /\ pc = "enqueue" => job.type \in Kinds

\* The snapshot of the event at hand: its own file, not registered yet.
OwnFile ==
    /\ pc \in {"write", "enqueue"} =>
          job.id \in 1..ids /\ \A i \in 1..Len(spool) : spool[i].id # job.id
    /\ pc = "write" => [id |-> job.id, data |-> <<>>] \in files
    /\ pc = "enqueue" => [id |-> job.id, data |-> Data] \in files

\* An inode is never newer than the change it is in.
InodesInv == \A v \in 1..Last : log[v].inode <= v

\* Version v of the file is under the inode that process_event has open.
Opened(v) == v \in 1..Last /\ log[v].there /\ log[v].inode = job.inode

\* Version v is as new as the event, and within the limit if it is the event's.
Within(v) ==
    v \in 1..Last /\ v >= job.upto /\ (v = job.upto => log[v].size <= MaxSize)

\* The version whose size was seen before the first read is not newer than the
\* one read, and so on.
Reads ==
    /\ pc = "open" => (job.upto = Last => log[Last].size <= MaxSize)
    /\ pc \in {"first", "second", "verify"} => Opened(job.before) /\ Within(job.before)
    /\ pc \in {"second", "verify"} => Opened(job.first) /\ job.before <= job.first
    /\ pc = "verify" => Opened(job.second) /\ job.first <= job.second

\* Two reads of which the second may be of a newer version, but then behind the
\* same size and mtime.
Agree(first, second) ==
    /\ first \in 1..Last /\ second \in 1..Last /\ first <= second
    /\ first # second =>
          \E v \in 1..first, w \in second..Last :
              log[v].size = log[w].size /\ log[v].mtime = log[w].mtime

Verified ==
    pc \in {"snapshot", "write", "enqueue"} /\ job.type = "modified" =>
        Within(job.first) /\ Agree(job.first, job.second)

\* The newest event that is not registered yet.
Newest ==
    IF waiting # NoEvent THEN waiting
    ELSE IF queue # <<>> THEN queue[Len(queue)]
    ELSE IF pc \in {"get", "flush"} THEN NoEvent
    ELSE [type |-> job.type, upto |-> job.upto]

\* What the observer has seen of the file is on its way or has arrived: for a
\* file that is there its last change, for one that is not its deletion.
UpToDate ==
    Alive =>
        /\ ~dirty => known = There(Last)
        /\ ~dirty /\ There(Last) =>
              \/ Newest = [type |-> "modified", upto |-> Last]
              \/ Newest = NoEvent /\ (Exempt(Last) \/ Captured(Last))
        /\ ~known =>
              \/ Newest.type = "deleted"
              \/ Newest = NoEvent /\ (missed \/ spool = <<>> \/ spool[Len(spool)].data = <<>>)

\* An executor that is closed is closed by shutdown, which has withdrawn
\* readiness and takes the server down before anything else may run.
Closing == executor \/ (term = "blocking" /\ ~ready) \/ ~server

FewOrphans == IsFiniteSet(files) /\ OrphansAreFew

Whole ==
    /\ FileInv /\ Steps /\ OwnFile /\ InodesInv /\ Reads /\ Verified
    /\ SnapshotsAreSound /\ FewOrphans /\ UpToDate /\ Closing
-----------------------------------------------------------------------------
(***************************************************************************)
(* Numbers, sequences, and the versions of the file.                       *)
(***************************************************************************)

\* A set of numbers up to n that is not empty has a greatest one.
LEMMA Greatest ==
    ASSUME NEW n \in Nat, NEW S \in SUBSET (1..n), S # {}
    PROVE  \E m \in S : \A x \in S : x <= m
  <1> DEFINE R == OpToRel(<, Nat)
             D == {d \in Nat : n - d \in S}
  <1>1. IsWellFoundedOn(R, Nat)
    BY NatLessThanWellFounded
  <1>2. \A x, y \in D : y < x => <<y, x>> \in R
    BY DEF OpToRel
  <1>3. D \subseteq Nat /\ D # {}
    <2>1. PICK x \in S : x \in 1..n
      OBVIOUS
    <2>2. n - x \in Nat /\ n - (n - x) = x
      BY <2>1
    <2> QED
      BY <2>1, <2>2
  <1> HIDE DEF R
  <1>4. PICK d \in D : \A e \in D : ~(<<e, d>> \in R)
    <2> HIDE DEF D
    <2> QED
      BY <1>1, <1>3, WFMin
  <1>5. ASSUME NEW x \in S PROVE x <= n - d
    <2>1. x \in Nat /\ n - x \in Nat /\ n - (n - x) = x
      BY DEF D
    <2>2. n - x \in D
      BY <2>1
    <2>3. ~(n - x < d)
      BY <1>2, <1>4, <2>2
    <2> QED
      BY <1>4, <2>1, <2>3
  <1> QED
    BY <1>4, <1>5

LEMMA Wider ==
    ASSUME NEW S, NEW T, S \subseteq T, NEW s \in Seq(S)
    PROVE  s \in Seq(T)
  OBVIOUS

LEMMA Appending ==
    ASSUME NEW S, NEW s \in Seq(S), NEW e \in S
    PROVE  /\ Append(s, e) \in Seq(S) /\ Len(Append(s, e)) = Len(s) + 1
           /\ Append(s, e)[Len(s) + 1] = e
           /\ \A i \in 1..Len(s) : Append(s, e)[i] = s[i]
           /\ Append(s, e) # <<>> /\ Len(s) \in Nat
  OBVIOUS

LEMMA Removing ==
    ASSUME NEW S, NEW s \in Seq(S), s # <<>>
    PROVE  /\ Tail(s) \in Seq(S) /\ Head(s) \in S /\ Head(s) = s[1]
           /\ 1 \in 1..Len(s) /\ Len(s) \in Nat
           /\ Len(Tail(s)) = Len(s) - 1
           /\ \A i \in 1..Len(Tail(s)) : i + 1 \in 1..Len(s) /\ Tail(s)[i] = s[i + 1]
           /\ Tail(s) = <<>> => Len(s) = 1
           /\ Tail(s) # <<>> => Tail(s)[Len(Tail(s))] = s[Len(s)]
  <1>1. /\ Tail(s) \in Seq(S) /\ Head(s) \in S /\ Head(s) = s[1]
        /\ 1 \in 1..Len(s) /\ Len(s) \in Nat
        /\ Len(Tail(s)) = Len(s) - 1
    OBVIOUS
  <1>2. \A i \in 1..Len(Tail(s)) : i + 1 \in 1..Len(s) /\ Tail(s)[i] = s[i + 1]
    OBVIOUS
  <1> DEFINE t == Tail(s)
  <1> HIDE DEF t
  <1>3. ASSUME t = <<>> PROVE Len(s) = 1
    <2>1. Len(t) = 0
      BY <1>3
    <2>2. Len(t) = Len(s) - 1 /\ Len(s) \in Nat
      BY <1>1 DEF t
    <2> HIDE <1>3
    <2> QED
      BY <2>1, <2>2
  <1>4. ASSUME t # <<>> PROVE t[Len(t)] = s[Len(s)]
    <2>1. t \in Seq(S) /\ Len(t) = Len(s) - 1
      BY <1>1 DEF t
    <2>2. Len(t) \in Nat /\ Len(t) # 0
      BY <1>4, <2>1
    <2>3. Len(t) \in 1..Len(t) /\ Len(t) + 1 = Len(s)
      BY <1>1, <2>1, <2>2
    <2>4. \A i \in 1..Len(t) : t[i] = s[i + 1]
      BY <1>2 DEF t
    <2> QED
      BY <2>3, <2>4
  <1> QED
    BY <1>1, <1>2, <1>3, <1>4 DEF t

\* What a change of the file consists of.
LEMMA LogEntries ==
    ASSUME DataOK, NEW v \in 1..Last
    PROVE  /\ log[v].there \in BOOLEAN /\ log[v].size \in Nat
           /\ log[v].inode \in 0..(MaxChanges + 1)
  <1> DEFINE S == [there : BOOLEAN, size : Sizes \cup {0}, mtime : 0..MaxTime,
                   inode : 1..(MaxChanges + 1)]
  <1>1. log \in Seq(S)
    BY DEF DataOK
  <1> HIDE DEF S
  <1>2. log[v] \in S
    BY <1>1 DEF Last
  <1>3. log[v].there \in BOOLEAN /\ log[v].size \in Sizes \cup {0}
    BY <1>2 DEF S
  <1>4. log[v].inode \in 1..(MaxChanges + 1)
    BY <1>2 DEF S
  <1>5. Sizes \cup {0} \subseteq Nat /\ MaxChanges \in Nat
    BY FilePipelineAssumption
  <1>6. log[v].inode \in 0..(MaxChanges + 1)
    BY <1>4, <1>5
  <1> QED
    BY <1>3, <1>5, <1>6

\* What a registered event consists of.
LEMMA SpoolEntries ==
    ASSUME DataOK, NEW i \in DOMAIN spool
    PROVE  /\ spool[i].id \in 1..ids /\ spool[i].upto \in 0..Last
           /\ spool[i].data \in Contents
           /\ spool[i].data # <<>> =>
                 spool[i].data[1] \in 1..Last /\ spool[i].data[2] \in 1..Last
  <1> DEFINE S == [id : 1..ids, upto : 0..Last, data : Contents]
  <1>1. spool \in Seq(S)
    BY DEF DataOK
  <1> HIDE DEF S
  <1>2. spool[i] \in S
    BY <1>1
  <1> QED
    BY <1>2 DEF S, Contents

\* The newest version under an inode that is in the workspace.
LEMMA NewestOfInode ==
    ASSUME Last \in Nat, NEW v, Opened(v)
    PROVE  Opened(OfInode) /\ v <= OfInode
  <1> DEFINE S == {u \in 1..Last : log[u].there /\ log[u].inode = job.inode}
  <1>1. v \in S
    BY DEF Opened
  <1>2. PICK m \in S : \A x \in S : x <= m
    <2>1. S \in SUBSET (1..Last) /\ S # {}
      BY <1>1
    <2> HIDE DEF S
    <2> QED
      BY <2>1, Greatest
  <1>3. \A w \in (m + 1)..Last : ~log[w].there \/ log[w].inode # job.inode
    <2> SUFFICES ASSUME NEW w \in (m + 1)..Last, log[w].there, log[w].inode = job.inode
                 PROVE  FALSE
      OBVIOUS
    <2>1. m \in Nat /\ w \in 1..Last /\ m < w
      BY <1>2
    <2>2. w <= m
      BY <1>2, <2>1
    <2> QED
      BY <2>1, <2>2
  <1>4. /\ OfInode \in 1..Last
        /\ log[OfInode].there /\ log[OfInode].inode = job.inode
        /\ \A w \in (OfInode + 1)..Last : ~log[w].there \/ log[w].inode # job.inode
    BY <1>2, <1>3 DEF OfInode
  <1>5. v <= OfInode
    <2>1. CASE OfInode < v
      <3>1. v \in (OfInode + 1)..Last
        BY <1>1, <1>4, <2>1
      <3> QED
        BY <1>1, <1>4, <3>1
    <2> QED
      BY <1>1, <1>4, <2>1
  <1> QED
    BY <1>4, <1>5 DEF Opened
-----------------------------------------------------------------------------
(***************************************************************************)
(* Steps of the process and of the clock, which touch no file.             *)
(***************************************************************************)

LEMMA SameNewest ==
    ASSUME UpToDate, Newest' = Newest,
           UNCHANGED <<phase, dirty, known, log, missed, spool>>
    PROVE  UpToDate'
  <1>1. /\ Alive' = Alive /\ There(Last)' = There(Last) /\ Last' = Last
        /\ Exempt(Last)' = Exempt(Last) /\ Captured(Last)' = Captured(Last)
    BY DEF Alive, There, Last, Exempt, Captured
  <1> QED
    BY <1>1 DEF UpToDate

LEMMA TickInv ==
    ASSUME Whole, Tick
    PROVE  Whole'
  <1>1. /\ now' = now + 1 /\ now < MaxTime
        /\ UNCHANGED <<log, dirty, known, waiting, queue, pc, job, files, spool, ids,
                       phase, observer, executor, ready, server, term, faults,
                       signals, restarts, missed>>
    BY DEF Tick, watch, storage, process, budgets
  <1>2. FileInv'
    BY <1>1, FilePipelineAssumption
       DEF Whole, FileInv, TypeOK, DataOK, ProcessOK, RegisteredHasSnapshot, Changes,
           Contents, Last
  <1>3. Steps' /\ OwnFile' /\ InodesInv'
    BY <1>1 DEF Whole, Steps, OwnFile, InodesInv, Data, Alive, Last
  <1>4. Reads' /\ Verified'
    BY <1>1 DEF Whole, Reads, Verified, Opened, Within, Agree, Last
  <1>5. SnapshotsAreSound' /\ FewOrphans'
    BY <1>1 DEF Whole, SnapshotsAreSound, TornOnlyUnnoticed, OversizeIsAhead,
                FewOrphans, OrphansAreFew, Alive, Last
  <1>6. UpToDate'
    <2>1. Newest' = Newest
      BY <1>1 DEF Newest
    <2> QED
      BY <1>1, <2>1, SameNewest DEF Whole
  <1> QED
    BY <1>1, <1>2, <1>3, <1>4, <1>5, <1>6 DEF Whole, Closing

\* A step of the process that leaves the event at hand where it is.
LEMMA ProcessStep ==
    ASSUME Whole, ProcessOK', Closing', Alive, Alive',
           UNCHANGED <<workspace, watch, queue, pc, job, storage, missed, restarts>>,
           faults' >= faults
    PROVE  Whole'
  <1>1. UNCHANGED <<now, log, dirty, known, waiting, queue, pc, job, files, spool, ids,
                    missed, restarts>>
    BY DEF workspace, watch, storage
  <1>2. FileInv'
    BY <1>1 DEF Whole, FileInv, TypeOK, DataOK, RegisteredHasSnapshot, Changes, Contents,
                Last
  <1>3. Steps' /\ OwnFile' /\ InodesInv'
    BY <1>1 DEF Whole, Steps, OwnFile, InodesInv, Data, Last
  <1>4. Reads' /\ Verified'
    BY <1>1 DEF Whole, Reads, Verified, Opened, Within, Agree, Last
  <1>5. SnapshotsAreSound'
    BY <1>1 DEF Whole, SnapshotsAreSound, TornOnlyUnnoticed, OversizeIsAhead, Last
  <1>6. FewOrphans'
    <2> DEFINE orphans == {f \in files : f.id \notin {spool[i].id : i \in DOMAIN spool}}
               more == IF pc \in {"write", "enqueue"} THEN 1 ELSE 0
    <2>1. orphans' = orphans /\ more' = more
      BY <1>1
    <2>2. IsFiniteSet(files) /\ IsFiniteSet(orphans)
      BY FS_Subset DEF Whole, FewOrphans
    <2>3. Cardinality(orphans) <= faults + restarts + more
      BY DEF Whole, FewOrphans, OrphansAreFew, Alive
    <2>4. /\ Cardinality(orphans) \in Nat
          /\ faults \in Nat /\ faults' \in Nat /\ restarts \in Nat /\ more \in Nat
      BY <2>2, FS_CardinalityType, FilePipelineAssumption
         DEF Whole, FileInv, TypeOK, ProcessOK
    <2> HIDE DEF orphans, more
    <2>5. Cardinality(orphans') <= faults' + restarts' + more'
      BY <1>1, <2>1, <2>3, <2>4
    <2> QED
      BY <1>1, <2>2, <2>5 DEF FewOrphans, OrphansAreFew, orphans, more, Alive
  <1>7. UpToDate'
    <2>1. Newest' = Newest /\ There(Last)' = There(Last) /\ Last' = Last
          /\ Exempt(Last)' = Exempt(Last) /\ Captured(Last)' = Captured(Last)
      BY <1>1 DEF Newest, There, Last, Exempt, Captured
    <2> QED
      BY <1>1, <2>1 DEF Whole, UpToDate
  <1> QED
    BY <1>2, <1>3, <1>4, <1>5, <1>6, <1>7 DEF Whole

\* The process stops handling events, or has stopped: what was at hand is lost.
LEMMA Stopping ==
    ASSUME Whole, ProcessOK', Closing', ~Alive',
           pc' = "get", job' = NoJob, queue' = <<>>, waiting' = NoEvent,
           UNCHANGED <<workspace, dirty, known, storage, restarts>>,
           faults' >= faults
    PROVE  Whole'
  <1>1. UNCHANGED <<now, log, dirty, known, files, spool, ids, restarts>>
    BY DEF workspace, storage
  <1>2. NoEvent \in [type : Types, upto : 0..Last]
    BY DEF NoEvent, Types, Whole, FileInv, TypeOK, DataOK, Changes
  <1>3. NoJob \in [type : Types, upto : 0..Last, inode : 0..(MaxChanges + 1),
                   before : Changes, first : Changes, second : Changes, id : 0..ids]
    BY FilePipelineAssumption
       DEF NoJob, Types, Whole, FileInv, TypeOK, DataOK, Changes
  <1>4. FileInv'
    <2>1. queue' \in Seq([type : Types, upto : 0..Last])
      OBVIOUS
    <2>2. DataOK'
      BY <1>1, <1>2, <1>3, <2>1
         DEF Whole, FileInv, TypeOK, DataOK, Changes, Contents, Last
    <2>3. RegisteredHasSnapshot'
      BY <1>1 DEF Whole, FileInv, RegisteredHasSnapshot
    <2> QED
      BY <2>2, <2>3 DEF FileInv, TypeOK
  <1>5. Steps' /\ OwnFile' /\ InodesInv' /\ Reads' /\ Verified' /\ UpToDate'
    BY <1>1 DEF Whole, Steps, OwnFile, InodesInv, Reads, Verified, UpToDate, Last
  <1>6. SnapshotsAreSound'
    BY <1>1 DEF Whole, SnapshotsAreSound, TornOnlyUnnoticed, OversizeIsAhead, Last
  <1>7. FewOrphans'
    <2> DEFINE orphans == {f \in files : f.id \notin {spool[i].id : i \in DOMAIN spool}}
    <2>1. orphans' = orphans
      BY <1>1
    <2>2. IsFiniteSet(files) /\ IsFiniteSet(orphans)
      BY FS_Subset DEF Whole, FewOrphans
    <2>3. \/ Cardinality(orphans) <= faults + restarts
          \/ Cardinality(orphans) <= faults + restarts + 1
      BY FilePipelineAssumption
         DEF Whole, FewOrphans, OrphansAreFew, FileInv, TypeOK, ProcessOK
    <2>4. /\ Cardinality(orphans) \in Nat
          /\ faults \in Nat /\ faults' \in Nat /\ restarts \in Nat
      BY <2>2, FS_CardinalityType, FilePipelineAssumption
         DEF Whole, FileInv, TypeOK, ProcessOK
    <2> HIDE DEF orphans
    <2>5. Cardinality(orphans') <= faults' + restarts' + 1
      BY <1>1, <2>1, <2>3, <2>4
    <2>6. phase' \in {"cancelled", "ended"}
      BY DEF ProcessOK, Alive
    <2> QED
      BY <1>1, <2>2, <2>5, <2>6 DEF FewOrphans, OrphansAreFew, orphans
  <1> QED
    BY <1>4, <1>5, <1>6, <1>7 DEF Whole

\* The event at hand is over and nothing of it is left: but a snapshot file, if
\* it failed after creating it.
LEMMA EventOver ==
    ASSUME Whole, Alive, Alive', Drop, UpToDate', Closing', ProcessOK',
           UNCHANGED <<workspace, watch, queue, storage, restarts>>,
           \/ faults' = faults + 1
           \/ faults' = faults /\ pc \notin {"write", "enqueue"}
    PROVE  Whole'
  <1>1. /\ UNCHANGED <<now, log, dirty, known, waiting, queue, files, spool, ids,
                       restarts>>
        /\ pc' = "get" /\ job' = NoJob
    BY DEF workspace, watch, storage, Drop
  <1>2. NoJob \in [type : Types, upto : 0..Last, inode : 0..(MaxChanges + 1),
                   before : Changes, first : Changes, second : Changes, id : 0..ids]
    BY FilePipelineAssumption
       DEF NoJob, Types, Whole, FileInv, TypeOK, DataOK, Changes
  <1>3. FileInv'
    BY <1>1, <1>2
       DEF Whole, FileInv, TypeOK, DataOK, RegisteredHasSnapshot, Changes, Contents,
           Last
  <1>4. Steps' /\ OwnFile' /\ InodesInv' /\ Reads' /\ Verified'
    BY <1>1 DEF Whole, Steps, OwnFile, InodesInv, Reads, Verified, Last
  <1>5. SnapshotsAreSound'
    BY <1>1 DEF Whole, SnapshotsAreSound, TornOnlyUnnoticed, OversizeIsAhead, Last
  <1>6. FewOrphans'
    <2> DEFINE orphans == {f \in files : f.id \notin {spool[i].id : i \in DOMAIN spool}}
               more == IF pc \in {"write", "enqueue"} THEN 1 ELSE 0
    <2>1. orphans' = orphans
      BY <1>1
    <2>2. IsFiniteSet(files) /\ IsFiniteSet(orphans)
      BY FS_Subset DEF Whole, FewOrphans
    <2>3. Cardinality(orphans) <= faults + restarts + more
      BY DEF Whole, FewOrphans, OrphansAreFew, Alive
    <2>4. /\ Cardinality(orphans) \in Nat /\ faults \in Nat /\ restarts \in Nat
      BY <2>2, FS_CardinalityType, FilePipelineAssumption
         DEF Whole, FileInv, TypeOK, ProcessOK
    <2>5. faults + more <= faults'
      BY <2>4
    <2>6. more \in Nat /\ faults' \in Nat
      BY <2>4
    <2> HIDE DEF orphans, more
    <2>7. Cardinality(orphans') <= faults' + restarts' + 0
      BY <1>1, <2>1, <2>3, <2>4, <2>5, <2>6
    <2> QED
      BY <1>1, <2>2, <2>7 DEF FewOrphans, OrphansAreFew, orphans, Alive
  <1> QED
    BY <1>3, <1>4, <1>5, <1>6 DEF Whole
-----------------------------------------------------------------------------
(***************************************************************************)
(* main: start, shutdown, end.                                             *)
(***************************************************************************)

\* A trouble more is within their bound.
LEMMA TroubleCounts ==
    ASSUME ProcessOK, Trouble
    PROVE  /\ faults + 1 \in 0..MaxTroubles /\ signals + 1 \in 0..MaxTroubles
           /\ restarts + 1 \in 0..MaxTroubles
  BY FilePipelineAssumption DEF ProcessOK, Trouble

LEMMA MarkReadyInv ==
    ASSUME Whole, MarkReady
    PROVE  Whole'
  <1>1. ProcessOK' /\ Closing' /\ Alive /\ Alive' /\ faults' >= faults
    BY FilePipelineAssumption
       DEF Whole, FileInv, TypeOK, ProcessOK, Closing, MarkReady, Loop, Alive, budgets
  <1> QED
    BY <1>1, ProcessStep DEF MarkReady, budgets

LEMMA SignalInv ==
    ASSUME Whole, Signal
    PROVE  Whole'
  <1>1. ProcessOK' /\ Closing' /\ Alive /\ Alive' /\ faults' >= faults
    BY FilePipelineAssumption, TroubleCounts
       DEF Whole, FileInv, TypeOK, ProcessOK, Closing, Signal, Loop, Alive
  <1> QED
    BY <1>1, ProcessStep DEF Signal

LEMMA ShutdownBeginsInv ==
    ASSUME Whole, ShutdownBegins
    PROVE  Whole'
  <1>1. Alive /\ Alive' /\ faults' >= faults /\ ProcessOK'
    <2>1. ProcessOK /\ faults \in Nat
      BY FilePipelineAssumption DEF Whole, FileInv, TypeOK, ProcessOK
    <2>2. /\ observer' \in BOOLEAN /\ executor' \in BOOLEAN /\ ready' \in BOOLEAN
          /\ server' \in BOOLEAN /\ missed' \in BOOLEAN
      BY <2>1 DEF ProcessOK, ShutdownBegins
    <2>3. /\ term' \in {"no", "pending", "blocking", "done"}
          /\ phase' \in {"starting", "running", "cancelled", "ended"}
      BY <2>1 DEF ProcessOK, ShutdownBegins
    <2>4. Alive /\ Alive'
      BY DEF ShutdownBegins, Loop, Alive
    <2>5. faults' = faults /\ signals' = signals /\ restarts' = restarts
      BY DEF ShutdownBegins, budgets
    <2>6. ProcessOK'
      BY <2>1, <2>2, <2>3, <2>5 DEF ProcessOK
    <2> QED
      BY <2>1, <2>4, <2>5, <2>6
  <1>3. Closing'
    BY DEF Closing, ShutdownBegins
  <1> QED
    BY <1>1, <1>3, ProcessStep DEF ShutdownBegins, budgets

LEMMA ShutdownEndsInv ==
    ASSUME Whole, ShutdownEnds
    PROVE  Whole'
  <1>1. Alive /\ Alive' /\ faults' >= faults /\ ProcessOK'
    <2>1. ProcessOK /\ faults \in Nat
      BY FilePipelineAssumption DEF Whole, FileInv, TypeOK, ProcessOK
    <2>2. /\ observer' \in BOOLEAN /\ executor' \in BOOLEAN /\ ready' \in BOOLEAN
          /\ server' \in BOOLEAN /\ missed' \in BOOLEAN
      BY <2>1 DEF ProcessOK, ShutdownEnds
    <2>3. /\ term' \in {"no", "pending", "blocking", "done"}
          /\ phase' \in {"starting", "running", "cancelled", "ended"}
      BY <2>1 DEF ProcessOK, ShutdownEnds
    <2>4. Alive /\ Alive'
      BY DEF ShutdownEnds, Alive
    <2>5. faults' = faults /\ signals' = signals /\ restarts' = restarts
      BY DEF ShutdownEnds, budgets
    <2>6. ProcessOK'
      BY <2>1, <2>2, <2>3, <2>5 DEF ProcessOK
    <2> QED
      BY <2>1, <2>4, <2>5, <2>6
  <1>3. Closing'
    BY DEF Closing, ShutdownEnds
  <1> QED
    BY <1>1, <1>3, ProcessStep DEF ShutdownEnds, budgets

LEMMA ObserverDiesInv ==
    ASSUME Whole, ObserverDies
    PROVE  Whole'
  <1>1. Alive /\ Alive' /\ faults' >= faults /\ ProcessOK'
    <2>1. ProcessOK /\ faults \in Nat
      BY FilePipelineAssumption DEF Whole, FileInv, TypeOK, ProcessOK
    <2>2. /\ observer' \in BOOLEAN /\ executor' \in BOOLEAN /\ ready' \in BOOLEAN
          /\ server' \in BOOLEAN /\ missed' \in BOOLEAN
      BY <2>1 DEF ProcessOK, ObserverDies
    <2>3. /\ term' \in {"no", "pending", "blocking", "done"}
          /\ phase' \in {"starting", "running", "cancelled", "ended"}
      BY <2>1 DEF ProcessOK, ObserverDies
    <2>4. Alive /\ Alive'
      BY DEF ObserverDies, Alive
    <2>5. faults' = faults + 1 /\ Trouble /\ signals' = signals /\ restarts' = restarts
      BY DEF ObserverDies, budgets, Fault
    <2>6. ProcessOK'
      BY <2>1, <2>2, <2>3, <2>5, TroubleCounts DEF ProcessOK
    <2> QED
      BY <2>1, <2>4, <2>5, <2>6
  <1>3. Closing'
    BY DEF Closing, ObserverDies, Whole
  <1> QED
    BY <1>1, <1>3, ProcessStep DEF ObserverDies, budgets

LEMMA CancelInv ==
    ASSUME Whole, WatchdogRaises \/ TaskFails
    PROVE  Whole'
  <1>1. Cancel /\ (faults' = faults \/ Fault) /\ Loop
    BY DEF WatchdogRaises, TaskFails
  <1>2. ProcessOK' /\ Closing' /\ ~Alive' /\ faults' >= faults
    BY <1>1, FilePipelineAssumption, TroubleCounts
       DEF Whole, FileInv, TypeOK, ProcessOK, Closing, Cancel, Fault, Alive, budgets
  <1> QED
    BY <1>1, <1>2, Stopping DEF Cancel, Drop, budgets

LEMMA EndInv ==
    ASSUME Whole, End
    PROVE  Whole'
  <1>1. ~Alive /\ ~Alive' /\ faults' >= faults /\ ProcessOK'
    <2>1. ProcessOK /\ faults \in Nat
      BY FilePipelineAssumption DEF Whole, FileInv, TypeOK, ProcessOK
    <2>2. /\ observer' \in BOOLEAN /\ executor' \in BOOLEAN /\ ready' \in BOOLEAN
          /\ server' \in BOOLEAN /\ missed' \in BOOLEAN
      BY <2>1 DEF ProcessOK, End
    <2>3. /\ term' \in {"no", "pending", "blocking", "done"}
          /\ phase' \in {"starting", "running", "cancelled", "ended"}
      BY <2>1 DEF ProcessOK, End
    <2>4. ~Alive /\ ~Alive'
      BY DEF End, Alive
    <2>5. faults' = faults /\ signals' = signals /\ restarts' = restarts
      BY DEF End, budgets
    <2>6. ProcessOK'
      BY <2>1, <2>2, <2>3, <2>5 DEF ProcessOK
    <2> QED
      BY <2>1, <2>4, <2>5, <2>6
  <1>2. pc' = "get" /\ job' = NoJob /\ queue' = <<>> /\ waiting' = NoEvent
    BY <1>1 DEF End, watch, Whole, Steps
  <1>3. Closing'
    BY DEF Closing, End
  <1> QED
    BY <1>1, <1>3, <1>2, Stopping DEF End, watch, budgets

LEMMA KillInv ==
    ASSUME Whole, Kill
    PROVE  Whole'
  <1>1. ~Alive' /\ faults' >= faults /\ ProcessOK'
    <2>1. ProcessOK /\ faults \in Nat
      BY FilePipelineAssumption DEF Whole, FileInv, TypeOK, ProcessOK
    <2>2. /\ observer' \in BOOLEAN /\ executor' \in BOOLEAN /\ ready' \in BOOLEAN
          /\ server' \in BOOLEAN /\ missed' \in BOOLEAN
      BY <2>1 DEF ProcessOK, Kill
    <2>3. /\ term' \in {"no", "pending", "blocking", "done"}
          /\ phase' \in {"starting", "running", "cancelled", "ended"}
      BY <2>1 DEF ProcessOK, Kill
    <2>4. ~Alive'
      BY DEF Kill, Alive
    <2>5. faults' = faults /\ signals' = signals /\ restarts' = restarts
      BY DEF Kill, budgets
    <2>6. ProcessOK'
      BY <2>1, <2>2, <2>3, <2>5 DEF ProcessOK
    <2> QED
      BY <2>1, <2>4, <2>5, <2>6
  <1>3. Closing'
    BY DEF Closing, Kill
  <1> QED
    BY <1>1, <1>3, Stopping DEF Kill, Drop, budgets

LEMMA RestartInv ==
    ASSUME Whole, Restart
    PROVE  Whole'
  <1>1. /\ phase = "ended" /\ phase' = "starting" /\ Trouble /\ restarts' = restarts + 1
        /\ dirty' = FALSE /\ known' = There(Last) /\ missed' = TRUE /\ executor' = TRUE
        /\ UNCHANGED <<now, log, waiting, queue, pc, job, files, spool, ids, ready,
                       faults, signals>>
    BY DEF Restart, workspace, storage
  <1>2. ~Alive /\ Alive' /\ pc = "get" /\ queue = <<>> /\ waiting = NoEvent
    BY <1>1 DEF Alive, Whole, Steps
  <1>3. DataOK'
    BY <1>1 DEF Whole, FileInv, TypeOK, DataOK, Changes, Contents, Last, There
  <1>4. ProcessOK'
    <2>1. ProcessOK
      BY DEF Whole, FileInv, TypeOK
    <2>2. /\ observer' \in BOOLEAN /\ executor' \in BOOLEAN /\ ready' \in BOOLEAN
          /\ server' \in BOOLEAN /\ missed' \in BOOLEAN
      BY <2>1 DEF ProcessOK, Restart
    <2>3. /\ term' \in {"no", "pending", "blocking", "done"}
          /\ phase' \in {"starting", "running", "cancelled", "ended"}
      BY <2>1 DEF ProcessOK, Restart
    <2> QED
      BY <1>1, <2>1, <2>2, <2>3, TroubleCounts DEF ProcessOK
  <1>5. RegisteredHasSnapshot' /\ Closing'
    BY <1>1 DEF Whole, FileInv, RegisteredHasSnapshot, Closing
  <1>6. Steps' /\ OwnFile' /\ InodesInv' /\ Reads' /\ Verified'
    BY <1>1, <1>2 DEF Whole, Steps, OwnFile, InodesInv, Reads, Verified, Last
  <1>7. SnapshotsAreSound'
    BY <1>1 DEF Whole, SnapshotsAreSound, TornOnlyUnnoticed, OversizeIsAhead, Last
  <1>8. FewOrphans'
    <2> DEFINE orphans == {f \in files : f.id \notin {spool[i].id : i \in DOMAIN spool}}
    <2>1. orphans' = orphans
      BY <1>1
    <2>2. IsFiniteSet(files) /\ IsFiniteSet(orphans)
      BY FS_Subset DEF Whole, FewOrphans
    <2>3. Cardinality(orphans) <= faults + restarts + 1
      BY <1>1 DEF Whole, FewOrphans, OrphansAreFew
    <2>4. Cardinality(orphans) \in Nat /\ faults \in Nat /\ restarts \in Nat
      BY <2>2, FS_CardinalityType, FilePipelineAssumption
         DEF Whole, FileInv, TypeOK, ProcessOK
    <2> HIDE DEF orphans
    <2>5. Cardinality(orphans') <= faults' + restarts' + 0
      BY <1>1, <2>1, <2>3, <2>4
    <2> QED
      BY <1>1, <1>2, <2>2, <2>5 DEF FewOrphans, OrphansAreFew, orphans
  <1>9. UpToDate'
    <2>1. Newest' = NoEvent
      BY <1>1, <1>2 DEF Newest
    <2>2. There(Last)' = There(Last)
      BY <1>1 DEF There, Last
    <2> QED
      BY <1>1, <2>1, <2>2 DEF UpToDate, Exempt
  <1> QED
    BY <1>3, <1>4, <1>5, <1>6, <1>7, <1>8, <1>9 DEF Whole, FileInv, TypeOK
-----------------------------------------------------------------------------
(***************************************************************************)
(* The student, the observer and the debouncer.                            *)
(***************************************************************************)

\* What the versions before were, they stay.
LEMMA FileChanges ==
    ASSUME Whole, Write \/ Remove
    PROVE  Whole'
  <1>1. PICK there \in BOOLEAN, size \in Sizes \cup {0} : Append1(there, size)
    BY DEF Write, Remove
  <1> DEFINE Change == [there : BOOLEAN, size : Sizes \cup {0}, mtime : 0..MaxTime,
                        inode : 1..(MaxChanges + 1)]
             new == [there |-> there, size |-> size, mtime |-> now, inode |-> Inode]
  <1>2. /\ Last < MaxChanges /\ log' = Append(log, new) /\ dirty' = TRUE
        /\ UNCHANGED <<now, known, waiting, queue, pc, job, files, spool, ids, phase,
                       observer, executor, ready, server, term, faults, signals,
                       restarts, missed>>
    BY <1>1 DEF Append1, storage, process, budgets
  <1>3. log \in Seq(Change) /\ Last \in Nat /\ Last = Len(log) /\ MaxChanges \in Nat
    BY FilePipelineAssumption DEF Whole, FileInv, TypeOK, DataOK, Changes, Last
  <1>4. Inode \in 1..(Last + 1) /\ new.inode = Inode
    <2>1. ASSUME Last # 0 PROVE log[Last].inode \in 1..Last
      <3>1. Last \in 1..Last /\ log[Last] \in Change
        <4> HIDE DEF Change, new
        <4> QED
          BY <1>3, <2>1
      <3>2. log[Last].inode \in Nat \ {0}
        <4> HIDE DEF new
        <4>1. log[Last].inode \in 1..(MaxChanges + 1)
          BY <3>1
        <4> HIDE DEF Change
        <4> QED
          BY <1>3, <4>1
      <3>3. log[Last].inode <= Last
        BY <3>1 DEF Whole, InodesInv
      <3> HIDE DEF Change, new
      <3> QED
        BY <1>3, <3>2, <3>3
    <2> QED
      BY <1>3, <2>1 DEF Inode
  <1>5. new \in Change
    <2>1. now \in 0..MaxTime
      BY DEF Whole, FileInv, TypeOK, DataOK
    <2>2. Inode \in 1..(MaxChanges + 1)
      BY <1>2, <1>3, <1>4
    <2> QED
      BY <2>1, <2>2
  <1> HIDE DEF Change
  <1>6. log' \in Seq(Change) /\ Last' = Last + 1 /\ log'[Last + 1] = new
        /\ \A v \in 1..Last : log'[v] = log[v]
    <2> HIDE DEF new
    <2> QED
      BY <1>2, <1>3, <1>5, Appending DEF Last
  <1> HIDE DEF new
  <1>7. /\ 1..Last \subseteq 1..Last' /\ 0..Last \subseteq 0..Last' /\ Last' \in Changes
        /\ Contents \subseteq Contents'
    BY <1>2, <1>3, <1>6 DEF Changes, Contents
  <1>8. DataOK'
    <2>1. /\ waiting' \in [type : Types, upto : 0..Last']
          /\ job' \in [type : Types, upto : 0..Last', inode : 0..(MaxChanges + 1),
                before : Changes, first : Changes, second : Changes, id : 0..ids']
      BY <1>2, <1>7 DEF Whole, FileInv, TypeOK, DataOK
    <2>2. queue' \in Seq([type : Types, upto : 0..Last'])
      <3>1. [type : Types, upto : 0..Last] \subseteq [type : Types, upto : 0..Last']
        BY <1>7
      <3>2. queue \in Seq([type : Types, upto : 0..Last])
        BY DEF Whole, FileInv, TypeOK, DataOK
      <3> DEFINE S == [type : Types, upto : 0..Last]
                 T == [type : Types, upto : 0..Last']
      <3>3. S \subseteq T /\ queue \in Seq(S)
        BY <3>1, <3>2
      <3> HIDE DEF S, T
      <3>4. queue \in Seq(T)
        BY <3>3, Wider
      <3> QED
        BY <1>2, <3>4 DEF T
    <2>3. files' \subseteq [id : 1..ids', data : Contents']
      BY <1>2, <1>7 DEF Whole, FileInv, TypeOK, DataOK
    <2>4. spool' \in Seq([id : 1..ids', upto : 0..Last', data : Contents'])
      <3>1. [id : 1..ids, upto : 0..Last, data : Contents]
                \subseteq [id : 1..ids, upto : 0..Last', data : Contents']
        BY <1>7
      <3>2. spool \in Seq([id : 1..ids, upto : 0..Last, data : Contents])
        BY DEF Whole, FileInv, TypeOK, DataOK
      <3> DEFINE S == [id : 1..ids, upto : 0..Last, data : Contents]
                 T == [id : 1..ids, upto : 0..Last', data : Contents']
      <3>3. S \subseteq T /\ spool \in Seq(S)
        BY <3>1, <3>2
      <3> HIDE DEF S, T
      <3>4. spool \in Seq(T)
        BY <3>3, Wider
      <3> QED
        BY <1>2, <3>4 DEF T
    <2>5. /\ now' \in 0..MaxTime /\ dirty' \in BOOLEAN /\ known' \in BOOLEAN
          /\ pc' = pc /\ ids' \in Nat
          /\ \A f, g \in files' : f.id = g.id => f = g
      BY <1>2 DEF Whole, FileInv, TypeOK, DataOK
    <2>6. pc \in {"get", "size", "open", "first", "second", "verify", "snapshot",
                  "empty", "write", "enqueue", "flush"}
      BY DEF Whole, FileInv, TypeOK, DataOK
    <2>7. Changes' = Changes /\ Types' = Types
      BY DEF Changes, Types
    <2> QED
      BY <1>6, <1>7, <2>1, <2>2, <2>3, <2>4, <2>5, <2>6, <2>7 DEF DataOK, Change
  <1>9. ProcessOK' /\ RegisteredHasSnapshot' /\ Closing'
    BY <1>2 DEF Whole, FileInv, TypeOK, ProcessOK, RegisteredHasSnapshot, Closing
  <1>10. Steps' /\ OwnFile'
    BY <1>2 DEF Whole, Steps, OwnFile, Data, Alive
  <1>11. InodesInv'
    BY <1>3, <1>4, <1>6 DEF Whole, InodesInv
  <1>12. Reads'
    <2>1. ASSUME NEW v, Opened(v) PROVE Opened(v)'
      BY <1>2, <1>6, <1>7, <2>1 DEF Opened
    <2>2. ASSUME NEW v, Within(v) PROVE Within(v)'
      BY <1>2, <1>6, <1>7, <2>2 DEF Within
    <2>3. job'.upto # Last'
      BY <1>2, <1>3, <1>6 DEF Whole, FileInv, TypeOK, DataOK
    <2>4. /\ Opened(job.before) => Opened(job.before)'
          /\ Opened(job.first) => Opened(job.first)'
          /\ Opened(job.second) => Opened(job.second)'
          /\ Within(job.before) => Within(job.before)'
      BY <1>2, <2>1, <2>2
    <2> QED
      BY <1>2, <2>3, <2>4 DEF Whole, Reads
  <1>13. Verified'
    <2>1. ASSUME NEW a, NEW b, Agree(a, b) PROVE Agree(a, b)'
      <3>1. a \in 1..Last /\ b \in 1..Last /\ a <= b
        BY <2>1 DEF Agree
      <3>2. CASE a = b
        BY <1>7, <3>1, <3>2 DEF Agree
      <3>3. CASE a # b
        <4>1. PICK v \in 1..a, w \in b..Last :
                 log[v].size = log[w].size /\ log[v].mtime = log[w].mtime
          BY <2>1, <3>3 DEF Agree
        <4>2. v \in 1..Last /\ w \in 1..Last /\ w \in b..Last'
          BY <1>3, <1>6, <3>1
        <4>3. log'[v].size = log'[w].size /\ log'[v].mtime = log'[w].mtime
          BY <1>6, <4>1, <4>2
        <4> QED
          BY <1>7, <3>1, <4>2, <4>3 DEF Agree
      <3> QED
        BY <3>2, <3>3
    <2>2. ASSUME NEW v, Within(v) PROVE Within(v)'
      BY <1>2, <1>6, <1>7, <2>2 DEF Within
    <2> QED
      BY <1>2, <2>1, <2>2 DEF Whole, Verified
  <1>14. SnapshotsAreSound'
    <2>1. ASSUME NEW i \in DOMAIN spool, spool[i].data # <<>>
          PROVE  spool[i].data[1] \in 1..Last /\ spool[i].data[2] \in 1..Last
      BY <2>1, SpoolEntries DEF Whole, FileInv, TypeOK
    <2>2. TornOnlyUnnoticed'
      <3> SUFFICES ASSUME NEW i \in DOMAIN spool, spool[i].data # <<>>,
                          spool[i].data[1] # spool[i].data[2]
                   PROVE  \E v \in 1..spool[i].data[1], w \in spool[i].data[2]..Last' :
                             log'[v].size = log'[w].size /\ log'[v].mtime = log'[w].mtime
        BY <1>2 DEF TornOnlyUnnoticed
      <3>1. PICK v \in 1..spool[i].data[1], w \in spool[i].data[2]..Last :
               log[v].size = log[w].size /\ log[v].mtime = log[w].mtime
        BY DEF Whole, SnapshotsAreSound, TornOnlyUnnoticed
      <3>2. v \in 1..Last /\ w \in 1..Last /\ w \in spool[i].data[2]..Last'
        BY <1>3, <1>6, <2>1
      <3> QED
        BY <1>6, <3>1, <3>2
    <2>3. OversizeIsAhead'
      BY <1>2, <1>6, <1>7, <2>1 DEF Whole, SnapshotsAreSound, OversizeIsAhead
    <2> QED
      BY <2>2, <2>3 DEF SnapshotsAreSound
  <1>15. FewOrphans'
    BY <1>2 DEF Whole, FewOrphans, OrphansAreFew, Alive
  <1>16. UpToDate'
    <2>1. Newest' = Newest /\ Alive' = Alive
      BY <1>2 DEF Newest, Alive
    <2> QED
      BY <1>2, <2>1 DEF Whole, UpToDate
  <1> QED
    BY <1>8, <1>9, <1>10, <1>11, <1>12, <1>13, <1>14, <1>15, <1>16
       DEF Whole, FileInv, TypeOK

LEMMA ObserveInv ==
    ASSUME Whole, Observe
    PROVE  Whole'
  <1>1. /\ Alive /\ dirty' = FALSE /\ known' = There(Last)
        /\ waiting' = IF There(Last) THEN [type |-> "modified", upto |-> Last]
                      ELSE IF known THEN [type |-> "deleted", upto |-> Last]
                      ELSE waiting
        /\ UNCHANGED <<now, log, queue, pc, job, files, spool, ids, phase, observer,
                       executor, ready, server, term, faults, signals, restarts,
                       missed>>
    BY DEF Observe, workspace, storage, process, budgets
  <1>2. Last \in Nat /\ There(Last) \in BOOLEAN /\ waiting \in [type : Types, upto : 0..Last]
    <2>1. Last \in Nat /\ (Last # 0 => log[Last].there \in BOOLEAN)
      <3>1. Last \in Nat
        BY DEF Whole, FileInv, TypeOK, DataOK, Changes
      <3> QED
        BY <3>1, LogEntries DEF Whole, FileInv, TypeOK
    <2> QED
      BY <2>1 DEF There, Whole, FileInv, TypeOK, DataOK
  <1>3. waiting' \in [type : Types, upto : 0..Last]
    BY <1>1, <1>2 DEF Types
  <1>4. DataOK'
    BY <1>1, <1>2, <1>3 DEF Whole, FileInv, TypeOK, DataOK, Changes, Contents, Last
  <1>5. ProcessOK' /\ RegisteredHasSnapshot' /\ Closing'
    BY <1>1 DEF Whole, FileInv, TypeOK, ProcessOK, RegisteredHasSnapshot, Closing
  <1>6. Steps'
    <2>1. waiting' = NoEvent \/ waiting'.type \in Kinds
      BY <1>1 DEF Whole, Steps, Kinds
    <2> QED
      BY <1>1, <2>1 DEF Whole, Steps, Alive
  <1>7. OwnFile' /\ InodesInv' /\ Reads' /\ Verified'
    BY <1>1 DEF Whole, OwnFile, Data, InodesInv, Reads, Verified, Opened, Within,
                Agree, Last
  <1>8. SnapshotsAreSound' /\ FewOrphans'
    BY <1>1 DEF Whole, SnapshotsAreSound, TornOnlyUnnoticed, OversizeIsAhead,
                FewOrphans, OrphansAreFew, Alive, Last
  <1>9. UpToDate'
    <2>1. /\ Last' = Last /\ There(Last)' = There(Last) /\ Alive' = Alive
          /\ Exempt(Last)' = Exempt(Last) /\ Captured(Last)' = Captured(Last)
      BY <1>1 DEF Last, There, Alive, Exempt, Captured
    <2>2. CASE There(Last)
      <3>1. Newest' = [type |-> "modified", upto |-> Last] /\ known' = TRUE
        BY <1>1, <2>2 DEF Newest, NoEvent
      <3> QED
        BY <1>1, <2>1, <2>2, <3>1 DEF UpToDate
    <2>3. CASE ~There(Last) /\ known
      <3>1. Newest' = [type |-> "deleted", upto |-> Last]
        BY <1>1, <2>3 DEF Newest, NoEvent
      <3> QED
        BY <1>1, <2>1, <2>3, <3>1 DEF UpToDate
    <2>4. CASE ~There(Last) /\ ~known
      <3>1. Newest' = Newest
        BY <1>1, <2>4 DEF Newest
      <3> QED
        BY <1>1, <2>1, <2>4, <3>1 DEF Whole, UpToDate
    <2> QED
      BY <2>2, <2>3, <2>4
  <1> QED
    BY <1>4, <1>5, <1>6, <1>7, <1>8, <1>9 DEF Whole, FileInv, TypeOK

LEMMA FlushInv ==
    ASSUME Whole, Flush
    PROVE  Whole'
  <1>1. /\ Alive /\ waiting # NoEvent /\ waiting' = NoEvent
        /\ queue' = Append(queue, waiting)
        /\ UNCHANGED <<now, log, dirty, known, pc, job, files, spool, ids, phase,
                       observer, executor, ready, server, term, faults, signals,
                       restarts, missed>>
    BY DEF Flush, Loop, workspace, storage, process, budgets
  <1>2. /\ queue \in Seq([type : Types, upto : 0..Last])
        /\ waiting \in [type : Types, upto : 0..Last] /\ Last \in Nat
    BY DEF Whole, FileInv, TypeOK, DataOK, Changes
  <1>3. /\ queue' \in Seq([type : Types, upto : 0..Last])
        /\ Len(queue') = Len(queue) + 1 /\ queue'[Len(queue) + 1] = waiting
        /\ \A i \in 1..Len(queue) : queue'[i] = queue[i]
        /\ queue' # <<>> /\ Len(queue) \in Nat
    <2> DEFINE E == [type : Types, upto : 0..Last]
    <2>1. queue \in Seq(E) /\ waiting \in E
      BY <1>2
    <2> HIDE DEF E
    <2>2. /\ Append(queue, waiting) \in Seq(E)
          /\ Len(Append(queue, waiting)) = Len(queue) + 1
          /\ Append(queue, waiting)[Len(queue) + 1] = waiting
          /\ \A i \in 1..Len(queue) : Append(queue, waiting)[i] = queue[i]
          /\ Append(queue, waiting) # <<>> /\ Len(queue) \in Nat
      BY <2>1, Appending
    <2> QED
      BY <1>1, <2>2 DEF E
  <1>4. NoEvent \in [type : Types, upto : 0..Last]
    BY <1>2 DEF NoEvent, Types
  <1>5. DataOK'
    BY <1>1, <1>3, <1>4 DEF Whole, FileInv, TypeOK, DataOK, Changes, Contents, Last
  <1>6. ProcessOK' /\ RegisteredHasSnapshot' /\ Closing'
    BY <1>1 DEF Whole, FileInv, TypeOK, ProcessOK, RegisteredHasSnapshot, Closing
  <1>7. Steps'
    <2>1. waiting.type \in Kinds /\ \A i \in 1..Len(queue) : queue[i].type \in Kinds
      BY <1>1 DEF Whole, Steps
    <2>2. \A i \in 1..Len(queue') : i \in 1..Len(queue) \/ i = Len(queue) + 1
      BY <1>3
    <2>3. \A i \in 1..Len(queue') : queue'[i].type \in Kinds
      BY <1>3, <2>1, <2>2
    <2> QED
      BY <1>1, <2>3 DEF Whole, Steps, Alive
  <1>8. OwnFile' /\ InodesInv' /\ Reads' /\ Verified'
    BY <1>1 DEF Whole, OwnFile, Data, InodesInv, Reads, Verified, Opened, Within,
                Agree, Last
  <1>9. SnapshotsAreSound' /\ FewOrphans'
    BY <1>1 DEF Whole, SnapshotsAreSound, TornOnlyUnnoticed, OversizeIsAhead,
                FewOrphans, OrphansAreFew, Alive, Last
  <1>10. UpToDate'
    <2>1. Newest' = Newest
      BY <1>1, <1>3 DEF Newest
    <2> QED
      BY <1>1, <2>1, SameNewest DEF Whole
  <1> QED
    BY <1>5, <1>6, <1>7, <1>8, <1>9, <1>10 DEF Whole, FileInv, TypeOK
-----------------------------------------------------------------------------
(***************************************************************************)
(* FilemonPipeline.process_event.                                          *)
(***************************************************************************)

LEMMA TakeInv ==
    ASSUME Whole, Take
    PROVE  Whole'
  <1> DEFINE E == [type : Types, upto : 0..Last]
  <1>1. /\ Alive /\ pc = "get" /\ queue # <<>> /\ queue' = Tail(queue)
        /\ job' = [NoJob EXCEPT !.type = Head(queue).type, !.upto = Head(queue).upto]
        /\ pc' = IF Head(queue).type = "modified" THEN "size" ELSE "empty"
        /\ missed' = FALSE
        /\ UNCHANGED <<now, log, dirty, known, waiting, files, spool, ids, phase,
                       observer, executor, ready, server, term, faults, signals,
                       restarts>>
    BY DEF Take, Loop, workspace, watch, storage, process, budgets
  <1>2. queue \in Seq(E) /\ Last \in Nat /\ ids \in Nat
    BY DEF Whole, FileInv, TypeOK, DataOK, Changes
  <1>3. /\ queue' \in Seq(E) /\ Head(queue) \in E /\ Head(queue) = queue[1]
        /\ 1 \in 1..Len(queue) /\ Len(queue) \in Nat
        /\ \A i \in 1..Len(queue') : i + 1 \in 1..Len(queue) /\ queue'[i] = queue[i + 1]
        /\ queue' = <<>> => Len(queue) = 1
        /\ queue' # <<>> => queue'[Len(queue')] = queue[Len(queue)]
    <2> HIDE DEF E
    <2> QED
      BY <1>1, <1>2, Removing
  <1>4. /\ \A i \in 1..Len(queue) : queue[i].type \in Kinds
        /\ Len(queue) \in 1..Len(queue)
    BY <1>3 DEF Whole, Steps
  <1>5. /\ Head(queue).type \in Kinds /\ Head(queue).upto \in 0..Last
        /\ job' = [type |-> Head(queue).type, upto |-> Head(queue).upto, inode |-> 0,
                   before |-> 0, first |-> 0, second |-> 0, id |-> 0]
    <2>1. Head(queue).type \in Kinds /\ Head(queue).upto \in 0..Last
      BY <1>3, <1>4
    <2> HIDE DEF E
    <2> QED
      BY <1>1, <2>1 DEF NoJob
  <1>6. job'.type = Head(queue).type /\ job'.upto = Head(queue).upto
    BY <1>5
  <1>7. job' \in [type : Types, upto : 0..Last, inode : 0..(MaxChanges + 1),
                  before : Changes, first : Changes, second : Changes, id : 0..ids]
    BY <1>2, <1>5, FilePipelineAssumption DEF Kinds, Types, Changes
  <1>8. /\ pc' \in {"size", "empty"}
        /\ pc' = "size" => job'.type = "modified"
        /\ pc' = "empty" => job'.type = "deleted"
    BY <1>1, <1>5, <1>6 DEF Kinds
  <1>9. DataOK'
    BY <1>1, <1>3, <1>7, <1>8 DEF Whole, FileInv, TypeOK, DataOK, Changes, Contents, Last
  <1>10. ProcessOK' /\ RegisteredHasSnapshot' /\ Closing'
    BY <1>1 DEF Whole, FileInv, TypeOK, ProcessOK, RegisteredHasSnapshot, Closing
  <1>11. Steps'
    <2>1. \A i \in 1..Len(queue') : queue'[i].type \in Kinds
      BY <1>3, <1>4
    <2> QED
      BY <1>1, <1>8, <2>1 DEF Whole, Steps, Alive
  <1>12. OwnFile' /\ InodesInv' /\ Reads' /\ Verified'
    BY <1>1, <1>8 DEF Whole, OwnFile, InodesInv, Reads, Verified, Last
  <1>13. SnapshotsAreSound' /\ FewOrphans'
    BY <1>1, <1>8 DEF Whole, SnapshotsAreSound, TornOnlyUnnoticed, OversizeIsAhead,
                      FewOrphans, OrphansAreFew, Alive, Last
  <1>14. UpToDate'
    <2>1. Newest # NoEvent
      BY <1>1, <1>4 DEF Newest, NoEvent, Kinds
    <2>2. Newest' = Newest
      <3>1. CASE waiting # NoEvent
        BY <1>1, <3>1 DEF Newest
      <3>2. CASE waiting = NoEvent /\ queue' # <<>>
        BY <1>1, <1>3, <3>2 DEF Newest
      <3>3. CASE waiting = NoEvent /\ queue' = <<>>
        <4>1. Newest = Head(queue)
          BY <1>1, <1>3, <3>3 DEF Newest
        <4>2. Newest' = [type |-> Head(queue).type, upto |-> Head(queue).upto]
          BY <1>1, <1>6, <1>8, <3>3 DEF Newest
        <4> QED
          BY <1>3, <4>1, <4>2
      <3> QED
        BY <3>1, <3>2, <3>3
    <2>3. There(Last)' = There(Last) /\ Last' = Last /\ Alive' = Alive
      BY <1>1 DEF There, Last, Alive
    <2> QED
      BY <1>1, <2>1, <2>2, <2>3 DEF Whole, UpToDate
  <1> QED
    BY <1>9, <1>10, <1>11, <1>12, <1>13, <1>14 DEF Whole, FileInv, TypeOK

\* Between `get` and the registration the event is one of a known kind.
LEMMA AtHand ==
    ASSUME Whole, pc \notin {"get", "flush"}
    PROVE  /\ job.type \in Kinds /\ Alive
           /\ job \in [type : Types, upto : 0..Last, inode : 0..(MaxChanges + 1),
                       before : Changes, first : Changes, second : Changes, id : 0..ids]
           /\ job.upto \in 0..Last /\ Last \in Nat /\ ids \in Nat
           /\ 1..Last \subseteq Changes
  <1>1. pc \in {"size", "open", "first", "second", "verify", "snapshot",
                "empty", "write", "enqueue"}
    BY DEF Whole, FileInv, TypeOK, DataOK
  <1>2. /\ job \in [type : Types, upto : 0..Last, inode : 0..(MaxChanges + 1),
                    before : Changes, first : Changes, second : Changes, id : 0..ids]
        /\ Last \in Changes /\ ids \in Nat
    BY DEF Whole, FileInv, TypeOK, DataOK
  <1>3. Last \in Nat /\ Last <= MaxChanges
    BY <1>2, FilePipelineAssumption DEF Changes
  <1>4. 1..Last \subseteq Changes
    BY <1>3, FilePipelineAssumption DEF Changes
  <1> QED
    BY <1>1, <1>2, <1>3, <1>4 DEF Whole, Steps, Kinds

\* A step of process_event that only fills in a local variable.
LEMMA LocalStep ==
    ASSUME Whole, Alive,
           pc \in {"size", "open", "first", "second", "verify"},
           pc' \in {"open", "first", "second", "verify", "snapshot"},
           job' \in [type : Types, upto : 0..Last, inode : 0..(MaxChanges + 1),
                     before : Changes, first : Changes, second : Changes, id : 0..ids],
           job'.type = "modified", job'.upto = job.upto, job.type = "modified",
           UNCHANGED <<workspace, watch, queue, storage, process, faults, budgets, missed>>,
           Reads', Verified'
    PROVE  Whole'
  <1>1. UNCHANGED <<now, log, dirty, known, waiting, queue, files, spool, ids, phase,
                    observer, executor, ready, server, term, faults, signals, restarts,
                    missed>>
    BY DEF workspace, watch, storage, process, budgets
  <1>2. DataOK'
    BY <1>1 DEF Whole, FileInv, TypeOK, DataOK, Changes, Contents, Last
  <1>3. ProcessOK' /\ RegisteredHasSnapshot' /\ Closing'
    BY <1>1 DEF Whole, FileInv, TypeOK, ProcessOK, RegisteredHasSnapshot, Closing
  <1>4. Steps' /\ OwnFile' /\ InodesInv'
    BY <1>1 DEF Whole, Steps, OwnFile, InodesInv, Alive, Last
  <1>5. SnapshotsAreSound' /\ FewOrphans'
    BY <1>1 DEF Whole, SnapshotsAreSound, TornOnlyUnnoticed, OversizeIsAhead,
                FewOrphans, OrphansAreFew, Alive, Last
  <1>6. UpToDate'
    <2>1. Newest' = Newest
      BY <1>1 DEF Newest
    <2> QED
      BY <1>1, <2>1, SameNewest DEF Whole
  <1> QED
    BY <1>2, <1>3, <1>4, <1>5, <1>6 DEF Whole, FileInv, TypeOK

\* What waits, in the debouncer or in the queue, is an event.
LEMMA PendingIsAnEvent ==
    ASSUME Whole, waiting # NoEvent \/ queue # <<>>
    PROVE  Newest # NoEvent
  <1>1. CASE waiting # NoEvent
    BY <1>1 DEF Newest
  <1>2. CASE waiting = NoEvent /\ queue # <<>>
    <2>1. queue \in Seq([type : Types, upto : 0..Last])
      BY DEF Whole, FileInv, TypeOK, DataOK
    <2>2. Len(queue) \in 1..Len(queue)
      BY <1>2, <2>1
    <2>3. queue[Len(queue)].type \in Kinds
      BY <2>2 DEF Whole, Steps
    <2> QED
      BY <1>2, <2>3 DEF Newest, NoEvent, Kinds
  <1> QED
    BY <1>1, <1>2

\* An event may go without a trace if it failed, and is known to have; or if it
\* was not about the file as it is, or that is too large.
LEMMA Dropped ==
    ASSUME Whole, pc \notin {"get", "flush"}, pc' = "get",
           UNCHANGED <<log, dirty, known, waiting, queue, spool, phase>>,
           \/ missed' = TRUE
           \/ /\ missed' = missed /\ job.type = "modified"
              /\ There(Last) /\ ~dirty /\ job.upto = Last => Exempt(Last)
    PROVE  UpToDate'
  <1>1. /\ Last' = Last /\ There(Last)' = There(Last) /\ Alive' = Alive
        /\ job.type \in Kinds
    BY AtHand DEF Last, There, Alive
  <1>2. CASE waiting # NoEvent \/ queue # <<>>
    <2>1. Newest' = Newest
      BY <1>2 DEF Newest
    <2>2. Newest # NoEvent
      BY <1>2, PendingIsAnEvent
    <2> QED
      BY <1>1, <2>1, <2>2 DEF Whole, UpToDate
  <1>3. CASE waiting = NoEvent /\ queue = <<>>
    <2>1. Newest' = NoEvent /\ Newest = [type |-> job.type, upto |-> job.upto]
      BY <1>3 DEF Newest
    <2>2. Newest # NoEvent /\ Newest.type = job.type /\ Newest.upto = job.upto
      BY <1>1, <2>1 DEF NoEvent, Kinds
    <2>3. CASE missed' = TRUE
      BY <1>1, <2>1, <2>3 DEF Whole, UpToDate, Exempt
    <2>4. CASE missed' = missed /\ job.type = "modified"
               /\ (There(Last) /\ ~dirty /\ job.upto = Last => Exempt(Last))
      <3>1. Exempt(Last)' = Exempt(Last)
        BY <1>1, <2>4 DEF Exempt, Last, There
      <3>2. ASSUME Alive, ~dirty, There(Last) PROVE Exempt(Last)
        <4>1. Newest = [type |-> "modified", upto |-> Last]
          BY <2>2, <3>2 DEF Whole, UpToDate
        <4>2. job.upto = Last
          BY <2>2, <4>1
        <4> QED
          BY <2>4, <3>2, <4>2
      <3>3. Alive => known
        BY <2>2, <2>4 DEF Whole, UpToDate
      <3> QED
        BY <1>1, <2>1, <3>1, <3>2, <3>3 DEF Whole, UpToDate
    <2> QED
      BY <2>3, <2>4
  <1> QED
    BY <1>2, <1>3

LEMMA CheckSizeInv ==
    ASSUME Whole, CheckSize
    PROVE  Whole'
  <1>1. /\ Alive /\ pc = "size"
        /\ UNCHANGED <<workspace, watch, queue, storage, process, faults, budgets>>
    BY DEF CheckSize, Loop
  <1>2. UNCHANGED <<now, log, dirty, known, waiting, queue, files, spool, ids, phase,
                    observer, executor, ready, server, term, faults, signals, restarts>>
    BY <1>1 DEF workspace, watch, storage, process, budgets
  <1>3. job.type = "modified" /\ job.upto \in 0..Last /\ Last \in Nat
    BY <1>1, AtHand DEF Whole, Steps
  <1>4. CASE Drop
    <2>1. \/ missed' = TRUE
          \/ missed' = missed /\ (There(Last) => Exempt(Last))
      BY <1>1, <1>4 DEF CheckSize, Drop, TooLarge, Exempt
    <2>2. UpToDate'
      BY <1>1, <1>2, <1>3, <1>4, <2>1, Dropped DEF Drop
    <2>3. ProcessOK'
      BY <1>2, <2>1 DEF Whole, FileInv, TypeOK, ProcessOK
    <2>4. Closing' /\ Alive'
      BY <1>1, <1>2 DEF Whole, Closing, Alive
    <2> QED
      BY <1>1, <1>2, <1>4, <2>2, <2>3, <2>4, EventOver
  <1>5. CASE /\ There(Last) /\ ~TooLarge(log[Last].size)
             /\ pc' = "open" /\ job' = job /\ missed' = missed
    <2>1. log[Last].size <= MaxSize
      <3>1. log[Last].size \in Nat
        BY <1>3, <1>5, LogEntries DEF Whole, FileInv, TypeOK, There
      <3> QED
        BY <1>5, <3>1, FilePipelineAssumption DEF TooLarge
    <2>2. Reads' /\ Verified'
      BY <1>2, <1>5, <2>1 DEF Reads, Verified, Last
    <2> QED
      BY <1>1, <1>3, <1>5, <2>2, AtHand, LocalStep
  <1> QED
    BY <1>4, <1>5 DEF CheckSize

LEMMA OpenFileInv ==
    ASSUME Whole, OpenFile
    PROVE  Whole'
  <1>1. /\ Alive /\ pc = "open"
        /\ UNCHANGED <<workspace, watch, queue, storage, process, faults, budgets, missed>>
    BY DEF OpenFile, Thread
  <1>2. UNCHANGED <<now, log, dirty, known, waiting, queue, files, spool, ids, phase,
                    observer, executor, ready, server, term, faults, signals, restarts,
                    missed>>
    BY <1>1 DEF workspace, watch, storage, process, budgets
  <1>3. /\ job.type = "modified" /\ job.upto \in 0..Last /\ Last \in Nat
        /\ job \in [type : Types, upto : 0..Last, inode : 0..(MaxChanges + 1),
                    before : Changes, first : Changes, second : Changes, id : 0..ids]
    BY <1>1, AtHand DEF Whole, Steps
  <1>4. CASE ~There(Last)
    <2>1. Drop
      BY <1>4 DEF OpenFile
    <2>2. UpToDate'
      BY <1>1, <1>2, <1>3, <1>4, <2>1, Dropped DEF Drop
    <2>3. ProcessOK' /\ Closing' /\ Alive'
      BY <1>1, <1>2 DEF Whole, FileInv, TypeOK, ProcessOK, Closing, Alive
    <2> QED
      BY <1>1, <1>2, <2>1, <2>2, <2>3, EventOver
  <1>5. CASE There(Last)
    <2>1. pc' = "first" /\ job' = [job EXCEPT !.inode = log[Last].inode, !.before = Last]
      BY <1>5 DEF OpenFile
    <2>2. Last \in 1..Last /\ log[Last].there /\ log[Last].inode \in 0..(MaxChanges + 1)
      <3>1. Last \in 1..Last /\ log[Last].there
        BY <1>3, <1>5 DEF There
      <3> QED
        BY <3>1, LogEntries DEF Whole, FileInv, TypeOK
    <2>3. Last \in Changes
      BY DEF Whole, FileInv, TypeOK, DataOK
    <2>4. /\ job' \in [type : Types, upto : 0..Last, inode : 0..(MaxChanges + 1),
                       before : Changes, first : Changes, second : Changes, id : 0..ids]
          /\ job'.type = "modified" /\ job'.upto = job.upto
          /\ job'.inode = log[Last].inode /\ job'.before = Last
      BY <1>3, <2>1, <2>2, <2>3
    <2>5. Reads'
      <3>1. Opened(Last)' /\ Within(Last)'
        BY <1>1, <1>2, <1>3, <2>2, <2>4 DEF Opened, Within, Whole, Reads, Last
      <3>2. job'.before = Last'
        BY <1>2, <2>4 DEF Last
      <3> QED
        BY <2>1, <3>1, <3>2 DEF Reads, Opened, Within
    <2>6. Verified'
      BY <2>1 DEF Verified
    <2> QED
      BY <1>1, <1>3, <2>1, <2>4, <2>5, <2>6, LocalStep
  <1> QED
    BY <1>4, <1>5

LEMMA ReadFirstInv ==
    ASSUME Whole, ReadFirst
    PROVE  Whole'
  <1>1. /\ Alive /\ pc = "first" /\ pc' = "second"
        /\ job' = [job EXCEPT !.first = OfInode]
        /\ UNCHANGED <<workspace, watch, queue, storage, process, faults, budgets, missed>>
    BY DEF ReadFirst, Thread
  <1>2. Last' = Last /\ log' = log
    BY <1>1 DEF workspace, Last
  <1>3. /\ job.type = "modified" /\ Last \in Nat /\ 1..Last \subseteq Changes
        /\ job \in [type : Types, upto : 0..Last, inode : 0..(MaxChanges + 1),
                    before : Changes, first : Changes, second : Changes, id : 0..ids]
        /\ Opened(job.before) /\ Within(job.before)
    BY <1>1, AtHand DEF Whole, Steps, Reads
  <1>4. Opened(OfInode) /\ job.before <= OfInode
    BY <1>3, NewestOfInode
  <1>5. PICK v : v = OfInode
    OBVIOUS
  <1>6. /\ job' \in [type : Types, upto : 0..Last, inode : 0..(MaxChanges + 1),
                     before : Changes, first : Changes, second : Changes, id : 0..ids]
        /\ job'.type = "modified" /\ job'.upto = job.upto /\ job'.inode = job.inode
        /\ job'.before = job.before /\ job'.first = v
    BY <1>1, <1>3, <1>4, <1>5 DEF Opened
  <1>7. Reads'
    BY <1>1, <1>2, <1>3, <1>4, <1>5, <1>6 DEF Reads, Opened, Within
  <1>8. Verified'
    BY <1>1 DEF Verified
  <1> QED
    BY <1>1, <1>3, <1>6, <1>7, <1>8, LocalStep

LEMMA ReadSecondInv ==
    ASSUME Whole, ReadSecond
    PROVE  Whole'
  <1>1. /\ Alive /\ pc = "second" /\ pc' = "verify"
        /\ job' = [job EXCEPT !.second = OfInode]
        /\ UNCHANGED <<workspace, watch, queue, storage, process, faults, budgets, missed>>
    BY DEF ReadSecond, Thread
  <1>2. Last' = Last /\ log' = log
    BY <1>1 DEF workspace, Last
  <1>3. /\ job.type = "modified" /\ Last \in Nat /\ 1..Last \subseteq Changes
        /\ job \in [type : Types, upto : 0..Last, inode : 0..(MaxChanges + 1),
                    before : Changes, first : Changes, second : Changes, id : 0..ids]
        /\ Opened(job.before) /\ Within(job.before)
        /\ Opened(job.first) /\ job.before <= job.first
    BY <1>1, AtHand DEF Whole, Steps, Reads
  <1>4. Opened(OfInode) /\ job.first <= OfInode
    BY <1>3, NewestOfInode
  <1>5. PICK v : v = OfInode
    OBVIOUS
  <1>6. /\ job' \in [type : Types, upto : 0..Last, inode : 0..(MaxChanges + 1),
                     before : Changes, first : Changes, second : Changes, id : 0..ids]
        /\ job'.type = "modified" /\ job'.upto = job.upto /\ job'.inode = job.inode
        /\ job'.before = job.before /\ job'.first = job.first /\ job'.second = v
    BY <1>1, <1>3, <1>4, <1>5 DEF Opened
  <1>7. Reads'
    BY <1>1, <1>2, <1>3, <1>4, <1>5, <1>6 DEF Reads, Opened, Within
  <1>8. Verified'
    BY <1>1 DEF Verified
  <1> QED
    BY <1>1, <1>3, <1>6, <1>7, <1>8, LocalStep

\* What passes the second fstat is of one version, or of two between which the
\* file has kept its size and mtime; what does not pass has changed since.
LEMMA VerifyInv ==
    ASSUME Whole, Verify
    PROVE  Whole'
  <1>1. /\ Alive /\ pc = "verify"
        /\ UNCHANGED <<workspace, watch, queue, storage, process, faults, budgets, missed>>
    BY DEF Verify, Thread
  <1>2. UNCHANGED <<now, log, dirty, known, waiting, queue, files, spool, ids, phase,
                    observer, executor, ready, server, term, faults, signals, restarts,
                    missed>>
    BY <1>1 DEF workspace, watch, storage, process, budgets
  <1>3. /\ job.type = "modified" /\ Last \in Nat /\ job.upto \in 0..Last
        /\ job \in [type : Types, upto : 0..Last, inode : 0..(MaxChanges + 1),
                    before : Changes, first : Changes, second : Changes, id : 0..ids]
        /\ Opened(job.before) /\ Within(job.before)
        /\ Opened(job.first) /\ job.before <= job.first
        /\ Opened(job.second) /\ job.first <= job.second
    BY <1>1, AtHand DEF Whole, Steps, Reads
  <1>4. Opened(OfInode) /\ job.second <= OfInode
    BY <1>3, NewestOfInode
  <1>5. /\ job.before \in 1..Last /\ job.first \in 1..Last /\ job.second \in 1..Last
        /\ OfInode \in 1..Last
    BY <1>3, <1>4 DEF Opened
  <1>6. CASE ~SameFile(job.before, OfInode)
    <2>1. Drop
      BY <1>6 DEF Verify
    <2>2. job.before # OfInode
      BY <1>6 DEF SameFile, Signature
    <2>3. job.upto # Last
      BY <1>3, <1>4, <1>5, <2>2 DEF Within
    <2>4. UpToDate'
      BY <1>1, <1>2, <1>3, <2>1, <2>3, Dropped DEF Drop
    <2>5. ProcessOK' /\ Closing' /\ Alive'
      BY <1>1, <1>2 DEF Whole, FileInv, TypeOK, ProcessOK, Closing, Alive
    <2> QED
      BY <1>1, <1>2, <2>1, <2>4, <2>5, EventOver
  <1>7. CASE SameFile(job.before, OfInode)
    <2>1. pc' = "snapshot" /\ job' = job
      BY <1>7 DEF Verify
    <2>2. Within(job.first)
      <3>1. job.first >= job.upto /\ (job.first = job.upto => job.before = job.upto)
        BY <1>3, <1>5 DEF Within
      <3> QED
        BY <1>3, <1>5, <3>1 DEF Within
    <2>3. Agree(job.first, job.second)
      <3>1. /\ log[job.before].size = log[OfInode].size
            /\ log[job.before].mtime = log[OfInode].mtime
        BY <1>7 DEF SameFile, Signature
      <3>2. job.before \in 1..job.first /\ OfInode \in job.second..Last
        BY <1>3, <1>4, <1>5
      <3> QED
        BY <1>3, <1>5, <3>1, <3>2 DEF Agree
    <2>4. Verified'
      BY <1>2, <2>1, <2>2, <2>3 DEF Verified, Within, Agree, Last
    <2>5. Reads'
      BY <2>1 DEF Reads
    <2> QED
      BY <1>1, <1>3, <2>1, <2>4, <2>5, LocalStep
  <1> QED
    BY <1>6, <1>7

LEMMA CreateSnapshotInv ==
    ASSUME Whole, CreateSnapshot
    PROVE  Whole'
  <1> DEFINE new == [id |-> ids + 1, data |-> <<>>]
  <1>1. /\ Alive /\ pc \in {"snapshot", "empty"} /\ ids' = ids + 1
        /\ job' = [job EXCEPT !.id = ids + 1]
        /\ files' = files \cup {new}
        /\ pc' = IF pc = "snapshot" THEN "write" ELSE "enqueue"
        /\ UNCHANGED <<now, log, dirty, known, waiting, queue, spool, phase,
                       observer, executor, ready, server, term, faults, signals,
                       restarts, missed>>
    BY DEF CreateSnapshot, Loop, workspace, watch, process, budgets
  <1>2. /\ job \in [type : Types, upto : 0..Last, inode : 0..(MaxChanges + 1),
                    before : Changes, first : Changes, second : Changes, id : 0..ids]
        /\ ids \in Nat /\ Last \in Nat
    BY <1>1, AtHand
  <1>3. /\ job' \in [type : Types, upto : 0..Last, inode : 0..(MaxChanges + 1),
                     before : Changes, first : Changes, second : Changes, id : 0..ids']
        /\ job'.id = ids + 1 /\ job'.type = job.type /\ job'.upto = job.upto
        /\ job'.first = job.first /\ job'.second = job.second
    BY <1>1, <1>2
  <1>4. /\ 1..ids \subseteq 1..ids' /\ ids + 1 \in 1..ids' /\ ids + 1 \notin 1..ids
        /\ ids' \in Nat
    BY <1>1, <1>2
  <1>5. files \subseteq [id : 1..ids, data : Contents] /\ \A f \in files : f.id # ids + 1
    BY <1>2 DEF Whole, FileInv, TypeOK, DataOK
  <1>6. DataOK'
    <2>1. files' \subseteq [id : 1..ids', data : Contents]
      BY <1>1, <1>4, <1>5 DEF Contents
    <2>2. \A f, g \in files' : f.id = g.id => f = g
      <3>1. \A f, g \in files : f.id = g.id => f = g
        BY DEF Whole, FileInv, TypeOK, DataOK
      <3>2. new.id = ids + 1
        OBVIOUS
      <3> HIDE DEF new
      <3> QED
        BY <1>1, <1>5, <3>1, <3>2
    <2>3. spool' \in Seq([id : 1..ids', upto : 0..Last, data : Contents])
      <3> DEFINE S == [id : 1..ids, upto : 0..Last, data : Contents]
                 T == [id : 1..ids', upto : 0..Last, data : Contents]
      <3>1. S \subseteq T /\ spool \in Seq(S)
        BY <1>4 DEF Whole, FileInv, TypeOK, DataOK
      <3> HIDE DEF S, T
      <3>2. spool \in Seq(T)
        BY <3>1, Wider
      <3> QED
        BY <1>1, <3>2 DEF T
    <2>4. Last' = Last /\ Changes' = Changes /\ Contents' = Contents /\ Types' = Types
      BY <1>1 DEF Last, Changes, Contents, Types
    <2>5. pc' \in {"write", "enqueue"}
      BY <1>1
    <2> QED
      BY <1>1, <1>3, <1>4, <2>1, <2>2, <2>3, <2>4, <2>5 DEF Whole, FileInv, TypeOK, DataOK
  <1>7. ProcessOK' /\ Closing'
    BY <1>1 DEF Whole, FileInv, TypeOK, ProcessOK, Closing
  <1>8. RegisteredHasSnapshot'
    BY <1>1 DEF Whole, FileInv, RegisteredHasSnapshot
  <1>9. Steps'
    BY <1>1, <1>3 DEF Whole, Steps, Alive, Kinds
  <1>10. OwnFile'
    <2>1. \A i \in 1..Len(spool) : spool[i].id # ids + 1
      <3>1. \A i \in 1..Len(spool) : spool[i].id \in 1..ids
        <4>1. DOMAIN spool = 1..Len(spool)
          BY DEF Whole, FileInv, TypeOK, DataOK
        <4> QED
          BY <4>1, SpoolEntries DEF Whole, FileInv, TypeOK
      <3> QED
        BY <1>4, <3>1
    <2>2. [id |-> job'.id, data |-> <<>>] \in files'
      BY <1>1, <1>3
    <2>3. pc' = "enqueue" => Data' = <<>>
      BY <1>1, <1>3 DEF Whole, Steps, Data
    <2> HIDE DEF new
    <2> QED
      BY <1>1, <1>3, <1>4, <2>1, <2>2, <2>3 DEF OwnFile
  <1>11. InodesInv' /\ Reads'
    BY <1>1 DEF Whole, InodesInv, Reads, Last
  <1>12. Verified'
    <2>1. Last' = Last
      BY <1>1 DEF Last
    <2>2. CASE pc = "snapshot"
      BY <1>1, <1>3, <2>1, <2>2 DEF Whole, Verified, Within, Agree
    <2>3. CASE pc = "empty"
      BY <1>1, <1>3, <2>3 DEF Whole, Verified, Steps
    <2> QED
      BY <1>1, <2>2, <2>3
  <1>13. SnapshotsAreSound'
    BY <1>1 DEF Whole, SnapshotsAreSound, TornOnlyUnnoticed, OversizeIsAhead, Last
  <1>14. FewOrphans'
    <2> DEFINE named == {spool[i].id : i \in DOMAIN spool}
               orphans == {f \in files : f.id \notin named}
    <2>1. named' = named
      BY <1>1
    <2> HIDE DEF named
    <2>2. orphans' \subseteq orphans \cup {new} /\ orphans \subseteq files
      BY <1>1, <2>1
    <2>3. IsFiniteSet(files) /\ IsFiniteSet(orphans)
      BY <2>2, FS_Subset DEF Whole, FewOrphans
    <2>4. Cardinality(orphans) <= faults + restarts + 0
      BY <1>1 DEF Whole, FewOrphans, OrphansAreFew, Alive, named
    <2>5. Cardinality(orphans) \in Nat /\ faults \in Nat /\ restarts \in Nat
      BY <2>3, FS_CardinalityType, FilePipelineAssumption
         DEF Whole, FileInv, TypeOK, ProcessOK
    <2> HIDE DEF orphans, new
    <2>6. IsFiniteSet(files') /\ IsFiniteSet(orphans \cup {new})
      BY <1>1, <2>3, FS_AddElement
    <2>7. Cardinality(orphans \cup {new}) <= Cardinality(orphans) + 1
      BY <2>3, <2>5, FS_AddElement
    <2>8. /\ Cardinality(orphans') <= Cardinality(orphans \cup {new})
          /\ Cardinality(orphans') \in Nat /\ Cardinality(orphans \cup {new}) \in Nat
      BY <2>2, <2>6, FS_Subset, FS_CardinalityType
    <2>9. Cardinality(orphans') <= faults' + restarts' + 1
      BY <1>1, <2>4, <2>5, <2>7, <2>8
    <2>10. pc' \in {"write", "enqueue"}
      BY <1>1
    <2> QED
      BY <2>6, <2>9, <2>10 DEF FewOrphans, OrphansAreFew, orphans, named
  <1>15. UpToDate'
    <2>1. Newest' = Newest
      BY <1>1, <1>3 DEF Newest
    <2> QED
      BY <1>1, <2>1, SameNewest DEF Whole
  <1> QED
    BY <1>6, <1>7, <1>8, <1>9, <1>10, <1>11, <1>12, <1>13, <1>14, <1>15
       DEF Whole, FileInv, TypeOK

LEMMA WriteSnapshotInv ==
    ASSUME Whole, WriteSnapshot
    PROVE  Whole'
  <1> DEFINE old == [id |-> job.id, data |-> <<>>]
             new == [id |-> job.id, data |-> Data]
  <1>1. /\ Alive /\ pc = "write" /\ pc' = "enqueue"
        /\ files' = {f \in files : f.id # job.id} \cup {new}
        /\ UNCHANGED <<now, log, dirty, known, waiting, queue, job, spool, ids, phase,
                       observer, executor, ready, server, term, faults, signals,
                       restarts, missed>>
    BY DEF WriteSnapshot, Loop, workspace, watch, process, budgets
  <1>2. /\ job.type = "modified" /\ Last \in Nat /\ ids \in Nat
        /\ job.id \in 1..ids /\ \A i \in 1..Len(spool) : spool[i].id # job.id
        /\ old \in files
        /\ Within(job.first) /\ Agree(job.first, job.second)
    BY <1>1, AtHand DEF Whole, Steps, OwnFile, Verified
  <1>3. /\ files \subseteq [id : 1..ids, data : Contents] /\ IsFiniteSet(files)
        /\ \A f, g \in files : f.id = g.id => f = g
    BY DEF Whole, FileInv, TypeOK, DataOK, FewOrphans
  <1>4. Data \in Contents /\ Last' = Last /\ Data' = Data /\ Contents' = Contents
    BY <1>1, <1>2 DEF Data, Contents, Agree, Last
  <1>5. /\ new \in [id : 1..ids, data : Contents]
        /\ new.id = job.id /\ old.id = job.id
    BY <1>2, <1>4
  <1>6. /\ new \in files' /\ \A f \in files : f.id # job.id => f \in files'
        /\ \A f \in files' : f = new \/ (f \in files /\ f.id # job.id)
    BY <1>1
  <1>7. new = [id |-> job'.id, data |-> Data']
    BY <1>1, <1>4
  <1> HIDE DEF new, old
  <1>8. DataOK'
    <2>1. files' \subseteq [id : 1..ids, data : Contents]
      BY <1>3, <1>5, <1>6
    <2>2. \A f, g \in files' : f.id = g.id => f = g
      BY <1>3, <1>5, <1>6
    <2> QED
      BY <1>1, <1>4, <2>1, <2>2 DEF Whole, FileInv, TypeOK, DataOK, Changes
  <1>9. ProcessOK' /\ Closing'
    BY <1>1 DEF Whole, FileInv, TypeOK, ProcessOK, Closing
  <1>10. RegisteredHasSnapshot'
    <2> SUFFICES ASSUME NEW i \in DOMAIN spool
                 PROVE  [id |-> spool[i].id, data |-> spool[i].data] \in files'
      BY <1>1 DEF RegisteredHasSnapshot
    <2>1. DOMAIN spool = 1..Len(spool)
      BY DEF Whole, FileInv, TypeOK, DataOK
    <2>2. spool[i].id # job.id
      BY <1>2, <2>1
    <2>3. [id |-> spool[i].id, data |-> spool[i].data] \in files
      BY DEF Whole, FileInv, RegisteredHasSnapshot
    <2> QED
      BY <1>6, <2>2, <2>3
  <1>11. Steps'
    BY <1>1, <1>2 DEF Whole, Steps, Alive, Kinds
  <1>12. OwnFile'
    BY <1>1, <1>2, <1>6, <1>7 DEF OwnFile
  <1>13. InodesInv' /\ Reads'
    BY <1>1 DEF Whole, InodesInv, Reads, Last
  <1>14. Verified'
    BY <1>1, <1>2, <1>4 DEF Verified, Within, Agree
  <1>15. SnapshotsAreSound'
    BY <1>1 DEF Whole, SnapshotsAreSound, TornOnlyUnnoticed, OversizeIsAhead, Last
  <1>16. FewOrphans'
    <2> DEFINE named == {spool[i].id : i \in DOMAIN spool}
               orphans == {f \in files : f.id \notin named}
               others == orphans \ {old}
    <2>1. named' = named /\ job.id \notin named
      <3>1. DOMAIN spool = 1..Len(spool)
        BY DEF Whole, FileInv, TypeOK, DataOK
      <3> QED
        BY <1>1, <1>2, <3>1
    <2>2. Cardinality(orphans) <= faults + restarts + 1
      BY <1>1 DEF Whole, FewOrphans, OrphansAreFew, Alive
    <2> HIDE DEF named
    <2>3. old \in orphans /\ orphans \subseteq files
      BY <1>2, <1>5, <2>1
    <2>4. orphans' \subseteq others \cup {new}
      <3> SUFFICES ASSUME NEW f \in files', f.id \notin named, f # new
                   PROVE  f \in others
        BY <2>1
      <3>1. f \in files /\ f.id # job.id
        BY <1>6
      <3> QED
        BY <1>5, <3>1
    <2> HIDE DEF orphans
    <2>5. IsFiniteSet(orphans)
      BY <1>3, <2>3, FS_Subset
    <2>6. IsFiniteSet(others) /\ Cardinality(others) = Cardinality(orphans) - 1
      BY <2>3, <2>5, FS_RemoveElement
    <2> HIDE DEF others
    <2>7. /\ IsFiniteSet(others \cup {new})
          /\ Cardinality(others) \in Nat /\ Cardinality(orphans) \in Nat
          /\ Cardinality(others \cup {new}) <= Cardinality(others) + 1
      <3>1. Cardinality(others) \in Nat /\ Cardinality(orphans) \in Nat
        BY <2>5, <2>6, FS_CardinalityType
      <3>2. /\ IsFiniteSet(others \cup {new})
            /\ \/ Cardinality(others \cup {new}) = Cardinality(others)
               \/ Cardinality(others \cup {new}) = Cardinality(others) + 1
        BY <2>6, FS_AddElement
      <3> QED
        BY <3>1, <3>2
    <2>8. /\ Cardinality(orphans') <= Cardinality(others \cup {new})
          /\ Cardinality(orphans') \in Nat /\ Cardinality(others \cup {new}) \in Nat
      BY <2>4, <2>7, FS_Subset, FS_CardinalityType
    <2>9. faults \in Nat /\ restarts \in Nat
      BY FilePipelineAssumption DEF Whole, FileInv, TypeOK, ProcessOK
    <2>10. Cardinality(orphans') <= faults' + restarts' + 1
      BY <1>1, <2>2, <2>6, <2>7, <2>8, <2>9
    <2>11. IsFiniteSet(files')
      <3>1. files' \subseteq files \cup {new}
        BY <1>6
      <3>2. IsFiniteSet(files \cup {new})
        BY <1>3, FS_AddElement
      <3> QED
        BY <3>1, <3>2, FS_Subset
    <2> QED
      BY <1>1, <2>10, <2>11 DEF FewOrphans, OrphansAreFew, orphans, named
  <1>17. UpToDate'
    <2>1. Newest' = Newest
      BY <1>1 DEF Newest
    <2> QED
      BY <1>1, <2>1, SameNewest DEF Whole
  <1> QED
    BY <1>8, <1>9, <1>10, <1>11, <1>12, <1>13, <1>14, <1>15, <1>16, <1>17
       DEF Whole, FileInv, TypeOK

\* The event reaches the spool: its snapshot is complete by now, and when no
\* other event waits, it is of the file as the observer last saw it.
LEMMA EnqueueInv ==
    ASSUME Whole, Enqueue
    PROVE  Whole'
  <1> DEFINE new == [id |-> job.id, upto |-> job.upto, data |-> Data]
             own == [id |-> job.id, data |-> Data]
             S == [id : 1..ids, upto : 0..Last, data : Contents]
  <1>1. /\ Alive /\ pc = "enqueue" /\ pc' = "flush"
        /\ spool' = Append(spool, new)
        /\ UNCHANGED <<now, log, dirty, known, waiting, queue, job, files, ids, phase,
                       observer, executor, ready, server, term, faults, signals,
                       restarts, missed>>
    BY DEF Enqueue, Loop, workspace, watch, process, budgets
  <1>2. /\ job.type \in Kinds /\ job.upto \in 0..Last /\ Last \in Nat /\ ids \in Nat
        /\ job.id \in 1..ids /\ \A i \in 1..Len(spool) : spool[i].id # job.id
        /\ own \in files
        /\ job.type = "modified" => Within(job.first) /\ Agree(job.first, job.second)
    BY <1>1, AtHand DEF Whole, OwnFile, Verified
  <1>3. /\ job.type = "modified" => Data = <<job.first, job.second>>
        /\ job.type = "deleted" => Data = <<>>
        /\ job.type = "modified" \/ job.type = "deleted"
    BY <1>2 DEF Data, Kinds
  <1>4. Data \in Contents /\ Last' = Last /\ Contents' = Contents
    BY <1>1, <1>2, <1>3 DEF Contents, Agree, Last
  <1>5. /\ new \in S /\ new.id = job.id /\ new.upto = job.upto /\ new.data = Data
        /\ spool \in Seq(S)
    BY <1>2, <1>4 DEF Whole, FileInv, TypeOK, DataOK
  <1> HIDE DEF S, new
  <1>6. /\ spool' \in Seq(S) /\ Len(spool') = Len(spool) + 1 /\ Len(spool) \in Nat
        /\ spool'[Len(spool) + 1] = new /\ spool' # <<>>
        /\ \A i \in 1..Len(spool) : spool'[i] = spool[i]
        /\ DOMAIN spool' = 1..Len(spool') /\ DOMAIN spool = 1..Len(spool)
    BY <1>1, <1>5, Appending
  <1>7. \A i \in DOMAIN spool' : \/ i \in DOMAIN spool /\ spool'[i] = spool[i]
                                 \/ i = Len(spool) + 1 /\ spool'[i] = new
    BY <1>6
  <1>8. DataOK'
    <2>1. spool' \in Seq([id : 1..ids', upto : 0..Last', data : Contents'])
      BY <1>1, <1>4, <1>6 DEF S
    <2> QED
      BY <1>1, <1>4, <2>1 DEF Whole, FileInv, TypeOK, DataOK, Changes
  <1>9. ProcessOK' /\ Closing'
    BY <1>1 DEF Whole, FileInv, TypeOK, ProcessOK, Closing
  <1>10. RegisteredHasSnapshot'
    <2> SUFFICES ASSUME NEW i \in DOMAIN spool'
                 PROVE  [id |-> spool'[i].id, data |-> spool'[i].data] \in files
      BY <1>1 DEF RegisteredHasSnapshot
    <2>1. CASE i \in DOMAIN spool /\ spool'[i] = spool[i]
      BY <2>1 DEF Whole, FileInv, RegisteredHasSnapshot
    <2>2. CASE spool'[i] = new
      BY <1>2, <1>5, <2>2
    <2> QED
      BY <1>7, <2>1, <2>2
  <1>11. Steps' /\ OwnFile' /\ InodesInv' /\ Reads' /\ Verified'
    BY <1>1 DEF Whole, Steps, OwnFile, InodesInv, Reads, Verified, Alive, Last
  <1>12. SnapshotsAreSound'
    <2>1. TornOnlyUnnoticed'
      <3> SUFFICES ASSUME NEW i \in DOMAIN spool', spool'[i].data # <<>>,
                          spool'[i].data[1] # spool'[i].data[2]
                   PROVE  \E v \in 1..spool'[i].data[1], w \in spool'[i].data[2]..Last :
                             log[v].size = log[w].size /\ log[v].mtime = log[w].mtime
        BY <1>1, <1>4 DEF TornOnlyUnnoticed
      <3>1. CASE i \in DOMAIN spool /\ spool'[i] = spool[i]
        BY <3>1 DEF Whole, SnapshotsAreSound, TornOnlyUnnoticed
      <3>2. CASE spool'[i] = new
        <4>1. job.type = "modified" /\ Data = <<job.first, job.second>>
          BY <1>3, <1>5, <3>2
        <4>2. spool'[i].data[1] = job.first /\ spool'[i].data[2] = job.second
          BY <1>5, <3>2, <4>1
        <4> QED
          BY <1>2, <4>1, <4>2 DEF Agree
      <3> QED
        BY <1>7, <3>1, <3>2
    <2>2. OversizeIsAhead'
      <3> SUFFICES ASSUME NEW i \in DOMAIN spool', spool'[i].data # <<>>,
                          log[spool'[i].data[1]].size > MaxSize
                   PROVE  spool'[i].data[1] > spool'[i].upto
        BY <1>1 DEF OversizeIsAhead
      <3>1. CASE i \in DOMAIN spool /\ spool'[i] = spool[i]
        BY <3>1 DEF Whole, SnapshotsAreSound, OversizeIsAhead
      <3>2. CASE spool'[i] = new
        <4>1. job.type = "modified" /\ Data = <<job.first, job.second>>
          BY <1>3, <1>5, <3>2
        <4>2. spool'[i].data[1] = job.first /\ spool'[i].upto = job.upto
          BY <1>5, <3>2, <4>1
        <4>3. Within(job.first) /\ job.first \in 1..Last
          BY <1>2, <4>1 DEF Within
        <4>4. log[job.first].size \in Nat
          BY <4>3, LogEntries DEF Whole, FileInv, TypeOK
        <4>5. job.first # job.upto
          BY <4>2, <4>3, <4>4, FilePipelineAssumption DEF Within
        <4> QED
          BY <1>2, <4>2, <4>3, <4>5 DEF Within
      <3> QED
        BY <1>7, <3>1, <3>2
    <2> QED
      BY <2>1, <2>2 DEF SnapshotsAreSound
  <1>13. FewOrphans'
    <2> DEFINE named == {spool[i].id : i \in DOMAIN spool}
               orphans == {f \in files : f.id \notin named}
               left == orphans \ {own}
    <2>1. Cardinality(orphans) <= faults + restarts + 1
      BY <1>1 DEF Whole, FewOrphans, OrphansAreFew, Alive
    <2>2. named \subseteq named' /\ job.id \in named' /\ job.id \notin named
      BY <1>2, <1>5, <1>6
    <2>3. own.id = job.id
      OBVIOUS
    <2> HIDE DEF named, own
    <2>4. own \in orphans /\ orphans \subseteq files
      BY <1>2, <2>2, <2>3
    <2>5. orphans' \subseteq left
      BY <1>1, <2>2, <2>3
    <2>6. IsFiniteSet(files) /\ files' = files
      BY <1>1 DEF Whole, FewOrphans
    <2> HIDE DEF orphans
    <2>7. IsFiniteSet(orphans) /\ Cardinality(orphans) \in Nat
      BY <2>4, <2>6, FS_Subset, FS_CardinalityType
    <2>8. IsFiniteSet(left) /\ Cardinality(left) = Cardinality(orphans) - 1
      BY <2>4, <2>7, FS_RemoveElement
    <2> HIDE DEF left
    <2>9. Cardinality(orphans') <= Cardinality(left) /\ Cardinality(orphans') \in Nat
      BY <2>5, <2>8, FS_Subset, FS_CardinalityType
    <2>10. faults \in Nat /\ restarts \in Nat
      BY FilePipelineAssumption DEF Whole, FileInv, TypeOK, ProcessOK
    <2>11. Cardinality(orphans') <= faults' + restarts' + 0
      BY <1>1, <2>1, <2>7, <2>8, <2>9, <2>10
    <2> QED
      BY <1>1, <2>6, <2>11 DEF FewOrphans, OrphansAreFew, orphans, named, Alive
  <1>14. UpToDate'
    <2>1. /\ There(Last)' = There(Last) /\ Alive' = Alive
          /\ spool'[Len(spool')] = new
      BY <1>1, <1>6 DEF There, Alive, Last
    <2>2. CASE waiting # NoEvent \/ queue # <<>>
      <3>1. Newest' = Newest
        BY <1>1, <2>2 DEF Newest
      <3>2. Newest # NoEvent
        BY <1>1, <2>2, PendingIsAnEvent
      <3> QED
        BY <1>1, <1>4, <2>1, <3>1, <3>2 DEF Whole, UpToDate
    <2>3. CASE waiting = NoEvent /\ queue = <<>>
      <3>1. Newest' = NoEvent /\ Newest = [type |-> job.type, upto |-> job.upto]
        BY <1>1, <2>3 DEF Newest
      <3>2. Newest # NoEvent /\ Newest.type = job.type /\ Newest.upto = job.upto
        BY <1>3, <3>1 DEF NoEvent
      <3>3. ASSUME ~dirty, There(Last) PROVE Captured(Last)'
        <4>1. Newest = [type |-> "modified", upto |-> Last]
          BY <1>1, <3>2, <3>3 DEF Whole, UpToDate
        <4>2. job.type = "modified" /\ job.upto = Last
          BY <3>2, <4>1
        <4>3. job.first = Last /\ job.second = Last
          BY <1>2, <4>2 DEF Within, Agree
        <4>4. spool'[Len(spool')].data = <<Last, Last>>
          BY <1>3, <1>5, <2>1, <4>2, <4>3
        <4> QED
          BY <1>4, <1>6, <2>1, <3>3, <4>4 DEF Captured
      <3>4. ASSUME ~known PROVE spool'[Len(spool')].data = <<>>
        <4>1. job.type = "deleted"
          BY <1>1, <3>2, <3>4 DEF Whole, UpToDate
        <4> QED
          BY <1>3, <1>5, <2>1, <4>1
      <3> QED
        BY <1>1, <1>4, <2>1, <3>1, <3>3, <3>4 DEF Whole, UpToDate
    <2> QED
      BY <2>2, <2>3
  <1> QED
    BY <1>8, <1>9, <1>10, <1>11, <1>12, <1>13, <1>14 DEF Whole, FileInv, TypeOK

LEMMA RegisteredInv ==
    ASSUME Whole, Registered
    PROVE  Whole'
  <1>1. /\ Alive /\ pc = "flush" /\ Drop
        /\ UNCHANGED <<workspace, watch, queue, storage, process, faults, budgets, missed>>
    BY DEF Registered, Loop
  <1>2. UNCHANGED <<now, log, dirty, known, waiting, queue, files, spool, ids, phase,
                    observer, executor, ready, server, term, faults, signals, restarts,
                    missed>>
    BY <1>1 DEF workspace, watch, storage, process, budgets
  <1>3. UpToDate'
    <2>1. Newest' = Newest
      BY <1>1, <1>2 DEF Newest, Drop
    <2> QED
      BY <1>2, <2>1, SameNewest DEF Whole
  <1>4. ProcessOK' /\ Closing' /\ Alive'
    BY <1>1, <1>2 DEF Whole, FileInv, TypeOK, ProcessOK, Closing, Alive
  <1> QED
    BY <1>1, <1>2, <1>3, <1>4, EventOver

LEMMA StepFailsInv ==
    ASSUME Whole, StepFails
    PROVE  Whole'
  <1>1. /\ Alive /\ pc \in {"size", "snapshot", "empty", "write", "enqueue"}
        /\ Trouble /\ faults' = faults + 1 /\ Drop /\ missed' = TRUE
        /\ UNCHANGED <<workspace, watch, queue, storage, process, budgets>>
    BY DEF StepFails, Fault, Loop
  <1>2. UNCHANGED <<now, log, dirty, known, waiting, queue, files, spool, ids, phase,
                    observer, executor, ready, server, term, signals, restarts>>
    BY <1>1 DEF workspace, watch, storage, process, budgets
  <1>3. UpToDate'
    BY <1>1, <1>2, Dropped DEF Drop
  <1>4. ProcessOK'
    BY <1>1, <1>2, TroubleCounts DEF Whole, FileInv, TypeOK, ProcessOK
  <1>5. Closing' /\ Alive'
    BY <1>1, <1>2 DEF Whole, Closing, Alive
  <1> QED
    BY <1>1, <1>2, <1>3, <1>4, <1>5, EventOver
-----------------------------------------------------------------------------
(***************************************************************************)
(* The theorems.                                                           *)
(***************************************************************************)

LEMMA InitInv ==
    ASSUME Init
    PROVE  Whole
  <1>1. Last = 0 /\ Last \in Changes
    BY FilePipelineAssumption DEF Init, Last, Changes
  <1>2. NoEvent \in [type : Types, upto : 0..Last]
    BY <1>1 DEF NoEvent, Types
  <1>3. NoJob \in [type : Types, upto : 0..Last, inode : 0..(MaxChanges + 1),
                   before : Changes, first : Changes, second : Changes, id : 0..0]
    BY <1>1, FilePipelineAssumption DEF NoJob, Types, Changes
  <1>4. DataOK
    <2>1. /\ now \in 0..MaxTime /\ ids \in Nat /\ ids = 0
          /\ dirty \in BOOLEAN /\ known \in BOOLEAN /\ pc = "get"
      <3>1. dirty \in BOOLEAN /\ known \in BOOLEAN
        BY DEF Init
      <3>2. now = 0 /\ ids = 0 /\ pc = "get"
        BY DEF Init
      <3>3. 0 \in 0..MaxTime
        BY FilePipelineAssumption
      <3> QED
        BY <3>1, <3>2, <3>3
    <2>2. log = <<>> /\ queue = <<>> /\ spool = <<>> /\ files = {}
      BY DEF Init
    <2>3. waiting = NoEvent /\ job = NoJob
      BY DEF Init
    <2>4. /\ queue \in Seq([type : Types, upto : 0..Last])
          /\ spool \in Seq([id : 1..ids, upto : 0..Last, data : Contents])
          /\ log \in Seq([there : BOOLEAN, size : Sizes \cup {0}, mtime : 0..MaxTime,
                          inode : 1..(MaxChanges + 1)])
      BY <2>2
    <2>5. /\ job \in [type : Types, upto : 0..Last, inode : 0..(MaxChanges + 1),
                      before : Changes, first : Changes, second : Changes, id : 0..ids]
          /\ waiting \in [type : Types, upto : 0..Last]
      BY <1>2, <1>3, <2>1, <2>3
    <2>6. /\ files \subseteq [id : 1..ids, data : Contents]
          /\ \A f, g \in files : f.id = g.id => f = g
      BY <2>2
    <2> QED
      BY <1>1, <2>1, <2>4, <2>5, <2>6 DEF DataOK
  <1>5. ProcessOK
    <2>1. /\ observer \in BOOLEAN /\ executor \in BOOLEAN /\ ready \in BOOLEAN
          /\ server \in BOOLEAN /\ missed \in BOOLEAN
      BY DEF Init
    <2>2. phase = "starting" /\ term = "no" /\ faults = 0 /\ signals = 0 /\ restarts = 0
      BY DEF Init
    <2>3. 0 \in 0..MaxTroubles
      BY FilePipelineAssumption
    <2> QED
      BY <2>1, <2>2, <2>3 DEF ProcessOK
  <1>6. RegisteredHasSnapshot /\ SnapshotsAreSound
    BY DEF Init, RegisteredHasSnapshot, SnapshotsAreSound, TornOnlyUnnoticed,
           OversizeIsAhead
  <1>7. Steps /\ OwnFile /\ InodesInv /\ Reads /\ Verified
    BY <1>1 DEF Init, Steps, OwnFile, InodesInv, Reads, Verified, Alive
  <1>8. FewOrphans
    <2>1. {f \in files : f.id \notin {spool[i].id : i \in DOMAIN spool}} = {}
      BY DEF Init
    <2>2. IsFiniteSet(files) /\ Cardinality({}) = 0
      BY FS_EmptySet DEF Init
    <2> QED
      BY <2>1, <2>2 DEF FewOrphans, OrphansAreFew, Init
  <1>9. UpToDate
    BY <1>1 DEF Init, UpToDate, Newest, There
  <1>10. Closing
    BY DEF Init, Closing
  <1> QED
    BY <1>4, <1>5, <1>6, <1>7, <1>8, <1>9, <1>10 DEF Whole, FileInv, TypeOK

LEMMA Stutter ==
    ASSUME Whole, UNCHANGED vars
    PROVE  Whole'
  <1>1. UNCHANGED <<now, log, dirty, known, waiting, queue, pc, job, files, spool, ids,
                    phase, observer, executor, ready, server, term, faults, signals,
                    restarts, missed>>
    BY DEF vars, workspace, watch, storage, process, budgets
  <1>2. ProcessOK' /\ Closing'
    BY <1>1 DEF Whole, FileInv, TypeOK, ProcessOK, Closing
  <1>3. DataOK' /\ RegisteredHasSnapshot'
    BY <1>1 DEF Whole, FileInv, TypeOK, DataOK, RegisteredHasSnapshot, Changes,
                Contents, Last
  <1>4. Steps' /\ OwnFile' /\ InodesInv'
    BY <1>1 DEF Whole, Steps, OwnFile, InodesInv, Data, Alive, Last
  <1>5. Reads' /\ Verified'
    BY <1>1 DEF Whole, Reads, Verified, Opened, Within, Agree, Last
  <1>6. SnapshotsAreSound' /\ FewOrphans'
    BY <1>1 DEF Whole, SnapshotsAreSound, TornOnlyUnnoticed, OversizeIsAhead,
                FewOrphans, OrphansAreFew, Alive, Last
  <1>7. UpToDate'
    <2>1. Newest' = Newest
      BY <1>1 DEF Newest
    <2> QED
      BY <1>1, <2>1, SameNewest DEF Whole
  <1> QED
    BY <1>2, <1>3, <1>4, <1>5, <1>6, <1>7 DEF Whole, FileInv, TypeOK

THEOREM WholeHolds == Spec => []Whole
  <1>1. Init => Whole
    BY InitInv
  <1>2. Whole /\ [Next]_vars => Whole'
    <2> SUFFICES ASSUME Whole, [Next]_vars
                 PROVE  Whole'
      OBVIOUS
    <2>1. CASE Write \/ Remove \/ Tick \/ Observe \/ Flush
      BY <2>1, FileChanges, TickInv, ObserveInv, FlushInv
    <2>2. CASE PipelineStep \/ StepFails
      <3>1. CASE Take \/ CheckSize \/ OpenFile \/ ReadFirst \/ ReadSecond \/ Verify
        BY <3>1, TakeInv, CheckSizeInv, OpenFileInv, ReadFirstInv, ReadSecondInv,
           VerifyInv
      <3>2. CASE CreateSnapshot \/ WriteSnapshot \/ Enqueue \/ Registered \/ StepFails
        BY <3>2, CreateSnapshotInv, WriteSnapshotInv, EnqueueInv, RegisteredInv,
           StepFailsInv
      <3> QED
        BY <2>2, <3>1, <3>2 DEF PipelineStep
    <2>3. CASE Lifecycle
      BY <2>3, MarkReadyInv, ShutdownBeginsInv, ShutdownEndsInv, CancelInv, EndInv,
         RestartInv DEF Lifecycle
    <2>4. CASE Signal \/ ObserverDies \/ TaskFails \/ Kill
      BY <2>4, SignalInv, ObserverDiesInv, CancelInv, KillInv
    <2>5. CASE UNCHANGED vars
      BY <2>5, Stutter
    <2> QED
      BY <2>1, <2>2, <2>3, <2>4, <2>5 DEF Next
  <1> QED
    BY <1>1, <1>2, PTL DEF Spec

\* Whatever is spooled has its snapshot file, complete (pipeline.py writes the
\* file before SnapshotSender enqueues the event), at every moment at which the
\* process may die.
THEOREM RegisteredIsThere == Spec => []FileInv
  <1>1. Whole => FileInv
    BY DEF Whole
  <1> QED
    BY <1>1, WholeHolds, PTL

\* Snapshots are of one version of the file and within the limit, but for the
\* two cases that read_and_verify cannot see.
THEOREM SnapshotsSound == Spec => []SnapshotsAreSound
  <1>1. Whole => SnapshotsAreSound
    BY DEF Whole
  <1> QED
    BY <1>1, WholeHolds, PTL

\* A snapshot that no event names is left only by a fault or by the end of a
\* process, one by each.
THEOREM OrphansFew == Spec => []OrphansAreFew
  <1>1. Whole => OrphansAreFew
    BY DEF Whole, FewOrphans
  <1> QED
    BY <1>1, WholeHolds, PTL

\* When every event is handled, the last one registered is about the file as it
\* is, however changes, reads, drops and deletions overtook one another.
THEOREM QuietCaptured == Spec => []QuietMeansCaptured
  <1>1. Whole => QuietMeansCaptured
    <2> SUFFICES ASSUME Whole, Alive, ~dirty, waiting = NoEvent, queue = <<>>, pc = "get"
                 PROVE  Exempt(Last) \/ Captured(Last)
      BY DEF QuietMeansCaptured
    <2>1. Newest = NoEvent /\ Newest.type = "none"
      BY DEF Newest, NoEvent
    <2>2. CASE There(Last)
      <3>1. Newest # [type |-> "modified", upto |-> Last]
        BY <2>1 DEF NoEvent
      <3> QED
        BY <2>2, <3>1 DEF Whole, UpToDate
    <2>3. CASE ~There(Last)
      BY <2>1, <2>3 DEF Whole, UpToDate, Exempt, Captured
    <2> QED
      BY <2>2, <2>3
  <1> QED
    BY <1>1, WholeHolds, PTL

\* A process that calls itself ready takes work, although main may mark
\* readiness after shutdown has withdrawn it.
THEOREM ReadyWorks == Spec => []ReadyMeansWorking
  <1>1. Whole => ReadyMeansWorking
    BY DEF Whole, Closing, ReadyMeansWorking
  <1> QED
    BY <1>1, WholeHolds, PTL
===============================================================================
