--------------------------- MODULE FilePollingProofs ---------------------------
(***************************************************************************)
(* Theorems about FilePolling, for any files, mutations, faults and        *)
(* restarts: no change of the Generator passes for a student's, if polls   *)
(* are quick enough for the grace (Silent), and no edit of a student goes  *)
(* down in a baseline unreported (NoEditLost).                             *)
(***************************************************************************)
EXTENDS FilePolling, TLAPS

\* Where the thread is says which of its variables are in use.
Phases ==
    /\ pc \notin {"emit", "ask"} => events = {}
    /\ pc # "ask" => asked = NoEvent
    /\ pc = "ask" => /\ asked \in Asks /\ asked.payload.state = "completed"
                     /\ marker # NoMarker
    /\ pc \in {"start_state", "state"} => todo = {}

\* Nothing is newer than now, and polls are no longer than Lag.
Clock ==
    /\ \A v \in Changes : log[v].time <= now
    /\ marker.time <= now
    /\ began[1] <= began[2] /\ began[2] <= now /\ now <= began[1] + Lag

\* A change of the Generator is in the mutation that runs, or no newer than the
\* end of the last one.  The marker that a poll has stat'ed is not newer than the
\* one that is there.
Mutations ==
    /\ marker = NoMarker \/ marker.state \in {"in_progress", "completed"}
    /\ \A v \in Changes : log[v].by = "generator" =>
          marker.state = "in_progress" \/ (marker # NoMarker /\ log[v].time <= marker.time)
    /\ seenMarker # NoMarker => marker # NoMarker /\ seenMarker.time <= marker.time

\* The file has not changed since t; if so, a scan since then has it as it is or
\* failed to read it.
Unchanged(p, t) == file[p] = 0 \/ log[file[p]].time < t
Fresh(scan, p, t) == Unchanged(p, t) => scan[p] \in {file[p], 0}

Scans ==
    /\ pc \in {"start", "scan", "start_state", "state"} =>
          \A p \in Paths \ todo : Fresh(current, p, began[2])
    /\ pc \in {"wait", "scan", "state"} => \A p \in Paths : Fresh(previous, p, began[1])
    /\ pc \in {"emit", "ask"} => \A p \in Paths : Fresh(previous, p, began[2])
    /\ \A p \in Paths : current[p] # 0 \/ previous[p] # 0 => file[p] # 0

\* The file of an event that is not there has gone since the last poll began.
Recent(e) == file[e.path] # 0 /\ (There(file[e.path]) \/ ~Unchanged(e.path, began[1]))
EventsInv ==
    /\ \A e \in events : Recent(e)
    /\ asked # NoEvent => Recent(asked)

\* An edit that is in the baseline is reported, covered, or about to be decided on.
Pending(v) ==
    \E e \in events \cup {asked} :
        e.type = "modified" /\ e.path = log[v].path /\ e.seen = v
EditsInv ==
    \A v \in StudentEdits \ baselined :
        file[log[v].path] = v /\ previous[log[v].path] = v
            => Reported(v) \/ Covered(v) \/ Pending(v)

Whole ==
    /\ TypeOK /\ Phases /\ Clock /\ Mutations /\ Scans /\ EventsInv /\ EditsInv
    /\ Lag <= Grace => GeneratorIsSilent
-----------------------------------------------------------------------------
\* What log holds.
LogEntry == [path : Paths, by : {"student", "generator"}, time : 0..MaxTime, gone : BOOLEAN]

LEMMA LogFacts ==
    ASSUME TypeOK
    PROVE  /\ log \in Seq(LogEntry) /\ Len(log) \in Nat
           /\ \A v \in Changes : /\ log[v].path \in Paths /\ log[v].gone \in BOOLEAN
                                 /\ log[v].by \in {"student", "generator"}
                                 /\ log[v].time \in Nat
           /\ 0 \notin Changes /\ Changes \subseteq Nat
  <1>1. log \in Seq(LogEntry)
    BY DEF TypeOK, LogEntry
  <1>2. \A v \in Changes : log[v] \in LogEntry
    BY <1>1 DEF Changes
  <1>3. MaxTime \in Nat
    BY PollingAssumption
  <1> QED
    BY <1>1, <1>2, <1>3 DEF LogEntry, Changes

LEMMA Numbers ==
    ASSUME TypeOK
    PROVE  /\ now \in Nat /\ marker.time \in Nat /\ marker.id \in Nat
           /\ began[1] \in Nat /\ began[2] \in Nat
           /\ seenMarker.time \in Nat
           /\ Grace \in Nat /\ Lag \in Nat
  BY PollingAssumption DEF TypeOK, Markers

LEMMA InitInv == Init => Whole
  <1> SUFFICES ASSUME Init PROVE Whole
    OBVIOUS
  <1> USE DEF Init
  <1>1. Changes = {} /\ Len(log) = 0
    BY DEF Changes
  <1>2. NoMarker \in Markers /\ NoMarker.time = 0
    BY PollingAssumption DEF Markers, NoMarker
  <1>3. TypeOK
    BY <1>1, <1>2, PollingAssumption DEF TypeOK, Nothing
  <1>4. Phases
    BY DEF Phases
  <1>5. Clock
    BY <1>1, <1>2, PollingAssumption DEF Clock
  <1>6. Mutations
    BY <1>1 DEF Mutations
  <1>7. Scans
    BY DEF Scans, Nothing
  <1>8. EventsInv
    BY DEF EventsInv
  <1>9. EditsInv
    BY <1>1 DEF EditsInv, StudentEdits
  <1>10. GeneratorIsSilent
    BY DEF GeneratorIsSilent
  <1> QED
    BY <1>3, <1>4, <1>5, <1>6, <1>7, <1>8, <1>9, <1>10 DEF Whole
-----------------------------------------------------------------------------
(***************************************************************************)
(* The workspace.                                                          *)
(***************************************************************************)

LEMMA ChangeInv ==
    ASSUME Whole, NEW p \in Paths, NEW by \in {"student", "generator"}, NEW gone \in BOOLEAN,
           Change(p, by, gone), by = "generator" => marker.state = "in_progress"
    PROVE  Whole'
  <1> DEFINE e == [path |-> p, by |-> by, time |-> now, gone |-> gone]
             new == Len(log) + 1
  <1>0. TypeOK /\ Phases /\ Clock /\ Mutations /\ Scans /\ EventsInv /\ EditsInv
    BY DEF Whole
  <1>1. e \in LogEntry /\ now \in Nat
    BY <1>0, PollingAssumption DEF TypeOK, LogEntry
  <1>2. log \in Seq(LogEntry) /\ Len(log) \in Nat
    BY <1>0, LogFacts
  <1>3. /\ log' = Append(log, e) /\ file' = [file EXCEPT ![p] = new]
        /\ UNCHANGED <<now, marker, pc, poll, events, asked, reported, baselined, budgets>>
    BY DEF Change
  <1> HIDE DEF e
  <1>4. /\ log' \in Seq(LogEntry) /\ Len(log') = new /\ log'[new] = e
        /\ \A v \in Changes : log'[v] = log[v]
    BY <1>1, <1>2, <1>3 DEF Changes
  <1>5. /\ Changes' = Changes \cup {new} /\ new \notin Changes /\ new # 0 /\ new \in Nat
    BY <1>2, <1>4 DEF Changes
  <1>6. /\ file \in [Paths -> Changes \cup {0}] /\ file'[p] = new
        /\ \A q \in Paths \ {p} : file'[q] = file[q]
    BY <1>0, <1>3 DEF TypeOK
  <1>7. e.time = now /\ e.by = by /\ e.gone = gone /\ e.path = p
    BY DEF e
  <1>8. TypeOK'
    <2>1. file' \in [Paths -> (Changes \cup {0})']
      BY <1>3, <1>5, <1>6
    <2>2. /\ current \in [Paths -> (Changes \cup {0})']
          /\ previous \in [Paths -> (Changes \cup {0})']
      BY <1>0, <1>5 DEF TypeOK
    <2>3. /\ Events \subseteq Events' /\ Asks \subseteq Asks'
      BY <1>5 DEF Events, Asks
    <2>4. reported' \subseteq [path : Paths, type : {"deleted", "modified"},
                               seen : (Changes \cup {0})', is : Changes', unsure : BOOLEAN]
      BY <1>0, <1>3, <1>5 DEF TypeOK
    <2>5. baselined' \in SUBSET (Changes \cup {0})'
      BY <1>0, <1>3, <1>5 DEF TypeOK
    <2>6. log' \in Seq([path : Paths, by : {"student", "generator"},
                        time : 0..MaxTime, gone : BOOLEAN])
      BY <1>4 DEF LogEntry
    <2>7. events' \in SUBSET Events' /\ (asked \in Asks \cup {NoEvent})'
      BY <1>0, <1>3, <2>3 DEF TypeOK
    <2>8. /\ current' \in [Paths -> (Changes \cup {0})']
          /\ previous' \in [Paths -> (Changes \cup {0})']
      BY <1>3, <2>2 DEF poll
    <2> QED
      BY <1>0, <1>3, <2>1, <2>4, <2>5, <2>6, <2>7, <2>8 DEF TypeOK, poll, budgets, Markers
  <1>9. Phases'
    <2>1. asked \in Asks => asked \in Asks'
      BY <1>5 DEF Asks
    <2> QED
      BY <1>0, <1>3, <2>1 DEF Phases, poll
  <1>10. Clock'
    <2>1. \A v \in Changes' : log'[v].time <= now
      BY <1>0, <1>1, <1>4, <1>5, <1>7 DEF Clock
    <2> QED
      BY <1>0, <1>3, <2>1 DEF Clock, poll
  <1>11. Mutations'
    BY <1>0, <1>3, <1>4, <1>5, <1>7 DEF Mutations, poll
  <1>12. ASSUME NEW q \in Paths, NEW t \in Nat, t <= now, Unchanged(q, t)'
         PROVE  q # p /\ Unchanged(q, t) /\ file'[q] = file[q]
    <2>1. q # p
      BY <1>1, <1>4, <1>5, <1>6, <1>7, <1>12 DEF Unchanged
    <2>2. file[q] \in Changes \cup {0}
      BY <1>6
    <2> QED
      BY <1>4, <1>6, <1>12, <2>1, <2>2 DEF Unchanged
  <1>13. began[1] \in Nat /\ began[2] \in Nat /\ began[1] <= now /\ began[2] <= now
    BY <1>0, <1>1, Numbers DEF Clock
  <1>14. Scans'
    <2>1. \A q \in Paths : file[q] # 0 => file'[q] # 0
      BY <1>5, <1>6
    <2>2. ASSUME NEW q \in Paths, NEW t \in Nat, t <= now, NEW scan, Fresh(scan, q, t)
          PROVE  Unchanged(q, t)' => scan[q] \in {file'[q], 0}
      BY <1>12, <2>2 DEF Fresh
    <2>3. pc \in {"start", "scan", "start_state", "state"} =>
            \A q \in Paths \ todo : Fresh(current, q, began[2])'
      BY <1>0, <1>3, <1>13, <2>2 DEF Scans, Fresh, poll
    <2>4. pc \in {"wait", "scan", "state"} => \A q \in Paths : Fresh(previous, q, began[1])'
      BY <1>0, <1>3, <1>13, <2>2 DEF Scans, Fresh, poll
    <2>5. pc \in {"emit", "ask"} => \A q \in Paths : Fresh(previous, q, began[2])'
      BY <1>0, <1>3, <1>13, <2>2 DEF Scans, Fresh, poll
    <2> QED
      BY <1>0, <1>3, <2>1, <2>3, <2>4, <2>5 DEF Scans, poll
  <1>15. EventsInv'
    <2>1. ASSUME NEW d, d.path \in Paths, Recent(d) PROVE Recent(d)'
      <3>1. file[d.path] \in Changes \cup {0}
        BY <1>6, <2>1
      <3>2. CASE d.path = p
        <4>1. ~Unchanged(p, began[1])'
          BY <1>12, <1>13, <1>3 DEF poll
        <4> QED
          BY <1>3, <1>5, <1>6, <3>2, <4>1 DEF Recent, poll
      <3>3. CASE d.path # p
        BY <1>3, <1>4, <1>6, <2>1, <3>1, <3>3 DEF Recent, There, Unchanged, poll
      <3> QED
        BY <3>2, <3>3
    <2>2. \A d \in events : d.path \in Paths
      BY <1>0 DEF TypeOK, Events
    <2>3. asked # NoEvent => asked.path \in Paths
      BY <1>0 DEF TypeOK, Asks
    <2> QED
      BY <1>0, <1>3, <2>1, <2>2, <2>3 DEF EventsInv
  <1>16. EditsInv'
    <2> SUFFICES ASSUME NEW v \in StudentEdits', v \notin baselined',
                        file'[log'[v].path] = v, previous'[log'[v].path] = v
                 PROVE  (Reported(v) \/ Covered(v) \/ Pending(v))'
      BY DEF EditsInv
    <2>1. v \in Changes' /\ log'[v].path \in Paths
      <3>1. v \in Changes'
        BY DEF StudentEdits
      <3> QED
        BY <1>8, <3>1, LogFacts, <1>4, <1>5, <1>7, <1>0
    <2>2. v # new
      <3>1. previous[log'[v].path] \in Changes \cup {0}
        BY <1>0, <2>1 DEF TypeOK
      <3> QED
        BY <1>3, <1>5, <3>1 DEF poll
    <2>3. v \in Changes /\ log'[v] = log[v] /\ log[v].path # p
      BY <1>4, <1>5, <1>6, <2>1, <2>2
    <2>4. v \in StudentEdits \ baselined /\ file[log[v].path] = v /\ previous[log[v].path] = v
      BY <1>3, <1>6, <2>1, <2>3 DEF StudentEdits, poll
    <2>5. Reported(v) \/ Covered(v) \/ Pending(v)
      BY <1>0, <2>4 DEF EditsInv
    <2> QED
      BY <1>3, <2>3, <2>5 DEF Reported, Covered, Pending
  <1>17. GeneratorIsSilent => GeneratorIsSilent'
    <2>1. \A r \in reported : r.is \in Changes
      BY <1>0 DEF TypeOK
    <2> QED
      BY <1>3, <1>4, <2>1 DEF GeneratorIsSilent
  <1> QED
    BY <1>8, <1>9, <1>10, <1>11, <1>14, <1>15, <1>16, <1>17 DEF Whole

LEMMA WriteMarkerInv ==
    ASSUME Whole, MutationBegins \/ MutationEnds
    PROVE  Whole'
  <1>0. TypeOK /\ Phases /\ Clock /\ Mutations /\ Scans /\ EventsInv /\ EditsInv
    BY DEF Whole
  <1>1. PICK state \in {"in_progress", "completed"} :
           /\ marker' = [id |-> marker.id + 1, time |-> now, state |-> state]
           /\ UNCHANGED <<now, log, file, pc, poll, events, asked, reported, baselined, budgets>>
           /\ state = "in_progress" \/ marker.state = "in_progress"
    BY DEF MutationBegins, MutationEnds, WriteMarker
  <1>2. /\ now \in Nat /\ now \in 0..MaxTime /\ marker.id \in Nat
        /\ marker.time \in Nat /\ seenMarker.time \in Nat
    BY <1>0, Numbers DEF TypeOK
  <1>3. marker'.time = now /\ marker'.state = state /\ marker'.id = marker.id + 1
    BY <1>1
  <1>4. marker' # NoMarker
    BY <1>2, <1>3 DEF NoMarker
  <1>5. \A v \in Changes : log[v].time \in Nat /\ log[v].time <= now
    BY <1>0, LogFacts DEF Clock
  <1>6. TypeOK'
    <2>1. marker' \in Markers
      BY <1>1, <1>2 DEF Markers
    <2> QED
      BY <1>0, <1>1, <2>1 DEF TypeOK, poll, budgets, Changes, Events, Asks
  <1>7. Phases'
    BY <1>0, <1>1, <1>4 DEF Phases, poll, Asks, Changes
  <1>8. Clock'
    BY <1>0, <1>1, <1>2, <1>3 DEF Clock, poll, Changes
  <1>9. Mutations'
    <2>1. seenMarker # NoMarker => seenMarker.time <= now
      BY <1>0, <1>2 DEF Mutations, Clock
    <2>2. \A v \in Changes : log[v].by = "generator" => state = "in_progress" \/ log[v].time <= now
      BY <1>5
    <2> QED
      BY <1>1, <1>3, <1>4, <2>1, <2>2 DEF Mutations, poll, Changes
  <1>10. Scans' /\ EventsInv'
    BY <1>0, <1>1 DEF Scans, EventsInv, poll, Fresh, Unchanged, Recent, There
  <1>11. EditsInv'
    <2> SUFFICES ASSUME NEW v \in StudentEdits \ baselined,
                        file[log[v].path] = v, previous[log[v].path] = v
                 PROVE  (Reported(v) \/ Covered(v) \/ Pending(v))'
      BY <1>1 DEF EditsInv, StudentEdits, Changes, poll
    <2>1. v \in Changes
      BY DEF StudentEdits
    <2>2. Covered(v) => Covered(v)'
      BY <1>1, <1>3, <1>4, <1>5, <2>1 DEF Covered
    <2>3. Reported(v) \/ Covered(v) \/ Pending(v)
      BY <1>0 DEF EditsInv
    <2> QED
      BY <1>1, <2>2, <2>3 DEF Reported, Pending
  <1>12. GeneratorIsSilent => GeneratorIsSilent'
    BY <1>1 DEF GeneratorIsSilent
  <1> QED
    BY <1>6, <1>7, <1>8, <1>9, <1>10, <1>11, <1>12 DEF Whole

LEMMA TickInv ==
    ASSUME Whole, Tick
    PROVE  Whole'
  <1>0. TypeOK /\ Phases /\ Clock /\ Mutations /\ Scans /\ EventsInv /\ EditsInv
    BY DEF Whole
  <1>1. /\ now < MaxTime /\ now < began[1] + Lag /\ now' = now + 1
        /\ UNCHANGED <<log, file, marker, pc, poll, events, asked, reported, baselined, budgets>>
    BY DEF Tick
  <1>2. now \in Nat /\ now \in 0..MaxTime /\ began[1] \in Nat /\ began[2] \in Nat /\ Lag \in Nat
        /\ MaxTime \in Nat /\ marker.time \in Nat
    BY <1>0, Numbers, PollingAssumption DEF TypeOK
  <1>3. TypeOK'
    <2>1. now' \in 0..MaxTime
      BY <1>1, <1>2
    <2> QED
      BY <1>0, <1>1, <2>1 DEF TypeOK, poll, budgets, Changes, Events, Asks
  <1>4. Phases' /\ Mutations' /\ Scans' /\ EventsInv'
    BY <1>0, <1>1 DEF Phases, Mutations, Scans, EventsInv, poll, Fresh, Unchanged, Recent, There,
                      Asks, Changes
  <1>5. Clock'
    <2>1. \A v \in Changes : log[v].time \in Nat /\ log[v].time <= now
      BY <1>0, LogFacts DEF Clock
    <2>2. \A v \in Changes : log[v].time <= now + 1
      BY <1>2, <2>1
    <2>3. /\ marker.time <= now + 1 /\ began[2] <= now + 1 /\ now + 1 <= began[1] + Lag
          /\ began[1] <= began[2]
      BY <1>0, <1>1, <1>2 DEF Clock
    <2> QED
      BY <1>1, <2>2, <2>3 DEF Clock, poll, Changes
  <1>6. EditsInv'
    BY <1>0, <1>1 DEF EditsInv, StudentEdits, Changes, poll, Reported, Covered, Pending
  <1>7. GeneratorIsSilent => GeneratorIsSilent'
    BY <1>1 DEF GeneratorIsSilent
  <1> QED
    BY <1>3, <1>4, <1>5, <1>6, <1>7 DEF Whole
-----------------------------------------------------------------------------
(***************************************************************************)
(* The polling thread.                                                     *)
(***************************************************************************)

\* A step that leaves the events and what is known of the edits as they are.
LEMMA SameEdits ==
    ASSUME EditsInv, UNCHANGED <<workspace, previous, events, asked, reported, baselined>>
    PROVE  EditsInv' /\ (GeneratorIsSilent => GeneratorIsSilent')
  BY DEF EditsInv, workspace, StudentEdits, Changes, Reported, Covered, Pending, GeneratorIsSilent

LEMMA StartScanInv ==
    ASSUME Whole, StartScan
    PROVE  Whole'
  <1>0. TypeOK /\ Phases /\ Clock /\ Mutations /\ Scans /\ EventsInv /\ EditsInv
    BY DEF Whole
  <1>1. /\ pc = "wait" /\ pc' = "scan" /\ todo' = Paths /\ began' = <<began[1], now>>
        /\ UNCHANGED <<workspace, current, previous, seenMarker, prevMarker, events,
                       asked, reported, baselined, budgets>>
    BY DEF StartScan
  <1>2. began'[1] = began[1] /\ began'[2] = now
    BY <1>1
  <1>3. TypeOK'
    <2>1. began' \in (0..MaxTime) \X (0..MaxTime)
      BY <1>0, <1>1 DEF TypeOK
    <2> QED
      BY <1>0, <1>1, <2>1 DEF TypeOK, workspace, budgets, Changes, Events, Asks
  <1>4. Phases' /\ Mutations'
    BY <1>0, <1>1 DEF Phases, Mutations, workspace, Asks, Changes
  <1>5. Clock'
    <2>1. began[1] <= now /\ now <= now
      BY <1>0, Numbers DEF Clock
    <2> QED
      BY <1>0, <1>1, <1>2, <2>1 DEF Clock, workspace, Changes
  <1>6. Scans' /\ EventsInv'
    BY <1>0, <1>1, <1>2 DEF Scans, EventsInv, workspace, Fresh, Unchanged, Recent, There
  <1> QED
    BY <1>0, <1>1, <1>3, <1>4, <1>5, <1>6, SameEdits DEF Whole

LEMMA ScanFileInv ==
    ASSUME Whole, NEW p \in Paths, ScanFile(p)
    PROVE  Whole'
  <1>0. TypeOK /\ Phases /\ Clock /\ Mutations /\ Scans /\ EventsInv /\ EditsInv
    BY DEF Whole
  <1>1. /\ pc \in {"start", "scan"} /\ p \in todo /\ todo' = todo \ {p}
        /\ UNCHANGED <<workspace, pc, previous, seenMarker, prevMarker, began,
                       events, asked, reported, baselined, askFaults, restarts>>
    BY DEF ScanFile, Scanning
  <1>2. PICK v \in {file[p], 0} : current' = [current EXCEPT ![p] = v]
    BY DEF ScanFile
  <1>3. faults' \in 0..MaxFaults
    <2>1. faults' = faults \/ (faults < MaxFaults /\ faults' = faults + 1)
      BY DEF ScanFile, Fault, NoFault
    <2>2. faults \in 0..MaxFaults /\ MaxFaults \in Nat
      BY <1>0, PollingAssumption DEF TypeOK
    <2> QED
      BY <2>1, <2>2
  <1>4. /\ current'[p] = v /\ \A q \in Paths \ {p} : current'[q] = current[q]
        /\ current' \in [Paths -> Changes \cup {0}]
    BY <1>0, <1>2 DEF TypeOK
  <1>5. TypeOK'
    BY <1>0, <1>1, <1>3, <1>4 DEF TypeOK, workspace, Changes, Events, Asks
  <1>6. Phases' /\ Mutations' /\ Clock' /\ EventsInv'
    BY <1>0, <1>1 DEF Phases, Mutations, Clock, EventsInv, workspace, Asks, Changes, Recent, There,
                      Unchanged
  <1>7. Scans'
    <2>1. \A q \in Paths \ (todo \ {p}) : Fresh(current', q, began[2])
      BY <1>0, <1>1, <1>4 DEF Scans, Fresh
    <2>2. \A q \in Paths : current'[q] # 0 \/ previous[q] # 0 => file[q] # 0
      BY <1>0, <1>4 DEF Scans
    <2> QED
      BY <1>0, <1>1, <2>1, <2>2 DEF Scans, workspace, Fresh, Unchanged
  <1> QED
    BY <1>0, <1>1, <1>5, <1>6, <1>7, SameEdits DEF Whole

LEMMA StatMarkerInv ==
    ASSUME Whole, StatMarker
    PROVE  Whole'
  <1>0. TypeOK /\ Phases /\ Clock /\ Mutations /\ Scans /\ EventsInv /\ EditsInv
    BY DEF Whole
  <1>1. /\ pc \in {"start", "scan"} /\ todo = {} /\ seenMarker' = marker
        /\ pc' = IF pc = "start" THEN "start_state" ELSE "state"
        /\ UNCHANGED <<workspace, todo, current, previous, prevMarker, began,
                       events, asked, reported, baselined, budgets>>
    BY DEF StatMarker, Scanning
  <1>2. pc' \in {"start_state", "state"} /\ (pc' = "state" => pc = "scan")
    BY <1>1
  <1>3. TypeOK'
    BY <1>0, <1>1 DEF TypeOK, workspace, budgets, Changes, Events, Asks
  <1>4. Phases'
    BY <1>0, <1>1 DEF Phases
  <1>5. Mutations'
    BY <1>0, <1>1, Numbers DEF Mutations, workspace, Changes
  <1>6. Clock' /\ EventsInv'
    BY <1>0, <1>1 DEF Clock, EventsInv, workspace, Changes, Recent, There, Unchanged
  <1>7. Scans'
    BY <1>0, <1>1, <1>2 DEF Scans, workspace, Fresh, Unchanged
  <1> QED
    BY <1>0, <1>1, <1>3, <1>4, <1>5, <1>6, <1>7, SameEdits DEF Whole

LEMMA EndPollInv ==
    ASSUME Whole, EndPoll
    PROVE  Whole'
  <1>0. TypeOK /\ Phases /\ Clock /\ Mutations /\ Scans /\ EventsInv /\ EditsInv
    BY DEF Whole
  <1>1. /\ pc = "emit" /\ events = {} /\ pc' = "wait" /\ began' = <<began[2], began[2]>>
        /\ UNCHANGED <<workspace, todo, current, previous, seenMarker, prevMarker,
                       events, asked, reported, baselined, budgets>>
    BY DEF EndPoll
  <1>2. began'[1] = began[2] /\ began'[2] = began[2]
    BY <1>1
  <1>3. asked = NoEvent
    BY <1>0, <1>1 DEF Phases
  <1>4. TypeOK'
    <2>1. began' \in (0..MaxTime) \X (0..MaxTime)
      BY <1>0, <1>1 DEF TypeOK
    <2> QED
      BY <1>0, <1>1, <2>1 DEF TypeOK, workspace, budgets, Changes, Events, Asks
  <1>5. Phases' /\ Mutations'
    BY <1>0, <1>1 DEF Phases, Mutations, workspace, Asks, Changes
  <1>6. Clock'
    <2>1. began[2] <= began[2] /\ now <= began[2] + Lag
      BY <1>0, Numbers DEF Clock
    <2> QED
      BY <1>0, <1>1, <1>2, <2>1 DEF Clock, workspace, Changes
  <1>7. Scans' /\ EventsInv'
    BY <1>0, <1>1, <1>2, <1>3 DEF Scans, EventsInv, workspace, Fresh, Unchanged
  <1> QED
    BY <1>0, <1>1, <1>4, <1>5, <1>6, <1>7, SameEdits DEF Whole

LEMMA RestartInv ==
    ASSUME Whole, Restart
    PROVE  Whole'
  <1>0. TypeOK /\ Phases /\ Clock /\ Mutations /\ Scans /\ EventsInv /\ EditsInv
    BY DEF Whole
  <1>1. /\ restarts < MaxRestarts /\ restarts' = restarts + 1 /\ pc' = "start" /\ todo' = Paths
        /\ current' = Nothing /\ previous' = Nothing
        /\ seenMarker' = NoMarker /\ prevMarker' = NoMarker
        /\ events' = {} /\ asked' = NoEvent /\ began' = <<now, now>>
        /\ UNCHANGED <<workspace, reported, baselined, faults, askFaults>>
    BY DEF Restart
  <1>2. began'[1] = now /\ began'[2] = now
    BY <1>1
  <1>3. NoMarker \in Markers
    BY PollingAssumption DEF Markers, NoMarker
  <1>4. TypeOK'
    <2>1. began' \in (0..MaxTime) \X (0..MaxTime) /\ restarts' \in 0..MaxRestarts
      BY <1>0, <1>1, PollingAssumption DEF TypeOK
    <2>2. current' \in [Paths -> Changes \cup {0}] /\ previous' \in [Paths -> Changes \cup {0}]
      BY <1>1 DEF Nothing
    <2> QED
      BY <1>0, <1>1, <1>3, <2>1, <2>2 DEF TypeOK, workspace, Changes, Events, Asks
  <1>5. Phases' /\ Mutations'
    BY <1>0, <1>1 DEF Phases, Mutations, workspace, Changes
  <1>6. Clock'
    <2>1. now <= now /\ now <= now + Lag
      BY <1>0, Numbers
    <2> QED
      BY <1>0, <1>1, <1>2, <2>1 DEF Clock, workspace, Changes
  <1>7. Scans' /\ EventsInv'
    BY <1>1 DEF Scans, EventsInv, Nothing
  <1>8. EditsInv'
    <2>1. \A v \in StudentEdits' : v # 0 /\ log'[v].path \in Paths
      BY <1>4, LogFacts, <1>0, <1>1 DEF StudentEdits, workspace, Changes
    <2> QED
      BY <1>1, <2>1 DEF EditsInv, Nothing
  <1>9. GeneratorIsSilent => GeneratorIsSilent'
    BY <1>1 DEF GeneratorIsSilent, workspace
  <1> QED
    BY <1>4, <1>5, <1>6, <1>7, <1>8, <1>9 DEF Whole

\* What a scan is compared with is, file by file, the scan itself or the one before.
LEMMA BaselineIs ==
    ASSUME TypeOK, NEW m, NEW p \in Paths
    PROVE  /\ Baseline(m)[p] \in {current[p], previous[p]}
           /\ m.state # "in_progress" /\ m # NoMarker /\ Baseline(m)[p] # previous[p]
                 => ~There(current[p]) \/ log[current[p]].time <= m.time
           /\ m.state # "in_progress" /\ m = NoMarker => Baseline(m)[p] = previous[p]
  BY DEF Baseline

\* A file that a poll read, and that a student left as it is now, is the poll's
\* event, or was in the baseline already, or is covered by a mutation.
LEMMA ComparedEdit ==
    ASSUME Whole, pc = "state", NEW m, ReadState(m),
           NEW v \in StudentEdits \ baselined, file[log[v].path] = v, current[log[v].path] = v
    PROVE  \/ Reported(v) \/ Covered(v)
           \/ [path |-> log[v].path, type |-> "modified", seen |-> v]
                 \in ChangedEvents(Baseline(m))
  <1> DEFINE p == log[v].path
  <1>0. TypeOK /\ Phases /\ Mutations /\ EditsInv
    BY DEF Whole
  <1>1. v \in Changes /\ ~log[v].gone /\ p \in Paths /\ v # 0
    BY <1>0, LogFacts DEF StudentEdits
  <1>2. There(current[p])
    BY <1>1 DEF There
  <1>3. CASE Baseline(m)[p] # v
    BY <1>1, <1>2, <1>3 DEF ChangedEvents
  <1>4. CASE Baseline(m)[p] = v /\ previous[p] = v
    <2>1. ~Pending(v)
      BY <1>0 DEF Phases, Pending, NoEvent
    <2> QED
      BY <1>0, <1>4, <2>1 DEF EditsInv
  <1>5. CASE Baseline(m)[p] = v /\ previous[p] # v
    <2>1. CASE m.state = "in_progress"
      <3>1. m # NoMarker
        BY <2>1 DEF NoMarker
      <3>2. m = [seenMarker EXCEPT !.state = marker.state]
        BY <3>1 DEF ReadState
      <3>3. seenMarker \in Markers
        BY <1>0 DEF TypeOK
      <3>4. m.state = marker.state
        BY <3>2, <3>3 DEF Markers
      <3> QED
        BY <2>1, <3>4 DEF Covered
    <2>2. CASE m.state # "in_progress"
      <3>1. m # NoMarker /\ log[v].time <= m.time
        BY <1>0, <1>1, <1>2, <1>5, <2>2, BaselineIs
      <3>2. seenMarker # NoMarker /\ m = [seenMarker EXCEPT !.state = marker.state]
        BY <3>1 DEF ReadState
      <3>3. seenMarker \in Markers
        BY <1>0 DEF TypeOK
      <3>4. m.time = seenMarker.time
        BY <3>2, <3>3 DEF Markers
      <3>5. marker # NoMarker /\ seenMarker.time <= marker.time
        BY <1>0, <3>2 DEF Mutations
      <3>6. log[v].time \in Nat /\ seenMarker.time \in Nat /\ marker.time \in Nat
        BY <1>0, <1>1, LogFacts, Numbers
      <3>7. log[v].time <= marker.time
        BY <3>1, <3>4, <3>5, <3>6
      <3> QED
        BY <3>5, <3>7 DEF Covered
    <2> QED
      BY <2>1, <2>2
  <1> QED
    BY <1>3, <1>4, <1>5

\* A file that is gone and has not changed since the last poll began makes no event.
LEMMA ComparedFile ==
    ASSUME Whole, pc = "state", NEW m, NEW e \in ChangedEvents(Baseline(m))
    PROVE  e \in Events /\ Recent(e)
  <1>0. TypeOK /\ Phases /\ Clock /\ Scans
    BY DEF Whole
  <1> DEFINE b == Baseline(m)
  <1>1. PICK p \in Paths :
           /\ e.path = p /\ e.seen = current[p] /\ e.type \in {"deleted", "modified"}
           /\ e = [path |-> p, type |-> e.type, seen |-> current[p]]
           /\ There(b[p]) \/ There(current[p])
    BY DEF ChangedEvents
  <1>2. e \in Events
    BY <1>0, <1>1 DEF TypeOK, Events
  <1>3. There(previous[p]) \/ There(current[p])
    BY <1>0, <1>1, BaselineIs
  <1>4. file[p] # 0
    BY <1>0, <1>3 DEF Scans, There
  <1>5. ASSUME Unchanged(p, began[1]) PROVE There(file[p])
    <2>1. previous[p] \in {file[p], 0}
      BY <1>0, <1>5 DEF Scans, Fresh
    <2>2. began[1] \in Nat /\ began[2] \in Nat /\ began[1] <= began[2]
      BY <1>0, Numbers DEF Clock
    <2>3. file[p] \in Changes
      BY <1>0, <1>4 DEF TypeOK
    <2>4. log[file[p]].time \in Nat
      BY <1>0, <2>3, LogFacts
    <2>5. Unchanged(p, began[2])
      BY <1>4, <1>5, <2>2, <2>4 DEF Unchanged
    <2>6. current[p] \in {file[p], 0}
      BY <1>0, <2>5 DEF Scans, Phases, Fresh
    <2> QED
      BY <1>3, <2>1, <2>6 DEF There
  <1> QED
    BY <1>1, <1>2, <1>4, <1>5 DEF Recent

LEMMA CompareInv ==
    ASSUME Whole, Compare
    PROVE  Whole'
  <1>0. TypeOK /\ Phases /\ Clock /\ Mutations /\ Scans /\ EventsInv /\ EditsInv
    BY DEF Whole
  <1>1. /\ pc \in {"start_state", "state"} /\ pc' = "emit" /\ previous' = current
        /\ seenMarker' = NoMarker /\ current' = Nothing
        /\ baselined' = IF pc = "state" THEN baselined
                        ELSE baselined \cup {current[p] : p \in Paths}
        /\ UNCHANGED <<workspace, todo, began, asked, reported, askFaults, restarts>>
    BY DEF Compare
  <1>2. PICK m \in {seenMarker, [seenMarker EXCEPT !.state = marker.state], NoMarker} :
           /\ ReadState(m) /\ prevMarker' = m
           /\ events' = IF pc = "state" THEN ChangedEvents(Baseline(m)) ELSE {}
    BY DEF Compare
  <1>3. faults' \in 0..MaxFaults
    <2>1. faults' = faults \/ (faults < MaxFaults /\ faults' = faults + 1)
      BY <1>2 DEF ReadState, Fault, NoFault
    <2>2. faults \in 0..MaxFaults /\ MaxFaults \in Nat
      BY <1>0, PollingAssumption DEF TypeOK
    <2> QED
      BY <2>1, <2>2
  <1>4. NoMarker \in Markers /\ m \in Markers
    <2>1. NoMarker \in Markers
      BY PollingAssumption DEF Markers, NoMarker
    <2>2. seenMarker \in Markers /\ marker \in Markers
      BY <1>0 DEF TypeOK
    <2>3. [seenMarker EXCEPT !.state = marker.state] \in Markers
      BY <2>2 DEF Markers
    <2> QED
      BY <1>2, <2>1, <2>2, <2>3
  <1>5. asked = NoEvent /\ asked' = NoEvent
    BY <1>0, <1>1 DEF Phases
  <1>6. /\ events' \subseteq Events /\ \A e \in events' : Recent(e)
    BY <1>2, ComparedFile
  <1>7. TypeOK'
    <2>1. \A e, f \in events' : e.path = f.path => e = f
      BY <1>2 DEF ChangedEvents
    <2>2. baselined' \in SUBSET (Changes \cup {0})
      BY <1>0, <1>1 DEF TypeOK
    <2>3. current' \in [Paths -> Changes \cup {0}]
      BY <1>1 DEF Nothing
    <2>4. previous' \in [Paths -> Changes \cup {0}]
      BY <1>0, <1>1 DEF TypeOK
    <2>5. asked' \in Asks \cup {NoEvent}
      BY <1>5
    <2> QED
      BY <1>0, <1>1, <1>2, <1>3, <1>4, <1>6, <2>1, <2>2, <2>3, <2>4, <2>5
         DEF TypeOK, workspace, Changes, Events, Asks
  <1>8. Phases' /\ Mutations' /\ Clock'
    BY <1>0, <1>1, <1>5 DEF Phases, Mutations, Clock, workspace, Changes
  <1>9. Scans'
    <2>1. \A p \in Paths : Fresh(current, p, began[2])
      BY <1>0, <1>1 DEF Scans, Phases
    <2>2. \A p \in Paths : current[p] # 0 => file[p] # 0
      BY <1>0 DEF Scans
    <2> QED
      BY <1>1, <2>1, <2>2 DEF Scans, Nothing, workspace, Fresh, Unchanged
  <1>10. EventsInv'
    BY <1>1, <1>5, <1>6 DEF EventsInv, Recent, There, Unchanged, workspace
  <1>11. EditsInv'
    <2> SUFFICES ASSUME NEW v \in StudentEdits, v \notin baselined',
                        file[log[v].path] = v, current[log[v].path] = v
                 PROVE  (Reported(v) \/ Covered(v) \/ Pending(v))'
      BY <1>1 DEF EditsInv, StudentEdits, Changes, workspace
    <2>1. v \in Changes /\ log[v].path \in Paths
      BY <1>0, LogFacts DEF StudentEdits
    <2>2. pc = "state" /\ v \notin baselined
      BY <1>1, <2>1
    <2>3. \/ Reported(v) \/ Covered(v)
          \/ [path |-> log[v].path, type |-> "modified", seen |-> v] \in events'
      BY <1>2, <2>2, ComparedEdit
    <2>4. [path |-> log[v].path, type |-> "modified", seen |-> v] \in events' => Pending(v)'
      BY <1>1 DEF Pending, workspace
    <2> QED
      BY <1>1, <2>3, <2>4 DEF Reported, Covered, workspace
  <1>12. GeneratorIsSilent => GeneratorIsSilent'
    BY <1>1 DEF GeneratorIsSilent, workspace
  <1> QED
    BY <1>7, <1>8, <1>9, <1>10, <1>11, <1>12 DEF Whole
-----------------------------------------------------------------------------
(***************************************************************************)
(* The handler.                                                            *)
(***************************************************************************)

\* What the handler leaves alone.
LEMMA SamePoll ==
    ASSUME Whole, UNCHANGED <<workspace, poll>>, pc \in {"emit", "ask"}, pc' \in {"emit", "ask"}
    PROVE  Clock' /\ Mutations' /\ Scans'
  BY DEF Whole, Clock, Mutations, Scans, workspace, poll, Changes, Fresh, Unchanged

LEMMA AskInv ==
    ASSUME Whole, NEW e \in events, Ask(e)
    PROVE  Whole'
  <1>0. TypeOK /\ Phases /\ Mutations /\ EventsInv /\ EditsInv
    BY DEF Whole
  <1>1. /\ pc = "emit" /\ events' = events \ {e}
        /\ UNCHANGED <<workspace, poll, baselined, faults, restarts>>
    BY DEF Ask
  <1>2. e \in Events /\ Recent(e) /\ asked = NoEvent
    BY <1>0, <1>1 DEF TypeOK, EventsInv, Phases
  <1>3. /\ e.path \in Paths /\ e.type \in {"deleted", "modified"} /\ e.seen \in Changes \cup {0}
        /\ file[e.path] \in Changes
    BY <1>0, <1>2 DEF Events, Recent, TypeOK
  <1> DEFINE Passed(unsure) == [path |-> e.path, type |-> e.type, seen |-> e.seen,
                                is |-> file[e.path], unsure |-> unsure]
             Waits == [path |-> e.path, type |-> e.type, seen |-> e.seen, payload |-> marker]
  <1>4. \/ /\ marker.state = "in_progress" /\ UNCHANGED <<pc, asked, reported>>
        \/ /\ marker = NoMarker /\ reported' = reported \cup {Passed(FALSE)}
           /\ UNCHANGED <<pc, asked>>
        \/ /\ reported' = reported \cup {Passed(TRUE)}
           /\ UNCHANGED <<pc, asked>>
        \/ /\ marker.state = "completed" /\ pc' = "ask" /\ asked' = Waits
           /\ UNCHANGED reported
    BY DEF Ask, Report
  <1>5. askFaults' \in 0..MaxAskFaults
    <2>1. askFaults' = askFaults \/ (askFaults < MaxAskFaults /\ askFaults' = askFaults + 1)
      BY DEF Ask, AskFault, NoAskFault
    <2>2. askFaults \in 0..MaxAskFaults /\ MaxAskFaults \in Nat
      BY <1>0, PollingAssumption DEF TypeOK
    <2> QED
      BY <2>1, <2>2
  <1>6. Waits \in Asks /\ Waits.payload = marker
    BY <1>0, <1>3 DEF Asks, TypeOK
  <1>7. /\ pc' \in {"emit", "ask"}
        /\ asked' \in {NoEvent, Waits}
        /\ pc' = "ask" => asked' = Waits /\ marker.state = "completed"
        /\ pc' = "emit" => asked' = NoEvent
    BY <1>1, <1>2, <1>4
  <1>8. TypeOK'
    <2>1. reported' \subseteq [path : Paths, type : {"deleted", "modified"},
                               seen : Changes \cup {0}, is : Changes, unsure : BOOLEAN]
      <3>1. \A unsure \in BOOLEAN :
               Passed(unsure) \in [path : Paths, type : {"deleted", "modified"},
                                   seen : Changes \cup {0}, is : Changes, unsure : BOOLEAN]
        BY <1>3
      <3>2. reported \subseteq [path : Paths, type : {"deleted", "modified"},
                                seen : Changes \cup {0}, is : Changes, unsure : BOOLEAN]
        BY <1>0 DEF TypeOK
      <3> HIDE DEF Passed
      <3> QED
        BY <1>4, <3>1, <3>2
    <2>2. asked' \in Asks \cup {NoEvent}
      BY <1>6, <1>7
    <2>3. events' \in SUBSET Events /\ \A d, f \in events' : d.path = f.path => d = f
      BY <1>0, <1>1 DEF TypeOK
    <2> QED
      BY <1>0, <1>1, <1>5, <1>7, <2>1, <2>2, <2>3
         DEF TypeOK, workspace, poll, Changes, Events, Asks
  <1>9. Phases'
    <2>1. marker.state = "completed" => marker # NoMarker
      BY DEF NoMarker
    <2>2. Asks' = Asks
      BY <1>1 DEF Asks, Changes, workspace
    <2>3. pc' = "ask" => asked' \in Asks /\ asked'.payload = marker
      BY <1>6, <1>7
    <2>4. events' = {} \/ pc' \in {"emit", "ask"}
      BY <1>7
    <2>5. pc' # "ask" => asked' = NoEvent
      BY <1>7
    <2>6. marker' = marker
      BY <1>1 DEF workspace
    <2> HIDE DEF Waits
    <2> QED
      BY <1>7, <2>1, <2>2, <2>3, <2>4, <2>5, <2>6 DEF Phases
  <1>10. Clock' /\ Mutations' /\ Scans'
    BY <1>1, <1>7, SamePoll
  <1>11. EventsInv'
    <2>1. Recent(Waits)
      BY <1>2 DEF Recent
    <2>2. \A d : Recent(d)' <=> Recent(d)
      BY <1>1 DEF Recent, There, Unchanged, workspace, poll
    <2> QED
      BY <1>0, <1>1, <1>7, <2>1, <2>2 DEF EventsInv
  <1>12. EditsInv'
    <2> SUFFICES ASSUME NEW v \in StudentEdits \ baselined,
                        file[log[v].path] = v, previous[log[v].path] = v
                 PROVE  (Reported(v) \/ Covered(v) \/ Pending(v))'
      BY <1>1 DEF EditsInv, StudentEdits, Changes, workspace, poll
    <2>1. Reported(v) \/ Covered(v) \/ Pending(v)
      BY <1>0 DEF EditsInv
    <2>2. Reported(v) => Reported(v)'
      BY <1>4 DEF Reported
    <2>3. Covered(v) <=> Covered(v)'
      BY <1>1 DEF Covered, workspace
    <2>4. CASE e.type = "modified" /\ e.path = log[v].path /\ e.seen = v
      <3>1. CASE marker.state = "in_progress"
        BY <2>3, <3>1 DEF Covered
      <3>2. CASE \E unsure \in BOOLEAN : reported' = reported \cup {Passed(unsure)}
        <4>0. \A unsure \in BOOLEAN : Passed(unsure).type = e.type /\ Passed(unsure).seen = e.seen
          OBVIOUS
        <4> HIDE DEF Passed
        <4>1. PICK r \in reported' : r.type = "modified" /\ r.seen = v
          BY <2>4, <3>2, <4>0
        <4> QED
          BY <4>1 DEF Reported
      <3>3. CASE asked' = Waits
        BY <1>1, <2>4, <3>3 DEF Pending, workspace
      <3> QED
        BY <1>4, <3>1, <3>2, <3>3
    <2>5. CASE Pending(v) /\ ~(e.type = "modified" /\ e.path = log[v].path /\ e.seen = v)
      <3>1. PICK d \in events : d.type = "modified" /\ d.path = log[v].path /\ d.seen = v
        BY <1>2, <2>5 DEF Pending, NoEvent
      <3>2. d \in events'
        BY <1>1, <2>5, <3>1
      <3> QED
        BY <1>1, <3>1, <3>2 DEF Pending, workspace
    <2> QED
      BY <2>1, <2>2, <2>3, <2>4, <2>5
  <1>13. GeneratorIsSilent => GeneratorIsSilent'
    <2>1. log' = log
      BY <1>1 DEF workspace
    <2>2. ASSUME marker = NoMarker PROVE log[file[e.path]].by = "student"
      <3>1. log[file[e.path]].by # "generator"
        BY <1>0, <1>3, <2>2 DEF Mutations, NoMarker
      <3> QED
        BY <1>0, <1>3, <3>1, LogFacts
    <2>3. /\ Passed(TRUE).unsure /\ Passed(FALSE).is = file[e.path]
      OBVIOUS
    <2> QED
      BY <1>4, <2>1, <2>2, <2>3 DEF GeneratorIsSilent
  <1> QED
    BY <1>8, <1>9, <1>10, <1>11, <1>12, <1>13 DEF Whole

\* What passes the check was left by a student: a file that is there and newer than
\* the end of the last mutation; or one that has gone, too late after that end for
\* a poll that began before it to tell only now.
LEMMA DecidedIsStudents ==
    ASSUME Whole, pc = "ask", marker = asked.payload, ~IsSystemMutation(asked), Lag <= Grace
    PROVE  log[file[asked.path]].by = "student"
  <1>0. TypeOK /\ Phases /\ Clock /\ Mutations /\ EventsInv
    BY DEF Whole
  <1> DEFINE v == file[asked.path]
  <1>1. asked \in Asks /\ asked # NoEvent /\ marker.state = "completed"
    BY <1>0 DEF Phases, Asks, NoEvent
  <1>2. asked.path \in Paths /\ Recent(asked)
    BY <1>0, <1>1 DEF Asks, EventsInv
  <1>3. v \in Changes
    BY <1>0, <1>2 DEF Recent, TypeOK
  <1>4. /\ now \in Nat /\ marker.time \in Nat /\ log[v].time \in Nat /\ began[1] \in Nat
        /\ Lag \in Nat /\ Grace \in Nat
    BY <1>0, <1>3, LogFacts, Numbers
  <1>5. ~(log[v].time <= marker.time)
    <2>1. CASE There(v)
      BY <2>1 DEF IsSystemMutation
    <2>2. CASE ~There(v)
      <3>1. ~(now - marker.time <= Grace)
        BY <2>2 DEF IsSystemMutation
      <3>2. ~(log[v].time < began[1])
        BY <1>2, <2>2 DEF Recent, Unchanged
      <3>3. now <= began[1] + Lag
        BY <1>0 DEF Clock
      <3> HIDE DEF v
      <3> QED
        BY <1>4, <3>1, <3>2, <3>3
    <2> QED
      BY <2>1, <2>2
  <1>6. log[v].by # "generator"
    BY <1>0, <1>1, <1>3, <1>5 DEF Mutations
  <1> QED
    BY <1>0, <1>3, <1>6, LogFacts

LEMMA DecideInv ==
    ASSUME Whole, Decide
    PROVE  Whole'
  <1>0. TypeOK /\ Phases /\ Clock /\ Mutations /\ EventsInv /\ EditsInv
    BY DEF Whole
  <1>1. /\ pc = "ask" /\ pc' = "emit" /\ asked' = NoEvent
        /\ UNCHANGED <<workspace, poll, events, baselined, budgets>>
    BY DEF Decide
  <1> DEFINE passed == [path |-> asked.path, type |-> asked.type, seen |-> asked.seen,
                        is |-> file[asked.path], unsure |-> marker # asked.payload]
  <1>2. \/ IsSystemMutation(asked) /\ UNCHANGED reported
        \/ ~IsSystemMutation(asked) /\ reported' = reported \cup {passed}
    BY DEF Decide, Report
  <1>3. asked \in Asks /\ asked # NoEvent
    BY <1>0, <1>1 DEF Phases, Asks, NoEvent
  <1>4. /\ asked.path \in Paths /\ asked.type \in {"deleted", "modified"}
        /\ asked.seen \in Changes \cup {0} /\ file[asked.path] \in Changes
    BY <1>0, <1>3 DEF Asks, EventsInv, Recent, TypeOK
  <1>5. TypeOK'
    <2>1. passed \in [path : Paths, type : {"deleted", "modified"},
                      seen : Changes \cup {0}, is : Changes, unsure : BOOLEAN]
      BY <1>4
    <2>2. reported' \subseteq [path : Paths, type : {"deleted", "modified"},
                               seen : Changes \cup {0}, is : Changes, unsure : BOOLEAN]
      BY <1>0, <1>2, <2>1 DEF TypeOK
    <2> QED
      BY <1>0, <1>1, <2>2 DEF TypeOK, workspace, poll, budgets, Changes, Events, Asks
  <1>6. Phases'
    BY <1>0, <1>1 DEF Phases, poll
  <1>7. Clock' /\ Mutations' /\ Scans'
    BY <1>1, SamePoll
  <1>8. EventsInv'
    BY <1>0, <1>1 DEF EventsInv, Recent, There, Unchanged, workspace, poll
  <1>9. EditsInv'
    <2> SUFFICES ASSUME NEW v \in StudentEdits \ baselined,
                        file[log[v].path] = v, previous[log[v].path] = v
                 PROVE  (Reported(v) \/ Covered(v) \/ Pending(v))'
      BY <1>1 DEF EditsInv, StudentEdits, Changes, workspace, poll
    <2>1. Reported(v) \/ Covered(v) \/ Pending(v)
      BY <1>0 DEF EditsInv
    <2>2. Reported(v) => Reported(v)'
      BY <1>2 DEF Reported
    <2>3. Covered(v) <=> Covered(v)'
      BY <1>1 DEF Covered, workspace
    <2>4. CASE asked.type = "modified" /\ asked.path = log[v].path /\ asked.seen = v
      <3>1. CASE IsSystemMutation(asked)
        <4>1. v \in Changes /\ ~log[v].gone
          BY DEF StudentEdits
        <4>2. There(file[asked.path])
          BY <1>0, <2>4, <4>1, LogFacts DEF There
        <4>3. log[v].time <= marker.time
          BY <2>4, <3>1, <4>2 DEF IsSystemMutation
        <4>4. marker # NoMarker
          BY <1>0, <1>1 DEF Phases
        <4>5. log[v].time \in Nat /\ marker.time \in Nat
          BY <1>0, <4>1, LogFacts, Numbers
        <4> QED
          BY <2>3, <4>3, <4>4, <4>5 DEF Covered
      <3>2. CASE reported' = reported \cup {passed}
        <4>1. passed \in reported' /\ passed.type = "modified" /\ passed.seen = v
          BY <2>4, <3>2
        <4> HIDE DEF passed
        <4> QED
          BY <4>1 DEF Reported
      <3> QED
        BY <1>2, <3>1, <3>2
    <2>5. CASE /\ Pending(v)
               /\ ~(asked.type = "modified" /\ asked.path = log[v].path /\ asked.seen = v)
      BY <1>1, <2>5 DEF Pending, workspace
    <2> QED
      BY <2>1, <2>2, <2>3, <2>4, <2>5
  <1>10. Lag <= Grace /\ GeneratorIsSilent => GeneratorIsSilent'
    <2>1. Lag <= Grace /\ ~IsSystemMutation(asked) => passed.unsure \/ log[passed.is].by = "student"
      BY <1>1, DecidedIsStudents
    <2>2. log' = log
      BY <1>1 DEF workspace
    <2> HIDE DEF passed
    <2> QED
      BY <1>2, <2>1, <2>2 DEF GeneratorIsSilent
  <1> QED
    BY <1>5, <1>6, <1>7, <1>8, <1>9, <1>10 DEF Whole
-----------------------------------------------------------------------------
LEMMA StepInv == Whole /\ [Next]_vars => Whole'
  <1> SUFFICES ASSUME Whole, [Next]_vars PROVE Whole'
    OBVIOUS
  <1>1. ASSUME NEW p \in Paths, StudentChanges(p) \/ GeneratorChanges(p) PROVE Whole'
    <2>1. PICK by \in {"student", "generator"}, gone \in BOOLEAN :
             Change(p, by, gone) /\ (by = "generator" => marker.state = "in_progress")
      BY <1>1 DEF StudentChanges, GeneratorChanges
    <2> QED
      BY <2>1, ChangeInv
  <1>2. CASE MutationBegins \/ MutationEnds
    BY <1>2, WriteMarkerInv
  <1>3. CASE Tick
    BY <1>3, TickInv
  <1>4. CASE PollStep
    BY <1>4, StartScanInv, ScanFileInv, StatMarkerInv, CompareInv, AskInv, DecideInv, EndPollInv
       DEF PollStep
  <1>5. CASE Restart
    BY <1>5, RestartInv
  <1>6. CASE UNCHANGED vars
    <2>1. TypeOK' /\ Phases' /\ Clock' /\ Mutations' /\ Scans' /\ EventsInv'
      BY <1>6 DEF vars, workspace, poll, budgets, Whole, TypeOK, Phases, Clock, Mutations, Scans,
                  EventsInv, Changes, Events, Asks, Fresh, Unchanged, Recent, There
    <2>2. EditsInv' /\ (GeneratorIsSilent => GeneratorIsSilent')
      BY <1>6, SameEdits DEF vars, poll, Whole
    <2> QED
      BY <2>1, <2>2 DEF Whole
  <1> QED
    BY <1>1, <1>2, <1>3, <1>4, <1>5, <1>6 DEF Next

LEMMA SpecWhole == Spec => []Whole
  BY InitInv, StepInv, PTL DEF Spec

\* The watcher's state is in order, and what is_system_mutation_event lets pass as a
\* student's was left by a student, whatever the Generator does between two of its
\* reads: if from the start of a poll to the end of the next no more time goes by
\* than the grace.
THEOREM Silent == Lag <= Grace => (Spec => []PollingInv)
  <1> SUFFICES ASSUME Lag <= Grace PROVE Spec => []PollingInv
    OBVIOUS
  <1>1. Whole => PollingInv
    BY DEF Whole, PollingInv
  <1> QED
    BY <1>1, SpecWhole, PTL

\* An edit of a student that the observer has taken into its baseline was reported,
\* or a mutation covers it, or filemon was started after it.
THEOREM NoEditLost == Spec => []EditsAreReported
  <1>1. Whole => EditsAreReported
    <2> SUFFICES ASSUME Whole, NEW v \in StudentEdits \ baselined, Settled(v)
                 PROVE  Reported(v) \/ Covered(v)
      BY DEF EditsAreReported
    <2>1. Phases /\ EditsInv
      BY DEF Whole
    <2>2. events = {} /\ asked = NoEvent
      BY <2>1 DEF Phases, Settled
    <2>3. ~Pending(v)
      BY <2>2 DEF Pending, NoEvent
    <2> QED
      BY <2>1, <2>3 DEF EditsInv, Settled
  <1> QED
    BY <1>1, SpecWhole, PTL
===============================================================================
