----------------------- MODULE CollectorDeliveryProofs -----------------------
(***************************************************************************)
(* Proofs about CollectorDelivery, for every set of events, every batch    *)
(* size and retry delay, any number of crashes and spool faults, and both  *)
(* kinds of collector.                                                     *)
(***************************************************************************)
EXTENDS CollectorDelivery, FiniteSetTheorems, TLAPS

USE DeliveryAssumption

\* The rank a new record gets is a positive number.
LEMMA NextRank == Cardinality(Accepted) + 1 \in Nat \ {0}
<1>1. Accepted \subseteq Events
  BY DEF Accepted
<1>2. IsFiniteSet(Accepted)
  BY <1>1, FS_Subset
<1>3. Cardinality(Accepted) \in Nat
  BY <1>2, FS_CardinalityType
<1> QED
  BY <1>3

LEMMA InitInv == Init => DeliveryInv
<1> SUFFICES ASSUME Init PROVE DeliveryInv
  OBVIOUS
<1>1. TypeOK
  BY DEF Init, TypeOK, Tasks
<1>2. Accepted = {} /\ Stored = {}
  BY DEF Init, Accepted, Stored
<1>3. QED
  BY <1>1, <1>2 DEF Init, DeliveryInv, DataInv, ControlInv,
     NoAcceptedEventLost, StoredAtMostOnce, TrueMeansStored, PostedIsPending,
     Tasks

\* Acquiring the lock, and taking an event, disturb only the control part.
LEMMA TakeEventInv ==
    ASSUME DeliveryInv, NEW e \in Events, TakeEvent(e)
    PROVE  DeliveryInv'
<1> USE DEF TakeEvent, durable, pipe, loop, flush, budget
<1>1. TypeOK'
  BY DEF DeliveryInv, TypeOK
<1>2. Accepted' = Accepted /\ Stored' = Stored
  BY DEF Accepted, Stored
<1>3. DataInv'
  BY <1>2 DEF DeliveryInv, DataInv, NoAcceptedEventLost, StoredAtMostOnce,
     TrueMeansStored
<1>4. ControlInv'
  BY <1>2 DEF DeliveryInv, ControlInv, Accepted
<1>5. PostedIsPending'
  BY DEF DeliveryInv, PostedIsPending, Due
<1> QED
  BY <1>1, <1>3, <1>4, <1>5 DEF DeliveryInv

\* The end of a flush, whether it returns or raises, leaves both tasks out of
\* flush_once, since the task that was in it held the lock.
LEMMA FlushEndInv ==
    ASSUME DeliveryInv, NEW t \in Tasks, flushPc[t] # "idle",
           Return(t) \/ Raise(t),
           spool' = spool, born' = born, wait' \in [Events -> 0..Retry],
           crashes' \in 0..MaxCrashes, faults' \in 0..MaxSpoolFaults
    PROVE  DeliveryInv'
<1> USE DEF Return, Raise, Stop, ForgetFlush, pipe, loop
<1>1. TypeOK'
  <2>1. /\ rows' \in [Events -> Nat]
        /\ up' \in BOOLEAN
        /\ orphans' \in SUBSET SUBSET Events
        /\ result' \in [Events -> {"none", "true", "false", "error"}]
    <3>1. /\ rows' \in [Events -> Nat] /\ up' \in BOOLEAN
          /\ orphans' \in SUBSET SUBSET Events
      BY DEF DeliveryInv, TypeOK
    <3>2. CASE Return(t)
      BY <3>1, <3>2 DEF DeliveryInv, TypeOK
    <3>3. CASE Raise(t)
      <4>1. result \in [Events -> {"none", "true", "false", "error"}]
        BY DEF DeliveryInv, TypeOK
      <4>2. result' = result \/ result' = [result EXCEPT ![cur] = "error"]
        BY <3>3
      <4> HIDE DEF Return, Raise, Stop, ForgetFlush, pipe, loop
      <4>3. result' \in [Events -> {"none", "true", "false", "error"}]
        BY <4>1, <4>2
      <4> QED
        BY <3>1, <4>3
    <3> QED
      BY <3>2, <3>3
  <2>2. /\ pipePc' \in {"idle", "enqueue", "flush", "contains"}
        /\ cur' \in Events \cup {None}
        /\ loopPc' \in {"flush", "sleep", "dead"}
        /\ sleep' \in 0..Retry
        /\ lock' \in Tasks \cup {"free"}
    BY DEF DeliveryInv, TypeOK
  <2>3. \/ ForgetFlush(t)
        \/ Stop
    BY DEF Tasks
  <2>4. /\ flushPc' \in [Tasks -> {"idle", "select", "resolve", "defer_all",
                "post", "await", "acknowledge", "defer_rest", "except"}]
        /\ records' \in [Tasks -> SUBSET Events]
    <3>1. CASE ForgetFlush(t)
      BY <3>1 DEF DeliveryInv, TypeOK
    <3>2. CASE Stop
      BY <3>2
    <3> QED
      BY <2>3, <3>1, <3>2
  <2>5. /\ attempted' \in [Tasks -> SUBSET Events]
        /\ acked' \in [Tasks -> SUBSET Events]
        /\ call' \in [Tasks -> {"none", "sent", "ok", "error"}]
    <3>1. CASE ForgetFlush(t)
      BY <3>1 DEF DeliveryInv, TypeOK
    <3>2. CASE Stop
      BY <3>2
    <3> QED
      BY <2>3, <3>1, <3>2
  <2> QED
    BY <2>1, <2>2, <2>4, <2>5 DEF DeliveryInv, TypeOK
<1>2. Accepted' = Accepted /\ Stored' = Stored
  BY DEF Accepted, Stored
<1>3. lock = t /\ (t = "pipe" => cur \in Accepted /\ cur \in Events)
  BY DEF DeliveryInv, ControlInv, Accepted
<1>4. DataInv'
  BY <1>2, <1>3 DEF DeliveryInv, TypeOK, DataInv, NoAcceptedEventLost, StoredAtMostOnce,
     TrueMeansStored, Tasks
<1>5. \A u \in Tasks : flushPc'[u] = "idle"
  BY <1>3 DEF DeliveryInv, TypeOK, ControlInv, Tasks
<1>6. ControlInv'
  BY <1>2, <1>3, <1>5 DEF DeliveryInv, TypeOK, ControlInv, Tasks
<1>7. PostedIsPending'
  BY <1>5 DEF PostedIsPending
<1> QED
  BY <1>1, <1>4, <1>6, <1>7 DEF DeliveryInv

LEMMA AcquireLockInv ==
    ASSUME DeliveryInv, NEW t \in Tasks, AcquireLock(t)
    PROVE  DeliveryInv'
<1> USE DEF AcquireLock, WantsLock, durable, pipe, loop, flush, budget
<1>1. TypeOK'
  BY DEF DeliveryInv, TypeOK, Tasks
<1>2. Accepted' = Accepted /\ Stored' = Stored
  BY DEF Accepted, Stored
<1>3. DataInv'
  BY <1>2 DEF DeliveryInv, TypeOK, DataInv, NoAcceptedEventLost, StoredAtMostOnce,
     TrueMeansStored, Tasks
<1>4. ControlInv'
  BY <1>2 DEF DeliveryInv, TypeOK, ControlInv, Tasks
<1>5. PostedIsPending'
  BY DEF DeliveryInv, TypeOK, ControlInv, PostedIsPending, Due, Tasks
<1> QED
  BY <1>1, <1>3, <1>4, <1>5 DEF DeliveryInv

LEMMA ResolveInv ==
    ASSUME DeliveryInv, NEW t \in Tasks, NEW resolved \in SUBSET Events, Resolve(t, resolved)
    PROVE  DeliveryInv'
<1> USE DEF Resolve, durable, pipe, loop, flush, budget
<1>1. TypeOK'
  BY DEF DeliveryInv, TypeOK, Tasks
<1>2. Accepted' = Accepted /\ Stored' = Stored
  BY DEF Accepted, Stored
<1>3. DataInv'
  <2>1. resolved \subseteq Accepted
    BY DEF DeliveryInv, DataInv, PostedIsPending, Due
  <2> QED
    BY <1>2, <2>1 DEF DeliveryInv, TypeOK, DataInv, NoAcceptedEventLost,
       StoredAtMostOnce, TrueMeansStored
<1>4. ControlInv'
  BY <1>2 DEF DeliveryInv, TypeOK, ControlInv, Tasks
<1>5. PostedIsPending'
  BY DEF DeliveryInv, TypeOK, ControlInv, PostedIsPending, Due, Tasks
<1> QED
  BY <1>1, <1>3, <1>4, <1>5 DEF DeliveryInv

LEMMA PostInv ==
    ASSUME DeliveryInv, NEW t \in Tasks, Post(t)
    PROVE  DeliveryInv'
<1> USE DEF Post, durable, pipe, loop, flush, budget
<1>1. TypeOK'
  BY DEF DeliveryInv, TypeOK, Tasks
<1>2. Accepted' = Accepted /\ Stored' = Stored
  BY DEF Accepted, Stored
<1>3. DataInv'
  BY <1>2 DEF DeliveryInv, TypeOK, DataInv, NoAcceptedEventLost, StoredAtMostOnce,
     TrueMeansStored, Tasks
<1>4. ControlInv'
  BY <1>2 DEF DeliveryInv, TypeOK, ControlInv, Tasks
<1>5. PostedIsPending'
  BY DEF DeliveryInv, TypeOK, ControlInv, PostedIsPending, Due, Tasks
<1> QED
  BY <1>1, <1>3, <1>4, <1>5 DEF DeliveryInv

LEMMA ReceiveOkInv ==
    ASSUME DeliveryInv, NEW t \in Tasks, ReceiveOk(t)
    PROVE  DeliveryInv'
<1> USE DEF ReceiveOk, durable, pipe, loop, flush, budget
<1>1. TypeOK'
  BY DEF DeliveryInv, TypeOK, Tasks
<1>2. Accepted' = Accepted /\ Stored' = Stored
  BY DEF Accepted, Stored
<1>3. DataInv'
  BY <1>2 DEF DeliveryInv, TypeOK, DataInv, NoAcceptedEventLost, StoredAtMostOnce,
     TrueMeansStored, Tasks
<1>4. ControlInv'
  BY <1>2 DEF DeliveryInv, TypeOK, ControlInv, Tasks
<1>5. PostedIsPending'
  BY DEF DeliveryInv, TypeOK, ControlInv, PostedIsPending, Due, Tasks
<1> QED
  BY <1>1, <1>3, <1>4, <1>5 DEF DeliveryInv

LEMMA ReceiveFailureInv ==
    ASSUME DeliveryInv, NEW t \in Tasks, ReceiveFailure(t)
    PROVE  DeliveryInv'
<1> USE DEF ReceiveFailure, AbandonCall, durable, pipe, loop, flush, budget
<1>1. TypeOK'
  BY DEF DeliveryInv, TypeOK, Tasks
<1>2. Accepted' = Accepted /\ Stored' = Stored
  BY DEF Accepted, Stored
<1>3. DataInv'
  BY <1>2 DEF DeliveryInv, TypeOK, DataInv, NoAcceptedEventLost, StoredAtMostOnce,
     TrueMeansStored, Tasks
<1>4. ControlInv'
  BY <1>2 DEF DeliveryInv, TypeOK, ControlInv, Tasks
<1>5. PostedIsPending'
  BY DEF DeliveryInv, TypeOK, ControlInv, PostedIsPending, Due, Tasks
<1> QED
  BY <1>1, <1>3, <1>4, <1>5 DEF DeliveryInv

LEMMA BackendRefusesInv ==
    ASSUME DeliveryInv, NEW t \in Tasks, BackendRefuses(t)
    PROVE  DeliveryInv'
<1> USE DEF BackendRefuses, durable, pipe, loop, flush, budget
<1>1. TypeOK'
  BY DEF DeliveryInv, TypeOK, Tasks
<1>2. Accepted' = Accepted /\ Stored' = Stored
  BY DEF Accepted, Stored
<1>3. DataInv'
  BY <1>2 DEF DeliveryInv, TypeOK, DataInv, NoAcceptedEventLost, StoredAtMostOnce,
     TrueMeansStored, Tasks
<1>4. ControlInv'
  BY <1>2 DEF DeliveryInv, TypeOK, ControlInv, Tasks
<1>5. PostedIsPending'
  BY DEF DeliveryInv, TypeOK, ControlInv, PostedIsPending, Due, Tasks
<1> QED
  BY <1>1, <1>3, <1>4, <1>5 DEF DeliveryInv

LEMMA CheckContainsInv ==
    ASSUME DeliveryInv, CheckContains
    PROVE  DeliveryInv'
<1> USE DEF CheckContains, SpoolFault, NoFault, durable, pipe, loop, flush, budget
<1>1. TypeOK'
  BY DEF DeliveryInv, TypeOK, Tasks
<1>2. Accepted' = Accepted /\ Stored' = Stored
  BY DEF Accepted, Stored
<1>3. DataInv'
  <2>1. cur \in spool \cup Stored
    BY DEF DeliveryInv, ControlInv, DataInv, NoAcceptedEventLost
  <2>2. TrueMeansStored'
    BY <1>2, <2>1 DEF DeliveryInv, TypeOK, DataInv, TrueMeansStored
  <2> QED
    BY <1>2, <2>2 DEF DeliveryInv, DataInv, NoAcceptedEventLost,
       StoredAtMostOnce
<1>4. ControlInv'
  BY <1>2 DEF DeliveryInv, TypeOK, ControlInv, Tasks
<1>5. PostedIsPending'
  BY DEF DeliveryInv, TypeOK, ControlInv, PostedIsPending, Due, Tasks
<1> QED
  BY <1>1, <1>3, <1>4, <1>5 DEF DeliveryInv

LEMMA LoopWakesInv ==
    ASSUME DeliveryInv, LoopWakes
    PROVE  DeliveryInv'
<1> USE DEF LoopWakes, durable, pipe, loop, flush, budget
<1>1. TypeOK'
  BY DEF DeliveryInv, TypeOK, Tasks
<1>2. Accepted' = Accepted /\ Stored' = Stored
  BY DEF Accepted, Stored
<1>3. DataInv'
  BY <1>2 DEF DeliveryInv, TypeOK, DataInv, NoAcceptedEventLost, StoredAtMostOnce,
     TrueMeansStored, Tasks
<1>4. ControlInv'
  BY <1>2 DEF DeliveryInv, TypeOK, ControlInv, Tasks
<1>5. PostedIsPending'
  BY DEF DeliveryInv, TypeOK, ControlInv, PostedIsPending, Due, Tasks
<1> QED
  BY <1>1, <1>3, <1>4, <1>5 DEF DeliveryInv

LEMMA TickInv ==
    ASSUME DeliveryInv, Tick
    PROVE  DeliveryInv'
<1> USE DEF Tick, Less, durable, pipe, loop, flush, budget
<1>1. TypeOK'
  BY DEF DeliveryInv, TypeOK, Tasks
<1>2. Accepted' = Accepted /\ Stored' = Stored
  BY DEF Accepted, Stored
<1>3. DataInv'
  BY <1>2 DEF DeliveryInv, TypeOK, DataInv, NoAcceptedEventLost, StoredAtMostOnce,
     TrueMeansStored, Tasks
<1>4. ControlInv'
  BY <1>2 DEF DeliveryInv, TypeOK, ControlInv, Tasks
<1>5. PostedIsPending'
  BY DEF DeliveryInv, TypeOK, ControlInv, PostedIsPending, Due, Tasks
<1> QED
  BY <1>1, <1>3, <1>4, <1>5 DEF DeliveryInv

LEMMA RestartInv ==
    ASSUME DeliveryInv, Restart
    PROVE  DeliveryInv'
<1> USE DEF Restart, durable, pipe, loop, flush, budget
<1>1. TypeOK'
  BY DEF DeliveryInv, TypeOK, Tasks
<1>2. Accepted' = Accepted /\ Stored' = Stored
  BY DEF Accepted, Stored
<1>3. DataInv'
  BY <1>2 DEF DeliveryInv, TypeOK, DataInv, NoAcceptedEventLost, StoredAtMostOnce,
     TrueMeansStored, Tasks
<1>4. ControlInv'
  BY <1>2 DEF DeliveryInv, TypeOK, ControlInv, Tasks
<1>5. PostedIsPending'
  BY DEF DeliveryInv, TypeOK, ControlInv, PostedIsPending, Due, Tasks
<1> QED
  BY <1>1, <1>3, <1>4, <1>5 DEF DeliveryInv

LEMMA CrashInv ==
    ASSUME DeliveryInv, Crash
    PROVE  DeliveryInv'
<1> USE DEF Crash, AbandonCall, Stop, durable, pipe, loop, flush, budget
<1>1. TypeOK'
  <2>1. orphans' \in SUBSET SUBSET Events
    BY DEF DeliveryInv, TypeOK
  <2>2. crashes' \in 0..MaxCrashes
    BY DEF DeliveryInv, TypeOK
  <2>3. /\ flushPc' \in [Tasks -> {"idle", "select", "resolve", "defer_all",
                "post", "await", "acknowledge", "defer_rest", "except"}]
        /\ records' \in [Tasks -> SUBSET Events]
        /\ attempted' \in [Tasks -> SUBSET Events]
        /\ acked' \in [Tasks -> SUBSET Events]
        /\ call' \in [Tasks -> {"none", "sent", "ok", "error"}]
    OBVIOUS
  <2>4. /\ UNCHANGED <<spool, wait, born, rows, result, faults>>
        /\ up' = FALSE /\ pipePc' = "idle" /\ cur' = None
        /\ loopPc' = "flush" /\ sleep' = 0 /\ lock' = "free"
    OBVIOUS
  <2> HIDE DEF Crash, AbandonCall, Stop
  <2>5. /\ spool' \in SUBSET Events
        /\ wait' \in [Events -> 0..Retry]
        /\ born' \in [Events -> Nat]
        /\ rows' \in [Events -> Nat]
    BY <2>4 DEF DeliveryInv, TypeOK
  <2>6. /\ up' \in BOOLEAN
        /\ pipePc' \in {"idle", "enqueue", "flush", "contains"}
        /\ cur' \in Events \cup {None}
    BY <2>4 DEF DeliveryInv, TypeOK
  <2>7. /\ result' \in [Events -> {"none", "true", "false", "error"}]
        /\ loopPc' \in {"flush", "sleep", "dead"}
        /\ sleep' \in 0..Retry
        /\ lock' \in Tasks \cup {"free"}
        /\ faults' \in 0..MaxSpoolFaults
    BY <2>4 DEF DeliveryInv, TypeOK
  <2> QED
    BY <2>1, <2>2, <2>3, <2>5, <2>6, <2>7 DEF TypeOK
<1>2. Accepted' = Accepted /\ Stored' = Stored
  BY DEF Accepted, Stored
<1>3. DataInv'
  BY <1>2 DEF DeliveryInv, TypeOK, DataInv, NoAcceptedEventLost, StoredAtMostOnce,
     TrueMeansStored, Tasks
<1>4. ControlInv'
  BY <1>2 DEF DeliveryInv, TypeOK, ControlInv, Tasks
<1>5. PostedIsPending'
  BY DEF DeliveryInv, TypeOK, ControlInv, PostedIsPending, Due, Tasks
<1> QED
  BY <1>1, <1>3, <1>4, <1>5 DEF DeliveryInv

LEMMA EnqueueEventInv ==
    ASSUME DeliveryInv, EnqueueEvent
    PROVE  DeliveryInv'
<1> DEFINE Rest == <<rows, up, loop, lock, flush, acked, call, orphans>>
<1>1. pipePc = "enqueue" /\ cur \in Events /\ UNCHANGED Rest
  BY DEF EnqueueEvent, DeliveryInv, TypeOK, ControlInv
<1>2. Stored' = Stored
  BY <1>1 DEF Stored
<1>3. CASE /\ SpoolFault
           /\ pipePc' = "idle" /\ cur' = None
           /\ result' = [result EXCEPT ![cur] = "error"]
  <2> USE <1>1, <1>3 DEF SpoolFault, durable, loop, flush
  <2>1. TypeOK'
    BY DEF DeliveryInv, TypeOK
  <2>2. Accepted' = Accepted
    BY DEF Accepted
  <2>3. DataInv'
    BY <1>2, <2>2 DEF DeliveryInv, TypeOK, DataInv, NoAcceptedEventLost,
       StoredAtMostOnce, TrueMeansStored
  <2>4. ControlInv'
    BY <2>2 DEF DeliveryInv, ControlInv
  <2>5. PostedIsPending'
    BY DEF DeliveryInv, PostedIsPending, Due
  <2> QED
    BY <2>1, <2>3, <2>4, <2>5 DEF DeliveryInv
<1>4. CASE /\ Enqueue(cur) /\ NoFault
           /\ pipePc' = "flush"
           /\ UNCHANGED <<cur, result>>
  <2> USE <1>1, <1>4 DEF NoFault, budget, loop, flush
  <2>1. cur \notin Accepted /\ cur \notin spool
    BY DEF DeliveryInv, DataInv, ControlInv
  <2>2. PICK rank \in Nat \ {0} :
          /\ spool' = spool \cup {cur}
          /\ wait' = [wait EXCEPT ![cur] = 0]
          /\ born' = [born EXCEPT ![cur] = rank]
    BY <2>1, NextRank DEF Enqueue
  <2>3. TypeOK'
    BY <2>2 DEF DeliveryInv, TypeOK
  <2>4. Accepted' = Accepted \cup {cur}
    BY <2>2 DEF DeliveryInv, TypeOK, Accepted
  <2>5. DataInv'
    <3>1. spool' \subseteq Accepted' /\ NoAcceptedEventLost' /\ Stored' \subseteq Accepted'
      BY <1>2, <2>2, <2>4 DEF DeliveryInv, DataInv, NoAcceptedEventLost
    <3>2. StoredAtMostOnce' /\ TrueMeansStored'
      BY <1>2 DEF DeliveryInv, DataInv, StoredAtMostOnce, TrueMeansStored
    <3> QED
      BY <1>2, <2>4, <3>1, <3>2 DEF DeliveryInv, DataInv
  <2>6. ControlInv'
    BY <2>1, <2>4 DEF DeliveryInv, ControlInv
  <2>7. Due \subseteq Due'
    BY <2>1, <2>2 DEF DeliveryInv, TypeOK, Due
  <2>8. PostedIsPending'
    BY <2>7 DEF DeliveryInv, PostedIsPending
  <2> QED
    BY <2>3, <2>5, <2>6, <2>8 DEF DeliveryInv
<1> QED
  BY <1>3, <1>4 DEF EnqueueEvent

LEMMA SelectInv ==
    ASSUME DeliveryInv, NEW t \in Tasks, Select(t)
    PROVE  DeliveryInv'
<1>1. CASE Return(t) /\ NoFault /\ UNCHANGED durable
  BY <1>1, FlushEndInv DEF DeliveryInv, TypeOK, Select, NoFault, durable, budget
<1>2. CASE SpoolFault /\ Raise(t)
  BY <1>2, FlushEndInv DEF DeliveryInv, TypeOK, Select, SpoolFault, durable
<1>3. ASSUME NEW batch \in SUBSET Due,
             records' = [records EXCEPT ![t] = batch],
             flushPc' = [flushPc EXCEPT ![t] = "resolve"],
             UNCHANGED <<durable, budget, rows, up, pipe, loop, lock,
                         attempted, acked, call, orphans>>
      PROVE  DeliveryInv'
  <2> USE <1>3 DEF durable, budget, pipe, loop
  <2>1. flushPc[t] = "select"
    BY DEF Select
  <2>2. TypeOK'
    BY DEF DeliveryInv, TypeOK, Due
  <2>3. Accepted' = Accepted /\ Stored' = Stored
    BY DEF Accepted, Stored
  <2>4. DataInv'
    BY <2>3 DEF DeliveryInv, DataInv, NoAcceptedEventLost, StoredAtMostOnce,
       TrueMeansStored
  <2>5. ControlInv'
    BY <2>1, <2>3 DEF DeliveryInv, TypeOK, ControlInv
  <2>6. PostedIsPending'
    BY <2>1 DEF DeliveryInv, TypeOK, PostedIsPending, Due
  <2> QED
    BY <2>2, <2>4, <2>5, <2>6 DEF DeliveryInv
<1> QED
  BY <1>1, <1>2, <1>3 DEF Select, NoFault

LEMMA DeferInv ==
    ASSUME DeliveryInv, NEW t \in Tasks,
           DeferAll(t) \/ DeferUnacknowledged(t) \/ DeferAttempted(t)
    PROVE  DeliveryInv'
<1>1. ASSUME NEW ids \in SUBSET Events, RetryLater(ids), NoFault, Return(t),
             flushPc[t] # "idle"
      PROVE  DeliveryInv'
  <2>1. wait' \in [Events -> 0..Retry]
    BY <1>1 DEF DeliveryInv, TypeOK, RetryLater
  <2> QED
    BY <1>1, <2>1, FlushEndInv DEF DeliveryInv, TypeOK, RetryLater, NoFault, budget
<1>2. ASSUME SpoolFault, Raise(t), flushPc[t] # "idle"
      PROVE  DeliveryInv'
  BY <1>2, FlushEndInv DEF DeliveryInv, TypeOK, SpoolFault, durable
<1>3. records[t] \in SUBSET Events /\ attempted[t] \in SUBSET Events
  BY DEF DeliveryInv, TypeOK
<1> QED
  BY <1>1, <1>2, <1>3 DEF DeferAll, DeferUnacknowledged, DeferAttempted

LEMMA AcknowledgeInv ==
    ASSUME DeliveryInv, NEW t \in Tasks, AcknowledgeCompleted(t)
    PROVE  DeliveryInv'
<1> USE DEF AcknowledgeCompleted, pipe, loop, flush, budget
<1>1. flushPc[t] = "acknowledge"
  OBVIOUS
<1>2. CASE SpoolFault /\ flushPc' = [flushPc EXCEPT ![t] = "except"]
  <2> USE <1>2 DEF SpoolFault, durable
  <2>1. TypeOK'
    BY DEF DeliveryInv, TypeOK
  <2>2. Accepted' = Accepted /\ Stored' = Stored
    BY DEF Accepted, Stored
  <2>3. DataInv'
    BY <2>2 DEF DeliveryInv, DataInv, NoAcceptedEventLost, StoredAtMostOnce,
       TrueMeansStored
  <2>4. ControlInv'
    BY <1>1, <2>2 DEF DeliveryInv, TypeOK, ControlInv
  <2>5. PostedIsPending'
    BY DEF DeliveryInv, TypeOK, PostedIsPending, Due
  <2> QED
    BY <2>1, <2>3, <2>4, <2>5 DEF DeliveryInv
<1>3. CASE /\ Acknowledge(attempted[t] \cap acked[t])
           /\ flushPc' = [flushPc EXCEPT ![t] = "defer_rest"]
           /\ NoFault
  <2> USE <1>3 DEF Acknowledge, NoFault
  <2>1. TypeOK'
    BY DEF DeliveryInv, TypeOK
  <2>2. Accepted' = Accepted /\ Stored' = Stored
    BY DEF Accepted, Stored
  <2>3. attempted[t] \cap acked[t] \subseteq Stored
    BY DEF DeliveryInv, DataInv
  <2>4. DataInv'
    BY <2>2, <2>3 DEF DeliveryInv, DataInv, NoAcceptedEventLost,
       StoredAtMostOnce, TrueMeansStored
  <2>5. ControlInv'
    BY <1>1, <2>2 DEF DeliveryInv, TypeOK, ControlInv
  <2>6. \A u \in Tasks : u # t => flushPc'[u] = "idle"
    BY <1>1 DEF DeliveryInv, TypeOK, ControlInv
  <2>7. PostedIsPending'
    BY <2>6 DEF DeliveryInv, TypeOK, PostedIsPending
  <2> QED
    BY <2>1, <2>4, <2>5, <2>7 DEF DeliveryInv
<1> QED
  BY <1>2, <1>3

\* A transaction adds rows of accepted events, one each, and removes none.
LEMMA InsertBatchInv ==
    ASSUME TypeOK, DataInv, NEW batch \in SUBSET Accepted, InsertBatch(batch)
    PROVE  /\ rows' \in [Events -> Nat]
           /\ Stored' = Stored \cup batch
           /\ StoredAtMostOnce'
<1>1. rows' \in [Events -> Nat]
  BY DEF TypeOK, InsertBatch
<1>2. Stored' = Stored \cup batch
  BY DEF TypeOK, InsertBatch, Stored, Accepted
<1>3. StoredAtMostOnce'
  BY DEF TypeOK, DataInv, InsertBatch, StoredAtMostOnce
<1> QED
  BY <1>1, <1>2, <1>3

LEMMA BackendAcceptsInv ==
    ASSUME DeliveryInv, NEW t \in Tasks, BackendAccepts(t)
    PROVE  DeliveryInv'
<1> USE DEF BackendAccepts, durable, pipe, loop, flush, budget
<1>1. attempted[t] \in SUBSET Accepted /\ Accepted' = Accepted
  BY DEF DeliveryInv, DataInv, Accepted
<1>2. /\ rows' \in [Events -> Nat]
      /\ Stored' = Stored \cup attempted[t]
      /\ StoredAtMostOnce'
  BY <1>1, InsertBatchInv DEF DeliveryInv
<1>3. TypeOK'
  BY <1>2 DEF DeliveryInv, TypeOK
<1>4. DataInv'
  BY <1>1, <1>2 DEF DeliveryInv, TypeOK, DataInv, NoAcceptedEventLost,
     TrueMeansStored
<1>5. ControlInv'
  BY <1>1 DEF DeliveryInv, ControlInv
<1>6. PostedIsPending'
  BY DEF DeliveryInv, PostedIsPending, Due
<1> QED
  BY <1>3, <1>4, <1>5, <1>6 DEF DeliveryInv

LEMMA LateRequestInv ==
    ASSUME DeliveryInv, NEW batch \in orphans, LateRequest(batch)
    PROVE  DeliveryInv'
<1> USE DEF LateRequest, durable, pipe, loop, flush, budget
<1>1. batch \in SUBSET Accepted /\ Accepted' = Accepted
  BY DEF DeliveryInv, DataInv, Accepted
<1>2. /\ rows' \in [Events -> Nat]
      /\ Stored \subseteq Stored'
      /\ Stored' \subseteq Stored \cup batch
      /\ StoredAtMostOnce'
  BY <1>1, InsertBatchInv DEF DeliveryInv, TypeOK, DataInv, Stored, StoredAtMostOnce
<1>3. TypeOK'
  BY <1>2 DEF DeliveryInv, TypeOK
<1>4. DataInv'
  BY <1>1, <1>2 DEF DeliveryInv, DataInv, NoAcceptedEventLost, TrueMeansStored
<1>5. ControlInv'
  BY <1>1 DEF DeliveryInv, ControlInv
<1>6. PostedIsPending'
  BY DEF DeliveryInv, PostedIsPending, Due
<1> QED
  BY <1>3, <1>4, <1>5, <1>6 DEF DeliveryInv

LEMMA StutterInv ==
    ASSUME DeliveryInv, UNCHANGED vars
    PROVE  DeliveryInv'
<1> USE DEF vars, durable, pipe, loop, flush, budget
<1>1. TypeOK'
  BY DEF DeliveryInv, TypeOK
<1>2. Accepted' = Accepted /\ Stored' = Stored
  BY DEF Accepted, Stored
<1>3. DataInv'
  BY <1>2 DEF DeliveryInv, DataInv, NoAcceptedEventLost, StoredAtMostOnce,
     TrueMeansStored
<1>4. ControlInv'
  BY <1>2 DEF DeliveryInv, ControlInv
<1>5. PostedIsPending'
  BY DEF DeliveryInv, PostedIsPending, Due
<1> QED
  BY <1>1, <1>3, <1>4, <1>5 DEF DeliveryInv

LEMMA FlushStepInv ==
    ASSUME DeliveryInv, NEW t \in Tasks, FlushStep(t)
    PROVE  DeliveryInv'
  BY SelectInv, ResolveInv, DeferInv, PostInv, ReceiveOkInv,
     ReceiveFailureInv, AcknowledgeInv DEF FlushStep

LEMMA NextInv == DeliveryInv /\ [Next]_vars => DeliveryInv'
<1> SUFFICES ASSUME DeliveryInv, [Next]_vars
             PROVE  DeliveryInv'
  OBVIOUS
<1>1. CASE \E e \in Events : TakeEvent(e)
  BY <1>1, TakeEventInv
<1>2. CASE EnqueueEvent
  BY <1>2, EnqueueEventInv
<1>3. CASE CheckContains
  BY <1>3, CheckContainsInv
<1>4. ASSUME NEW t \in Tasks,
             AcquireLock(t) \/ FlushStep(t) \/ BackendAccepts(t) \/ BackendRefuses(t)
      PROVE  DeliveryInv'
  BY <1>4, AcquireLockInv, FlushStepInv, BackendAcceptsInv, BackendRefusesInv
<1>5. CASE \E batch \in orphans : LateRequest(batch)
  BY <1>5, LateRequestInv
<1>6. CASE LoopWakes \/ Tick \/ Crash \/ Restart
  BY <1>6, LoopWakesInv, TickInv, CrashInv, RestartInv
<1>7. CASE UNCHANGED vars
  BY <1>7, StutterInv
<1> QED
  BY <1>1, <1>2, <1>3, <1>4, <1>5, <1>6, <1>7 DEF Next

\* The inductive invariant holds in every reachable state.
THEOREM Safety == Spec => []DeliveryInv
  BY InitInv, NextInv, PTL DEF Spec

\* An event committed to the spool is never lost before it is stored.
THEOREM NothingLost == Spec => []NoAcceptedEventLost
<1>1. DeliveryInv => NoAcceptedEventLost
  BY DEF DeliveryInv, DataInv
<1> QED
  BY Safety, <1>1, PTL

\* Retries, late and duplicated requests never store an event twice.
THEOREM StoredOnce == Spec => []StoredAtMostOnce
<1>1. DeliveryInv => StoredAtMostOnce
  BY DEF DeliveryInv, DataInv
<1> QED
  BY Safety, <1>1, PTL

\* A registration that reports success is of an event the backend has stored.
THEOREM SuccessIsStored == Spec => []TrueMeansStored
<1>1. DeliveryInv => TrueMeansStored
  BY DEF DeliveryInv, DataInv
<1> QED
  BY Safety, <1>1, PTL

\* The lock keeps the batch being sent in step with the spool.
THEOREM NoStaleBatch == Spec => []PostedIsPending
<1>1. DeliveryInv => PostedIsPending
  BY DEF DeliveryInv
<1> QED
  BY Safety, <1>1, PTL
-----------------------------------------------------------------------------
(***************************************************************************)
(* The refinement: every step is one of the promise's, or invisible to it. *)
(***************************************************************************)

Invisible == UNCHANGED <<spool, born, rows>>

LEMMA InvisibleSteps ==
    ASSUME NEW t \in Tasks,
           \/ \E e \in Events : TakeEvent(e)
           \/ CheckContains
           \/ AcquireLock(t)
           \/ Select(t)
           \/ \E resolved \in SUBSET Events : Resolve(t, resolved)
           \/ DeferAll(t) \/ DeferUnacknowledged(t) \/ DeferAttempted(t)
           \/ Post(t) \/ ReceiveOk(t) \/ ReceiveFailure(t)
           \/ BackendRefuses(t)
           \/ LoopWakes \/ Tick \/ Crash \/ Restart
           \/ UNCHANGED vars
    PROVE  Invisible
<1> USE DEF Invisible, durable, SpoolFault, RetryLater
<1>1. Return(t) \/ Raise(t) => rows' = rows
  BY DEF Return, Raise, Stop
<1>2. CASE Select(t)
  BY <1>1, <1>2 DEF Select
<1>3. CASE DeferAll(t) \/ DeferUnacknowledged(t) \/ DeferAttempted(t)
  BY <1>1, <1>3 DEF DeferAll, DeferUnacknowledged, DeferAttempted
<1>4. CASE CheckContains \/ (\E e \in Events : TakeEvent(e)) \/ AcquireLock(t)
  BY <1>4 DEF CheckContains, TakeEvent, AcquireLock
<1>5. CASE \E resolved \in SUBSET Events : Resolve(t, resolved)
  BY <1>5 DEF Resolve
<1>6. CASE Post(t) \/ ReceiveOk(t) \/ ReceiveFailure(t) \/ BackendRefuses(t)
  BY <1>6 DEF Post, ReceiveOk, ReceiveFailure, BackendRefuses
<1>7. CASE LoopWakes \/ Tick \/ Crash \/ Restart \/ UNCHANGED vars
  BY <1>7 DEF LoopWakes, Tick, Crash, Restart, Stop, vars
<1> QED
  BY <1>2, <1>3, <1>4, <1>5, <1>6, <1>7

LEMMA InvisibleIsStutter == Invisible => UNCHANGED Promise!vars
  BY DEF Invisible, Promise!vars, Accepted, Stored

LEMMA EnqueueRefines ==
    ASSUME DeliveryInv, EnqueueEvent
    PROVE  [Promise!Next]_Promise!vars
<1>1. cur \in Events /\ cur \notin Accepted /\ cur \notin spool
  BY DEF EnqueueEvent, DeliveryInv, TypeOK, DataInv, ControlInv
<1>2. CASE SpoolFault
  <2>1. Invisible
    BY <1>2 DEF EnqueueEvent, SpoolFault, Invisible, durable
  <2> QED
    BY <2>1, InvisibleIsStutter
<1>3. CASE Enqueue(cur)
  <2>1. PICK rank \in Nat \ {0} :
          /\ spool' = spool \cup {cur}
          /\ born' = [born EXCEPT ![cur] = rank]
    BY <1>1, <1>3, NextRank DEF Enqueue
  <2>2. Accepted' = Accepted \cup {cur}
    BY <1>1, <2>1 DEF DeliveryInv, TypeOK, Accepted
  <2>3. Stored' = Stored
    BY DEF EnqueueEvent, Stored
  <2>4. (Accepted \ spool)' = Accepted \ spool
    BY <1>1, <2>1, <2>2
  <2>5. Promise!Accept(cur)
    BY <1>1, <2>2, <2>3, <2>4 DEF Promise!Accept
  <2> QED
    BY <1>1, <2>5 DEF Promise!Next
<1> QED
  BY <1>2, <1>3 DEF EnqueueEvent

LEMMA StoreRefines ==
    ASSUME DeliveryInv, NEW batch \in SUBSET Accepted, InsertBatch(batch),
           spool' = spool, born' = born
    PROVE  [Promise!Next]_Promise!vars
<1>1. Stored' = Stored \cup batch
  BY InsertBatchInv DEF DeliveryInv
<1>2. Accepted' = Accepted
  BY DEF Accepted
<1>3. CASE batch \subseteq Stored
  BY <1>1, <1>2, <1>3 DEF Promise!vars
<1>4. CASE ~(batch \subseteq Stored)
  <2>1. Promise!Store(batch \ Stored)
    BY <1>1, <1>2, <1>4 DEF Promise!Store
  <2>2. batch \ Stored \in SUBSET Events
    BY DEF Accepted
  <2> QED
    BY <2>1, <2>2 DEF Promise!Next
<1> QED
  BY <1>3, <1>4

LEMMA AcknowledgeRefines ==
    ASSUME DeliveryInv, NEW t \in Tasks, AcknowledgeCompleted(t)
    PROVE  [Promise!Next]_Promise!vars
<1>1. CASE SpoolFault
  <2>1. Invisible
    BY <1>1 DEF AcknowledgeCompleted, SpoolFault, Invisible, durable
  <2> QED
    BY <2>1, InvisibleIsStutter
<1>2. CASE Acknowledge(attempted[t] \cap acked[t])
  <2> DEFINE gone == attempted[t] \cap acked[t] \cap spool
  <2>1. Accepted' = Accepted /\ Stored' = Stored
    BY <1>2 DEF AcknowledgeCompleted, Acknowledge, Accepted, Stored
  <2>2. gone \subseteq Stored /\ gone \subseteq spool /\ spool \subseteq Accepted
    BY DEF DeliveryInv, DataInv
  <2>3. spool' = spool \ gone
    BY <1>2 DEF Acknowledge
  <2>4. (Accepted \ spool)' = (Accepted \ spool) \cup gone
    BY <2>1, <2>2, <2>3
  <2>5. CASE gone = {}
    BY <2>1, <2>4, <2>5 DEF Promise!vars
  <2>6. CASE gone # {}
    <3>1. Promise!Release(gone)
      BY <2>1, <2>2, <2>4, <2>6 DEF Promise!Release
    <3>2. gone \in SUBSET Events
      BY <2>2 DEF Accepted
    <3> QED
      BY <3>1, <3>2 DEF Promise!Next
  <2> QED
    BY <2>5, <2>6
<1> QED
  BY <1>1, <1>2 DEF AcknowledgeCompleted

LEMMA NextRefines ==
    DeliveryInv /\ [Next]_vars => [Promise!Next]_Promise!vars
<1> SUFFICES ASSUME DeliveryInv, [Next]_vars
             PROVE  [Promise!Next]_Promise!vars
  OBVIOUS
<1>1. CASE EnqueueEvent
  BY <1>1, EnqueueRefines
<1>2. CASE \E batch \in orphans : LateRequest(batch)
  <2>1. PICK batch \in orphans : LateRequest(batch)
    BY <1>2
  <2>2. batch \in SUBSET Accepted /\ spool' = spool /\ born' = born
    BY <2>1 DEF DeliveryInv, DataInv, LateRequest, durable
  <2>3. InsertBatch(batch) \/ Invisible
    BY <2>1, <2>2 DEF LateRequest, Invisible
  <2> QED
    BY <2>2, <2>3, StoreRefines, InvisibleIsStutter
<1>3. ASSUME NEW t \in Tasks, BackendAccepts(t)
      PROVE  [Promise!Next]_Promise!vars
  <2>1. /\ attempted[t] \in SUBSET Accepted
        /\ InsertBatch(attempted[t])
        /\ spool' = spool /\ born' = born
    BY <1>3 DEF DeliveryInv, DataInv, BackendAccepts, durable
  <2> QED
    BY <2>1, StoreRefines
<1>4. ASSUME NEW t \in Tasks, AcknowledgeCompleted(t)
      PROVE  [Promise!Next]_Promise!vars
  BY <1>4, AcknowledgeRefines
<1>5. ASSUME NEW t \in Tasks, ~AcknowledgeCompleted(t),
             AcquireLock(t) \/ FlushStep(t) \/ BackendRefuses(t)
      PROVE  [Promise!Next]_Promise!vars
  BY <1>5, InvisibleSteps, InvisibleIsStutter DEF FlushStep
<1>6. CASE \/ \E e \in Events : TakeEvent(e)
           \/ CheckContains \/ LoopWakes \/ Tick \/ Crash \/ Restart
           \/ UNCHANGED vars
  <2>1. "loop" \in Tasks
    BY DEF Tasks
  <2> QED
    BY <1>6, <2>1, InvisibleSteps, InvisibleIsStutter
<1> QED
  BY <1>1, <1>2, <1>3, <1>4, <1>5, <1>6 DEF Next

\* The collector, its spool, the network and the backend together implement
\* the promise of EventDelivery.
THEOREM Refinement == Spec => DeliveryIsFaithful
<1>1. Init => Promise!Init
  BY DEF Init, Promise!Init, Accepted, Stored
<1> QED
  BY <1>1, Safety, NextRefines, PTL DEF Spec, DeliveryIsFaithful, Promise!Spec
=============================================================================
