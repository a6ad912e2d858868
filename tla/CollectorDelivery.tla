-------------------------- MODULE CollectorDelivery --------------------------
(***************************************************************************)
(* One collector process (filemon or procmon), its durable SQLite spool,   *)
(* the network and the batch endpoint of the backend.                      *)
(*                                                                         *)
(* Two asyncio tasks of the process call flush_once: the pipeline task,    *)
(* after each enqueue, and the retry loop, every SPOOL_RETRY_SECONDS.  An  *)
(* asyncio.Lock serialises them.  Every await of flush_once is a point     *)
(* where the other task, the clock, the network or a crash may step in, so *)
(* the code between two awaits is one action here.                         *)
(*                                                                         *)
(* filemon and procmon share spool.py and the body of flush_once; they     *)
(* differ in what happens when the retry loop raises, see Supervised.      *)
(***************************************************************************)
EXTENDS Integers, FiniteSets

CONSTANTS
    Events,         \* events the pipeline may hand to the sender, by event_id
    Invalid,        \* events whose payload the backend's schemas refuse (422)
    Unresolvable,   \* events whose class_div never resolves to a course_id
    Batch,          \* settings.SPOOL_BATCH_SIZE
    Retry,          \* settings.SPOOL_RETRY_SECONDS, in ticks of the clock
    Supervised,     \* TRUE: the retry loop runs in a TaskGroup (filemon)
                    \* FALSE: a bare asyncio.create_task (procmon)
    MaxCrashes,     \* bound on crashes of the collector process
    MaxSpoolFaults, \* bound on failing SQLite operations
    None            \* "no event"

ASSUME DeliveryAssumption ==
    /\ IsFiniteSet(Events)
    /\ Invalid \subseteq Events
    /\ Unresolvable \subseteq Events
    /\ Batch \in Nat \ {0}
    /\ Retry \in Nat \ {0}
    /\ Supervised \in BOOLEAN
    /\ MaxCrashes \in Nat
    /\ MaxSpoolFaults \in Nat
    /\ None \notin Events

VARIABLES
    \* durable: the rows of pending_event in the spool file
    spool,      \* the event_ids that have a row
    wait,       \* ticks until next_attempt_at (0: the record is due)
    born,       \* rank of created_at, 0 for an event never enqueued
    \* durable: the event tables of the backend
    rows,       \* number of rows with this event_id
    \* the collector process
    up,         \* the process runs
    pipePc,     \* where register_snapshot / send_event is
    cur,        \* the event it is registering
    result,     \* what it returned for each event
    loopPc,     \* where run_retry_loop is
    sleep,      \* ticks left of its asyncio.sleep
    lock,       \* the task that holds _flush_lock
    flushPc,    \* [Tasks]: where the task's call of flush_once is
    records,    \* [Tasks]: its local `records`
    attempted,  \* [Tasks]: its local `attempted_ids`
    acked,      \* [Tasks]: the acknowledged_event_ids of its response
    \* the network
    call,       \* [Tasks]: the request its flush_once awaits
    orphans,    \* requests whose sender no longer waits for them
    \* fault budgets
    crashes, faults

durable == <<spool, wait, born>>
pipe == <<pipePc, cur, result>>
loop == <<loopPc, sleep>>
flush == <<flushPc, records, attempted>>
budget == <<crashes, faults>>
vars == <<durable, rows, up, pipe, loop, lock, flush, acked, call, orphans,
          budget>>

Tasks == {"pipe", "loop"}

Accepted == {e \in Events : born[e] > 0}
Stored == {e \in Events : rows[e] > 0}

Init ==
    /\ spool = {}
    /\ wait = [e \in Events |-> 0]
    /\ born = [e \in Events |-> 0]
    /\ rows = [e \in Events |-> 0]
    /\ up = TRUE
    /\ pipePc = "idle"
    /\ cur = None
    /\ result = [e \in Events |-> "none"]
    /\ loopPc = "flush"
    /\ sleep = 0
    /\ lock = "free"
    /\ flushPc = [t \in Tasks |-> "idle"]
    /\ records = [t \in Tasks |-> {}]
    /\ attempted = [t \in Tasks |-> {}]
    /\ acked = [t \in Tasks |-> {}]
    /\ call = [t \in Tasks |-> "none"]
    /\ orphans = {}
    /\ crashes = 0
    /\ faults = 0
-----------------------------------------------------------------------------
(***************************************************************************)
(* EventSpool: each operation is one SQLite transaction.                   *)
(***************************************************************************)

\* INSERT OR IGNORE; next_attempt_at takes its default 0.
Enqueue(e) ==
    IF e \in spool
    THEN UNCHANGED durable
    ELSE /\ spool' = spool \cup {e}
         /\ wait' = [wait EXCEPT ![e] = 0]
         /\ born' = [born EXCEPT ![e] = Cardinality(Accepted) + 1]

Due == {e \in spool : wait[e] = 0}

\* WHERE next_attempt_at <= now ORDER BY created_at LIMIT Batch
IsPending(batch) ==
    /\ batch \subseteq Due
    /\ \A e \in batch, f \in Due \ batch : born[e] < born[f]
    /\ Cardinality(batch) <= Batch
    /\ Cardinality(batch) < Batch => batch = Due

Acknowledge(ids) ==
    /\ spool' = spool \ ids
    /\ wait' = [e \in Events |-> IF e \in ids THEN 0 ELSE wait[e]]
    /\ UNCHANGED born

\* The UPDATE touches only the ids that still have a row.
RetryLater(ids) ==
    /\ wait' = [e \in Events |-> IF e \in ids \cap spool THEN Retry ELSE wait[e]]
    /\ UNCHANGED <<spool, born>>

\* A spool operation raises instead (locked, I/O error) and changes nothing.
SpoolFault ==
    /\ faults < MaxSpoolFaults
    /\ faults' = faults + 1
    /\ UNCHANGED <<durable, crashes>>

NoFault == UNCHANGED budget
-----------------------------------------------------------------------------
(***************************************************************************)
(* How the flush_once of task t ends.                                      *)
(***************************************************************************)

ForgetFlush(t) ==
    /\ flushPc' = [flushPc EXCEPT ![t] = "idle"]
    /\ records' = [records EXCEPT ![t] = {}]
    /\ attempted' = [attempted EXCEPT ![t] = {}]
    /\ acked' = [acked EXCEPT ![t] = {}]
    /\ call' = [call EXCEPT ![t] = "none"]
    /\ lock' = "free"

\* A request that is still travelling may reach the backend later, or be lost.
AbandonCall(t) ==
    \/ call[t] = "sent" /\ orphans' = orphans \cup {attempted[t]}
    \/ UNCHANGED orphans

\* The process is gone: everything but the two databases and the network.
Stop ==
    /\ up' = FALSE
    /\ pipePc' = "idle"
    /\ cur' = None
    /\ loopPc' = "flush"
    /\ sleep' = 0
    /\ flushPc' = [t \in Tasks |-> "idle"]
    /\ records' = [t \in Tasks |-> {}]
    /\ attempted' = [t \in Tasks |-> {}]
    /\ acked' = [t \in Tasks |-> {}]
    /\ call' = [t \in Tasks |-> "none"]
    /\ lock' = "free"
    /\ UNCHANGED <<result, rows>>

\* flush_once returns: the pipeline goes on to `contains`, the loop sleeps.
Return(t) ==
    /\ ForgetFlush(t)
    /\ \/ /\ t = "pipe"
          /\ pipePc' = "contains"
          /\ UNCHANGED loop
       \/ /\ t = "loop"
          /\ loopPc' = "sleep"
          /\ sleep' = Retry
          /\ UNCHANGED pipePc
    /\ UNCHANGED <<cur, result, rows, up, orphans>>

\* Faulty variant: the retry loop dies alone in a supervised process, too.
RaiseUnsupervised(t) ==
    /\ ForgetFlush(t)
    /\ IF t = "pipe"
       THEN /\ pipePc' = "idle"
            /\ cur' = None
            /\ result' = [result EXCEPT ![cur] = "error"]
            /\ UNCHANGED loop
       ELSE /\ loopPc' = "dead"
            /\ sleep' = 0
            /\ UNCHANGED pipe
    /\ UNCHANGED <<rows, up, orphans>>

\* Faulty variant: the exception of a flush of the pipeline keeps the lock.
RaiseKeepingLock(t) ==
    \/ /\ t = "pipe"
       /\ flushPc' = [flushPc EXCEPT ![t] = "idle"]
       /\ records' = [records EXCEPT ![t] = {}]
       /\ attempted' = [attempted EXCEPT ![t] = {}]
       /\ acked' = [acked EXCEPT ![t] = {}]
       /\ pipePc' = "idle"
       /\ cur' = None
       /\ result' = [result EXCEPT ![cur] = "error"]
       /\ UNCHANGED <<loop, rows, up, lock, call, orphans>>
    \/ /\ t = "loop"
       /\ Stop
       /\ UNCHANGED orphans

\* An exception leaves flush_once.  The pipeline logs it and takes the next
\* event; the retry loop ends, and with it the process when it is supervised.
Raise(t) ==
    \/ /\ t = "pipe"
       /\ ForgetFlush(t)
       /\ pipePc' = "idle"
       /\ cur' = None
       /\ result' = [result EXCEPT ![cur] = "error"]
       /\ UNCHANGED <<loop, rows, up, orphans>>
    \/ /\ t = "loop"
       /\ Supervised
       /\ Stop
       /\ UNCHANGED orphans
    \/ /\ t = "loop"
       /\ ~Supervised
       /\ ForgetFlush(t)
       /\ loopPc' = "dead"
       /\ sleep' = 0
       /\ UNCHANGED <<pipe, rows, up, orphans>>
-----------------------------------------------------------------------------
(***************************************************************************)
(* register_snapshot / send_event, in the pipeline task.                   *)
(***************************************************************************)

\* The pipeline takes a fresh event from its queue.
TakeEvent(e) ==
    /\ up
    /\ pipePc = "idle"
    /\ born[e] = 0
    /\ result[e] = "none"
    /\ pipePc' = "enqueue"
    /\ cur' = e
    /\ UNCHANGED <<durable, rows, up, result, loop, lock, flush, acked, call,
                   orphans, budget>>

\* Faulty variant: a failing enqueue is ignored and the flush goes on.
EnqueueEventUnchecked ==
    /\ pipePc = "enqueue"
    /\ \/ Enqueue(cur) /\ NoFault
       \/ SpoolFault
    /\ pipePc' = "flush"
    /\ UNCHANGED <<cur, result, rows, up, loop, lock, flush, acked, call,
                   orphans>>

EnqueueEvent ==
    /\ pipePc = "enqueue"
    /\ \/ /\ Enqueue(cur)
          /\ pipePc' = "flush"
          /\ UNCHANGED <<cur, result>>
          /\ NoFault
       \/ /\ SpoolFault
          /\ pipePc' = "idle"
          /\ cur' = None
          /\ result' = [result EXCEPT ![cur] = "error"]
    /\ UNCHANGED <<rows, up, loop, lock, flush, acked, call, orphans>>

\* The return value: `not contains(event_id)`.
CheckContains ==
    /\ pipePc = "contains"
    /\ \/ /\ result' = [result EXCEPT ![cur] =
                          IF cur \in spool THEN "false" ELSE "true"]
          /\ NoFault
          /\ UNCHANGED durable
       \/ /\ SpoolFault
          /\ result' = [result EXCEPT ![cur] = "error"]
    /\ pipePc' = "idle"
    /\ cur' = None
    /\ UNCHANGED <<rows, up, loop, lock, flush, acked, call, orphans>>
-----------------------------------------------------------------------------
(***************************************************************************)
(* flush_once, under _flush_lock.                                          *)
(***************************************************************************)

WantsLock(t) ==
    \/ t = "pipe" /\ pipePc = "flush"
    \/ t = "loop" /\ loopPc = "flush"

\* Faulty variant: flush_once runs without the lock.
AcquireLockAlways(t) ==
    /\ up
    /\ WantsLock(t)
    /\ flushPc[t] = "idle"
    /\ lock' = t
    /\ flushPc' = [flushPc EXCEPT ![t] = "select"]
    /\ UNCHANGED <<durable, rows, up, pipe, loop, records, attempted, acked,
                   call, orphans, budget>>

AcquireLock(t) ==
    /\ up
    /\ WantsLock(t)
    /\ flushPc[t] = "idle"
    /\ lock = "free"
    /\ lock' = t
    /\ flushPc' = [flushPc EXCEPT ![t] = "select"]
    /\ UNCHANGED <<durable, rows, up, pipe, loop, records, attempted, acked,
                   call, orphans, budget>>

Select(t) ==
    /\ flushPc[t] = "select"
    /\ \/ /\ \E batch \in SUBSET Due :
                /\ batch # {}
                /\ IsPending(batch)
                /\ records' = [records EXCEPT ![t] = batch]
          /\ flushPc' = [flushPc EXCEPT ![t] = "resolve"]
          /\ NoFault
          /\ UNCHANGED <<durable, rows, up, pipe, loop, lock, attempted,
                         acked, call, orphans>>
       \/ /\ Due = {}
          /\ Return(t)
          /\ NoFault
          /\ UNCHANGED durable
       \/ SpoolFault /\ Raise(t)

\* The course ids resolve for some of the records; the others are skipped.
\* `records` is not read again once a batch is built.
Resolve(t, resolved) ==
    /\ flushPc[t] = "resolve"
    /\ resolved \subseteq records[t] \ Unresolvable
    /\ attempted' = [attempted EXCEPT ![t] = resolved]
    /\ IF resolved = {}
       THEN /\ flushPc' = [flushPc EXCEPT ![t] = "defer_all"]
            /\ UNCHANGED records
       ELSE /\ flushPc' = [flushPc EXCEPT ![t] = "post"]
            /\ records' = [records EXCEPT ![t] = {}]
    /\ UNCHANGED <<durable, rows, up, pipe, loop, lock, acked, call, orphans,
                   budget>>

DeferAll(t) ==
    /\ flushPc[t] = "defer_all"
    /\ \/ RetryLater(records[t]) /\ NoFault /\ Return(t)
       \/ SpoolFault /\ Raise(t)

Post(t) ==
    /\ flushPc[t] = "post"
    /\ call' = [call EXCEPT ![t] = "sent"]
    /\ flushPc' = [flushPc EXCEPT ![t] = "await"]
    /\ UNCHANGED <<durable, rows, up, pipe, loop, lock, records, attempted,
                   acked, orphans, budget>>

\* Faulty variant: the status is not checked, any answer acknowledges.
ReceiveAnyAsOk(t) ==
    /\ flushPc[t] = "await"
    /\ call[t] \in {"ok", "error"}
    /\ flushPc' = [flushPc EXCEPT ![t] = "acknowledge"]
    /\ call' = [call EXCEPT ![t] = "none"]
    /\ acked' = [acked EXCEPT ![t] = attempted[t]]
    /\ UNCHANGED <<durable, rows, up, pipe, loop, lock, records, attempted,
                   orphans, budget>>

\* The 200 response arrives with the acknowledged ids.
ReceiveOk(t) ==
    /\ flushPc[t] = "await"
    /\ call[t] = "ok"
    /\ flushPc' = [flushPc EXCEPT ![t] = "acknowledge"]
    /\ call' = [call EXCEPT ![t] = "none"]
    /\ UNCHANGED <<durable, rows, up, pipe, loop, lock, records, attempted,
                   acked, orphans, budget>>

\* A status >= 400 arrives, or the connection fails or times out, before or
\* after the backend has handled the request.
ReceiveFailure(t) ==
    /\ flushPc[t] = "await"
    /\ flushPc' = [flushPc EXCEPT ![t] = "except"]
    /\ call' = [call EXCEPT ![t] = "none"]
    /\ acked' = [acked EXCEPT ![t] = {}]
    /\ AbandonCall(t)
    /\ UNCHANGED <<durable, rows, up, pipe, loop, lock, records, attempted,
                   budget>>

AcknowledgeCompleted(t) ==
    /\ flushPc[t] = "acknowledge"
    /\ \/ /\ Acknowledge(attempted[t] \cap acked[t])
          /\ flushPc' = [flushPc EXCEPT ![t] = "defer_rest"]
          /\ NoFault
       \/ /\ SpoolFault
          /\ flushPc' = [flushPc EXCEPT ![t] = "except"]
    /\ UNCHANGED <<rows, up, pipe, loop, lock, records, attempted, acked,
                   call, orphans>>

\* This backend acknowledges the whole batch, so no id is left, and on no ids
\* retry_later returns before it opens the database: it cannot fail here.
DeferUnacknowledged(t) ==
    /\ flushPc[t] = "defer_rest"
    /\ RetryLater(attempted[t] \ acked[t])
    /\ NoFault
    /\ Return(t)

DeferAttempted(t) ==
    /\ flushPc[t] = "except"
    /\ \/ RetryLater(attempted[t]) /\ NoFault /\ Return(t)
       \/ SpoolFault /\ Raise(t)
-----------------------------------------------------------------------------
(***************************************************************************)
(* register_event_batch: one transaction per request, acknowledging every  *)
(* event of it.  Any invalid payload refuses the whole request.            *)
(***************************************************************************)

\* Faulty variant: a plain INSERT.
InsertBatchAgain(batch) ==
    rows' = [e \in Events |-> IF e \in batch THEN rows[e] + 1 ELSE rows[e]]

\* INSERT ... ON CONFLICT (event_id) DO NOTHING, for each event of the batch.
InsertBatch(batch) ==
    rows' = [e \in Events |->
               IF e \in batch /\ rows[e] = 0 THEN 1 ELSE rows[e]]

Valid(batch) == batch \cap Invalid = {}

BackendAccepts(t) ==
    /\ call[t] = "sent"
    /\ Valid(attempted[t])
    /\ InsertBatch(attempted[t])
    /\ call' = [call EXCEPT ![t] = "ok"]
    /\ acked' = [acked EXCEPT ![t] = attempted[t]]
    /\ UNCHANGED <<durable, up, pipe, loop, lock, flush, orphans, budget>>

\* Faulty variant: the exception of insert_event_batch is swallowed after the
\* rollback, and the batch is acknowledged.
BackendRefusesSilently(t) ==
    /\ call[t] = "sent"
    /\ call' = [call EXCEPT ![t] = "ok"]
    /\ acked' = [acked EXCEPT ![t] = attempted[t]]
    /\ UNCHANGED <<durable, rows, up, pipe, loop, lock, flush, orphans, budget>>

\* 422, or the transaction fails and is rolled back.
BackendRefuses(t) ==
    /\ call[t] = "sent"
    /\ call' = [call EXCEPT ![t] = "error"]
    /\ UNCHANGED <<durable, rows, up, pipe, loop, lock, flush, acked, orphans,
                   budget>>

\* A request whose sender gave up reaches the backend after all, or is lost.
LateRequest(batch) ==
    /\ batch \in orphans
    /\ orphans' = orphans \ {batch}
    /\ \/ Valid(batch) /\ InsertBatch(batch)
       \/ UNCHANGED rows
    /\ UNCHANGED <<durable, up, pipe, loop, lock, flush, acked, call, budget>>
-----------------------------------------------------------------------------
(***************************************************************************)
(* The retry loop, the clock, crashes.                                     *)
(***************************************************************************)

LoopWakes ==
    /\ loopPc = "sleep"
    /\ sleep = 0
    /\ loopPc' = "flush"
    /\ UNCHANGED <<durable, rows, up, pipe, sleep, lock, flush, acked, call,
                   orphans, budget>>

Less(n) == IF n > 0 THEN n - 1 ELSE 0

\* Wall-clock time passes, also while the process is down.
Tick ==
    /\ sleep > 0 \/ \E e \in spool : wait[e] > 0
    /\ sleep' = Less(sleep)
    /\ wait' = [e \in Events |-> Less(wait[e])]
    /\ UNCHANGED <<spool, born, rows, up, pipe, loopPc, lock, flush, acked,
                   call, orphans, budget>>

Crash ==
    /\ up
    /\ crashes < MaxCrashes
    /\ crashes' = crashes + 1
    /\ \E t \in Tasks : AbandonCall(t)
    /\ Stop
    /\ UNCHANGED <<durable, faults>>

\* The container restarts; run_retry_loop begins with a flush.
Restart ==
    /\ ~up
    /\ up' = TRUE
    /\ UNCHANGED <<durable, rows, pipe, loop, lock, flush, acked, call,
                   orphans, budget>>

FlushStep(t) ==
    \/ Select(t)
    \/ \E resolved \in SUBSET Events : Resolve(t, resolved)
    \/ DeferAll(t)
    \/ Post(t)
    \/ ReceiveOk(t)
    \/ ReceiveFailure(t)
    \/ AcknowledgeCompleted(t)
    \/ DeferUnacknowledged(t)
    \/ DeferAttempted(t)

Next ==
    \/ \E e \in Events : TakeEvent(e)
    \/ EnqueueEvent
    \/ CheckContains
    \/ \E t \in Tasks :
          \/ AcquireLock(t)
          \/ FlushStep(t)
          \/ BackendAccepts(t)
          \/ BackendRefuses(t)
    \/ \E batch \in orphans : LateRequest(batch)
    \/ LoopWakes
    \/ Tick
    \/ Crash
    \/ Restart

Spec == Init /\ [][Next]_vars

(***************************************************************************)
(* Fairness.  The tasks of a running process make progress; asyncio.Lock   *)
(* serves its waiters in order, hence strong fairness for it; time passes; *)
(* the container is restarted.  The last three conjuncts say that outages  *)
(* end: a resolution, a transaction, a response that is tried for ever is  *)
(* not unlucky for ever.  Nothing is assumed of TakeEvent, of faults, of   *)
(* late requests.                                                          *)
(***************************************************************************)
Fairness ==
    /\ WF_vars(EnqueueEvent)
    /\ WF_vars(CheckContains)
    /\ WF_vars(LoopWakes)
    /\ WF_vars(Tick)
    /\ WF_vars(Restart)
    /\ \A t \in Tasks :
          /\ SF_vars(AcquireLock(t))
          /\ WF_vars(FlushStep(t))
          /\ SF_vars(Resolve(t, records[t] \ Unresolvable))
          /\ SF_vars(BackendAccepts(t))
          /\ SF_vars(ReceiveOk(t))

FairSpec == Spec /\ Fairness
-----------------------------------------------------------------------------
(***************************************************************************)
(* Properties.                                                             *)
(***************************************************************************)

\* The values each variable ranges over.
TypeOK ==
    /\ spool \in SUBSET Events
    /\ wait \in [Events -> 0..Retry]
    /\ born \in [Events -> Nat]
    /\ rows \in [Events -> Nat]
    /\ up \in BOOLEAN
    /\ pipePc \in {"idle", "enqueue", "flush", "contains"}
    /\ cur \in Events \cup {None}
    /\ result \in [Events -> {"none", "true", "false", "error"}]
    /\ loopPc \in {"flush", "sleep", "dead"}
    /\ sleep \in 0..Retry
    /\ lock \in Tasks \cup {"free"}
    /\ flushPc \in [Tasks -> {"idle", "select", "resolve", "defer_all", "post",
                              "await", "acknowledge", "defer_rest", "except"}]
    /\ records \in [Tasks -> SUBSET Events]
    /\ attempted \in [Tasks -> SUBSET Events]
    /\ acked \in [Tasks -> SUBSET Events]
    /\ call \in [Tasks -> {"none", "sent", "ok", "error"}]
    /\ orphans \in SUBSET SUBSET Events
    /\ crashes \in 0..MaxCrashes
    /\ faults \in 0..MaxSpoolFaults

\* An event committed to the spool is in the spool or in the backend, whatever
\* crashes, spool faults and lost, late or duplicated requests happen: the
\* acknowledge after an ambiguous answer never deletes an unstored event.
NoAcceptedEventLost == Accepted \subseteq spool \cup Stored

\* Re-sending after a lost answer or a crash between POST and acknowledge
\* never stores an event twice, not even when the old request arrives late.
StoredAtMostOnce == \A e \in Events : rows[e] <= 1

\* `return not contains(event_id)`: the pipeline is told TRUE only of an event
\* the backend has stored, although the other task may be the one that sent
\* it, and although `contains` runs after the lock was released.
TrueMeansStored == \A e \in Events : result[e] = "true" => e \in Stored

\* The batch was selected several awaits ago, and is still what the spool
\* holds as due when it is sent: no other flush has acknowledged or deferred
\* one of its events meanwhile.
PostedIsPending ==
    \A t \in Tasks :
        /\ flushPc[t] \in {"resolve", "defer_all"} => records[t] \subseteq Due
        /\ flushPc[t] \in {"post", "await"} => attempted[t] \subseteq Due

\* The inductive invariant behind the safety properties.  What the requests,
\* the responses and the two databases hold of an event ...
DataInv ==
    /\ spool \subseteq Accepted
    /\ Stored \subseteq Accepted
    /\ NoAcceptedEventLost
    /\ StoredAtMostOnce
    /\ TrueMeansStored
    /\ \A batch \in orphans : batch \subseteq Accepted
    /\ \A t \in Tasks : attempted[t] \subseteq Accepted /\ acked[t] \subseteq Stored

\* ... who holds the lock, and what the pipeline's event went through.
ControlInv ==
    /\ \A t \in Tasks : flushPc[t] # "idle" <=> lock = t
    /\ lock = "pipe" => pipePc = "flush"
    /\ cur = None <=> pipePc = "idle"
    /\ pipePc = "enqueue" => cur \notin Accepted
    /\ pipePc \in {"flush", "contains"} => cur \in Accepted

DeliveryInv == TypeOK /\ DataInv /\ ControlInv /\ PostedIsPending

Promise == INSTANCE EventDelivery
             WITH accepted <- Accepted,
                  stored <- Stored,
                  released <- Accepted \ spool

\* The detailed delivery path implements the promise of EventDelivery.
DeliveryIsFaithful == Promise!Spec

\* Every event the backend can store leaves the spool in the end (and then is
\* stored, by NoAcceptedEventLost), across backend outages and restarts of the
\* collector, and past events of unknown courses that never leave it.
EveryEventDelivered ==
    \A e \in Events \ (Invalid \cup Unresolvable) :
        e \in spool ~> e \notin spool

\* The pipeline task comes back from every registration, although each one
\* waits for a lock that the retry loop takes again and again.
RegistrationReturns ==
    \A e \in Events : cur = e ~> cur # e
=============================================================================
