------------------------------ MODULE Debouncer ------------------------------
(***************************************************************************)
(* filemon's Debouncer: modified events of one path are collected in a     *)
(* bucket that a timer flushes; a deleted event flushes the bucket and     *)
(* passes at once.  (A move has become a deleted and a modified event in   *)
(* the watchdog handler.)                                                  *)
(*                                                                         *)
(* The task run_debouncer calls process_event; each timer is a task of its *)
(* own.  processed_queue is unbounded, so `await put` does not suspend: a  *)
(* handler runs from its start to its end as one step, in_flight is never  *)
(* seen TRUE by another task, and is left out.  What interleaves is the    *)
(* arrival of events, timers that expire, and the clock.                   *)
(*                                                                         *)
(* An event is known by its rank of arrival, 1, 2, 3, ...; 0 is "none".    *)
(***************************************************************************)
EXTENDS Integers, Sequences, FiniteSets

CONSTANTS
    Keys,       \* the paths that events are about
    Window,     \* settings.DEBOUNCE_WINDOW, in ticks
    MaxWait,    \* settings.DEBOUNCE_MAX_WAIT, in ticks
    Prompt,     \* TRUE: the event loop runs an expired timer before the next
                \* tick; FALSE: it may be any number of ticks late
    MaxEvents   \* bound on the number of events

ASSUME DebouncerAssumption ==
    /\ Window \in Nat \ {0}
    /\ MaxWait \in Nat
    /\ MaxWait > Window
    /\ Prompt \in BOOLEAN
    /\ MaxEvents \in Nat

VARIABLES
    raw,        \* the key of every event process_event has been given
    bucket,     \* [Keys]: bucket['events'][-1], 0 when there is no bucket
    age,        \* [Keys]: ticks since bucket['first_ts'], up to AgeCap
    timer,      \* [Keys]: bucket['timer_task'], named by the event that set it
    timers,     \* the timer tasks that sleep
    left,       \* ticks each of them has left
    processed   \* everything put on processed_queue, in order

vars == <<raw, bucket, age, timer, timers, left, processed>>

Events == 1..MaxEvents
AgeCap == MaxWait + Window      \* no comparison tells larger ages apart

Init ==
    /\ raw = <<>>
    /\ bucket = [k \in Keys |-> 0]
    /\ age = [k \in Keys |-> 0]
    /\ timer = [k \in Keys |-> 0]
    /\ timers = {}
    /\ left = [e \in Events |-> 0]
    /\ processed = <<>>
-----------------------------------------------------------------------------
\* The event being handled: the newest one.
New == Len(raw) + 1

Arrive(k) ==
    /\ Len(raw) < MaxEvents
    /\ raw' = Append(raw, k)

\* self.buckets[key] = {...}: the new bucket has no timer_task yet, so
\* _schedule_timer has nothing to cancel.
StartBucket(k) ==
    /\ bucket' = [bucket EXCEPT ![k] = New]
    /\ age' = [age EXCEPT ![k] = 0]
    /\ timer' = [timer EXCEPT ![k] = New]
    /\ timers' = timers \cup {New}
    /\ left' = [left EXCEPT ![New] = Window]

NewBucket(k) ==
    /\ bucket[k] = 0
    /\ StartBucket(k)
    /\ UNCHANGED processed

\* Faulty variant: the bucket's old timer is not cancelled.
ExtendBucketOnly(k) ==
    /\ bucket[k] # 0
    /\ age[k] < MaxWait
    /\ bucket' = [bucket EXCEPT ![k] = New]
    /\ timer' = [timer EXCEPT ![k] = New]
    /\ timers' = timers \cup {New}
    /\ left' = [left EXCEPT ![New] = Window]
    /\ UNCHANGED <<age, processed>>

\* Faulty variant: the age of the bucket is not looked at.
ExtendBucketAlways(k) ==
    /\ bucket[k] # 0
    /\ bucket' = [bucket EXCEPT ![k] = New]
    /\ timer' = [timer EXCEPT ![k] = New]
    /\ timers' = (timers \ {timer[k]}) \cup {New}
    /\ left' = [left EXCEPT ![timer[k]] = 0, ![New] = Window]
    /\ UNCHANGED <<age, processed>>

\* The event joins the bucket, whose timer is cancelled and set anew.
ExtendBucket(k) ==
    /\ bucket[k] # 0
    /\ age[k] < MaxWait
    /\ bucket' = [bucket EXCEPT ![k] = New]
    /\ timer' = [timer EXCEPT ![k] = New]
    /\ timers' = (timers \ {timer[k]}) \cup {New}
    /\ left' = [left EXCEPT ![timer[k]] = 0, ![New] = Window]
    /\ UNCHANGED <<age, processed>>

\* Faulty variant: the old bucket is flushed and the new event forgotten.
ReplaceBucketForgetting(k) ==
    /\ bucket[k] # 0
    /\ age[k] >= MaxWait
    /\ processed' = Append(processed, bucket[k])
    /\ bucket' = [bucket EXCEPT ![k] = 0]
    /\ age' = [age EXCEPT ![k] = 0]
    /\ timer' = [timer EXCEPT ![k] = 0]
    /\ UNCHANGED <<timers, left>>

\* max_wait: the old bucket is flushed and a new one started.  Nobody cancels
\* the timer of the old bucket.
ReplaceBucket(k) ==
    /\ bucket[k] # 0
    /\ age[k] >= MaxWait
    /\ processed' = Append(processed, bucket[k])
    /\ StartBucket(k)

\* process_event with a modified event.
Modified(k) ==
    /\ Arrive(k)
    /\ NewBucket(k) \/ ExtendBucket(k) \/ ReplaceBucket(k)

DropBucket(k) ==
    /\ bucket' = [bucket EXCEPT ![k] = 0]
    /\ age' = [age EXCEPT ![k] = 0]
    /\ timer' = [timer EXCEPT ![k] = 0]

Pending(k) == IF bucket[k] = 0 THEN <<>> ELSE <<bucket[k]>>

\* Faulty variant: the deleted event overtakes the pending modification.
DeletedFirst(k) ==
    /\ Arrive(k)
    /\ DropBucket(k)
    /\ timers' = timers \ {timer[k]}
    /\ left' = [e \in Events |-> IF e = timer[k] THEN 0 ELSE left[e]]
    /\ processed' = <<New>> \o Pending(k)

\* process_event with a deleted event: the pending modification goes first.
Deleted(k) ==
    /\ Arrive(k)
    /\ DropBucket(k)
    /\ timers' = timers \ {timer[k]}
    /\ left' = [e \in Events |-> IF e = timer[k] THEN 0 ELSE left[e]]
    /\ processed' = processed \o Pending(k) \o <<New>>

\* A timer's sleep ends: it flushes whatever bucket its key has by now.
TimerFires(e) ==
    /\ e \in timers
    /\ left[e] = 0
    /\ timers' = timers \ {e}
    /\ DropBucket(raw[e])
    /\ processed' = processed \o Pending(raw[e])
    /\ UNCHANGED <<raw, left>>

Capped(n, cap) == IF n < cap THEN n + 1 ELSE cap

Tick ==
    /\ Prompt => \A e \in timers : left[e] > 0
    /\ left' = [e \in Events |-> IF left[e] > 0 THEN left[e] - 1 ELSE 0]
    /\ age' = [k \in Keys |-> IF bucket[k] = 0 THEN 0 ELSE Capped(age[k], AgeCap)]
    /\ UNCHANGED <<raw, bucket, timer, timers, processed>>

Next ==
    \/ \E k \in Keys : Modified(k) \/ Deleted(k)
    \/ \E e \in Events : TimerFires(e)
    \/ Tick

Spec == Init /\ [][Next]_vars

\* Time passes and the event loop runs the timers that have expired; that
\* events arrive is nobody's promise.
Fairness == WF_vars(Tick) /\ \A e \in Events : WF_vars(TimerFires(e))

FairSpec == Spec /\ Fairness
-----------------------------------------------------------------------------
Emitted == {processed[i] : i \in DOMAIN processed}
Arrived == 1..Len(raw)

\* The values each variable ranges over.
TypeOK ==
    /\ raw \in Seq(Keys)
    /\ Len(raw) <= MaxEvents
    /\ bucket \in [Keys -> Events \cup {0}]
    /\ age \in [Keys -> 0..AgeCap]
    /\ timer \in [Keys -> Events \cup {0}]
    /\ timers \in SUBSET Arrived
    /\ left \in [Events -> 0..Window]
    /\ processed \in Seq(Arrived)

\* The pipeline is given the events of a path in the order they happened and
\* none of them twice, although old timers, forced flushes and deletions race
\* for the same bucket: no stale modification comes after a deletion.
EmittedInOrder ==
    \A i, j \in DOMAIN processed :
        i < j /\ raw[processed[i]] = raw[processed[j]]
            => processed[i] < processed[j]

\* Coalescing never swallows the newest state of a path: each event, or a
\* newer one of its path, has been emitted or waits in the bucket.
NothingForgotten ==
    \A e \in Arrived :
        \/ bucket[raw[e]] >= e
        \/ \E f \in Emitted : f >= e /\ raw[f] = raw[e]

\* A bucket that waits has a sleeping timer of its own, not only a stray one.
BucketHasTimer ==
    \A k \in Keys : bucket[k] # 0 =>
        timer[k] \in timers /\ raw[timer[k]] = k

\* The timers that a forced flush or an early flush leaves behind do not pile
\* up: a path never has more than one of them beside the timer of its bucket.
FewStrayTimers ==
    Prompt => \A k \in Keys :
        Cardinality({e \in timers : raw[e] = k /\ e # timer[k]}) <= 1

\* What max_wait comes to: since it is compared only when an event arrives, a
\* bucket may live almost MaxWait + Window ticks, but not longer.
BoundedDelay ==
    Prompt => \A k \in Keys : bucket[k] # 0 => age[k] < MaxWait + Window

\* The inductive invariant behind them: the bucket holds the newest event of
\* its path and nothing as new has been emitted; its timer was set by that
\* event and sleeps; age and time left add up to less than MaxWait + Window.
BucketInv ==
    \A k \in Keys :
        /\ timer[k] = bucket[k]
        /\ bucket[k] # 0 =>
              /\ bucket[k] \in timers
              /\ raw[bucket[k]] = k
              /\ \A i \in DOMAIN processed :
                    raw[processed[i]] = k => processed[i] < bucket[k]
              /\ Prompt => age[k] + left[bucket[k]] < MaxWait + Window

DebouncerInv == TypeOK /\ BucketInv /\ EmittedInOrder /\ NothingForgotten

\* Each event, or a newer one of its path, is emitted in the end, even if the
\* path is modified again and again.
EventuallyEmitted ==
    \A e \in Events :
        e \in Arrived ~> \E f \in Emitted : f >= e /\ raw[f] = raw[e]
=============================================================================
