---------------------------- MODULE PerfCollector ----------------------------
(***************************************************************************)
(* procmon's way from perf_submit to the pipeline: the perf ring the       *)
(* kernel writes, the polling thread that reads it, the callbacks it       *)
(* schedules on the event loop, the bounded queue, and the main loop.      *)
(*                                                                         *)
(* What the callback schedules is ctypes' .contents: not the record, but a *)
(* view of the ring's memory, which belongs to the kernel again as soon as *)
(* the callback returns.  The pipeline copies the fields out later, in     *)
(* _convert_process_struct, while the kernel goes on writing.              *)
(*                                                                         *)
(* Record n lies in slot n % RingSize.  Variables ready, queue and read    *)
(* name a view by the record it was made for; only `memory` says what is   *)
(* there.                                                                  *)
(***************************************************************************)
EXTENDS Integers, Sequences

CONSTANTS
    RingSize,       \* records that fit the perf ring (page_cnt pages)
    QueueSize,      \* maxsize of the asyncio.Queue
    MaxRecords,     \* bound on the records submitted
    MaxErrors       \* bound on exceptions of perf_buffer_poll

ASSUME CollectorAssumption ==
    /\ RingSize \in Nat \ {0} /\ QueueSize \in Nat \ {0}
    /\ MaxRecords \in Nat /\ MaxErrors \in Nat

VARIABLES
    \* the perf ring
    memory,         \* [slot]: the record that was written there last
    lostWith,       \* [slot]: what PERF_RECORD_LOST before it says
    head,           \* records written
    tail,           \* records given to the callback
    lost,           \* records for which there was no room
    unsaid,         \* of these, the ones no PERF_RECORD_LOST has been written for
    \* the polling thread
    running,        \* running_event
    poller,         \* "running" or, for good, "ended"
    lostCount,      \* lost_count
    errors,
    \* the event loop
    ready,          \* views in the callbacks _enqueue_on_loop still to run
    queue,          \* the asyncio.Queue
    dropped,        \* dropped_count
    main,           \* the main loop: "get", "read", "send", "stopped"
    read,           \* the view being converted, and the first half of its fields
    converted       \* history: view and contents of every conversion, and whether
                    \* the kernel had not come round to the view's slot again

ring == <<memory, lostWith, head, tail, lost, unsaid>>
thread == <<running, poller, lostCount, errors>>
loop == <<ready, queue, dropped, main, read, converted>>
vars == <<ring, thread, loop>>

Slots == 0..(RingSize - 1)
Slot(n) == n % RingSize
NoView == [view |-> 0, half |-> 0]

Init ==
    /\ memory = [s \in Slots |-> 0]
    /\ lostWith = [s \in Slots |-> 0]
    /\ head = 0 /\ tail = 0 /\ lost = 0 /\ unsaid = 0
    /\ running = TRUE
    /\ poller = "running"
    /\ lostCount = 0 /\ errors = 0
    /\ ready = <<>> /\ queue = <<>>
    /\ dropped = 0
    /\ main = "get"
    /\ read = NoView
    /\ converted = <<>>
-----------------------------------------------------------------------------
(***************************************************************************)
(* The kernel.                                                             *)
(***************************************************************************)

Submit ==
    /\ head + lost < MaxRecords
    /\ IF head - tail < RingSize
       THEN /\ head' = head + 1
            /\ memory' = [memory EXCEPT ![Slot(head + 1)] = head + 1]
            /\ lostWith' = [lostWith EXCEPT ![Slot(head + 1)] = unsaid]
            /\ unsaid' = 0
            /\ UNCHANGED lost
       ELSE /\ lost' = lost + 1
            /\ unsaid' = unsaid + 1
            /\ UNCHANGED <<head, memory, lostWith>>
    /\ UNCHANGED <<tail, thread, loop>>
-----------------------------------------------------------------------------
(***************************************************************************)
(* The polling thread: perf_buffer_poll calls _lost_callback and           *)
(* _event_callback for one record and then moves the tail past it.         *)
(***************************************************************************)

\* Faulty variant: newer views are scheduled before older ones.
ScheduleFirst(n) == ready' = <<n>> \o ready

\* call_soon_threadsafe; once the main task is over it is of no consequence.
Schedule(n) == ready' = Append(ready, n)

PollRecord ==
    /\ poller = "running"
    /\ tail < head
    /\ tail' = tail + 1
    /\ lostCount' = lostCount + lostWith[Slot(tail + 1)]
    /\ lostWith' = [lostWith EXCEPT ![Slot(tail + 1)] = 0]
    /\ Schedule(tail + 1)
    /\ UNCHANGED <<memory, head, lost, unsaid, running, poller, errors, queue,
                   dropped, main, read, converted>>

\* perf_buffer_poll raises: the loop of _run_polling is left, running_event
\* stays set, and nobody looks at is_running.
PollFails ==
    /\ poller = "running"
    /\ errors < MaxErrors
    /\ errors' = errors + 1
    /\ poller' = "ended"
    /\ UNCHANGED <<ring, running, lostCount, loop>>

\* perf_buffer_poll has returned, by timeout or with nothing left to read.
PollEnds ==
    /\ poller = "running"
    /\ ~running
    /\ poller' = "ended"
    /\ UNCHANGED <<ring, running, lostCount, errors, loop>>
-----------------------------------------------------------------------------
(***************************************************************************)
(* The event loop.  A callback runs whenever the main task awaits.         *)
(***************************************************************************)

LoopIsFree == main \in {"get", "send"}

\* Faulty variant: a full queue makes room by losing its oldest view.
EnqueueRotating ==
    /\ LoopIsFree
    /\ ready # <<>>
    /\ ready' = Tail(ready)
    /\ queue' = IF Len(queue) < QueueSize
                THEN Append(queue, Head(ready))
                ELSE Append(Tail(queue), Head(ready))
    /\ UNCHANGED <<ring, thread, dropped, main, read, converted>>

\* _enqueue_on_loop
EnqueueOnLoop ==
    /\ LoopIsFree
    /\ ready # <<>>
    /\ ready' = Tail(ready)
    /\ IF Len(queue) < QueueSize
       THEN queue' = Append(queue, Head(ready)) /\ UNCHANGED dropped
       ELSE dropped' = dropped + 1 /\ UNCHANGED queue
    /\ UNCHANGED <<ring, thread, main, read, converted>>

\* Faulty variant: the loop goes on to the next record without converting.
GetAndForget ==
    /\ main = "get"
    /\ queue # <<>>
    /\ main' = "send"
    /\ UNCHANGED <<ring, thread, ready, queue, dropped, read, converted>>

\* queue.get(), and the conversion starts: pid, flags, host name, ...
Get ==
    /\ main = "get"
    /\ queue # <<>>
    /\ queue' = Tail(queue)
    /\ read' = [view |-> Head(queue), half |-> memory[Slot(Head(queue))]]
    /\ main' = "read"
    /\ UNCHANGED <<ring, thread, ready, dropped, converted>>

\* ... arguments and exit code.  The rest of the pipeline does not await; an
\* event it yields is sent, which does.
Convert ==
    /\ main = "read"
    /\ converted' = Append(converted,
                        [view |-> read.view, first |-> read.half,
                         second |-> memory[Slot(read.view)],
                         fresh |-> head - read.view < RingSize])
    /\ read' = NoView
    /\ main' \in {"get", "send"}
    /\ UNCHANGED <<ring, thread, ready, queue, dropped>>

\* send_event has returned, or raised, which is logged.
Sent ==
    /\ main = "send"
    /\ main' = "get"
    /\ UNCHANGED <<ring, thread, ready, queue, dropped, read, converted>>

\* The main task is cancelled where it awaits; its finally clause ends with
\* collector.stop(), which gives the polling thread a second to end.
Stop ==
    /\ LoopIsFree
    /\ main' = "stopped"
    /\ running' = FALSE
    /\ UNCHANGED <<ring, poller, lostCount, errors, ready, queue, dropped, read,
                   converted>>

PollerStep == PollRecord \/ PollEnds
MainStep == Get \/ Convert \/ Sent

Next == Submit \/ PollerStep \/ PollFails \/ EnqueueOnLoop \/ MainStep \/ Stop

Spec == Init /\ [][Next]_vars

\* The thread and the loop run; every send ends.  Errors, the kernel and the
\* end of the program are not promised.
FairSpec ==
    /\ Spec
    /\ WF_vars(PollerStep)
    /\ WF_vars(EnqueueOnLoop)
    /\ WF_vars(MainStep)
-----------------------------------------------------------------------------
Numbers == 0..MaxRecords

\* The values each variable ranges over; the ring holds what is not read.
TypeOK ==
    /\ memory \in [Slots -> Numbers] /\ lostWith \in [Slots -> Numbers]
    /\ head \in Numbers /\ tail \in 0..head /\ head - tail <= RingSize
    /\ lost \in Numbers /\ unsaid \in 0..lost
    /\ running \in BOOLEAN /\ poller \in {"running", "ended"}
    /\ lostCount \in 0..lost /\ errors \in 0..MaxErrors
    /\ ready \in Seq(1..tail) /\ queue \in Seq(1..tail)
    /\ Len(queue) <= QueueSize
    /\ dropped \in Numbers
    /\ main \in {"get", "read", "send", "stopped"}
    /\ read \in [view : Numbers, half : Numbers]
    /\ converted \in Seq([view : 1..tail, first : Numbers, second : Numbers,
                          fresh : BOOLEAN])

Reading == IF main = "read" THEN 1 ELSE 0

\* No record disappears between the kernel and the pipeline without being
\* counted: what the polling thread has taken is scheduled, queued, dropped
\* (dropped_count) or converted; what did not fit the ring is in lost_count,
\* on its way there, or still to be told by the kernel.  Records are counted by
\* their views: one that is overwritten before its view is converted is not missed.
EveryRecordIsCounted ==
    /\ tail = Len(ready) + Len(queue) + dropped + Reading + Len(converted)
    /\ LET told[n \in tail..head] ==    \* lostCount when record n has been read
               IF n = tail THEN lostCount ELSE told[n - 1] + lostWith[Slot(n)]
       IN  lost = told[head] + unsaid

\* Both: the queues keep their bounds, and nothing leaves them uncounted.
CollectorInv == TypeOK /\ EveryRecordIsCounted

\* In each conversion it is one report's turn, the one its view was made for.  If the
\* kernel has not overwritten it by then, it reaches the pipeline whole; and once its
\* turn is past, overwritten or not, no field of it or of an earlier exit does.  So a
\* report comes twice, or out of order, only where it stands in for one it has
\* overwritten, before its own turn: see ConvertedAsSubmitted.
ConvertedInOrder ==
    \A i \in DOMAIN converted :
        /\ converted[i].fresh =>
              {converted[i].first, converted[i].second} = {converted[i].view}
        /\ \A j \in DOMAIN converted : i < j =>
              /\ converted[i].view < converted[j].first
              /\ converted[i].view < converted[j].second

Waiting(n) ==
    \/ tail < n
    \/ \E i \in DOMAIN ready : ready[i] = n
    \/ \E i \in DOMAIN queue : queue[i] = n
    \/ read.view = n

\* Every record in the ring is in the end converted or counted as dropped,
\* unless the polling thread has ended, which nothing repairs, or the program.
EventuallySettled ==
    \A n \in 1..MaxRecords :
        head >= n ~> ~Waiting(n) \/ poller = "ended" \/ main = "stopped"

\* What _event_callback's docstring says, kernel structure to Process to queue:
\* the pipeline is given the record that the kernel submitted.
ConvertedAsSubmitted ==
    \A i \in DOMAIN converted :
        converted[i].first = converted[i].view
        /\ converted[i].second = converted[i].view
=============================================================================
