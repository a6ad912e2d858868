------------------------- MODULE PerfCollectorProofs -------------------------
(***************************************************************************)
(* Proofs about PerfCollector: no record leaves the ring, the callbacks or *)
(* the queue uncounted, and what is converted in time is converted whole   *)
(* and in the order of the records.                                        *)
(*                                                                         *)
(* The sum of the records lost that the ring still has to tell is a        *)
(* recursive function over the ring; the proof carries its values, told,   *)
(* along the steps, and shows at the end that they are the function's.     *)
(***************************************************************************)
EXTENDS PerfCollector, WellFoundedInduction, TLAPS

\* Each record in the ring finds the count of those lost before it.
Ledger(told) ==
    /\ told \in [tail..head -> 0..lost]
    /\ told[tail] = lostCount
    /\ \A n \in (tail + 1)..head : told[n] = told[n - 1] + lostWith[Slot(n)]
    /\ lost = told[head] + unsaid

\* The views wait in the order of their records: converted, being read, queued,
\* scheduled.
InLine ==
    /\ main = "read" => read.view \in 1..tail
    /\ \A i, j \in 1..Len(ready) : i < j => ready[i] < ready[j]
    /\ \A i, j \in 1..Len(queue) : i < j => queue[i] < queue[j]
    /\ \A i \in 1..Len(queue) : \A j \in 1..Len(ready) : queue[i] < ready[j]
    /\ main = "read" =>
          /\ \A i \in 1..Len(queue) : read.view < queue[i]
          /\ \A i \in 1..Len(ready) : read.view < ready[i]
    /\ \A k \in 1..Len(converted) :
          /\ \A i \in 1..Len(queue) : converted[k].view < queue[i]
          /\ \A i \in 1..Len(ready) : converted[k].view < ready[i]
          /\ main = "read" => converted[k].view < read.view

ViewsInOrder ==
    \A i, j \in DOMAIN converted :
        i < j => converted[i].view < converted[j].view

Counted == tail = Len(ready) + Len(queue) + dropped + Reading + Len(converted)

Conversions(n) ==
    [view : 1..n, first : Numbers, second : Numbers, fresh : BOOLEAN]

LineInv == TypeOK /\ Counted /\ InLine /\ ViewsInOrder

\* A slot holds the record that is named for, or a later one once the kernel has come
\* round to it; so does what is read from there.
Contents ==
    /\ \A n \in 1..head :
          /\ memory[Slot(n)] >= n
          /\ head - n < RingSize => memory[Slot(n)] = n
    /\ main = "read" =>
          /\ read.half >= read.view
          /\ head - read.view < RingSize => read.half = read.view
    /\ \A k \in 1..Len(converted) :
          /\ converted[k].first >= converted[k].view
          /\ converted[k].second >= converted[k].view
          /\ converted[k].fresh => /\ converted[k].first = converted[k].view
                                  /\ converted[k].second = converted[k].view

\* Two records that are in the ring together lie in different slots.
LEMMA SlotsDiffer ==
    ASSUME NEW a \in Nat, NEW b \in Nat, a < b, b - a < RingSize
    PROVE  Slot(a) # Slot(b)
  <1> DEFINE p == a \div RingSize
             q == b \div RingSize
             k == q - p
  <1>1. RingSize \in Nat \ {0}
    BY CollectorAssumption
  <1>2. /\ a = RingSize * p + (a % RingSize) /\ b = RingSize * q + (b % RingSize)
        /\ p \in Int /\ q \in Int
    BY <1>1
  <1>3. SUFFICES ASSUME a % RingSize = b % RingSize PROVE FALSE
    BY DEF Slot
  <1> HIDE DEF p, q
  <1>4. b - a = RingSize * (q - p)
    BY <1>1, <1>2, <1>3
  <1>5. k \in Int /\ b - a = RingSize * k
    BY <1>2, <1>4
  <1> HIDE DEF k
  <1>6. k <= 0 => RingSize * k <= 0
    BY <1>1, <1>5
  <1>7. k >= 1 => RingSize * k >= RingSize
    BY <1>1, <1>5
  <1> QED
    BY <1>1, <1>5, <1>6, <1>7

LEMMA SlotInRing ==
    ASSUME NEW n \in Nat PROVE Slot(n) \in Slots
  BY CollectorAssumption DEF Slot, Slots

LEMMA Longer ==
    ASSUME NEW a \in Nat, NEW b \in Nat, a <= b, NEW s \in Seq(1..a)
    PROVE  s \in Seq(1..b) /\ \A i \in 1..Len(s) : s[i] \in 1..a
  OBVIOUS

\* A set of numbers that is not empty has a least one.
LEMMA Least ==
    ASSUME NEW S \in SUBSET Nat, S # {}
    PROVE  \E m \in S : \A n \in S : m <= n
  <1> DEFINE R == OpToRel(<, Nat)
  <1>1. IsWellFoundedOn(R, Nat)
    BY NatLessThanWellFounded
  <1>2. \A x, y \in S : y < x => <<y, x>> \in R
    BY DEF OpToRel
  <1> HIDE DEF R
  <1>3. PICK x \in S : \A y \in S : ~(<<y, x>> \in R)
    BY <1>1, WFMin
  <1>4. \A y \in S : ~(y < x)
    BY <1>2, <1>3
  <1>5. \A y \in S : x <= y
    BY <1>4
  <1> QED
    BY <1>5

\* What is left of a rising sequence rises, from beyond its first element.
LEMMA TailRises ==
    ASSUME NEW a \in Nat, NEW s \in Seq(1..a), s # <<>>,
           \A i, j \in 1..Len(s) : i < j => s[i] < s[j]
    PROVE  /\ \A i, j \in 1..Len(Tail(s)) : i < j => Tail(s)[i] < Tail(s)[j]
           /\ \A i \in 1..Len(Tail(s)) : s[1] < Tail(s)[i]
  <1>1. /\ Len(s) \in Nat /\ Len(Tail(s)) = Len(s) - 1 /\ 1 \in 1..Len(s)
        /\ \A i \in 1..Len(Tail(s)) : Tail(s)[i] = s[i + 1]
    OBVIOUS
  <1>2. ASSUME NEW i \in 1..Len(Tail(s)), NEW j \in 1..Len(Tail(s)), i < j
        PROVE  Tail(s)[i] < Tail(s)[j]
    <2>1. i + 1 \in 1..Len(s) /\ j + 1 \in 1..Len(s) /\ i + 1 < j + 1
      BY <1>1, <1>2
    <2>2. s[i + 1] < s[j + 1]
      BY <2>1
    <2> QED
      BY <1>1, <2>2
  <1>3. ASSUME NEW i \in 1..Len(Tail(s))
        PROVE  s[1] < Tail(s)[i]
    <2>1. i + 1 \in 1..Len(s) /\ 1 < i + 1
      BY <1>1
    <2>2. s[1] < s[i + 1]
      BY <1>1, <2>1
    <2> QED
      BY <1>1, <2>2
  <1> QED
    BY <1>2, <1>3

LEMMA InitInv ==
    Init => LineInv /\ \E told : Ledger(told)
  <1> SUFFICES ASSUME Init PROVE LineInv /\ \E told : Ledger(told)
    OBVIOUS
  <1>0. /\ ready = <<>> /\ queue = <<>> /\ converted = <<>> /\ main = "get"
        /\ tail = 0 /\ head = 0 /\ dropped = 0
    BY DEF Init
  <1>1. TypeOK
    <2>0. /\ 0 \in Slots /\ RingSize >= 0 /\ QueueSize >= 0
          /\ memory \in [Slots -> {0}] /\ lostWith \in [Slots -> {0}]
      BY CollectorAssumption DEF Slots, Init
    <2>1. <<>> \in Seq(1..0) /\ 0 \in 0..MaxRecords /\ 0 \in 0..MaxErrors
      BY CollectorAssumption
    <2>2. converted \in Seq(Conversions(tail))
      BY <1>0
    <2>3. read \in [view : Numbers, half : Numbers]
      BY <2>1 DEF Init, NoView, Numbers
    <2>4. memory \in [Slots -> Numbers] /\ lostWith \in [Slots -> Numbers]
      BY <2>0, <2>1 DEF Numbers
    <2>5. /\ ready \in Seq(1..tail) /\ queue \in Seq(1..tail)
          /\ Len(queue) = 0
      BY <1>0, <2>1
    <2> QED
      BY <1>0, <2>0, <2>1, <2>2, <2>3, <2>4, <2>5 DEF Init, TypeOK, Numbers, Conversions
  <1>3. Counted /\ InLine /\ ViewsInOrder
    BY <1>0 DEF Counted, InLine, ViewsInOrder, Reading
  <1>2. Ledger([n \in 0..0 |-> 0])
    BY DEF Init, Ledger
  <1> QED
    BY <1>1, <1>2, <1>3 DEF LineInv

\* The kernel.
LEMMA SubmitInv ==
    ASSUME LineInv, NEW told, Ledger(told), Submit
    PROVE  LineInv' /\ \E new : Ledger(new)'
  <1> USE CollectorAssumption DEF LineInv
  <1>1. /\ head \in Nat /\ tail \in 0..head /\ lost \in Nat /\ unsaid \in 0..lost
        /\ head + lost < MaxRecords /\ head - tail <= RingSize
        /\ UNCHANGED <<tail, running, poller, lostCount, errors, ready, queue,
                       dropped, main, read, converted>>
    BY DEF Submit, TypeOK, Numbers, thread, loop
  <1>2. Slot(head + 1) \in Slots
    BY <1>1, SlotInRing
  <1>3. TypeOK'
    <2>1. /\ memory' \in [Slots -> Numbers] /\ lostWith' \in [Slots -> Numbers]
          /\ head' \in Numbers /\ tail \in 0..head' /\ head' - tail <= RingSize
          /\ lost' \in Numbers /\ unsaid' \in 0..lost' /\ lostCount \in 0..lost'
      <3>1. unsaid \in Numbers /\ head + 1 \in Numbers
        BY <1>1 DEF Numbers
      <3>2. /\ memory \in [Slots -> Numbers] /\ lostWith \in [Slots -> Numbers]
            /\ lostCount \in 0..lost
        BY DEF TypeOK
      <3>3. memory' \in [Slots -> Numbers] /\ lostWith' \in [Slots -> Numbers]
        BY <1>2, <3>1, <3>2 DEF Submit
      <3>4. /\ head' \in Numbers /\ tail \in 0..head' /\ head' - tail <= RingSize
            /\ lost' \in Numbers /\ unsaid' \in 0..lost' /\ lostCount \in 0..lost'
        BY <1>1, <3>2 DEF Submit, Numbers
      <3> QED
        BY <3>3, <3>4
    <2> QED
      BY <1>1, <2>1 DEF TypeOK
  <1>4. LineInv'
    BY <1>1, <1>3 DEF Counted, InLine, ViewsInOrder, Reading
  <1>5. CASE head - tail < RingSize
    <2>1. /\ head' = head + 1 /\ unsaid' = 0 /\ UNCHANGED lost
          /\ lostWith' = [lostWith EXCEPT ![Slot(head + 1)] = unsaid]
      BY <1>5 DEF Submit
    <2>0. PICK new : new = [n \in tail..(head + 1) |->
                              IF n = head + 1 THEN told[head] + unsaid ELSE told[n]]
      OBVIOUS
    <2>2. lostWith'[Slot(head + 1)] = unsaid
      BY <1>2, <2>1 DEF TypeOK
    <2>3. ASSUME NEW n \in (tail + 1)..head
          PROVE  lostWith'[Slot(n)] = lostWith[Slot(n)]
      <3>1. Slot(n) # Slot(head + 1) /\ Slot(n) \in Slots
        BY <1>1, <1>5, SlotsDiffer, SlotInRing
      <3> QED
        BY <2>1, <3>1 DEF TypeOK
    <2>4. Ledger(new)'
      <3>1. /\ told \in [tail..head -> 0..lost] /\ told[tail] = lostCount
            /\ \A n \in (tail + 1)..head : told[n] = told[n - 1] + lostWith[Slot(n)]
            /\ lost = told[head] + unsaid
        BY DEF Ledger
      <3>2. new \in [tail..(head + 1) -> 0..lost] /\ new[tail] = lostCount
        BY <1>1, <2>0, <3>1
      <3>3. ASSUME NEW n \in (tail + 1)..(head + 1)
            PROVE  new[n] = new[n - 1] + lostWith'[Slot(n)]
        <4>1. CASE n = head + 1
          <5>1. head \in tail..(head + 1) /\ head + 1 \in tail..(head + 1)
            BY <1>1
          <5>2. new[head] = told[head] /\ new[head + 1] = told[head] + unsaid
            BY <1>1, <2>0, <5>1
          <5> QED
            BY <1>1, <2>2, <4>1, <5>2
        <4>2. CASE n # head + 1
          <5>1. n \in (tail + 1)..head /\ n - 1 \in tail..head
            BY <1>1, <4>2
          <5>2. new[n] = told[n] /\ new[n - 1] = told[n - 1]
            BY <1>1, <2>0, <5>1
          <5> QED
            BY <2>3, <3>1, <5>1, <5>2
        <4> QED
          BY <4>1, <4>2
      <3>4. new[head + 1] = lost
        BY <1>1, <2>0, <3>1
      <3> QED
        BY <1>1, <2>1, <3>2, <3>3, <3>4 DEF Ledger
    <2> QED
      BY <1>4, <2>4
  <1>6. CASE ~(head - tail < RingSize)
    <2>1. /\ lost' = lost + 1 /\ unsaid' = unsaid + 1
          /\ UNCHANGED <<head, lostWith>>
      BY <1>6 DEF Submit
    <2>2. Ledger(told)'
      BY <1>1, <2>1 DEF Ledger
    <2> QED
      BY <1>4, <2>2
  <1> QED
    BY <1>5, <1>6

\* The polling thread takes the oldest record, and what it says of lost ones.
LEMMA PollRecordInv ==
    ASSUME LineInv, NEW told, Ledger(told), PollRecord
    PROVE  LineInv' /\ \E new : Ledger(new)'
  <1> USE CollectorAssumption DEF LineInv
  <1> DEFINE n == tail + 1
  <1>1. /\ head \in Nat /\ tail \in Nat /\ lost \in Nat /\ unsaid \in 0..lost
        /\ tail < head /\ head - tail <= RingSize
        /\ tail' = n /\ lostCount' = lostCount + lostWith[Slot(n)]
        /\ lostWith' = [lostWith EXCEPT ![Slot(n)] = 0]
        /\ ready' = Append(ready, n)
        /\ UNCHANGED <<memory, head, lost, unsaid, running, poller, errors, queue,
                       dropped, main, read, converted>>
    BY DEF PollRecord, Schedule, TypeOK, Numbers
  <1>2. Slot(n) \in Slots
    BY <1>1, SlotInRing
  <1>3. /\ told \in [tail..head -> 0..lost] /\ told[tail] = lostCount
        /\ \A k \in n..head : told[k] = told[k - 1] + lostWith[Slot(k)]
        /\ lost = told[head] + unsaid
    BY DEF Ledger
  <1>4. n \in n..head /\ n \in tail..head /\ n - 1 = tail
    BY <1>1
  <1>5. told[n] = lostCount' /\ lostCount' \in 0..lost
    BY <1>1, <1>3, <1>4
  <1>6. /\ ready \in Seq(1..tail) /\ queue \in Seq(1..tail)
        /\ converted \in Seq(Conversions(tail))
    BY DEF TypeOK, Conversions
  <1>7. /\ ready' \in Seq(1..n) /\ queue \in Seq(1..n)
        /\ converted \in Seq(Conversions(n))
    <2>1. n \in 1..n /\ 1..tail \subseteq 1..n
      BY <1>1
    <2>2. ready \in Seq(1..n) /\ queue \in Seq(1..n)
      BY <1>1, <1>6, Longer
    <2>3. Conversions(tail) \subseteq Conversions(n)
      BY <2>1 DEF Conversions
    <2> HIDE DEF n
    <2>4. converted \in Seq(Conversions(n))
      <3> DEFINE S == Conversions(tail)
                 T == Conversions(n)
      <3>1. converted \in Seq(S) /\ S \subseteq T
        BY <1>6, <2>3
      <3> HIDE DEF S, T
      <3>2. converted \in Seq(T)
        BY <3>1
      <3> QED
        BY <3>2 DEF T
    <2>5. ready' \in Seq(1..n)
      BY <1>1, <2>1, <2>2
    <2> QED
      BY <2>2, <2>4, <2>5
  <1>8. TypeOK'
    <2>1. lostWith' \in [Slots -> Numbers] /\ memory \in [Slots -> Numbers]
      BY <1>1, <1>2 DEF TypeOK, Numbers
    <2>2. n \in 0..head /\ head - n <= RingSize
      BY <1>1
    <2> HIDE DEF n
    <2> QED
      BY <1>1, <1>5, <1>7, <2>1, <2>2 DEF TypeOK, Conversions
  <1>9. Counted'
    BY <1>1, <1>6 DEF Counted, Reading, TypeOK
  <1>10. InLine' /\ ViewsInOrder'
    <2>1. /\ \A i \in 1..Len(ready) : ready[i] < n
          /\ \A i \in 1..Len(queue) : queue[i] < n
          /\ \A i \in 1..Len(converted) : converted[i].view < n
          /\ main = "read" => read.view < n
      <3>1. \A i \in 1..Len(ready) : ready[i] \in 1..tail
        BY <1>1, <1>6, Longer
      <3>2. \A i \in 1..Len(queue) : queue[i] \in 1..tail
        BY <1>1, <1>6, Longer
      <3>3. \A i \in 1..Len(converted) :
               converted[i] \in Conversions(tail)
        <4> DEFINE S == Conversions(tail)
        <4>1. converted \in Seq(S)
          BY <1>6
        <4> HIDE DEF S
        <4>2. \A i \in 1..Len(converted) : converted[i] \in S
          BY <4>1
        <4> QED
          BY <4>2 DEF S
      <3>4. main = "read" => read.view \in 1..tail
        BY DEF InLine
      <3>5. tail \in Nat /\ tail < n /\ \A i \in 1..tail : i < n
        BY <1>1, <1>6
      <3>6. \A i \in 1..Len(ready) : ready[i] < n
        BY <3>1, <3>5
      <3>7. \A i \in 1..Len(queue) : queue[i] < n
        BY <3>2, <3>5
      <3>8. \A i \in 1..Len(converted) : converted[i].view < n
        BY <3>3, <3>5 DEF Conversions
      <3> QED
        BY <3>4, <3>5, <3>6, <3>7, <3>8
    <2>2. /\ Len(ready') = Len(ready) + 1 /\ ready'[Len(ready) + 1] = n
          /\ \A i \in 1..Len(ready) : ready'[i] = ready[i]
      BY <1>1, <1>6
    <2>3. \A i \in 1..Len(ready') : i \in 1..Len(ready) \/ i = Len(ready) + 1
      BY <1>6, <2>2
    <2>4. ViewsInOrder'
      BY <1>1 DEF ViewsInOrder
    <2>5. main = "read" => read.view \in 1..n
      BY <1>1 DEF InLine
    <2>6. Len(ready) \in Nat
      BY <1>6
    <2> HIDE DEF n
    <2>7. /\ \A i, j \in 1..Len(ready') : i < j => ready'[i] < ready'[j]
          /\ \A i \in 1..Len(queue) : \A j \in 1..Len(ready') : queue[i] < ready'[j]
      BY <2>1, <2>2, <2>3, <2>6 DEF InLine
    <2>8. /\ \A i, j \in 1..Len(queue) : i < j => queue[i] < queue[j]
          /\ main = "read" => \A i \in 1..Len(queue) : read.view < queue[i]
          /\ main = "read" => \A i \in 1..Len(ready') : read.view < ready'[i]
      BY <2>1, <2>2, <2>3 DEF InLine
    <2> QED
      <3>1. /\ main' = main /\ queue' = queue /\ read' = read
            /\ converted' = converted /\ tail' = n
        BY <1>1
      <3>2. \A k \in 1..Len(converted) : \A j \in 1..Len(ready') :
               converted[k].view < ready'[j]
        BY <2>1, <2>2, <2>3 DEF InLine
      <3>3. \A k \in 1..Len(converted) :
               /\ \A i \in 1..Len(queue) : converted[k].view < queue[i]
               /\ main = "read" => converted[k].view < read.view
        BY DEF InLine
      <3> QED
        BY <2>4, <2>5, <2>7, <2>8, <3>1, <3>2, <3>3 DEF InLine
  <1>11. \E new : Ledger(new)'
    <2>1. PICK new : new = [k \in n..head |-> told[k]]
      OBVIOUS
    <2>2. ASSUME NEW k \in (n + 1)..head
          PROVE  new[k] = new[k - 1] + lostWith'[Slot(k)]
      <3>1. Slot(n) # Slot(k) /\ Slot(k) \in Slots
        BY <1>1, SlotsDiffer, SlotInRing
      <3>2. lostWith'[Slot(k)] = lostWith[Slot(k)]
        BY <1>1, <3>1 DEF TypeOK
      <3>3. k \in n..head /\ k - 1 \in n..head
        BY <1>1
      <3>4. new[k] = told[k] /\ new[k - 1] = told[k - 1]
        BY <2>1, <3>3
      <3> QED
        BY <1>3, <3>2, <3>3, <3>4
    <2>3. /\ new \in [n..head -> 0..lost] /\ new[n] = told[n] /\ new[head] = told[head]
      BY <1>1, <1>3, <2>1
    <2> HIDE DEF n
    <2>4. Ledger(new)'
      BY <1>1, <1>3, <1>5, <2>2, <2>3 DEF Ledger
    <2> QED
      BY <2>4
  <1> QED
    BY <1>8, <1>9, <1>10, <1>11

\* Steps that leave the ring and the count of the lost alone.
LEMMA LedgerKept ==
    ASSUME NEW told, Ledger(told),
           UNCHANGED <<head, tail, lost, unsaid, lostWith, lostCount>>
    PROVE  \E new : Ledger(new)'
  <1>1. Ledger(told)'
    BY DEF Ledger
  <1> QED
    BY <1>1

\* The polling thread ends.
LEMMA PollerEndsInv ==
    ASSUME LineInv, PollEnds \/ PollFails
    PROVE  LineInv'
  <1>1. /\ UNCHANGED <<memory, lostWith, head, tail, lost, unsaid, running, lostCount,
                       ready, queue, dropped, main, read, converted>>
        /\ poller' = "ended" /\ errors' \in 0..MaxErrors
    BY CollectorAssumption DEF PollEnds, PollFails, ring, loop, LineInv, TypeOK
  <1>2. TypeOK'
    BY <1>1 DEF LineInv, TypeOK
  <1> QED
    BY <1>1, <1>2 DEF LineInv, Counted, InLine, ViewsInOrder, Reading

\* A callback moves the oldest scheduled view into the queue, or drops it.
LEMMA EnqueueInv ==
    ASSUME LineInv, EnqueueOnLoop
    PROVE  LineInv'
  <1> USE CollectorAssumption DEF LineInv
  <1>1. /\ main \in {"get", "send"} /\ ready # <<>> /\ ready' = Tail(ready)
        /\ UNCHANGED <<memory, lostWith, head, tail, lost, unsaid, running, poller,
                       lostCount, errors, main, read, converted>>
        /\ \/ /\ Len(queue) < QueueSize
              /\ queue' = Append(queue, Head(ready)) /\ dropped' = dropped
           \/ dropped' = dropped + 1 /\ queue' = queue
    BY DEF EnqueueOnLoop, LoopIsFree, ring, thread
  <1>2. /\ ready \in Seq(1..tail) /\ queue \in Seq(1..tail)
        /\ Len(ready) \in Nat /\ Len(queue) \in Nat /\ Len(converted) \in Nat
        /\ tail \in Nat /\ dropped \in Nat /\ tail <= MaxRecords
    BY DEF TypeOK, Numbers
  <1>3. /\ ready' \in Seq(1..tail) /\ Len(ready') = Len(ready) - 1
        /\ Head(ready) \in 1..tail /\ Head(ready) = ready[1] /\ 1 \in 1..Len(ready)
        /\ \A i \in 1..Len(ready') : ready'[i] = ready[i + 1] /\ i + 1 \in 1..Len(ready)
    BY <1>1, <1>2
  <1>4. CASE queue' = Append(queue, Head(ready)) /\ dropped' = dropped /\ Len(queue) < QueueSize
    <2>1. /\ queue' \in Seq(1..tail) /\ Len(queue') = Len(queue) + 1
          /\ queue'[Len(queue) + 1] = ready[1]
          /\ \A i \in 1..Len(queue) : queue'[i] = queue[i]
          /\ \A i \in 1..Len(queue') : i \in 1..Len(queue) \/ i = Len(queue) + 1
      BY <1>2, <1>3, <1>4
    <2>2. TypeOK'
      BY <1>1, <1>2, <1>3, <1>4, <2>1 DEF TypeOK
    <2>3. Counted'
      BY <1>1, <1>2, <1>3, <1>4, <2>1 DEF Counted, Reading
    <2>4. InLine' /\ ViewsInOrder'
      <3>1. /\ \A i, j \in 1..Len(ready') : i < j => ready'[i] < ready'[j]
            /\ \A i \in 1..Len(ready') : ready[1] < ready'[i]
        BY <1>1, <1>2, TailRises DEF InLine
      <3>2. \A i, j \in 1..Len(queue') : i < j => queue'[i] < queue'[j]
        <4>1. \A i \in 1..Len(queue) : queue[i] < ready[1]
          BY <1>3 DEF InLine
        <4>2. \A i, j \in 1..Len(queue) : i < j => queue[i] < queue[j]
          BY DEF InLine
        <4>3. ASSUME NEW i \in 1..Len(queue'), NEW j \in 1..Len(queue'), i < j
              PROVE  queue'[i] < queue'[j]
          <5>1. i \in 1..Len(queue)
            BY <1>2, <2>1, <4>3
          <5>2. CASE j = Len(queue) + 1
            BY <2>1, <4>1, <5>1, <5>2
          <5>3. CASE j \in 1..Len(queue)
            BY <2>1, <4>2, <4>3, <5>1, <5>3
          <5> QED
            BY <2>1, <5>2, <5>3
        <4> QED
          BY <4>3
      <3>3. \A i \in 1..Len(queue') : \A j \in 1..Len(ready') : queue'[i] < ready'[j]
        BY <1>2, <1>3, <2>1, <3>1 DEF InLine
      <3>4. main' # "read" /\ ViewsInOrder'
        BY <1>1 DEF ViewsInOrder
      <3>5. \A k \in 1..Len(converted) :
              /\ \A i \in 1..Len(queue') : converted[k].view < queue'[i]
              /\ \A i \in 1..Len(ready') : converted[k].view < ready'[i]
        BY <1>3, <2>1 DEF InLine
      <3> QED
        BY <1>1, <3>1, <3>2, <3>3, <3>4, <3>5 DEF InLine
    <2> QED
      BY <2>2, <2>3, <2>4
  <1>5. CASE dropped' = dropped + 1 /\ queue' = queue
    <2>1. Counted'
      BY <1>1, <1>2, <1>3, <1>5 DEF Counted, Reading
    <2>2. dropped' \in Numbers
      BY <1>1, <1>2, <1>3, <1>5 DEF Counted, Reading, Numbers
    <2>3. TypeOK'
      BY <1>1, <1>3, <1>5, <2>2 DEF TypeOK
    <2>4. \A i, j \in 1..Len(ready') : i < j => ready'[i] < ready'[j]
      BY <1>1, <1>2, TailRises DEF InLine
    <2>5. InLine' /\ ViewsInOrder'
      BY <1>1, <1>3, <1>5, <2>4 DEF InLine, ViewsInOrder
    <2> QED
      BY <2>1, <2>3, <2>5
  <1> QED
    BY <1>1, <1>4, <1>5

\* The main loop takes the oldest view of the queue.
LEMMA GetInv ==
    ASSUME LineInv, Get
    PROVE  LineInv'
  <1> USE CollectorAssumption DEF LineInv
  <1>1. /\ main = "get" /\ queue # <<>> /\ queue' = Tail(queue) /\ main' = "read"
        /\ read' = [view |-> Head(queue), half |-> memory[Slot(Head(queue))]]
        /\ UNCHANGED <<memory, lostWith, head, tail, lost, unsaid, running, poller,
                       lostCount, errors, ready, dropped, converted>>
    BY DEF Get, ring, thread
  <1>2. /\ ready \in Seq(1..tail) /\ queue \in Seq(1..tail)
        /\ Len(ready) \in Nat /\ Len(queue) \in Nat /\ Len(converted) \in Nat
        /\ tail \in Nat /\ dropped \in Nat /\ tail <= MaxRecords
    BY DEF TypeOK, Numbers
  <1>3. /\ queue' \in Seq(1..tail) /\ Len(queue') = Len(queue) - 1
        /\ Head(queue) \in 1..tail /\ Head(queue) = queue[1] /\ 1 \in 1..Len(queue)
        /\ \A i \in 1..Len(queue') : queue'[i] = queue[i + 1] /\ i + 1 \in 1..Len(queue)
    BY <1>1, <1>2
  <1>4. read'.view = queue[1] /\ read' \in [view : Numbers, half : Numbers]
    <2>1. memory \in [Slots -> Numbers] /\ Slot(Head(queue)) \in Slots
      BY <1>2, <1>3, SlotInRing DEF TypeOK
    <2>2. Head(queue) \in Numbers
      BY <1>2, <1>3 DEF Numbers
    <2> QED
      BY <1>1, <1>3, <2>1, <2>2
  <1>5. TypeOK'
    BY <1>1, <1>2, <1>3, <1>4 DEF TypeOK
  <1>6. Counted'
    BY <1>1, <1>2, <1>3 DEF Counted, Reading
  <1>7. /\ \A i, j \in 1..Len(queue') : i < j => queue'[i] < queue'[j]
        /\ \A i \in 1..Len(queue') : queue[1] < queue'[i]
    BY <1>1, <1>2, TailRises DEF InLine
  <1>8. InLine' /\ ViewsInOrder'
    BY <1>1, <1>3, <1>4, <1>7 DEF InLine, ViewsInOrder
  <1> QED
    BY <1>5, <1>6, <1>8

\* The conversion ends.
LEMMA ConvertInv ==
    ASSUME LineInv, Convert
    PROVE  LineInv'
  <1> USE CollectorAssumption DEF LineInv
  <1> DEFINE c == [view |-> read.view, first |-> read.half,
                   second |-> memory[Slot(read.view)],
                   fresh |-> head - read.view < RingSize]
  <1>1. /\ main = "read" /\ main' \in {"get", "send"} /\ read' = NoView
        /\ converted' = Append(converted, c)
        /\ UNCHANGED <<memory, lostWith, head, tail, lost, unsaid, running, poller,
                       lostCount, errors, ready, queue, dropped>>
    BY DEF Convert, ring, thread
  <1>2. /\ converted \in Seq(Conversions(tail))
        /\ Len(ready) \in Nat /\ Len(queue) \in Nat /\ Len(converted) \in Nat
        /\ read.view \in 1..tail /\ tail \in Nat /\ tail <= MaxRecords /\ dropped \in Nat
    <2>1. converted \in Seq(Conversions(tail)) /\ read.view \in 1..tail
      BY <1>1 DEF TypeOK, InLine, Conversions
    <2>2. ready \in Seq(1..tail) /\ queue \in Seq(1..tail)
      BY DEF TypeOK
    <2>3. tail \in Nat /\ tail <= MaxRecords /\ dropped \in Nat
      BY DEF TypeOK, Numbers
    <2> QED
      BY <2>1, <2>2, <2>3
  <1>3. c \in Conversions(tail) /\ c.view = read.view
    <2>1. memory[Slot(read.view)] \in Numbers
      BY <1>2, SlotInRing DEF TypeOK
    <2>2. read.half \in Numbers
      BY DEF TypeOK
    <2> QED
      BY <1>2, <2>1, <2>2 DEF Conversions
  <1> HIDE DEF c
  <1>4. /\ converted' \in Seq(Conversions(tail))
        /\ Len(converted') = Len(converted) + 1
        /\ converted'[Len(converted) + 1] = c
        /\ \A k \in 1..Len(converted) : converted'[k] = converted[k]
        /\ \A k \in 1..Len(converted') : k \in 1..Len(converted) \/ k = Len(converted) + 1
        /\ DOMAIN converted = 1..Len(converted) /\ DOMAIN converted' = 1..Len(converted')
    BY <1>1, <1>2, <1>3
  <1>5. TypeOK'
    <2>1. NoView \in [view : Numbers, half : Numbers]
      BY <1>2 DEF NoView, Numbers
    <2> QED
      BY <1>1, <1>4, <2>1 DEF TypeOK, Conversions
  <1>6. Counted'
    <2>1. Reading = 1 /\ Reading' = 0
      BY <1>1 DEF Reading
    <2> QED
      BY <1>1, <1>2, <1>4, <2>1 DEF Counted
  <1>7. \A k \in 1..Len(converted') :
              /\ \A i \in 1..Len(queue) : converted'[k].view < queue[i]
              /\ \A i \in 1..Len(ready) : converted'[k].view < ready[i]
    BY <1>1, <1>3, <1>4 DEF InLine
  <1>8. InLine'
    BY <1>1, <1>7 DEF InLine
  <1>9. ViewsInOrder'
    BY <1>1, <1>2, <1>3, <1>4 DEF ViewsInOrder, InLine, Conversions
  <1> QED
    BY <1>5, <1>6, <1>8, <1>9

\* The main loop goes on, or ends.
LEMMA MainGoesOnInv ==
    ASSUME LineInv, Sent \/ Stop
    PROVE  LineInv'
  <1>1. /\ UNCHANGED <<memory, lostWith, head, tail, lost, unsaid, poller, lostCount,
                       errors, ready, queue, dropped, read, converted>>
        /\ main \in {"get", "send"} /\ main' \in {"get", "stopped"}
        /\ running' \in BOOLEAN
    BY DEF Sent, Stop, LoopIsFree, ring, thread, LineInv, TypeOK
  <1>2. TypeOK'
    BY <1>1 DEF LineInv, TypeOK
  <1> QED
    BY <1>1, <1>2 DEF LineInv, Counted, InLine, ViewsInOrder, Reading

LEMMA StepInv ==
    ASSUME LineInv, \E told : Ledger(told), [Next]_vars
    PROVE  LineInv' /\ \E told : Ledger(told)'
  <1>1. PICK told : Ledger(told)
    OBVIOUS
  <1>2. CASE Submit
    BY <1>1, <1>2, SubmitInv
  <1>3. CASE PollRecord
    BY <1>1, <1>3, PollRecordInv
  <1>4. CASE PollEnds \/ PollFails
    <2>1. UNCHANGED <<head, tail, lost, unsaid, lostWith, lostCount>>
      BY <1>4 DEF PollEnds, PollFails, ring
    <2> QED
      BY <1>1, <1>4, <2>1, PollerEndsInv, LedgerKept
  <1>5. CASE EnqueueOnLoop \/ Get \/ Convert \/ Sent \/ Stop
    <2>1. UNCHANGED <<head, tail, lost, unsaid, lostWith, lostCount>>
      BY <1>5 DEF EnqueueOnLoop, Get, Convert, Sent, Stop, ring, thread
    <2>2. LineInv'
      BY <1>5, EnqueueInv, GetInv, ConvertInv, MainGoesOnInv
    <2> QED
      BY <1>1, <2>1, <2>2, LedgerKept
  <1>6. CASE UNCHANGED vars
    <2>1. UNCHANGED <<head, tail, lost, unsaid, lostWith, lostCount>>
      BY <1>6 DEF vars, ring, thread
    <2>2. LineInv'
      BY <1>6 DEF vars, ring, thread, loop, LineInv, TypeOK, Counted, InLine,
         ViewsInOrder, Reading
    <2> QED
      BY <1>1, <2>1, <2>2, LedgerKept
  <1> QED
    BY <1>2, <1>3, <1>4, <1>5, <1>6 DEF Next, PollerStep, MainStep

LEMMA InitContents ==
    Init => Contents
  BY DEF Init, Contents

\* The kernel writes the next slot, over a record a whole ring old.
LEMMA SubmitContents ==
    ASSUME LineInv, Contents, Submit
    PROVE  Contents'
  <1>1. /\ head \in Nat /\ RingSize \in Nat /\ tail \in 0..head
        /\ memory \in [Slots -> Numbers]
        /\ UNCHANGED <<tail, main, read, converted>>
    BY CollectorAssumption DEF Submit, loop, LineInv, TypeOK, Numbers
  <1>2. CASE head' = head /\ memory' = memory
    BY <1>1, <1>2 DEF Contents
  <1>3. CASE head' = head + 1 /\ memory' = [memory EXCEPT ![Slot(head + 1)] = head + 1]
    <2>1. ASSUME NEW n \in 1..head'
          PROVE  /\ memory'[Slot(n)] >= n
                 /\ head' - n < RingSize => memory'[Slot(n)] = n
      <3>1. n \in Nat /\ Slot(n) \in Slots /\ Slot(head + 1) \in Slots
        BY <1>1, <1>3, SlotInRing
      <3>2. CASE Slot(n) = Slot(head + 1)
        <4>1. memory'[Slot(n)] = head + 1
          BY <1>1, <1>3, <3>1, <3>2
        <4>2. n = head + 1 \/ head + 1 - n >= RingSize
          BY <1>1, <1>3, <3>1, <3>2, SlotsDiffer
        <4> QED
          BY <1>1, <1>3, <4>1, <4>2
      <3>3. CASE Slot(n) # Slot(head + 1)
        <4>1. memory'[Slot(n)] = memory[Slot(n)] /\ n \in 1..head
          BY <1>1, <1>3, <3>1, <3>3
        <4> QED
          BY <1>1, <1>3, <4>1 DEF Contents
      <3> QED
        BY <3>2, <3>3
    <2>2. main = "read" => read.view \in 1..tail
      BY DEF LineInv, InLine
    <2>3. main' = "read" =>
             /\ read'.half >= read'.view
             /\ head' - read'.view < RingSize => read'.half = read'.view
      BY <1>1, <1>3, <2>2 DEF Contents
    <2> QED
      BY <1>1, <2>1, <2>3 DEF Contents
  <1> QED
    BY <1>2, <1>3 DEF Submit

\* What is there is read, in two steps.
LEMMA GetContents ==
    ASSUME LineInv, Contents, Get
    PROVE  Contents'
  <1>1. /\ queue \in Seq(1..tail) /\ queue # <<>> /\ tail \in 0..head /\ head \in Nat
        /\ UNCHANGED <<head, memory, converted>>
        /\ read' = [view |-> Head(queue), half |-> memory[Slot(Head(queue))]]
    BY DEF Get, ring, LineInv, TypeOK, Numbers
  <1>2. PICK n \in 1..head : read'.view = n /\ read'.half = memory[Slot(n)]
    BY <1>1
  <1> QED
    BY <1>1, <1>2 DEF Contents

LEMMA ConvertContents ==
    ASSUME LineInv, Contents, Convert
    PROVE  Contents'
  <1> DEFINE c == [view |-> read.view, first |-> read.half,
                   second |-> memory[Slot(read.view)],
                   fresh |-> head - read.view < RingSize]
  <1>1. /\ main = "read" /\ main' # "read" /\ UNCHANGED <<head, memory>>
        /\ converted' = Append(converted, c)
        /\ converted \in Seq(Conversions(tail))
        /\ read.view \in 1..head
    BY DEF Convert, ring, LineInv, InLine, TypeOK, Numbers, Conversions
  <1>2. /\ c.first >= c.view /\ c.second >= c.view
        /\ c.fresh => c.first = c.view /\ c.second = c.view
    BY <1>1 DEF Contents
  <1> HIDE DEF c
  <1>3. ASSUME NEW k \in 1..Len(converted')
        PROVE  \/ converted'[k] = c
               \/ k \in 1..Len(converted) /\ converted'[k] = converted[k]
    <2>1. PICK S : converted \in Seq(S)
      BY <1>1
    <2>2. /\ Len(converted') = Len(converted) + 1 /\ Len(converted) \in Nat
          /\ converted'[Len(converted) + 1] = c
          /\ \A m \in 1..Len(converted) : converted'[m] = converted[m]
      BY <1>1, <2>1
    <2>3. k = Len(converted) + 1 \/ k \in 1..Len(converted)
      BY <2>2
    <2> QED
      BY <2>2, <2>3
  <1>4. \A k \in 1..Len(converted') :
          /\ converted'[k].first >= converted'[k].view
          /\ converted'[k].second >= converted'[k].view
          /\ converted'[k].fresh => /\ converted'[k].first = converted'[k].view
                                   /\ converted'[k].second = converted'[k].view
    BY <1>2, <1>3 DEF Contents
  <1> QED
    BY <1>1, <1>4 DEF Contents

LEMMA ContentsKept ==
    ASSUME Contents, UNCHANGED <<head, memory, converted>>,
           main' = "read" => main = "read" /\ read' = read
    PROVE  Contents'
  BY DEF Contents

LEMMA StepContents ==
    ASSUME LineInv, Contents, [Next]_vars
    PROVE  Contents'
  <1>1. CASE PollerStep \/ PollFails \/ EnqueueOnLoop \/ Sent \/ Stop \/ UNCHANGED vars
    <2>1. /\ UNCHANGED <<head, memory, converted>>
          /\ main' = "read" => main = "read" /\ read' = read
      BY <1>1 DEF PollerStep, PollRecord, PollEnds, PollFails, EnqueueOnLoop, Sent, Stop,
         vars, ring, thread, loop
    <2> QED
      BY <2>1, ContentsKept
  <1> QED
    BY <1>1, SubmitContents, GetContents, ConvertContents DEF Next, MainStep

LEMMA OrderOfContents ==
    ASSUME LineInv, Contents
    PROVE  ConvertedInOrder
  <1>1. /\ converted \in Seq(Conversions(tail)) /\ tail \in Nat
        /\ DOMAIN converted = 1..Len(converted)
    BY DEF LineInv, TypeOK, Conversions, Numbers
  <1>2. ASSUME NEW i \in 1..Len(converted)
        PROVE  /\ converted[i].view \in Nat /\ converted[i].first \in Int
               /\ converted[i].second \in Int
    <2>1. converted[i] \in Conversions(tail)
      BY <1>1
    <2>2. MaxRecords \in Nat
      BY CollectorAssumption
    <2> QED
      BY <1>1, <2>1, <2>2 DEF Conversions, Numbers
  <1>3. ASSUME NEW i \in 1..Len(converted), converted[i].fresh
        PROVE  {converted[i].first, converted[i].second} = {converted[i].view}
    BY <1>3 DEF Contents
  <1>4. ASSUME NEW i \in 1..Len(converted), NEW j \in 1..Len(converted), i < j
        PROVE  /\ converted[i].view < converted[j].first
               /\ converted[i].view < converted[j].second
    <2>1. converted[i].view < converted[j].view
      BY <1>1, <1>4 DEF LineInv, ViewsInOrder
    <2>2. /\ converted[j].first >= converted[j].view
          /\ converted[j].second >= converted[j].view
      BY DEF Contents
    <2> QED
      BY <1>2, <2>1, <2>2
  <1> QED
    BY <1>1, <1>3, <1>4 DEF ConvertedInOrder

\* The recursive function of EveryRecordIsCounted has the ledger's values.
LEMMA LedgerIsSum ==
    ASSUME LineInv, NEW told, Ledger(told)
    PROVE  EveryRecordIsCounted
  <1> DEFINE Step(f) == [n \in tail..head |->
                IF n = tail THEN lostCount ELSE f[n - 1] + lostWith[Slot(n)]]
             sum == CHOOSE f : f = Step(f)
  <1>1. head \in Nat /\ tail \in 0..head
    BY DEF LineInv, TypeOK, Numbers
  <1>2. /\ told \in [tail..head -> 0..lost] /\ told[tail] = lostCount
        /\ \A n \in (tail + 1)..head : told[n] = told[n - 1] + lostWith[Slot(n)]
        /\ lost = told[head] + unsaid
    BY DEF Ledger
  <1>3. told = Step(told)
    BY <1>1, <1>2
  <1>4. sum = Step(sum)
    BY <1>3
  <1> HIDE DEF sum
  <1>5. \A n \in tail..head :
           sum[n] = IF n = tail THEN lostCount ELSE sum[n - 1] + lostWith[Slot(n)]
    BY <1>4
  <1> DEFINE Bad == {n \in tail..head : sum[n] # told[n]}
  <1>6. ASSUME Bad # {} PROVE FALSE
    <2>1. Bad \in SUBSET Nat
      BY <1>1
    <2>2. PICK n \in Bad : \A k \in Bad : n <= k
      BY <1>6, <2>1, Least
    <2>3. n # tail /\ n \in (tail + 1)..head
      BY <1>1, <1>2, <1>5, <2>2
    <2>4. n - 1 \in tail..head /\ n - 1 \notin Bad
      BY <1>1, <2>2, <2>3
    <2> QED
      BY <1>2, <1>5, <2>2, <2>3, <2>4
  <1>7. sum[head] = told[head]
    BY <1>1, <1>6
  <1>8. lost = sum[head] + unsaid
    BY <1>2, <1>7
  <1> QED
    BY <1>8 DEF EveryRecordIsCounted, LineInv, Counted, sum

LEMMA Inductive ==
    Spec => [](LineInv /\ Contents /\ EveryRecordIsCounted)
  <1> DEFINE IInv == LineInv /\ Contents /\ \E told : Ledger(told)
  <1>1. Init => IInv
    BY InitInv, InitContents
  <1>2. IInv /\ [Next]_vars => IInv'
    BY StepInv, StepContents
  <1>3. IInv => LineInv /\ Contents /\ EveryRecordIsCounted
    BY LedgerIsSum
  <1> HIDE DEF IInv
  <1> QED
    BY <1>1, <1>2, <1>3, PTL DEF Spec

\* Every record the kernel has taken is in the ring, scheduled, queued, counted as
\* dropped, or converted, and every one it had no room for is in lost_count or
\* still to be told; the queue and the ring keep their bounds.
THEOREM CollectorSafe ==
    Spec => []CollectorInv
  <1>1. LineInv /\ Contents /\ EveryRecordIsCounted => CollectorInv
    BY DEF LineInv, CollectorInv
  <1> QED
    BY <1>1, Inductive, PTL

\* Whatever the polling thread, the callbacks, the full queue and the kernel do, a
\* record that the kernel has not overwritten when its turn comes is converted whole,
\* and no record has a field in a conversion after its turn.
THEOREM Ordered ==
    Spec => []ConvertedInOrder
  <1>1. LineInv /\ Contents /\ EveryRecordIsCounted => ConvertedInOrder
    BY OrderOfContents
  <1> QED
    BY <1>1, Inductive, PTL

=============================================================================
