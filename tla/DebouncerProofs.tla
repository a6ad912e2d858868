--------------------------- MODULE DebouncerProofs ---------------------------
(***************************************************************************)
(* Proofs about Debouncer: DebouncerInv is inductive, and gives the order  *)
(* of what is emitted, the survival of the newest event of each path, the  *)
(* timer of each bucket and the bound on its delay.                        *)
(***************************************************************************)
EXTENDS Debouncer, FiniteSetTheorems, TLAPS

\* The shapes in which a handler changes processed: nothing, or the pending
\* event of one bucket, or a new event after it.
LEMMA Appended ==
    ASSUME NEW S, NEW s \in Seq(S), NEW x \in S
    PROVE  /\ Append(s, x) \in Seq(S)
           /\ DOMAIN Append(s, x) = 1..(Len(s) + 1)
           /\ DOMAIN s = 1..Len(s)
           /\ \A i \in 1..Len(s) : Append(s, x)[i] = s[i]
           /\ Append(s, x)[Len(s) + 1] = x
  OBVIOUS

\* An arriving event is newer than all others and changes none of them.
LEMMA Arrival ==
    ASSUME TypeOK, NEW k \in Keys, Arrive(k)
    PROVE  /\ New \in Events
           /\ New \notin Arrived
           /\ \A e \in Arrived : e < New
           /\ Arrived' = Arrived \cup {New}
           /\ Arrived \subseteq Events
           /\ \A e \in Arrived : raw'[e] = raw[e]
           /\ raw'[New] = k
           /\ raw' \in Seq(Keys)
           /\ Len(raw') <= MaxEvents
  <1> USE DebouncerAssumption DEF Arrive, TypeOK, Arrived, New, Events
  <1>1. Len(raw) \in Nat /\ Len(raw') = Len(raw) + 1
    OBVIOUS
  <1>2. /\ \A e \in 1..Len(raw) : raw'[e] = raw[e]
        /\ raw'[Len(raw) + 1] = k
        /\ raw' \in Seq(Keys)
    OBVIOUS
  <1> QED
    BY <1>1, <1>2

\* What the invariant says of a key whose event is being handled carries over
\* to the emission of that event's bucket.
LEMMA EmitPending ==
    ASSUME DebouncerInv, NEW k \in Keys
    PROVE  LET p == processed \o Pending(k)
           IN  /\ p \in Seq(Arrived)
               /\ \A i, j \in DOMAIN p :
                     i < j /\ raw[p[i]] = raw[p[j]] => p[i] < p[j]
               /\ \A i \in DOMAIN processed : i \in DOMAIN p /\ p[i] = processed[i]
               /\ bucket[k] # 0 => \E i \in DOMAIN p : p[i] = bucket[k]
               /\ \A i \in DOMAIN p :
                     \/ \E j \in DOMAIN processed : p[i] = processed[j]
                     \/ bucket[k] # 0 /\ p[i] = bucket[k]
  <1> DEFINE p == processed \o Pending(k)
  <1>1. CASE bucket[k] = 0
    <2>1. Pending(k) = <<>>
      BY <1>1 DEF Pending
    <2>2. p = processed
      BY <2>1 DEF DebouncerInv, TypeOK
    <2> QED
      BY <1>1, <2>2 DEF DebouncerInv, TypeOK, EmittedInOrder
  <1>2. CASE bucket[k] # 0
    <2>1. p = Append(processed, bucket[k])
      BY <1>2 DEF Pending, DebouncerInv, TypeOK
    <2>2. bucket[k] \in Arrived /\ raw[bucket[k]] = k
      BY <1>2 DEF DebouncerInv, BucketInv, TypeOK
    <2>3. processed \in Seq(Arrived)
      BY DEF DebouncerInv, TypeOK
    <2>4. /\ p \in Seq(Arrived)
          /\ DOMAIN p = 1..(Len(processed) + 1)
          /\ DOMAIN processed = 1..Len(processed)
          /\ \A i \in 1..Len(processed) : p[i] = processed[i]
          /\ p[Len(processed) + 1] = bucket[k]
          /\ Len(processed) \in Nat
      BY <2>1, <2>2, <2>3, Appended
    <2>5. \A i \in DOMAIN processed :
             raw[processed[i]] = k => processed[i] < bucket[k]
      BY <1>2 DEF DebouncerInv, BucketInv
    <2>6. EmittedInOrder
      BY DEF DebouncerInv
    <2> HIDE DEF p
    <2>7. ASSUME NEW i \in DOMAIN p, NEW j \in DOMAIN p,
                 i < j, raw[p[i]] = raw[p[j]]
          PROVE  p[i] < p[j]
      <3>1. CASE j = Len(processed) + 1
        BY <2>2, <2>4, <2>5, <2>7, <3>1
      <3>2. CASE j # Len(processed) + 1
        <4>1. i \in DOMAIN processed /\ j \in DOMAIN processed
          BY <2>4, <2>7, <3>2
        <4> QED
          BY <2>4, <2>6, <2>7, <4>1 DEF EmittedInOrder
      <3> QED
        BY <3>1, <3>2
    <2>8. \A i \in DOMAIN p : \/ \E j \in DOMAIN processed : p[i] = processed[j]
                              \/ p[i] = bucket[k]
      BY <2>4
    <2>9. \E i \in DOMAIN p : p[i] = bucket[k]
      BY <2>4
    <2>10. \A i \in DOMAIN processed : i \in DOMAIN p /\ p[i] = processed[i]
      BY <2>4
    <2> QED
      BY <1>2, <2>4, <2>7, <2>8, <2>9, <2>10 DEF p
  <1> QED
    BY <1>1, <1>2

\* The same, when the key's event has arrived: raw' agrees with raw so far.
\* A handler that emits nothing is the other case.
LEMMA EmitOnArrival ==
    ASSUME DebouncerInv, NEW k \in Keys, Arrive(k),
           processed' = processed \/ processed' = processed \o Pending(k)
    PROVE  /\ processed' \in Seq(Arrived)
           /\ EmittedInOrder'
           /\ Emitted \subseteq Emitted'
           /\ \A i \in DOMAIN processed' :
                 \/ \E j \in DOMAIN processed : processed'[i] = processed[j]
                 \/ bucket[k] # 0 /\ processed'[i] = bucket[k]
  <1>1. /\ \A e \in Arrived : raw'[e] = raw[e]
        /\ processed \in Seq(Arrived)
    BY Arrival DEF DebouncerInv, TypeOK
  <1>2. /\ processed' \in Seq(Arrived)
        /\ \A i, j \in DOMAIN processed' :
              i < j /\ raw[processed'[i]] = raw[processed'[j]]
                  => processed'[i] < processed'[j]
        /\ \A i \in DOMAIN processed :
              i \in DOMAIN processed' /\ processed'[i] = processed[i]
        /\ \A i \in DOMAIN processed' :
              \/ \E j \in DOMAIN processed : processed'[i] = processed[j]
              \/ bucket[k] # 0 /\ processed'[i] = bucket[k]
    <2>1. CASE processed' = processed
      BY <1>1, <2>1 DEF DebouncerInv, EmittedInOrder
    <2>2. CASE processed' = processed \o Pending(k)
      BY <2>2, EmitPending
    <2> QED
      BY <2>1, <2>2
  <1>3. EmittedInOrder'
    <2>1. \A i \in DOMAIN processed' : processed'[i] \in Arrived
      BY <1>2
    <2> QED
      BY <1>1, <1>2, <2>1 DEF EmittedInOrder
  <1>4. Emitted \subseteq Emitted'
    BY <1>2 DEF Emitted
  <1> QED
    BY <1>2, <1>3, <1>4

LEMMA InitInv ==
    Init => DebouncerInv
  <1> SUFFICES ASSUME Init PROVE DebouncerInv
    OBVIOUS
  <1> USE DebouncerAssumption DEF Init
  <1>1. TypeOK
    BY DEF TypeOK, Events, Arrived, AgeCap
  <1>2. BucketInv /\ EmittedInOrder /\ NothingForgotten
    BY DEF BucketInv, EmittedInOrder, NothingForgotten, Arrived
  <1> QED
    BY <1>1, <1>2 DEF DebouncerInv

\* A modified event, whichever branch of _add_to_bucket it takes.
LEMMA ModifiedInv ==
    ASSUME DebouncerInv, NEW k \in Keys, Modified(k)
    PROVE  DebouncerInv'
  <1>1. Arrive(k) /\ TypeOK
    BY DEF Modified, DebouncerInv
  <1>2. /\ New \in Events
        /\ New \notin Arrived
        /\ \A e \in Arrived : e < New
        /\ Arrived' = Arrived \cup {New}
        /\ Arrived \subseteq Events
        /\ \A e \in Arrived : raw'[e] = raw[e]
        /\ raw'[New] = k
        /\ raw' \in Seq(Keys)
        /\ Len(raw') <= MaxEvents
    BY <1>1, Arrival
  <1>3. /\ bucket' = [bucket EXCEPT ![k] = New]
        /\ timer' = [timer EXCEPT ![k] = New]
        /\ \/ processed' = processed
           \/ processed' = processed \o Pending(k)
        /\ timers' \subseteq timers \cup {New}
        /\ New \in timers'
        /\ \A e \in timers : e # timer[k] => e \in timers'
        /\ left' \in [Events -> 0..Window]
        /\ left'[New] = Window
        /\ \A e \in Arrived : e # timer[k] => left'[e] = left[e]
        /\ age' \in [Keys -> 0..AgeCap]
        /\ age'[k] < MaxWait
        /\ \A j \in Keys : j # k => age'[j] = age[j]
    <2> USE <1>2, DebouncerAssumption
    <2>1. CASE StartBucket(k) /\ (NewBucket(k) \/ ReplaceBucket(k))
      <3>1. \/ processed' = processed
            \/ processed' = processed \o Pending(k)
        <4>1. CASE NewBucket(k)
          BY <4>1 DEF NewBucket
        <4>2. CASE ReplaceBucket(k)
          <5>1. processed' = Append(processed, bucket[k]) /\ bucket[k] # 0
            BY <4>2 DEF ReplaceBucket
          <5>2. processed \in Seq(Arrived) /\ bucket[k] \in Arrived
            BY <1>1, <5>1 DEF TypeOK, DebouncerInv, BucketInv
          <5>3. Append(processed, bucket[k]) = processed \o <<bucket[k]>>
            BY ONLY <5>2
          <5> QED
            BY <5>1, <5>3 DEF Pending
        <4> QED
          BY <2>1, <4>1, <4>2
      <3>2. /\ left' = [left EXCEPT ![New] = Window]
            /\ left \in [Events -> 0..Window]
            /\ age' = [age EXCEPT ![k] = 0]
            /\ age \in [Keys -> 0..AgeCap]
        BY <1>1, <2>1 DEF StartBucket, TypeOK
      <3>3. /\ left' \in [Events -> 0..Window]
            /\ left'[New] = Window
            /\ \A e \in Arrived : left'[e] = left[e]
        BY <3>2
      <3>4. /\ age' \in [Keys -> 0..AgeCap]
            /\ age'[k] < MaxWait
            /\ \A j \in Keys : j # k => age'[j] = age[j]
        BY <3>2 DEF AgeCap
      <3>5. /\ bucket' = [bucket EXCEPT ![k] = New]
            /\ timer' = [timer EXCEPT ![k] = New]
            /\ timers' = timers \cup {New}
        BY <2>1 DEF StartBucket
      <3> QED
        BY <3>1, <3>3, <3>4, <3>5
    <2>2. CASE ExtendBucket(k)
      <3>1. timer[k] \in Arrived
        BY <2>2 DEF ExtendBucket, DebouncerInv, BucketInv, TypeOK
      <3>2. /\ left' = [left EXCEPT ![timer[k]] = 0, ![New] = Window]
            /\ left \in [Events -> 0..Window]
            /\ timer[k] \in Events
        BY <1>1, <2>2, <3>1 DEF ExtendBucket, TypeOK
      <3>3. /\ left' \in [Events -> 0..Window]
            /\ left'[New] = Window
            /\ \A e \in Arrived : e # timer[k] => left'[e] = left[e]
        <4>1. 0 \in 0..Window /\ Window \in 0..Window
          OBVIOUS
        <4>2. left' \in [Events -> 0..Window]
          BY <3>2, <4>1
        <4>3. left'[New] = Window
          BY <3>2
        <4>4. \A e \in Arrived : e # timer[k] => left'[e] = left[e]
          BY <3>2
        <4> QED
          BY <4>2, <4>3, <4>4
      <3>4. /\ age' = age
            /\ age \in [Keys -> 0..AgeCap]
            /\ age[k] < MaxWait
            /\ bucket' = [bucket EXCEPT ![k] = New]
            /\ timer' = [timer EXCEPT ![k] = New]
            /\ timers' = (timers \ {timer[k]}) \cup {New}
            /\ processed' = processed
        BY <1>1, <2>2 DEF ExtendBucket, TypeOK
      <3> QED
        BY <3>3, <3>4
    <2> QED
      BY <2>1, <2>2 DEF Modified, NewBucket, ReplaceBucket
  <1>4. /\ processed' \in Seq(Arrived)
        /\ EmittedInOrder'
        /\ Emitted \subseteq Emitted'
        /\ \A i \in DOMAIN processed' :
              \/ \E j \in DOMAIN processed : processed'[i] = processed[j]
              \/ bucket[k] # 0 /\ processed'[i] = bucket[k]
    BY <1>1, <1>3, EmitOnArrival
  <1>5. \A i \in DOMAIN processed' : processed'[i] \in Arrived
    BY <1>4
  <1>6. TypeOK'
    <2>1. processed' \in Seq(Arrived')
      BY <1>2, <1>4
    <2>2. timers' \subseteq Arrived'
      BY <1>1, <1>2, <1>3 DEF TypeOK
    <2> QED
      BY <1>1, <1>2, <1>3, <2>1, <2>2 DEF TypeOK, Events, AgeCap
  <1>7. BucketInv'
    <2> SUFFICES ASSUME NEW j \in Keys
                 PROVE  /\ timer'[j] = bucket'[j]
                        /\ bucket'[j] # 0 =>
                              /\ bucket'[j] \in timers'
                              /\ raw'[bucket'[j]] = j
                              /\ \A i \in DOMAIN processed' :
                                    raw'[processed'[i]] = j
                                        => processed'[i] < bucket'[j]
                              /\ Prompt => age'[j] + left'[bucket'[j]]
                                               < MaxWait + Window
      BY DEF BucketInv
    <2>1. CASE j = k
      <3>1. bucket'[j] = New /\ timer'[j] = New
        BY <1>1, <1>3, <2>1 DEF TypeOK
      <3>2. age'[j] + left'[New] < MaxWait + Window
        BY <1>3, <2>1, DebouncerAssumption DEF AgeCap
      <3> QED
        BY <1>2, <1>3, <1>5, <2>1, <3>1, <3>2
    <2>2. CASE j # k
      <3>1. bucket'[j] = bucket[j] /\ timer'[j] = timer[j]
        BY <1>1, <1>3, <2>2 DEF TypeOK
      <3>2. timer[j] = bucket[j] /\ timer[k] = bucket[k]
        BY DEF DebouncerInv, BucketInv
      <3>3. CASE bucket[j] = 0
        BY <3>1, <3>2, <3>3
      <3>4. CASE bucket[j] # 0
        <4>1. /\ bucket[j] \in timers
              /\ bucket[j] \in Arrived
              /\ raw[bucket[j]] = j
              /\ \A i \in DOMAIN processed :
                    raw[processed[i]] = j => processed[i] < bucket[j]
              /\ Prompt => age[j] + left[bucket[j]] < MaxWait + Window
          BY <3>4 DEF DebouncerInv, BucketInv, TypeOK
        <4>2. bucket[k] # 0 => raw[bucket[k]] = k
          BY DEF DebouncerInv, BucketInv
        <4>3. bucket[j] # timer[k]
          BY <2>2, <3>2, <3>4, <4>1, <4>2
        <4>4. ASSUME NEW i \in DOMAIN processed', raw'[processed'[i]] = j
              PROVE  processed'[i] < bucket[j]
          <5>1. raw[processed'[i]] = j
            BY <1>2, <1>5, <4>4
          <5> QED
            BY <1>4, <2>2, <4>1, <4>2, <5>1
        <4> QED
          BY <1>2, <1>3, <2>2, <3>1, <3>2, <4>1, <4>3, <4>4
      <3> QED
        BY <3>3, <3>4
    <2> QED
      BY <2>1, <2>2
  <1>8. NothingForgotten'
    <2> SUFFICES ASSUME NEW e \in Arrived'
                 PROVE  \/ bucket'[raw'[e]] >= e
                        \/ \E f \in Emitted' : f >= e /\ raw'[f] = raw'[e]
      BY DEF NothingForgotten
    <2>1. CASE raw'[e] = k
      <3>1. bucket'[k] = New
        BY <1>1, <1>3 DEF TypeOK
      <3> QED
        BY <1>2, <2>1, <3>1 DEF Events
    <2>2. CASE raw'[e] # k
      <3>1. e \in Arrived /\ raw'[e] = raw[e]
        BY <1>2, <2>2
      <3>2. bucket'[raw[e]] = bucket[raw[e]]
        BY <1>1, <1>3, <2>2, <3>1 DEF TypeOK, Arrived
      <3>3. Emitted \subseteq Arrived
        BY <1>1 DEF TypeOK, Emitted
      <3> QED
        BY <1>2, <1>4, <3>1, <3>2, <3>3 DEF DebouncerInv, NothingForgotten
    <2> QED
      BY <2>1, <2>2
  <1> QED
    BY <1>4, <1>6, <1>7, <1>8 DEF DebouncerInv

\* A handler that drops the bucket of key k, wakes or cancels its timer at
\* most, and emits what was pending: BucketInv holds afterwards.
LEMMA DropKeepsBuckets ==
    ASSUME DebouncerInv, NEW k \in Keys, NEW gone,
           DropBucket(k),
           timers' = timers \ {gone},
           gone \in Arrived => raw[gone] = k,
           \A e \in timers' : left'[e] = left[e],
           \A e \in Arrived : raw'[e] = raw[e],
           \A i \in DOMAIN processed' :
              \/ \E j \in DOMAIN processed : processed'[i] = processed[j]
              \/ raw'[processed'[i]] = k
    PROVE  BucketInv'
  <1>1. TypeOK
    BY DEF DebouncerInv
  <1> SUFFICES ASSUME NEW j \in Keys
               PROVE  /\ timer'[j] = bucket'[j]
                      /\ bucket'[j] # 0 =>
                            /\ bucket'[j] \in timers'
                            /\ raw'[bucket'[j]] = j
                            /\ \A i \in DOMAIN processed' :
                                  raw'[processed'[i]] = j
                                      => processed'[i] < bucket'[j]
                            /\ Prompt => age'[j] + left'[bucket'[j]]
                                             < MaxWait + Window
    BY DEF BucketInv
  <1>2. CASE j = k
    BY <1>1, <1>2 DEF DropBucket, TypeOK
  <1>3. CASE j # k
    <2>1. /\ bucket'[j] = bucket[j]
          /\ timer'[j] = timer[j]
          /\ age'[j] = age[j]
      BY <1>1, <1>3 DEF DropBucket, TypeOK
    <2>2. timer[j] = bucket[j]
      BY DEF DebouncerInv, BucketInv
    <2>3. CASE bucket[j] # 0
      <3>1. /\ bucket[j] \in timers
            /\ bucket[j] \in Arrived
            /\ raw[bucket[j]] = j
            /\ \A i \in DOMAIN processed :
                  raw[processed[i]] = j => processed[i] < bucket[j]
            /\ Prompt => age[j] + left[bucket[j]] < MaxWait + Window
        BY <2>3 DEF DebouncerInv, BucketInv, TypeOK
      <3>2. bucket[j] # gone
        BY <1>3, <3>1
      <3>3. ASSUME NEW i \in DOMAIN processed', raw'[processed'[i]] = j
            PROVE  processed'[i] < bucket[j]
        <4>1. PICK m \in DOMAIN processed : processed'[i] = processed[m]
          BY <1>3, <3>3
        <4>2. processed[m] \in Arrived
          BY <1>1 DEF TypeOK
        <4> QED
          BY <3>1, <3>3, <4>1, <4>2
      <3> QED
        BY <2>1, <2>2, <3>1, <3>2, <3>3
    <2> QED
      BY <2>1, <2>2, <2>3
  <1> QED
    BY <1>2, <1>3

\* A deleted event.
LEMMA DeletedInv ==
    ASSUME DebouncerInv, NEW k \in Keys, Deleted(k)
    PROVE  DebouncerInv'
  <1> DEFINE p == processed \o Pending(k)
  <1>1. Arrive(k) /\ DropBucket(k) /\ TypeOK
    BY DEF Deleted, DebouncerInv
  <1>2. /\ New \in Events
        /\ New \notin Arrived
        /\ \A e \in Arrived : e < New
        /\ Arrived' = Arrived \cup {New}
        /\ Arrived \subseteq Events
        /\ \A e \in Arrived : raw'[e] = raw[e]
        /\ raw'[New] = k
        /\ raw' \in Seq(Keys)
        /\ Len(raw') <= MaxEvents
    BY <1>1, Arrival
  <1>3. /\ p \in Seq(Arrived)
        /\ \A i, j \in DOMAIN p : i < j /\ raw[p[i]] = raw[p[j]] => p[i] < p[j]
        /\ \A i \in DOMAIN processed : i \in DOMAIN p /\ p[i] = processed[i]
        /\ \A i \in DOMAIN p :
              \/ \E j \in DOMAIN processed : p[i] = processed[j]
              \/ bucket[k] # 0 /\ p[i] = bucket[k]
    BY EmitPending
  <1>4. bucket[k] # 0 => bucket[k] \in Arrived /\ raw[bucket[k]] = k
    BY DEF DebouncerInv, BucketInv, TypeOK
  <1>5. processed' = Append(p, New)
    <2>1. processed' = p \o <<New>>
      BY DEF Deleted
    <2> HIDE DEF p
    <2> QED
      BY <1>3, <2>1
  <1> HIDE DEF p
  <1>6. /\ processed' \in Seq(Arrived')
        /\ DOMAIN processed' = 1..(Len(p) + 1)
        /\ DOMAIN p = 1..Len(p)
        /\ Len(p) \in Nat
        /\ \A i \in DOMAIN p : processed'[i] = p[i] /\ p[i] \in Arrived
        /\ processed'[Len(p) + 1] = New
    <2>1. p \in Seq(Arrived') /\ New \in Arrived'
      BY <1>2, <1>3
    <2>2. \A i \in DOMAIN p : p[i] \in Arrived
      BY <1>3
    <2> QED
      BY <1>5, <2>1, <2>2, Appended
  <1>7. TypeOK'
    <2>1. /\ bucket' \in [Keys -> Events \cup {0}]
          /\ age' \in [Keys -> 0..AgeCap]
          /\ timer' \in [Keys -> Events \cup {0}]
      BY <1>1, DebouncerAssumption DEF DropBucket, TypeOK, AgeCap
    <2>2. timers' \subseteq Arrived'
      BY <1>1, <1>2 DEF Deleted, TypeOK
    <2>3. left' \in [Events -> 0..Window]
      <3>1. /\ left' = [e \in Events |-> IF e = timer[k] THEN 0 ELSE left[e]]
            /\ left \in [Events -> 0..Window]
        BY <1>1 DEF Deleted, TypeOK
      <3> QED
        BY ONLY <3>1, DebouncerAssumption
    <2> QED
      BY <1>2, <1>6, <2>1, <2>2, <2>3 DEF TypeOK, Events, AgeCap
  <1>8. BucketInv'
    <2>1. timers' = timers \ {timer[k]}
      BY DEF Deleted
    <2>2. timer[k] \in Arrived => raw[timer[k]] = k
      BY <1>4 DEF DebouncerInv, BucketInv, Arrived
    <2>3. \A e \in timers' : left'[e] = left[e]
      BY <1>1, <1>2 DEF Deleted, TypeOK
    <2>4. ASSUME NEW i \in DOMAIN processed'
          PROVE  \/ \E j \in DOMAIN processed : processed'[i] = processed[j]
                 \/ raw'[processed'[i]] = k
      <3>1. CASE i = Len(p) + 1
        BY <1>2, <1>6, <3>1
      <3>2. CASE i # Len(p) + 1
        <4>1. i \in DOMAIN p
          BY <1>6, <3>2
        <4> QED
          BY <1>2, <1>3, <1>4, <1>6, <4>1
      <3> QED
        BY <3>1, <3>2
    <2> QED
      BY <1>1, <1>2, <2>1, <2>2, <2>3, <2>4, DropKeepsBuckets
  <1>9. EmittedInOrder'
    <2> SUFFICES ASSUME NEW i \in DOMAIN processed', NEW j \in DOMAIN processed',
                        i < j, raw'[processed'[i]] = raw'[processed'[j]]
                 PROVE  processed'[i] < processed'[j]
      BY DEF EmittedInOrder
    <2>1. i \in DOMAIN p
      BY <1>6
    <2>2. CASE j = Len(p) + 1
      BY <1>2, <1>6, <2>1, <2>2
    <2>3. CASE j # Len(p) + 1
      <3>1. j \in DOMAIN p
        BY <1>6, <2>3
      <3> QED
        BY <1>2, <1>3, <1>6, <2>1, <3>1
    <2> QED
      BY <2>2, <2>3
  <1>10. NothingForgotten'
    <2> SUFFICES ASSUME NEW e \in Arrived'
                 PROVE  \/ bucket'[raw'[e]] >= e
                        \/ \E f \in Emitted' : f >= e /\ raw'[f] = raw'[e]
      BY DEF NothingForgotten
    <2>1. New \in Emitted'
      BY <1>6 DEF Emitted
    <2>2. CASE raw'[e] = k
      BY <1>2, <2>1, <2>2 DEF Events
    <2>3. CASE raw'[e] # k
      <3>1. e \in Arrived /\ raw'[e] = raw[e]
        BY <1>2, <2>3
      <3>2. bucket'[raw[e]] = bucket[raw[e]]
        BY <1>1, <2>3, <3>1 DEF DropBucket, TypeOK, Arrived
      <3>3. Emitted \subseteq Arrived
        BY <1>1 DEF TypeOK, Emitted
      <3>4. Emitted \subseteq Emitted'
        BY <1>3, <1>6 DEF Emitted
      <3> QED
        BY <1>2, <3>1, <3>2, <3>3, <3>4 DEF DebouncerInv, NothingForgotten
    <2> QED
      BY <2>2, <2>3
  <1> QED
    BY <1>7, <1>8, <1>9, <1>10 DEF DebouncerInv

\* A timer flushes the bucket its key has by now.
LEMMA TimerFiresInv ==
    ASSUME DebouncerInv, NEW e \in Events, TimerFires(e)
    PROVE  DebouncerInv'
  <1> DEFINE k == raw[e]
             p == processed \o Pending(k)
  <1>1. /\ TypeOK
        /\ e \in timers
        /\ timers' = timers \ {e}
        /\ DropBucket(k)
        /\ processed' = p
        /\ raw' = raw /\ left' = left
    BY DEF TimerFires, DebouncerInv
  <1>2. k \in Keys /\ e \in Arrived
    BY <1>1 DEF TypeOK, Arrived
  <1> HIDE DEF k
  <1>3. /\ p \in Seq(Arrived)
        /\ \A i, j \in DOMAIN p : i < j /\ raw[p[i]] = raw[p[j]] => p[i] < p[j]
        /\ \A i \in DOMAIN processed : i \in DOMAIN p /\ p[i] = processed[i]
        /\ bucket[k] # 0 => \E i \in DOMAIN p : p[i] = bucket[k]
        /\ \A i \in DOMAIN p :
              \/ \E j \in DOMAIN processed : p[i] = processed[j]
              \/ bucket[k] # 0 /\ p[i] = bucket[k]
    BY <1>2, EmitPending
  <1>4. bucket[k] # 0 => bucket[k] \in Arrived /\ raw[bucket[k]] = k
    BY <1>2 DEF DebouncerInv, BucketInv, TypeOK
  <1> HIDE DEF p
  <1>5. Arrived' = Arrived
    BY <1>1 DEF Arrived
  <1>6. TypeOK'
    <2>1. /\ bucket' \in [Keys -> Events \cup {0}]
          /\ age' \in [Keys -> 0..AgeCap]
          /\ timer' \in [Keys -> Events \cup {0}]
      BY <1>1, <1>2, DebouncerAssumption DEF DropBucket, TypeOK, AgeCap
    <2>2. /\ timers' \subseteq Arrived'
          /\ processed' \in Seq(Arrived')
      BY <1>1, <1>3, <1>5 DEF TypeOK
    <2> QED
      BY <1>1, <2>1, <2>2 DEF TypeOK, Events, AgeCap
  <1>7. BucketInv'
    <2>1. \A i \in DOMAIN processed' :
             \/ \E j \in DOMAIN processed : processed'[i] = processed[j]
             \/ raw'[processed'[i]] = k
      BY <1>1, <1>3, <1>4
    <2>2. raw[e] = k
      BY DEF k
    <2> QED
      BY <1>1, <1>2, <2>1, <2>2, DropKeepsBuckets
  <1>8. EmittedInOrder'
    BY <1>1, <1>3 DEF EmittedInOrder
  <1>9. NothingForgotten'
    <2> SUFFICES ASSUME NEW f \in Arrived
                 PROVE  \/ bucket'[raw[f]] >= f
                        \/ \E g \in Emitted' : g >= f /\ raw[g] = raw[f]
      BY <1>1, <1>5 DEF NothingForgotten
    <2>1. Emitted \subseteq Emitted'
      BY <1>1, <1>3 DEF Emitted
    <2>2. \/ bucket[raw[f]] >= f
          \/ \E g \in Emitted : g >= f /\ raw[g] = raw[f]
      BY DEF DebouncerInv, NothingForgotten
    <2>3. CASE raw[f] = k /\ bucket[k] >= f
      <3>1. bucket[k] # 0
        BY <2>3 DEF Arrived
      <3>2. bucket[k] \in Emitted'
        BY <1>1, <1>3, <3>1 DEF Emitted
      <3> QED
        BY <1>4, <2>3, <3>1, <3>2
    <2>4. CASE raw[f] # k
      <3>1. bucket'[raw[f]] = bucket[raw[f]]
        BY <1>1, <2>4 DEF DropBucket, TypeOK, Arrived
      <3> QED
        BY <2>1, <2>2, <3>1
    <2> QED
      BY <2>1, <2>2, <2>3, <2>4
  <1> QED
    BY <1>6, <1>7, <1>8, <1>9 DEF DebouncerInv

\* Time passes: only age and left move, and with Prompt the timer of a
\* bucket has time left for as much as its age grows.
LEMMA TickInv ==
    ASSUME DebouncerInv, Tick
    PROVE  DebouncerInv'
  <1>1. /\ raw' = raw /\ bucket' = bucket /\ timer' = timer
        /\ timers' = timers /\ processed' = processed
    BY DEF Tick
  <1>2. TypeOK
    BY DEF DebouncerInv
  <1>3. TypeOK'
    <2>1. age' \in [Keys -> 0..AgeCap]
      BY <1>2, DebouncerAssumption DEF Tick, TypeOK, Capped, AgeCap
    <2>2. left' \in [Events -> 0..Window]
      BY <1>2, DebouncerAssumption DEF Tick, TypeOK
    <2> QED
      BY <1>1, <1>2, <2>1, <2>2 DEF TypeOK, Events, AgeCap, Arrived
  <1>4. BucketInv'
    <2> SUFFICES ASSUME NEW k \in Keys, bucket[k] # 0, Prompt
                 PROVE  age'[k] + left'[bucket[k]] < MaxWait + Window
      BY <1>1 DEF DebouncerInv, BucketInv
    <2>1. /\ bucket[k] \in timers
          /\ age[k] + left[bucket[k]] < MaxWait + Window
      BY DEF DebouncerInv, BucketInv
    <2>2. bucket[k] \in Events /\ left[bucket[k]] > 0
      BY <1>2, <2>1 DEF Tick, TypeOK
    <2>3. left'[bucket[k]] = left[bucket[k]] - 1
      BY <2>2 DEF Tick
    <2>4. age'[k] <= age[k] + 1
      BY <1>2, DebouncerAssumption DEF Tick, TypeOK, Capped, AgeCap
    <2>5. /\ age[k] \in Int /\ age'[k] \in Int
          /\ left[bucket[k]] \in Int
      BY <1>2, <1>3, <2>2, DebouncerAssumption DEF TypeOK, AgeCap
    <2> QED
      BY <2>1, <2>3, <2>4, <2>5, DebouncerAssumption
  <1>5. EmittedInOrder' /\ NothingForgotten'
    BY <1>1 DEF DebouncerInv, EmittedInOrder, NothingForgotten, Arrived, Emitted
  <1> QED
    BY <1>3, <1>4, <1>5 DEF DebouncerInv

\* DebouncerInv is inductive.
LEMMA NextInv ==
    DebouncerInv /\ [Next]_vars => DebouncerInv'
  <1> SUFFICES ASSUME DebouncerInv, [Next]_vars PROVE DebouncerInv'
    OBVIOUS
  <1>1. CASE \E k \in Keys : Modified(k) \/ Deleted(k)
    BY <1>1, ModifiedInv, DeletedInv
  <1>2. CASE \E e \in Events : TimerFires(e)
    BY <1>2, TimerFiresInv
  <1>3. CASE Tick
    BY <1>3, TickInv
  <1>4. CASE UNCHANGED vars
    BY <1>4 DEF vars, DebouncerInv, TypeOK, BucketInv, EmittedInOrder,
                NothingForgotten, Arrived, Emitted, Events, AgeCap
  <1> QED
    BY <1>1, <1>2, <1>3, <1>4 DEF Next

\* Whatever arrives and however late timers run, the debouncer keeps its
\* buckets, their timers and what it has emitted consistent.
THEOREM Safety == Spec => []DebouncerInv
  BY InitInv, NextInv, PTL DEF Spec

\* The pipeline sees the events of each path in order and none twice
\* (Debouncer._flush_bucket, _handle_immediate_event).
THEOREM InOrder == Spec => []EmittedInOrder
  <1>1. DebouncerInv => EmittedInOrder
    BY DEF DebouncerInv
  <1> QED
    BY <1>1, Safety, PTL

\* No forced flush, early flush or deletion loses the newest event of a path.
THEOREM NoneForgotten == Spec => []NothingForgotten
  <1>1. DebouncerInv => NothingForgotten
    BY DEF DebouncerInv
  <1> QED
    BY <1>1, Safety, PTL

\* No bucket is left without a timer that will flush it.
THEOREM Timed == Spec => []BucketHasTimer
  <1>1. DebouncerInv => BucketHasTimer
    BY DEF DebouncerInv, BucketInv, BucketHasTimer
  <1> QED
    BY <1>1, Safety, PTL

\* A bucket is flushed before it is MaxWait + Window ticks old, if the event
\* loop runs expired timers promptly.
THEOREM Delay == Spec => []BoundedDelay
  <1>1. DebouncerInv => BoundedDelay
    <2> SUFFICES ASSUME DebouncerInv, Prompt, NEW k \in Keys, bucket[k] # 0
                 PROVE  age[k] < MaxWait + Window
      BY DEF BoundedDelay
    <2>1. /\ bucket[k] \in timers
          /\ age[k] + left[bucket[k]] < MaxWait + Window
      BY DEF DebouncerInv, BucketInv
    <2>2. left[bucket[k]] \in 0..Window /\ age[k] \in 0..AgeCap
      BY <2>1 DEF DebouncerInv, TypeOK
    <2> QED
      BY <2>1, <2>2, DebouncerAssumption DEF AgeCap
  <1> QED
    BY <1>1, Safety, PTL
-----------------------------------------------------------------------------
(***************************************************************************)
(* Stray timers: those of a path beside its bucket's own.  A stray was set *)
(* Window ticks or less before the bucket that is there now is Window old, *)
(* so that it has fired when that bucket, MaxWait old, leaves another one. *)
(***************************************************************************)
Stray(k) == {e \in timers : raw[e] = k /\ e # timer[k]}

StrayInv ==
    Prompt => \A k \in Keys :
        /\ \A e, f \in Stray(k) : e = f
        /\ \A e \in Stray(k) : age[k] + left[e] <= Window

\* Timers have a place in left, and a bucket's timer is of its own path.
LEMMA TimerFacts ==
    ASSUME DebouncerInv
    PROVE  /\ \A e \in timers : e \in Events /\ e \in Arrived /\ left[e] \in 0..Window
           /\ \A k \in Keys : /\ timer[k] = bucket[k] /\ age[k] \in 0..AgeCap
                              /\ timer[k] # 0 => timer[k] \in timers /\ raw[timer[k]] = k
           /\ 0 \notin timers /\ AgeCap \in Nat /\ Window \in Nat
  <1>1. TypeOK /\ BucketInv
    BY DEF DebouncerInv
  <1>2. timers \subseteq Events /\ timers \subseteq Arrived
    <2>1. Len(raw) \in Nat /\ Len(raw) <= MaxEvents /\ timers \subseteq Arrived
      BY <1>1 DEF TypeOK
    <2> QED
      BY <2>1, DebouncerAssumption DEF Arrived, Events
  <1>3. \A e \in timers : left[e] \in 0..Window
    BY <1>1, <1>2 DEF TypeOK
  <1>4. 0 \notin Events
    BY DEF Events
  <1>5. AgeCap \in Nat /\ Window \in Nat
    BY DebouncerAssumption DEF AgeCap
  <1>6. ASSUME NEW k \in Keys
        PROVE  /\ timer[k] = bucket[k] /\ age[k] \in 0..AgeCap
               /\ timer[k] # 0 => timer[k] \in timers /\ raw[timer[k]] = k
    <2>1. age[k] \in 0..AgeCap
      BY <1>1 DEF TypeOK
    <2>2. /\ timer[k] = bucket[k]
          /\ bucket[k] # 0 => bucket[k] \in timers /\ raw[bucket[k]] = k
      BY <1>1 DEF BucketInv
    <2> QED
      BY <2>1, <2>2
  <1>7. 0 \notin timers
    BY <1>2, <1>4
  <1> QED
    BY <1>2, <1>3, <1>5, <1>6, <1>7

\* A step that handles path k leaves the strays of the others as they were.
LEMMA OtherStrays ==
    ASSUME StrayInv, NEW k \in Keys, NEW j \in Keys, j # k, Prompt,
           Stray(j)' \subseteq Stray(j), age'[j] = age[j],
           \A e \in Stray(j)' : left'[e] = left[e]
    PROVE  /\ \A e, f \in Stray(j)' : e = f
           /\ \A e \in Stray(j)' : age'[j] + left'[e] <= Window
  BY DEF StrayInv

LEMMA ModifiedStrays ==
    ASSUME DebouncerInv, StrayInv, NEW k \in Keys, Modified(k)
    PROVE  StrayInv'
  <1>1. /\ New \in Events /\ New \notin Arrived
        /\ \A e \in Arrived : raw'[e] = raw[e]
        /\ raw'[New] = k
    BY Arrival DEF DebouncerInv, Modified
  <1>2. /\ \A e \in timers : e \in Arrived /\ e \in Events /\ left[e] \in 0..Window
        /\ 0 \notin timers /\ Window \in Nat
        /\ timer[k] = bucket[k]
        /\ timer[k] # 0 => timer[k] \in timers /\ raw[timer[k]] = k
        /\ age[k] \in Nat
    BY TimerFacts
  <1>3. /\ timer' = [timer EXCEPT ![k] = New] /\ timer'[k] = New
        /\ \A j \in Keys \ {k} : timer'[j] = timer[j] /\ age'[j] = age[j]
        /\ timers' \subseteq timers \cup {New}
        /\ \A e \in timers \cap timers' : left'[e] = left[e]
    <2>1. CASE StartBucket(k)
      <3>1. left \in [Events -> 0..Window] /\ age \in [Keys -> 0..AgeCap]
            /\ timer \in [Keys -> Events \cup {0}]
        BY DEF DebouncerInv, TypeOK
      <3> QED
        BY <1>1, <1>2, <2>1, <3>1 DEF StartBucket
    <2>2. CASE ExtendBucket(k)
      <3>1. left \in [Events -> 0..Window] /\ age' = age
            /\ timer \in [Keys -> Events \cup {0}]
        BY <2>2 DEF DebouncerInv, TypeOK, ExtendBucket
      <3>2. /\ timer' = [timer EXCEPT ![k] = New]
            /\ timers' = (timers \ {timer[k]}) \cup {New}
            /\ left' = [left EXCEPT ![timer[k]] = 0, ![New] = Window]
        BY <2>2 DEF ExtendBucket
      <3>3. ASSUME NEW e \in timers \cap timers' PROVE left'[e] = left[e]
        <4>1. e # New /\ e # timer[k] /\ e \in Events
          BY <1>1, <1>2, <3>2
        <4> QED
          BY <3>1, <3>2, <4>1
      <3> QED
        BY <3>1, <3>2, <3>3
    <2> QED
      BY <2>1, <2>2 DEF Modified, NewBucket, ReplaceBucket
  <1> SUFFICES ASSUME Prompt, NEW j \in Keys
               PROVE  /\ \A e, f \in Stray(j)' : e = f
                      /\ \A e \in Stray(j)' : age'[j] + left'[e] <= Window
    BY DEF StrayInv
  <1>4. CASE j # k
    <2>1. Stray(j)' \subseteq Stray(j) /\ \A e \in Stray(j)' : e \in timers /\ e \in timers'
      BY <1>1, <1>2, <1>3, <1>4 DEF Stray
    <2> QED
      BY <1>3, <1>4, <2>1, OtherStrays
  <1>5. CASE j = k
    <2>1. ASSUME NEW e \in Stray(k)'
          PROVE  e \in timers /\ e \in timers' /\ raw[e] = k
      BY <1>1, <1>2, <1>3, <2>1 DEF Stray
    <2>2. CASE NewBucket(k)
      <3>1. timer[k] = 0 /\ age'[k] = 0
        BY <1>2, <2>2 DEF NewBucket, StartBucket, DebouncerInv, TypeOK
      <3>2. Stray(k)' \subseteq Stray(k)
        BY <1>2, <2>1, <3>1 DEF Stray
      <3>3. \A e \in Stray(k)' : left'[e] \in 0..Window
        BY <1>2, <1>3, <2>1
      <3> QED
        BY <1>2, <1>5, <3>1, <3>2, <3>3 DEF StrayInv
    <2>3. CASE ExtendBucket(k)
      <3>1. age'[k] = age[k] /\ timer[k] \notin timers'
        BY <1>1, <1>2, <2>3 DEF ExtendBucket
      <3>2. Stray(k)' \subseteq Stray(k)
        BY <2>1, <3>1 DEF Stray
      <3> QED
        BY <1>3, <1>5, <2>1, <3>1, <3>2 DEF StrayInv
    <2>4. CASE ReplaceBucket(k)
      <3>1. age[k] >= MaxWait /\ age'[k] = 0
        BY <2>4 DEF ReplaceBucket, StartBucket, DebouncerInv, TypeOK
      <3>2. ASSUME NEW e \in Stray(k) PROVE FALSE
        <4>1. age[k] + left[e] <= Window
          BY DEF StrayInv
        <4>2. left[e] \in 0..Window
          BY <1>2 DEF Stray
        <4> QED
          BY <1>2, <3>1, <4>1, <4>2, DebouncerAssumption
      <3>3. \A e \in Stray(k)' : e = timer[k] /\ left'[e] \in 0..Window
        BY <1>2, <1>3, <2>1, <3>2 DEF Stray
      <3> QED
        BY <1>2, <1>5, <3>1, <3>3
    <2> QED
      BY <2>2, <2>3, <2>4 DEF Modified
  <1> QED
    BY <1>4, <1>5

\* A step that drops the bucket of k, with its timer or with one other timer gone.
LEMMA DropStrays ==
    ASSUME DebouncerInv, StrayInv, NEW k \in Keys, DropBucket(k),
           NEW gone, timers' = timers \ {gone}, gone \in timers => raw[gone] = k,
           timer[k] = gone \/ gone \in Stray(k) \/ timer[k] = 0,
           \A e \in timers' : left'[e] = left[e],
           \A e \in Arrived : raw'[e] = raw[e]
    PROVE  StrayInv'
  <1>1. /\ \A e \in timers : e \in Arrived /\ e \in Events /\ left[e] \in 0..Window
        /\ 0 \notin timers /\ Window \in Nat
    BY TimerFacts
  <1>2. /\ timer'[k] = 0 /\ age'[k] = 0
        /\ \A j \in Keys \ {k} : timer'[j] = timer[j] /\ age'[j] = age[j]
    BY DEF DropBucket, DebouncerInv, TypeOK
  <1> SUFFICES ASSUME Prompt, NEW j \in Keys
               PROVE  /\ \A e, f \in Stray(j)' : e = f
                      /\ \A e \in Stray(j)' : age'[j] + left'[e] <= Window
    BY DEF StrayInv
  <1>3. CASE j # k
    <2>1. Stray(j)' \subseteq Stray(j) /\ \A e \in Stray(j)' : e \in timers'
      BY <1>1, <1>2, <1>3 DEF Stray
    <2> QED
      BY <1>2, <1>3, <2>1, OtherStrays
  <1>4. CASE j = k
    <2>1. ASSUME NEW e \in Stray(k)'
          PROVE  /\ e \in timers' /\ e \in timers /\ e # gone /\ raw[e] = k
                 /\ left'[e] \in 0..Window
      BY <1>1, <2>1 DEF Stray
    <2>2. ASSUME NEW e \in Stray(k)', NEW f \in Stray(k)' PROVE e = f
      <3>1. CASE timer[k] = gone \/ timer[k] = 0
        <4>1. e \in Stray(k) /\ f \in Stray(k)
          BY <1>1, <2>1, <3>1 DEF Stray
        <4> QED
          BY <4>1 DEF StrayInv
      <3>2. CASE gone \in Stray(k)
        <4>1. \A x \in Stray(k) : x = gone
          BY <3>2 DEF StrayInv
        <4>2. e = timer[k] /\ f = timer[k]
          BY <2>1, <4>1 DEF Stray
        <4> QED
          BY <4>2
      <3> QED
        BY <3>1, <3>2
    <2>3. \A e \in Stray(k)' : age'[k] + left'[e] <= Window
      BY <1>1, <1>2, <2>1
    <2> QED
      BY <1>4, <2>2, <2>3
  <1> QED
    BY <1>3, <1>4

LEMMA TickStrays ==
    ASSUME DebouncerInv, StrayInv, Tick
    PROVE  StrayInv'
  <1> SUFFICES ASSUME Prompt, NEW k \in Keys
               PROVE  /\ \A e, f \in Stray(k)' : e = f
                      /\ \A e \in Stray(k)' : age'[k] + left'[e] <= Window
    BY DEF StrayInv
  <1>1. Stray(k)' = Stray(k)
    BY DEF Stray, Tick
  <1>2. ASSUME NEW e \in Stray(k) PROVE age'[k] + left'[e] <= Window
    <2>1. e \in timers /\ e \in Events /\ left[e] \in 0..Window
      BY TimerFacts DEF Stray
    <2>2. left[e] > 0 /\ left'[e] = left[e] - 1
      BY <2>1 DEF Tick
    <2>3. age[k] \in Nat /\ AgeCap \in Nat /\ Window \in Nat
      BY TimerFacts
    <2>4. age'[k] \in Nat /\ age'[k] <= age[k] + 1
      <3>1. age'[k] = IF bucket[k] = 0 THEN 0
                      ELSE IF age[k] < AgeCap THEN age[k] + 1 ELSE AgeCap
        BY DEF Tick, Capped
      <3>2. age[k] <= AgeCap
        BY TimerFacts
      <3> QED
        BY <2>3, <3>1, <3>2
    <2>5. age[k] + left[e] <= Window
      BY DEF StrayInv
    <2> QED
      BY <2>1, <2>2, <2>3, <2>4, <2>5
  <1> QED
    BY <1>1, <1>2 DEF StrayInv

LEMMA NextStrays ==
    DebouncerInv /\ StrayInv /\ [Next]_vars => StrayInv'
  <1> SUFFICES ASSUME DebouncerInv, StrayInv, [Next]_vars PROVE StrayInv'
    OBVIOUS
  <1>1. ASSUME NEW k \in Keys, Deleted(k) PROVE StrayInv'
    <2>1. /\ DropBucket(k) /\ timers' = timers \ {timer[k]} /\ Arrive(k)
          /\ left' = [e \in Events |-> IF e = timer[k] THEN 0 ELSE left[e]]
      BY <1>1 DEF Deleted
    <2>2. \A e \in timers' : left'[e] = left[e]
      BY <2>1, TimerFacts
    <2>3. timer[k] \in timers => raw[timer[k]] = k
      BY TimerFacts
    <2>4. \A e \in Arrived : raw'[e] = raw[e]
      BY <2>1, Arrival DEF DebouncerInv
    <2> QED
      BY <2>1, <2>2, <2>3, <2>4, DropStrays
  <1>2. ASSUME NEW e \in Events, TimerFires(e) PROVE StrayInv'
    <2>1. /\ e \in timers /\ timers' = timers \ {e} /\ DropBucket(raw[e])
          /\ raw' = raw /\ left' = left
      BY <1>2 DEF TimerFires
    <2>2. raw[e] \in Keys
      BY <2>1, TimerFacts DEF DebouncerInv, TypeOK, Arrived
    <2>3. timer[raw[e]] = e \/ e \in Stray(raw[e])
      BY <2>1 DEF Stray
    <2> QED
      BY <2>1, <2>2, <2>3, DropStrays
  <1>3. CASE UNCHANGED vars
    BY <1>3 DEF vars, StrayInv, Stray
  <1> QED
    BY <1>1, <1>2, <1>3, ModifiedStrays, TickStrays DEF Next

\* The timers that forced and early flushes leave sleeping do not pile up
\* (Debouncer._add_to_bucket starts a bucket beside a timer it does not cancel).
THEOREM StraysAreFew == Spec => []FewStrayTimers
  <1>1. Init => StrayInv
    BY DEF Init, StrayInv, Stray
  <1>2. Spec => []StrayInv
    <2>1. DebouncerInv /\ StrayInv /\ [Next]_vars => DebouncerInv' /\ StrayInv'
      BY NextInv, NextStrays
    <2> QED
      BY <1>1, <2>1, InitInv, PTL DEF Spec
  <1>3. StrayInv => FewStrayTimers
    <2> SUFFICES ASSUME StrayInv, Prompt, NEW k \in Keys
                 PROVE  Cardinality({e \in timers : raw[e] = k /\ e # timer[k]}) <= 1
      BY DEF FewStrayTimers
    <2>1. \A e, f \in Stray(k) : e = f
      BY DEF StrayInv
    <2>2. CASE Stray(k) = {}
      <3>1. Cardinality({}) = 0
        BY FS_EmptySet
      <3> QED
        BY <2>2, <3>1 DEF Stray
    <2>3. CASE Stray(k) # {}
      <3>1. PICK e \in Stray(k) : Stray(k) = {e}
        BY <2>1, <2>3
      <3>2. Cardinality({e}) = 1
        BY FS_Singleton
      <3> QED
        BY <3>1, <3>2 DEF Stray
    <2> QED
      BY <2>2, <2>3
  <1> QED
    BY <1>2, <1>3, PTL
=============================================================================
