------------------------- MODULE BackendEventsProofs -------------------------
(***************************************************************************)
(* Proofs about BackendEvents: what is acknowledged stays, transactions do *)
(* not wait in a ring, answers from the cache are no staler than promised, *)
(* and paging misses and repeats nothing.                                  *)
(*                                                                         *)
(* Statements over data (a filter of a sequence, the first row of a finite *)
(* set, the bound of a finite set of numbers) are proved by contradiction  *)
(* from their least counterexample.                                        *)
(***************************************************************************)
EXTENDS BackendEvents, FiniteSetTheorems, TLAPS

LEMMA Least ==
    ASSUME NEW S \in SUBSET Nat, S # {}
    PROVE  \E m \in S : \A n \in S : m <= n
  <1> DEFINE R == OpToRel(<, Nat)
  <1>1. IsWellFoundedOn(R, Nat)
    BY NatLessThanWellFounded
  <1>2. \A x, y \in S : y < x => <<y, x>> \in R
    BY DEF OpToRel
  <1> HIDE DEF R
  <1>3. PICK x \in S : \A y \in S : ~(<<y, x>> \in R)
    BY <1>1, WFMin
  <1>4. \A y \in S : ~(y < x)
    BY <1>2, <1>3
  <1>5. \A y \in S : x <= y
    BY <1>4
  <1> QED
    BY <1>5

\* A bounded set of numbers has a greatest one, and a finite set is bounded.
LEMMA Greatest ==
    ASSUME NEW S \in SUBSET Nat, S # {}, NEW n \in Nat, \A x \in S : x <= n
    PROVE  \E m \in S : \A x \in S : x <= m
  <1> DEFINE Bounds == {u \in Nat : \A x \in S : x <= u}
  <1>1. PICK m \in Bounds : \A u \in Bounds : m <= u
    <2>1. Bounds \in SUBSET Nat /\ n \in Bounds
      OBVIOUS
    <2> HIDE DEF Bounds
    <2> QED
      BY <2>1, Least
  <1>2. m \in S
    <2>1. SUFFICES ASSUME m \notin S PROVE FALSE
      OBVIOUS
    <2>2. m \in Nat /\ \A x \in S : x \in Nat /\ x <= m /\ x # m
      BY <1>1, <2>1
    <2>3. m - 1 \in Nat
      <3>1. PICK x \in S : TRUE
        OBVIOUS
      <3> QED
        BY <2>2, <3>1
    <2>4. m - 1 \in Bounds
      BY <2>2, <2>3
    <2> QED
      BY <1>1, <2>2, <2>4
  <1> QED
    BY <1>1, <1>2

LEMMA FiniteIsBounded ==
    ASSUME NEW S \in SUBSET Nat, IsFiniteSet(S)
    PROVE  \E n \in Nat : \A x \in S : x <= n
  <1>1. PICK m \in Nat : ExistsSurjection(1..m, S)
    BY FS_NatSurjection
  <1>2. PICK f \in [1..m -> S] : \A x \in S : \E i \in 1..m : f[i] = x
    BY <1>1 DEF ExistsSurjection, Surjection
  <1> DEFINE Good(k) == \E n \in Nat : \A i \in 1..k : f[i] <= n
             Bad == {k \in 0..m : ~Good(k)}
  <1>3. Good(0)
    OBVIOUS
  <1>4. ASSUME NEW k \in 1..m, Good(k - 1) PROVE Good(k)
    <2>1. PICK n \in Nat : \A i \in 1..(k - 1) : f[i] <= n
      BY <1>4
    <2>2. f[k] \in Nat
      BY <1>2
    <2>3. ASSUME NEW i \in 1..k PROVE f[i] <= n + f[k]
      <3>0. i \in 1..m
        OBVIOUS
      <3>1. f[i] \in S
        BY <1>2, <3>0
      <3>2. i \in 1..(k - 1) \/ i = k
        OBVIOUS
      <3>3. f[i] \in Nat
        BY <3>1
      <3>4. CASE i = k
        BY <2>2, <3>4
      <3>5. CASE i \in 1..(k - 1)
        BY <2>1, <2>2, <3>3, <3>5
      <3> QED
        BY <3>2, <3>4, <3>5
    <2>4. n + f[k] \in Nat
      BY <2>2
    <2> QED
      BY <2>3, <2>4
  <1> HIDE DEF Good
  <1>5. ASSUME Bad # {} PROVE FALSE
    <2>0. Bad \in SUBSET Nat
      OBVIOUS
    <2>1. PICK k \in Bad : \A j \in Bad : k <= j
      BY <1>5, <2>0, Least
    <2>2. k # 0 /\ k \in 1..m /\ k - 1 \in 0..m /\ k - 1 \notin Bad
      BY <1>3, <2>1
    <2> QED
      BY <1>4, <2>1, <2>2
  <1>6. Good(m)
    BY <1>5
  <1> QED
    BY <1>2, <1>6 DEF Good

\* Keep is what its recursion says.
LEMMA KeepRecursion ==
    ASSUME NEW T, NEW s \in Seq(T), NEW S
    PROVE  \E f : /\ Keep(s, S) = f[Len(s)]
                  /\ f[0] = <<>>
                  /\ \A i \in 1..Len(s) :
                        f[i] = IF s[i] \in S THEN Append(f[i - 1], s[i]) ELSE f[i - 1]
  <1> DEFINE Step(f, m) == [i \in 0..m |->
                IF i = 0 THEN <<>>
                ELSE IF s[i] \in S THEN Append(f[i - 1], s[i]) ELSE f[i - 1]]
             Good(m) == \E f : f = Step(f, m)
             Bad == {m \in Nat : ~Good(m)}
  <1>1. Good(0)
    <2>1. [i \in 0..0 |-> <<>>] = Step([i \in 0..0 |-> <<>>], 0)
      OBVIOUS
    <2> QED
      BY <2>1
  <1>2. ASSUME NEW m \in Nat, Good(m) PROVE Good(m + 1)
    <2>1. PICK f : f = Step(f, m)
      BY <1>2
    <2>2. /\ f[0] = <<>>
          /\ \A i \in 1..m :
                f[i] = IF s[i] \in S THEN Append(f[i - 1], s[i]) ELSE f[i - 1]
      <3>1. \A i \in 0..m : f[i] = Step(f, m)[i]
        BY <2>1
      <3> QED
        BY <3>1
    <2>3. PICK g : g = [i \in 0..(m + 1) |->
                          IF i <= m THEN f[i]
                          ELSE IF s[i] \in S THEN Append(f[m], s[i]) ELSE f[m]]
      OBVIOUS
    <2>4. ASSUME NEW i \in 0..(m + 1)
          PROVE  g[i] = Step(g, m + 1)[i]
      <3>1. CASE i = 0
        BY <2>2, <2>3, <3>1
      <3>2. CASE i \in 1..m
        <4>1. g[i] = f[i] /\ g[i - 1] = f[i - 1]
          BY <2>3, <3>2
        <4> QED
          BY <2>2, <3>2, <4>1
      <3>3. CASE i = m + 1
        <4>1. g[i - 1] = f[m] /\ i # 0
          BY <2>3, <3>3
        <4>2. g[i] = IF s[i] \in S THEN Append(f[m], s[i]) ELSE f[m]
          BY <2>3, <3>3
        <4> QED
          BY <4>1, <4>2
      <3> QED
        BY <3>1, <3>2, <3>3
    <2>5. g = Step(g, m + 1)
      <3>1. g = [i \in 0..(m + 1) |-> g[i]]
        BY <2>3
      <3>2. Step(g, m + 1) = [i \in 0..(m + 1) |-> Step(g, m + 1)[i]]
        OBVIOUS
      <3> HIDE DEF Step
      <3> QED
        BY <2>4, <3>1, <3>2
    <2> QED
      BY <2>5
  <1> HIDE DEF Good
  <1>3. ASSUME Bad # {} PROVE FALSE
    <2>1. PICK m \in Bad : \A k \in Bad : m <= k
      BY <1>3, Least
    <2>2. m # 0 /\ m \in Nat /\ m - 1 \in Nat /\ m - 1 \notin Bad
      BY <1>1, <2>1
    <2>3. Good(m - 1) /\ (m - 1) + 1 = m
      BY <2>2
    <2> QED
      BY <1>2, <2>1, <2>2, <2>3
  <1>4. Len(s) \in Nat /\ Good(Len(s))
    BY <1>3
  <1> DEFINE kept == CHOOSE f : f = Step(f, Len(s))
  <1>5. kept = Step(kept, Len(s))
    BY <1>4 DEF Good
  <1>6. Keep(s, S) = kept[Len(s)]
    BY DEF Keep
  <1> HIDE DEF kept
  <1>7. \A i \in 0..Len(s) : kept[i] = IF i = 0 THEN <<>>
                ELSE IF s[i] \in S THEN Append(kept[i - 1], s[i]) ELSE kept[i - 1]
    BY <1>5
  <1>8. /\ kept[0] = <<>>
        /\ \A i \in 1..Len(s) :
              kept[i] = IF s[i] \in S THEN Append(kept[i - 1], s[i]) ELSE kept[i - 1]
    BY <1>4, <1>7
  <1> QED
    BY <1>6, <1>8


\* Keep takes a part, shorter when something is left out; where keys were distinct
\* they still are.
LEMMA KeepPart ==
    ASSUME NEW s \in Seq(Entry), NEW S,
           \A i, j \in 1..Len(s) : s[i].query = s[j].query => i = j
    PROVE  LET K == Keep(s, S)
           IN  /\ K \in Seq(Entry)
               /\ Len(K) <= Len(s)
               /\ (\E k \in 1..Len(s) : s[k] \notin S) => Len(K) < Len(s)
               /\ \A j \in 1..Len(K) : K[j] \in S /\ \E k \in 1..Len(s) : K[j] = s[k]
               /\ \A i, j \in 1..Len(K) : K[i].query = K[j].query => i = j
  <1>1. PICK f : /\ Keep(s, S) = f[Len(s)]
                 /\ f[0] = <<>>
                 /\ \A i \in 1..Len(s) :
                       f[i] = IF s[i] \in S THEN Append(f[i - 1], s[i]) ELSE f[i - 1]
    BY KeepRecursion
  <1> DEFINE Part(K, n) ==
                /\ K \in Seq(Entry)
                /\ Len(K) <= n
                /\ (\E k \in 1..n : s[k] \notin S) => Len(K) < n
                /\ \A j \in 1..Len(K) : K[j] \in S /\ \E k \in 1..n : K[j] = s[k]
                /\ \A i, j \in 1..Len(K) : K[i].query = K[j].query => i = j
             Bad == {n \in 0..Len(s) : ~Part(f[n], n)}
  <1>2. Part(f[0], 0)
    BY <1>1
  <1>3. ASSUME NEW n \in 1..Len(s), Part(f[n - 1], n - 1) PROVE Part(f[n], n)
    <2> DEFINE K == f[n - 1]
    <2>1. f[n] = IF s[n] \in S THEN Append(K, s[n]) ELSE K
      BY <1>1
    <2>2. /\ K \in Seq(Entry) /\ Len(K) <= n - 1
          /\ (\E k \in 1..(n - 1) : s[k] \notin S) => Len(K) < n - 1
          /\ \A j \in 1..Len(K) : K[j] \in S /\ \E k \in 1..(n - 1) : K[j] = s[k]
          /\ \A i, j \in 1..Len(K) : K[i].query = K[j].query => i = j
      BY <1>3
    <2>3. s[n] \in Entry /\ \A k \in 1..n : k \in 1..(n - 1) \/ k = n
      OBVIOUS
    <2> HIDE DEF K
    <2>6. Len(K) \in Nat
      BY <2>2
    <2>4. CASE s[n] \notin S
      <3>1. f[n] = K /\ Len(K) < n
        BY <2>1, <2>2, <2>4, <2>6
      <3>2. \A j \in 1..Len(K) : K[j] \in S /\ \E k \in 1..n : K[j] = s[k]
        BY <2>2
      <3> QED
        BY <2>2, <3>1, <3>2
    <2>5. CASE s[n] \in S
      <3> DEFINE L == f[n]
      <3>1. /\ L \in Seq(Entry) /\ Len(L) = Len(K) + 1 /\ L[Len(K) + 1] = s[n]
            /\ \A j \in 1..Len(K) : L[j] = K[j]
            /\ \A j \in 1..Len(L) : j \in 1..Len(K) \/ j = Len(K) + 1
        BY <2>1, <2>2, <2>3, <2>5, <2>6
      <3> HIDE DEF L
      <3>2. Len(L) <= n /\ ((\E k \in 1..n : s[k] \notin S) => Len(L) < n)
        <4>1. Len(L) <= n
          BY <2>2, <2>6, <3>1
        <4>2. ASSUME NEW k \in 1..n, s[k] \notin S PROVE Len(L) < n
          <5>1. k \in 1..(n - 1)
            BY <2>5, <4>2
          <5>2. Len(K) < n - 1
            BY <2>2, <4>2, <5>1
          <5> QED
            BY <2>2, <2>6, <3>1, <5>2
        <4> QED
          BY <4>1, <4>2
      <3>3. \A j \in 1..Len(L) : L[j] \in S /\ \E k \in 1..n : L[j] = s[k]
        <4>1. ASSUME NEW j \in 1..Len(L) PROVE L[j] \in S /\ \E k \in 1..n : L[j] = s[k]
          <5>1. CASE j \in 1..Len(K)
            <6>1. K[j] \in S /\ \E k \in 1..(n - 1) : K[j] = s[k]
              BY <2>2, <5>1
            <6> QED
              BY <3>1, <5>1, <6>1
          <5>2. CASE j = Len(K) + 1
            <6>1. n \in 1..n
              OBVIOUS
            <6> QED
              BY <2>5, <3>1, <5>2, <6>1
          <5> QED
            BY <3>1, <5>1, <5>2
        <4> QED
          BY <4>1
      <3>4. \A j \in 1..Len(K) : K[j].query # s[n].query
        <4>1. ASSUME NEW j \in 1..Len(K) PROVE K[j].query # s[n].query
          <5>1. PICK k \in 1..(n - 1) : K[j] = s[k]
            BY <2>2
          <5>2. k \in 1..Len(s) /\ k # n
            OBVIOUS
          <5> QED
            BY <5>1, <5>2
        <4> QED
          BY <4>1
      <3>5. \A i, j \in 1..Len(L) : L[i].query = L[j].query => i = j
        BY <2>2, <2>6, <3>1, <3>4
      <3> QED
        BY <3>1, <3>2, <3>3, <3>5 DEF L
    <2> QED
      BY <2>4, <2>5
  <1> HIDE DEF Part
  <1>4. ASSUME Bad # {} PROVE FALSE
    <2>0. Bad \in SUBSET Nat
      OBVIOUS
    <2>1. PICK n \in Bad : \A k \in Bad : n <= k
      BY <1>4, <2>0, Least
    <2>2. n # 0 /\ n \in 1..Len(s) /\ n - 1 \in 0..Len(s) /\ n - 1 \notin Bad
      BY <1>2, <2>1
    <2> QED
      BY <1>3, <2>1, <2>2
  <1>5. Part(f[Len(s)], Len(s))
    BY <1>4
  <1> QED
    BY <1>1, <1>5 DEF Part
-----------------------------------------------------------------------------
\* ORDER BY occurred_at DESC, id DESC is a strict order, total because ids differ.
LEMMA BeforeIsOrder ==
    /\ \A r \in Row : ~Before(r, r)
    /\ \A r, s, t \in Row : Before(r, s) /\ Before(s, t) => Before(r, t)
    /\ \A r, s \in Row : r.id # s.id => Before(r, s) \/ Before(s, r)
  <1>1. \A r \in Row : OccurredAt[r.event] \in Nat /\ r.id \in Nat
    BY BackendEventsAssumption DEF Row
  <1> QED
    BY <1>1 DEF Before

\* A set of rows as the table can hold it.
Table(S) == /\ S \subseteq Row /\ IsFiniteSet(S)
            /\ \A r, s \in S : r.id = s.id => r = s

Ahead(S, row) == {s \in S : Before(s, row)}

\* The number of rows ahead of a row tells it from those behind it.
LEMMA AheadGrows ==
    ASSUME NEW S, Table(S), NEW r \in S, NEW s \in S, Before(r, s)
    PROVE  Cardinality(Ahead(S, r)) < Cardinality(Ahead(S, s))
  <1>1. /\ Ahead(S, r) \subseteq Ahead(S, s)
        /\ r \in Ahead(S, s) /\ r \notin Ahead(S, r)
    BY BeforeIsOrder DEF Ahead, Table
  <1>2. IsFiniteSet(Ahead(S, s)) /\ IsFiniteSet(Ahead(S, r))
    BY FS_Subset DEF Ahead, Table
  <1>3. /\ Cardinality(Ahead(S, r)) <= Cardinality(Ahead(S, s))
        /\ Cardinality(Ahead(S, r)) # Cardinality(Ahead(S, s))
    BY <1>1, <1>2, FS_Subset
  <1>4. Cardinality(Ahead(S, r)) \in Nat /\ Cardinality(Ahead(S, s)) \in Nat
    BY <1>2, FS_CardinalityType
  <1> QED
    BY <1>3, <1>4

LEMMA AheadCount ==
    ASSUME NEW S, Table(S), NEW row \in S
    PROVE  Cardinality(Ahead(S, row)) \in Nat
  BY FS_Subset, FS_CardinalityType DEF Ahead, Table

\* A set of rows that is not empty has a first row and a last one.
LEMMA FirstRow ==
    ASSUME NEW S, Table(S), S # {}
    PROVE  \E c \in S : \A s \in S : ~Before(s, c)
  <1> DEFINE Counts == {Cardinality(Ahead(S, r)) : r \in S}
  <1>1. Counts \in SUBSET Nat /\ Counts # {}
    BY AheadCount
  <1>2. PICK n \in Counts : \A k \in Counts : n <= k
    BY <1>1, Least
  <1>3. PICK c \in S : n = Cardinality(Ahead(S, c))
    BY <1>2
  <1>4. ASSUME NEW s \in S, Before(s, c) PROVE FALSE
    <2>1. Cardinality(Ahead(S, s)) < n /\ Cardinality(Ahead(S, s)) \in Counts
      BY <1>3, <1>4, AheadGrows
    <2>2. Cardinality(Ahead(S, s)) \in Nat /\ n \in Nat
      BY <1>1, <1>2, AheadCount
    <2> QED
      BY <1>2, <2>1, <2>2
  <1> QED
    BY <1>4

LEMMA LastRow ==
    ASSUME NEW S, Table(S), S # {}
    PROVE  /\ Cursor(S) \in S
           /\ \A s \in S : s = Cursor(S) \/ Before(s, Cursor(S))
  <1> DEFINE Counts == {Cardinality(Ahead(S, r)) : r \in S}
  <1>1. IsFiniteSet(S) /\ Cardinality(S) \in Nat
    BY FS_CardinalityType DEF Table
  <1>2. \A n \in Counts : n <= Cardinality(S)
    <2>1. ASSUME NEW r \in S PROVE Cardinality(Ahead(S, r)) <= Cardinality(S)
      <3>1. Ahead(S, r) \in SUBSET S
        BY DEF Ahead
      <3> QED
        BY <1>1, <3>1, FS_Subset
    <2> QED
      BY <2>1
  <1>3. Counts \in SUBSET Nat /\ Counts # {}
    BY AheadCount
  <1>4. PICK n \in Counts : \A k \in Counts : k <= n
    BY <1>1, <1>2, <1>3, Greatest
  <1>5. PICK c \in S : n = Cardinality(Ahead(S, c))
    BY <1>4
  <1>6. ASSUME NEW s \in S, s # c PROVE Before(s, c)
    <2>1. Before(s, c) \/ Before(c, s)
      BY <1>6, BeforeIsOrder DEF Table
    <2>2. ASSUME Before(c, s) PROVE FALSE
      <3>1. n < Cardinality(Ahead(S, s)) /\ Cardinality(Ahead(S, s)) \in Counts
        BY <1>5, <2>2, AheadGrows
      <3>2. Cardinality(Ahead(S, s)) \in Nat /\ n \in Nat
        BY <1>3, <1>4, AheadCount
      <3> QED
        BY <1>4, <3>1, <3>2
    <2> QED
      BY <2>1, <2>2
  <1>7. \E d \in S : \A s \in S : s = d \/ Before(s, d)
    BY <1>6
  <1> QED
    BY <1>7 DEF Cursor

-----------------------------------------------------------------------------
(***************************************************************************)
(* The invariant in three parts: the table and the requests, the cache and *)
(* the queries, the paging session.                                        *)
(***************************************************************************)

TableInv ==
    /\ rows \subseteq Row
    /\ \A r, s \in rows : r.event = s.event \/ r.id = s.id => r = s
    /\ \E n \in Nat : \A row \in rows : row.id <= n
    /\ tx \in [Writers -> Request]
    /\ acked \subseteq Events
    /\ AckedIsStored /\ RequestsInv

\* An entry is as fresh as its time says, and misses nothing acknowledged since.
EntryGood(e) ==
    /\ EntryOK(e)
    /\ Live(e) /\ e.query \in OwnNames =>
          \A row \in FirstPage : row.event \in acked => row.event \in e.value \cup e.acked

CacheInv ==
    /\ cache \in Seq(Entry) /\ Len(cache) <= MaxEntries
    /\ \A i, j \in 1..Len(cache) : cache[i].query = cache[j].query => i = j
    /\ \A e \in Range(cache) : EntryGood(e)
    /\ reads \in [Readers -> Query]
    /\ \A r \in Readers : ReadOK(r)

PageInv ==
    /\ page \in [state : {"none", "open", "done"}, got : Seq(SUBSET Committed),
                 present : SUBSET Committed]
    /\ SessionInv /\ PagingIsExact

Counters == /\ now \in Times /\ requests \in 0..MaxRequests
            /\ failures \in 0..MaxFailures /\ client \in {"pages", "asks"}

LEMMA Constants ==
    /\ TTL \in Nat \ {0} /\ MaxEntries \in Nat \ {0} /\ PageLimit \in Nat \ {0}
    /\ MaxTime \in Nat /\ MaxRead \in Nat /\ MaxRequests \in Nat /\ MaxFailures \in Nat
    /\ \A w \in Writers : w # "committed"
  BY BackendEventsAssumption

LEMMA RangeOf ==
    ASSUME NEW T, NEW s \in Seq(T)
    PROVE  /\ \A e : e \in Range(s) <=> \E i \in 1..Len(s) : s[i] = e
           /\ Range(s) \subseteq T
  BY DEF Range

LEMMA BatchFacts ==
    ASSUME NEW s \in Batches
    PROVE  /\ s \in Seq(Events) /\ Len(s) \in Nat /\ Len(s) >= 1
           /\ Len(s) <= Cardinality(Events) /\ Cardinality(Events) \in Nat
           /\ \A k \in 1..Len(s) : s[k] \in Events
           /\ \A i, j \in 1..Len(s) : i < j => s[i] < s[j]
           /\ \A e : e \in Range(s) <=> \E k \in 1..Len(s) : s[k] = e
  <1>1. Cardinality(Events) \in Nat
    BY BackendEventsAssumption, FS_CardinalityType
  <1>2. PICK m \in 0..Cardinality(Events) : s \in [1..m -> Events]
    BY DEF Batches, SeqOf
  <1>3. s \in Seq(Events) /\ Len(s) = m
    BY <1>1, <1>2
  <1>4. s # <<>> /\ \A i, j \in DOMAIN s : i < j => s[i] < s[j]
    BY DEF Batches
  <1>5. Len(s) # 0
    BY <1>3, <1>4
  <1> QED
    BY <1>1, <1>2, <1>3, <1>4, <1>5, RangeOf

LEMMA TableOf ==
    ASSUME NEW S \in SUBSET Row, \A r, s \in S : r.id = s.id => r = s,
           NEW n \in Nat, \A row \in S : row.id <= n
    PROVE  Table(S)
  <1> DEFINE f == [row \in S |-> row.id]
  <1>1. f \in Injection(S, 0..n)
    BY DEF Row, Injection, IsInjective
  <1>2. IsFiniteSet(0..n)
    BY FS_Interval
  <1>3. IsFiniteSet(S)
    BY <1>1, <1>2, FS_Injection
  <1> QED
    BY <1>3 DEF Table

LEMMA TableIsTable ==
    ASSUME TableInv
    PROVE  Table(rows) /\ Table(Committed)
  <1>1. PICK n \in Nat : \A row \in rows : row.id <= n
    BY DEF TableInv
  <1>2. rows \in SUBSET Row /\ \A r, s \in rows : r.id = s.id => r = s
    BY DEF TableInv
  <1>3. Committed \in SUBSET rows
    BY DEF Committed
  <1> QED
    BY <1>1, <1>2, <1>3, TableOf

LEMMA NewId ==
    ASSUME TableInv
    PROVE  NextId \in Nat \ {0} /\ \A row \in rows : row.id < NextId
  <1> DEFINE Ids == {0} \cup {row.id : row \in rows}
  <1>1. PICK n \in Nat : \A row \in rows : row.id <= n
    BY DEF TableInv
  <1>2. \A row \in rows : row.id \in Nat /\ row.id \in Ids
    BY DEF TableInv, Row
  <1>3. Ids \in SUBSET Nat /\ Ids # {} /\ \A x \in Ids : x <= n
    BY <1>1, <1>2
  <1>4. NextId = 1 + Max(Ids)
    BY DEF NextId
  <1> HIDE DEF Ids
  <1>5. \E m \in Ids : \A x \in Ids : x <= m
    BY <1>3, Greatest
  <1>6. \E m \in Ids : \A x \in Ids : m >= x
    BY <1>3, <1>5
  <1>7. Max(Ids) \in Ids /\ \A x \in Ids : Max(Ids) >= x
    BY <1>6 DEF Max
  <1> DEFINE m == Max(Ids)
  <1>8. m \in Nat /\ \A x \in Ids : x <= m
    <2>1. m \in Nat
      BY <1>3, <1>7
    <2>2. \A x \in Ids : x \in Nat /\ m >= x
      BY <1>3, <1>7
    <2> HIDE DEF m
    <2> QED
      BY <2>1, <2>2
  <1>9. NextId = 1 + m
    BY <1>4
  <1> HIDE DEF m
  <1>10. ASSUME NEW row \in rows PROVE row.id < NextId
    <2>1. row.id \in Nat /\ row.id <= m
      BY <1>2, <1>8
    <2> QED
      BY <1>8, <1>9, <2>1
  <1> QED
    BY <1>8, <1>9, <1>10

\* A row of the first page was on the first page of any earlier table it was in.
LEMMA FirstPageShrinks ==
    ASSUME NEW S, NEW T, Table(T), S \subseteq T, NEW row \in PageOf(T), row \in S
    PROVE  row \in PageOf(S)
  <1>1. Table(S)
    BY FS_Subset DEF Table
  <1>2. Ahead(S, row) \in SUBSET Ahead(T, row) /\ row \in T
    BY DEF Ahead, PageOf
  <1>3. IsFiniteSet(Ahead(T, row))
    BY FS_Subset DEF Ahead, Table
  <1>4. Cardinality(Ahead(S, row)) <= Cardinality(Ahead(T, row))
    BY <1>2, <1>3, FS_Subset
  <1>5. Cardinality(Ahead(S, row)) \in Nat /\ Cardinality(Ahead(T, row)) \in Nat
    BY <1>1, <1>2, AheadCount
  <1>6. Cardinality(Ahead(T, row)) < PageLimit
    BY DEF PageOf, Ahead
  <1>7. Cardinality(Ahead(S, row)) < PageLimit
    BY <1>4, <1>5, <1>6, Constants
  <1> QED
    BY <1>7 DEF PageOf, Ahead

\* Rows are committed: the cache's answers were right when they were read, and what
\* is new was not acknowledged before.
LEMMA CacheWhenRowsCommit ==
    ASSUME CacheInv, Counters, UNCHANGED <<cache, reads, now, acked>>,
           Committed \subseteq Committed', Table(Committed)', Table(Committed),
           \A row \in Committed' \ Committed : row.since = now /\ row.event \notin acked
    PROVE  CacheInv'
  <1> DEFINE S == Committed
             T == Committed'
  <1>1. FirstPage = PageOf(S) /\ FirstPage' = PageOf(T)
    BY DEF FirstPage, PageOf, Before
  <1>2. ASSUME NEW row \in FirstPage'
        PROVE  row \in FirstPage \/ (row.since = now /\ row.event \notin acked)
    <2>1. row \in T /\ row \in PageOf(T)
      BY <1>1, <1>2 DEF PageOf
    <2>2. CASE row \in S
      <3>1. Table(T)
        BY DEF Table
      <3>2. S \subseteq T /\ row \in S
        BY <2>2
      <3> HIDE DEF S, T
      <3>3. row \in PageOf(S)
        BY <2>1, <3>1, <3>2, FirstPageShrinks
      <3> QED
        BY <1>1, <3>3
    <2>3. CASE row \notin S
      BY <2>1, <2>3
    <2> QED
      BY <2>2, <2>3
  <1>3. now \in Nat
    BY Constants DEF Counters, Times
  <1>4. ASSUME NEW e \in Range(cache)'
        PROVE  EntryGood(e)'
    <2>1. EntryGood(e) /\ e \in Entry
      BY <1>4, RangeOf DEF CacheInv
    <2>2. e.expires \in Nat
      BY <2>1 DEF Entry
    <2> QED
      BY <1>2, <1>3, <2>1, <2>2, Constants DEF EntryGood, EntryOK, Misses, Live
  <1>5. ASSUME NEW r \in Readers PROVE ReadOK(r)'
    <2>1. ReadOK(r)
      BY DEF CacheInv
    <2>2. reads[r].asof \in Nat
      BY Constants DEF CacheInv, Query, Times
    <2> QED
      BY <1>2, <1>3, <2>1, <2>2 DEF ReadOK, Misses
  <1> QED
    BY <1>4, <1>5 DEF CacheInv

LEMMA PageWhenRowsCommit ==
    ASSUME PageInv, UNCHANGED page, Committed \subseteq Committed'
    PROVE  PageInv'
  <1>1. page.got \in Seq(SUBSET Committed')
    <2> DEFINE A == SUBSET Committed
               B == SUBSET Committed'
    <2>1. page.got \in Seq(A) /\ A \subseteq B
      BY DEF PageInv
    <2> HIDE DEF A, B
    <2>2. page.got \in Seq(B)
      BY <2>1
    <2> QED
      BY <2>2 DEF B
  <1>2. page' \in [state : {"none", "open", "done"}, got : Seq(SUBSET Committed'),
                   present : SUBSET Committed']
    BY <1>1 DEF PageInv
  <1>3. SessionInv' /\ PagingIsExact'
    BY DEF PageInv, SessionInv, PagingIsExact, Before, Cursor
  <1> QED
    BY <1>2, <1>3 DEF PageInv

-----------------------------------------------------------------------------
(***************************************************************************)
(* The table and the requests.                                             *)
(***************************************************************************)

\* An uncommitted row is the row of a request that is inserting.
LEMMA RowOf ==
    ASSUME TableInv, NEW row \in rows, row.by # "committed"
    PROVE  row.by \in Writers /\ tx[row.by].state = "insert"
  <1>1. row.by \in Writers
    BY DEF TableInv, Row
  <1> QED
    BY <1>1 DEF TableInv, RequestsInv, OpenRowOK

LEMMA RequestType ==
    ASSUME TableInv, NEW w \in Writers
    PROVE  /\ tx[w] \in Request /\ tx[w].i \in Nat \ {0}
           /\ RequestOK(w)
           /\ tx[w].state # "idle" => tx[w].batch \in Batches
  <1>1. tx[w] \in Request /\ RequestOK(w)
    BY DEF TableInv, RequestsInv
  <1>2. Cardinality(Events) \in Nat
    BY BackendEventsAssumption, FS_CardinalityType
  <1>3. tx[w].i \in 1..(Cardinality(Events) + 1)
    BY <1>1 DEF Request
  <1> QED
    BY <1>1, <1>2, <1>3 DEF RequestOK

LEMMA ReceiveTable ==
    ASSUME TableInv, NEW w \in Writers, Receive(w)
    PROVE  TableInv' /\ Committed' = Committed
  <1>1. Committed' = Committed /\ rows' = rows /\ acked' = acked
    BY DEF Receive, Committed
  <1>2. PICK kind \in {"batch", "single"}, batch \in Batches, replica \in Replicas :
            tx' = [tx EXCEPT ![w] = [Idle EXCEPT !.state = "insert", !.kind = kind,
                                        !.batch = batch, !.replica = replica]]
    BY DEF Receive
  <1> DEFINE t == [Idle EXCEPT !.state = "insert", !.kind = kind,
                               !.batch = batch, !.replica = replica]
  <1>3. /\ t.state = "insert" /\ t.batch = batch /\ t.i = 1 /\ t.kind = kind
        /\ t.replica = replica /\ t.inserted = FALSE
    BY DEF Idle
  <1>4. 1 \in 1..(Cardinality(Events) + 1)
    BY BackendEventsAssumption, FS_CardinalityType
  <1>5. t \in Request
    <2>1. /\ "insert" \in {"idle", "insert", "committed"} /\ FALSE \in BOOLEAN
          /\ kind \in {"batch", "single"} /\ batch \in {<<>>} \cup Batches
      OBVIOUS
    <2> QED
      BY <1>4, <2>1 DEF Idle, Request
  <1>6. tx' = [tx EXCEPT ![w] = t] /\ tx \in [Writers -> Request]
    BY <1>2 DEF TableInv
  <1> HIDE DEF t
  <1>7. /\ tx' \in [Writers -> Request] /\ tx'[w] = t
        /\ \A v \in Writers \ {w} : tx'[v] = tx[v]
    BY <1>5, <1>6
  <1>8. ASSUME NEW v \in Writers PROVE RequestOK(v)'
    <2>1. CASE v = w
      <3>1. Len(batch) \in Nat /\ Len(batch) >= 1
        BY BatchFacts
      <3> QED
        BY <1>3, <1>7, <2>1, <3>1 DEF RequestOK
    <2>2. CASE v # w
      <3>1. tx'[v] = tx[v] /\ RequestOK(v)
        BY <1>7, <2>2 DEF TableInv, RequestsInv
      <3> QED
        BY <1>1, <3>1 DEF RequestOK, Of
    <2> QED
      BY <2>1, <2>2
  <1>9. ASSUME NEW row \in rows PROVE OpenRowOK(row)'
    <2>1. CASE row.by = "committed"
      BY <2>1 DEF OpenRowOK
    <2>2. CASE row.by # "committed"
      <3>1. row.by \in Writers /\ row.by # w
        BY <2>2, RowOf DEF Receive
      <3>2. tx'[row.by] = tx[row.by] /\ OpenRowOK(row)
        BY <1>7, <3>1 DEF TableInv, RequestsInv
      <3> QED
        BY <3>2 DEF OpenRowOK
    <2> QED
      BY <2>1, <2>2
  <1>10. AckedIsStored'
    BY <1>1 DEF TableInv, AckedIsStored
  <1>11. RequestsInv'
    BY <1>1, <1>8, <1>9 DEF RequestsInv
  <1>12. tx' \in [Writers -> Request]
    BY <1>7
  <1>13. /\ rows' \subseteq Row /\ acked' \subseteq Events
         /\ \A r, s \in rows' : r.event = s.event \/ r.id = s.id => r = s
         /\ \E n \in Nat : \A row \in rows' : row.id <= n
    BY <1>1 DEF TableInv
  <1> QED
    BY <1>1, <1>10, <1>11, <1>12, <1>13 DEF TableInv

LEMMA InsertTable ==
    ASSUME TableInv, NEW w \in Writers, Insert(w)
    PROVE  TableInv' /\ Committed' = Committed
  <1> DEFINE t == tx[w]
             e == Event(w)
             new == Of(e) = {}
             row0 == [event |-> e, id |-> NextId, by |-> w, since |-> 0]
             u == tx'[w]
  <1>1. /\ t \in Request /\ t.i \in Nat \ {0} /\ RequestOK(w) /\ t.batch \in Batches
        /\ t.state = "insert" /\ t.i <= Len(t.batch)
    BY RequestType DEF Insert
  <1>2. /\ Len(t.batch) \in Nat /\ Cardinality(Events) \in Nat
        /\ Len(t.batch) <= Cardinality(Events) /\ e \in Events /\ e = t.batch[t.i]
    BY <1>1, BatchFacts DEF Event
  <1>3. /\ tx' = [tx EXCEPT ![w] = [t EXCEPT !.i = t.i + 1,
                                               !.inserted = t.inserted \/ new]]
        /\ tx \in [Writers -> Request]
    BY DEF Insert, TableInv
  <1>4. /\ u = [t EXCEPT !.i = t.i + 1, !.inserted = t.inserted \/ new]
        /\ \A v \in Writers \ {w} : tx'[v] = tx[v]
        /\ tx' = [v \in Writers |-> IF v = w THEN u ELSE tx[v]]
    BY <1>3
  <1>5. u.i = t.i + 1 /\ u.batch = t.batch /\ u.state = "insert"
    BY <1>1, <1>4 DEF Request
  <1>6. u \in Request
    <2>1. t.i + 1 \in 1..(Cardinality(Events) + 1)
      BY <1>1, <1>2
    <2>2. (t.inserted \/ new) \in BOOLEAN
      OBVIOUS
    <2> HIDE DEF e, new, t
    <2> QED
      BY <1>1, <1>4, <2>1, <2>2 DEF Request
  <1>7. tx' \in [Writers -> Request]
    BY <1>3, <1>4, <1>6
  <1>8. rows' = IF new THEN rows \cup {row0} ELSE rows
    BY DEF Insert
  <1>9. NextId \in Nat \ {0} /\ \A row \in rows : row.id \in Nat /\ row.id < NextId
    BY NewId DEF TableInv, Row
  <1>10. w # "committed" /\ acked' = acked
    BY Constants DEF Insert
  <1>11. Committed' = Committed
    BY <1>8, <1>10 DEF Committed
  <1>12. row0 \in Row
    <2>1. 0 \in Times
      BY Constants DEF Times
    <2> QED
      BY <1>2, <1>9, <2>1 DEF Row
  <1>13. row0.event = e /\ row0.id = NextId /\ row0.by = w
    OBVIOUS
  <1> HIDE DEF t, u, row0, new
  <1>14. rows' \subseteq Row
    BY <1>8, <1>12 DEF TableInv
  <1>15. new => \A row \in rows : row.event # e
    BY DEF new, Of
  <1> HIDE DEF e
  <1>16. \A r, s \in rows' : r.event = s.event \/ r.id = s.id => r = s
    <2>1. \A r, s \in rows : r.event = s.event \/ r.id = s.id => r = s
      BY DEF TableInv
    <2>2. ASSUME NEW r \in rows PROVE r.id # NextId
      BY <1>9
    <2> QED
      BY <1>8, <1>13, <1>15, <2>1, <2>2
  <1>17. \E n \in Nat : \A row \in rows' : row.id <= n
    <2>1. ASSUME NEW row \in rows' PROVE row.id <= NextId
      BY <1>8, <1>9, <1>13
    <2> QED
      BY <1>9, <2>1
  <1>18. ASSUME NEW v \in Writers PROVE RequestOK(v)'
    <2>1. CASE v # w
      <3>1. tx'[v] = tx[v] /\ RequestOK(v) /\ rows \subseteq rows'
        BY <1>4, <1>8, <2>1, RequestType
      <3> QED
        BY <3>1 DEF RequestOK, Of
    <2>2. CASE v = w
      <3>1. u.i <= Len(u.batch) + 1
        BY <1>1, <1>2, <1>5
      <3>2. ASSUME NEW k \in 1..(u.i - 1)
            PROVE  \E row \in rows' : row.event = u.batch[k] /\ row.by \in {w, "committed"}
        <4>1. k \in 1..(t.i - 1) \/ k = t.i
          BY <1>1, <1>5
        <4>2. CASE k \in 1..(t.i - 1)
          <5>1. \E row \in Of(t.batch[k]) : row.by \in {w, "committed"}
            BY <1>1, <4>2 DEF RequestOK, t
          <5> QED
            BY <1>5, <1>8, <5>1 DEF Of
        <4>3. CASE k = t.i
          <5>1. u.batch[k] = e
            BY <1>2, <1>5, <4>3
          <5>2. CASE new
            BY <1>8, <1>13, <5>1, <5>2
          <5>3. CASE ~new
            <6>1. PICK row \in rows : row.event = e
              BY <5>3 DEF new, Of
            <6>2. row.by \in Writers \cup {"committed"}
              BY <6>1 DEF TableInv, Row
            <6>3. ASSUME row.by \in Writers \ {w} PROVE FALSE
              <7>1. WaitsFor(w, row.by)
                BY <1>1, <6>1, <6>3 DEF WaitsFor, Of, t, e
              <7> QED
                BY <6>3, <7>1 DEF Insert
            <6> QED
              BY <1>8, <5>1, <5>3, <6>1, <6>2, <6>3
          <5> QED
            BY <5>2, <5>3
        <4> QED
          BY <4>1, <4>2, <4>3
      <3> QED
        BY <1>1, <1>5, <2>2, <3>1, <3>2 DEF RequestOK, Of, u
    <2> QED
      BY <2>1, <2>2
  <1>19. ASSUME NEW row \in rows' PROVE OpenRowOK(row)'
    <2>1. CASE row.by = "committed"
      BY <2>1 DEF OpenRowOK
    <2>2. CASE row.by # "committed" /\ row \in rows /\ row.by # w
      <3>1. tx'[row.by] = tx[row.by] /\ OpenRowOK(row)
        BY <1>4, <2>2, RowOf DEF TableInv, RequestsInv
      <3> QED
        BY <3>1 DEF OpenRowOK
    <2>3. CASE row \in rows /\ row.by = w
      <3>1. \E k \in 1..(t.i - 1) : t.batch[k] = row.event
        BY <1>10, <2>3 DEF TableInv, RequestsInv, OpenRowOK, t
      <3>2. \E k \in 1..(u.i - 1) : u.batch[k] = row.event
        BY <1>1, <1>5, <3>1
      <3> QED
        BY <1>5, <2>3, <3>2 DEF OpenRowOK, u
    <2>4. CASE row = row0
      <3>1. t.i \in 1..(u.i - 1) /\ u.batch[t.i] = row.event
        BY <1>1, <1>2, <1>5, <1>13, <2>4
      <3>2. \E k \in 1..(u.i - 1) : u.batch[k] = row.event
        BY <3>1
      <3> QED
        BY <1>5, <1>13, <2>4, <3>2 DEF OpenRowOK, u
    <2> QED
      BY <1>8, <2>1, <2>2, <2>3, <2>4
  <1>20. AckedIsStored'
    BY <1>10, <1>11 DEF TableInv, AckedIsStored
  <1>21. RequestsInv'
    BY <1>18, <1>19 DEF RequestsInv
  <1> QED
    BY <1>7, <1>10, <1>11, <1>14, <1>16, <1>17, <1>20, <1>21 DEF TableInv

LEMMA CommitTable ==
    ASSUME TableInv, Counters, NEW w \in Writers, Commit(w)
    PROVE  /\ TableInv' /\ Committed \subseteq Committed'
           /\ \A row \in Committed' \ Committed : row.since = now /\ row.event \notin acked
  <1> DEFINE f(row) == [row EXCEPT !.by = "committed", !.since = now]
             F(row) == IF row.by = w THEN f(row) ELSE row
             t == tx[w]
             u == tx'[w]
  <1>1. w # "committed" /\ now \in Times /\ acked' = acked
    BY Constants DEF Counters, Commit
  <1>2. rows' = {F(row) : row \in rows}
    BY DEF Commit, Mine
  <1>3. ASSUME NEW row \in rows
        PROVE  /\ F(row) \in Row /\ F(row).event = row.event /\ F(row).id = row.id
               /\ row.by = w => F(row).by = "committed" /\ F(row).since = now
               /\ row.by # w => F(row) = row
    <2>1. row \in Row
      BY DEF TableInv
    <2> QED
      BY <1>1, <2>1 DEF Row
  <1> HIDE DEF F
  <1>4. rows' \subseteq Row
    BY <1>2, <1>3
  <1>5. \A r, s \in rows' : r.event = s.event \/ r.id = s.id => r = s
    <2>1. ASSUME NEW r \in rows, NEW s \in rows,
                 F(r).event = F(s).event \/ F(r).id = F(s).id
          PROVE  F(r) = F(s)
      <3>1. r = s
        BY <1>3, <2>1 DEF TableInv
      <3> QED
        BY <3>1
    <2> QED
      BY <1>2, <2>1
  <1>6. \E n \in Nat : \A row \in rows' : row.id <= n
    <2>1. PICK n \in Nat : \A row \in rows : row.id <= n
      BY DEF TableInv
    <2>2. \A row \in rows : F(row).id <= n
      BY <1>3, <2>1
    <2> QED
      BY <1>2, <2>2
  <1>7. /\ t \in Request /\ t.i \in Nat \ {0} /\ RequestOK(w) /\ t.batch \in Batches
        /\ t.state = "insert" /\ t.i > Len(t.batch)
    BY RequestType DEF Commit
  <1>8. /\ tx' = [tx EXCEPT ![w] = [t EXCEPT !.state = "committed"]]
        /\ tx \in [Writers -> Request]
    BY DEF Commit, TableInv
  <1>9. /\ u = [t EXCEPT !.state = "committed"]
        /\ \A v \in Writers \ {w} : tx'[v] = tx[v]
        /\ tx' = [v \in Writers |-> IF v = w THEN u ELSE tx[v]]
    BY <1>8
  <1>10. u \in Request /\ u.i = t.i /\ u.batch = t.batch /\ u.state = "committed"
    BY <1>7, <1>9 DEF Request
  <1>11. tx' \in [Writers -> Request]
    BY <1>8, <1>9, <1>10
  <1> HIDE DEF t, u
  <1>12. Committed \subseteq Committed'
    <2>1. ASSUME NEW row \in rows, row.by = "committed"
          PROVE  row \in rows'
      BY <1>1, <1>2, <1>3, <2>1
    <2> QED
      BY <2>1 DEF Committed
  <1>13. ASSUME NEW row \in Committed', row \notin Committed
         PROVE  row.since = now /\ row.event \notin acked
    <2>1. row \in rows' /\ row.by = "committed"
      BY DEF Committed
    <2>2. PICK r \in rows : row = F(r)
      BY <1>2, <2>1
    <2>3. r.by = w
      BY <1>3, <1>13, <2>1, <2>2 DEF Committed
    <2>4. ASSUME row.event \in acked PROVE FALSE
      <3>1. PICK c \in rows : c.by = "committed" /\ c.event = row.event
        BY <2>4 DEF TableInv, AckedIsStored, Committed
      <3>2. c.event = r.event
        BY <1>3, <2>2, <3>1
      <3>3. c = r
        BY <3>2 DEF TableInv
      <3> QED
        BY <1>1, <2>3, <3>1, <3>3
    <2> QED
      BY <1>3, <2>2, <2>3, <2>4
  <1>14. ASSUME NEW v \in Writers PROVE RequestOK(v)'
    <2>0. RequestOK(v)
      BY RequestType
    <2>1. ASSUME NEW e, \E row \in rows : row.event = e /\ row.by \in {v, "committed"}
          PROVE  \E row \in rows' : row.event = e /\ row.by \in {v, "committed"}
      <3>1. PICK row \in rows : row.event = e /\ row.by \in {v, "committed"}
        BY <2>1
      <3>2. F(row) \in rows' /\ F(row).event = e /\ F(row).by \in {v, "committed"}
        BY <1>2, <1>3, <3>1
      <3> QED
        BY <3>2
    <2>2. CASE v # w
      <3>1. tx'[v] = tx[v]
        BY <1>9, <2>2
      <3>2. \A e : (\E row \in Of(e) : row.by \in {v, "committed"}) =>
                  \E row \in Of(e)' : row.by \in {v, "committed"}
        BY <2>1 DEF Of
      <3> QED
        BY <2>0, <3>1, <3>2 DEF RequestOK
    <2>3. CASE v = w
      <3>1. Len(t.batch) \in Nat /\ t.i <= Len(t.batch) + 1
        BY <1>7, BatchFacts DEF RequestOK, t
      <3>2. t.i = Len(t.batch) + 1
        BY <1>7, <3>1
      <3>3. \A k \in 1..(t.i - 1) : \E row \in rows :
               row.event = t.batch[k] /\ row.by \in {w, "committed"}
        BY <1>7 DEF RequestOK, Of, t
      <3>4. \A k \in 1..(u.i - 1) : \E row \in rows' :
               row.event = u.batch[k] /\ row.by \in {w, "committed"}
        BY <1>10, <2>1, <2>3, <3>3
      <3> QED
        BY <1>7, <1>10, <2>3, <3>1, <3>2, <3>4 DEF RequestOK, Of, u
    <2> QED
      BY <2>2, <2>3
  <1>15. ASSUME NEW row \in rows' PROVE OpenRowOK(row)'
    <2>1. PICK r \in rows : row = F(r)
      BY <1>2
    <2>2. CASE row.by = "committed"
      BY <2>2 DEF OpenRowOK
    <2>3. CASE row.by # "committed"
      <3>1. r.by # w /\ row = r
        BY <1>3, <2>1, <2>3
      <3>2. tx'[row.by] = tx[row.by] /\ OpenRowOK(row)
        BY <1>9, <2>3, <3>1, RowOf DEF TableInv, RequestsInv
      <3> QED
        BY <3>2 DEF OpenRowOK
    <2> QED
      BY <2>2, <2>3
  <1>16. AckedIsStored'
    BY <1>1, <1>12 DEF TableInv, AckedIsStored
  <1>17. RequestsInv'
    BY <1>14, <1>15 DEF RequestsInv
  <1>18. acked' \subseteq Events
    BY <1>1 DEF TableInv
  <1>19. TableInv'
    BY <1>4, <1>5, <1>6, <1>11, <1>16, <1>17, <1>18 DEF TableInv
  <1> QED
    BY <1>12, <1>13, <1>19

\* Requests that end take their uncommitted rows with them.
LEMMA EndTable ==
    ASSUME TableInv, NEW W \in SUBSET Writers, rows' \subseteq rows,
           \A row \in rows : row \in rows' <=> row.by \notin W,
           tx' = [v \in Writers |-> IF v \in W THEN Idle ELSE tx[v]],
           acked' \subseteq Events, AckedIsStored'
    PROVE  TableInv' /\ Committed' = Committed
  <1>1. "committed" \notin W
    BY Constants
  <1>2. Committed' = Committed
    BY <1>1 DEF Committed
  <1>3. 1 \in 1..(Cardinality(Events) + 1)
    BY BackendEventsAssumption, FS_CardinalityType
  <1>4. Idle \in Request
    BY <1>3, BackendEventsAssumption DEF Idle, Request
  <1>5. /\ tx' \in [Writers -> Request] /\ \A v \in W : tx'[v] = Idle
        /\ \A v \in Writers \ W : tx'[v] = tx[v]
    BY <1>4 DEF TableInv
  <1>6. ASSUME NEW v \in Writers PROVE RequestOK(v)'
    <2>1. CASE v \in W
      <3>1. Idle.state = "idle"
        BY DEF Idle
      <3> QED
        BY <1>5, <2>1, <3>1 DEF RequestOK
    <2>2. CASE v \notin W
      <3>1. tx'[v] = tx[v] /\ RequestOK(v)
        BY <1>5, <2>2, RequestType
      <3>2. \A row \in rows : row.by \in {v, "committed"} => row \in rows'
        BY <1>1, <2>2
      <3> QED
        BY <3>1, <3>2 DEF RequestOK, Of
    <2> QED
      BY <2>1, <2>2
  <1>7. ASSUME NEW row \in rows' PROVE OpenRowOK(row)'
    <2>1. CASE row.by = "committed"
      BY <2>1 DEF OpenRowOK
    <2>2. CASE row.by # "committed"
      <3>1. row \in rows /\ row.by \notin W
        OBVIOUS
      <3>2. tx'[row.by] = tx[row.by] /\ OpenRowOK(row)
        BY <1>5, <2>2, <3>1, RowOf DEF TableInv, RequestsInv
      <3> QED
        BY <3>2 DEF OpenRowOK
    <2> QED
      BY <2>1, <2>2
  <1>8. RequestsInv'
    BY <1>6, <1>7 DEF RequestsInv
  <1>9. /\ rows' \subseteq Row
        /\ \A r, s \in rows' : r.event = s.event \/ r.id = s.id => r = s
        /\ \E n \in Nat : \A row \in rows' : row.id <= n
    BY DEF TableInv
  <1> QED
    BY <1>2, <1>5, <1>8, <1>9 DEF TableInv

LEMMA RequestFailsTable ==
    ASSUME TableInv, NEW w \in Writers, RequestFails(w)
    PROVE  TableInv' /\ Committed' = Committed
  <1>1. rows' = rows \ Mine(w) /\ tx' = [tx EXCEPT ![w] = Idle] /\ acked' = acked
    BY DEF RequestFails
  <1>2. \A row \in rows : row \in rows' <=> row.by \notin {w}
    BY <1>1 DEF Mine
  <1>3. Committed \subseteq Committed'
    BY <1>2, Constants DEF Committed
  <1>4. acked' \subseteq Events /\ AckedIsStored'
    BY <1>1, <1>3 DEF TableInv, AckedIsStored
  <1>5. tx' = [v \in Writers |-> IF v \in {w} THEN Idle ELSE tx[v]]
    BY <1>1 DEF TableInv
  <1>6. rows' \subseteq rows /\ {w} \in SUBSET Writers
    BY <1>1
  <1> QED
    BY <1>2, <1>4, <1>5, <1>6, EndTable

\* What a request acknowledges is committed.
LEMMA InvalidateTable ==
    ASSUME TableInv, NEW w \in Writers, Invalidate(w)
    PROVE  TableInv' /\ Committed' = Committed /\ rows' = rows
  <1> DEFINE t == tx[w]
  <1>1. /\ t.state = "committed" /\ rows' = rows /\ tx' = [tx EXCEPT ![w] = Idle]
        /\ acked' \subseteq acked \cup Range(t.batch)
    BY DEF Invalidate
  <1>2. RequestOK(w) /\ t.batch \in Batches /\ t.i = Len(t.batch) + 1
    BY <1>1, RequestType DEF RequestOK
  <1>3. ASSUME NEW row \in rows PROVE row.by # w
    BY <1>1, RowOf, Constants
  <1>4. ASSUME NEW e \in Range(t.batch)
        PROVE  e \in Events /\ \E row \in Committed : row.event = e
    <2>1. PICK k \in 1..Len(t.batch) : t.batch[k] = e
      BY <1>2, BatchFacts
    <2>2. Len(t.batch) \in Nat /\ e \in Events
      BY <1>2, <2>1, BatchFacts
    <2>3. k \in 1..(t.i - 1)
      BY <1>2, <2>2
    <2>4. PICK row \in Of(t.batch[k]) : row.by \in {w, "committed"}
      BY <1>1, <1>2, <2>3 DEF RequestOK
    <2>5. row \in Committed /\ row.event = e
      BY <1>3, <2>1, <2>4 DEF Of, Committed
    <2> QED
      BY <2>2, <2>5
  <1>5. Committed' = Committed
    BY <1>1 DEF Committed
  <1> HIDE DEF t
  <1>6. acked' \subseteq Events
    BY <1>1, <1>4 DEF TableInv
  <1>7. AckedIsStored'
    <2>1. \A e \in acked : \E row \in Committed : row.event = e
      BY DEF TableInv, AckedIsStored
    <2>2. \A e \in acked' : \E row \in Committed' : row.event = e
      BY <1>1, <1>4, <1>5, <2>1
    <2> QED
      BY <2>2 DEF AckedIsStored
  <1>8. tx' = [v \in Writers |-> IF v \in {w} THEN Idle ELSE tx[v]]
    BY <1>1 DEF TableInv
  <1>9. \A row \in rows : row \in rows' <=> row.by \notin {w}
    BY <1>1, <1>3
  <1>10. rows' \subseteq rows /\ {w} \in SUBSET Writers
    BY <1>1
  <1>11. TableInv'
    BY <1>6, <1>7, <1>8, <1>9, <1>10, EndTable
  <1> QED
    BY <1>1, <1>5, <1>11

LEMMA CrashTable ==
    ASSUME TableInv, Crash
    PROVE  TableInv' /\ Committed' = Committed
  <1> DEFINE there == {w \in Writers : tx[w].replica = Observed}
  <1>1. /\ rows' = {row \in rows : row.by \notin there}
        /\ tx' = [w \in Writers |-> IF w \in there THEN Idle ELSE tx[w]]
        /\ acked' = {}
    BY DEF Crash
  <1>2. there \in SUBSET Writers
    OBVIOUS
  <1> HIDE DEF there
  <1>3. acked' \subseteq Events /\ AckedIsStored'
    BY <1>1 DEF AckedIsStored
  <1>4. rows' \subseteq rows /\ \A row \in rows : row \in rows' <=> row.by \notin there
    BY <1>1
  <1> QED
    BY <1>1, <1>2, <1>3, <1>4, EndTable
-----------------------------------------------------------------------------
(***************************************************************************)
(* The cache and the queries.                                              *)
(***************************************************************************)

\* The first page is a part of the table, and depends on nothing else.
LEMMA FirstPageOf ==
    /\ FirstPage \subseteq Committed
    /\ (Committed' = Committed) => (FirstPage' = FirstPage)
  BY DEF FirstPage, PageOf, Before

\* Queries under way are as good as they were.
LEMMA QuietReads ==
    ASSUME CacheInv, UNCHANGED <<reads, now>>, Committed' = Committed
    PROVE  reads' \in [Readers -> Query] /\ \A r \in Readers : ReadOK(r)'
  <1>1. FirstPage' = FirstPage
    BY FirstPageOf
  <1>2. ASSUME NEW r \in Readers PROVE ReadOK(r)'
    <2>1. ReadOK(r)
      BY DEF CacheInv
    <2> QED
      BY <1>1, <2>1 DEF ReadOK, Misses
  <1> QED
    BY <1>2 DEF CacheInv

\* Entries leave the cache.
LEMMA CacheShrinks ==
    ASSUME CacheInv, NEW S, cache' = Keep(cache, S), UNCHANGED now,
           Committed' = Committed, reads' \in [Readers -> Query],
           \A r \in Readers : ReadOK(r)',
           \A e \in Range(cache) : e \in S /\ e.query \in OwnNames => acked' = acked
    PROVE  CacheInv'
  <1>1. /\ cache' \in Seq(Entry) /\ Len(cache') <= Len(cache)
        /\ \A j \in 1..Len(cache') : cache'[j] \in S /\ \E k \in 1..Len(cache) : cache'[j] = cache[k]
        /\ \A i, j \in 1..Len(cache') : cache'[i].query = cache'[j].query => i = j
    <2>1. cache \in Seq(Entry)
      BY DEF CacheInv
    <2>2. \A i, j \in 1..Len(cache) : cache[i].query = cache[j].query => i = j
      BY DEF CacheInv
    <2> QED
      BY <2>1, <2>2, KeepPart
  <1>2. Len(cache') <= MaxEntries
    BY <1>1, Constants DEF CacheInv
  <1>3. FirstPage' = FirstPage
    BY FirstPageOf
  <1>4. ASSUME NEW e \in Range(cache') PROVE EntryGood(e)'
    <2>1. PICK j \in 1..Len(cache') : cache'[j] = e
      BY <1>1, RangeOf
    <2>2. e \in S /\ e \in Range(cache)
      <3>1. PICK k \in 1..Len(cache) : cache[k] = e
        BY <1>1, <2>1
      <3> QED
        BY <1>1, <2>1, <3>1, RangeOf DEF CacheInv
    <2>3. EntryGood(e)
      BY <2>2 DEF CacheInv
    <2> QED
      BY <1>3, <2>2, <2>3 DEF EntryGood, EntryOK, Misses, Live
  <1> QED
    BY <1>1, <1>2, <1>4 DEF CacheInv

\* Invalidation leaves no entry under the events' own names.
LEMMA InvalidateCache ==
    ASSUME CacheInv, NEW w \in Writers, Invalidate(w), Committed' = Committed
    PROVE  CacheInv'
  <1>1. UNCHANGED <<reads, now>>
    BY DEF Invalidate
  <1>2. CASE tx[w].replica = Observed /\ (tx[w].kind = "batch" \/ tx[w].inserted)
    <2> DEFINE S == {e \in Range(cache) : e.query \notin OwnNames}
    <2>1. cache' = Keep(cache, S)
      BY <1>2 DEF Invalidate, DropNames
    <2>2. \A e \in Range(cache) : e \in S /\ e.query \in OwnNames => acked' = acked
      OBVIOUS
    <2> HIDE DEF S
    <2> QED
      BY <1>1, <2>1, <2>2, CacheShrinks, QuietReads
  <1>3. CASE ~(tx[w].replica = Observed /\ (tx[w].kind = "batch" \/ tx[w].inserted))
    <2>1. cache' = cache /\ acked' = acked
      BY <1>3 DEF Invalidate
    <2>2. FirstPage' = FirstPage
      BY FirstPageOf
    <2> QED
      BY <1>1, <2>1, <2>2 DEF CacheInv, EntryGood, EntryOK, ReadOK, Misses, Live
  <1> QED
    BY <1>2, <1>3

\* The cache does not depend on anything else.
LEMMA CacheWhenQuiet ==
    ASSUME CacheInv, UNCHANGED <<cache, reads, now, acked>>, Committed' = Committed
    PROVE  CacheInv'
  <1>1. FirstPage' = FirstPage
    BY FirstPageOf
  <1> QED
    BY <1>1 DEF CacheInv, EntryGood, EntryOK, ReadOK, Misses, Live

LEMMA CrashCache ==
    ASSUME CacheInv, Crash
    PROVE  CacheInv'
  <1>1. cache' = <<>> /\ reads' = [r \in Readers |-> NoRead]
    BY DEF Crash
  <1>2. NoRead \in Query
    BY Constants DEF NoRead, Query, Times
  <1>3. reads' \in [Readers -> Query] /\ \A r \in Readers : reads'[r] = NoRead
    BY <1>1, <1>2
  <1>4. \A r \in Readers : ReadOK(r)'
    BY <1>3 DEF ReadOK
  <1>5. cache' \in Seq(Entry) /\ Len(cache') = 0 /\ Range(cache') = {}
    BY <1>1 DEF Range
  <1> QED
    BY <1>3, <1>4, <1>5, Constants DEF CacheInv

\* The cache without a key's entry, and with a new entry for it at its end.
LEMMA WithoutKey ==
    ASSUME CacheInv, NEW q
    PROVE  /\ Without(q) \in Seq(Entry) /\ Len(Without(q)) <= Len(cache)
           /\ (\E e \in Range(cache) : e.query = q) => Len(Without(q)) < Len(cache)
           /\ \A j \in 1..Len(Without(q)) :
                 Without(q)[j].query # q /\ Without(q)[j] \in Range(cache)
           /\ \A i, j \in 1..Len(Without(q)) :
                 Without(q)[i].query = Without(q)[j].query => i = j
  <1> DEFINE S == {e \in Range(cache) : e.query # q}
             K == Without(q)
  <1>1. cache \in Seq(Entry)
    BY DEF CacheInv
  <1>2. \A i, j \in 1..Len(cache) : cache[i].query = cache[j].query => i = j
    BY DEF CacheInv
  <1>3. K = Keep(cache, S) /\ \A e \in S : e.query # q /\ e \in Range(cache)
    BY DEF Without
  <1>4. (\E e \in Range(cache) : e.query = q) => \E k \in 1..Len(cache) : cache[k] \notin S
    <2>1. ASSUME NEW e \in Range(cache), e.query = q
          PROVE  \E k \in 1..Len(cache) : cache[k] \notin S
      <3>1. PICK k \in 1..Len(cache) : cache[k] = e
        BY <1>1, RangeOf
      <3> QED
        BY <2>1, <3>1
    <2> QED
      BY <2>1
  <1> HIDE DEF S, K
  <1>5. /\ K \in Seq(Entry) /\ Len(K) <= Len(cache)
        /\ (\E k \in 1..Len(cache) : cache[k] \notin S) => Len(K) < Len(cache)
        /\ \A j \in 1..Len(K) : K[j] \in S
        /\ \A i, j \in 1..Len(K) : K[i].query = K[j].query => i = j
    BY <1>1, <1>2, <1>3, KeepPart
  <1> QED
    BY <1>3, <1>4, <1>5 DEF K

LEMMA AppendEntry ==
    ASSUME NEW K \in Seq(Entry), NEW e \in Entry,
           \A i, j \in 1..Len(K) : K[i].query = K[j].query => i = j,
           \A j \in 1..Len(K) : K[j].query # e.query
    PROVE  /\ Append(K, e) \in Seq(Entry) /\ Len(Append(K, e)) = Len(K) + 1
           /\ \A i, j \in 1..Len(Append(K, e)) :
                 Append(K, e)[i].query = Append(K, e)[j].query => i = j
           /\ \A j \in 1..Len(Append(K, e)) :
                 Append(K, e)[j] = e \/ \E k \in 1..Len(K) : Append(K, e)[j] = K[k]
  <1> DEFINE L == Append(K, e)
  <1>1. /\ L \in Seq(Entry) /\ Len(L) = Len(K) + 1 /\ L[Len(K) + 1] = e
        /\ \A j \in 1..Len(K) : L[j] = K[j]
    OBVIOUS
  <1>2. Len(K) \in Nat
    OBVIOUS
  <1> HIDE DEF L
  <1>3. \A j \in 1..Len(L) : j \in 1..Len(K) \/ j = Len(K) + 1
    BY <1>1, <1>2
  <1>4. \A i, j \in 1..Len(L) : L[i].query = L[j].query => i = j
    BY <1>1, <1>3
  <1>5. \A j \in 1..Len(L) : L[j] = e \/ \E k \in 1..Len(K) : L[j] = K[k]
    BY <1>1, <1>3
  <1> QED
    BY <1>1, <1>4, <1>5 DEF L

LEMMA HitCache ==
    ASSUME CacheInv, NEW q, Hit(q)
    PROVE  CacheInv'
  <1>1. PICK e \in Range(cache) : e.query = q /\ cache' = Append(Without(q), e)
    BY DEF Hit
  <1>2. UNCHANGED <<reads, now, acked, rows>> /\ Committed' = Committed
    BY DEF Hit, Committed
  <1>3. e \in Entry
    BY RangeOf DEF CacheInv
  <1> DEFINE K == Without(q)
  <1>4. /\ K \in Seq(Entry) /\ Len(K) < Len(cache)
        /\ \A j \in 1..Len(K) : K[j].query # q /\ K[j] \in Range(cache)
        /\ \A i, j \in 1..Len(K) : K[i].query = K[j].query => i = j
    BY <1>1, WithoutKey
  <1>5. cache' = Append(K, e)
    BY <1>1
  <1> HIDE DEF K
  <1>6. /\ cache' \in Seq(Entry) /\ Len(cache') = Len(K) + 1
        /\ \A i, j \in 1..Len(cache') : cache'[i].query = cache'[j].query => i = j
        /\ \A j \in 1..Len(cache') : cache'[j] = e \/ \E k \in 1..Len(K) : cache'[j] = K[k]
    BY <1>1, <1>3, <1>4, <1>5, AppendEntry
  <1>7. Len(cache') <= MaxEntries
    <2>1. Len(K) \in Nat /\ Len(cache) \in Nat /\ Len(cache) <= MaxEntries
      BY <1>4 DEF CacheInv
    <2> QED
      BY <1>4, <1>6, <2>1, Constants
  <1>8. ASSUME NEW x \in Range(cache') PROVE EntryGood(x)'
    <2>1. PICK j \in 1..Len(cache') : cache'[j] = x
      BY <1>6, RangeOf
    <2>2. x \in Range(cache)
      BY <1>4, <1>6, <2>1
    <2>3. EntryGood(x)
      BY <2>2 DEF CacheInv
    <2>4. FirstPage' = FirstPage
      BY <1>2, FirstPageOf
    <2> QED
      BY <1>2, <2>3, <2>4 DEF EntryGood, EntryOK, Misses, Live
  <1>9. reads' \in [Readers -> Query] /\ \A r \in Readers : ReadOK(r)'
    BY <1>2, QuietReads
  <1> QED
    BY <1>6, <1>7, <1>8, <1>9 DEF CacheInv

\* A query reads the first page there is.
LEMMA ReadCache ==
    ASSUME CacheInv, TableInv, Counters, NEW r \in Readers, NEW q \in Queries, Read(r, q)
    PROVE  CacheInv'
  <1> DEFINE value == {row.event : row \in FirstPage}
             new == [query |-> q, asof |-> now, value |-> value]
             S == {e \in Range(cache) : e.query # q}
  <1>1. /\ cache' = Keep(cache, S) /\ reads' = [reads EXCEPT ![r] = new]
        /\ UNCHANGED <<now, rows, acked>> /\ Committed' = Committed
    BY DEF Read, Without, Committed
  <1>2. value \subseteq Events
    BY FirstPageOf DEF Committed, TableInv, Row
  <1>3. new \in Query
    BY <1>2 DEF Query, Counters
  <1>4. new.query = q /\ new.asof = now /\ new.value = value
    OBVIOUS
  <1>5. now \in Nat
    BY Constants DEF Counters, Times
  <1>6. FirstPage' = FirstPage
    BY <1>1, FirstPageOf
  <1>7. \A row \in FirstPage : row.event \in value
    OBVIOUS
  <1> HIDE DEF value, new
  <1>8. /\ reads' \in [Readers -> Query] /\ reads'[r] = new
        /\ \A v \in Readers \ {r} : reads'[v] = reads[v]
    BY <1>1, <1>3 DEF CacheInv
  <1>9. ASSUME NEW v \in Readers PROVE ReadOK(v)'
    <2>1. CASE v = r
      <3>1. now - now = 0 /\ now <= now
        BY <1>5
      <3> QED
        BY <1>1, <1>4, <1>6, <1>7, <1>8, <2>1, <3>1, Constants DEF ReadOK, Misses
    <2>2. CASE v # r
      <3>1. ReadOK(v) /\ reads'[v] = reads[v]
        BY <1>8, <2>2 DEF CacheInv
      <3> QED
        BY <1>1, <1>6, <3>1 DEF ReadOK, Misses
    <2> QED
      BY <2>1, <2>2
  <1> HIDE DEF S
  <1> QED
    BY <1>1, <1>8, <1>9, CacheShrinks

\* What a query answers is cached as what it is: read when it was read.
LEMMA StoreCache ==
    ASSUME CacheInv, TableInv, Counters, NEW r \in Readers, Store(r)
    PROVE  CacheInv'
  <1> DEFINE q == reads[r].query
             entry == [query |-> q, value |-> reads[r].value,
                       expires |-> now + TTL, acked |-> acked]
  <1>0. PICK e : e = entry
    OBVIOUS
  <1> DEFINE K == Without(q)
             P == Purged(K)
             full == Append(P, e)
             live == {x \in Range(K) : Live(x)}
  <1>1. /\ cache' = IF Len(full) > MaxEntries THEN Tail(full) ELSE full
        /\ reads' = [reads EXCEPT ![r] = NoRead] /\ reads[r] # NoRead
        /\ UNCHANGED <<now, rows, acked>> /\ Committed' = Committed
    BY <1>0 DEF Store, Committed
  <1>2. ReadOK(r) /\ reads[r] \in Query
    BY DEF CacheInv
  <1>3. /\ q \in Queries /\ reads[r].asof \in Nat
        /\ reads[r].asof <= now /\ now - reads[r].asof <= MaxRead
        /\ Misses(reads[r].value, reads[r].asof) /\ reads[r].value \subseteq Events
    BY <1>1, <1>2, Constants DEF ReadOK, Query, Times
  <1>4. now \in Nat /\ now + TTL \in Nat
    BY Constants DEF Counters, Times
  <1>5. e \in Entry
    BY <1>0, <1>3, <1>4 DEF Entry, TableInv
  <1>6. /\ e.query = q /\ e.value = reads[r].value /\ e.expires = now + TTL
        /\ e.acked = acked
    BY <1>0
  <1>7. FirstPage' = FirstPage
    BY <1>1, FirstPageOf
  <1> HIDE DEF entry
  <1>8. EntryGood(e)'
    <2>1. e.expires <= now + TTL /\ e.expires - TTL - MaxRead <= reads[r].asof
      BY <1>3, <1>4, <1>6, Constants
    <2>2. ASSUME NEW row \in FirstPage
          PROVE  row.event \in e.value \/ row.since >= e.expires - TTL - MaxRead
      <3>1. row.event \in e.value \/ row.since >= reads[r].asof
        BY <1>3, <1>6 DEF Misses
      <3>2. row.since \in Nat
        BY FirstPageOf, Constants DEF Committed, TableInv, Row, Times
      <3>3. e.expires - TTL - MaxRead \in Int
        BY <1>4, <1>6, Constants
      <3> QED
        BY <1>3, <2>1, <3>1, <3>2, <3>3
    <2>3. EntryOK(e)'
      BY <1>1, <1>7, <2>1, <2>2 DEF EntryOK, Misses
    <2> QED
      BY <1>1, <1>6, <2>3 DEF EntryGood
  <1>9. /\ K \in Seq(Entry) /\ Len(K) <= Len(cache)
        /\ \A j \in 1..Len(K) : K[j].query # q /\ K[j] \in Range(cache)
        /\ \A i, j \in 1..Len(K) : K[i].query = K[j].query => i = j
    BY WithoutKey
  <1>10. P = Keep(K, live)
    BY DEF Purged
  <1> HIDE DEF K, P, live
  <1>11. /\ P \in Seq(Entry) /\ Len(P) <= Len(K)
         /\ \A j \in 1..Len(P) : \E k \in 1..Len(K) : P[j] = K[k]
         /\ \A i, j \in 1..Len(P) : P[i].query = P[j].query => i = j
    BY <1>9, <1>10, KeepPart
  <1>12. \A j \in 1..Len(P) : P[j].query # q /\ P[j] \in Range(cache)
    BY <1>9, <1>11
  <1>13. /\ full \in Seq(Entry) /\ Len(full) = Len(P) + 1
         /\ \A i, j \in 1..Len(full) : full[i].query = full[j].query => i = j
         /\ \A j \in 1..Len(full) : full[j] = e \/ \E k \in 1..Len(P) : full[j] = P[k]
    BY <1>5, <1>6, <1>11, <1>12, AppendEntry
  <1> HIDE DEF full
  <1>14. Len(full) \in Nat /\ Len(full) <= MaxEntries + 1 /\ Len(full) >= 1
    <2>1. Len(P) \in Nat /\ Len(K) \in Nat /\ Len(cache) \in Nat /\ Len(cache) <= MaxEntries
      BY <1>9, <1>11 DEF CacheInv
    <2> QED
      BY <1>9, <1>11, <1>13, <2>1, Constants
  <1>15. /\ cache' \in Seq(Entry) /\ Len(cache') <= MaxEntries
         /\ \A i, j \in 1..Len(cache') : cache'[i].query = cache'[j].query => i = j
         /\ \A j \in 1..Len(cache') : \E k \in 1..Len(full) : cache'[j] = full[k]
    <2>1. CASE Len(full) > MaxEntries
      <3>1. cache' = Tail(full) /\ full # <<>>
        BY <1>1, <1>13, <1>14, <2>1
      <3> DEFINE s == Tail(full)
      <3>2. /\ s \in Seq(Entry) /\ Len(s) = Len(full) - 1
            /\ \A j \in 1..Len(s) : s[j] = full[j + 1] /\ j + 1 \in 1..Len(full)
        BY <1>13, <1>14, <3>1
      <3> HIDE DEF s
      <3>3. \A i, j \in 1..Len(s) : s[i].query = s[j].query => i = j
        <4>1. ASSUME NEW i \in 1..Len(s), NEW j \in 1..Len(s), s[i].query = s[j].query
              PROVE  i = j
          <5>0. /\ i + 1 \in 1..Len(full) /\ j + 1 \in 1..Len(full)
                /\ full[i + 1].query = full[j + 1].query
            BY <3>2, <4>1
          <5>1. i + 1 = j + 1
            BY <1>13, <5>0
          <5> QED
            BY <5>1
        <4> QED
          BY <4>1
      <3>4. Len(s) <= MaxEntries
        BY <1>14, <3>2, Constants
      <3>5. \A j \in 1..Len(s) : \E k \in 1..Len(full) : s[j] = full[k]
        BY <3>2
      <3> QED
        BY <3>1, <3>2, <3>3, <3>4, <3>5 DEF s
    <2>2. CASE ~(Len(full) > MaxEntries)
      <3>1. cache' = full /\ Len(full) <= MaxEntries
        BY <1>1, <1>14, <2>2, Constants
      <3> QED
        BY <1>13, <3>1
    <2> QED
      BY <2>1, <2>2
  <1>16. ASSUME NEW x \in Range(cache') PROVE EntryGood(x)'
    <2>1. PICK j \in 1..Len(cache') : cache'[j] = x
      BY <1>15, RangeOf
    <2>2. x = e \/ x \in Range(cache)
      <3>1. PICK k \in 1..Len(full) : x = full[k]
        BY <1>15, <2>1
      <3>2. x = e \/ \E i \in 1..Len(P) : x = P[i]
        BY <1>13, <3>1
      <3> QED
        BY <1>12, <3>2
    <2>3. CASE x \in Range(cache)
      <3>1. EntryGood(x)
        BY <2>3 DEF CacheInv
      <3> QED
        BY <1>1, <1>7, <3>1 DEF EntryGood, EntryOK, Misses, Live
    <2>4. CASE x = e
      BY <1>1, <1>6, <1>7, <1>8, <2>4 DEF EntryGood, EntryOK, Misses, Live
    <2> QED
      BY <2>2, <2>3, <2>4
  <1>17. reads' \in [Readers -> Query] /\ \A v \in Readers : ReadOK(v)'
    <2>1. NoRead \in Query
      BY Constants DEF NoRead, Query, Times
    <2>2. /\ reads' \in [Readers -> Query] /\ reads'[r] = NoRead
          /\ \A v \in Readers \ {r} : reads'[v] = reads[v]
      BY <1>1, <2>1 DEF CacheInv
    <2>3. ASSUME NEW v \in Readers PROVE ReadOK(v)'
      <3>1. CASE v = r
        BY <2>2, <3>1 DEF ReadOK
      <3>2. CASE v # r
        <4>1. ReadOK(v) /\ reads'[v] = reads[v]
          BY <2>2, <3>2 DEF CacheInv
        <4> QED
          BY <1>1, <1>7, <4>1 DEF ReadOK, Misses
      <3> QED
        BY <3>1, <3>2
    <2> QED
      BY <2>2, <2>3
  <1> QED
    BY <1>15, <1>16, <1>17 DEF CacheInv

LEMMA TickCache ==
    ASSUME CacheInv, Counters, Tick
    PROVE  CacheInv'
  <1>1. /\ now' = now + 1 /\ UNCHANGED <<rows, cache, reads, acked>> /\ now \in Nat
        /\ Committed' = Committed /\ now + 1 \in Nat
    BY Constants DEF Tick, Committed, Counters, Times
  <1>2. FirstPage' = FirstPage
    BY <1>1, FirstPageOf
  <1>3. ASSUME NEW e \in Range(cache) PROVE EntryGood(e)'
    <2>0. EntryGood(e) /\ e \in Entry
      BY RangeOf DEF CacheInv
    <2>1. EntryGood(e) /\ e.expires \in Nat
      BY <2>0 DEF Entry
    <2>2. EntryOK(e)'
      <3>1. e.expires <= now' + TTL
        BY <1>1, <2>1, Constants DEF EntryGood, EntryOK
      <3> QED
        BY <1>2, <2>1, <3>1 DEF EntryGood, EntryOK, Misses
    <2>3. Live(e)' => Live(e)
      BY <1>1, <2>1 DEF Live
    <2> QED
      BY <1>1, <1>2, <2>1, <2>2, <2>3 DEF EntryGood
  <1>4. ASSUME NEW r \in Readers PROVE ReadOK(r)'
    <2>1. ReadOK(r) /\ reads[r].asof \in Nat
      BY Constants DEF CacheInv, Query, Times
    <2>2. reads[r] # NoRead => now - reads[r].asof < MaxRead
      BY DEF Tick
    <2>3. reads[r] # NoRead => /\ reads[r].query \in Queries
                               /\ reads[r].asof <= now
                               /\ Misses(reads[r].value, reads[r].asof)
      BY <2>1 DEF ReadOK
    <2>4. reads[r] # NoRead => /\ reads[r].asof <= now'
                               /\ now' - reads[r].asof <= MaxRead
      BY <1>1, <2>1, <2>2, <2>3, Constants
    <2> QED
      BY <1>1, <1>2, <2>3, <2>4 DEF ReadOK, Misses
  <1> QED
    BY <1>1, <1>3, <1>4 DEF CacheInv

-----------------------------------------------------------------------------
(***************************************************************************)
(* The paging session.                                                     *)
(***************************************************************************)

\* A page that is not the last has a last row, and the rows that are not on it come
\* after that; the last page has all rows.
LEMMA PageFacts ==
    ASSUME NEW S, Table(S)
    PROVE  /\ PageOf(S) \subseteq S
           /\ HasMore(S) => /\ PageOf(S) # {}
                            /\ \A row \in S : row \in PageOf(S)
                                              \/ Before(Cursor(PageOf(S)), row)
           /\ ~HasMore(S) => PageOf(S) = S
  <1> DEFINE P == PageOf(S)
  <1>1. P \subseteq S /\ \A row \in S : row \in P <=> Cardinality(Ahead(S, row)) < PageLimit
    BY DEF PageOf, Ahead
  <1>2. Cardinality(S) \in Nat
    BY FS_CardinalityType DEF Table
  <1>3. ASSUME NEW row \in S
        PROVE  Cardinality(Ahead(S, row)) < Cardinality(S) /\ Cardinality(Ahead(S, row)) \in Nat
    <2>1. row \notin Ahead(S, row) /\ Ahead(S, row) \in SUBSET S
      BY BeforeIsOrder DEF Ahead, Table
    <2>2. IsFiniteSet(S) /\ Ahead(S, row) # S
      BY <2>1 DEF Table
    <2>3. /\ Cardinality(Ahead(S, row)) <= Cardinality(S)
          /\ Cardinality(Ahead(S, row)) # Cardinality(S)
      BY <2>1, <2>2, FS_Subset
    <2> QED
      BY <1>2, <2>3, AheadCount
  <1> HIDE DEF P
  <1>4. ASSUME ~HasMore(S) PROVE P = S
    <2>1. ASSUME NEW row \in S PROVE row \in P
      <3>1. ~(Cardinality(S) > PageLimit)
        BY <1>4 DEF HasMore
      <3>2. Cardinality(Ahead(S, row)) < PageLimit
        BY <1>2, <1>3, <3>1, Constants
      <3> QED
        BY <1>1, <3>2
    <2> QED
      BY <1>1, <2>1
  <1>5. ASSUME HasMore(S) PROVE P # {}
    <2>1. S # {}
      <3>1. ASSUME S = {} PROVE FALSE
        <4>1. Cardinality(S) = 0
          BY <3>1, FS_EmptySet
        <4> QED
          BY <1>5, <4>1, Constants DEF HasMore
      <3> QED
        BY <3>1
    <2>2. PICK c \in S : \A s \in S : ~Before(s, c)
      BY <2>1, FirstRow
    <2>3. Ahead(S, c) = {}
      BY <2>2 DEF Ahead
    <2>4. Cardinality(Ahead(S, c)) = 0
      BY <2>3, FS_EmptySet
    <2>5. Cardinality(Ahead(S, c)) < PageLimit
      BY <2>4, Constants
    <2> QED
      BY <1>1, <2>5
  <1>6. ASSUME P # {}, NEW row \in S, row \notin P PROVE Before(Cursor(P), row)
    <2>1. Table(P)
      BY <1>1, FS_Subset DEF Table
    <2>2. PICK c \in P : c = Cursor(P)
      BY <1>6, <2>1, LastRow
    <2>3. /\ c \in S /\ c # row
          /\ Cardinality(Ahead(S, c)) < PageLimit
          /\ ~(Cardinality(Ahead(S, row)) < PageLimit)
      BY <1>1, <1>6
    <2>4. Before(c, row) \/ Before(row, c)
      BY <2>3, BeforeIsOrder DEF Table
    <2>5. ASSUME Before(row, c) PROVE FALSE
      <3>1. Cardinality(Ahead(S, row)) < Cardinality(Ahead(S, c))
        BY <2>3, <2>5, AheadGrows
      <3>2. Cardinality(Ahead(S, row)) \in Nat /\ Cardinality(Ahead(S, c)) \in Nat
        BY <1>3, <2>3
      <3> QED
        BY <2>3, <3>1, <3>2, Constants
    <2> QED
      BY <2>2, <2>4, <2>5
  <1> QED
    BY <1>1, <1>4, <1>5, <1>6 DEF P

LEMMA OpenPagesPage ==
    ASSUME PageInv, OpenPages
    PROVE  PageInv' /\ Committed' = Committed
  <1>1. page' = [NoPage EXCEPT !.state = "open", !.present = Committed] /\ rows' = rows
    BY DEF OpenPages
  <1>2. Committed' = Committed
    BY <1>1 DEF Committed
  <1>3. page'.state = "open" /\ page'.got = <<>> /\ page'.present = Committed'
    BY <1>1, <1>2 DEF NoPage
  <1>4. page' \in [state : {"none", "open", "done"}, got : Seq(SUBSET Committed'),
                   present : SUBSET Committed']
    <2>1. "open" \in {"none", "open", "done"} /\ <<>> \in Seq(SUBSET Committed')
          /\ Committed \in SUBSET Committed'
      BY <1>2
    <2> QED
      BY <1>1, <2>1 DEF NoPage
  <1>5. SessionInv'
    BY <1>3 DEF SessionInv
  <1>6. PagingIsExact'
    BY <1>3 DEF PagingIsExact
  <1> QED
    BY <1>2, <1>4, <1>5, <1>6 DEF PageInv

\* The next page holds the first of the rows beyond the cursor.
LEMMA NextPagePage ==
    ASSUME PageInv, TableInv, NextPage
    PROVE  PageInv' /\ Committed' = Committed
  <1> DEFINE got == page.got
             S == IF got = <<>> THEN Committed ELSE AfterCursor(Cursor(Last(got)))
             P == PageOf(S)
             Met == UNION Range(got)
  <1>1. /\ page.state = "open"
        /\ page' = [page EXCEPT !.got = Append(got, P),
                                !.state = IF HasMore(S) THEN "open" ELSE "done"]
        /\ rows' = rows
    BY DEF NextPage
  <1>2. Committed' = Committed
    BY <1>1 DEF Committed
  <1>3. /\ page \in [state : {"none", "open", "done"}, got : Seq(SUBSET Committed),
                     present : SUBSET Committed]
        /\ got \in Seq(SUBSET Committed) /\ page.present \subseteq Committed
    BY DEF PageInv
  <1>4. Table(Committed) /\ Committed \subseteq Row
    BY TableIsTable DEF Table
  <1>5. Len(got) \in Nat /\ \A i \in 1..Len(got) : got[i] \subseteq Committed
    <2> DEFINE A == SUBSET Committed
    <2>1. got \in Seq(A)
      BY <1>3
    <2> HIDE DEF A, got
    <2>2. Len(got) \in Nat /\ \A i \in 1..Len(got) : got[i] \in A
      BY <2>1
    <2> QED
      BY <2>2 DEF A
  <1> HIDE DEF got
  \* What lies beyond the cursor, and that the rows met so far lie before it.
  <1>6. /\ S \subseteq Committed
        /\ \A i \in 1..Len(got) : \A r \in got[i], s \in S : Before(r, s)
        /\ \A row \in page.present : row \in Met \/ row \in S
    <2>1. CASE got = <<>>
      BY <1>3, <2>1
    <2>2. CASE got # <<>>
      <3> DEFINE n == Len(got)
                 L == Last(got)
      <3>1. n \in 1..n /\ L = got[n] /\ L \subseteq Committed
        BY <1>3, <1>5, <2>2 DEF Last, got
      <3>2. L # {} /\ \A row \in page.present : row \in Met \/ Before(Cursor(L), row)
        BY <1>1, <2>2 DEF PageInv, SessionInv, got
      <3>3. Table(L)
        BY <1>4, <3>1, FS_Subset DEF Table
      <3>4. PICK c \in L : c = Cursor(L) /\ \A s \in L : s = c \/ Before(s, c)
        BY <3>2, <3>3, LastRow
      <3>5. S = AfterCursor(c)
        BY <2>2, <3>4
      <3>6. \A row \in Committed : row \in S <=> Before(c, row)
        <4>1. ASSUME NEW row \in Committed PROVE row \in S <=> Before(c, row)
          <5>1. /\ OccurredAt[row.event] \in Nat /\ row.id \in Nat
                /\ OccurredAt[c.event] \in Nat /\ c.id \in Nat
            BY <1>4, <3>1, <3>4, BackendEventsAssumption DEF Row
          <5> QED
            BY <3>5, <5>1 DEF AfterCursor, Before
        <4> QED
          BY <4>1
      <3>7. S \subseteq Committed
        BY <3>5 DEF AfterCursor
      <3> HIDE DEF S, L
      <3>8. ASSUME NEW i \in 1..Len(got), NEW r \in got[i], NEW s \in S
            PROVE  Before(r, s)
        <4>1. Before(c, s) /\ c \in Row /\ r \in Row /\ s \in Row
          BY <1>4, <1>5, <3>1, <3>4, <3>6, <3>7
        <4>2. r = c \/ Before(r, c)
          <5>1. CASE i = n
            BY <3>1, <3>4, <5>1
          <5>2. CASE i # n
            <6>1. i < n
              BY <1>5, <5>2
            <6> QED
              BY <3>1, <3>4, <6>1 DEF PageInv, PagingIsExact, got
          <5> QED
            BY <5>1, <5>2
        <4> QED
          BY <4>1, <4>2, BeforeIsOrder
      <3>9. \A row \in page.present : row \in Met \/ row \in S
        BY <1>3, <3>2, <3>4, <3>6
      <3> QED
        BY <3>7, <3>8, <3>9
    <2> QED
      BY <2>1, <2>2
  <1> HIDE DEF S
  <1>7. Table(S)
    BY <1>4, <1>6, FS_Subset DEF Table
  <1>8. /\ P \subseteq S
        /\ HasMore(S) => /\ P # {}
                         /\ \A row \in S : row \in P \/ Before(Cursor(P), row)
        /\ ~HasMore(S) => P = S
    BY <1>7, PageFacts
  <1> HIDE DEF P
  <1>9. /\ page'.got = Append(got, P) /\ page'.present = page.present
        /\ page'.state = IF HasMore(S) THEN "open" ELSE "done"
    BY <1>1, <1>3
  <1>10. /\ page'.got \in Seq(SUBSET Committed') /\ Len(page'.got) = Len(got) + 1
         /\ page'.got # <<>> /\ Last(page'.got) = P /\ page'.got[Len(got) + 1] = P
         /\ \A i \in 1..Len(got) : page'.got[i] = got[i]
    <2> DEFINE A == SUBSET Committed'
               new == Append(got, P)
    <2>1. got \in Seq(A) /\ P \in A
      BY <1>2, <1>3, <1>6, <1>8 DEF got
    <2> HIDE DEF A
    <2>2. /\ new \in Seq(A) /\ Len(new) = Len(got) + 1 /\ new[Len(got) + 1] = P
          /\ \A i \in 1..Len(got) : new[i] = got[i]
      BY <2>1
    <2>3. new # <<>> /\ new[Len(new)] = P
      BY <1>5, <2>2
    <2> HIDE DEF new
    <2>4. Last(new) = P
      BY <2>3 DEF Last
    <2>5. page'.got = new
      BY <1>9 DEF new
    <2> QED
      BY <2>2, <2>3, <2>4, <2>5 DEF A
  <1>11. UNION Range(page'.got) = Met \cup P
    <2> DEFINE new == page'.got
    <2>1. \A i \in 1..Len(new) : i \in 1..Len(got) \/ i = Len(got) + 1
      BY <1>5, <1>10
    <2>2. Range(new) = {new[i] : i \in 1..Len(new)} /\ Range(got) = {got[i] : i \in 1..Len(got)}
      BY <1>3, <1>10 DEF Range, got
    <2>3. 1..Len(new) = (1..Len(got)) \cup {Len(got) + 1}
      BY <1>5, <1>10
    <2> HIDE DEF new
    <2>4. Range(new) = Range(got) \cup {P}
      BY <1>10, <2>2, <2>3 DEF new
    <2> QED
      BY <2>4 DEF new
  <1> HIDE DEF Met
  <1>12. ASSUME page'.state = "open" PROVE SessionInv'
    <2>1. HasMore(S)
      BY <1>9, <1>12
    <2>2. ASSUME NEW row \in page.present
          PROVE  row \in UNION Range(page'.got) \/ Before(Cursor(P), row)
      BY <1>6, <1>8, <1>11, <2>1
    <2> QED
      BY <1>8, <1>9, <1>10, <2>1, <2>2 DEF SessionInv, Cursor, Before
  <1>13. SessionInv'
    BY <1>12 DEF SessionInv
  <1>14. PagingIsExact'
    <2>1. ASSUME NEW i \in 1..Len(page'.got), NEW j \in 1..Len(page'.got), i < j,
                 NEW r \in page'.got[i], NEW s \in page'.got[j]
          PROVE  Before(r, s)
      <3>1. i \in 1..Len(got) /\ page'.got[i] = got[i]
        BY <1>5, <1>10, <2>1
      <3>2. CASE j \in 1..Len(got)
        <4>1. page'.got[j] = got[j]
          BY <1>10, <3>2
        <4> QED
          BY <2>1, <3>1, <3>2, <4>1 DEF PageInv, PagingIsExact, got
      <3>3. CASE j = Len(got) + 1
        <4>1. s \in S
          BY <1>8, <1>10, <3>3
        <4> QED
          BY <1>6, <3>1, <4>1
      <3> QED
        BY <1>5, <1>10, <3>2, <3>3
    <2>2. ASSUME page'.state = "done" PROVE page'.present \subseteq UNION Range(page'.got)
      <3>1. ~HasMore(S)
        BY <1>9, <2>2
      <3> QED
        BY <1>6, <1>8, <1>9, <1>11, <3>1
    <2> QED
      BY <2>1, <2>2 DEF PagingIsExact, Before
  <1>15. page' \in [state : {"none", "open", "done"}, got : Seq(SUBSET Committed'),
                    present : SUBSET Committed']
    <2> DEFINE A == Seq(SUBSET Committed')
               B == Seq(SUBSET Committed)
               C == SUBSET Committed
    <2>1. Append(got, P) \in A
      BY <1>9, <1>10
    <2>2. (IF HasMore(S) THEN "open" ELSE "done") \in {"none", "open", "done"}
      OBVIOUS
    <2>3. page \in [state : {"none", "open", "done"}, got : B, present : C]
      BY <1>3
    <2> HIDE DEF A, B, C
    <2>4. page' \in [state : {"none", "open", "done"}, got : A, present : C]
      BY <1>1, <2>1, <2>2, <2>3
    <2> QED
      BY <1>2, <2>4 DEF A, C
  <1> QED
    BY <1>2, <1>13, <1>14, <1>15 DEF PageInv

-----------------------------------------------------------------------------
Whole == Counters /\ TableInv /\ CacheInv /\ PageInv

LEMMA InitWhole == Init => Whole
  <1> SUFFICES ASSUME Init PROVE Whole
    OBVIOUS
  <1> USE DEF Init
  <1>1. Counters
    BY Constants DEF Counters, Times
  <1>2. TableInv
    <2>1. 1 \in 1..(Cardinality(Events) + 1)
      BY BackendEventsAssumption, FS_CardinalityType
    <2>2. Idle \in Request /\ Idle.state = "idle"
      BY <2>1, BackendEventsAssumption DEF Idle, Request
    <2>3. tx \in [Writers -> Request] /\ \A w \in Writers : tx[w].state = "idle"
      BY <2>2
    <2>4. RequestsInv
      BY <2>3 DEF RequestsInv, RequestOK
    <2>5. \E n \in Nat : \A row \in rows : row.id <= n
      OBVIOUS
    <2> QED
      BY <2>3, <2>4, <2>5 DEF TableInv, AckedIsStored
  <1>3. CacheInv
    <2>1. NoRead \in Query
      BY Constants DEF NoRead, Query, Times
    <2>2. reads \in [Readers -> Query] /\ \A r \in Readers : ReadOK(r)
      BY <2>1 DEF ReadOK
    <2>3. cache \in Seq(Entry) /\ Len(cache) = 0 /\ Range(cache) = {}
      BY DEF Range
    <2> QED
      BY <2>2, <2>3, Constants DEF CacheInv
  <1>4. PageInv
    <2>1. page.state = "none" /\ page.got = <<>> /\ page.present = {}
      BY DEF NoPage
    <2>2. page \in [state : {"none", "open", "done"}, got : Seq(SUBSET Committed),
                    present : SUBSET Committed]
      BY DEF NoPage
    <2> QED
      BY <2>1, <2>2 DEF PageInv, SessionInv, PagingIsExact
  <1> QED
    BY <1>1, <1>2, <1>3, <1>4 DEF Whole

LEMMA TableWhenQuiet ==
    ASSUME TableInv, UNCHANGED <<rows, tx, acked>>
    PROVE  TableInv' /\ Committed' = Committed
  <1>1. Committed' = Committed
    BY DEF Committed
  <1>2. AckedIsStored'
    BY <1>1 DEF TableInv, AckedIsStored
  <1>3. RequestsInv'
    BY DEF TableInv, RequestsInv, RequestOK, OpenRowOK, Of
  <1> QED
    BY <1>1, <1>2, <1>3 DEF TableInv

LEMMA StepWhole == Whole /\ [Next]_vars => Whole'
  <1> SUFFICES ASSUME Whole, [Next]_vars PROVE Whole'
    OBVIOUS
  <1> USE DEF Whole
  <1>1. ASSUME NEW w \in Writers, Receive(w) PROVE Whole'
    <2>1. TableInv' /\ Committed' = Committed
      BY <1>1, ReceiveTable
    <2>2. CacheInv' /\ PageInv'
      BY <1>1, <2>1, CacheWhenQuiet, PageWhenRowsCommit DEF Receive
    <2>3. Counters'
      BY <1>1, Constants DEF Receive, Counters
    <2> QED
      BY <2>1, <2>2, <2>3
  <1>2. ASSUME NEW w \in Writers, Insert(w) PROVE Whole'
    <2>1. TableInv' /\ Committed' = Committed
      BY <1>2, InsertTable
    <2>2. CacheInv' /\ PageInv'
      BY <1>2, <2>1, CacheWhenQuiet, PageWhenRowsCommit DEF Insert
    <2>3. Counters'
      BY <1>2 DEF Insert, Counters
    <2> QED
      BY <2>1, <2>2, <2>3
  <1>3. ASSUME NEW w \in Writers, Commit(w) PROVE Whole'
    <2>1. /\ TableInv' /\ Committed \subseteq Committed'
          /\ \A row \in Committed' \ Committed : row.since = now /\ row.event \notin acked
      BY <1>3, CommitTable
    <2>2. Table(Committed) /\ Table(Committed')
      <3>1. PICK n \in Nat : \A row \in rows' : row.id <= n
        BY <2>1 DEF TableInv
      <3>2. /\ Committed' \in SUBSET Row
            /\ \A r, s \in Committed' : r.id = s.id => r = s
            /\ \A row \in Committed' : row.id <= n
        BY <2>1, <3>1 DEF TableInv, Committed
      <3> QED
        BY <3>1, <3>2, TableOf, TableIsTable
    <2>3. Table(Committed)'
      BY <2>2 DEF Table
    <2>4. CacheInv' /\ PageInv'
      BY <1>3, <2>1, <2>2, <2>3, CacheWhenRowsCommit, PageWhenRowsCommit DEF Commit
    <2>5. Counters'
      BY <1>3 DEF Commit, Counters
    <2> QED
      BY <2>1, <2>4, <2>5
  <1>4. ASSUME NEW w \in Writers, Invalidate(w) PROVE Whole'
    <2>1. TableInv' /\ Committed' = Committed
      BY <1>4, InvalidateTable
    <2>2. CacheInv' /\ PageInv'
      BY <1>4, <2>1, InvalidateCache, PageWhenRowsCommit DEF Invalidate
    <2>3. Counters'
      BY <1>4 DEF Invalidate, Counters
    <2> QED
      BY <2>1, <2>2, <2>3
  <1>5. ASSUME NEW w \in Writers, RequestFails(w) PROVE Whole'
    <2>1. TableInv' /\ Committed' = Committed
      BY <1>5, RequestFailsTable
    <2>2. CacheInv' /\ PageInv'
      BY <1>5, <2>1, CacheWhenQuiet, PageWhenRowsCommit DEF RequestFails
    <2>3. Counters'
      BY <1>5, Constants DEF RequestFails, Fail, Counters
    <2> QED
      BY <2>1, <2>2, <2>3
  <1>6. CASE Crash
    <2>1. TableInv' /\ Committed' = Committed
      BY <1>6, CrashTable
    <2>2. CacheInv' /\ PageInv'
      BY <1>6, <2>1, CrashCache, PageWhenRowsCommit DEF Crash
    <2>3. Counters'
      BY <1>6, Constants DEF Crash, Fail, Counters
    <2> QED
      BY <2>1, <2>2, <2>3
  <1>7. ASSUME NEW q \in Queries, Hit(q) PROVE Whole'
    <2>1. TableInv' /\ Committed' = Committed
      BY <1>7, TableWhenQuiet DEF Hit
    <2>2. CacheInv' /\ PageInv'
      BY <1>7, <2>1, HitCache, PageWhenRowsCommit DEF Hit
    <2>3. Counters'
      BY <1>7 DEF Hit, Counters, Asks
    <2> QED
      BY <2>1, <2>2, <2>3
  <1>8. ASSUME NEW r \in Readers, Store(r) PROVE Whole'
    <2>1. TableInv' /\ Committed' = Committed
      BY <1>8, TableWhenQuiet DEF Store
    <2>2. CacheInv' /\ PageInv'
      BY <1>8, <2>1, StoreCache, PageWhenRowsCommit DEF Store
    <2>3. Counters'
      BY <1>8 DEF Store, Counters, Asks
    <2> QED
      BY <2>1, <2>2, <2>3
  <1>9. ASSUME NEW r \in Readers, NEW q \in Queries, Read(r, q) PROVE Whole'
    <2>1. TableInv' /\ Committed' = Committed
      BY <1>9, TableWhenQuiet DEF Read
    <2>2. CacheInv' /\ PageInv'
      BY <1>9, <2>1, ReadCache, PageWhenRowsCommit DEF Read
    <2>3. Counters'
      BY <1>9 DEF Read, Counters, Asks
    <2> QED
      BY <2>1, <2>2, <2>3
  <1>10. CASE OpenPages
    <2>1. TableInv' /\ Committed' = Committed
      BY <1>10, TableWhenQuiet DEF OpenPages
    <2>2. UNCHANGED <<cache, reads, now, acked>>
      BY <1>10 DEF OpenPages
    <2>3. CacheInv' /\ PageInv'
      BY <1>10, <2>1, <2>2, CacheWhenQuiet, OpenPagesPage
    <2>4. Counters'
      BY <1>10 DEF OpenPages, Counters, Pages
    <2> QED
      BY <2>1, <2>3, <2>4
  <1>11. CASE NextPage
    <2>1. TableInv' /\ Committed' = Committed
      BY <1>11, TableWhenQuiet DEF NextPage
    <2>2. UNCHANGED <<cache, reads, now, acked>>
      BY <1>11 DEF NextPage
    <2>3. CacheInv' /\ PageInv'
      BY <1>11, <2>1, <2>2, CacheWhenQuiet, NextPagePage
    <2>4. Counters'
      BY <1>11 DEF NextPage, Counters, Pages
    <2> QED
      BY <2>1, <2>3, <2>4
  <1>12. CASE Tick
    <2>1. TableInv' /\ Committed' = Committed
      BY <1>12, TableWhenQuiet DEF Tick
    <2>2. CacheInv' /\ PageInv'
      BY <1>12, <2>1, TickCache, PageWhenRowsCommit DEF Tick
    <2>3. Counters'
      BY <1>12, Constants DEF Tick, Counters, Asks, Times
    <2> QED
      BY <2>1, <2>2, <2>3
  <1>13. CASE UNCHANGED vars
    <2>1. TableInv' /\ Committed' = Committed
      BY <1>13, TableWhenQuiet DEF vars
    <2>2. CacheInv' /\ PageInv'
      BY <1>13, <2>1, CacheWhenQuiet, PageWhenRowsCommit DEF vars
    <2>3. Counters'
      BY <1>13 DEF vars, Counters
    <2> QED
      BY <2>1, <2>2, <2>3
  <1> QED
    BY <1>1, <1>2, <1>3, <1>4, <1>5, <1>6, <1>7, <1>8, <1>9, <1>10, <1>11, <1>12, <1>13
       DEF Next

LEMMA SpecWhole == Spec => []Whole
  BY InitWhole, StepWhole, PTL DEF Spec

-----------------------------------------------------------------------------
\* The table, the requests, the cached answers and the paging session fit: an
\* acknowledged event is committed, an uncommitted row is its request's own, an
\* answer misses nothing older than itself, and what the client of the pages has not
\* met lies beyond its cursor.
THEOREM BackendSafe == Spec => []BackendInv
  <1>1. Whole => BackendInv
    BY DEF Whole, Counters, TableInv, CacheInv, PageInv, EntryGood,
           BackendInv, TypeOK, AnswersInv
  <1> QED
    BY <1>1, SpecWhole, PTL

\* A live answer misses no event that was stored TTL and a query's time ago,
\* whichever replica stored it.
THEOREM NoStalerThanTTL == Spec => []StaleForTTL
  <1>1. Whole => StaleForTTL
    <2> SUFFICES ASSUME Whole, NEW e \in Range(cache), Live(e), NEW row \in FirstPage
                 PROVE  row.event \in e.value \/ now - row.since < TTL + MaxRead
      BY DEF StaleForTTL
    <2>1. EntryOK(e) /\ e \in Entry
      BY RangeOf DEF Whole, CacheInv, EntryGood
    <2>2. e.expires \in Nat /\ now \in Nat
      BY <2>1, Constants DEF Entry, Whole, Counters, Times
    <2>3. row.since \in Nat
      BY FirstPageOf, Constants DEF Committed, Whole, TableInv, Row, Times
    <2>4. row.event \in e.value \/ row.since >= e.expires - TTL - MaxRead
      BY <2>1 DEF EntryOK, Misses
    <2>5. e.expires > now
      BY DEF Live
    <2>6. ASSUME row.since >= e.expires - TTL - MaxRead
          PROVE  now - row.since < TTL + MaxRead
      BY <2>2, <2>3, <2>5, <2>6, Constants
    <2> QED
      BY <2>4, <2>6
  <1> QED
    BY <1>1, SpecWhole, PTL

\* A live answer under the events' own names misses nothing this replica has
\* acknowledged since it was cached.
THEOREM AckInvalidates == Spec => []InvalidatedByAck
  <1>1. Whole => InvalidatedByAck
    BY DEF Whole, CacheInv, EntryGood, InvalidatedByAck
  <1> QED
    BY <1>1, SpecWhole, PTL

\* Pages come newest first, repeat no row, and end with every row that was there when
\* the client began.
THEOREM ExactPages == Spec => []PagingIsExact
  <1>1. Whole => PagingIsExact
    BY DEF Whole, PageInv
  <1> QED
    BY <1>1, SpecWhole, PTL

\* A request waits for one whose own next event is a greater one.
LEMMA WaitsUpwards ==
    ASSUME TableInv, NEW w \in Writers, NEW v \in Writers, NEW x, WaitsFor(w, v), WaitsFor(v, x)
    PROVE  Event(w) \in Events /\ Event(v) \in Events /\ Event(w) < Event(v)
  <1>1. ASSUME NEW y \in Writers, tx[y].state = "insert", tx[y].i <= Len(tx[y].batch)
        PROVE  /\ tx[y].batch \in Batches /\ tx[y].i \in 1..Len(tx[y].batch)
               /\ Event(y) = tx[y].batch[tx[y].i] /\ Event(y) \in Events
    <2>1. tx[y].batch \in Batches /\ tx[y].i \in Nat \ {0}
      BY <1>1, RequestType
    <2>2. tx[y].i \in 1..Len(tx[y].batch)
      BY <1>1, <2>1, BatchFacts
    <2> QED
      BY <2>1, <2>2, BatchFacts DEF Event
  <1>2. tx[w].state = "insert" /\ tx[w].i <= Len(tx[w].batch)
    BY DEF WaitsFor
  <1>3. tx[v].state = "insert" /\ tx[v].i <= Len(tx[v].batch)
    BY DEF WaitsFor
  <1>4. PICK row \in rows : row.event = Event(w) /\ row.by = v
    BY DEF WaitsFor, Of
  <1>5. PICK k \in 1..(tx[v].i - 1) : tx[v].batch[k] = Event(w)
    BY <1>4, Constants DEF TableInv, RequestsInv, OpenRowOK
  <1>6. tx[v].batch \in Batches /\ tx[v].i \in 1..Len(tx[v].batch)
    BY <1>1, <1>3
  <1>7. Len(tx[v].batch) \in Nat
    BY <1>6, BatchFacts
  <1>8. k \in 1..Len(tx[v].batch) /\ k < tx[v].i
    BY <1>6, <1>7
  <1>9. tx[v].batch[k] < tx[v].batch[tx[v].i]
    BY <1>6, <1>8, BatchFacts
  <1> QED
    BY <1>1, <1>2, <1>3, <1>5, <1>9

\* Requests never wait for one another in a ring: each batch is in the order of the
\* events, so the request with the greatest event to insert waits for none of them.
THEOREM NoDeadlock == Spec => []NoWaitCycle
  <1>1. Whole => NoWaitCycle
    <2> SUFFICES ASSUME Whole, NEW S \in SUBSET Writers, S # {},
                        \A w \in S : \E v \in S : WaitsFor(w, v)
                 PROVE  FALSE
      BY DEF NoWaitCycle
    <2> DEFINE E == {Event(w) : w \in S}
    <2>0. TableInv
      BY DEF Whole
    <2>1. ASSUME NEW w \in S
          PROVE  \E v \in S : Event(w) \in Events /\ Event(v) \in Events /\ Event(w) < Event(v)
      <3>1. PICK v \in S : WaitsFor(w, v)
        OBVIOUS
      <3>2. PICK x \in S : WaitsFor(v, x)
        OBVIOUS
      <3> QED
        BY <2>0, <3>1, <3>2, WaitsUpwards
    <2>2. E \subseteq Events /\ E # {}
      BY <2>1
    <2>3. PICK n \in Nat : \A x \in Events : x <= n
      BY BackendEventsAssumption, FiniteIsBounded
    <2>4. E \in SUBSET Nat /\ \A x \in E : x <= n
      BY <2>2, <2>3, BackendEventsAssumption
    <2>5. \A x \in E : \E y \in E : x < y
      BY <2>1
    <2> HIDE DEF E
    <2>6. PICK m \in E : \A x \in E : x <= m
      BY <2>2, <2>4, Greatest
    <2>7. PICK y \in E : m < y
      BY <2>5
    <2>8. y <= m /\ y \in Nat /\ m \in Nat
      BY <2>4, <2>6
    <2> QED
      BY <2>7, <2>8
  <1> QED
    BY <1>1, SpecWhole, PTL

=============================================================================
