------------------------- MODULE ProcessPipelineProofs -------------------------
(***************************************************************************)
(* Theorems about ProcessPipeline, for any hosts, paths and arguments: what *)
(* is captured of a path is its end, and of the arguments the first bytes  *)
(* (Captures), what an event says is so (Right), events are in order and   *)
(* can be sent (Sendable), and a student's work that is captured whole is  *)
(* reported (WorkIsSeen).                                                  *)
(*                                                                         *)
(* Walk, CopyArgs, FindCFile, Normalize and Length are recursive           *)
(* functions: that they are what their recursion says, and what they       *)
(* compute, is proved by contradiction from the least counterexample.      *)
(***************************************************************************)
EXTENDS ProcessPipeline, WellFoundedInduction, TLAPS

\* A set of natural numbers that is not empty has a least.
LEMMA Least ==
    ASSUME NEW S \in SUBSET Nat, S # {}
    PROVE  \E m \in S : \A n \in S : m <= n
  <1> DEFINE R == OpToRel(<, Nat)
  <1>1. IsWellFoundedOn(R, Nat)
    BY NatLessThanWellFounded
  <1>2. \A x, y \in S : y < x => <<y, x>> \in R
    BY DEF OpToRel
  <1> HIDE DEF R
  <1>3. PICK x \in S : \A y \in S : ~(<<y, x>> \in R)
    BY <1>1, WFMin
  <1>4. \A y \in S : ~(y < x)
    BY <1>2, <1>3
  <1>5. \A y \in S : x <= y
    BY <1>4
  <1> QED
    BY <1>5

\* A recursion whose steps are given by functions, and that there is a solution.
Solves(f, n, T, base, step) ==
    /\ f \in [0..n -> T] /\ f[0] = base
    /\ \A i \in 1..n : f[i] = step[i][f[i - 1]]

\* Each recursion has a solution: one up to m extends to one up to m + 1.
LEMMA Recursion ==
    ASSUME NEW T, NEW n \in Nat, NEW base \in T, NEW step \in [1..n -> [T -> T]]
    PROVE  \E f : Solves(f, n, T, base, step)
  <1> USE DEF Solves
  <1> DEFINE Good(m) == \E f : Solves(f, m, T, base, step)
             Bad == {m \in 0..n : ~Good(m)}
  <1>1. Good(0)
    <2>1. Solves([i \in 0..0 |-> base], 0, T, base, step)
      OBVIOUS
    <2> QED
      BY <2>1
  <1>2. ASSUME NEW m \in 0..n, m # n, Good(m) PROVE Good(m + 1)
    <2>1. PICK f : Solves(f, m, T, base, step)
      BY <1>2
    <2>2. m \in Nat /\ m + 1 \in 1..n /\ f \in [0..m -> T] /\ f[m] \in T
      BY <1>2, <2>1
    <2> DEFINE x == step[m + 1][f[m]]
    <2>3. x \in T
      BY <2>2
    <2> HIDE DEF x
    <2> DEFINE g == [i \in 0..(m + 1) |-> IF i <= m THEN f[i] ELSE x]
    <2>4. g \in [0..(m + 1) -> T]
      BY <2>2, <2>3
    <2>5. g[0] = base /\ g[m + 1] = x /\ \A i \in 0..m : g[i] = f[i]
      BY <2>1, <2>2
    <2> HIDE DEF g
    <2>6. ASSUME NEW i \in 1..(m + 1) PROVE g[i] = step[i][g[i - 1]]
      <3>1. CASE i = m + 1
        <4>1. i - 1 = m /\ m \in 0..m
          BY <2>2, <3>1
        <4> QED
          BY <2>5, <3>1, <4>1 DEF x
      <3>2. CASE i # m + 1
        <4>1. i \in 1..m /\ i \in 0..m /\ i - 1 \in 0..m
          BY <2>2, <3>2
        <4> QED
          BY <2>1, <2>5, <4>1
      <3> QED
        BY <3>1, <3>2
    <2>7. Solves(g, m + 1, T, base, step)
      BY <2>4, <2>5, <2>6
    <2> QED
      BY <2>7
  <1> HIDE DEF Good
  <1>3. ASSUME Bad # {} PROVE FALSE
    <2>1. Bad \in SUBSET Nat
      OBVIOUS
    <2>2. PICK m \in Bad : \A k \in Bad : m <= k
      BY <1>3, <2>1, Least
    <2>3. m # 0 /\ m \in 1..n /\ m - 1 \in 0..n /\ m - 1 # n /\ (m - 1) + 1 = m
      BY <1>1, <2>2
    <2>4. m - 1 \notin Bad
      BY <2>2, <2>3
    <2>5. Good(m - 1)
      BY <2>3, <2>4
    <2> QED
      BY <1>2, <2>2, <2>3, <2>5
  <1>4. Good(n)
    BY <1>3
  <1> QED
    BY <1>4 DEF Good

\* What holds at 0 and is carried from each number to the next holds up to n.  (S is
\* the set of numbers it is about.)
LEMMA UpTo ==
    ASSUME NEW n \in Nat, NEW S, 0 \in S, \A i \in 1..n : i - 1 \in S => i \in S
    PROVE  \A i \in 0..n : i \in S
  <1> DEFINE Bad == {i \in 0..n : i \notin S}
  <1>1. ASSUME Bad # {} PROVE FALSE
    <2>1. Bad \in SUBSET Nat
      OBVIOUS
    <2>2. PICK m \in Bad : \A k \in Bad : m <= k
      BY <1>1, <2>1, Least
    <2>3. m \in 1..n /\ m - 1 \in 0..n
      BY <2>2
    <2>4. m - 1 \notin Bad
      BY <2>2, <2>3
    <2> QED
      BY <2>2, <2>3, <2>4
  <1> QED
    BY <1>1
\* A function that goes by the steps where they apply is the solution.
LEMMA Unrolled ==
    ASSUME NEW T, NEW n \in Nat, NEW base \in T, NEW step \in [1..n -> [T -> T]], NEW f,
           f = [i \in 0..n |-> f[i]], f[0] = base,
           \A i \in 1..n : f[i - 1] \in T => f[i] = step[i][f[i - 1]]
    PROVE  Solves(f, n, T, base, step)
  <1> DEFINE S == {i \in 0..n : f[i] \in T}
  <1>1. 0 \in S
    OBVIOUS
  <1>2. ASSUME NEW i \in 1..n, i - 1 \in S PROVE i \in S
    <2>1. f[i - 1] \in T
      BY <1>2
    <2>2. f[i] = step[i][f[i - 1]]
      BY <2>1
    <2>3. step[i] \in [T -> T] /\ i \in 0..n
      OBVIOUS
    <2> HIDE DEF S
    <2>4. f[i] \in T
      BY <2>1, <2>2, <2>3
    <2> QED
      BY <2>3, <2>4 DEF S
  <1> HIDE DEF S
  <1>3. \A i \in 0..n : i \in S
    BY <1>1, <1>2, UpTo
  <1>4. \A i \in 0..n : f[i] \in T
    BY <1>3 DEF S
  <1>5. \A i \in 1..n : i - 1 \in 0..n
    OBVIOUS
  <1> QED
    BY <1>4, <1>5 DEF Solves
-----------------------------------------------------------------------------
(***************************************************************************)
(* Sequences.                                                              *)
(***************************************************************************)

\* What is popped off the empty sequence leaves it empty.
LEMMA Empty == SubSeq(<<>>, 1, Len(<<>>) - 1) = <<>>
  OBVIOUS

\* The front of a sequence.
LEMMA AllButLast ==
    ASSUME NEW S, NEW s \in Seq(S), s # <<>>
    PROVE  /\ SubSeq(s, 1, Len(s) - 1) \in Seq(S) /\ Len(SubSeq(s, 1, Len(s) - 1)) = Len(s) - 1
           /\ \A i \in 1..(Len(s) - 1) : SubSeq(s, 1, Len(s) - 1)[i] = s[i]
  <1>1. Len(s) \in Nat /\ Len(s) # 0
    OBVIOUS
  <1>2. \A i \in 1..(Len(s) - 1) : s[i] \in S
    OBVIOUS
  <1> DEFINE n == Len(s) - 1
  <1>3. n \in Nat /\ n + 1 = Len(s)
    BY <1>1
  <1> HIDE DEF n
  <1>4. SubSeq(s, 1, n) = [i \in 1..n |-> s[i]]
    BY <1>3
  <1>5. [i \in 1..n |-> s[i]] \in Seq(S)
    BY <1>2, <1>3 DEF n
  <1>6. Len([i \in 1..n |-> s[i]]) = n
    BY <1>3
  <1> QED
    BY <1>4, <1>5, <1>6 DEF n

\* A sequence with an element before it.
LEMMA Prepending ==
    ASSUME NEW S, NEW s \in Seq(S), NEW x \in S
    PROVE  /\ <<x>> \o s \in Seq(S) /\ Len(<<x>> \o s) = Len(s) + 1 /\ (<<x>> \o s)[1] = x
           /\ \A i \in 1..Len(s) : (<<x>> \o s)[i + 1] = s[i]
  OBVIOUS

\* A sequence with an element after it.
LEMMA Appending ==
    ASSUME NEW S, NEW s \in Seq(S), NEW x \in S
    PROVE  /\ Append(s, x) \in Seq(S) /\ Len(Append(s, x)) = Len(s) + 1
           /\ Append(s, x)[Len(s) + 1] = x
           /\ \A i \in 1..Len(s) : Append(s, x)[i] = s[i]
  OBVIOUS

\* One sequence after the other.
LEMMA Joining ==
    ASSUME NEW S, NEW s \in Seq(S), NEW t \in Seq(S)
    PROVE  /\ t \o s \in Seq(S) /\ Len(t \o s) = Len(t) + Len(s)
           /\ \A i \in 1..Len(t) : (t \o s)[i] = t[i]
           /\ \A i \in 1..Len(s) : (t \o s)[Len(t) + i] = s[i]
  OBVIOUS

\* A sequence over a set is one over every larger set.
LEMMA Wider ==
    ASSUME NEW S, NEW T, S \subseteq T, NEW s \in Seq(S)
    PROVE  s \in Seq(T)
  OBVIOUS

-----------------------------------------------------------------------------
(***************************************************************************)
(* FileParser: the first source among the arguments.                       *)
(***************************************************************************)

Sourced == Texts \cup {NoSource}
Passes == [skip : BOOLEAN, found : Sourced]

\* One turn of FindCFile's loop.
Turn(b, arg) ==
    IF b.found # NoSource THEN b
    ELSE IF b.skip THEN [b EXCEPT !.skip = FALSE]
    ELSE IF arg.kind = "option" THEN [b EXCEPT !.skip = TRUE]
    ELSE IF arg.kind = "c" THEN [b EXCEPT !.found = arg]
    ELSE b

\* A turn leaves skip_next a Boolean and finds an argument.
LEMMA TurnType ==
    ASSUME NEW b \in Passes, NEW arg \in Texts
    PROVE  Turn(b, arg) \in Passes
  BY DEF Turn, Passes, Sourced

\* FindCFile takes its turns one by one.
LEMMA PassRecursion ==
    ASSUME NEW args \in Seq(Texts)
    PROVE  \E f \in [0..Len(args) -> Passes] :
              /\ FindCFile(args) = f[Len(args)].found
              /\ f[0] = [skip |-> FALSE, found |-> NoSource]
              /\ \A i \in 1..Len(args) : f[i] = Turn(f[i - 1], args[i])
  <1> DEFINE base == [skip |-> FALSE, found |-> NoSource]
             n == Len(args)
             step == [i \in 1..n |-> [b \in Passes |-> Turn(b, args[i])]]
             All(f) == [i \in 0..n |-> IF i = 0 THEN base ELSE Turn(f[i - 1], args[i])]
             pass == CHOOSE f : f = All(f)
  <1>1. n \in Nat /\ base \in Passes
    BY DEF Passes, Sourced
  <1>2. step \in [1..n -> [Passes -> Passes]]
    BY TurnType
  <1>3. PICK f : Solves(f, n, Passes, base, step)
    <2> HIDE DEF step, base, n
    <2> QED
      BY <1>1, <1>2, Recursion
  <1>4. f = All(f)
    <2>1. f \in [0..n -> Passes] /\ f[0] = base /\ \A i \in 1..n : f[i] = step[i][f[i - 1]]
      BY <1>3 DEF Solves
    <2> HIDE DEF n, base
    <2>2. \A i \in 1..n : i - 1 \in 0..n
      BY <1>1
    <2>3. \A i \in 1..n : f[i] = Turn(f[i - 1], args[i])
      BY <2>1, <2>2
    <2>4. \A i \in 0..n : i = 0 \/ i \in 1..n
      BY <1>1
    <2>5. \A i \in 0..n : f[i] = IF i = 0 THEN base ELSE Turn(f[i - 1], args[i])
      BY <2>1, <2>3, <2>4
    <2> QED
      BY <2>1, <2>5
  <1>5. pass = All(pass)
    BY <1>4
  <1>6. FindCFile(args) = pass[n].found
    BY DEF FindCFile, Turn
  <1> HIDE DEF pass
  <1>7. pass[0] = base /\ pass = [i \in 0..n |-> pass[i]] /\ \A i \in 1..n : pass[i] = Turn(pass[i - 1], args[i])
    <2> HIDE DEF n, base
    <2>1. pass = [i \in 0..n |-> IF i = 0 THEN base ELSE Turn(pass[i - 1], args[i])]
      BY <1>5
    <2>2. 0 \in 0..n /\ \A i \in 1..n : i \in 0..n /\ i # 0
      BY <1>1
    <2> QED
      BY <2>1, <2>2
  <1>8. Solves(pass, n, Passes, base, step)
    <2>1. \A i \in 1..n : pass[i - 1] \in Passes => pass[i] = step[i][pass[i - 1]]
      BY <1>7
    <2> HIDE DEF step, base, n
    <2> QED
      BY <1>1, <1>2, <1>7, <2>1, Unrolled
  <1>9. pass \in [0..n -> Passes]
    BY <1>8 DEF Solves
  <1> QED
    BY <1>6, <1>7, <1>9

\* Options come in runs: what follows one is a value unless it is one itself.
LEMMA Values ==
    ASSUME NEW args \in Seq(Texts), NEW i \in Nat \ {0}
    PROVE  /\ ~IsValue(args, 1)
           /\ IsValue(args, i + 1) <=> args[i].kind = "option" /\ ~IsValue(args, i)
  <1> DEFINE Opt(j) == args[j].kind = "option"
             Run(m, k) == /\ k \in 0..(m - 1) /\ \A j \in (m - k)..(m - 1) : Opt(j)
                          /\ m - k > 1 => ~Opt(m - k - 1)
  <1>1. ASSUME NEW m \in Nat \ {0} PROVE IsValue(args, m) <=> \E k \in 0..(m - 1) : k % 2 = 1 /\ Run(m, k)
    BY DEF IsValue
  <1> HIDE DEF Opt
  <1>2. ~IsValue(args, 1)
    <2>1. \A k \in 0..(1 - 1) : k % 2 # 1
      OBVIOUS
    <2> QED
      BY <1>1, <2>1
  <1>3. ASSUME IsValue(args, i + 1) PROVE Opt(i) /\ ~IsValue(args, i)
    <2>1. PICK k \in 0..i : k % 2 = 1 /\ Run(i + 1, k)
      BY <1>1, <1>3
    <2>2. k # 0
      BY <2>1
    <2>3. Opt(i)
      BY <2>1, <2>2
    <2>4. ASSUME NEW l \in 0..(i - 1), l % 2 = 1, Run(i, l) PROVE FALSE
      <3>1. CASE l > k - 1
        <4>1. (i + 1) - k > 1 /\ (i + 1) - k - 1 \in (i - l)..(i - 1)
          BY <2>2, <3>1
        <4> QED
          BY <2>1, <2>4, <4>1
      <3>2. CASE l < k - 1
        <4>1. i - l > 1 /\ i - l - 1 \in (i + 1 - k)..(i + 1 - 1)
          BY <2>2, <3>2
        <4> QED
          BY <2>1, <2>4, <4>1
      <3>3. CASE l = k - 1
        BY <2>1, <2>2, <2>4, <3>3
      <3> QED
        BY <3>1, <3>2, <3>3
    <2>5. ~IsValue(args, i)
      BY <1>1, <2>4
    <2> QED
      BY <2>3, <2>5
  <1>4. ASSUME Opt(i), ~IsValue(args, i) PROVE IsValue(args, i + 1)
    <2> DEFINE S == {m \in 0..(i - 1) : m = i - 1 \/ ~Opt(i - 1 - m)}
    <2>1. S \in SUBSET Nat /\ i - 1 \in S
      OBVIOUS
    <2>2. PICK m \in S : \A l \in S : m <= l
      BY <2>1, Least
    <2>3. m \in 0..(i - 1) /\ (m = i - 1 \/ ~Opt(i - 1 - m))
      OBVIOUS
    <2>4. ASSUME NEW j \in (i - m)..(i - 1) PROVE Opt(j)
      <3>1. i - 1 - j \in 0..(i - 1) /\ i - 1 - j < m /\ i - 1 - (i - 1 - j) = j
        BY <2>3
      <3>2. ASSUME i - 1 - j \in S PROVE FALSE
        <4> HIDE DEF S
        <4>1. m <= i - 1 - j
          BY <2>2, <3>2
        <4> QED
          BY <2>3, <3>1, <4>1
      <3> QED
        BY <3>1, <3>2
    <2> HIDE DEF S
    <2>5. Run(i, m)
      BY <2>3, <2>4
    <2>6. m % 2 = 0
      BY <1>1, <1>4, <2>3, <2>5
    <2>7. (m + 1) % 2 = 1 /\ m + 1 \in 0..((i + 1) - 1)
      BY <2>3, <2>6
    <2>8. Run(i + 1, m + 1)
      <3>1. \A j \in ((i + 1) - (m + 1))..((i + 1) - 1) : j = i \/ j \in (i - m)..(i - 1)
        BY <2>3
      <3>2. \A j \in ((i + 1) - (m + 1))..((i + 1) - 1) : Opt(j)
        BY <1>4, <2>4, <3>1
      <3>3. (i + 1) - (m + 1) = i - m /\ (i + 1) - (m + 1) - 1 = i - m - 1 /\ i - m - 1 = i - 1 - m
        BY <2>3
      <3>4. (i + 1) - (m + 1) > 1 => ~Opt((i + 1) - (m + 1) - 1)
        BY <2>3, <3>3
      <3> QED
        BY <2>7, <3>2, <3>4
    <2> HIDE DEF Run
    <2>9. i + 1 \in Nat \ {0}
      OBVIOUS
    <2> QED
      BY <1>1, <2>7, <2>8, <2>9
  <1> QED
    BY <1>2, <1>3, <1>4 DEF Opt

\* Before the i-th argument is read, skip_next is set iff it is the value of an option, and
\* what has been found is the first source so far.
LEMMA FirstC ==
    ASSUME NEW args \in Seq(Texts)
    PROVE  \/ FindCFile(args) = NoSource /\ \A i \in DOMAIN args : ~Source(args, i, "c")
           \/ /\ FindCFile(args) # NoSource
              /\ \E i \in DOMAIN args : IsFirst(args, "c", i) /\ FindCFile(args) = args[i]
  <1> DEFINE n == Len(args)
             Before(i) == \A j \in 1..i : ~Source(args, j, "c")
             Inv(b, i) == IF b.found = NoSource
                          THEN (b.skip <=> IsValue(args, i + 1)) /\ Before(i)
                          ELSE \E j \in 1..i : IsFirst(args, "c", j) /\ b.found = args[j]
  <1>1. PICK f \in [0..n -> Passes] :
              /\ FindCFile(args) = f[n].found
              /\ f[0] = [skip |-> FALSE, found |-> NoSource]
              /\ \A i \in 1..n : f[i] = Turn(f[i - 1], args[i])
    BY PassRecursion
  <1>2. n \in Nat /\ DOMAIN args = 1..n /\ \A i \in 1..n : args[i] \in Texts
    OBVIOUS
  <1> HIDE DEF n
  <1>3. Inv(f[0], 0)
    <2>1. ~IsValue(args, 0 + 1)
      BY Values
    <2> QED
      BY <1>1, <2>1
  <1>4. ASSUME NEW i \in 1..n, Inv(f[i - 1], i - 1) PROVE Inv(f[i], i)
    <2> DEFINE b == f[i - 1]
    <2>1. i \in Nat \ {0} /\ (i - 1) + 1 = i /\ i - 1 \in 0..n /\ args[i] \in Texts /\ b \in Passes
      BY <1>1, <1>2
    <2>2. f[i] = Turn(b, args[i])
      BY <1>1
    <2>3. IsValue(args, i + 1) <=> args[i].kind = "option" /\ ~IsValue(args, i)
      BY <2>1, Values
    <2>4. Inv(b, i - 1)
      BY <1>4
    <2> HIDE DEF b
    <2>5. CASE b.found # NoSource
      <3>1. f[i] = b
        BY <2>2, <2>5 DEF Turn
      <3>2. PICK j \in 1..(i - 1) : IsFirst(args, "c", j) /\ b.found = args[j]
        BY <2>4, <2>5
      <3>3. j \in 1..i
        BY <2>1
      <3> QED
        BY <2>5, <3>1, <3>2, <3>3
    <2>6. CASE b.found = NoSource
      <3>1. (b.skip <=> IsValue(args, i)) /\ Before(i - 1)
        BY <2>1, <2>4, <2>6
      <3>2. ASSUME ~Source(args, i, "c") PROVE Before(i)
        <4>1. \A j \in 1..i : j = i \/ j \in 1..(i - 1)
          BY <2>1
        <4> QED
          BY <3>1, <3>2, <4>1
      <3> HIDE DEF Before
      <3>3. CASE b.skip
        <4>1. f[i] = [b EXCEPT !.skip = FALSE]
          BY <2>2, <2>6, <3>3 DEF Turn
        <4>2. f[i].found = NoSource /\ f[i].skip = FALSE
          BY <2>1, <2>6, <4>1 DEF Passes
        <4>3. ~Source(args, i, "c")
          BY <3>1, <3>3 DEF Source
        <4> QED
          BY <2>3, <3>1, <3>2, <3>3, <4>2, <4>3
      <3>4. CASE ~b.skip /\ args[i].kind = "option"
        <4>1. f[i] = [b EXCEPT !.skip = TRUE]
          BY <2>2, <2>6, <3>4 DEF Turn
        <4>2. f[i].found = NoSource /\ f[i].skip = TRUE
          BY <2>1, <2>6, <4>1 DEF Passes
        <4>3. ~Source(args, i, "c")
          BY <3>4 DEF Source
        <4> QED
          BY <2>3, <3>1, <3>2, <3>4, <4>2, <4>3
      <3>5. CASE ~b.skip /\ args[i].kind = "c"
        <4>1. f[i] = [b EXCEPT !.found = args[i]]
          BY <2>2, <2>6, <3>5 DEF Turn
        <4>2. f[i].found = args[i] /\ args[i] # NoSource
          BY <2>1, <3>5, <4>1 DEF Passes, NoSource
        <4>3. Source(args, i, "c")
          BY <3>1, <3>5 DEF Source
        <4>4. IsFirst(args, "c", i) /\ i \in 1..i
          BY <1>2, <2>1, <3>1, <4>3 DEF IsFirst, Before
        <4> QED
          BY <4>2, <4>4
      <3>6. CASE ~b.skip /\ args[i].kind \notin {"option", "c"}
        <4>1. f[i] = b
          BY <2>2, <2>6, <3>6 DEF Turn
        <4>2. ~Source(args, i, "c")
          BY <3>6 DEF Source
        <4> QED
          BY <2>3, <2>6, <3>1, <3>2, <3>6, <4>1, <4>2
      <3> QED
        BY <3>3, <3>4, <3>5, <3>6
    <2> QED
      BY <2>5, <2>6
  <1> HIDE DEF Inv
  <1>5. \A i \in 0..n : Inv(f[i], i)
    <2> DEFINE S == {i \in 0..n : Inv(f[i], i)}
    <2>1. 0 \in S /\ \A i \in 1..n : i - 1 \in S => i \in S
      BY <1>2, <1>3, <1>4
    <2> HIDE DEF S
    <2>2. \A i \in 0..n : i \in S
      BY <1>2, <2>1, UpTo
    <2> QED
      BY <2>2 DEF S
  <1>6. Inv(f[n], n)
    BY <1>2, <1>5
  <1> QED
    BY <1>1, <1>2, <1>6 DEF Inv

\* FindPythonFile finds the first script, unless there is a module.
LEMMA FirstPy ==
    ASSUME NEW args \in Seq(Texts)
    PROVE  LET module == \E i \in DOMAIN args : args[i].kind = "module"
           IN  \/ /\ FindPythonFile(args) = NoSource
                  /\ module \/ \A i \in DOMAIN args : ~Source(args, i, "py")
               \/ /\ FindPythonFile(args) # NoSource /\ ~module
                  /\ \E i \in DOMAIN args : IsFirst(args, "py", i) /\ FindPythonFile(args) = args[i]
  <1> DEFINE scripts == {i \in DOMAIN args : args[i].kind = "py"}
  <1>1. DOMAIN args \in SUBSET Nat /\ \A i \in DOMAIN args : Source(args, i, "py") <=> i \in scripts
    BY DEF Source
  <1>2. CASE scripts = {} \/ \E i \in DOMAIN args : args[i].kind = "module"
    BY <1>1, <1>2 DEF FindPythonFile
  <1>3. CASE scripts # {} /\ ~\E i \in DOMAIN args : args[i].kind = "module"
    <2> DEFINE i == CHOOSE i \in scripts : \A j \in scripts : i <= j
    <2>1. scripts \in SUBSET Nat
      BY <1>1
    <2>2. i \in scripts /\ \A j \in scripts : i <= j
      <3> HIDE DEF scripts
      <3> QED
        BY <1>3, <2>1, Least
    <2>3. FindPythonFile(args) = args[i]
      BY <1>3 DEF FindPythonFile
    <2> HIDE DEF i
    <2>4. args[i] # NoSource
      BY <2>2 DEF NoSource
    <2>5. ASSUME NEW j \in 1..(i - 1), Source(args, j, "py") PROVE FALSE
      <3>1. i \in 1..Len(args)
        BY <2>2
      <3>2. j \in DOMAIN args /\ j < i
        BY <3>1
      <3> QED
        BY <1>1, <2>1, <2>2, <2>5, <3>2
    <2>6. IsFirst(args, "py", i)
      BY <1>1, <2>2, <2>5 DEF IsFirst
    <2> QED
      BY <1>3, <2>2, <2>3, <2>4, <2>6
  <1> QED
    BY <1>2, <1>3
-----------------------------------------------------------------------------
(***************************************************************************)
(* bpf.c: what is captured of a path.                                      *)
(***************************************************************************)

\* The names of dentries, and what is kept of them.
Dentries == Names \ {".."}
Kepts == Dentries \cup {"cut"}

\* The length of a path is summed up name by name.
LEMMA LengthRecursion ==
    ASSUME NEW path \in Seq(Names)
    PROVE  \E f \in [0..Len(path) -> Nat] :
              /\ Length(path) = f[Len(path)]
              /\ f[0] = 0
              /\ \A i \in 1..Len(path) : f[i] = f[i - 1] + KeptLen(path[i]) + 1
  <1> DEFINE n == Len(path)
             step == [i \in 1..n |-> [x \in Nat |-> x + KeptLen(path[i]) + 1]]
             All(f) == [i \in 0..n |-> IF i = 0 THEN 0 ELSE f[i - 1] + KeptLen(path[i]) + 1]
             sum == CHOOSE f : f = All(f)
  <1>1. n \in Nat
    OBVIOUS
  <1>2. step \in [1..n -> [Nat -> Nat]]
    <2>1. ASSUME NEW i \in 1..n PROVE KeptLen(path[i]) \in Nat
      <3>1. path[i] \in Names
        OBVIOUS
      <3>2. NameLen[path[i]] \in Nat \ {0}
        BY <3>1, PipelineAssumption
      <3> QED
        BY <3>2, PipelineAssumption DEF KeptLen
    <2> QED
      BY <2>1
  <1>3. PICK f : Solves(f, n, Nat, 0, step)
    <2> HIDE DEF step, n
    <2> QED
      BY <1>1, <1>2, Recursion
  <1>4. f = All(f)
    <2>1. f \in [0..n -> Nat] /\ f[0] = 0 /\ \A i \in 1..n : f[i] = step[i][f[i - 1]]
      BY <1>3 DEF Solves
    <2> HIDE DEF n
    <2>2. \A i \in 1..n : i - 1 \in 0..n
      BY <1>1
    <2>3. \A i \in 1..n : f[i] = f[i - 1] + KeptLen(path[i]) + 1
      BY <2>1, <2>2
    <2>4. \A i \in 0..n : i = 0 \/ i \in 1..n
      BY <1>1
    <2>5. \A i \in 0..n : f[i] = IF i = 0 THEN 0 ELSE f[i - 1] + KeptLen(path[i]) + 1
      BY <2>1, <2>3, <2>4
    <2> QED
      BY <2>1, <2>5
  <1>5. sum = All(sum)
    BY <1>4
  <1>6. Length(path) = sum[n]
    BY DEF Length
  <1> HIDE DEF sum
  <1>7. sum[0] = 0 /\ sum = [i \in 0..n |-> sum[i]] /\ \A i \in 1..n : sum[i] = sum[i - 1] + KeptLen(path[i]) + 1
    <2> HIDE DEF n
    <2>1. sum = [i \in 0..n |-> IF i = 0 THEN 0 ELSE sum[i - 1] + KeptLen(path[i]) + 1]
      BY <1>5
    <2>2. 0 \in 0..n /\ \A i \in 1..n : i \in 0..n /\ i # 0
      BY <1>1
    <2> QED
      BY <2>1, <2>2
  <1>8. Solves(sum, n, Nat, 0, step)
    <2>1. \A i \in 1..n : sum[i - 1] \in Nat => sum[i] = step[i][sum[i - 1]]
      BY <1>7
    <2> HIDE DEF step, n
    <2> QED
      BY <1>1, <1>2, <1>7, <2>1, Unrolled
  <1>9. sum \in [0..n -> Nat]
    BY <1>8 DEF Solves
  <1> QED
    BY <1>6, <1>7, <1>9

Walks(path) ==
    [left : 0..Len(path), got : Seq(Kepts), pos : Int,
     flags : SUBSET {"DNAME_TOO_LONG", "DENTRY_TOO_DEEP"}, on : BOOLEAN]

\* One turn of get_dentry_path's loop.
Climb(path, i, w) ==
    LET name == path[w.left]
    IN  IF ~w.on \/ w.left = 0
        THEN [w EXCEPT !.on = FALSE]
        ELSE IF NameLen[name] > MaxName
        THEN Stop(w, "DNAME_TOO_LONG")
        ELSE IF w.pos - KeptLen(name) - 1 < 0
        THEN [w EXCEPT !.on = FALSE]
        ELSE [left |-> w.left - 1,
              got |-> <<Kept(name)>> \o w.got,
              pos |-> w.pos - KeptLen(name) - 1,
              flags |-> IF i = MaxLevel /\ w.left > 1
                        THEN w.flags \cup {"DENTRY_TOO_DEEP"}
                        ELSE w.flags,
              on |-> TRUE]

\* A name is kept, or is cut if it has MaxName characters.
LEMMA KeptType ==
    ASSUME NEW name \in Dentries
    PROVE  /\ Kept(name) \in Kepts /\ KeptLen(name) \in Nat
           /\ Kept(name) = name \/ (Kept(name) = "cut" /\ NameLen[name] = MaxName)
  <1>1. name \in Names /\ NameLen[name] \in Nat \ {0}
    BY PipelineAssumption DEF Dentries
  <1>2. KeptLen(name) \in Nat
    <2> DEFINE l == NameLen[name]
    <2> HIDE DEF l
    <2>1. l \in Nat \ {0} /\ MaxName \in Nat /\ KeptLen(name) = IF l = MaxName THEN MaxName - 1 ELSE l
      BY <1>1, PipelineAssumption DEF KeptLen, l
    <2>2. CASE l = MaxName
      <3>1. KeptLen(name) = MaxName - 1 /\ MaxName \in Nat \ {0}
        BY <2>1, <2>2
      <3> QED
        BY <3>1
    <2>3. CASE l # MaxName
      BY <2>1, <2>3
    <2> QED
      BY <2>2, <2>3
  <1>3. Kept(name) \in {name, "cut"} /\ (Kept(name) = name \/ (Kept(name) = "cut" /\ NameLen[name] = MaxName))
    <2>1. CASE NameLen[name] = MaxName
      BY <2>1 DEF Kept
    <2>2. CASE NameLen[name] # MaxName
      BY <2>2 DEF Kept
    <2> QED
      BY <2>1, <2>2
  <1> QED
    BY <1>2, <1>3 DEF Kepts

\* A turn of the walk keeps its types.
LEMMA ClimbType ==
    ASSUME NEW path \in Seq(Dentries), NEW i \in Nat, NEW w \in Walks(path)
    PROVE  Climb(path, i, w) \in Walks(path)
  <1> DEFINE name == path[w.left]
  <1>1. w.left \in 0..Len(path) /\ w.pos \in Int /\ w.got \in Seq(Kepts)
        /\ w.flags \in SUBSET {"DNAME_TOO_LONG", "DENTRY_TOO_DEEP"} /\ w.on \in BOOLEAN
    BY DEF Walks
  <1>2. CASE ~w.on \/ w.left = 0
    BY <1>2 DEF Climb, Walks
  <1>3. CASE w.on /\ w.left # 0
    <2>1. name \in Dentries /\ w.left - 1 \in 0..Len(path)
      BY <1>1, <1>3
    <2>2. Kept(name) \in Kepts /\ KeptLen(name) \in Nat
      BY <2>1, KeptType
    <2>3. CASE NameLen[name] > MaxName
      BY <1>3, <2>3 DEF Climb, Stop, Walks
    <2>4. CASE ~(NameLen[name] > MaxName) /\ w.pos - KeptLen(name) - 1 < 0
      BY <1>3, <2>4 DEF Climb, Walks
    <2>5. CASE ~(NameLen[name] > MaxName) /\ ~(w.pos - KeptLen(name) - 1 < 0)
      <3>1. <<Kept(name)>> \o w.got \in Seq(Kepts)
        BY <1>1, <2>2, Prepending
      <3>2. w.pos - KeptLen(name) - 1 \in Int
        BY <1>1, <2>2
      <3> QED
        BY <1>1, <1>3, <2>1, <2>5, <3>1, <3>2 DEF Climb, Walks
    <2> QED
      BY <2>3, <2>4, <2>5
  <1> QED
    BY <1>1, <1>2, <1>3

\* Walk takes its turns one by one.
LEMMA WalkRecursion ==
    ASSUME NEW path \in Seq(Dentries)
    PROVE  \E f \in [0..MaxLevel -> Walks(path)] :
              /\ Walk(path) = f[MaxLevel]
              /\ f[0] = [left |-> Len(path), got |-> <<>>, pos |-> BufSize - 1,
                         flags |-> {}, on |-> TRUE]
              /\ \A i \in 1..MaxLevel : f[i] = Climb(path, i, f[i - 1])
  <1> DEFINE n == MaxLevel
             base == [left |-> Len(path), got |-> <<>>, pos |-> BufSize - 1,
                      flags |-> {}, on |-> TRUE]
             step == [i \in 1..n |-> [w \in Walks(path) |-> Climb(path, i, w)]]
             All(f) == [i \in 0..n |-> IF i = 0 THEN base ELSE Climb(path, i, f[i - 1])]
             walk == CHOOSE f : f = All(f)
  <1>1. n \in Nat /\ base \in Walks(path)
    <2>1. Len(path) \in Nat /\ <<>> \in Seq(Kepts) /\ BufSize - 1 \in Int
      BY PipelineAssumption
    <2> QED
      BY <2>1, PipelineAssumption DEF Walks
  <1>2. step \in [1..n -> [Walks(path) -> Walks(path)]]
    BY <1>1, ClimbType
  <1>3. PICK f : Solves(f, n, Walks(path), base, step)
    <2> HIDE DEF step, base, n
    <2> QED
      BY <1>1, <1>2, Recursion
  <1>4. f = All(f)
    <2>1. f \in [0..n -> Walks(path)] /\ f[0] = base /\ \A i \in 1..n : f[i] = step[i][f[i - 1]]
      BY <1>3 DEF Solves
    <2> HIDE DEF n, base
    <2>2. \A i \in 1..n : i - 1 \in 0..n
      BY <1>1
    <2>3. \A i \in 1..n : f[i] = Climb(path, i, f[i - 1])
      BY <2>1, <2>2
    <2>4. \A i \in 0..n : i = 0 \/ i \in 1..n
      BY <1>1
    <2>5. \A i \in 0..n : f[i] = IF i = 0 THEN base ELSE Climb(path, i, f[i - 1])
      BY <2>1, <2>3, <2>4
    <2> QED
      BY <2>1, <2>5
  <1>5. walk = All(walk)
    BY <1>4
  <1>6. Walk(path) = walk[n]
    BY DEF Walk, Climb
  <1> HIDE DEF walk
  <1>7. walk[0] = base /\ walk = [i \in 0..n |-> walk[i]] /\ \A i \in 1..n : walk[i] = Climb(path, i, walk[i - 1])
    <2> HIDE DEF n, base
    <2>1. walk = [i \in 0..n |-> IF i = 0 THEN base ELSE Climb(path, i, walk[i - 1])]
      BY <1>5
    <2>2. 0 \in 0..n /\ \A i \in 1..n : i \in 0..n /\ i # 0
      BY <1>1
    <2> QED
      BY <2>1, <2>2
  <1>8. Solves(walk, n, Walks(path), base, step)
    <2>1. \A i \in 1..n : walk[i - 1] \in Walks(path) => walk[i] = step[i][walk[i - 1]]
      BY <1>7
    <2> HIDE DEF step, base, n
    <2> QED
      BY <1>1, <1>2, <1>7, <2>1, Unrolled
  <1>9. walk \in [0..n -> Walks(path)]
    BY <1>8 DEF Solves
  <1> QED
    BY <1>6, <1>7, <1>9

\* What is captured of a path is its end, and all of it when nothing is flagged and there
\* is room.
LEMMA WalkIsSound ==
    ASSUME NEW path \in Seq(Dentries)
    PROVE  LET w == Walk(path)
           IN  /\ w.got \in Seq(Kepts) /\ EndOf(w.got, path)
               /\ w.flags \subseteq {"DNAME_TOO_LONG", "DENTRY_TOO_DEEP"}
               /\ w.flags = {} /\ Length(path) < BufSize => Len(w.got) = Len(path)
  <1> DEFINE n == Len(path)
             l == MaxLevel
             size == BufSize
  <1>1. PICK f \in [0..l -> Walks(path)] :
              /\ Walk(path) = f[l]
              /\ f[0] = [left |-> n, got |-> <<>>, pos |-> size - 1,
                         flags |-> {}, on |-> TRUE]
              /\ \A i \in 1..l : f[i] = Climb(path, i, f[i - 1])
    BY WalkRecursion
  <1>2. PICK sum \in [0..n -> Nat] :
              /\ Length(path) = sum[n]
              /\ sum[0] = 0
              /\ \A i \in 1..n : sum[i] = sum[i - 1] + KeptLen(path[i]) + 1
    <2>1. path \in Seq(Names)
      BY Wider DEF Dentries
    <2> QED
      BY <2>1, LengthRecursion
  <1>3. n \in Nat /\ l \in Nat \ {0} /\ size \in Nat \ {0} /\ \A i \in 1..n : path[i] \in Dentries
    BY PipelineAssumption
  <1> DEFINE Ends(w) == /\ Len(w.got) = n - w.left
                        /\ \A i \in 1..Len(w.got) : w.got[i] = Kept(path[w.left + i])
             Sums(w) == w.pos = size - 1 - (sum[n] - sum[w.left])
             Goes(w, i) == w.flags = {} /\ sum[n] < size => w.left = 0 \/ (w.on /\ i < l)
             Inv(w, i) == Ends(w) /\ Sums(w) /\ Goes(w, i)
  <1> HIDE DEF n, l, size
  <1>4. Inv(f[0], 0)
    <2> DEFINE w == f[0]
    <2>1. w.left = n /\ w.got = <<>> /\ w.pos = size - 1 /\ w.on = TRUE
      BY <1>1
    <2>2. Len(w.got) = 0 /\ n \in 0..n /\ sum[n] \in Nat
      BY <1>3, <2>1
    <2> HIDE DEF w
    <2>3. Ends(w)
      BY <1>3, <2>1, <2>2
    <2>4. Sums(w)
      BY <1>3, <2>1, <2>2
    <2>5. Goes(w, 0)
      BY <1>3, <2>1
    <2> QED
      BY <2>3, <2>4, <2>5 DEF w
  <1>5. ASSUME NEW i \in 1..l, Inv(f[i - 1], i - 1) PROVE Inv(f[i], i)
    <2> DEFINE w == f[i - 1]
               v == f[i]
               name == path[w.left]
    <2>1. i - 1 \in 0..l /\ w \in Walks(path) /\ v \in Walks(path) /\ v = Climb(path, i, w)
      BY <1>1, <1>3
    <2>2. Ends(w) /\ Sums(w) /\ Goes(w, i - 1)
      BY <1>5
    <2> HIDE DEF w, v
    <2>3. w.left \in 0..n /\ w.got \in Seq(Kepts) /\ w.pos \in Int /\ w.on \in BOOLEAN
      BY <2>1 DEF Walks, n
    <2> SUFFICES Inv(v, i)
      BY DEF v
    <2>4. CASE w.left = 0
      <3>1. v = [w EXCEPT !.on = FALSE]
        BY <2>1, <2>4 DEF Climb
      <3>2. v.left = 0 /\ v.got = w.got /\ v.pos = w.pos
        BY <2>1, <2>4, <3>1 DEF Walks
      <3> QED
        BY <2>2, <2>4, <3>2
    <2>5. CASE w.left # 0 /\ ~w.on
      <3>1. v = [w EXCEPT !.on = FALSE]
        BY <2>1, <2>5 DEF Climb
      <3>2. v.left = w.left /\ v.got = w.got /\ v.pos = w.pos /\ v.flags = w.flags
        BY <2>1, <3>1 DEF Walks
      <3> QED
        BY <2>2, <2>5, <3>2
    <2>6. CASE w.left # 0 /\ w.on
      <3>0. w.left \in 0..n /\ w.left # 0 /\ n \in Nat
        BY <1>3, <2>3, <2>6
      <3>1. w.left \in 1..n /\ w.left - 1 \in 0..n /\ name \in Dentries
        <4>1. w.left \in 1..n /\ w.left - 1 \in 0..n
          BY <3>0
        <4> QED
          BY <1>3, <4>1
      <3>2. Kept(name) \in Kepts /\ KeptLen(name) \in Nat
        BY <3>1, KeptType
      <3>3. sum[w.left] = sum[w.left - 1] + KeptLen(name) + 1 /\ sum[w.left - 1] \in Nat /\ sum[n] \in Nat
        <4>1. n \in 0..n /\ w.left \in 1..n /\ w.left - 1 \in 0..n
          BY <1>3, <3>1
        <4> QED
          BY <1>2, <4>1
      <3> HIDE DEF name
      <3>4. CASE NameLen[name] > MaxName
        <4>1. v = Stop(w, "DNAME_TOO_LONG")
          BY <2>1, <2>6, <3>4 DEF Climb, name
        <4>2. v.left = w.left /\ v.got = w.got /\ v.pos = w.pos /\ v.flags # {}
          BY <2>1, <4>1 DEF Walks, Stop
        <4> QED
          BY <2>2, <4>2
      <3>5. CASE ~(NameLen[name] > MaxName) /\ w.pos - KeptLen(name) - 1 < 0
        <4>1. v = [w EXCEPT !.on = FALSE]
          BY <2>1, <2>6, <3>5 DEF Climb, name
        <4>2. v.left = w.left /\ v.got = w.got /\ v.pos = w.pos
          BY <2>1, <4>1 DEF Walks
        <4>3. w.pos = size - 1 - (sum[n] - sum[w.left])
          BY <2>2
        <4>4. w.pos = size - 1 - (sum[n] - (sum[w.left - 1] + KeptLen(name) + 1)) /\ size \in Nat
          BY <1>3, <3>3, <4>3
        <4>5. w.pos - KeptLen(name) - 1 < 0
          BY <3>5
        <4>6. ~(sum[n] < size)
          <5> DEFINE p == w.pos  k == KeptLen(name)  a == sum[w.left - 1]  t == sum[n]
          <5>1. p \in Int /\ k \in Nat /\ a \in Nat /\ t \in Nat /\ p = size - 1 - (t - (a + k + 1))
            BY <2>3, <3>2, <3>3, <4>4
          <5>2. p - k - 1 < 0 /\ size \in Nat
            BY <4>4, <4>5
          <5> HIDE DEF p, k, a, t
          <5>3. ~(t < size)
            BY <5>1, <5>2
          <5> QED
            BY <5>3 DEF t
        <4> QED
          BY <2>2, <4>2, <4>6
      <3>6. CASE ~(NameLen[name] > MaxName) /\ ~(w.pos - KeptLen(name) - 1 < 0)
        <4>1. /\ v.left = w.left - 1 /\ v.got = <<Kept(name)>> \o w.got
              /\ v.pos = w.pos - KeptLen(name) - 1 /\ v.on = TRUE
              /\ i = l /\ w.left > 1 => v.flags # {}
          <5>1. v = [left |-> w.left - 1, got |-> <<Kept(name)>> \o w.got,
                     pos |-> w.pos - KeptLen(name) - 1,
                     flags |-> IF i = l /\ w.left > 1 THEN w.flags \cup {"DENTRY_TOO_DEEP"}
                               ELSE w.flags,
                     on |-> TRUE]
            BY <2>1, <2>6, <3>6 DEF Climb, name, l
          <5>2. v.flags = IF i = l /\ w.left > 1 THEN w.flags \cup {"DENTRY_TOO_DEEP"} ELSE w.flags
            BY <5>1
          <5> QED
            BY <5>1, <5>2
        <4>2. /\ Len(v.got) = Len(w.got) + 1 /\ v.got[1] = Kept(name)
              /\ \A j \in 1..Len(w.got) : v.got[j + 1] = w.got[j]
          <5> DEFINE g == w.got  x == Kept(name)
          <5>1. g \in Seq(Kepts) /\ x \in Kepts /\ v.got = <<x>> \o g
            BY <2>3, <3>2, <4>1
          <5> HIDE DEF g, x
          <5>2. /\ Len(v.got) = Len(g) + 1 /\ v.got[1] = x
                /\ \A j \in 1..Len(g) : v.got[j + 1] = g[j]
            BY <5>1, Prepending
          <5> QED
            BY <5>2 DEF g, x
        <4>3. Len(v.got) = n - v.left
          BY <1>3, <2>2, <2>3, <4>1, <4>2
        <4>4. ASSUME NEW j \in 1..Len(v.got) PROVE v.got[j] = Kept(path[v.left + j])
          <5>1. CASE j = 1
            <6>1. v.left + 1 = w.left
              BY <2>3, <4>1
            <6> QED
              BY <4>2, <5>1, <6>1 DEF name
          <5>2. CASE j # 1
            <6>0. j \in 1..(Len(w.got) + 1) /\ Len(w.got) \in Nat
              BY <2>3, <4>2
            <6>1. j - 1 \in 1..Len(w.got) /\ (j - 1) + 1 = j
              BY <5>2, <6>0
            <6>2. w.left + (j - 1) = v.left + j
              BY <2>3, <4>1, <6>0
            <6>3. v.got[j] = w.got[j - 1]
              BY <4>2, <6>1
            <6>4. w.got[j - 1] = Kept(path[w.left + (j - 1)])
              BY <2>2, <6>1
            <6> QED
              BY <6>2, <6>3, <6>4
          <5> QED
            BY <5>1, <5>2
        <4>5. Ends(v)
          BY <4>3, <4>4
        <4>6. Sums(v)
          <5>1. w.pos = size - 1 - (sum[n] - sum[w.left])
            BY <2>2
          <5>2. w.pos = size - 1 - (sum[n] - (sum[w.left - 1] + KeptLen(name) + 1)) /\ size \in Nat
            BY <1>3, <3>3, <5>1
          <5> DEFINE p == w.pos  k == KeptLen(name)  a == sum[w.left - 1]  t == sum[n]
          <5>3. p \in Int /\ k \in Nat /\ a \in Nat /\ t \in Nat /\ p = size - 1 - (t - (a + k + 1))
            BY <2>3, <3>2, <3>3, <5>2
          <5>4. p - k - 1 = size - 1 - (t - a)
            <6> HIDE DEF p, k, a, t
            <6> QED
              BY <5>2, <5>3
          <5> QED
            BY <4>1, <5>4
        <4>7. Goes(v, i)
          BY <1>3, <2>3, <3>1, <4>1
        <4> QED
          BY <4>5, <4>6, <4>7
      <3> QED
        BY <3>4, <3>5, <3>6
    <2> QED
      BY <2>3, <2>4, <2>5, <2>6
  <1> HIDE DEF Inv
  <1>6. \A i \in 0..l : Inv(f[i], i)
    <2> DEFINE S == {i \in 0..l : Inv(f[i], i)}
    <2>1. 0 \in S /\ \A i \in 1..l : i - 1 \in S => i \in S
      BY <1>3, <1>4, <1>5
    <2> HIDE DEF S
    <2>2. \A i \in 0..l : i \in S
      BY <1>3, <2>1, UpTo
    <2> QED
      BY <2>2 DEF S
  <1> DEFINE w == f[l]
  <1>7. Inv(w, l) /\ w \in Walks(path) /\ w = Walk(path)
    BY <1>1, <1>3, <1>6
  <1> HIDE DEF w
  <1>8. /\ w.left \in 0..n /\ w.got \in Seq(Kepts)
        /\ w.flags \subseteq {"DNAME_TOO_LONG", "DENTRY_TOO_DEEP"}
    BY <1>7 DEF Walks, n
  <1>9. EndOf(w.got, path)
    <2>1. Len(w.got) = n - w.left /\ \A i \in 1..Len(w.got) : w.got[i] = Kept(path[w.left + i])
      BY <1>7 DEF Inv
    <2>2. Len(path) - Len(w.got) = w.left /\ DOMAIN w.got = 1..Len(w.got)
      BY <1>3, <1>8, <2>1 DEF n
    <2>3. ASSUME NEW i \in 1..Len(w.got) PROVE path[w.left + i] \in Dentries
      <3>1. i \in 1..(n - w.left) /\ w.left \in 0..n /\ n \in Nat
        BY <1>3, <1>8, <2>1
      <3>2. w.left + i \in 1..n
        BY <3>1
      <3> QED
        BY <1>3, <3>2
    <2>4. ASSUME NEW i \in 1..Len(w.got)
          PROVE  \/ w.got[i] = path[w.left + i]
                 \/ w.got[i] = "cut" /\ NameLen[path[w.left + i]] = MaxName
      <3> DEFINE name == path[w.left + i]
      <3>1. w.got[i] = Kept(name) /\ name \in Dentries
        BY <2>1, <2>3
      <3> HIDE DEF name
      <3>2. w.got[i] = name \/ (w.got[i] = "cut" /\ NameLen[name] = MaxName)
        BY <3>1, KeptType
      <3> QED
        BY <3>2 DEF name
    <2>5. w.left >= 0
      BY <1>3, <1>8
    <2> QED
      BY <2>2, <2>4, <2>5 DEF EndOf
  <1>10. w.flags = {} /\ Length(path) < BufSize => Len(w.got) = Len(path)
    BY <1>2, <1>3, <1>7, <1>8 DEF Inv, size, n
  <1> QED
    BY <1>7, <1>8, <1>9, <1>10
-----------------------------------------------------------------------------
(***************************************************************************)
(* PathParser: normalisation, and the assignment of a path.                *)
(***************************************************************************)

\* What a captured path, or one an argument makes of it, is made of.
Parts == Names \cup {"cut"}

\* One turn of the normalisation.
Push(s, name) ==
    IF name # ".." THEN Append(s, name) ELSE SubSeq(s, 1, Len(s) - 1)

\* A turn of the normalisation leaves no "..".
LEMMA PushType ==
    ASSUME NEW s \in Seq(Kepts), NEW name \in Parts
    PROVE  Push(s, name) \in Seq(Kepts)
  <1>1. CASE name # ".."
    <2>1. name \in Kepts
      BY <1>1 DEF Kepts, Parts, Dentries
    <2> QED
      BY <1>1, <2>1, Appending DEF Push
  <1>2. CASE name = ".." /\ s # <<>>
    BY <1>2, AllButLast DEF Push
  <1>3. CASE name = ".." /\ s = <<>>
    <2>1. <<>> \in Seq(Kepts)
      OBVIOUS
    <2> QED
      BY <1>3, <2>1, Empty DEF Push
  <1> QED
    BY <1>1, <1>2, <1>3

\* Normalize takes its turns one by one.
LEMMA NormRecursion ==
    ASSUME NEW path \in Seq(Parts)
    PROVE  \E f \in [0..Len(path) -> Seq(Kepts)] :
              /\ Normalize(path) = f[Len(path)]
              /\ f[0] = <<>>
              /\ \A i \in 1..Len(path) : f[i] = Push(f[i - 1], path[i])
  <1> DEFINE n == Len(path)
             base == <<>>
             step == [i \in 1..n |-> [s \in Seq(Kepts) |-> Push(s, path[i])]]
             All(f) == [i \in 0..n |-> IF i = 0 THEN base ELSE Push(f[i - 1], path[i])]
             norm == CHOOSE f : f = [i \in 0..n |->
                        IF i = 0 THEN <<>>
                        ELSE IF path[i] # ".." THEN Append(f[i - 1], path[i])
                        ELSE SubSeq(f[i - 1], 1, Len(f[i - 1]) - 1)]
  <1>1. n \in Nat /\ base \in Seq(Kepts)
    OBVIOUS
  <1>2. step \in [1..n -> [Seq(Kepts) -> Seq(Kepts)]]
    <2>1. \A i \in 1..n : path[i] \in Parts
      OBVIOUS
    <2> HIDE DEF n
    <2> QED
      BY <1>1, <2>1, PushType
  <1>3. PICK f : Solves(f, n, Seq(Kepts), base, step)
    <2> HIDE DEF step, base, n
    <2> QED
      BY <1>1, <1>2, Recursion
  <1>4. f = All(f)
    <2>1. f \in [0..n -> Seq(Kepts)] /\ f[0] = base /\ \A i \in 1..n : f[i] = step[i][f[i - 1]]
      BY <1>3 DEF Solves
    <2> HIDE DEF n, base
    <2>2. \A i \in 1..n : i - 1 \in 0..n
      BY <1>1
    <2>3. \A i \in 1..n : f[i] = Push(f[i - 1], path[i])
      BY <2>1, <2>2
    <2>4. \A i \in 0..n : i = 0 \/ i \in 1..n
      BY <1>1
    <2>5. \A i \in 0..n : f[i] = IF i = 0 THEN base ELSE Push(f[i - 1], path[i])
      BY <2>1, <2>3, <2>4
    <2> QED
      BY <2>1, <2>5
  <1>5. norm = All(norm)
    <2>1. f = [i \in 0..n |->
                  IF i = 0 THEN <<>>
                  ELSE IF path[i] # ".." THEN Append(f[i - 1], path[i])
                  ELSE SubSeq(f[i - 1], 1, Len(f[i - 1]) - 1)]
      BY <1>4 DEF Push
    <2>2. norm = [i \in 0..n |->
                  IF i = 0 THEN <<>>
                  ELSE IF path[i] # ".." THEN Append(norm[i - 1], path[i])
                  ELSE SubSeq(norm[i - 1], 1, Len(norm[i - 1]) - 1)]
      BY <2>1
    <2> HIDE DEF norm
    <2> QED
      BY <2>2 DEF Push
  <1>6. Normalize(path) = norm[n]
    BY DEF Normalize
  <1> HIDE DEF norm
  <1>7. norm[0] = base /\ norm = [i \in 0..n |-> norm[i]] /\ \A i \in 1..n : norm[i] = Push(norm[i - 1], path[i])
    <2> HIDE DEF n, base
    <2>1. norm = [i \in 0..n |-> IF i = 0 THEN base ELSE Push(norm[i - 1], path[i])]
      BY <1>5
    <2>2. 0 \in 0..n /\ \A i \in 1..n : i \in 0..n /\ i # 0
      BY <1>1
    <2> QED
      BY <2>1, <2>2
  <1>8. Solves(norm, n, Seq(Kepts), base, step)
    <2>1. \A i \in 1..n : norm[i - 1] \in Seq(Kepts) => norm[i] = step[i][norm[i - 1]]
      BY <1>7
    <2> HIDE DEF step, base, n
    <2> QED
      BY <1>1, <1>2, <1>7, <2>1, Unrolled
  <1>9. norm \in [0..n -> Seq(Kepts)]
    BY <1>8 DEF Solves
  <1> QED
    BY <1>6, <1>7, <1>9

\* A path without ".." is normal.
LEMMA NormalPath ==
    ASSUME NEW path \in Seq(Kepts)
    PROVE  Normalize(path) = path
  <1> DEFINE n == Len(path)
  <1>1. path \in Seq(Parts)
    BY Wider DEF Kepts, Parts, Dentries
  <1>2. PICK f \in [0..n -> Seq(Kepts)] :
              /\ Normalize(path) = f[n]
              /\ f[0] = <<>>
              /\ \A i \in 1..n : f[i] = Push(f[i - 1], path[i])
    BY <1>1, NormRecursion
  <1>3. n \in Nat /\ \A i \in 1..n : path[i] \in Kepts /\ path[i] # ".."
    BY DEF Kepts, Dentries
  <1> HIDE DEF n
  <1> DEFINE Inv(s, i) == Len(s) = i /\ \A j \in 1..i : s[j] = path[j]
  <1>4. Inv(f[0], 0)
    BY <1>2
  <1>5. ASSUME NEW i \in 1..n, Inv(f[i - 1], i - 1) PROVE Inv(f[i], i)
    <2> DEFINE s == f[i - 1]
    <2>1. s \in Seq(Kepts) /\ Inv(s, i - 1)
      BY <1>2, <1>3, <1>5
    <2>2. f[i] = Append(s, path[i])
      BY <1>2, <1>3 DEF Push
    <2> HIDE DEF s
    <2>3. Len(s) = i - 1 /\ (i - 1) + 1 = i
      BY <1>3, <2>1
    <2>4. Len(f[i]) = i /\ f[i][i] = path[i] /\ \A j \in 1..(i - 1) : f[i][j] = s[j]
      BY <1>3, <2>1, <2>2, <2>3, Appending
    <2>5. \A j \in 1..i : j = i \/ j \in 1..(i - 1)
      BY <1>3
    <2> QED
      BY <2>1, <2>4, <2>5
  <1> HIDE DEF Inv
  <1>6. \A i \in 0..n : Inv(f[i], i)
    <2> DEFINE S == {i \in 0..n : Inv(f[i], i)}
    <2>1. 0 \in S /\ \A i \in 1..n : i - 1 \in S => i \in S
      BY <1>3, <1>4, <1>5
    <2> HIDE DEF S
    <2>2. \A i \in 0..n : i \in S
      BY <1>3, <2>1, UpTo
    <2> QED
      BY <2>2 DEF S
  <1>7. Inv(f[n], n) /\ f[n] \in Seq(Kepts)
    BY <1>2, <1>3, <1>6
  <1>8. f[n] = path
    <2> DEFINE s == f[n]
    <2>1. s \in Seq(Kepts) /\ Len(s) = Len(path) /\ \A j \in 1..Len(path) : s[j] = path[j]
      BY <1>7 DEF Inv, n
    <2> HIDE DEF s
    <2>2. s = path
      BY <2>1
    <2> QED
      BY <2>2 DEF s
  <1> QED
    BY <1>2, <1>8

\* a is the end of b, but that a name cut off stands for another.
CutOff(a, b) ==
    /\ Len(a) <= Len(b)
    /\ \A i \in 1..Len(a) : a[i] = b[Len(b) - Len(a) + i] \/ a[i] = "cut"

\* Either path of two may be what is captured of the other, and so may what is
\* left of them by one turn.
LEMMA PushCutOff ==
    ASSUME NEW a \in Seq(Kepts), NEW b \in Seq(Kepts), CutOff(a, b),
           NEW x \in Parts, NEW y \in Parts,
           x = y \/ (x = "cut" /\ y # "..")
    PROVE  CutOff(Push(a, x), Push(b, y))
  <1>1. Len(a) \in Nat /\ Len(b) \in Nat /\ Len(a) <= Len(b)
    BY DEF CutOff
  <1>2. CASE x # ".."
    <2>1. y # ".." /\ x \in Kepts /\ y \in Kepts
      BY <1>2 DEF Kepts, Parts, Dentries
    <2> DEFINE c == Append(a, x)  d == Append(b, y)
    <2>2. Push(a, x) = c /\ Push(b, y) = d
      BY <1>2, <2>1 DEF Push
    <2>3. /\ Len(c) = Len(a) + 1 /\ c[Len(a) + 1] = x /\ \A i \in 1..Len(a) : c[i] = a[i]
          /\ Len(d) = Len(b) + 1 /\ d[Len(b) + 1] = y /\ \A i \in 1..Len(b) : d[i] = b[i]
      BY <2>1, Appending
    <2> HIDE DEF c, d
    <2>4. ASSUME NEW i \in 1..Len(c) PROVE c[i] = d[Len(d) - Len(c) + i] \/ c[i] = "cut"
      <3>1. CASE i = Len(a) + 1
        <4>1. Len(d) - Len(c) + i = Len(b) + 1
          BY <1>1, <2>3, <3>1
        <4> QED
          BY <2>3, <3>1, <4>1
      <3>2. CASE i # Len(a) + 1
        <4>1. i \in 1..Len(a) /\ Len(d) - Len(c) + i = Len(b) - Len(a) + i
              /\ Len(b) - Len(a) + i \in 1..Len(b)
          BY <1>1, <2>3, <3>2
        <4>2. a[i] = b[Len(b) - Len(a) + i] \/ a[i] = "cut"
          BY <4>1 DEF CutOff
        <4> QED
          BY <2>3, <4>1, <4>2
      <3> QED
        BY <3>1, <3>2
    <2>5. Len(c) <= Len(d)
      BY <1>1, <2>3
    <2> QED
      BY <2>2, <2>4, <2>5 DEF CutOff
  <1>3. CASE x = ".." /\ a # <<>>
    <2> DEFINE c == SubSeq(a, 1, Len(a) - 1)  d == SubSeq(b, 1, Len(b) - 1)
    <2>1. y = ".." /\ Len(a) # 0 /\ b # <<>>
      BY <1>1, <1>3
    <2>2. Push(a, x) = c /\ Push(b, y) = d
      BY <1>3, <2>1 DEF Push
    <2>3. /\ Len(c) = Len(a) - 1 /\ \A i \in 1..(Len(a) - 1) : c[i] = a[i]
          /\ Len(d) = Len(b) - 1 /\ \A i \in 1..(Len(b) - 1) : d[i] = b[i]
      BY <1>3, <2>1, AllButLast
    <2> HIDE DEF c, d
    <2>4. ASSUME NEW i \in 1..Len(c) PROVE c[i] = d[Len(d) - Len(c) + i] \/ c[i] = "cut"
      <3>1. i \in 1..(Len(a) - 1) /\ i \in 1..Len(a) /\ Len(d) - Len(c) + i = Len(b) - Len(a) + i
            /\ Len(b) - Len(a) + i \in 1..(Len(b) - 1)
        BY <1>1, <2>3
      <3>2. a[i] = b[Len(b) - Len(a) + i] \/ a[i] = "cut"
        BY <3>1 DEF CutOff
      <3> QED
        BY <2>3, <3>1, <3>2
    <2>5. Len(c) <= Len(d)
      BY <1>1, <2>3
    <2> QED
      BY <2>2, <2>4, <2>5 DEF CutOff
  <1>4. CASE x = ".." /\ a = <<>>
    <2>1. Push(a, x) = <<>>
      BY <1>4, Empty DEF Push
    <2>2. Len(Push(b, y)) \in Nat
      BY PushType
    <2> QED
      BY <2>1, <2>2 DEF CutOff
  <1> QED
    BY <1>2, <1>3, <1>4

\* What is captured of a path leads to the same places, as far as it goes.
LEMMA NormCutOff ==
    ASSUME NEW a \in Seq(Parts), NEW b \in Seq(Parts), NEW gone \in Nat,
           Len(b) = gone + Len(a),
           \A i \in 1..Len(a) : a[i] = b[gone + i] \/ (a[i] = "cut" /\ b[gone + i] # "..")
    PROVE  CutOff(Normalize(a), Normalize(b))
  <1> DEFINE n == Len(a)
             m == Len(b)
  <1>1. PICK f \in [0..n -> Seq(Kepts)] :
              /\ Normalize(a) = f[n] /\ f[0] = <<>>
              /\ \A i \in 1..n : f[i] = Push(f[i - 1], a[i])
    BY NormRecursion
  <1>2. PICK g \in [0..m -> Seq(Kepts)] :
              /\ Normalize(b) = g[m] /\ g[0] = <<>>
              /\ \A i \in 1..m : g[i] = Push(g[i - 1], b[i])
    BY NormRecursion
  <1>3. n \in Nat /\ m = gone + n /\ \A i \in 1..n : a[i] \in Parts
    OBVIOUS
  <1>4. \A i \in 1..m : b[i] \in Parts
    OBVIOUS
  <1>5. \A i \in 1..n : a[i] = b[gone + i] \/ (a[i] = "cut" /\ b[gone + i] # "..")
    OBVIOUS
  <1> HIDE DEF n, m
  <1>6. CutOff(f[0], g[gone])
    <2>1. g[gone] \in Seq(Kepts)
      BY <1>2, <1>3
    <2>2. Len(g[gone]) \in Nat
      BY <2>1
    <2> QED
      BY <1>1, <2>2 DEF CutOff
  <1>7. ASSUME NEW i \in 1..n, CutOff(f[i - 1], g[gone + (i - 1)]) PROVE CutOff(f[i], g[gone + i])
    <2>1. i - 1 \in 0..n /\ gone + (i - 1) \in 0..m /\ gone + i \in 1..m
          /\ (gone + i) - 1 = gone + (i - 1)
      BY <1>3
    <2>2. f[i] = Push(f[i - 1], a[i]) /\ g[gone + i] = Push(g[gone + (i - 1)], b[gone + i])
      BY <1>1, <1>2, <2>1
    <2>3. f[i - 1] \in Seq(Kepts) /\ g[gone + (i - 1)] \in Seq(Kepts)
      BY <1>1, <1>2, <2>1
    <2>4. a[i] \in Parts /\ b[gone + i] \in Parts
      BY <1>3, <1>4, <2>1
    <2>5. a[i] = b[gone + i] \/ (a[i] = "cut" /\ b[gone + i] # "..")
      BY <1>5
    <2> QED
      BY <1>7, <2>2, <2>3, <2>4, <2>5, PushCutOff
  <1>8. \A i \in 0..n : CutOff(f[i], g[gone + i])
    <2> DEFINE S == {i \in 0..n : CutOff(f[i], g[gone + i])}
    <2>1. 0 \in S
      <3>1. gone + 0 = gone /\ 0 \in 0..n
        BY <1>3
      <3> QED
        BY <1>6, <3>1
    <2>2. ASSUME NEW i \in 1..n, i - 1 \in S PROVE i \in S
      <3>1. CutOff(f[i - 1], g[gone + (i - 1)]) /\ i \in 0..n
        BY <1>3, <2>2
      <3>2. CutOff(f[i], g[gone + i])
        BY <1>7, <3>1
      <3> QED
        BY <3>1, <3>2
    <2> HIDE DEF S
    <2>3. \A i \in 0..n : i \in S
      BY <1>3, <2>1, <2>2, UpTo
    <2> QED
      BY <2>3 DEF S
  <1>9. CutOff(f[n], g[m])
    BY <1>3, <1>8
  <1> QED
    BY <1>1, <1>2, <1>9

\* A directory is that of an assignment or of none; what was cut is of none.
LEMMA DirType ==
    /\ \A name : Dir(name) \in 0..2
    /\ Dir("cut") = 0
  <1>1. ASSUME NEW name PROVE Dir(name) \in 0..2 /\ (name = "cut" => Dir(name) = 0)
    <2>1. CASE name \notin Names
      BY <2>1 DEF Dir
    <2>2. CASE name \in Names
      <3>1. Dir(name) = CASE name = "assignment-1" -> 1
                          [] name = "assignment-2" -> 2
                          [] OTHER -> 0
        BY <2>2 DEF Dir, AssignmentOfDir
      <3> QED
        BY <3>1
    <2> QED
      BY <2>1, <2>2
  <1> QED
    BY <1>1

\* The front of a path is compared name by name.
LEMMA Front ==
    ASSUME NEW S, NEW path \in Seq(S), NEW n \in Nat, n <= Len(path),
           NEW r, r = [i \in 1..n |-> r[i]]
    PROVE  SubSeq(path, 1, n) = r <=> \A i \in 1..n : path[i] = r[i]
  <1>1. SubSeq(path, 1, n) = [i \in 1..n |-> path[i]]
    OBVIOUS
  <1> QED
    BY <1>1

\* The assignment of a path is that of a directory on it; there is one if and only
\* if the path leads into an assignment directory.
LEMMA HomeworkType ==
    ASSUME NEW path \in Seq(Kepts)
    PROVE  /\ HomeworkOf(path) \in 0..2
           /\ HomeworkOf(path) # 0 => \E i \in DOMAIN path : Dir(path[i]) = HomeworkOf(path)
           /\ HomeworkOf(path) # 0 <=> InHomework(path)
  <1> DEFINE At(i) == IF Len(path) >= i THEN Dir(path[i]) ELSE 0
             hw == HomeworkOf(path)
             two == Len(path) >= 2 /\ path[1] = "workspace" /\ path[2] = "os-1-s1"
             three == Len(path) >= 3 /\ path[1] = "home" /\ path[2] = "coder" /\ path[3] = "project"
             four == three /\ Len(path) >= 4 /\ path[4] = "assignments"
  <1>1. Len(path) \in Nat /\ DOMAIN path = 1..Len(path)
    OBVIOUS
  <1>2. \A i \in 1..5 : At(i) \in 0..2 /\ (At(i) # 0 => i \in DOMAIN path /\ Dir(path[i]) = At(i))
    BY <1>1, DirType
  <1>3. /\ Len(path) >= 3 => (SubSeq(path, 1, 3) = <<"home", "coder", "project">> <=> three)
        /\ Len(path) >= 2 => (SubSeq(path, 1, 2) = <<"workspace", "os-1-s1">> <=> two)
        /\ Len(path) >= 4 =>
             (SubSeq(path, 1, 4) = <<"home", "coder", "project", "assignments">> <=> four)
    <2>1. ASSUME Len(path) >= 2 PROVE SubSeq(path, 1, 2) = <<"workspace", "os-1-s1">> <=> two
      <3> DEFINE r == <<"workspace", "os-1-s1">>
      <3>1. r = [i \in 1..2 |-> r[i]] /\ r[1] = "workspace" /\ r[2] = "os-1-s1"
        OBVIOUS
      <3> HIDE DEF r
      <3>2. SubSeq(path, 1, 2) = r <=> \A i \in 1..2 : path[i] = r[i]
        BY <1>1, <2>1, <3>1, Front
      <3>3. (\A i \in 1..2 : path[i] = r[i]) <=> path[1] = r[1] /\ path[2] = r[2]
        OBVIOUS
      <3> QED
        BY <2>1, <3>1, <3>2, <3>3 DEF r
    <2>2. ASSUME Len(path) >= 3 PROVE SubSeq(path, 1, 3) = <<"home", "coder", "project">> <=> three
      <3> DEFINE r == <<"home", "coder", "project">>
      <3>1. r = [i \in 1..3 |-> r[i]] /\ r[1] = "home" /\ r[2] = "coder" /\ r[3] = "project"
        OBVIOUS
      <3> HIDE DEF r
      <3>2. SubSeq(path, 1, 3) = r <=> \A i \in 1..3 : path[i] = r[i]
        BY <1>1, <2>2, <3>1, Front
      <3>3. (\A i \in 1..3 : path[i] = r[i]) <=> path[1] = r[1] /\ path[2] = r[2] /\ path[3] = r[3]
        OBVIOUS
      <3> QED
        BY <2>2, <3>1, <3>2, <3>3 DEF r
    <2>3. ASSUME Len(path) >= 4
          PROVE  SubSeq(path, 1, 4) = <<"home", "coder", "project", "assignments">> <=> four
      <3> DEFINE r == <<"home", "coder", "project", "assignments">>
      <3>1. /\ r = [i \in 1..4 |-> r[i]]
            /\ r[1] = "home" /\ r[2] = "coder" /\ r[3] = "project" /\ r[4] = "assignments"
        OBVIOUS
      <3> HIDE DEF r
      <3>2. SubSeq(path, 1, 4) = r <=> \A i \in 1..4 : path[i] = r[i]
        BY <1>1, <2>3, <3>1, Front
      <3>3. (\A i \in 1..4 : path[i] = r[i]) <=>
               path[1] = r[1] /\ path[2] = r[2] /\ path[3] = r[3] /\ path[4] = r[4]
        OBVIOUS
      <3>4. Len(path) >= 3
        BY <1>1, <2>3
      <3> QED
        BY <2>3, <3>1, <3>2, <3>3, <3>4 DEF r
    <2> QED
      BY <2>1, <2>2, <2>3
  <1>4. hw = IF two THEN At(3)
             ELSE IF ~three THEN 0
             ELSE IF At(4) # 0 THEN At(4)
             ELSE IF four THEN At(5) ELSE 0
    <2>1. Len(path) < 3 \/ SubSeq(path, 1, 3) # <<"home", "coder", "project">> <=> ~three
      BY <1>1, <1>3
    <2> HIDE DEF At
    <2>2. Len(path) >= 2 /\ path[1] = "workspace" /\ IsWorkspace(path[2]) <=> two
      BY DEF IsWorkspace
    <2>3. three => (Len(path) >= 4 /\ path[4] = "assignments" <=> four)
      OBVIOUS
    <2> HIDE DEF two, three, four
    <2> QED
      BY <2>1, <2>2, <2>3 DEF HomeworkOf, At
  <1>5. InHomework(path) <=> \/ two /\ At(3) # 0
                             \/ three /\ At(4) # 0
                             \/ four /\ At(5) # 0
    <2> DEFINE r2 == <<"workspace", "os-1-s1">>
               r3 == <<"home", "coder", "project">>
               r4 == <<"home", "coder", "project", "assignments">>
               In(r) == /\ Len(path) > Len(r) /\ SubSeq(path, 1, Len(r)) = r
                        /\ Dir(path[Len(r) + 1]) # 0
    <2>1. InHomework(path) <=> In(r2) \/ In(r3) \/ In(r4)
      <3> HIDE DEF In, r2, r3, r4
      <3>1. InHomework(path) <=> \E r \in {r2, r3, r4} : In(r)
        BY DEF InHomework, Roots, In, r2, r3, r4
      <3> QED
        BY <3>1
    <2>2. Len(r2) = 2 /\ Len(r3) = 3 /\ Len(r4) = 4
      OBVIOUS
    <2>3. In(r2) <=> Len(path) > 2 /\ SubSeq(path, 1, 2) = r2 /\ Dir(path[3]) # 0
      <3> HIDE DEF r2
      <3> QED
        BY <2>2
    <2>4. In(r3) <=> Len(path) > 3 /\ SubSeq(path, 1, 3) = r3 /\ Dir(path[4]) # 0
      <3> HIDE DEF r3
      <3> QED
        BY <2>2
    <2>5. In(r4) <=> Len(path) > 4 /\ SubSeq(path, 1, 4) = r4 /\ Dir(path[5]) # 0
      <3> HIDE DEF r4
      <3> QED
        BY <2>2
    <2> HIDE DEF In
    <2>6. In(r2) <=> two /\ At(3) # 0
      BY <1>1, <1>3, <2>3
    <2>7. In(r3) <=> three /\ At(4) # 0
      BY <1>1, <1>3, <2>4
    <2>8. In(r4) <=> four /\ At(5) # 0
      BY <1>1, <1>3, <2>5
    <2> QED
      BY <2>1, <2>6, <2>7, <2>8
  <1> HIDE DEF hw, At
  <1>6. ~(two /\ three)
    OBVIOUS
  <1> HIDE DEF two, three
  <1>7. hw \in 0..2
    BY <1>2, <1>4
  <1>8. hw # 0 => \E i \in DOMAIN path : Dir(path[i]) = hw
    BY <1>2, <1>4
  <1>9. hw # 0 <=> InHomework(path)
    BY <1>4, <1>5, <1>6
  <1> QED
    BY <1>7, <1>8, <1>9 DEF hw
-----------------------------------------------------------------------------
(***************************************************************************)
(* Pipeline: what becomes of what was captured.                            *)
(***************************************************************************)

\* PathParser raises for a tab, and else finds the assignment of the normal path.
LEMMA ParseType ==
    ASSUME NEW path \in Seq(Parts)
    PROVE  /\ Normalize(path) \in Seq(Kepts)
           /\ ParsePath(path) \in -1..2
           /\ ParsePath(path) = Raised <=> "tab" \in Range(path)
           /\ ParsePath(path) # Raised => ParsePath(path) = HomeworkOf(Normalize(path))
  <1>1. Normalize(path) \in Seq(Kepts)
    <2>1. Len(path) \in Nat
      OBVIOUS
    <2> QED
      BY <2>1, NormRecursion
  <1>2. HomeworkOf(Normalize(path)) \in 0..2
    BY <1>1, HomeworkType
  <1>3. CASE "tab" \in Range(path)
    BY <1>1, <1>3 DEF ParsePath, Raised
  <1>4. CASE "tab" \notin Range(path)
    BY <1>1, <1>2, <1>4 DEF ParsePath, Raised
  <1> QED
    BY <1>3, <1>4

\* The path an argument makes of the working directory.
LEMMA JoinType ==
    ASSUME NEW cwd \in Seq(Kepts), NEW source \in Texts
    PROVE  Join(cwd, source) \in Seq(Parts)
  <1>1. source.names \in Seq(Names)
    BY DEF Texts
  <1>2. source.names \in Seq(Parts)
    BY <1>1, Wider DEF Parts
  <1>3. cwd \in Seq(Parts)
    BY Wider DEF Kepts, Parts, Dentries
  <1> QED
    BY <1>2, <1>3, Joining DEF Join

\* A program is known or it is not.
LEMMA ClassifyType ==
    ASSUME NEW binary
    PROVE  Classify(binary) \in RequiresTargetFile \cup {"unknown"}
  <1>1. DOMAIN Patterns = RequiresTargetFile
    BY DEF Patterns, RequiresTargetFile, Compilers
  <1>2. ASSUME binary \in Range(Patterns)
        PROVE  (CHOOSE type \in DOMAIN Patterns : Patterns[type] = binary) \in DOMAIN Patterns
    <2>1. \E type \in DOMAIN Patterns : Patterns[type] = binary
      BY <1>2 DEF Range
    <2> QED
      BY <2>1
  <1> QED
    BY <1>1, <1>2 DEF Classify

\* What bpf.c hands over, whatever the process.
Structs ==
    [host : Hosts, binary : Seq(Kepts), cwd : Seq(Kepts), args : Seq(Texts),
     flags : SUBSET {"DNAME_TOO_LONG", "DENTRY_TOO_DEEP", "ARGS_TOO_LONG"}]

\* What is found is an argument, of the kind that was sought and the first of it.
LEMMA SourceType ==
    ASSUME NEW type, NEW args \in Seq(Texts), NEW source, source = FindSource(type, args)
    PROVE  LET kind == IF type = "python" THEN "py" ELSE "c"
           IN  source # NoSource =>
                  /\ source \in Texts /\ source.kind = kind
                  /\ \E i \in DOMAIN args : IsFirst(args, kind, i) /\ source = args[i]
  <1>1. \A i \in DOMAIN args : args[i] \in Texts
    OBVIOUS
  <1>2. CASE type = "python"
    <2>1. source = FindPythonFile(args)
      BY <1>2 DEF FindSource
    <2>2. source # NoSource => \E i \in DOMAIN args : IsFirst(args, "py", i) /\ source = args[i]
      BY <2>1, FirstPy
    <2> QED
      BY <1>1, <1>2, <2>2 DEF IsFirst, Source
  <1>3. CASE type # "python"
    <2>1. source = FindCFile(args)
      BY <1>3 DEF FindSource
    <2>2. source # NoSource => \E i \in DOMAIN args : IsFirst(args, "c", i) /\ source = args[i]
      BY <2>1, FirstC
    <2> QED
      BY <1>1, <1>3, <2>2 DEF IsFirst, Source
  <1> QED
    BY <1>2, <1>3

\* The source found is the first of the sources, if there are any.
LEMMA FirstIs ==
    ASSUME NEW type, NEW args \in Seq(Texts), NEW source, source = FindSource(type, args),
           NEW kind, kind = IF type = "python" THEN "py" ELSE "c",
           NEW sources,
           sources = IF kind = "py" /\ \E i \in DOMAIN args : args[i].kind = "module" THEN {}
                     ELSE {i \in DOMAIN args : Source(args, i, kind)}
    PROVE  /\ source = NoSource <=> sources = {}
           /\ source # NoSource =>
                /\ source = args[CHOOSE i \in sources : \A j \in sources : i <= j]
                /\ \E i \in sources \cap DOMAIN args : source = args[i]
  <1> DEFINE module == \E i \in DOMAIN args : args[i].kind = "module"
  <1>1. \/ /\ source = NoSource
           /\ (kind = "py" /\ module) \/ \A i \in DOMAIN args : ~Source(args, i, kind)
        \/ /\ source # NoSource /\ ~(kind = "py" /\ module)
           /\ \E i \in DOMAIN args : IsFirst(args, kind, i) /\ source = args[i]
    <2>1. CASE type = "python"
      <3>1. source = FindPythonFile(args) /\ kind = "py"
        BY <2>1 DEF FindSource
      <3> QED
        BY <3>1, FirstPy
    <2>2. CASE type # "python"
      <3>1. source = FindCFile(args) /\ kind = "c"
        BY <2>2 DEF FindSource
      <3> QED
        BY <3>1, FirstC
    <2> QED
      BY <2>1, <2>2
  <1>2. CASE source = NoSource
    BY <1>1, <1>2
  <1>3. CASE source # NoSource
    <2>1. ~(kind = "py" /\ module)
      BY <1>1, <1>3
    <2>2. PICK i \in DOMAIN args : IsFirst(args, kind, i) /\ source = args[i]
      BY <1>1, <1>3
    <2>3. sources = {j \in DOMAIN args : Source(args, j, kind)}
      BY <2>1
    <2>4. i \in sources
      BY <2>2, <2>3 DEF IsFirst
    <2>5. sources \in SUBSET Nat /\ i \in Nat
      BY <2>3
    <2>6. ASSUME NEW j \in sources PROVE i <= j
      <3>1. j \in DOMAIN args /\ Source(args, j, kind) /\ j \in Nat \ {0}
        BY <2>3
      <3>2. j \notin 1..(i - 1)
        BY <2>2, <3>1 DEF IsFirst
      <3> QED
        BY <2>5, <3>1, <3>2
    <2> DEFINE f == CHOOSE k \in sources : \A j \in sources : k <= j
    <2>7. f \in sources /\ \A j \in sources : f <= j
      BY <2>4, <2>6
    <2> HIDE DEF f
    <2>8. f = i
      <3>1. f \in Nat /\ f <= i /\ i <= f
        BY <2>4, <2>5, <2>6, <2>7
      <3> QED
        BY <2>5, <3>1
    <2>9. source = args[f] /\ sources # {}
      BY <2>2, <2>4, <2>8
    <2> QED
      BY <1>3, <2>2, <2>4, <2>9 DEF f
  <1> QED
    BY <1>2, <1>3

\* How a process is labelled, by the case.
LEMMA Labels ==
    ASSUME NEW s \in Structs, NEW type, type = Classify(s.binary),
           NEW hw, hw = ParsePath(s.binary), NEW source, source = FindSource(type, s.args)
    PROVE  \/ hw = Raised /\ LabelProcess(s) = Label(NoType, Raised, NoSource)
           \/ /\ hw \in 1..2 /\ type = "unknown"
              /\ LabelProcess(s) = Label("user_binary", hw, NoSource)
           \/ hw = 0 /\ type = "unknown" /\ LabelProcess(s) = Label(NoType, 0, NoSource)
           \/ /\ hw # Raised /\ type \in RequiresTargetFile /\ source = NoSource
              /\ LabelProcess(s) = Label(type, 0, NoSource)
           \/ /\ hw # Raised /\ type \in RequiresTargetFile /\ source # NoSource
              /\ LabelProcess(s) = Label(type, ParsePath(Join(s.cwd, source)), source)
  <1>1. s.binary \in Seq(Parts)
    <2>1. s.binary \in Seq(Kepts)
      BY DEF Structs
    <2> QED
      BY <2>1, Wider DEF Kepts, Parts, Dentries
  <1>2. hw \in -1..2
    BY <1>1, ParseType
  <1>3. type \in RequiresTargetFile \/ type = "unknown"
    BY ClassifyType
  <1>4. "unknown" \notin RequiresTargetFile
    BY DEF RequiresTargetFile, Compilers
  <1>5. LabelProcess(s) =
          IF hw = Raised THEN Label(NoType, Raised, NoSource)
          ELSE IF hw # 0 /\ type = "unknown" THEN Label("user_binary", hw, NoSource)
          ELSE IF type \notin RequiresTargetFile THEN Label(NoType, 0, NoSource)
          ELSE IF source = NoSource THEN Label(type, 0, NoSource)
          ELSE Label(type, ParsePath(Join(s.cwd, source)), source)
    BY DEF LabelProcess
  <1>6. CASE hw = Raised
    BY <1>5, <1>6
  <1>7. CASE hw # Raised /\ type = "unknown" /\ hw # 0
    <2>1. hw \in 1..2
      BY <1>2, <1>7 DEF Raised
    <2> QED
      BY <1>5, <1>7, <2>1
  <1>8. CASE hw # Raised /\ type = "unknown" /\ hw = 0
    BY <1>4, <1>5, <1>8
  <1>9. CASE hw # Raised /\ type \in RequiresTargetFile
    BY <1>4, <1>5, <1>9
  <1> QED
    BY <1>3, <1>6, <1>7, <1>8, <1>9

\* The assignment of a container is one of two or none.
LEMMA OwnType ==
    ASSUME NEW h \in Hosts
    PROVE  AssignmentOfHost(h) \in 0..2
  BY PipelineAssumption DEF AssignmentOfHost

EventOf(s, label, own) ==
    [type |-> label.type, student |-> s.host.student,
     assignment |-> Attribute(own, label.hw),
     target |-> IF label.source = NoSource THEN s.binary ELSE Join(s.cwd, label.source)]

IsEvent(s, label, own) ==
    /\ s.host.known /\ label.hw # Raised /\ label.type # NoType
    /\ ~(label.type \in RequiresTargetFile /\ label.source = NoSource)
    /\ ~(label.hw = 0 /\ own = 0)

\* Of what an event is made, and of what none is.
LEMMA Outcomes ==
    ASSUME NEW s \in Structs, NEW label, label = LabelProcess(s),
           NEW own, own = AssignmentOfHost(s.host), NEW p, p = Pipeline(s)
    PROVE  /\ p.out \in {"not a student", "error", "nontarget", "filtered", "event"}
           /\ p.out # "event" => p.event = NoEvent
           /\ p.out = "event" <=> IsEvent(s, label, own)
           /\ p.out = "event" => p.event = EventOf(s, label, own)
  <1> DEFINE e == EventOf(s, label, own)
             known == s.host.known
             raised == label.hw = Raised
             nontarget == label.type = NoType
             sourceless == label.type \in RequiresTargetFile /\ label.source = NoSource
             nowhere == label.hw = 0 /\ own = 0
  <1>1. p = IF ~known THEN Drop("not a student")
            ELSE IF raised THEN Drop("error")
            ELSE IF nontarget THEN Drop("nontarget")
            ELSE IF sourceless THEN Drop("filtered")
            ELSE IF nowhere THEN Drop("filtered")
            ELSE [out |-> "event", event |-> e]
    BY DEF Pipeline, EventOf
  <1> HIDE DEF e, known, raised, nontarget, sourceless, nowhere
  <1>2. \A why : Drop(why).out = why /\ Drop(why).event = NoEvent
    BY DEF Drop
  <1>3. [out |-> "event", event |-> e].out = "event" /\ [out |-> "event", event |-> e].event = e
    OBVIOUS
  <1> DEFINE all == known /\ ~raised /\ ~nontarget /\ ~sourceless /\ ~nowhere
  <1>4. /\ p.out \in {"not a student", "error", "nontarget", "filtered", "event"}
        /\ p.out # "event" => p.event = NoEvent
        /\ p.out = "event" <=> all
        /\ p.out = "event" => p.event = e
    <2>1. CASE ~all
      <3>1. PICK why \in {"not a student", "error", "nontarget", "filtered"} : p = Drop(why)
        BY <1>1, <2>1
      <3>2. p.out = why /\ p.event = NoEvent
        BY <1>2, <3>1
      <3> HIDE DEF all
      <3> QED
        BY <2>1, <3>2
    <2>2. CASE all
      <3>1. p = [out |-> "event", event |-> e]
        BY <1>1, <2>2
      <3>2. p.out = "event" /\ p.event = e
        BY <3>1
      <3> HIDE DEF all
      <3> QED
        BY <2>2, <3>2
    <2> QED
      BY <2>1, <2>2
  <1> QED
    BY <1>4 DEF IsEvent, e, known, raised, nontarget, sourceless, nowhere

\* What an event says, as against what was captured.
LEMMA Made ==
    ASSUME NEW s \in Structs, Pipeline(s).out = "event", NEW e, e = Pipeline(s).event,
           NEW own, own = AssignmentOfHost(s.host), NEW path, path = e.target
    PROVE  /\ s.host.known /\ e.student = s.host.student
           /\ \/ /\ e.type = "user_binary" /\ Classify(s.binary) = "unknown"
                 /\ path = s.binary
              \/ /\ e.type = Classify(s.binary) /\ e.type \in RequiresTargetFile
                 /\ FindSource(e.type, s.args) # NoSource
                 /\ path = Join(s.cwd, FindSource(e.type, s.args))
           /\ path \in Seq(Parts)
           /\ e.assignment \in 1..2
           /\ own # 0 => e.assignment = own
           /\ own = 0 => e.assignment = HomeworkOf(Normalize(path))
  <1> DEFINE label == LabelProcess(s)
             type == Classify(s.binary)
             hw == ParsePath(s.binary)
             source == FindSource(type, s.args)
  <1>1. /\ s.host.known /\ label.hw # Raised /\ label.type # NoType
        /\ ~(label.type \in RequiresTargetFile /\ label.source = NoSource)
        /\ ~(label.hw = 0 /\ own = 0)
        /\ e = EventOf(s, label, own)
    <2> DEFINE p == Pipeline(s)
    <2>1. p = Pipeline(s) /\ label = LabelProcess(s) /\ p.out = "event" /\ e = p.event
      OBVIOUS
    <2> HIDE DEF p, label
    <2>2. /\ p.out = "event" <=> IsEvent(s, label, own)
          /\ p.out = "event" => p.event = EventOf(s, label, own)
      BY <2>1, Outcomes
    <2> QED
      BY <2>1, <2>2 DEF IsEvent
  <1>2. /\ e.type = label.type /\ e.student = s.host.student
        /\ e.assignment = Attribute(own, label.hw)
        /\ path = IF label.source = NoSource THEN s.binary ELSE Join(s.cwd, label.source)
    BY <1>1 DEF EventOf
  <1>3. s.binary \in Seq(Parts) /\ s.cwd \in Seq(Kepts) /\ s.args \in Seq(Texts) /\ s.host \in Hosts
    <2>1. s.binary \in Seq(Kepts)
      BY DEF Structs
    <2>2. s.binary \in Seq(Parts)
      BY <2>1, Wider DEF Kepts, Parts, Dentries
    <2> QED
      BY <2>2 DEF Structs
  <1>4. own \in 0..2
    BY <1>3, OwnType
  <1>5. "user_binary" \notin RequiresTargetFile /\ NoType \notin RequiresTargetFile
    BY DEF RequiresTargetFile, Compilers, NoType
  <1>6. \A t, h, f : /\ Label(t, h, f).type = t /\ Label(t, h, f).hw = h
                     /\ Label(t, h, f).source = f
    BY DEF Label
  <1>7. \/ hw = Raised /\ label = Label(NoType, Raised, NoSource)
        \/ hw \in 1..2 /\ type = "unknown" /\ label = Label("user_binary", hw, NoSource)
        \/ hw = 0 /\ type = "unknown" /\ label = Label(NoType, 0, NoSource)
        \/ /\ hw # Raised /\ type \in RequiresTargetFile /\ source = NoSource
           /\ label = Label(type, 0, NoSource)
        \/ /\ hw # Raised /\ type \in RequiresTargetFile /\ source # NoSource
           /\ label = Label(type, ParsePath(Join(s.cwd, source)), source)
    <2> HIDE DEF label, type, hw, source
    <2> QED
      BY Labels DEF label, type, hw, source
  <1> HIDE DEF label
  <1>8. CASE hw \in 1..2 /\ type = "unknown" /\ label = Label("user_binary", hw, NoSource)
    <2>1. e.type = "user_binary" /\ label.hw = hw /\ path = s.binary
      BY <1>2, <1>6, <1>8
    <2>2. hw = HomeworkOf(Normalize(path)) /\ path \in Seq(Parts)
      BY <1>3, <1>8, <2>1, ParseType DEF Raised
    <2> HIDE DEF hw, type
    <2> QED
      BY <1>1, <1>2, <1>4, <1>8, <2>1, <2>2 DEF Attribute, type
  <1>9. CASE /\ hw # Raised /\ type \in RequiresTargetFile /\ source # NoSource
             /\ label = Label(type, ParsePath(Join(s.cwd, source)), source)
    <2>1. e.type = type /\ label.hw = ParsePath(path) /\ path = Join(s.cwd, source)
      BY <1>2, <1>5, <1>6, <1>9
    <2>2. source \in Texts
      BY <1>3, <1>9, SourceType
    <2>3. path \in Seq(Parts)
      BY <1>3, <2>1, <2>2, JoinType
    <2>4. label.hw \in 0..2 /\ label.hw = HomeworkOf(Normalize(path))
      <3>1. label.hw \in -1..2 /\ label.hw # Raised
        BY <1>1, <2>1, <2>3, ParseType
      <3>2. label.hw \in 0..2
        BY <3>1 DEF Raised
      <3> QED
        BY <2>1, <2>3, <3>1, <3>2, ParseType
    <2>5. source = FindSource(e.type, s.args)
      BY <2>1
    <2> HIDE DEF hw, type, source
    <2>6. e.assignment \in 1..2 /\ (own # 0 => e.assignment = own)
          /\ (own = 0 => e.assignment = label.hw)
      BY <1>1, <1>2, <1>4, <2>4 DEF Attribute
    <2> QED
      BY <1>1, <1>2, <1>9, <2>1, <2>3, <2>4, <2>5, <2>6 DEF type
  <1> HIDE DEF hw, type, source
  <1>10. \/ hw \in 1..2 /\ type = "unknown" /\ label = Label("user_binary", hw, NoSource)
         \/ /\ hw # Raised /\ type \in RequiresTargetFile /\ source # NoSource
            /\ label = Label(type, ParsePath(Join(s.cwd, source)), source)
    BY <1>1, <1>6, <1>7
  <1> QED
    BY <1>8, <1>9, <1>10
-----------------------------------------------------------------------------
(***************************************************************************)
(* What is captured of a process, and where its paths lead.                *)
(***************************************************************************)

\* bpf.c: what is captured of the arguments.

Copies == [got : Seq(Texts), room : Nat, long : BOOLEAN]

\* One turn of args_handler's loop.
Copy(b, a) ==
    [got |-> IF b.room = 0 THEN b.got
             ELSE IF a.len <= b.room THEN Append(b.got, a)
             ELSE Append(b.got, CutArg[a][b.room]),
     room |-> IF a.len < b.room THEN b.room - a.len - 1 ELSE 0,
     long |-> b.long \/ a.len >= b.room]

\* What becomes of b with the argument a: copied, in part if there is no room for all
\* of it, or left out.
Turned(b, a, c) ==
    /\ c \in Copies /\ a \in Texts
    /\ b.room = 0 => c.got = b.got
    /\ b.room # 0 =>
         \/ c.got = Append(b.got, a)
         \/ \E k \in 1..(a.len - 1) :
               CutArg[a][k] \in Texts /\ c.got = Append(b.got, CutArg[a][k]) /\ c.long
    /\ ~c.long => ~b.long /\ b.room # 0
    /\ c.room # 0 => b.room # 0 /\ (c.long <=> b.long)

\* So it is with each turn.
LEMMA CopyTurn ==
    ASSUME NEW b \in Copies, NEW a \in Args
    PROVE  Turned(b, a, Copy(b, a))
  <1> DEFINE c == Copy(b, a)
  <1> SUFFICES Turned(b, a, c)
    OBVIOUS
  <1>1. a \in Texts /\ a.len \in Nat \ {0}
    BY PipelineAssumption DEF Texts
  <1>2. b.got \in Seq(Texts) /\ b.room \in Nat /\ b.long \in BOOLEAN
    BY DEF Copies
  <1> DEFINE got == IF b.room = 0 THEN b.got
                    ELSE IF a.len <= b.room THEN Append(b.got, a)
                    ELSE Append(b.got, CutArg[a][b.room])
             room == IF a.len < b.room THEN b.room - a.len - 1 ELSE 0
             long == b.long \/ a.len >= b.room
  <1>3. c = [got |-> got, room |-> room, long |-> long]
    BY DEF Copy
  <1>4. room \in Nat /\ (room # 0 => a.len < b.room)
    BY <1>1, <1>2
  <1>5. CASE b.room = 0
    <2>1. got = b.got /\ room = 0 /\ long = TRUE
      BY <1>1, <1>2, <1>5
    <2> HIDE DEF got, room, long
    <2> HIDE DEF c
    <2>2. c.got = b.got /\ c.room = 0 /\ c.long = TRUE /\ c \in Copies
      BY <1>2, <1>3, <2>1 DEF Copies
    <2> QED
      BY <1>1, <1>5, <2>2 DEF Turned
  <1>6. CASE b.room # 0 /\ a.len <= b.room
    <2>1. got = Append(b.got, a) /\ got \in Seq(Texts)
      BY <1>1, <1>2, <1>6
    <2>2. long \in BOOLEAN /\ (~long => ~b.long) /\ (room # 0 => (long <=> b.long))
      BY <1>1, <1>2, <1>4
    <2> HIDE DEF got, room, long, c
    <2>3. c.got = got /\ c.room = room /\ c.long = long /\ c \in Copies
      BY <1>3, <1>4, <2>1, <2>2 DEF Copies
    <2> QED
      BY <1>1, <1>6, <2>1, <2>2, <2>3 DEF Turned
  <1>7. CASE b.room # 0 /\ a.len > b.room
    <2> DEFINE k == b.room
    <2>1. k \in 1..(a.len - 1)
      BY <1>1, <1>2, <1>7
    <2>2. CutArg[a][k] \in Texts
      BY <2>1, PipelineAssumption
    <2>3. got = Append(b.got, CutArg[a][k])
      BY <1>1, <1>2, <1>7
    <2>4. room = 0 /\ long = TRUE
      BY <1>1, <1>2, <1>7
    <2> HIDE DEF got, room, long, k, c
    <2>5. got \in Seq(Texts)
      BY <1>2, <2>2, <2>3
    <2>6. c.got = got /\ c.room = 0 /\ c.long = TRUE /\ c \in Copies
      BY <1>3, <2>4, <2>5 DEF Copies
    <2> QED
      BY <1>1, <1>7, <2>1, <2>2, <2>3, <2>6 DEF Turned
  <1> HIDE DEF c
  <1> QED
    BY <1>1, <1>2, <1>5, <1>6, <1>7

\* args_handler takes its turns one by one.
LEMMA CopyRecursion ==
    ASSUME NEW args \in Seq(Args)
    PROVE  \E f \in [0..Len(args) -> Copies] :
              /\ CopyArgs(args) = f[Len(args)]
              /\ f[0] = [got |-> <<>>, room |-> ArgSize, long |-> FALSE]
              /\ \A i \in 1..Len(args) : f[i] = Copy(f[i - 1], args[i])
  <1> DEFINE base == [got |-> <<>>, room |-> ArgSize, long |-> FALSE]
             n == Len(args)
             step == [i \in 1..n |-> [b \in Copies |-> Copy(b, args[i])]]
             All(f) == [i \in 0..n |-> IF i = 0 THEN base ELSE Copy(f[i - 1], args[i])]
             copy == CHOOSE f : f = All(f)
  <1>1. n \in Nat /\ base \in Copies
    BY PipelineAssumption DEF Copies
  <1>2. step \in [1..n -> [Copies -> Copies]]
    <2>1. \A i \in 1..n : args[i] \in Args
      OBVIOUS
    <2> HIDE DEF n
    <2>2. \A i \in 1..n : \A b \in Copies : Copy(b, args[i]) \in Copies
      BY <2>1, CopyTurn DEF Turned
    <2> QED
      BY <2>2
  <1>3. PICK f : Solves(f, n, Copies, base, step)
    <2> HIDE DEF step, base, n
    <2> QED
      BY <1>1, <1>2, Recursion
  <1>4. f = All(f)
    <2>1. f \in [0..n -> Copies] /\ f[0] = base /\ \A i \in 1..n : f[i] = step[i][f[i - 1]]
      BY <1>3 DEF Solves
    <2> HIDE DEF n, base
    <2>2. \A i \in 1..n : i - 1 \in 0..n
      BY <1>1
    <2>3. \A i \in 1..n : f[i] = Copy(f[i - 1], args[i])
      BY <2>1, <2>2
    <2>4. \A i \in 0..n : i = 0 \/ i \in 1..n
      BY <1>1
    <2>5. \A i \in 0..n : f[i] = IF i = 0 THEN base ELSE Copy(f[i - 1], args[i])
      BY <2>1, <2>3, <2>4
    <2> QED
      BY <2>1, <2>5
  <1>5. copy = All(copy)
    BY <1>4
  <1>6. CopyArgs(args) = copy[n]
    BY DEF CopyArgs, Copy
  <1> HIDE DEF copy
  <1>7. /\ copy[0] = base /\ copy = [i \in 0..n |-> copy[i]]
        /\ \A i \in 1..n : copy[i] = Copy(copy[i - 1], args[i])
    <2> HIDE DEF n, base
    <2>1. copy = [i \in 0..n |-> IF i = 0 THEN base ELSE Copy(copy[i - 1], args[i])]
      BY <1>5
    <2>2. 0 \in 0..n /\ \A i \in 1..n : i \in 0..n /\ i # 0
      BY <1>1
    <2> QED
      BY <2>1, <2>2
  <1>8. Solves(copy, n, Copies, base, step)
    <2>1. \A i \in 1..n : copy[i - 1] \in Copies => copy[i] = step[i][copy[i - 1]]
      BY <1>7
    <2> HIDE DEF step, base, n
    <2> QED
      BY <1>1, <1>2, <1>7, <2>1, Unrolled
  <1>9. copy \in [0..n -> Copies]
    BY <1>8 DEF Solves
  <1> QED
    BY <1>6, <1>7, <1>9

\* A captured argument is the one given or, if it is the last, a part of it.
PartOf(got, args, j) ==
    \/ got[j] = args[j]
    \/ j = Len(got) /\ \E k \in 1..(args[j].len - 1) : got[j] = CutArg[args[j]][k]

\* While there is room, all the arguments so far have been copied whole; the one for
\* which it does not suffice is cut, and none is copied after it.
LEMMA CopyIsSound ==
    ASSUME NEW args \in Seq(Args), NEW b, b = CopyArgs(args)
    PROVE  /\ b.got \in Seq(Texts) /\ b.long \in BOOLEAN /\ Len(b.got) <= Len(args)
           /\ \A j \in 1..Len(b.got) : PartOf(b.got, args, j)
           /\ ~b.long => b.got = args
  <1> DEFINE n == Len(args)
             Inv(c, i) == /\ Len(c.got) <= i
                          /\ \A j \in 1..Len(c.got) : PartOf(c.got, args, j)
                          /\ ~c.long => Len(c.got) = i /\ \A j \in 1..i : c.got[j] = args[j]
                          /\ c.room # 0 => ~c.long
  <1>1. PICK f \in [0..n -> Copies] :
              /\ CopyArgs(args) = f[n]
              /\ f[0] = [got |-> <<>>, room |-> ArgSize, long |-> FALSE]
              /\ \A i \in 1..n : f[i] = Copy(f[i - 1], args[i])
    BY CopyRecursion
  <1>2. n \in Nat /\ DOMAIN args = 1..n /\ \A i \in 1..n : args[i] \in Args
    OBVIOUS
  <1> HIDE DEF n
  <1>3. Inv(f[0], 0)
    <2>1. f[0].got = <<>> /\ f[0].long = FALSE
      BY <1>1
    <2> QED
      BY <2>1
  <1>4. ASSUME NEW i \in 1..n, Inv(f[i - 1], i - 1) PROVE Inv(f[i], i)
    <2> DEFINE c == f[i - 1]
               d == f[i]
               a == args[i]
    <2>1. c \in Copies /\ a \in Args /\ i - 1 \in Nat /\ i \in Nat
      BY <1>1, <1>2
    <2>2. d = Copy(c, a)
      BY <1>1
    <2>3. Inv(c, i - 1)
      BY <1>4
    <2> HIDE DEF c, d
    <2>4. Turned(c, a, d)
      BY <2>1, <2>2, CopyTurn
    <2>5. c.got \in Seq(Texts) /\ Len(c.got) \in Nat
      BY <2>1 DEF Copies
    <2>6. d.room # 0 => ~d.long
      BY <2>3, <2>4 DEF Turned
    <2>7. ASSUME c.room = 0 PROVE Inv(d, i)
      <3>1. d.got = c.got /\ d.long
        BY <2>4, <2>7 DEF Turned
      <3>2. Len(d.got) <= i /\ \A j \in 1..Len(d.got) : PartOf(d.got, args, j)
        BY <2>1, <2>3, <2>5, <3>1
      <3> QED
        BY <2>6, <3>1, <3>2
    <2>8. ASSUME c.room # 0 PROVE Inv(d, i)
      <3>1. Len(c.got) = i - 1 /\ \A j \in 1..(i - 1) : c.got[j] = args[j]
        BY <2>3, <2>8
      <3>2. PICK x \in Texts :
               /\ d.got = Append(c.got, x)
               /\ \/ x = a
                  \/ d.long /\ \E k \in 1..(a.len - 1) : x = CutArg[a][k]
        BY <2>4, <2>8 DEF Turned
      <3>3. /\ Len(d.got) = i /\ d.got[i] = x
            /\ \A j \in 1..(i - 1) : d.got[j] = args[j]
        <4>1. /\ Len(Append(c.got, x)) = Len(c.got) + 1
              /\ Append(c.got, x)[Len(c.got) + 1] = x
              /\ \A j \in 1..Len(c.got) : Append(c.got, x)[j] = c.got[j]
          BY <2>5, Appending
        <4>2. Len(c.got) + 1 = i
          BY <2>1, <3>1
        <4> QED
          BY <3>1, <3>2, <4>1, <4>2
      <3>4. \A j \in 1..i : j = i \/ j \in 1..(i - 1)
        BY <2>1
      <3>5. PartOf(d.got, args, i)
        BY <3>2, <3>3 DEF PartOf
      <3>6. \A j \in 1..i : PartOf(d.got, args, j)
        BY <3>3, <3>4, <3>5 DEF PartOf
      <3>7. ~d.long => \A j \in 1..i : d.got[j] = args[j]
        BY <3>2, <3>3, <3>4
      <3>8. i <= i
        BY <2>1
      <3> HIDE DEF a
      <3> QED
        BY <2>6, <3>3, <3>6, <3>7, <3>8
    <2>9. Inv(d, i)
      BY <2>7, <2>8
    <2> QED
      BY <2>9 DEF d
  <1> HIDE DEF Inv
  <1>5. \A i \in 0..n : Inv(f[i], i)
    <2> DEFINE S == {i \in 0..n : Inv(f[i], i)}
    <2>1. 0 \in S /\ \A i \in 1..n : i - 1 \in S => i \in S
      BY <1>2, <1>3, <1>4
    <2> HIDE DEF S
    <2>2. \A i \in 0..n : i \in S
      BY <1>2, <2>1, UpTo
    <2> QED
      BY <2>2 DEF S
  <1>6. Inv(b, n) /\ b \in Copies
    BY <1>1, <1>2, <1>5
  <1>7. b.got \in Seq(Texts) /\ b.long \in BOOLEAN
    BY <1>6 DEF Copies
  <1>8. /\ Len(b.got) <= n /\ \A j \in 1..Len(b.got) : PartOf(b.got, args, j)
        /\ ~b.long => Len(b.got) = n /\ \A j \in 1..n : b.got[j] = args[j]
    BY <1>6 DEF Inv
  <1>9. ~b.long => b.got = args
    <2> DEFINE g == b.got
    <2>1. g \in Seq(Texts) /\ args \in Seq(Args)
      BY <1>7
    <2> HIDE DEF g
    <2>2. ASSUME Len(g) = n, \A j \in 1..n : g[j] = args[j] PROVE g = args
      BY <2>1, <2>2 DEF n
    <2> QED
      BY <1>8, <2>2 DEF g
  <1> QED
    BY <1>7, <1>8, <1>9 DEF n

Processes == [host : Hosts, binary : Binaries, cwd : Dirs, args : Seq(Args)]

\* What is captured of a process: the ends of its paths, and all of the working
\* directory when nothing is flagged and there is room; the first of its arguments, and
\* all of them when that is not flagged.
LEMMA CaptureType ==
    ASSUME NEW p \in Processes, NEW s, s = Capture(p)
    PROVE  /\ s \in Structs /\ s.host = p.host
           /\ p.binary \in Seq(Dentries) /\ p.cwd \in Seq(Dentries)
           /\ EndOf(s.binary, p.binary) /\ EndOf(s.cwd, p.cwd)
           /\ s.flags \subseteq {"ARGS_TOO_LONG"} /\ Length(p.cwd) < BufSize
              => Len(s.cwd) = Len(p.cwd)
           /\ Len(s.args) <= Len(p.args)
           /\ \A i \in 1..Len(s.args) : PartOf(s.args, p.args, i)
           /\ s.args # p.args => "ARGS_TOO_LONG" \in s.flags
  <1> DEFINE b == Walk(p.binary)
             d == Walk(p.cwd)
             args == CopyArgs(p.args)
             more == IF args.long THEN {"ARGS_TOO_LONG"} ELSE {}
  <1>1. p.host \in Hosts /\ p.binary \in Binaries /\ p.cwd \in Dirs /\ p.args \in Seq(Args)
    BY DEF Processes
  <1>2. p.binary \in Seq(Dentries) /\ p.cwd \in Seq(Dentries)
    BY <1>1, PipelineAssumption DEF Dentries
  <1>3. /\ b.got \in Seq(Kepts) /\ EndOf(b.got, p.binary)
        /\ b.flags \subseteq {"DNAME_TOO_LONG", "DENTRY_TOO_DEEP"}
    BY <1>2, WalkIsSound
  <1>4. /\ d.got \in Seq(Kepts) /\ EndOf(d.got, p.cwd)
        /\ d.flags \subseteq {"DNAME_TOO_LONG", "DENTRY_TOO_DEEP"}
        /\ d.flags = {} /\ Length(p.cwd) < BufSize => Len(d.got) = Len(p.cwd)
    BY <1>2, WalkIsSound
  <1>5. /\ args.got \in Seq(Texts) /\ Len(args.got) <= Len(p.args)
        /\ \A i \in 1..Len(args.got) : PartOf(args.got, p.args, i)
        /\ ~args.long => args.got = p.args
    <2> HIDE DEF args
    <2> QED
      BY <1>1, CopyIsSound DEF args
  <1>6. s = [host |-> p.host, binary |-> b.got, cwd |-> d.got, args |-> args.got,
             flags |-> b.flags \cup d.flags \cup more]
    BY DEF Capture
  <1>7. more \subseteq {"ARGS_TOO_LONG"} /\ (args.long => "ARGS_TOO_LONG" \in more)
    OBVIOUS
  <1> HIDE DEF b, d, args, more
  <1>8. /\ s.host = p.host /\ s.binary = b.got /\ s.cwd = d.got /\ s.args = args.got
        /\ s.flags = b.flags \cup d.flags \cup more
    BY <1>6
  <1>9. s \in Structs
    <2>1. b.flags \cup d.flags \cup more \subseteq {"DNAME_TOO_LONG", "DENTRY_TOO_DEEP", "ARGS_TOO_LONG"}
      BY <1>3, <1>4, <1>7
    <2> QED
      BY <1>1, <1>3, <1>4, <1>5, <1>6, <2>1 DEF Structs
  <1>10. s.flags \subseteq {"ARGS_TOO_LONG"} => d.flags = {}
    <2>1. ASSUME s.flags \subseteq {"ARGS_TOO_LONG"}, NEW x \in d.flags PROVE FALSE
      <3>1. x \in s.flags /\ x \in {"DNAME_TOO_LONG", "DENTRY_TOO_DEEP"}
        BY <1>4, <1>8
      <3> QED
        BY <2>1, <3>1
    <2> QED
      BY <2>1
  <1>11. s.args # p.args => "ARGS_TOO_LONG" \in s.flags
    BY <1>5, <1>7, <1>8
  <1>12. /\ Len(s.args) <= Len(p.args)
         /\ \A i \in 1..Len(s.args) : PartOf(s.args, p.args, i)
    BY <1>5, <1>8
  <1> QED
    BY <1>2, <1>3, <1>4, <1>8, <1>9, <1>10, <1>11, <1>12

\* The end of a path, normalised, is the end of the path normalised.
LEMMA EndNorm ==
    ASSUME NEW a \in Seq(Kepts), NEW b \in Seq(Dentries), EndOf(a, b)
    PROVE  CutOff(Normalize(a), Normalize(b))
  <1> DEFINE gone == Len(b) - Len(a)
  <1>1. a \in Seq(Parts) /\ b \in Seq(Parts)
    BY Wider DEF Kepts, Parts, Dentries
  <1>2. gone \in Nat /\ Len(b) = gone + Len(a)
    BY DEF EndOf
  <1>3. ASSUME NEW i \in 1..Len(a) PROVE a[i] = b[gone + i] \/ (a[i] = "cut" /\ b[gone + i] # "..")
    <2>1. a[i] = b[gone + i] \/ a[i] = "cut"
      BY DEF EndOf
    <2>2. gone + i \in 1..Len(b)
      BY <1>2
    <2>3. b[gone + i] # ".."
      BY <2>2 DEF Dentries
    <2> QED
      BY <2>1, <2>3
  <1> HIDE DEF gone
  <1> QED
    BY <1>1, <1>2, <1>3, NormCutOff

\* And so with what an argument makes of it.
LEMMA JoinNorm ==
    ASSUME NEW a \in Seq(Kepts), NEW b \in Seq(Dentries), EndOf(a, b), NEW source \in Texts
    PROVE  CutOff(Normalize(Join(a, source)), Normalize(Join(b, source)))
  <1> DEFINE t == source.names
  <1>1. t \in Seq(Parts) /\ a \in Seq(Parts) /\ b \in Seq(Parts)
    <2>1. t \in Seq(Names)
      BY DEF Texts
    <2>2. Seq(Names) \subseteq Seq(Parts) /\ Seq(Kepts) \subseteq Seq(Parts) /\ Seq(Dentries) \subseteq Seq(Parts)
      BY Wider DEF Kepts, Parts, Dentries
    <2> QED
      BY <2>1, <2>2
  <1> HIDE DEF t
  <1>2. CASE source.abs
    <2>1. Join(a, source) = t /\ Join(b, source) = t
      BY <1>2 DEF Join, t
    <2>2. 0 \in Nat /\ Len(t) = 0 + Len(t) /\ \A i \in 1..Len(t) : t[i] = t[0 + i]
      BY <1>1
    <2>3. CutOff(Normalize(t), Normalize(t))
      BY <1>1, <2>2, NormCutOff
    <2> QED
      BY <2>1, <2>3
  <1>3. CASE ~source.abs
    <2> DEFINE gone == Len(b) - Len(a)
               c == a \o t
               d == b \o t
    <2>1. Join(a, source) = c /\ Join(b, source) = d
      BY <1>3 DEF Join, t
    <2>2. gone \in Nat /\ Len(b) = gone + Len(a) /\ Len(a) \in Nat /\ Len(t) \in Nat
      BY <1>1 DEF EndOf
    <2>3. ASSUME NEW i \in 1..Len(a) PROVE a[i] = b[gone + i] \/ (a[i] = "cut" /\ b[gone + i] # "..")
      <3>1. a[i] = b[gone + i] \/ a[i] = "cut"
        BY DEF EndOf
      <3>2. gone + i \in 1..Len(b)
        BY <2>2
      <3>3. b[gone + i] # ".."
        BY <3>2 DEF Dentries
      <3> QED
        BY <3>1, <3>3
    <2> HIDE DEF gone
    <2>4. /\ c \in Seq(Parts) /\ Len(c) = Len(a) + Len(t)
          /\ \A i \in 1..Len(a) : c[i] = a[i]
          /\ \A i \in 1..Len(t) : c[Len(a) + i] = t[i]
      BY <1>1, Joining
    <2>5. /\ d \in Seq(Parts) /\ Len(d) = Len(b) + Len(t)
          /\ \A i \in 1..Len(b) : d[i] = b[i]
          /\ \A i \in 1..Len(t) : d[Len(b) + i] = t[i]
      BY <1>1, Joining
    <2> HIDE DEF c, d
    <2>6. ASSUME NEW i \in 1..Len(c) PROVE c[i] = d[gone + i] \/ (c[i] = "cut" /\ d[gone + i] # "..")
      <3>1. CASE i \in 1..Len(a)
        <4>1. gone + i \in 1..Len(b)
          BY <2>2, <3>1
        <4>2. c[i] = a[i] /\ d[gone + i] = b[gone + i]
          BY <2>4, <2>5, <3>1, <4>1
        <4> QED
          BY <2>3, <3>1, <4>2
      <3>2. CASE i \notin 1..Len(a)
        <4>1. i - Len(a) \in 1..Len(t) /\ Len(a) + (i - Len(a)) = i
              /\ Len(b) + (i - Len(a)) = gone + i
          BY <2>2, <2>4, <3>2
        <4>2. c[i] = t[i - Len(a)] /\ d[gone + i] = t[i - Len(a)]
          BY <2>4, <2>5, <4>1
        <4> QED
          BY <4>2
      <3> QED
        BY <3>1, <3>2
    <2>7. Len(d) = gone + Len(c)
      BY <2>2, <2>4, <2>5
    <2>8. CutOff(Normalize(c), Normalize(d))
      BY <2>2, <2>4, <2>5, <2>6, <2>7, NormCutOff
    <2> QED
      BY <2>1, <2>8
  <1> QED
    BY <1>2, <1>3

\* What an argument makes of the end of a path is the end of what it makes of the path.
LEMMA JoinEnd ==
    ASSUME NEW a \in Seq(Kepts), NEW b \in Seq(Dentries), EndOf(a, b), NEW source \in Texts
    PROVE  EndOf(Join(a, source), Join(b, source))
  <1> DEFINE t == source.names
  <1>1. t \in Seq(Parts) /\ a \in Seq(Parts) /\ b \in Seq(Parts)
    <2>1. t \in Seq(Names)
      BY DEF Texts
    <2>2. Seq(Names) \subseteq Seq(Parts) /\ Seq(Kepts) \subseteq Seq(Parts) /\ Seq(Dentries) \subseteq Seq(Parts)
      BY Wider DEF Kepts, Parts, Dentries
    <2> QED
      BY <2>1, <2>2
  <1> HIDE DEF t
  <1>2. CASE source.abs
    <2>1. Join(a, source) = t /\ Join(b, source) = t
      BY <1>2 DEF Join, t
    <2>2. EndOf(t, t)
      BY <1>1 DEF EndOf
    <2> QED
      BY <2>1, <2>2
  <1>3. CASE ~source.abs
    <2> DEFINE gone == Len(b) - Len(a)
               c == a \o t
               d == b \o t
    <2>1. Join(a, source) = c /\ Join(b, source) = d
      BY <1>3 DEF Join, t
    <2>2. gone \in Nat /\ Len(b) = gone + Len(a) /\ Len(a) \in Nat /\ Len(t) \in Nat
      BY <1>1 DEF EndOf
    <2>3. \A i \in 1..Len(a) : \/ a[i] = b[gone + i]
                               \/ a[i] = "cut" /\ NameLen[b[gone + i]] = MaxName
      BY DEF EndOf
    <2> HIDE DEF gone
    <2>4. /\ c \in Seq(Parts) /\ Len(c) = Len(a) + Len(t)
          /\ \A i \in 1..Len(a) : c[i] = a[i]
          /\ \A i \in 1..Len(t) : c[Len(a) + i] = t[i]
      BY <1>1, Joining
    <2>5. /\ d \in Seq(Parts) /\ Len(d) = Len(b) + Len(t)
          /\ \A i \in 1..Len(b) : d[i] = b[i]
          /\ \A i \in 1..Len(t) : d[Len(b) + i] = t[i]
      BY <1>1, Joining
    <2> HIDE DEF c, d
    <2>6. ASSUME NEW i \in 1..Len(c)
          PROVE  \/ c[i] = d[gone + i]
                 \/ c[i] = "cut" /\ NameLen[d[gone + i]] = MaxName
      <3>1. CASE i \in 1..Len(a)
        <4>1. gone + i \in 1..Len(b)
          BY <2>2, <3>1
        <4>2. c[i] = a[i] /\ d[gone + i] = b[gone + i]
          BY <2>4, <2>5, <3>1, <4>1
        <4> QED
          BY <2>3, <3>1, <4>2
      <3>2. CASE i \notin 1..Len(a)
        <4>1. i - Len(a) \in 1..Len(t) /\ Len(a) + (i - Len(a)) = i
              /\ Len(b) + (i - Len(a)) = gone + i
          BY <2>2, <2>4, <3>2
        <4>2. c[i] = t[i - Len(a)] /\ d[gone + i] = t[i - Len(a)]
          BY <2>4, <2>5, <4>1
        <4> QED
          BY <4>2
      <3> QED
        BY <3>1, <3>2
    <2>7. Len(d) - Len(c) = gone /\ gone >= 0 /\ DOMAIN c = 1..Len(c)
      BY <2>2, <2>4, <2>5
    <2>8. EndOf(c, d)
      BY <2>6, <2>7 DEF EndOf
    <2> QED
      BY <2>1, <2>8
  <1> QED
    BY <1>2, <1>3

\* The assignment found by what is captured of a path is on the path.
LEMMA OnThePath ==
    ASSUME NEW a \in Seq(Kepts), NEW b \in Seq(Kepts), CutOff(a, b), HomeworkOf(a) # 0
    PROVE  \E i \in DOMAIN b : Dir(b[i]) = HomeworkOf(a)
  <1>1. PICK i \in DOMAIN a : Dir(a[i]) = HomeworkOf(a)
    BY HomeworkType
  <1>2. a[i] # "cut"
    BY <1>1, DirType
  <1>3. i \in 1..Len(a) /\ Len(a) \in Nat /\ Len(b) \in Nat /\ DOMAIN b = 1..Len(b)
    OBVIOUS
  <1>4. a[i] = b[Len(b) - Len(a) + i] /\ Len(a) <= Len(b)
    BY <1>2, <1>3 DEF CutOff
  <1>5. Len(b) - Len(a) + i \in DOMAIN b
    BY <1>3, <1>4
  <1> QED
    BY <1>1, <1>4, <1>5
-----------------------------------------------------------------------------
(***************************************************************************)
(* The invariant: what is pending, captured or handled is of the process.  *)
(***************************************************************************)

IInv ==
    /\ process # Nothing => process \in Processes
    /\ struct # Nothing => process # Nothing /\ struct = Captured /\ outcome = Pending
    /\ outcome # Pending =>
         process # Nothing /\ struct = Nothing /\ outcome = Pipeline(Captured)

\* A process is not Nothing: it has a binary.
LEMMA NotNothing ==
    ASSUME NEW h, NEW b, NEW d, NEW a
    PROVE  [host |-> h, binary |-> b, cwd |-> d, args |-> a] # Nothing
  <1> DEFINE p == [host |-> h, binary |-> b, cwd |-> d, args |-> a]
             q == [host |-> "none"]
  <1>1. "binary" \in DOMAIN p /\ "binary" \notin DOMAIN q
    OBVIOUS
  <1> HIDE DEF p, q
  <1>2. p # q
    BY <1>1
  <1> QED
    BY <1>2 DEF p, q, Nothing

\* The invariant holds throughout.
LEMMA Inductive == Spec => []IInv
  <1>1. Init => IInv
    BY DEF Init, IInv
  <1>2. ASSUME IInv, [Next]_vars PROVE IInv'
    <2>1. CASE Exit
      <3>0. PICK h \in Hosts, b \in Binaries, d \in Dirs, n \in 0..MaxArgs :
              \E args \in [1..n -> Args] :
                 /\ process' = [host |-> h, binary |-> b, cwd |-> d, args |-> args]
                 /\ struct' = Capture(process')
        BY <2>1 DEF Exit
      <3>1. PICK args \in [1..n -> Args] :
              /\ process' = [host |-> h, binary |-> b, cwd |-> d, args |-> args]
              /\ struct' = Capture(process')
        BY <3>0
      <3>2. args \in Seq(Args)
        <4>1. n \in Nat
          BY PipelineAssumption
        <4> QED
          BY <4>1
      <3>3. process' \in Processes /\ process' # Nothing
        BY <3>1, <3>2, NotNothing DEF Processes
      <3>4. outcome = Pending /\ outcome' = Pending
        BY <1>2, <2>1 DEF Exit, IInv
      <3>5. struct' = Captured'
        BY <3>1 DEF Captured
      <3> QED
        BY <3>3, <3>4, <3>5 DEF IInv
    <2>2. CASE Handle
      <3>1. struct = Captured /\ process # Nothing /\ process \in Processes
        BY <1>2, <2>2 DEF Handle, IInv
      <3>2. process' = process /\ struct' = Nothing /\ outcome' = Pipeline(struct)
        BY <2>2 DEF Handle
      <3>3. Captured' = Captured
        BY <3>2 DEF Captured
      <3> QED
        BY <3>1, <3>2, <3>3 DEF IInv
    <2>3. CASE Done
      <3>1. outcome # Pending
        BY <2>3 DEF Done, Pending
      <3>2. process' = Nothing /\ outcome' = Pending /\ struct' = Nothing
        BY <1>2, <2>3, <3>1 DEF Done, IInv
      <3> QED
        BY <3>2 DEF IInv
    <2>4. CASE UNCHANGED vars
      BY <1>2, <2>4 DEF vars, IInv, Captured
    <2> QED
      BY <1>2, <2>1, <2>2, <2>3, <2>4 DEF Next
  <1> QED
    BY <1>1, <1>2, PTL DEF Spec

\* Once handled, an outcome is that of what was captured of a process.
LEMMA HandledIs ==
    ASSUME IInv, Handled
    PROVE  /\ process \in Processes /\ Captured \in Structs /\ Captured.host = process.host
           /\ outcome = Pipeline(Captured)
  <1>1. outcome # Pending
    BY DEF Handled, Pending
  <1>2. process \in Processes /\ outcome = Pipeline(Captured)
    BY <1>1 DEF IInv
  <1> QED
    BY <1>2, CaptureType DEF Captured
-----------------------------------------------------------------------------
\* What bpf.c captures of a path is its end, and all of it when it flags nothing and
\* there is room; of the arguments, the first of them, the last of these perhaps in
\* part, and all of them when it does not flag that.
THEOREM Captures == Spec => []CaptureIsFaithful
  <1>1. ASSUME IInv PROVE CaptureIsFaithful
    <2> SUFFICES ASSUME struct # Nothing PROVE PathsAreCaptured /\ ArgsAreCaptured
      BY DEF CaptureIsFaithful
    <2>1. process \in Processes /\ struct = Capture(process)
      BY <1>1 DEF IInv, Captured
    <2>2. PathsAreCaptured
      BY <2>1, CaptureType DEF PathsAreCaptured
    <2>3. /\ Len(struct.args) <= Len(process.args)
          /\ \A i \in 1..Len(struct.args) : PartOf(struct.args, process.args, i)
          /\ struct.args # process.args => "ARGS_TOO_LONG" \in struct.flags
      BY <2>1, CaptureType
    <2>4. ArgsAreCaptured
      BY <2>3 DEF ArgsAreCaptured, PartOf
    <2> QED
      BY <2>2, <2>4
  <1> QED
    BY <1>1, Inductive, PTL

\* The sender accepts every event of the pipeline, compilations as builds and
\* the rest as runs, and what the state holds is in order.
THEOREM Sendable == Spec => []PipelineInv
  <1>1. ASSUME IInv PROVE PipelineInv
    <2>1. CASE ~Handled
      <3>1. outcome = Pending
        <4>1. ASSUME outcome # Pending PROVE FALSE
          <5>1. process \in Processes /\ outcome = Pipeline(Captured)
            BY <1>1, <4>1 DEF IInv
          <5>2. Captured \in Structs
            BY <5>1, CaptureType DEF Captured
          <5>3. outcome.out \in {"not a student", "error", "nontarget", "filtered", "event"}
            BY <5>1, <5>2, Outcomes
          <5> QED
            BY <2>1, <5>3 DEF Handled
        <4> QED
          BY <4>1
      <3>2. outcome.out = "none" /\ outcome.event = NoEvent /\ outcome.event.assignment = 0 /\ ~Sent
        BY <3>1 DEF Pending, NoEvent, Sent
      <3>3. TypeOK
        BY <1>1, <3>2 DEF IInv, TypeOK, Processes
      <3> QED
        BY <3>2, <3>3 DEF PipelineInv, EventsAreSendable
    <2>2. CASE Handled
      <3> DEFINE s == Captured
                 e == outcome.event
                 own == AssignmentOfHost(s.host)
      <3>1. process \in Processes /\ s \in Structs /\ s.host = process.host /\ outcome = Pipeline(s)
        BY <1>1, <2>2, HandledIs
      <3>2. s.host \in Hosts /\ s.args \in Seq(Texts)
        BY <3>1 DEF Structs
      <3> HIDE DEF s
      <3>3. /\ outcome.out \in {"not a student", "error", "nontarget", "filtered", "event"}
            /\ outcome.out # "event" => outcome.event = NoEvent
        BY <3>1, Outcomes
      <3>4. CASE ~Sent
        <4>1. e = NoEvent /\ e.assignment = 0
          <5>1. e = NoEvent
            BY <3>3, <3>4 DEF Sent
          <5>2. NoEvent.assignment = 0
            BY DEF NoEvent
          <5> QED
            BY <5>1, <5>2
        <4>2. TypeOK
          <5>1. process # Nothing => process.host \in Hosts /\ process.args \in Seq(Args)
            BY <1>1 DEF IInv, Processes
          <5>2. struct # Nothing => struct = Captured
            BY <1>1 DEF IInv
          <5>3. e.assignment \in 0..2
            BY <4>1
          <5> QED
            BY <3>3, <3>4, <4>1, <5>1, <5>2, <5>3 DEF TypeOK
        <4> QED
          BY <3>4, <4>2 DEF PipelineInv, EventsAreSendable
      <3>5. CASE Sent
        <4> DEFINE path == e.target
        <4>1. Pipeline(s).out = "event" /\ e = Pipeline(s).event
          BY <3>1, <3>5 DEF Sent
        <4> HIDE DEF e, own, path
        <4>2. /\ s.host.known /\ e.student = s.host.student
              /\ \/ e.type = "user_binary" /\ Classify(s.binary) = "unknown"
                 \/ e.type = Classify(s.binary) /\ e.type \in RequiresTargetFile
              /\ e.assignment \in 1..2
          BY <3>1, <4>1, Made DEF own, path
        <4>3. e.student # "none" /\ e.assignment # 0
          BY <3>2, <4>2, PipelineAssumption
        <4>4. e.type \in {"user_binary", "python"} \cup Compilers /\ e.type # NoType
          BY <4>2 DEF RequiresTargetFile, Compilers, NoType
        <4>5. Serialize(e) = IF e.type \in {"user_binary", "python"} THEN "run" ELSE "build"
          BY <4>3, <4>4 DEF Serialize
        <4>6. e.type \in Compilers <=> Classify(s.binary) \in Compilers
          BY <4>2 DEF Compilers, RequiresTargetFile
        <4>7. EventsAreSendable
          BY <4>4, <4>5, <4>6 DEF EventsAreSendable, Compilers, e, s
        <4>8. e # NoEvent
          BY <4>4 DEF NoEvent
        <4>9. TypeOK
          <5>1. process # Nothing => process.host \in Hosts /\ process.args \in Seq(Args)
            BY <1>1 DEF IInv, Processes
          <5>2. struct # Nothing => struct = Captured
            BY <1>1 DEF IInv
          <5>3. e.assignment \in 0..2
            BY <4>2
          <5> QED
            BY <3>3, <3>5, <4>8, <5>1, <5>2, <5>3 DEF TypeOK, e
        <4> QED
          BY <4>7, <4>9 DEF PipelineInv
      <3> QED
        BY <3>4, <3>5
    <2> QED
      BY <2>1, <2>2
  <1> QED
    BY <1>1, Inductive, PTL

\* What an event says of a process is so, however little of it was captured: its
\* student is that of the container, its target the end of the path of the file the
\* process worked on, its assignment that of the container or one on that path.
THEOREM Right == Spec => []EventsAreRight
  <1>1. ASSUME IInv, Sent PROVE EventsAreRight
    <2> DEFINE s == Captured
               e == outcome.event
               own == AssignmentOfHost(s.host)
               kind == IF e.type = "python" THEN "py" ELSE "c"
               target == e.target
               OnIt(path) == /\ path \in Seq(Parts) /\ EndOf(target, path)
                             /\ CutOff(Normalize(target), Normalize(path))
    <2>1. process \in Processes /\ s \in Structs /\ s.host = process.host /\ outcome = Pipeline(s)
      BY <1>1, HandledIs DEF Handled, Sent
    <2>2. /\ process.binary \in Seq(Dentries) /\ process.cwd \in Seq(Dentries)
          /\ EndOf(s.binary, process.binary) /\ EndOf(s.cwd, process.cwd)
      BY <2>1, CaptureType DEF Captured
    <2> HIDE DEF s
    <2>3. s.host \in Hosts /\ s.args \in Seq(Texts) /\ s.binary \in Seq(Kepts) /\ s.cwd \in Seq(Kepts)
      BY <2>1 DEF Structs
    <2>4. Pipeline(s).out = "event" /\ e = Pipeline(s).event
      BY <1>1, <2>1 DEF Sent
    <2> HIDE DEF e, own, kind, target
    <2>5. /\ s.host.known /\ e.student = s.host.student
          /\ \/ e.type = "user_binary" /\ target = s.binary
             \/ /\ e.type = Classify(s.binary) /\ e.type \in RequiresTargetFile
                /\ FindSource(e.type, s.args) # NoSource
                /\ target = Join(s.cwd, FindSource(e.type, s.args))
          /\ target \in Seq(Parts)
          /\ e.assignment \in 1..2
          /\ own # 0 => e.assignment = own
          /\ own = 0 => e.assignment = HomeworkOf(Normalize(target))
      BY <2>1, <2>4, Made DEF own, target
    <2>6. "user_binary" \notin RequiresTargetFile
      BY DEF RequiresTargetFile, Compilers
    <2>7. Targets = IF e.type = "user_binary" THEN {process.binary}
                    ELSE {Join(process.cwd, s.args[i]) :
                             i \in {k \in DOMAIN s.args : IsFirst(s.args, kind, k)}}
      BY DEF Targets, e, s, kind
    <2> HIDE DEF OnIt
    <2>8. \E path \in Targets : OnIt(path)
      <3>1. CASE e.type = "user_binary"
        <4>1. process.binary \in Seq(Parts)
          BY <2>2, Wider DEF Kepts, Parts, Dentries
        <4>2. target = s.binary
          BY <2>5, <2>6, <3>1
        <4>3. OnIt(process.binary)
          BY <2>2, <2>3, <4>1, <4>2, EndNorm DEF OnIt
        <4> QED
          BY <2>7, <3>1, <4>3
      <3>2. CASE e.type # "user_binary"
        <4> DEFINE type == e.type
                   source == FindSource(type, s.args)
        <4>1. source # NoSource /\ target = Join(s.cwd, source)
          BY <2>5, <3>2
        <4>2. kind = IF type = "python" THEN "py" ELSE "c"
          BY DEF kind
        <4> HIDE DEF type
        <4>3. /\ source \in Texts
              /\ \E i \in DOMAIN s.args : IsFirst(s.args, kind, i) /\ source = s.args[i]
          BY <2>3, <4>1, <4>2, SourceType
        <4> HIDE DEF source
        <4>4. Join(process.cwd, source) \in Targets
          BY <2>7, <3>2, <4>3
        <4>5. process.cwd \in Seq(Kepts)
          BY <2>2, Wider DEF Kepts
        <4>6. Join(process.cwd, source) \in Seq(Parts)
          BY <4>3, <4>5, JoinType
        <4>7. EndOf(Join(s.cwd, source), Join(process.cwd, source))
          BY <2>2, <2>3, <4>3, JoinEnd
        <4>8. CutOff(Normalize(Join(s.cwd, source)), Normalize(Join(process.cwd, source)))
          BY <2>2, <2>3, <4>3, JoinNorm
        <4>9. OnIt(Join(process.cwd, source))
          BY <4>1, <4>6, <4>7, <4>8 DEF OnIt
        <4> QED
          BY <4>4, <4>9
      <3> QED
        BY <3>1, <3>2
    <2>9. PICK path \in Targets : OnIt(path)
      BY <2>8
    <2>10. /\ path \in Seq(Parts) /\ EndOf(target, path)
           /\ CutOff(Normalize(target), Normalize(path))
      BY <2>9 DEF OnIt
    <2>11. ASSUME own = 0
           PROVE  \E i \in DOMAIN Normalize(path) : Dir(Normalize(path)[i]) = e.assignment
      <3>1. Normalize(target) \in Seq(Kepts) /\ Normalize(path) \in Seq(Kepts)
        BY <2>5, <2>10, ParseType
      <3>2. HomeworkOf(Normalize(target)) # 0 /\ e.assignment = HomeworkOf(Normalize(target))
        BY <2>5, <2>11
      <3> QED
        BY <2>10, <3>1, <3>2, OnThePath
    <2>12. process.host.known /\ e.student = process.host.student /\ own = AssignmentOfHost(process.host)
      BY <2>1, <2>5 DEF own
    <2>13. own # 0 => e.assignment = own
      BY <2>5
    <2>14. IF own # 0 THEN e.assignment = own
           ELSE \E i \in DOMAIN Normalize(path) : Dir(Normalize(path)[i]) = e.assignment
      BY <2>11, <2>13
    <2> HIDE DEF Sent
    <2> QED
      BY <2>9, <2>10, <2>12, <2>14 DEF EventsAreRight, e, target
  <1>2. ~Sent => EventsAreRight
    BY DEF EventsAreRight
  <1> QED
    BY <1>1, <1>2, Inductive, PTL

\* Of a process that is captured whole an event is made if and only if it is a
\* student's work.
THEOREM WorkIsSeen == Spec => []WorkIsReported
  <1>1. ASSUME IInv, Handled, Whole PROVE Sent <=> process.host.known /\ IsWork
    <2> DEFINE s == Captured
               type == Classify(s.binary)
               hw == ParsePath(s.binary)
               source == FindSource(type, s.args)
               label == LabelProcess(s)
               own == AssignmentOfHost(s.host)
    <2>1. process \in Processes /\ s \in Structs /\ s.host = process.host /\ outcome = Pipeline(s)
      BY <1>1, HandledIs
    <2>2. s.binary = process.binary /\ s.cwd = process.cwd /\ s.args = process.args
      BY <1>1 DEF Whole
    <2>3. /\ "tab" \notin Range(s.binary) /\ "tab" \notin Range(s.cwd)
          /\ \A i \in Sources : "tab" \notin Range(s.args[i].names)
      BY <1>1, <2>2 DEF Whole
    <2> HIDE DEF s
    <2>4. s.host \in Hosts /\ s.args \in Seq(Texts) /\ s.binary \in Seq(Kepts) /\ s.cwd \in Seq(Kepts)
      BY <2>1 DEF Structs
    <2>5. own \in 0..2
      BY <2>4, OwnType
    <2> HIDE DEF label
    <2>6. Sent <=> /\ s.host.known /\ label.hw # Raised /\ label.type # NoType
                   /\ ~(label.type \in RequiresTargetFile /\ label.source = NoSource)
                   /\ ~(label.hw = 0 /\ own = 0)
      <3>1. own = AssignmentOfHost(s.host) /\ label = LabelProcess(s)
        BY DEF label
      <3> HIDE DEF own
      <3>2. outcome.out = "event" <=> IsEvent(s, label, own)
        BY <2>1, <3>1, Outcomes
      <3> QED
        BY <3>2 DEF Sent, IsEvent
    <2>7. hw \in 0..2 /\ (hw # 0 <=> InHomework(process.binary)) /\ hw # Raised
      <3>1. s.binary \in Seq(Parts)
        BY <2>4, Wider DEF Kepts, Parts, Dentries
      <3>2. hw \in -1..2 /\ hw # Raised
        BY <2>3, <3>1, ParseType
      <3>3. hw = HomeworkOf(s.binary)
        BY <2>4, <3>1, <3>2, ParseType, NormalPath
      <3>4. HomeworkOf(s.binary) # 0 <=> InHomework(s.binary)
        BY <2>4, HomeworkType
      <3> HIDE DEF hw
      <3>5. hw \in 0..2
        BY <3>2 DEF Raised
      <3> QED
        BY <2>2, <3>2, <3>3, <3>4, <3>5
    <2>8. \/ hw \in 1..2 /\ type = "unknown" /\ label = Label("user_binary", hw, NoSource)
          \/ hw = 0 /\ type = "unknown" /\ label = Label(NoType, 0, NoSource)
          \/ /\ type \in RequiresTargetFile /\ source = NoSource
             /\ label = Label(type, 0, NoSource)
          \/ /\ type \in RequiresTargetFile /\ source # NoSource
             /\ label = Label(type, ParsePath(Join(s.cwd, source)), source)
      <3> HIDE DEF hw, type, source
      <3> QED
        BY <2>1, <2>7, Labels DEF label, hw, type, source
    <2>9. \A t, h, f : /\ Label(t, h, f).type = t /\ Label(t, h, f).hw = h
                       /\ Label(t, h, f).source = f
      BY DEF Label
    <2>10. "unknown" \notin RequiresTargetFile /\ "user_binary" \notin RequiresTargetFile
           /\ NoType \notin RequiresTargetFile /\ "user_binary" # NoType
      BY DEF RequiresTargetFile, Compilers, NoType
    <2>11. type = "unknown" => (IsWork <=> InHomework(process.binary))
      BY <2>2 DEF IsWork
    <2> DEFINE first == CHOOSE i \in Sources : \A j \in Sources : i <= j
    <2>12. type # "unknown" =>
             (IsWork <=> /\ Sources # {}
                         /\ own # 0 \/ InHomework(Normalize(Join(s.cwd, s.args[first]))))
      BY <2>1, <2>2 DEF IsWork
    <2>13. /\ source = NoSource <=> Sources = {}
           /\ source # NoSource => /\ source = s.args[first]
                                  /\ \E i \in Sources \cap DOMAIN s.args : source = s.args[i]
      <3> DEFINE kind == IF type = "python" THEN "py" ELSE "c"
      <3>1. Sources = IF kind = "py" /\ \E i \in DOMAIN s.args : s.args[i].kind = "module" THEN {}
                      ELSE {i \in DOMAIN s.args : Source(s.args, i, kind)}
        BY <2>2 DEF Sources
      <3>2. kind = IF type = "python" THEN "py" ELSE "c"
        OBVIOUS
      <3>3. source = FindSource(type, s.args)
        OBVIOUS
      <3> DEFINE args == s.args  srcs == Sources
      <3>4. /\ args \in Seq(Texts) /\ source = FindSource(type, args)
            /\ kind = IF type = "python" THEN "py" ELSE "c"
            /\ srcs = IF kind = "py" /\ \E i \in DOMAIN args : args[i].kind = "module" THEN {}
                      ELSE {i \in DOMAIN args : Source(args, i, kind)}
        BY <2>4, <3>1, <3>2, <3>3
      <3> HIDE DEF source, type, kind, args, srcs
      <3>5. /\ source = NoSource <=> srcs = {}
            /\ source # NoSource =>
                 /\ source = args[CHOOSE i \in srcs : \A j \in srcs : i <= j]
                 /\ \E i \in srcs \cap DOMAIN args : source = args[i]
        BY <3>4, FirstIs
      <3> QED
        BY <3>5 DEF args, srcs
    <2> HIDE DEF hw, type, source, own, first
    <2>14. CASE hw \in 1..2 /\ type = "unknown" /\ label = Label("user_binary", hw, NoSource)
      <3>1. label.type = "user_binary" /\ label.hw = hw
        BY <2>9, <2>14
      <3>2. hw # 0
        BY <2>14
      <3> QED
        BY <2>1, <2>6, <2>7, <2>10, <2>11, <2>14, <3>1, <3>2
    <2>15. CASE hw = 0 /\ type = "unknown" /\ label = Label(NoType, 0, NoSource)
      BY <2>6, <2>7, <2>9, <2>11, <2>15
    <2>16. CASE type \in RequiresTargetFile /\ source = NoSource /\ label = Label(type, 0, NoSource)
      BY <2>6, <2>9, <2>10, <2>12, <2>13, <2>16
    <2>17. CASE /\ type \in RequiresTargetFile /\ source # NoSource
                /\ label = Label(type, ParsePath(Join(s.cwd, source)), source)
      <3> DEFINE path == Join(s.cwd, source)
      <3>1. source \in Texts /\ "tab" \notin Range(source.names)
        BY <2>3, <2>4, <2>13, <2>17
      <3>2. path \in Seq(Parts)
        BY <2>4, <3>1, JoinType
      <3>3. "tab" \notin Range(path)
        <4>1. CASE source.abs
          BY <3>1, <4>1 DEF Join
        <4>2. CASE ~source.abs
          <5> DEFINE t == source.names  d == s.cwd
          <5>1. t \in Seq(Parts) /\ d \in Seq(Parts)
            <6>1. t \in Seq(Names)
              BY <3>1 DEF Texts
            <6> QED
              BY <2>4, <6>1, Wider DEF Kepts, Parts, Dentries
          <5>2. path = d \o t
            BY <4>2 DEF Join
          <5>3. "tab" \notin Range(d) /\ "tab" \notin Range(t)
            BY <2>3, <3>1
          <5> HIDE DEF path, t, d
          <5>4. ASSUME NEW i \in DOMAIN path, path[i] = "tab" PROVE FALSE
            <6>1. Len(path) = Len(d) + Len(t) /\ Len(d) \in Nat /\ Len(t) \in Nat /\ i \in 1..Len(path)
              BY <5>1, <5>2, Joining
            <6>2. CASE i \in 1..Len(d)
              <7>1. path[i] = d[i] /\ i \in DOMAIN d
                BY <5>1, <5>2, <6>2, Joining
              <7> QED
                BY <5>3, <5>4, <7>1 DEF Range
            <6>3. CASE i \notin 1..Len(d)
              <7>1. i - Len(d) \in 1..Len(t) /\ Len(d) + (i - Len(d)) = i
                BY <6>1, <6>3
              <7>2. path[i] = t[i - Len(d)] /\ i - Len(d) \in DOMAIN t
                BY <5>1, <5>2, <7>1, Joining
              <7> QED
                BY <5>3, <5>4, <7>2 DEF Range
            <6> QED
              BY <6>2, <6>3
          <5> QED
            BY <5>4 DEF Range
        <4> QED
          BY <4>1, <4>2
      <3> HIDE DEF path
      <3>4. ParsePath(path) # Raised /\ ParsePath(path) = HomeworkOf(Normalize(path))
            /\ Normalize(path) \in Seq(Kepts)
        BY <3>2, <3>3, ParseType
      <3>5. ParsePath(path) # 0 <=> InHomework(Normalize(path))
        BY <3>4, HomeworkType
      <3>6. label.type = type /\ label.hw = ParsePath(path) /\ label.source = source
        BY <2>9, <2>17 DEF path
      <3>7. IsWork <=> own # 0 \/ InHomework(Normalize(path))
        BY <2>10, <2>12, <2>13, <2>17 DEF path
      <3>8. type # NoType
        BY <2>10, <2>17
      <3> QED
        BY <2>1, <2>6, <2>17, <3>4, <3>5, <3>6, <3>7, <3>8
    <2> QED
      BY <2>8, <2>14, <2>15, <2>16, <2>17
  <1> QED
    BY <1>1, Inductive, PTL DEF WorkIsReported
===============================================================================
