--------------------------- MODULE ScanningProofs ---------------------------
(***************************************************************************)
(* What a loop over a sequence does, one element after the other, and the  *)
(* induction over sequences that goes with it.                             *)
(***************************************************************************)
EXTENDS Scanning, WellFoundedInduction, SequenceTheorems, TLAPS

(* A set of numbers has a least one.                                        *)
LEMMA LeastNumber ==
  ASSUME NEW T \in SUBSET Nat, T # {}
  PROVE  \E n \in T : \A m \in T : n <= m
<1>1. PICK n \in T : \A m \in T : <<m, n>> \notin OpToRel(<, Nat)
  BY WFMin, NatLessThanWellFounded, Zenon
<1>2. \A m \in T : ~(m < n)
  BY <1>1 DEF OpToRel
<1> QED
  BY <1>2

(* What holds of 0, and of the number after each of which it holds, holds   *)
(* up to n.                                                                 *)
LEMMA Climb ==
  ASSUME NEW n \in Nat, NEW T \in SUBSET (0..n), 0 \in T,
         \A i \in 0..n : i \in T /\ i # n => i + 1 \in T
  PROVE  T = 0..n
<1> SUFFICES ASSUME T # 0..n  PROVE FALSE
  OBVIOUS
<1> DEFINE L == {i \in 0..n : i \notin T}
<1>1. L \in SUBSET Nat /\ L # {}
  <2>1. \E i \in 0..n : i \notin T
    OBVIOUS
  <2> QED
    BY <2>1
<1>2. PICK k \in L : \A m \in L : k <= m
  BY <1>1, LeastNumber
<1>3. k \in 0..n /\ k # 0 /\ k - 1 \in 0..n /\ k - 1 # n /\ k = (k - 1) + 1
  BY <1>2
<1>4. k - 1 \notin L
  BY <1>2, <1>3
<1> QED
  BY <1>2, <1>3, <1>4

(* What holds of the empty sequence, and of every sequence with one element *)
(* more than one of which it holds, holds of all of them.                   *)
LEMMA Lengthen ==
  ASSUME NEW S, NEW P, <<>> \in P,
         \A x \in Seq(S), t \in S : x \in P => Append(x, t) \in P,
         NEW seq \in Seq(S)
  PROVE  seq \in P
<1> DEFINE n == Len(seq)
           T == {i \in 0..n : SubSeq(seq, 1, i) \in P}
<1>1. n \in Nat
  OBVIOUS
<1>2. 0 \in T
  <2>1. SubSeq(seq, 1, 0) = <<>>
    OBVIOUS
  <2>2. 0 \in 0..n
    BY <1>1
  <2> QED
    BY <2>1, <2>2
<1>3. ASSUME NEW i \in 0..n, i \in T, i # n
      PROVE  i + 1 \in T
  <2>1. i + 1 \in 1..n /\ i + 1 \in 0..n
    <3> HIDE DEF n
    <3> QED
      BY <1>1, <1>3
  <2>2. SubSeq(seq, 1, i) \in Seq(S) /\ seq[i + 1] \in S
    BY <2>1
  <2>3. SubSeq(seq, 1, i + 1) = Append(SubSeq(seq, 1, i), seq[i + 1])
    BY <2>1
  <2>4. SubSeq(seq, 1, i) \in P
    BY <1>3
  <2>5. SubSeq(seq, 1, i + 1) \in P
    BY <2>2, <2>3, <2>4
  <2> QED
    BY <2>1, <2>5
<1>4. T = 0..n
  <2>1. T \in SUBSET (0..n)
    OBVIOUS
  <2> HIDE DEF T, n
  <2> QED
    BY <1>1, <1>2, <1>3, <2>1, Climb
<1>5. SubSeq(seq, 1, n) = seq
  OBVIOUS
<1>6. n \in T
  BY <1>1, <1>4
<1> QED
  BY <1>5, <1>6

(* The loop as a function of the number of steps taken.                     *)
Takes(after, seq, n) ==
  after = [i \in 0..n |-> IF i = 0 THEN Initial ELSE Step(after[i - 1], seq[i])]

LEMMA ResultTakes ==
  ASSUME NEW seq, Len(seq) \in Nat
  PROVE  \E after : Takes(after, seq, Len(seq)) /\ Result(seq) = after[Len(seq)]
<1> DEFINE n == Len(seq)
           T == {k \in 0..n : \E f : Takes(f, seq, k)}
<1>1. 0 \in T
  <2> DEFINE f == [i \in 0..0 |-> Initial]
  <2>1. \A i \in 0..0 : i = 0
    OBVIOUS
  <2>2. Takes(f, seq, 0)
    BY <2>1 DEF Takes
  <2> QED
    BY <2>2
<1>2. ASSUME NEW k \in 0..n, k \in T, k # n
      PROVE  k + 1 \in T
  <2>1. PICK f : Takes(f, seq, k)
    BY <1>2
  <2> DEFINE g == [i \in 0..(k + 1) |-> IF i = 0 THEN Initial ELSE Step(f[i - 1], seq[i])]
  <2>2. \A i \in 0..k : f[i] = IF i = 0 THEN Initial ELSE Step(f[i - 1], seq[i])
    BY <2>1 DEF Takes
  <2>3. \A i \in 0..k : i \in 0..(k + 1)
    OBVIOUS
  <2>4. \A i \in 0..k : g[i] = f[i]
    BY <2>2, <2>3
  <2>5. \A i \in 0..(k + 1) : i # 0 => g[i - 1] = f[i - 1]
    <3>1. \A i \in 0..(k + 1) : i # 0 => i - 1 \in 0..k
      BY <1>2
    <3> HIDE DEF g
    <3> QED
      BY <2>4, <3>1
  <2>6. \A i \in 0..(k + 1) : (IF i = 0 THEN Initial ELSE Step(f[i - 1], seq[i]))
                              = IF i = 0 THEN Initial ELSE Step(g[i - 1], seq[i])
    BY <2>5
  <2>7. Takes(g, seq, k + 1)
    BY <2>6 DEF Takes
  <2> QED
    BY <1>2, <2>7
<1>3. PICK f : Takes(f, seq, n)
  <2>1. T \in SUBSET (0..n)
    OBVIOUS
  <2>2. n \in T
    <3> HIDE DEF T, n
    <3>1. n \in Nat
      BY DEF n
    <3> QED
      BY <1>1, <1>2, <2>1, <3>1, Climb
  <2> QED
    BY <2>2
<1> DEFINE once(r, i) == CHOOSE s \in {Step(q, seq[i]) : q \in {r}} : TRUE
           Loops(g) == g = [i \in 0..n |-> IF i = 0 THEN Initial ELSE once(g[i - 1], i)]
           after == CHOOSE g : Loops(g)
<1>4. \A r, i : once(r, i) = Step(r, seq[i])
  <2> SUFFICES ASSUME NEW r, NEW i  PROVE once(r, i) = Step(r, seq[i])
    OBVIOUS
  <2>1. {Step(q, seq[i]) : q \in {r}} = {Step(r, seq[i])}
    OBVIOUS
  <2> QED
    BY <2>1
<1>5. \A g : Loops(g) <=> Takes(g, seq, n)
  <2> HIDE DEF once, n
  <2>1. \A g : [i \in 0..n |-> IF i = 0 THEN Initial ELSE once(g[i - 1], i)]
               = [i \in 0..n |-> IF i = 0 THEN Initial ELSE Step(g[i - 1], seq[i])]
    BY <1>4
  <2> QED
    BY <2>1 DEF Takes
<1>6. Loops(after)
  <2> HIDE DEF Loops
  <2> QED
    BY <1>3, <1>5
<1>7. Result(seq) = after[n]
  BY DEF Result
<1> QED
  <2> HIDE DEF Loops, after
  <2> QED
    BY <1>5, <1>6, <1>7

LEMMA TakenSteps ==
  ASSUME NEW f, NEW seq, NEW n \in Nat, Takes(f, seq, n)
  PROVE  f[0] = Initial /\ \A i \in 1..n : f[i] = Step(f[i - 1], seq[i])
<1>1. \A i \in 0..n : f[i] = IF i = 0 THEN Initial ELSE Step(f[i - 1], seq[i])
  BY DEF Takes
<1>2. 0 \in 0..n /\ \A i \in 1..n : i \in 0..n /\ i # 0
  OBVIOUS
<1> QED
  BY <1>1, <1>2

LEMMA NothingScanned == Result(<<>>) = Initial
<1>1. Len(<<>>) = 0
  OBVIOUS
<1>2. PICK f : Takes(f, <<>>, 0) /\ Result(<<>>) = f[0]
  BY <1>1, ResultTakes
<1> QED
  BY <1>2 DEF Takes

LEMMA OneMoreScanned ==
  ASSUME NEW S, NEW seq \in Seq(S), NEW x \in S
  PROVE  Result(Append(seq, x)) = Step(Result(seq), x)
<1> DEFINE n == Len(seq)
           more == Append(seq, x)
<1>1. /\ n \in Nat /\ Len(more) = n + 1 /\ more[n + 1] = x
      /\ \A i \in 1..n : more[i] = seq[i]
  OBVIOUS
<1> HIDE DEF n, more
<1>2. PICK f : Takes(f, seq, n) /\ Result(seq) = f[n]
  BY <1>1, ResultTakes DEF n
<1>3. PICK g : Takes(g, more, n + 1) /\ Result(more) = g[n + 1]
  BY <1>1, ResultTakes
<1>4. /\ f[0] = Initial /\ g[0] = Initial
      /\ \A i \in 1..n : f[i] = Step(f[i - 1], seq[i])
      /\ \A i \in 1..(n + 1) : g[i] = Step(g[i - 1], more[i])
  <2>1. f[0] = Initial /\ \A i \in 1..n : f[i] = Step(f[i - 1], seq[i])
    BY <1>1, <1>2, TakenSteps
  <2>2. n + 1 \in Nat
    BY <1>1
  <2>3. g[0] = Initial /\ \A i \in 1..(n + 1) : g[i] = Step(g[i - 1], more[i])
    BY <1>3, <2>2, TakenSteps
  <2> QED
    BY <2>1, <2>3
<1> DEFINE T == {i \in 0..n : f[i] = g[i]}
<1>5. 0 \in T
  BY <1>1, <1>4
<1>6. ASSUME NEW i \in 0..n, i \in T, i # n
      PROVE  i + 1 \in T
  <2>1. i + 1 \in 1..n /\ i + 1 \in 1..(n + 1) /\ (i + 1) - 1 = i /\ i + 1 \in 0..n
    BY <1>1, <1>6
  <2>2. f[i + 1] = Step(f[i], seq[i + 1]) /\ g[i + 1] = Step(g[i], more[i + 1])
    BY <1>4, <2>1
  <2>3. f[i] = g[i] /\ seq[i + 1] = more[i + 1]
    BY <1>1, <1>6, <2>1
  <2> QED
    BY <2>1, <2>2, <2>3
<1>7. T = 0..n
  <2>1. T \in SUBSET (0..n)
    OBVIOUS
  <2> HIDE DEF T
  <2> QED
    BY <1>1, <1>5, <1>6, <2>1, Climb
<1>8. f[n] = g[n]
  BY <1>1, <1>7
<1>9. g[n + 1] = Step(g[n], x)
  BY <1>1, <1>4
<1> QED
  BY <1>2, <1>3, <1>8, <1>9 DEF more
=============================================================================
