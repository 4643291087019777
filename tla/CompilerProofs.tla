----------------------------- MODULE CompilerProofs -----------------------------
(***************************************************************************)
(* What PlanCompiler promises of a compiled workflow, proved for any       *)
(* specialists, evidence, plans, contracts and floors.                     *)
(*                                                                         *)
(* A compilation is one step, so that the invariant says little more than  *)
(* what Compile assigns; the work is in what the operators compute: that   *)
(* the rounds put every step in order once and after all it depends on, or *)
(* meet a cycle; that a best specialist exists; and that a plan nothing    *)
(* speaks against has what each of the checks asks for.                    *)
(***************************************************************************)
EXTENDS PlanCompiler, FoldLemmas, FiniteSetTheorems, SequenceTheorems

----------------------------------------------------------------------------
Increasing(s) == \A i, j \in DOMAIN s : i < j => s[i] < s[j]

\* Finitely many numbers can be sorted: the least, and then the others.
LEMMA SortedExists ==
    ASSUME NEW ids \in SUBSET Nat, IsFiniteSet(ids)
    PROVE  \E s \in [1..Cardinality(ids) -> ids] : Increasing(s)
<1> DEFINE T == {n \in Nat : \A S \in SUBSET Nat :
                    IsFiniteSet(S) /\ Cardinality(S) = n => \E s \in [1..n -> S] : Increasing(s)}
<1>1. 0 \in T
  <2> SUFFICES ASSUME NEW S \in SUBSET Nat PROVE \E s \in [1..0 -> S] : Increasing(s)
    OBVIOUS
  <2>1. [i \in 1..0 |-> i] \in [1..0 -> S] /\ Increasing([i \in 1..0 |-> i])
    BY DEF Increasing
  <2>2. QED
    BY <2>1
<1>2. ASSUME NEW n \in Nat, n \in T PROVE n + 1 \in T
  <2> SUFFICES ASSUME NEW S \in SUBSET Nat, IsFiniteSet(S), Cardinality(S) = n + 1
               PROVE  \E s \in [1..(n + 1) -> S] : Increasing(s)
    OBVIOUS
  <2>1. S # {}
    BY FS_EmptySet
  <2>2. PICK m \in S : \A k \in S : m <= k
    BY <2>1, Least
  <2> DEFINE R == S \ {m}
  <2>3. R \in SUBSET Nat /\ IsFiniteSet(R) /\ Cardinality(R) = n
    <3>1. IsFiniteSet(R) /\ Cardinality(R) = (n + 1) - 1
      BY <2>2, FS_RemoveElement
    <3>2. QED
      BY <3>1
  <2>4. PICK r \in [1..n -> R] : Increasing(r)
    BY <1>2, <2>3
  <2> DEFINE s == [i \in 1..(n + 1) |-> IF i = 1 THEN m ELSE r[i - 1]]
  <2>5. s \in [1..(n + 1) -> S]
    <3>1. \A i \in 1..(n + 1) : i # 1 => i - 1 \in 1..n
      OBVIOUS
    <3>2. QED
      BY <2>4, <3>1
  <2>6. ASSUME NEW i \in 1..(n + 1), NEW j \in 1..(n + 1), i < j PROVE s[i] < s[j]
    <3>1. j # 1 /\ j - 1 \in 1..n /\ s[j] = r[j - 1] /\ r[j - 1] \in R
      BY <2>4, <2>6
    <3>2. CASE i = 1
      <4>1. s[i] = m
        BY <3>2
      <4>2. m <= r[j - 1] /\ m # r[j - 1] /\ r[j - 1] \in Nat /\ m \in Nat
        BY <2>2, <3>1
      <4>3. QED
        BY <3>1, <4>1, <4>2
    <3>3. CASE i # 1
      <4>1. i - 1 \in 1..n /\ i - 1 < j - 1 /\ s[i] = r[i - 1]
        BY <2>6, <3>3
      <4>2. r[i - 1] < r[j - 1]
        BY <2>4, <3>1, <4>1 DEF Increasing
      <4>3. QED
        BY <3>1, <4>1, <4>2
    <3>4. QED
      BY <3>2, <3>3
  <2>7. Increasing(s)
    <3> DOMAIN s = 1..(n + 1)
      OBVIOUS
    <3> HIDE DEF s
    <3> QED
      BY <2>6 DEF Increasing
  <2>8. QED
    BY <2>5, <2>7
<1>3. Nat \subseteq T
  <2> HIDE DEF T
  <2> QED
    BY <1>1, <1>2, Induction
<1>4. Cardinality(ids) \in T
  BY <1>3, FS_CardinalityType
<1>5. QED
  BY <1>4

\* sort() leaves each of the ids in one place.
LEMMA SortedFacts ==
    ASSUME NEW ids \in SUBSET Nat, IsFiniteSet(ids)
    PROVE  /\ Sorted(ids) \in Seq(ids) /\ Len(Sorted(ids)) = Cardinality(ids)
           /\ Range(Sorted(ids)) = ids /\ IsInjective(Sorted(ids))
<1> DEFINE n == Cardinality(ids)
           s == Sorted(ids)
<1>1. n \in Nat
  BY FS_CardinalityType
<1>2. s \in [1..n -> ids] /\ Increasing(s)
  BY SortedExists DEF Sorted, Increasing
<1>3. IsInjective(s)
  <2>1. ASSUME NEW i \in 1..n, NEW j \in 1..n, s[i] = s[j] PROVE i = j
    <3>1. s[i] \in Nat /\ s[j] \in Nat
      BY <1>2
    <3>2. ~(i < j) /\ ~(j < i)
      BY <1>2, <2>1, <3>1 DEF Increasing
    <3>3. QED
      BY <1>1, <3>2
  <2>2. QED
    BY <1>2, <2>1 DEF IsInjective
<1>4. Range(s) = ids
  <2> HIDE DEF s, n
  <2>1. s \in Injection(1..n, ids)
    BY <1>2, <1>3 DEF Injection
  <2>2. Cardinality(1..n) = n
    BY <1>1, FS_Interval
  <2>3. s \in Surjection(1..n, ids)
    BY <2>1, <2>2, FS_Injection DEF n
  <2>4. QED
    BY <1>2, <2>3 DEF Surjection, Range
<1>5. s \in Seq(ids) /\ Len(s) = n
  <2> HIDE DEF s, n
  <2> QED
    BY <1>1, <1>2
<1>6. QED
  BY <1>3, <1>4, <1>5

----------------------------------------------------------------------------
\* Each step has an id, and no more ids than steps.
LEMMA IdsFacts ==
    ASSUME NEW steps \in Seq(PlanSteps)
    PROVE  /\ Ids(steps) \in SUBSET Nat /\ IsFiniteSet(Ids(steps))
           /\ Cardinality(Ids(steps)) \in Nat /\ Cardinality(Ids(steps)) <= Len(steps)
           /\ \A i \in DOMAIN steps : steps[i].id \in Ids(steps)
<1> DEFINE n == Len(steps)
           f == [i \in 1..n |-> steps[i].id]
<1>1. n \in Nat /\ DOMAIN steps = 1..n /\ \A i \in 1..n : steps[i] \in PlanSteps
  OBVIOUS
<1>2. \A i \in 1..n : steps[i].id \in Nat /\ steps[i].id \in Ids(steps)
  BY <1>1 DEF PlanSteps, Ids
<1>3. Ids(steps) \in SUBSET Nat
  BY <1>1, <1>2 DEF Ids
<1>4. f \in Surjection(1..n, Ids(steps))
  BY <1>1, <1>2 DEF Surjection, Ids
<1>5. IsFiniteSet(1..n) /\ Cardinality(1..n) = n
  <2> HIDE DEF n
  <2>1. 1 \in Int /\ n \in Int /\ (IF 1 > n THEN 0 ELSE n - 1 + 1) = n
    BY <1>1
  <2>2. QED
    BY <2>1, FS_Interval
<1>6. IsFiniteSet(Ids(steps)) /\ Cardinality(Ids(steps)) <= Cardinality(1..n)
  <2> HIDE DEF f, n
  <2> QED
    BY <1>4, <1>5, FS_Surjection
<1>7. QED
  BY <1>1, <1>2, <1>3, <1>5, <1>6, FS_CardinalityType

\* What a round makes of the order x.
Round(steps, x) == x \o Sorted(Ready(steps, Range(x)))

LEMMA RoundFacts ==
    ASSUME NEW steps \in Seq(PlanSteps), NEW x \in Seq(Nat)
    PROVE  LET ready == Ready(steps, Range(x))  s == Sorted(ready) IN
           /\ ready \in SUBSET Ids(steps) /\ IsFiniteSet(ready) /\ Cardinality(ready) \in Nat
           /\ s \in Seq(Nat) /\ Len(s) = Cardinality(ready) /\ Range(s) = ready /\ IsInjective(s)
           /\ Round(steps, x) \in Seq(Nat)
           /\ Len(Round(steps, x)) = Len(x) + Len(s)
           /\ \A k \in 1..(Len(x) + Len(s)) :
                 Round(steps, x)[k] = IF k <= Len(x) THEN x[k] ELSE s[k - Len(x)]
           /\ Range(Round(steps, x)) = Range(x) \cup ready
<1> DEFINE ready == Ready(steps, Range(x))
           s == Sorted(ready)
<1>1. ready \in SUBSET Ids(steps)
  BY DEF Ready
<1>2. ready \in SUBSET Nat /\ IsFiniteSet(ready)
  <2> HIDE DEF ready
  <2> QED
    BY <1>1, IdsFacts, FS_Subset
<1>3. s \in Seq(ready) /\ Len(s) = Cardinality(ready) /\ Range(s) = ready /\ IsInjective(s)
  <2> HIDE DEF ready
  <2> QED
    BY <1>2, SortedFacts
<1>4. s \in Seq(Nat)
  <2> HIDE DEF ready, s
  <2> QED
    BY <1>2, <1>3, SeqMonotonic
<1>5. Cardinality(ready) \in Nat
  <2> HIDE DEF ready
  <2> QED
    BY <1>2, FS_CardinalityType
<1> HIDE DEF ready, s
<1>6. /\ x \o s \in Seq(Nat) /\ Len(x \o s) = Len(x) + Len(s)
      /\ \A k \in 1..(Len(x) + Len(s)) : (x \o s)[k] = IF k <= Len(x) THEN x[k] ELSE s[k - Len(x)]
  BY <1>4, ConcatProperties
<1>7. Range(x \o s) = Range(x) \cup Range(s)
  BY <1>4, RangeConcatenation
<1>8. Round(steps, x) = x \o s
  BY DEF Round, ready, s
<1>9. QED
  BY <1>1, <1>2, <1>3, <1>4, <1>5, <1>6, <1>7, <1>8 DEF ready, s

\* The rounds are the recursion the definition asks for.
LEMMA RoundsFold ==
    ASSUME NEW steps \in Seq(PlanSteps)
    PROVE  LET ordered == OrderedBy(steps) IN
           /\ ordered[0] = <<>>
           /\ \A k \in 1..Len(steps) : ordered[k - 1] \in Seq(Nat) => ordered[k] = Round(steps, ordered[k - 1])
<1> DEFINE n == Len(steps)
           S == Seq(Nat)
           F == [k \in 1..n |-> [x \in S |-> Round(steps, x)]]
           Body(f) == [k \in 0..n |->
                         IF k = 0 THEN <<>> ELSE f[k - 1] \o Sorted(Ready(steps, Range(f[k - 1])))]
           ordered == CHOOSE f : f = Body(f)
<1>1. n \in Nat /\ <<>> \in S
  OBVIOUS
<1>2. F \in [1..n -> [S -> S]]
  <2>1. \A x \in S : Round(steps, x) \in S
    BY RoundFacts
  <2>2. QED
    BY <2>1
<1>3. PICK f \in [0..n -> S] : Folds(f, n, S, <<>>, F)
  <2> HIDE DEF F, S, n
  <2> QED
    BY <1>1, <1>2, FoldExists
<1>4. f[0] = <<>> /\ \A k \in 1..n : f[k] = Round(steps, f[k - 1])
  <2>1. ASSUME NEW k \in 1..n PROVE f[k] = Round(steps, f[k - 1])
    <3>1. f[k - 1] \in S
      <4> HIDE DEF S
      <4> QED
        BY <1>1
    <3>2. f[k] = F[k][f[k - 1]]
      BY <1>3, <3>1 DEF Folds
    <3>3. QED
      BY <3>1, <3>2
  <2>2. QED
    BY <1>3, <2>1 DEF Folds
<1>5. f = Body(f)
  <2>1. ASSUME NEW k \in 0..n PROVE f[k] = Body(f)[k]
    <3>1. CASE k = 0
      BY <1>1, <1>4, <3>1
    <3>2. CASE k \in 1..n
      <4>1. f[k] = Round(steps, f[k - 1])
        BY <1>4, <3>2
      <4>2. Body(f)[k] = Round(steps, f[k - 1])
        <5>1. k \in 0..n /\ k # 0
          BY <1>1, <3>2
        <5>2. Body(f)[k] = f[k - 1] \o Sorted(Ready(steps, Range(f[k - 1])))
          BY <5>1
        <5>3. QED
          BY <5>2 DEF Round
      <4>3. QED
        BY <4>1, <4>2
    <3>3. k = 0 \/ k \in 1..n
      BY <1>1
    <3>4. QED
      BY <3>1, <3>2, <3>3, Zenon
  <2>2. QED
    BY <1>3, <2>1
<1>6. ordered = Body(ordered)
  BY <1>5
<1>7. ordered[0] = <<>>
  <2> HIDE DEF ordered
  <2>1. Body(ordered)[0] = <<>>
    BY <1>1
  <2>2. QED
    BY <1>6, <2>1
<1>8. ASSUME NEW k \in 1..n PROVE ordered[k] = Round(steps, ordered[k - 1])
  <2> HIDE DEF ordered
  <2>1. ordered[k] = Body(ordered)[k]
    BY <1>6
  <2>2. Body(ordered)[k] = Round(steps, ordered[k - 1])
    <3>1. k \in 0..n /\ k # 0
      BY <1>1
    <3>2. Body(ordered)[k] = ordered[k - 1] \o Sorted(Ready(steps, Range(ordered[k - 1])))
      BY <3>1
    <3>3. QED
      BY <3>2 DEF Round
  <2>3. QED
    BY <2>1, <2>2
<1>9. OrderedBy(steps) = ordered
  BY DEF OrderedBy
<1>10. QED
  BY <1>7, <1>8, <1>9

----------------------------------------------------------------------------
\* x has each of its ids once and after all the step depends on.
Ordered(steps, x) ==
    /\ x \in Seq(Nat) /\ Range(x) \subseteq Ids(steps) /\ IsInjective(x)
    /\ \A i \in DOMAIN steps, k \in DOMAIN x : x[k] = steps[i].id =>
          \A d \in steps[i].dependsOn : \E j \in DOMAIN x : j < k /\ x[j] = d

\* Steps each of which waits for another of them, or for one there is not.
Stuck(steps) ==
    \E C \in (SUBSET Ids(steps)) \ {{}} : \A id \in C : \E i \in DOMAIN steps :
        steps[i].id = id /\ (steps[i].dependsOn \cap C # {} \/ ~(steps[i].dependsOn \subseteq Ids(steps)))

LEMMA RoundOrdered ==
    ASSUME NEW steps \in Seq(PlanSteps), NEW x, Ordered(steps, x)
    PROVE  Ordered(steps, Round(steps, x))
<1> DEFINE ready == Ready(steps, Range(x))
           s == Sorted(ready)
           y == Round(steps, x)
           n == Len(x)
           m == Len(s)
<1>1. x \in Seq(Nat) /\ n \in Nat /\ DOMAIN x = 1..n
  BY DEF Ordered
<1>2. /\ ready \in SUBSET Ids(steps) /\ s \in Seq(Nat) /\ Range(s) = ready /\ IsInjective(s)
      /\ y \in Seq(Nat) /\ Len(y) = n + m /\ Range(y) = Range(x) \cup ready
      /\ \A k \in 1..(n + m) : y[k] = IF k <= n THEN x[k] ELSE s[k - n]
  BY <1>1, RoundFacts
<1>3. m \in Nat /\ DOMAIN s = 1..m /\ DOMAIN y = 1..(n + m)
  <2> HIDE DEF s, y, n
  <2> QED
    BY <1>1, <1>2
<1>4. \A r \in ready : r \notin Range(x)
  BY DEF Ready
<1>5. /\ \A k \in 1..n : x[k] \in Range(x)
      /\ \A k \in 1..m : s[k] \in ready
      /\ \A r \in Range(x) : \E k \in 1..n : x[k] = r
  <2> HIDE DEF ready, s, n, m
  <2> QED
    BY <1>1, <1>2, <1>3 DEF Range
<1>6. ASSUME NEW k \in DOMAIN y
      PROVE  \/ k \in 1..n /\ y[k] = x[k]
             \/ ~(k <= n) /\ k - n \in 1..m /\ y[k] = s[k - n]
  <2> HIDE DEF ready, s, y, n, m
  <2> QED
    BY <1>1, <1>2, <1>3
<1> HIDE DEF ready, s, y, n, m
<1>7. IsInjective(y)
  <2> SUFFICES ASSUME NEW a \in DOMAIN y, NEW b \in DOMAIN y, y[a] = y[b] PROVE a = b
    BY DEF IsInjective
  <2>0. a \in Int /\ b \in Int
    BY <1>3
  <2>1. CASE a \in 1..n /\ y[a] = x[a]
    <3>1. y[a] \in Range(x)
      BY <1>5, <2>1
    <3>2. b \in 1..n /\ y[b] = x[b]
      BY <1>4, <1>5, <1>6, <3>1
    <3>3. QED
      BY <1>1, <2>1, <3>2 DEF Ordered, IsInjective
  <2>2. CASE ~(a <= n) /\ a - n \in 1..m /\ y[a] = s[a - n]
    <3>1. y[a] \in ready
      BY <1>5, <2>2
    <3>2. b - n \in 1..m /\ y[b] = s[b - n]
      BY <1>4, <1>5, <1>6, <3>1
    <3>3. a - n = b - n
      BY <1>2, <1>3, <2>2, <3>2 DEF IsInjective
    <3>4. QED
      BY <1>1, <2>0, <3>3
  <2>3. QED
    BY <1>6, <2>1, <2>2
<1>8. ASSUME NEW i \in DOMAIN steps, NEW k \in DOMAIN y, y[k] = steps[i].id, NEW d \in steps[i].dependsOn
      PROVE  \E j \in DOMAIN y : j < k /\ y[j] = d
  <2>1. CASE k \in 1..n /\ y[k] = x[k]
    <3>1. PICK j \in DOMAIN x : j < k /\ x[j] = d
      BY <1>1, <1>8, <2>1 DEF Ordered
    <3>2. j \in 1..(n + m) /\ j <= n
      BY <1>1, <1>3, <3>1
    <3>3. y[j] = x[j]
      BY <1>2, <3>2
    <3>4. QED
      BY <1>3, <3>1, <3>2, <3>3
  <2>2. CASE ~(k <= n) /\ k - n \in 1..m /\ y[k] = s[k - n]
    <3>1. steps[i].id \in ready
      BY <1>5, <1>8, <2>2
    <3>2. d \in Range(x)
      BY <1>8, <3>1 DEF Ready, ready
    <3>3. PICK j \in 1..n : x[j] = d
      BY <1>5, <3>2
    <3>4. j \in 1..(n + m) /\ j <= n /\ j < k
      BY <1>1, <1>3, <2>2
    <3>5. y[j] = x[j]
      BY <1>2, <3>4
    <3>6. QED
      BY <1>3, <3>3, <3>4, <3>5
  <2>3. QED
    BY <1>6, <2>1, <2>2
<1>9. Range(y) \subseteq Ids(steps)
  BY <1>2 DEF Ordered
<1>10. QED
  <2>1. Ordered(steps, y)
    BY <1>2, <1>7, <1>8, <1>9 DEF Ordered
  <2>2. QED
    BY <2>1 DEF y

\* After k rounds k steps are in order, unless all are or the rest is stuck.
Grown(steps, x, k) == Range(x) = Ids(steps) \/ Len(x) >= k \/ Stuck(steps)

LEMMA RoundGrown ==
    ASSUME NEW steps \in Seq(PlanSteps), NEW x, Ordered(steps, x), NEW k \in Nat, Grown(steps, x, k)
    PROVE  Grown(steps, Round(steps, x), k + 1)
<1> DEFINE ready == Ready(steps, Range(x))
           s == Sorted(ready)
           y == Round(steps, x)
<1>1. x \in Seq(Nat) /\ Range(x) \subseteq Ids(steps)
  BY DEF Ordered
<1>2. /\ ready \in SUBSET Ids(steps) /\ IsFiniteSet(ready) /\ Cardinality(ready) \in Nat
      /\ Len(s) = Cardinality(ready) /\ Len(y) = Len(x) + Len(s) /\ Range(y) = Range(x) \cup ready
  BY <1>1, RoundFacts
<1>3. CASE Stuck(steps)
  BY <1>3 DEF Grown
<1>4. CASE Range(x) = Ids(steps)
  <2>1. Range(y) = Ids(steps)
    BY <1>2, <1>4
  <2>2. QED
    BY <2>1 DEF Grown
<1>5. CASE Range(x) # Ids(steps) /\ ready = {}
  <2> DEFINE C == Ids(steps) \ Range(x)
  <2>1. C \in (SUBSET Ids(steps)) \ {{}}
    BY <1>1, <1>5
  <2>2. ASSUME NEW id \in C
        PROVE  \E i \in DOMAIN steps :
                  steps[i].id = id /\ (steps[i].dependsOn \cap C # {} \/ ~(steps[i].dependsOn \subseteq Ids(steps)))
    <3>1. id \notin Ready(steps, Range(x))
      BY <1>5
    <3>2. PICK i \in DOMAIN steps : steps[i].id = id /\ ~(steps[i].dependsOn \subseteq Range(x))
      BY <3>1 DEF Ready
    <3>3. PICK d \in steps[i].dependsOn : d \notin Range(x)
      BY <3>2
    <3>4. d \in C \/ d \notin Ids(steps)
      BY <3>3
    <3>5. steps[i].dependsOn \cap C # {} \/ ~(steps[i].dependsOn \subseteq Ids(steps))
      BY <3>4
    <3>6. QED
      BY <3>2, <3>5
  <2>3. Stuck(steps)
    <3> HIDE DEF C
    <3> QED
      BY <2>1, <2>2 DEF Stuck
  <2>4. QED
    BY <2>3 DEF Grown
<1>6. CASE ready # {} /\ Len(x) >= k
  <2> HIDE DEF ready, s, y
  <2>1. Cardinality(ready) # 0
    BY <1>2, <1>6, FS_EmptySet
  <2>2. Len(x) \in Nat /\ Len(x) >= k
    BY <1>1, <1>6
  <2>3. Len(y) >= k + 1
    BY <1>2, <2>1, <2>2
  <2>4. QED
    BY <2>3 DEF Grown, y
<1>7. QED
  BY <1>3, <1>4, <1>5, <1>6 DEF Grown

\* What the loop leaves is in order; and where it leaves something out, some
\* steps are stuck.
LEMMA OrderFacts ==
    ASSUME NEW steps \in Seq(PlanSteps)
    PROVE  Ordered(steps, OrderOf(steps)) /\ (Cyclic(steps) => Stuck(steps))
<1> DEFINE n == Len(steps)
           ordered == OrderedBy(steps)
           T == {k \in Nat : k <= n => Ordered(steps, ordered[k]) /\ Grown(steps, ordered[k], k)}
<1>1. n \in Nat
  OBVIOUS
<1>2. ordered[0] = <<>>
  BY RoundsFold
<1>3. \A k \in 1..n : ordered[k - 1] \in Seq(Nat) => ordered[k] = Round(steps, ordered[k - 1])
  BY RoundsFold
<1>4. 0 \in T
  <2>1. /\ <<>> \in Seq(Nat) /\ Len(<<>>) = 0
        /\ DOMAIN <<>> = {}
    OBVIOUS
  <2>2. Range(<<>>) = {} /\ IsInjective(<<>>)
    BY <2>1 DEF Range, IsInjective
  <2>3. Ordered(steps, <<>>)
    BY <2>1, <2>2 DEF Ordered
  <2>4. Grown(steps, <<>>, 0)
    BY <2>1 DEF Grown
  <2>5. QED
    BY <1>2, <2>3, <2>4
<1>5. ASSUME NEW k \in Nat, k \in T PROVE k + 1 \in T
  <2> SUFFICES ASSUME k + 1 <= n PROVE Ordered(steps, ordered[k + 1]) /\ Grown(steps, ordered[k + 1], k + 1)
    OBVIOUS
  <2>1. Ordered(steps, ordered[k]) /\ Grown(steps, ordered[k], k)
    BY <1>1, <1>5
  <2>2. k + 1 \in 1..n /\ (k + 1) - 1 = k
    BY <1>1
  <2> HIDE DEF ordered, n
  <2>3. ordered[k + 1] = Round(steps, ordered[k])
    <3>1. ordered[k] \in Seq(Nat)
      BY <2>1 DEF Ordered
    <3>2. ordered[(k + 1) - 1] \in Seq(Nat) => ordered[k + 1] = Round(steps, ordered[(k + 1) - 1])
      BY <1>3, <2>2
    <3>3. QED
      BY <2>2, <3>1, <3>2
  <2>4. QED
    BY <2>1, <2>3, RoundOrdered, RoundGrown
<1>6. n \in T
  <2> HIDE DEF T, n
  <2> QED
    BY <1>1, <1>4, <1>5, Induction
<1> DEFINE order == OrderOf(steps)
<1>7. Ordered(steps, order) /\ Grown(steps, order, n)
  BY <1>6 DEF OrderOf
<1>8. ASSUME Len(order) >= n PROVE Range(order) = Ids(steps)
  <2> HIDE DEF order
  <2> DEFINE m == Len(order)
  <2>1. order \in Seq(Nat) /\ m \in Nat /\ DOMAIN order = 1..m /\ IsInjective(order)
        /\ Range(order) \subseteq Ids(steps)
    BY <1>7 DEF Ordered
  <2>2. order \in Injection(1..m, Ids(steps))
    <3>1. order \in [1..m -> Ids(steps)]
      BY <2>1 DEF Range
    <3>2. QED
      BY <2>1, <3>1 DEF Injection
  <2>3. Cardinality(1..m) = m
    <3> HIDE DEF m
    <3>1. 1 \in Int /\ m \in Int /\ (IF 1 > m THEN 0 ELSE m - 1 + 1) = m
      BY <2>1
    <3>2. QED
      BY <3>1, FS_Interval
  <2>4. m <= Cardinality(Ids(steps)) /\ (m = Cardinality(Ids(steps)) => order \in Surjection(1..m, Ids(steps)))
    <3> HIDE DEF m
    <3> QED
      BY <2>2, <2>3, IdsFacts, FS_Injection
  <2>5. m = Cardinality(Ids(steps))
    BY <1>1, <1>8, <2>1, <2>4, IdsFacts
  <2>6. order \in Surjection(1..m, Ids(steps))
    BY <2>4, <2>5
  <2>7. QED
    BY <2>1, <2>6 DEF Surjection, Range
<1>9. QED
  BY <1>7, <1>8 DEF Grown, Cyclic

\* An order of all the ids has as many places as there are ids.
LEMMA OrderLength ==
    ASSUME NEW steps \in Seq(PlanSteps), ~Cyclic(steps)
    PROVE  Len(OrderOf(steps)) = Cardinality(Ids(steps)) /\ Range(OrderOf(steps)) = Ids(steps)
<1> DEFINE order == OrderOf(steps)
           m == Len(order)
<1>1. order \in Seq(Nat) /\ m \in Nat /\ DOMAIN order = 1..m /\ IsInjective(order)
  BY OrderFacts DEF Ordered
<1>2. Range(order) = Ids(steps)
  BY DEF Cyclic
<1> HIDE DEF order
<1>3. order \in Surjection(1..m, Ids(steps)) /\ order \in Injection(1..m, Ids(steps))
  <2>1. order \in [1..m -> Ids(steps)] /\ \A id \in Ids(steps) : \E k \in 1..m : order[k] = id
    BY <1>1, <1>2 DEF Range
  <2>2. QED
    BY <1>1, <2>1 DEF Surjection, Injection
<1> HIDE DEF m
<1>4. IsFiniteSet(1..m) /\ Cardinality(1..m) = m
  <2>1. 1 \in Int /\ m \in Int /\ (IF 1 > m THEN 0 ELSE m - 1 + 1) = m
    BY <1>1
  <2>2. QED
    BY <2>1, FS_Interval
<1>5. m = Cardinality(Ids(steps))
  BY <1>3, <1>4, FS_Surjection
<1>6. QED
  BY <1>2, <1>5 DEF order, m

----------------------------------------------------------------------------
\* A plan's cost is a number.
LEMMA TotalIsNat == ASSUME NEW steps \in Seq(PlanSteps) PROVE Total(steps) \in Nat
<1> DEFINE n == Len(steps)
           F == [k \in 1..n |-> [x \in Nat |-> x + steps[k].cost]]
           Body(f) == [k \in 0..n |-> IF k = 0 THEN 0 ELSE f[k - 1] + steps[k].cost]
           sum == CHOOSE f : f = Body(f)
<1>1. n \in Nat /\ 0 \in Nat
  OBVIOUS
<1>2. \A k \in 1..n : steps[k].cost \in Nat
  <2>1. \A k \in 1..n : steps[k] \in PlanSteps
    OBVIOUS
  <2>2. QED
    BY <2>1 DEF PlanSteps
<1>3. F \in [1..n -> [Nat -> Nat]]
  BY <1>2
<1>4. PICK f \in [0..n -> Nat] : Folds(f, n, Nat, 0, F)
  <2> HIDE DEF F, n
  <2> QED
    BY <1>1, <1>3, FoldExists
<1>5. f = Body(f)
  <2>1. ASSUME NEW k \in 0..n PROVE f[k] = Body(f)[k]
    <3>1. CASE k = 0
      BY <1>1, <1>4, <3>1 DEF Folds
    <3>2. CASE k \in 1..n
      <4>1. k \in 0..n /\ k # 0 /\ f[k - 1] \in Nat
        <5>1. k \in 0..n /\ k # 0 /\ k - 1 \in 0..n
          BY <1>1, <3>2
        <5> HIDE DEF F, n
        <5>2. QED
          BY <1>4, <5>1
      <4>2. f[k] = F[k][f[k - 1]]
        BY <1>4, <3>2, <4>1 DEF Folds
      <4>3. F[k][f[k - 1]] = f[k - 1] + steps[k].cost
        BY <3>2, <4>1
      <4>4. Body(f)[k] = f[k - 1] + steps[k].cost
        BY <4>1
      <4>5. QED
        BY <4>2, <4>3, <4>4
    <3>3. k = 0 \/ k \in 1..n
      BY <1>1
    <3>4. QED
      BY <3>1, <3>2, <3>3, Zenon
  <2>2. QED
    BY <1>4, <2>1
<1>6. sum = Body(sum)
  BY <1>5
<1>7. Folds(sum, n, Nat, 0, F)
  <2> HIDE DEF sum
  <2>1. sum[0] = 0
    <3>1. Body(sum)[0] = 0
      BY <1>1
    <3>2. QED
      BY <1>6, <3>1
  <2>2. ASSUME NEW k \in 1..n, sum[k - 1] \in Nat PROVE sum[k] = F[k][sum[k - 1]]
    <3>1. k \in 0..n /\ k # 0
      BY <1>1
    <3>2. Body(sum)[k] = sum[k - 1] + steps[k].cost
      BY <3>1
    <3>3. F[k][sum[k - 1]] = sum[k - 1] + steps[k].cost
      BY <2>2
    <3>4. QED
      BY <1>6, <3>2, <3>3
  <2>3. QED
    BY <2>1, <2>2 DEF Folds
<1>8. sum[n] \in Nat
  <2> HIDE DEF F, n, sum
  <2>1. n \in 0..n
    BY <1>1
  <2>2. QED
    BY <1>1, <1>3, <1>4, <1>7, <2>1, FoldUnique
<1>9. Total(steps) = sum[n]
  BY DEF Total
<1>10. QED
  BY <1>8, <1>9

----------------------------------------------------------------------------
\* Rates are compared without dividing.
LEMMA Cancel ==
    ASSUME NEW x \in Nat, NEW y \in Nat, NEW c \in Nat, c > 0
    PROVE  (x * c > y * c <=> x > y) /\ (x * c = y * c <=> x = y)
<1>1. ASSUME x > y PROVE x * c > y * c
  <2>1. PICK d \in Nat : x = y + d /\ d > 0
    <3>1. x - y \in Nat /\ x = y + (x - y) /\ x - y > 0
      BY <1>1
    <3>2. QED
      BY <3>1
  <2>2. x * c = y * c + d * c
    BY <2>1
  <2>3. d * c > 0 /\ d * c \in Nat /\ y * c \in Nat
    BY <2>1
  <2>4. QED
    BY <2>2, <2>3
<1>2. ASSUME y > x PROVE y * c > x * c
  <2>1. PICK d \in Nat : y = x + d /\ d > 0
    <3>1. y - x \in Nat /\ y = x + (y - x) /\ y - x > 0
      BY <1>2
    <3>2. QED
      BY <3>1
  <2>2. y * c = x * c + d * c
    BY <2>1
  <2>3. d * c > 0 /\ d * c \in Nat /\ x * c \in Nat
    BY <2>1
  <2>4. QED
    BY <2>2, <2>3
<1>3. x * c \in Nat /\ y * c \in Nat
  OBVIOUS
<1>4. x = y => x * c = y * c
  OBVIOUS
<1>5. x > y \/ y > x \/ x = y
  OBVIOUS
<1>6. QED
  BY <1>1, <1>2, <1>3, <1>4, <1>5

LEMMA RatesCompose ==
    ASSUME NEW a1 \in Nat, NEW c1 \in Nat, NEW a2 \in Nat, NEW c2 \in Nat, NEW a3 \in Nat, NEW c3 \in Nat,
           c1 > 0, c2 > 0, c3 > 0, a1 * c2 >= a2 * c1, a2 * c3 >= a3 * c2
    PROVE  \/ a1 * c3 > a3 * c1
           \/ a1 * c3 = a3 * c1 /\ a1 * c2 = a2 * c1 /\ a2 * c3 = a3 * c2
<1> DEFINE x == a1 * c2  y == a2 * c1  z == a2 * c3  w == a3 * c2
<1>1. x \in Nat /\ y \in Nat /\ z \in Nat /\ w \in Nat /\ a1 * c3 \in Nat /\ a3 * c1 \in Nat
  OBVIOUS
<1>2. (a1 * c3) * c2 = x * c3 /\ y * c3 = z * c1 /\ (a3 * c1) * c2 = w * c1
  OBVIOUS
<1>3. x >= y /\ z >= w
  OBVIOUS
<1> DEFINE u == a1 * c3  v == a3 * c1
<1>4. (u * c2 > v * c2 <=> u > v) /\ (u * c2 = v * c2 <=> u = v)
  <2> HIDE DEF u, v
  <2> QED
    BY <1>1, Cancel DEF u, v
<1> HIDE DEF x, y, z, w, u, v
<1>5. (x * c3 > y * c3 <=> x > y) /\ (x * c3 = y * c3 <=> x = y)
  BY <1>1, Cancel
<1>6. (z * c1 > w * c1 <=> z > w) /\ (z * c1 = w * c1 <=> z = w)
  BY <1>1, Cancel
<1>7. u * c2 = x * c3 /\ v * c2 = w * c1 /\ y * c3 = z * c1
  BY <1>2 DEF u, v
<1>8. x * c3 \in Nat /\ y * c3 \in Nat /\ z * c1 \in Nat /\ w * c1 \in Nat /\ u \in Nat /\ v \in Nat
  BY <1>1 DEF u, v
<1>9. u > v \/ (u = v /\ x = y /\ z = w)
  <2>1. CASE x > y
    BY <1>1, <1>3, <1>4, <1>5, <1>6, <1>7, <1>8, <2>1
  <2>2. CASE x = y /\ z > w
    BY <1>1, <1>4, <1>5, <1>6, <1>7, <1>8, <2>2
  <2>3. CASE x = y /\ z = w
    BY <1>1, <1>4, <1>5, <1>6, <1>7, <1>8, <2>3
  <2>4. QED
    BY <1>1, <1>3, <2>1, <2>2, <2>3
<1>10. QED
  BY <1>9 DEF u, v, x, y, z, w

----------------------------------------------------------------------------
\* Before is a strict total order, so that of the eligible one is first.
EvidenceFits == evidence \in [DOMAIN Profiles -> Evidence]

LEMMA EvidenceNats ==
    ASSUME EvidenceFits, NEW p \in DOMAIN Profiles
    PROVE  evidence[p].completed \in Nat /\ evidence[p].accepted \in Nat /\ evidence[p].rejected \in Nat
<1>1. evidence[p] \in Evidence
  BY DEF EvidenceFits
<1>2. QED
  BY <1>1 DEF Evidence

LEMMA BeforeTotal ==
    ASSUME EvidenceFits, NEW p \in DOMAIN Profiles, NEW q \in DOMAIN Profiles, p # q
    PROVE  Before(p, q) \/ Before(q, p)
<1> DEFINE c == evidence[p].completed  a == evidence[p].accepted
           d == evidence[q].completed  b == evidence[q].accepted
<1>1. c \in Nat /\ a \in Nat /\ d \in Nat /\ b \in Nat /\ p \in Nat /\ q \in Nat
  BY EvidenceNats, ProfilesAssumption
<1>2. a * d \in Nat /\ b * c \in Nat
  BY <1>1
<1>3. CASE (c = 0) # (d = 0)
  BY <1>1, <1>3 DEF Before
<1>4. CASE (c = 0) = (d = 0)
  <2>1. a * d > b * c => Before(p, q)
    BY <1>4 DEF Before
  <2>2. b * c > a * d => Before(q, p)
    BY <1>4 DEF Before
  <2>3. CASE a * d = b * c
    <3>1. c > d \/ (c = d /\ p < q) => Before(p, q)
      BY <1>4, <2>3 DEF Before
    <3>2. d > c \/ (d = c /\ q < p) => Before(q, p)
      BY <1>4, <2>3 DEF Before
    <3>3. QED
      BY <1>1, <3>1, <3>2
  <2>4. QED
    BY <1>2, <2>1, <2>2, <2>3
<1>5. QED
  BY <1>3, <1>4

LEMMA BeforeTransitive ==
    ASSUME EvidenceFits, NEW p \in DOMAIN Profiles, NEW q \in DOMAIN Profiles, NEW r \in DOMAIN Profiles,
           Before(p, q), Before(q, r)
    PROVE  Before(p, r)
<1> DEFINE c1 == evidence[p].completed  a1 == evidence[p].accepted
           c2 == evidence[q].completed  a2 == evidence[q].accepted
           c3 == evidence[r].completed  a3 == evidence[r].accepted
<1>1. c1 \in Nat /\ a1 \in Nat /\ c2 \in Nat /\ a2 \in Nat /\ c3 \in Nat /\ a3 \in Nat
  BY EvidenceNats
<1>2. p \in Nat /\ q \in Nat /\ r \in Nat
  BY ProfilesAssumption
<1>3. \/ c1 > 0 /\ c2 = 0
      \/ (c1 = 0) = (c2 = 0) /\ (a1 * c2 > a2 * c1 \/ (a1 * c2 = a2 * c1 /\ (c1 > c2 \/ (c1 = c2 /\ p < q))))
  BY DEF Before
<1>4. \/ c2 > 0 /\ c3 = 0
      \/ (c2 = 0) = (c3 = 0) /\ (a2 * c3 > a3 * c2 \/ (a2 * c3 = a3 * c2 /\ (c2 > c3 \/ (c2 = c3 /\ q < r))))
  BY DEF Before
<1>5. SUFFICES \/ c1 > 0 /\ c3 = 0
               \/ (c1 = 0) = (c3 = 0) /\ (a1 * c3 > a3 * c1 \/ (a1 * c3 = a3 * c1 /\ (c1 > c3 \/ (c1 = c3 /\ p < r))))
  BY DEF Before
<1> HIDE DEF c1, a1, c2, a2, c3, a3
<1>6. CASE c1 = 0
  <2>1. c2 = 0 /\ c3 = 0
    BY <1>1, <1>3, <1>4, <1>6
  <2>2. \A x \in Nat : x * 0 = 0
    OBVIOUS
  <2>3. a1 * c2 = 0 /\ a2 * c1 = 0 /\ a2 * c3 = 0 /\ a3 * c2 = 0 /\ a1 * c3 = 0 /\ a3 * c1 = 0
    BY <1>1, <1>6, <2>1, <2>2
  <2>4. p < q /\ q < r
    BY <1>3, <1>4, <1>6, <2>1, <2>3
  <2>5. p < r
    BY <1>2, <2>4
  <2>6. QED
    BY <1>6, <2>1, <2>3, <2>5
<1>7. CASE c1 > 0 /\ c3 = 0
  BY <1>7
<1>8. CASE c1 > 0 /\ c3 > 0
  <2>1. c2 > 0
    BY <1>1, <1>4, <1>8
  <2>2. \/ a1 * c2 > a2 * c1
        \/ a1 * c2 = a2 * c1 /\ (c1 > c2 \/ (c1 = c2 /\ p < q))
    BY <1>1, <1>3, <2>1
  <2>3. \/ a2 * c3 > a3 * c2
        \/ a2 * c3 = a3 * c2 /\ (c2 > c3 \/ (c2 = c3 /\ q < r))
    BY <1>1, <1>4, <1>8
  <2>4. a1 * c2 \in Nat /\ a2 * c1 \in Nat /\ a2 * c3 \in Nat /\ a3 * c2 \in Nat
    BY <1>1
  <2>5. a1 * c2 >= a2 * c1 /\ a2 * c3 >= a3 * c2
    BY <2>2, <2>3, <2>4
  <2>6. \/ a1 * c3 > a3 * c1
        \/ a1 * c3 = a3 * c1 /\ a1 * c2 = a2 * c1 /\ a2 * c3 = a3 * c2
    BY <1>1, <1>8, <2>1, <2>5, RatesCompose
  <2>7. CASE a1 * c3 > a3 * c1
    BY <1>1, <1>8, <2>7
  <2>8. CASE a1 * c3 = a3 * c1 /\ a1 * c2 = a2 * c1 /\ a2 * c3 = a3 * c2
    <3>1. c1 > c2 \/ (c1 = c2 /\ p < q)
      BY <2>2, <2>4, <2>8
    <3>2. c2 > c3 \/ (c2 = c3 /\ q < r)
      BY <2>3, <2>4, <2>8
    <3>3. c1 > c3 \/ (c1 = c3 /\ p < r)
      BY <1>1, <1>2, <3>1, <3>2
    <3>4. QED
      BY <1>1, <1>8, <2>8, <3>3
  <2>9. QED
    BY <2>6, <2>7, <2>8
<1>9. QED
  BY <1>1, <1>6, <1>7, <1>8

LEMMA FirstExists ==
    ASSUME EvidenceFits, NEW S \in SUBSET DOMAIN Profiles, S # {}
    PROVE  \E p \in S : \A q \in S \ {p} : Before(p, q)
<1> DEFINE T == {n \in Nat : \A R \in SUBSET DOMAIN Profiles :
                    IsFiniteSet(R) /\ Cardinality(R) = n + 1 => \E p \in R : \A q \in R \ {p} : Before(p, q)}
<1>1. 0 \in T
  <2> SUFFICES ASSUME NEW R \in SUBSET DOMAIN Profiles, IsFiniteSet(R), Cardinality(R) = 1
               PROVE  \E p \in R : \A q \in R \ {p} : Before(p, q)
    OBVIOUS
  <2>1. PICK p : R = {p}
    BY FS_Singleton
  <2>2. QED
    BY <2>1
<1>2. ASSUME NEW n \in Nat, n \in T PROVE n + 1 \in T
  <2> SUFFICES ASSUME NEW R \in SUBSET DOMAIN Profiles, IsFiniteSet(R), Cardinality(R) = (n + 1) + 1
               PROVE  \E p \in R : \A q \in R \ {p} : Before(p, q)
    OBVIOUS
  <2>1. PICK x : x \in R
    BY FS_EmptySet
  <2> DEFINE Q == R \ {x}
  <2>2. Q \in SUBSET DOMAIN Profiles /\ IsFiniteSet(Q) /\ Cardinality(Q) = n + 1
    <3>1. IsFiniteSet(Q) /\ Cardinality(Q) = ((n + 1) + 1) - 1
      BY <2>1, FS_RemoveElement
    <3>2. QED
      BY <3>1
  <2>3. PICK p \in Q : \A q \in Q \ {p} : Before(p, q)
    BY <1>2, <2>2
  <2>4. CASE Before(p, x)
    <3>1. \A q \in R \ {p} : Before(p, q)
      BY <2>3, <2>4
    <3>2. QED
      BY <2>3, <3>1
  <2>5. CASE Before(x, p)
    <3>1. ASSUME NEW q \in R \ {x} PROVE Before(x, q)
      <4>1. CASE q = p
        BY <2>5, <4>1
      <4>2. CASE q # p
        <5>1. Before(p, q)
          BY <2>3, <4>2
        <5>2. QED
          BY <2>1, <2>3, <2>5, <5>1, BeforeTransitive
      <4>3. QED
        BY <4>1, <4>2
    <3>2. QED
      BY <2>1, <3>1
  <2>6. p \in DOMAIN Profiles /\ x \in DOMAIN Profiles /\ p # x
    BY <2>1, <2>3
  <2>7. QED
    BY <2>4, <2>5, <2>6, BeforeTotal
<1>3. Nat \subseteq T
  <2> HIDE DEF T
  <2> QED
    BY <1>1, <1>2, Induction
<1>4. IsFiniteSet(S) /\ Cardinality(S) \in Nat /\ Cardinality(S) # 0
  <2>1. IsFiniteSet(S)
    BY ProfilesAssumption, FS_Subset
  <2>2. QED
    BY <2>1, FS_CardinalityType, FS_EmptySet
<1>5. Cardinality(S) - 1 \in T /\ (Cardinality(S) - 1) + 1 = Cardinality(S)
  BY <1>3, <1>4
<1>6. QED
  BY <1>4, <1>5

\* selectSpecialist finds one, and no eligible one has a better record.
LEMMA SelectFacts ==
    ASSUME EvidenceFits, NEW step, Eligible(step) # {}
    PROVE  Select(step) \in Eligible(step) /\ BestRate(Select(step), step)
<1> DEFINE p == Select(step)
<1>1. Eligible(step) \in SUBSET DOMAIN Profiles
  BY DEF Eligible
<1>2. p \in Eligible(step) /\ \A q \in Eligible(step) \ {p} : Before(p, q)
  <2>1. \E x \in Eligible(step) : \A q \in Eligible(step) \ {x} : Before(x, q)
    BY <1>1, FirstExists
  <2>2. QED
    BY <2>1 DEF Select
<1> HIDE DEF p
<1>3. ASSUME NEW q \in Eligible(step), evidence[q].completed > 0
      PROVE  /\ evidence[p].completed > 0
             /\ evidence[q].accepted * evidence[p].completed <= evidence[p].accepted * evidence[q].completed
  <2> DEFINE c == evidence[p].completed  a == evidence[p].accepted
             d == evidence[q].completed  b == evidence[q].accepted
  <2>1. c \in Nat /\ a \in Nat /\ d \in Nat /\ b \in Nat
    BY <1>1, <1>2, EvidenceNats
  <2>2. a * d \in Nat /\ b * c \in Nat
    BY <2>1
  <2>3. CASE q = p
    <3>1. a * d = b * c
      BY <2>3
    <3>2. QED
      BY <1>3, <2>2, <2>3, <3>1
  <2>4. CASE q # p
    <3>1. Before(p, q)
      BY <1>2, <2>4
    <3>2. \/ d = 0
          \/ (c = 0) = (d = 0) /\ (a * d > b * c \/ a * d = b * c)
      BY <3>1 DEF Before
    <3>3. d > 0
      BY <1>3
    <3> HIDE DEF c, a, d, b
    <3>4. c > 0 /\ b * c <= a * d
      BY <2>1, <2>2, <3>2, <3>3
    <3>5. QED
      BY <3>4 DEF c, a, d, b
  <2>5. QED
    BY <2>3, <2>4
<1>4. BestRate(p, step)
  BY <1>3 DEF BestRate
<1>5. QED
  BY <1>2, <1>4 DEF p

----------------------------------------------------------------------------
\* Routing changes who does a step and nothing else of it.
LEMMA RouteFacts ==
    ASSUME EvidenceFits, NEW step \in PlanSteps
    PROVE  /\ Route(step) \in PlanSteps
           /\ Eligible(Route(step)) = Eligible(step)
           /\ step.specialist # AutoId => Route(step).specialist = step.specialist
           /\ step.specialist = AutoId /\ Route(step).specialist # AutoId => BestRate(Route(step).specialist, Route(step))
<1>1. CASE step.specialist = AutoId /\ Eligible(step) # {}
  <2> DEFINE p == Select(step)
  <2>1. p \in Eligible(step) /\ BestRate(p, step)
    BY <1>1, SelectFacts
  <2>2. p \in Nat
    BY <2>1, ProfilesAssumption DEF Eligible
  <2>3. Route(step) = [step EXCEPT !.specialist = p]
    BY <1>1 DEF Route
  <2> HIDE DEF p
  <2>4. /\ Route(step) \in PlanSteps /\ Route(step).specialist = p
        /\ Route(step).capability = step.capability /\ Route(step).authority = step.authority
    BY <2>2, <2>3 DEF PlanSteps
  <2>5. Eligible(Route(step)) = Eligible(step)
    BY <2>4 DEF Eligible
  <2>6. BestRate(p, Route(step))
    BY <2>1, <2>5 DEF BestRate
  <2>7. QED
    BY <1>1, <2>4, <2>5, <2>6
<1>2. CASE ~(step.specialist = AutoId /\ Eligible(step) # {})
  <2>1. Route(step) = step
    BY <1>2 DEF Route
  <2>2. QED
    BY <2>1
<1>3. QED
  BY <1>1, <1>2

LEMMA RoutedFacts ==
    ASSUME EvidenceFits, NEW plan \in Plans
    PROVE  /\ plan.budget \in Nat /\ Routed(plan).budget = plan.budget
           /\ plan.steps \in Seq(PlanSteps) /\ Routed(plan).steps \in Seq(PlanSteps)
           /\ DOMAIN Routed(plan).steps = DOMAIN plan.steps
           /\ \A i \in DOMAIN plan.steps : Routed(plan).steps[i] = Route(plan.steps[i])
<1> DEFINE asked == plan.steps
           n == Len(asked)
           routed == [i \in DOMAIN asked |-> Route(asked[i])]
<1>1. plan \in [budget : Nat, steps : Seq(PlanSteps)]
  BY PlansAssumption
<1>2. plan.budget \in Nat /\ asked \in Seq(PlanSteps)
  BY <1>1
<1>3. n \in Nat /\ DOMAIN asked = 1..n /\ \A i \in 1..n : asked[i] \in PlanSteps
  <2> HIDE DEF asked
  <2> QED
    BY <1>2
<1>4. routed \in [1..n -> PlanSteps]
  <2>1. \A i \in 1..n : Route(asked[i]) \in PlanSteps
    BY <1>3, RouteFacts
  <2> HIDE DEF n
  <2>2. QED
    BY <1>3, <2>1
<1>5. routed \in Seq(PlanSteps)
  <2> HIDE DEF routed, n
  <2> QED
    BY <1>3, <1>4
<1>6. Routed(plan).budget = plan.budget /\ Routed(plan).steps = routed
  BY <1>1 DEF Routed
<1>7. DOMAIN routed = DOMAIN asked /\ \A i \in DOMAIN asked : routed[i] = Route(asked[i])
  OBVIOUS
<1>8. QED
  BY <1>2, <1>5, <1>6, <1>7

----------------------------------------------------------------------------
\* A plan that nothing speaks against has what each of the checks asks for.
LEMMA Unrefused ==
    ASSUME NEW plan, NEW floor, Refusals(plan, floor) = {}
    PROVE  LET steps == plan.steps IN
           /\ ~(Cardinality(Ids(steps)) < Len(steps)) /\ ~(Total(steps) > plan.budget) /\ ~Cyclic(steps)
           /\ FloorRefusals(plan, floor) = {}
           /\ \A i \in DOMAIN steps :
                 /\ ~(steps[i].effect = "external" /\ ~steps[i].keyed)
                 /\ ~(steps[i].effect # "external" /\ steps[i].keyed)
                 /\ steps[i].specialist # AutoId /\ steps[i].specialist \in Eligible(steps[i])
                 /\ steps[i].dependsOn \subseteq Ids(steps)
<1> DEFINE steps == plan.steps
<1>1. /\ PlanShape(plan) = {} /\ FloorRefusals(plan, floor) = {}
      /\ If(Total(steps) > plan.budget, "BUDGET_EXCEEDED") = {} /\ If(Cyclic(steps), "DEPENDENCY_CYCLE") = {}
      /\ UNION {StepShape(steps[i]) : i \in DOMAIN steps} = {}
      /\ UNION {StepRefusals(steps[i], Ids(steps)) : i \in DOMAIN steps} = {}
  BY DEF Refusals
<1>2. ~(Cardinality(Ids(steps)) < Len(steps))
  <2>1. If(Cardinality(Ids(steps)) < Len(steps), "DUPLICATE_STEP") = {}
    BY <1>1 DEF PlanShape
  <2>2. QED
    BY <2>1 DEF If
<1>3. ~(Total(steps) > plan.budget) /\ ~Cyclic(steps)
  BY <1>1 DEF If
<1>4. ASSUME NEW i \in DOMAIN steps
      PROVE  /\ ~(steps[i].effect = "external" /\ ~steps[i].keyed)
             /\ ~(steps[i].effect # "external" /\ steps[i].keyed)
  <2>1. StepShape(steps[i]) = {}
    BY <1>1
  <2>2. /\ If(steps[i].effect = "external" /\ ~steps[i].keyed, "IDEMPOTENCY_REQUIRED") = {}
        /\ If(steps[i].effect # "external" /\ steps[i].keyed, "UNEXPECTED_IDEMPOTENCY_KEY") = {}
    BY <2>1 DEF StepShape
  <2>3. QED
    BY <2>2 DEF If
<1>5. ASSUME NEW i \in DOMAIN steps
      PROVE  /\ steps[i].specialist # AutoId /\ steps[i].specialist \in Eligible(steps[i])
             /\ steps[i].dependsOn \subseteq Ids(steps)
  <2> DEFINE step == steps[i]
  <2>1. StepRefusals(step, Ids(steps)) = {}
    BY <1>1
  <2>2. /\ If(step.specialist = AutoId, "NO_ELIGIBLE_SPECIALIST") = {}
        /\ If(step.specialist # AutoId /\ step.specialist \notin DOMAIN Profiles, "UNKNOWN_SPECIALIST") = {}
        /\ If(~(step.dependsOn \subseteq Ids(steps)), "UNKNOWN_DEPENDENCY") = {}
        /\ step.specialist \in DOMAIN Profiles =>
              /\ If(step.capability \notin Profiles[step.specialist].capabilities, "CAPABILITY_MISMATCH") = {}
              /\ If(step.authority \notin Profiles[step.specialist].authority, "AUTHORITY_ESCALATION") = {}
    <3> HIDE DEF step
    <3> QED
      BY <2>1 DEF StepRefusals
  <2> HIDE DEF step
  <2>3. step.specialist # AutoId /\ step.specialist \in DOMAIN Profiles /\ step.dependsOn \subseteq Ids(steps)
    BY <2>2 DEF If
  <2>4. step.specialist \in Eligible(step)
    BY <2>2, <2>3 DEF If, Eligible
  <2>5. QED
    BY <2>3, <2>4 DEF step
<1>6. QED
  BY <1>1, <1>2, <1>3, <1>4, <1>5

\* A plan within its floor.
LEMMA WithinFloor ==
    ASSUME NEW plan, NEW floor, floor # NoFloor, FloorRefusals(plan, floor) = {}, NEW i \in DOMAIN plan.steps
    PROVE  /\ plan.steps[i].effect = "external" => "external-effect" \in floor.allowed /\ ~floor.localOnly
           /\ EffectNeeded(plan.steps[i]) \notin floor.forbidden
           /\ ~(plan.budget > floor.maxCost)
<1> DEFINE needed == {EffectNeeded(plan.steps[j]) : j \in DOMAIN plan.steps}
<1>1. /\ If(plan.budget > floor.maxCost, "FLOOR_BUDGET_EXCEEDED") = {}
      /\ If(\E e \in needed : ~Permitted(floor, e), "FLOOR_EFFECT_FORBIDDEN") = {}
      /\ If(floor.localOnly /\ "external-effect" \in needed, "FLOOR_NOT_LOCAL_ONLY") = {}
  BY DEF FloorRefusals
<1>2. /\ ~(plan.budget > floor.maxCost)
      /\ \A e \in needed : Permitted(floor, e)
      /\ ~(floor.localOnly /\ "external-effect" \in needed)
  <2> HIDE DEF needed
  <2> QED
    BY <1>1 DEF If
<1>3. Permitted(floor, EffectNeeded(plan.steps[i]))
  BY <1>2
<1>4. plan.steps[i].effect = "external" => EffectNeeded(plan.steps[i]) = "external-effect"
  BY DEF EffectNeeded
<1>5. QED
  BY <1>2, <1>3, <1>4 DEF Permitted

\* What each group of checks may refuse a plan for.
LEMMA RefusalCodes ==
    ASSUME NEW plan, NEW floor
    PROVE  /\ Refusals(plan, floor) \subseteq Codes
           /\ "DEPENDENCY_CYCLE" \in Refusals(plan, floor) => Cyclic(plan.steps)
<1> DEFINE Other == Codes \ {"DEPENDENCY_CYCLE"}
<1>0. \A code \in Other : \A c : If(c, code) \subseteq Other
  BY DEF If
<1>1. PlanShape(plan) \subseteq Other
  <2>1. "INVALID_STEPS" \in Other /\ "DUPLICATE_STEP" \in Other
    BY DEF Codes
  <2> HIDE DEF Other
  <2>2. QED
    BY <1>0, <2>1 DEF PlanShape
<1>2. \A step : StepShape(step) \subseteq Other
  <2>1. /\ "INVALID_CONTEXT_PROJECTION" \in Other /\ "IDEMPOTENCY_REQUIRED" \in Other
        /\ "UNEXPECTED_IDEMPOTENCY_KEY" \in Other
    BY DEF Codes
  <2> HIDE DEF Other
  <2>2. QED
    BY <1>0, <2>1 DEF StepShape
<1>3. FloorRefusals(plan, floor) \subseteq Other
  <2>1. /\ "INVALID_FLOOR" \in Other /\ "FLOOR_BUDGET_EXCEEDED" \in Other
        /\ "FLOOR_EFFECT_FORBIDDEN" \in Other /\ "FLOOR_NOT_LOCAL_ONLY" \in Other
    BY DEF Codes
  <2> HIDE DEF Other
  <2>2. QED
    BY <1>0, <2>1 DEF FloorRefusals
<1>4. \A step, ids : StepRefusals(step, ids) \subseteq Other
  <2>1. /\ "NO_ELIGIBLE_SPECIALIST" \in Other /\ "UNKNOWN_SPECIALIST" \in Other
        /\ "CAPABILITY_MISMATCH" \in Other /\ "AUTHORITY_ESCALATION" \in Other
        /\ "UNKNOWN_CONTRACT" \in Other /\ "CONTRACT_REJECTED" \in Other /\ "UNKNOWN_DEPENDENCY" \in Other
    BY DEF Codes
  <2> HIDE DEF Other
  <2>2. QED
    BY <1>0, <2>1 DEF StepRefusals
<1>5. /\ If(\E p \in DOMAIN Profiles : ~SpecialistValid(p), "INVALID_EVIDENCE") \subseteq Other
      /\ If(Total(plan.steps) > plan.budget, "BUDGET_EXCEEDED") \subseteq Other
  BY DEF If, Codes
<1>6. If(Cyclic(plan.steps), "DEPENDENCY_CYCLE") \subseteq Codes
  BY DEF If, Codes
<1>7. /\ UNION {StepShape(plan.steps[i]) : i \in DOMAIN plan.steps} \subseteq Other
      /\ UNION {StepRefusals(plan.steps[i], Ids(plan.steps)) : i \in DOMAIN plan.steps} \subseteq Other
  <2> HIDE DEF Other
  <2> QED
    BY <1>2, <1>4
<1>8. "DEPENDENCY_CYCLE" \notin Other /\ Other \subseteq Codes
  OBVIOUS
<1> HIDE DEF Other
<1>9. Refusals(plan, floor) \subseteq Other \cup If(Cyclic(plan.steps), "DEPENDENCY_CYCLE")
  BY <1>1, <1>3, <1>5, <1>7 DEF Refusals
<1>10. "DEPENDENCY_CYCLE" \in Refusals(plan, floor) => "DEPENDENCY_CYCLE" \in If(Cyclic(plan.steps), "DEPENDENCY_CYCLE")
  BY <1>8, <1>9
<1>11. QED
  BY <1>6, <1>8, <1>9, <1>10 DEF If

----------------------------------------------------------------------------
\* What Compile leaves of a plan, by the evidence there is.
Artifact(plan, floor) ==
    LET routed == Routed(plan)  refused == Refusals(routed, floor) IN
    [asked |-> plan, plan |-> routed, floor |-> floor, refused |-> refused,
     order |-> IF refused = {} THEN OrderOf(routed.steps) ELSE <<>>]
JustCompiled ==
    EvidenceFits /\ \E plan \in Plans, floor \in Floors \cup {NoFloor} : compiled = Artifact(plan, floor)

\* The place of an id in an order.
Place(order, id) == CHOOSE k \in DOMAIN order : order[k] = id

LEMMA Places ==
    ASSUME NEW steps \in Seq(PlanSteps), ~Cyclic(steps), NEW i \in DOMAIN steps, NEW d \in steps[i].dependsOn
    PROVE  LET order == OrderOf(steps) IN Place(order, d) < Place(order, steps[i].id)
<1> DEFINE order == OrderOf(steps)
           k == Place(order, steps[i].id)
           j == Place(order, d)
<1>1. Ordered(steps, order) /\ Range(order) = Ids(steps)
  BY OrderFacts, OrderLength
<1>2. steps[i].id \in Range(order)
  BY <1>1, IdsFacts
<1> HIDE DEF order
<1>3. k \in DOMAIN order /\ order[k] = steps[i].id
  BY <1>2 DEF Range, Place
<1> HIDE DEF k
<1>4. PICK m \in DOMAIN order : m < k /\ order[m] = d
  BY <1>1, <1>3 DEF Ordered
<1>5. j \in DOMAIN order /\ order[j] = d
  BY <1>4 DEF Place
<1> HIDE DEF j
<1>6. j = m
  BY <1>1, <1>4, <1>5 DEF Ordered, IsInjective
<1>7. QED
  BY <1>4, <1>6 DEF j, k, order

LEMMA CompileSound == JustCompiled => CompiledSound
<1> SUFFICES ASSUME JustCompiled PROVE CompiledSound
  OBVIOUS
<1>1. EvidenceFits
  BY DEF JustCompiled
<1> DEFINE asked == compiled.asked.steps
           routed == compiled.plan
           steps == routed.steps
           floor == compiled.floor
           order == compiled.order
           refused == compiled.refused
<1>2. PICK plan \in Plans : /\ compiled.asked = plan /\ routed = Routed(plan) /\ floor \in Floors \cup {NoFloor}
                           /\ refused = Refusals(routed, floor) /\ (refused = {} => order = OrderOf(steps))
  BY DEF JustCompiled, Artifact
<1>3. /\ routed.budget \in Nat
      /\ asked \in Seq(PlanSteps) /\ steps \in Seq(PlanSteps) /\ DOMAIN steps = DOMAIN asked
      /\ \A i \in DOMAIN asked : steps[i] = Route(asked[i])
  BY <1>1, <1>2, RoutedFacts
<1>4. refused = Refusals(routed, floor)
  BY <1>2
<1> HIDE DEF asked, routed, steps, order, refused, floor
<1>5. \A i \in DOMAIN steps : steps[i] \in PlanSteps /\ asked[i] \in PlanSteps
  BY <1>3
<1>6. ASSUME refused = {}
      PROVE  /\ Len(order) = Len(steps) /\ {order[k] : k \in DOMAIN order} = Ids(steps)
             /\ \A i \in DOMAIN steps :
                   /\ \A d \in steps[i].dependsOn : d \in Ids(steps) /\ Place(order, d) < Place(order, steps[i].id)
                   /\ steps[i].specialist \in Eligible(steps[i])
                   /\ IF asked[i].specialist = AutoId THEN BestRate(steps[i].specialist, steps[i])
                      ELSE steps[i].specialist = asked[i].specialist
                   /\ steps[i].keyed <=> steps[i].effect = "external"
                   /\ floor # NoFloor =>
                         /\ steps[i].effect = "external" => "external-effect" \in floor.allowed /\ ~floor.localOnly
                         /\ EffectNeeded(steps[i]) \notin floor.forbidden
                         /\ Total(steps) <= floor.maxCost
             /\ Total(steps) <= routed.budget
  <2>1. /\ ~(Cardinality(Ids(steps)) < Len(steps)) /\ ~(Total(steps) > routed.budget) /\ ~Cyclic(steps)
        /\ FloorRefusals(routed, floor) = {}
        /\ \A i \in DOMAIN steps :
              /\ ~(steps[i].effect = "external" /\ ~steps[i].keyed)
              /\ ~(steps[i].effect # "external" /\ steps[i].keyed)
              /\ steps[i].specialist # AutoId /\ steps[i].specialist \in Eligible(steps[i])
              /\ steps[i].dependsOn \subseteq Ids(steps)
    BY <1>4, <1>6, Unrefused DEF steps
  <2>2. Len(order) = Len(steps)
    <3>1. Len(order) = Cardinality(Ids(steps))
      BY <1>2, <1>3, <1>6, <2>1, OrderLength
    <3>2. Len(steps) \in Nat /\ Cardinality(Ids(steps)) \in Nat /\ Cardinality(Ids(steps)) <= Len(steps)
      BY <1>3, IdsFacts
    <3>3. QED
      BY <2>1, <3>1, <3>2
  <2>3. {order[k] : k \in DOMAIN order} = Ids(steps)
    <3>1. Range(order) = Ids(steps)
      BY <1>2, <1>3, <1>6, <2>1, OrderLength
    <3>2. QED
      BY <3>1 DEF Range
  <2>4. Total(steps) \in Nat /\ Total(steps) <= routed.budget
    <3>1. Total(steps) \in Nat
      BY <1>3, TotalIsNat
    <3>2. QED
      BY <1>3, <2>1, <3>1
  <2>5. ASSUME NEW i \in DOMAIN steps, NEW d \in steps[i].dependsOn
        PROVE  d \in Ids(steps) /\ Place(order, d) < Place(order, steps[i].id)
    <3>1. d \in Ids(steps)
      BY <2>1
    <3>2. Place(order, d) < Place(order, steps[i].id)
      BY <1>2, <1>3, <1>6, <2>1, Places
    <3>3. QED
      BY <3>1, <3>2
  <2>6. ASSUME NEW i \in DOMAIN steps
        PROVE  IF asked[i].specialist = AutoId THEN BestRate(steps[i].specialist, steps[i])
               ELSE steps[i].specialist = asked[i].specialist
    <3>1. steps[i] = Route(asked[i]) /\ asked[i] \in PlanSteps /\ steps[i].specialist # AutoId
      BY <1>3, <1>5, <2>1
    <3>2. /\ asked[i].specialist # AutoId => steps[i].specialist = asked[i].specialist
          /\ asked[i].specialist = AutoId => BestRate(steps[i].specialist, steps[i])
      BY <1>1, <3>1, RouteFacts
    <3>3. QED
      BY <3>2
  <2>7. ASSUME NEW i \in DOMAIN steps PROVE steps[i].keyed <=> steps[i].effect = "external"
    <3>1. steps[i].keyed \in BOOLEAN
      BY <1>5 DEF PlanSteps
    <3>2. QED
      BY <2>1, <3>1
  <2>8. ASSUME NEW i \in DOMAIN steps, floor # NoFloor
        PROVE  /\ steps[i].effect = "external" => "external-effect" \in floor.allowed /\ ~floor.localOnly
               /\ EffectNeeded(steps[i]) \notin floor.forbidden
               /\ Total(steps) <= floor.maxCost
    <3>1. /\ steps[i].effect = "external" => "external-effect" \in floor.allowed /\ ~floor.localOnly
          /\ EffectNeeded(steps[i]) \notin floor.forbidden
          /\ ~(routed.budget > floor.maxCost)
      BY <2>1, <2>8, WithinFloor DEF steps
    <3>2. floor.maxCost \in Nat
      BY <1>2, <2>8, FloorsAssumption
    <3>3. Total(steps) <= floor.maxCost
      BY <1>3, <2>4, <3>1, <3>2
    <3>4. QED
      BY <3>1, <3>3
  <2>9. \A i \in DOMAIN steps : steps[i].specialist \in Eligible(steps[i])
    BY <2>1
  <2>10. QED
    BY <2>2, <2>3, <2>4, <2>5, <2>6, <2>7, <2>8, <2>9
<1>7. ASSUME "DEPENDENCY_CYCLE" \in refused, "UNKNOWN_DEPENDENCY" \notin refused
      PROVE  \E C \in (SUBSET Ids(steps)) \ {{}} : \A id \in C :
                \E step \in StepsOf(id) : step.dependsOn \cap C # {}
  <2>1. Cyclic(steps)
    BY <1>4, <1>7, RefusalCodes DEF steps
  <2>2. PICK C \in (SUBSET Ids(steps)) \ {{}} : \A id \in C : \E i \in DOMAIN steps :
            steps[i].id = id /\ (steps[i].dependsOn \cap C # {} \/ ~(steps[i].dependsOn \subseteq Ids(steps)))
    BY <1>3, <2>1, OrderFacts DEF Stuck
  <2>3. ASSUME NEW i \in DOMAIN steps PROVE steps[i].dependsOn \subseteq Ids(steps)
    <3>1. If(~(steps[i].dependsOn \subseteq Ids(steps)), "UNKNOWN_DEPENDENCY") \subseteq StepRefusals(steps[i], Ids(steps))
      BY DEF StepRefusals
    <3>2. StepRefusals(steps[i], Ids(steps)) \subseteq refused
      BY <1>4 DEF Refusals, steps
    <3>3. "UNKNOWN_DEPENDENCY" \notin If(~(steps[i].dependsOn \subseteq Ids(steps)), "UNKNOWN_DEPENDENCY")
      BY <1>7, <3>1, <3>2
    <3>4. QED
      BY <3>3 DEF If
  <2>4. ASSUME NEW id \in C PROVE \E step \in StepsOf(id) : step.dependsOn \cap C # {}
    <3>1. PICK i \in DOMAIN steps : steps[i].id = id /\ steps[i].dependsOn \cap C # {}
      BY <2>2, <2>3
    <3>2. steps[i] \in StepsOf(id)
      BY <3>1 DEF StepsOf, steps, routed
    <3>3. QED
      BY <3>1, <3>2
  <2>5. QED
    BY <2>2, <2>4
<1>8. QED
  BY <1>6, <1>7 DEF CompiledSound, Place, asked, routed, steps, order, refused, floor

----------------------------------------------------------------------------
\* The steps of the specification.  Once something is compiled, nothing more
\* happens, so that evidence stays what the specialists were chosen by.
CompilerInv == CompilerTypeOK /\ (compiled = NoWorkflow \/ JustCompiled)

LEMMA ArtifactKept ==
    ASSUME evidence' = evidence, NEW plan, NEW floor
    PROVE  Artifact(plan, floor)' = Artifact(plan, floor)
<1>1. \A p, q : Before(p, q)' <=> Before(p, q)
  BY DEF Before
<1>2. \A step : Select(step)' = Select(step)
  BY <1>1 DEF Select
<1>3. \A step : Route(step)' = Route(step)
  BY <1>2 DEF Route
<1>4. Routed(plan)' = Routed(plan)
  BY <1>3 DEF Routed
<1>5. \A p : SpecialistValid(p)' <=> SpecialistValid(p)
  BY DEF SpecialistValid
<1>6. (\E p \in DOMAIN Profiles : ~SpecialistValid(p))' <=> \E p \in DOMAIN Profiles : ~SpecialistValid(p)
  BY <1>5
<1>7. \A routed : Refusals(routed, floor)' = Refusals(routed, floor)
  BY <1>6 DEF Refusals
<1>8. QED
  BY <1>4, <1>7 DEF Artifact

LEMMA CompilerInitInv == CompilerInit => CompilerInv
<1> SUFFICES ASSUME CompilerInit PROVE CompilerInv
  OBVIOUS
<1>1. evidence \in Claims /\ compiled = NoWorkflow
  BY DEF CompilerInit
<1>2. evidence \in [DOMAIN Profiles -> Evidence]
  BY <1>1, ClaimsAssumption DEF Evidence
<1>3. compiled.refused = {"nothing compiled"} /\ compiled.order = <<>>
  BY <1>1 DEF NoWorkflow
<1>4. <<>> \in Seq(Nat) /\ {"nothing compiled"} \subseteq Codes
  BY DEF Codes
<1>5. CompilerTypeOK
  BY <1>1, <1>2, <1>3, <1>4 DEF CompilerTypeOK
<1>6. QED
  BY <1>1, <1>5 DEF CompilerInv

LEMMA CompileKeepsInv ==
    ASSUME CompilerInv, NEW plan \in Plans, NEW floor \in Floors \cup {NoFloor}, Compile(plan, floor)
    PROVE  CompilerInv'
<1>1. EvidenceFits /\ evidence' = evidence /\ compiled' = Artifact(plan, floor)
  BY DEF CompilerInv, CompilerTypeOK, EvidenceFits, Compile, Artifact
<1>2. JustCompiled'
  <2>1. EvidenceFits'
    BY <1>1 DEF EvidenceFits
  <2>2. Artifact(plan, floor)' = Artifact(plan, floor)
    BY <1>1, ArtifactKept
  <2>3. QED
    BY <1>1, <2>1, <2>2 DEF JustCompiled
<1>3. compiled'.refused \subseteq Codes
  BY <1>1, RefusalCodes DEF Artifact
<1>4. compiled'.order \in Seq(Nat)
  <2>1. OrderOf(Routed(plan).steps) \in Seq(Nat)
    BY <1>1, RoutedFacts, OrderFacts DEF Ordered
  <2>2. <<>> \in Seq(Nat)
    OBVIOUS
  <2>3. compiled'.order \in {OrderOf(Routed(plan).steps), <<>>}
    BY <1>1 DEF Artifact
  <2>4. QED
    BY <2>1, <2>2, <2>3
<1>5. CompilerTypeOK'
  BY <1>1, <1>3, <1>4 DEF CompilerInv, CompilerTypeOK
<1>6. QED
  BY <1>2, <1>5 DEF CompilerInv

LEMMA OutcomeKeepsInv ==
    ASSUME CompilerInv, NEW p \in DOMAIN Profiles,
           NEW outcome \in {"accepted", "rejected", "completed-unreviewed"}, RecordOutcome(p, outcome)
    PROVE  CompilerInv'
<1> DEFINE a == IF outcome = "accepted" THEN 1 ELSE 0
           r == IF outcome = "rejected" THEN 1 ELSE 0
           e == [completed |-> evidence[p].completed + 1, accepted |-> evidence[p].accepted + a,
                 rejected |-> evidence[p].rejected + r]
<1>1. /\ compiled = NoWorkflow /\ compiled' = compiled /\ evidence' = [evidence EXCEPT ![p] = e]
      /\ evidence[p].accepted + evidence[p].rejected <= evidence[p].completed
  BY DEF RecordOutcome, SpecialistValid
<1>2. EvidenceFits
  BY DEF CompilerInv, CompilerTypeOK, EvidenceFits
<1>3. evidence[p].completed \in Nat /\ evidence[p].accepted \in Nat /\ evidence[p].rejected \in Nat
  BY <1>2, EvidenceNats
<1>4. a \in Nat /\ r \in Nat /\ a + r <= 1
  OBVIOUS
<1> HIDE DEF a, r
<1>5. e \in Evidence /\ e.accepted + e.rejected <= e.completed
  BY <1>1, <1>3, <1>4 DEF Evidence
<1> HIDE DEF e
<1>6. evidence' \in [DOMAIN Profiles -> Evidence] /\ evidence'[p] = e
      /\ \A q \in DOMAIN Profiles \ {p} : evidence'[q] = evidence[q]
  BY <1>1, <1>2, <1>5 DEF EvidenceFits
<1>7. ASSUME NEW q \in DOMAIN Profiles, evidence'[q].accepted + evidence'[q].rejected > evidence'[q].completed
      PROVE  \E c \in Claims : evidence'[q] = c[q]
  <2>1. CASE q = p
    <3>1. e.accepted \in Nat /\ e.rejected \in Nat /\ e.completed \in Nat
      BY <1>5 DEF Evidence
    <3>2. QED
      BY <1>5, <1>6, <1>7, <2>1, <3>1
  <2>2. CASE q # p
    BY <1>6, <1>7, <2>2 DEF CompilerInv, CompilerTypeOK
  <2>3. QED
    BY <2>1, <2>2
<1>8. CompilerTypeOK'
  BY <1>1, <1>6, <1>7 DEF CompilerInv, CompilerTypeOK
<1>9. QED
  BY <1>1, <1>8 DEF CompilerInv

LEMMA CompilerNextInv == CompilerInv /\ [CompilerNext]_compilerVars => CompilerInv'
<1> SUFFICES ASSUME CompilerInv, [CompilerNext]_compilerVars PROVE CompilerInv'
  OBVIOUS
<1>1. ASSUME NEW plan \in Plans, NEW floor \in Floors \cup {NoFloor}, Compile(plan, floor) PROVE CompilerInv'
  BY <1>1, CompileKeepsInv
<1>2. ASSUME NEW p \in DOMAIN Profiles, NEW outcome \in {"accepted", "rejected", "completed-unreviewed"},
             RecordOutcome(p, outcome)
      PROVE  CompilerInv'
  BY <1>2, OutcomeKeepsInv
<1>3. CASE UNCHANGED compilerVars
  <2>1. evidence' = evidence /\ compiled' = compiled
    BY <1>3 DEF compilerVars
  <2>2. CompilerTypeOK'
    BY <2>1 DEF CompilerInv, CompilerTypeOK
  <2>3. CASE compiled = NoWorkflow
    BY <2>1, <2>2, <2>3 DEF CompilerInv
  <2>4. CASE JustCompiled
    <3>1. PICK plan \in Plans, floor \in Floors \cup {NoFloor} : compiled = Artifact(plan, floor)
      BY <2>4 DEF JustCompiled
    <3>2. compiled' = Artifact(plan, floor)'
      BY <2>1, <3>1, ArtifactKept
    <3>3. EvidenceFits'
      BY <2>1, <2>4 DEF JustCompiled, EvidenceFits
    <3>4. JustCompiled'
      BY <3>2, <3>3 DEF JustCompiled
    <3>5. QED
      BY <2>2, <3>4 DEF CompilerInv
  <2>5. QED
    BY <2>3, <2>4 DEF CompilerInv
<1>4. QED
  BY <1>1, <1>2, <1>3 DEF CompilerNext

LEMMA InvIsSound == CompilerInv => CompiledSound
<1>1. CASE compiled = NoWorkflow
  <2>1. compiled.refused = {"nothing compiled"}
    BY <1>1 DEF NoWorkflow
  <2>2. QED
    BY <2>1 DEF CompiledSound
<1>2. QED
  BY <1>1, CompileSound DEF CompilerInv

LEMMA CompilerInvariant == CompilerSpec => []CompilerInv
BY CompilerInitInv, CompilerNextInv, PTL DEF CompilerSpec

\* A specialist's record is what it came with, or adds up; what a compilation
\* was refused for is one of the code's errors, and its order a sequence of ids.
THEOREM CompilerTypes == CompilerSpec => []CompilerTypeOK
<1>1. CompilerInv => CompilerTypeOK
  BY DEF CompilerInv
<1>2. QED
  BY <1>1, CompilerInvariant, PTL

\* compileWorkflow, for any plan: what compiles runs each step once and after
\* all it depends on, by a specialist that may do it and has no better rival,
\* within budget and floor; and what is refused for a cycle has one.
THEOREM CompilationIsSound == CompilerSpec => []CompiledSound
BY InvIsSound, CompilerInvariant, PTL

==============================================================================
