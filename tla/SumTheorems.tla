----------------------------- MODULE SumTheorems -----------------------------
(***************************************************************************)
(* Laws of the folds the models add up with: the sum of a function over a  *)
(* finite set (MapThenSumSet) and folds over a sequence (FoldLeft).        *)
(*                                                                         *)
(* Both are defined by recursion on sets of indices.  An induction is      *)
(* stated of a set of the numbers, or of the subsets, for which the claim  *)
(* holds: it follows from the least number that would be missing.          *)
(***************************************************************************)
EXTENDS Integers, FiniteSetTheorems, SequencesExt, TLAPS

-----------------------------------------------------------------------------
(***************************************************************************)
(* Induction.                                                              *)
(***************************************************************************)
Less == {pair \in Nat \X Nat : pair[1] < pair[2]}

LEMMA LeastNumber ==
  ASSUME NEW T, T \subseteq Nat, T # {}
  PROVE  \E n \in T : \A m \in T : n <= m
<1>1. IsWellFoundedOn(Less, Nat)
  BY NatLessThanWellFounded DEF Less, OpToRel
<1>2. PICK n \in T : \A m \in T : <<m, n>> \notin Less
  BY <1>1, WFMin
<1>3. ASSUME NEW m \in T PROVE n <= m
  <2>1. ~(m < n)
    BY <1>2 DEF Less
  <2> QED BY <2>1
<1> QED BY <1>3

\* Counting up to n.
LEMMA CountUp ==
  ASSUME NEW n \in Nat, NEW T, 0 \in T, \A i \in 1..n : i - 1 \in T => i \in T
  PROVE  \A i \in 0..n : i \in T
<1> DEFINE Missing == {i \in 0..n : i \notin T}
<1> SUFFICES ASSUME Missing # {} PROVE FALSE
  OBVIOUS
<1>1. Missing \subseteq Nat /\ Missing # {}
  OBVIOUS
<1> HIDE DEF Missing
<1>2. PICK i \in Missing : \A j \in Missing : i <= j
  BY <1>1, LeastNumber
<1> USE DEF Missing
<1>3. i # 0
  BY <1>2
<1>4. i - 1 \in 0..n /\ i \in 1..n
  BY <1>3
<1>5. i - 1 \in T
  BY <1>2, <1>4
<1> QED BY <1>2, <1>4, <1>5

\* Among subsets of a finite set there is one of which no other is a part.
LEMMA SmallestSet ==
  ASSUME NEW S, IsFiniteSet(S), NEW F, F \subseteq SUBSET S, F # {}
  PROVE  \E A \in F : \A B \in F : B \subseteq A => B = A
<1>1. IsWellFoundedOn(StrictSubsetOrdering(S), FiniteSubsetsOf(S))
  BY FS_StrictSubsetOrderingWellFounded
<1>2. FiniteSubsetsOf(S) = SUBSET S
  BY FS_FiniteSubsetsOfFinite
<1>3. PICK A \in F : \A B \in F : <<B, A>> \notin StrictSubsetOrdering(S)
  BY <1>1, <1>2, WFMin
<1> QED BY <1>3 DEF StrictSubsetOrdering

\* Putting a finite set together, element by element.
LEMMA AddUp ==
  ASSUME NEW S, IsFiniteSet(S), NEW T, {} \in T,
         \A A \in SUBSET S : \A x \in S \ A : A \in T => A \cup {x} \in T
  PROVE  \A A \in SUBSET S : A \in T
<1> DEFINE Missing == {A \in SUBSET S : A \notin T}
<1> SUFFICES ASSUME Missing # {} PROVE FALSE
  OBVIOUS
<1>0. Missing \subseteq SUBSET S
  OBVIOUS
<1> HIDE DEF Missing
<1>1. PICK A \in Missing : \A B \in Missing : B \subseteq A => B = A
  BY <1>0, SmallestSet
<1> USE DEF Missing
<1>2. PICK x \in A : TRUE
  BY <1>1
<1>3. A \ {x} \in T
  BY <1>1, <1>2
<1>4. A \ {x} \in SUBSET S /\ x \in S \ (A \ {x}) /\ A = (A \ {x}) \cup {x}
  BY <1>2
<1>5. (A \ {x}) \cup {x} \in T
  BY <1>3, <1>4
<1> QED BY <1>1, <1>4, <1>5

-----------------------------------------------------------------------------
(***************************************************************************)
(* The recursion of MapThenFoldSet has a solution: take gives the element  *)
(* that is taken out of a set, step what is added to the rest for it.      *)
(***************************************************************************)
IsFold(it, S, V, base, take, step) ==
  /\ it \in [SUBSET S -> V]
  /\ it[{}] = base
  /\ \A A \in SUBSET S : A # {} => it[A] = step[take[A]][it[A \ {take[A]}]]

LEMMA FoldExists ==
  ASSUME NEW S, IsFiniteSet(S), NEW V, NEW base \in V,
         NEW take, \A A \in SUBSET S : A # {} => take[A] \in A,
         NEW step \in [S -> [V -> V]]
  PROVE  \E it : IsFold(it, S, V, base, take, step)
<1> DEFINE Next(it) ==
             [A \in SUBSET S |-> IF A = {} THEN base ELSE step[take[A]][it[A \ {take[A]}]]]
           Good(it, n) == \A A \in SUBSET S : Cardinality(A) <= n => it[A] = Next(it)[A]
           T == {n \in Nat : \E it \in [SUBSET S -> V] : Good(it, n)}
<1>1. \A A \in SUBSET S : IsFiniteSet(A) /\ Cardinality(A) \in Nat
  BY FS_Subset, FS_CardinalityType
<1>2. ASSUME NEW it \in [SUBSET S -> V] PROVE Next(it) \in [SUBSET S -> V]
  OBVIOUS
<1>3. 0 \in T
  <2>1. PICK it \in [SUBSET S -> V] : it = [A \in SUBSET S |-> base]
    OBVIOUS
  <2>2. ASSUME NEW A \in SUBSET S, Cardinality(A) <= 0 PROVE it[A] = Next(it)[A]
    <3>1. A = {}
      BY <2>2, <1>1, FS_EmptySet
    <3> QED BY <2>1, <3>1
  <2>3. Good(it, 0)
    BY <2>2
  <2> HIDE DEF Good, Next
  <2> QED BY <2>3
<1>4. ASSUME NEW n \in 1..Cardinality(S), n - 1 \in T PROVE n \in T
  <2>1. PICK it \in [SUBSET S -> V] : Good(it, n - 1)
    BY <1>4
  <2>2. PICK more : more = Next(it)
    OBVIOUS
  <2>3. ASSUME NEW A \in SUBSET S, A # {}, Cardinality(A) <= n
        PROVE  more[A] = step[take[A]][more[A \ {take[A]}]]
    <3>1. /\ A \ {take[A]} \in SUBSET S /\ take[A] \in A
      BY <2>3
    <3>2. Cardinality(A \ {take[A]}) <= n - 1
      BY <2>3, <3>1, <1>1, FS_RemoveElement
    <3>3. it[A \ {take[A]}] = more[A \ {take[A]}]
      BY <2>1, <2>2, <3>1, <3>2
    <3> QED BY <2>2, <2>3, <3>3
  <2>4. Good(more, n)
    BY <2>2, <2>3
  <2>5. more \in [SUBSET S -> V]
    BY <1>2, <2>2
  <2> HIDE DEF Good, Next
  <2> QED BY <2>4, <2>5
<1> HIDE DEF T
<1>5. Cardinality(S) \in T
  BY <1>1, <1>3, <1>4, CountUp
<1>6. PICK it \in [SUBSET S -> V] : Good(it, Cardinality(S))
  BY <1>5 DEF T
<1>7. \A A \in SUBSET S : Cardinality(A) <= Cardinality(S)
  BY FS_Subset
<1>8. \A A \in SUBSET S : it[A] = Next(it)[A]
  BY <1>6, <1>7
<1>9. it[{}] = base
  BY <1>8
<1>10. ASSUME NEW A \in SUBSET S, A # {} PROVE it[A] = step[take[A]][it[A \ {take[A]}]]
  BY <1>8, <1>10
<1> QED BY <1>9, <1>10 DEF IsFold

-----------------------------------------------------------------------------
(***************************************************************************)
(* The sum of a function over a finite set.                                *)
(***************************************************************************)
SumOver(f, S) == MapThenSumSet(LAMBDA x : f[x], S)

\* The element that the recursion takes out of a set.
Pick(A) == CHOOSE x \in A : TRUE

LEMMA PickIn == \A A : A # {} => Pick(A) \in A
  BY DEF Pick

\* it is the recursion that sums f over the subsets of S.
Sums(it, f, S) ==
  it = [A \in SUBSET S |-> IF A = {} THEN 0 ELSE f[Pick(A)] + it[A \ {Pick(A)}]]

\* There is just one, and SumOver takes its value.
LEMMA SumsExist ==
  ASSUME NEW S, IsFiniteSet(S), NEW f, \A x \in S : f[x] \in Int
  PROVE  \E it \in [SUBSET S -> Int] : Sums(it, f, S)
<1>1. PICK take : take = [A \in SUBSET S |-> Pick(A)]
  OBVIOUS
<1>2. \A A \in SUBSET S : A # {} => take[A] \in A
  BY <1>1, PickIn
<1>3. PICK step : step = [x \in S |-> [n \in Int |-> f[x] + n]]
  OBVIOUS
<1>4. step \in [S -> [Int -> Int]] /\ \A x \in S, n \in Int : step[x][n] = f[x] + n
  BY <1>3
<1>5. 0 \in Int
  OBVIOUS
<1>6. PICK it : IsFold(it, S, Int, 0, take, step)
  BY <1>2, <1>4, <1>5, FoldExists
<1>7. it \in [SUBSET S -> Int] /\ it[{}] = 0
  BY <1>6 DEF IsFold
<1>8. ASSUME NEW A \in SUBSET S, A # {} PROVE it[A] = f[Pick(A)] + it[A \ {Pick(A)}]
  <2>1. take[A] = Pick(A) /\ Pick(A) \in S
    BY <1>1, <1>8, PickIn
  <2>2. it[A \ {Pick(A)}] \in Int
    BY <1>7
  <2>3. it[A] = step[take[A]][it[A \ {take[A]}]]
    BY <1>6, <1>8 DEF IsFold
  <2> QED BY <1>4, <2>1, <2>2, <2>3
<1> QED BY <1>7, <1>8 DEF Sums

LEMMA SumsAgree ==
  ASSUME NEW S, IsFiniteSet(S), NEW f, NEW R, NEW it, NEW other,
         Sums(it, f, S), Sums(other, f, R), NEW B \in SUBSET S, B \in SUBSET R
  PROVE  it[B] = other[B]
<1> DEFINE Differ == {A \in SUBSET S : A \in SUBSET R /\ it[A] # other[A]}
<1> SUFFICES ASSUME Differ # {} PROVE FALSE
  OBVIOUS
<1>0. Differ \subseteq SUBSET S
  OBVIOUS
<1> HIDE DEF Differ
<1>1. PICK A \in Differ : \A C \in Differ : C \subseteq A => C = A
  BY <1>0, SmallestSet
<1> USE DEF Differ
<1>2. it[{}] = 0 /\ other[{}] = 0
  BY DEF Sums
<1>3. A # {} /\ Pick(A) \in A
  BY <1>1, <1>2, PickIn
<1>4. A \ {Pick(A)} \notin Differ
  BY <1>1, <1>3
<1>5. /\ it[A] = f[Pick(A)] + it[A \ {Pick(A)}]
      /\ other[A] = f[Pick(A)] + other[A \ {Pick(A)}]
  BY <1>3 DEF Sums
<1> QED BY <1>4, <1>5

LEMMA SumOverValue ==
  ASSUME NEW S, IsFiniteSet(S), NEW f, \A x \in S : f[x] \in Int,
         NEW A \in SUBSET S, NEW it, Sums(it, f, S)
  PROVE  SumOver(f, A) = it[A] /\ it[A] \in Int
<1>1. IsFiniteSet(A) /\ \A x \in A : f[x] \in Int
  BY FS_Subset
<1> DEFINE chosen == CHOOSE g : Sums(g, f, A)
<1>2. Sums(chosen, f, A)
  BY <1>1, SumsExist, Zenon
<1>3. SumOver(f, A) = chosen[A]
  BY Zenon DEF SumOver, MapThenSumSet, MapThenFoldSet, Sums, Pick
<1> HIDE DEF chosen
<1>4. it[A] = chosen[A]
  BY <1>2, SumsAgree
<1>5. PICK g \in [SUBSET S -> Int] : Sums(g, f, S)
  BY SumsExist
<1>6. it[A] = g[A]
  BY <1>5, SumsAgree
<1> QED BY <1>3, <1>4, <1>5, <1>6

LEMMA SumOverEmpty == ASSUME NEW f PROVE SumOver(f, {}) = 0
<1>1. IsFiniteSet({})
  BY FS_EmptySet
<1>2. PICK it \in [SUBSET {} -> Int] : Sums(it, f, {})
  BY <1>1, SumsExist
<1>3. SumOver(f, {}) = it[{}]
  BY <1>1, <1>2, SumOverValue
<1> QED BY <1>2, <1>3 DEF Sums

\* The order in which elements are taken out does not matter.
LEMMA SumOverTake ==
  ASSUME NEW S, IsFiniteSet(S), NEW f, \A x \in S : f[x] \in Int, NEW x \in S
  PROVE  SumOver(f, S) \in Int /\ SumOver(f, S) = f[x] + SumOver(f, S \ {x})
<1>1. PICK it \in [SUBSET S -> Int] : Sums(it, f, S)
  BY SumsExist
<1>2. \A A \in SUBSET S : SumOver(f, A) = it[A]
  BY <1>1, SumOverValue
<1>3. \A A \in SUBSET S : A # {} => it[A] = f[Pick(A)] + it[A \ {Pick(A)}]
  BY <1>1 DEF Sums
<1> DEFINE Wrong == {A \in SUBSET S : \E y \in A : it[A] # f[y] + it[A \ {y}]}
<1>4. Wrong = {}
  <2> SUFFICES ASSUME Wrong # {} PROVE FALSE
    OBVIOUS
  <2>0. Wrong \subseteq SUBSET S
    OBVIOUS
  <2> HIDE DEF Wrong
  <2>1. PICK A \in Wrong : \A C \in Wrong : C \subseteq A => C = A
    BY <2>0, SmallestSet
  <2> USE DEF Wrong
  <2>2. PICK y \in A : it[A] # f[y] + it[A \ {y}]
    BY <2>1
  <2>3. PICK c \in A : it[A] = f[c] + it[A \ {c}]
    BY <1>3, <2>2, PickIn
  <2>4. c # y
    BY <2>2, <2>3
  <2> DEFINE both == (A \ {c}) \ {y}
  <2>5. A \ {c} \notin Wrong /\ A \ {y} \notin Wrong
    BY <2>1, <2>2, <2>3
  <2>6. it[A \ {c}] = f[y] + it[both] /\ it[A \ {y}] = f[c] + it[both]
    <3>1. both = (A \ {y}) \ {c} /\ y \in A \ {c} /\ c \in A \ {y}
      BY <2>2, <2>3, <2>4
    <3>2. A \ {c} \in SUBSET S /\ A \ {y} \in SUBSET S
      OBVIOUS
    <3> QED BY <2>5, <3>1, <3>2
  <2>7. f[c] \in Int /\ f[y] \in Int /\ it[both] \in Int
    <3>1. both \in SUBSET S
      OBVIOUS
    <3> QED BY <3>1, <2>2, <2>3
  <2> HIDE DEF both, Wrong
  <2> QED BY <2>2, <2>3, <2>6, <2>7
<1>5. it[S] = f[x] + it[S \ {x}]
  BY <1>4
<1> QED BY <1>2, <1>5

LEMMA SumOverAdd ==
  ASSUME NEW S, IsFiniteSet(S), NEW f, \A y \in S : f[y] \in Int,
         NEW x, x \notin S, f[x] \in Int
  PROVE  SumOver(f, S \cup {x}) = f[x] + SumOver(f, S)
<1>1. IsFiniteSet(S \cup {x}) /\ (S \cup {x}) \ {x} = S
  BY FS_AddElement
<1> QED BY <1>1, SumOverTake

\* What is not negative adds up to what is not negative.
LEMMA SumOverNat ==
  ASSUME NEW S, IsFiniteSet(S), NEW f, \A x \in S : f[x] \in Nat
  PROVE  SumOver(f, S) \in Nat
<1> DEFINE T == {A \in SUBSET S : SumOver(f, A) \in Nat}
<1>1. {} \in T
  BY SumOverEmpty
<1>2. ASSUME NEW A \in SUBSET S, NEW x \in S \ A, A \in T PROVE A \cup {x} \in T
  <2>1. IsFiniteSet(A) /\ (\A y \in A : f[y] \in Int) /\ f[x] \in Nat
    BY FS_Subset
  <2>2. SumOver(f, A \cup {x}) = f[x] + SumOver(f, A)
    BY <2>1, SumOverAdd
  <2> QED BY <1>2, <2>1, <2>2
<1> HIDE DEF T
<1>3. S \in T
  BY <1>1, <1>2, AddUp
<1> QED BY <1>3 DEF T

-----------------------------------------------------------------------------
(***************************************************************************)
(* A fold over a sequence takes the greatest index out of a set of them.   *)
(***************************************************************************)
LEMMA MaxUpTo == ASSUME NEW i \in Nat, i > 0 PROVE Max(1..i) = i /\ (1..i) \ {i} = 1..(i - 1)
<1>1. i \in 1..i /\ \A j \in 1..i : i >= j
  OBVIOUS
<1>2. \A k \in 1..i : (\A j \in 1..i : k >= j) => k = i
  BY <1>1
<1>3. Max(1..i) \in 1..i /\ \A j \in 1..i : Max(1..i) >= j
  BY <1>1 DEF Max
<1> QED BY <1>2, <1>3

LEMMA UpTo ==
  ASSUME NEW n \in Nat, NEW i \in 1..n
  PROVE  /\ 1..i # {} /\ 1..i \in SUBSET (1..n) /\ i \in 0..n /\ i - 1 \in 0..n
         /\ Max(1..i) = i /\ (1..i) \ {i} = 1..(i - 1)
<1>1. i \in Nat /\ i > 0 /\ i <= n /\ i \in 1..i
  OBVIOUS
<1>2. 1..i \in SUBSET (1..n)
  BY <1>1
<1>3. Max(1..i) = i /\ (1..i) \ {i} = 1..(i - 1)
  BY <1>1, MaxUpTo
<1> QED BY <1>1, <1>2, <1>3

LEMMA MaxIn == ASSUME NEW n \in Nat, NEW A \in SUBSET (1..n), A # {} PROVE Max(A) \in A
<1> DEFINE Gaps == {n - i : i \in A}
<1>1. Gaps \subseteq Nat /\ Gaps # {}
  <2>1. \A i \in A : n - i \in Nat
    OBVIOUS
  <2>2. PICK i \in A : n - i \in Gaps
    OBVIOUS
  <2> QED BY <2>1, <2>2
<1> HIDE DEF Gaps
<1>2. PICK gap \in Gaps : \A other \in Gaps : gap <= other
  BY <1>1, LeastNumber
<1> USE DEF Gaps
<1>3. PICK i \in A : gap = n - i
  OBVIOUS
<1>4. \A j \in A : i >= j
  <2> TAKE j \in A
  <2>1. n - j \in Gaps
    OBVIOUS
  <2>2. n - i <= n - j
    BY <1>2, <1>3, <2>1
  <2> QED BY <2>2
<1> QED BY <1>3, <1>4 DEF Max

\* The recursion of FoldLeft over the indices 1..n has a solution.
IsSteps(it, n, V, base, step) ==
  /\ it \in [SUBSET (1..n) -> V]
  /\ it[{}] = base
  /\ \A A \in SUBSET (1..n) : A # {} => it[A] = step[Max(A)][it[A \ {Max(A)}]]

LEMMA StepsExist ==
  ASSUME NEW n \in Nat, NEW V, NEW base \in V, NEW step \in [1..n -> [V -> V]]
  PROVE  \E it : IsSteps(it, n, V, base, step)
<1>1. PICK take : take = [A \in SUBSET (1..n) |-> Max(A)]
  OBVIOUS
<1>2. \A A \in SUBSET (1..n) : A # {} => take[A] \in A
  BY <1>1, MaxIn
<1>3. IsFiniteSet(1..n)
  BY FS_Interval
<1>4. PICK it : IsFold(it, 1..n, V, base, take, step)
  BY <1>2, <1>3, FoldExists
<1> QED BY <1>1, <1>4 DEF IsFold, IsSteps
=============================================================================
