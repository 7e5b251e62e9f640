------------------------- MODULE PayslipCalc_proofs -------------------------
(***************************************************************************)
(* Proofs about the calculation of one payslip, for any structures,        *)
(* attendance, settings, declarations and adjustments, any bands of the    *)
(* law and any choice of the halves of a paisa that are lost.              *)
(*                                                                         *)
(* A payslip that is there is what Payslip makes of the draft (SlipInv);   *)
(* the rest are laws of the operators.  Each fold over lines or bands is   *)
(* taken apart once: an array holds what it has made of the first i        *)
(* elements (Totals, Keeping, Charging, ...).                              *)
(***************************************************************************)
EXTENDS PayslipCalc, SumTheorems, SequenceTheorems

-----------------------------------------------------------------------------
(***************************************************************************)
(* Sums of lines: total[i] is the sum of the first i of them.              *)
(***************************************************************************)
Counted(lines) ==
  /\ Len(lines) \in Nat
  /\ DOMAIN lines = 1..Len(lines)
  /\ \A i \in DOMAIN lines : lines[i].amount \in Int

Totals(total, lines) ==
  /\ total \in [0..Len(lines) -> Int]
  /\ total[0] = 0
  /\ \A i \in 1..Len(lines) : total[i] = total[i - 1] + lines[i].amount

\* The recursion of Sum, over sets of indices.
SumsBy(it, lines) ==
  it = [A \in SUBSET DOMAIN lines |->
          IF A = {} THEN 0 ELSE it[A \ {Max(A)}] + lines[Max(A)].amount]

LEMMA SumHasTotals ==
  ASSUME NEW lines, Counted(lines)
  PROVE  \E total : Totals(total, lines) /\ Sum(lines) = total[Len(lines)]
<1> DEFINE n == Len(lines)
<1>0. n \in Nat /\ DOMAIN lines = 1..n /\ \A i \in 1..n : lines[i].amount \in Int
  BY DEF Counted
<1> HIDE DEF n
<1>1. PICK step : step = [i \in 1..n |-> [v \in Int |-> v + lines[i].amount]]
  OBVIOUS
<1>2. /\ step \in [1..n -> [Int -> Int]] /\ 0 \in Int
      /\ \A i \in 1..n, v \in Int : step[i][v] = v + lines[i].amount
  BY <1>0, <1>1
<1>3. PICK it : IsSteps(it, n, Int, 0, step)
  BY <1>0, <1>2, StepsExist
<1>4. ASSUME NEW A \in SUBSET (1..n), A # {}
      PROVE  it[A] = it[A \ {Max(A)}] + lines[Max(A)].amount
  BY <1>0, <1>2, <1>3, <1>4, MaxIn DEF IsSteps
<1>5. SumsBy(it, lines)
  BY <1>0, <1>3, <1>4 DEF SumsBy, IsSteps
<1> DEFINE chosen == CHOOSE g : SumsBy(g, lines)
<1>6. SumsBy(chosen, lines)
  BY <1>5, Zenon
<1>7. Sum(lines) = chosen[DOMAIN lines]
  BY Zenon DEF Sum, FoldLeft, MapThenFoldSet, SumsBy
<1> HIDE DEF chosen
<1>8. PICK total : total = [i \in 0..n |-> chosen[1..i]]
  OBVIOUS
<1>9. total[0] = 0
  <2>1. 1..0 = {} /\ 0 \in 0..n
    BY <1>0
  <2> QED BY <1>6, <1>8, <2>1 DEF SumsBy
<1>10. ASSUME NEW i \in 1..n PROVE total[i] = total[i - 1] + lines[i].amount
  <2>1. /\ 1..i # {} /\ 1..i \in SUBSET (1..n) /\ i \in 0..n /\ i - 1 \in 0..n
        /\ Max(1..i) = i /\ (1..i) \ {i} = 1..(i - 1)
    BY <1>0, UpTo
  <2>3. chosen[1..i] = chosen[1..(i - 1)] + lines[i].amount
    BY <1>0, <1>6, <2>1 DEF SumsBy
  <2> QED BY <1>8, <2>1, <2>3
<1>11. \A i \in 0..n : total[i] \in Int
  <2> DEFINE T == {i \in 0..n : total[i] \in Int}
  <2>1. 0 \in T
    BY <1>0, <1>9
  <2>2. ASSUME NEW i \in 1..n, i - 1 \in T PROVE i \in T
    BY <1>0, <1>10, <2>2
  <2> HIDE DEF T
  <2>3. \A i \in 0..n : i \in T
    BY <1>0, <2>1, <2>2, CountUp
  <2> QED BY <2>3 DEF T
<1>12. total \in [0..n -> Int]
  BY <1>8, <1>11
<1>13. Sum(lines) = total[n]
  BY <1>0, <1>7, <1>8
<1> QED BY <1>9, <1>10, <1>12, <1>13 DEF Totals, n

LEMMA SumByTotals ==
  ASSUME NEW lines, Counted(lines), NEW total, Totals(total, lines)
  PROVE  Sum(lines) = total[Len(lines)] /\ Sum(lines) \in Int
<1>1. PICK other : Totals(other, lines) /\ Sum(lines) = other[Len(lines)]
  BY SumHasTotals
<1> DEFINE n == Len(lines)
           T == {i \in 0..n : total[i] = other[i]}
<1>2. n \in Nat
  BY DEF Counted
<1>3. 0 \in T
  BY <1>1, <1>2 DEF Totals
<1>4. ASSUME NEW i \in 1..n, i - 1 \in T PROVE i \in T
  BY <1>1, <1>2, <1>4 DEF Totals
<1> HIDE DEF T
<1>5. \A i \in 0..n : i \in T
  BY <1>2, <1>3, <1>4, CountUp
<1> QED BY <1>1, <1>2, <1>5 DEF T, Totals

LEMMA SumEmpty == Counted(<<>>) /\ Sum(<<>>) = 0
<1>1. PICK total : total = [i \in 0..0 |-> 0]
  OBVIOUS
<1>2. Counted(<<>>)
  BY DEF Counted
<1>3. Totals(total, <<>>)
  BY <1>1 DEF Totals
<1> QED BY <1>1, <1>2, <1>3, SumByTotals

LEMMA SumAppend ==
  ASSUME NEW S, NEW lines \in Seq(S), Counted(lines), NEW l \in S, l.amount \in Int
  PROVE  Counted(Append(lines, l)) /\ Sum(Append(lines, l)) = Sum(lines) + l.amount
<1> DEFINE more == Append(lines, l)
           n == Len(lines)
<1>0. PICK total : Totals(total, lines) /\ Sum(lines) = total[n]
  BY SumHasTotals
<1>1. /\ n \in Nat /\ Len(more) = n + 1 /\ DOMAIN more = 1..(n + 1) /\ DOMAIN lines = 1..n
      /\ more[n + 1] = l /\ \A i \in 1..n : more[i] = lines[i]
  OBVIOUS
<1> HIDE DEF more, n
<1>2. Counted(more)
  BY <1>1 DEF Counted
<1>3. PICK longer : longer = [i \in 0..(n + 1) |-> IF i <= n THEN total[i] ELSE total[n] + l.amount]
  OBVIOUS
<1>4. total \in [0..n -> Int] /\ total[0] = 0
      /\ \A i \in 1..n : total[i] = total[i - 1] + lines[i].amount
  BY <1>0, <1>1 DEF Totals, n
<1>5. longer \in [0..(n + 1) -> Int] /\ longer[0] = 0 /\ longer[n + 1] = total[n] + l.amount
  BY <1>1, <1>3, <1>4
<1>6. ASSUME NEW i \in 1..(n + 1) PROVE longer[i] = longer[i - 1] + more[i].amount
  <2>1. CASE i = n + 1
    <3>1. longer[n] = total[n]
      BY <1>1, <1>3
    <3> QED BY <1>1, <1>5, <2>1, <3>1
  <2>2. CASE i # n + 1
    <3>1. i \in 1..n /\ i - 1 \in 0..n /\ i \in 0..(n + 1) /\ i - 1 \in 0..(n + 1)
      BY <1>1, <2>2
    <3>2. longer[i] = total[i] /\ longer[i - 1] = total[i - 1]
      BY <1>1, <1>3, <3>1
    <3> QED BY <1>1, <1>4, <3>1, <3>2
  <2> QED BY <2>1, <2>2
<1>7. Totals(longer, more)
  BY <1>1, <1>5, <1>6 DEF Totals
<1>8. Sum(more) = longer[n + 1]
  BY <1>1, <1>2, <1>7, SumByTotals
<1> QED BY <1>0, <1>2, <1>5, <1>8 DEF more

LEMMA SumConcat ==
  ASSUME NEW S, NEW first \in Seq(S), NEW second \in Seq(S), Counted(first), Counted(second)
  PROVE  Counted(first \o second) /\ Sum(first \o second) = Sum(first) + Sum(second)
<1> DEFINE both == first \o second
           m == Len(first)
           n == Len(second)
<1>1. PICK one : Totals(one, first) /\ Sum(first) = one[m]
  BY SumHasTotals
<1>2. PICK two : Totals(two, second) /\ Sum(second) = two[n]
  BY SumHasTotals
<1>3. /\ m \in Nat /\ n \in Nat /\ Len(both) = m + n /\ DOMAIN both = 1..(m + n)
      /\ DOMAIN first = 1..m /\ DOMAIN second = 1..n
      /\ \A i \in 1..m : both[i] = first[i]
      /\ \A i \in 1..n : both[m + i] = second[i]
  OBVIOUS
<1> HIDE DEF both, m, n
<1>4. /\ one \in [0..m -> Int] /\ one[0] = 0
      /\ \A i \in 1..m : one[i] = one[i - 1] + first[i].amount
      /\ two \in [0..n -> Int] /\ two[0] = 0
      /\ \A i \in 1..n : two[i] = two[i - 1] + second[i].amount
  BY <1>1, <1>2 DEF Totals, m, n
<1>5. \A i \in 1..(m + n) : i \notin 1..m => i - m \in 1..n /\ both[i] = second[i - m]
  <2> TAKE i \in 1..(m + n)
  <2> HAVE i \notin 1..m
  <2>1. i - m \in 1..n /\ m + (i - m) = i
    BY <1>3
  <2> QED BY <1>3, <2>1
<1>6. Counted(both)
  BY <1>3, <1>5 DEF Counted
<1>7. PICK total : total = [i \in 0..(m + n) |-> IF i <= m THEN one[i] ELSE one[m] + two[i - m]]
  OBVIOUS
<1>8. total \in [0..(m + n) -> Int] /\ total[0] = 0
  BY <1>3, <1>4, <1>7
<1>9. total[m + n] = one[m] + two[n]
  BY <1>3, <1>4, <1>7
<1>10. ASSUME NEW i \in 1..(m + n) PROVE total[i] = total[i - 1] + both[i].amount
  <2>0. i \in 0..(m + n) /\ i - 1 \in 0..(m + n)
    BY <1>3
  <2>1. CASE i <= m
    <3>1. i \in 1..m /\ i - 1 <= m
      BY <1>3, <2>1
    <3>2. total[i] = one[i] /\ total[i - 1] = one[i - 1]
      BY <1>7, <2>0, <2>1, <3>1
    <3> QED BY <1>3, <1>4, <3>1, <3>2
  <2>2. CASE i > m
    <3>1. i - m \in 1..n /\ both[i] = second[i - m]
      BY <1>3, <1>5, <2>2
    <3>2. two[i - m] = two[(i - m) - 1] + second[i - m].amount
      BY <1>4, <3>1
    <3>3. total[i] = one[m] + two[i - m]
      BY <1>3, <1>7, <2>0, <2>2
    <3>4. total[i - 1] = one[m] + two[(i - m) - 1]
      <4>1. CASE i - 1 = m
        <5>1. (i - m) - 1 = 0 /\ i - 1 <= m
          BY <1>3, <4>1
        <5>2. total[i - 1] = one[i - 1]
          BY <1>7, <2>0, <5>1
        <5> QED BY <1>3, <1>4, <4>1, <5>1, <5>2
      <4>2. CASE i - 1 # m
        <5>1. ~(i - 1 <= m) /\ (i - 1) - m = (i - m) - 1
          BY <1>3, <2>2, <4>2
        <5> QED BY <1>7, <2>0, <5>1
      <4> QED BY <4>1, <4>2
    <3>5. one[m] \in Int /\ two[(i - m) - 1] \in Int /\ second[i - m].amount \in Int
      <4>1. (i - m) - 1 \in 0..n /\ m \in 0..m
        BY <1>3, <3>1
      <4> QED BY <1>3, <1>4, <3>1, <4>1 DEF Counted
    <3> QED BY <3>1, <3>2, <3>3, <3>4, <3>5
  <2> QED BY <1>3, <2>1, <2>2
<1>11. Totals(total, both)
  BY <1>3, <1>8, <1>10 DEF Totals
<1>12. Sum(both) = total[m + n]
  BY <1>3, <1>6, <1>11, SumByTotals
<1> QED BY <1>1, <1>2, <1>6, <1>9, <1>12 DEF both

\* Line by line no more: no more together.
LEMMA SumNotMore ==
  ASSUME NEW lines, NEW others, Counted(lines), Counted(others), Len(lines) = Len(others),
         \A i \in DOMAIN lines : lines[i].amount <= others[i].amount
  PROVE  Sum(lines) <= Sum(others)
<1> DEFINE n == Len(lines)
<1>0. n \in Nat /\ DOMAIN lines = 1..n /\ DOMAIN others = 1..n
  BY DEF Counted
<1>1. PICK total : Totals(total, lines) /\ Sum(lines) = total[n]
  BY SumHasTotals
<1>2. PICK most : Totals(most, others) /\ Sum(others) = most[n]
  BY SumHasTotals
<1> HIDE DEF n
<1>3. /\ total \in [0..n -> Int] /\ total[0] = 0
      /\ \A i \in 1..n : total[i] = total[i - 1] + lines[i].amount
      /\ most \in [0..n -> Int] /\ most[0] = 0
      /\ \A i \in 1..n : most[i] = most[i - 1] + others[i].amount
  BY <1>1, <1>2 DEF Totals, n
<1> DEFINE T == {i \in 0..n : total[i] <= most[i]}
<1>4. 0 \in T
  BY <1>0, <1>3
<1>5. ASSUME NEW i \in 1..n, i - 1 \in T PROVE i \in T
  <2>1. i \in 0..n /\ i - 1 \in 0..n /\ total[i - 1] <= most[i - 1]
    BY <1>0, <1>5
  <2>2. /\ lines[i].amount \in Int /\ others[i].amount \in Int
        /\ lines[i].amount <= others[i].amount
        /\ total[i - 1] \in Int /\ most[i - 1] \in Int
    BY <1>0, <1>3, <2>1 DEF Counted
  <2>3. total[i] <= most[i]
    BY <1>3, <2>1, <2>2
  <2> QED BY <2>1, <2>3
<1> HIDE DEF T
<1>6. \A i \in 0..n : i \in T
  BY <1>0, <1>4, <1>5, CountUp
<1>7. n \in 0..n
  BY <1>0
<1> QED BY <1>1, <1>2, <1>6, <1>7 DEF T

LEMMA SumSame ==
  ASSUME NEW lines, NEW others, Counted(lines), Len(others) = Len(lines),
         DOMAIN others = DOMAIN lines,
         \A i \in DOMAIN lines : lines[i].amount = others[i].amount
  PROVE  Counted(others) /\ Sum(lines) = Sum(others)
<1>1. PICK total : Totals(total, lines) /\ Sum(lines) = total[Len(lines)]
  BY SumHasTotals
<1>2. Counted(others)
  BY DEF Counted
<1>3. Totals(total, others)
  BY <1>1 DEF Totals, Counted
<1> QED BY <1>1, <1>2, <1>3, SumByTotals

LEMMA SumConstant ==
  ASSUME NEW lines, NEW n \in Nat, Len(lines) = n, DOMAIN lines = 1..n, NEW c \in Int,
         \A i \in 1..n : lines[i].amount = c
  PROVE  Counted(lines) /\ Sum(lines) = n * c
<1>1. Counted(lines)
  BY DEF Counted
<1>2. PICK total : total = [i \in 0..n |-> i * c]
  OBVIOUS
<1>3. ASSUME NEW i \in 1..n PROVE total[i] = total[i - 1] + c
  <2>1. i * c = (i - 1) * c + c
    OBVIOUS
  <2> QED BY <1>2, <2>1
<1>4. \A i \in 0..n : i * c \in Int
  OBVIOUS
<1>5. total \in [0..n -> Int] /\ total[0] = 0 /\ total[n] = n * c
  <2>1. 0 * c = 0
    OBVIOUS
  <2> QED BY <1>2, <1>4, <2>1
<1>6. Totals(total, lines)
  BY <1>3, <1>5 DEF Totals
<1> QED BY <1>1, <1>5, <1>6, SumByTotals

LEMMA SumNat ==
  ASSUME NEW lines, Counted(lines), \A i \in DOMAIN lines : lines[i].amount >= 0
  PROVE  Sum(lines) \in Nat
<1>1. PICK none : none = [i \in DOMAIN lines |-> [amount |-> 0]]
  OBVIOUS
<1>2. /\ DOMAIN none = 1..Len(lines) /\ Len(none) = Len(lines) /\ Len(lines) \in Nat
      /\ \A i \in 1..Len(lines) : none[i].amount = 0
  BY <1>1 DEF Counted
<1> DEFINE n == Len(lines)
<1>0. n \in Nat /\ 0 \in Int /\ Len(none) = n /\ DOMAIN none = 1..n
      /\ \A i \in 1..n : none[i].amount = 0
  BY <1>2
<1> HIDE DEF n
<1>3. Counted(none) /\ Sum(none) = n * 0
  BY <1>0, SumConstant
<1>4. Sum(none) <= Sum(lines)
  BY <1>2, <1>3, SumNotMore DEF Counted
<1>5. Sum(lines) \in Int
  BY SumHasTotals, SumByTotals
<1> QED BY <1>0, <1>3, <1>4, <1>5

-----------------------------------------------------------------------------
(***************************************************************************)
(* The lines that are kept: kept[i] holds those among the first i.         *)
(***************************************************************************)
Keeping(kept, R, lines, S) ==
  /\ kept \in [0..Len(lines) -> Seq(R \cap S)]
  /\ kept[0] = <<>>
  /\ \A i \in 1..Len(lines) :
       kept[i] = IF lines[i] \in S THEN Append(kept[i - 1], lines[i]) ELSE kept[i - 1]

\* The recursion of Kept, over sets of indices.
KeptBy(it, lines, S) ==
  it = [A \in SUBSET DOMAIN lines |->
          IF A = {} THEN <<>>
          ELSE IF lines[Max(A)] \in S THEN Append(it[A \ {Max(A)}], lines[Max(A)])
               ELSE it[A \ {Max(A)}]]

LEMMA KeptStepwise ==
  ASSUME NEW R, NEW lines \in Seq(R), NEW S
  PROVE  \E kept : Keeping(kept, R, lines, S) /\ Kept(lines, S) = kept[Len(lines)]
<1> DEFINE n == Len(lines)
           V == Seq(R \cap S)
           Add(v, i) == IF lines[i] \in S THEN Append(v, lines[i]) ELSE v
<1>0. n \in Nat /\ DOMAIN lines = 1..n /\ \A i \in 1..n : lines[i] \in R
  OBVIOUS
<1>1. <<>> \in V /\ \A i \in 1..n, v \in V : Add(v, i) \in V
  BY <1>0
<1> HIDE DEF n, V, Add
<1>2. PICK step : step = [i \in 1..n |-> [v \in V |-> Add(v, i)]]
  OBVIOUS
<1>3. step \in [1..n -> [V -> V]] /\ \A i \in 1..n, v \in V : step[i][v] = Add(v, i)
  BY <1>1, <1>2
<1>4. PICK it : IsSteps(it, n, V, <<>>, step)
  BY <1>0, <1>1, <1>3, StepsExist
<1>5. ASSUME NEW A \in SUBSET (1..n), A # {}
      PROVE  it[A] = Add(it[A \ {Max(A)}], Max(A))
  BY <1>0, <1>3, <1>4, <1>5, MaxIn DEF IsSteps
<1>6. KeptBy(it, lines, S)
  BY <1>0, <1>4, <1>5 DEF KeptBy, IsSteps, Add
<1> DEFINE chosen == CHOOSE g : KeptBy(g, lines, S)
<1>7. KeptBy(chosen, lines, S)
  BY <1>6, Zenon
<1>8. Kept(lines, S) = chosen[DOMAIN lines]
  BY Zenon DEF Kept, FoldLeft, MapThenFoldSet, KeptBy
<1> HIDE DEF chosen
<1>9. PICK kept : kept = [i \in 0..n |-> chosen[1..i]]
  OBVIOUS
<1>10. kept[0] = <<>>
  <2>1. 1..0 = {} /\ 0 \in 0..n
    BY <1>0
  <2> QED BY <1>7, <1>9, <2>1 DEF KeptBy
<1>11. ASSUME NEW i \in 1..n PROVE kept[i] = Add(kept[i - 1], i)
  <2>1. /\ 1..i # {} /\ 1..i \in SUBSET (1..n) /\ i \in 0..n /\ i - 1 \in 0..n
        /\ Max(1..i) = i /\ (1..i) \ {i} = 1..(i - 1)
    BY <1>0, UpTo
  <2>3. chosen[1..i] = Add(chosen[1..(i - 1)], i)
    BY <1>0, <1>7, <2>1 DEF KeptBy, Add
  <2> QED BY <1>9, <2>1, <2>3
<1>12. \A i \in 0..n : kept[i] \in V
  <2> DEFINE T == {i \in 0..n : kept[i] \in V}
  <2>1. 0 \in T
    BY <1>0, <1>1, <1>10
  <2>2. ASSUME NEW i \in 1..n, i - 1 \in T PROVE i \in T
    BY <1>0, <1>1, <1>11, <2>2
  <2> HIDE DEF T
  <2>3. \A i \in 0..n : i \in T
    BY <1>0, <2>1, <2>2, CountUp
  <2> QED BY <2>3 DEF T
<1>13. kept \in [0..n -> V]
  BY <1>9, <1>12
<1>14. Kept(lines, S) = kept[n]
  BY <1>0, <1>8, <1>9
<1> QED BY <1>10, <1>11, <1>13, <1>14 DEF Keeping, n, V, Add

LEMMA KeptBySteps ==
  ASSUME NEW R, NEW lines \in Seq(R), NEW S, NEW kept,
         DOMAIN kept = 0..Len(lines), kept[0] = <<>>,
         \A i \in 1..Len(lines) :
           kept[i] = IF lines[i] \in S THEN Append(kept[i - 1], lines[i]) ELSE kept[i - 1]
  PROVE  Kept(lines, S) = kept[Len(lines)]
<1>1. PICK other : Keeping(other, R, lines, S) /\ Kept(lines, S) = other[Len(lines)]
  BY KeptStepwise
<1> DEFINE n == Len(lines)
           T == {i \in 0..n : kept[i] = other[i]}
<1>2. n \in Nat
  OBVIOUS
<1>3. 0 \in T
  BY <1>1, <1>2 DEF Keeping
<1>4. ASSUME NEW i \in 1..n, i - 1 \in T PROVE i \in T
  BY <1>1, <1>2, <1>4 DEF Keeping
<1> HIDE DEF T
<1>5. \A i \in 0..n : i \in T
  BY <1>2, <1>3, <1>4, CountUp
<1> QED BY <1>1, <1>2, <1>5 DEF T

LEMMA KeptType ==
  ASSUME NEW R, NEW lines \in Seq(R), NEW S
  PROVE  Kept(lines, S) \in Seq(R \cap S)
BY KeptStepwise DEF Keeping

LEMMA KeptNothing ==
  ASSUME NEW R, NEW lines \in Seq(R), NEW S, \A i \in DOMAIN lines : lines[i] \notin S
  PROVE  Kept(lines, S) = <<>>
<1>1. PICK kept : kept = [i \in 0..Len(lines) |-> <<>>]
  OBVIOUS
<1>2. /\ DOMAIN kept = 0..Len(lines) /\ kept[0] = <<>> /\ kept[Len(lines)] = <<>>
      /\ \A i \in 1..Len(lines) : kept[i] = <<>> /\ kept[i - 1] = <<>> /\ lines[i] \notin S
  BY <1>1
<1> QED BY <1>2, KeptBySteps

\* Only which of the lines are in the set matters.
LEMMA KeptSame ==
  ASSUME NEW R, NEW lines \in Seq(R), NEW S, NEW T,
         \A i \in DOMAIN lines : lines[i] \in S <=> lines[i] \in T
  PROVE  Kept(lines, S) = Kept(lines, T)
<1>1. PICK kept : Keeping(kept, R, lines, T) /\ Kept(lines, T) = kept[Len(lines)]
  BY KeptStepwise
<1>2. \A i \in 1..Len(lines) :
        kept[i] = IF lines[i] \in S THEN Append(kept[i - 1], lines[i]) ELSE kept[i - 1]
  BY <1>1 DEF Keeping
<1>3. DOMAIN kept = 0..Len(lines) /\ kept[0] = <<>>
  BY <1>1 DEF Keeping
<1> QED BY <1>1, <1>2, <1>3, KeptBySteps

\* Lines that are in one of two sets are kept by one of them.
LEMMA KeptSplit ==
  ASSUME NEW R, NEW lines \in Seq(R), NEW S, NEW T,
         \A i \in DOMAIN lines : lines[i] \in S <=> lines[i] \notin T
  PROVE  Len(Kept(lines, S)) + Len(Kept(lines, T)) = Len(lines)
<1>1. PICK one : Keeping(one, R, lines, S) /\ Kept(lines, S) = one[Len(lines)]
  BY KeptStepwise
<1>2. PICK two : Keeping(two, R, lines, T) /\ Kept(lines, T) = two[Len(lines)]
  BY KeptStepwise
<1> DEFINE n == Len(lines)
           All == {i \in 0..n : Len(one[i]) + Len(two[i]) = i}
<1>3. n \in Nat /\ DOMAIN lines = 1..n /\ \A i \in 1..n : lines[i] \in R
  OBVIOUS
<1>7. /\ one \in [0..n -> Seq(R \cap S)] /\ one[0] = <<>>
      /\ two \in [0..n -> Seq(R \cap T)] /\ two[0] = <<>>
  BY <1>1, <1>2 DEF Keeping
<1>8. \A i \in 1..n :
        /\ one[i] = IF lines[i] \in S THEN Append(one[i - 1], lines[i]) ELSE one[i - 1]
        /\ two[i] = IF lines[i] \in T THEN Append(two[i - 1], lines[i]) ELSE two[i - 1]
  BY <1>1, <1>2 DEF Keeping
<1>9. Kept(lines, S) = one[n] /\ Kept(lines, T) = two[n]
  BY <1>1, <1>2
<1>4. 0 \in All
  BY <1>3, <1>7
<1> HIDE DEF n
<1>5. ASSUME NEW i \in 1..n, i - 1 \in All PROVE i \in All
  <2>1. /\ one[i - 1] \in Seq(R \cap S) /\ two[i - 1] \in Seq(R \cap T)
        /\ lines[i] \in R /\ i \in 0..n /\ Len(one[i - 1]) + Len(two[i - 1]) = i - 1
    <3>1. i - 1 \in 0..n /\ i \in 0..n
      BY <1>3
    <3> QED BY <1>3, <1>5, <1>7, <3>1
  <2>4. PICK a \in Nat, b \in Nat : a = Len(one[i - 1]) /\ b = Len(two[i - 1])
    BY <2>1, LenProperties
  <2>5. a + b = i - 1
    BY <2>1, <2>4, Zenon
  <2>6. (a + 1) + b = i /\ a + (b + 1) = i
    BY <1>3, <2>5
  <2>2. CASE lines[i] \in S
    <3>1. one[i] = Append(one[i - 1], lines[i]) /\ two[i] = two[i - 1]
      BY <1>3, <1>8, <2>2
    <3>2. Len(one[i]) = Len(one[i - 1]) + 1
      BY <2>1, <2>2, <3>1, AppendProperties
    <3>3. Len(one[i]) + Len(two[i]) = i
      BY <2>4, <2>6, <3>1, <3>2, Zenon
    <3> QED BY <2>1, <3>3
  <2>3. CASE lines[i] \notin S
    <3>1. two[i] = Append(two[i - 1], lines[i]) /\ one[i] = one[i - 1] /\ lines[i] \in T
      BY <1>3, <1>8, <2>3
    <3>2. Len(two[i]) = Len(two[i - 1]) + 1
      BY <2>1, <3>1, AppendProperties
    <3>3. Len(one[i]) + Len(two[i]) = i
      BY <2>4, <2>6, <3>1, <3>2, Zenon
    <3> QED BY <2>1, <3>3
  <2> QED BY <2>2, <2>3
<1> HIDE DEF All
<1>6. \A i \in 0..n : i \in All
  BY <1>3, <1>4, <1>5, CountUp
<1>10. n \in 0..n
  BY <1>3
<1>11. n \in All
  BY <1>6, <1>10
<1> QED BY <1>9, <1>11 DEF All, n

LEMMA KeptConcat ==
  ASSUME NEW R, NEW first \in Seq(R), NEW second \in Seq(R), NEW S
  PROVE  Kept(first \o second, S) = Kept(first, S) \o Kept(second, S)
<1> DEFINE both == first \o second
           m == Len(first)
           n == Len(second)
<1>1. PICK one : Keeping(one, R, first, S) /\ Kept(first, S) = one[m]
  BY KeptStepwise
<1>2. PICK two : Keeping(two, R, second, S) /\ Kept(second, S) = two[n]
  BY KeptStepwise
<1>3. /\ m \in Nat /\ n \in Nat /\ Len(both) = m + n /\ both \in Seq(R)
      /\ \A i \in 1..m : both[i] = first[i]
      /\ \A i \in 1..n : both[m + i] = second[i] /\ second[i] \in R
  OBVIOUS
<1> HIDE DEF both, m, n
<1>4. /\ one \in [0..m -> Seq(R \cap S)] /\ one[0] = <<>>
      /\ \A i \in 1..m : one[i] = IF first[i] \in S THEN Append(one[i - 1], first[i]) ELSE one[i - 1]
      /\ two \in [0..n -> Seq(R \cap S)] /\ two[0] = <<>>
      /\ \A i \in 1..n : two[i] = IF second[i] \in S THEN Append(two[i - 1], second[i]) ELSE two[i - 1]
  BY <1>1, <1>2 DEF Keeping, m, n
<1>5. PICK kept : kept = [i \in 0..(m + n) |-> IF i <= m THEN one[i] ELSE one[m] \o two[i - m]]
  OBVIOUS
<1>6. one[m] \o two[0] = one[m]
  <2>1. m \in 0..m
    BY <1>3
  <2>2. one[m] \in Seq(R \cap S)
    BY <1>4, <2>1
  <2> QED BY <1>4, <2>2, ConcatEmptySeq
<1>7. \A i \in 0..n : m + i \in 0..(m + n) /\ kept[m + i] = one[m] \o two[i]
  <2> TAKE i \in 0..n
  <2>1. m + i \in 0..(m + n) /\ (m + i) - m = i
    BY <1>3
  <2>2. CASE i = 0
    <3>1. m + i = m /\ m + i <= m
      BY <1>3, <2>2
    <3> QED BY <1>5, <1>6, <2>1, <2>2, <3>1
  <2>3. CASE i # 0
    <3>1. ~(m + i <= m)
      BY <1>3, <2>3
    <3> QED BY <1>5, <2>1, <3>1
  <2> QED BY <2>2, <2>3
<1>8. ASSUME NEW i \in 1..(m + n)
      PROVE  kept[i] = IF both[i] \in S THEN Append(kept[i - 1], both[i]) ELSE kept[i - 1]
  <2>1. CASE i <= m
    <3>1. i \in 1..m /\ i - 1 <= m /\ i \in 0..(m + n) /\ i - 1 \in 0..(m + n)
      BY <1>3, <2>1
    <3>2. kept[i] = one[i] /\ kept[i - 1] = one[i - 1]
      BY <1>5, <2>1, <3>1
    <3> QED BY <1>3, <1>4, <3>1, <3>2
  <2>2. CASE i > m
    <3>1. PICK k \in 1..n : i = m + k
      <4>1. i - m \in 1..n /\ i = m + (i - m)
        BY <1>3, <2>2
      <4> QED BY <4>1
    <3>2. k \in 0..n /\ k - 1 \in 0..n /\ i - 1 = m + (k - 1)
      BY <1>3, <3>1
    <3>3. /\ kept[i] = one[m] \o two[k] /\ kept[i - 1] = one[m] \o two[k - 1]
          /\ both[i] = second[k]
      BY <1>3, <1>7, <3>1, <3>2
    <3>4. CASE second[k] \in S
      <4>1. two[k] = Append(two[k - 1], second[k])
        BY <1>4, <3>4
      <4>2. /\ one[m] \in Seq(R \cap S) /\ two[k - 1] \in Seq(R \cap S)
            /\ second[k] \in R \cap S
        <5>1. m \in 0..m
          BY <1>3
        <5> QED BY <1>3, <1>4, <3>2, <3>4, <5>1
      <4>3. one[m] \o Append(two[k - 1], second[k]) = Append(one[m] \o two[k - 1], second[k])
        <5> DEFINE v == two[k - 1]
                   u == one[m]
                   l == second[k]
        <5>1. u \in Seq(R \cap S) /\ v \in Seq(R \cap S) /\ l \in R \cap S
          BY <4>2
        <5> HIDE DEF v, u, l
        <5>2. Append(v, l) = v \o <<l>> /\ Append(u \o v, l) = (u \o v) \o <<l>>
          BY <5>1, AppendIsConcat, ConcatProperties
        <5>3. <<l>> \in Seq(R \cap S)
          BY <5>1
        <5>4. (u \o v) \o <<l>> = u \o (v \o <<l>>)
          BY <5>1, <5>3, ConcatAssociative
        <5>5. u \o Append(v, l) = Append(u \o v, l)
          BY <5>2, <5>4
        <5> QED BY <5>5 DEF u, v, l
      <4> QED BY <3>3, <3>4, <4>1, <4>3
    <3>5. CASE second[k] \notin S
      BY <1>4, <3>3, <3>5
    <3> QED BY <3>4, <3>5
  <2> QED BY <1>3, <2>1, <2>2
<1>9. kept[0] = <<>> /\ DOMAIN kept = 0..(m + n) /\ kept[m + n] = one[m] \o two[n]
  <2>1. n \in 0..n /\ 0 \in 0..(m + n) /\ 0 <= m
    BY <1>3
  <2> QED BY <1>4, <1>5, <1>7, <2>1
<1>10. Kept(both, S) = kept[m + n]
  <2> DEFINE k == m + n
  <2>1. /\ Len(both) = k /\ both \in Seq(R) /\ DOMAIN kept = 0..k /\ kept[0] = <<>>
        /\ \A i \in 1..k :
             kept[i] = IF both[i] \in S THEN Append(kept[i - 1], both[i]) ELSE kept[i - 1]
    BY <1>3, <1>8, <1>9
  <2> HIDE DEF k
  <2>2. Kept(both, S) = kept[k]
    BY <2>1, KeptBySteps
  <2> QED BY <2>2 DEF k
<1> QED BY <1>1, <1>2, <1>9, <1>10 DEF both

-----------------------------------------------------------------------------
(***************************************************************************)
(* What lines resolve to.  N is the kind of number the amounts are: any,   *)
(* or none that is negative.                                               *)
(***************************************************************************)
Kind(N) == N = Int \/ N = Nat

Refs(N) == UNION {[D -> N] : D \in SUBSET STRING}
EntriesOf(N) == Seq([code: STRING, amount: N])
LineOf(N) == [code: STRING, type: {"fixed", "percent", "balance"}, amount: N,
              percent: N, of: {Omitted} \cup STRING]

LEMMA KindLaws ==
  ASSUME NEW N, Kind(N)
  PROVE  /\ 0 \in N /\ N \subseteq Int
         /\ \A x \in N, y \in N : x + y \in N /\ x * y \in N
<1>1. CASE N = Int
  BY <1>1
<1>2. CASE N = Nat
  BY <1>2
<1> QED BY <1>1, <1>2 DEF Kind

LEMMA RoundingKind ==
  ASSUME NEW N, Kind(N), NEW x \in N, NEW d \in Nat, d > 0
  PROVE  RoundHalfUp(x, d) \in N
<1>1. CASE N = Int
  BY <1>1 DEF RoundHalfUp, RoundDown
<1>2. CASE N = Nat
  BY <1>2 DEF RoundHalfUp, RoundDown
<1> QED BY <1>1, <1>2 DEF Kind

LEMMA WithRef ==
  ASSUME NEW N, NEW ref \in Refs(N), NEW code \in STRING, NEW amount \in N
  PROVE  With(ref, code, amount) \in Refs(N)
<1>1. PICK D \in SUBSET STRING : ref \in [D -> N]
  BY DEF Refs
<1>2. With(ref, code, amount) \in [D \cup {code} -> N]
  BY <1>1 DEF With
<1>3. D \cup {code} \in SUBSET STRING
  OBVIOUS
<1> QED BY <1>2, <1>3 DEF Refs

LEMMA RefAt ==
  ASSUME NEW N, NEW ref \in Refs(N), NEW code \in DOMAIN ref
  PROVE  ref[code] \in N
BY DEF Refs

LEMMA ResolveKind ==
  ASSUME NEW N, Kind(N), NEW l \in LineOf(N), NEW ref \in Refs(N), NEW base \in N
  PROVE  Resolve(l, ref, base) \in N
<1>1. CASE l.type = "fixed"
  BY <1>1 DEF Resolve, LineOf
<1>2. CASE l.type = "percent"
  <2> DEFINE of == IF l.of = Omitted THEN base ELSE IF l.of \in DOMAIN ref THEN ref[l.of] ELSE 0
  <2>1. of \in N
    BY KindLaws, RefAt
  <2>2. l.percent \in N
    BY DEF LineOf
  <2>3. Resolve(l, ref, base) = RoundHalfUp(l.percent * of, 100)
    BY <1>2 DEF Resolve
  <2> HIDE DEF of
  <2>4. l.percent * of \in N
    BY <2>1, <2>2, KindLaws
  <2> QED BY <2>3, <2>4, RoundingKind
<1>3. CASE l.type \notin {"fixed", "percent"}
  <2>1. Resolve(l, ref, base) = 0
    BY <1>3 DEF Resolve
  <2> QED BY <2>1, KindLaws
<1> QED BY <1>1, <1>2, <1>3

LEMMA EntryAt ==
  ASSUME NEW N, NEW lines \in EntriesOf(N)
  PROVE  /\ Len(lines) \in Nat /\ DOMAIN lines = 1..Len(lines)
         /\ \A i \in 1..Len(lines) : lines[i].code \in STRING /\ lines[i].amount \in N
<1> DEFINE R == [code: STRING, amount: N]
<1>1. lines \in Seq(R)
  BY DEF EntriesOf
<1>2. \A l \in R : l.code \in STRING /\ l.amount \in N
  OBVIOUS
<1> HIDE DEF R
<1>3. /\ Len(lines) \in Nat /\ DOMAIN lines = 1..Len(lines)
      /\ \A i \in 1..Len(lines) : lines[i] \in R
  BY <1>1
<1> QED BY <1>2, <1>3

LEMMA EntryConcat ==
  ASSUME NEW N, NEW first \in EntriesOf(N), NEW second \in EntriesOf(N)
  PROVE  first \o second \in EntriesOf(N)
BY ConcatProperties DEF EntriesOf

LEMMA EntryCounted ==
  ASSUME NEW N, Kind(N), NEW lines \in EntriesOf(N)
  PROVE  Counted(lines) /\ Sum(lines) \in N
<1>1. /\ Len(lines) \in Nat /\ DOMAIN lines = 1..Len(lines)
      /\ \A i \in DOMAIN lines : lines[i].amount \in N
  BY EntryAt
<1>2. Counted(lines)
  BY <1>1, KindLaws DEF Counted
<1>3. Sum(lines) \in Int
  BY <1>2, SumHasTotals, SumByTotals
<1>4. CASE N = Int
  BY <1>2, <1>3, <1>4
<1>5. CASE N = Nat
  <2>1. \A i \in DOMAIN lines : lines[i].amount >= 0
    BY <1>1, <1>5
  <2> QED BY <1>2, <1>5, <2>1, SumNat
<1> QED BY <1>4, <1>5 DEF Kind

\* The recursion of ResolveAll, over sets of indices.
ResolveNext(acc, l, gross) ==
  [ref |-> With(acc.ref, l.code,
                Resolve(l, acc.ref, IF gross = Running THEN Sum(acc.lines) ELSE gross)),
   lines |-> Append(acc.lines, Entry(l.code,
                Resolve(l, acc.ref, IF gross = Running THEN Sum(acc.lines) ELSE gross)))]

ResolvesBy(it, lines, ref, gross) ==
  it = [A \in SUBSET DOMAIN lines |->
          IF A = {} THEN [ref |-> ref, lines |-> <<>>]
          ELSE ResolveNext(it[A \ {Max(A)}], lines[Max(A)], gross)]

\* One line more, under its code.
Follows(next, acc, l) ==
  /\ Len(next.lines) = Len(acc.lines) + 1
  /\ \A j \in 1..Len(acc.lines) : next.lines[j].code = acc.lines[j].code
  /\ next.lines[Len(acc.lines) + 1].code = l.code

LEMMA ResolveNextKind ==
  ASSUME NEW N, Kind(N), NEW acc \in [ref: Refs(N), lines: EntriesOf(N)], NEW l \in LineOf(N),
         NEW gross \in N \cup {Running}
  PROVE  /\ ResolveNext(acc, l, gross) \in [ref: Refs(N), lines: EntriesOf(N)]
         /\ Follows(ResolveNext(acc, l, gross), acc, l)
<1> DEFINE base == IF gross = Running THEN Sum(acc.lines) ELSE gross
           amount == Resolve(l, acc.ref, base)
<1>1. acc.ref \in Refs(N) /\ acc.lines \in EntriesOf(N) /\ l.code \in STRING
  BY DEF LineOf
<1>2. base \in N
  BY <1>1, EntryCounted
<1> HIDE DEF base
<1>3. amount \in N
  BY <1>1, <1>2, ResolveKind
<1>4. ResolveNext(acc, l, gross) = [ref |-> With(acc.ref, l.code, amount),
                                    lines |-> Append(acc.lines, Entry(l.code, amount))]
  BY DEF ResolveNext, base
<1> HIDE DEF amount
<1>5. With(acc.ref, l.code, amount) \in Refs(N)
  BY <1>1, <1>3, WithRef
<1>6. Entry(l.code, amount) \in [code: STRING, amount: N]
  BY <1>1, <1>3 DEF Entry
<1>7. /\ Append(acc.lines, Entry(l.code, amount)) \in EntriesOf(N)
      /\ Len(Append(acc.lines, Entry(l.code, amount))) = Len(acc.lines) + 1
      /\ \A j \in 1..Len(acc.lines) : Append(acc.lines, Entry(l.code, amount))[j] = acc.lines[j]
      /\ Append(acc.lines, Entry(l.code, amount))[Len(acc.lines) + 1] = Entry(l.code, amount)
  BY <1>1, <1>6, AppendProperties DEF EntriesOf
<1>8. Entry(l.code, amount).code = l.code
  BY DEF Entry
<1> QED BY <1>4, <1>5, <1>7, <1>8 DEF Follows

\* The amounts keep their kind, and there is one for every line, under its code.
LEMMA ResolveAllKind ==
  ASSUME NEW N, Kind(N), NEW lines \in Seq(LineOf(N)), NEW ref \in Refs(N),
         NEW gross \in N \cup {Running}
  PROVE  /\ ResolveAll(lines, ref, gross) \in EntriesOf(N)
         /\ Len(ResolveAll(lines, ref, gross)) = Len(lines)
         /\ \A i \in 1..Len(lines) : ResolveAll(lines, ref, gross)[i].code = lines[i].code
<1> DEFINE n == Len(lines)
           V == [ref: Refs(N), lines: EntriesOf(N)]
           base == [ref |-> ref, lines |-> <<>>]
<1>0. n \in Nat /\ DOMAIN lines = 1..n /\ \A i \in 1..n : lines[i] \in LineOf(N)
  OBVIOUS
<1>1. base \in V /\ Len(base.lines) = 0
  BY DEF EntriesOf
<1>2. ASSUME NEW i \in 1..n, NEW v \in V
      PROVE  /\ ResolveNext(v, lines[i], gross) \in V
             /\ Follows(ResolveNext(v, lines[i], gross), v, lines[i])
  BY <1>0, ResolveNextKind, Zenon
<1> HIDE DEF n, V, base
<1>3. PICK step : step = [i \in 1..n |-> [v \in V |-> ResolveNext(v, lines[i], gross)]]
  OBVIOUS
<1>4. /\ step \in [1..n -> [V -> V]]
      /\ \A i \in 1..n, v \in V : step[i][v] = ResolveNext(v, lines[i], gross)
  BY <1>2, <1>3
<1>5. PICK it : IsSteps(it, n, V, base, step)
  BY <1>0, <1>1, <1>4, StepsExist
<1>6. ASSUME NEW A \in SUBSET (1..n), A # {}
      PROVE  it[A] = ResolveNext(it[A \ {Max(A)}], lines[Max(A)], gross)
  BY <1>0, <1>4, <1>5, <1>6, MaxIn DEF IsSteps
<1>7. ResolvesBy(it, lines, ref, gross)
  BY <1>0, <1>5, <1>6 DEF ResolvesBy, IsSteps, base
<1> DEFINE chosen == CHOOSE g : ResolvesBy(g, lines, ref, gross)
<1>8. ResolvesBy(chosen, lines, ref, gross)
  BY <1>7, Zenon
<1>9. ResolveAll(lines, ref, gross) = chosen[DOMAIN lines].lines
  BY Zenon DEF ResolveAll, FoldLeft, MapThenFoldSet, ResolvesBy, ResolveNext
<1> HIDE DEF chosen
<1> DEFINE Same(v, i) == \A j \in 1..i : v.lines[j].code = lines[j].code
           T == {i \in 0..n : chosen[1..i] \in V /\ Len(chosen[1..i].lines) = i
                              /\ Same(chosen[1..i], i)}
<1>10. 0 \in T
  <2>1. 1..0 = {} /\ 0 \in 0..n
    BY <1>0
  <2>2. chosen[{}] = base
    BY <1>8 DEF ResolvesBy, base
  <2> QED BY <1>1, <2>1, <2>2
<1>11. ASSUME NEW i \in 1..n, i - 1 \in T PROVE i \in T
  <2>1. /\ 1..i # {} /\ 1..i \in SUBSET (1..n) /\ i \in 0..n /\ i - 1 \in 0..n
        /\ Max(1..i) = i /\ (1..i) \ {i} = 1..(i - 1)
    BY <1>0, UpTo
  <2>3. chosen[1..i] = ResolveNext(chosen[1..(i - 1)], lines[i], gross)
    BY <1>0, <1>8, <2>1 DEF ResolvesBy
  <2>4. /\ chosen[1..(i - 1)] \in V /\ Len(chosen[1..(i - 1)].lines) = i - 1
        /\ Same(chosen[1..(i - 1)], i - 1)
    BY <1>11
  <2> DEFINE next == chosen[1..i]
             prev == chosen[1..(i - 1)]
  <2>5. next \in V /\ Follows(next, prev, lines[i])
    BY <1>2, <2>3, <2>4, Zenon
  <2>7. (i - 1) + 1 = i
    BY <1>0
  <2> HIDE DEF next, prev
  <2>8. Len(prev.lines) = i - 1
    BY <2>4 DEF prev
  <2>9. /\ Len(next.lines) = i /\ next.lines[i].code = lines[i].code
        /\ \A j \in 1..(i - 1) : next.lines[j].code = prev.lines[j].code
    BY <2>5, <2>7, <2>8 DEF Follows
  <2>6. ASSUME NEW j \in 1..i PROVE next.lines[j].code = lines[j].code
    <3>1. CASE j = i
      BY <2>9, <3>1
    <3>2. CASE j # i
      <4>1. j \in 1..(i - 1)
        BY <1>0, <3>2
      <4> QED BY <2>4, <2>9, <4>1 DEF prev
    <3> QED BY <3>1, <3>2
  <2> QED BY <2>1, <2>5, <2>6, <2>9 DEF next
<1> HIDE DEF T
<1>12. \A i \in 0..n : i \in T
  BY <1>0, <1>10, <1>11, CountUp
<1>13. n \in 0..n
  BY <1>0
<1>14. chosen[1..n] \in V /\ Len(chosen[1..n].lines) = n /\ Same(chosen[1..n], n)
  BY <1>12, <1>13 DEF T
<1> QED BY <1>0, <1>9, <1>14 DEF V, n

\* The recursion of ByCode, over sets of indices.
CodesBy(it, lines, ref) ==
  it = [A \in SUBSET DOMAIN lines |->
          IF A = {} THEN ref
          ELSE With(it[A \ {Max(A)}], lines[Max(A)].code, lines[Max(A)].amount)]

LEMMA ByCodeKind ==
  ASSUME NEW N, NEW lines \in EntriesOf(N), NEW ref \in Refs(N)
  PROVE  ByCode(lines, ref) \in Refs(N)
<1> DEFINE n == Len(lines)
           V == Refs(N)
           Add(v, i) == With(v, lines[i].code, lines[i].amount)
<1>0. /\ n \in Nat /\ DOMAIN lines = 1..n
      /\ \A i \in 1..n : lines[i].code \in STRING /\ lines[i].amount \in N
  BY EntryAt
<1>1. \A i \in 1..n, v \in V : Add(v, i) \in V
  BY <1>0, WithRef
<1> HIDE DEF n, Add
<1>3. PICK step : step = [i \in 1..n |-> [v \in V |-> Add(v, i)]]
  OBVIOUS
<1>4. step \in [1..n -> [V -> V]] /\ \A i \in 1..n, v \in V : step[i][v] = Add(v, i)
  BY <1>1, <1>3
<1>5. PICK it : IsSteps(it, n, V, ref, step)
  BY <1>0, <1>4, StepsExist
<1>6. ASSUME NEW A \in SUBSET (1..n), A # {} PROVE it[A] = Add(it[A \ {Max(A)}], Max(A))
  BY <1>0, <1>4, <1>5, <1>6, MaxIn DEF IsSteps
<1>7. CodesBy(it, lines, ref)
  BY <1>0, <1>5, <1>6 DEF CodesBy, IsSteps, Add
<1> DEFINE chosen == CHOOSE g : CodesBy(g, lines, ref)
<1>8. CodesBy(chosen, lines, ref)
  BY <1>7, Zenon
<1>9. ByCode(lines, ref) = chosen[DOMAIN lines]
  BY Zenon DEF ByCode, FoldLeft, MapThenFoldSet, CodesBy
<1> HIDE DEF chosen
<1> DEFINE T == {i \in 0..n : chosen[1..i] \in V}
<1>10. 0 \in T
  <2>1. 1..0 = {} /\ 0 \in 0..n
    BY <1>0
  <2> QED BY <1>8, <2>1 DEF CodesBy
<1>11. ASSUME NEW i \in 1..n, i - 1 \in T PROVE i \in T
  <2>1. /\ 1..i # {} /\ 1..i \in SUBSET (1..n) /\ i \in 0..n /\ i - 1 \in 0..n
        /\ Max(1..i) = i /\ (1..i) \ {i} = 1..(i - 1)
    BY <1>0, UpTo
  <2>3. chosen[1..i] = Add(chosen[1..(i - 1)], i)
    BY <1>0, <1>8, <2>1 DEF CodesBy, Add
  <2> QED BY <1>1, <1>11, <2>1, <2>3
<1> HIDE DEF T
<1>12. \A i \in 0..n : i \in T
  BY <1>0, <1>10, <1>11, CountUp
<1>13. n \in 0..n
  BY <1>0
<1>14. chosen[1..n] \in V
  BY <1>12, <1>13 DEF T
<1> QED BY <1>0, <1>9, <1>14

-----------------------------------------------------------------------------
(***************************************************************************)
(* The lines of a draft and its earnings.                                  *)
(***************************************************************************)
DraftOf(N, d) == d \in Draft /\ (N = Nat => NotNegative(d))

LEMMA DraftFields ==
  ASSUME NEW d \in Draft
  PROVE  /\ d.freq \in {"MONTHLY", "WEEKLY", "HOURLY"} /\ d.ctc \in Int
         /\ d.components \in Lines /\ d.deductions \in Lines
         /\ d.lop \in Nat /\ d.days \in Nat /\ d.days > 0 /\ d.hours \in Nat /\ d.rate \in Nat
         /\ d.pf \in BOOLEAN /\ d.cap \in BOOLEAN /\ d.esi \in BOOLEAN /\ d.pt \in BOOLEAN
         /\ d.tds \in BOOLEAN /\ d.pfCodes \in Seq(STRING)
         /\ d.cfg \in Configs /\ d.profile \in Profiles
         /\ d.adjustments \in Seq([kind: {"EARNING", "DEDUCTION"}, code: STRING, amount: Nat])
BY DEF Draft

LEMMA LinesKind ==
  ASSUME NEW N, Kind(N), NEW lines \in Lines,
         N = Nat => \A i \in DOMAIN lines : lines[i].amount >= 0 /\ lines[i].percent >= 0
  PROVE  lines \in Seq(LineOf(N))
<1> DEFINE L == LineOf(Int)
<1>1. lines \in Seq(L)
  BY DEF Lines, LineOf
<1>2. CASE N = Int
  BY <1>1, <1>2
<1>3. CASE N = Nat
  <2>1. \A l \in L : l.amount >= 0 /\ l.percent >= 0 => l \in LineOf(Nat)
    BY DEF LineOf
  <2> HIDE DEF L
  <2>2. /\ Len(lines) \in Nat /\ DOMAIN lines = 1..Len(lines)
        /\ lines = [i \in 1..Len(lines) |-> lines[i]]
        /\ \A i \in 1..Len(lines) : lines[i] \in L
    BY <1>1
  <2>3. \A i \in 1..Len(lines) : lines[i] \in LineOf(Nat)
    BY <1>3, <2>1, <2>2
  <2>4. lines \in Seq(LineOf(Nat))
    BY <2>2, <2>3
  <2> QED BY <1>3, <2>4
<1> QED BY <1>2, <1>3 DEF Kind

LEMMA DraftKind ==
  ASSUME NEW N, Kind(N), NEW d, DraftOf(N, d)
  PROVE  /\ d.components \in Seq(LineOf(N)) /\ d.deductions \in Seq(LineOf(N)) /\ d.ctc \in N
<1>1. d \in Draft /\ (N = Nat => NotNegative(d))
  BY DEF DraftOf
<1>2. d.components \in Lines /\ d.deductions \in Lines /\ d.ctc \in Int
  BY <1>1, DraftFields
<1>3. d.components \in Seq(LineOf(N)) /\ d.deductions \in Seq(LineOf(N))
  BY <1>1, <1>2, LinesKind DEF NotNegative
<1>4. d.ctc \in N
  BY <1>1, <1>2 DEF NotNegative, Kind
<1> QED BY <1>3, <1>4

LEMMA PeriodKind ==
  ASSUME NEW N, Kind(N), NEW d, DraftOf(N, d)
  PROVE  PeriodCTC(d) \in N /\ CTCOnly(d) \in Refs(N)
<1>1. PeriodCTC(d) \in N
  <2>1. d.ctc \in N
    BY DraftKind
  <2>2. CASE d.freq = "WEEKLY"
    BY <2>1, <2>2, RoundingKind DEF PeriodCTC
  <2>3. CASE d.freq # "WEEKLY"
    BY <2>1, <2>3, RoundingKind DEF PeriodCTC
  <2> QED BY <2>2, <2>3
<1>2. CTCOnly(d) \in [{"CTC"} -> N]
  BY <1>1 DEF CTCOnly
<1>3. {"CTC"} \in SUBSET STRING
  BY CodesAssumption
<1> QED BY <1>1, <1>2, <1>3 DEF Refs

LEMMA KeptKind ==
  ASSUME NEW R, NEW lines \in Seq(R), NEW S
  PROVE  Kept(lines, S) \in Seq(R) /\ Len(Kept(lines, S)) \in Nat
         /\ DOMAIN Kept(lines, S) = 1..Len(Kept(lines, S))
<1>1. Kept(lines, S) \in Seq(R \cap S) /\ R \cap S \subseteq R
  BY KeptType
<1>2. Kept(lines, S) \in Seq(R)
  BY <1>1, SeqMonotonic
<1> QED BY <1>2

\* Balance lines and other lines are all there are.
LEMMA BalancesAndOthers ==
  ASSUME NEW R, NEW d, d.components \in Seq(R)
  PROVE  /\ Balances(d) \in Seq(R) /\ Others(d) \in Seq(R)
         /\ Len(Balances(d)) \in Nat /\ DOMAIN Balances(d) = 1..Len(Balances(d))
         /\ Len(Others(d)) \in Nat /\ DOMAIN Others(d) = 1..Len(Others(d))
         /\ Len(Balances(d)) + Len(Others(d)) = Len(d.components)
<1> DEFINE lines == d.components
           S == {l \in Range(lines) : l.type = "balance"}
           T == {l \in Range(lines) : l.type # "balance"}
<1>1. Balances(d) = Kept(lines, S) /\ Others(d) = Kept(lines, T)
  BY DEF Balances, Others
<1>2. \A i \in DOMAIN lines : lines[i] \in S <=> lines[i] \notin T
  BY DEF Range
<1> HIDE DEF S, T
<1>3. Len(Kept(lines, S)) + Len(Kept(lines, T)) = Len(lines)
  BY <1>2, KeptSplit
<1> QED BY <1>1, <1>3, KeptKind

\* What the balance lines get.
Shares(d, others) ==
  [i \in DOMAIN Balances(d) |->
     Entry(Balances(d)[i].code, BalanceShare(Remainder(d, others), Len(Balances(d))))]

OtherEarnings(d) == ResolveAll(Others(d), CTCOnly(d), Running)

LEMMA RawIs == ASSUME NEW d PROVE RawEarnings(d) = OtherEarnings(d) \o Shares(d, OtherEarnings(d))
BY Zenon DEF RawEarnings, OtherEarnings, Shares

LEMMA OthersKind ==
  ASSUME NEW N, Kind(N), NEW d, DraftOf(N, d)
  PROVE  OtherEarnings(d) \in EntriesOf(N) /\ Len(OtherEarnings(d)) = Len(Others(d))
<1>1. d.components \in Seq(LineOf(N))
  BY DraftKind
<1>2. Others(d) \in Seq(LineOf(N))
  BY <1>1, BalancesAndOthers
<1>3. CTCOnly(d) \in Refs(N)
  BY PeriodKind
<1> QED BY <1>2, <1>3, ResolveAllKind DEF OtherEarnings

LEMMA RemainderNat ==
  ASSUME NEW N, Kind(N), NEW d, DraftOf(N, d), NEW others \in EntriesOf(N)
  PROVE  Remainder(d, others) \in Nat
<1>1. PeriodCTC(d) \in Int /\ Sum(others) \in Int
  BY PeriodKind, EntryCounted, KindLaws
<1> QED BY <1>1 DEF Remainder, Greatest

LEMMA SharesKind ==
  ASSUME NEW N, Kind(N), NEW d, DraftOf(N, d), NEW others \in EntriesOf(N)
  PROVE  /\ Shares(d, others) \in EntriesOf(N)
         /\ Len(Shares(d, others)) = Len(Balances(d))
         /\ DOMAIN Shares(d, others) = 1..Len(Balances(d))
         /\ \A i \in 1..Len(Balances(d)) :
              Shares(d, others)[i].amount = BalanceShare(Remainder(d, others), Len(Balances(d)))
<1> DEFINE balances == Balances(d)
           n == Len(balances)
           share == BalanceShare(Remainder(d, others), n)
           R == [code: STRING, amount: N]
<1>1. d.components \in Seq(LineOf(N))
  BY DraftKind
<1>2. balances \in Seq(LineOf(N)) /\ n \in Nat /\ DOMAIN balances = 1..n
  BY <1>1, BalancesAndOthers
<1>3. \A i \in 1..n : balances[i].code \in STRING
  <2>1. \A l \in LineOf(N) : l.code \in STRING
    BY DEF LineOf
  <2> QED BY <1>2, <2>1
<1>4. n > 0 => share \in N
  <2>1. Remainder(d, others) \in Nat
    BY RemainderNat
  <2>2. Remainder(d, others) \in N
    BY <2>1 DEF Kind
  <2> QED BY <1>2, <2>2, RoundingKind DEF BalanceShare
<1>5. Shares(d, others) = [i \in 1..n |-> Entry(balances[i].code, share)]
  BY <1>2 DEF Shares
<1> HIDE DEF balances, n, share
<1>6. \A i \in 1..n : Entry(balances[i].code, share) \in R /\ Entry(balances[i].code, share).amount = share
  BY <1>2, <1>3, <1>4 DEF Entry
<1> HIDE DEF R
<1>7. Shares(d, others) \in [1..n -> R]
  BY <1>5, <1>6
<1>8. Shares(d, others) \in Seq(R) /\ Len(Shares(d, others)) = n /\ DOMAIN Shares(d, others) = 1..n
  BY <1>2, <1>7
<1> QED BY <1>5, <1>6, <1>8 DEF EntriesOf, R, share, balances, n

LEMMA RawKind ==
  ASSUME NEW N, Kind(N), NEW d, DraftOf(N, d)
  PROVE  RawEarnings(d) \in EntriesOf(N) /\ Len(RawEarnings(d)) = Len(d.components)
<1>1. d.components \in Seq(LineOf(N))
  BY DraftKind
<1>2. /\ OtherEarnings(d) \in EntriesOf(N) /\ Len(OtherEarnings(d)) = Len(Others(d))
      /\ Shares(d, OtherEarnings(d)) \in EntriesOf(N)
      /\ Len(Shares(d, OtherEarnings(d))) = Len(Balances(d))
  BY OthersKind, SharesKind
<1>3. /\ RawEarnings(d) \in EntriesOf(N)
      /\ Len(RawEarnings(d)) = Len(OtherEarnings(d)) + Len(Shares(d, OtherEarnings(d)))
  BY <1>2, RawIs, ConcatProperties DEF EntriesOf
<1>4. /\ Len(Balances(d)) \in Nat /\ Len(Others(d)) \in Nat
      /\ Len(Balances(d)) + Len(Others(d)) = Len(d.components)
  BY <1>1, BalancesAndOthers
<1>5. Len(Others(d)) + Len(Balances(d)) = Len(d.components)
  BY <1>4
<1> QED BY <1>2, <1>3, <1>5, Zenon

LEMMA ProrateKind ==
  ASSUME NEW N, Kind(N), NEW amount \in N, NEW d, d.lop \in Nat, d.days \in Nat, d.days > 0,
         Valid(d), NEW loses \in BOOLEAN
  PROVE  Prorate(amount, d, loses) \in N
<1> DEFINE paid == 2 * d.days - d.lop
           n == amount * paid
           D == 2 * d.days
<1>1. paid \in Nat /\ D \in Nat /\ D > 0
  BY DEF Valid
<1>2. n \in N
  BY <1>1, KindLaws DEF Kind
<1> HIDE DEF paid, n, D
<1>4. RoundHalfUp(n, D) \in N
  BY <1>1, <1>2, RoundingKind
<1>5. Prorate(amount, d, loses) \in {amount, RoundDown(n, D), RoundHalfUp(n, D)}
  BY DEF Prorate, n, paid, D
<1>6. RoundDown(n, D) \in N
  <2>1. CASE N = Int
    BY <1>1, <1>2, <2>1 DEF RoundDown
  <2>2. CASE N = Nat
    BY <1>1, <1>2, <2>2 DEF RoundDown
  <2> QED BY <2>1, <2>2 DEF Kind
<1> QED BY <1>4, <1>5, <1>6

LEMMA EarningsKind ==
  ASSUME NEW N, Kind(N), NEW d, DraftOf(N, d), Valid(d), NEW lost
  PROVE  /\ Earnings(d, lost) \in EntriesOf(N)
         /\ Len(Earnings(d, lost)) = Len(d.components)
         /\ DOMAIN Earnings(d, lost) = 1..Len(d.components)
         /\ \A i \in 1..Len(d.components) :
              Earnings(d, lost)[i].amount = Prorate(RawEarnings(d)[i].amount, d, i \in lost)
<1> DEFINE raw == RawEarnings(d)
           n == Len(d.components)
           R == [code: STRING, amount: N]
           line(i) == Entry(raw[i].code, Prorate(raw[i].amount, d, i \in lost))
<1>1. d.lop \in Nat /\ d.days \in Nat /\ d.days > 0
  BY DraftFields DEF DraftOf
<1>2. /\ n \in Nat /\ Len(raw) = n /\ DOMAIN raw = 1..n
      /\ \A i \in 1..n : raw[i].code \in STRING /\ raw[i].amount \in N
  BY RawKind, EntryAt
<1>3. Earnings(d, lost) = [i \in 1..n |-> line(i)]
  BY <1>2 DEF Earnings
<1> HIDE DEF raw, n
<1>4. ASSUME NEW i \in 1..n PROVE Prorate(raw[i].amount, d, i \in lost) \in N
  <2>1. PICK loses \in BOOLEAN : loses <=> i \in lost
    OBVIOUS
  <2>2. Prorate(raw[i].amount, d, loses) \in N
    BY <1>1, <1>2, ProrateKind
  <2>3. Prorate(raw[i].amount, d, loses) = Prorate(raw[i].amount, d, i \in lost)
    BY <2>1 DEF Prorate
  <2> QED BY <2>2, <2>3
<1>5. \A i \in 1..n : line(i) \in R /\ line(i).amount = Prorate(raw[i].amount, d, i \in lost)
  BY <1>2, <1>4 DEF Entry
<1> HIDE DEF R, line
<1>6. Earnings(d, lost) \in [1..n -> R]
  BY <1>3, <1>5
<1>7. Earnings(d, lost) \in Seq(R) /\ Len(Earnings(d, lost)) = n /\ DOMAIN Earnings(d, lost) = 1..n
  BY <1>2, <1>6
<1>8. \A i \in 1..n : Earnings(d, lost)[i].amount = Prorate(raw[i].amount, d, i \in lost)
  BY <1>3, <1>5
<1> QED BY <1>7, <1>8 DEF EntriesOf, R, n, raw

-----------------------------------------------------------------------------
(***************************************************************************)
(* Income tax: acc[i] is what the first i bands leave to be charged.       *)
(***************************************************************************)
SlabStart == [tax |-> 0, lower |-> 0, done |-> FALSE]
TaxBand == [upto: Nat \cup {Above}, rate: Nat]
SlabState == [tax: Int, lower: Int, done: BOOLEAN]

Charging(acc, bands, taxable) ==
  /\ acc \in [0..Len(bands) -> SlabState]
  /\ acc[0] = SlabStart
  /\ \A i \in 1..Len(bands) : acc[i] = ChargeBand(acc[i - 1], bands[i], taxable)

\* The recursion of SlabTax, over sets of indices.
ChargesBy(it, bands, taxable) ==
  it = [A \in SUBSET DOMAIN bands |->
          IF A = {} THEN SlabStart ELSE ChargeBand(it[A \ {Max(A)}], bands[Max(A)], taxable)]

LEMMA ChargeBandType ==
  ASSUME NEW acc \in SlabState, NEW band \in TaxBand,
         NEW taxable \in Int
  PROVE  ChargeBand(acc, band, taxable) \in SlabState
<1>1. /\ acc.tax \in Int /\ acc.lower \in Int /\ acc.done \in BOOLEAN
      /\ band.rate \in Nat /\ band.upto \in Nat \cup {Above}
  BY DEF SlabState, TaxBand
<1>2. CASE acc.done
  BY <1>2 DEF ChargeBand
<1>3. CASE ~acc.done /\ Within(taxable, band)
  <2>1. acc.tax + (taxable - acc.lower) * band.rate \in Int
    BY <1>1
  <2> QED BY <1>3, <2>1 DEF ChargeBand, SlabState
<1>4. CASE ~acc.done /\ ~Within(taxable, band)
  <2>1. band.upto \in Int
    BY <1>1, <1>4 DEF Within
  <2>2. acc.tax + (band.upto - acc.lower) * band.rate \in Int
    BY <1>1, <2>1
  <2> QED BY <1>4, <2>1, <2>2 DEF ChargeBand, SlabState
<1> QED BY <1>1, <1>2, <1>3, <1>4

LEMMA SlabStepwise ==
  ASSUME NEW bands \in Seq(TaxBand), NEW taxable \in Int
  PROVE  \E acc : /\ Charging(acc, bands, taxable)
                  /\ SlabTax(taxable, bands) = acc[Len(bands)].tax
<1> DEFINE n == Len(bands)
           V == SlabState
           Add(v, i) == ChargeBand(v, bands[i], taxable)
<1>0. n \in Nat /\ DOMAIN bands = 1..n /\ \A i \in 1..n : bands[i] \in TaxBand
  OBVIOUS
<1>1. SlabStart \in V /\ \A i \in 1..n, v \in V : Add(v, i) \in V
  <2>1. SlabStart \in V
    BY DEF SlabStart, SlabState
  <2> QED BY <1>0, <2>1, ChargeBandType
<1> HIDE DEF n, Add, V
<1>3. PICK step : step = [i \in 1..n |-> [v \in V |-> Add(v, i)]]
  OBVIOUS
<1>4. step \in [1..n -> [V -> V]] /\ \A i \in 1..n, v \in V : step[i][v] = Add(v, i)
  BY <1>1, <1>3
<1>5. PICK it : IsSteps(it, n, V, SlabStart, step)
  BY <1>0, <1>1, <1>4, StepsExist
<1>6. ASSUME NEW A \in SUBSET (1..n), A # {} PROVE it[A] = Add(it[A \ {Max(A)}], Max(A))
  BY <1>0, <1>4, <1>5, <1>6, MaxIn DEF IsSteps
<1>7. ChargesBy(it, bands, taxable)
  BY <1>0, <1>5, <1>6 DEF ChargesBy, IsSteps, Add
<1> DEFINE chosen == CHOOSE g : ChargesBy(g, bands, taxable)
<1>8. ChargesBy(chosen, bands, taxable)
  BY <1>7, Zenon
<1>9. SlabTax(taxable, bands) = chosen[DOMAIN bands].tax
  BY Zenon DEF SlabTax, FoldLeft, MapThenFoldSet, ChargesBy, SlabStart
<1> HIDE DEF chosen
<1>10. PICK acc : acc = [i \in 0..n |-> chosen[1..i]]
  OBVIOUS
<1>11. acc[0] = SlabStart
  <2>1. 1..0 = {} /\ 0 \in 0..n
    BY <1>0
  <2> QED BY <1>8, <1>10, <2>1 DEF ChargesBy
<1>12. ASSUME NEW i \in 1..n PROVE acc[i] = Add(acc[i - 1], i)
  <2>1. /\ 1..i # {} /\ 1..i \in SUBSET (1..n) /\ i \in 0..n /\ i - 1 \in 0..n
        /\ Max(1..i) = i /\ (1..i) \ {i} = 1..(i - 1)
    BY <1>0, UpTo
  <2>2. chosen[1..i] = Add(chosen[1..(i - 1)], i)
    BY <1>0, <1>8, <2>1 DEF ChargesBy, Add
  <2> QED BY <1>10, <2>1, <2>2
<1> DEFINE T == {i \in 0..n : acc[i] \in V}
<1>13. 0 \in T
  BY <1>0, <1>1, <1>11
<1>14. ASSUME NEW i \in 1..n, i - 1 \in T PROVE i \in T
  BY <1>0, <1>1, <1>12, <1>14
<1> HIDE DEF T
<1>15. \A i \in 0..n : i \in T
  BY <1>0, <1>13, <1>14, CountUp
<1>16. acc \in [0..n -> V]
  BY <1>10, <1>15 DEF T
<1>17. n \in 0..n /\ SlabTax(taxable, bands) = acc[n].tax
  BY <1>0, <1>9, <1>10
<1> QED BY <1>11, <1>12, <1>16, <1>17 DEF Charging, n, V, Add

LEMMA TaxableNat ==
  ASSUME NEW gross \in Int, NEW p \in Profiles, NEW cfg \in Configs
  PROVE  Taxable(gross, p, cfg) \in Nat
<1>1. /\ p.regime \in Regimes /\ p.c80 \in Nat /\ p.d80 \in Nat /\ p.home \in Nat
      /\ p.other \in Nat /\ p.prevIncome \in Nat
  BY DEF Profiles
<1>2. Caps.c80 \in Nat /\ Caps.d80 \in Nat /\ Caps.home \in Nat
  BY CapsAssumption
<1>3. Declared(p) \in Int
  BY <1>1, <1>2 DEF Declared, Least
<1>4. cfg.standard[p.regime] \in Int
  <2>1. cfg.standard \in [Regimes -> Nat]
    BY DEF Configs
  <2> QED BY <1>1, <2>1
<1> QED BY <1>1, <1>3, <1>4 DEF Taxable, Greatest

LEMMA TdsNat ==
  ASSUME NEW gross \in Int, NEW p \in Profiles, NEW cfg \in Configs
  PROVE  MonthlyTds(gross, p, cfg) \in Nat
<1> DEFINE taxable == Taxable(gross, p, cfg)
           tax == TaxAfterRebate(taxable, p, cfg)
           due == Greatest(0, tax * 26 - p.prevTds * 2500)
<1>1. p.regime \in Regimes /\ p.prevTds \in Nat
  BY DEF Profiles
<1>2. taxable \in Nat
  BY TaxableNat
<1>3. SlabTax(taxable, Slabs[p.regime]) \in Int
  <2> DEFINE bands == Slabs[p.regime]
  <2>1. bands \in Seq(TaxBand)
    BY <1>1, SlabsAssumption DEF TaxBand
  <2> HIDE DEF bands, taxable
  <2>0. taxable \in Int
    BY <1>2
  <2>2. PICK acc : /\ Charging(acc, bands, taxable)
                   /\ SlabTax(taxable, bands) = acc[Len(bands)].tax
    BY <2>0, <2>1, SlabStepwise
  <2>3. Len(bands) \in Nat
    BY <2>1
  <2>4. acc[Len(bands)] \in SlabState
    BY <2>2, <2>3 DEF Charging
  <2>5. SlabTax(taxable, bands) \in Int
    BY <2>2, <2>4 DEF SlabState
  <2> QED BY <2>5 DEF bands
<1> HIDE DEF taxable
<1>4. tax \in Int
  BY <1>3 DEF TaxAfterRebate
<1> HIDE DEF tax
<1>5. due \in Nat
  BY <1>1, <1>4 DEF Greatest
<1> HIDE DEF due
<1>6. RoundHalfUp(due, 12 * 2500) \in Nat
  BY <1>5 DEF RoundHalfUp, RoundDown
<1> QED BY <1>6 DEF MonthlyTds, due, tax, taxable

-----------------------------------------------------------------------------
(***************************************************************************)
(* What the law takes.                                                     *)
(***************************************************************************)
LEMMA ShareKind ==
  ASSUME NEW N, Kind(N), NEW amount \in N, NEW rate \in Nat
  PROVE  Share(amount, rate) \in N /\ ShareUp(amount, rate) \in N
<1> DEFINE n == amount * rate
           D == Rate * Rupee
<1>1. n \in N /\ D = 1000000
  BY KindLaws DEF Rate, Rupee, Kind
<1> HIDE DEF n, D
<1>2. RoundHalfUp(n, D) \in N
  BY <1>1, RoundingKind
<1>3. RoundUp(n, D) \in N
  <2>1. CASE N = Int
    BY <1>1, <2>1 DEF RoundUp
  <2>2. CASE N = Nat
    BY <1>1, <2>2 DEF RoundUp
  <2> QED BY <2>1, <2>2 DEF Kind
<1>4. 100 \in N
  BY DEF Kind
<1> QED BY <1>2, <1>3, <1>4, KindLaws DEF Share, ShareUp, Rupee, n, D

LEMMA PTNat ==
  ASSUME NEW state, NEW gross \in Int
  PROVE  ComputePT(state, gross) \in Nat
<1>1. CASE state \notin DOMAIN PTSlabs
  BY <1>1 DEF ComputePT
<1>2. CASE state \in DOMAIN PTSlabs
  <2> DEFINE bands == PTSlabs[state]
             R == [upto: Nat \cup {Above}, amount: Nat]
             First(i) == Within(gross, bands[i]) /\ \A j \in 1..(i - 1) : ~Within(gross, bands[j])
             T == {i \in DOMAIN bands : Within(gross, bands[i])}
  <2>1. bands \in Seq(R) /\ \E i \in DOMAIN bands : bands[i].upto = Above
    BY <1>2, PTSlabsAssumption
  <2>2. \A b \in R : b.amount \in Nat
    OBVIOUS
  <2> HIDE DEF bands, R
  <2>3. T # {} /\ T \subseteq Nat
    BY <2>1 DEF Within
  <2>4. PICK i \in T : \A j \in T : i <= j
    BY <2>3, LeastNumber
  <2>5. \A j \in 1..(i - 1) : ~Within(gross, bands[j])
    BY <2>1, <2>4
  <2>6. \E k \in DOMAIN bands : First(k)
    BY <2>4, <2>5
  <2> DEFINE first == CHOOSE k \in DOMAIN bands : First(k)
  <2>7. first \in DOMAIN bands
    BY <2>6
  <2>8. ComputePT(state, gross) = Rupee * RoundHalfUp(bands[first].amount, Rupee)
    BY <1>2 DEF ComputePT, bands
  <2> HIDE DEF first
  <2>9. bands[first].amount \in Nat
    BY <2>1, <2>2, <2>7
  <2>10. RoundHalfUp(bands[first].amount, Rupee) \in Nat
    BY <2>9 DEF RoundHalfUp, RoundDown, Rupee
  <2> QED BY <2>8, <2>10 DEF Rupee
<1> QED BY <1>1, <1>2

LEMMA PFWageKind ==
  ASSUME NEW N, Kind(N), NEW d, DraftOf(N, d), NEW earnings \in EntriesOf(N)
  PROVE  PFWage(d, earnings) \in N
<1> DEFINE codes == IF d.pfCodes = <<>> THEN <<"BASIC">> ELSE d.pfCodes
           ref == ByCode(earnings, <<>>)
           value(code) == IF code \in DOMAIN ref THEN ref[code] ELSE 0
           named == [i \in DOMAIN codes |-> Entry(codes[i], value(codes[i]))]
<1>1. codes \in Seq(STRING)
  <2>1. d.pfCodes \in Seq(STRING)
    BY DraftFields DEF DraftOf
  <2>2. <<"BASIC">> \in Seq(STRING)
    <3>1. "BASIC" \in STRING
      BY CodesAssumption
    <3> QED BY <3>1
  <2> QED BY <2>1, <2>2
<1>2. <<>> \in Refs(N)
  <2>1. <<>> \in [{} -> N] /\ {} \in SUBSET STRING
    OBVIOUS
  <2> QED BY <2>1 DEF Refs
<1>3. ref \in Refs(N)
  BY <1>2, ByCodeKind
<1>4. PFWage(d, earnings) = IF Sum(named) > 0 THEN Sum(named) ELSE Sum(earnings)
  BY Zenon DEF PFWage
<1> HIDE DEF codes, ref
<1>5. \A code : value(code) \in N
  BY <1>3, RefAt DEF Kind
<1> HIDE DEF value
<1>6. named \in EntriesOf(N)
  <2>1. DOMAIN codes = 1..Len(codes) /\ Len(codes) \in Nat
        /\ \A i \in 1..Len(codes) : codes[i] \in STRING
    BY <1>1
  <2>2. \A i \in 1..Len(codes) : named[i] \in [code: STRING, amount: N]
    BY <1>5, <2>1 DEF Entry
  <2> QED BY <2>1, <2>2 DEF EntriesOf
<1>7. Sum(named) \in N /\ Sum(earnings) \in N
  BY <1>6, EntryCounted
<1> QED BY <1>4, <1>7

LEMMA PFKind ==
  ASSUME NEW N, Kind(N), NEW wage \in N, NEW cap \in BOOLEAN, NEW cfg \in Configs
  PROVE  /\ ComputePF(wage, cap, cfg).employee \in N
         /\ ComputePF(wage, cap, cfg).eps \in N
         /\ ComputePF(wage, cap, cfg).epf \in Int
<1> DEFINE contributory == IF cap THEN Least(wage, cfg.pfCeiling) ELSE wage
           base == EPSWage(wage, cfg)
<1>1. /\ cfg.pfCeiling \in Nat /\ cfg.epsCeiling \in Nat /\ cfg.pfEmployee \in Nat
      /\ cfg.pfEmployer \in Nat /\ cfg.epsRate \in Nat
  BY DEF Configs
<1>2. contributory \in N /\ base \in N
  BY <1>1 DEF Least, EPSWage, Kind
<1>3. ComputePF(wage, cap, cfg) =
        [employee |-> Share(contributory, cfg.pfEmployee),
         eps |-> Share(base, cfg.epsRate),
         epf |-> Share(contributory, cfg.pfEmployer) - Share(base, cfg.epsRate)]
  BY DEF ComputePF
<1> HIDE DEF contributory, base
<1>4. /\ Share(contributory, cfg.pfEmployee) \in N /\ Share(base, cfg.epsRate) \in N
      /\ Share(contributory, cfg.pfEmployer) \in N
  BY <1>1, <1>2, ShareKind
<1> QED BY <1>3, <1>4, KindLaws

LEMMA OneEntry ==
  ASSUME NEW N, NEW code \in STRING, NEW condition \in BOOLEAN, NEW amount,
         condition => amount \in N
  PROVE  If(condition, <<Entry(code, amount)>>) \in EntriesOf(N)
<1>1. CASE condition
  <2>1. Entry(code, amount) \in [code: STRING, amount: N]
    BY <1>1 DEF Entry
  <2>2. <<Entry(code, amount)>> \in EntriesOf(N)
    BY <2>1 DEF EntriesOf
  <2> QED BY <1>1, <2>2 DEF If
<1>2. CASE ~condition
  BY <1>2 DEF If, EntriesOf
<1> QED BY <1>1, <1>2

\* The statutory deductions: what both a run and a preview of nobody take, and the taxes.
Levies(d, earnings) ==
  If(d.pf, <<Entry("PF", ComputePF(PFWage(d, earnings), d.cap, d.cfg).employee)>>)
  \o If(d.esi /\ Covered(Sum(earnings), d.cfg),
        <<Entry("ESI", ComputeESI(Sum(earnings), d.cfg).employee)>>)

PTLines(d, earnings) ==
  If(d.pt /\ ComputePT(d.state, Sum(earnings)) > 0,
     <<Entry("PT", ComputePT(d.state, Sum(earnings)))>>)

TDSLines(d) ==
  If(d.tds /\ MonthlyTds(AnnualGross(d), d.profile, d.cfg) > 0,
     <<Entry("TDS", MonthlyTds(AnnualGross(d), d.profile, d.cfg))>>)

LEMMA LeviesAndTaxes ==
  ASSUME NEW d, NEW earnings
  PROVE  StatutoryDeductions(d, earnings) =
           Levies(d, earnings) \o PTLines(d, earnings) \o TDSLines(d)
BY Zenon DEF StatutoryDeductions, Levies, PTLines, TDSLines

LEMMA DeductionsKind ==
  ASSUME NEW N, Kind(N), NEW d, DraftOf(N, d), NEW earnings \in EntriesOf(N)
  PROVE  /\ OwnDeductions(d, earnings) \in EntriesOf(N)
         /\ StatutoryDeductions(d, earnings) \in EntriesOf(N)
         /\ Levies(d, earnings) \in EntriesOf(N) /\ PTLines(d, earnings) \in EntriesOf(N)
         /\ TDSLines(d) \in EntriesOf(N)
<1>0. d \in Draft
  BY DEF DraftOf
<1>1. Sum(earnings) \in N /\ Sum(earnings) \in Int
  BY EntryCounted, KindLaws
<1>2. OwnDeductions(d, earnings) \in EntriesOf(N)
  <2>1. CTCOnly(d) \in Refs(N) /\ d.deductions \in Seq(LineOf(N))
    BY PeriodKind, DraftKind
  <2>2. ByCode(earnings, CTCOnly(d)) \in Refs(N)
    BY <2>1, ByCodeKind
  <2>3. OwnDeductions(d, earnings) = ResolveAll(d.deductions, ByCode(earnings, CTCOnly(d)), Sum(earnings))
    BY DEF OwnDeductions
  <2> QED BY <1>1, <2>1, <2>2, <2>3, ResolveAllKind
<1> DEFINE gross == Sum(earnings)
           pf == ComputePF(PFWage(d, earnings), d.cap, d.cfg).employee
           esi == ComputeESI(gross, d.cfg).employee
           pt == ComputePT(d.state, gross)
           tds == MonthlyTds(AnnualGross(d), d.profile, d.cfg)
           covered == d.esi /\ Covered(gross, d.cfg)
<1>3. /\ d.cfg \in Configs /\ d.profile \in Profiles /\ d.cap \in BOOLEAN /\ d.pf \in BOOLEAN
      /\ d.esi \in BOOLEAN /\ d.pt \in BOOLEAN /\ d.tds \in BOOLEAN
  BY <1>0, DraftFields
<1>4. pf \in N
  <2>1. PFWage(d, earnings) \in N
    BY PFWageKind
  <2> QED BY <1>3, <2>1, PFKind
<1>5. esi \in N
  <2>1. d.cfg.esiEmployee \in Nat
    BY <1>3 DEF Configs
  <2>2. esi = ShareUp(gross, d.cfg.esiEmployee)
    BY DEF ComputeESI
  <2> HIDE DEF esi, gross
  <2> QED BY <1>1, <2>1, <2>2, ShareKind DEF gross
<1>6. pt \in Nat
  BY <1>1, PTNat
<1>7. tds \in Nat
  <2>1. AnnualGross(d) \in Int
    <3>1. RawEarnings(d) \in EntriesOf(N)
      BY RawKind
    <3>2. Sum(RawEarnings(d)) \in Int
      BY <3>1, EntryCounted, KindLaws
    <3> QED BY <3>2 DEF AnnualGross
  <2> QED BY <1>3, <2>1, TdsNat
<1>8. covered \in BOOLEAN /\ (d.pt /\ pt > 0) \in BOOLEAN /\ (d.tds /\ tds > 0) \in BOOLEAN
  OBVIOUS
<1>9. /\ Levies(d, earnings) = If(d.pf, <<Entry("PF", pf)>>) \o If(covered, <<Entry("ESI", esi)>>)
      /\ PTLines(d, earnings) = If(d.pt /\ pt > 0, <<Entry("PT", pt)>>)
      /\ TDSLines(d) = If(d.tds /\ tds > 0, <<Entry("TDS", tds)>>)
  BY Zenon DEF Levies, PTLines, TDSLines
<1>10. pt \in N /\ tds \in N
  BY <1>6, <1>7 DEF Kind
<1> HIDE DEF pf, esi, pt, tds, covered, gross
<1>11. /\ "PF" \in STRING /\ "ESI" \in STRING /\ "PT" \in STRING /\ "TDS" \in STRING
  BY CodesAssumption
<1>12. /\ If(d.pf, <<Entry("PF", pf)>>) \in EntriesOf(N)
       /\ If(covered, <<Entry("ESI", esi)>>) \in EntriesOf(N)
  BY <1>3, <1>4, <1>5, <1>8, <1>11, OneEntry
<1>13. /\ If(d.pt /\ pt > 0, <<Entry("PT", pt)>>) \in EntriesOf(N)
       /\ If(d.tds /\ tds > 0, <<Entry("TDS", tds)>>) \in EntriesOf(N)
  BY <1>8, <1>10, <1>11, OneEntry
<1>14. /\ Levies(d, earnings) \in EntriesOf(N) /\ PTLines(d, earnings) \in EntriesOf(N)
       /\ TDSLines(d) \in EntriesOf(N)
  BY <1>9, <1>12, <1>13, EntryConcat
<1>15. StatutoryDeductions(d, earnings) \in EntriesOf(N)
  BY <1>14, LeviesAndTaxes, EntryConcat
<1> QED BY <1>2, <1>14, <1>15

LEMMA EmployerKind ==
  ASSUME NEW N, Kind(N), NEW d, DraftOf(N, d), NEW earnings \in EntriesOf(N)
  PROVE  /\ EmployerContributions(d, earnings) \in EntriesOf(Int)
         /\ \A i \in DOMAIN EmployerContributions(d, earnings) :
              EmployerContributions(d, earnings)[i].amount \in
                N \cup {ComputePF(PFWage(d, earnings), d.cap, d.cfg).epf}
<1> DEFINE pf == ComputePF(PFWage(d, earnings), d.cap, d.cfg)
           gross == Sum(earnings)
           esi == ComputeESI(gross, d.cfg).employer
           covered == d.esi /\ Covered(gross, d.cfg)
           V == N \cup {pf.epf}
           first == If(d.pf, <<Entry("PF_ER", pf.epf), Entry("EPS_ER", pf.eps)>>)
           second == If(covered, <<Entry("ESI_ER", esi)>>)
<1>0. d.cfg \in Configs /\ d.cap \in BOOLEAN /\ d.pf \in BOOLEAN /\ N \subseteq Int
  BY DraftFields, KindLaws DEF DraftOf
<1>1. gross \in N
  BY EntryCounted
<1>2. pf.eps \in N /\ pf.epf \in Int
  <2>1. PFWage(d, earnings) \in N
    BY PFWageKind
  <2> QED BY <1>0, <2>1, PFKind
<1>3. esi \in N
  <2>1. d.cfg.esiEmployer \in Nat
    BY <1>0 DEF Configs
  <2>2. esi = ShareUp(gross, d.cfg.esiEmployer)
    BY DEF ComputeESI
  <2> HIDE DEF esi, gross
  <2> QED BY <1>1, <2>1, <2>2, ShareKind
<1>4. EmployerContributions(d, earnings) = first \o second
  BY Zenon DEF EmployerContributions
<1>5. "PF_ER" \in STRING /\ "EPS_ER" \in STRING /\ "ESI_ER" \in STRING
  BY CodesAssumption
<1>6. V \subseteq Int /\ pf.epf \in V /\ pf.eps \in V /\ esi \in V /\ covered \in BOOLEAN
  BY <1>0, <1>2, <1>3
<1> HIDE DEF V, pf, esi, covered, gross
<1>7. first \in EntriesOf(V)
  <2>1. CASE d.pf
    <3>1. /\ Entry("PF_ER", pf.epf) \in [code: STRING, amount: V]
          /\ Entry("EPS_ER", pf.eps) \in [code: STRING, amount: V]
      BY <1>5, <1>6 DEF Entry
    <3>2. <<Entry("PF_ER", pf.epf), Entry("EPS_ER", pf.eps)>> \in EntriesOf(V)
      BY <3>1 DEF EntriesOf
    <3> QED BY <2>1, <3>2 DEF If
  <2>2. CASE ~d.pf
    BY <2>2 DEF If, EntriesOf
  <2> QED BY <2>1, <2>2
<1>8. second \in EntriesOf(V)
  BY <1>5, <1>6, OneEntry
<1> HIDE DEF first, second
<1>9. EmployerContributions(d, earnings) \in EntriesOf(V)
  BY <1>4, <1>7, <1>8, EntryConcat
<1>10. [code: STRING, amount: V] \subseteq [code: STRING, amount: Int]
  BY <1>6
<1>11. EmployerContributions(d, earnings) \in EntriesOf(Int)
  BY <1>9, <1>10, SeqMonotonic DEF EntriesOf
<1>12. \A i \in DOMAIN EmployerContributions(d, earnings) :
         EmployerContributions(d, earnings)[i].amount \in V
  BY <1>9, EntryAt
<1> QED BY <1>11, <1>12 DEF V, pf

AdjustmentOf == [kind: {"EARNING", "DEDUCTION"}, code: STRING, amount: Nat]

LEMMA AdjustmentsKind ==
  ASSUME NEW N, Kind(N), NEW d, DraftOf(N, d), NEW kind
  PROVE  /\ AsEntries(Adjustments(d, kind)) \in EntriesOf(N)
         /\ Counted(Adjustments(d, kind)) /\ Sum(Adjustments(d, kind)) \in Nat
         /\ Sum(AsEntries(Adjustments(d, kind))) = Sum(Adjustments(d, kind))
<1> DEFINE adjs == Adjustments(d, kind)
           n == Len(adjs)
           R == [code: STRING, amount: N]
           line(i) == Entry(adjs[i].code, adjs[i].amount)
<1>1. d.adjustments \in Seq(AdjustmentOf)
  BY DraftFields DEF DraftOf, AdjustmentOf
<1>2. adjs \in Seq(AdjustmentOf) /\ n \in Nat /\ DOMAIN adjs = 1..n
  BY <1>1, KeptKind DEF Adjustments
<1>3. \A a \in AdjustmentOf : a.code \in STRING /\ a.amount \in Nat
  BY DEF AdjustmentOf
<1> HIDE DEF adjs, n
<1>4. \A i \in 1..n : adjs[i].code \in STRING /\ adjs[i].amount \in Nat
  BY <1>2, <1>3 DEF n
<1>5. Len(adjs) = n
  BY DEF n
<1>6. Counted(adjs)
  BY <1>2, <1>4, <1>5 DEF Counted
<1>7. Sum(adjs) \in Nat
  BY <1>2, <1>4, <1>6, SumNat
<1>8. AsEntries(adjs) = [i \in 1..n |-> line(i)]
  BY <1>2 DEF AsEntries
<1>9. \A i \in 1..n : line(i) \in R /\ line(i).amount = adjs[i].amount
  BY <1>4 DEF Entry, Kind
<1> HIDE DEF line, R
<1>10. AsEntries(adjs) \in [1..n -> R]
  BY <1>8, <1>9
<1>11. AsEntries(adjs) \in Seq(R) /\ Len(AsEntries(adjs)) = n /\ DOMAIN AsEntries(adjs) = 1..n
  BY <1>2, <1>10
<1>12. \A i \in 1..n : AsEntries(adjs)[i].amount = adjs[i].amount
  BY <1>8, <1>9
<1>13. Sum(adjs) = Sum(AsEntries(adjs))
  BY <1>2, <1>5, <1>6, <1>11, <1>12, SumSame
<1> QED BY <1>6, <1>7, <1>11, <1>13 DEF EntriesOf, R, adjs

-----------------------------------------------------------------------------
(***************************************************************************)
(* The payslip, line by line.                                              *)
(***************************************************************************)
Charged(d, earnings) == OwnDeductions(d, earnings) \o StatutoryDeductions(d, earnings)

LEMMA ChargedKind ==
  ASSUME NEW N, Kind(N), NEW d, DraftOf(N, d), NEW earnings \in EntriesOf(N)
  PROVE  Charged(d, earnings) \in EntriesOf(N)
BY DeductionsKind, EntryConcat DEF Charged

LEMMA SlipIs ==
  ASSUME NEW d, NEW lost
  PROVE  LET earnings == Earnings(d, lost)
             s == Payslip(d, lost)
         IN  /\ s.earnings = earnings \o AsEntries(Adjustments(d, "EARNING"))
             /\ s.deductions = Charged(d, earnings) \o AsEntries(Adjustments(d, "DEDUCTION"))
             /\ s.employer = EmployerContributions(d, earnings)
             /\ s.gross = Sum(s.earnings) /\ s.totalDeductions = Sum(s.deductions)
             /\ s.net = Sum(s.earnings) - Sum(s.deductions)
BY DEF Payslip, Assemble, Charged

LEMMA SlipKind ==
  ASSUME NEW N, Kind(N), NEW d, DraftOf(N, d), Valid(d), NEW lost
  PROVE  LET earnings == Earnings(d, lost)
             s == Payslip(d, lost)
         IN  /\ earnings \in EntriesOf(N) /\ Charged(d, earnings) \in EntriesOf(N)
             /\ s.earnings \in EntriesOf(N) /\ s.deductions \in EntriesOf(N)
             /\ s.employer \in EntriesOf(Int)
             /\ Sum(earnings) \in N /\ Sum(Charged(d, earnings)) \in N
             /\ s.gross = Sum(earnings) + Sum(Adjustments(d, "EARNING")) /\ s.gross \in N
             /\ s.totalDeductions = Sum(Charged(d, earnings)) + Sum(Adjustments(d, "DEDUCTION"))
             /\ s.totalDeductions \in N
             /\ s.net = s.gross - s.totalDeductions
<1> DEFINE earnings == Earnings(d, lost)
           s == Payslip(d, lost)
           bonus == AsEntries(Adjustments(d, "EARNING"))
           charged == Charged(d, earnings)
           cut == AsEntries(Adjustments(d, "DEDUCTION"))
<1>1. earnings \in EntriesOf(N)
  BY EarningsKind
<1>2. charged \in EntriesOf(N) /\ s.employer \in EntriesOf(Int)
  BY <1>1, ChargedKind, EmployerKind, SlipIs
<1>3. /\ bonus \in EntriesOf(N) /\ Sum(bonus) = Sum(Adjustments(d, "EARNING"))
      /\ cut \in EntriesOf(N) /\ Sum(cut) = Sum(Adjustments(d, "DEDUCTION"))
  BY AdjustmentsKind
<1>4. /\ s.earnings = earnings \o bonus /\ s.deductions = charged \o cut
      /\ s.gross = Sum(s.earnings) /\ s.totalDeductions = Sum(s.deductions)
      /\ s.net = Sum(s.earnings) - Sum(s.deductions)
  BY SlipIs
<1> HIDE DEF earnings, bonus, charged, cut, s
<1>5. /\ Counted(earnings) /\ Counted(bonus) /\ Counted(charged) /\ Counted(cut)
      /\ Sum(earnings) \in N /\ Sum(bonus) \in N /\ Sum(charged) \in N /\ Sum(cut) \in N
  BY <1>1, <1>2, <1>3, EntryCounted
<1>6. s.earnings \in EntriesOf(N) /\ s.deductions \in EntriesOf(N)
  BY <1>1, <1>2, <1>3, <1>4, EntryConcat
<1>7. Sum(earnings \o bonus) = Sum(earnings) + Sum(bonus)
  BY <1>1, <1>3, <1>5, SumConcat DEF EntriesOf
<1>8. Sum(charged \o cut) = Sum(charged) + Sum(cut)
  BY <1>2, <1>3, <1>5, SumConcat DEF EntriesOf
<1>9. s.gross \in N /\ s.totalDeductions \in N
  BY <1>4, <1>5, <1>7, <1>8, KindLaws
<1>10. s.net = s.gross - s.totalDeductions
  BY <1>4
<1> QED BY <1>1, <1>2, <1>3, <1>4, <1>5, <1>6, <1>7, <1>8, <1>9, <1>10
        DEF earnings, charged, s

-----------------------------------------------------------------------------
(***************************************************************************)
(* What is computed is the payslip of the draft.                           *)
(***************************************************************************)
LEMMA DraftExcept ==
  ASSUME NEW d \in Draft
  PROVE  /\ \A x \in Int : [d EXCEPT !.ctc = x] \in Draft
         /\ \A x \in Nat \ {0} : [d EXCEPT !.days = x] \in Draft
         /\ \A x \in Nat : [d EXCEPT !.lop = x] \in Draft
         /\ \A x \in {"MONTHLY", "WEEKLY", "HOURLY"} : [d EXCEPT !.freq = x] \in Draft
         /\ \A x \in Lines : [d EXCEPT !.components = x] \in Draft
         /\ \A x \in Seq(AdjustmentOf) : [d EXCEPT !.adjustments = x] \in Draft
         /\ \A x \in {Omitted} \cup STRING : [d EXCEPT !.state = x] \in Draft
         /\ \A x \in Profiles : [d EXCEPT !.profile = x] \in Draft
<1>1. ASSUME NEW x \in Int PROVE [d EXCEPT !.ctc = x] \in Draft
  BY DEF Draft
<1>2. ASSUME NEW x \in Nat \ {0} PROVE [d EXCEPT !.days = x] \in Draft
  BY DEF Draft
<1>3. ASSUME NEW x \in Nat PROVE [d EXCEPT !.lop = x] \in Draft
  BY DEF Draft
<1>4. ASSUME NEW x \in {"MONTHLY", "WEEKLY", "HOURLY"} PROVE [d EXCEPT !.freq = x] \in Draft
  BY DEF Draft
<1>5. ASSUME NEW x \in Lines PROVE [d EXCEPT !.components = x] \in Draft
  BY DEF Draft
<1>6. ASSUME NEW x \in Seq(AdjustmentOf) PROVE [d EXCEPT !.adjustments = x] \in Draft
  BY DEF Draft, AdjustmentOf
<1>7. ASSUME NEW x \in {Omitted} \cup STRING PROVE [d EXCEPT !.state = x] \in Draft
  BY DEF Draft
<1>8. ASSUME NEW x \in Profiles PROVE [d EXCEPT !.profile = x] \in Draft
  BY DEF Draft
<1> QED BY <1>1, <1>2, <1>3, <1>4, <1>5, <1>6, <1>7, <1>8

LEMMA HourlyKind ==
  ASSUME NEW N, Kind(N), NEW d, DraftOf(N, d)
  PROVE  DraftOf(N, Hourly(d))
<1> DEFINE wage == RoundHalfUp(d.hours * d.rate, 100)
           line == [code |-> "WAGES", type |-> "fixed", percent |-> 0, of |-> Omitted,
                    amount |-> wage]
           e == Hourly(d)
<1>1. d \in Draft /\ d.hours \in Nat /\ d.rate \in Nat
  BY DraftFields DEF DraftOf
<1>2. wage \in Nat
  <2>1. d.hours * d.rate \in Nat
    BY <1>1
  <2> QED BY <2>1 DEF RoundHalfUp, RoundDown
<1>3. e = [d EXCEPT !.freq = "MONTHLY", !.ctc = 0, !.lop = 0, !.days = 1, !.components = <<line>>]
  BY DEF Hourly
<1> HIDE DEF wage
<1>4. line \in [code: STRING, type: {"fixed", "percent", "balance"}, amount: Int,
                percent: Int, of: {Omitted} \cup STRING]
  <2>1. "WAGES" \in STRING
    BY CodesAssumption
  <2> QED BY <1>2, <2>1
<1>5. line.amount = wage /\ line.percent = 0
  OBVIOUS
<1> HIDE DEF line
<1>6. <<line>> \in Lines /\ DOMAIN <<line>> = {1} /\ <<line>>[1] = line
  <2>1. <<line>> \in Lines
    BY <1>4 DEF Lines
  <2> QED BY <2>1
<1> DEFINE lines == <<line>>
<1>7. lines \in Lines /\ \A i \in DOMAIN lines : lines[i].amount >= 0 /\ lines[i].percent >= 0
  BY <1>2, <1>5, <1>6
<1>8. e = [d EXCEPT !.freq = "MONTHLY", !.ctc = 0, !.lop = 0, !.days = 1, !.components = lines]
  BY <1>3
<1> HIDE DEF lines, e
<1>9. e \in Draft /\ e.components = lines /\ e.ctc = 0 /\ e.deductions = d.deductions
      /\ e.pfCodes = d.pfCodes
  <2>1. PICK a \in Draft : a = [d EXCEPT !.freq = "MONTHLY"]
    BY <1>1, DraftExcept
  <2>0. 0 \in Int /\ 1 \in Nat \ {0}
    OBVIOUS
  <2>2. PICK b \in Draft : b = [a EXCEPT !.ctc = 0]
    BY <2>0, DraftExcept, Zenon
  <2>3. PICK c \in Draft : c = [b EXCEPT !.lop = 0]
    BY DraftExcept
  <2>4. PICK f \in Draft : f = [c EXCEPT !.days = 1]
    BY <2>0, DraftExcept, Zenon
  <2>5. e = [f EXCEPT !.components = lines]
    BY <1>8, <2>1, <2>2, <2>3, <2>4
  <2>6. e \in Draft /\ e.components = lines /\ e.ctc = f.ctc /\ e.deductions = f.deductions
        /\ e.pfCodes = f.pfCodes
    BY <1>7, <2>5 DEF Draft
  <2>7. f.ctc = c.ctc /\ f.deductions = c.deductions /\ f.pfCodes = c.pfCodes
    BY <2>4 DEF Draft
  <2>8. c.ctc = b.ctc /\ c.deductions = b.deductions /\ c.pfCodes = b.pfCodes
    BY <2>3 DEF Draft
  <2>9. b.ctc = 0 /\ b.deductions = a.deductions /\ b.pfCodes = a.pfCodes
    BY <2>2 DEF Draft
  <2>10. a.deductions = d.deductions /\ a.pfCodes = d.pfCodes
    BY <1>1, <2>1 DEF Draft
  <2> QED BY <2>6, <2>7, <2>8, <2>9, <2>10
<1>10. NotNegative(d) => NotNegative(e)
  BY <1>7, <1>9 DEF NotNegative
<1> QED BY <1>9, <1>10 DEF DraftOf, e

LEMMA EffectiveKind ==
  ASSUME NEW N, Kind(N), NEW d, DraftOf(N, d)
  PROVE  DraftOf(N, Effective(d))
BY HourlyKind DEF Effective

SlipInv ==
  /\ draft \in Drafts
  /\ Computed =>
       /\ Valid(Effective(draft))
       /\ \E lost \in SUBSET DOMAIN Effective(draft).components :
            slip = Payslip(Effective(draft), lost)

\* What is there is what the last computation made of the draft.
LEMMA SlipIsComputed == Spec => []SlipInv
<1>1. Init => SlipInv
  BY DEF Init, SlipInv, Computed
<1>2. SlipInv /\ [Next]_vars => SlipInv'
  <2> SUFFICES ASSUME SlipInv, [Next]_vars PROVE SlipInv'
    OBVIOUS
  <2>1. CASE Compute
    BY <2>1 DEF SlipInv, Compute
  <2>2. CASE Refuse
    BY <2>2 DEF SlipInv, Refuse, Computed
  <2>3. CASE UNCHANGED vars
    BY <2>3 DEF SlipInv, Computed, vars
  <2> QED BY <2>1, <2>2, <2>3 DEF Next
<1> QED BY <1>1, <1>2, PTL DEF Spec

\* The draft is one the code can meet; it has no negative line if none has.
LEMMA DraftSane ==
  ASSUME draft \in Drafts
  PROVE  /\ DraftOf(Int, draft) /\ DraftOf(Int, Effective(draft))
         /\ (\A d \in Drafts : NotNegative(d)) => DraftOf(Nat, Effective(draft))
<1>1. DraftOf(Int, draft)
  <2>1. Int # Nat
    <3>1. -1 \in Int /\ -1 \notin Nat
      OBVIOUS
    <3> QED BY <3>1
  <2> QED BY <2>1, DraftsAssumption DEF DraftOf
<1>2. (\A d \in Drafts : NotNegative(d)) => DraftOf(Nat, draft)
  BY DraftsAssumption DEF DraftOf
<1> QED BY <1>1, <1>2, EffectiveKind DEF Kind

-----------------------------------------------------------------------------
(***************************************************************************)
(* Adjustments.                                                            *)
(***************************************************************************)
\* What the lines of a payslip are made of: everything but the adjustments.
LEMMA RawAlike ==
  ASSUME NEW d, NEW e, e.freq = d.freq, e.ctc = d.ctc, e.components = d.components
  PROVE  /\ RawEarnings(e) = RawEarnings(d) /\ PeriodCTC(e) = PeriodCTC(d)
         /\ CTCOnly(e) = CTCOnly(d)
<1>1. PeriodCTC(e) = PeriodCTC(d)
  BY DEF PeriodCTC
<1>2. CTCOnly(e) = CTCOnly(d)
  BY <1>1 DEF CTCOnly
<1>3. Balances(e) = Balances(d) /\ Others(e) = Others(d)
  BY DEF Balances, Others
<1>4. OtherEarnings(e) = OtherEarnings(d)
  BY <1>2, <1>3 DEF OtherEarnings
<1>5. Shares(e, OtherEarnings(e)) = Shares(d, OtherEarnings(d))
  BY <1>1, <1>3, <1>4 DEF Shares, Remainder
<1> QED BY <1>1, <1>2, <1>4, <1>5, RawIs

LEMMA EarningsAlike ==
  ASSUME NEW d, NEW e, e.freq = d.freq, e.ctc = d.ctc, e.components = d.components,
         e.lop = d.lop, e.days = d.days \/ d.lop = 0, NEW lost
  PROVE  Earnings(e, lost) = Earnings(d, lost)
<1>1. RawEarnings(e) = RawEarnings(d)
  BY RawAlike
<1>2. CASE d.lop = 0
  <2>1. \A amount, loses : Prorate(amount, e, loses) = Prorate(amount, d, loses)
    BY <1>2 DEF Prorate
  <2> QED BY <1>1, <2>1 DEF Earnings
<1>3. CASE e.days = d.days
  <2>1. Terminates(e) <=> Terminates(d)
    BY <1>3 DEF Terminates
  <2>2. \A amount, loses : Prorate(amount, e, loses) = Prorate(amount, d, loses)
    BY <1>3, <2>1, Zenon DEF Prorate
  <2> QED BY <1>1, <2>2 DEF Earnings
<1> QED BY <1>2, <1>3

LEMMA ChargedAlike ==
  ASSUME NEW d, NEW e, e.freq = d.freq, e.ctc = d.ctc, e.components = d.components,
         e.deductions = d.deductions, e.pf = d.pf, e.pfCodes = d.pfCodes, e.cap = d.cap,
         e.esi = d.esi, e.pt = d.pt, e.state = d.state, e.tds = d.tds, e.cfg = d.cfg,
         e.profile = d.profile, NEW earnings
  PROVE  /\ Charged(e, earnings) = Charged(d, earnings)
         /\ EmployerContributions(e, earnings) = EmployerContributions(d, earnings)
<1>1. RawEarnings(e) = RawEarnings(d) /\ CTCOnly(e) = CTCOnly(d)
  BY RawAlike
<1>2. OwnDeductions(e, earnings) = OwnDeductions(d, earnings)
  BY <1>1 DEF OwnDeductions
<1>3. AnnualGross(e) = AnnualGross(d)
  BY <1>1 DEF AnnualGross
<1>4. PFWage(e, earnings) = PFWage(d, earnings)
  BY Zenon DEF PFWage
<1>5. StatutoryDeductions(e, earnings) = StatutoryDeductions(d, earnings)
  BY <1>3, <1>4, Zenon DEF StatutoryDeductions
<1>6. EmployerContributions(e, earnings) = EmployerContributions(d, earnings)
  BY <1>4, Zenon DEF EmployerContributions
<1> QED BY <1>2, <1>5, <1>6 DEF Charged

LEMMA PrefixConcat ==
  ASSUME NEW R, NEW first \in Seq(R), NEW second \in Seq(R)
  PROVE  IsPrefix(first, first \o second)
<1> DEFINE both == first \o second
           n == Len(first)
<1>1. /\ both \in Seq(R) /\ n \in Nat /\ n <= Len(both) /\ Len(both) \in Nat
      /\ \A i \in 1..n : both[i] = first[i]
  BY ConcatProperties
<1> QED BY <1>1 DEF IsPrefix

LEMMA NoAdjustments ==
  ASSUME NEW d, d.adjustments = <<>>, NEW kind
  PROVE  AsEntries(Adjustments(d, kind)) = <<>> /\ Sum(Adjustments(d, kind)) = 0
<1>1. <<>> \in Seq({}) /\ \A i \in DOMAIN <<>> : FALSE
  OBVIOUS
<1>2. Adjustments(d, kind) = <<>>
  BY <1>1, KeptNothing DEF Adjustments
<1>3. AsEntries(<<>>) = <<>>
  BY DEF AsEntries
<1> QED BY <1>2, <1>3, SumEmpty

\* Adjustments change the net by their own amounts, and no other line.
THEOREM AdjustmentsStayAside == Spec => []AdjustmentsAside
<1>1. SlipInv => AdjustmentsAside
  <2> SUFFICES ASSUME SlipInv, Computed PROVE AdjustmentsAside
    BY DEF AdjustmentsAside
  <2> DEFINE d == Effective(draft)
             bare == [d EXCEPT !.adjustments = <<>>]
  <2>1. PICK lost \in SUBSET DOMAIN d.components : slip = Payslip(d, lost)
    BY DEF SlipInv
  <2>2. Valid(d) /\ draft \in Drafts
    BY DEF SlipInv
  <2>3. DraftOf(Int, d) /\ Kind(Int)
    BY <2>2, DraftSane DEF Kind
  <2>4. d \in Draft
    BY <2>3 DEF DraftOf
  <2> HIDE DEF d
  <2>5. /\ bare \in Draft /\ bare.adjustments = <<>>
        /\ bare.freq = d.freq /\ bare.ctc = d.ctc /\ bare.components = d.components
        /\ bare.lop = d.lop /\ bare.days = d.days
    <3>1. <<>> \in Seq(AdjustmentOf)
      OBVIOUS
    <3>2. bare \in Draft
      BY <2>4, <3>1, DraftExcept, Zenon
    <3>3. /\ bare.freq = d.freq /\ bare.ctc = d.ctc /\ bare.components = d.components
          /\ bare.lop = d.lop /\ bare.days = d.days
      BY <2>4 DEF Draft
    <3>4. bare.adjustments = <<>>
      BY <2>4, Zenon DEF Draft
    <3> QED BY <3>2, <3>3, <3>4
  <2>6. /\ bare.deductions = d.deductions /\ bare.pf = d.pf /\ bare.pfCodes = d.pfCodes
        /\ bare.cap = d.cap /\ bare.esi = d.esi /\ bare.pt = d.pt /\ bare.state = d.state
        /\ bare.tds = d.tds /\ bare.cfg = d.cfg /\ bare.profile = d.profile
    BY <2>4 DEF Draft
  <2>7. DraftOf(Int, bare) /\ Valid(bare)
    <3>1. Int # Nat
      <4>1. -1 \in Int /\ -1 \notin Nat
        OBVIOUS
      <4> QED BY <4>1
    <3> QED BY <2>2, <2>5, <3>1 DEF DraftOf, Valid
  <2>8. PICK plain : plain = Payslip(bare, lost)
    OBVIOUS
  <2> DEFINE earnings == Earnings(d, lost)
             charged == Charged(d, earnings)
             bonus == AsEntries(Adjustments(d, "EARNING"))
             cut == AsEntries(Adjustments(d, "DEDUCTION"))
  <2>9. Earnings(bare, lost) = earnings
    BY <2>5, EarningsAlike
  <2>10. /\ Charged(bare, earnings) = charged
         /\ EmployerContributions(bare, earnings) = EmployerContributions(d, earnings)
    BY <2>5, <2>6, ChargedAlike
  <2>11. \A kind : AsEntries(Adjustments(bare, kind)) = <<>> /\ Sum(Adjustments(bare, kind)) = 0
    BY <2>5, NoAdjustments
  <2> HIDE DEF bare
  <2>12. /\ slip.earnings = earnings \o bonus /\ slip.deductions = charged \o cut
         /\ slip.employer = EmployerContributions(d, earnings)
    BY <2>1, SlipIs
  <2>13. /\ plain.earnings = earnings \o <<>> /\ plain.deductions = charged \o <<>>
         /\ plain.employer = EmployerContributions(d, earnings)
    BY <2>8, <2>9, <2>10, <2>11, SlipIs
  <2>14. /\ earnings \in EntriesOf(Int) /\ charged \in EntriesOf(Int)
         /\ Sum(earnings) \in Int /\ Sum(charged) \in Int
         /\ slip.gross = Sum(earnings) + Sum(Adjustments(d, "EARNING"))
         /\ slip.totalDeductions = Sum(charged) + Sum(Adjustments(d, "DEDUCTION"))
         /\ slip.net = slip.gross - slip.totalDeductions
    BY <2>1, <2>2, <2>3, SlipKind
  <2>15. /\ plain.gross = Sum(earnings) + 0 /\ plain.totalDeductions = Sum(charged) + 0
         /\ plain.net = plain.gross - plain.totalDeductions
    BY <2>3, <2>7, <2>8, <2>9, <2>10, <2>11, SlipKind
  <2>16. /\ bonus \in EntriesOf(Int) /\ cut \in EntriesOf(Int)
         /\ Sum(Adjustments(d, "EARNING")) \in Nat /\ Sum(Adjustments(d, "DEDUCTION")) \in Nat
    BY <2>3, AdjustmentsKind
  <2> HIDE DEF earnings, charged, bonus, cut
  <2>17. plain.earnings = earnings /\ plain.deductions = charged
    BY <2>13, <2>14, ConcatEmptySeq DEF EntriesOf
  <2>18. IsPrefix(plain.earnings, slip.earnings) /\ IsPrefix(plain.deductions, slip.deductions)
    BY <2>12, <2>14, <2>16, <2>17, PrefixConcat DEF EntriesOf
  <2>19. slip.net = plain.net + Sum(Adjustments(d, "EARNING")) - Sum(Adjustments(d, "DEDUCTION"))
    BY <2>14, <2>15, <2>16
  <2>20. plain.employer = slip.employer
    BY <2>12, <2>13
  <2> QED BY <2>8, <2>18, <2>19, <2>20 DEF AdjustmentsAside, d, bare
<1> QED BY <1>1, SlipIsComputed, PTL

-----------------------------------------------------------------------------
(***************************************************************************)
(* The pension is a part of the employer's share.                          *)
(***************************************************************************)
LEMMA ProductsRise ==
  ASSUME NEW a \in Nat, NEW b \in Nat, NEW r \in Nat, NEW s \in Nat, a <= b, r <= s
  PROVE  a * r <= b * s
<1>1. PICK k \in Nat : b = a + k
  <2>1. b - a \in Nat /\ b = a + (b - a)
    OBVIOUS
  <2> QED BY <2>1
<1>2. PICK j \in Nat : s = r + j
  <2>1. s - r \in Nat /\ s = r + (s - r)
    OBVIOUS
  <2> QED BY <2>1
<1>3. b * s = a * r + (a * j + k * s)
  BY <1>1, <1>2
<1>4. a * j \in Nat /\ k * s \in Nat /\ a * r \in Nat
  OBVIOUS
<1> QED BY <1>3, <1>4

LEMMA RoundingRises ==
  ASSUME NEW m \in Int, NEW n \in Int, m <= n, NEW d \in Nat, d > 0
  PROVE  RoundHalfUp(m, d) <= RoundHalfUp(n, d)
<1>1. d \div 2 \in Int
  OBVIOUS
<1>2. PICK a \in Int : a = m + d \div 2
  BY <1>1
<1>3. PICK b \in Int : b = n + d \div 2
  BY <1>1
<1>4. a <= b
  BY <1>1, <1>2, <1>3
<1>5. a \div d <= b \div d
  BY <1>4
<1> QED BY <1>2, <1>3, <1>5 DEF RoundHalfUp, RoundDown

LEMMA PensionLeaves ==
  ASSUME NEW wage \in Nat, NEW cap \in BOOLEAN, NEW cfg \in Configs,
         cfg.epsRate <= cfg.pfEmployer, cfg.epsCeiling <= cfg.pfCeiling
  PROVE  ComputePF(wage, cap, cfg).epf \in Nat
<1> DEFINE contributory == IF cap THEN Least(wage, cfg.pfCeiling) ELSE wage
           base == EPSWage(wage, cfg)
<1>1. /\ cfg.pfCeiling \in Nat /\ cfg.epsCeiling \in Nat
      /\ cfg.pfEmployer \in Nat /\ cfg.epsRate \in Nat
  BY DEF Configs
<1>2. contributory \in Nat /\ base \in Nat /\ base <= contributory
  BY <1>1 DEF Least, EPSWage
<1>3. ComputePF(wage, cap, cfg).epf = Share(contributory, cfg.pfEmployer) - Share(base, cfg.epsRate)
  BY DEF ComputePF
<1> HIDE DEF contributory, base
<1> DEFINE m == base * cfg.epsRate
           n == contributory * cfg.pfEmployer
           D == Rate * Rupee
<1>4. m \in Nat /\ n \in Nat /\ m <= n /\ D = 1000000
  BY <1>1, <1>2, ProductsRise DEF Rate, Rupee
<1>5. Share(contributory, cfg.pfEmployer) = Rupee * RoundHalfUp(n, D)
      /\ Share(base, cfg.epsRate) = Rupee * RoundHalfUp(m, D)
  BY DEF Share
<1> HIDE DEF m, n, D
<1>6. RoundHalfUp(m, D) <= RoundHalfUp(n, D)
  BY <1>4, RoundingRises
<1>7. RoundHalfUp(m, D) \in Nat /\ RoundHalfUp(n, D) \in Nat
  BY <1>4 DEF RoundHalfUp, RoundDown
<1> QED BY <1>3, <1>5, <1>6, <1>7 DEF Rupee

\* No part of what the employer contributes is negative, when the settings keep the
\* pension within the share and no line of the structures is negative.
THEOREM PensionStaysWithin ==
  (\A d \in Drafts : NotNegative(d)) => (Spec => []PensionWithinShare)
<1> SUFFICES ASSUME \A d \in Drafts : NotNegative(d) PROVE Spec => []PensionWithinShare
  OBVIOUS
<1>1. SlipInv => PensionWithinShare
  <2> SUFFICES ASSUME SlipInv, Computed PROVE PensionWithinShare
    BY DEF PensionWithinShare
  <2> DEFINE d == Effective(draft)
  <2> SUFFICES ASSUME d.cfg.epsRate <= d.cfg.pfEmployer, d.cfg.epsCeiling <= d.cfg.pfCeiling
               PROVE  \A i \in DOMAIN slip.employer : slip.employer[i].amount >= 0
    BY DEF PensionWithinShare
  <2>1. PICK lost \in SUBSET DOMAIN d.components : slip = Payslip(d, lost)
    BY DEF SlipInv
  <2>2. DraftOf(Nat, d) /\ Valid(d) /\ Kind(Nat)
    BY DraftSane DEF SlipInv, Kind
  <2> HIDE DEF d
  <2> DEFINE earnings == Earnings(d, lost)
             wage == PFWage(d, earnings)
  <2>3. earnings \in EntriesOf(Nat)
    BY <2>2, EarningsKind
  <2>4. slip.employer = EmployerContributions(d, earnings)
    BY <2>1, SlipIs
  <2> HIDE DEF earnings
  <2>5. wage \in Nat
    BY <2>2, <2>3, PFWageKind
  <2>6. d.cfg \in Configs /\ d.cap \in BOOLEAN
    BY <2>2, DraftFields DEF DraftOf
  <2> HIDE DEF wage
  <2>7. ComputePF(wage, d.cap, d.cfg).epf \in Nat
    BY <2>5, <2>6, PensionLeaves
  <2>8. \A i \in DOMAIN EmployerContributions(d, earnings) :
          EmployerContributions(d, earnings)[i].amount \in Nat \cup {ComputePF(wage, d.cap, d.cfg).epf}
    BY <2>2, <2>3, EmployerKind DEF wage
  <2> QED BY <2>4, <2>7, <2>8
<1> QED BY <1>1, SlipIsComputed, PTL

\* Every payslip is made of lines of their types, none of them negative but those the
\* employer contributes, and of the sums of them, when no structure has a negative line.
THEOREM SlipsAreTyped ==
  (\A d \in Drafts : NotNegative(d)) => (Spec => []TypeOK)
<1> SUFFICES ASSUME \A d \in Drafts : NotNegative(d) PROVE Spec => []TypeOK
  OBVIOUS
<1>1. SlipInv => TypeOK
  <2> SUFFICES ASSUME SlipInv, Computed PROVE TypeOK
    BY DEF TypeOK, SlipInv, Computed
  <2> DEFINE d == Effective(draft)
  <2>1. PICK lost \in SUBSET DOMAIN d.components : slip = Payslip(d, lost)
    BY DEF SlipInv
  <2>2. DraftOf(Nat, d) /\ Valid(d) /\ Kind(Nat)
    BY DraftSane DEF SlipInv, Kind
  <2> HIDE DEF d
  <2>3. /\ slip.earnings \in EntriesOf(Nat) /\ slip.deductions \in EntriesOf(Nat)
        /\ slip.employer \in EntriesOf(Int) /\ slip.gross \in Nat
        /\ slip.totalDeductions \in Nat /\ slip.net = slip.gross - slip.totalDeductions
    BY <2>1, <2>2, SlipKind
  <2>4. slip = [earnings |-> slip.earnings, deductions |-> slip.deductions,
                employer |-> slip.employer, gross |-> slip.gross,
                totalDeductions |-> slip.totalDeductions, net |-> slip.net]
    BY <2>1 DEF Payslip, Assemble
  <2>5. slip.net \in Int
    BY <2>3
  <2> QED BY <2>3, <2>4, <2>5 DEF TypeOK, Slip, Entries, EntriesOf, SlipInv
<1> QED BY <1>1, SlipIsComputed, PTL

-----------------------------------------------------------------------------
(***************************************************************************)
(* Lost days.                                                              *)
(***************************************************************************)
LEMMA Remains ==
  ASSUME NEW D \in Nat, D > 0, NEW m \in Int, NEW q \in Int, NEW x \in Int,
         m = D * q + x, 0 <= x, x < D
  PROVE  m \div D = q /\ m % D = x
<1>1. m = D * (m \div D) + (m % D) /\ m % D \in 0..(D - 1) /\ m \div D \in Int
  OBVIOUS
<1>2. PICK k \in Int : k = m \div D
  BY <1>1
<1>3. D * (q - k) = (m % D) - x
  BY <1>1, <1>2
<1>4. q = k
  <2>1. CASE q - k >= 1
    <3>1. PICK j \in Nat : q - k = 1 + j
      <4>1. q - k - 1 \in Nat /\ q - k = 1 + (q - k - 1)
        BY <2>1
      <4> QED BY <4>1
    <3>2. D * (q - k) = D + D * j /\ D * j \in Nat
      BY <3>1
    <3> QED BY <1>1, <1>3, <3>2
  <2>2. CASE k - q >= 1
    <3>1. PICK j \in Nat : k - q = 1 + j
      <4>1. k - q - 1 \in Nat /\ k - q = 1 + (k - q - 1)
        BY <2>2
      <4> QED BY <4>1
    <3>2. D * (q - k) = -(D + D * j) /\ D * j \in Nat
      BY <3>1
    <3> QED BY <1>1, <1>3, <3>2
  <2> QED BY <2>1, <2>2
<1> QED BY <1>1, <1>2, <1>4

\* The half of a paisa that a factor may lose is never more than a half day costs.
LEMMA ProrateFalls ==
  ASSUME NEW amount \in Nat, NEW d, NEW e, d.days \in Nat, d.days > 0, e.days = d.days,
         d.lop \in Nat, d.lop < 2 * d.days, e.lop = d.lop + 1,
         NEW loses \in BOOLEAN, NEW lost \in BOOLEAN
  PROVE  Prorate(amount, e, lost) <= Prorate(amount, d, loses)
<1> DEFINE days == d.days
           W == 2 * days
           paid == W - d.lop
           n == amount * paid
           less == amount * (paid - 1)
<1>0. d.lop \in Nat /\ days \in Nat /\ days > 0 /\ W = 2 * days /\ W \in Nat /\ W > 0
      /\ d.lop < W /\ W - e.lop = paid - 1 /\ paid \in Nat /\ paid > 0 /\ W - d.lop = paid
      /\ W \div 2 = days
  OBVIOUS
<1>1. Prorate(amount, e, lost) \in {RoundDown(less, W), RoundHalfUp(less, W)}
  BY <1>0 DEF Prorate
<1>2. n = less + amount
  BY <1>0
<1>3. less \in Nat /\ n \in Nat
  <2>1. paid - 1 \in Nat
    BY <1>0
  <2> QED BY <1>0, <2>1
<1>4. Prorate(amount, e, lost) <= RoundHalfUp(less, W) /\ RoundHalfUp(less, W) \in Nat
      /\ Prorate(amount, e, lost) \in Nat
  <2> HIDE DEF W, less, paid, n, days
  <2>1. RoundHalfUp(less, W) = (less + days) \div W /\ RoundDown(less, W) = less \div W
    BY <1>0, <1>3 DEF RoundHalfUp, RoundDown
  <2>2. less \div W <= (less + days) \div W /\ less \div W \in Nat
        /\ (less + days) \div W \in Nat
    BY <1>0, <1>3
  <2> QED BY <1>1, <2>1, <2>2
<1>5. CASE d.lop = 0
  <2>1. Prorate(amount, d, loses) = amount
    BY <1>5 DEF Prorate
  <2>2. paid = W
    BY <1>0, <1>5
  <2> HIDE DEF W, less, paid, n, days
  <2>3. n = amount * W
    BY <1>0, <2>2 DEF n
  <2>4. less = W * amount - amount
    BY <1>0, <1>2, <1>3, <2>3
  <2>5. (less + days) \div W <= amount
    <3>1. PICK q \in Int, r \in Int : q = (less + days) \div W /\ less + days = W * q + r
                                      /\ 0 <= r /\ r < W
      BY <1>0, <1>3
    <3>2. W * q < W * (amount + 1)
      <4>1. W * (amount + 1) = W * amount + W /\ W * amount \in Int /\ W * q \in Int
        BY <1>0
      <4> QED BY <1>0, <2>4, <3>1, <4>1
    <3>3. ~(q >= amount + 1)
      <4>1. ASSUME q >= amount + 1 PROVE W * q >= W * (amount + 1)
        <5>1. PICK k \in Nat : q = amount + 1 + k
          <6>1. q - (amount + 1) \in Nat /\ q = amount + 1 + (q - (amount + 1))
            BY <3>1, <4>1
          <6> QED BY <6>1
        <5>2. W * q = W * (amount + 1) + W * k /\ W * k \in Nat
          BY <1>0, <5>1
        <5> QED BY <1>0, <5>2
      <4> QED BY <1>0, <3>1, <3>2, <4>1
    <3> QED BY <3>1, <3>3
  <2>6. RoundHalfUp(less, W) = (less + days) \div W
    BY <1>0, <1>3 DEF RoundHalfUp, RoundDown
  <2> QED BY <1>4, <2>1, <2>5, <2>6
<1>6. CASE d.lop # 0
  <2> DEFINE tie == (2 * n) % (4 * days) = 2 * days
  <2> DEFINE low == RoundDown(n, W)
             near == RoundHalfUp(n, W)
  <2>0. Prorate(amount, d, loses) =
          IF d.lop = 0 THEN amount ELSE IF loses /\ tie /\ ~Terminates(d) THEN low ELSE near
    BY Zenon DEF Prorate
  <2> HIDE DEF low, near, tie
  <2>1. Prorate(amount, d, loses) = near \/ (tie /\ Prorate(amount, d, loses) = low)
    BY <1>6, <2>0, Zenon
  <2> USE DEF low, near, tie
  <2> HIDE DEF W, less, paid, n, days
  <2>2. RoundHalfUp(less, W) <= RoundHalfUp(n, W) /\ RoundHalfUp(n, W) \in Nat
    <3>1. less <= n
      BY <1>2, <1>3
    <3>2. RoundHalfUp(n, W) \in Nat
      BY <1>0, <1>3 DEF RoundHalfUp, RoundDown
    <3> QED BY <1>0, <1>3, <3>1, <3>2, RoundingRises
  <2>3. ASSUME tie PROVE RoundHalfUp(less, W) <= low /\ low \in Nat
    <3>1. PICK q \in Int, r \in Int : q = n \div W /\ n = W * q + r /\ 0 <= r /\ r < W
      BY <1>0, <1>3
    <3>2. r = days
      <4>1. (2 * n) % (4 * days) = 2 * r
        <5>1. 2 * n = (4 * days) * q + 2 * r
          <6>1. W * q = 2 * (days * q) /\ (4 * days) * q = 4 * (days * q) /\ days * q \in Int
            BY <1>0, <3>1
          <6> QED BY <3>1, <6>1
        <5>2. 0 <= 2 * r /\ 2 * r < 4 * days
          BY <1>0, <3>1
        <5>3. PICK D \in Nat, m \in Nat, x \in Int : D = 4 * days /\ m = 2 * n /\ x = 2 * r /\ D > 0
          BY <1>0, <1>3, <3>1
        <5>4. m = D * q + x /\ 0 <= x /\ x < D
          BY <5>1, <5>2, <5>3
        <5>5. m % D = x
          <6>1. m \in Int /\ D > 0
            BY <5>3
          <6> QED BY <5>4, <6>1, Remains, Zenon
        <5> QED BY <5>3, <5>5
      <4> QED BY <1>0, <2>3, <3>1, <4>1
    <3>3. less <= n - 1
      <4>1. amount # 0
        <5>1. ASSUME amount = 0 PROVE FALSE
          <6>1. n = 0
            BY <1>0, <5>1 DEF n
          <6>2. W * q = -days /\ q \in Int
            <7>1. W * q \in Int /\ q \in Int
              BY <1>0, <3>1
            <7>2. 0 = W * q + r
              BY <3>1, <6>1, Zenon
            <7> QED BY <1>0, <3>2, <7>1, <7>2
          <6>3. q >= 0 => W * q >= 0
            BY <1>0, <3>1
          <6>4. q <= -1 => W * q <= -W
            <7>1. ASSUME q <= -1 PROVE W * q <= -W
              <8>1. PICK k \in Nat : q = -1 - k
                <9>1. -1 - q \in Nat /\ q = -1 - (-1 - q)
                  BY <3>1, <7>1
                <9> QED BY <9>1
              <8>2. W * q = -W - W * k /\ W * k \in Nat
                BY <1>0, <8>1
              <8> QED BY <1>0, <8>2
            <7> QED BY <7>1
          <6> QED BY <1>0, <3>1, <6>2, <6>3, <6>4
        <5> QED BY <5>1
      <4> QED BY <1>2, <1>3, <4>1
    <3>4. (n - 1 + days) \div W = q
      <4>1. n - 1 + days = W * q + (W - 1) /\ W - 1 \in Int /\ 0 <= W - 1 /\ W - 1 < W
        BY <1>0, <3>1, <3>2
      <4>2. PICK m \in Int, x \in Int : m = n - 1 + days /\ x = W - 1
        BY <1>0, <1>3
      <4>3. m = W * q + x /\ 0 <= x /\ x < W
        BY <4>1, <4>2
      <4>4. m \div W = q
        BY <1>0, <3>1, <4>2, <4>3
      <4> QED BY <4>2, <4>4
    <3>5. RoundHalfUp(less, W) <= RoundHalfUp(n - 1, W)
      BY <1>0, <1>3, <3>3, RoundingRises
    <3>6. RoundHalfUp(n - 1, W) = q
      <4>1. n - 1 \in Nat
        BY <1>3, <3>3
      <4> QED BY <1>0, <3>4, <4>1 DEF RoundHalfUp, RoundDown
    <3>7. n \div W \in Nat /\ low = n \div W
      BY <1>0, <1>3 DEF RoundDown
    <3> QED BY <3>1, <3>5, <3>6, <3>7
  <2> HIDE DEF tie
  <2> QED BY <1>4, <2>1, <2>2, <2>3
<1> QED BY <1>5, <1>6

LEMMA ProrateNothing ==
  ASSUME NEW amount \in Nat, NEW d, d.days \in Nat, d.days > 0, d.lop = 2 * d.days, NEW loses
  PROVE  Prorate(amount, d, loses) = 0
<1> DEFINE W == 2 * d.days
           n == amount * (W - d.lop)
<1>1. n = 0 /\ d.lop # 0 /\ W \in Nat /\ W > 0
  BY ONLY amount \in Nat, d.days \in Nat, d.days > 0, d.lop = 2 * d.days
<1>2. (2 * n) % (4 * d.days) # 2 * d.days
  <2>1. PICK D \in Nat : D = 4 * d.days /\ D > 0
    OBVIOUS
  <2>2. 0 % D = 0
    BY <2>1
  <2> QED BY <1>1, <2>1, <2>2
<1>3. Prorate(amount, d, loses) = RoundHalfUp(n, W)
  BY <1>1, <1>2 DEF Prorate
<1>4. RoundHalfUp(0, W) = 0
  <2>1. PICK days \in Nat : days = d.days /\ days > 0
    OBVIOUS
  <2>2. (0 + (2 * days) \div 2) \div (2 * days) = 0
    BY <2>1
  <2> QED BY <2>1, <2>2 DEF RoundHalfUp, RoundDown
<1> QED BY <1>1, <1>3, <1>4, Zenon

LEMMA LoseMore ==
  ASSUME NEW N, Kind(N), NEW d, DraftOf(N, d), NEW x \in Nat, NEW e, e = [d EXCEPT !.lop = x]
  PROVE  /\ DraftOf(N, e) /\ e.lop = x /\ e.days = d.days /\ e.freq = d.freq /\ e.ctc = d.ctc
         /\ e.components = d.components /\ e.adjustments = d.adjustments
<1>1. d \in Draft
  BY DEF DraftOf
<1>2. e \in Draft
  BY <1>1, DraftExcept
<1>3. /\ e.lop = x /\ e.days = d.days /\ e.freq = d.freq /\ e.ctc = d.ctc
      /\ e.components = d.components /\ e.adjustments = d.adjustments
      /\ e.deductions = d.deductions /\ e.pfCodes = d.pfCodes
  BY <1>1 DEF Draft
<1>4. NotNegative(d) => NotNegative(e)
  BY <1>3 DEF NotNegative
<1> QED BY <1>2, <1>3, <1>4 DEF DraftOf

\* Losing another half day never raises the gross, and a whole period lost pays nothing but
\* the adjustments, when no line of the structures is negative.
THEOREM LossStaysLoss ==
  (\A d \in Drafts : NotNegative(d)) => (Spec => []LossNeverPays)
<1> SUFFICES ASSUME \A d \in Drafts : NotNegative(d) PROVE Spec => []LossNeverPays
  OBVIOUS
<1>1. SlipInv => LossNeverPays
  <2> SUFFICES ASSUME SlipInv, Computed PROVE LossNeverPays
    BY DEF LossNeverPays
  <2> DEFINE d == Effective(draft)
             n == Len(d.components)
             raw == RawEarnings(d)
  <2>1. PICK lost \in SUBSET DOMAIN d.components : slip = Payslip(d, lost)
    BY DEF SlipInv
  <2>2. DraftOf(Nat, d) /\ Valid(d) /\ Kind(Nat)
    BY DraftSane DEF SlipInv, Kind
  <2> HIDE DEF d
  <2>3. d.lop \in Nat /\ d.days \in Nat /\ d.days > 0
    BY <2>2, DraftFields DEF DraftOf
  <2>4. n \in Nat
    <3>1. d.components \in Seq(LineOf(Nat))
      BY <2>2, DraftKind
    <3> QED BY <3>1
  <2>5. \A i \in 1..n : raw[i].amount \in Nat
    BY <2>2, RawKind, EntryAt
  <2> HIDE DEF n, raw
  <2>6. /\ Earnings(d, lost) \in EntriesOf(Nat)
        /\ Len(Earnings(d, lost)) = n /\ DOMAIN Earnings(d, lost) = 1..n
        /\ \A i \in 1..n : Earnings(d, lost)[i].amount = Prorate(raw[i].amount, d, i \in lost)
    BY <2>2, EarningsKind DEF n, raw
  <2>7. Counted(Earnings(d, lost)) /\ Sum(Earnings(d, lost)) \in Nat
    BY <2>2, <2>6, EntryCounted
  <2>8. slip.gross = Sum(Earnings(d, lost)) + Sum(Adjustments(d, "EARNING"))
        /\ Sum(Adjustments(d, "EARNING")) \in Nat
    BY <2>1, <2>2, SlipKind, AdjustmentsKind
  <2>9. ASSUME d.lop < 2 * d.days, NEW other \in SUBSET DOMAIN d.components
        PROVE  Payslip([d EXCEPT !.lop = @ + 1], other).gross <= slip.gross
    <3>1. PICK e : e = [d EXCEPT !.lop = d.lop + 1]
      OBVIOUS
    <3>2. d.lop + 1 \in Nat
      BY <2>3
    <3>3. /\ DraftOf(Nat, e) /\ e.lop = d.lop + 1 /\ e.days = d.days /\ e.freq = d.freq
          /\ e.ctc = d.ctc /\ e.components = d.components /\ e.adjustments = d.adjustments
      BY <2>2, <3>1, <3>2, LoseMore
    <3>4. Valid(e)
      BY <2>3, <2>9, <3>3 DEF Valid
    <3>5. RawEarnings(e) = raw
      BY <3>3, RawAlike DEF raw
    <3>6. /\ Earnings(e, other) \in EntriesOf(Nat)
          /\ Len(Earnings(e, other)) = n /\ DOMAIN Earnings(e, other) = 1..n
          /\ \A i \in 1..n : Earnings(e, other)[i].amount = Prorate(raw[i].amount, e, i \in other)
      BY <2>2, <3>3, <3>4, <3>5, EarningsKind DEF n
    <3>7. Counted(Earnings(e, other)) /\ Sum(Earnings(e, other)) \in Nat
      BY <2>2, <3>6, EntryCounted
    <3>8. ASSUME NEW i \in 1..n
          PROVE  Earnings(e, other)[i].amount <= Earnings(d, lost)[i].amount
      <4>1. PICK loses \in BOOLEAN : loses <=> i \in lost
        OBVIOUS
      <4>2. PICK drops \in BOOLEAN : drops <=> i \in other
        OBVIOUS
      <4>3. Prorate(raw[i].amount, e, drops) <= Prorate(raw[i].amount, d, loses)
        BY <2>3, <2>5, <2>9, <3>3, ProrateFalls
      <4>4. Prorate(raw[i].amount, e, drops) = Prorate(raw[i].amount, e, i \in other)
        BY <4>2 DEF Prorate
      <4>5. Prorate(raw[i].amount, d, loses) = Prorate(raw[i].amount, d, i \in lost)
        BY <4>1 DEF Prorate
      <4> QED BY <2>6, <3>6, <4>3, <4>4, <4>5
    <3>9. Sum(Earnings(e, other)) <= Sum(Earnings(d, lost))
      BY <2>6, <2>7, <3>6, <3>7, <3>8, SumNotMore
    <3>10. Payslip(e, other).gross = Sum(Earnings(e, other)) + Sum(Adjustments(e, "EARNING"))
      BY <2>2, <3>3, <3>4, SlipKind
    <3>11. Adjustments(e, "EARNING") = Adjustments(d, "EARNING")
      BY <3>3 DEF Adjustments
    <3>12. Payslip(e, other).gross <= slip.gross
      BY <2>7, <2>8, <3>7, <3>9, <3>10, <3>11
    <3>13. e = [d EXCEPT !.lop = @ + 1]
      BY <3>1
    <3> QED BY <3>12, <3>13
  <2>10. ASSUME d.lop = 2 * d.days PROVE slip.gross = Sum(Adjustments(d, "EARNING"))
    <3>1. \A i \in 1..n : Earnings(d, lost)[i].amount = 0
      BY <2>3, <2>5, <2>6, <2>10, ProrateNothing
    <3>2. Sum(Earnings(d, lost)) = n * 0
      BY <2>4, <2>6, <3>1, SumConstant
    <3> QED BY <2>4, <2>8, <3>2
  <2> QED BY <2>9, <2>10 DEF LossNeverPays, d
<1> QED BY <1>1, SlipIsComputed, PTL

-----------------------------------------------------------------------------
(***************************************************************************)
(* Balance lines.                                                          *)
(***************************************************************************)
\* What n equal parts miss by rounding, whole again.
LEMMA PartsMiss ==
  ASSUME NEW remainder \in Nat, NEW n \in Nat, n > 0,
         NEW missed \in Int, missed = n * RoundHalfUp(remainder, n) - remainder
  PROVE  2 * missed <= n /\ -n <= 2 * missed
<1>1. PICK half \in Nat : half = n \div 2 /\ 2 * half <= n /\ n - 1 <= 2 * half
  OBVIOUS
<1>2. PICK m \in Nat : m = remainder + half
  BY <1>1
<1>3. PICK q \in Int, r \in Int : q = m \div n /\ m = n * q + r /\ 0 <= r /\ r < n
  <2>1. m = n * (m \div n) + (m % n) /\ m % n \in 0..(n - 1) /\ m \div n \in Int
    OBVIOUS
  <2> QED BY <2>1
<1>4. RoundHalfUp(remainder, n) = q
  BY <1>1, <1>2, <1>3 DEF RoundHalfUp, RoundDown
<1>5. PICK p \in Int : p = n * q
  BY <1>3
<1>6. missed = half - r
  BY <1>2, <1>3, <1>4, <1>5
<1> QED BY <1>1, <1>3, <1>6

\* When nothing is lost, one balance line brings the gross to the cost of the period, unless
\* the other lines exceed it; n lines do so up to n halves of a paisa.
THEOREM BalanceReachesCTC == Spec => []BalanceFillsCTC
<1>1. SlipInv => BalanceFillsCTC
  <2> SUFFICES ASSUME SlipInv, Computed PROVE BalanceFillsCTC
    BY DEF BalanceFillsCTC
  <2> DEFINE d == Effective(draft)
             n == Len(Balances(d))
             size == Len(d.components)
             raw == RawEarnings(d)
             other == OtherEarnings(d)
             shares == Shares(d, other)
             adjusted == Sum(Adjustments(d, "EARNING"))
             shown == SubSeq(slip.earnings, 1, size - n)
             remainder == Remainder(d, other)
             cost == PeriodCTC(d)
  <2>1. PICK lost \in SUBSET DOMAIN d.components : slip = Payslip(d, lost)
    BY DEF SlipInv
  <2>2. DraftOf(Int, d) /\ Valid(d) /\ Kind(Int)
    BY DraftSane DEF SlipInv, Kind
  <2> SUFFICES ASSUME n > 0, d.lop = 0
               PROVE  LET missed == (slip.gross - adjusted) - Greatest(Sum(shown), cost)
                      IN  2 * Greatest(missed, -missed) <= n
    BY Zenon DEF BalanceFillsCTC
  <2> HIDE DEF d
  <2> DEFINE earnings == Earnings(d, lost)
             bonus == AsEntries(Adjustments(d, "EARNING"))
  <2>3. /\ n \in Nat /\ size \in Nat /\ Len(Others(d)) \in Nat /\ n + Len(Others(d)) = size
    <3>1. d.components \in Seq(LineOf(Int))
      BY <2>2, DraftKind
    <3>2. size \in Nat
      BY <3>1
    <3> QED BY <3>1, <3>2, BalancesAndOthers
  <2>4. /\ raw \in EntriesOf(Int) /\ Len(raw) = size /\ raw = other \o shares
        /\ other \in EntriesOf(Int) /\ Len(other) = Len(Others(d))
    BY <2>2, RawKind, OthersKind, RawIs
  <2>5. remainder \in Nat /\ remainder = Greatest(0, cost - Sum(other)) /\ cost \in Int
    BY <2>2, <2>4, RemainderNat, PeriodKind DEF Remainder
  <2>6. /\ shares \in EntriesOf(Int) /\ Len(shares) = n /\ DOMAIN shares = 1..n
        /\ \A i \in 1..n : shares[i].amount = RoundHalfUp(remainder, n)
    BY <2>2, <2>4, SharesKind DEF BalanceShare
  <2>7. /\ earnings \in EntriesOf(Int) /\ Len(earnings) = size /\ DOMAIN earnings = 1..size
        /\ \A i \in 1..size : earnings[i].amount = Prorate(raw[i].amount, d, i \in lost)
    BY <2>2, EarningsKind
  <2>8. /\ slip.earnings = earnings \o bonus
        /\ slip.gross = Sum(earnings) + adjusted /\ adjusted \in Nat
        /\ bonus \in EntriesOf(Int)
    BY <2>1, <2>2, SlipIs, SlipKind, AdjustmentsKind
  <2> DEFINE k == Len(Others(d))
  <2> HIDE DEF n, size, raw, other, shares, earnings, bonus, adjusted, remainder, cost, k
  <2>9. k \in Nat /\ n + k = size /\ Len(other) = k /\ size - n = k
    BY <2>3, <2>4 DEF k
  <2>10. /\ Counted(raw) /\ Counted(other) /\ Counted(shares) /\ Counted(earnings)
         /\ Sum(raw) \in Int /\ Sum(other) \in Int /\ Sum(shares) \in Int /\ Sum(earnings) \in Int
    BY <2>2, <2>4, <2>6, <2>7, EntryCounted
  <2>11. \A i \in 1..size : earnings[i].amount = raw[i].amount
    BY <2>7 DEF Prorate
  <2>12. DOMAIN raw = 1..size /\ DOMAIN other = 1..k
    BY <2>4, <2>9, <2>10 DEF Counted
  <2>13. Sum(raw) = Sum(earnings)
    BY <2>4, <2>7, <2>10, <2>11, <2>12, SumSame
  <2>14. Sum(raw) = Sum(other) + Sum(shares)
    BY <2>4, <2>6, <2>10, SumConcat DEF EntriesOf
  <2>15. RoundHalfUp(remainder, n) \in Int
    BY <2>3, <2>5 DEF RoundHalfUp, RoundDown
  <2>16. Sum(shares) = n * RoundHalfUp(remainder, n)
    BY <2>3, <2>6, <2>15, SumConstant
  <2>17. Sum(shown) = Sum(other)
    <3> DEFINE R == [code: STRING, amount: Int]
    <3>1. earnings \in Seq(R) /\ bonus \in Seq(R) /\ other \in Seq(R) /\ shares \in Seq(R)
      BY <2>4, <2>6, <2>7, <2>8 DEF EntriesOf
    <3> HIDE DEF R
    <3>2. PICK all : all = earnings \o bonus
      OBVIOUS
    <3>3. /\ all \in Seq(R) /\ Len(all) = size + Len(bonus) /\ Len(bonus) \in Nat
          /\ \A i \in 1..size : all[i] = earnings[i]
      BY <2>7, <3>1, <3>2, ConcatProperties
    <3>4. k <= Len(all) /\ Len(all) \in Nat /\ k <= size
      BY <2>3, <2>9, <3>3
    <3>5. /\ SubSeq(all, 1, k) \in Seq(R) /\ Len(SubSeq(all, 1, k)) = k
          /\ \A i \in 1..k : SubSeq(all, 1, k)[i] = all[i]
      <4>1. SubSeq(all, 1, k) = [i \in 1..k |-> all[i]]
        BY <2>9, <3>3, <3>4
      <4>2. \A i \in 1..k : all[i] \in R
        BY <2>9, <3>3, <3>4
      <4> QED BY <2>9, <4>1, <4>2
    <3>6. PICK part : part = SubSeq(all, 1, k)
      OBVIOUS
    <3>7. shown = part
      BY <2>8, <2>9, <3>2, <3>6
    <3>8. Len(part) = k /\ DOMAIN part = 1..k
      BY <2>9, <3>5, <3>6
    <3>9. \A i \in 1..k : part[i].amount = other[i].amount
      <4>1. \A i \in 1..k : raw[i] = other[i]
        BY <2>4, <2>9, <3>1, ConcatProperties
      <4>2. \A i \in 1..k : i \in 1..size
        BY <2>3, <2>9
      <4> QED BY <2>11, <3>3, <3>5, <3>6, <4>1, <4>2
    <3> HIDE DEF shown
    <3> QED BY <2>9, <2>10, <2>12, <3>7, <3>8, <3>9, SumSame
  <2> HIDE DEF shown
  <2> DEFINE missed == (slip.gross - adjusted) - Greatest(Sum(shown), cost)
  <2>18. PICK o \in Int : o = Sum(other)
    BY <2>10
  <2>19. PICK part \in Int : part = n * RoundHalfUp(remainder, n)
    BY <2>3, <2>15
  <2>20. slip.gross - adjusted = o + part
    BY <2>8, <2>10, <2>13, <2>14, <2>16, <2>18, <2>19
  <2>21. Greatest(Sum(shown), cost) = o + remainder
    BY <2>5, <2>17, <2>18 DEF Greatest
  <2>22. missed \in Int /\ missed = n * RoundHalfUp(remainder, n) - remainder
    BY <2>5, <2>18, <2>19, <2>20, <2>21
  <2> HIDE DEF missed
  <2>23. 2 * missed <= n /\ -n <= 2 * missed
    BY <2>3, <2>5, <2>22, PartsMiss
  <2>24. 2 * Greatest(missed, -missed) <= n
    BY <2>3, <2>22, <2>23 DEF Greatest
  <2> QED BY <2>24 DEF missed
<1> QED BY <1>1, SlipIsComputed, PTL

-----------------------------------------------------------------------------
(***************************************************************************)
(* The preview.                                                            *)
(***************************************************************************)
LEMMA PreviewedFields ==
  ASSUME NEW d \in Draft, NEW named \in BOOLEAN
  PROVE  LET e == Previewed(d, named)
         IN  /\ e \in Draft /\ e.days = 30 /\ e.lop = Least(d.lop, 2 * 30)
             /\ e.adjustments = <<>> /\ e.state = IF named THEN d.state ELSE Omitted
             /\ e.profile = IF named /\ d.tds THEN d.profile ELSE Undeclared
             /\ e.freq = d.freq /\ e.ctc = d.ctc /\ e.components = d.components
             /\ e.deductions = d.deductions /\ e.pf = d.pf /\ e.pfCodes = d.pfCodes
             /\ e.cap = d.cap /\ e.esi = d.esi /\ e.pt = d.pt /\ e.tds = d.tds /\ e.cfg = d.cfg
<1> DEFINE least == Least(d.lop, 2 * 30)
           state == IF named THEN d.state ELSE Omitted
           profile == IF named /\ d.tds THEN d.profile ELSE Undeclared
           empty == <<>>
           month == 30
           e == Previewed(d, named)
<1>1. least \in Nat /\ month \in Nat \ {0}
  BY DraftFields DEF Least
<1>2. state \in {Omitted} \cup STRING /\ empty \in Seq(AdjustmentOf)
  BY DEF Draft
<1>3. profile \in Profiles
  <2>1. Undeclared \in Profiles
    BY DEF Undeclared, Profiles, Regimes
  <2> QED BY <2>1, DraftFields
<1>4. e = [d EXCEPT !.days = month, !.lop = least, !.adjustments = empty, !.state = state,
                    !.profile = profile]
  <2>1. d.days \in Nat
    BY DraftFields
  <2> HIDE DEF Least, Undeclared
  <2> QED BY DEF Previewed, Draft
<1>5. month = 30 /\ empty = <<>>
  OBVIOUS
<1> HIDE DEF e, least, state, profile, empty, month
<1>6. PICK a \in Draft : a = [d EXCEPT !.days = month]
  BY <1>1, DraftExcept
<1>7. PICK b \in Draft : b = [a EXCEPT !.lop = least]
  BY <1>1, DraftExcept
<1>8. PICK c \in Draft : c = [b EXCEPT !.adjustments = empty]
  BY <1>2, DraftExcept
<1>9. PICK f \in Draft : f = [c EXCEPT !.state = state]
  BY <1>2, DraftExcept
<1>10. e = [f EXCEPT !.profile = profile]
  BY <1>4, <1>6, <1>7, <1>8, <1>9
<1>11. e \in Draft
  BY <1>3, <1>10, DraftExcept
<1> DEFINE Alike(x, y) ==
      /\ x.freq = y.freq /\ x.ctc = y.ctc /\ x.components = y.components
      /\ x.deductions = y.deductions /\ x.pf = y.pf /\ x.pfCodes = y.pfCodes
      /\ x.cap = y.cap /\ x.esi = y.esi /\ x.pt = y.pt /\ x.tds = y.tds /\ x.cfg = y.cfg
<1>12. Alike(a, d) /\ a.days = month
  BY <1>6 DEF Draft
<1>13. Alike(b, a) /\ b.days = a.days /\ b.lop = least
  BY <1>7 DEF Draft
<1>14. Alike(c, b) /\ c.days = b.days /\ c.lop = b.lop /\ c.adjustments = empty
  BY <1>8 DEF Draft
<1>15. Alike(f, c) /\ f.days = c.days /\ f.lop = c.lop /\ f.adjustments = c.adjustments
       /\ f.state = state
  BY <1>9 DEF Draft
<1>16. Alike(e, f) /\ e.days = f.days /\ e.lop = f.lop /\ e.adjustments = f.adjustments
       /\ e.state = f.state /\ e.profile = profile
  BY <1>10 DEF Draft
<1>17. Alike(e, d)
  BY <1>12, <1>13, <1>14, <1>15, <1>16
<1> HIDE DEF Alike
<1>18. e.days = month /\ e.lop = least /\ e.adjustments = empty /\ e.state = state
       /\ e.profile = profile
  BY <1>12, <1>13, <1>14, <1>15, <1>16
<1> QED BY <1>5, <1>11, <1>17, <1>18, Zenon DEF Alike, e, least, state, profile

\* What the preview takes of the earnings that the run takes too: all but the taxes, which
\* depend on the employee.
LEMMA LeviesAlike ==
  ASSUME NEW d, NEW e, e.freq = d.freq, e.ctc = d.ctc, e.components = d.components,
         e.deductions = d.deductions, e.pf = d.pf, e.pfCodes = d.pfCodes, e.cap = d.cap,
         e.esi = d.esi, e.pt = d.pt, e.tds = d.tds, e.cfg = d.cfg, NEW earnings
  PROVE  /\ OwnDeductions(e, earnings) = OwnDeductions(d, earnings)
         /\ Levies(e, earnings) = Levies(d, earnings)
         /\ EmployerContributions(e, earnings) = EmployerContributions(d, earnings)
         /\ e.state = d.state => PTLines(e, earnings) = PTLines(d, earnings)
         /\ (d.tds => e.profile = d.profile) => TDSLines(e) = TDSLines(d)
<1>1. RawEarnings(e) = RawEarnings(d) /\ CTCOnly(e) = CTCOnly(d)
  BY RawAlike
<1>2. OwnDeductions(e, earnings) = OwnDeductions(d, earnings)
  BY <1>1 DEF OwnDeductions
<1>3. AnnualGross(e) = AnnualGross(d)
  BY <1>1 DEF AnnualGross
<1>4. PFWage(e, earnings) = PFWage(d, earnings)
  BY Zenon DEF PFWage
<1>5. Levies(e, earnings) = Levies(d, earnings)
  BY <1>4, Zenon DEF Levies
<1>6. EmployerContributions(e, earnings) = EmployerContributions(d, earnings)
  BY <1>4, Zenon DEF EmployerContributions
<1>7. e.state = d.state => PTLines(e, earnings) = PTLines(d, earnings)
  BY Zenon DEF PTLines
<1>8. ASSUME d.tds => e.profile = d.profile PROVE TDSLines(e) = TDSLines(d)
  <2>1. CASE d.tds
    BY <1>3, <1>8, <2>1, Zenon DEF TDSLines
  <2>2. CASE ~d.tds
    BY <2>2 DEF TDSLines, If
  <2> QED BY <2>1, <2>2
<1> QED BY <1>2, <1>5, <1>6, <1>7, <1>8

\* Without the taxes, the deductions are what is left of the others.
LEMMA Untaxed ==
  ASSUME NEW d, DraftOf(Int, d), NEW earnings \in EntriesOf(Int), NEW S,
         \A l : l.code \in {"PT", "TDS"} => l \notin S
  PROVE  Kept(Charged(d, earnings), S)
           = Kept(OwnDeductions(d, earnings), S) \o Kept(Levies(d, earnings), S)
<1> DEFINE R == [code: STRING, amount: Int]
           own == OwnDeductions(d, earnings)
           levies == Levies(d, earnings)
           pt == PTLines(d, earnings)
           tds == TDSLines(d)
<1>1. own \in Seq(R) /\ levies \in Seq(R) /\ pt \in Seq(R) /\ tds \in Seq(R)
  BY DeductionsKind DEF Kind, EntriesOf
<1>2. Charged(d, earnings) = own \o ((levies \o pt) \o tds)
  BY LeviesAndTaxes DEF Charged
<1>3. \A i \in DOMAIN pt : pt[i] \notin S
  <2>1. CASE pt = <<>>
    BY <2>1
  <2>2. CASE pt # <<>>
    <3>1. pt = <<Entry("PT", ComputePT(d.state, Sum(earnings)))>>
      BY <2>2 DEF PTLines, If
    <3> QED BY <3>1 DEF Entry
  <2> QED BY <2>1, <2>2
<1>4. \A i \in DOMAIN tds : tds[i] \notin S
  <2>1. CASE tds = <<>>
    BY <2>1
  <2>2. CASE tds # <<>>
    <3>1. tds = <<Entry("TDS", MonthlyTds(AnnualGross(d), d.profile, d.cfg))>>
      BY <2>2 DEF TDSLines, If
    <3> QED BY <3>1 DEF Entry
  <2> QED BY <2>1, <2>2
<1> HIDE DEF R, own, levies, pt, tds
<1>5. Kept(pt, S) = <<>> /\ Kept(tds, S) = <<>>
  BY <1>1, <1>3, <1>4, KeptNothing
<1>6. levies \o pt \in Seq(R) /\ (levies \o pt) \o tds \in Seq(R)
  BY <1>1, ConcatProperties
<1>13. \A f \in Seq(R), g \in Seq(R) : Kept(f \o g, S) = Kept(f, S) \o Kept(g, S)
  BY KeptConcat
<1>7. Kept(levies \o pt, S) = Kept(levies, S) \o <<>>
  BY <1>1, <1>5, <1>13, Zenon
<1>8. Kept((levies \o pt) \o tds, S) = Kept(levies \o pt, S) \o <<>>
  <2>1. PICK h \in Seq(R) : h = levies \o pt
    BY <1>6
  <2>2. Kept(h \o tds, S) = Kept(h, S) \o <<>>
    BY <1>1, <1>5, <1>13, <2>1, Zenon
  <2> QED BY <2>1, <2>2
<1>9. Kept(own \o ((levies \o pt) \o tds), S) = Kept(own, S) \o Kept((levies \o pt) \o tds, S)
  BY <1>1, <1>6, <1>13, Zenon
<1>10. Kept(levies, S) \in Seq(R)
  BY <1>1, KeptKind
<1>11. Kept(levies, S) \o <<>> = Kept(levies, S)
  BY <1>10, ConcatEmptySeq
<1>12. Kept((levies \o pt) \o tds, S) = Kept(levies, S)
  BY <1>7, <1>8, <1>11
<1> QED BY <1>2, <1>9, <1>12 DEF own, levies

\* A preview without adjustments, of as many days, shows the earnings of the run; the
\* same payslip for the employee, and the same but for the taxes for nobody in particular.
THEOREM PreviewShowsRun == Spec => []PreviewMatchesRun
<1>1. SlipInv => PreviewMatchesRun
  <2> SUFFICES ASSUME SlipInv PROVE PreviewMatchesRun
    OBVIOUS
  <2> DEFINE shown(named, lost) == Payslip(Previewed(draft, named), lost)
             taxless(l) == l.code \notin {"PT", "TDS"}
             untaxed(s) == Kept(s.deductions, {l \in Range(s.deductions) : taxless(l)})
  <2>1. draft \in Draft /\ DraftOf(Int, draft) /\ Kind(Int)
    BY DraftSane DEF SlipInv, DraftOf, Kind
  <2>2. \A named \in BOOLEAN : Valid(Previewed(draft, named))
    <3>1. draft.lop \in Nat
      BY <2>1, DraftFields
    <3> HIDE DEF Previewed
    <3> QED BY <2>1, <3>1, PreviewedFields DEF Valid, Least
  <2>3. ASSUME Computed, draft.freq # "HOURLY", draft.adjustments = <<>>,
               draft.lop = 0 \/ draft.days = 30
        PROVE  \E lost \in SUBSET DOMAIN draft.components :
                 /\ shown(TRUE, lost) = slip
                 /\ shown(FALSE, lost).earnings = slip.earnings
                 /\ untaxed(shown(FALSE, lost)) = untaxed(slip)
    <3>1. Effective(draft) = draft
      BY <2>3 DEF Effective
    <3>2. Valid(draft)
      BY <2>3, <3>1 DEF SlipInv
    <3>3. PICK lost \in SUBSET DOMAIN draft.components : slip = Payslip(draft, lost)
      BY <2>3, <3>1 DEF SlipInv
    <3> DEFINE d == draft
               earnings == Earnings(d, lost)
               own == OwnDeductions(d, earnings)
               S == {l \in [code: STRING, amount: Int] : taxless(l)}
    <3>4. earnings \in EntriesOf(Int) /\ Charged(d, earnings) \in EntriesOf(Int)
      BY <2>1, <3>2, SlipKind
    <3>5. ASSUME NEW named \in BOOLEAN
          PROVE  LET e == Previewed(d, named)
                 IN  /\ DraftOf(Int, e) /\ Earnings(e, lost) = earnings
                     /\ e.adjustments = <<>>
                     /\ OwnDeductions(e, earnings) = own
                     /\ Levies(e, earnings) = Levies(d, earnings)
                     /\ EmployerContributions(e, earnings) = EmployerContributions(d, earnings)
                     /\ named => StatutoryDeductions(e, earnings) = StatutoryDeductions(d, earnings)
      <4> DEFINE e == Previewed(d, named)
      <4>1. /\ e \in Draft /\ e.days = 30 /\ e.lop = Least(d.lop, 2 * 30)
            /\ e.adjustments = <<>> /\ e.state = (IF named THEN d.state ELSE Omitted)
            /\ e.profile = (IF named /\ d.tds THEN d.profile ELSE Undeclared)
            /\ e.freq = d.freq /\ e.ctc = d.ctc /\ e.components = d.components
            /\ e.deductions = d.deductions /\ e.pf = d.pf /\ e.pfCodes = d.pfCodes
            /\ e.cap = d.cap /\ e.esi = d.esi /\ e.pt = d.pt /\ e.tds = d.tds /\ e.cfg = d.cfg
        BY <2>1, PreviewedFields
      <4> HIDE DEF e
      <4>2. DraftOf(Int, e)
        <5>1. Int # Nat
          <6>1. -1 \in Int /\ -1 \notin Nat
            OBVIOUS
          <6> QED BY <6>1
        <5> QED BY <2>1, <4>1, <5>1 DEF DraftOf
      <4>3. e.lop = d.lop /\ (e.days = d.days \/ d.lop = 0)
        <5>1. d.lop \in Nat /\ d.days \in Nat
          BY <2>1, DraftFields
        <5> QED BY <2>3, <3>2, <4>1, <5>1 DEF Least, Valid
      <4>4. Earnings(e, lost) = earnings
        BY <4>1, <4>3, EarningsAlike
      <4> HIDE DEF earnings
      <4>5. /\ OwnDeductions(e, earnings) = own
            /\ Levies(e, earnings) = Levies(d, earnings)
            /\ EmployerContributions(e, earnings) = EmployerContributions(d, earnings)
            /\ e.state = d.state => PTLines(e, earnings) = PTLines(d, earnings)
            /\ (d.tds => e.profile = d.profile) => TDSLines(e) = TDSLines(d)
        BY <4>1, LeviesAlike
      <4>6. ASSUME named PROVE StatutoryDeductions(e, earnings) = StatutoryDeductions(d, earnings)
        <5>1. e.state = d.state /\ (d.tds => e.profile = d.profile)
          BY <4>1, <4>6
        <5> QED BY <4>5, <5>1, LeviesAndTaxes
      <4> QED BY <4>1, <4>2, <4>4, <4>5, <4>6 DEF e
    <3> HIDE DEF earnings
    <3>6. \A x, kind : x.adjustments = <<>> => AsEntries(Adjustments(x, kind)) = <<>>
      BY NoAdjustments
    <3>7. shown(TRUE, lost) = slip
      <4> DEFINE e == Previewed(d, TRUE)
      <4>1. /\ Earnings(e, lost) = earnings /\ e.adjustments = <<>> /\ OwnDeductions(e, earnings) = own
            /\ EmployerContributions(e, earnings) = EmployerContributions(d, earnings)
            /\ StatutoryDeductions(e, earnings) = StatutoryDeductions(d, earnings)
        BY <3>5
      <4> HIDE DEF e
      <4>2. /\ AsEntries(Adjustments(e, "EARNING")) = AsEntries(Adjustments(d, "EARNING"))
            /\ AsEntries(Adjustments(e, "DEDUCTION")) = AsEntries(Adjustments(d, "DEDUCTION"))
        BY <2>3, <3>6, <4>1
      <4>3. Payslip(e, lost) = Payslip(d, lost)
        <5>1. /\ Payslip(e, lost) =
                   Assemble(e, earnings \o AsEntries(Adjustments(e, "EARNING")),
                     OwnDeductions(e, earnings) \o StatutoryDeductions(e, earnings)
                       \o AsEntries(Adjustments(e, "DEDUCTION")),
                     EmployerContributions(e, earnings))
              /\ Payslip(d, lost) =
                   Assemble(d, earnings \o AsEntries(Adjustments(d, "EARNING")),
                     OwnDeductions(d, earnings) \o StatutoryDeductions(d, earnings)
                       \o AsEntries(Adjustments(d, "DEDUCTION")),
                     EmployerContributions(d, earnings))
          BY <4>1 DEF Payslip, earnings
        <5>2. \A f, g, h : Assemble(e, f, g, h) = Assemble(d, f, g, h)
          BY DEF Assemble
        <5> DEFINE f == earnings \o AsEntries(Adjustments(d, "EARNING"))
                   g == OwnDeductions(d, earnings) \o StatutoryDeductions(d, earnings)
                          \o AsEntries(Adjustments(d, "DEDUCTION"))
                   h == EmployerContributions(d, earnings)
        <5>3. Payslip(e, lost) = Assemble(e, f, g, h)
          BY <4>1, <4>2, <5>1
        <5>4. Payslip(d, lost) = Assemble(d, f, g, h)
          BY <5>1
        <5> QED BY <5>2, <5>3, <5>4
      <4> QED BY <3>3, <4>3 DEF e
    <3> DEFINE nobody == Previewed(d, FALSE)
               other == Payslip(nobody, lost)
    <3>8. /\ DraftOf(Int, nobody) /\ Earnings(nobody, lost) = earnings /\ nobody.adjustments = <<>>
          /\ OwnDeductions(nobody, earnings) = own /\ Levies(nobody, earnings) = Levies(d, earnings)
      BY <3>5
    <3> HIDE DEF nobody
    <3>9. Charged(nobody, earnings) \in EntriesOf(Int)
      BY <2>1, <3>4, <3>8, ChargedKind
    <3>10. /\ other.earnings = earnings \o <<>> /\ slip.earnings = earnings \o <<>>
           /\ other.deductions = Charged(nobody, earnings) \o <<>>
           /\ slip.deductions = Charged(d, earnings) \o <<>>
      <4>1. /\ other.earnings = earnings \o AsEntries(Adjustments(nobody, "EARNING"))
            /\ other.deductions =
                 Charged(nobody, earnings) \o AsEntries(Adjustments(nobody, "DEDUCTION"))
        BY <3>8, SlipIs
      <4>2. /\ slip.earnings = earnings \o AsEntries(Adjustments(d, "EARNING"))
            /\ slip.deductions = Charged(d, earnings) \o AsEntries(Adjustments(d, "DEDUCTION"))
        BY <3>3, SlipIs DEF earnings
      <4> QED BY <2>3, <3>6, <3>8, <4>1, <4>2
    <3>11. other.deductions = Charged(nobody, earnings) /\ slip.deductions = Charged(d, earnings)
      BY <3>4, <3>9, <3>10, ConcatEmptySeq DEF EntriesOf
    <3>12. \A l : l.code \in {"PT", "TDS"} => l \notin S
      OBVIOUS
    <3>13. Kept(Charged(nobody, earnings), S) = Kept(Charged(d, earnings), S)
      <4> HIDE DEF S, own
      <4>1. Kept(Charged(nobody, earnings), S)
              = Kept(OwnDeductions(nobody, earnings), S) \o Kept(Levies(nobody, earnings), S)
        BY <3>4, <3>8, <3>12, Untaxed
      <4>2. Kept(Charged(d, earnings), S)
              = Kept(OwnDeductions(d, earnings), S) \o Kept(Levies(d, earnings), S)
        BY <2>1, <3>4, <3>12, Untaxed
      <4> QED BY <3>8, <4>1, <4>2 DEF own
    <3>14. ASSUME NEW s, s.deductions \in EntriesOf(Int)
           PROVE  untaxed(s) = Kept(s.deductions, S)
      <4> DEFINE R == [code: STRING, amount: Int]
                 lines == s.deductions
                 T == {l \in Range(lines) : taxless(l)}
      <4>1. lines \in Seq(R)
        BY <3>14 DEF EntriesOf
      <4>2. \A i \in DOMAIN lines : lines[i] \in R /\ lines[i] \in Range(lines)
        <5> HIDE DEF R, lines
        <5> QED BY <4>1 DEF Range
      <4>3. \A i \in DOMAIN lines : lines[i] \in T <=> lines[i] \in S
        <5> HIDE DEF taxless, lines
        <5> QED BY <4>2
      <4> HIDE DEF R, T, S, lines
      <4>4. Kept(lines, T) = Kept(lines, S)
        BY <4>1, <4>3, KeptSame
      <4> QED BY <4>4 DEF lines, T
    <3> HIDE DEF S, untaxed
    <3>15. untaxed(other) = untaxed(slip)
      BY <3>4, <3>9, <3>11, <3>13, <3>14
    <3> QED BY <3>7, <3>10, <3>15 DEF nobody
  <2> QED BY <2>2, <2>3 DEF PreviewMatchesRun
<1> QED BY <1>1, SlipIsComputed, PTL

-----------------------------------------------------------------------------
(***************************************************************************)
(* The tax of a year.                                                      *)
(***************************************************************************)
\* The bands that an income reaches beyond are charged whole, the one it ends in up to the
\* income, and the others not at all.
LEMMA SlabTaxIsProgressive ==
  ASSUME NEW regime \in Regimes, NEW taxable \in Nat, NEW bands, bands = Slabs[regime]
  PROVE  SlabTax(taxable, bands)
           = SumOver([i \in DOMAIN bands |-> InBand(taxable, bands, i) * bands[i].rate], DOMAIN bands)
<1> DEFINE n == Len(bands)
<1>1. /\ bands \in Seq(TaxBand) /\ n \in Nat /\ n > 0 /\ DOMAIN bands = 1..n
      /\ \A i \in 1..n : bands[i] \in TaxBand
      /\ bands[n].upto = Above
      /\ \A i \in 1..(n - 1) : bands[i].upto \in Nat /\ bands[i].upto # Above
      /\ \A i \in 2..(n - 1) : bands[i - 1].upto <= bands[i].upto
  <2>1. bands \in Seq(TaxBand)
    BY SlabsAssumption DEF TaxBand
  <2>2. /\ n > 0 /\ bands[n].upto = Above
        /\ \A i \in 1..(n - 1) : bands[i].upto \in Nat \ {Above}
        /\ \A i \in 2..(n - 1) : bands[i - 1].upto <= bands[i].upto
    BY SlabsAssumption
  <2> HIDE DEF TaxBand
  <2> QED BY <2>1, <2>2
<1>2. \A i \in 1..n : bands[i].rate \in Nat
  BY <1>1 DEF TaxBand
<1>3. PICK acc : Charging(acc, bands, taxable) /\ SlabTax(taxable, bands) = acc[n].tax
  BY <1>1, SlabStepwise
<1> HIDE DEF n
<1> DEFINE Lower(i) == IF i = 1 THEN 0 ELSE bands[i - 1].upto
<1>4. ASSUME NEW i \in 1..n
      PROVE  /\ Lower(i) \in Nat
             /\ ~Within(taxable, bands[i]) =>
                  bands[i].upto \in Nat /\ bands[i].upto < taxable /\ Lower(i) <= bands[i].upto
  <2>1. Lower(i) \in Nat
    BY <1>1
  <2>2. ASSUME ~Within(taxable, bands[i]) PROVE bands[i].upto \in Nat /\ bands[i].upto < taxable
                                              /\ Lower(i) <= bands[i].upto
    <3>1. i \in 1..(n - 1)
      BY <1>1, <2>2 DEF Within
    <3>2. bands[i].upto \in Nat /\ bands[i].upto < taxable
      BY <1>1, <2>2, <3>1 DEF Within
    <3> QED BY <1>1, <3>1, <3>2
  <2> QED BY <2>1, <2>2
<1>5. PICK part : part = [i \in 1..n |-> InBand(taxable, bands, i) * bands[i].rate]
  OBVIOUS
<1>6. ASSUME NEW i \in 1..n
      PROVE  /\ InBand(taxable, bands, i) \in Nat
             /\ ~Within(taxable, bands[i]) => InBand(taxable, bands, i) = bands[i].upto - Lower(i)
             /\ Within(taxable, bands[i]) => InBand(taxable, bands, i) = Greatest(0, taxable - Lower(i))
  BY <1>4 DEF InBand, Greatest
<1>7. \A i \in 1..n : part[i] \in Int
  BY <1>2, <1>5, <1>6
<1>8. SumOver([i \in DOMAIN bands |-> InBand(taxable, bands, i) * bands[i].rate], DOMAIN bands)
        = SumOver(part, 1..n)
  BY <1>1, <1>5
<1>9. ASSUME NEW i \in 1..n PROVE SumOver(part, 1..i) = part[i] + SumOver(part, 1..(i - 1))
                                 /\ SumOver(part, 1..(i - 1)) \in Int
  <2>1. i \in 1..i /\ IsFiniteSet(1..i) /\ (1..i) \ {i} = 1..(i - 1) /\ 1..i \subseteq 1..n
    <3>0. i \in Int /\ 1 \in Int
      BY <1>1
    <3>1. IsFiniteSet(1..i)
      BY <3>0, FS_Interval
    <3>2. (1..i) \ {i} = 1..(i - 1) /\ 1..i \subseteq 1..n /\ i \in 1..i
      BY <1>1
    <3> QED BY <3>1, <3>2
  <2>2. \A x \in 1..i : part[x] \in Int
    BY <1>7, <2>1
  <2>3. SumOver(part, 1..i) \in Int /\ SumOver(part, 1..i) = part[i] + SumOver(part, (1..i) \ {i})
    BY <2>1, <2>2, SumOverTake
  <2>4. SumOver(part, 1..(i - 1)) \in Int
    <3>1. CASE i = 1
      <4>1. 1..(i - 1) = {}
        BY <3>1
      <4> QED BY <4>1, SumOverEmpty
    <3>2. CASE i # 1
      <4>1. i - 1 \in 1..(i - 1) /\ IsFiniteSet(1..(i - 1)) /\ 1..(i - 1) \subseteq 1..n
        <5>1. IsFiniteSet(1..(i - 1))
          BY <1>1, FS_Interval
        <5>2. i - 1 \in 1..(i - 1) /\ 1..(i - 1) \subseteq 1..n
          BY <1>1, <3>2
        <5> QED BY <5>1, <5>2
      <4>2. \A x \in 1..(i - 1) : part[x] \in Int
        BY <1>7, <4>1
      <4> QED BY <4>1, <4>2, SumOverTake
    <3> QED BY <3>1, <3>2
  <2> QED BY <2>1, <2>3, <2>4
<1>10. /\ acc \in [0..n -> SlabState] /\ acc[0] = SlabStart
       /\ \A i \in 1..n : acc[i] = ChargeBand(acc[i - 1], bands[i], taxable)
  BY <1>3 DEF Charging, n
<1> DEFINE Level(i) ==
             /\ acc[i].tax = SumOver(part, 1..i)
             /\ acc[i].done <=> i > 0 /\ Within(taxable, bands[i])
             /\ ~acc[i].done /\ i < n => acc[i].lower = Lower(i + 1)
           T == {i \in 0..n : Level(i)}
<1>11. 0 \in T
  <2>1. 1..0 = {}
    OBVIOUS
  <2>2. SumOver(part, 1..0) = 0
    BY <2>1, SumOverEmpty
  <2> QED BY <1>1, <1>10, <2>2 DEF SlabStart
<1>12. ASSUME NEW i \in 1..n, i - 1 \in T PROVE i \in T
  <2>1. i \in 0..n /\ i - 1 \in 0..n /\ i - 1 < n /\ (i - 1) + 1 = i
    BY <1>1
  <2>2. PICK before : before = acc[i - 1]
    OBVIOUS
  <2>3. /\ before.tax = SumOver(part, 1..(i - 1))
        /\ before.done <=> i - 1 > 0 /\ Within(taxable, bands[i - 1])
        /\ ~before.done => before.lower = Lower(i)
        /\ before \in SlabState
    BY <1>10, <1>12, <2>1, <2>2
  <2>4. acc[i] = ChargeBand(before, bands[i], taxable)
    BY <1>10, <2>2
  <2>5. CASE before.done
    <3>1. i - 1 > 0 /\ Within(taxable, bands[i - 1]) /\ acc[i] = before
      BY <2>3, <2>4, <2>5 DEF ChargeBand
    <3>2. i - 1 \in 1..(n - 1) /\ Lower(i) = bands[i - 1].upto /\ taxable <= Lower(i)
      BY <1>1, <3>1 DEF Within
    <3>3. Within(taxable, bands[i])
      <4>1. CASE i = n
        BY <1>1, <4>1 DEF Within
      <4>2. CASE i # n
        <5>1. i \in 1..(n - 1) /\ i \in 2..(n - 1)
          BY <1>1, <3>1, <4>2
        <5>2. bands[i - 1].upto <= bands[i].upto /\ bands[i].upto \in Nat /\ bands[i - 1].upto \in Nat
          BY <1>1, <3>2, <5>1
        <5> QED BY <3>2, <5>2 DEF Within
      <4> QED BY <4>1, <4>2
    <3>4. InBand(taxable, bands, i) = 0
      BY <1>4, <1>6, <3>2, <3>3 DEF Greatest
    <3>5. part[i] = 0
      BY <1>2, <1>5, <3>4
    <3> QED BY <1>9, <2>1, <2>3, <2>5, <3>1, <3>3, <3>5
  <2>6. CASE ~before.done /\ Within(taxable, bands[i])
    <3>1. acc[i] = [before EXCEPT !.tax = @ + (taxable - before.lower) * bands[i].rate, !.done = TRUE]
      BY <2>4, <2>6 DEF ChargeBand
    <3>2. /\ acc[i].tax = before.tax + (taxable - before.lower) * bands[i].rate
          /\ acc[i].done = TRUE
      BY <2>3, <3>1 DEF SlabState
    <3>3. Lower(i) <= taxable
      <4>1. CASE i = 1
        BY <4>1
      <4>2. CASE i # 1
        <5>1. i - 1 \in 1..n /\ ~Within(taxable, bands[i - 1])
          BY <1>1, <2>3, <2>6, <4>2
        <5> QED BY <1>4, <4>2, <5>1
      <4> QED BY <4>1, <4>2
    <3>4. InBand(taxable, bands, i) = taxable - Lower(i)
      BY <1>4, <1>6, <2>6, <3>3 DEF Greatest
    <3>5. part[i] = (taxable - before.lower) * bands[i].rate
      BY <1>5, <2>3, <2>6, <3>4
    <3>6. acc[i].tax = SumOver(part, 1..i)
      BY <1>7, <1>9, <2>3, <3>2, <3>5
    <3> QED BY <2>1, <2>6, <3>2, <3>6
  <2>7. CASE ~before.done /\ ~Within(taxable, bands[i])
    <3>1. /\ acc[i].tax = before.tax + (bands[i].upto - before.lower) * bands[i].rate
          /\ acc[i].lower = bands[i].upto /\ acc[i].done = FALSE
      BY <2>4, <2>7 DEF ChargeBand
    <3>2. part[i] = (bands[i].upto - before.lower) * bands[i].rate
      BY <1>5, <1>6, <2>3, <2>7
    <3>3. acc[i].tax = SumOver(part, 1..i)
      BY <1>7, <1>9, <2>3, <3>1, <3>2
    <3>4. i + 1 # 1 /\ (i + 1) - 1 = i
      BY <1>1
    <3> QED BY <2>1, <2>7, <3>1, <3>3, <3>4
  <2> QED BY <2>5, <2>6, <2>7
<1> HIDE DEF T
<1>13. \A i \in 0..n : i \in T
  BY <1>1, <1>11, <1>12, CountUp
<1>14. n \in 0..n
  BY <1>1
<1>15. acc[n].tax = SumOver(part, 1..n)
  BY <1>13, <1>14 DEF T
<1> QED BY <1>3, <1>8, <1>15

\* No other line of a structure has the code of the tax.
OneTds(d) ==
  /\ \A i \in DOMAIN d.deductions : d.deductions[i].code # "TDS"
  /\ \A i \in DOMAIN d.adjustments : d.adjustments[i].code # "TDS"

LEMMA HourlyDeducts ==
  ASSUME NEW d \in Draft
  PROVE  /\ Effective(d).deductions = d.deductions
         /\ Effective(d).adjustments = d.adjustments
<1>1. \A x \in Draft : /\ Hourly(x).deductions = x.deductions
                      /\ Hourly(x).adjustments = x.adjustments
  BY DEF Hourly, Draft
<1> QED BY <1>1 DEF Effective

\* The lines of a payslip that are of the tax are those that the estimate puts there.
LEMMA TdsLineIs ==
  ASSUME NEW d, DraftOf(Int, d), OneTds(d), NEW earnings \in EntriesOf(Int),
         NEW S, \A l : l \in S => l.code = "TDS",
         \A l \in [code: STRING, amount: Int] : l.code = "TDS" => l \in S
  PROVE  Kept(Charged(d, earnings) \o AsEntries(Adjustments(d, "DEDUCTION")), S) = TDSLines(d)
<1> DEFINE R == [code: STRING, amount: Int]
           own == OwnDeductions(d, earnings)
           levies == Levies(d, earnings)
           pt == PTLines(d, earnings)
           tds == TDSLines(d)
           cut == AsEntries(Adjustments(d, "DEDUCTION"))
<1>1. own \in Seq(R) /\ levies \in Seq(R) /\ pt \in Seq(R) /\ tds \in Seq(R)
  BY DeductionsKind DEF Kind, EntriesOf
<1>2. cut \in Seq(R)
  BY AdjustmentsKind DEF Kind, EntriesOf
<1>3. Charged(d, earnings) = own \o ((levies \o pt) \o tds)
  BY LeviesAndTaxes DEF Charged
<1>4. Kept(own, S) = <<>>
  <2>1. Kind(Int) /\ d.deductions \in Seq(LineOf(Int))
    BY DraftKind DEF Kind
  <2>2. CTCOnly(d) \in Refs(Int) /\ Sum(earnings) \in Int
    BY <2>1, PeriodKind, EntryCounted
  <2>3. ByCode(earnings, CTCOnly(d)) \in Refs(Int)
    BY <2>1, <2>2, ByCodeKind
  <2>4. own = ResolveAll(d.deductions, ByCode(earnings, CTCOnly(d)), Sum(earnings))
    BY DEF OwnDeductions
  <2> HIDE DEF own
  <2>5. /\ own \in EntriesOf(Int) /\ Len(own) = Len(d.deductions)
        /\ \A i \in 1..Len(d.deductions) : own[i].code = d.deductions[i].code
    BY <2>1, <2>2, <2>3, <2>4, ResolveAllKind
  <2>6. DOMAIN own = 1..Len(d.deductions) /\ DOMAIN d.deductions = 1..Len(d.deductions)
    BY <2>1, <2>5, EntryAt
  <2>7. \A i \in DOMAIN own : own[i] \notin S
    BY <2>5, <2>6 DEF OneTds
  <2> HIDE DEF R
  <2> QED BY <1>1, <2>7, KeptNothing
<1>5. Kept(cut, S) = <<>>
  <2> DEFINE adjs == Adjustments(d, "DEDUCTION")
             A == {a \in Range(d.adjustments) : a.kind = "DEDUCTION"}
  <2>1. d.adjustments \in Seq(AdjustmentOf)
    BY DraftFields DEF DraftOf, AdjustmentOf
  <2>2. adjs \in Seq(AdjustmentOf \cap A)
    BY <2>1, KeptType DEF Adjustments
  <2>3. \A a \in A : a.code # "TDS"
    BY DEF OneTds, Range
  <2> HIDE DEF A, adjs
  <2>4. \A i \in DOMAIN adjs : adjs[i] \in AdjustmentOf \cap A
    BY <2>2
  <2>5. cut = [i \in DOMAIN adjs |-> Entry(adjs[i].code, adjs[i].amount)]
    BY DEF AsEntries, adjs
  <2>6. \A i \in DOMAIN cut : cut[i] \notin S
    BY <2>3, <2>4, <2>5 DEF Entry
  <2> HIDE DEF R, cut
  <2> QED BY <1>2, <2>6, KeptNothing
<1>6. \A i \in DOMAIN levies : levies[i] \notin S
  <2>1. PICK one, two : levies = If(d.pf, <<Entry("PF", one)>>)
                                 \o If(d.esi /\ Covered(Sum(earnings), d.cfg), <<Entry("ESI", two)>>)
    BY DEF Levies
  <2>2. \A i \in DOMAIN levies : levies[i] \in {Entry("PF", one), Entry("ESI", two)}
    <3>1. PICK a \in BOOLEAN, b \in BOOLEAN :
            (a <=> d.pf) /\ (b <=> d.esi /\ Covered(Sum(earnings), d.cfg))
      OBVIOUS
    <3>2. levies = If(a, <<Entry("PF", one)>>) \o If(b, <<Entry("ESI", two)>>)
      BY <2>1, <3>1 DEF If
    <3> HIDE DEF levies
    <3>3. PICK x, y : x = Entry("PF", one) /\ y = Entry("ESI", two)
      OBVIOUS
    <3>4. levies = If(a, <<x>>) \o If(b, <<y>>)
      BY <3>2, <3>3
    <3>5. If(a, <<x>>) \in Seq({x, y}) /\ If(b, <<y>>) \in Seq({x, y})
      <4>1. x \in {x, y} /\ y \in {x, y}
        OBVIOUS
      <4>2. PICK R2 : R2 = {x, y}
        OBVIOUS
      <4>3. <<x>> \in Seq(R2) /\ <<y>> \in Seq(R2) /\ <<>> \in Seq(R2)
        BY <4>1, <4>2
      <4>4. If(a, <<x>>) \in {<<x>>, <<>>} /\ If(b, <<y>>) \in {<<y>>, <<>>}
        BY DEF If
      <4> QED BY <4>2, <4>3, <4>4, Zenon
    <3>6. levies \in Seq({x, y})
      BY <3>4, <3>5, ConcatProperties
    <3>7. \A i \in DOMAIN levies : levies[i] \in {x, y}
      BY <3>6
    <3> QED BY <3>3, <3>7
  <2>3. Entry("PF", one).code # "TDS" /\ Entry("ESI", two).code # "TDS"
    BY DEF Entry
  <2> QED BY <2>2, <2>3
<1>7. \A i \in DOMAIN pt : pt[i] \notin S
  <2>1. CASE pt = <<>>
    BY <2>1
  <2>2. CASE pt # <<>>
    <3>1. pt = <<Entry("PT", ComputePT(d.state, Sum(earnings)))>>
      BY <2>2 DEF PTLines, If
    <3> QED BY <3>1 DEF Entry
  <2> QED BY <2>1, <2>2
<1>8. Kept(tds, S) = tds
  <2>1. CASE tds = <<>>
    <3> HIDE DEF tds
    <3>1. <<>> \in Seq({}) /\ \A i \in DOMAIN <<>> : FALSE
      OBVIOUS
    <3> QED BY <2>1, <3>1, KeptNothing
  <2>2. CASE tds # <<>>
    <3>1. PICK x : tds = <<x>> /\ x = Entry("TDS", MonthlyTds(AnnualGross(d), d.profile, d.cfg))
      BY <2>2 DEF TDSLines, If
    <3>2. x \in R /\ x.code = "TDS"
      <4> HIDE DEF tds, R
      <4>1. tds[1] \in R
        BY <1>1, <3>1
      <4>2. tds[1] = x
        BY <3>1
      <4> QED BY <3>1, <4>1, <4>2 DEF Entry
    <3>3. x \in S
      BY <3>2
    <3> HIDE DEF tds, R
    <3>4. PICK kept : kept = [i \in 0..1 |-> IF i = 0 THEN <<>> ELSE <<x>>]
      OBVIOUS
    <3>5. Len(tds) = 1 /\ tds[1] = x
      BY <3>1
    <3>6. Append(<<>>, x) = <<x>>
      OBVIOUS
    <3>7. /\ DOMAIN kept = 0..Len(tds) /\ kept[0] = <<>>
          /\ \A i \in 1..Len(tds) :
               kept[i] = IF tds[i] \in S THEN Append(kept[i - 1], tds[i]) ELSE kept[i - 1]
      BY <3>3, <3>4, <3>5, <3>6
    <3>8. Kept(tds, S) = kept[Len(tds)]
      BY <1>1, <3>7, KeptBySteps
    <3> QED BY <3>1, <3>4, <3>5, <3>8
  <2> QED BY <2>1, <2>2
<1> HIDE DEF R, own, levies, pt, tds, cut
<1>9. Kept(levies, S) = <<>> /\ Kept(pt, S) = <<>>
  BY <1>1, <1>6, <1>7, KeptNothing
<1>10. \A f \in Seq(R), g \in Seq(R) :
          f \o g \in Seq(R) /\ Kept(f \o g, S) = Kept(f, S) \o Kept(g, S)
  BY KeptConcat, ConcatProperties
<1>11. PICK f \in Seq(R) : f = levies \o pt /\ Kept(f, S) = <<>> \o <<>>
  <2>1. levies \o pt \in Seq(R)
    BY <1>1, <1>10, Zenon
  <2>2. Kept(levies \o pt, S) = Kept(levies, S) \o Kept(pt, S)
    BY <1>1, <1>10, Zenon
  <2>3. Kept(levies \o pt, S) = <<>> \o <<>>
    BY <1>1, <1>9, <2>2
  <2> QED BY <2>1, <2>3
<1>12. PICK g \in Seq(R) : g = f \o tds /\ Kept(g, S) = Kept(f, S) \o tds
  <2>1. f \o tds \in Seq(R)
    BY <1>1, <1>10, Zenon
  <2>2. Kept(f \o tds, S) = Kept(f, S) \o Kept(tds, S)
    BY <1>1, <1>10, Zenon
  <2>3. Kept(f \o tds, S) = Kept(f, S) \o tds
    BY <1>1, <1>8, <2>2
  <2> QED BY <2>1, <2>3
<1>13. PICK h \in Seq(R) : h = own \o g /\ Kept(h, S) = <<>> \o Kept(g, S)
  <2>1. own \o g \in Seq(R)
    BY <1>1, <1>10, Zenon
  <2>2. Kept(own \o g, S) = Kept(own, S) \o Kept(g, S)
    BY <1>1, <1>10, Zenon
  <2>3. Kept(own \o g, S) = <<>> \o Kept(g, S)
    BY <1>1, <1>4, <2>2
  <2> QED BY <2>1, <2>3
<1>14. Kept(h \o cut, S) = Kept(h, S) \o <<>>
  BY <1>2, <1>5, <1>10, Zenon
<1>15. <<>> \o <<>> = <<>> /\ <<>> \o tds = tds /\ tds \o <<>> = tds
  BY <1>1
<1>16. h = Charged(d, earnings)
  BY <1>3, <1>11, <1>12, <1>13
<1>17. Kept(h \o cut, S) = tds
  BY <1>11, <1>12, <1>13, <1>14, <1>15
<1> QED BY <1>16, <1>17 DEF cut, tds

LEMMA TdsSum ==
  ASSUME NEW d, d.tds, NEW tds, tds = MonthlyTds(AnnualGross(d), d.profile, d.cfg), tds \in Nat
  PROVE  Sum(TDSLines(d)) = tds
<1>1. TDSLines(d) = If(tds > 0, <<Entry("TDS", tds)>>)
  BY DEF TDSLines, If
<1>2. CASE tds > 0
  <2>1. TDSLines(d) = <<Entry("TDS", tds)>>
    BY <1>1, <1>2 DEF If
  <2>2. PICK x : x = Entry("TDS", tds)
    OBVIOUS
  <2>6. x.amount = tds
    BY <2>2 DEF Entry
  <2>3. PICK lines : lines = <<x>> /\ TDSLines(d) = lines
    BY <2>1, <2>2
  <2>4. Len(lines) = 1 /\ DOMAIN lines = 1..1 /\ \A i \in 1..1 : lines[i].amount = tds
    BY <2>3, <2>6
  <2>7. 1 \in Nat /\ tds \in Int
    OBVIOUS
  <2>5. Sum(lines) = 1 * tds
    BY <2>4, <2>7, SumConstant
  <2> QED BY <2>3, <2>5
<1>3. CASE ~(tds > 0)
  BY <1>1, <1>3, SumEmpty DEF If
<1> QED BY <1>2, <1>3

\* Twelve months withhold the progressive tax of a full year, with the cess, less what was
\* withheld before, up to twelve halves of a paisa, whatever days are lost, when no other
\* line has the code of the tax.
THEOREM YearIsTaxed ==
  (\A d \in Drafts : OneTds(d)) => (Spec => []YearIsWithheld)
<1> SUFFICES ASSUME \A d \in Drafts : OneTds(d) PROVE Spec => []YearIsWithheld
  OBVIOUS
<1>1. SlipInv => YearIsWithheld
  <2> SUFFICES ASSUME SlipInv, Computed PROVE YearIsWithheld
    BY DEF YearIsWithheld
  <2> DEFINE d == Effective(draft)
             p == d.profile
             bands == Slabs[p.regime]
             gross == 12 * Sum(RawEarnings(d))
             taxable == Taxable(gross, p, d.cfg)
             charge == [i \in DOMAIN bands |-> InBand(taxable, bands, i) * bands[i].rate]
             tax == MapThenSumSet(LAMBDA i : charge[i], DOMAIN bands)
             due == IF taxable <= d.cfg.rebate[p.regime] THEN 0
                    ELSE Greatest(0, tax * 26 - p.prevTds * 2500)
  <2> SUFFICES ASSUME d.tds
               PROVE  LET missed == due - 12 * 2500 * Sum(TdsLine)
                      IN  Greatest(missed, -missed) <= 6 * 2500
    BY SMTT(60) DEF YearIsWithheld
  <2>1. PICK lost \in SUBSET DOMAIN d.components : slip = Payslip(d, lost)
    BY DEF SlipInv
  <2>2. DraftOf(Int, d) /\ Valid(d) /\ Kind(Int)
    BY DraftSane DEF SlipInv, Kind
  <2>3. OneTds(d)
    BY DraftsAssumption, HourlyDeducts DEF SlipInv, OneTds
  <2> HIDE DEF d
  <2>4. d.cfg \in Configs /\ p \in Profiles
    BY <2>2, DraftFields DEF DraftOf
  <2>5. gross \in Int /\ AnnualGross(d) = gross
    <3>1. Sum(RawEarnings(d)) \in Int
      BY <2>2, RawKind, EntryCounted
    <3> QED BY <3>1 DEF AnnualGross
  <2> HIDE DEF gross, p
  <2>6. taxable \in Nat
    BY <2>4, <2>5, TaxableNat
  <2>7. p.regime \in Regimes /\ p.prevTds \in Nat
    BY <2>4 DEF Profiles
  <2> HIDE DEF taxable
  <2>8. SlabTax(taxable, bands) = tax /\ tax \in Int
    <3>1. SlabTax(taxable, bands) = SumOver(charge, DOMAIN bands)
      BY <2>6, <2>7, SlabTaxIsProgressive
    <3>2. SumOver(charge, DOMAIN bands) = tax
      BY Zenon DEF SumOver
    <3>3. SlabTax(taxable, bands) \in Int
      <4>0. taxable \in Int
        BY <2>6
      <4>1. bands \in Seq(TaxBand) /\ Len(bands) \in Nat
        <5>1. bands \in Seq(TaxBand)
          BY <2>7, SlabsAssumption DEF TaxBand
        <5> HIDE DEF bands, TaxBand
        <5> QED BY <5>1
      <4> HIDE DEF bands
      <4>2. PICK acc : /\ Charging(acc, bands, taxable)
                       /\ SlabTax(taxable, bands) = acc[Len(bands)].tax
        BY <4>0, <4>1, SlabStepwise
      <4>3. acc[Len(bands)] \in SlabState
        BY <4>1, <4>2 DEF Charging
      <4> QED BY <4>2, <4>3 DEF SlabState
    <3> QED BY <3>1, <3>2, <3>3
  <2> DEFINE tds == MonthlyTds(AnnualGross(d), p, d.cfg)
  <2>9. due \in Nat /\ tds = RoundHalfUp(due, 12 * 2500)
    <3>1. TaxAfterRebate(taxable, p, d.cfg)
            = IF taxable <= d.cfg.rebate[p.regime] THEN 0 ELSE tax
      BY <2>8 DEF TaxAfterRebate
    <3> HIDE DEF tax, bands
    <3>2. CASE taxable <= d.cfg.rebate[p.regime]
      <4>1. Greatest(0, 0 * 26 - p.prevTds * 2500) = 0
        BY <2>7 DEF Greatest
      <4> QED BY <2>5, <3>1, <3>2, <4>1 DEF MonthlyTds, taxable
    <3>3. CASE ~(taxable <= d.cfg.rebate[p.regime])
      <4>1. Greatest(0, tax * 26 - p.prevTds * 2500) \in Nat
        BY <2>7, <2>8 DEF Greatest
      <4> QED BY <2>5, <3>1, <3>3, <4>1 DEF MonthlyTds, taxable
    <3> QED BY <3>2, <3>3
  <2> HIDE DEF due
  <2>10. tds \in Nat
    BY <2>4, <2>5, TdsNat
  <2>11. TdsLine = TDSLines(d)
    <3> DEFINE earnings == Earnings(d, lost)
               R == [code: STRING, amount: Int]
               lines == slip.deductions
               S == {l \in Range(lines) : l.code = "TDS"}
               U == {l \in R : l.code = "TDS"}
    <3>1. earnings \in EntriesOf(Int) /\ lines \in EntriesOf(Int)
          /\ lines = Charged(d, earnings) \o AsEntries(Adjustments(d, "DEDUCTION"))
      BY <2>1, <2>2, SlipKind, SlipIs
    <3>2. TdsLine = Kept(lines, S)
      BY DEF TdsLine
    <3> HIDE DEF earnings, lines
    <3>3. lines \in Seq(R)
      BY <3>1 DEF EntriesOf
    <3>4. \A i \in DOMAIN lines : lines[i] \in R /\ lines[i] \in Range(lines)
      <4> HIDE DEF R
      <4> QED BY <3>3 DEF Range
    <3>5. \A i \in DOMAIN lines : lines[i] \in S <=> lines[i] \in U
      <4> HIDE DEF R
      <4> QED BY <3>4
    <3>6. \A l : l \in U => l.code = "TDS"
      OBVIOUS
    <3>7. \A l \in [code: STRING, amount: Int] : l.code = "TDS" => l \in U
      OBVIOUS
    <3> HIDE DEF R, S, U
    <3>8. Kept(lines, S) = Kept(lines, U)
      BY <3>3, <3>5, KeptSame
    <3>9. Kept(lines, U) = TDSLines(d)
      BY <2>2, <2>3, <3>1, <3>6, <3>7, TdsLineIs
    <3> QED BY <3>2, <3>8, <3>9
  <2>12. Sum(TdsLine) = tds
    BY <2>10, <2>11, TdsSum DEF p
  <2> HIDE DEF tds
  <2> DEFINE n == 12 * 2500
             over == n * RoundHalfUp(due, n) - due
             missed == due - 12 * 2500 * Sum(TdsLine)
  <2>13. n = 30000 /\ n \in Nat /\ n > 0
    OBVIOUS
  <2>14. over \in Int /\ missed = -over
    BY <2>9, <2>10, <2>12
  <2> HIDE DEF n
  <2>15. 2 * over <= n /\ -n <= 2 * over
    BY <2>9, <2>13, <2>14, PartsMiss
  <2> HIDE DEF over, missed
  <2>16. Greatest(missed, -missed) <= 6 * 2500
    BY <2>13, <2>14, <2>15 DEF Greatest
  <2> QED BY <2>16 DEF missed
<1> QED BY <1>1, SlipIsComputed, PTL
=============================================================================
