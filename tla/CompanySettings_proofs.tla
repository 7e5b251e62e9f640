------------------------ MODULE CompanySettings_proofs ------------------------
(***************************************************************************)
(* Proofs about the settings of a company, for any set of documents,       *)
(* rates, calendars and days: first what the smart mapping makes of a      *)
(* document, then the companies row, whatever the interleaving of          *)
(* requests, and last what holds when they are served one at a time.       *)
(***************************************************************************)
EXTENDS CompanySettings, SumTheorems

-----------------------------------------------------------------------------
(***************************************************************************)
(* A set of numbers in order.                                              *)
(***************************************************************************)
Below(S, x) == {y \in S : y < x}

LEMMA BelowCounts ==
  ASSUME NEW S, S \subseteq Nat, IsFiniteSet(S), NEW x \in S
  PROVE  /\ IsFiniteSet(Below(S, x))
         /\ Cardinality(Below(S, x)) \in 0..(Cardinality(S) - 1)
<1>1. Below(S, x) \in SUBSET S /\ x \notin Below(S, x)
  BY DEF Below
<1>2. IsFiniteSet(Below(S, x)) /\ Cardinality(Below(S, x)) <= Cardinality(S)
  BY <1>1, FS_Subset
<1>3. Cardinality(Below(S, x)) # Cardinality(S)
  BY <1>1, FS_Subset
<1>4. Cardinality(S) \in Nat /\ Cardinality(Below(S, x)) \in Nat
  BY <1>2, FS_CardinalityType
<1> QED BY <1>2, <1>3, <1>4

LEMMA BelowRises ==
  ASSUME NEW S, S \subseteq Nat, IsFiniteSet(S), NEW x \in S, NEW y \in S, x < y
  PROVE  Cardinality(Below(S, x)) < Cardinality(Below(S, y))
<1>1. IsFiniteSet(Below(S, x)) /\ IsFiniteSet(Below(S, y))
  BY BelowCounts
<1>2. Below(S, x) \in SUBSET Below(S, y) /\ x \in Below(S, y) /\ x \notin Below(S, x)
  <2>1. x \in Nat /\ y \in Nat /\ ~(x < x)
    OBVIOUS
  <2>2. \A z \in S : z < x => z < y
    BY <2>1
  <2> QED BY <2>1, <2>2 DEF Below
<1>3. Cardinality(Below(S, x)) <= Cardinality(Below(S, y))
  BY <1>1, <1>2, FS_Subset
<1>4. Cardinality(Below(S, x)) # Cardinality(Below(S, y))
  BY <1>1, <1>2, FS_Subset
<1>5. Cardinality(Below(S, x)) \in Nat /\ Cardinality(Below(S, y)) \in Nat
  BY <1>1, FS_CardinalityType
<1> QED BY <1>3, <1>4, <1>5

LEMMA SameRank ==
  ASSUME NEW S, S \subseteq Nat, IsFiniteSet(S), NEW x \in S, NEW y \in S,
         Cardinality(Below(S, x)) = Cardinality(Below(S, y))
  PROVE  x = y
<1>1. x \in Nat /\ y \in Nat /\ Cardinality(Below(S, x)) \in Nat
  BY BelowCounts, FS_CardinalityType
<1>2. CASE x < y
  <2>1. Cardinality(Below(S, x)) < Cardinality(Below(S, y))
    BY <1>2, BelowRises
  <2> QED BY <1>1, <2>1
<1>3. CASE y < x
  <2>1. Cardinality(Below(S, y)) < Cardinality(Below(S, x))
    BY <1>3, BelowRises
  <2> QED BY <1>1, <2>1
<1> QED BY <1>1, <1>2, <1>3

\* Every rank is taken.
LEMMA RanksTaken ==
  ASSUME NEW S, S \subseteq Nat, IsFiniteSet(S), NEW k \in 0..(Cardinality(S) - 1)
  PROVE  \E x \in S : Cardinality(Below(S, x)) = k
<1> DEFINE n == Cardinality(S)
           rank == [x \in S |-> Cardinality(Below(S, x))]
<1>1. n \in Nat
  BY FS_CardinalityType
<1>2. rank \in [S -> 0..(n - 1)]
  BY BelowCounts
<1>3. \A x, y \in S : x # y => rank[x] # rank[y]
  <2> SUFFICES ASSUME NEW x \in S, NEW y \in S, x # y PROVE rank[x] # rank[y]
    OBVIOUS
  <2>0. /\ rank[x] = Cardinality(Below(S, x)) /\ rank[y] = Cardinality(Below(S, y))
        /\ rank[x] \in Int /\ rank[y] \in Int /\ x \in Nat /\ y \in Nat
    BY <1>1, <1>2
  <2> HIDE DEF rank
  <2>1. CASE x < y
    <3>1. Cardinality(Below(S, x)) < Cardinality(Below(S, y))
      BY <2>1, BelowRises
    <3> QED BY <2>0, <3>1
  <2>2. CASE y < x
    <3>1. Cardinality(Below(S, y)) < Cardinality(Below(S, x))
      BY <2>2, BelowRises
    <3> QED BY <2>0, <3>1
  <2> QED BY <2>0, <2>1, <2>2
<1> HIDE DEF rank
<1>4. rank \in Injection(S, 0..(n - 1))
  BY <1>2, <1>3 DEF Injection, IsInjective
<1>5. IsFiniteSet(0..(n - 1)) /\ Cardinality(0..(n - 1)) = n
  <2>1. 0 \in Int /\ n - 1 \in Int
    BY <1>1
  <2>2. Cardinality(0..(n - 1)) = IF 0 > n - 1 THEN 0 ELSE n - 1 - 0 + 1
    BY <2>1, FS_Interval
  <2>3. IsFiniteSet(0..(n - 1))
    BY <2>1, FS_Interval
  <2> HIDE DEF n
  <2> QED BY <1>1, <2>2, <2>3
<1>6. rank \in Surjection(S, 0..(n - 1))
  BY <1>4, <1>5, FS_Injection
<1>7. \E x \in S : rank[x] = k
  BY <1>6 DEF Surjection
<1> QED BY <1>7 DEF rank

LEMMA InOrderIs ==
  ASSUME NEW S, S \subseteq Nat, IsFiniteSet(S)
  PROVE  /\ Cardinality(S) \in Nat
         /\ InOrder(S) \in [1..Cardinality(S) -> S]
         /\ \A k \in 1..Cardinality(S) : Cardinality(Below(S, InOrder(S)[k])) = k - 1
         /\ \A x \in S : \E k \in 1..Cardinality(S) : InOrder(S)[k] = x
         /\ \A i, j \in 1..Cardinality(S) : i < j => InOrder(S)[i] < InOrder(S)[j]
<1> DEFINE n == Cardinality(S)
           s == InOrder(S)
           At_(k) == CHOOSE x \in S : Cardinality(Below(S, x)) = k - 1
<1>1. n \in Nat
  BY FS_CardinalityType
<1>2. s = [k \in 1..n |-> At_(k)]
  BY DEF InOrder, Below
<1>3. ASSUME NEW k \in 1..n PROVE At_(k) \in S /\ Cardinality(Below(S, At_(k))) = k - 1
  <2>1. k - 1 \in 0..(n - 1)
    BY <1>1
  <2>2. \E x \in S : Cardinality(Below(S, x)) = k - 1
    BY <2>1, RanksTaken
  <2> QED BY <2>2
<1> HIDE DEF n, s, At_
<1>4. s \in [1..n -> S] /\ \A k \in 1..n : Cardinality(Below(S, s[k])) = k - 1
  BY <1>2, <1>3
<1>6. ASSUME NEW x \in S PROVE \E k \in 1..n : s[k] = x
  <2>1. PICK r \in 0..(n - 1) : r = Cardinality(Below(S, x))
    BY BelowCounts DEF n
  <2>2. r + 1 \in 1..n /\ (r + 1) - 1 = r
    BY <1>1
  <2>3. s[r + 1] \in S /\ Cardinality(Below(S, s[r + 1])) = r
    BY <1>4, <2>2
  <2>4. s[r + 1] = x
    BY <2>1, <2>3, SameRank
  <2> QED BY <2>2, <2>4
<1>7. ASSUME NEW i \in 1..n, NEW j \in 1..n, i < j PROVE s[i] < s[j]
  <2>1. s[i] \in S /\ s[j] \in S /\ Cardinality(Below(S, s[i])) = i - 1
        /\ Cardinality(Below(S, s[j])) = j - 1
    BY <1>4
  <2>2. s[i] \in Nat /\ s[j] \in Nat /\ i \in Nat /\ j \in Nat
    <3>1. i \in Nat /\ j \in Nat
      BY <1>1
    <3>2. \A x \in S : x \in Nat
      OBVIOUS
    <3> QED BY <2>1, <3>1, <3>2
  <2>3. ~(s[j] < s[i])
    <3> SUFFICES ASSUME s[j] < s[i] PROVE FALSE
      OBVIOUS
    <3>1. Cardinality(Below(S, s[j])) < Cardinality(Below(S, s[i]))
      BY <2>1, BelowRises
    <3> QED BY <1>7, <2>1, <2>2, <3>1
  <2>4. s[i] # s[j]
    BY <1>7, <2>1, <2>2
  <2> QED BY <2>2, <2>3, <2>4
<1> QED BY <1>1, <1>4, <1>6, <1>7 DEF n, s

\* A set of positions.
LEMMA PositionsInOrder ==
  ASSUME NEW m \in Nat, NEW S, S \subseteq 1..m
  PROVE  /\ IsFiniteSet(S)
         /\ Len(InOrder(S)) = Cardinality(S) /\ Cardinality(S) \in Nat
         /\ DOMAIN InOrder(S) = 1..Cardinality(S)
         /\ \A k \in 1..Cardinality(S) : InOrder(S)[k] \in S
         /\ \A x \in S : \E k \in 1..Cardinality(S) : InOrder(S)[k] = x
         /\ \A i, j \in 1..Cardinality(S) : i < j => InOrder(S)[i] < InOrder(S)[j]
<1>0. 1 \in Int /\ m \in Int
  OBVIOUS
<1>1. S \in SUBSET (1..m) /\ IsFiniteSet(1..m) /\ S \subseteq Nat
  <2>1. IsFiniteSet(1..m)
    BY <1>0, FS_Interval
  <2> QED BY <2>1
<1>2. IsFiniteSet(S)
  BY <1>1, FS_Subset
<1>3. /\ Cardinality(S) \in Nat
      /\ InOrder(S) \in [1..Cardinality(S) -> S]
  BY <1>1, <1>2, InOrderIs
<1>4. Len(InOrder(S)) = Cardinality(S) /\ DOMAIN InOrder(S) = 1..Cardinality(S)
  BY <1>3
<1> QED BY <1>1, <1>2, <1>3, <1>4, InOrderIs

-----------------------------------------------------------------------------
(***************************************************************************)
(* Sequences put one after the other: at says of each position of the      *)
(* whole which sequence its element is from, and from where in it.         *)
(***************************************************************************)
Before(p, q) == p[1] < q[1] \/ (p[1] = q[1] /\ p[2] < q[2])

IsFlat(f, at, seqs, n, A) ==
  /\ f \in Seq(A)
  /\ at \in [1..Len(f) -> Nat \X Nat]
  /\ \A m \in 1..Len(f) :
       /\ at[m][1] \in 1..n /\ at[m][2] \in 1..Len(seqs[at[m][1]])
       /\ f[m] = seqs[at[m][1]][at[m][2]]
  /\ \A r \in 1..n : \A k \in 1..Len(seqs[r]) : \E m \in 1..Len(f) : at[m] = <<r, k>>
  /\ \A l, m \in 1..Len(f) : l < m => Before(at[l], at[m])

LEMMA FlatNext ==
  ASSUME NEW A, NEW seqs, NEW n \in Nat, NEW f, NEW at, IsFlat(f, at, seqs, n, A),
         seqs[n + 1] \in Seq(A)
  PROVE  \E more : IsFlat(f \o seqs[n + 1], more, seqs, n + 1, A)
<1> DEFINE s == seqs[n + 1]
           g == f \o s
           a == Len(f)
           b == Len(s)
           more == [m \in 1..(a + b) |-> IF m <= a THEN at[m] ELSE <<n + 1, m - a>>]
<1>1. f \in Seq(A) /\ s \in Seq(A) /\ a \in Nat /\ b \in Nat
  BY DEF IsFlat
<1>2. g \in Seq(A) /\ Len(g) = a + b
  BY <1>1
<1>3. /\ \A m \in 1..a : g[m] = f[m]
      /\ \A m \in 1..(a + b) : m > a => g[m] = s[m - a]
  BY <1>1
<1> HIDE DEF s, g, a, b
<1>4. ASSUME NEW m \in 1..a
      PROVE  /\ m \in 1..(a + b) /\ more[m] = at[m] /\ at[m] \in Nat \X Nat
             /\ at[m][1] \in 1..n /\ at[m][2] \in 1..Len(seqs[at[m][1]])
             /\ f[m] = seqs[at[m][1]][at[m][2]]
  <2>1. m \in 1..(a + b) /\ m <= a
    BY <1>1
  <2> QED BY <2>1 DEF IsFlat, a
<1>5. ASSUME NEW m \in 1..(a + b), m > a
      PROVE  more[m] = <<n + 1, m - a>> /\ m - a \in 1..b
  BY <1>1, <1>5
<1> HIDE DEF more
<1>6. more \in [1..(a + b) -> Nat \X Nat]
  <2>1. more = [m \in 1..(a + b) |-> more[m]]
    BY DEF more
  <2>2. ASSUME NEW m \in 1..(a + b) PROVE more[m] \in Nat \X Nat
    <3>1. CASE m <= a
      <4>1. m \in 1..a
        BY <1>1, <3>1
      <4> QED BY <1>4, <4>1
    <3>2. CASE m > a
      <4>1. more[m] = <<n + 1, m - a>> /\ m - a \in 1..b
        BY <1>5, <3>2
      <4> QED BY <1>1, <4>1
    <3> QED BY <1>1, <3>1, <3>2
  <2> QED BY <2>1, <2>2
<1>7. ASSUME NEW m \in 1..(a + b)
      PROVE  /\ more[m][1] \in 1..(n + 1) /\ more[m][2] \in 1..Len(seqs[more[m][1]])
             /\ g[m] = seqs[more[m][1]][more[m][2]]
  <2>1. CASE m <= a
    <3>1. m \in 1..a
      BY <1>1, <2>1
    <3>2. more[m][1] \in 1..(n + 1)
      BY <1>4, <3>1
    <3> QED BY <1>3, <1>4, <3>1, <3>2
  <2>2. CASE m > a
    <3>1. more[m][1] = n + 1 /\ more[m][2] = m - a /\ m - a \in 1..b
      BY <1>5, <2>2
    <3>2. g[m] = s[m - a]
      BY <1>3, <2>2
    <3> QED BY <3>1, <3>2 DEF s, b
  <2> QED BY <1>1, <2>1, <2>2
<1>8. ASSUME NEW r \in 1..(n + 1), NEW k \in 1..Len(seqs[r])
      PROVE  \E m \in 1..(a + b) : more[m] = <<r, k>>
  <2>1. CASE r <= n
    <3>1. r \in 1..n
      BY <2>1
    <3>2. PICK m \in 1..a : at[m] = <<r, k>>
      BY <3>1 DEF IsFlat, a
    <3> QED BY <1>4, <3>2
  <2>2. CASE r = n + 1
    <3>1. k \in 1..b
      BY <2>2 DEF b, s
    <3>2. a + k \in 1..(a + b) /\ a + k > a /\ (a + k) - a = k
      BY <1>1, <3>1
    <3>3. more[a + k] = <<n + 1, (a + k) - a>>
      BY <1>5, <3>2
    <3> QED BY <2>2, <3>2, <3>3
  <2> QED BY <2>1, <2>2
<1>9. ASSUME NEW l \in 1..(a + b), NEW m \in 1..(a + b), l < m PROVE Before(more[l], more[m])
  <2>1. CASE m <= a
    <3>1. l \in 1..a /\ m \in 1..a
      BY <1>1, <1>9, <2>1
    <3>2. Before(at[l], at[m])
      BY <1>9, <3>1 DEF IsFlat, a
    <3> QED BY <1>4, <3>1, <3>2
  <2>2. CASE l > a
    <3>1. m > a /\ l - a < m - a
      BY <1>1, <1>9, <2>2
    <3>2. more[l] = <<n + 1, l - a>> /\ more[m] = <<n + 1, m - a>>
      BY <1>5, <2>2, <3>1
    <3> QED BY <3>1, <3>2 DEF Before
  <2>3. CASE l <= a /\ m > a
    <3>1. l \in 1..a
      BY <1>1, <2>3
    <3>2. more[l][1] \in 1..n
      BY <1>4, <3>1
    <3>3. more[m][1] = n + 1
      BY <1>5, <2>3
    <3>4. more[l][1] < more[m][1]
      BY <3>2, <3>3
    <3> QED BY <3>4 DEF Before
  <2> QED BY <1>1, <2>1, <2>2, <2>3
<1>10. IsFlat(g, more, seqs, n + 1, A)
  <2>0. 1..Len(g) = 1..(a + b)
    BY <1>2
  <2>1. \A m \in 1..Len(g) :
          /\ more[m][1] \in 1..(n + 1) /\ more[m][2] \in 1..Len(seqs[more[m][1]])
          /\ g[m] = seqs[more[m][1]][more[m][2]]
    BY <1>7, <2>0
  <2>2. \A r \in 1..(n + 1) : \A k \in 1..Len(seqs[r]) :
          \E m \in 1..Len(g) : more[m] = <<r, k>>
    BY <1>8, <2>0
  <2>3. \A l, m \in 1..Len(g) : l < m => Before(more[l], more[m])
    BY <1>9, <2>0
  <2>4. more \in [1..Len(g) -> Nat \X Nat]
    BY <1>6, <2>0
  <2> QED BY <1>2, <2>1, <2>2, <2>3, <2>4, Zenon DEF IsFlat
<1> QED BY <1>10 DEF g, s

\* The recursion of FlattenSeq has a solution.
IsFlatten(it, seqs) ==
  it = [i \in 1..Len(seqs) |-> IF i = 1 THEN seqs[i] ELSE it[i - 1] \o seqs[i]]

LEMMA FlattenExists ==
  ASSUME NEW A, NEW seqs \in Seq(Seq(A))
  PROVE  \E it : IsFlatten(it, seqs)
<1> DEFINE n == Len(seqs)
           step == [i \in 1..n |-> [v \in Seq(A) |-> v \o seqs[i]]]
<1>1. n \in Nat /\ \A i \in 1..n : seqs[i] \in Seq(A)
  OBVIOUS
<1> HIDE DEF n
<1>2. <<>> \in Seq(A) /\ step \in [1..n -> [Seq(A) -> Seq(A)]]
  <2>1. ASSUME NEW i \in 1..n PROVE [v \in Seq(A) |-> v \o seqs[i]] \in [Seq(A) -> Seq(A)]
    <3>1. \A v \in Seq(A) : v \o seqs[i] \in Seq(A)
      BY <1>1
    <3> QED BY <3>1
  <2> QED BY <2>1
<1> HIDE DEF step
<1>3. PICK it : IsSteps(it, n, Seq(A), <<>>, step)
  BY <1>1, <1>2, StepsExist
<1>4. PICK g : g = [i \in 1..n |-> it[1..i]]
  OBVIOUS
<1>5. ASSUME NEW i \in 1..n PROVE it[1..i] = it[1..(i - 1)] \o seqs[i]
  <2>1. /\ 1..i # {} /\ 1..i \in SUBSET (1..n) /\ i - 1 \in 0..n
        /\ Max(1..i) = i /\ (1..i) \ {i} = 1..(i - 1)
    BY <1>1, UpTo
  <2>2. it[1..i] = step[i][it[1..(i - 1)]]
    BY <1>3, <2>1 DEF IsSteps
  <2>3. 1..(i - 1) \in SUBSET (1..n)
    BY <2>1
  <2>4. it[1..(i - 1)] \in Seq(A)
    BY <1>3, <2>3 DEF IsSteps
  <2> QED BY <2>2, <2>4 DEF step
<1>6. ASSUME NEW i \in 1..n
      PROVE  g[i] = IF i = 1 THEN seqs[i] ELSE g[i - 1] \o seqs[i]
  <2>1. CASE i = 1
    <3>1. 1..(i - 1) = {}
      BY <2>1
    <3>2. g[i] = <<>> \o seqs[i]
      BY <1>3, <1>4, <1>5, <3>1 DEF IsSteps
    <3> QED BY <1>1, <2>1, <3>2
  <2>2. CASE i # 1
    <3>1. i - 1 \in 1..n
      BY <1>1, <2>2
    <3>2. g[i - 1] = it[1..(i - 1)] /\ g[i] = it[1..i]
      BY <1>4, <3>1
    <3> QED BY <1>5, <2>2, <3>2
  <2> QED BY <2>1, <2>2
<1>7. g = [i \in 1..n |-> IF i = 1 THEN seqs[i] ELSE g[i - 1] \o seqs[i]]
  BY <1>4, <1>6
<1> QED BY <1>7 DEF IsFlatten, n

LEMMA FlattenIs ==
  ASSUME NEW A, NEW seqs \in Seq(Seq(A))
  PROVE  \E at : IsFlat(FlattenSeq(seqs), at, seqs, Len(seqs), A)
<1> DEFINE n == Len(seqs)
           it == CHOOSE g : IsFlatten(g, seqs)
           T == {i \in 0..n : \E f, at : IsFlat(f, at, seqs, i, A) /\ (i # 0 => f = it[i])}
<1>1. n \in Nat /\ \A i \in 1..n : seqs[i] \in Seq(A)
  OBVIOUS
<1>2. IsFlatten(it, seqs)
  BY FlattenExists, Zenon
<1>3. FlattenSeq(seqs) = IF n = 0 THEN seqs ELSE it[n]
  BY Zenon DEF FlattenSeq, IsFlatten
<1> HIDE DEF it
<1>4. ASSUME NEW i \in 1..n PROVE it[i] = IF i = 1 THEN seqs[i] ELSE it[i - 1] \o seqs[i]
  BY <1>2 DEF IsFlatten
<1> HIDE DEF n
<1>5. IsFlat(<<>>, <<>>, seqs, 0, A)
  BY DEF IsFlat
<1>6. 0 \in T
  BY <1>1, <1>5
<1>7. ASSUME NEW i \in 1..n, i - 1 \in T PROVE i \in T
  <2>1. PICK f, at : IsFlat(f, at, seqs, i - 1, A) /\ (i - 1 # 0 => f = it[i - 1])
    BY <1>7
  <2>2. i - 1 \in Nat /\ (i - 1) + 1 = i /\ f \in Seq(A) /\ seqs[i] \in Seq(A) /\ i \in 0..n
    BY <1>1, <2>1 DEF IsFlat
  <2>3. PICK more : IsFlat(f \o seqs[i], more, seqs, i, A)
    BY <2>1, <2>2, FlatNext
  <2>4. f \o seqs[i] = it[i]
    <3>1. CASE i = 1
      <4>1. f = <<>>
        <5>1. Len(f) \in Nat /\ \A m \in 1..Len(f) : at[m][1] \in 1..(i - 1)
          BY <2>1, <2>2 DEF IsFlat
        <5>2. Len(f) = 0
          BY <5>1, <3>1
        <5> QED BY <2>2, <5>2
      <4> QED BY <1>4, <2>2, <3>1, <4>1
    <3>2. CASE i # 1
      <4>1. i - 1 # 0
        BY <2>2, <3>2
      <4> QED BY <1>4, <2>1, <3>2, <4>1
    <3> QED BY <3>1, <3>2
  <2>5. \E g, most : IsFlat(g, most, seqs, i, A) /\ (i # 0 => g = it[i])
    BY <2>3, <2>4
  <2> QED BY <2>2, <2>5
<1> HIDE DEF T
<1>8. n \in T
  <2>1. \A i \in 1..n : i - 1 \in T => i \in T
    BY <1>7
  <2>2. \A i \in 0..n : i \in T
    BY <1>1, <1>6, <2>1, CountUp
  <2> QED BY <1>1, <2>2
<1>9. PICK f, at : IsFlat(f, at, seqs, n, A) /\ (n # 0 => f = it[n])
  BY <1>8 DEF T
<1>10. CASE n = 0
  <2>1. seqs = <<>> /\ FlattenSeq(seqs) = <<>>
    BY <1>3, <1>10 DEF n
  <2> QED BY <1>5, <1>10, <2>1 DEF n
<1>11. CASE n # 0
  BY <1>3, <1>9, <1>11 DEF n
<1> QED BY <1>10, <1>11

-----------------------------------------------------------------------------
(***************************************************************************)
(* The slots of a document, and of one whose slots are half filled in.     *)
(***************************************************************************)
Docs == Seq(Seq(Cell))

\* The names that label a slot are from the set.
NamedIn(doc, names) ==
  \A place \in Places(doc) :
    LabelLike(At(doc, place)) \/ HasColon(At(doc, place)) => At(doc, place).name \in names

SlotOf(doc, names) == [label: names, place: Places(doc)]

LEMMA PlacesAre ==
  ASSUME NEW doc \in Docs
  PROVE  /\ DOMAIN doc = 1..Len(doc) /\ Len(doc) \in Nat
         /\ \A r \in 1..Len(doc) :
              /\ doc[r] \in Seq(Cell) /\ DOMAIN doc[r] = 1..Len(doc[r]) /\ Len(doc[r]) \in Nat
              /\ \A c \in 1..Len(doc[r]) :
                   <<r, c>> \in Places(doc) /\ doc[r][c] \in Cell
         /\ \A place \in Places(doc) :
              \E r \in 1..Len(doc) : \E c \in 1..Len(doc[r]) : place = <<r, c>>
<1>1. DOMAIN doc = 1..Len(doc) /\ Len(doc) \in Nat
  BY DEF Docs
<1>2. ASSUME NEW r \in 1..Len(doc)
      PROVE  doc[r] \in Seq(Cell) /\ DOMAIN doc[r] = 1..Len(doc[r]) /\ Len(doc[r]) \in Nat
  <2>1. doc[r] \in Seq(Cell)
    BY DEF Docs
  <2> QED BY <2>1
<1>3. ASSUME NEW r \in 1..Len(doc), NEW c \in 1..Len(doc[r])
      PROVE  <<r, c>> \in Places(doc) /\ doc[r][c] \in Cell
  <2>1. doc[r][c] \in Cell
    BY <1>2
  <2>2. <<r, c>> \in {<<r, d>> : d \in DOMAIN doc[r]} /\ r \in DOMAIN doc
    BY <1>1, <1>2
  <2> QED BY <2>1, <2>2 DEF Places
<1>4. ASSUME NEW place \in Places(doc)
      PROVE  \E r \in 1..Len(doc) : \E c \in 1..Len(doc[r]) : place = <<r, c>>
  <2>1. PICK r \in DOMAIN doc : place \in {<<r, c>> : c \in DOMAIN doc[r]}
    BY DEF Places
  <2>2. PICK c \in DOMAIN doc[r] : place = <<r, c>>
    BY <2>1
  <2> QED BY <1>1, <1>2, <2>1, <2>2
<1> QED BY <1>1, <1>2, <1>3, <1>4

\* What TableSlots returns for a row: nothing, the row below it, or columns of it.
RowOfSlots(s, doc, r, names) ==
  /\ s \in Seq(SlotOf(doc, names))
  /\ \A k \in 1..Len(s) :
       /\ ~HasColon(At(doc, s[k].place))
       /\ ~(r > 1 /\ Stacked(doc, r - 1))
       /\ s[k].place[1] = IF Stacked(doc, r) THEN r + 1 ELSE r
  /\ \A k, l \in 1..Len(s) : k # l => s[k].place # s[l].place

LEMMA TableSlotsAre ==
  ASSUME NEW doc \in Docs, NEW names, NamedIn(doc, names), NEW r \in 1..Len(doc)
  PROVE  RowOfSlots(TableSlots(doc, r), doc, r, names)
<1> DEFINE row == doc[r]
           m == Len(row)
           s == TableSlots(doc, r)
<1>1. row \in Seq(Cell) /\ DOMAIN row = 1..m /\ m \in Nat /\ DOMAIN doc = 1..Len(doc)
  BY PlacesAre
<1>2. CASE r > 1 /\ Stacked(doc, r - 1)
  <2>1. s = <<>>
    BY <1>2 DEF TableSlots
  <2> QED BY <2>1 DEF RowOfSlots
<1>3. CASE ~(r > 1 /\ Stacked(doc, r - 1)) /\ Stacked(doc, r)
  <2>1. s = [c \in 1..m |-> Slot(row[c].name, r + 1, c)]
    BY <1>1, <1>3 DEF TableSlots
  <2>2. r + 1 \in 1..Len(doc) /\ Len(doc[r + 1]) = m
    BY <1>1, <1>3 DEF Stacked
  <2>3. ASSUME NEW c \in 1..m
        PROVE  /\ s[c] \in SlotOf(doc, names) /\ s[c].place = <<r + 1, c>>
               /\ ~HasColon(At(doc, s[c].place))
    <3>1. s[c] = [label |-> row[c].name, place |-> <<r + 1, c>>]
      BY <2>1 DEF Slot
    <3>2. <<r + 1, c>> \in Places(doc) /\ <<r, c>> \in Places(doc)
      BY <2>2, PlacesAre
    <3>3. LabelLike(row[c]) /\ doc[r + 1][c].form = "blank"
      BY <1>1, <1>3 DEF Stacked
    <3>4. row[c].name \in names
      BY <3>2, <3>3 DEF NamedIn, At
    <3>5. ~HasColon(doc[r + 1][c])
      BY <3>3 DEF HasColon
    <3> QED BY <3>1, <3>2, <3>4, <3>5 DEF SlotOf, At
  <2> HIDE DEF m, s, row
  <2>4. s \in Seq(SlotOf(doc, names)) /\ Len(s) = m
    BY <1>1, <2>1, <2>3
  <2>5. \A k \in 1..Len(s) : s[k].place = <<r + 1, k>> /\ ~HasColon(At(doc, s[k].place))
    BY <2>3, <2>4
  <2>6. \A k \in 1..Len(s) : s[k].place[1] = r + 1
    BY <2>5
  <2>7. \A k, l \in 1..Len(s) : k # l => s[k].place # s[l].place
    BY <2>5
  <2> QED BY <1>3, <2>4, <2>5, <2>6, <2>7 DEF RowOfSlots, s
<1>4. CASE ~(r > 1 /\ Stacked(doc, r - 1)) /\ ~Stacked(doc, r)
  <2> DEFINE S == {c \in DOMAIN row : Paired(row, c)}
             heads == InOrder(S)
             n == Cardinality(S)
  <2>1. s = [k \in DOMAIN heads |-> Slot(row[heads[k]].name, r, heads[k] + 1)]
    BY <1>4 DEF TableSlots
  <2>2. S \subseteq 1..m
    BY <1>1
  <2>3. /\ n \in Nat /\ DOMAIN heads = 1..n
        /\ \A k \in 1..n : heads[k] \in S
        /\ \A i, j \in 1..n : i < j => heads[i] < heads[j]
    <3> HIDE DEF S, m
    <3> QED BY <1>1, <2>2, PositionsInOrder
  <2>4. ASSUME NEW c \in S
        PROVE  /\ c \in 1..m /\ c + 1 \in 1..m /\ LabelLike(row[c]) /\ ~HasColon(row[c + 1])
    BY <1>1 DEF Paired
  <2> HIDE DEF heads, n, S, s
  <2>5. ASSUME NEW k \in 1..n
        PROVE  /\ s[k] \in SlotOf(doc, names) /\ s[k].place = <<r, heads[k] + 1>>
               /\ ~HasColon(At(doc, s[k].place))
    <3>1. s[k] = [label |-> row[heads[k]].name, place |-> <<r, heads[k] + 1>>]
      BY <2>1, <2>3 DEF Slot
    <3>2. /\ heads[k] \in 1..m /\ heads[k] + 1 \in 1..m
          /\ LabelLike(row[heads[k]]) /\ ~HasColon(row[heads[k] + 1])
      BY <2>3, <2>4
    <3>3. <<r, heads[k]>> \in Places(doc) /\ <<r, heads[k] + 1>> \in Places(doc)
      BY <3>2, PlacesAre
    <3>4. row[heads[k]].name \in names
      BY <3>2, <3>3 DEF NamedIn, At
    <3> QED BY <3>1, <3>2, <3>3, <3>4 DEF SlotOf, At
  <2>6. s \in Seq(SlotOf(doc, names)) /\ Len(s) = n
    BY <2>1, <2>3, <2>5
  <2>7. \A k \in 1..Len(s) :
          s[k].place = <<r, heads[k] + 1>> /\ ~HasColon(At(doc, s[k].place))
    BY <2>5, <2>6
  <2>8. ASSUME NEW k \in 1..Len(s), NEW l \in 1..Len(s), k # l
        PROVE  s[k].place # s[l].place
    <3>1. heads[k] \in Nat /\ heads[l] \in Nat
      <4>1. heads[k] \in 1..m /\ heads[l] \in 1..m
        BY <2>3, <2>4, <2>6
      <4> QED BY <4>1
    <3>2. heads[k] # heads[l]
      BY <2>3, <2>6, <2>8, <3>1
    <3>3. heads[k] + 1 # heads[l] + 1
      BY <3>1, <3>2
    <3> QED BY <2>7, <3>3
  <2>9. \A k \in 1..Len(s) : s[k].place[1] = r
    BY <2>7
  <2> QED BY <1>4, <2>6, <2>7, <2>8, <2>9 DEF RowOfSlots, s
<1> QED BY <1>2, <1>3, <1>4

\* What ParagraphSlots returns for a row: its columns of that form, in order.
Lines(doc, r) == {c \in DOMAIN doc[r] : doc[r][c].form \in {"bracket", "field"}}

LinesInOrder(s, doc, r, names) ==
  /\ s \in Seq(SlotOf(doc, names))
  /\ \A k \in 1..Len(s) : \E c \in Lines(doc, r) : s[k].place = <<r, c>>
  /\ \A c \in Lines(doc, r) : \E k \in 1..Len(s) : s[k].place = <<r, c>>
  /\ \A k, l \in 1..Len(s) : k < l => Before(s[k].place, s[l].place)

LEMMA ParagraphSlotsAre ==
  ASSUME NEW doc \in Docs, NEW names, NamedIn(doc, names), NEW r \in 1..Len(doc)
  PROVE  LinesInOrder(ParagraphSlots(doc, r), doc, r, names)
<1> DEFINE row == doc[r]
           m == Len(row)
           s == ParagraphSlots(doc, r)
           S == Lines(doc, r)
           cols == InOrder(S)
           n == Cardinality(S)
<1>1. row \in Seq(Cell) /\ DOMAIN row = 1..m /\ m \in Nat /\ DOMAIN doc = 1..Len(doc)
  BY PlacesAre
<1>2. S \subseteq 1..m
  BY <1>1 DEF Lines
<1>3. s = [k \in DOMAIN cols |-> Slot(row[cols[k]].name, r, cols[k])]
  BY DEF ParagraphSlots, Lines
<1> HIDE DEF S
<1>4. /\ n \in Nat /\ DOMAIN cols = 1..n
      /\ \A k \in 1..n : cols[k] \in S
      /\ \A x \in S : \E k \in 1..n : cols[k] = x
      /\ \A i, j \in 1..n : i < j => cols[i] < cols[j]
  <2> HIDE DEF m
  <2> QED BY <1>1, <1>2, PositionsInOrder
<1> HIDE DEF cols, n, s
<1>5. ASSUME NEW k \in 1..n
      PROVE  s[k] \in SlotOf(doc, names) /\ s[k].place = <<r, cols[k]>>
  <2>1. s[k] = [label |-> row[cols[k]].name, place |-> <<r, cols[k]>>]
    BY <1>3, <1>4 DEF Slot
  <2>2. cols[k] \in 1..m /\ (LabelLike(row[cols[k]]) \/ HasColon(row[cols[k]]))
    BY <1>2, <1>4 DEF S, Lines, LabelLike, HasColon
  <2>3. <<r, cols[k]>> \in Places(doc)
    BY <2>2, PlacesAre
  <2>4. row[cols[k]].name \in names
    BY <2>2, <2>3 DEF NamedIn, At
  <2> QED BY <2>1, <2>3, <2>4 DEF SlotOf
<1>6. s \in Seq(SlotOf(doc, names)) /\ Len(s) = n
  BY <1>3, <1>4, <1>5
<1>7. \A k \in 1..Len(s) : s[k].place = <<r, cols[k]>> /\ cols[k] \in S
  BY <1>4, <1>5, <1>6
<1>8. \A c \in S : \E k \in 1..Len(s) : s[k].place = <<r, c>>
  BY <1>4, <1>5, <1>6
<1>9. \A k, l \in 1..Len(s) : k < l => Before(s[k].place, s[l].place)
  BY <1>4, <1>6, <1>7 DEF Before
<1> QED BY <1>6, <1>7, <1>8, <1>9 DEF s, S, LinesInOrder

\* The first pass: no two slots at one place, and none on a line "Label: value".
LEMMA TablePassIs ==
  ASSUME NEW doc \in Docs, NEW names, NamedIn(doc, names)
  PROVE  /\ TablePass(doc) \in Seq(SlotOf(doc, names))
         /\ \A k \in 1..Len(TablePass(doc)) : ~HasColon(At(doc, TablePass(doc)[k].place))
         /\ \A k, l \in 1..Len(TablePass(doc)) :
              k # l => TablePass(doc)[k].place # TablePass(doc)[l].place
<1> DEFINE seqs == [r \in DOMAIN doc |-> TableSlots(doc, r)]
           n == Len(doc)
           f == TablePass(doc)
<1>1. DOMAIN doc = 1..n /\ n \in Nat
  BY PlacesAre
<1>2. ASSUME NEW r \in 1..n
      PROVE  RowOfSlots(seqs[r], doc, r, names)
  <2>1. seqs[r] = TableSlots(doc, r)
    BY <1>1
  <2> HIDE DEF seqs
  <2> QED BY <2>1, TableSlotsAre
<1>3. seqs \in Seq(Seq(SlotOf(doc, names))) /\ Len(seqs) = n
  BY <1>1, <1>2 DEF RowOfSlots
<1>4. f = FlattenSeq(seqs)
  BY DEF TablePass
<1> HIDE DEF seqs, n, f
<1>5. PICK at : IsFlat(f, at, seqs, n, SlotOf(doc, names))
  BY <1>3, <1>4, FlattenIs
<1>6. ASSUME NEW k \in 1..Len(f)
      PROVE  /\ at[k][1] \in 1..n /\ at[k][2] \in 1..Len(seqs[at[k][1]])
             /\ f[k] = seqs[at[k][1]][at[k][2]]
  BY <1>5 DEF IsFlat
<1>7. ASSUME NEW k \in 1..Len(f), NEW l \in 1..Len(f), k < l
      PROVE  f[k].place # f[l].place
  <2> DEFINE r == at[k][1]
             q == at[l][1]
             i == at[k][2]
             j == at[l][2]
  <2>1. r \in 1..n /\ q \in 1..n /\ i \in 1..Len(seqs[r]) /\ j \in 1..Len(seqs[q])
    BY <1>6
  <2>2. f[k] = seqs[r][i] /\ f[l] = seqs[q][j]
    BY <1>6
  <2>3. r < q \/ (r = q /\ i < j)
    BY <1>5, <1>7 DEF IsFlat, Before
  <2> HIDE DEF r, q, i, j
  <2>4. CASE r = q
    <3>1. i # j
      <4>1. Len(seqs[r]) \in Nat
        BY <1>2, <2>1 DEF RowOfSlots
      <4> QED BY <2>1, <2>3, <2>4, <4>1
    <3>2. seqs[r][i].place # seqs[r][j].place
      BY <1>2, <2>1, <2>4, <3>1 DEF RowOfSlots
    <3> QED BY <2>2, <2>4, <3>2
  <2>5. CASE r < q
    <3>1. /\ seqs[r][i].place[1] = (IF Stacked(doc, r) THEN r + 1 ELSE r)
          /\ seqs[q][j].place[1] = (IF Stacked(doc, q) THEN q + 1 ELSE q)
          /\ ~(q > 1 /\ Stacked(doc, q - 1))
      BY <1>2, <2>1 DEF RowOfSlots
    <3>2. seqs[r][i].place[1] # seqs[q][j].place[1]
      <4>1. r \in Nat /\ q \in Nat /\ r >= 1
        BY <1>1, <2>1
      <4>2. CASE Stacked(doc, r)
        <5>1. q # r + 1
          BY <2>5, <3>1, <4>1, <4>2
        <5> QED BY <2>5, <3>1, <4>1, <4>2, <5>1
      <4>3. CASE ~Stacked(doc, r)
        BY <2>5, <3>1, <4>1, <4>3
      <4> QED BY <4>2, <4>3
    <3> QED BY <2>2, <3>2
  <2> QED BY <2>3, <2>4, <2>5
<1>8. f \in Seq(SlotOf(doc, names)) /\ Len(f) \in Nat
  BY <1>5 DEF IsFlat
<1>9. ASSUME NEW k \in 1..Len(f) PROVE ~HasColon(At(doc, f[k].place))
  <2> DEFINE r == at[k][1]
             i == at[k][2]
  <2>1. r \in 1..n /\ i \in 1..Len(seqs[r]) /\ f[k] = seqs[r][i]
    BY <1>6
  <2> HIDE DEF r, i
  <2>2. ~HasColon(At(doc, seqs[r][i].place))
    BY <1>2, <2>1 DEF RowOfSlots
  <2> QED BY <2>1, <2>2
<1>10. ASSUME NEW k \in 1..Len(f), NEW l \in 1..Len(f), k # l
       PROVE  f[k].place # f[l].place
  <2>1. k < l \/ l < k
    BY <1>8, <1>10
  <2> QED BY <1>7, <2>1
<1> QED BY <1>8, <1>9, <1>10 DEF f

\* The second pass: the placeholders and the lines "Label: value", from the top.
OnLine(doc) == {place \in Places(doc) : At(doc, place).form \in {"bracket", "field"}}

LEMMA ParagraphPassIs ==
  ASSUME NEW doc \in Docs, NEW names, NamedIn(doc, names)
  PROVE  /\ ParagraphPass(doc) \in Seq(SlotOf(doc, names))
         /\ \A k \in 1..Len(ParagraphPass(doc)) : ParagraphPass(doc)[k].place \in OnLine(doc)
         /\ \A place \in OnLine(doc) :
              \E k \in 1..Len(ParagraphPass(doc)) : ParagraphPass(doc)[k].place = place
         /\ \A k, l \in 1..Len(ParagraphPass(doc)) :
              k < l => Before(ParagraphPass(doc)[k].place, ParagraphPass(doc)[l].place)
<1> DEFINE seqs == [r \in DOMAIN doc |-> ParagraphSlots(doc, r)]
           n == Len(doc)
           f == ParagraphPass(doc)
<1>1. DOMAIN doc = 1..n /\ n \in Nat
  BY PlacesAre
<1>2. ASSUME NEW r \in 1..n
      PROVE  LinesInOrder(seqs[r], doc, r, names)
  <2>1. seqs[r] = ParagraphSlots(doc, r)
    BY <1>1
  <2> HIDE DEF seqs
  <2> QED BY <2>1, ParagraphSlotsAre
<1>3. seqs \in Seq(Seq(SlotOf(doc, names))) /\ Len(seqs) = n
  BY <1>1, <1>2 DEF LinesInOrder
<1>4. f = FlattenSeq(seqs)
  BY DEF ParagraphPass
<1> HIDE DEF seqs, n, f
<1>5. PICK at : IsFlat(f, at, seqs, n, SlotOf(doc, names))
  BY <1>3, <1>4, FlattenIs
<1>6. ASSUME NEW k \in 1..Len(f)
      PROVE  /\ at[k][1] \in 1..n /\ at[k][2] \in 1..Len(seqs[at[k][1]])
             /\ f[k] = seqs[at[k][1]][at[k][2]]
  BY <1>5 DEF IsFlat
<1>7. ASSUME NEW k \in 1..Len(f)
      PROVE  /\ f[k].place \in OnLine(doc) /\ f[k].place[1] = at[k][1]
  <2> DEFINE r == at[k][1]
             i == at[k][2]
  <2>1. r \in 1..n /\ i \in 1..Len(seqs[r]) /\ f[k] = seqs[r][i]
    BY <1>6
  <2> HIDE DEF r, i
  <2>2. PICK c \in Lines(doc, r) : seqs[r][i].place = <<r, c>>
    BY <1>2, <2>1 DEF LinesInOrder
  <2>3. r \in 1..Len(doc) /\ c \in 1..Len(doc[r])
    BY <2>1, PlacesAre DEF Lines, n
  <2>4. <<r, c>> \in Places(doc)
    BY <2>3, PlacesAre
  <2>5. f[k].place \in OnLine(doc)
    BY <2>1, <2>2, <2>4 DEF OnLine, At, Lines
  <2> QED BY <2>1, <2>2, <2>5 DEF r
<1>8. ASSUME NEW place \in OnLine(doc) PROVE \E k \in 1..Len(f) : f[k].place = place
  <2>0. PICK r \in 1..Len(doc) : \E c \in 1..Len(doc[r]) : place = <<r, c>>
    BY PlacesAre DEF OnLine
  <2>1. PICK c \in 1..Len(doc[r]) : place = <<r, c>>
    BY <2>0
  <2>2. c \in Lines(doc, r)
    BY <2>1, PlacesAre DEF OnLine, At, Lines
  <2>3. PICK i \in 1..Len(seqs[r]) : seqs[r][i].place = <<r, c>>
    BY <1>2, <2>2 DEF LinesInOrder, n
  <2>4. PICK k \in 1..Len(f) : at[k] = <<r, i>>
    BY <1>5, <2>3 DEF IsFlat, n
  <2>5. f[k] = seqs[at[k][1]][at[k][2]] /\ at[k][1] = r /\ at[k][2] = i
    BY <1>6, <2>4
  <2> QED BY <2>1, <2>3, <2>5
<1>9. ASSUME NEW k \in 1..Len(f), NEW l \in 1..Len(f), k < l
      PROVE  Before(f[k].place, f[l].place)
  <2> DEFINE r == at[k][1]
             i == at[k][2]
             q == at[l][1]
             j == at[l][2]
  <2>1. r < q \/ (r = q /\ i < j)
    BY <1>5, <1>9 DEF IsFlat, Before
  <2>2. f[k].place[1] = r /\ f[l].place[1] = q
    BY <1>7
  <2>3. /\ r \in 1..n /\ i \in 1..Len(seqs[r]) /\ j \in 1..Len(seqs[q])
        /\ f[k] = seqs[r][i] /\ f[l] = seqs[q][j]
    BY <1>6
  <2> HIDE DEF r, i, q, j
  <2>4. CASE r < q
    BY <2>2, <2>4 DEF Before
  <2>5. CASE r = q /\ i < j
    <3>1. Before(seqs[r][i].place, seqs[r][j].place)
      BY <1>2, <2>3, <2>5 DEF LinesInOrder
    <3> QED BY <2>3, <2>5, <3>1
  <2> QED BY <2>1, <2>4, <2>5
<1>10. f \in Seq(SlotOf(doc, names))
  BY <1>5 DEF IsFlat
<1> QED BY <1>7, <1>8, <1>9, <1>10 DEF f

\* The slots the wizard shows.
LEMMA SlotsAre ==
  ASSUME NEW doc \in Docs, NEW names, NamedIn(doc, names)
  PROVE  /\ Slots(doc) \in Seq(SlotOf(doc, names))
         /\ Len(TablePass(doc)) \in Nat /\ Len(ParagraphPass(doc)) \in Nat
         /\ DOMAIN Slots(doc) = 1..(Len(TablePass(doc)) + Len(ParagraphPass(doc)))
         /\ \A i \in 1..Len(TablePass(doc)) : Slots(doc)[i] = TablePass(doc)[i]
         /\ \A k \in 1..Len(ParagraphPass(doc)) :
              Slots(doc)[k + Len(TablePass(doc))] = ParagraphPass(doc)[k]
<1> DEFINE f == TablePass(doc)
           g == ParagraphPass(doc)
<1>1. f \in Seq(SlotOf(doc, names)) /\ g \in Seq(SlotOf(doc, names)) /\ Slots(doc) = f \o g
  BY TablePassIs, ParagraphPassIs DEF Slots
<1> HIDE DEF f, g
<1> QED BY <1>1 DEF f, g

\* Two listings of places from the top agree as far as the places they list do.
Listing(p, n, B) ==
  /\ \A k \in 1..n : p[k] \in B
  /\ \A x \in B : \E k \in 1..n : p[k] = x
  /\ \A k, l \in 1..n : k < l => Before(p[k], p[l])

LEMMA BeforeOnce ==
  ASSUME NEW p \in Nat \X Nat, NEW q \in Nat \X Nat, Before(p, q)
  PROVE  p # q /\ ~Before(q, p)
BY DEF Before

LEMMA ListingsAgree ==
  ASSUME NEW a \in Nat, NEW b \in Nat, NEW p, NEW q, NEW B, NEW C,
         Listing(p, a, B), Listing(q, b, C), C \subseteq B, B \subseteq Nat \X Nat,
         NEW k \in 1..a, \A x \in B : x = p[k] \/ Before(x, p[k]) => x \in C
  PROVE  k \in 1..b /\ q[k] = p[k]
<1> DEFINE T == {i \in 0..k : \A j \in 1..i : j \in 1..b /\ q[j] = p[j]}
<1>1. 0 \in T
  OBVIOUS
<1>2. ASSUME NEW i \in 1..k, i - 1 \in T PROVE i \in T
  <2>1. \A j \in 1..(i - 1) : j \in 1..b /\ q[j] = p[j]
    BY <1>2
  <2>2. i \in 1..a /\ i \in 0..k /\ p[i] \in B
    BY DEF Listing
  <2>3. p[i] \in C
    <3>1. i = k \/ i < k
      OBVIOUS
    <3>2. p[i] = p[k] \/ Before(p[i], p[k])
      BY <2>2, <3>1 DEF Listing
    <3> QED BY <2>2, <3>2
  <2>4. PICK m \in 1..b : q[m] = p[i]
    BY <2>3 DEF Listing
  <2>5. ~(m < i)
    <3> SUFFICES ASSUME m < i PROVE FALSE
      OBVIOUS
    <3>1. m \in 1..(i - 1) /\ m \in 1..a
      BY <2>2
    <3>2. Before(p[m], p[i])
      BY <2>2, <3>1 DEF Listing
    <3>3. p[m] # p[i]
      <4>1. p[m] \in B
        BY <3>1 DEF Listing
      <4> QED BY <2>2, <3>2, <4>1, BeforeOnce
    <3> QED BY <2>1, <2>4, <3>1, <3>3
  <2>6. i \in 1..b
    BY <2>5
  <2>7. q[i] \in C /\ q[i] \in B
    BY <2>6 DEF Listing
  <2>8. PICK l \in 1..a : p[l] = q[i]
    BY <2>7 DEF Listing
  <2>9. m = i
    <3> SUFFICES ASSUME i < m PROVE FALSE
      BY <2>5
    <3>1. Before(q[i], p[i])
      BY <2>4, <2>6 DEF Listing
    <3>2. q[i] # p[i] /\ ~Before(p[i], q[i])
      BY <2>2, <2>7, <3>1, BeforeOnce
    <3>3. ~(i < l)
      BY <2>2, <2>8, <3>2 DEF Listing
    <3>4. l < i
      BY <2>8, <3>2, <3>3
    <3>5. l \in 1..(i - 1) /\ l \in 1..b
      BY <2>6, <3>4
    <3>6. q[l] = q[i]
      BY <2>1, <2>8, <3>5
    <3>7. Before(q[l], q[i])
      BY <2>6, <3>4, <3>5 DEF Listing
    <3> QED BY <2>7, <3>6, <3>7, BeforeOnce
  <2>10. \A j \in 1..i : j \in 1..(i - 1) \/ j = i
    OBVIOUS
  <2> QED BY <2>1, <2>2, <2>4, <2>6, <2>9, <2>10
<1> HIDE DEF T
<1>3. \A i \in 1..k : i - 1 \in T => i \in T
  BY <1>2
<1>4. k \in T
  <2>1. k \in Nat /\ k \in 0..k
    OBVIOUS
  <2>2. \A i \in 0..k : i \in T
    BY <1>1, <1>3, <2>1, CountUp
  <2> QED BY <2>1, <2>2
<1>5. k \in 1..k
  OBVIOUS
<1> QED BY <1>4, <1>5 DEF T

-----------------------------------------------------------------------------
(***************************************************************************)
(* Filling in.                                                             *)
(***************************************************************************)
LEMMA FilledType ==
  ASSUME NEW cell \in Cell, NEW token \in Tokens
  PROVE  /\ Filled(cell, token) \in Cell
         /\ ~HasColon(cell) => Filled(cell, token).form = "token"
<1>1. CASE cell.form = "field"
  BY <1>1 DEF Cell, Filled, HasColon
<1>2. CASE cell.form # "field"
  BY <1>2 DEF Cell, Filled, Forms, HasColon
<1> QED BY <1>1, <1>2

InjectsInto(result, doc, slots, chosen) ==
  /\ result \in Docs
  /\ Places(result) = Places(doc)
  /\ \A i \in DOMAIN slots \cap DOMAIN chosen :
       At(result, slots[i].place) = Filled(At(doc, slots[i].place), chosen[i])
  /\ \A place \in Places(doc) :
       (\A i \in DOMAIN slots \cap DOMAIN chosen : slots[i].place # place) =>
         At(result, place) = At(doc, place)

LEMMA InjectIs ==
  ASSUME NEW doc \in Docs, NEW names, NEW slots \in Seq(SlotOf(doc, names)),
         \A k, l \in 1..Len(slots) : k # l => slots[k].place # slots[l].place,
         NEW D, NEW chosen \in [D -> Tokens]
  PROVE  InjectsInto(Inject(doc, slots, chosen), doc, slots, chosen)
<1> DEFINE Used == DOMAIN slots \cap DOMAIN chosen
           TokenAt(place) == {chosen[i] : i \in {j \in Used : slots[j].place = place}}
           Value(r, c) == IF TokenAt(<<r, c>>) = {} THEN doc[r][c]
                          ELSE Filled(doc[r][c], CHOOSE t \in TokenAt(<<r, c>>) : TRUE)
           result == Inject(doc, slots, chosen)
<1>1. result = [r \in 1..Len(doc) |-> [c \in 1..Len(doc[r]) |-> Value(r, c)]]
  <2>1. /\ DOMAIN doc = 1..Len(doc)
        /\ \A r \in 1..Len(doc) : DOMAIN doc[r] = 1..Len(doc[r])
    BY PlacesAre
  <2>2. result = [r \in DOMAIN doc |-> [c \in DOMAIN doc[r] |-> Value(r, c)]]
    BY Zenon DEF Inject
  <2> HIDE DEF result, Value
  <2> QED BY <2>1, <2>2
<1>2. ASSUME NEW i \in Used
      PROVE  i \in 1..Len(slots) /\ chosen[i] \in Tokens /\ slots[i].place \in Places(doc)
  <2>1. i \in 1..Len(slots) /\ slots[i] \in SlotOf(doc, names)
    OBVIOUS
  <2> QED BY <2>1 DEF SlotOf
<1>3. ASSUME NEW r \in 1..Len(doc), NEW c \in 1..Len(doc[r]) PROVE Value(r, c) \in Cell
  <2>1. doc[r][c] \in Cell
    BY PlacesAre
  <2>2. ASSUME TokenAt(<<r, c>>) # {}
        PROVE  (CHOOSE t \in TokenAt(<<r, c>>) : TRUE) \in Tokens
    <3>1. TokenAt(<<r, c>>) \subseteq Tokens
      BY <1>2
    <3> HIDE DEF TokenAt
    <3> QED BY <2>2, <3>1
  <2> HIDE DEF TokenAt
  <2> QED BY <2>1, <2>2, FilledType
<1> HIDE DEF Value, result
<1>4. /\ result \in Docs /\ Len(result) = Len(doc)
      /\ \A r \in 1..Len(doc) :
           /\ Len(result[r]) = Len(doc[r])
           /\ \A c \in 1..Len(doc[r]) : result[r][c] = Value(r, c)
  <2>1. Len(doc) \in Nat /\ \A r \in 1..Len(doc) : Len(doc[r]) \in Nat
    BY PlacesAre
  <2>2. ASSUME NEW r \in 1..Len(doc)
        PROVE  /\ result[r] \in Seq(Cell) /\ Len(result[r]) = Len(doc[r])
               /\ \A c \in 1..Len(doc[r]) : result[r][c] = Value(r, c)
    <3>1. result[r] = [c \in 1..Len(doc[r]) |-> Value(r, c)]
      BY <1>1
    <3>2. \A c \in 1..Len(doc[r]) : Value(r, c) \in Cell
      BY <1>3
    <3> QED BY <2>1, <3>1, <3>2
  <2>3. result \in Seq(Seq(Cell)) /\ Len(result) = Len(doc)
    BY <1>1, <2>1, <2>2
  <2> QED BY <2>2, <2>3 DEF Docs
<1>5. Places(result) = Places(doc)
  <2>1. ASSUME NEW place \in Places(doc) PROVE place \in Places(result)
    <3>1. PICK r \in 1..Len(doc) : \E c \in 1..Len(doc[r]) : place = <<r, c>>
      BY PlacesAre
    <3> QED BY <1>4, <3>1, PlacesAre
  <2>2. ASSUME NEW place \in Places(result) PROVE place \in Places(doc)
    <3>1. PICK r \in 1..Len(result) : \E c \in 1..Len(result[r]) : place = <<r, c>>
      BY <1>4, PlacesAre
    <3> QED BY <1>4, <3>1, PlacesAre
  <2> QED BY <2>1, <2>2
<1>6. ASSUME NEW place \in Places(doc)
      PROVE  /\ TokenAt(place) = {} => At(result, place) = At(doc, place)
             /\ \A t : TokenAt(place) = {t} => At(result, place) = Filled(At(doc, place), t)
  <2>1. PICK r \in 1..Len(doc) : \E c \in 1..Len(doc[r]) : place = <<r, c>>
    BY PlacesAre
  <2>2. PICK c \in 1..Len(doc[r]) : place = <<r, c>>
    BY <2>1
  <2>3. At(result, place) = Value(r, c) /\ At(doc, place) = doc[r][c]
    BY <1>4, <2>2 DEF At
  <2> HIDE DEF TokenAt
  <2> QED BY <2>2, <2>3 DEF Value
<1>7. ASSUME NEW i \in Used
      PROVE  At(result, slots[i].place) = Filled(At(doc, slots[i].place), chosen[i])
  <2>1. \A j \in Used : slots[j].place = slots[i].place => j = i
    BY <1>2
  <2>2. TokenAt(slots[i].place) = {chosen[i]}
    BY <2>1
  <2> HIDE DEF TokenAt, Used
  <2> QED BY <1>2, <1>6, <2>2
<1>8. ASSUME NEW place \in Places(doc), \A i \in Used : slots[i].place # place
      PROVE  At(result, place) = At(doc, place)
  <2>1. TokenAt(place) = {}
    BY <1>8
  <2> HIDE DEF TokenAt, Used
  <2> QED BY <1>6, <2>1
<1> QED BY <1>4, <1>5, <1>7, <1>8 DEF InjectsInto, result

(***************************************************************************)
(* apply_field_mapping: the first pass fills in the slots of the tables,   *)
(* the second one goes over the half filled document.                      *)
(***************************************************************************)
Tags == Labels \cup Tokens \cup {NoName}

LEMMA AnyNamed == ASSUME NEW doc \in Docs PROVE NamedIn(doc, Tags)
<1> SUFFICES ASSUME NEW place \in Places(doc) PROVE At(doc, place).name \in Tags
  BY DEF NamedIn
<1>1. PICK r \in 1..Len(doc) : \E c \in 1..Len(doc[r]) : place = <<r, c>>
  BY PlacesAre
<1>2. PICK c \in 1..Len(doc[r]) : place = <<r, c>>
  BY <1>1
<1>3. At(doc, place) \in Cell
  BY <1>2, PlacesAre DEF At
<1> QED BY <1>3 DEF Cell, Tags

LEMMA PlacesPairs == ASSUME NEW doc \in Docs PROVE Places(doc) \subseteq Nat \X Nat
<1> SUFFICES ASSUME NEW place \in Places(doc) PROVE place \in Nat \X Nat
  OBVIOUS
<1>1. PICK r \in 1..Len(doc) : \E c \in 1..Len(doc[r]) : place = <<r, c>>
  BY PlacesAre
<1> QED BY <1>1

Half(doc, chosen) == Inject(doc, TablePass(doc), chosen)

\* The choices of the second pass, by their numbers in it.
Later(doc, chosen) ==
  LET n == Len(TablePass(doc))
  IN  [k \in {i - n : i \in {j \in DOMAIN chosen : j > n}} |-> chosen[k + n]]

LEMMA ApplyMappingIs ==
  ASSUME NEW doc \in Docs, NEW D, D \subseteq Nat, NEW chosen \in [D -> Tokens]
  PROVE  /\ InjectsInto(Half(doc, chosen), doc, TablePass(doc), chosen)
         /\ InjectsInto(ApplyMapping(doc, chosen), Half(doc, chosen),
                        ParagraphPass(Half(doc, chosen)), Later(doc, chosen))
<1> DEFINE n == Len(TablePass(doc))
           half == Half(doc, chosen)
           E == {i - n : i \in {j \in DOMAIN chosen : j > n}}
<1>1. /\ TablePass(doc) \in Seq(SlotOf(doc, Tags))
      /\ \A k, l \in 1..n : k # l => TablePass(doc)[k].place # TablePass(doc)[l].place
  BY AnyNamed, TablePassIs
<1>2. InjectsInto(half, doc, TablePass(doc), chosen)
  BY <1>1, InjectIs DEF Half
<1>3. half \in Docs
  BY <1>2 DEF InjectsInto
<1>4. n \in Nat
  BY <1>1
<1> HIDE DEF half, n
<1>5. /\ ParagraphPass(half) \in Seq(SlotOf(half, Tags))
      /\ \A k, l \in 1..Len(ParagraphPass(half)) :
           k < l => Before(ParagraphPass(half)[k].place, ParagraphPass(half)[l].place)
      /\ \A k \in 1..Len(ParagraphPass(half)) : ParagraphPass(half)[k].place \in OnLine(half)
  BY <1>3, AnyNamed, ParagraphPassIs
<1>6. \A k, l \in 1..Len(ParagraphPass(half)) :
        k # l => ParagraphPass(half)[k].place # ParagraphPass(half)[l].place
  <2> DEFINE q == ParagraphPass(half)
  <2>1. Len(q) \in Nat /\ \A k \in 1..Len(q) : q[k].place \in Nat \X Nat
    BY <1>3, <1>5, PlacesPairs DEF OnLine
  <2>2. \A k, l \in 1..Len(q) : k < l => Before(q[k].place, q[l].place)
    BY <1>5
  <2> HIDE DEF q
  <2>3. \A k, l \in 1..Len(q) : k < l => q[k].place # q[l].place
    BY <2>1, <2>2, BeforeOnce
  <2>4. \A k, l \in 1..Len(q) : k # l => k < l \/ l < k
    BY <2>1
  <2>5. \A k, l \in 1..Len(q) : k # l => q[k].place # q[l].place
    BY <2>3, <2>4
  <2> QED BY <2>5 DEF q
<1>7. Later(doc, chosen) \in [E -> Tokens]
  <2>1. Later(doc, chosen) = [k \in E |-> chosen[k + n]]
    BY DEF Later, n
  <2>2. ASSUME NEW k \in E PROVE chosen[k + n] \in Tokens
    <3>1. PICK i \in D : k = i - n
      OBVIOUS
    <3>2. k + n = i
      BY <1>4, <3>1
    <3> QED BY <3>2
  <2> HIDE DEF E
  <2> QED BY <2>1, <2>2
<1>8. ApplyMapping(doc, chosen) = Inject(half, ParagraphPass(half), Later(doc, chosen))
  BY DEF ApplyMapping, Half, Later, half
<1>9. InjectsInto(Inject(half, ParagraphPass(half), Later(doc, chosen)), half,
                  ParagraphPass(half), Later(doc, chosen))
  <2> HIDE DEF E
  <2> QED BY <1>3, <1>5, <1>6, <1>7, InjectIs
<1> QED BY <1>2, <1>8, <1>9 DEF half

\* The half filled document has fewer placeholders, at the same places.
HalfFilled(half, doc, first, D, chosen) ==
  /\ half \in Docs /\ Places(half) = Places(doc) /\ OnLine(half) \subseteq OnLine(doc)
  /\ \A i \in D \cap 1..Len(first) :
       /\ first[i].place \in Places(doc) /\ first[i].place \notin OnLine(half)
       /\ At(half, first[i].place) = Filled(At(doc, first[i].place), chosen[i])
  /\ \A place \in Places(doc) :
       (\A i \in D \cap 1..Len(first) : first[i].place # place) =>
         At(half, place) = At(doc, place)

LEMMA HalfIs ==
  ASSUME NEW doc \in Docs, NEW D, D \subseteq Nat, NEW chosen \in [D -> Tokens]
  PROVE  HalfFilled(Half(doc, chosen), doc, TablePass(doc), D, chosen)
<1> DEFINE f == TablePass(doc)
           half == Half(doc, chosen)
<1>1. /\ f \in Seq(SlotOf(doc, Tags))
      /\ \A k \in 1..Len(f) : ~HasColon(At(doc, f[k].place))
  BY AnyNamed, TablePassIs
<1>2. InjectsInto(half, doc, f, chosen)
  BY ApplyMappingIs
<1> HIDE DEF f, half
<1>3. DOMAIN f = 1..Len(f) /\ DOMAIN chosen = D
  BY <1>1
<1>4. /\ half \in Docs /\ Places(half) = Places(doc)
      /\ \A i \in D \cap 1..Len(f) : At(half, f[i].place) = Filled(At(doc, f[i].place), chosen[i])
      /\ \A place \in Places(doc) :
           (\A i \in D \cap 1..Len(f) : f[i].place # place) => At(half, place) = At(doc, place)
  BY <1>2, <1>3 DEF InjectsInto
<1>5. ASSUME NEW i \in D \cap 1..Len(f)
      PROVE  f[i].place \in Places(doc) /\ At(half, f[i].place).form = "token"
  <2>1. f[i].place \in Places(doc)
    <3>1. f[i] \in SlotOf(doc, Tags)
      BY <1>1
    <3> QED BY <3>1 DEF SlotOf
  <2>2. At(doc, f[i].place) \in Cell
    <3>1. PICK r \in 1..Len(doc) : \E c \in 1..Len(doc[r]) : f[i].place = <<r, c>>
      BY <2>1, PlacesAre
    <3>2. PICK c \in 1..Len(doc[r]) : f[i].place = <<r, c>>
      BY <3>1
    <3> QED BY <3>2, PlacesAre DEF At
  <2>3. chosen[i] \in Tokens /\ ~HasColon(At(doc, f[i].place))
    BY <1>1
  <2>4. Filled(At(doc, f[i].place), chosen[i]).form = "token"
    BY <2>2, <2>3, FilledType
  <2> QED BY <1>4, <2>1, <2>4
<1>6. ASSUME NEW place \in OnLine(half) PROVE place \in OnLine(doc)
  <2>1. place \in Places(doc) /\ At(half, place).form \in {"bracket", "field"}
    BY <1>4 DEF OnLine
  <2>2. \A i \in D \cap 1..Len(f) : f[i].place # place
    BY <1>5, <2>1
  <2>3. At(half, place) = At(doc, place)
    BY <1>4, <2>1, <2>2
  <2> QED BY <2>1, <2>3 DEF OnLine
<1>7. \A i \in D \cap 1..Len(f) : f[i].place \notin OnLine(half)
  BY <1>5 DEF OnLine
<1> QED BY <1>4, <1>5, <1>6, <1>7 DEF HalfFilled, f, half

\* The choices of the second pass that Misses describes.
LostIn(doc, chosen) ==
  LET first == Len(TablePass(doc))
  IN  {i \in DOMAIN chosen :
         /\ i > first
         /\ \E j \in DOMAIN chosen \cap 1..first :
              LET here  == Slots(doc)[i].place
                  there == Slots(doc)[j].place
              IN  /\ At(doc, there).form = "bracket"
                  /\ there[1] < here[1] \/ (there[1] = here[1] /\ there[2] <= here[2])}

SameNumber(q, p, k) == k \in 1..Len(q) /\ q[k].place = p[k].place

\* Any other slot of the second pass keeps its number.
LEMMA NumbersStay ==
  ASSUME NEW doc \in Docs, NEW D, D \subseteq Nat, NEW chosen \in [D -> Tokens],
         NEW k \in 1..Len(ParagraphPass(doc)),
         k + Len(TablePass(doc)) \in D, k + Len(TablePass(doc)) \notin LostIn(doc, chosen)
  PROVE  SameNumber(ParagraphPass(Half(doc, chosen)), ParagraphPass(doc), k)
<1> DEFINE first == TablePass(doc)
           n == Len(first)
           half == Half(doc, chosen)
           P == ParagraphPass(doc)
           Q == ParagraphPass(half)
           here == P[k].place
<1>0. HalfFilled(half, doc, first, D, chosen)
  BY HalfIs
<1>1. half \in Docs /\ Places(half) = Places(doc) /\ OnLine(half) \subseteq OnLine(doc)
  BY <1>0 DEF HalfFilled
<1>2. /\ P \in Seq(SlotOf(doc, Tags)) /\ \A l \in 1..Len(P) : P[l].place \in OnLine(doc)
      /\ \A place \in OnLine(doc) : \E l \in 1..Len(P) : P[l].place = place
      /\ \A l, m \in 1..Len(P) : l < m => Before(P[l].place, P[m].place)
  BY AnyNamed, ParagraphPassIs
<1>3. /\ Q \in Seq(SlotOf(half, Tags)) /\ \A l \in 1..Len(Q) : Q[l].place \in OnLine(half)
      /\ \A place \in OnLine(half) : \E l \in 1..Len(Q) : Q[l].place = place
      /\ \A l, m \in 1..Len(Q) : l < m => Before(Q[l].place, Q[m].place)
  <2> HIDE DEF half
  <2> QED BY <1>1, AnyNamed, ParagraphPassIs
<1>4. /\ n \in Nat /\ Slots(doc)[k + n].place = here
      /\ \A j \in 1..n : Slots(doc)[j] = first[j]
  BY AnyNamed, SlotsAre
<1>5. k \in Nat /\ k > 0 /\ OnLine(doc) \subseteq Nat \X Nat /\ here \in OnLine(doc)
  BY <1>2, PlacesPairs DEF OnLine
<1>6. ASSUME NEW place \in OnLine(doc), place = here \/ Before(place, here)
      PROVE  place \in OnLine(half)
  <2>0. place \in Nat \X Nat /\ place \in Places(doc)
    BY <1>5 DEF OnLine
  <2>1. ASSUME NEW j \in D \cap 1..n PROVE first[j].place # place
    <3> SUFFICES ASSUME first[j].place = place PROVE FALSE
      OBVIOUS
    <3>1. ~HasColon(At(doc, first[j].place))
      BY AnyNamed, TablePassIs
    <3>2. At(doc, place).form = "bracket"
      BY <3>1 DEF OnLine, HasColon
    <3>3. place[1] < here[1] \/ (place[1] = here[1] /\ place[2] <= here[2])
      <4>1. place[2] \in Nat
        BY <2>0
      <4>2. CASE place = here
        BY <4>1, <4>2
      <4>3. CASE Before(place, here)
        <5>1. here[2] \in Nat
          BY <1>5
        <5> QED BY <4>1, <4>3, <5>1 DEF Before
      <4> QED BY <1>6, <4>2, <4>3
    <3>4. Slots(doc)[j].place = place /\ k + n > n /\ k + n \in D
      BY <1>4, <1>5
    <3>5. k + n \in LostIn(doc, chosen)
      <4> HIDE DEF here
      <4> QED BY <1>4, <3>2, <3>3, <3>4 DEF LostIn
    <3> QED BY <3>5
  <2>2. At(half, place) = At(doc, place)
    <3> HIDE DEF half, first
    <3>1. \A j \in D \cap 1..Len(first) : first[j].place # place
      BY <2>1
    <3> QED BY <1>0, <2>0, <3>1 DEF HalfFilled
  <2> QED BY <1>1, <2>0, <2>2 DEF OnLine
<1> DEFINE p == [l \in 1..Len(P) |-> P[l].place]
           q == [l \in 1..Len(Q) |-> Q[l].place]
<1> HIDE DEF P, Q, half, first
<1>7. Listing(p, Len(P), OnLine(doc)) /\ p[k] = here
  BY <1>2 DEF Listing, P
<1>8. Listing(q, Len(Q), OnLine(half))
  BY <1>3 DEF Listing
<1>9. Len(P) \in Nat /\ Len(Q) \in Nat /\ k \in 1..Len(P)
  BY <1>2, <1>3 DEF P
<1> HIDE DEF p, here
<1>10. k \in 1..Len(Q) /\ q[k] = p[k]
  <2> HIDE DEF q
  <2>1. \A x \in OnLine(doc) : x = p[k] \/ Before(x, p[k]) => x \in OnLine(half)
    BY <1>6, <1>7
  <2> QED BY <1>1, <1>5, <1>7, <1>8, <1>9, <2>1, ListingsAgree
<1>11. k \in 1..Len(Q) /\ Q[k].place = P[k].place
  BY <1>7, <1>10 DEF here
<1> QED BY <1>11 DEF SameNumber, P, Q, half

\* Each choice that is not lost lands in its slot; with none lost, nothing else changes.
LEMMA ChoicesLand ==
  ASSUME NEW doc \in Docs, NEW D, D \subseteq DOMAIN Slots(doc), NEW chosen \in [D -> Tokens]
  PROVE  /\ ApplyMapping(doc, chosen) \in Docs
         /\ \A i \in D \ LostIn(doc, chosen) :
              At(ApplyMapping(doc, chosen), Slots(doc)[i].place)
                = Filled(At(doc, Slots(doc)[i].place), chosen[i])
         /\ LostIn(doc, chosen) = {} =>
              \A place \in Places(doc) \ {Slots(doc)[i].place : i \in D} :
                At(ApplyMapping(doc, chosen), place) = At(doc, place)
<1> DEFINE first == TablePass(doc)
           n == Len(first)
           half == Half(doc, chosen)
           result == ApplyMapping(doc, chosen)
           P == ParagraphPass(doc)
           Q == ParagraphPass(half)
           later == Later(doc, chosen)
           E == {i - n : i \in {j \in D : j > n}}
           slots == Slots(doc)
<1>1. /\ n \in Nat /\ Len(P) \in Nat /\ DOMAIN slots = 1..(n + Len(P))
      /\ \A i \in 1..n : slots[i] = first[i]
      /\ \A k \in 1..Len(P) : slots[k + n] = P[k]
  BY AnyNamed, SlotsAre
<1>2. D \subseteq Nat /\ D \subseteq 1..(n + Len(P))
  BY <1>1
<1>2a. D \subseteq Nat
  BY <1>2
<1>2b. HalfFilled(half, doc, first, D, chosen)
  BY <1>2a, HalfIs
<1>3. /\ half \in Docs /\ Places(half) = Places(doc)
      /\ OnLine(half) \subseteq OnLine(doc)
      /\ \A i \in D \cap 1..n :
           /\ first[i].place \in Places(doc) /\ first[i].place \notin OnLine(half)
           /\ At(half, first[i].place) = Filled(At(doc, first[i].place), chosen[i])
      /\ \A place \in Places(doc) :
           (\A i \in D \cap 1..n : first[i].place # place) => At(half, place) = At(doc, place)
  <2> HIDE DEF half, first
  <2> QED BY <1>2b DEF HalfFilled
<1>4. InjectsInto(result, half, Q, later)
  BY <1>2, ApplyMappingIs
<1>5. Q \in Seq(SlotOf(half, Tags)) /\ \A k \in 1..Len(Q) : Q[k].place \in OnLine(half)
  <2> HIDE DEF half
  <2> QED BY <1>3, AnyNamed, ParagraphPassIs
<1>6. DOMAIN later = E /\ \A k \in E : later[k] = chosen[k + n]
  BY DEF Later
<1>7. ASSUME NEW k \in 1..Len(P), k + n \in D \ LostIn(doc, chosen)
      PROVE  k \in 1..Len(Q) /\ Q[k].place = P[k].place
  <2>1. k + n \in D /\ k + n \notin LostIn(doc, chosen)
    BY <1>7
  <2>2. SameNumber(Q, P, k)
    BY <1>2a, <2>1, NumbersStay
  <2> HIDE DEF P, Q
  <2> QED BY <2>2 DEF SameNumber
<1> HIDE DEF first, n, half, result, P, Q, later, slots
<1>8. DOMAIN Q = 1..Len(Q)
  BY <1>5
<1>9. /\ result \in Docs
      /\ \A k \in 1..Len(Q) \cap E :
           At(result, Q[k].place) = Filled(At(half, Q[k].place), chosen[k + n])
      /\ \A place \in Places(doc) :
           (\A k \in 1..Len(Q) \cap E : Q[k].place # place) => At(result, place) = At(half, place)
  <2> HIDE DEF E
  <2> QED BY <1>3, <1>4, <1>6, <1>8 DEF InjectsInto
<1>10. ASSUME NEW i \in D, i \in 1..n
       PROVE  At(result, slots[i].place) = Filled(At(doc, slots[i].place), chosen[i])
  <2>1. /\ first[i].place \in Places(doc) /\ first[i].place \notin OnLine(half)
        /\ At(half, first[i].place) = Filled(At(doc, first[i].place), chosen[i])
    BY <1>3, <1>10
  <2>2. \A k \in 1..Len(Q) \cap E : Q[k].place # first[i].place
    BY <1>5, <2>1
  <2>3. At(result, first[i].place) = At(half, first[i].place)
    BY <1>9, <2>1, <2>2
  <2>4. slots[i] = first[i]
    BY <1>1, <1>10
  <2> QED BY <2>1, <2>3, <2>4
<1>11. ASSUME NEW i \in D \ LostIn(doc, chosen), i > n
       PROVE  At(result, slots[i].place) = Filled(At(doc, slots[i].place), chosen[i])
  <2>1. PICK k \in 1..Len(P) : k = i - n /\ k + n = i
    <3>1. i \in 1..(n + Len(P))
      BY <1>2
    <3>2. i - n \in 1..Len(P) /\ (i - n) + n = i
      BY <1>1, <1>11, <3>1
    <3> QED BY <3>2
  <2>2. k \in 1..Len(Q) /\ Q[k].place = P[k].place /\ slots[i] = P[k]
    BY <1>1, <1>7, <2>1
  <2>3. k \in E
    BY <1>11, <2>1
  <2>4. At(result, slots[i].place) = Filled(At(half, slots[i].place), chosen[i])
    <3>1. At(result, Q[k].place) = Filled(At(half, Q[k].place), chosen[k + n])
      BY <1>9, <2>2, <2>3
    <3> QED BY <2>1, <2>2, <3>1
  <2>5. slots[i].place \in OnLine(half)
    BY <1>5, <2>2
  <2>6. slots[i].place \in Places(doc) /\ \A j \in D \cap 1..n : first[j].place # slots[i].place
    BY <1>3, <2>5 DEF OnLine
  <2>7. At(half, slots[i].place) = At(doc, slots[i].place)
    BY <1>3, <2>6
  <2> QED BY <2>4, <2>7
<1>12. ASSUME LostIn(doc, chosen) = {}, NEW place \in Places(doc),
              \A i \in D : slots[i].place # place
       PROVE  At(result, place) = At(doc, place)
  <2>1. \A i \in D \cap 1..n : first[i].place # place
    BY <1>1, <1>12
  <2>2. ASSUME NEW k \in 1..Len(Q) \cap E PROVE Q[k].place # place
    <3>1. PICK i \in D : i > n /\ k = i - n
      OBVIOUS
    <3>2. k \in 1..Len(P) /\ k + n = i
      <4>1. i \in 1..(n + Len(P))
        BY <1>2
      <4> QED BY <1>1, <3>1, <4>1
    <3>3. Q[k].place = P[k].place /\ slots[i] = P[k]
      BY <1>1, <1>7, <1>12, <3>2
    <3> QED BY <1>12, <3>3
  <2> QED BY <1>3, <1>9, <1>12, <2>1, <2>2
<1>13. ASSUME NEW i \in D PROVE i \in 1..n \/ i > n
  BY <1>1, <1>2
<1>14. \A i \in D \ LostIn(doc, chosen) :
         At(result, slots[i].place) = Filled(At(doc, slots[i].place), chosen[i])
  BY <1>10, <1>11, <1>13
<1>15. LostIn(doc, chosen) = {} =>
         \A place \in Places(doc) \ {slots[i].place : i \in D} :
           At(result, place) = At(doc, place)
  BY <1>12
<1> QED BY <1>9, <1>14, <1>15 DEF result, slots

\* A choice that the re-opened wizard shows: there are as many of its label among the
\* saved ones up to it as there are slots of its label.
LEMMA ChoiceIsShown ==
  ASSUME NEW doc \in Docs, NEW D, D \subseteq DOMAIN Slots(doc), NEW saved, DOMAIN saved = D,
         \A k \in D : saved[k].label = Slots(doc)[k].label,
         NEW i \in D, {j \in 1..i : Slots(doc)[j].label = Slots(doc)[i].label} \subseteq D,
         Slots(doc)[i].label # NoName
  PROVE  Shown(doc, saved)[i] = saved[i].token
<1> DEFINE slots == Slots(doc)
           J == {j \in 1..i : slots[j].label = slots[i].label}
           K == {k \in DOMAIN saved : saved[k].label = slots[i].label}
           nth == Cardinality(J)
           items == InOrder(K)
           m == Len(TablePass(doc)) + Len(ParagraphPass(doc))
<1>1. m \in Nat /\ DOMAIN slots = 1..m
  BY AnyNamed, SlotsAre
<1> HIDE DEF slots, m
<1>2. Shown(doc, saved)[i] = IF nth <= Len(items) THEN saved[items[nth]].token ELSE NoName
  BY DEF Shown, slots
<1>3. K \subseteq 1..m /\ i \in K /\ i \in 1..m /\ K \subseteq Nat
  BY <1>1 DEF slots
<1>4. J = Below(K, i) \cup {i} /\ i \notin Below(K, i)
  <2>1. \A j \in J : j \in K
    BY DEF slots
  <2>2. \A k \in K : slots[k].label = slots[i].label
    BY DEF slots
  <2>3. \A k \in K : k \in Nat /\ k > 0
    BY <1>3
  <2>4. \A j \in J : j = i \/ j < i
    BY <1>3
  <2>5. \A k \in K : k < i => k \in J
    BY <1>3, <2>2, <2>3
  <2>6. i \in J
    BY <1>3
  <2>7. i \in Nat /\ ~(i < i)
    BY <1>3
  <2> HIDE DEF J, K
  <2>8. ASSUME NEW j \in J PROVE j \in Below(K, i) \cup {i}
    BY <2>1, <2>4 DEF Below
  <2>9. ASSUME NEW j \in Below(K, i) \cup {i} PROVE j \in J
    BY <2>5, <2>6 DEF Below
  <2>10. i \notin Below(K, i)
    BY <2>7 DEF Below
  <2> QED BY <2>8, <2>9, <2>10
<1> HIDE DEF J, K
<1>4a. K \subseteq 1..m /\ m \in Nat
  BY <1>1, <1>3
<1>5. /\ IsFiniteSet(K) /\ Len(items) = Cardinality(K) /\ Cardinality(K) \in Nat
      /\ \A x \in K : \E k \in 1..Cardinality(K) : items[k] = x
  <2>1. m \in Nat
    BY <1>1
  <2>2. K \subseteq 1..m
    BY <1>4a
  <2>3. IsFiniteSet(K)
    BY <2>1, <2>2, PositionsInOrder
  <2>4. Len(items) = Cardinality(K) /\ Cardinality(K) \in Nat
    BY <2>1, <2>2, PositionsInOrder
  <2>5. K \subseteq Nat
    BY <1>3
  <2>6. \A x \in K : \E k \in 1..Cardinality(K) : items[k] = x
    BY <2>3, <2>5, InOrderIs
  <2> QED BY <2>3, <2>4, <2>6
<1>6. \A k \in 1..Cardinality(K) : Cardinality(Below(K, items[k])) = k - 1
  BY <1>3, <1>5, InOrderIs
<1>7. PICK k \in 1..Cardinality(K) : items[k] = i
  BY <1>3, <1>5
<1>8. IsFiniteSet(Below(K, i)) /\ Cardinality(Below(K, i)) = k - 1
  BY <1>3, <1>5, <1>6, <1>7, BelowCounts
<1>9. nth = k
  <2>1. Cardinality(Below(K, i) \cup {i}) = Cardinality(Below(K, i)) + 1
    BY <1>4, <1>8, FS_AddElement
  <2>2. k \in Nat
    BY <1>5
  <2> QED BY <1>4, <1>8, <2>1, <2>2
<1>10. nth <= Len(items)
  BY <1>5, <1>9
<1> HIDE DEF items, nth
<1> QED BY <1>2, <1>7, <1>9, <1>10

-----------------------------------------------------------------------------
(***************************************************************************)
(* The companies row, whatever the interleaving of requests.               *)
(***************************************************************************)
Row == [statutory: [rates: Rates, calendar: Calendars \cup {DefaultCalendar}],
        use: BOOLEAN, template: Docs, original: Documents \cup {NoDocument},
        mapping: Mappings \cup {NoMapping}]

TypeInv ==
  /\ company \in Row
  /\ holiday \in [Festive -> {"none", "kept", "deleted"}]
  /\ req \in [Workers -> [op: Ops \cup {"none"}, loaded: Row]]
  /\ \A w \in Workers : req[w].op = "map" => req[w].loaded.original # NoDocument
  /\ source \in Documents \cup {NoDocument}

LEMMA TypeInvType == TypeInv => TypeOK
<1> SUFFICES ASSUME TypeInv PROVE TypeOK
  OBVIOUS
<1>1. /\ company.statutory \in [rates: Rates, calendar: Calendars \cup {DefaultCalendar}]
      /\ company.use \in BOOLEAN
      /\ company.original \in Documents \cup {NoDocument}
      /\ company.template \in Docs
      /\ company.mapping \in Mappings \cup {NoMapping}
  BY DEF TypeInv, Row
<1>2. \A w \in Workers : req[w].op \in Ops \cup {"none"}
  BY DEF TypeInv
<1> QED BY <1>1, <1>2 DEF TypeInv, TypeOK, Docs

LEMMA DocumentsTyped ==
  ASSUME NEW doc \in Documents \cup {NoDocument}
  PROVE  doc \in Docs
<1>1. NoDocument \in Docs
  BY DEF NoDocument, Docs
<1> QED BY <1>1, DocumentsAssumption DEF Docs

LEMMA NewType == New \in Row
<1>1. NoDocument \in Docs
  BY DocumentsTyped
<1> QED BY <1>1, SettingsAssumption DEF New, Row

LEMMA InitTypeInv == Init => TypeInv
<1> SUFFICES ASSUME Init PROVE TypeInv
  OBVIOUS
<1>1. req \in [Workers -> [op: Ops \cup {"none"}, loaded: Row]]
  BY NewType DEF Init, Idle
<1>2. \A w \in Workers : req[w].op # "map"
  BY DEF Init, Idle
<1> QED BY <1>1, <1>2, NewType DEF Init, TypeInv

\* A mapping as it is saved, of a document that may be uploaded.
LEMMA SavedIs ==
  ASSUME NEW doc \in Documents, NEW D, D \subseteq DOMAIN Slots(doc),
         NEW chosen \in [D -> Tokens]
  PROVE  /\ Saved(doc, chosen) \in Mappings
         /\ DOMAIN Saved(doc, chosen) = D
         /\ \A i \in D : /\ Saved(doc, chosen)[i].token = chosen[i]
                         /\ Saved(doc, chosen)[i].label = Slots(doc)[i].label
<1>1. doc \in Docs /\ NamedIn(doc, Tags)
  BY DocumentsTyped, AnyNamed
<1>2. Slots(doc) \in Seq(SlotOf(doc, Tags))
  BY <1>1, SlotsAre
<1>3. \A i \in D : Slots(doc)[i].label \in Tags
  <2>1. \A i \in D : Slots(doc)[i] \in SlotOf(doc, Tags)
    BY <1>2
  <2> QED BY <2>1 DEF SlotOf
<1>4. Saved(doc, chosen)
        = [i \in D |-> [token |-> chosen[i], label |-> Slots(doc)[i].label]]
  BY DEF Saved
<1>5. Saved(doc, chosen) \in [D -> [token: Tokens, label: Tags]]
  BY <1>3, <1>4
<1>6. D \in UNION {SUBSET DOMAIN Slots(d) : d \in Documents}
  OBVIOUS
<1>7. Saved(doc, chosen) \in Mappings
  BY <1>5, <1>6 DEF Mappings, Tags
<1> QED BY <1>4, <1>7

LEMMA ChosenIs ==
  ASSUME NEW S, NEW payload \in [S -> Tokens \cup {NoName}]
  PROVE  \E D : D \subseteq S /\ Chosen(payload) \in [D -> Tokens]
<1> DEFINE D == {i \in DOMAIN payload : payload[i] # NoName}
<1>1. D \subseteq S /\ Chosen(payload) = [i \in D |-> payload[i]]
  BY DEF Chosen, Restrict
<1>2. \A i \in D : payload[i] \in Tokens
  OBVIOUS
<1>3. Chosen(payload) \in [D -> Tokens]
  BY <1>1, <1>2
<1> QED BY <1>1, <1>3

\* What each handler makes of a row is a row.
LEMMA MappedType ==
  ASSUME NEW row \in Row, row.original \in Documents,
         NEW D, D \subseteq DOMAIN Slots(row.original), NEW chosen \in [D -> Tokens]
  PROVE  Mapped(row, chosen) \in Row
<1>1. row.original \in Docs
  BY DocumentsTyped
<1>2. ApplyMapping(row.original, chosen) \in Docs
  BY <1>1, ChoicesLand
<1>3. Saved(row.original, chosen) \in Mappings
  BY SavedIs
<1> QED BY <1>2, <1>3 DEF Mapped, Row

LEMMA HandlersType ==
  ASSUME NEW row \in Row
  PROVE  /\ \A rates \in Rates : SaveRates(row, rates) \in Row
         /\ \A calendar \in Calendars : SaveCalendar(row, calendar) \in Row
         /\ \A use \in BOOLEAN : [row EXCEPT !.use = use] \in Row
         /\ \A doc \in Documents : Uploaded(row, doc) \in Row
         /\ Removed(row) \in Row
         /\ \A doc \in Documents : [row EXCEPT !.original = doc] \in Row
<1>1. \A rates \in Rates : SaveRates(row, rates) \in Row
  BY DEF SaveRates, Row
<1>2. ASSUME NEW calendar \in Calendars PROVE SaveCalendar(row, calendar) \in Row
  <2>1. [row.statutory EXCEPT !.calendar = calendar]
          \in [rates: Rates, calendar: Calendars \cup {DefaultCalendar}]
    BY DEF Row
  <2>2. SaveCalendar(row, calendar)
          = [row EXCEPT !.statutory = [row.statutory EXCEPT !.calendar = calendar]]
    BY DEF SaveCalendar, Row
  <2> QED BY <2>1, <2>2 DEF Row
<1>3. \A use \in BOOLEAN : [row EXCEPT !.use = use] \in Row
  BY DEF Row
<1>4. \A doc \in Documents \cup {NoDocument} : Uploaded(row, doc) \in Row
  <2>1. \A doc \in Documents \cup {NoDocument} : doc \in Docs
    BY DocumentsTyped
  <2> QED BY <2>1 DEF Uploaded, Row
<1>5. Removed(row) \in Row
  BY <1>4 DEF Removed, Row
<1>6. \A doc \in Documents : [row EXCEPT !.original = doc] \in Row
  BY DEF Row
<1> QED BY <1>1, <1>2, <1>3, <1>4, <1>5, <1>6

\* A commit writes a row, and leaves the other workers alone.
LEMMA CommitIs ==
  ASSUME TypeInv, NEW w \in Workers, NEW op, op # "none", NEW row \in Row, Commit(w, op, row)
  PROVE  /\ company' \in Row
         /\ req[w].loaded = company => company' = row
         /\ req' = [req EXCEPT ![w] = Idle] /\ req'[w].op = "none"
         /\ req[w].op = op /\ holiday' = holiday
<1> DEFINE old == req[w].loaded
<1>1. company \in Row /\ old \in Row
  BY DEF TypeInv
<1>2. /\ company' = [c \in DOMAIN company |-> Written(company[c], old[c], row[c])]
      /\ req' = [req EXCEPT ![w] = Idle] /\ req[w].op = op /\ holiday' = holiday
  BY DEF Commit
<1> HIDE DEF old
<1>3. DOMAIN company = {"statutory", "use", "template", "original", "mapping"}
  BY <1>1 DEF Row
<1>4. company' = [statutory |-> Written(company.statutory, old.statutory, row.statutory),
                  use |-> Written(company.use, old.use, row.use),
                  template |-> Written(company.template, old.template, row.template),
                  original |-> Written(company.original, old.original, row.original),
                  mapping |-> Written(company.mapping, old.mapping, row.mapping)]
  BY <1>2, <1>3
<1>5. company' \in Row
  BY <1>1, <1>4 DEF Written, Row
<1>6. ASSUME old = company PROVE company' = row
  <2>1. row = [statutory |-> row.statutory, use |-> row.use, template |-> row.template,
               original |-> row.original, mapping |-> row.mapping]
    BY DEF Row
  <2> QED BY <1>4, <1>6, <2>1 DEF Written
<1>7. req'[w].op = "none"
  BY <1>2 DEF TypeInv, Idle
<1> QED BY <1>2, <1>5, <1>6, <1>7 DEF old

LEMMA CommitTypeInv ==
  ASSUME TypeInv, NEW w \in Workers, NEW op, op # "none", NEW row \in Row, Commit(w, op, row),
         source' \in Documents \cup {NoDocument}
  PROVE  TypeInv'
<1>1. company' \in Row /\ req' = [req EXCEPT ![w] = Idle] /\ holiday' = holiday
  BY CommitIs
<1>2. req' \in [Workers -> [op: Ops \cup {"none"}, loaded: Row]]
  BY <1>1, NewType DEF Idle, TypeInv
<1>3. \A v \in Workers : req'[v].op = "map" => req'[v].loaded.original # NoDocument
  BY <1>1 DEF Idle, TypeInv
<1> QED BY <1>1, <1>2, <1>3 DEF TypeInv

\* The document the wizard maps, and the choices it sends.
LEMMA CommitMapIs ==
  ASSUME TypeInv, NEW w \in Workers, CommitMap(w)
  PROVE  LET doc == req[w].loaded.original
         IN  /\ doc \in Documents /\ doc # NoDocument /\ source' = doc
             /\ \E D : /\ D \subseteq DOMAIN Slots(doc)
                      /\ \E chosen \in [D -> Tokens] :
                           /\ Mapped(req[w].loaded, chosen) \in Row
                           /\ Commit(w, "map", Mapped(req[w].loaded, chosen))
<1> DEFINE doc == req[w].loaded.original
<1>1. req[w].op = "map" /\ source' = doc
  BY DEF CommitMap
<1>2. req[w].loaded \in Row /\ doc # NoDocument
  BY <1>1 DEF TypeInv
<1>3. doc \in Documents
  BY <1>2 DEF Row
<1>4. PICK payload \in [DOMAIN Slots(doc) -> Tokens \cup {NoName}] :
        Commit(w, "map", Mapped(req[w].loaded, Chosen(payload)))
  BY DEF CommitMap
<1>5. PICK D : D \subseteq DOMAIN Slots(doc) /\ Chosen(payload) \in [D -> Tokens]
  BY ChosenIs
<1>6. Mapped(req[w].loaded, Chosen(payload)) \in Row
  BY <1>2, <1>3, <1>5, MappedType
<1> QED BY <1>1, <1>2, <1>3, <1>4, <1>5, <1>6

LEMMA NextTypeInv == TypeInv /\ [Next]_vars => TypeInv'
<1> SUFFICES ASSUME TypeInv, [Next]_vars PROVE TypeInv'
  OBVIOUS
<1>1. CASE UNCHANGED vars
  BY <1>1 DEF vars, TypeInv
<1>2. ASSUME NEW w \in Workers, NEW op \in Ops, Load(w, op) PROVE TypeInv'
  <2>1. req' = [req EXCEPT ![w] = [op |-> op, loaded |-> company]]
        /\ UNCHANGED <<company, holiday, source>>
    BY <1>2 DEF Load
  <2>2. op = "map" => company.original # NoDocument
    BY <1>2 DEF Load
  <2> QED BY <2>1, <2>2 DEF TypeInv
<1>3. ASSUME NEW w \in Workers, CommitRates(w) PROVE TypeInv'
  <2>1. PICK rates \in Rates : Commit(w, "rates", SaveRates(req[w].loaded, rates))
    BY <1>3 DEF CommitRates
  <2>2. source' = source
    BY <1>3 DEF CommitRates
  <2>3. SaveRates(req[w].loaded, rates) \in Row /\ source' \in Documents \cup {NoDocument}
    BY <2>2, HandlersType DEF TypeInv
  <2> QED BY <2>1, <2>3, CommitTypeInv
<1>4. ASSUME NEW w \in Workers, CommitCalendar(w) PROVE TypeInv'
  <2>1. PICK calendar \in Calendars :
          Commit(w, "calendar", SaveCalendar(req[w].loaded, calendar))
    BY <1>4 DEF CommitCalendar
  <2>2. source' = source
    BY <1>4 DEF CommitCalendar
  <2>3. /\ SaveCalendar(req[w].loaded, calendar) \in Row
        /\ source' \in Documents \cup {NoDocument}
    BY <2>2, HandlersType DEF TypeInv
  <2> QED BY <2>1, <2>3, CommitTypeInv
<1>5. ASSUME NEW w \in Workers, CommitLayout(w) PROVE TypeInv'
  <2>1. PICK use \in BOOLEAN : Commit(w, "layout", [req[w].loaded EXCEPT !.use = use])
    BY <1>5 DEF CommitLayout
  <2>2. source' = source
    BY <1>5 DEF CommitLayout
  <2>3. /\ [req[w].loaded EXCEPT !.use = use] \in Row
        /\ source' \in Documents \cup {NoDocument}
    BY <2>2, HandlersType DEF TypeInv
  <2> QED BY <2>1, <2>3, CommitTypeInv
<1>6. ASSUME NEW w \in Workers, CommitUpload(w) PROVE TypeInv'
  <2>1. PICK doc \in Documents : Commit(w, "upload", Uploaded(req[w].loaded, doc))
    BY <1>6 DEF CommitUpload
  <2>2. Uploaded(req[w].loaded, doc) \in Row /\ source' \in Documents \cup {NoDocument}
    BY <1>6, HandlersType DEF TypeInv, CommitUpload
  <2> QED BY <2>1, <2>2, CommitTypeInv
<1>7. ASSUME NEW w \in Workers, CommitRemove(w) PROVE TypeInv'
  <2>1. Removed(req[w].loaded) \in Row /\ source' \in Documents \cup {NoDocument}
    BY <1>7, HandlersType DEF TypeInv, CommitRemove
  <2>2. Commit(w, "remove", Removed(req[w].loaded))
    BY <1>7 DEF CommitRemove
  <2> QED BY <2>1, <2>2, CommitTypeInv
<1>8. ASSUME NEW w \in Workers, CommitScan(w) PROVE TypeInv'
  <2>1. PICK doc \in Documents : Commit(w, "scan", [req[w].loaded EXCEPT !.original = doc])
    BY <1>8 DEF CommitScan
  <2>2. source' = source
    BY <1>8 DEF CommitScan
  <2>3. /\ [req[w].loaded EXCEPT !.original = doc] \in Row
        /\ source' \in Documents \cup {NoDocument}
    BY <2>2, HandlersType DEF TypeInv
  <2> QED BY <2>1, <2>3, CommitTypeInv
<1>9. ASSUME NEW w \in Workers, CommitMap(w) PROVE TypeInv'
  <2>1. PICK row \in Row : Commit(w, "map", row)
    BY <1>9, CommitMapIs
  <2>2. source' \in Documents \cup {NoDocument}
    BY <1>9, CommitMapIs
  <2> QED BY <2>1, <2>2, CommitTypeInv
<1>10. ASSUME NEW w \in Workers, Rollback(w) PROVE TypeInv'
  <2>1. req' = [req EXCEPT ![w] = Idle] /\ UNCHANGED <<company, holiday, source>>
    BY <1>10 DEF Rollback
  <2> QED BY <2>1, NewType DEF TypeInv, Idle
<1>11. ASSUME NEW d \in Festive, CreateHoliday(d) \/ DeleteHoliday(d) PROVE TypeInv'
  BY <1>11 DEF CreateHoliday, DeleteHoliday, TypeInv
<1> QED BY <1>1, <1>2, <1>3, <1>4, <1>5, <1>6, <1>7, <1>8, <1>9, <1>10, <1>11 DEF Next

\* The columns of the companies row hold what the handlers write there, the mapping and
\* the template among them, whatever the interleaving of requests.
THEOREM SettingsTyped == Spec => []TypeOK
<1>1. Spec => []TypeInv
  BY InitTypeInv, NextTypeInv, PTL DEF Spec
<1> QED BY <1>1, TypeInvType, PTL

-----------------------------------------------------------------------------
(***************************************************************************)
(* One request at a time: a single worker.  Two at once save columns that  *)
(* the handlers made of different rows.                                    *)
(***************************************************************************)
\* At most one HTTP request is in flight.
Serial == \A v, w \in Workers : v = w

\* The mapping and the template are those of one payload of the wizard.
Chose(doc, mapping, template) ==
  \E D : /\ D \subseteq DOMAIN Slots(doc)
        /\ \E chosen \in [D -> Tokens] :
             mapping = Saved(doc, chosen) /\ template = ApplyMapping(doc, chosen)

MappingInv(doc, row) ==
  IF doc = NoDocument THEN row.mapping = NoMapping
  ELSE doc \in Documents /\ Chose(doc, row.mapping, row.template)

SerialInv ==
  /\ TypeInv
  /\ \A w \in Workers : req[w].op # "none" => req[w].loaded = company
  /\ MappingInv(source, company)

Own ==
  /\ company'.statutory.rates # company.statutory.rates => Saves({"rates"})
  /\ WorkingDays' # WorkingDays => Saves({"calendar", "rates"}) \/ holiday' # holiday
  /\ Rendered' # Rendered => Saves({"layout", "upload", "remove", "map"})

LEMMA InitSerial == Init => SerialInv
<1> SUFFICES ASSUME Init PROVE SerialInv
  OBVIOUS
<1>1. \A w \in Workers : req[w].op = "none"
  BY DEF Init, Idle
<1>2. source = NoDocument /\ company.mapping = NoMapping
  BY DEF Init, New
<1> QED BY <1>1, <1>2, InitTypeInv DEF SerialInv, MappingInv

LEMMA CommitSerial ==
  ASSUME Serial, SerialInv, NEW w \in Workers, NEW op, op # "none", NEW row \in Row,
         Commit(w, op, row), source' \in Documents \cup {NoDocument}, MappingInv(source', row)
  PROVE  /\ SerialInv' /\ company' = row /\ holiday' = holiday
         /\ \A ops : op \in ops => Saves(ops)
<1>1. TypeInv /\ req[w].op = op
  BY DEF SerialInv, Commit
<1>2. /\ req[w].loaded = company => company' = row
      /\ req'[w].op = "none" /\ holiday' = holiday
  BY <1>1, CommitIs
<1>3. company' = row
  BY <1>1, <1>2 DEF SerialInv
<1>4. TypeInv'
  BY <1>1, CommitTypeInv
<1>5. \A v \in Workers : req'[v].op = "none"
  BY <1>2 DEF Serial
<1>6. SerialInv'
  BY <1>3, <1>4, <1>5 DEF SerialInv
<1> QED BY <1>1, <1>2, <1>3, <1>6 DEF Saves

\* A handler that leaves the mapping and the template alone keeps the promise about them.
LEMMA MappingStays ==
  ASSUME NEW doc, NEW row, NEW old, MappingInv(doc, old),
         row.mapping = old.mapping, row.template = old.template
  PROVE  MappingInv(doc, row)
BY DEF MappingInv

\* What the properties read is unchanged if the columns are.
LEMMA ReadsStay ==
  /\ holiday' = holiday /\ company'.statutory.calendar = company.statutory.calendar =>
       WorkingDays' = WorkingDays
  /\ company'.use = company.use /\ company'.template = company.template => Rendered' = Rendered
BY DEF WorkingDays, Rendered

LEMMA NextSerial == Serial /\ SerialInv /\ [Next]_vars => SerialInv' /\ [Own]_vars
<1> SUFFICES ASSUME Serial, SerialInv, [Next]_vars PROVE SerialInv' /\ [Own]_vars
  OBVIOUS
<1>0. TypeInv /\ TypeInv' /\ company \in Row /\ MappingInv(source, company)
      /\ source \in Documents \cup {NoDocument}
  BY NextTypeInv DEF SerialInv, TypeInv
<1>1. CASE UNCHANGED vars
  BY <1>0, <1>1 DEF vars, SerialInv
<1>2. ASSUME NEW w \in Workers, NEW op \in Ops, Load(w, op) PROVE SerialInv' /\ Own
  <2>1. req' = [req EXCEPT ![w] = [op |-> op, loaded |-> company]]
        /\ UNCHANGED <<company, holiday, source>>
    BY <1>2 DEF Load
  <2>2. \A v \in Workers : req'[v].loaded = company
    BY <1>0, <2>1 DEF Serial, TypeInv
  <2>3. SerialInv'
    BY <1>0, <2>1, <2>2 DEF SerialInv
  <2> QED BY <2>1, <2>3, ReadsStay DEF Own
<1>3. ASSUME NEW w \in Workers, NEW op, op # "none", req[w].op = op
      PROVE  req[w].loaded = company
  BY <1>3 DEF SerialInv
<1>4. ASSUME NEW w \in Workers, CommitRates(w) PROVE SerialInv' /\ Own
  <2>1. PICK rates \in Rates : Commit(w, "rates", SaveRates(req[w].loaded, rates))
    BY <1>4 DEF CommitRates
  <2>2. source' = source /\ req[w].loaded = company
    BY <1>3, <1>4, <2>1 DEF CommitRates, Commit
  <2> DEFINE row == SaveRates(company, rates)
  <2>3. row \in Row /\ row.use = company.use /\ row.template = company.template
        /\ row.mapping = company.mapping
    BY <1>0, HandlersType DEF SaveRates, Row
  <2> HIDE DEF row
  <2>4. Commit(w, "rates", row) /\ MappingInv(source', row)
    BY <1>0, <2>1, <2>2, <2>3, MappingStays DEF row
  <2>5. /\ SerialInv' /\ company' = row /\ holiday' = holiday
        /\ Saves({"rates"}) /\ Saves({"calendar", "rates"})
    BY <1>0, <2>2, <2>3, <2>4, CommitSerial
  <2> QED BY <2>3, <2>5, ReadsStay DEF Own
<1>5. ASSUME NEW w \in Workers, CommitCalendar(w) PROVE SerialInv' /\ Own
  <2>1. PICK calendar \in Calendars :
          Commit(w, "calendar", SaveCalendar(req[w].loaded, calendar))
    BY <1>5 DEF CommitCalendar
  <2>2. source' = source /\ req[w].loaded = company
    BY <1>3, <1>5, <2>1 DEF CommitCalendar, Commit
  <2> DEFINE row == SaveCalendar(company, calendar)
  <2>3. row \in Row /\ row.use = company.use /\ row.template = company.template
        /\ row.mapping = company.mapping /\ row.statutory.rates = company.statutory.rates
    BY <1>0, HandlersType DEF SaveCalendar, Row
  <2> HIDE DEF row
  <2>4. Commit(w, "calendar", row) /\ MappingInv(source', row)
    BY <1>0, <2>1, <2>2, <2>3, MappingStays DEF row
  <2>5. /\ SerialInv' /\ company' = row /\ holiday' = holiday
        /\ Saves({"calendar", "rates"})
    BY <1>0, <2>2, <2>3, <2>4, CommitSerial
  <2> QED BY <2>3, <2>5, ReadsStay DEF Own
<1>6. ASSUME NEW w \in Workers, CommitLayout(w) PROVE SerialInv' /\ Own
  <2>1. PICK use \in BOOLEAN : Commit(w, "layout", [req[w].loaded EXCEPT !.use = use])
    BY <1>6 DEF CommitLayout
  <2>2. source' = source /\ req[w].loaded = company
    BY <1>3, <1>6, <2>1 DEF CommitLayout, Commit
  <2> DEFINE row == [company EXCEPT !.use = use]
  <2>3. row \in Row /\ row.statutory = company.statutory /\ row.template = company.template
        /\ row.mapping = company.mapping
    BY <1>0, HandlersType DEF Row
  <2> HIDE DEF row
  <2>4. Commit(w, "layout", row) /\ MappingInv(source', row)
    BY <1>0, <2>1, <2>2, <2>3, MappingStays DEF row
  <2>5. /\ SerialInv' /\ company' = row /\ holiday' = holiday
        /\ Saves({"layout", "upload", "remove", "map"})
    BY <1>0, <2>2, <2>3, <2>4, CommitSerial
  <2> QED BY <2>3, <2>5, ReadsStay DEF Own
<1>7. ASSUME NEW w \in Workers, CommitUpload(w) PROVE SerialInv' /\ Own
  <2>1. PICK doc \in Documents : Commit(w, "upload", Uploaded(req[w].loaded, doc))
    BY <1>7 DEF CommitUpload
  <2>2. source' = NoDocument /\ req[w].loaded = company
    BY <1>3, <1>7, <2>1 DEF CommitUpload, Commit
  <2> DEFINE row == Uploaded(company, doc)
  <2>3. row \in Row /\ row.statutory = company.statutory /\ row.mapping = NoMapping
    BY <1>0, HandlersType DEF Uploaded, Row
  <2> HIDE DEF row
  <2>4. Commit(w, "upload", row) /\ MappingInv(source', row)
    BY <2>1, <2>2, <2>3 DEF row, MappingInv
  <2>5. /\ SerialInv' /\ company' = row /\ holiday' = holiday
        /\ Saves({"layout", "upload", "remove", "map"})
    BY <2>2, <2>3, <2>4, CommitSerial
  <2> QED BY <2>3, <2>5, ReadsStay DEF Own
<1>8. ASSUME NEW w \in Workers, CommitRemove(w) PROVE SerialInv' /\ Own
  <2>1. Commit(w, "remove", Removed(req[w].loaded))
    BY <1>8 DEF CommitRemove
  <2>2. source' = NoDocument /\ req[w].loaded = company
    BY <1>3, <1>8, <2>1 DEF CommitRemove, Commit
  <2> DEFINE row == Removed(company)
  <2>3. row \in Row /\ row.statutory = company.statutory /\ row.mapping = NoMapping
    BY <1>0, HandlersType DEF Removed, Uploaded, Row
  <2> HIDE DEF row
  <2>4. Commit(w, "remove", row) /\ MappingInv(source', row)
    BY <2>1, <2>2, <2>3 DEF row, MappingInv
  <2>5. /\ SerialInv' /\ company' = row /\ holiday' = holiday
        /\ Saves({"layout", "upload", "remove", "map"})
    BY <2>2, <2>3, <2>4, CommitSerial
  <2> QED BY <2>3, <2>5, ReadsStay DEF Own
<1>9. ASSUME NEW w \in Workers, CommitScan(w) PROVE SerialInv' /\ Own
  <2>1. PICK doc \in Documents : Commit(w, "scan", [req[w].loaded EXCEPT !.original = doc])
    BY <1>9 DEF CommitScan
  <2>2. source' = source /\ req[w].loaded = company
    BY <1>3, <1>9, <2>1 DEF CommitScan, Commit
  <2> DEFINE row == [company EXCEPT !.original = doc]
  <2>3. row \in Row /\ row.statutory = company.statutory /\ row.use = company.use
        /\ row.template = company.template /\ row.mapping = company.mapping
    BY <1>0, HandlersType DEF Row
  <2> HIDE DEF row
  <2>4. Commit(w, "scan", row) /\ MappingInv(source', row)
    BY <1>0, <2>1, <2>2, <2>3, MappingStays DEF row
  <2>5. SerialInv' /\ company' = row /\ holiday' = holiday
    BY <1>0, <2>2, <2>3, <2>4, CommitSerial
  <2> QED BY <2>3, <2>5, ReadsStay DEF Own
<1>10. ASSUME NEW w \in Workers, CommitMap(w) PROVE SerialInv' /\ Own
  <2> DEFINE doc == req[w].loaded.original
  <2>1. doc \in Documents /\ doc # NoDocument /\ source' = doc
    BY <1>0, <1>10, CommitMapIs
  <2>2. PICK D : /\ D \subseteq DOMAIN Slots(doc)
                 /\ \E chosen \in [D -> Tokens] :
                      /\ Mapped(req[w].loaded, chosen) \in Row
                      /\ Commit(w, "map", Mapped(req[w].loaded, chosen))
    BY <1>0, <1>10, CommitMapIs
  <2>3. PICK chosen \in [D -> Tokens] :
          /\ Mapped(req[w].loaded, chosen) \in Row
          /\ Commit(w, "map", Mapped(req[w].loaded, chosen))
    BY <2>2
  <2>4. req[w].loaded = company
    BY <1>3, <2>3 DEF Commit
  <2> DEFINE row == Mapped(company, chosen)
  <2>5. /\ row.statutory = company.statutory /\ row.mapping = Saved(doc, chosen)
        /\ row.template = ApplyMapping(doc, chosen)
    BY <1>0, <2>4 DEF Mapped, Row
  <2>6. row \in Row /\ Commit(w, "map", row)
    BY <2>3, <2>4
  <2> HIDE DEF row, doc
  <2>7. Chose(doc, row.mapping, row.template)
    BY <2>2, <2>5 DEF Chose
  <2>8. MappingInv(source', row)
    BY <2>1, <2>7 DEF MappingInv
  <2>9. /\ SerialInv' /\ company' = row /\ holiday' = holiday
        /\ Saves({"layout", "upload", "remove", "map"})
    BY <2>1, <2>6, <2>8, CommitSerial
  <2> QED BY <2>5, <2>9, ReadsStay DEF Own
<1>11. ASSUME NEW w \in Workers, Rollback(w) PROVE SerialInv' /\ Own
  <2>1. req' = [req EXCEPT ![w] = Idle] /\ UNCHANGED <<company, holiday, source>>
    BY <1>11 DEF Rollback
  <2>2. \A v \in Workers : req'[v].op = "none"
    BY <1>0, <2>1 DEF Idle, Serial, TypeInv
  <2>3. SerialInv'
    BY <1>0, <2>1, <2>2 DEF SerialInv
  <2> QED BY <2>1, <2>3, ReadsStay DEF Own
<1>12. ASSUME NEW d \in Festive, CreateHoliday(d) \/ DeleteHoliday(d) PROVE SerialInv' /\ Own
  <2>1. UNCHANGED <<company, req, source>>
    BY <1>12 DEF CreateHoliday, DeleteHoliday
  <2>2. holiday' # holiday
    BY <1>0, <1>12 DEF CreateHoliday, DeleteHoliday, TypeInv
  <2>3. SerialInv'
    BY <1>0, <2>1 DEF SerialInv
  <2> QED BY <2>1, <2>2, <2>3, ReadsStay DEF Own
<1> QED BY <1>1, <1>2, <1>4, <1>5, <1>6, <1>7, <1>8, <1>9, <1>10, <1>11, <1>12 DEF Next

LEMMA SerialInvariance == Serial => (Spec => []SerialInv)
<1> SUFFICES ASSUME Serial PROVE Spec => []SerialInv
  OBVIOUS
<1>1. SerialInv /\ [Next]_vars => SerialInv'
  BY NextSerial
<1> QED BY <1>1, InitSerial, PTL DEF Spec

\* Served one at a time, the rates, the working days a run divides by and the document
\* payslips are rendered from change only in the handlers that save them
\* (update_statutory_settings, update_work_calendar and those of the payslip document).
THEOREM SerialSavesOnlyItsOwn == Serial => (Spec => SavesOnlyItsOwn)
<1> SUFFICES ASSUME Serial PROVE Spec => SavesOnlyItsOwn
  OBVIOUS
<1>1. SerialInv /\ [Next]_vars =>
        [/\ company'.statutory.rates # company.statutory.rates => Saves({"rates"})
         /\ WorkingDays' # WorkingDays => Saves({"calendar", "rates"}) \/ holiday' # holiday
         /\ Rendered' # Rendered => Saves({"layout", "upload", "remove", "map"})]_vars
  BY NextSerial DEF Own
<1> QED BY <1>1, SerialInvariance, PTL DEF Spec, SavesOnlyItsOwn

-----------------------------------------------------------------------------
(***************************************************************************)
(* The stored template and the wizard that is opened again on it.          *)
(***************************************************************************)
LEMMA SerialLands == SerialInv => TokensLand
<1> SUFFICES ASSUME SerialInv, source # NoDocument PROVE TokensLand
  BY DEF TokensLand
<1>1. source \in Documents /\ Chose(source, company.mapping, company.template)
  BY DEF SerialInv, MappingInv
<1>2. PICK D : /\ D \subseteq DOMAIN Slots(source)
               /\ \E chosen \in [D -> Tokens] :
                    /\ company.mapping = Saved(source, chosen)
                    /\ company.template = ApplyMapping(source, chosen)
  BY <1>1 DEF Chose
<1>3. PICK chosen \in [D -> Tokens] : /\ company.mapping = Saved(source, chosen)
                                     /\ company.template = ApplyMapping(source, chosen)
  BY <1>2
<1> DEFINE saved == company.mapping
           lost == {i \in DOMAIN saved : Misses(saved, i)}
           slots == Slots(source)
<1>4. DOMAIN saved = D /\ \A i \in D : saved[i].token = chosen[i]
  BY <1>1, <1>2, <1>3, SavedIs
<1>5. DOMAIN chosen = D
  OBVIOUS
<1>6. lost = LostIn(source, chosen)
  <2> HIDE DEF saved
  <2> QED BY <1>4, <1>5 DEF Misses, LostIn
<1>7. source \in Docs
  BY <1>1, DocumentsTyped
<1>8. /\ \A i \in D \ LostIn(source, chosen) :
           At(company.template, slots[i].place) = Filled(At(source, slots[i].place), chosen[i])
      /\ LostIn(source, chosen) = {} =>
           \A place \in Places(source) \ {slots[i].place : i \in D} :
             At(company.template, place) = At(source, place)
  <2>1. D \subseteq DOMAIN Slots(source)
    BY <1>2
  <2> QED BY <1>3, <1>7, <2>1, ChoicesLand
<1>9. \A i \in DOMAIN saved \ lost :
        At(company.template, slots[i].place) = Filled(At(source, slots[i].place), saved[i].token)
  BY <1>4, <1>6, <1>8
<1>10. lost = {} =>
         \A place \in Places(source) \ {slots[i].place : i \in DOMAIN saved} :
           At(company.template, place) = At(source, place)
  BY <1>4, <1>6, <1>8
<1> QED BY <1>9, <1>10 DEF TokensLand

\* Served one at a time: whatever the document, each choice of the wizard is in the
\* template where the wizard showed the slot, unless a placeholder of a table was filled
\* before it, and nothing else has changed (scan_docx_fields, apply_field_mapping).
THEOREM SerialTokensLand == Serial => (Spec => []TokensLand)
BY SerialInvariance, SerialLands, PTL

LEMMA SerialReopens == SerialInv => ReopenShowsChoices
<1> SUFFICES ASSUME SerialInv PROVE ReopenShowsChoices
  OBVIOUS
<1>1. source = NoDocument => company.mapping = NoMapping
  BY DEF SerialInv, MappingInv
<1>2. ASSUME source # NoDocument, source = company.original
      PROVE  /\ \A i \in DOMAIN company.mapping :
                  /\ Slots(source)[i].label # NoName
                  /\ {j \in 1..i : Slots(source)[j].label = Slots(source)[i].label}
                        \ DOMAIN company.mapping = {}
                  =>
                    Shown(company.original, company.mapping)[i] = company.mapping[i].token
             /\ company.template
                  = ApplyMapping(source, [i \in DOMAIN company.mapping |->
                                            company.mapping[i].token])
  <2>1. source \in Documents /\ Chose(source, company.mapping, company.template)
    BY <1>2 DEF SerialInv, MappingInv
  <2>2. PICK D : /\ D \subseteq DOMAIN Slots(source)
                 /\ \E chosen \in [D -> Tokens] :
                      /\ company.mapping = Saved(source, chosen)
                      /\ company.template = ApplyMapping(source, chosen)
    BY <2>1 DEF Chose
  <2>3. PICK chosen \in [D -> Tokens] : /\ company.mapping = Saved(source, chosen)
                                       /\ company.template = ApplyMapping(source, chosen)
    BY <2>2
  <2> DEFINE saved == company.mapping
  <2>4. /\ DOMAIN saved = D
        /\ \A i \in D : saved[i].token = chosen[i] /\ saved[i].label = Slots(source)[i].label
    BY <2>1, <2>2, <2>3, SavedIs
  <2>5. [i \in DOMAIN saved |-> saved[i].token] = chosen
    BY <2>4
  <2>6. source \in Docs /\ D \subseteq DOMAIN Slots(source)
    BY <2>1, <2>2, DocumentsTyped
  <2> HIDE DEF saved
  <2>7. ASSUME NEW i \in D, Slots(source)[i].label # NoName,
               {j \in 1..i : Slots(source)[j].label = Slots(source)[i].label} \ D = {}
        PROVE  Shown(source, saved)[i] = saved[i].token
    <3>1. {j \in 1..i : Slots(source)[j].label = Slots(source)[i].label} \subseteq D
      BY <2>7
    <3>2. \A k \in D : saved[k].label = Slots(source)[k].label
      BY <2>4
    <3> QED BY <2>4, <2>6, <2>7, <3>1, <3>2, ChoiceIsShown
  <2> QED BY <1>2, <2>3, <2>4, <2>5, <2>7 DEF saved
<1> QED BY <1>1, <1>2 DEF ReopenShowsChoices

\* Served one at a time, the wizard that is opened again on the mapped document shows each
\* choice in its slot, unless an earlier slot with its label was left unmapped
\* (_prefill_from_saved).
THEOREM SerialReopenShows == Serial => (Spec => []ReopenShowsChoices)
BY SerialInvariance, SerialReopens, PTL
=============================================================================
