--------------------------- MODULE BenchmarkProofs ---------------------------
(***************************************************************************)
(* Proofs about Benchmark: the recall it reports is measured against true  *)
(* answers, for any source, any number of runs of the subset command with  *)
(* any settings, and whatever they leave or change while it reads.         *)
(*                                                                         *)
(* Two arguments meet.  One is about places: a word is always where the    *)
(* run that wrote it would put it, so that it does not matter when it was  *)
(* read.  The other is about ranks: the first K of the nearest among many  *)
(* vectors are the nearest among the first of them, if they are there.     *)
(***************************************************************************)
EXTENDS Benchmark, FiniteSetTheorems, SequenceTheorems, TLAPS

-----------------------------------------------------------------------------
(* Throughput: what is timed, for any clock, widths and number of queries. *)

\* What passes the check before an attempt fits in an int64.
LEMMA Fits ==
    ASSUME NEW q \in Nat, NEW n \in Nat \ {0}, Countable(q, n)
    PROVE  n * q \in Nat /\ n * q <= MaxInt
<1> DEFINE d == MaxInt \div n
<1>1. MaxInt \in Nat /\ q <= d /\ d \in Nat
  BY ThroughputAssumption DEF Countable
<1>2. n * d <= MaxInt
  BY <1>1
<1> HIDE DEF d
<1>3. n * q <= n * d
  BY <1>1
<1> QED
  BY <1>1, <1>2, <1>3

\* ... and is what it is counted as.
LEMMA CountedAsIs == ASSUME NEW x \in Nat, x <= MaxInt PROVE Counted(x) = x
<1>1. MaxInt \in Nat
  BY ThroughputAssumption
<1>2. \A m \in Nat \ {0}, y \in Nat : y < m => y % m = y
  OBVIOUS
<1>3. (x + MaxInt + 1) % (2 * (MaxInt + 1)) = x + MaxInt + 1
  BY <1>1, <1>2
<1> QED
  BY <1>1, <1>3 DEF Counted

LEMMA InitCounts == ASSUME NEW q \in Nat, TimeInit PROVE Counting(q)
<1>1. Len(Efs) \in Nat \ {0}
  BY ThroughputAssumption, EmptySeq, LenProperties
<1>2. points \in Seq(PointType)
  BY EmptySeq DEF TimeInit
<1> QED
  BY <1>1, <1>2 DEF TimeInit, Counting, Measured

\* A point is added only when its attempt is over and long enough.
LEMMA StopCounts == ASSUME NEW q \in Nat, Counting(q), Stop(q) PROVE Counting(q)'
<1>1. PICK e \in Elapses :
        \/ e < 0 /\ Fail
        \/ /\ e >= 0 /\ e < Least
           /\ repeats' = Doubled(repeats) /\ ran' = 0
           /\ UNCHANGED <<phase, at, points>>
        \/ /\ e >= Least
           /\ points' = Append(points, [ef |-> Efs[at], timed |-> Counted(repeats * q),
                                        ran |-> ran, elapsed |-> e])
           /\ phase' = "latency"
           /\ UNCHANGED <<at, repeats, ran>>
  BY DEF Stop
<1>2. e \in Int /\ phase = "timing" /\ ran > 0 /\ ran = repeats * q
  BY ThroughputAssumption DEF Stop
<1>3. CASE Fail
  BY <1>3 DEF Counting, Fail, Measured
<1>4. CASE repeats' = Doubled(repeats) /\ ran' = 0 /\ UNCHANGED <<phase, at, points>>
  BY <1>2, <1>4 DEF Counting, Doubled, Measured
<1>5. CASE /\ e >= Least
           /\ points' = Append(points, [ef |-> Efs[at], timed |-> Counted(repeats * q),
                                        ran |-> ran, elapsed |-> e])
           /\ phase' = "latency"
           /\ UNCHANGED <<at, repeats, ran>>
  <2> DEFINE p == [ef |-> Efs[at], timed |-> Counted(repeats * q), ran |-> ran, elapsed |-> e]
  <2>1. Counted(repeats * q) = ran
    BY <1>2, Fits, CountedAsIs DEF Counting
  <2>2. Efs[at] \in Nat
    <3>1. at \in 1 .. Len(Efs)
      BY <1>2, ThroughputAssumption, LenProperties DEF Counting
    <3> QED
      BY <3>1, ThroughputAssumption, ElementOfSeq
  <2>3. p \in PointType /\ p.timed = p.ran /\ p.timed > 0 /\ p.elapsed >= Least
    BY <1>2, <1>5, <2>1, <2>2 DEF Counting, PointType
  <2>4. points' = Append(points, p)
    BY <1>5
  <2> HIDE DEF p
  <2>5. /\ points' \in Seq(PointType) /\ points' # <<>>
        /\ \A i \in DOMAIN points' : (i \in DOMAIN points /\ points'[i] = points[i]) \/ points'[i] = p
    BY <2>3, <2>4, AppendProperties DEF Counting
  <2>6. Measured'
    BY <1>5, <2>3, <2>5 DEF Measured, Counting
  <2> QED
    BY <1>2, <1>5, <2>5, <2>6 DEF Counting
<1> QED
  BY <1>1, <1>3, <1>4, <1>5

\* The last width is measured, since it is not less than k.
LEMMA NextWidthCounts ==
    ASSUME NEW q \in Nat, NEW k \in Nat, k <= Efs[Len(Efs)], Counting(q), NextWidth(k)
    PROVE  Counting(q)'
<1>1. Len(Efs) \in Nat /\ \A i \in 1 .. Len(Efs) : Efs[i] \in Nat
  BY ThroughputAssumption, LenProperties, ElementOfSeq
<1>2. CASE at = Len(Efs)
  BY <1>2 DEF NextWidth, Counting, Measured
<1>3. CASE at # Len(Efs)
  <2>1. at + 1 \in 1 .. Len(Efs)
    BY <1>1, <1>3 DEF Counting
  <2>2. phase' = "point" => at + 1 # Len(Efs)
    BY <1>1, <1>3, <2>1 DEF NextWidth
  <2> QED
    BY <1>1, <1>3, <2>1, <2>2 DEF NextWidth, Counting, Measured
<1> QED
  BY <1>2, <1>3

\* The other steps add no point.
LEMMA RestCounts ==
    ASSUME NEW q \in Nat, Counting(q), Start \/ GiveUp(q) \/ Sweep(q) \/ Latency
    PROVE  Counting(q)'
<1>1. CASE Start
  <2>1. Len(Efs) \in Nat \ {0}
    BY ThroughputAssumption, EmptySeq, LenProperties
  <2> QED
    BY <1>1, <2>1 DEF Start, Counting, Measured
<1>2. CASE GiveUp(q)
  BY <1>2 DEF GiveUp, Fail, Counting, Measured
<1>3. CASE Sweep(q)
  BY <1>3 DEF Sweep, Counting, Measured
<1>4. CASE Latency
  BY <1>4 DEF Latency, Counting, Measured
<1> QED
  BY <1>1, <1>2, <1>3, <1>4

\* Whatever the clock says, every point that is reported was measured.
THEOREM PointsMeasured ==
    ASSUME NEW CONSTANT q \in Nat, NEW CONSTANT k \in Nat, k <= Efs[Len(Efs)]
    PROVE  Measuring(q, k) => []Measured
<1>1. TimeInit => Counting(q)
  BY InitCounts
<1>2. Counting(q) /\ [Start \/ Measure(q, k)]_timeVars => Counting(q)'
  <2>1. CASE UNCHANGED timeVars
    BY <2>1 DEF timeVars, Counting, Measured
  <2> QED
    BY <2>1, StopCounts, NextWidthCounts, RestCounts DEF Measure
<1>3. Counting(q) => Measured
  BY DEF Counting
<1> QED
  BY <1>1, <1>2, <1>3, PTL DEF Measuring

-----------------------------------------------------------------------------
(* Ranks. *)

\* Ties are broken by ID, so Before orders the vectors totally.
LEMMA BeforeOrders ==
    ASSUME NEW q \in Node, NEW a \in Node, NEW b \in Node, NEW c \in Node
    PROVE  /\ ~Before(q, a, a)
           /\ Before(q, a, b) => ~Before(q, b, a)
           /\ a # b => Before(q, a, b) \/ Before(q, b, a)
           /\ Before(q, a, b) /\ Before(q, b, c) => Before(q, a, c)
<1>1. Dist[<<q, a>>] \in Nat /\ Dist[<<q, b>>] \in Nat /\ Dist[<<q, c>>] \in Nat
  BY DistAssumption
<1>2. a \in Int /\ b \in Int /\ c \in Int
  BY DEF Node
<1> QED
  BY <1>1, <1>2 DEF Before

\* The first n vectors.
LEMMA FirstN ==
    ASSUME NEW n \in 1 .. N
    PROVE  /\ 0 .. n - 1 \subseteq Node
           /\ IsFiniteSet(0 .. n - 1) /\ Cardinality(0 .. n - 1) = n
           /\ \A S \in SUBSET (0 .. n - 1) : IsFiniteSet(S) /\ Cardinality(S) \in Nat
<1>1. n \in Nat /\ n >= 1 /\ n <= N /\ N \in Nat
  BY SizeAssumption
<1>2. IsFiniteSet(0 .. n - 1) /\ Cardinality(0 .. n - 1) = n
  <2>1. 0 \in Int /\ n - 1 \in Int /\ ~(0 > n - 1)
    BY <1>1
  <2> QED
    BY <1>1, <2>1, FS_Interval
<1>3. 0 .. n - 1 \subseteq Node
  BY <1>1 DEF Node
<1> QED
  BY <1>2, <1>3, FS_Subset, FS_CardinalityType

\* Those of them that come before x for query q.
Ahead(q, n, x) == { y \in 0 .. n - 1 : Before(q, y, x) }
Rank(q, n, x) == Cardinality(Ahead(q, n, x))

\* Fewer than n come before one of the n.
LEMMA RankType ==
    ASSUME NEW q \in Node, NEW n \in 1 .. N, NEW x \in 0 .. n - 1
    PROVE  Rank(q, n, x) \in 0 .. n - 1
<1> DEFINE V == 0 .. n - 1
<1>1. Ahead(q, n, x) \in SUBSET (V \ {x})
  BY FirstN, BeforeOrders DEF Ahead
<1>2. IsFiniteSet(V \ {x}) /\ Cardinality(V \ {x}) = n - 1
  <2>1. IsFiniteSet(V) /\ Cardinality(V) = n /\ x \in V
    BY FirstN
  <2> HIDE DEF V
  <2> QED
    BY <2>1, FS_RemoveElement
<1>3. Cardinality(Ahead(q, n, x)) <= n - 1 /\ Cardinality(Ahead(q, n, x)) \in Nat
  BY <1>1, <1>2, FS_Subset, FirstN
<1> QED
  BY <1>3 DEF Rank

\* The further, the more come before it.
LEMMA RankGrows ==
    ASSUME NEW q \in Node, NEW n \in 1 .. N, NEW x \in 0 .. n - 1, NEW y \in 0 .. n - 1,
           Before(q, x, y)
    PROVE  Rank(q, n, x) < Rank(q, n, y)
<1>1. Ahead(q, n, x) \in SUBSET Ahead(q, n, y)
  BY FirstN, BeforeOrders DEF Ahead
<1>2. x \in Ahead(q, n, y) \ Ahead(q, n, x)
  BY FirstN, BeforeOrders DEF Ahead
<1>3. IsFiniteSet(Ahead(q, n, y))
  BY FirstN DEF Ahead
<1>4. Rank(q, n, x) <= Rank(q, n, y) /\ Rank(q, n, x) # Rank(q, n, y)
  BY <1>1, <1>2, <1>3, FS_Subset DEF Rank
<1> QED
  BY <1>4, RankType

\* No two have the same rank, ...
LEMMA RanksApart ==
    ASSUME NEW q \in Node, NEW n \in 1 .. N, NEW x \in 0 .. n - 1, NEW y \in 0 .. n - 1,
           Rank(q, n, x) = Rank(q, n, y)
    PROVE  x = y
<1>1. Rank(q, n, x) \in Nat /\ Rank(q, n, y) \in Nat
  BY RankType
<1>2. x \in Node /\ y \in Node
  BY FirstN
<1> QED
  BY <1>1, <1>2, RankGrows, BeforeOrders

\* ... and so each rank is taken.
LEMMA EveryRank ==
    ASSUME NEW q \in Node, NEW n \in 1 .. N, NEW r \in 0 .. n - 1
    PROVE  \E x \in 0 .. n - 1 : Rank(q, n, x) = r
<1> DEFINE V == 0 .. n - 1
           f == [x \in V |-> Rank(q, n, x)]
<1>1. f \in [V -> V]
  BY RankType
<1>2. f \in Injection(V, V)
  BY <1>1, RanksApart DEF Injection, IsInjective
<1>3. f \in Surjection(V, V)
  BY <1>2, FirstN, FS_Injection
<1> QED
  BY <1>3 DEF Surjection

\* Ranked is what its name says.
LEMMA RankedIs ==
    ASSUME NEW q \in Node, NEW n \in 1 .. N, NEW j \in 1 .. n
    PROVE  Ranked(q, n, j) \in 0 .. n - 1 /\ Rank(q, n, Ranked(q, n, j)) = j - 1
<1>1. j - 1 \in 0 .. n - 1
  OBVIOUS
<1>2. \E x \in 0 .. n - 1 : Rank(q, n, x) = j - 1
  BY <1>1, EveryRank
<1> QED
  BY <1>2 DEF Ranked, Rank, Ahead

\* Among the first m of n vectors a rank below k is what it is among the n, if
\* the k nearest of the n are among the first m; and no other one is below k.
LEMMA RanksAgree ==
    ASSUME NEW q \in Node, NEW n \in 1 .. N, NEW m \in 1 .. n, NEW k \in 1 .. n,
           \A j \in 1 .. k : Ranked(q, n, j) < m,
           NEW x \in 0 .. m - 1
    PROVE  IF Rank(q, n, x) < k THEN Rank(q, m, x) = Rank(q, n, x) ELSE Rank(q, m, x) >= k
<1> m \in 1 .. N /\ 0 .. m - 1 \subseteq 0 .. n - 1
  BY SizeAssumption
<1>1. \A y \in 0 .. n - 1 : Rank(q, n, y) < k => y \in 0 .. m - 1
  <2> SUFFICES ASSUME NEW y \in 0 .. n - 1, Rank(q, n, y) < k
               PROVE  y \in 0 .. m - 1
    OBVIOUS
  <2>1. Rank(q, n, y) + 1 \in 1 .. n /\ Rank(q, n, y) + 1 \in 1 .. k
    BY RankType
  <2>2. /\ Ranked(q, n, Rank(q, n, y) + 1) \in 0 .. n - 1
        /\ Rank(q, n, Ranked(q, n, Rank(q, n, y) + 1)) = Rank(q, n, y)
    BY <2>1, RankedIs, RankType
  <2>3. y = Ranked(q, n, Rank(q, n, y) + 1)
    BY <2>2, RanksApart
  <2> QED
    BY <2>1, <2>3
<1>2. \A y \in 0 .. m - 1 : Rank(q, n, y) < k => Rank(q, m, y) = Rank(q, n, y)
  <2> SUFFICES ASSUME NEW y \in 0 .. m - 1, Rank(q, n, y) < k
               PROVE  Rank(q, m, y) = Rank(q, n, y)
    OBVIOUS
  <2>1. \A z \in Ahead(q, n, y) : z \in 0 .. m - 1
    <3> SUFFICES ASSUME NEW z \in Ahead(q, n, y)
                 PROVE  z \in 0 .. m - 1
      OBVIOUS
    <3>1. z \in 0 .. n - 1 /\ Before(q, z, y)
      BY DEF Ahead
    <3>2. Rank(q, n, z) < Rank(q, n, y)
      BY <3>1, RankGrows
    <3>3. Rank(q, n, z) < k
      BY <3>1, <3>2, RankType
    <3> QED
      BY <3>1, <3>3, <1>1
  <2>2. Ahead(q, m, y) = Ahead(q, n, y)
    BY <2>1 DEF Ahead
  <2> QED
    BY <2>2 DEF Rank
<1>3. CASE ~(Rank(q, n, x) < k)
  <2> DEFINE y == Ranked(q, n, k)
  <2>1. y \in 0 .. m - 1 /\ Rank(q, n, y) = k - 1
    BY RankedIs
  <2> HIDE DEF y
  <2>2. Rank(q, m, y) = k - 1
    BY <1>2, <2>1
  <2>3. Before(q, y, x)
    <3>1. x # y /\ ~(Rank(q, n, x) < Rank(q, n, y))
      BY <1>3, <2>1, RankType
    <3>2. x \in Node /\ y \in Node /\ x \in 0 .. n - 1 /\ y \in 0 .. n - 1
      BY <2>1, FirstN
    <3>3. ~Before(q, x, y)
      BY <3>1, <3>2, RankGrows
    <3> QED
      BY <3>1, <3>2, <3>3, BeforeOrders
  <2>4. Rank(q, m, y) < Rank(q, m, x)
    BY <2>1, <2>3, RankGrows
  <2>5. Rank(q, m, x) \in Nat
    BY RankType
  <2> QED
    BY <1>3, <2>2, <2>4, <2>5
<1> QED
  BY <1>2, <1>3

\* The h nearest of the first m vectors, from a row that ranks k of n.
LEMMA FirstAreNearest ==
    ASSUME NEW q \in Node, NEW n \in 1 .. N, NEW m \in 1 .. n, NEW k \in 1 .. n,
           NEW h \in 1 .. k,
           \A j \in 1 .. k : Ranked(q, n, j) < m
    PROVE  \A x : x \in Nearest(q, 0 .. m - 1, h) <=> \E j \in 1 .. h : x = Ranked(q, n, j)
<1> m \in 1 .. N /\ 0 .. m - 1 \subseteq 0 .. n - 1
  BY SizeAssumption
<1>1. Nearest(q, 0 .. m - 1, h) = { x \in 0 .. m - 1 : Rank(q, m, x) < h }
  BY DEF Nearest, Rank, Ahead
<1>2. ASSUME NEW j \in 1 .. h
      PROVE  Ranked(q, n, j) \in 0 .. m - 1 /\ Rank(q, m, Ranked(q, n, j)) < h
  <2>1. j \in 1 .. k /\ j \in 1 .. n
    OBVIOUS
  <2>2. Ranked(q, n, j) \in 0 .. m - 1 /\ Rank(q, n, Ranked(q, n, j)) = j - 1
    BY <2>1, RankedIs
  <2>3. Rank(q, n, Ranked(q, n, j)) < k
    BY <2>2
  <2>4. Rank(q, m, Ranked(q, n, j)) = j - 1
    BY <2>2, <2>3, RanksAgree
  <2> QED
    BY <2>2, <2>4
<1>3. ASSUME NEW x \in 0 .. m - 1, Rank(q, m, x) < h
      PROVE  \E j \in 1 .. h : x = Ranked(q, n, j)
  <2>1. Rank(q, n, x) \in 0 .. n - 1 /\ Rank(q, m, x) \in 0 .. m - 1
    BY RankType
  <2>2. Rank(q, n, x) < k /\ Rank(q, m, x) = Rank(q, n, x)
    BY <1>3, <2>1, RanksAgree
  <2>3. Rank(q, n, x) + 1 \in 1 .. h /\ Rank(q, n, x) + 1 \in 1 .. n
    BY <1>3, <2>1, <2>2
  <2>4. /\ Ranked(q, n, Rank(q, n, x) + 1) \in 0 .. n - 1
        /\ Rank(q, n, Ranked(q, n, Rank(q, n, x) + 1)) = Rank(q, n, x)
    BY <2>1, <2>3, RankedIs
  <2>5. x = Ranked(q, n, Rank(q, n, x) + 1)
    BY <2>4, RanksApart
  <2> QED
    BY <2>3, <2>5
<1> QED
  BY <1>1, <1>2, <1>3

-----------------------------------------------------------------------------
(* Places. *)

LEMMA Multiples ==
    ASSUME NEW w \in Nat, NEW a \in Nat, NEW b \in Nat, a <= b
    PROVE  a * w \in Nat /\ b * w \in Nat /\ a * w <= b * w
<1>1. PICK c \in Nat : b = a + c
  <2>1. b - a \in Nat /\ b = a + (b - a)
    OBVIOUS
  <2> QED
    BY <2>1
<1>2. b * w = a * w + c * w /\ a * w \in Nat /\ c * w \in Nat
  BY <1>1
<1> QED
  BY <1>2

LEMMA Whole ==
    ASSUME NEW n \in Nat, NEW w \in Nat \ {0}
    PROVE  n \div w \in Nat /\ (n \div w) * w <= n
<1> DEFINE d == n \div w
           r == n % w
<1>1. d \in Nat /\ r \in Nat /\ n = d * w + r
  OBVIOUS
<1> HIDE DEF d, r
<1>2. d * w \in Nat
  BY <1>1
<1>3. d * w <= n
  BY <1>1, <1>2
<1> QED
  BY <1>1, <1>3 DEF d

\* Counting j words into the i-th group of w.
LEMMA DivMod ==
    ASSUME NEW w \in Nat \ {0}, NEW i \in Nat, NEW j \in 0 .. w - 1
    PROVE  (i * w + j) \div w = i /\ (i * w + j) % w = j
<1> DEFINE p == i * w + j
           d == p \div w
           r == p % w
<1>1. i * w \in Nat /\ p \in Nat
  OBVIOUS
<1>2. d \in Nat /\ r \in 0 .. w - 1 /\ p = d * w + r
  BY <1>1
<1> HIDE DEF d, r
<1>3. d * w \in Nat
  BY <1>2
<1>4. \A a, b \in Nat : a < b => a * w + w <= b * w
  <2> SUFFICES ASSUME NEW a \in Nat, NEW b \in Nat, a < b
               PROVE  a * w + w <= b * w
    OBVIOUS
  <2>1. (a + 1) * w <= b * w
    BY Multiples
  <2> QED
    BY <2>1
<1>5. ~(d < i) /\ ~(i < d)
  BY <1>1, <1>2, <1>3, <1>4
<1>6. d = i
  BY <1>2, <1>5
<1>7. r = j
  BY <1>1, <1>2, <1>6
<1> QED
  BY <1>6, <1>7 DEF d, r, p

LEMMA WidthType ==
    ASSUME NEW f \in FileName, NEW s \in Settings \cup {Source}
    PROVE  /\ Width(f, s) \in Nat \ {0}
           /\ f = "truth" => Width(f, s) = 1 + s.k
           /\ f # "truth" => Width(f, s) = 1 + Dim
<1>1. s.k \in Nat
  BY DatasetAssumption DEF Source
<1> QED
  BY <1>1, DatasetAssumption DEF Width

\* A word that a run with setting s writes says whose it is and where it belongs.
LEMMA WordInPlace ==
    ASSUME NEW f \in FileName, NEW s \in Settings, NEW p \in Nat,
           p \div Width(f, s) < Records(f, s)
    PROVE  LET w == WordAt(f, s, p) IN
           /\ w \in AWord /\ w.by \in Owner(f)
           /\ w = WordAt(f, w.by, p)
           /\ p \div Width(f, w.by) < N
<1> DEFINE i == p \div Width(f, s)
           j == p % Width(f, s)
<1>1. /\ s.base \in 1 .. N /\ s.queries \in 1 .. N /\ s.k \in Nat \ {0} /\ s.k <= s.base
      /\ Dim \in Nat \ {0} /\ MaxDim \in Nat /\ N \in Nat
  BY DatasetAssumption, SizeAssumption
<1>2. i \in Nat /\ j \in 0 .. Width(f, s) - 1
  BY WidthType
<1>3. i < N
  BY <1>1, <1>2 DEF Records
<1> HIDE DEF i, j
<1>4. CASE f = "truth"
  <2>1. WordAt(f, s, p) = Word(IF j = 0 THEN s.k ELSE Ranked(i, s.base, j), s)
    BY <1>4 DEF WordAt, i, j
  <2>2. j # 0 => Ranked(i, s.base, j) \in 0 .. s.base - 1
    <3>1. i \in Node
      BY <1>1, <1>2, <1>3 DEF Node
    <3>2. j # 0 => j \in 1 .. s.base
      BY <1>1, <1>2, <1>4, WidthType
    <3> QED
      BY <1>1, <3>1, <3>2, RankedIs
  <2>3. (IF j = 0 THEN s.k ELSE Ranked(i, s.base, j)) \in Int
    BY <1>1, <2>2
  <2> HIDE DEF Word
  <2>4. WordAt(f, s, p) \in AWord /\ WordAt(f, s, p).by = s
    BY <2>1, <2>3 DEF Word, AWord
  <2> QED
    BY <1>3, <1>4, <2>4 DEF Owner, i
<1>5. CASE f # "truth"
  <2>1. WordAt(f, s, p) = Word(IF j = 0 THEN Dim ELSE Bits(i, j), Source)
    BY <1>5 DEF WordAt, i, j
  <2>2. Bits(i, j) \in Int
    <3>1. j \in Nat
      BY <1>2, WidthType
    <3>2. i * Dim \in Nat
      BY <1>1, <1>2
    <3> QED
      BY <1>1, <3>1, <3>2 DEF Bits
  <2>3. (IF j = 0 THEN Dim ELSE Bits(i, j)) \in Int
    BY <1>1, <2>2
  <2>4. WordAt(f, s, p) \in AWord /\ WordAt(f, s, p).by = Source
    BY <2>1, <2>3 DEF Word, AWord
  <2>5. Width(f, Source) = Width(f, s)
    BY <1>5 DEF Width
  <2>6. WordAt(f, Source, p) = WordAt(f, s, p)
    BY <1>5, <2>5 DEF WordAt
  <2> QED
    BY <1>3, <1>5, <2>4, <2>5, <2>6 DEF Owner, i
<1> QED
  BY <1>4, <1>5

LEMMA NothingInPlace == \A f \in FileName : InPlace(f, <<>>)
BY EmptySeq DEF InPlace

\* What a run appends to its file is in place if the file ends where the run is.
LEMMA RecordInPlace ==
    ASSUME NEW f \in FileName, NEW words, InPlace(f, words), NEW s \in Settings,
           NEW i \in Nat, i < Records(f, s), NEW n \in 1 .. Width(f, s),
           Len(words) = i * Width(f, s)
    PROVE  /\ InPlace(f, words \o Record(f, s, i, n))
           /\ Len(words \o Record(f, s, i, n)) = i * Width(f, s) + n
<1> DEFINE W == Width(f, s)
           R == Record(f, s, i, n)
           new == words \o R
<1>1. W \in Nat \ {0} /\ i * W \in Nat /\ n \in Nat
  BY WidthType
<1>2. ASSUME NEW j \in 1 .. n
      PROVE  LET w == WordAt(f, s, i * W + j - 1) IN
             /\ w \in AWord /\ w.by \in Owner(f)
             /\ w = WordAt(f, w.by, i * W + j - 1)
             /\ (i * W + j - 1) \div Width(f, w.by) < N
  <2>1. j - 1 \in 0 .. W - 1 /\ i * W + j - 1 \in Nat /\ i * W + j - 1 = i * W + (j - 1)
    BY <1>1
  <2>2. (i * W + j - 1) \div W = i
    BY <1>1, <2>1, DivMod
  <2> QED
    BY <2>1, <2>2, WordInPlace
<1>3. R = [j \in 1 .. n |-> WordAt(f, s, i * W + j - 1)]
  BY DEF Record
<1> HIDE DEF R
<1>4. R \in Seq(AWord) /\ Len(R) = n
  <2>1. \A j \in 1 .. n : WordAt(f, s, i * W + j - 1) \in AWord
    BY <1>2
  <2>2. R \in [1 .. n -> AWord]
    BY <1>3, <2>1
  <2> QED
    BY <1>1, <2>2
<1>5. /\ new \in Seq(AWord) /\ Len(new) = i * W + n
      /\ \A p \in 1 .. i * W + n : new[p] = IF p <= i * W THEN words[p] ELSE R[p - i * W]
  <2>1. words \in Seq(AWord) /\ Len(words) = i * W
    BY DEF InPlace
  <2>2. /\ new \in Seq(AWord) /\ Len(new) = Len(words) + Len(R)
        /\ \A p \in 1 .. Len(words) + Len(R) :
              new[p] = IF p <= Len(words) THEN words[p] ELSE R[p - Len(words)]
    BY <1>4, <2>1, ConcatProperties
  <2> QED
    BY <1>4, <2>1, <2>2
<1> HIDE DEF W
<1>6. ASSUME NEW p \in 1 .. i * W + n
      PROVE  /\ new[p].by \in Owner(f)
             /\ new[p] = WordAt(f, new[p].by, p - 1)
             /\ (p - 1) \div Width(f, new[p].by) < N
  <2>1. CASE p <= i * W
    <3>1. p \in 1 .. Len(words) /\ new[p] = words[p]
      BY <1>1, <1>5, <2>1 DEF W
    <3> HIDE DEF new
    <3> QED
      BY <3>1 DEF InPlace
  <2>2. CASE ~(p <= i * W)
    <3>1. p - i * W \in 1 .. n /\ i * W + (p - i * W) - 1 = p - 1
      BY <1>1, <2>2
    <3>2. new[p] = WordAt(f, s, p - 1)
      BY <1>3, <1>5, <2>2, <3>1
    <3> HIDE DEF new
    <3> QED
      BY <1>2, <3>1, <3>2
  <2> QED
    BY <2>1, <2>2
<1> HIDE DEF new
<1>7. InPlace(f, new)
  BY <1>5, <1>6 DEF InPlace
<1> QED
  BY <1>5, <1>7 DEF new, R, W

\* A word read at the place after those read is in place.
LEMMA ReadInPlace ==
    ASSUME NEW f \in FileName, NEW words, InPlace(f, words), NEW from, InPlace(f, from),
           Len(words) < Len(from)
    PROVE  InPlace(f, Append(words, from[Len(words) + 1]))
<1> DEFINE p == Len(words) + 1
           new == Append(words, from[p])
<1>1. Len(words) \in Nat /\ Len(from) \in Nat /\ p \in 1 .. Len(from)
  BY LenProperties DEF InPlace
<1>2. from[p] \in AWord
  BY <1>1, ElementOfSeq DEF InPlace
<1>3. /\ new \in Seq(AWord) /\ Len(new) = p /\ new[p] = from[p]
      /\ \A i \in 1 .. Len(words) : new[i] = words[i]
  BY <1>2, AppendProperties DEF InPlace
<1> HIDE DEF new
<1>4. \A i \in 1 .. p : i \in 1 .. Len(words) \/ i = p
  BY <1>1
<1> QED
  BY <1>1, <1>3, <1>4 DEF InPlace, new

-----------------------------------------------------------------------------
(* The steps of the subset command. *)

LEMMA FilesNamed == \A t \in 1 .. 3 : Files[t] \in FileName
BY DEF Files, FileName

LEMMA InitInPlace == DataInit => DataInv
<1> SUFFICES ASSUME DataInit PROVE DataInv
  OBVIOUS
<1>1. \A f \in FileName : InPlace(f, file[f]) /\ InPlace(f, got[f])
  BY NothingInPlace DEF DataInit
<1>2. reader.stage \in 1 .. 3 => InPlace(Name, reader.words)
  BY NothingInPlace, FilesNamed DEF DataInit, Name
<1>3. Writes
  BY DEF DataInit, Writes, Writing
<1>4. Progress
  BY DEF DataInit, Progress
<1> QED
  BY <1>1, <1>2, <1>3, <1>4 DEF DataInit, DataInv

\* A run of the command touches the files only.
LEMMA SubsetStep ==
    ASSUME DataInv, UNCHANGED <<reader, got, verdict>>, DOMAIN file' = FileName,
           \A f \in FileName : InPlace(f, file'[f]), Writes'
    PROVE  DataInv'
<1>1. Valid' <=> Valid
  BY DEF Valid, Length, DimOf, Ids, IdsKnown, Place
<1>2. Progress'
  BY <1>1 DEF DataInv, Progress, Headed
<1>3. (reader.stage \in 1 .. 3 => InPlace(Name, reader.words))'
  BY DEF DataInv, Name
<1> QED
  BY <1>2, <1>3 DEF DataInv

LEMMA BeginKeeps == ASSUME DataInv, NEW r \in Run, Begin(r) PROVE DataInv'
<1>1. PICK s \in Settings : sub' = [sub EXCEPT ![r] = [stage |-> 1, n |-> 0, s |-> s]]
  BY DEF Begin
<1>2. /\ file' = [file EXCEPT !["base"] = <<>>] /\ UNCHANGED <<reader, got, verdict>>
      /\ \A o \in Run : ~Writing(o)
  BY DEF Begin
<1>3. "base" \in FileName /\ DOMAIN file = FileName
  BY DEF FileName, DataInv
<1>4. DOMAIN file' = FileName /\ \A f \in FileName : InPlace(f, file'[f])
  BY <1>2, <1>3, NothingInPlace DEF DataInv
<1>5. sub \in [Run -> [stage : 0 .. 4, n : Nat, s : Settings \cup {Source}]]
  BY DEF DataInv, Writes
<1>6. /\ sub' \in [Run -> [stage : 0 .. 4, n : Nat, s : Settings \cup {Source}]]
      /\ sub'[r] = [stage |-> 1, n |-> 0, s |-> s]
      /\ \A o \in Run \ {r} : sub'[o] = sub[o]
  BY <1>1, <1>5
<1>7. \A o \in Run : Writing(o)' => o = r
  BY <1>2, <1>6 DEF Writing
<1>8. Target(r)' = "base"
  BY <1>6 DEF Target, Files
<1>9. Len(file'["base"]) = 0
  BY <1>2, <1>3, EmptySeq
<1>10. Records("base", s) \in Nat /\ Width("base", s) \in Nat
  BY <1>3, DatasetAssumption, WidthType DEF Records
<1>11. Writes'
  BY <1>6, <1>7, <1>8, <1>9, <1>10 DEF Writes
<1> QED
  BY <1>2, <1>4, <1>11, SubsetStep

LEMMA CreateKeeps == ASSUME DataInv, NEW r \in Run, Create(r) PROVE DataInv'
<1> DEFINE t == sub[r].stage + 1
           f == Files[t]
           s == sub[r].s
<1>1. /\ Writing(r) /\ sub[r].stage < 3
      /\ sub' = [sub EXCEPT ![r].stage = @ + 1, ![r].n = 0]
      /\ file' = [file EXCEPT ![f] = <<>>] /\ UNCHANGED <<reader, got, verdict>>
  BY DEF Create, Complete
<1>2. sub \in [Run -> [stage : 0 .. 4, n : Nat, s : Settings \cup {Source}]]
  BY DEF DataInv, Writes
<1>3. s \in Settings /\ \A o \in Run : Writing(o) => o = r
  BY <1>1 DEF DataInv, Writes
<1>4. t \in 1 .. 3 /\ t \in 0 .. 4
  BY <1>1 DEF Writing
<1>5. f \in FileName /\ DOMAIN file = FileName
  BY <1>4, FilesNamed DEF DataInv
<1>6. DOMAIN file' = FileName /\ \A g \in FileName : InPlace(g, file'[g])
  BY <1>1, <1>5, NothingInPlace DEF DataInv
<1>7. /\ sub' \in [Run -> [stage : 0 .. 4, n : Nat, s : Settings \cup {Source}]]
      /\ sub'[r].stage = t /\ sub'[r].n = 0 /\ sub'[r].s = s
      /\ \A o \in Run \ {r} : sub'[o] = sub[o]
  BY <1>1, <1>2, <1>4
<1>8. \A o \in Run : Writing(o)' => o = r
  BY <1>3, <1>7 DEF Writing
<1>9. Target(r)' = f
  BY <1>7 DEF Target
<1>10. Len(file'[f]) = 0
  BY <1>1, <1>5, EmptySeq
<1>11. Records(f, s) \in Nat /\ Width(f, s) \in Nat
  BY <1>3, <1>5, DatasetAssumption, WidthType DEF Records
<1> HIDE DEF f, s, t
<1>12. Writes'
  BY <1>3, <1>7, <1>8, <1>9, <1>10, <1>11 DEF Writes
<1> QED
  BY <1>1, <1>6, <1>12, SubsetStep

\* What is appended is in place, whole record or not.
LEMMA PutsInPlace ==
    ASSUME DataInv, NEW r \in Run, Writing(r), ~Complete(r),
           NEW n \in 1 .. Width(Target(r), sub[r].s), Puts(r, n)
    PROVE  /\ DOMAIN file' = FileName /\ \A f \in FileName : InPlace(f, file'[f])
           /\ Len(file'[Target(r)]) = sub[r].n * Width(Target(r), sub[r].s) + n
           /\ sub[r].n < Records(Target(r), sub[r].s)
<1> DEFINE f == Target(r)
           s == sub[r].s
           i == sub[r].n
<1>1. f \in FileName /\ DOMAIN file = FileName /\ InPlace(f, file[f])
  BY FilesNamed DEF Writing, Target, DataInv
<1>2. s \in Settings /\ i \in Nat /\ i <= Records(f, s) /\ Len(file[f]) = i * Width(f, s)
  BY DEF DataInv, Writes
<1>3. Records(f, s) \in Nat
  BY <1>2, DatasetAssumption DEF Records
<1>4. i < Records(f, s)
  BY <1>2, <1>3 DEF Complete
<1>5. file' = [file EXCEPT ![f] = file[f] \o Record(f, s, i, n)]
  BY DEF Puts
<1>6. n \in 1 .. Width(f, s)
  OBVIOUS
<1> HIDE DEF f, s, i
<1>7. /\ InPlace(f, file[f] \o Record(f, s, i, n))
      /\ Len(file[f] \o Record(f, s, i, n)) = i * Width(f, s) + n
  BY <1>1, <1>2, <1>4, <1>6, RecordInPlace
<1>8. DOMAIN file' = FileName /\ \A g \in FileName : InPlace(g, file'[g])
  BY <1>1, <1>5, <1>7 DEF DataInv
<1>9. Len(file'[f]) = i * Width(f, s) + n
  BY <1>1, <1>5, <1>7
<1> QED
  BY <1>4, <1>8, <1>9 DEF f, s, i

LEMMA WriteKeeps == ASSUME DataInv, NEW r \in Run, Write(r) PROVE DataInv'
<1> DEFINE f == Target(r)
           s == sub[r].s
           W == Width(f, s)
<1>1. /\ Writing(r) /\ ~Complete(r) /\ Puts(r, W)
      /\ sub' = [sub EXCEPT ![r].n = @ + 1] /\ UNCHANGED <<reader, got, verdict>>
  BY DEF Write
<1>2. sub \in [Run -> [stage : 0 .. 4, n : Nat, s : Settings \cup {Source}]]
  BY DEF DataInv, Writes
<1>3. s \in Settings /\ \A o \in Run : Writing(o) => o = r
  BY <1>1 DEF DataInv, Writes
<1>4. f \in FileName
  BY <1>1, FilesNamed DEF Writing, Target
<1>5. W \in Nat \ {0} /\ W \in 1 .. W
  BY <1>3, <1>4, WidthType
<1>6. /\ DOMAIN file' = FileName /\ \A g \in FileName : InPlace(g, file'[g])
      /\ Len(file'[f]) = sub[r].n * W + W
      /\ sub[r].n < Records(f, s)
  BY <1>1, <1>5, PutsInPlace
<1>7. /\ sub' \in [Run -> [stage : 0 .. 4, n : Nat, s : Settings \cup {Source}]]
      /\ sub'[r].stage = sub[r].stage /\ sub'[r].n = sub[r].n + 1 /\ sub'[r].s = s
      /\ \A o \in Run \ {r} : sub'[o] = sub[o]
  BY <1>1, <1>2
<1>8. \A o \in Run : Writing(o)' => o = r
  BY <1>3, <1>7 DEF Writing
<1>9. Target(r)' = f
  BY <1>7 DEF Target
<1>10. Records(f, s) \in Nat
  BY <1>3, DatasetAssumption DEF Records
<1>11. sub[r].n \in Nat
  BY <1>2
<1>12. (sub[r].n + 1) * W = sub[r].n * W + W /\ sub[r].n + 1 <= Records(f, s)
  BY <1>5, <1>6, <1>10, <1>11
<1> HIDE DEF f, s
<1>13. Writes'
  BY <1>3, <1>6, <1>7, <1>8, <1>9, <1>12 DEF Writes
<1> QED
  BY <1>1, <1>6, <1>13, SubsetStep

LEMMA EndKeeps == ASSUME DataInv, NEW r \in Run, End(r) PROVE DataInv'
<1>1. /\ Writing(r) /\ sub' = [sub EXCEPT ![r].stage = 4] /\ UNCHANGED <<reader, got, verdict>>
  BY DEF End
<1>2. DOMAIN file' = FileName /\ \A f \in FileName : InPlace(f, file'[f])
  <2>1. CASE UNCHANGED file
    BY <2>1 DEF DataInv
  <2>2. CASE ~Complete(r) /\ \E n \in 1 .. Width(Target(r), sub[r].s) - 1 : Puts(r, n)
    <3>1. PICK n \in 1 .. Width(Target(r), sub[r].s) - 1 : Puts(r, n)
      BY <2>2
    <3>2. Target(r) \in FileName /\ sub[r].s \in Settings
      BY <1>1, FilesNamed DEF Writing, Target, DataInv, Writes
    <3>3. n \in 1 .. Width(Target(r), sub[r].s)
      BY <3>1, <3>2, WidthType
    <3> QED
      BY <1>1, <2>2, <3>1, <3>3, PutsInPlace
  <2> QED
    BY <2>1, <2>2 DEF End
<1>3. sub \in [Run -> [stage : 0 .. 4, n : Nat, s : Settings \cup {Source}]]
  BY DEF DataInv, Writes
<1>4. /\ sub' \in [Run -> [stage : 0 .. 4, n : Nat, s : Settings \cup {Source}]]
      /\ sub'[r].stage = 4 /\ \A o \in Run \ {r} : sub'[o] = sub[o]
  BY <1>1, <1>3
<1>5. \A o \in Run : Writing(o) => o = r
  BY <1>1 DEF DataInv, Writes
<1>6. \A o \in Run : ~Writing(o)'
  BY <1>4, <1>5 DEF Writing
<1>7. Writes'
  BY <1>4, <1>6 DEF Writes
<1> QED
  BY <1>1, <1>2, <1>7, SubsetStep

-----------------------------------------------------------------------------
(* The benchmark's steps. *)

LEMMA OpenKeeps == ASSUME DataInv, Open PROVE DataInv'
<1>1. UNCHANGED <<file, sub, got>> /\ Writes'
  BY DEF Open, Refuse, DataInv, Writes, Writing, Target
<1>2. CASE Refuse
  BY <1>1, <1>2 DEF Refuse, DataInv, Progress, Headed, Name
<1>3. CASE reader' = [reader EXCEPT !.size = Len(Words)] /\ UNCHANGED verdict
  <2>1. verdict = "none" /\ reader.stage \in 1 .. 3
    BY DEF Open, Reads
  <2>2. Len(Words) \in Nat
    BY <2>1, FilesNamed, LenProperties DEF Words, Name, DataInv, InPlace
  <2>3. /\ reader' = [stage |-> reader.stage, size |-> Len(Words), words |-> reader.words]
    BY <1>3 DEF DataInv
  <2> QED
    BY <1>1, <1>3, <2>1, <2>2, <2>3 DEF DataInv, Progress, Headed, Name
<1> QED
  BY <1>2, <1>3 DEF Open

LEMMA ReadWordKeeps == ASSUME DataInv, ReadWord PROVE DataInv'
<1>1. UNCHANGED <<file, sub>> /\ Writes'
  BY DEF ReadWord, Gets, Refuse, DataInv, Writes, Writing, Target
<1>2. CASE Refuse
  BY <1>1, <1>2 DEF Refuse, DataInv, Progress, Headed, Name
<1>3. CASE ~Refuse
  <2> DEFINE n == Len(reader.words)
             new == Append(reader.words, Words[n + 1])
             t == reader.stage
  <2>1. /\ verdict = "none" /\ t \in 1 .. 3 /\ reader.size > 0
        /\ n < Len(Words) /\ WordOK(Words[n + 1].v) /\ Gets(new)
    BY <1>3 DEF ReadWord, Reads
  <2>2. Name \in FileName /\ InPlace(Name, reader.words) /\ InPlace(Name, Words)
    BY <2>1, FilesNamed DEF Name, Words, DataInv
  <2>3. InPlace(Name, new)
    BY <2>1, <2>2, ReadInPlace
  <2>4. Headed(new)
    <3>1. reader.words \in Seq(AWord) /\ Words[n + 1] \in AWord
      <4>1. n \in Nat /\ Len(Words) \in Nat /\ n + 1 \in 1 .. Len(Words)
        BY <2>1, <2>2, LenProperties DEF InPlace
      <4> QED
        BY <2>2, <4>1, ElementOfSeq DEF InPlace
    <3>2. new # <<>> /\ new[1] = IF reader.words = <<>> THEN Words[n + 1] ELSE reader.words[1]
      <4>1. Len(new) = n + 1 /\ new[n + 1] = Words[n + 1] /\ \A i \in 1 .. n : new[i] = reader.words[i]
        BY <3>1, AppendProperties
      <4>2. n \in Nat /\ (n = 0 <=> reader.words = <<>>)
        BY <3>1, EmptySeq, LenProperties
      <4>3. Len(new) # 0
        BY <4>1, <4>2
      <4> QED
        BY <4>1, <4>2, <4>3, EmptySeq
    <3>3. reader.words # <<>> => Headed(reader.words)
      BY <2>1 DEF DataInv, Progress
    <3> HIDE DEF new
    <3> QED
      BY <2>1, <3>2, <3>3 DEF Headed, WordOK
  <2>5. UNCHANGED verdict
    BY <2>1 DEF Gets
  <2> HIDE DEF new
  <2>6. CASE Len(new) = reader.size
    <3>1. /\ got' = [got EXCEPT ![Name] = new]
          /\ reader' = [stage |-> t + 1, size |-> 0, words |-> <<>>]
      BY <2>1, <2>6 DEF Gets
    <3>2. DOMAIN got = FileName /\ \A f \in FileName : InPlace(f, got[f])
      BY DEF DataInv
    <3>3. DOMAIN got' = FileName /\ \A f \in FileName : InPlace(f, got'[f])
      BY <2>2, <2>3, <3>1, <3>2
    <3>4. \A u \in 1 .. 3 : u < reader'.stage => Headed(got'[Files[u]])
      <4> SUFFICES ASSUME NEW u \in 1 .. 3, u < t + 1 PROVE Headed(got'[Files[u]])
        BY <3>1
      <4>1. CASE Files[u] = Name
        BY <2>2, <2>4, <3>1, <3>2, <4>1
      <4>2. CASE Files[u] # Name
        <5>1. u < t
          BY <2>1, <4>2 DEF Name
        <5>2. Headed(got[Files[u]])
          BY <5>1 DEF DataInv, Progress
        <5> QED
          BY <3>1, <3>2, <4>2, <5>2, FilesNamed
      <4> QED
        BY <4>1, <4>2
    <3>5. Progress'
      BY <2>1, <2>5, <3>1, <3>4 DEF Progress
    <3>6. (reader.stage \in 1 .. 3 => InPlace(Name, reader.words))'
      BY <3>1, NothingInPlace, FilesNamed DEF Name
    <3> QED
      BY <1>1, <3>1, <3>3, <3>5, <3>6 DEF DataInv
  <2>7. CASE Len(new) # reader.size
    <3>1. reader' = [reader EXCEPT !.words = new] /\ UNCHANGED got
      BY <2>1, <2>7 DEF Gets
    <3>2. reader' = [stage |-> t, size |-> reader.size, words |-> new]
      BY <3>1 DEF DataInv
    <3>3. Progress'
      BY <2>1, <2>4, <2>5, <3>1, <3>2 DEF DataInv, Progress
    <3>4. (reader.stage \in 1 .. 3 => InPlace(Name, reader.words))'
      BY <2>3, <3>2 DEF Name
    <3> QED
      BY <1>1, <3>1, <3>2, <3>3, <3>4 DEF DataInv
  <2> QED
    BY <2>6, <2>7
<1> QED
  BY <1>2, <1>3

LEMMA ValidateKeeps == ASSUME DataInv, Validate PROVE DataInv'
<1>1. /\ UNCHANGED <<file, sub, reader, got>> /\ reader.stage = 4
      /\ verdict' = IF Valid THEN "accepted" ELSE "failed"
  BY DEF Validate
<1>2. Writes'
  BY <1>1 DEF DataInv, Writes, Writing, Target
<1>3. Valid' <=> Valid
  BY <1>1 DEF Valid, Length, DimOf, Ids, IdsKnown, Place
<1>4. Progress'
  BY <1>1, <1>3 DEF DataInv, Progress, Headed
<1> QED
  BY <1>1, <1>2, <1>4 DEF DataInv, Name

\* Measuring leaves the dataset alone, and nothing happens by itself.
LEMMA RestKeeps == DataInv /\ UNCHANGED dataVars => DataInv'
<1> SUFFICES ASSUME DataInv, UNCHANGED dataVars PROVE DataInv'
  OBVIOUS
<1>1. Writes'
  BY DEF dataVars, DataInv, Writes, Writing, Target
<1> QED
  BY <1>1, SubsetStep DEF dataVars, DataInv

\* There is a number of queries once the dataset is accepted.
LEMMA LengthType ==
    ASSUME DataInv, verdict = "accepted", NEW f \in FileName
    PROVE  DimOf(f) \in 1 .. MaxDim /\ Length(f) \in Nat /\ Len(got[f]) \in Nat
<1>1. PICK t \in 1 .. 3 : f = Files[t]
  <2>1. Files[1] = "base" /\ Files[2] = "query" /\ Files[3] = "truth"
    BY DEF Files
  <2> QED
    BY <2>1 DEF FileName
<1>2. DimOf(f) \in 1 .. MaxDim
  BY <1>1 DEF DataInv, Progress, Headed, DimOf
<1>3. Len(got[f]) \in Nat
  BY LenProperties DEF DataInv, InPlace
<1> QED
  BY <1>2, <1>3, DatasetAssumption DEF Length

LEMMA InitHolds == Init => IInv
BY InitInPlace DEF Init, IInv, DataInit

LEMMA StepKeeps == IInv /\ [Next]_vars => IInv'
<1> SUFFICES ASSUME IInv, [Next]_vars PROVE IInv'
  OBVIOUS
<1> USE DEF IInv
<1>1. ASSUME UNCHANGED <<got, verdict, timeVars>>, DataInv' PROVE IInv'
  BY <1>1 DEF timeVars, TimeInit, Counting, Measured, Length, DimOf
<1>2. CASE ReadOn
  <2>1. DataInv' /\ UNCHANGED timeVars
    BY <1>2, OpenKeeps, ReadWordKeeps, ValidateKeeps DEF ReadOn, ReadAll
  <2>2. TimeInit
    BY <1>2 DEF ReadOn, ReadAll, Open, ReadWord, Reads, Validate
  <2>3. TimeInit'
    BY <2>1, <2>2 DEF timeVars, TimeInit
  <2>4. verdict' = "accepted" => Length("query")' \in Nat
    <3>1. "query" \in FileName
      BY DEF FileName
    <3>2. DimOf("query")' = got'["query"][1].v
      BY DEF DimOf
    <3>3. verdict' = "accepted" => UNCHANGED got /\ reader.stage = 4
      BY <1>2, <2>1 DEF ReadOn, ReadAll, Open, ReadWord, Reads, Validate, Refuse, Gets
    <3>4. reader.stage = 4 => Headed(got["query"])
      <4>1. Files[2] = "query"
        BY DEF Files
      <4> QED
        BY <4>1 DEF DataInv, Progress
    <3>5. Len(got["query"]) \in Nat
      BY <3>1, LenProperties DEF DataInv, InPlace
    <3> SUFFICES ASSUME verdict' = "accepted" PROVE Length("query")' \in Nat
      OBVIOUS
    <3>6. got["query"][1].v \in Nat
      BY <3>3, <3>4, DatasetAssumption DEF Headed
    <3>7. Length("query")' = Len(got["query"]) \div (1 + got["query"][1].v)
      BY <3>2, <3>3 DEF Length
    <3> QED
      BY <3>5, <3>6, <3>7
  <2>5. ASSUME NEW n \in Nat PROVE Counting(n)'
    <3>1. Counting(n)
      BY <2>2, InitCounts
    <3> QED
      BY <2>1, <3>1 DEF timeVars, Counting, Measured
  <2> QED
    BY <2>1, <2>3, <2>4, <2>5
<1>3. CASE Measures
  <2> DEFINE q == Length("query")
  <2>1. verdict = "accepted" /\ UNCHANGED dataVars /\ (Start \/ Measure(q, K))
    BY <1>3 DEF Measures
  <2>2. DataInv'
    BY <2>1, RestKeeps
  <2>3. q \in Nat /\ K \in Nat /\ Counting(q)
    BY <2>1, LengthType, DatasetAssumption DEF FileName
  <2>4. Length("query")' = q /\ verdict' = verdict
    BY <2>1 DEF dataVars, Length, DimOf
  <2> HIDE DEF q
  <2>5. PICK n \in Nat : n = q
    BY <2>3
  <2>6. Counting(n) /\ (Start \/ Measure(n, K))
    BY <2>1, <2>3, <2>5 DEF q
  <2>7. Counting(n)'
    <3>1. CASE NextWidth(K)
      BY <2>3, <2>6, <3>1, BenchmarkAssumption, NextWidthCounts
    <3>2. CASE Stop(n)
      BY <2>6, <3>2, StopCounts
    <3>3. CASE Start \/ GiveUp(n) \/ Sweep(n) \/ Latency
      BY <2>6, <3>3, RestCounts
    <3> QED
      BY <2>6, <3>1, <3>2, <3>3 DEF Measure
  <2>8. Length("query")' = n
    BY <2>4, <2>5
  <2> QED
    BY <2>1, <2>2, <2>4, <2>7, <2>8 DEF Counting, Measured
<1>4. ASSUME NEW r \in Run, Subset(r), UNCHANGED timeVars PROVE IInv'
  <2>1. DataInv'
    BY <1>4, BeginKeeps, CreateKeeps, WriteKeeps, EndKeeps DEF Subset
  <2>2. UNCHANGED <<got, verdict>>
    BY <1>4 DEF Subset, Begin, Create, Write, End
  <2> QED
    BY <1>1, <1>4, <2>1, <2>2
<1>5. CASE UNCHANGED vars
  BY <1>1, <1>5, RestKeeps DEF vars, dataVars
<1> QED
  BY <1>2, <1>3, <1>4, <1>5 DEF Next, Bench

-----------------------------------------------------------------------------
(* Theorems. *)

\* The invariant holds for any source, settings and clock.
THEOREM Invariance == Spec => []IInv
<1> QED
  BY InitHolds, StepKeeps, PTL DEF Spec

\* The rows of the ground truth that were computed over enough vectors are the
\* answers for what was read.
LEMMA RowsAreTrue ==
    ASSUME DataInv, verdict = "accepted", NEW i \in 1 .. Length("query"),
           NEW s \in Settings, Computed(s, i)
    PROVE  { Ids(i)[j] : j \in 1 .. K } = Nearest(i - 1, 0 .. Length("base") - 1, K)
<1> DEFINE words == got["truth"]
           d == DimOf("truth")
           m == Length("base")
           q == i - 1
<1>1. /\ d \in 1 .. MaxDim /\ MaxDim \in Nat /\ Len(words) \in Nat /\ m \in Nat
      /\ Length("query") \in Nat
  BY LengthType, DatasetAssumption DEF FileName
<1>2. Valid
  BY DEF DataInv, Progress
<1>3. /\ i \in 1 .. Length("truth") /\ K <= m /\ K <= d /\ K \in Nat \ {0}
      /\ IdsKnown(Ids(i), m)
  BY <1>2, DatasetAssumption DEF Valid
<1>4. s.base \in 1 .. N /\ s.k \in 1 .. s.base /\ s.k = d /\ m <= s.base /\ N \in Nat
  BY DatasetAssumption, SizeAssumption DEF Computed
<1>5. i * (1 + d) <= Len(words) /\ i * (1 + d) = q * (1 + d) + (1 + d) /\ q \in Nat
  <2> DEFINE w == 1 + d
             c == Len(words) \div w
  <2>1. w \in Nat \ {0} /\ i \in Nat /\ q \in Nat
    BY <1>1, <1>3
  <2>2. c \in Nat /\ c * w <= Len(words)
    BY <1>1, <2>1, Whole
  <2>3. i <= c
    BY <1>3 DEF Length
  <2> HIDE DEF w, c
  <2>4. i * w <= c * w /\ i * w \in Nat /\ c * w \in Nat
    BY <2>1, <2>2, <2>3, Multiples
  <2>5. i * w = q * w + w
    BY <2>1
  <2>6. i * w <= Len(words)
    BY <1>1, <2>2, <2>4
  <2> QED
    BY <2>1, <2>5, <2>6 DEF w
<1>6. ASSUME NEW j \in 1 .. d
      PROVE  Ids(i)[j] = Ranked(q, s.base, j) /\ q < N
  <2> DEFINE p == q * (1 + d) + 1 + j
  <2>1. Place("truth", i, j) = p /\ Ids(i)[j] = words[p].v
    BY DEF Place, Ids
  <2>2. /\ p \in 1 .. Len(words) /\ p - 1 = q * (1 + d) + j
        /\ j \in 0 .. (1 + d) - 1 /\ 1 + d \in Nat \ {0}
    <3> DEFINE x == q * (1 + d)
    <3>1. x \in Nat /\ x + (1 + d) <= Len(words) /\ p = x + 1 + j /\ d \in Nat /\ j \in 1 .. d
      BY <1>1, <1>5
    <3> HIDE DEF x, p
    <3>2. p \in 1 .. Len(words) /\ p - 1 = x + j
      BY <1>1, <3>1
    <3>3. p - 1 = q * (1 + d) + j
      BY <3>2 DEF x
    <3>4. j \in 0 .. (1 + d) - 1 /\ 1 + d \in Nat \ {0}
      BY <3>1
    <3> QED
      BY <3>2, <3>3, <3>4
  <2>3. words[p].by = s
    BY <2>1 DEF Computed
  <2> HIDE DEF p
  <2>4. words[p] = WordAt("truth", s, p - 1) /\ (p - 1) \div Width("truth", s) < N
    BY <2>2, <2>3 DEF DataInv, InPlace, FileName
  <2>5. Width("truth", s) = 1 + d
    BY <1>4 DEF Width
  <2>6. (p - 1) \div (1 + d) = q /\ (p - 1) % (1 + d) = j
    BY <1>5, <2>2, DivMod
  <2>7. WordAt("truth", s, p - 1) = Word(Ranked(q, s.base, j), s)
    <3>1. j # 0 /\ (p - 1) \div Width("truth", s) = q /\ (p - 1) % Width("truth", s) = j
      BY <2>5, <2>6
    <3> HIDE DEF q
    <3> QED
      BY <3>1 DEF WordAt
  <2> QED
    BY <2>1, <2>4, <2>5, <2>6, <2>7 DEF Word
<1>7. q \in Node
  BY <1>1, <1>4, <1>5, <1>6 DEF Node
<1>8. \A j \in 1 .. s.k : Ranked(q, s.base, j) < m
  <2>1. \A j \in 1 .. d : j \in DOMAIN Ids(i)
    BY DEF Ids
  <2> QED
    BY <1>3, <1>4, <1>6, <2>1 DEF IdsKnown
<1>9. m \in 1 .. s.base /\ K \in 1 .. s.k
  BY <1>1, <1>3, <1>4
<1> HIDE DEF q, m
<1>10. \A x : x \in Nearest(q, 0 .. m - 1, K) <=> \E j \in 1 .. K : x = Ranked(q, s.base, j)
  BY <1>4, <1>7, <1>8, <1>9, FirstAreNearest
<1>11. \A j \in 1 .. K : Ids(i)[j] = Ranked(q, s.base, j)
  BY <1>1, <1>3, <1>6
<1> QED
  BY <1>10, <1>11 DEF q, m

\* What the benchmark accepts is the source's vectors, and its recall is against
\* true answers, whoever wrote the files when, for each row that one run computed
\* over at least the vectors that were read.
THEOREM TruthIsReal == Spec => []RealTruth
<1>1. ASSUME DataInv PROVE RealTruth
  <2> SUFFICES ASSUME verdict = "accepted"
               PROVE  /\ FromSource("base") /\ FromSource("query")
                      /\ \A i \in 1 .. Length("query"), s \in Settings :
                          Computed(s, i) =>
                            { Ids(i)[j] : j \in 1 .. K } = Nearest(i - 1, 0 .. Length("base") - 1, K)
    BY DEF RealTruth
  <2>1. ASSUME NEW f \in {"base", "query"} PROVE FromSource(f)
    <3>1. InPlace(f, got[f]) /\ Owner(f) = {Source}
      BY <1>1 DEF DataInv, FileName, Owner
    <3>2. DOMAIN got[f] = 1 .. Len(got[f])
      BY <3>1, LenProperties DEF InPlace
    <3> QED
      BY <3>1, <3>2 DEF FromSource, InPlace
  <2> QED
    BY <1>1, <2>1, RowsAreTrue
<1> QED
  BY <1>1, Invariance, PTL DEF IInv

\* Whatever the clock says, the points of a report were measured.
THEOREM ReportsMeasured == Spec => []Measured
<1>1. TimeInit => Measured
  BY DEF TimeInit, Measured
<1>2. IInv => Measured
  BY <1>1 DEF IInv, Counting
<1> QED
  BY <1>2, Invariance, PTL
=============================================================================
