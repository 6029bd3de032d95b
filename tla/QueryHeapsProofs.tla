--------------------------- MODULE QueryHeapsProofs ---------------------------
(***************************************************************************)
(* Proofs about QueryHeaps: the two heaps stay heaps, whatever is compared,*)
(* NaN included; a search with them is a search with sets, so that what    *)
(* QueryProofs says of answers is true of it; and NaN costs no answers.    *)
(*                                                                         *)
(* The loops of the code are recursive functions.  That they are what      *)
(* their definitions say, and what they return, follows from one fact: a   *)
(* loop that counts down ends.  Induction over the numbers is derived from *)
(* the pigeonhole principle first, for sets of numbers.                    *)
(***************************************************************************)
EXTENDS QueryHeaps, FiniteSetTheorems, SequenceTheorems, TLAPS

-----------------------------------------------------------------------------
(* Loops. *)

\* A set of numbers with 0 and every successor has all of them: else adding 1
\* would map those up to one that is missing into themselves, all but 0.
LEMMA NumbersInduct ==
    ASSUME NEW S \in SUBSET Nat, 0 \in S, \A n \in S : n + 1 \in S
    PROVE  S = Nat
<1> SUFFICES ASSUME NEW n \in Nat, n \notin S PROVE FALSE
  OBVIOUS
<1> DEFINE T == { i \in S : i <= n }
           f == [i \in T |-> i + 1]
<1>1. IsFiniteSet(T)
  BY FS_BoundedSetOfNaturals
<1>2. 0 \in T
  OBVIOUS
<1>3. f \in [T -> T \ {0}]
  <2>1. ASSUME NEW i \in T PROVE i + 1 \in T \ {0}
    <3>1. i + 1 \in S /\ i # n /\ i \in Nat /\ i <= n
      OBVIOUS
    <3> QED
      BY <3>1
  <2> QED
    BY <2>1
<1>4. /\ IsFiniteSet(T \ {0}) /\ Cardinality(T \ {0}) = Cardinality(T) - 1
      /\ Cardinality(T) \in Nat
  BY <1>1, <1>2, FS_RemoveElement, FS_CardinalityType
<1>5. \E x, y \in T : x # y /\ f[x] = f[y]
  <2> HIDE DEF T, f
  <2>1. Cardinality(T \ {0}) < Cardinality(T)
    BY <1>4
  <2> QED
    BY <1>1, <1>3, <1>4, <2>1, FS_PigeonHole
<1> QED
  BY <1>5

\* What holds of x if it holds of all of lower rank holds of all.
LEMMA RanksInduct ==
    ASSUME NEW D, NEW rank \in [D -> Nat], NEW G \in SUBSET D,
           \A x \in D : (\A y \in D : rank[y] < rank[x] => y \in G) => x \in G
    PROVE  G = D
<1> DEFINE S == { n \in Nat : \A x \in D : rank[x] < n => x \in G }
<1>1. 0 \in S
  BY \A x \in D : rank[x] \in Nat
<1>2. ASSUME NEW n \in S PROVE n + 1 \in S
  <2>1. ASSUME NEW x \in D, rank[x] < n + 1 PROVE x \in G
    <3>1. rank[x] \in Nat /\ n \in Nat
      OBVIOUS
    <3>2. \A y \in D : rank[y] \in Nat /\ (rank[y] < rank[x] => rank[y] < n)
      BY <2>1, <3>1
    <3> QED
      BY <3>2
  <2> QED
    BY <2>1
<1>3. S = Nat
  <2> HIDE DEF S
  <2>1. S \in SUBSET Nat
    BY DEF S
  <2> QED
    BY <1>1, <1>2, <2>1, NumbersInduct
<1>4. ASSUME NEW x \in D PROVE x \in G
  <2>1. rank[x] \in Nat /\ rank[x] + 1 \in S
    BY <1>3
  <2> QED
    BY <2>1
<1> QED
  BY <1>4

\* f[x] is what the loop returns that is begun in state x of D: it goes on with
\* next until it is in stop, and returns val then.
Loops(f, D, stop, next, val) == f = [x \in D |-> IF x \in stop THEN val[x] ELSE f[next[x]]]

\* With every turn its rank goes down.
CountsDown(D, stop, next, rank) ==
    /\ stop \subseteq D /\ next \in [D -> D] /\ rank \in [D -> Nat]
    /\ \A x \in D \ stop : rank[next[x]] < rank[x]

\* A loop that counts down has a result from wherever it is begun: there is a
\* function that satisfies its equation.  Its graph is the least one closed
\* under going back a turn.
LEMMA LoopHasResult ==
    ASSUME NEW D, NEW stop, NEW next, NEW val, NEW rank, CountsDown(D, stop, next, rank)
    PROVE  \E f : Loops(f, D, stop, next, val)
<1>0. /\ stop \in SUBSET D /\ next \in [D -> D] /\ rank \in [D -> Nat]
      /\ \A x \in D \ stop : rank[next[x]] < rank[x]
  BY DEF CountsDown
<1> DEFINE V == { val[x] : x \in D }
           Closed(R) == /\ \A x \in stop : <<x, val[x]>> \in R
                        /\ \A x \in D \ stop, v \in V : <<next[x], v>> \in R => <<x, v>> \in R
           L == { p \in D \X V : \A R \in SUBSET (D \X V) : Closed(R) => p \in R }
<1>1. Closed(L)
  BY <1>0
<1>2. L \in SUBSET (D \X V) /\ \A R \in SUBSET (D \X V) : Closed(R) => L \subseteq R
  OBVIOUS
<1> HIDE DEF L
<1>3. ASSUME NEW x \in stop, NEW v \in V, <<x, v>> \in L PROVE v = val[x]
  <2>1. SUFFICES ASSUME v # val[x] PROVE FALSE
    OBVIOUS
  <2>2. Closed(L \ {<<x, v>>})
    BY <1>1, <2>1
  <2> QED
    BY <1>2, <1>3, <2>2
<1>4. ASSUME NEW x \in D \ stop, NEW v \in V, <<x, v>> \in L PROVE <<next[x], v>> \in L
  <2>1. SUFFICES ASSUME <<next[x], v>> \notin L PROVE FALSE
    OBVIOUS
  <2>2. ASSUME NEW y \in D \ stop, NEW u \in V, <<next[y], u>> \in L \ {<<x, v>>}
        PROVE  <<y, u>> \in L \ {<<x, v>>}
    <3>1. <<y, u>> \in L
      BY <1>1, <2>2
    <3>2. CASE y = x /\ u = v
      BY <2>1, <2>2, <3>2
    <3> QED
      BY <3>1, <3>2
  <2>3. \A y \in stop : <<y, val[y]>> \in L \ {<<x, v>>}
    BY <1>1
  <2>4. Closed(L \ {<<x, v>>})
    BY <2>2, <2>3
  <2> QED
    BY <1>2, <1>4, <2>4
<1> DEFINE G == { x \in D : \E v \in V : <<x, v>> \in L /\ \A u \in V : <<x, u>> \in L => u = v }
<1>5. ASSUME NEW x \in D, \A y \in D : rank[y] < rank[x] => y \in G PROVE x \in G
  <2>1. CASE x \in stop
    BY <1>1, <1>3, <2>1
  <2>2. CASE x \notin stop
    <3>1. PICK v \in V : <<next[x], v>> \in L /\ \A u \in V : <<next[x], u>> \in L => u = v
      BY <1>0, <1>5, <2>2
    <3>2. <<x, v>> \in L /\ \A u \in V : <<x, u>> \in L => u = v
      BY <1>1, <1>4, <2>2, <3>1
    <3> QED
      BY <3>2
  <2> QED
    BY <2>1, <2>2
<1>6. G = D
  <2> HIDE DEF G
  <2>1. G \in SUBSET D
    BY DEF G
  <2> QED
    BY <1>0, <1>5, <2>1, RanksInduct
<1> DEFINE f == [x \in D |-> CHOOSE v \in V : <<x, v>> \in L]
<1>7. ASSUME NEW x \in D
      PROVE  f[x] \in V /\ <<x, f[x]>> \in L /\ \A u \in V : <<x, u>> \in L => u = f[x]
  BY <1>6
<1>8. ASSUME NEW x \in D PROVE f[x] = IF x \in stop THEN val[x] ELSE f[next[x]]
  <2> HIDE DEF f
  <2>1. CASE x \in stop
    BY <1>3, <1>7, <2>1
  <2>2. CASE x \notin stop
    <3>1. next[x] \in D
      BY <1>0
    <3>2. <<next[x], f[x]>> \in L /\ f[x] \in V
      BY <1>4, <1>7, <2>2
    <3> QED
      BY <1>7, <2>2, <3>1, <3>2
  <2> QED
    BY <2>1, <2>2
<1>9. Loops(f, D, stop, next, val)
  <2>1. f = [x \in D |-> IF x \in stop THEN val[x] ELSE f[next[x]]]
    BY <1>0, <1>8
  <2> HIDE DEF f
  <2> QED
    BY <2>1 DEF Loops
<1> QED
  <2> HIDE DEF f
  <2> QED
    BY <1>9

\* I is an invariant of the loop, and what it returns from I is in P.
Invariant(I, stop, next, val, P) ==
    \A x \in I : IF x \in stop THEN val[x] \in P ELSE next[x] \in I

\* Begun within an invariant, it ends with what the invariant makes of its end.
LEMMA LoopKeeps ==
    ASSUME NEW D, NEW stop, NEW next, NEW val, NEW rank, CountsDown(D, stop, next, rank),
           NEW f, Loops(f, D, stop, next, val),
           NEW I, I \subseteq D, NEW P, Invariant(I, stop, next, val, P)
    PROVE  \A x \in I : f[x] \in P
<1>0. /\ next \in [D -> D] /\ rank \in [D -> Nat]
      /\ \A x \in D \ stop : rank[next[x]] < rank[x]
  BY DEF CountsDown
<1> DEFINE G == { x \in D : x \in I => f[x] \in P }
<1>1. ASSUME NEW x \in D, \A y \in D : rank[y] < rank[x] => y \in G PROVE x \in G
  <2>1. \A y \in D : f[y] = IF y \in stop THEN val[y] ELSE f[next[y]]
    BY DEF Loops
  <2>2. CASE x \in stop
    BY <2>1, <2>2 DEF Invariant
  <2>3. CASE x \notin stop
    <3>1. next[x] \in G
      BY <1>0, <1>1, <2>3
    <3> QED
      BY <2>1, <2>3, <3>1 DEF Invariant
  <2> QED
    BY <2>2, <2>3
<1>2. G = D
  <2> HIDE DEF G
  <2>1. G \in SUBSET D
    BY DEF G
  <2> QED
    BY <1>0, <1>1, <2>1, RanksInduct
<1> QED
  BY <1>2

-----------------------------------------------------------------------------
(* Sequences and places in a heap. *)

\* A sequence of nodes, and its items.
LEMMA Items ==
    ASSUME NEW h \in Seq(Node)
    PROVE  /\ Len(h) \in Nat /\ DOMAIN h = 1 .. Len(h)
           /\ \A i \in 1 .. Len(h) : h[i] \in Node /\ h[i] \in Range(h)
           /\ Range(h) \subseteq Node
           /\ \A x \in Range(h) : \E i \in 1 .. Len(h) : h[i] = x
BY LenProperties, ElementOfSeq DEF Range

\* An item's parent, and its children.
LEMMA Places ==
    ASSUME NEW i \in Nat, i > 1
    PROVE  /\ Parent(i) \in Nat /\ Parent(i) >= 1 /\ Parent(i) < i
           /\ i = 2 * Parent(i) \/ i = 2 * Parent(i) + 1
BY DEF Parent

\* The two places below i in a heap.
LEMMA Children ==
    ASSUME NEW i \in Nat, i >= 1
    PROVE  /\ Parent(2 * i) = i /\ Parent(2 * i + 1) = i
           /\ \A j \in Nat : j > 1 /\ Parent(j) = i => j = 2 * i \/ j = 2 * i + 1
<1>1. Parent(2 * i) = i /\ Parent(2 * i + 1) = i
  BY DEF Parent
<1> QED
  BY <1>1, Places

\* Another item in some place, or in none.
LEMMA ExceptKeeps ==
    ASSUME NEW h \in Seq(Node), NEW i, NEW n \in Node
    PROVE  [h EXCEPT ![i] = n] \in Seq(Node) /\ Len([h EXCEPT ![i] = n]) = Len(h)
<1>1. CASE i \in 1 .. Len(h)
  BY <1>1, ExceptSeq
<1>2. CASE i \notin 1 .. Len(h)
  <2>1. [h EXCEPT ![i] = n] = h
    BY <1>2, Items
  <2> QED
    BY <2>1
<1> QED
  BY <1>1, <1>2

\* Two items that change places.
LEMMA SwapKeeps ==
    ASSUME NEW h \in Seq(Node), NEW i \in 1 .. Len(h), NEW j \in 1 .. Len(h)
    PROVE  LET g == Swapped(h, i, j) IN
           /\ g \in Seq(Node) /\ Len(g) = Len(h) /\ Range(g) = Range(h)
           /\ \A k \in 1 .. Len(h) : g[k] = IF k = i THEN h[j] ELSE IF k = j THEN h[i] ELSE h[k]
           /\ IsInjective(h) => IsInjective(g)
<1> DEFINE g == Swapped(h, i, j)
<1>1. /\ Len(h) \in Nat /\ DOMAIN h = 1 .. Len(h)
      /\ \A k \in 1 .. Len(h) : h[k] \in Node
  BY Items
<1>2. /\ DOMAIN g = 1 .. Len(h)
      /\ \A k \in 1 .. Len(h) : g[k] = IF k = i THEN h[j] ELSE IF k = j THEN h[i] ELSE h[k]
  BY <1>1 DEF Swapped
<1> HIDE DEF g
<1>3. g \in Seq(Node) /\ Len(g) = Len(h)
  <2>1. g = [k \in 1 .. Len(h) |-> g[k]]
    BY <1>1, <1>2 DEF g, Swapped
  <2>2. \A k \in 1 .. Len(h) : g[k] \in Node
    BY <1>1, <1>2
  <2> QED
    BY <1>1, <2>1, <2>2, IsASeq, LenProperties
<1>4. Range(g) = Range(h)
  <2>1. ASSUME NEW k \in 1 .. Len(h) PROVE g[k] \in Range(h) /\ h[k] \in Range(g)
    <3>1. g[i] = h[j] /\ g[j] = h[i] /\ (k # i /\ k # j => g[k] = h[k])
      BY <1>2
    <3> QED
      BY <1>1, <1>2, <3>1 DEF Range
  <2> QED
    BY <1>1, <1>2, <2>1 DEF Range
<1>5. IsInjective(h) => IsInjective(g)
  BY <1>1, <1>2 DEF IsInjective
<1> QED
  BY <1>2, <1>3, <1>4, <1>5 DEF g

-----------------------------------------------------------------------------
(* The loops of the heaps. *)

\* A turn of up, from whatever sequence.
LEMMA RisenType ==
    ASSUME NEW x \in Sift, Rising(x) PROVE Risen(x) \in Sift /\ Risen(x).at < x.at
<1> DEFINE h == x.heap
           i == x.at
<1>1. h \in Seq(Node) /\ i \in Nat /\ i > 1 /\ x.above \in SUBSET (Node \X Node)
  BY DEF Sift, Order, Rising
<1>2. h[i] \in Node /\ h[Parent(i)] \in Node
  BY <1>1 DEF Rising
<1>3. Parent(i) \in Nat /\ Parent(i) < i
  BY <1>1, Places
<1>4. Swapped(h, i, Parent(i)) \in Seq(Node)
  <2> DEFINE p == Parent(i)
             g == [h EXCEPT ![i] = h[p]]
  <2>1. g \in Seq(Node)
    BY <1>1, <1>2, ExceptKeeps
  <2>2. [g EXCEPT ![p] = h[i]] \in Seq(Node)
    <3> HIDE DEF g
    <3> QED
      BY <1>2, <2>1, ExceptKeeps
  <2> QED
    BY <2>2 DEF Swapped
<1> QED
  BY <1>1, <1>3, <1>4 DEF Risen, Sifting, Sift, Order

\* up ends at the root at the latest.
LEMMA UpEnds ==
    ASSUME NEW I \in SUBSET Sift, NEW P,
           \A x \in I : IF Rising(x) THEN Risen(x) \in I ELSE x.heap \in P
    PROVE  \A x \in I : Up[x] \in P
<1> DEFINE stop == { x \in Sift : ~Rising(x) }
           next == [x \in Sift |-> IF Rising(x) THEN Risen(x) ELSE x]
           val == [x \in Sift |-> x.heap]
           rank == [x \in Sift |-> x.at]
<1>1. ASSUME NEW x \in Sift, Rising(x) PROVE Risen(x) \in Sift /\ Risen(x).at < x.at
  BY <1>1, RisenType
<1>2. CountsDown(Sift, stop, next, rank)
  <2>1. \A x \in Sift : x.at \in Nat
    BY DEF Sift
  <2> QED
    BY <1>1, <2>1 DEF CountsDown
<1>3. Loops(Up, Sift, stop, next, val)
  <2>1. PICK f : Loops(f, Sift, stop, next, val)
    <3> HIDE DEF stop, next, val, rank
    <3> QED
      BY <1>2, LoopHasResult
  <2>2. f = [x \in Sift |-> IF Rising(x) THEN f[Risen(x)] ELSE x.heap]
    BY <2>1 DEF Loops
  <2>3. Up = [x \in Sift |-> IF Rising(x) THEN Up[Risen(x)] ELSE x.heap]
    BY <2>2 DEF Up
  <2> QED
    BY <2>3 DEF Loops
<1>4. Invariant(I, stop, next, val, P)
  BY DEF Invariant
<1>5. I \subseteq Sift
  OBVIOUS
<1> HIDE DEF stop, next, val, rank
<1> QED
  BY <1>2, <1>3, <1>4, <1>5, LoopKeeps

\* What belongs on top of item i and its children, wherever i is.
LEMMA LowerIs ==
    ASSUME NEW h, NEW i \in Nat, NEW above
    PROVE  LET t == Topmost(h, i, above) IN
           t # i => /\ t \in Nat /\ t > i /\ t <= Len(h)
                    /\ <<h[t], h[i]>> \in above
                       \/ \E u : <<h[t], h[u]>> \in above /\ <<h[u], h[i]>> \in above
BY DEF Topmost, Upper

\* A turn of down, from whatever sequence.
LEMMA SunkType ==
    ASSUME NEW x \in Sift, Lower(x) # x.at
    PROVE  /\ Sunk(x) \in Sift /\ Len(Sunk(x).heap) = Len(x.heap)
           /\ x.at < Sunk(x).at /\ Sunk(x).at <= Len(x.heap)
<1> DEFINE h == x.heap
           i == x.at
           t == Lower(x)
           g == [h EXCEPT ![i] = h[t]]
           s == [g EXCEPT ![t] = h[i]]
<1>1. h \in Seq(Node) /\ i \in Nat /\ x.above \in SUBSET (Node \X Node) /\ Len(h) \in Nat
  BY LenProperties DEF Sift, Order
<1>2. t \in Nat /\ t > i /\ t <= Len(h) /\ h[t] \in Node /\ h[i] \in Node
  <2>1. /\ t \in Nat /\ t > i /\ t <= Len(h)
        /\ \/ <<h[t], h[i]>> \in x.above
           \/ \E u : <<h[t], h[u]>> \in x.above /\ <<h[u], h[i]>> \in x.above
    <3> HIDE DEF h, i
    <3> QED
      BY <1>1, LowerIs DEF Lower, h, i
  <2> QED
    BY <1>1, <2>1
<1>3. g \in Seq(Node) /\ Len(g) = Len(h)
  BY <1>1, <1>2, ExceptKeeps
<1>4. s \in Seq(Node) /\ Len(s) = Len(h)
  <2> HIDE DEF g
  <2> QED
    BY <1>2, <1>3, ExceptKeeps
<1>5. Sunk(x) = Sifting(s, t, x.above)
  BY DEF Sunk, Swapped
<1> HIDE DEF s, t
<1>6. Sunk(x) \in Sift /\ Sunk(x).heap = s /\ Sunk(x).at = t
  BY <1>1, <1>2, <1>4, <1>5 DEF Sift, Sifting, Order
<1> QED
  BY <1>1, <1>2, <1>4, <1>6

\* down ends at the last item at the latest.
LEMMA DownEnds ==
    ASSUME NEW I \in SUBSET Sift, NEW P,
           \A x \in I : IF Lower(x) # x.at THEN Sunk(x) \in I ELSE x.heap \in P
    PROVE  \A x \in I : Down[x] \in P
<1> DEFINE stop == { x \in Sift : Lower(x) = x.at }
           next == [x \in Sift |-> IF Lower(x) # x.at THEN Sunk(x) ELSE x]
           val == [x \in Sift |-> x.heap]
           rank == [x \in Sift |-> IF x.at <= Len(x.heap) THEN Len(x.heap) - x.at ELSE 0]
<1>1. ASSUME NEW x \in Sift, Lower(x) # x.at
      PROVE  Sunk(x) \in Sift /\ rank[Sunk(x)] < rank[x]
  <2>1. x.at \in Nat /\ Len(x.heap) \in Nat /\ Sunk(x) \in Sift /\ Sunk(x).at \in Nat
    BY <1>1, SunkType, LenProperties DEF Sift
  <2> QED
    BY <1>1, <2>1, SunkType
<1>2. CountsDown(Sift, stop, next, rank)
  <2>1. \A x \in Sift : x.at \in Nat /\ Len(x.heap) \in Nat
    BY LenProperties DEF Sift
  <2>2. rank \in [Sift -> Nat]
    BY <2>1
  <2> HIDE DEF rank
  <2> QED
    BY <1>1, <2>2 DEF CountsDown
<1>3. Loops(Down, Sift, stop, next, val)
  <2>1. PICK f : Loops(f, Sift, stop, next, val)
    <3> HIDE DEF stop, next, val, rank
    <3> QED
      BY <1>2, LoopHasResult
  <2>2. f = [x \in Sift |-> IF Lower(x) # x.at THEN f[Sunk(x)] ELSE x.heap]
    BY <2>1 DEF Loops
  <2>3. Down = [x \in Sift |-> IF Lower(x) # x.at THEN Down[Sunk(x)] ELSE x.heap]
    BY <2>2 DEF Down
  <2> QED
    BY <2>3 DEF Loops
<1>4. Invariant(I, stop, next, val, P)
  BY DEF Invariant
<1>5. I \subseteq Sift
  OBVIOUS
<1> HIDE DEF stop, next, val, rank
<1> QED
  BY <1>2, <1>3, <1>4, <1>5, LoopKeeps

-----------------------------------------------------------------------------
(* The order of a heap. *)

\* What the heaps need of the order of their items.  NaN is in no pair, so that
\* "not above" is not transitive; but it is past an item that something is above.
Orders(above) ==
    /\ above \in Order
    /\ \A a, b \in Node : <<a, b>> \in above => <<b, a>> \notin above
    /\ \A a, b, c \in Node : <<a, b>> \in above /\ <<b, c>> \in above => <<a, c>> \in above
    /\ \A a, b, c, d \in Node :
        <<a, b>> \in above /\ <<c, b>> \notin above /\ <<b, d>> \notin above => <<c, d>> \notin above

\* The two orders are such.
LEMMA BothOrder == ASSUME NEW q \in Node PROVE Orders(NearOnTop[q]) /\ Orders(FarOnTop[q])
<1>1. \A a, b \in Node :
        /\ <<a, b>> \in NearOnTop[q] <=> Ranks(q, a, b)
        /\ <<a, b>> \in FarOnTop[q] <=> Ranks(q, b, a)
  BY DEF NearOnTop, FarOnTop
<1>2. NearOnTop[q] \in Order /\ FarOnTop[q] \in Order
  BY DEF NearOnTop, FarOnTop, Order
<1>3. \A a, b \in Node :
        Ranks(q, a, b) <=> /\ <<q, a>> \notin Undefined /\ <<q, b>> \notin Undefined
                           /\ Before(q, a, b)
  BY DEF Ranks, Defined
<1>4. \A a \in Node : Dist[<<q, a>>] \in Nat /\ a \in Int
  BY DistAssumption, SizeAssumption DEF Node
<1>5. \A a, b \in Node : ~(Before(q, a, b) /\ Before(q, b, a))
  BY <1>4 DEF Before
<1>6. \A a, b, c \in Node : Before(q, a, b) /\ Before(q, b, c) => Before(q, a, c)
  BY <1>4 DEF Before
<1>7. \A a, b, c \in Node : ~Before(q, a, b) /\ ~Before(q, b, c) => ~Before(q, a, c)
  BY <1>4 DEF Before
<1>8. Orders(NearOnTop[q])
  BY <1>1, <1>2, <1>3, <1>5, <1>6, <1>7 DEF Orders
<1>9. Orders(FarOnTop[q])
  BY <1>1, <1>2, <1>3, <1>5, <1>6, <1>7 DEF Orders
<1> QED
  BY <1>8, <1>9

\* No item but i may belong above its parent; none but i's children; and those
\* do not belong above i's parent.
OrderedBut(h, i, above) ==
    \A j \in 2 .. Len(h) : j # i => <<h[j], h[Parent(j)]>> \notin above
OrderedButUnder(h, i, above) ==
    \A j \in 2 .. Len(h) : Parent(j) # i => <<h[j], h[Parent(j)]>> \notin above
OrderedPast(h, i, above) ==
    i > 1 => \A j \in 2 .. Len(h) : Parent(j) = i => <<h[j], h[Parent(i)]>> \notin above

\* Places and items of a sequence.
LEMMA PlacesIn ==
    ASSUME NEW h \in Seq(Node)
    PROVE  \A j \in 2 .. Len(h) :
             /\ j \in Nat /\ j \in 1 .. Len(h) /\ Parent(j) \in 1 .. Len(h)
             /\ Parent(j) \in Nat /\ Parent(j) < j
             /\ h[j] \in Node /\ h[Parent(j)] \in Node
<1> TAKE j \in 2 .. Len(h)
<1>1. Len(h) \in Nat /\ j \in Nat /\ j > 1 /\ j <= Len(h)
  BY Items
<1>2. Parent(j) \in Nat /\ Parent(j) >= 1 /\ Parent(j) < j
  BY <1>1, Places
<1>3. j \in 1 .. Len(h) /\ Parent(j) \in 1 .. Len(h)
  BY <1>1, <1>2
<1> QED
  BY <1>1, <1>2, <1>3, Items

\* One turn of up: only the item on its way up may be above its parent.
LEMMA UpTurn ==
    ASSUME NEW above, Orders(above), NEW h \in Seq(Node), NEW i \in 2 .. Len(h),
           <<h[i], h[Parent(i)]>> \in above,
           OrderedBut(h, i, above), OrderedPast(h, i, above)
    PROVE  LET g == Swapped(h, i, Parent(i)) IN
           OrderedBut(g, Parent(i), above) /\ OrderedPast(g, Parent(i), above)
<1> DEFINE p == Parent(i)
           g == Swapped(h, i, p)
<1>1. i \in 1 .. Len(h) /\ p \in 1 .. Len(h) /\ i \in Nat /\ p \in Nat /\ p < i /\ i > 1
  BY PlacesIn
<1>2. /\ Len(g) = Len(h)
      /\ \A k \in 1 .. Len(h) : g[k] = IF k = i THEN h[p] ELSE IF k = p THEN h[i] ELSE h[k]
  BY <1>1, SwapKeeps
<1>3. /\ \A a, b \in Node : <<a, b>> \in above => <<b, a>> \notin above
      /\ \A a, b, c \in Node : <<a, b>> \in above /\ <<b, c>> \in above => <<a, c>> \in above
      /\ \A a, b, c, d \in Node :
          <<a, b>> \in above /\ <<c, b>> \notin above /\ <<b, d>> \notin above => <<c, d>> \notin above
  BY DEF Orders
<1>4. h[i] \in Node /\ h[p] \in Node
  BY PlacesIn
<1>5. ASSUME NEW j \in 2 .. Len(g), j # p PROVE <<g[j], g[Parent(j)]>> \notin above
  <2>1. /\ j \in Nat /\ j \in 1 .. Len(h) /\ Parent(j) \in 1 .. Len(h) /\ Parent(j) < j
        /\ h[j] \in Node /\ j \in 2 .. Len(h)
    BY <1>2, PlacesIn
  <2>2. CASE j = i
    BY <1>1, <1>2, <1>3, <1>4, <2>1, <2>2
  <2>3. CASE j # i /\ Parent(j) = p
    <3>1. g[j] = h[j] /\ g[Parent(j)] = h[i]
      BY <1>1, <1>2, <1>5, <2>1, <2>3
    <3>2. <<h[j], h[p]>> \notin above
      BY <2>1, <2>3 DEF OrderedBut
    <3> QED
      BY <1>3, <1>4, <2>1, <3>1, <3>2
  <2>4. CASE Parent(j) = i
    <3>1. g[j] = h[j] /\ g[Parent(j)] = h[p]
      BY <1>1, <1>2, <1>5, <2>1, <2>4
    <3>2. <<h[j], h[p]>> \notin above
      BY <1>1, <2>1, <2>4 DEF OrderedPast
    <3> QED
      BY <3>1, <3>2
  <2>5. CASE j # i /\ Parent(j) # i /\ Parent(j) # p
    BY <1>1, <1>2, <1>5, <2>1, <2>5 DEF OrderedBut
  <2> QED
    BY <2>2, <2>3, <2>4, <2>5
<1>6. ASSUME p > 1, NEW j \in 2 .. Len(g), Parent(j) = p
      PROVE  <<g[j], g[Parent(p)]>> \notin above
  <2>1. j \in Nat /\ j \in 1 .. Len(h) /\ j > p /\ h[j] \in Node /\ j \in 2 .. Len(h)
    BY <1>2, <1>6, PlacesIn
  <2>2. p \in 2 .. Len(h)
    BY <1>1, <1>6
  <2>3. Parent(p) \in 1 .. Len(h) /\ Parent(p) < p /\ h[Parent(p)] \in Node
    BY <2>2, PlacesIn
  <2>4. g[Parent(p)] = h[Parent(p)]
    BY <1>1, <1>2, <2>3
  <2>5. <<h[p], h[Parent(p)]>> \notin above
    BY <1>1, <2>2 DEF OrderedBut
  <2>6. CASE j = i
    BY <1>1, <1>2, <2>4, <2>5, <2>6
  <2>7. CASE j # i
    <3>1. g[j] = h[j]
      BY <1>2, <2>1, <2>7
    <3>2. <<h[j], h[p]>> \notin above
      BY <1>6, <2>1, <2>7 DEF OrderedBut
    <3> QED
      BY <1>3, <1>4, <2>1, <2>3, <2>4, <2>5, <3>1, <3>2
  <2> QED
    BY <2>6, <2>7
<1> QED
  BY <1>5, <1>6 DEF OrderedBut, OrderedPast

\* The heaps of n items, those in R.
Heaps(n, R, above) ==
    { g \in Seq(Node) : Len(g) = n /\ Range(g) = R /\ Heap(g, above) }

\* A heap by its places.
LEMMA HeapIs ==
    ASSUME NEW h \in Seq(Node), NEW above
    PROVE  Heap(h, above) <=> /\ IsInjective(h)
                              /\ \A j \in 2 .. Len(h) : <<h[j], h[Parent(j)]>> \notin above
<1>1. Len(h) \in Nat /\ DOMAIN h = 1 .. Len(h)
  BY Items
<1>2. (1 .. Len(h)) \ {1} = 2 .. Len(h)
  BY <1>1
<1> QED
  BY <1>1, <1>2 DEF Heap

\* up makes a heap of one with an item that belongs further up.
LEMMA UpOrders ==
    ASSUME NEW above, Orders(above), NEW h \in Seq(Node), IsInjective(h),
           NEW i \in 1 .. Len(h), OrderedBut(h, i, above), OrderedPast(h, i, above)
    PROVE  Up[Sifting(h, i, above)] \in Heaps(Len(h), Range(h), above)
<1> DEFINE n == Len(h)
           R == Range(h)
           I == { x \in Sift : /\ x.above = above /\ Len(x.heap) = n /\ Range(x.heap) = R
                               /\ IsInjective(x.heap) /\ x.at \in 1 .. n
                               /\ OrderedBut(x.heap, x.at, above)
                               /\ OrderedPast(x.heap, x.at, above) }
           P == Heaps(n, R, above)
<1>1. Sifting(h, i, above) \in I
  <2>1. i \in Nat /\ above \in Order
    BY Items DEF Orders
  <2> QED
    BY <2>1 DEF Sift, Sifting
<1>2. ASSUME NEW x \in I PROVE IF Rising(x) THEN Risen(x) \in I ELSE x.heap \in P
  <2> DEFINE k == x.heap
             at == x.at
  <2>1. /\ k \in Seq(Node) /\ at \in Nat /\ x.above = above /\ Len(k) = n /\ n \in Nat
        /\ Range(k) = R /\ IsInjective(k) /\ at \in 1 .. Len(k) /\ above \in Order
        /\ OrderedBut(k, at, above) /\ OrderedPast(k, at, above)
    BY Items DEF Sift
  <2> HIDE DEF k, at
  <2>2. CASE at > 1 /\ <<k[at], k[Parent(at)]>> \in above
    <3> DEFINE p == Parent(at)
               g == Swapped(k, at, p)
    <3>1. at \in 2 .. Len(k)
      BY <2>1, <2>2
    <3>2. p \in 1 .. Len(k) /\ p \in Nat
      BY <2>1, <3>1, PlacesIn
    <3>3. g \in Seq(Node) /\ Len(g) = n /\ Range(g) = R /\ IsInjective(g)
      BY <2>1, <3>2, SwapKeeps
    <3>4. OrderedBut(g, p, above) /\ OrderedPast(g, p, above)
      BY <2>1, <2>2, <3>1, UpTurn
    <3> HIDE DEF p, g
    <3>5. Sifting(g, p, above) \in I
      BY <2>1, <3>2, <3>3, <3>4 DEF Sift, Sifting
    <3>6. Rising(x) /\ Risen(x) = Sifting(g, p, above)
      BY <2>1, <2>2 DEF Rising, Risen, k, at, g, p
    <3> QED
      BY <3>5, <3>6
  <2>3. CASE ~(at > 1 /\ <<k[at], k[Parent(at)]>> \in above)
    <3>1. ASSUME NEW j \in 2 .. Len(k) PROVE <<k[j], k[Parent(j)]>> \notin above
      <4>1. CASE j = at
        <5>1. at > 1
          BY <2>1, <4>1
        <5> QED
          BY <2>3, <4>1, <5>1
      <4>2. CASE j # at
        BY <2>1, <4>2 DEF OrderedBut
      <4> QED
        BY <4>1, <4>2
    <3>2. Heap(k, above)
      <4>1. k \in Seq(Node) /\ IsInjective(k)
        BY <2>1
      <4> QED
        BY <3>1, <4>1, HeapIs
    <3>4. k \in P
      BY <2>1, <3>2 DEF Heaps
    <3>3. ~Rising(x)
      BY <2>1, <2>3 DEF Rising, k, at
    <3> QED
      BY <3>3, <3>4 DEF k
  <2> QED
    BY <2>2, <2>3
<1>3. I \in SUBSET Sift
  OBVIOUS
<1> HIDE DEF I, P
<1>4. Up[Sifting(h, i, above)] \in P
  BY <1>1, <1>2, <1>3, UpEnds
<1> QED
  BY <1>4 DEF P

\* What down finds to be on top of an item and its children.
LEMMA LowestTop ==
    ASSUME NEW above, Orders(above), NEW h \in Seq(Node), NEW i \in Nat, i >= 1
    PROVE  LET t == Topmost(h, i, above) IN
           /\ t = i => \A j \in 2 .. Len(h) : Parent(j) = i => <<h[j], h[i]>> \notin above
           /\ t # i => /\ t \in 2 .. Len(h) /\ Parent(t) = i /\ <<h[t], h[i]>> \in above
                       /\ \A j \in 2 .. Len(h) : Parent(j) = i => <<h[j], h[t]>> \notin above
<1> DEFINE a == 2 * i
           b == 2 * i + 1
           m == Upper(h, i, a, above)
           t == Upper(h, m, b, above)
<1>1. /\ a \in Nat /\ b \in Nat /\ a # b /\ a > i /\ b > i /\ a >= 2 /\ b >= 2
      /\ Parent(a) = i /\ Parent(b) = i /\ Len(h) \in Nat
      /\ \A j \in Nat : j > 1 /\ Parent(j) = i => j = a \/ j = b
  <2>1. Len(h) \in Nat /\ a \in Nat /\ b \in Nat /\ a # b /\ a > i /\ b > i /\ a >= 2 /\ b >= 2
    BY Items
  <2>2. /\ Parent(a) = i /\ Parent(b) = i
        /\ \A j \in Nat : j > 1 /\ Parent(j) = i => j = a \/ j = b
    BY Children
  <2> QED
    BY <2>1, <2>2
<1>2. \A j \in 2 .. Len(h) : /\ j \in Nat /\ j > 1 /\ j <= Len(h)
                             /\ h[j] \in Node /\ h[Parent(j)] \in Node
  BY <1>1, PlacesIn
<1>3. /\ \A x, y \in Node : <<x, y>> \in above => <<y, x>> \notin above
      /\ \A x, y, z \in Node : <<x, y>> \in above /\ <<y, z>> \in above => <<x, z>> \in above
      /\ \A x \in Node : <<x, x>> \notin above
  BY DEF Orders
<1>4. /\ a <= Len(h) => a \in 2 .. Len(h) /\ h[a] \in Node /\ h[i] \in Node
      /\ b <= Len(h) => b \in 2 .. Len(h) /\ h[b] \in Node /\ h[i] \in Node
      /\ b <= Len(h) => a <= Len(h)
  <2>1. a <= Len(h) => a \in 2 .. Len(h)
    BY <1>1
  <2>2. b <= Len(h) => b \in 2 .. Len(h)
    BY <1>1
  <2>3. b <= Len(h) => a <= Len(h)
    BY <1>1
  <2> QED
    BY <1>1, <1>2, <2>1, <2>2, <2>3
<1> DEFINE Right(k) ==
             /\ k = i => \A j \in 2 .. Len(h) : Parent(j) = i => <<h[j], h[i]>> \notin above
             /\ k # i => /\ k \in 2 .. Len(h) /\ Parent(k) = i /\ <<h[k], h[i]>> \in above
                         /\ \A j \in 2 .. Len(h) : Parent(j) = i => <<h[j], h[k]>> \notin above
<1>5. t = Topmost(h, i, above)
  BY DEF Topmost
<1>6. ASSUME b <= Len(h), <<h[b], h[m]>> \in above PROVE Right(t)
  <2>1. t = b
    BY <1>6 DEF Upper
  <2>2. CASE a <= Len(h) /\ <<h[a], h[i]>> \in above
    <3>1. m = a
      BY <2>2 DEF Upper
    <3>2. <<h[b], h[a]>> \in above
      BY <1>6, <3>1
    <3>3. <<h[b], h[i]>> \in above /\ <<h[a], h[b]>> \notin above /\ <<h[b], h[b]>> \notin above
      BY <1>3, <1>4, <1>6, <2>2, <3>2
    <3> HIDE DEF m, t, a, b
    <3> QED
      BY <1>1, <1>2, <1>4, <1>6, <2>1, <3>3
  <2>3. CASE ~(a <= Len(h) /\ <<h[a], h[i]>> \in above)
    <3>1. m = i
      BY <2>3 DEF Upper
    <3>2. <<h[b], h[i]>> \in above /\ a <= Len(h) /\ <<h[a], h[i]>> \notin above
      BY <1>4, <1>6, <2>3, <3>1
    <3>3. <<h[a], h[b]>> \notin above /\ <<h[b], h[b]>> \notin above
      BY <1>3, <1>4, <1>6, <3>2
    <3> HIDE DEF m, t, a, b
    <3> QED
      BY <1>1, <1>2, <1>4, <1>6, <2>1, <3>2, <3>3
  <2> QED
    BY <2>2, <2>3
<1>7. ASSUME ~(b <= Len(h) /\ <<h[b], h[m]>> \in above) PROVE Right(t)
  <2>1. t = m
    BY <1>7 DEF Upper
  <2>2. CASE a <= Len(h) /\ <<h[a], h[i]>> \in above
    <3>1. m = a
      BY <2>2 DEF Upper
    <3>2. b <= Len(h) => <<h[b], h[a]>> \notin above
      BY <1>7, <3>1
    <3>3. <<h[a], h[a]>> \notin above
      BY <1>3, <1>4, <2>2
    <3> HIDE DEF m, t, a, b
    <3> QED
      BY <1>1, <1>2, <1>4, <2>1, <2>2, <3>1, <3>2, <3>3
  <2>3. CASE ~(a <= Len(h) /\ <<h[a], h[i]>> \in above)
    <3>1. m = i
      BY <2>3 DEF Upper
    <3> HIDE DEF m, t, a, b
    <3> QED
      BY <1>1, <1>2, <1>7, <2>1, <2>3, <3>1
  <2> QED
    BY <2>2, <2>3
<1>8. Right(t)
  BY <1>6, <1>7
<1> HIDE DEF t
<1> QED
  BY <1>5, <1>8

\* One turn of down: only the children of the item on its way down may belong
\* above it.
LEMMA DownTurn ==
    ASSUME NEW above, Orders(above), NEW h \in Seq(Node), NEW i \in 1 .. Len(h),
           NEW t \in 2 .. Len(h), Parent(t) = i, <<h[t], h[i]>> \in above,
           \A j \in 2 .. Len(h) : Parent(j) = i => <<h[j], h[t]>> \notin above,
           OrderedButUnder(h, i, above), OrderedPast(h, i, above)
    PROVE  LET g == Swapped(h, i, t) IN
           OrderedButUnder(g, t, above) /\ OrderedPast(g, t, above)
<1> DEFINE g == Swapped(h, i, t)
<1>1. i \in Nat /\ t \in Nat /\ t \in 1 .. Len(h) /\ i < t /\ i >= 1
  BY PlacesIn
<1>2. /\ Len(g) = Len(h)
      /\ \A k \in 1 .. Len(h) : g[k] = IF k = i THEN h[t] ELSE IF k = t THEN h[i] ELSE h[k]
  BY <1>1, SwapKeeps
<1>3. <<h[i], h[t]>> \notin above
  <2>1. h[i] \in Node /\ h[t] \in Node
    BY PlacesIn
  <2> QED
    BY <2>1 DEF Orders
<1> HIDE DEF g
<1>4. ASSUME NEW j \in 2 .. Len(g), Parent(j) # t PROVE <<g[j], g[Parent(j)]>> \notin above
  <2>1. /\ j \in Nat /\ j \in 1 .. Len(h) /\ Parent(j) \in 1 .. Len(h) /\ Parent(j) < j
        /\ j \in 2 .. Len(h) /\ Parent(j) \in Nat
    BY <1>2, PlacesIn
  <2>2. CASE j = t
    BY <1>1, <1>2, <1>3, <2>2
  <2>3. CASE j # t /\ Parent(j) = i
    BY <1>1, <1>2, <2>1, <2>3
  <2>4. CASE j = i
    <3>1. g[j] = h[t] /\ g[Parent(j)] = h[Parent(i)]
      BY <1>1, <1>2, <1>4, <2>1, <2>4
    <3>2. i > 1
      BY <2>1, <2>4
    <3> QED
      BY <2>4, <3>1, <3>2 DEF OrderedPast
  <2>5. CASE j # t /\ j # i /\ Parent(j) # i
    <3>1. g[j] = h[j] /\ g[Parent(j)] = h[Parent(j)]
      BY <1>2, <1>4, <2>1, <2>5
    <3> QED
      BY <2>1, <2>5, <3>1 DEF OrderedButUnder
  <2> QED
    BY <2>2, <2>3, <2>4, <2>5
<1>5. ASSUME NEW j \in 2 .. Len(g), Parent(j) = t PROVE <<g[j], g[Parent(t)]>> \notin above
  <2>1. /\ j \in Nat /\ j \in 1 .. Len(h) /\ t < j /\ j \in 2 .. Len(h)
    BY <1>2, <1>5, PlacesIn
  <2>2. g[j] = h[j] /\ g[Parent(t)] = h[t]
    BY <1>1, <1>2, <2>1
  <2>3. <<h[j], h[t]>> \notin above
    BY <1>1, <1>5, <2>1 DEF OrderedButUnder
  <2> QED
    BY <2>2, <2>3
<1> QED
  BY <1>4, <1>5 DEF OrderedButUnder, OrderedPast, g

\* down makes a heap of one with an item that belongs further down.
LEMMA DownOrders ==
    ASSUME NEW above, Orders(above), NEW h \in Seq(Node), IsInjective(h),
           NEW i \in Nat, i >= 1, OrderedButUnder(h, i, above), OrderedPast(h, i, above)
    PROVE  Down[Sifting(h, i, above)] \in Heaps(Len(h), Range(h), above)
<1> DEFINE n == Len(h)
           R == Range(h)
           I == { x \in Sift : /\ x.above = above /\ Len(x.heap) = n /\ Range(x.heap) = R
                               /\ IsInjective(x.heap) /\ x.at >= 1
                               /\ OrderedButUnder(x.heap, x.at, above)
                               /\ OrderedPast(x.heap, x.at, above) }
           P == Heaps(n, R, above)
<1>1. Sifting(h, i, above) \in I
  <2>1. above \in Order
    BY DEF Orders
  <2> QED
    BY <2>1 DEF Sift, Sifting
<1>2. ASSUME NEW x \in I PROVE IF Lower(x) # x.at THEN Sunk(x) \in I ELSE x.heap \in P
  <2> DEFINE k == x.heap
             at == x.at
             t == Topmost(k, at, above)
  <2>1. /\ k \in Seq(Node) /\ at \in Nat /\ x.above = above /\ Len(k) = n /\ n \in Nat
        /\ Range(k) = R /\ IsInjective(k) /\ at >= 1 /\ above \in Order
        /\ OrderedButUnder(k, at, above) /\ OrderedPast(k, at, above)
    BY Items DEF Sift
  <2> HIDE DEF k, at
  <2>2. /\ t = at => \A j \in 2 .. Len(k) : Parent(j) = at => <<k[j], k[at]>> \notin above
        /\ t # at => /\ t \in 2 .. Len(k) /\ Parent(t) = at /\ <<k[t], k[at]>> \in above
                     /\ \A j \in 2 .. Len(k) : Parent(j) = at => <<k[j], k[t]>> \notin above
    BY <2>1, LowestTop
  <2>3. Lower(x) = t
    BY <2>1 DEF Lower, k, at
  <2> HIDE DEF t
  <2>4. CASE t # at
    <3> DEFINE g == Swapped(k, at, t)
    <3>1. t \in 2 .. Len(k) /\ Parent(t) = at
      BY <2>2, <2>4
    <3>2. t \in 1 .. Len(k) /\ at \in 1 .. Len(k) /\ t \in Nat /\ t >= 1
      BY <2>1, <3>1, PlacesIn
    <3>3. g \in Seq(Node) /\ Len(g) = n /\ Range(g) = R /\ IsInjective(g)
      BY <2>1, <3>2, SwapKeeps
    <3>4. OrderedButUnder(g, t, above) /\ OrderedPast(g, t, above)
      BY <2>1, <2>2, <2>4, <3>1, <3>2, DownTurn
    <3> HIDE DEF g
    <3>5. Sifting(g, t, above) \in I
      BY <2>1, <3>2, <3>3, <3>4 DEF Sift, Sifting
    <3>6. Sunk(x) = Sifting(g, t, above)
      BY <2>1, <2>3 DEF Sunk, k, at, g
    <3> QED
      BY <2>3, <2>4, <3>5, <3>6 DEF at
  <2>5. CASE t = at
    <3>1. ASSUME NEW j \in 2 .. Len(k) PROVE <<k[j], k[Parent(j)]>> \notin above
      <4>1. CASE Parent(j) = at
        BY <2>2, <2>5, <4>1
      <4>2. CASE Parent(j) # at
        BY <2>1, <4>2 DEF OrderedButUnder
      <4> QED
        BY <4>1, <4>2
    <3>2. Heap(k, above)
      <4>1. k \in Seq(Node) /\ IsInjective(k)
        BY <2>1
      <4> QED
        BY <3>1, <4>1, HeapIs
    <3>3. k \in P
      BY <2>1, <3>2 DEF Heaps
    <3> QED
      BY <2>3, <2>5, <3>3 DEF k, at
  <2> QED
    BY <2>4, <2>5
<1>3. I \in SUBSET Sift
  OBVIOUS
<1> HIDE DEF I, P
<1>4. Down[Sifting(h, i, above)] \in P
  BY <1>1, <1>2, <1>3, DownEnds
<1> QED
  BY <1>4 DEF P

-----------------------------------------------------------------------------
(* What the operations of the two heaps do. *)

\* A push adds an item to the heap.
LEMMA PushAdds ==
    ASSUME NEW above, Orders(above), NEW h \in Seq(Node), Heap(h, above),
           NEW n \in Node \ Range(h)
    PROVE  Push(h, n, above) \in Heaps(Len(h) + 1, Range(h) \cup {n}, above)
<1> DEFINE g == Append(h, n)
           i == Len(h) + 1
<1>1. /\ Len(h) \in Nat /\ i \in Nat /\ DOMAIN h = 1 .. Len(h) /\ IsInjective(h)
      /\ \A j \in 2 .. Len(h) : <<h[j], h[Parent(j)]>> \notin above
  BY Items, HeapIs
<1>2. /\ g \in Seq(Node) /\ Len(g) = i /\ DOMAIN g = 1 .. i /\ g[i] = n
      /\ \A j \in 1 .. Len(h) : g[j] = h[j]
  BY <1>1, AppendProperties, Items
<1> HIDE DEF g
<1>3. \A j \in 1 .. i : j = i \/ j \in 1 .. Len(h)
  BY <1>1
<1>4. Range(g) = Range(h) \cup {n}
  <2>1. ASSUME NEW j \in 1 .. i PROVE g[j] \in Range(h) \cup {n}
    BY <1>1, <1>2, <1>3 DEF Range
  <2>2. ASSUME NEW j \in 1 .. Len(h) PROVE h[j] \in Range(g)
    <3>1. j \in 1 .. i /\ g[j] = h[j]
      BY <1>1, <1>2
    <3> QED
      BY <1>2, <3>1 DEF Range
  <2>3. n \in Range(g)
    BY <1>1, <1>2 DEF Range
  <2> QED
    BY <1>1, <1>2, <2>1, <2>2, <2>3 DEF Range
<1>5. IsInjective(g)
  <2>1. \A j \in 1 .. Len(h) : h[j] # n
    BY <1>1 DEF Range
  <2> QED
    BY <1>1, <1>2, <1>3, <2>1 DEF IsInjective
<1>6. OrderedBut(g, i, above)
  <2> SUFFICES ASSUME NEW j \in 2 .. Len(g), j # i PROVE <<g[j], g[Parent(j)]>> \notin above
    BY DEF OrderedBut
  <2>1. j \in 2 .. Len(h)
    BY <1>1, <1>2
  <2>2. j \in 1 .. Len(h) /\ Parent(j) \in 1 .. Len(h)
    BY <2>1, PlacesIn
  <2> QED
    BY <1>1, <1>2, <2>1, <2>2
<1>7. OrderedPast(g, i, above)
  <2>1. \A j \in 2 .. Len(g) : Parent(j) < i
    <3>1. ASSUME NEW j \in 2 .. Len(g) PROVE Parent(j) < i
      <4>1. j \in Nat /\ Parent(j) < j /\ Parent(j) \in Nat /\ j <= i
        BY <1>1, <1>2, PlacesIn
      <4> QED
        BY <1>1, <4>1
    <3> QED
      BY <3>1
  <2> QED
    BY <1>1, <2>1 DEF OrderedPast
<1>8. i \in 1 .. Len(g)
  BY <1>1, <1>2
<1>9. Up[Sifting(g, i, above)] \in Heaps(Len(g), Range(g), above)
  BY <1>2, <1>5, <1>6, <1>7, <1>8, UpOrders
<1> QED
  BY <1>2, <1>4, <1>9 DEF Push, g

\* A pop takes the first item from the heap.
LEMMA PopTakes ==
    ASSUME NEW above, Orders(above), NEW h \in Seq(Node), Heap(h, above), h # <<>>
    PROVE  /\ Pop(h, above) \in Heaps(Len(h) - 1, Range(h) \ {h[1]}, above)
           /\ h[1] \in Range(h)
<1> DEFINE n == Len(h)
           from == [i \in 1 .. n - 1 |-> IF i = 1 THEN n ELSE i]
           g == [i \in 1 .. n - 1 |-> IF i = 1 THEN h[n] ELSE h[i]]
<1>1. /\ n \in Nat /\ n >= 1 /\ DOMAIN h = 1 .. n /\ IsInjective(h)
      /\ \A j \in 2 .. n : <<h[j], h[Parent(j)]>> \notin above
      /\ \A j \in 1 .. n : h[j] \in Node /\ h[j] \in Range(h)
  BY Items, HeapIs, EmptySeq
<1>2. \A i \in 1 .. n - 1 : from[i] \in 2 .. n /\ from[i] \in 1 .. n /\ g[i] = h[from[i]]
  BY <1>1
<1>3. \A j \in 2 .. n : \E i \in 1 .. n - 1 : from[i] = j
  <2>1. ASSUME NEW j \in 2 .. n PROVE \E i \in 1 .. n - 1 : from[i] = j
    <3>1. CASE j = n
      <4>1. 1 \in 1 .. n - 1 /\ from[1] = n
        BY <1>1
      <4> QED
        BY <3>1, <4>1
    <3>2. CASE j # n
      <4>1. j \in 1 .. n - 1 /\ j # 1
        <5>1. n \in Nat
          BY <1>1
        <5> HIDE DEF n
        <5> QED
          BY <3>2, <5>1
      <4>2. from[j] = j
        BY <4>1
      <4> QED
        BY <4>1, <4>2
    <3> QED
      BY <3>1, <3>2
  <2> QED
    BY <2>1
<1>4. \A i, j \in 1 .. n - 1 : from[i] = from[j] => i = j
  BY <1>1
<1>5. g \in Seq(Node) /\ Len(g) = n - 1 /\ DOMAIN g = 1 .. n - 1
  <2>1. n - 1 \in Nat /\ \A i \in 1 .. n - 1 : g[i] \in Node
    BY <1>1, <1>2
  <2> QED
    BY <2>1, IsASeq, LenProperties
<1>6. \A i \in 2 .. n - 1 : g[i] = h[i] /\ i \in 2 .. n
  BY <1>1
<1> HIDE DEF from, g
<1>7. Range(g) = Range(h) \ {h[1]}
  <2>1. \A j \in 2 .. n : h[j] # h[1]
    BY <1>1 DEF IsInjective
  <2>2. \A j \in 1 .. n : j = 1 \/ j \in 2 .. n
    BY <1>1
  <2>3. \A i \in 1 .. n - 1 : g[i] \in Range(h) \ {h[1]}
    BY <1>1, <1>2, <2>1
  <2>4. \A j \in 2 .. n : h[j] \in Range(g)
    BY <1>1, <1>2, <1>3, <1>5 DEF Range
  <2> QED
    BY <1>1, <1>5, <2>2, <2>3, <2>4 DEF Range
<1>8. IsInjective(g)
  BY <1>1, <1>2, <1>4, <1>5 DEF IsInjective
<1>9. OrderedButUnder(g, 1, above) /\ OrderedPast(g, 1, above)
  <2>1. ASSUME NEW j \in 2 .. Len(g), Parent(j) # 1 PROVE <<g[j], g[Parent(j)]>> \notin above
    <3>1. Parent(j) \in 1 .. n - 1 /\ j \in 2 .. n - 1
      BY <1>5, PlacesIn
    <3>2. Parent(j) \in 2 .. n - 1
      BY <1>1, <2>1, <3>1
    <3> QED
      BY <1>1, <1>6, <3>1, <3>2
  <2> QED
    BY <2>1 DEF OrderedButUnder, OrderedPast
<1>10. Down[Sifting(g, 1, above)] \in Heaps(Len(g), Range(g), above)
  BY <1>5, <1>8, <1>9, DownOrders
<1>11. Pop(h, above) = Down[Sifting(g, 1, above)]
  BY DEF Pop, g
<1>12. 1 \in 1 .. n
  BY <1>1
<1> QED
  BY <1>1, <1>5, <1>7, <1>10, <1>11, <1>12

\* Add fills the collector up, and then takes a node that ranks before its
\* first in the place of that.
LEMMA AddTakes ==
    ASSUME NEW q \in Node, NEW h \in Seq(Node), Heap(h, FarOnTop[q]),
           NEW n \in Node \ Range(h), NEW cap \in Nat, cap >= 1
    PROVE  LET g == Add(q, h, n, cap) IN
           /\ Len(h) < cap => g \in Heaps(Len(h) + 1, Range(h) \cup {n}, FarOnTop[q])
           /\ Len(h) >= cap =>
                /\ h[1] \in Range(h)
                /\ Ranks(q, n, h[1]) =>
                    g \in Heaps(Len(h), (Range(h) \ {h[1]}) \cup {n}, FarOnTop[q])
                /\ ~Ranks(q, n, h[1]) => g = h
<1> DEFINE above == FarOnTop[q]
           g == [h EXCEPT ![1] = n]
<1>1. Orders(above)
  BY BothOrder
<1>2. CASE Len(h) < cap
  <2> HIDE DEF above
  <2>1. Push(h, n, above) \in Heaps(Len(h) + 1, Range(h) \cup {n}, above)
    BY <1>1, PushAdds DEF above
  <2> QED
    BY <1>2, <2>1, Items DEF Add, above
<1>3. CASE ~(Len(h) < cap)
  <2>1. /\ Len(h) \in Nat /\ Len(h) >= cap /\ 1 \in 1 .. Len(h) /\ DOMAIN h = 1 .. Len(h)
        /\ \A j \in 1 .. Len(h) : h[j] \in Node /\ h[j] \in Range(h)
        /\ Range(h) \subseteq Node
    BY <1>3, Items
  <2>2. /\ IsInjective(h) /\ \A j \in 2 .. Len(h) : <<h[j], h[Parent(j)]>> \notin above
    BY HeapIs
  <2>3. /\ g \in Seq(Node) /\ Len(g) = Len(h) /\ DOMAIN g = 1 .. Len(h) /\ g[1] = n
        /\ \A j \in 2 .. Len(h) : g[j] = h[j] /\ j \in 1 .. Len(h) /\ j # 1
    BY <2>1, ExceptKeeps
  <2> HIDE DEF g, above
  <2>4. \A j \in 1 .. Len(h) : j = 1 \/ j \in 2 .. Len(h)
    BY <2>1
  <2>5. Range(g) = (Range(h) \ {h[1]}) \cup {n}
    <3>1. \A j \in 2 .. Len(h) : h[j] # h[1]
      BY <2>1, <2>2, <2>3 DEF IsInjective
    <3>2. \A j \in 1 .. Len(h) : g[j] \in (Range(h) \ {h[1]}) \cup {n}
      BY <2>1, <2>3, <2>4, <3>1
    <3>3. n \in Range(g) /\ \A j \in 2 .. Len(h) : h[j] \in Range(g)
      BY <2>1, <2>3 DEF Range
    <3> QED
      BY <2>1, <2>3, <2>4, <3>2, <3>3 DEF Range
  <2>6. IsInjective(g)
    <3>1. \A j \in 1 .. Len(h) : h[j] # n
      BY <2>1
    <3> QED
      BY <2>1, <2>2, <2>3, <2>4, <3>1 DEF IsInjective
  <2>7. OrderedButUnder(g, 1, above) /\ OrderedPast(g, 1, above)
    <3>1. ASSUME NEW j \in 2 .. Len(g), Parent(j) # 1 PROVE <<g[j], g[Parent(j)]>> \notin above
      <4>1. Parent(j) \in 1 .. Len(h) /\ j \in 2 .. Len(h)
        BY <2>3, PlacesIn
      <4>2. Parent(j) \in 2 .. Len(h)
        BY <2>4, <3>1, <4>1
      <4> QED
        BY <2>2, <2>3, <4>1, <4>2
    <3> QED
      BY <3>1 DEF OrderedButUnder, OrderedPast
  <2>8. Down[Sifting(g, 1, above)] \in Heaps(Len(g), Range(g), above)
    BY <1>1, <2>3, <2>6, <2>7, DownOrders
  <2> QED
    BY <1>3, <2>1, <2>3, <2>5, <2>8 DEF Add, g, above
<1> QED
  BY <1>2, <1>3

\* If "not above" is transitive among its items, none belongs above the first.
LEMMA HeapTop ==
    ASSUME NEW above, NEW h \in Seq(Node), Heap(h, above), h # <<>>,
           \A a, b, c \in Range(h) :
              <<a, b>> \notin above /\ <<b, c>> \notin above => <<a, c>> \notin above,
           \A a \in Range(h) : <<a, a>> \notin above
    PROVE  \A a \in Range(h) : <<a, h[1]>> \notin above
<1> DEFINE D == 1 .. Len(h)
           rank == [i \in D |-> i]
           G == { i \in D : <<h[i], h[1]>> \notin above }
<1>1. Len(h) \in Nat /\ 1 \in D /\ \A i \in D : h[i] \in Range(h) /\ i \in Nat
  BY Items, EmptySeq
<1>2. rank \in [D -> Nat] /\ G \in SUBSET D
  BY <1>1
<1>3. ASSUME NEW i \in D, \A j \in D : rank[j] < rank[i] => j \in G PROVE i \in G
  <2>1. CASE i = 1
    BY <1>1, <2>1
  <2>2. CASE i # 1
    <3>1. i \in 2 .. Len(h)
      BY <1>1, <2>2
    <3>2. Parent(i) \in D /\ Parent(i) < i /\ <<h[i], h[Parent(i)]>> \notin above
      BY <3>1, PlacesIn, HeapIs
    <3>3. <<h[Parent(i)], h[1]>> \notin above
      BY <1>3, <3>2
    <3> QED
      BY <1>1, <3>2, <3>3
  <2> QED
    BY <2>1, <2>2
<1>4. G = D
  <2> HIDE DEF G, D, rank
  <2> QED
    BY <1>2, <1>3, RanksInduct
<1> QED
  BY <1>4, Items

\* A heap has as many items as places.
LEMMA HeapSize ==
    ASSUME NEW h \in Seq(Node), IsInjective(h)
    PROVE  Cardinality(Range(h)) = Len(h) /\ IsFiniteSet(Range(h))
<1>1. Len(h) \in Nat /\ DOMAIN h = 1 .. Len(h) /\ h \in [1 .. Len(h) -> Node]
  BY LenProperties
<1>2. h \in Bijection(1 .. Len(h), Range(h))
  <2>1. h \in [1 .. Len(h) -> Range(h)]
    BY <1>1 DEF Range
  <2>2. \A x \in Range(h) : \E i \in 1 .. Len(h) : h[i] = x
    BY <1>1 DEF Range
  <2> QED
    BY <2>1, <2>2 DEF Bijection, Injection, Surjection
<1>3. IsFiniteSet(1 .. Len(h)) /\ Cardinality(1 .. Len(h)) = Len(h)
  <2>1. 1 \in Int /\ Len(h) \in Int
    BY <1>1
  <2> QED
    BY <1>1, <2>1, FS_Interval
<1>4. ExistsBijection(1 .. Len(h), Range(h))
  BY <1>2 DEF ExistsBijection
<1> QED
  BY <1>3, <1>4, FS_Bijection

\* The first of a list, and the others.
LEMMA ListSplits ==
    ASSUME NEW l \in Seq(Node), l # <<>>
    PROVE  /\ Head(l) \in Node /\ Tail(l) \in Seq(Node) /\ Len(Tail(l)) < Len(l)
           /\ Range(l) = Range(Tail(l)) \cup {Head(l)}
<1> DEFINE u == Tail(l)
<1>1. /\ Head(l) \in Node /\ u \in Seq(Node) /\ Len(u) = Len(l) - 1 /\ Len(l) \in Nat
      /\ \A i \in 1 .. Len(u) : u[i] = l[i + 1]
      /\ Head(l) = l[1] /\ Len(l) # 0 /\ Len(l) >= 1
  BY HeadTailProperties, LenProperties, EmptySeq
<1>2. DOMAIN l = 1 .. Len(l) /\ DOMAIN u = 1 .. Len(u)
  BY <1>1, LenProperties
<1> HIDE DEF u
<1>3. ASSUME NEW i \in 1 .. Len(l) PROVE l[i] \in Range(u) \cup {l[1]}
  <2>1. CASE i = 1
    BY <2>1
  <2>2. CASE i # 1
    <3>1. i - 1 \in 1 .. Len(u) /\ i - 1 + 1 = i
      BY <1>1, <2>2
    <3>2. u[i - 1] = l[i]
      BY <1>1, <3>1
    <3> QED
      BY <1>2, <3>1, <3>2 DEF Range
  <2> QED
    BY <2>1, <2>2
<1>4. ASSUME NEW i \in 1 .. Len(u) PROVE u[i] \in Range(l)
  <2>1. i + 1 \in 1 .. Len(l)
    BY <1>1
  <2> QED
    BY <1>1, <1>2, <2>1 DEF Range
<1>5. l[1] \in Range(l)
  BY <1>1, <1>2 DEF Range
<1>6. Range(l) = Range(u) \cup {l[1]}
  BY <1>2, <1>3, <1>4, <1>5 DEF Range
<1> QED
  BY <1>1, <1>6 DEF u

\* Whatever is sifted, nodes come out.
LEMMA SiftType ==
    ASSUME NEW x \in Sift
    PROVE  Up[x] \in Seq(Node) /\ Down[x] \in Seq(Node)
<1>1. ASSUME NEW y \in Sift PROVE y.heap \in Seq(Node)
  BY DEF Sift
<1>2. ASSUME NEW y \in Sift, Rising(y) PROVE Risen(y) \in Sift
  BY <1>2, RisenType
<1>3. ASSUME NEW y \in Sift, Lower(y) # y.at PROVE Sunk(y) \in Sift
  BY <1>3, SunkType
<1>4. \A y \in Sift : IF Rising(y) THEN Risen(y) \in Sift ELSE y.heap \in Seq(Node)
  BY <1>1, <1>2
<1>5. \A y \in Sift : IF Lower(y) # y.at THEN Sunk(y) \in Sift ELSE y.heap \in Seq(Node)
  BY <1>1, <1>3
<1> QED
  BY <1>4, <1>5, UpEnds, DownEnds

-----------------------------------------------------------------------------
(* The loops over a list of neighbours. *)

\* The walk of descend ends with its list.
LEMMA WalkingEnds ==
    ASSUME NEW I \in SUBSET Walk, NEW P,
           \A x \in I : IF x.list # <<>> THEN Step(x) \in I ELSE x.best \in P
    PROVE  \A x \in I : Walking[x] \in P
<1> DEFINE stop == { x \in Walk : x.list = <<>> }
           next == [x \in Walk |-> IF x.list # <<>> THEN Step(x) ELSE x]
           val == [x \in Walk |-> x.best]
           rank == [x \in Walk |-> Len(x.list)]
<1>1. ASSUME NEW x \in Walk, x.list # <<>>
      PROVE  Step(x) \in Walk /\ Len(Step(x).list) < Len(x.list)
  <2>1. x.list \in Seq(Node) /\ x.q \in Node /\ x.best \in Node
    BY DEF Walk
  <2>2. Head(x.list) \in Node /\ Tail(x.list) \in Seq(Node) /\ Len(Tail(x.list)) < Len(x.list)
    BY <1>1, <2>1, ListSplits
  <2> QED
    BY <2>1, <2>2 DEF Walk, Step
<1>2. CountsDown(Walk, stop, next, rank)
  <2>1. \A x \in Walk : Len(x.list) \in Nat
    BY LenProperties DEF Walk
  <2> QED
    BY <1>1, <2>1 DEF CountsDown
<1>3. Loops(Walking, Walk, stop, next, val)
  <2>1. PICK f : Loops(f, Walk, stop, next, val)
    <3> HIDE DEF stop, next, val, rank
    <3> QED
      BY <1>2, LoopHasResult
  <2>2. f = [x \in Walk |-> IF x.list = <<>> THEN x.best ELSE f[Step(x)]]
    BY <2>1 DEF Loops
  <2>3. Walking = [x \in Walk |-> IF x.list = <<>> THEN x.best ELSE Walking[Step(x)]]
    BY <2>2 DEF Walking
  <2> QED
    BY <2>3 DEF Loops
<1>4. Invariant(I, stop, next, val, P)
  BY DEF Invariant
<1>5. I \subseteq Walk
  OBVIOUS
<1> HIDE DEF stop, next, val, rank
<1> QED
  BY <1>2, <1>3, <1>4, <1>5, LoopKeeps

\* What a call keeps while it reads a list.
LEMMA MeetType ==
    ASSUME NEW s \in CallType, NEW n \in Node
    PROVE  Meet(s, n) \in CallType
<1>1. s.seen \cup {n} \in SUBSET Node /\ s.cand \in Seq(Node) /\ s.found \in Seq(Node) /\ s.q \in Node
  BY DEF CallType
<1>2. ASSUME NEW h \in Seq(Node), NEW above \in Order PROVE Push(h, n, above) \in Seq(Node)
  <2>1. Append(h, n) \in Seq(Node) /\ Len(h) + 1 \in Nat
    BY AppendProperties, LenProperties
  <2> HIDE DEF Order
  <2>2. Sifting(Append(h, n), Len(h) + 1, above) \in Sift
    BY <2>1 DEF Sift, Sifting
  <2> QED
    BY <2>2, SiftType DEF Push
<1>3. NearOnTop[s.q] \in Order /\ FarOnTop[s.q] \in Order
  BY <1>1, BothOrder DEF Orders
<1>4. Push(s.cand, n, NearOnTop[s.q]) \in Seq(Node)
  BY <1>1, <1>2, <1>3
<1>5. Add(s.q, s.found, n, Clamped(s.width)) \in Seq(Node)
  <2>1. Push(s.found, n, FarOnTop[s.q]) \in Seq(Node)
    BY <1>1, <1>2, <1>3
  <2>2. Down[Sifting([s.found EXCEPT ![1] = n], 1, FarOnTop[s.q])] \in Seq(Node)
    <3>1. [s.found EXCEPT ![1] = n] \in Seq(Node)
      BY <1>1, ExceptKeeps
    <3>2. Sifting([s.found EXCEPT ![1] = n], 1, FarOnTop[s.q]) \in Sift
      BY <1>3, <3>1 DEF Sift, Sifting
    <3> QED
      BY <3>2, SiftType
  <2> QED
    BY <1>1, <2>1, <2>2 DEF Add
<1> QED
  BY <1>1, <1>4, <1>5 DEF Meet, CallType

\* And its loop over the list ends with that.
LEMMA MeetAllEnds ==
    ASSUME NEW I \in SUBSET Reading, NEW P,
           \A x \in I : IF x.list # <<>> THEN Onward(x) \in I ELSE x.call \in P
    PROVE  \A x \in I : MeetAll[x] \in P
<1> DEFINE stop == { x \in Reading : x.list = <<>> }
           next == [x \in Reading |-> IF x.list # <<>> THEN Onward(x) ELSE x]
           val == [x \in Reading |-> x.call]
           rank == [x \in Reading |-> Len(x.list)]
<1>1. ASSUME NEW x \in Reading, x.list # <<>>
      PROVE  Onward(x) \in Reading /\ Len(Onward(x).list) < Len(x.list)
  <2>1. x.list \in Seq(Node) /\ x.call \in CallType
    BY DEF Reading
  <2>2. Head(x.list) \in Node /\ Tail(x.list) \in Seq(Node) /\ Len(Tail(x.list)) < Len(x.list)
    BY <1>1, <2>1, ListSplits
  <2>3. Meet(x.call, Head(x.list)) \in CallType
    BY <2>1, <2>2, MeetType
  <2> QED
    BY <2>2, <2>3 DEF Reading, Onward
<1>2. CountsDown(Reading, stop, next, rank)
  <2>1. \A x \in Reading : Len(x.list) \in Nat
    BY LenProperties DEF Reading
  <2> QED
    BY <1>1, <2>1 DEF CountsDown
<1>3. Loops(MeetAll, Reading, stop, next, val)
  <2>1. PICK f : Loops(f, Reading, stop, next, val)
    <3> HIDE DEF stop, next, val, rank
    <3> QED
      BY <1>2, LoopHasResult
  <2>2. f = [x \in Reading |-> IF x.list = <<>> THEN x.call ELSE f[Onward(x)]]
    BY <2>1 DEF Loops
  <2>3. MeetAll = [x \in Reading |-> IF x.list = <<>> THEN x.call ELSE MeetAll[Onward(x)]]
    BY <2>2 DEF MeetAll
  <2> QED
    BY <2>3 DEF Loops
<1>4. Invariant(I, stop, next, val, P)
  BY DEF Invariant
<1>5. I \subseteq Reading
  OBVIOUS
<1> HIDE DEF stop, next, val, rank
<1> QED
  BY <1>2, <1>3, <1>4, <1>5, LoopKeeps

-----------------------------------------------------------------------------
(* One turn of searchLayer's loop. *)

\* A call that searches, with its heaps.
Within(s) ==
    /\ s \in CallType /\ s.pc = "search"
    /\ Clamped(s.width) \in Nat /\ Clamped(s.width) >= 1
    /\ Heap(s.cand, NearOnTop[s.q]) /\ Heap(s.found, FarOnTop[s.q])
    /\ Len(s.found) <= Clamped(s.width) /\ s.found # <<>>
    /\ Range(s.cand) \subseteq s.seen /\ Range(s.found) \subseteq s.seen

\* Nothing but its heaps and what it has seen changes in a search.
Same(s, t) ==
    /\ t.pc = s.pc /\ t.q = s.q /\ t.k = s.k /\ t.width = s.width
    /\ t.ep = s.ep /\ t.lc = s.lc /\ t.answer = s.answer

\* What becomes of a neighbour that was not seen before: it is turned away, it
\* fills the collector up, it replaces the worst, or, which takes NaN, is only
\* queued.
TurnsAway(s, n, t) ==
    /\ TurnedAway(s, n) /\ Len(s.found) >= Clamped(s.width)
    /\ t.cand = s.cand /\ t.found = s.found
Queues(s, n, t) == ~TurnedAway(s, n) /\ Range(t.cand) = Range(s.cand) \cup {n}
FillsUp(s, n, t) ==
    /\ Len(s.found) < Clamped(s.width) /\ Len(t.found) = Len(s.found) + 1
    /\ Range(t.found) = Range(s.found) \cup {n}
Replaces(s, n, t) ==
    /\ Len(s.found) >= Clamped(s.width) /\ Len(t.found) = Len(s.found)
    /\ Ranks(s.q, n, s.found[1]) /\ s.found[1] \in Range(s.found)
    /\ Range(t.found) = (Range(s.found) \ {s.found[1]}) \cup {n}
Passes(s, n, t) ==
    /\ Len(s.found) >= Clamped(s.width) /\ t.found = s.found
    /\ ~Ranks(s.q, n, s.found[1])

\* What a search within its heaps has.
LEMMA WithinHas ==
    ASSUME NEW s, Within(s)
    PROVE  /\ s.q \in Node /\ s.seen \in SUBSET Node /\ s.cand \in Seq(Node) /\ s.found \in Seq(Node)
           /\ Range(s.cand) \subseteq Node /\ Range(s.found) \subseteq Node
           /\ Len(s.found) \in Nat /\ Len(s.found) >= 1
           /\ s.found[1] \in Range(s.found)
           /\ Cardinality(Range(s.found)) = Len(s.found)
<1>1. s.q \in Node /\ s.seen \in SUBSET Node /\ s.cand \in Seq(Node) /\ s.found \in Seq(Node)
  BY DEF Within, CallType
<1>2. s.found # <<>> /\ IsInjective(s.found)
  BY DEF Within, Heap
<1>3. Len(s.found) \in Nat /\ Len(s.found) >= 1
  BY <1>1, <1>2, EmptySeq
<1>4. 1 \in 1 .. Len(s.found)
  BY <1>3
<1> QED
  BY <1>1, <1>2, <1>3, <1>4, Items, HeapSize

\* A neighbour met keeps the heaps.
LEMMA MeetCases ==
    ASSUME NEW s, Within(s), NEW n \in Node
    PROVE  LET t == Meet(s, n) IN
           /\ Within(t) /\ Same(s, t) /\ t.seen = s.seen \cup {n}
           /\ n \in s.seen => t = s
           /\ n \notin s.seen =>
                \/ TurnsAway(s, n, t)
                \/ Queues(s, n, t) /\ (FillsUp(s, n, t) \/ Replaces(s, n, t) \/ Passes(s, n, t))
<1> DEFINE t == Meet(s, n)
           W == Clamped(s.width)
           near == NearOnTop[s.q]
           far == FarOnTop[s.q]
<1>1. /\ s \in CallType /\ s.pc = "search" /\ W \in Nat /\ W >= 1
      /\ Heap(s.cand, near) /\ Heap(s.found, far) /\ Len(s.found) <= W /\ s.found # <<>>
      /\ Range(s.cand) \subseteq s.seen /\ Range(s.found) \subseteq s.seen
  BY DEF Within
<1>2. /\ s.q \in Node /\ s.cand \in Seq(Node) /\ s.found \in Seq(Node)
      /\ Len(s.found) \in Nat /\ Len(s.found) >= 1
  BY WithinHas
<1>3. t \in CallType
  BY <1>1, MeetType
<1> HIDE DEF W, near, far
<1>4. CASE n \in s.seen
  <2>1. t = s /\ s.seen = s.seen \cup {n}
    BY <1>4 DEF Meet
  <2> QED
    BY <1>4, <2>1 DEF Same
<1>5. CASE n \notin s.seen /\ TurnedAway(s, n)
  <2>1. t = [s EXCEPT !.seen = @ \cup {n}]
    BY <1>5 DEF Meet
  <2>2. t.seen = s.seen \cup {n} /\ t.cand = s.cand /\ t.found = s.found /\ Same(s, t)
    BY <1>1, <2>1 DEF Same, CallType
  <2>3. Len(s.found) >= W
    BY <1>5 DEF TurnedAway, HasWorst, W
  <2>4. Within(t)
    BY <1>1, <1>3, <2>2 DEF Within, Same, W, near, far
  <2> HIDE DEF t
  <2> QED
    BY <1>5, <2>2, <2>3, <2>4 DEF TurnsAway, W, t
<1>6. CASE n \notin s.seen /\ ~TurnedAway(s, n)
  <2> DEFINE c == Push(s.cand, n, near)
             f == Add(s.q, s.found, n, W)
  <2>1. t = [s EXCEPT !.seen = @ \cup {n}, !.cand = c, !.found = f]
    BY <1>6 DEF Meet, near, W
  <2> HIDE DEF c, f
  <2>2. t.seen = s.seen \cup {n} /\ t.cand = c /\ t.found = f /\ Same(s, t)
    BY <1>1, <2>1 DEF Same, CallType
  <2> HIDE DEF t
  <2>3. n \in Node \ Range(s.cand) /\ n \in Node \ Range(s.found)
    BY <1>1, <1>6
  <2>4. Orders(near) /\ Orders(far)
    BY <1>2, BothOrder DEF near, far
  <2>5. c \in Heaps(Len(s.cand) + 1, Range(s.cand) \cup {n}, near)
    BY <1>1, <1>2, <2>3, <2>4, PushAdds DEF c
  <2>6. Heap(c, near) /\ Range(c) = Range(s.cand) \cup {n}
    BY <2>5 DEF Heaps
  <2>7. Queues(s, n, t)
    BY <1>6, <2>2, <2>6 DEF Queues
  <2>8. /\ Len(s.found) < W => f \in Heaps(Len(s.found) + 1, Range(s.found) \cup {n}, far)
        /\ Len(s.found) >= W =>
             /\ s.found[1] \in Range(s.found)
             /\ Ranks(s.q, n, s.found[1]) =>
                 f \in Heaps(Len(s.found), (Range(s.found) \ {s.found[1]}) \cup {n}, far)
             /\ ~Ranks(s.q, n, s.found[1]) => f = s.found
    BY <1>1, <1>2, <2>3, AddTakes DEF f, far
  <2>9. \/ FillsUp(s, n, t) \/ Replaces(s, n, t) \/ Passes(s, n, t)
    <3>1. CASE Len(s.found) < W
      BY <2>2, <2>8, <3>1 DEF Heaps, FillsUp, W
    <3>2. CASE Len(s.found) >= W /\ Ranks(s.q, n, s.found[1])
      BY <2>2, <2>8, <3>2 DEF Heaps, Replaces, W
    <3>3. CASE Len(s.found) >= W /\ ~Ranks(s.q, n, s.found[1])
      BY <2>2, <2>8, <3>3 DEF Passes, W
    <3> QED
      BY <1>1, <1>2, <3>1, <3>2, <3>3
  <2>10. Heap(f, far) /\ Len(f) <= W /\ f # <<>> /\ Range(f) \subseteq s.seen \cup {n}
    <3>1. CASE Len(s.found) < W
      <4>1. Heap(f, far) /\ Len(f) = Len(s.found) + 1 /\ Range(f) = Range(s.found) \cup {n}
        BY <2>8, <3>1 DEF Heaps
      <4>2. f # <<>>
        BY <1>2, <4>1, EmptySeq
      <4> QED
        BY <1>1, <1>2, <3>1, <4>1, <4>2
    <3>2. CASE Len(s.found) >= W /\ Ranks(s.q, n, s.found[1])
      <4>1. /\ Heap(f, far) /\ Len(f) = Len(s.found)
            /\ Range(f) = (Range(s.found) \ {s.found[1]}) \cup {n}
        BY <2>8, <3>2 DEF Heaps
      <4>2. f # <<>>
        BY <1>2, <4>1, EmptySeq
      <4> QED
        BY <1>1, <1>2, <4>1, <4>2
    <3>3. CASE Len(s.found) >= W /\ ~Ranks(s.q, n, s.found[1])
      BY <1>1, <2>8, <3>3
    <3> QED
      BY <1>1, <1>2, <3>1, <3>2, <3>3
  <2>11. Within(t)
    BY <1>1, <1>3, <2>2, <2>6, <2>10 DEF Within, Same, W, near, far, t
  <2> QED
    BY <1>6, <2>2, <2>7, <2>9, <2>11 DEF t
<1> QED
  BY <1>4, <1>5, <1>6

\* What was queued of the neighbours read since s.
Queued(s, t) == Range(t.cand) \ s.seen

\* From s a search has come to t.  What it has seen since is queued unless the
\* results are full, and what was queued is a result unless they are.
Grown(s, t) ==
    /\ Same(s, t) /\ s.seen \subseteq t.seen
    /\ Range(t.cand) = Range(s.cand) \cup Queued(s, t)
    /\ Range(t.found) \subseteq Range(s.found) \cup Queued(s, t)
    /\ Len(s.found) <= Len(t.found)
    /\ Len(t.found) < Clamped(s.width) =>
        /\ Range(t.found) = Range(s.found) \cup Queued(s, t)
        /\ t.seen = s.seen \cup Queued(s, t)

\* Meeting one more node adds to what was met and found.
LEMMA MeetGrows ==
    ASSUME NEW s, Within(s), NEW t, Within(t), Grown(s, t), NEW n \in Node
    PROVE  Grown(s, Meet(t, n))
<1> DEFINE u == Meet(t, n)
           W == Clamped(s.width)
           A == Queued(s, t)
           B == Queued(s, u)
<1> SUFFICES Grown(s, u)
  OBVIOUS
<1>1. /\ Same(s, t) /\ s.seen \subseteq t.seen
      /\ Range(t.cand) = Range(s.cand) \cup A /\ Range(t.found) \subseteq Range(s.found) \cup A
      /\ Len(s.found) <= Len(t.found)
      /\ Len(t.found) < W => /\ Range(t.found) = Range(s.found) \cup A
                             /\ t.seen = s.seen \cup A
  BY DEF Grown
<1>2. /\ Same(t, u) /\ u.seen = t.seen \cup {n}
      /\ n \in t.seen => u = t
      /\ n \notin t.seen =>
            \/ TurnsAway(t, n, u)
            \/ Queues(t, n, u) /\ (FillsUp(t, n, u) \/ Replaces(t, n, u) \/ Passes(t, n, u))
  BY MeetCases
<1> HIDE DEF u
<1>3. Same(s, u) /\ s.seen \subseteq u.seen /\ Clamped(t.width) = W
  BY <1>1, <1>2 DEF Same
<1>4. /\ Len(s.found) \in Nat /\ Len(t.found) \in Nat /\ W \in Nat
      /\ Range(s.cand) \subseteq s.seen /\ Range(s.found) \subseteq s.seen
  BY WithinHas DEF Within
<1> HIDE DEF W
<1>5. CASE n \in t.seen
  BY <1>2, <1>5
<1>6. CASE TurnsAway(t, n, u)
  <2>1. u.cand = t.cand /\ u.found = t.found /\ Len(t.found) >= W
    BY <1>3, <1>6 DEF TurnsAway
  <2>2. B = A
    BY <2>1 DEF Queued
  <2> HIDE DEF A, B
  <2> QED
    BY <1>1, <1>3, <1>4, <2>1, <2>2 DEF Grown, W, A, B
<1>7. CASE n \notin t.seen /\ Queues(t, n, u) /\ (FillsUp(t, n, u) \/ Replaces(t, n, u) \/ Passes(t, n, u))
  <2>1. Range(u.cand) = Range(t.cand) \cup {n} /\ n \notin s.seen
    BY <1>1, <1>7 DEF Queues
  <2>2. B = A \cup {n}
    BY <2>1 DEF Queued
  <2> HIDE DEF A, B
  <2>3. Range(u.cand) = Range(s.cand) \cup B
    BY <1>1, <2>1, <2>2
  <2>4. CASE FillsUp(t, n, u)
    <3>1. /\ Len(t.found) < W /\ Len(u.found) = Len(t.found) + 1
          /\ Range(u.found) = Range(t.found) \cup {n}
      BY <1>3, <2>4 DEF FillsUp
    <3>2. Len(s.found) <= Len(u.found)
      BY <1>1, <1>4, <3>1
    <3>3. Range(u.found) = Range(s.found) \cup B /\ u.seen = s.seen \cup B
      BY <1>1, <1>2, <2>2, <3>1
    <3> QED
      BY <1>3, <2>3, <3>2, <3>3 DEF Grown, W, B
  <2>5. CASE Replaces(t, n, u) \/ Passes(t, n, u)
    <3>1. /\ Len(t.found) >= W /\ Len(u.found) = Len(t.found)
          /\ Range(u.found) \subseteq Range(t.found) \cup {n}
      BY <1>3, <2>5 DEF Replaces, Passes
    <3>2. Len(s.found) <= Len(u.found) /\ ~(Len(u.found) < W)
      BY <1>1, <1>4, <3>1
    <3>3. Range(u.found) \subseteq Range(s.found) \cup B
      BY <1>1, <2>2, <3>1
    <3> QED
      BY <1>3, <2>3, <3>2, <3>3 DEF Grown, W, B
  <2> QED
    BY <1>7, <2>4, <2>5
<1> QED
  BY <1>2, <1>5, <1>6, <1>7

\* By the distances of a query that meets no NaN, Before is a total order.
LEMMA Compares ==
    ASSUME NEW q \in Node, Defined(q, Node)
    PROVE  /\ \A a \in Node : Dist[<<q, a>>] \in Nat
           /\ \A S \in SUBSET Node : Defined(q, S)
           /\ \A a, b \in Node :
                /\ Ranks(q, a, b) <=> Before(q, a, b)
                /\ Less(q, a, b) <=> Dist[<<q, a>>] < Dist[<<q, b>>]
                /\ Less(q, a, b) => Before(q, a, b)
                /\ Before(q, a, b) => Dist[<<q, a>>] <= Dist[<<q, b>>]
                /\ ~Before(q, a, b) /\ a # b => Before(q, b, a)
                /\ Before(q, a, b) => ~Before(q, b, a)
           /\ \A a, b, c \in Node : Before(q, a, b) /\ Before(q, b, c) => Before(q, a, c)
           /\ \A a, b, c \in Node : ~Before(q, a, b) /\ ~Before(q, b, c) => ~Before(q, a, c)
<1>1. \A a \in Node : Dist[<<q, a>>] \in Nat /\ a \in Int /\ <<q, a>> \notin Undefined
  BY DistAssumption, SizeAssumption DEF Node, Defined
<1>2. \A S \in SUBSET Node : Defined(q, S)
  BY <1>1 DEF Defined
<1>3. \A a, b \in Node : Defined(q, {a, b})
  BY <1>2
<1> QED
  BY <1>1, <1>2, <1>3 DEF Ranks, Less, Before

\* The first of the queue is the nearest, that of the results the furthest.
LEMMA Tops ==
    ASSUME NEW s, Within(s), Defined(s.q, Node)
    PROVE  /\ s.cand # <<>> =>
                /\ s.cand[1] \in Range(s.cand)
                /\ \A c \in Range(s.cand) \ {s.cand[1]} : Before(s.q, s.cand[1], c)
           /\ \A r \in Range(s.found) \ {s.found[1]} : Before(s.q, r, s.found[1])
<1>1. /\ s.q \in Node /\ s.cand \in Seq(Node) /\ s.found \in Seq(Node)
      /\ Range(s.cand) \subseteq Node /\ Range(s.found) \subseteq Node
      /\ Heap(s.cand, NearOnTop[s.q]) /\ Heap(s.found, FarOnTop[s.q]) /\ s.found # <<>>
      /\ s.found[1] \in Range(s.found)
  BY WithinHas DEF Within
<1>2. \A a, b \in Node :
        /\ <<a, b>> \in NearOnTop[s.q] <=> Before(s.q, a, b)
        /\ <<a, b>> \in FarOnTop[s.q] <=> Before(s.q, b, a)
  BY <1>1, Compares DEF NearOnTop, FarOnTop
<1>3. \A a \in Node : ~Before(s.q, a, a)
  BY <1>1, Compares
<1>4. \A r \in Range(s.found) : <<r, s.found[1]>> \notin FarOnTop[s.q]
  <2>1. \A a, b, c \in Range(s.found) :
          <<a, b>> \notin FarOnTop[s.q] /\ <<b, c>> \notin FarOnTop[s.q]
            => <<a, c>> \notin FarOnTop[s.q]
    BY <1>1, <1>2, Compares
  <2>2. \A a \in Range(s.found) : <<a, a>> \notin FarOnTop[s.q]
    BY <1>1, <1>2, <1>3
  <2> QED
    BY <1>1, <2>1, <2>2, HeapTop
<1>5. ASSUME s.cand # <<>>
      PROVE  /\ s.cand[1] \in Range(s.cand)
             /\ \A r \in Range(s.cand) : <<r, s.cand[1]>> \notin NearOnTop[s.q]
  <2>1. \A a, b, c \in Range(s.cand) :
          <<a, b>> \notin NearOnTop[s.q] /\ <<b, c>> \notin NearOnTop[s.q]
            => <<a, c>> \notin NearOnTop[s.q]
    BY <1>1, <1>2, Compares
  <2>2. \A a \in Range(s.cand) : <<a, a>> \notin NearOnTop[s.q]
    BY <1>1, <1>2, <1>3
  <2>3. 1 \in 1 .. Len(s.cand)
    BY <1>1, <1>5, EmptySeq
  <2> QED
    BY <1>1, <1>5, <2>1, <2>2, <2>3, HeapTop, Items
<1>6. \A a, b \in Node : ~Before(s.q, a, b) /\ a # b => Before(s.q, b, a)
  BY <1>1, Compares
<1>7. \A r \in Range(s.found) \ {s.found[1]} : Before(s.q, r, s.found[1])
  BY <1>1, <1>2, <1>4, <1>6
<1>8. ASSUME s.cand # <<>>, NEW c \in Range(s.cand) \ {s.cand[1]}
      PROVE  Before(s.q, s.cand[1], c)
  BY <1>1, <1>2, <1>5, <1>6, <1>8
<1> QED
  BY <1>5, <1>7, <1>8

\* Without NaN the results are the first of what they were and of what was
\* queued since; nothing was queued or turned away without reason.
Taken(s, t) ==
    /\ Firsts(s.q, Range(s.found) \cup Queued(s, t), Clamped(s.width), Range(t.found))
    /\ \A y \in Queued(s, t) :
        ~(Full(Range(s.found), Clamped(s.width)) /\ NoBetter(s.q, Range(s.found), y))
    /\ \A y \in (t.seen \ s.seen) \ Queued(s, t) :
        Full(Range(t.found), Clamped(s.width)) /\ NoBetter(s.q, Range(t.found), y)

\* It costs nothing the result list would have kept, where distances are defined.
LEMMA MeetTakes ==
    ASSUME NEW s, Within(s), NEW t, Within(t), Grown(s, t), Taken(s, t), NEW n \in Node,
           Defined(s.q, Node)
    PROVE  Taken(s, Meet(t, n))
<1> DEFINE q == s.q
           u == Meet(t, n)
           W == Clamped(s.width)
           A == Queued(s, t)
           B == Queued(s, u)
           F == Range(s.found)
           G == Range(t.found)
           H == Range(u.found)
           worst == t.found[1]
<1> SUFFICES Taken(s, u)
  OBVIOUS
<1>1. /\ Same(s, t) /\ s.seen \subseteq t.seen /\ A \subseteq t.seen
      /\ Len(s.found) <= Len(t.found)
      /\ Len(t.found) < W => G = F \cup A /\ t.seen = s.seen \cup A
  BY DEF Grown, Within, Queued
<1>2. /\ Same(t, u) /\ u.seen = t.seen \cup {n}
      /\ n \in t.seen => u = t
      /\ n \notin t.seen =>
            \/ TurnsAway(t, n, u)
            \/ Queues(t, n, u) /\ (FillsUp(t, n, u) \/ Replaces(t, n, u) \/ Passes(t, n, u))
  BY MeetCases
<1>3. Within(u)
  BY MeetCases
<1> HIDE DEF u
<1>4. /\ q \in Node /\ t.q = q /\ u.q = q /\ Clamped(t.width) = W /\ Clamped(u.width) = W
      /\ W \in Nat /\ W >= 1
  BY <1>1, <1>2, WithinHas DEF Same, Within
<1>5. /\ F \subseteq s.seen /\ s.seen \subseteq Node /\ t.seen \subseteq Node
      /\ G \subseteq Node /\ H \subseteq Node /\ A \subseteq Node
      /\ Len(s.found) \in Nat /\ Len(t.found) \in Nat /\ Len(u.found) \in Nat
      /\ Len(t.found) <= W /\ Len(u.found) <= W
      /\ Cardinality(F) = Len(s.found) /\ Cardinality(G) = Len(t.found)
      /\ Cardinality(H) = Len(u.found)
      /\ IsFiniteSet(F) /\ IsFiniteSet(G)
      /\ worst \in G /\ worst \in Node
  <2>1. IsFiniteSet(F) /\ IsFiniteSet(G)
    BY WithinHas, HeapSize DEF Within, Heap
  <2> QED
    BY <1>1, <1>3, <1>4, <2>1, WithinHas DEF Within
<1>6. /\ G \subseteq F \cup A /\ Cardinality(G) <= W /\ (Cardinality(G) >= W \/ G = F \cup A)
      /\ \A g \in G, c \in (F \cup A) \ G : Before(q, g, c)
      /\ \A y \in A : ~(Full(F, W) /\ NoBetter(q, F, y))
      /\ \A y \in (t.seen \ s.seen) \ A : Full(G, W) /\ NoBetter(q, G, y)
  BY DEF Taken, Firsts, Selected, Closest, Full
<1>7. /\ \A r \in G \ {worst} : Before(q, r, worst)
      /\ \A r \in G : Dist[<<q, r>>] <= Dist[<<q, worst>>]
  <2>1. \A r \in G \ {worst} : Before(q, r, worst)
    BY <1>4, Tops
  <2>2. ASSUME NEW r \in G PROVE Dist[<<q, r>>] <= Dist[<<q, worst>>]
    <3>1. CASE r = worst
      BY <1>4, <1>5, <3>1, Compares
    <3>2. CASE r # worst
      BY <1>4, <1>5, <2>1, <3>2, Compares
    <3> QED
      BY <3>1, <3>2
  <2> QED
    BY <2>1, <2>2
<1>8. \A a \in Node : Dist[<<q, a>>] \in Nat
  BY <1>4, Compares
<1> HIDE DEF q, W, A, B, F, G, H, worst
<1>9. CASE n \in t.seen
  BY <1>2, <1>9
<1>10. CASE n \notin t.seen /\ TurnsAway(t, n, u)
  <2>1. u.found = t.found /\ u.cand = t.cand /\ Len(t.found) >= W
    BY <1>4, <1>10 DEF TurnsAway
  <2>2. ~Less(q, n, worst)
    BY <1>4, <1>10 DEF TurnsAway, TurnedAway, worst
  <2>3. ~(Dist[<<q, n>>] < Dist[<<q, worst>>])
    BY <1>4, <1>5, <2>2, Compares DEF q
  <2>4. NoBetter(q, G, n)
    BY <1>5, <1>7, <1>8, <2>3 DEF NoBetter
  <2>5. B = A /\ H = G
    BY <2>1 DEF A, B, G, H, Queued
  <2>6. ASSUME NEW y \in (u.seen \ s.seen) \ A PROVE Full(G, W) /\ NoBetter(q, G, y)
    <3>1. CASE y = n
      BY <1>5, <2>1, <2>4, <3>1 DEF Full
    <3>2. CASE y # n
      BY <1>2, <1>6, <3>2
    <3> QED
      BY <3>1, <3>2
  <2> QED
    BY <2>5, <2>6 DEF Taken, A, B, F, G, H, q, W
<1>11. ASSUME n \notin t.seen, Queues(t, n, u) PROVE B = A \cup {n} /\ n \notin F \cup A /\ n \notin s.seen
  BY <1>1, <1>5, <1>11 DEF Queues, Queued, A, B
<1>12. CASE n \notin t.seen /\ Queues(t, n, u) /\ FillsUp(t, n, u)
  <2>1. B = A \cup {n} /\ n \notin F \cup A
    BY <1>11, <1>12
  <2>2. Len(t.found) < W /\ H = G \cup {n} /\ Len(u.found) = Len(t.found) + 1
    BY <1>4, <1>12 DEF FillsUp, G, H
  <2>3. H = F \cup B /\ u.seen = s.seen \cup B
    BY <1>1, <1>2, <2>1, <2>2
  <2>4. ~Full(F, W)
    BY <1>1, <1>4, <1>5, <2>2 DEF Full
  <2>5. Firsts(q, F \cup B, W, H)
    BY <1>5, <2>3 DEF Firsts, Selected, Closest
  <2> QED
    BY <2>3, <2>4, <2>5 DEF Taken, B, F, H, q, W
<1>13. CASE n \notin t.seen /\ Queues(t, n, u) /\ Replaces(t, n, u)
  <2>1. B = A \cup {n} /\ n \notin F \cup A
    BY <1>11, <1>13
  <2>2. /\ Len(t.found) >= W /\ H = (G \ {worst}) \cup {n} /\ Len(u.found) = Len(t.found)
        /\ Ranks(q, n, worst)
    BY <1>4, <1>13 DEF Replaces, G, H, worst
  <2>3. Before(q, n, worst)
    BY <1>4, <1>5, <2>2, Compares DEF q
  <2>4. \A g \in H : Before(q, g, worst)
    BY <1>7, <2>2, <2>3
  <2>5. \A g \in H, c \in (F \cup B) \ H : Before(q, g, c)
    <3>1. ASSUME NEW g \in H, NEW c \in (F \cup B) \ H PROVE Before(q, g, c)
      <4>1. CASE c = worst
        BY <2>4, <4>1
      <4>2. CASE c # worst
        <5>1. c \in (F \cup A) \ G /\ c \in Node /\ g \in Node
          BY <1>5, <2>1, <2>2, <4>2
        <5>2. Before(q, worst, c)
          BY <1>5, <1>6, <5>1
        <5>3. Before(q, g, worst)
          BY <2>4
        <5> QED
          BY <1>4, <1>5, <5>1, <5>2, <5>3, Compares DEF q
      <4> QED
        BY <4>1, <4>2
    <3> QED
      BY <3>1
  <2>6. Full(H, W) /\ Cardinality(H) <= W
    BY <1>4, <1>5, <2>2 DEF Full
  <2>7. Firsts(q, F \cup B, W, H)
    BY <1>6, <2>1, <2>2, <2>5, <2>6 DEF Firsts, Selected, Closest
  <2>8. ASSUME NEW y \in (u.seen \ s.seen) \ B PROVE Full(H, W) /\ NoBetter(q, H, y)
    <3>1. y \in (t.seen \ s.seen) \ A /\ y \in Node
      BY <1>2, <1>5, <2>1
    <3>2. \A g \in G : Dist[<<q, g>>] <= Dist[<<q, y>>]
      BY <1>6, <3>1 DEF NoBetter
    <3>3. \A g \in H : Dist[<<q, g>>] <= Dist[<<q, worst>>]
      BY <1>4, <1>5, <2>4, Compares DEF q
    <3>4. ASSUME NEW g \in H PROVE Dist[<<q, g>>] <= Dist[<<q, y>>]
      <4>1. Dist[<<q, g>>] <= Dist[<<q, worst>>] /\ Dist[<<q, worst>>] <= Dist[<<q, y>>]
        BY <1>5, <3>2, <3>3
      <4>2. Dist[<<q, g>>] \in Nat /\ Dist[<<q, worst>>] \in Nat /\ Dist[<<q, y>>] \in Nat
        BY <1>5, <1>8, <3>1
      <4> QED
        BY <4>1, <4>2
    <3> QED
      BY <2>6, <3>4 DEF NoBetter
  <2>9. ~(Full(F, W) /\ NoBetter(q, F, n))
    <3> SUFFICES ASSUME Full(F, W), NoBetter(q, F, n) PROVE FALSE
      OBVIOUS
    <3>1. Dist[<<q, n>>] < Dist[<<q, worst>>]
      <4>1. ~TurnedAway(t, n) /\ HasWorst(t)
        BY <1>4, <1>13, <2>2 DEF Queues, HasWorst
      <4>2. Defined(q, {n, worst})
        BY <1>4, <1>5, Compares DEF q
      <4>3. Less(q, n, worst)
        BY <1>4, <4>1, <4>2 DEF TurnedAway, worst
      <4> QED
        BY <1>4, <1>5, <4>3, Compares DEF q
    <3>2. worst \notin F
      BY <1>5, <1>8, <3>1 DEF NoBetter
    <3>3. PICK f \in F : f \notin G
      <4> SUFFICES ASSUME F \subseteq G PROVE FALSE
        OBVIOUS
      <4>1. F # G
        BY <1>5, <3>2
      <4>2. Cardinality(F) <= Cardinality(G) /\ (Cardinality(G) = Cardinality(F) => G = F)
        BY <1>5, FS_Subset
      <4>3. Cardinality(F) >= Cardinality(G)
        BY <1>4, <1>5 DEF Full
      <4> QED
        BY <1>5, <4>1, <4>2, <4>3
    <3>4. f \in Node /\ Before(q, worst, f)
      BY <1>5, <1>6, <3>3
    <3>5. Dist[<<q, worst>>] <= Dist[<<q, f>>] /\ Dist[<<q, f>>] <= Dist[<<q, n>>]
      <4>1. Dist[<<q, worst>>] <= Dist[<<q, f>>]
        BY <1>4, <1>5, <3>4, Compares DEF q
      <4> QED
        BY <3>3, <4>1 DEF NoBetter
    <3> QED
      BY <1>5, <1>8, <3>1, <3>4, <3>5
  <2> QED
    BY <1>6, <2>1, <2>7, <2>8, <2>9 DEF Taken, B, F, H, q, W
<1>14. CASE n \notin t.seen /\ Queues(t, n, u) /\ Passes(t, n, u)
  <2>1. HasWorst(t) /\ ~TurnedAway(t, n) /\ ~Ranks(q, n, worst)
    BY <1>4, <1>14 DEF Passes, Queues, HasWorst, worst
  <2>2. Defined(q, {n, worst})
    BY <1>4, <1>5, Compares DEF q
  <2>3. Less(q, n, worst)
    BY <1>4, <2>1, <2>2 DEF TurnedAway, worst
  <2> QED
    BY <1>4, <1>5, <2>1, <2>3, Compares DEF q
<1> QED
  BY <1>2, <1>9, <1>10, <1>12, <1>13, <1>14

\* What the loop over a list of neighbours makes of a call.
LEMMA ListRead ==
    ASSUME NEW s, Within(s), NEW l \in Seq(Node)
    PROVE  LET t == MeetAll[[call |-> s, list |-> l]] IN
           /\ Within(t) /\ Grown(s, t) /\ t.seen = s.seen \cup Range(l)
           /\ Defined(s.q, Node) => Taken(s, t)
<1> DEFINE Kept(t) == Within(t) /\ Grown(s, t) /\ (Defined(s.q, Node) => Taken(s, t))
           all == s.seen \cup Range(l)
           I == { x \in Reading : Kept(x.call) /\ x.call.seen \cup Range(x.list) = all }
           P == { t \in CallType : Kept(t) /\ t.seen = all }
           x0 == [call |-> s, list |-> l]
<1>1. Kept(s)
  <2>1. Queued(s, s) = {}
    BY DEF Queued, Within
  <2>2. Len(s.found) \in Nat /\ Cardinality(Range(s.found)) = Len(s.found)
        /\ Len(s.found) <= Clamped(s.width)
    BY WithinHas DEF Within
  <2>3. Grown(s, s)
    BY <2>1, <2>2 DEF Grown, Same
  <2>4. Taken(s, s)
    BY <2>1, <2>2 DEF Taken, Firsts, Selected, Closest
  <2> QED
    BY <2>3, <2>4
<1>2. x0 \in I
  <2>1. s \in CallType
    BY DEF Within
  <2> QED
    BY <1>1, <2>1 DEF Reading
<1>3. ASSUME NEW x \in I, x.list # <<>> PROVE Onward(x) \in I
  <2> DEFINE u == Meet(x.call, Head(x.list))
  <2>1. /\ x.call \in CallType /\ x.list \in Seq(Node) /\ Kept(x.call)
        /\ x.call.seen \cup Range(x.list) = all
    BY DEF Reading
  <2>2. /\ Head(x.list) \in Node /\ Tail(x.list) \in Seq(Node)
        /\ Range(x.list) = Range(Tail(x.list)) \cup {Head(x.list)}
    BY <1>3, <2>1, ListSplits
  <2>3. Within(u) /\ u.seen = x.call.seen \cup {Head(x.list)} /\ u \in CallType
    BY <2>1, <2>2, MeetCases DEF Within
  <2>4. Grown(s, u)
    BY <2>1, <2>2, MeetGrows
  <2>5. Defined(s.q, Node) => Taken(s, u)
    BY <2>1, <2>2, MeetTakes
  <2>6. u.seen \cup Range(Tail(x.list)) = all
    BY <2>1, <2>2, <2>3
  <2>7. Onward(x) = [call |-> u, list |-> Tail(x.list)]
    BY DEF Onward
  <2>8. Kept(u)
    BY <2>3, <2>4, <2>5
  <2> HIDE DEF u, all, Kept
  <2>9. Onward(x).call = u /\ Onward(x).list = Tail(x.list) /\ Onward(x) \in Reading
    BY <2>2, <2>3, <2>7 DEF Reading
  <2> QED
    BY <2>6, <2>8, <2>9
<1>4. ASSUME NEW x \in I, x.list = <<>> PROVE x.call \in P
  <2>1. Range(x.list) = {}
    BY <1>4 DEF Range
  <2> QED
    BY <2>1 DEF Reading
<1>5. I \in SUBSET Reading /\ \A x \in I : IF x.list # <<>> THEN Onward(x) \in I ELSE x.call \in P
  BY <1>3, <1>4
<1> HIDE DEF I, P, x0
<1>6. MeetAll[x0] \in P
  BY <1>2, <1>5, MeetAllEnds
<1> QED
  BY <1>6 DEF P, x0

-----------------------------------------------------------------------------
(* The invariant. *)

\* Nodes, lists and what can be reached; lemmas of QueryProofs.
LEMMA NodesFinite ==
    \A S \in SUBSET Node : IsFiniteSet(S) /\ Cardinality(S) \in Nat /\ Cardinality(S) <= N
<1>1. IsFiniteSet(Node) /\ Cardinality(Node) = N
  <2>1. 0 \in Int /\ N - 1 \in Int /\ N \in Nat /\ N >= 1
    BY SizeAssumption
  <2> QED
    BY <2>1, FS_Interval DEF Node
<1> QED
  BY <1>1, FS_Subset, FS_CardinalityType

\* There is a bottom layer.
LEMMA BottomIsLayer == 0 \in Layer
BY QueryAssumption DEF Layer

\* An index of the right shape.
LEMMA IndexShape ==
    ASSUME NEW x \in Indexes
    PROVE  /\ x.entry \in Node
           /\ \A n \in Node : x.level[n] \in Layer
           /\ \A n \in Node, l \in Layer :
                /\ x.lists[n][l] \in Seq(Node)
                /\ Neighbours(x, n, l) = Range(x.lists[n][l])
                /\ Neighbours(x, n, l) \subseteq Node
<1>1. x.lists \in [Node -> [Layer -> Seq(Node)]] /\ x.entry \in Node /\ x.level \in [Node -> Layer]
  BY QueryAssumption DEF Followable
<1>2. ASSUME NEW n \in Node, NEW l \in Layer
      PROVE  /\ x.lists[n][l] \in Seq(Node) /\ Neighbours(x, n, l) = Range(x.lists[n][l])
             /\ Neighbours(x, n, l) \subseteq Node
  <2>1. x.lists[n][l] \in Seq(Node)
    BY <1>1
  <2>2. Neighbours(x, n, l) = Range(x.lists[n][l])
    BY DEF Neighbours, Range
  <2> QED
    BY <2>1, <2>2, Items
<1> QED
  BY <1>1, <1>2

\* What can be reached includes the neighbours of what can be.
LEMMA ReachCloses ==
    ASSUME NEW x \in Indexes, NEW e \in Node
    PROVE  /\ e \in Reach(x, e) /\ Reach(x, e) \subseteq Node
           /\ \A m \in Reach(x, e) : Neighbours(x, m, 0) \subseteq Reach(x, e)
<1> DEFINE Closed(S) == e \in S /\ \A m \in S : Neighbours(x, m, 0) \subseteq S
<1>1. Reach(x, e) = { n \in Node : \A S \in SUBSET Node : Closed(S) => n \in S }
  BY DEF Reach, Reaches
<1>2. ASSUME NEW m \in Reach(x, e), NEW y \in Neighbours(x, m, 0) PROVE y \in Reach(x, e)
  <2>1. m \in Node /\ y \in Node
    BY <1>1, <1>2, IndexShape, BottomIsLayer
  <2>2. ASSUME NEW S \in SUBSET Node, Closed(S) PROVE y \in S
    BY <1>1, <1>2, <2>2
  <2> QED
    BY <1>1, <2>1, <2>2
<1> QED
  BY <1>1, <1>2

\* It is in every set that does.
LEMMA ReachLeast ==
    ASSUME NEW x \in Indexes, NEW e \in Node, NEW S \in SUBSET Node,
           e \in S, \A m \in S : Neighbours(x, m, 0) \subseteq S
    PROVE  Reach(x, e) \subseteq S
BY DEF Reach, Reaches

\* A width that is clamped is one still.
LEMMA ClampedType ==
    ASSUME NEW w \in Int, w >= 1
    PROVE  Clamped(w) \in Nat /\ Clamped(w) >= 1 /\ (w < N => Clamped(w) = w)
           /\ (w >= N => Clamped(w) = N)
BY SizeAssumption DEF Clamped

\* What is claimed of one call.
HeapsOf(s) ==
    /\ Heap(s.cand, NearOnTop[s.q]) /\ Heap(s.found, FarOnTop[s.q])
    /\ Len(s.found) <= Clamped(s.width)
Sound(s) == Ready(s) /\ Explored(s) /\ HeapsOf(s) /\ Q!EnoughOf(s)

\* The invariant is about one call at a time.
LEMMA IInvByCall == IInv <=> TypeOK /\ \A c \in Client : Sound(search[c])
BY DEF IInv, Sound, HeapsOf, HeapsHold, Enough

\* A step of one call concerns no other one.
LEMMA CallMoves ==
    ASSUME IInv, NEW c \in Client, NEW t \in CallType, Sound(t),
           search' = [search EXCEPT ![c] = t], UNCHANGED <<index, efSearch>>
    PROVE  IInv'
<1>1. TypeOK /\ \A d \in Client : Sound(search[d])
  BY IInvByCall
<1>2. TypeOK'
  BY <1>1 DEF TypeOK
<1>3. ASSUME NEW d \in Client PROVE Sound(search[d])'
  <2>1. search'[d] = IF d = c THEN t ELSE search[d]
    BY <1>1 DEF TypeOK
  <2>2. Sound(search'[d])
    BY <1>1, <2>1
  <2> QED
    BY <2>2 DEF Sound, Ready, Explored, HeapsOf, Q!EnoughOf
<1> QED
  BY <1>2, <1>3 DEF IInv, Sound, HeapsOf, HeapsHold, Enough

\* A heap of none and of one.
LEMMA SmallHeaps ==
    ASSUME NEW above
    PROVE  /\ Heap(<<>>, above) /\ Range(<<>>) = {} /\ Len(<<>>) = 0 /\ <<>> \in Seq(Node)
           /\ \A e \in Node : /\ Heap(<<e>>, above) /\ Range(<<e>>) = {e} /\ Len(<<e>>) = 1
                              /\ <<e>> \in Seq(Node) /\ <<e>> # <<>>
<1>1. Heap(<<>>, above) /\ Range(<<>>) = {} /\ Len(<<>>) = 0 /\ <<>> \in Seq(Node)
  BY DEF Heap, IsInjective, Range
<1>2. ASSUME NEW e \in Node
      PROVE  /\ Heap(<<e>>, above) /\ Range(<<e>>) = {e} /\ Len(<<e>>) = 1
             /\ <<e>> \in Seq(Node) /\ <<e>> # <<>>
  <2>1. <<e>> \in Seq(Node) /\ Len(<<e>>) = 1 /\ <<e>>[1] = e /\ <<e>> # <<>>
    OBVIOUS
  <2>2. DOMAIN <<e>> = {1}
    BY <2>1
  <2> QED
    BY <2>1, <2>2 DEF Heap, IsInjective, Range
<1> QED
  BY <1>1, <1>2

\* A call that is not in a search has none.
LEMMA WithoutHeaps ==
    ASSUME NEW s, s.cand = <<>>, s.found = <<>>, s.width \in Int, s.width >= 0
    PROVE  HeapsOf(s)
<1>1. 0 <= Clamped(s.width)
  BY SizeAssumption DEF Clamped
<1> QED
  BY <1>1, SmallHeaps DEF HeapsOf

\* A client that asks nothing has nothing to show for it.
LEMMA IdleSound == Idle \in CallType /\ Sound(Idle)
<1>1. 0 \in Node
  BY SizeAssumption DEF Node
<1>2. Idle \in CallType
  BY <1>1, BottomIsLayer DEF Idle, Call, CallType
<1>3. Idle.pc = "idle" /\ Idle.cand = <<>> /\ Idle.found = <<>> /\ Idle.width = 0
  BY DEF Idle, Call
<1>4. HeapsOf(Idle)
  BY <1>3, WithoutHeaps
<1>5. Ready(Idle) /\ Explored(Idle) /\ Q!EnoughOf(Idle)
  BY <1>3 DEF Ready, Explored, Q!EnoughOf
<1> QED
  BY <1>2, <1>4, <1>5 DEF Sound

\* Nor has one that has just asked.
LEMMA AskedSound ==
    ASSUME NEW q \in Node, NEW k \in Nat, k >= 1
    PROVE  Asked(q, k) \in CallType /\ Sound(Asked(q, k))
<1> DEFINE t == Asked(q, k)
<1>1. 0 \in Node
  BY SizeAssumption DEF Node
<1>2. t \in CallType
  BY <1>1, BottomIsLayer DEF Asked, Call, CallType
<1>3. t.pc = "asked" /\ t.k = k /\ t.cand = <<>> /\ t.found = <<>> /\ t.width = 0
  BY DEF Asked, Call
<1> HIDE DEF t
<1>4. HeapsOf(t)
  BY <1>3, WithoutHeaps
<1>5. Ready(t) /\ Explored(t) /\ Q!EnoughOf(t)
  BY <1>3 DEF Ready, Explored, Q!EnoughOf
<1> QED
  BY <1>2, <1>4, <1>5 DEF Sound, t

\* At a layer a call goes on, down or searching.
LEMMA EnteringSound ==
    ASSUME index \in Indexes, NEW q \in Node, NEW k \in Nat, k >= 1, NEW w \in Int, w >= k,
           NEW e \in Node, NEW l \in Layer
    PROVE  Entering(q, k, w, e, l) \in CallType /\ Sound(Entering(q, k, w, e, l))
<1>1. CASE l > 0
  <2> DEFINE t == Descending(q, k, w, e, l)
  <2>1. t \in CallType
    BY DEF Descending, Call, CallType
  <2>2. /\ t.pc = "descend" /\ t.k = k /\ t.width = w /\ t.lc = l
        /\ t.cand = <<>> /\ t.found = <<>>
    BY DEF Descending, Call
  <2> HIDE DEF t
  <2>3. l >= 1
    BY <1>1, QueryAssumption DEF Layer
  <2>4. HeapsOf(t)
    BY <2>2, WithoutHeaps
  <2>5. Ready(t) /\ Explored(t) /\ Q!EnoughOf(t)
    BY <2>2, <2>3 DEF Ready, Explored, Q!EnoughOf
  <2> QED
    BY <1>1, <2>1, <2>4, <2>5 DEF Entering, Sound, t
<1>2. CASE ~(l > 0)
  <2> DEFINE t == Searching(q, k, w, e)
  <2>1. t \in CallType
    BY BottomIsLayer, SmallHeaps DEF Searching, Call, CallType
  <2>2. /\ t.pc = "search" /\ t.k = k /\ t.width = w /\ t.ep = e /\ t.seen = {e}
        /\ t.cand = <<e>> /\ t.found = <<e>> /\ t.lc = 0 /\ t.answer = {}
    BY DEF Searching, Call
  <2> HIDE DEF t
  <2>3. Clamped(w) >= 1 /\ Clamped(w) \in Nat
    BY ClampedType
  <2>4. HeapsOf(t)
    <3>1. \A above : Heap(<<e>>, above) /\ Len(<<e>>) = 1
      BY SmallHeaps
    <3> QED
      BY <2>2, <2>3, <3>1 DEF HeapsOf
  <2>5. Ready(t) /\ Q!EnoughOf(t)
    BY <2>2 DEF Ready, Q!EnoughOf
  <2>6. Explored(t)
    <3>1. Range(t.cand) = {e} /\ Range(t.found) = {e} /\ t.found # <<>>
      BY <2>2, SmallHeaps
    <3>2. e \in Reach(index, e)
      BY ReachCloses
    <3> QED
      BY <2>2, <3>1, <3>2 DEF Explored
  <2> QED
    BY <1>2, <2>1, <2>4, <2>5, <2>6 DEF Entering, Sound, t
<1> QED
  BY <1>1, <1>2

\* Calls begin idle.
LEMMA InitHolds == Init => IInv
BY IdleSound, IInvByCall DEF Init, TypeOK

\* A new call.
LEMMA AskKeeps == ASSUME IInv, NEW c \in Client, Ask(c) PROVE IInv'
<1>1. PICK a \in Asks : search' = [search EXCEPT ![c] = Asked(a[1], a[2])]
  BY DEF Ask
<1>2. a[1] \in Node /\ a[2] \in Nat /\ a[2] >= 1
  BY QueryAssumption
<1> QED
  BY <1>1, <1>2, AskedSound, CallMoves DEF Ask

\* The width read is raised to k.
LEMMA ReadWidthKeeps == ASSUME IInv, NEW c \in Client, ReadWidth(c) PROVE IInv'
<1> DEFINE s == search[c]
           w == Width(efSearch, s.k)
           t == Entering(s.q, s.k, w, index.entry, index.level[index.entry])
<1>1. index \in Indexes /\ efSearch \in Int /\ s \in CallType /\ Sound(s)
  BY IInvByCall, QueryAssumption DEF TypeOK
<1>2. s.pc = "asked" /\ search' = [search EXCEPT ![c] = t]
  BY DEF ReadWidth
<1>3. s.q \in Node /\ s.k \in Nat /\ s.k >= 1
  BY <1>1, <1>2 DEF CallType, Sound, Ready
<1>4. w \in Int /\ w >= s.k
  BY <1>1, <1>3 DEF Width
<1>5. index.entry \in Node /\ index.level[index.entry] \in Layer
  BY <1>1, IndexShape
<1>6. t \in CallType /\ Sound(t)
  BY <1>1, <1>3, <1>4, <1>5, EnteringSound
<1> QED
  BY <1>2, <1>6, CallMoves DEF ReadWidth

\* What a descending call remembers.
LEMMA Descends ==
    ASSUME IInv, NEW c \in Client, search[c].pc = "descend"
    PROVE  LET s == search[c] IN
           /\ index \in Indexes /\ s \in CallType /\ s.q \in Node /\ s.k \in Nat /\ s.k >= 1
           /\ s.width \in Int /\ s.width >= s.k /\ s.ep \in Node /\ s.lc \in Layer
           /\ s.lc - 1 \in Layer /\ s.lc > 0
<1>1. index \in Indexes /\ search[c] \in CallType /\ Sound(search[c])
  BY IInvByCall DEF TypeOK
<1>2. search[c].lc \in Layer /\ search[c].lc >= 1
  BY <1>1 DEF CallType, Sound, Ready
<1>3. search[c].lc - 1 \in Layer /\ search[c].lc > 0
  BY <1>2, QueryAssumption DEF Layer
<1> QED
  BY <1>1, <1>2, <1>3 DEF CallType, Sound, Ready

\* The walk over a list ends where none of it is nearer; with NaN, somewhere on
\* it or where it was.
LEMMA WalkedIs ==
    ASSUME index \in Indexes, NEW s \in CallType
    PROVE  LET b == Walked(s)
               Y == Neighbours(index, s.ep, s.lc)
           IN  /\ b \in Y \cup {s.ep}
               /\ Defined(s.q, Node) =>
                    /\ \A y \in Y : Dist[<<s.q, b>>] <= Dist[<<s.q, y>>]
                    /\ b # s.ep => Dist[<<s.q, b>>] < Dist[<<s.q, s.ep>>]
<1> DEFINE q == s.q
           e == s.ep
           l == index.lists[e][s.lc]
           Y == Neighbours(index, e, s.lc)
           Best(b, u) == \A y \in Y \ Range(u) : Dist[<<q, b>>] <= Dist[<<q, y>>]
           Nearest1(b) == b # e => Dist[<<q, b>>] < Dist[<<q, e>>]
           I == { x \in Walk : /\ x.q = q /\ Range(x.list) \subseteq Y /\ x.best \in Y \cup {e}
                               /\ Defined(q, Node) => Best(x.best, x.list) /\ Nearest1(x.best) }
           P == { b \in Y \cup {e} : Defined(q, Node) => Best(b, <<>>) /\ Nearest1(b) }
           x0 == [q |-> q, best |-> e, list |-> l]
<1>1. q \in Node /\ e \in Node /\ s.lc \in Layer
  BY DEF CallType
<1>2. l \in Seq(Node) /\ Y = Range(l) /\ Y \subseteq Node
  BY <1>1, IndexShape
<1> HIDE DEF q, e, l, Y
<1>3. x0 \in I
  BY <1>1, <1>2 DEF Walk
<1>4. ASSUME NEW x \in I, x.list # <<>> PROVE Step(x) \in I
  <2> DEFINE n == Head(x.list)
             u == Tail(x.list)
             a == x.best
             b == IF Less(q, n, a) THEN n ELSE a
  <2>1. /\ x \in Walk /\ x.list \in Seq(Node) /\ x.q = q
        /\ a \in Y \cup {e} /\ Range(x.list) \subseteq Y
    BY DEF Walk
  <2>2. n \in Node /\ u \in Seq(Node) /\ Range(x.list) = Range(u) \cup {n}
    BY <1>4, <2>1, ListSplits
  <2>3. Step(x) = [q |-> q, best |-> b, list |-> u]
    <3>1. x = [q |-> q, best |-> a, list |-> x.list]
      BY <2>1 DEF Walk
    <3>2. Step(x) = [x EXCEPT !.best = b, !.list = u]
      BY <2>1 DEF Step, Better
    <3> HIDE DEF b, u, a
    <3> QED
      BY <3>1, <3>2
  <2>4. b \in Y \cup {e} /\ Range(u) \subseteq Y /\ a \in Node /\ b \in Node
    BY <1>1, <1>2, <2>1, <2>2
  <2>5. ASSUME Defined(q, Node) PROVE Best(b, u) /\ Nearest1(b)
    <3>1. Best(a, x.list) /\ Nearest1(a)
      BY <2>5
    <3>2. /\ \A y \in Node : Dist[<<q, y>>] \in Nat
          /\ Less(q, n, a) <=> Dist[<<q, n>>] < Dist[<<q, a>>]
      BY <1>1, <2>2, <2>4, <2>5, Compares
    <3>3. Dist[<<q, b>>] <= Dist[<<q, a>>] /\ Dist[<<q, b>>] <= Dist[<<q, n>>]
      BY <2>2, <2>4, <3>2
    <3>4. Best(b, u)
      <4> SUFFICES ASSUME NEW y \in Y \ Range(u) PROVE Dist[<<q, b>>] <= Dist[<<q, y>>]
        OBVIOUS
      <4>1. CASE y = n
        BY <3>3, <4>1
      <4>2. CASE y # n
        <5>1. Dist[<<q, a>>] <= Dist[<<q, y>>]
          BY <2>2, <3>1, <4>2
        <5>2. Dist[<<q, a>>] \in Nat /\ Dist[<<q, b>>] \in Nat /\ Dist[<<q, y>>] \in Nat
          BY <1>2, <2>4, <3>2
        <5> QED
          BY <3>3, <5>1, <5>2
      <4> QED
        BY <4>1, <4>2
    <3>5. Nearest1(b)
      <4>1. CASE b = a
        BY <3>1, <4>1
      <4>2. CASE b # a
        <5>1. b = n /\ Dist[<<q, n>>] < Dist[<<q, a>>]
          BY <3>2, <4>2
        <5>2. Dist[<<q, a>>] <= Dist[<<q, e>>]
          BY <1>1, <2>4, <3>1, <3>2
        <5>3. Dist[<<q, a>>] \in Nat /\ Dist[<<q, n>>] \in Nat /\ Dist[<<q, e>>] \in Nat
          BY <1>1, <2>2, <2>4, <3>2
        <5> QED
          BY <5>1, <5>2, <5>3
      <4> QED
        BY <4>1, <4>2
    <3> QED
      BY <3>4, <3>5
  <2> HIDE DEF n, u, b, Best, Nearest1
  <2> QED
    BY <1>1, <2>2, <2>3, <2>4, <2>5 DEF Walk
<1>5. ASSUME NEW x \in I, x.list = <<>> PROVE x.best \in P
  BY <1>5
<1>6. I \in SUBSET Walk /\ \A x \in I : IF x.list # <<>> THEN Step(x) \in I ELSE x.best \in P
  BY <1>4, <1>5
<1> HIDE DEF I, P, x0
<1>7. Walking[x0] \in P
  BY <1>3, <1>6, WalkingEnds
<1>8. Walked(s) = Walking[x0]
  BY DEF Walked, x0, q, e, l
<1>9. Y \ Range(<<>>) = Y
  BY SmallHeaps
<1> QED
  BY <1>7, <1>8, <1>9 DEF P, q, e, Y

\* A descending call moves within the nodes, and goes on.
LEMMA DescendKeeps == ASSUME IInv, NEW c \in Client, Descend(c) PROVE IInv'
<1> DEFINE s == search[c]
           b == Walked(s)
           t == IF b # s.ep THEN Descending(s.q, s.k, s.width, b, s.lc)
                ELSE Entering(s.q, s.k, s.width, s.ep, s.lc - 1)
<1>1. s.pc = "descend" /\ search' = [search EXCEPT ![c] = t] /\ UNCHANGED <<index, efSearch>>
  BY DEF Descend
<1>2. /\ index \in Indexes /\ s \in CallType /\ s.q \in Node /\ s.k \in Nat /\ s.k >= 1
      /\ s.width \in Int /\ s.width >= s.k /\ s.ep \in Node /\ s.lc \in Layer
      /\ s.lc - 1 \in Layer /\ s.lc > 0
  BY <1>1, Descends
<1>3. b \in Node
  <2>1. b \in Neighbours(index, s.ep, s.lc) \cup {s.ep}
    BY <1>2, WalkedIs
  <2> QED
    BY <1>2, <2>1, IndexShape
<1> HIDE DEF b
<1>4. Descending(s.q, s.k, s.width, b, s.lc) = Entering(s.q, s.k, s.width, b, s.lc)
  BY <1>2 DEF Entering
<1>5. t \in CallType /\ Sound(t)
  BY <1>2, <1>3, <1>4, EnteringSound
<1> HIDE DEF t
<1> QED
  BY <1>1, <1>5, CallMoves

\* What a search knows of itself.
LEMMA SearchWithin ==
    ASSUME NEW s \in CallType, s.pc = "search", Sound(s)
    PROVE  /\ Within(s) /\ s.k \in Nat /\ s.k >= 1 /\ s.width \in Int /\ s.width >= s.k
           /\ s.width >= 1 /\ s.ep \in Node
<1>1. /\ s.k \in Nat /\ s.k >= 1 /\ s.width \in Int /\ s.width >= s.k /\ s.width >= 1
      /\ s.ep \in Node
  BY DEF CallType, Sound, Ready
<1>2. Clamped(s.width) \in Nat /\ Clamped(s.width) >= 1
  BY <1>1, ClampedType
<1> QED
  BY <1>1, <1>2 DEF Sound, HeapsOf, Explored, Within

\* A call whose first candidate is taken.
Popped(s) == [s EXCEPT !.cand = Pop(@, NearOnTop[s.q])]

\* One turn of the loop.
LEMMA ExpandedIs ==
    ASSUME index \in Indexes, NEW s \in CallType, s.pc = "search", Sound(s), s.cand # <<>>
    PROVE  LET p == Popped(s)
               t == Expanded(s)
               n == s.cand[1]
           IN  /\ n \in Range(s.cand) /\ n \in Node
               /\ Within(p) /\ Same(s, p) /\ p.seen = s.seen /\ p.found = s.found
               /\ Range(p.cand) = Range(s.cand) \ {n}
               /\ Within(t) /\ Grown(p, t) /\ t.seen = s.seen \cup Neighbours(index, n, 0)
               /\ Defined(s.q, Node) => Taken(p, t)
<1> DEFINE p == Popped(s)
           t == Expanded(s)
           n == s.cand[1]
           near == NearOnTop[s.q]
           l == index.lists[n][0]
<1>1. Within(s) /\ Heap(s.cand, near) /\ s.q \in Node /\ s.cand \in Seq(Node)
  BY SearchWithin, WithinHas DEF Within
<1>2. Orders(near)
  BY <1>1, BothOrder
<1> HIDE DEF near
<1>3. Pop(s.cand, near) \in Heaps(Len(s.cand) - 1, Range(s.cand) \ {n}, near) /\ n \in Range(s.cand)
  BY <1>1, <1>2, PopTakes
<1>4. /\ Pop(s.cand, near) \in Seq(Node) /\ Heap(Pop(s.cand, near), near)
      /\ Range(Pop(s.cand, near)) = Range(s.cand) \ {n}
  BY <1>3 DEF Heaps
<1>5. p \in CallType /\ p.cand = Pop(s.cand, near) /\ Same(s, p) /\ p.seen = s.seen /\ p.found = s.found
  BY <1>4 DEF Popped, CallType, Same, near
<1> HIDE DEF p
<1>6. Within(p)
  BY <1>1, <1>4, <1>5 DEF Within, Same, near
<1>7. n \in Node
  BY <1>1, <1>3, Items
<1>8. l \in Seq(Node) /\ Range(l) = Neighbours(index, n, 0)
  BY <1>7, IndexShape, BottomIsLayer
<1>9. t = MeetAll[[call |-> p, list |-> l]]
  <2>1. [s EXCEPT !.cand = Pop(@, NearOnTop[s.q]), !.width = WidthKept(s)] = Popped(s)
    BY DEF WidthKept, Popped, CallType
  <2> QED
    BY <2>1 DEF Expanded, p
<1> HIDE DEF l, t, n
<1>10. /\ Within(t) /\ Grown(p, t) /\ t.seen = p.seen \cup Range(l)
       /\ Defined(p.q, Node) => Taken(p, t)
  BY <1>6, <1>8, <1>9, ListRead
<1>11. p.q = s.q
  BY <1>5 DEF Same
<1> QED
  BY <1>3, <1>4, <1>5, <1>6, <1>7, <1>8, <1>10, <1>11 DEF p, t, n

\* A turn of the loop on the bottom layer keeps the heaps in order, and goes on.
LEMMA ExpandKeeps == ASSUME IInv, NEW c \in Client, Expand(c) PROVE IInv'
<1> DEFINE s == search[c]
           p == Popped(s)
           t == Expanded(s)
           n == s.cand[1]
           A == Queued(p, t)
           W == Clamped(s.width)
<1>1. /\ s.pc = "search" /\ s.cand # <<>>
      /\ search' = [search EXCEPT ![c] = t] /\ UNCHANGED <<index, efSearch>>
  BY DEF Expand
<1>2. index \in Indexes /\ s \in CallType /\ Sound(s)
  BY IInvByCall DEF TypeOK
<1> HIDE DEF s
<1>3. /\ n \in Range(s.cand) /\ n \in Node
      /\ Within(p) /\ Same(s, p) /\ p.seen = s.seen /\ p.found = s.found
      /\ Range(p.cand) = Range(s.cand) \ {n}
      /\ Within(t) /\ Grown(p, t) /\ t.seen = s.seen \cup Neighbours(index, n, 0)
  BY <1>1, <1>2, ExpandedIs
<1> HIDE DEF p, t, n
<1>4. /\ Same(s, t) /\ t.pc = "search" /\ t.width = s.width /\ t.ep = s.ep /\ t.k = s.k
      /\ p.width = s.width /\ t.lc = 0 /\ t.answer = {}
  BY <1>1, <1>2, <1>3 DEF Same, Grown, Sound, Ready
<1>5. /\ Within(s) /\ s.k >= 1 /\ s.width >= s.k /\ s.ep \in Node
      /\ Len(s.found) \in Nat /\ Len(t.found) \in Nat /\ W \in Nat
  BY <1>1, <1>2, <1>3, SearchWithin, WithinHas DEF Within
<1>6. /\ s.ep \in s.seen /\ s.seen \subseteq Reach(index, s.ep) /\ Range(s.cand) \subseteq s.seen
      /\ s.seen = Range(s.found) \/ Len(s.found) = W
      /\ \A x \in Range(s.found) : x \in Range(s.cand) \/ Neighbours(index, x, 0) \subseteq s.seen
  BY <1>1, <1>2 DEF Sound, Explored
<1>7. /\ Range(t.cand) = Range(p.cand) \cup A
      /\ Range(t.found) \subseteq Range(s.found) \cup A
      /\ Len(s.found) <= Len(t.found)
      /\ Len(t.found) < W => Range(t.found) = Range(s.found) \cup A /\ t.seen = s.seen \cup A
  BY <1>3, <1>4 DEF Grown
<1>8. Len(t.found) <= W /\ t.found # <<>> /\ Range(t.cand) \subseteq t.seen /\ Range(t.found) \subseteq t.seen
  BY <1>3, <1>4 DEF Within
<1> HIDE DEF A, W
<1>9. t.ep \in t.seen /\ t.seen \subseteq Reach(index, t.ep)
  <2>1. Neighbours(index, n, 0) \subseteq Reach(index, s.ep)
    BY <1>2, <1>3, <1>5, <1>6, ReachCloses
  <2> QED
    BY <1>3, <1>4, <1>6, <2>1
<1>10. t.seen = Range(t.found) \/ Len(t.found) = W
  <2>1. CASE Len(t.found) < W
    <3>1. Len(s.found) # W
      BY <1>5, <1>7, <2>1
    <3> QED
      BY <1>6, <1>7, <2>1, <3>1
  <2>2. CASE ~(Len(t.found) < W)
    BY <1>5, <1>8, <2>2
  <2> QED
    BY <2>1, <2>2
<1>11. \A x \in Range(t.found) : x \in Range(t.cand) \/ Neighbours(index, x, 0) \subseteq t.seen
  <2>1. ASSUME NEW x \in Range(t.found)
        PROVE  x \in Range(t.cand) \/ Neighbours(index, x, 0) \subseteq t.seen
    <3>1. CASE x \in A
      BY <1>7, <3>1
    <3>2. CASE x \in Range(s.found) /\ x # n
      BY <1>3, <1>6, <1>7, <3>2
    <3>3. CASE x = n
      BY <1>3, <3>3
    <3> QED
      BY <1>7, <3>1, <3>2, <3>3
  <2> QED
    BY <2>1
<1>12. Explored(t)
  BY <1>4, <1>8, <1>9, <1>10, <1>11 DEF Explored, W
<1>13. Ready(t) /\ HeapsOf(t) /\ Q!EnoughOf(t) /\ t \in CallType
  BY <1>3, <1>4, <1>5 DEF Within, Ready, HeapsOf, Q!EnoughOf
<1> QED
  BY <1>1, <1>12, <1>13, CallMoves DEF Sound, s

\* A search ends with all that can be reached, or full.
LEMMA FoundEnough ==
    ASSUME index \in Indexes, NEW s \in CallType, s.pc = "search", Sound(s),
           s.cand # <<>> => Settled(s)
    PROVE  \/ Range(s.found) = Reach(index, s.ep)
           \/ s.width < N /\ Cardinality(Range(s.found)) >= s.width
<1> DEFINE R == Reach(index, s.ep)
           F == Range(s.found)
           W == Clamped(s.width)
<1>1. /\ Within(s) /\ s.width \in Int /\ s.width >= 1 /\ s.ep \in Node
      /\ s.seen \in SUBSET Node /\ Cardinality(F) = Len(s.found) /\ Len(s.found) <= W
      /\ Len(s.found) \in Nat /\ W \in Nat
  BY SearchWithin, WithinHas DEF Within
<1>2. /\ s.ep \in s.seen /\ s.seen \subseteq R /\ F \subseteq s.seen
      /\ s.seen = F \/ Len(s.found) = W
      /\ \A x \in F : x \in Range(s.cand) \/ Neighbours(index, x, 0) \subseteq s.seen
  BY DEF Sound, Explored
<1>3. R \subseteq Node
  BY <1>1, ReachCloses
<1>4. CASE Len(s.found) = W
  <2>1. CASE s.width < N
    BY <1>1, <1>4, <2>1, ClampedType
  <2>2. CASE s.width >= N
    <3>1. Cardinality(F) = N /\ F \subseteq Node
      BY <1>1, <1>2, <1>4, <2>2, ClampedType
    <3>2. IsFiniteSet(Node) /\ Cardinality(Node) \in Nat /\ Cardinality(Node) <= N
      BY NodesFinite
    <3>3. Cardinality(F) <= Cardinality(Node) /\ (Cardinality(Node) = Cardinality(F) => Node = F)
      BY <3>1, <3>2, FS_Subset
    <3>4. F = Node
      BY <3>1, <3>2, <3>3, SizeAssumption
    <3> QED
      BY <1>2, <1>3, <3>4
  <2> QED
    BY <1>1, <2>1, <2>2, SizeAssumption
<1>5. CASE Len(s.found) # W
  <2>1. s.cand = <<>>
    <3>1. ~(Len(s.found) >= W)
      BY <1>1, <1>5
    <3> QED
      BY <3>1 DEF Settled, HasWorst
  <2>2. Range(s.cand) = {}
    BY <2>1, SmallHeaps
  <2>3. R \subseteq F
    BY <1>1, <1>2, <1>5, <2>2, ReachLeast
  <2> QED
    BY <1>2, <2>3
<1> QED
  BY <1>4, <1>5

\* What Query says of reach and of sizes, it says of the same.
LEMMA SameReach ==
    /\ \A e : Q!Reach(index, e) = Reach(index, e)
    /\ \A S : Q!Cardinality(S) = Cardinality(S)
<1>1. \A S : Q!Cardinality(S) = Cardinality(S)
  BY DEF Q!Cardinality, Q!IsFiniteSet, Cardinality, IsFiniteSet
<1>2. ASSUME NEW e PROVE Q!Reach(index, e) = Reach(index, e)
  BY DEF Q!Reach, Reach, Q!Reaches, Reaches, Q!Neighbours, Neighbours, Q!Node, Node
<1> QED
  BY <1>1, <1>2

\* The answer is as large as it should be.
LEMMA AnswerKeeps == ASSUME IInv, NEW c \in Client, Answer(c) PROVE IInv'
<1> DEFINE s == search[c]
           F == Range(s.found)
           R == Reach(index, s.ep)
<1>1. PICK A \in Cuts(s) : search' = [search EXCEPT ![c] = Answered(s, A)]
  BY DEF Answer
<1>2. s.pc = "search" /\ (s.cand # <<>> => Settled(s)) /\ UNCHANGED <<index, efSearch>>
  BY DEF Answer
<1> DEFINE t == Answered(s, A)
<1>3. index \in Indexes /\ s \in CallType /\ Sound(s)
  BY IInvByCall DEF TypeOK
<1>4. /\ Within(s) /\ s.k \in Nat /\ s.k >= 1 /\ s.width \in Int /\ s.width >= s.k
      /\ s.ep \in Node /\ F \subseteq Node /\ s.q \in Node /\ s.width >= 0
  BY <1>2, <1>3, SearchWithin, WithinHas
<1>5. A \subseteq F /\ Cardinality(A) <= s.k /\ (Cardinality(A) >= s.k \/ A = F)
  BY DEF Cuts, Full
<1>6. F \subseteq R /\ R \subseteq Node
  BY <1>2, <1>3, <1>4, ReachCloses DEF Sound, Explored
<1>7. /\ t.pc = "done" /\ t.q = s.q /\ t.k = s.k /\ t.width = s.width /\ t.ep = s.ep
      /\ t.answer = A /\ t.cand = <<>> /\ t.found = <<>>
  BY DEF Answered, Call
<1>8. t \in CallType
  BY <1>4, <1>5, BottomIsLayer, SmallHeaps DEF Answered, Call, CallType
<1> HIDE DEF s, F, R, t
<1>9. /\ Cardinality(A) \in Nat /\ Cardinality(F) \in Nat /\ Cardinality(R) \in Nat
      /\ Cardinality(A) <= Cardinality(R) /\ Cardinality(F) <= Cardinality(R)
  <2>1. A \in SUBSET Node /\ A \in SUBSET R /\ F \in SUBSET R /\ R \in SUBSET Node
    BY <1>4, <1>5, <1>6
  <2>2. IsFiniteSet(R)
    BY <2>1, NodesFinite
  <2> QED
    BY <1>4, <2>1, <2>2, NodesFinite, FS_Subset
<1>10. F = R \/ Cardinality(F) >= s.width
  BY <1>2, <1>3, FoundEnough DEF F, R
<1>11. /\ A \subseteq R
       /\ IF Cardinality(R) >= s.k THEN Cardinality(A) = s.k ELSE A = R
  <2>1. CASE Cardinality(A) >= s.k
    BY <1>4, <1>5, <1>6, <1>9, <2>1
  <2>2. CASE A = F
    BY <1>4, <1>5, <1>6, <1>9, <1>10, <2>2
  <2> QED
    BY <1>5, <2>1, <2>2
<1>12. Q!EnoughOf(t)
  BY <1>7, <1>11, SameReach DEF Q!EnoughOf, R
<1>13. HeapsOf(t)
  BY <1>4, <1>7, WithoutHeaps
<1>14. Ready(t) /\ Explored(t)
  BY <1>4, <1>7 DEF Ready, Explored
<1> QED
  BY <1>1, <1>2, <1>8, <1>12, <1>13, <1>14, CallMoves DEF Sound, s, t

\* A new width, or nothing at all, changes nothing for the calls there are.
LEMMA OthersKeep == IInv /\ (SetEfSearch \/ UNCHANGED vars) => IInv'
<1> SUFFICES ASSUME IInv, SetEfSearch \/ UNCHANGED vars PROVE IInv'
  OBVIOUS
<1>1. index' = index /\ search' = search
  BY DEF SetEfSearch, vars
<1>2. TypeOK'
  BY DEF IInv, TypeOK, SetEfSearch, vars
<1>3. ASSUME NEW c \in Client PROVE Sound(search[c])'
  BY <1>1, IInvByCall DEF Sound, Ready, Explored, HeapsOf, Q!EnoughOf
<1> QED
  BY <1>2, <1>3 DEF IInv, Sound, HeapsOf, HeapsHold, Enough

-----------------------------------------------------------------------------
(* The results that hold with NaN. *)

\* The heaps stay in order and within bounds, and what a search has seen is as
\* Explored says, in every reachable state of Search, for any distances and any
\* set of those that are NaN.
THEOREM Invariance == Spec => []IInv
<1>1. IInv /\ [Next]_vars => IInv'
  <2> SUFFICES ASSUME IInv, [Next]_vars PROVE IInv'
    OBVIOUS
  <2>1. ASSUME NEW c \in Client, Ask(c) \/ Searches(c) PROVE IInv'
    BY <2>1, AskKeeps, ReadWidthKeeps, DescendKeeps, ExpandKeeps, AnswerKeeps DEF Searches
  <2> QED
    BY <2>1, OthersKeep DEF Next
<1> QED
  BY InitHolds, <1>1, PTL DEF Spec

\* No item of the candidates or of the collector is ever above one that belongs
\* above it, none is twice in either, and the collector is never too full.
THEOREM HeapsStayOrdered == Spec => []HeapsHold
<1>1. IInv => HeapsHold
  BY DEF IInv
<1> QED
  BY Invariance, <1>1, PTL

\* Search returns k nodes, or all that can be reached if those are fewer, also
\* when it meets NaN.
THEOREM AnswersEnough == Spec => []Enough
<1>1. IInv => Enough
  BY DEF IInv
<1> QED
  BY Invariance, <1>1, PTL

-----------------------------------------------------------------------------
(* With heaps a search does what Query does with sets. *)

\* Query and this module mean the same by the words they share.
LEMMA SameWords ==
    /\ \A w : Q!Clamped(w) = Clamped(w)
    /\ \A x, n, l : Q!Neighbours(x, n, l) = Neighbours(x, n, l)
    /\ \A S, k : Q!Full(S, k) <=> Full(S, k)
    /\ \A q, S, x : Q!Beyond(q, S, x) <=> Beyond(q, S, x)
    /\ \A q, S, x : Q!NoBetter(q, S, x) <=> NoBetter(q, S, x)
    /\ \A q, n, S : Q!IsNearest(q, n, S) <=> IsNearest(q, n, S)
    /\ \A q, S, k, R : Q!Firsts(q, S, k, R) <=> Firsts(q, S, k, R)
<1>1. \A S : Q!Cardinality(S) = Cardinality(S)
  BY SameReach
<1>2. \A w : Q!Clamped(w) = Clamped(w)
  BY DEF Q!Clamped, Clamped
<1>3. \A x, n, l : Q!Neighbours(x, n, l) = Neighbours(x, n, l)
  BY DEF Q!Neighbours, Neighbours
<1>4. \A S, k : Q!Full(S, k) <=> Full(S, k)
  BY <1>1 DEF Q!Full, Full
<1>5. \A q, S, x : Q!Beyond(q, S, x) <=> Beyond(q, S, x)
  BY DEF Q!Beyond, Beyond
<1>6. \A q, S, x : Q!NoBetter(q, S, x) <=> NoBetter(q, S, x)
  BY DEF Q!NoBetter, NoBetter
<1>7. \A q, n, S : Q!IsNearest(q, n, S) <=> IsNearest(q, n, S)
  BY DEF Q!IsNearest, IsNearest, Q!Before, Before
<1>8. ASSUME NEW q, NEW S, NEW k, NEW R PROVE Q!Firsts(q, S, k, R) <=> Firsts(q, S, k, R)
  BY <1>1 DEF Q!Firsts, Firsts, Q!Selected, Selected, Q!Closest, Closest, Q!Full, Full,
              Q!Before, Before
<1> QED
  BY <1>2, <1>3, <1>4, <1>5, <1>6, <1>7, <1>8

\* What Query sees of the calls.
View == [c \in Client |-> viewed(search[c])]

\* A step of one call, seen from there.
LEMMA ViewMoves ==
    ASSUME IInv, NEW c \in Client, NEW t, search' = [search EXCEPT ![c] = t]
    PROVE  /\ View[c] = viewed(search[c]) /\ View' = [View EXCEPT ![c] = viewed(t)]
           /\ viewed(t) = viewed(search[c]) => View' = View
<1>1. search \in [Client -> CallType]
  BY DEF IInv, TypeOK
<1>2. ASSUME NEW d \in Client PROVE View'[d] = IF d = c THEN viewed(t) ELSE View[d]
  <2>1. search'[d] = IF d = c THEN t ELSE search[d]
    BY <1>1
  <2>2. View'[d] = viewed(search'[d])
    BY DEF View
  <2> QED
    BY <2>1, <2>2 DEF View
<1>3. View \in [Client -> { View[d] : d \in Client }] /\ DOMAIN View = Client /\ DOMAIN View' = Client
  BY DEF View
<1> QED
  BY <1>2, <1>3 DEF View

\* A call that meets no NaN is seen with its heaps as sets; another one as idle.
LEMMA ViewOf ==
    ASSUME NEW s \in CallType
    PROVE  /\ Defined(s.q, Node) =>
                viewed(s) = Q!Call(s.pc, s.q, s.k, s.width, s.ep, s.lc, s.seen,
                                   Range(s.cand), Range(s.found), s.answer)
           /\ ~Defined(s.q, Node) => viewed(s) = Q!Idle
           /\ s.pc = "idle" /\ Ready(s) => viewed(s) = Q!Idle
<1>1. Range(<<>>) = {}
  BY SmallHeaps
<1>2. ASSUME NEW r \in CallType
      PROVE  \A C, F : [r EXCEPT !.cand = C, !.found = F]
                = Q!Call(r.pc, r.q, r.k, r.width, r.ep, r.lc, r.seen, C, F, r.answer)
  <2> SUFFICES ASSUME NEW C, NEW F
               PROVE  [r EXCEPT !.cand = C, !.found = F]
                = Q!Call(r.pc, r.q, r.k, r.width, r.ep, r.lc, r.seen, C, F, r.answer)
    OBVIOUS
  <2> DEFINE Rec(x, y) == Q!Call(r.pc, r.q, r.k, r.width, r.ep, r.lc, r.seen, x, y, r.answer)
  <2>1. r = Rec(r.cand, r.found)
    BY DEF CallType, Q!Call
  <2>2. \A x, y : [Rec(x, y) EXCEPT !.cand = C] = Rec(C, y)
    BY DEF Q!Call
  <2>3. \A x, y : [Rec(x, y) EXCEPT !.found = F] = Rec(x, F)
    BY DEF Q!Call
  <2> HIDE DEF Rec
  <2>4. [r EXCEPT !.cand = C] = Rec(C, r.found)
    BY <2>1, <2>2
  <2>5. [[r EXCEPT !.cand = C] EXCEPT !.found = F] = Rec(C, F)
    BY <2>3, <2>4
  <2> QED
    BY <2>5 DEF Rec
<1>3. /\ Idle \in CallType /\ Idle.cand = <<>> /\ Idle.found = <<>>
      /\ Q!Call(Idle.pc, Idle.q, Idle.k, Idle.width, Idle.ep, Idle.lc, Idle.seen, {}, {}, Idle.answer)
            = Q!Idle
  BY IdleSound DEF Idle, Call, Q!Idle, Q!Call
<1>4. [Idle EXCEPT !.cand = {}, !.found = {}] = Q!Idle
  BY <1>2, <1>3
<1>5. ASSUME NEW r \in CallType, Defined(r.q, Node)
      PROVE  viewed(r) = Q!Call(r.pc, r.q, r.k, r.width, r.ep, r.lc, r.seen,
                                Range(r.cand), Range(r.found), r.answer)
  <2>1. viewed(r) = [r EXCEPT !.cand = Range(r.cand), !.found = Range(r.found)]
    BY <1>5 DEF viewed
  <2> QED
    BY <1>2, <2>1
<1>6. ASSUME NEW r \in CallType, ~Defined(r.q, Node) PROVE viewed(r) = Q!Idle
  BY <1>4, <1>6 DEF viewed
<1>7. viewed(Idle) = Q!Idle
  BY <1>1, <1>3, <1>5, <1>6
<1>8. s.pc = "idle" /\ Ready(s) => s = Idle
  BY DEF Ready
<1> QED
  BY <1>5, <1>6, <1>7, <1>8

\* A step that Query may take, or one that it does not see.
Seen == Q!Next \/ UNCHANGED Q!vars

\* It does not see what becomes of a call that meets NaN.
LEMMA Unseen ==
    ASSUME IInv, NEW c \in Client, NEW t \in CallType, search' = [search EXCEPT ![c] = t],
           viewed(t) = viewed(search[c]), UNCHANGED <<index, efSearch>>
    PROVE  Seen
<1>1. View' = View
  BY ViewMoves
<1> QED
  BY <1>1 DEF Seen, View, Q!vars

\* A new call is one to Query; if it is about to meet NaN the last one is left
\* for something else.
LEMMA AskSeen == ASSUME IInv, NEW c \in Client, Ask(c) PROVE Seen
<1> DEFINE s == search[c]
<1>1. PICK a \in Asks : search' = [search EXCEPT ![c] = Asked(a[1], a[2])]
  BY DEF Ask
<1>2. s.pc \in {"idle", "done"} /\ UNCHANGED <<index, efSearch>>
  BY DEF Ask
<1>3. a[1] \in Node /\ a[2] \in Nat /\ a[2] >= 1
  BY QueryAssumption
<1> DEFINE t == Asked(a[1], a[2])
<1>4. s \in CallType /\ Ready(s) /\ t \in CallType
  BY <1>3, AskedSound DEF IInv, TypeOK
<1>5. t.q = a[1]
  BY DEF Asked, Call
<1>6. View[c] = viewed(s) /\ View' = [View EXCEPT ![c] = viewed(t)]
  BY <1>1, ViewMoves
<1>7. viewed(s) = Q!Idle \/ viewed(s).pc = "done"
  <2>1. CASE s.pc = "idle" \/ ~Defined(s.q, Node)
    BY <1>4, <2>1, ViewOf
  <2>2. CASE s.pc = "done" /\ Defined(s.q, Node)
    BY <1>4, <2>2, ViewOf DEF Q!Call
  <2> QED
    BY <1>2, <2>1, <2>2
<1>8. Q!Idle.pc = "idle"
  BY DEF Q!Idle, Q!Call
<1>9. CASE Defined(a[1], Node)
  <2>1. viewed(t) = Q!Asked(a[1], a[2])
    <3>1. viewed(t) = Q!Call(t.pc, t.q, t.k, t.width, t.ep, t.lc, t.seen,
                             Range(t.cand), Range(t.found), t.answer)
      BY <1>4, <1>5, <1>9, ViewOf
    <3> QED
      BY <3>1, SmallHeaps DEF Asked, Call, Q!Asked
  <2>2. View[c].pc \in {"idle", "done"} /\ View' = [View EXCEPT ![c] = Q!Asked(a[1], a[2])]
    BY <1>6, <1>7, <1>8, <2>1
  <2>3. Q!Ask(c)
    BY <1>2, <2>2 DEF Q!Ask, View
  <2> QED
    BY <2>3 DEF Seen, Q!Next
<1>10. CASE ~Defined(a[1], Node)
  <2>1. viewed(t) = Q!Idle
    BY <1>4, <1>5, <1>10, ViewOf
  <2>2. CASE viewed(s) = Q!Idle
    BY <1>1, <1>2, <1>4, <2>1, <2>2, Unseen
  <2>3. CASE viewed(s).pc = "done"
    <3>1. View[c].pc = "done" /\ View' = [View EXCEPT ![c] = Q!Idle]
      BY <1>6, <2>1, <2>3
    <3>2. Q!Turn(c)
      BY <1>2, <3>1 DEF Q!Turn, View
    <3> QED
      BY <3>2 DEF Seen, Q!Next
  <2> QED
    BY <1>7, <2>2, <2>3
<1> QED
  BY <1>9, <1>10

\* At a layer, a call that meets no NaN is seen to go on as Query's does.
LEMMA EnteringView ==
    ASSUME index \in Indexes, NEW q \in Node, NEW k \in Nat, k >= 1, NEW w \in Int, w >= k,
           NEW e \in Node, NEW l \in Layer, Defined(q, Node)
    PROVE  viewed(Entering(q, k, w, e, l)) = Q!Entering(q, k, w, e, l)
<1> DEFINE t == Entering(q, k, w, e, l)
<1> SUFFICES viewed(t) = Q!Entering(q, k, w, e, l)
  OBVIOUS
<1>1. t \in CallType
  BY EnteringSound
<1>2. t = IF l > 0 THEN Call("descend", q, k, w, e, l, {}, <<>>, <<>>, {})
                   ELSE Call("search", q, k, w, e, 0, {e}, <<e>>, <<e>>, {})
  BY DEF Entering, Descending, Searching
<1>3. Range(<<>>) = {} /\ Range(<<e>>) = {e}
  BY SmallHeaps
<1>4. Q!Entering(q, k, w, e, l)
        = IF l > 0 THEN Q!Call("descend", q, k, w, e, l, {}, {}, {}, {})
                   ELSE Q!Call("search", q, k, w, e, 0, {e}, {e}, {e}, {})
  BY DEF Q!Entering, Q!Descending, Q!Searching
<1>5. t.q = q
  BY <1>2 DEF Call
<1> HIDE DEF t
<1>6. viewed(t) = Q!Call(t.pc, t.q, t.k, t.width, t.ep, t.lc, t.seen,
                         Range(t.cand), Range(t.found), t.answer)
  BY <1>1, <1>5, ViewOf
<1>7. CASE l > 0
  <2>1. /\ t.pc = "descend" /\ t.k = k /\ t.width = w /\ t.ep = e /\ t.lc = l /\ t.seen = {}
        /\ t.cand = <<>> /\ t.found = <<>> /\ t.answer = {}
    BY <1>2, <1>7 DEF Call
  <2> QED
    BY <1>3, <1>4, <1>5, <1>6, <1>7, <2>1
<1>8. CASE ~(l > 0)
  <2>1. /\ t.pc = "search" /\ t.k = k /\ t.width = w /\ t.ep = e /\ t.lc = 0 /\ t.seen = {e}
        /\ t.cand = <<e>> /\ t.found = <<e>> /\ t.answer = {}
    BY <1>2, <1>8 DEF Call
  <2> QED
    BY <1>3, <1>4, <1>5, <1>6, <1>8, <2>1
<1> QED
  BY <1>7, <1>8

\* It reads the same width.
LEMMA ReadWidthSeen == ASSUME IInv, NEW c \in Client, ReadWidth(c) PROVE Seen
<1> DEFINE s == search[c]
           w == Width(efSearch, s.k)
           t == Entering(s.q, s.k, w, index.entry, index.level[index.entry])
<1>1. index \in Indexes /\ efSearch \in Int /\ s \in CallType /\ Ready(s)
  BY QueryAssumption DEF IInv, TypeOK
<1>2. s.pc = "asked" /\ search' = [search EXCEPT ![c] = t] /\ UNCHANGED <<index, efSearch>>
  BY DEF ReadWidth
<1>3. s.q \in Node /\ s.k \in Nat /\ s.k >= 1
  BY <1>1, <1>2 DEF CallType, Ready
<1>4. w \in Int /\ w >= s.k
  BY <1>1, <1>3 DEF Width
<1>5. index.entry \in Node /\ index.level[index.entry] \in Layer
  BY <1>1, IndexShape
<1>6. t \in CallType
  BY <1>1, <1>3, <1>4, <1>5, EnteringSound
<1>7. t.q = s.q
  BY DEF Entering, Descending, Searching, Call
<1>8. CASE ~Defined(s.q, Node)
  BY <1>1, <1>2, <1>6, <1>7, <1>8, ViewOf, Unseen
<1>9. CASE Defined(s.q, Node)
  <2>1. viewed(t) = Q!Entering(s.q, s.k, w, index.entry, index.level[index.entry])
    BY <1>1, <1>3, <1>4, <1>5, <1>9, EnteringView
  <2>2. View[c] = viewed(s) /\ View' = [View EXCEPT ![c] = viewed(t)]
    BY <1>2, ViewMoves
  <2>3. View[c].pc = "asked" /\ View[c].q = s.q /\ View[c].k = s.k
    BY <1>1, <1>2, <1>9, <2>2, ViewOf DEF Q!Call
  <2>4. w = Q!Width(efSearch, s.k)
    BY DEF Width, Q!Width
  <2> HIDE DEF t, w
  <2>5. Q!ReadWidth(c)
    BY <1>2, <2>1, <2>2, <2>3, <2>4 DEF Q!ReadWidth, View
  <2> QED
    BY <2>5 DEF Seen, Q!Next, Q!Searches
<1> QED
  BY <1>8, <1>9

\* It moves to a neighbour no other one is nearer than, or down if none is.
LEMMA DescendSeen == ASSUME IInv, NEW c \in Client, Descend(c) PROVE Seen
<1> DEFINE s == search[c]
           v == View[c]
           b == Walked(s)
           Y == Neighbours(index, s.ep, s.lc)
           D(y) == Dist[<<s.q, y>>]
           t == IF b # s.ep THEN Descending(s.q, s.k, s.width, b, s.lc)
                ELSE Entering(s.q, s.k, s.width, s.ep, s.lc - 1)
<1>1. s.pc = "descend" /\ search' = [search EXCEPT ![c] = t] /\ UNCHANGED <<index, efSearch>>
  BY DEF Descend
<1>2. /\ index \in Indexes /\ s \in CallType /\ s.q \in Node /\ s.k \in Nat /\ s.k >= 1
      /\ s.width \in Int /\ s.width >= s.k /\ s.ep \in Node /\ s.lc \in Layer
      /\ s.lc - 1 \in Layer /\ s.lc > 0
  BY <1>1, Descends
<1>3. /\ b \in Y \cup {s.ep} /\ Y \subseteq Node
      /\ Defined(s.q, Node) =>
            (\A y \in Y : D(b) <= D(y)) /\ (b # s.ep => D(b) < D(s.ep))
  BY <1>2, WalkedIs, IndexShape
<1>4. Descending(s.q, s.k, s.width, b, s.lc) = Entering(s.q, s.k, s.width, b, s.lc)
  BY <1>2 DEF Entering
<1>5. b \in Node
  BY <1>2, <1>3
<1>6. t \in CallType /\ t.q = s.q
  <2>1. t \in CallType
    BY <1>2, <1>4, <1>5, EnteringSound
  <2>2. t.q = s.q
    BY DEF Entering, Descending, Searching, Call
  <2> QED
    BY <2>1, <2>2
<1> HIDE DEF b, Y, s, v
<1>7. View[c] = viewed(s) /\ View' = [View EXCEPT ![c] = viewed(t)]
  BY <1>1, ViewMoves DEF s
<1>8. CASE ~Defined(s.q, Node)
  <2>1. viewed(t) = viewed(s)
    BY <1>2, <1>6, <1>8, ViewOf
  <2> QED
    BY <1>1, <1>6, <2>1, Unseen DEF s
<1>9. CASE Defined(s.q, Node)
  <2>1. /\ v.pc = "descend" /\ v.q = s.q /\ v.k = s.k /\ v.width = s.width /\ v.ep = s.ep
        /\ v.lc = s.lc
    BY <1>1, <1>2, <1>7, <1>9, ViewOf DEF Q!Call, v
  <2>2. Q!Nearer(v) = { y \in Y : D(y) < D(s.ep) }
    BY <2>1, SameWords DEF Q!Nearer, Y
  <2>3. \A y \in Node : D(y) \in Nat
    BY <1>2, DistAssumption
  <2> HIDE DEF D
  <2>4. CASE b # s.ep
    <3>1. b \in Q!Nearer(v) /\ \A y \in Q!Nearer(v) : D(b) <= D(y)
      BY <1>3, <1>9, <2>2, <2>4
    <3>2. viewed(t) = Q!Descending(s.q, s.k, s.width, b, s.lc)
      BY <1>2, <1>4, <1>5, <1>9, <2>4, EnteringView DEF Q!Entering
    <3>3. View' = [View EXCEPT ![c] = Q!Descending(v.q, v.k, v.width, b, v.lc)]
      BY <1>7, <2>1, <3>2
    <3>4. \A y \in Q!Nearer(v) : Dist[<<v.q, b>>] <= Dist[<<v.q, y>>]
      BY <2>1, <3>1 DEF D
    <3>5. Q!DescendMove(c)
      BY <1>1, <2>1, <3>1, <3>3, <3>4 DEF Q!DescendMove, View, v
    <3> QED
      BY <3>5 DEF Seen, Q!Next, Q!Searches
  <2>5. CASE b = s.ep
    <3>1. Q!Nearer(v) = {}
      <4>1. ASSUME NEW y \in Y, D(y) < D(s.ep) PROVE FALSE
        <5>1. D(s.ep) <= D(y)
          BY <1>3, <1>9, <2>5, <4>1
        <5>2. D(s.ep) \in Nat /\ D(y) \in Nat
          BY <1>2, <1>3, <2>3, <4>1
        <5> QED
          BY <4>1, <5>1, <5>2
      <4> QED
        BY <2>2, <4>1
    <3>2. viewed(t) = Q!Entering(s.q, s.k, s.width, s.ep, s.lc - 1)
      BY <1>2, <1>9, <2>5, EnteringView
    <3>3. View' = [View EXCEPT ![c] = Q!Entering(v.q, v.k, v.width, v.ep, v.lc - 1)]
      BY <1>7, <2>1, <3>2
    <3>4. Q!DescendDrop(c)
      BY <1>1, <2>1, <3>1, <3>3 DEF Q!DescendDrop, View, v
    <3> QED
      BY <3>4 DEF Seen, Q!Next, Q!Searches
  <2> QED
    BY <2>4, <2>5
<1> QED
  BY <1>8, <1>9

\* Without NaN the loop ends when all that is queued is further than all results.
LEMMA SettledSeen ==
    ASSUME NEW s, Within(s), s.cand # <<>>, Defined(s.q, Node)
    PROVE  /\ Settled(s) <=> /\ Full(Range(s.found), Clamped(s.width))
                             /\ Beyond(s.q, Range(s.found), s.cand[1])
           /\ Settled(s) => \A n \in Range(s.cand) : Beyond(s.q, Range(s.found), n)
<1> DEFINE q == s.q
           x == s.cand[1]
           w == s.found[1]
           C == Range(s.cand)
           F == Range(s.found)
           D(y) == Dist[<<q, y>>]
<1>1. /\ q \in Node /\ C \subseteq Node /\ F \subseteq Node /\ w \in F
      /\ Cardinality(F) = Len(s.found)
  BY WithinHas
<1>2. x \in C /\ (\A c \in C \ {x} : Before(q, x, c)) /\ \A r \in F \ {w} : Before(q, r, w)
  BY Tops
<1>3. /\ \A a \in Node : D(a) \in Nat
      /\ \A a, b \in Node : /\ Less(q, a, b) <=> D(a) < D(b)
                            /\ Before(q, a, b) => D(a) <= D(b)
  BY <1>1, Compares
<1>4. x \in Node /\ w \in Node
  BY <1>1, <1>2
<1>5. Settled(s) <=> Full(F, Clamped(s.width)) /\ D(w) < D(x)
  BY <1>1, <1>3, <1>4 DEF Settled, HasWorst, Full
<1> HIDE DEF C, F, D
<1>6. ASSUME D(w) < D(x), NEW n \in C, NEW r \in F PROVE D(r) < D(n)
  <2>1. D(x) <= D(n)
    BY <1>1, <1>2, <1>3, <1>4
  <2>2. D(r) <= D(w)
    BY <1>1, <1>2, <1>3, <1>4
  <2>3. D(x) \in Nat /\ D(w) \in Nat /\ D(r) \in Nat /\ D(n) \in Nat
    BY <1>1, <1>3, <1>4
  <2> QED
    BY <1>6, <2>1, <2>2, <2>3
<1>7. \A n \in C : D(w) < D(x) => Beyond(q, F, n)
  BY <1>6 DEF Beyond, D
<1>8. Beyond(q, F, x) => D(w) < D(x)
  BY <1>1 DEF Beyond, D
<1> QED
  BY <1>2, <1>5, <1>7, <1>8 DEF C, F

\* A turn of the loop is one.
LEMMA ExpandSeen == ASSUME IInv, NEW c \in Client, Expand(c) PROVE Seen
<1> DEFINE s == search[c]
           v == View[c]
           p == Popped(s)
           t == Expanded(s)
           n == s.cand[1]
           A == Queued(p, t)
           R == Range(t.found)
           F == Range(s.found)
           new == Neighbours(index, n, 0) \ s.seen
<1>1. /\ s.pc = "search" /\ s.cand # <<>> /\ ~Settled(s)
      /\ search' = [search EXCEPT ![c] = t] /\ UNCHANGED <<index, efSearch>>
  BY DEF Expand
<1>2. index \in Indexes /\ s \in CallType /\ Sound(s)
  BY IInvByCall DEF IInv, TypeOK
<1>3. View[c] = viewed(s) /\ View' = [View EXCEPT ![c] = viewed(t)]
  BY <1>1, ViewMoves
<1> HIDE DEF s, v
<1>4. /\ n \in Range(s.cand) /\ n \in Node
      /\ Within(p) /\ Same(s, p) /\ p.seen = s.seen /\ p.found = s.found
      /\ Range(p.cand) = Range(s.cand) \ {n}
      /\ Within(t) /\ Grown(p, t) /\ t.seen = s.seen \cup Neighbours(index, n, 0)
      /\ Defined(s.q, Node) => Taken(p, t)
  BY <1>1, <1>2, ExpandedIs
<1>5. Within(s) /\ s.q \in Node /\ Range(s.cand) \subseteq s.seen
  BY <1>1, <1>2, SearchWithin, WithinHas DEF Within
<1> HIDE DEF p, t, n
<1>6. /\ t.pc = "search" /\ t.q = s.q /\ t.k = s.k /\ t.width = s.width /\ t.ep = s.ep
      /\ t.lc = 0 /\ t.answer = {} /\ t \in CallType /\ p.width = s.width /\ p.q = s.q
  BY <1>1, <1>2, <1>4 DEF Same, Grown, Sound, Ready, Within
<1>7. Range(t.cand) = (Range(s.cand) \ {n}) \cup A /\ R \subseteq F \cup A
  BY <1>4 DEF Grown
<1>8. t.seen = s.seen \cup new /\ A \subseteq new /\ t.seen \ s.seen = new
  <2>1. Range(t.cand) \subseteq t.seen
    BY <1>4 DEF Within
  <2> QED
    BY <1>4, <2>1 DEF Queued
<1>9. CASE ~Defined(s.q, Node)
  <2>1. viewed(t) = viewed(s)
    BY <1>2, <1>6, <1>9, ViewOf
  <2> QED
    BY <1>1, <1>6, <2>1, Unseen DEF s
<1>10. CASE Defined(s.q, Node)
  <2>1. /\ v.pc = "search" /\ v.q = s.q /\ v.k = s.k /\ v.width = s.width /\ v.ep = s.ep
        /\ v.seen = s.seen /\ v.cand = Range(s.cand) /\ v.found = F
    BY <1>1, <1>2, <1>3, <1>10, ViewOf DEF Q!Call, v
  <2>2. viewed(t) = Q!Call("search", s.q, s.k, s.width, s.ep, 0, s.seen \cup new,
                           (Range(s.cand) \ {n}) \cup A, R, {})
    BY <1>6, <1>7, <1>8, <1>10, ViewOf
  <2>3. /\ Firsts(s.q, F \cup A, Clamped(s.width), R)
        /\ \A y \in A : ~(Full(F, Clamped(s.width)) /\ NoBetter(s.q, F, y))
        /\ \A y \in new \ A : Full(R, Clamped(s.width)) /\ NoBetter(s.q, R, y)
    BY <1>4, <1>6, <1>8, <1>10 DEF Taken
  <2>4. n \in v.cand /\ IsNearest(s.q, n, Range(s.cand))
    BY <1>1, <1>4, <1>5, <1>10, <2>1, Tops DEF IsNearest, n
  <2>5. ~(Full(F, Clamped(s.width)) /\ Beyond(s.q, F, n))
    BY <1>1, <1>5, <1>10, SettledSeen DEF n
  <2> HIDE DEF A, R, F
  <2>6. Q!IsNearest(v.q, n, v.cand) /\ ~Q!Settled(v, n)
    BY <2>1, <2>4, <2>5, SameWords DEF Q!Settled
  <2>7. Q!Neighbours(index, n, 0) \ v.seen = new
    BY <2>1, SameWords
  <2> HIDE DEF new
  <2>8. Q!Takes(v, new, A, R)
    BY <2>1, <2>3, SameWords DEF Q!Takes
  <2>9. View' = [View EXCEPT ![c] = Q!Call("search", v.q, v.k, v.width, v.ep, 0,
                    v.seen \cup new, (v.cand \ {n}) \cup A, R, {})]
    BY <1>3, <2>1, <2>2
  <2>10. A \in SUBSET new /\ R \in SUBSET (v.found \cup A)
    BY <1>7, <1>8, <2>1
  <2>11. Q!Expand(c)
    BY <1>1, <2>1, <2>4, <2>6, <2>7, <2>8, <2>9, <2>10 DEF Q!Expand, View, v
  <2> QED
    BY <2>11 DEF Seen, Q!Next, Q!Searches
<1> QED
  BY <1>9, <1>10

\* The answer is one that Query allows.
LEMMA AnswerSeen == ASSUME IInv, NEW c \in Client, Answer(c) PROVE Seen
<1> DEFINE s == search[c]
           v == View[c]
           F == Range(s.found)
<1>1. PICK A \in Cuts(s) : search' = [search EXCEPT ![c] = Answered(s, A)]
  BY DEF Answer
<1> DEFINE t == Answered(s, A)
<1>2. /\ s.pc = "search" /\ (s.cand # <<>> => Settled(s))
      /\ UNCHANGED <<index, efSearch>>
  BY DEF Answer
<1>3. s \in CallType /\ Sound(s)
  BY IInvByCall DEF IInv, TypeOK
<1>4. View[c] = viewed(s) /\ View' = [View EXCEPT ![c] = viewed(t)]
  BY <1>1, ViewMoves
<1> HIDE DEF s, v
<1>5. Within(s) /\ s.ep \in Node /\ s.width \in Int /\ s.k \in Nat /\ s.q \in Node /\ F \subseteq Node
  BY <1>2, <1>3, SearchWithin, WithinHas
<1>6. A \in SUBSET F /\ (Defined(s.q, F) => Firsts(s.q, F, s.k, A))
  BY DEF Cuts
<1>7. /\ t.pc = "done" /\ t.q = s.q /\ t.k = s.k /\ t.width = s.width /\ t.ep = s.ep /\ t.lc = 0
      /\ t.seen = {} /\ t.cand = <<>> /\ t.found = <<>> /\ t.answer = A
  BY DEF Answered, Call
<1>8. t \in CallType
  BY <1>5, <1>6, BottomIsLayer, SmallHeaps DEF Answered, Call, CallType
<1> HIDE DEF t
<1>9. CASE ~Defined(s.q, Node)
  <2>1. viewed(t) = viewed(s)
    BY <1>3, <1>7, <1>8, <1>9, ViewOf
  <2> QED
    BY <1>1, <1>2, <1>8, <2>1, Unseen DEF s, t
<1>10. CASE Defined(s.q, Node)
  <2>1. /\ v.pc = "search" /\ v.q = s.q /\ v.k = s.k /\ v.width = s.width /\ v.ep = s.ep
        /\ v.cand = Range(s.cand) /\ v.found = F
    BY <1>2, <1>3, <1>4, <1>10, ViewOf DEF Q!Call, v
  <2>2. viewed(t) = Q!Answered(v, A)
    <3>1. viewed(t) = Q!Call("done", s.q, s.k, s.width, s.ep, 0, {}, {}, {}, A)
      BY <1>7, <1>8, <1>10, ViewOf, SmallHeaps
    <3> QED
      BY <2>1, <3>1 DEF Q!Answered
  <2>3. Firsts(s.q, F, s.k, A)
    <3>1. Defined(s.q, F)
      BY <1>5, <1>10 DEF Defined
    <3> QED
      BY <1>6, <3>1
  <2>4. ASSUME NEW n \in v.cand PROVE Q!Settled(v, n)
    <3>1. s.cand # <<>>
      BY <2>1, <2>4, SmallHeaps
    <3>2. Settled(s)
      BY <1>2, <3>1
    <3>3. Full(F, Clamped(s.width)) /\ Beyond(s.q, F, n)
      BY <1>5, <1>10, <2>1, <2>4, <3>1, <3>2, SettledSeen
    <3> QED
      BY <2>1, <3>3, SameWords DEF Q!Settled
  <2> HIDE DEF F
  <2>5. Q!Firsts(v.q, v.found, v.k, A)
    BY <2>1, <2>3, SameWords
  <2>6. A \in SUBSET v.found /\ View' = [View EXCEPT ![c] = Q!Answered(v, A)]
    BY <1>4, <1>6, <2>1, <2>2
  <2>7. Q!Answer(c)
    BY <1>2, <2>1, <2>4, <2>5, <2>6 DEF Q!Answer, View, v
  <2> QED
    BY <2>7 DEF Seen, Q!Next, Q!Searches
<1> QED
  BY <1>9, <1>10

\* So is every step.
LEMMA NextSeen == ASSUME IInv, [Next]_vars PROVE Seen
<1>1. ASSUME NEW c \in Client, Ask(c) \/ Searches(c) PROVE Seen
  BY <1>1, AskSeen, ReadWidthSeen, DescendSeen, ExpandSeen, AnswerSeen DEF Searches
<1>2. CASE SetEfSearch
  <2>1. View' = View
    BY <1>2 DEF SetEfSearch, View
  <2>2. Q!SetEfSearch
    BY <1>2, <2>1 DEF SetEfSearch, Q!SetEfSearch, View
  <2> QED
    BY <2>2 DEF Seen, Q!Next
<1>3. CASE UNCHANGED vars
  <2>1. View' = View /\ UNCHANGED <<index, efSearch>>
    BY <1>3 DEF vars, View
  <2> QED
    BY <2>1 DEF Seen, View, Q!vars
<1> QED
  BY <1>1, <1>2, <1>3 DEF Next

\* A search that keeps its candidates and results in heaps, reads lists in their
\* order and meets no NaN visits and returns what one with sets does: QueryHeaps
\* implements Query.
THEOREM HeapsImplement == Spec => Implements
<1>1. Init => Q!Init
  <2> SUFFICES ASSUME Init PROVE Q!Init
    OBVIOUS
  <2>1. viewed(Idle) = Q!Idle
    BY IdleSound, ViewOf DEF Sound, Idle, Call
  <2>2. [c \in Client |-> viewed(search[c])] = [c \in Client |-> Q!Idle]
    BY <2>1 DEF Init
  <2> QED
    BY <2>2 DEF Init, Q!Init
<1>2. IInv /\ [Next]_vars => [Q!Next]_(Q!vars)
  BY NextSeen DEF Seen
<1> QED
  BY Invariance, <1>1, <1>2, PTL DEF Spec, Implements, Q!Spec

-----------------------------------------------------------------------------
(* What is proved of Query holds of the heaps. *)

QP == INSTANCE QueryProofs WITH search <- [c \in Client |-> viewed(search[c])]

\* The module that is implemented is the one that was proved about.
LEMMA SameSetting ==
    /\ Q!Init <=> QP!Init
    /\ Q!SetEfSearch <=> QP!SetEfSearch
    /\ Q!vars = QP!vars
<1>1. Q!Init <=> QP!Init
  BY DEF Q!Init, QP!Init, Q!Idle, QP!Idle, Q!Call, QP!Call
<1>2. Q!SetEfSearch <=> QP!SetEfSearch
  BY DEF Q!SetEfSearch, QP!SetEfSearch
<1>3. Q!vars = QP!vars
  BY DEF Q!vars, QP!vars
<1> QED
  BY <1>1, <1>2, <1>3

\* So are its calls.
LEMMA SameCalls ==
    ASSUME NEW c \in Client
    PROVE  /\ Q!Ask(c) <=> QP!Ask(c)
           /\ Q!Turn(c) <=> QP!Turn(c)
           /\ Q!ReadWidth(c) <=> QP!ReadWidth(c)
           /\ Q!DescendMove(c) <=> QP!DescendMove(c)
           /\ Q!DescendDrop(c) <=> QP!DescendDrop(c)
           /\ Q!Expand(c) <=> QP!Expand(c)
           /\ Q!Answer(c) <=> QP!Answer(c)
<1>1. Q!Ask(c) <=> QP!Ask(c)
  BY DEF Q!Ask, QP!Ask, Q!Asked, QP!Asked, Q!Call, QP!Call
<1>2. Q!Turn(c) <=> QP!Turn(c)
  BY DEF Q!Turn, QP!Turn, Q!Idle, QP!Idle, Q!Call, QP!Call
<1>3. Q!ReadWidth(c) <=> QP!ReadWidth(c)
  BY DEF Q!ReadWidth, QP!ReadWidth, Q!Entering, QP!Entering, Q!Width, QP!Width,
         Q!Descending, QP!Descending, Q!Searching, QP!Searching, Q!Call, QP!Call
<1>4. Q!DescendMove(c) <=> QP!DescendMove(c)
  BY DEF Q!DescendMove, QP!DescendMove, Q!Nearer, QP!Nearer, Q!Neighbours, QP!Neighbours,
         Q!Descending, QP!Descending, Q!Call, QP!Call
<1>5. Q!DescendDrop(c) <=> QP!DescendDrop(c)
  BY DEF Q!DescendDrop, QP!DescendDrop, Q!Nearer, QP!Nearer, Q!Neighbours, QP!Neighbours,
         Q!Entering, QP!Entering, Q!Descending, QP!Descending, Q!Searching, QP!Searching,
         Q!Call, QP!Call
<1>6. Q!Expand(c) <=> QP!Expand(c)
  BY DEF Q!Expand, QP!Expand, Q!Settled, QP!Settled, Q!Full, QP!Full, Q!Beyond, QP!Beyond,
         Q!Takes, QP!Takes, Q!Firsts, QP!Firsts, Q!Selected, QP!Selected, Q!Closest,
         QP!Closest, Q!NoBetter, QP!NoBetter, Q!IsNearest, QP!IsNearest, Q!Before, QP!Before,
         Q!Neighbours, QP!Neighbours, Q!Clamped, QP!Clamped, Q!Call, QP!Call,
         Q!Cardinality, QP!Cardinality, Q!IsFiniteSet, QP!IsFiniteSet
<1>7. Q!Answer(c) <=> QP!Answer(c)
  BY DEF Q!Answer, QP!Answer, Q!Settled, QP!Settled, Q!Full, QP!Full, Q!Beyond, QP!Beyond,
         Q!Firsts, QP!Firsts, Q!Selected, QP!Selected, Q!Closest, QP!Closest,
         Q!Before, QP!Before, Q!Clamped, QP!Clamped, Q!Answered, QP!Answered,
         Q!Call, QP!Call, Q!Cardinality, QP!Cardinality, Q!IsFiniteSet, QP!IsFiniteSet
<1> QED
  BY <1>1, <1>2, <1>3, <1>4, <1>5, <1>6, <1>7

\* So is its behaviour.
LEMMA SameSpec == Q!Spec => QP!Spec
<1>1. Q!Next => QP!Next
  BY SameSetting, SameCalls DEF Q!Next, QP!Next, Q!Searches, QP!Searches
<1>2. [Q!Next]_(Q!vars) => [QP!Next]_(QP!vars)
  BY <1>1 DEF Q!vars, QP!vars
<1>3. Q!Init => QP!Init
  BY SameSetting
<1> QED
  BY <1>2, <1>3, PTL DEF Q!Spec, QP!Spec

\* It was proved from what is assumed here.
LEMMA SameAssumptions ==
    /\ /\ MaxLayer \in Nat
       /\ \A x \in Indexes : QP!Followable(x)
       /\ Widths \subseteq Int
       /\ Asks \subseteq QP!Node \X (Nat \ {0})
    /\ Dist \in [QP!Node \X QP!Node -> Nat]
    /\ N \in Nat \ {0}
BY QueryAssumption, DistAssumption, SizeAssumption DEF QP!Followable, Followable, QP!Node, Node,
   QP!Neighbours, Neighbours, QP!Layer, Layer

\* An answer of a search with heaps leaves no neighbour of its nodes out for one
\* that is further away.
THEOREM AnswersLocallyBest == Spec => []LocallyBest
<1>1. QP!LocallyBest <=> LocallyBest
  BY DEF LocallyBest, Q!LocallyBest, QP!LocallyBest, Q!BestOf, QP!BestOf,
         Q!Neighbours, QP!Neighbours
<1>2. QP!Spec => []QP!LocallyBest
  BY SameAssumptions, QP!AnswersLocallyBest
<1> QED
  BY HeapsImplement, SameSpec, <1>1, <1>2, PTL DEF Implements

\* If its width is at least the number of nodes, it is exact about what it can
\* reach.
THEOREM AnswersExact == Spec => []ExactIfWide
<1>1. QP!ExactIfWide <=> ExactIfWide
  BY DEF ExactIfWide, Q!ExactIfWide, QP!ExactIfWide, Q!ExactOf, QP!ExactOf,
         Q!Firsts, QP!Firsts, Q!Selected, QP!Selected, Q!Closest, QP!Closest, Q!Full, QP!Full,
         Q!Before, QP!Before, Q!Reach, QP!Reach, Q!Reaches, QP!Reaches, Q!Node, QP!Node,
         Q!Neighbours, QP!Neighbours, Q!Cardinality, QP!Cardinality,
         Q!IsFiniteSet, QP!IsFiniteSet
<1>2. QP!Spec => []QP!ExactIfWide
  BY SameAssumptions, QP!AnswersExact
<1> QED
  BY HeapsImplement, SameSpec, <1>1, <1>2, PTL DEF Implements

=============================================================================
