---------------------------- MODULE QueryProofs ----------------------------
(***************************************************************************)
(* Proofs about Query: what a search answers, for any index whose lists    *)
(* can be followed, any query and width, and any number of calls.          *)
(*                                                                         *)
(* The invariant is about how a search forgets: what it has seen and does  *)
(* not hold is no nearer than anything it holds, and then it is full.      *)
(* Lemma ResultsKeep shows that one turn of the loop keeps it, the only    *)
(* step that needs an argument about counting; the answers follow.         *)
(***************************************************************************)
EXTENDS Query, FiniteSetTheorems, TLAPS

-----------------------------------------------------------------------------
(* Nodes, lists and what can be reached. *)

\* The nodes are N, and every set of them is finite.
LEMMA NodesFinite ==
    /\ IsFiniteSet(Node) /\ Cardinality(Node) = N
    /\ \A S \in SUBSET Node : IsFiniteSet(S) /\ Cardinality(S) \in Nat
<1>1. IsFiniteSet(Node) /\ Cardinality(Node) = N
  <2>1. 0 \in Int /\ N - 1 \in Int /\ N \in Nat /\ N >= 1
    BY SizeAssumption
  <2> QED
    BY <2>1, FS_Interval DEF Node
<1> QED
  BY <1>1, FS_Subset, FS_CardinalityType

\* A set of nodes within another one has no more of them.
LEMMA Fewer ==
    ASSUME NEW T \in SUBSET Node, NEW S \in SUBSET T
    PROVE  Cardinality(S) <= Cardinality(T) /\ (Cardinality(S) = Cardinality(T) => S = T)
<1>1. IsFiniteSet(T)
  BY NodesFinite
<1> QED
  BY <1>1, FS_Subset

\* Distances are numbers.
LEMMA Distances == \A a, b \in Node : Dist[<<a, b>>] \in Nat
BY DistAssumption

\* A list names nodes.
LEMMA ListsInNode ==
    ASSUME NEW x \in Indexes, NEW n \in Node, NEW l \in Layer
    PROVE  Neighbours(x, n, l) \subseteq Node
<1>1. x.lists \in [Node -> [Layer -> Seq(Node)]]
  BY QueryAssumption DEF Followable
<1>2. x.lists[n][l] \in Seq(Node)
  BY <1>1
<1>3. \A i \in DOMAIN x.lists[n][l] : x.lists[n][l][i] \in Node
  BY <1>2
<1> QED
  BY <1>3 DEF Neighbours

\* The bottom is a layer.
LEMMA BottomIsLayer == 0 \in Layer
BY QueryAssumption DEF Layer

\* What can be reached from e contains e, and the neighbours of what it contains.
LEMMA ReachCloses ==
    ASSUME NEW x \in Indexes, NEW e \in Node
    PROVE  /\ e \in Reach(x, e) /\ Reach(x, e) \subseteq Node
           /\ \A m \in Reach(x, e) : Neighbours(x, m, 0) \subseteq Reach(x, e)
<1> DEFINE Closed(S) == e \in S /\ \A m \in S : Neighbours(x, m, 0) \subseteq S
<1>1. Reach(x, e) = { n \in Node : \A S \in SUBSET Node : Closed(S) => n \in S }
  BY DEF Reach, Reaches
<1>2. ASSUME NEW m \in Reach(x, e), NEW y \in Neighbours(x, m, 0)
      PROVE  y \in Reach(x, e)
  <2>1. m \in Node /\ y \in Node
    BY <1>1, <1>2, ListsInNode, BottomIsLayer
  <2>2. ASSUME NEW S \in SUBSET Node, Closed(S) PROVE y \in S
    BY <1>1, <1>2, <2>2
  <2> QED
    BY <1>1, <2>1, <2>2
<1> QED
  BY <1>1, <1>2

\* It is the least such set.
LEMMA ReachLeast ==
    ASSUME NEW x \in Indexes, NEW e \in Node, NEW S \in SUBSET Node,
           e \in S, \A m \in S : Neighbours(x, m, 0) \subseteq S
    PROVE  Reach(x, e) \subseteq S
BY DEF Reach, Reaches

-----------------------------------------------------------------------------
(* Collectors. *)

\* A width of at least 1 is still one when no more results than nodes are kept.
LEMMA ClampedType ==
    ASSUME NEW w \in Int, w >= 1
    PROVE  Clamped(w) \in Nat /\ Clamped(w) >= 1 /\ (w < N => Clamped(w) = w)
           /\ (w >= N => Clamped(w) = N)
BY SizeAssumption DEF Clamped

\* What comes first is not further than what comes later.
LEMMA BeforeNotFurther ==
    ASSUME NEW q \in Node, NEW a \in Node, NEW b \in Node, Before(q, a, b)
    PROVE  Dist[<<q, a>>] <= Dist[<<q, b>>]
BY Distances DEF Before

\* found are w of seen at most, and a node is forgotten only for w no further.
Holds(q, w, seen, found) ==
    /\ found \subseteq seen /\ found # {} /\ Cardinality(found) <= w
    /\ \A x \in seen \ found : Full(found, w) /\ NoBetter(q, found, x)

\* One turn keeps what is known of the results: found held the best of what was
\* seen up to ties, R are the first of found and A, and what was turned away
\* is no nearer than any of R.
LEMMA ResultsKeep ==
    ASSUME NEW q \in Node, NEW w \in Nat, w >= 1,
           NEW seen \in SUBSET Node, NEW found, Holds(q, w, seen, found),
           NEW fresh \in SUBSET (Node \ seen), NEW A \in SUBSET fresh,
           NEW R \in SUBSET (found \cup A),
           Firsts(q, found \cup A, w, R),
           \A y \in fresh \ A : Full(R, w) /\ NoBetter(q, R, y)
    PROVE  Holds(q, w, seen \cup fresh, R)
<1> USE DEF Holds
<1>1. /\ Cardinality(R) <= w /\ (Full(R, w) \/ R = found \cup A)
      /\ \A r \in R, s \in (found \cup A) \ R : Before(q, r, s)
  BY DEF Firsts, Selected, Closest
<1>2. R \subseteq Node /\ found \subseteq Node /\ found \cup A \subseteq Node
  OBVIOUS
<1>3. Cardinality(R) \in Nat /\ Cardinality(found) \in Nat /\ IsFiniteSet(R)
  BY <1>2, NodesFinite
<1>4. R # {}
  BY <1>1, <1>3, FS_EmptySet DEF Full
<1>5. ASSUME NEW x \in (seen \cup fresh) \ R
      PROVE  Full(R, w) /\ NoBetter(q, R, x)
  <2>0. x \in Node
    BY <1>2
  <2>1. CASE x \in fresh \ A
    BY <2>1
  <2>2. CASE x \in found \cup A
    <3>1. Full(R, w) /\ \A r \in R : Before(q, r, x)
      BY <1>1, <1>5, <2>2
    <3> QED
      BY <1>2, <2>0, <3>1, BeforeNotFurther DEF NoBetter
  <2>3. CASE x \in seen \ found
    <3>1. Cardinality(found) >= w /\ \A f \in found : Dist[<<q, f>>] <= Dist[<<q, x>>]
      BY <2>3 DEF Full, NoBetter
    <3>2. Full(R, w)
      <4>1. CASE R = found \cup A
        <5>1. Cardinality(found) <= Cardinality(R)
          BY <1>2, <4>1, Fewer
        <5> QED
          BY <1>3, <3>1, <5>1 DEF Full
      <4> QED
        BY <1>1, <4>1
    <3>3. ASSUME NEW r \in R PROVE Dist[<<q, r>>] <= Dist[<<q, x>>]
      <4>1. CASE r \in found
        BY <3>1, <4>1
      <4>2. CASE r \notin found
        <5>1. PICK f \in found : f \notin R
          <6>1. SUFFICES ASSUME found \subseteq R PROVE FALSE
            OBVIOUS
          <6>2. found \subseteq R /\ found # R
            BY <4>2, <6>1
          <6>3. Cardinality(found) < Cardinality(R)
            BY <1>2, <1>3, <6>2, Fewer
          <6> QED
            BY <1>1, <1>3, <3>1, <6>3
        <5>2. Dist[<<q, r>>] <= Dist[<<q, f>>]
          BY <1>1, <1>2, <5>1, BeforeNotFurther
        <5>3. Dist[<<q, f>>] <= Dist[<<q, x>>]
          BY <3>1
        <5>4. Dist[<<q, r>>] \in Nat /\ Dist[<<q, f>>] \in Nat /\ Dist[<<q, x>>] \in Nat
          BY <1>2, <2>0, Distances
        <5> QED
          BY <5>2, <5>3, <5>4
      <4> QED
        BY <4>1, <4>2
    <3> QED
      BY <3>2, <3>3 DEF NoBetter
  <2> QED
    BY <1>5, <2>1, <2>2, <2>3
<1> QED
  BY <1>1, <1>4, <1>5

-----------------------------------------------------------------------------
(* The end of a search. *)

\* A search ends with no result still queued, so that it has seen the neighbours
\* of every one.
LEMMA NoneQueued ==
    ASSUME NEW s \in CallType, \A n \in s.cand : Settled(s, n)
    PROVE  s.cand \cap s.found = {}
<1> SUFFICES ASSUME NEW x \in s.cand \cap s.found PROVE FALSE
  OBVIOUS
<1>1. Dist[<<s.q, x>>] < Dist[<<s.q, x>>]
  BY DEF Settled, Beyond
<1>2. Dist[<<s.q, x>>] \in Nat
  BY Distances DEF CallType
<1> QED
  BY <1>1, <1>2

\* Its results are all that can be reached, or as many as the width, which is
\* then less than the number of nodes.
LEMMA FoundEnough ==
    ASSUME index \in Indexes, NEW s \in CallType, s.pc = "search",
           Ready(s), Explored(s), \A n \in s.cand : Settled(s, n)
    PROVE  \/ s.found = Reach(index, s.ep)
           \/ s.width < N /\ Cardinality(s.found) >= s.width
<1> DEFINE R == Reach(index, s.ep)
<1>1. /\ s.ep \in Node /\ s.width \in Int /\ s.found \subseteq Node /\ s.seen \subseteq Node
      /\ s.k \in Nat /\ s.k >= 1 /\ s.width >= 1
  BY DEF CallType, Ready
<1>2. s.found \subseteq s.seen /\ s.seen \subseteq R /\ R \subseteq Node /\ s.ep \in s.seen
  BY <1>1, ReachCloses DEF Explored
<1>3. CASE Full(s.found, Clamped(s.width))
  <2>1. CASE s.width < N
    BY <1>1, <1>3, <2>1, ClampedType DEF Full
  <2>2. CASE s.width >= N
    <3>1. Cardinality(s.found) >= Cardinality(Node)
      BY <1>1, <1>3, <2>2, ClampedType, NodesFinite DEF Full
    <3>2. s.found = Node
      <4>1. Cardinality(s.found) <= Cardinality(Node) /\ Cardinality(s.found) \in Nat /\ Cardinality(Node) \in Nat
        BY <1>1, Fewer, NodesFinite
      <4> QED
        BY <1>1, <3>1, <4>1, Fewer
    <3> QED
      BY <1>2, <3>2
  <2> QED
    BY <1>1, <2>1, <2>2, SizeAssumption
<1>4. CASE ~Full(s.found, Clamped(s.width))
  <2>1. s.found = s.seen
    BY <1>2, <1>4 DEF Explored
  <2>2. \A m \in s.found : Neighbours(index, m, 0) \subseteq s.found
    BY <2>1, NoneQueued DEF Explored
  <2>3. R \subseteq s.found
    BY <1>1, <1>2, <2>1, <2>2, ReachLeast
  <2> QED
    BY <1>2, <2>3
<1> QED
  BY <1>3, <1>4

\* What is claimed of an answer holds of the first k results.
LEMMA AnswerHolds ==
    ASSUME index \in Indexes, NEW s \in CallType, s.pc = "search",
           Ready(s), Explored(s), \A n \in s.cand : Settled(s, n),
           NEW A \in SUBSET s.found, Firsts(s.q, s.found, s.k, A)
    PROVE  /\ BestOf(Answered(s, A)) /\ EnoughOf(Answered(s, A))
           /\ ExactOf(Answered(s, A))
<1> DEFINE R == Reach(index, s.ep)
           t == Answered(s, A)
<1>1. /\ s.ep \in Node /\ s.q \in Node /\ s.width \in Int /\ s.k \in Nat /\ s.k >= 1
      /\ s.found \subseteq Node /\ s.seen \subseteq Node /\ s.width >= s.k
  BY DEF CallType, Ready
<1>2. s.found \subseteq s.seen /\ s.seen \subseteq R /\ R \subseteq Node
  BY <1>1, ReachCloses DEF Explored
<1>3. /\ t.pc = "done" /\ t.q = s.q /\ t.k = s.k /\ t.width = s.width /\ t.ep = s.ep
      /\ t.answer = A
  BY DEF Answered, Call
<1>4. /\ Cardinality(A) <= s.k /\ (Cardinality(A) >= s.k \/ A = s.found)
      /\ \A a \in A, x \in s.found \ A : Before(s.q, a, x)
  BY DEF Firsts, Selected, Closest, Full
<1>5. A \subseteq R /\ A \subseteq Node
  BY <1>1, <1>2
<1>6. Cardinality(A) \in Nat /\ Cardinality(s.found) \in Nat /\ Cardinality(R) \in Nat
  BY <1>1, <1>2, <1>5, NodesFinite
<1>7. BestOf(t)
  <2>1. ASSUME NEW a \in A, NEW r \in A, NEW y \in Neighbours(index, a, 0) \ A
        PROVE  Dist[<<s.q, r>>] <= Dist[<<s.q, y>>]
    <3>1. y \in s.seen
      BY NoneQueued DEF Explored
    <3>2. r \in Node /\ y \in Node
      BY <1>1, <1>5, <3>1
    <3>3. CASE y \in s.found
      BY <1>1, <1>4, <3>2, <3>3, BeforeNotFurther
    <3>4. CASE y \notin s.found
      BY <3>1, <3>4 DEF Explored, NoBetter
    <3> QED
      BY <3>3, <3>4
  <2> QED
    BY <1>3, <2>1 DEF BestOf
<1>8. EnoughOf(t)
  <2>1. Cardinality(s.found) <= Cardinality(R) /\ Cardinality(A) <= Cardinality(R)
    BY <1>2, <1>5, Fewer
  <2>2. CASE s.found = R
    BY <1>1, <1>3, <1>4, <1>5, <1>6, <2>1, <2>2 DEF EnoughOf
  <2>3. CASE Cardinality(s.found) >= s.width
    BY <1>1, <1>3, <1>4, <1>5, <1>6, <2>1, <2>3 DEF EnoughOf
  <2> QED
    BY <2>2, <2>3, FoundEnough
<1>9. ExactOf(t)
  <2>1. CASE s.width < N
    BY <1>1, <1>3, <2>1, SizeAssumption DEF ExactOf
  <2>2. CASE s.found = R
    BY <1>3, <2>2 DEF ExactOf
  <2> QED
    BY <2>1, <2>2, FoundEnough
<1> QED
  BY <1>7, <1>8, <1>9

-----------------------------------------------------------------------------
(* The steps. *)

\* What is claimed of one call.
Sound(s) == Ready(s) /\ Explored(s) /\ BestOf(s) /\ EnoughOf(s) /\ ExactOf(s)

\* The invariant is about one call at a time.
LEMMA IInvByCall == IInv <=> TypeOK /\ \A c \in Client : Sound(search[c])
BY DEF IInv, Sound, LocallyBest, Enough, ExactIfWide

\* A step of one call concerns no other one.
LEMMA CallMoves ==
    ASSUME IInv, NEW c \in Client, NEW t \in CallType, Sound(t),
           search' = [search EXCEPT ![c] = t], UNCHANGED <<index, efSearch>>
    PROVE  IInv'
<1>1. TypeOK /\ \A d \in Client : Sound(search[d])
  BY IInvByCall
<1>2. TypeOK'
  BY <1>1 DEF TypeOK
<1>3. ASSUME NEW d \in Client PROVE Sound(search[d])'
  <2>1. search'[d] = IF d = c THEN t ELSE search[d]
    BY <1>1 DEF TypeOK
  <2>2. Sound(search'[d])
    BY <1>1, <2>1
  <2> QED
    BY <2>2 DEF Sound, Ready, Explored, BestOf, EnoughOf, ExactOf
<1> QED
  BY <1>2, <1>3 DEF IInv, Sound, LocallyBest, Enough, ExactIfWide

\* A search begins with what it entered at, seen, queued and held.
LEMMA SearchBegins ==
    ASSUME index \in Indexes, NEW q \in Node, NEW k \in Nat, k >= 1, NEW w \in Int, w >= k,
           NEW e \in Node
    PROVE  Searching(q, k, w, e) \in CallType /\ Sound(Searching(q, k, w, e))
<1> DEFINE t == Searching(q, k, w, e)
<1>1. t \in CallType
  BY BottomIsLayer DEF Searching, Call, CallType
<1>2. /\ t.pc = "search" /\ t.q = q /\ t.k = k /\ t.width = w /\ t.ep = e
      /\ t.seen = {e} /\ t.cand = {e} /\ t.found = {e}
  BY DEF Searching, Call
<1>3. Cardinality({e}) = 1 /\ Clamped(w) >= 1
  BY FS_Singleton, ClampedType
<1>4. Ready(t)
  BY <1>2 DEF Ready
<1>5. Explored(t)
  BY <1>2, <1>3, ReachCloses DEF Explored
<1> QED
  BY <1>1, <1>2, <1>4, <1>5 DEF Sound, BestOf, EnoughOf, ExactOf

\* At a layer where it has a list a call may go on.
LEMMA EnteringHolds ==
    ASSUME index \in Indexes, NEW q \in Node, NEW k \in Nat, k >= 1, NEW w \in Int, w >= k,
           NEW e \in Node, NEW l \in Layer, index.level[e] >= l
    PROVE  Entering(q, k, w, e, l) \in CallType /\ Sound(Entering(q, k, w, e, l))
<1>1. CASE l > 0
  <2> DEFINE t == Descending(q, k, w, e, l)
  <2>1. t \in CallType
    BY DEF Descending, Call, CallType
  <2>2. /\ t.pc = "descend" /\ t.k = k /\ t.width = w /\ t.ep = e /\ t.lc = l
    BY DEF Descending, Call
  <2>3. l >= 1
    BY <1>1, QueryAssumption DEF Layer
  <2> QED
    BY <1>1, <2>1, <2>2, <2>3 DEF Entering, Sound, Ready, Explored, BestOf, EnoughOf, ExactOf
<1>2. CASE ~(l > 0)
  BY <1>2, SearchBegins DEF Entering
<1> QED
  BY <1>1, <1>2

\* Calls begin idle.
LEMMA InitHolds == Init => IInv
<1> SUFFICES ASSUME Init PROVE IInv
  OBVIOUS
<1>1. Idle \in CallType /\ Idle.pc = "idle"
  <2>1. 0 \in Node
    BY SizeAssumption DEF Node
  <2> QED
    BY <2>1, BottomIsLayer DEF Idle, Call, CallType
<1>2. Sound(Idle)
  BY <1>1 DEF Sound, Ready, Explored, BestOf, EnoughOf, ExactOf
<1> QED
  BY <1>1, <1>2, IInvByCall DEF Init, TypeOK

\* An index of the right shape.
LEMMA IndexShape ==
    ASSUME index \in Indexes
    PROVE  /\ index.entry \in Node
           /\ \A n \in Node : index.level[n] \in Layer
           /\ \A n \in Node, l \in Layer : \A y \in Neighbours(index, n, l) : index.level[y] >= l
BY QueryAssumption DEF Followable

\* A new call, or none.
LEMMA AskKeeps == ASSUME IInv, NEW c \in Client PROVE Ask(c) \/ Turn(c) => IInv'
<1>1. ASSUME NEW q \in Node, NEW k \in Nat, k >= 1
      PROVE  Asked(q, k) \in CallType /\ Sound(Asked(q, k))
  <2>1. 0 \in Node
    BY SizeAssumption DEF Node
  <2>2. Asked(q, k).pc = "asked" /\ Asked(q, k).k = k
    BY DEF Asked, Call
  <2> QED
    BY <1>1, <2>1, <2>2, BottomIsLayer
       DEF Asked, Call, CallType, Sound, Ready, Explored, BestOf, EnoughOf, ExactOf
<1>2. CASE Ask(c)
  <2>1. PICK a \in Asks : search' = [search EXCEPT ![c] = Asked(a[1], a[2])]
    BY <1>2 DEF Ask
  <2>2. a[1] \in Node /\ a[2] \in Nat /\ a[2] >= 1
    BY QueryAssumption
  <2> QED
    BY <1>1, <1>2, <2>1, <2>2, CallMoves DEF Ask
<1>3. CASE Turn(c)
  <2>1. 0 \in Node
    BY SizeAssumption DEF Node
  <2>2. Idle \in CallType /\ Idle.pc = "idle"
    BY <2>1, BottomIsLayer DEF Idle, Call, CallType
  <2>3. Sound(Idle)
    BY <2>2 DEF Sound, Ready, Explored, BestOf, EnoughOf, ExactOf
  <2> QED
    BY <1>3, <2>2, <2>3, CallMoves DEF Turn
<1> QED
  BY <1>2, <1>3

\* The width read is raised to k.
LEMMA ReadWidthKeeps == ASSUME IInv, NEW c \in Client PROVE ReadWidth(c) => IInv'
<1> SUFFICES ASSUME ReadWidth(c) PROVE IInv'
  OBVIOUS
<1> DEFINE s == search[c]
           w == Width(efSearch, s.k)
           t == Entering(s.q, s.k, w, index.entry, index.level[index.entry])
<1>1. index \in Indexes /\ efSearch \in Int /\ s \in CallType /\ Sound(s)
  BY IInvByCall, QueryAssumption DEF TypeOK
<1>2. s.pc = "asked" /\ search' = [search EXCEPT ![c] = t]
  BY DEF ReadWidth
<1>3. s.q \in Node /\ s.k \in Nat /\ s.k >= 1
  BY <1>1, <1>2 DEF CallType, Sound, Ready
<1>4. w \in Int /\ w >= s.k
  BY <1>1, <1>3 DEF Width
<1>5. /\ index.entry \in Node /\ index.level[index.entry] \in Layer
      /\ index.level[index.entry] >= index.level[index.entry]
  BY <1>1, IndexShape, QueryAssumption DEF Layer
<1>6. t \in CallType /\ Sound(t)
  BY <1>1, <1>3, <1>4, <1>5, EnteringHolds
<1> QED
  BY <1>2, <1>6, CallMoves DEF ReadWidth

\* What a descending call remembers.
LEMMA Descends ==
    ASSUME IInv, NEW c \in Client, search[c].pc = "descend"
    PROVE  LET s == search[c] IN
           /\ index \in Indexes /\ s.q \in Node /\ s.k \in Nat /\ s.k >= 1
           /\ s.width \in Int /\ s.width >= s.k /\ s.ep \in Node /\ s.lc \in Layer
           /\ s.lc - 1 \in Layer /\ s.lc > 0 /\ index.level[s.ep] >= s.lc
<1>1. index \in Indexes /\ search[c] \in CallType /\ Sound(search[c])
  BY IInvByCall DEF TypeOK
<1>2. search[c].lc \in Layer /\ search[c].lc >= 1
  BY <1>1 DEF CallType, Sound, Ready
<1>3. search[c].lc - 1 \in Layer /\ search[c].lc > 0
  BY <1>2, QueryAssumption DEF Layer
<1> QED
  BY <1>1, <1>2, <1>3 DEF CallType, Sound, Ready

\* The node moved to has a list at the layer it was met in.
LEMMA DescendMoveKeeps == ASSUME IInv, NEW c \in Client PROVE DescendMove(c) => IInv'
<1> SUFFICES ASSUME DescendMove(c) PROVE IInv'
  OBVIOUS
<1> DEFINE s == search[c]
<1>1. PICK b \in Nearer(s) :
        search' = [search EXCEPT ![c] = Descending(s.q, s.k, s.width, b, s.lc)]
  BY DEF DescendMove
<1>2. /\ index \in Indexes /\ s.q \in Node /\ s.k \in Nat /\ s.k >= 1
      /\ s.width \in Int /\ s.width >= s.k /\ s.ep \in Node /\ s.lc \in Layer /\ s.lc > 0
  BY Descends DEF DescendMove
<1>3. b \in Node /\ index.level[b] >= s.lc
  BY <1>2, ListsInNode, IndexShape DEF Nearer
<1>4. Entering(s.q, s.k, s.width, b, s.lc) = Descending(s.q, s.k, s.width, b, s.lc)
  BY <1>2 DEF Entering
<1>5. /\ Descending(s.q, s.k, s.width, b, s.lc) \in CallType
      /\ Sound(Descending(s.q, s.k, s.width, b, s.lc))
  BY <1>2, <1>3, <1>4, EnteringHolds
<1> QED
  BY <1>1, <1>5, CallMoves DEF DescendMove

\* A node with a list at a layer has one below.
LEMMA DescendDropKeeps == ASSUME IInv, NEW c \in Client PROVE DescendDrop(c) => IInv'
<1> SUFFICES ASSUME DescendDrop(c) PROVE IInv'
  OBVIOUS
<1> DEFINE s == search[c]
           t == Entering(s.q, s.k, s.width, s.ep, s.lc - 1)
<1>1. /\ index \in Indexes /\ s.q \in Node /\ s.k \in Nat /\ s.k >= 1
      /\ s.width \in Int /\ s.width >= s.k /\ s.ep \in Node /\ s.lc \in Layer
      /\ s.lc - 1 \in Layer /\ index.level[s.ep] >= s.lc
  BY Descends DEF DescendDrop
<1>2. index.level[s.ep] >= s.lc - 1
  <2>1. index.level[s.ep] \in Nat /\ s.lc \in Nat
    BY <1>1, IndexShape DEF Layer
  <2> QED
    BY <1>1, <2>1
<1>3. t \in CallType /\ Sound(t)
  BY <1>1, <1>2, EnteringHolds
<1> QED
  BY <1>3, CallMoves DEF DescendDrop

\* One turn of the loop.
LEMMA ExpandKeeps == ASSUME IInv, NEW c \in Client PROVE Expand(c) => IInv'
<1> SUFFICES ASSUME Expand(c) PROVE IInv'
  OBVIOUS
<1> DEFINE s == search[c]
<1>1. PICK n \in s.cand :
        \E A \in SUBSET (Neighbours(index, n, 0) \ s.seen) : \E R \in SUBSET (s.found \cup A) :
            /\ search' = [search EXCEPT ![c] =
                    Call("search", s.q, s.k, s.width, s.ep, 0,
                         s.seen \cup (Neighbours(index, n, 0) \ s.seen),
                         (s.cand \ {n}) \cup A, R, {})]
            /\ Takes(s, Neighbours(index, n, 0) \ s.seen, A, R)
  BY DEF Expand
<1> DEFINE fresh == Neighbours(index, n, 0) \ s.seen
<1>2. PICK A \in SUBSET fresh : \E R \in SUBSET (s.found \cup A) :
            /\ search' = [search EXCEPT ![c] =
                    Call("search", s.q, s.k, s.width, s.ep, 0, s.seen \cup fresh,
                         (s.cand \ {n}) \cup A, R, {})]
            /\ Takes(s, fresh, A, R)
  BY <1>1
<1>3. PICK R \in SUBSET (s.found \cup A) :
            /\ search' = [search EXCEPT ![c] =
                    Call("search", s.q, s.k, s.width, s.ep, 0, s.seen \cup fresh,
                         (s.cand \ {n}) \cup A, R, {})]
            /\ Takes(s, fresh, A, R)
  BY <1>2
<1> DEFINE t == Call("search", s.q, s.k, s.width, s.ep, 0, s.seen \cup fresh,
                     (s.cand \ {n}) \cup A, R, {})
           W == Clamped(s.width)
<1>4. index \in Indexes /\ s \in CallType /\ Sound(s) /\ s.pc = "search"
  BY IInvByCall DEF TypeOK, Expand
<1>5. /\ s.q \in Node /\ s.k \in Nat /\ s.k >= 1 /\ s.width \in Int /\ s.width >= s.k
      /\ s.width >= 1 /\ s.ep \in Node /\ s.seen \subseteq Node /\ s.found \subseteq Node
      /\ s.cand \subseteq Node
  BY <1>4 DEF CallType, Sound, Ready
<1>6. /\ s.ep \in s.seen /\ s.seen \subseteq Reach(index, s.ep)
      /\ s.cand \subseteq s.seen /\ s.found \subseteq s.seen
      /\ Cardinality(s.found) <= W /\ s.found # {}
      /\ \A x \in s.seen \ s.found : Full(s.found, W) /\ NoBetter(s.q, s.found, x)
      /\ \A x \in s.found : x \in s.cand \/ Neighbours(index, x, 0) \subseteq s.seen
  BY <1>4 DEF Sound, Explored
<1>7. fresh \subseteq Node /\ fresh \subseteq Reach(index, s.ep)
  BY <1>4, <1>5, <1>6, ListsInNode, ReachCloses, BottomIsLayer
<1>8. Holds(s.q, W, s.seen \cup fresh, R)
  <2>1. W \in Nat /\ W >= 1
    BY <1>5, ClampedType
  <2>2. /\ Firsts(s.q, s.found \cup A, W, R)
        /\ \A y \in fresh \ A : Full(R, W) /\ NoBetter(s.q, R, y)
    BY <1>3 DEF Takes
  <2>3. fresh \in SUBSET (Node \ s.seen)
    BY <1>7
  <2>4. Holds(s.q, W, s.seen, s.found)
    BY <1>6 DEF Holds
  <2> HIDE DEF fresh, W, s
  <2> QED
    BY <1>5, <2>1, <2>2, <2>3, <2>4, ResultsKeep
<1>9. \A x \in R : x \in (s.cand \ {n}) \cup A \/ Neighbours(index, x, 0) \subseteq s.seen \cup fresh
  BY <1>6
<1>10. t \in CallType
  BY <1>5, <1>7, BottomIsLayer DEF Call, CallType
<1>11. /\ t.pc = "search" /\ t.q = s.q /\ t.k = s.k /\ t.width = s.width /\ t.ep = s.ep
       /\ t.seen = s.seen \cup fresh /\ t.cand = (s.cand \ {n}) \cup A /\ t.found = R
  BY DEF Call
<1>12. Explored(t)
  <2>1. t.found \subseteq t.seen /\ t.cand \subseteq t.seen
    BY <1>6, <1>11
  <2>2. t.ep \in t.seen /\ t.seen \subseteq Reach(index, t.ep)
    BY <1>6, <1>7, <1>11
  <2> QED
    BY <1>8, <1>9, <1>11, <2>1, <2>2 DEF Explored, Holds
<1>13. Sound(t)
  BY <1>5, <1>11, <1>12 DEF Sound, Ready, BestOf, EnoughOf, ExactOf
<1> QED
  BY <1>3, <1>10, <1>13, CallMoves DEF Expand

\* The end of the loop.
LEMMA AnswerKeeps == ASSUME IInv, NEW c \in Client PROVE Answer(c) => IInv'
<1> SUFFICES ASSUME Answer(c) PROVE IInv'
  OBVIOUS
<1> DEFINE s == search[c]
<1>1. PICK A \in SUBSET s.found :
        /\ search' = [search EXCEPT ![c] = Answered(s, A)]
        /\ Firsts(s.q, s.found, s.k, A)
  BY DEF Answer
<1>2. index \in Indexes /\ s \in CallType /\ Sound(s)
  BY IInvByCall DEF TypeOK
<1>3. s.pc = "search" /\ \A n \in s.cand : Settled(s, n)
  BY DEF Answer
<1> DEFINE t == Answered(s, A)
<1>4. BestOf(t) /\ EnoughOf(t) /\ ExactOf(t)
  BY <1>1, <1>2, <1>3, AnswerHolds DEF Sound
<1>5. t \in CallType
  BY <1>2, BottomIsLayer DEF Answered, Call, CallType
<1>6. t.pc = "done" /\ t.k = s.k
  BY DEF Answered, Call
<1>7. Sound(t)
  BY <1>2, <1>3, <1>4, <1>6 DEF Sound, Ready, Explored
<1> QED
  BY <1>1, <1>5, <1>7, CallMoves DEF Answer

\* A new width changes nothing for the calls there are.
LEMMA SetEfSearchKeeps == IInv /\ SetEfSearch => IInv'
<1> SUFFICES ASSUME IInv, SetEfSearch PROVE IInv'
  OBVIOUS
<1>1. TypeOK'
  BY DEF IInv, TypeOK, SetEfSearch
<1>2. ASSUME NEW c \in Client PROVE Sound(search[c])'
  BY IInvByCall DEF SetEfSearch, Sound, Ready, Explored, BestOf, EnoughOf, ExactOf
<1> QED
  BY <1>1, <1>2 DEF IInv, Sound, LocallyBest, Enough, ExactIfWide

\* And when nothing changes, neither does the invariant.
LEMMA StutterKeeps == IInv /\ UNCHANGED vars => IInv'
<1> SUFFICES ASSUME IInv, UNCHANGED vars PROVE IInv'
  OBVIOUS
<1>1. TypeOK'
  BY DEF IInv, TypeOK, vars
<1>2. ASSUME NEW c \in Client PROVE Sound(search[c])'
  BY IInvByCall DEF vars, Sound, Ready, Explored, BestOf, EnoughOf, ExactOf
<1> QED
  BY <1>1, <1>2 DEF IInv, Sound, LocallyBest, Enough, ExactIfWide

-----------------------------------------------------------------------------
(* The results. *)

\* What a search has seen, holds and forgets is as Explored says in every
\* reachable state of Search, and every answer is as claimed.
THEOREM Invariance == Spec => []IInv
<1>1. IInv /\ [Next]_vars => IInv'
  BY AskKeeps, ReadWidthKeeps, DescendMoveKeeps, DescendDropKeeps, ExpandKeeps, AnswerKeeps,
     SetEfSearchKeeps, StutterKeeps DEF Next, Searches
<1> QED
  BY InitHolds, <1>1, PTL DEF Spec

\* No answer of Search leaves out a neighbour of an answer for a node further
\* away, whatever the graph and the width.
THEOREM AnswersLocallyBest == Spec => []LocallyBest
<1>1. IInv => LocallyBest
  BY DEF IInv
<1> QED
  BY Invariance, <1>1, PTL

\* Search returns k nodes, or all that can be reached if those are fewer,
\* however efSearch is set.
THEOREM AnswersEnough == Spec => []Enough
<1>1. IInv => Enough
  BY DEF IInv
<1> QED
  BY Invariance, <1>1, PTL

\* With a width of all nodes, Search is exact on what can be reached.
THEOREM AnswersExact == Spec => []ExactIfWide
<1>1. IInv => ExactIfWide
  BY DEF IInv
<1> QED
  BY Invariance, <1>1, PTL

=============================================================================
