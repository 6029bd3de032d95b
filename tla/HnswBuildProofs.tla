--------------------------- MODULE HnswBuildProofs ---------------------------
(***************************************************************************)
(* What holds of every build: any number of vectors, any distances, any    *)
(* levels drawn, any valid parameters and any number of goroutines.        *)
(*                                                                         *)
(* The argument starts from one inductive invariant, IInv of HnswBuild.    *)
(* Its steps fall into two kinds.  Four actions only move a worker         *)
(* (MoveKeeps), two store one adjacency list as well (StoreKeeps), and     *)
(* Receive, Raise and Finish start and end insertions.                     *)
(*                                                                         *)
(* How nodes are linked up needs more than IInv: that two nodes which have *)
(* met stay in one piece although the edges they met along are pruned, and *)
(* that nodes which have not met do not link to each other.  The second    *)
(* part keeps a history of this, an order in which nodes hang below others *)
(* (Hung), and derives NoDoubleEntry, HasWayOut, EveryLayerLinked of a     *)
(* sequential build, and OnePiece of one whose bottom lists have room.     *)
(***************************************************************************)
EXTENDS HnswBuild, FiniteSetTheorems, TLAPS

USE SizeAssumption, LayerAssumption, ParamsAssumption, WorkerAssumption

-----------------------------------------------------------------------------
(* Facts about the data.                                                   *)

\* Nodes, and sets of them, are finite.
LEMMA NodeFinite == IsFiniteSet(Node) /\ \A S \in SUBSET Node : IsFiniteSet(S)
<1>1. IsFiniteSet(Node)
  BY FS_Interval DEF Node
<1> QED
  BY <1>1, FS_Subset

\* The cap of a layer is a number, and no less than M.
LEMMA CapType == \A l \in Layer : CapAt(l) \in Nat /\ CapAt(l) >= M
BY DEF CapAt, Layer

\* A call built with fields of the right types is a call.
LEMMA CallTyped ==
    ASSUME NEW pc \in PC, NEW x \in Node, NEW e \in Node, NEW l \in Layer,
           NEW a \in SUBSET Node, NEW b \in SUBSET Node,
           NEW c \in SUBSET Node, NEW d \in SUBSET Node
    PROVE  /\ Call(pc, x, e, l, a, b, c, d) \in CallType
           /\ Call(pc, x, e, l, a, b, c, d).pc = pc
           /\ Call(pc, x, e, l, a, b, c, d).cur = x
           /\ Call(pc, x, e, l, a, b, c, d).ep = e
           /\ Call(pc, x, e, l, a, b, c, d).lc = l
           /\ Call(pc, x, e, l, a, b, c, d).seen = a
           /\ Call(pc, x, e, l, a, b, c, d).cand = b
           /\ Call(pc, x, e, l, a, b, c, d).found = c
           /\ Call(pc, x, e, l, a, b, c, d).todo = d
BY DEF Call, CallType

-----------------------------------------------------------------------------
(* The two kinds of steps.                                                 *)

\* A worker that goes on with its insertion keeps the invariant if the call
\* it continues with is in bounds.
LEMMA MoveKeeps ==
    ASSUME IInv, NEW w \in Worker, NEW s \in CallType,
           work[w].pc # "idle", s.pc # "idle", s.cur = work[w].cur,
           InBounds(s), Ahead(s) \subseteq Ahead(work[w]),
           work' = [work EXCEPT ![w] = s],
           UNCHANGED <<level, allocated, links, entry, maxLevel, next, ready>>
    PROVE  IInv' /\ Placed' = Placed
<1> USE DEF IInv
<1>1. TypeOK'
  BY DEF TypeOK
<1>2. SafeToFollow' /\ DegreeCap'
  BY DEF SafeToFollow, DegreeCap, Occupies, CapAt
<1>3. \A v \in Worker : work'[v] = IF v = w THEN s ELSE work[v]
  BY DEF TypeOK
<1>4. WalkInBounds'
  BY <1>3 DEF WalkInBounds, InBounds, Occupies
<1>5. Busy' = Busy /\ InFlight' = InFlight /\ Placed' = Placed
  BY <1>3 DEF Busy, InFlight, Placed
<1>6. TopIsTallest'
  BY <1>5 DEF TopIsTallest
<1>7. Turns'
  BY <1>3, <1>5 DEF Turns, Busy
<1>8. NothingAhead'
  BY <1>3 DEF NothingAhead, Ahead
<1> QED
  BY <1>1, <1>2, <1>4, <1>5, <1>6, <1>7, <1>8

\* Storing a list of occupants that fits keeps the graph in order.
LEMMA StoreKeeps ==
    ASSUME TypeOK, SafeToFollow, DegreeCap,
           NEW n \in Node, NEW l \in Layer, NEW list \in SUBSET Node,
           Occupies(n, l), \A x \in list : Occupies(x, l) /\ x # n,
           Cardinality(list) <= CapAt(l),
           links' = [links EXCEPT ![n][l] = list],
           UNCHANGED <<level, allocated>>
    PROVE  /\ links' \in [Node -> [Layer -> SUBSET Node]]
           /\ SafeToFollow'
           /\ DegreeCap'
<1>1. \A m \in Node, k \in Layer :
        links'[m][k] = IF m = n /\ k = l THEN list ELSE links[m][k]
  BY DEF TypeOK
<1>2. links' \in [Node -> [Layer -> SUBSET Node]]
  BY DEF TypeOK
<1>3. SafeToFollow'
  BY <1>1 DEF SafeToFollow, Occupies
<1>4. DegreeCap'
  BY <1>1 DEF DegreeCap, CapAt
<1> QED
  BY <1>2, <1>3, <1>4

-----------------------------------------------------------------------------
(* The initial states, and one lemma per action.                           *)

\* The first node is placed, and nobody is at work.
LEMMA InitIInv == Init => IInv
<1> SUFFICES ASSUME Init PROVE IInv
  OBVIOUS
<1> USE DEF Init
<1>1. 0 \in Node /\ N \in Nat /\ 0 \in Layer
  BY DEF Node, Layer
<1>2. Idle \in CallType /\ Idle.pc = "idle" /\ Idle.cur = 0
      /\ Idle.cand = {} /\ Idle.found = {} /\ Idle.todo = {}
  BY <1>1 DEF Idle, Call, CallType, PC
<1>3. TypeOK
  <2>1. level \in [Node -> Layer] /\ level[0] \in Layer
    BY <1>1
  <2>2. links \in [Node -> [Layer -> SUBSET Node]]
    OBVIOUS
  <2>3. work \in [Worker -> CallType]
    BY <1>2
  <2>4. 1 \in 1 .. N /\ {0} \subseteq Node
    BY <1>1
  <2> QED
    BY <1>1, <2>1, <2>2, <2>3, <2>4 DEF TypeOK
<1>4. SafeToFollow
  BY DEF SafeToFollow
<1>5. WalkInBounds
  BY <1>2 DEF WalkInBounds, InBounds
<1>6. DegreeCap
  BY FS_EmptySet, CapType DEF DegreeCap
<1>7. Busy = {} /\ InFlight = {}
  BY <1>2 DEF Busy, InFlight
<1>8. TopIsTallest
  BY <1>1, <1>3, <1>7 DEF TopIsTallest, Placed, Node, TypeOK, Layer
<1>9. Turns
  BY <1>7 DEF Turns
<1>10. NothingAhead
  BY <1>2 DEF NothingAhead, Ahead
<1> QED
  BY <1>3, <1>4, <1>5, <1>6, <1>8, <1>9, <1>10 DEF IInv

\* The node taken is new to everyone, so its lists are empty and no one else
\* has it.
LEMMA ReceiveKeeps ==
    ASSUME IInv, NEW w \in Worker, Receive(w)
    PROVE  IInv' /\ Placed' = Placed
<1> USE DEF IInv, Receive
<1>1. next \in Node /\ next \notin allocated /\ 0 \in Node /\ 0 \in Layer
  BY DEF TypeOK, Turns, Node, Layer
<1>2. /\ AtTop(next) \in CallType /\ AtTop(next).pc = "top" /\ AtTop(next).cur = next
      /\ AtTop(next).cand = {} /\ AtTop(next).found = {} /\ AtTop(next).todo = {}
  BY <1>1, CallTyped DEF AtTop, PC
<1>3. \A v \in Worker : work'[v] = IF v = w THEN AtTop(next) ELSE work[v]
  BY DEF TypeOK
<1>4. TypeOK'
  BY <1>1, <1>2 DEF TypeOK, Node
<1>5. SafeToFollow' /\ DegreeCap'
  BY DEF SafeToFollow, DegreeCap, Occupies, CapAt
<1>6. WalkInBounds'
  BY <1>2, <1>3 DEF WalkInBounds, InBounds, Occupies
<1>7. Busy' = Busy \cup {w} /\ InFlight' = InFlight \cup {next}
  BY <1>2, <1>3 DEF Busy, InFlight
<1>8. Placed' = Placed
  <2>1. \A y \in Node : y < next + 1 <=> y < next \/ y = next
    BY DEF TypeOK, Node
  <2>2. next \notin { y \in Node : y < next }
    BY DEF Node
  <2> QED
    BY <1>7, <2>1, <2>2 DEF Placed
<1>9. TopIsTallest'
  BY <1>8 DEF TopIsTallest
<1>10. Turns'
  BY <1>1, <1>2, <1>3, <1>7 DEF Turns, Busy, TypeOK
<1>11. NothingAhead'
  <2>1. \A l \in Layer : links[next][l] = {}
    BY <1>1 DEF SafeToFollow, Occupies, TypeOK
  <2> QED
    BY <1>2, <1>3, <2>1 DEF NothingAhead, Ahead
<1> QED
  BY <1>4, <1>5, <1>6, <1>8, <1>9, <1>10, <1>11

\* A search that starts at an occupant of its layer other than the node to be
\* inserted is in bounds.
LEMMA SearchStarts ==
    ASSUME NEW x \in Node, NEW e \in Node, NEW l \in Layer,
           Occupies(e, l), e # x, level[x] >= l
    PROVE  /\ Searching(x, e, l) \in CallType
           /\ Searching(x, e, l).pc = "search"
           /\ Searching(x, e, l).cur = x
           /\ Searching(x, e, l).lc = l
           /\ InBounds(Searching(x, e, l))
<1>1. {e} \in SUBSET Node /\ {e} \ {x} \in SUBSET Node
  OBVIOUS
<1> QED
  BY <1>1, CallTyped DEF Searching, PC, InBounds

\* So is a descent that starts above the level of its node.
LEMMA DescentStarts ==
    ASSUME NEW x \in Node, NEW e \in Node, NEW l \in Layer,
           Occupies(e, l), e # x, level[x] < l
    PROVE  /\ Descending(x, e, l) \in CallType
           /\ Descending(x, e, l).pc = "descend"
           /\ Descending(x, e, l).cur = x
           /\ InBounds(Descending(x, e, l))
BY CallTyped DEF Descending, PC, InBounds

\* The entry reaches every layer up to maxLevel.
LEMMA ReadTopKeeps ==
    ASSUME IInv, NEW w \in Worker, ReadTop(w)
    PROVE  IInv' /\ Placed' = Placed
<1> USE DEF IInv, ReadTop
<1> DEFINE x == work[w].cur
           s == IF maxLevel > level[x] THEN Descending(x, entry, maxLevel)
                ELSE Searching(x, entry, StartLayer(level[x], maxLevel))
<1>1. x \in Node /\ entry \in Node /\ maxLevel \in Layer /\ level[x] \in Layer
  BY DEF TypeOK, CallType
<1>2. entry # x /\ Occupies(entry, maxLevel)
  BY <1>1 DEF TopIsTallest, Placed, InFlight, Busy, Turns, Occupies, Node, TypeOK, Layer
<1>3. ~(maxLevel > level[x]) => /\ StartLayer(level[x], maxLevel) = maxLevel
                                /\ level[x] >= maxLevel
  BY <1>1 DEF StartLayer, Layer
<1>4. s \in CallType /\ s.cur = x /\ s.pc # "idle" /\ InBounds(s)
  <2>1. CASE maxLevel > level[x]
    BY <1>1, <1>2, <2>1, DescentStarts DEF Layer
  <2>2. CASE ~(maxLevel > level[x])
    BY <1>1, <1>2, <1>3, <2>2, SearchStarts
  <2> QED
    BY <2>1, <2>2
<1>5. Ahead(s) \subseteq Ahead(work[w])
  BY DEF Ahead
<1>6. work' = [work EXCEPT ![w] = s] /\ work[w].pc # "idle"
  OBVIOUS
<1>7. UNCHANGED <<level, allocated, links, entry, maxLevel, next, ready>>
  OBVIOUS
<1> QED
  <2> HIDE DEF s, ReadTop
  <2> QED
    BY <1>4, <1>5, <1>6, <1>7, MoveKeeps

\* A neighbour at a layer reaches that layer.
LEMMA DescendMoveKeeps ==
    ASSUME IInv, NEW w \in Worker, DescendMove(w)
    PROVE  IInv' /\ Placed' = Placed
<1> DEFINE x == work[w].cur
           l == work[w].lc
<1>1. /\ work[w].pc = "descend"
      /\ UNCHANGED <<level, allocated, links, entry, maxLevel, next, ready>>
  BY DEF DescendMove
<1>2. PICK b \in Nearer(x, work[w].ep, l) : work' = [work EXCEPT ![w] = Descending(x, b, l)]
  BY DEF DescendMove
<1>3. work[w] \in CallType /\ x \in Node /\ l \in Layer /\ work[w].ep \in Node
  BY DEF IInv, TypeOK, CallType
<1>4. b \in Node /\ Occupies(b, l)
  BY <1>2, <1>3 DEF Nearer, IInv, SafeToFollow, TypeOK
<1>5. b # x
  \* x does not reach up to this layer
  BY <1>1, <1>3, <1>4 DEF IInv, WalkInBounds, InBounds, Occupies, TypeOK, Layer
<1>6. level[x] < l
  BY <1>1 DEF IInv, WalkInBounds, InBounds
<1>7. /\ Descending(x, b, l) \in CallType /\ Descending(x, b, l).pc = "descend"
      /\ Descending(x, b, l).cur = x /\ InBounds(Descending(x, b, l))
  BY <1>3, <1>4, <1>5, <1>6, DescentStarts
<1>8. Ahead(Descending(x, b, l)) \subseteq Ahead(work[w])
  BY <1>1 DEF Ahead
<1> QED
  BY <1>1, <1>2, <1>7, <1>8, MoveKeeps

\* Who reaches a layer reaches the one below.
LEMMA DescendDropKeeps ==
    ASSUME IInv, NEW w \in Worker, DescendDrop(w)
    PROVE  IInv' /\ Placed' = Placed
<1> DEFINE x == work[w].cur
           e == work[w].ep
           l == work[w].lc
           s == IF l - 1 > level[x] THEN Descending(x, e, l - 1)
                                    ELSE Searching(x, e, l - 1)
<1>1. /\ work[w].pc = "descend"
      /\ work' = [work EXCEPT ![w] = s]
      /\ UNCHANGED <<level, allocated, links, entry, maxLevel, next, ready>>
  BY DEF DescendDrop
<1>2. /\ work[w] \in CallType /\ x \in Node /\ l \in Layer /\ e \in Node
      /\ level[x] \in Layer /\ level[e] \in Layer
  BY DEF IInv, TypeOK, CallType
<1>3. level[x] < l /\ Occupies(e, l) /\ e # x
  BY <1>1 DEF IInv, WalkInBounds, InBounds
<1>4. l - 1 \in Layer /\ Occupies(e, l - 1)
  BY <1>2, <1>3 DEF Occupies, Layer
<1>5. s \in CallType /\ s.cur = x /\ s.pc # "idle" /\ InBounds(s)
  <2>1. CASE l - 1 > level[x]
    BY <1>2, <1>3, <1>4, <2>1, DescentStarts DEF Layer
  <2>2. CASE ~(l - 1 > level[x])
    <3>1. level[x] >= l - 1
      BY <1>2, <2>2 DEF Layer
    <3> QED
      BY <1>2, <1>3, <1>4, <2>2, <3>1, SearchStarts
  <2> QED
    BY <2>1, <2>2
<1>6. Ahead(s) \subseteq Ahead(work[w])
  BY <1>1 DEF Ahead
<1> HIDE DEF s
<1> QED
  BY <1>1, <1>5, <1>6, MoveKeeps

\* Going on with the next layer, or with raiseTop after the last one.
LEMMA NextLayerStarts ==
    ASSUME TypeOK, NEW x \in Node, NEW e \in Node, NEW l \in Layer,
           Occupies(e, l), e # x, level[x] >= l
    PROVE  /\ NextLayer(x, e, l) \in CallType
           /\ NextLayer(x, e, l).cur = x
           /\ NextLayer(x, e, l).pc # "idle"
           /\ InBounds(NextLayer(x, e, l))
           /\ \A k \in Ahead(NextLayer(x, e, l)) : k < l
<1>1. CASE l = 0
  <2>1. Raising(x) \in CallType /\ Raising(x).cur = x /\ Raising(x).pc = "raise"
        /\ Raising(x).cand = {} /\ Raising(x).found = {} /\ Raising(x).todo = {}
    BY <1>1 DEF Raising, Call, CallType, PC, Node
  <2> QED
    BY <1>1, <2>1 DEF NextLayer, InBounds, Ahead
<1>2. CASE l # 0
  <2>1. l - 1 \in Layer /\ Occupies(e, l - 1) /\ level[x] >= l - 1
    BY <1>2 DEF Occupies, Layer, TypeOK
  <2>2. \A k \in Layer : k <= l - 1 => k < l
    BY DEF Layer
  <2> QED
    BY <1>2, <2>1, <2>2, SearchStarts DEF NextLayer, Ahead
<1> QED
  BY <1>1, <1>2

\* What a search takes in comes from a list of its layer.
LEMMA ExpandKeeps ==
    ASSUME IInv, NEW w \in Worker, Expand(w)
    PROVE  IInv' /\ Placed' = Placed
<1> DEFINE s == work[w]
<1>1. /\ s.pc = "search"
      /\ UNCHANGED <<level, allocated, links, entry, maxLevel, next, ready>>
  BY DEF Expand
<1>2. PICK c \in s.cand : \E A \in SUBSET (links[c][s.lc] \ s.seen) :
        LET fresh == links[c][s.lc] \ s.seen
            R == Nearest(s.cur, s.found \cup (A \ {s.cur}), Ef)
            queued == (s.cand \ {c}) \cup A
            live == IF Full(R, Ef) THEN { x \in queued : ~Beyond(s.cur, R, x) }
                                   ELSE queued
        IN work' = [work EXCEPT ![w] =
              IF live # {} THEN Call("search", s.cur, s.ep, s.lc,
                                     s.seen \cup fresh, live, R, {})
              ELSE IF R # {} THEN Owning(s.cur, s.ep, s.lc, R)
              ELSE NextLayer(s.cur, s.ep, s.lc)]
  BY DEF Expand
<1> DEFINE fresh == links[c][s.lc] \ s.seen
<1>3. PICK A \in SUBSET fresh :
        LET R == Nearest(s.cur, s.found \cup (A \ {s.cur}), Ef)
            queued == (s.cand \ {c}) \cup A
            live == IF Full(R, Ef) THEN { x \in queued : ~Beyond(s.cur, R, x) }
                                   ELSE queued
        IN work' = [work EXCEPT ![w] =
              IF live # {} THEN Call("search", s.cur, s.ep, s.lc,
                                     s.seen \cup fresh, live, R, {})
              ELSE IF R # {} THEN Owning(s.cur, s.ep, s.lc, R)
              ELSE NextLayer(s.cur, s.ep, s.lc)]
  BY <1>2
<1> DEFINE R == Nearest(s.cur, s.found \cup (A \ {s.cur}), Ef)
           queued == (s.cand \ {c}) \cup A
           live == IF Full(R, Ef) THEN { x \in queued : ~Beyond(s.cur, R, x) }
                                  ELSE queued
           on == Call("search", s.cur, s.ep, s.lc, s.seen \cup fresh, live, R, {})
           own == Owning(s.cur, s.ep, s.lc, R)
           skip == NextLayer(s.cur, s.ep, s.lc)
           t == IF live # {} THEN on ELSE IF R # {} THEN own ELSE skip
<1>4. work' = [work EXCEPT ![w] = t]
  BY <1>3
<1>5. /\ s \in CallType /\ s.cur \in Node /\ s.ep \in Node /\ s.lc \in Layer
      /\ s.cand \subseteq Node /\ s.found \subseteq Node /\ s.seen \subseteq Node
      /\ links[c][s.lc] \subseteq Node
  BY DEF IInv, TypeOK, CallType
<1>6. /\ Occupies(s.ep, s.lc) /\ s.ep # s.cur /\ level[s.cur] >= s.lc
      /\ \A x \in s.cand \cup s.found : Occupies(x, s.lc)
      /\ s.cur \notin s.found
  BY <1>1 DEF IInv, WalkInBounds, InBounds
<1>7. \A x \in fresh : Occupies(x, s.lc)
  BY <1>5 DEF IInv, SafeToFollow
<1>8. R \subseteq s.found \cup (fresh \ {s.cur})
  BY <1>3 DEF Nearest
<1>9. live \subseteq s.cand \cup fresh
  BY <1>3
<1>10. /\ R \subseteq Node /\ live \subseteq Node /\ fresh \subseteq Node
       /\ s.cur \notin R
       /\ \A x \in R \cup live : Occupies(x, s.lc)
  BY <1>5, <1>6, <1>7, <1>8, <1>9
<1> HIDE DEF s, R, live, queued, fresh
<1>11. on \in CallType /\ on.cur = s.cur /\ on.pc = "search" /\ InBounds(on)
       /\ Ahead(on) = { l \in Layer : l <= s.lc }
  <2>1. {} \subseteq Node /\ s.seen \cup fresh \subseteq Node /\ "search" \in PC
    BY <1>5, <1>10 DEF PC
  <2>2. /\ on \in CallType /\ on.cur = s.cur /\ on.pc = "search" /\ on.ep = s.ep
        /\ on.lc = s.lc /\ on.cand = live /\ on.found = R /\ on.todo = {}
    BY <1>5, <1>10, <2>1, CallTyped
  <2> HIDE DEF on
  <2>3. InBounds(on)
    BY <1>6, <1>10, <2>2 DEF InBounds
  <2> QED
    BY <2>2, <2>3 DEF Ahead
<1>12. own \in CallType /\ own.cur = s.cur /\ own.pc = "own" /\ InBounds(own)
       /\ Ahead(own) = { l \in Layer : l <= s.lc }
  <2>1. {} \subseteq Node /\ "own" \in PC
    BY DEF PC
  <2>2. /\ own \in CallType /\ own.cur = s.cur /\ own.pc = "own" /\ own.ep = s.ep
        /\ own.lc = s.lc /\ own.cand = {} /\ own.found = R /\ own.todo = {}
    BY <1>5, <1>10, <2>1, CallTyped DEF Owning
  <2> HIDE DEF own
  <2>3. InBounds(own)
    BY <1>6, <1>10, <2>2 DEF InBounds
  <2> QED
    BY <2>2, <2>3 DEF Ahead
<1>13. skip \in CallType /\ skip.cur = s.cur /\ skip.pc # "idle" /\ InBounds(skip)
       /\ Ahead(skip) \subseteq { l \in Layer : l <= s.lc }
  <2>1. Ahead(skip) \subseteq Layer
    BY DEF Ahead
  <2>2. TypeOK
    BY DEF IInv
  <2>3. \A l \in Layer : l < s.lc => l <= s.lc
    BY <1>5 DEF Layer
  <2> QED
    BY <1>5, <1>6, <2>1, <2>2, <2>3, NextLayerStarts
<1>14. Ahead(work[w]) = { l \in Layer : l <= s.lc }
  BY <1>1 DEF Ahead, s
<1> HIDE DEF on, own, skip
<1>15. t \in CallType /\ t.cur = s.cur /\ t.pc # "idle" /\ InBounds(t)
       /\ Ahead(t) \subseteq Ahead(work[w])
  BY <1>11, <1>12, <1>13, <1>14
<1> HIDE DEF t
<1> QED
  BY <1>1, <1>4, <1>15, MoveKeeps DEF s

\* A sequential build has one worker.
LEMMA OneWorker == ~Building => \A v, w \in Worker : v = w
BY FS_Singleton

\* Worker w stored list for node n at its own layer and goes on with t.
Stores(w, t, n, list) ==
    /\ work[w].pc \in {"own", "link"} /\ work[w].lc \in Layer
    /\ t.pc # "idle" /\ t.cur = work[w].cur /\ InBounds(t)
    /\ \A k \in Ahead(t) : k < work[w].lc
    /\ Occupies(n, work[w].lc)
    /\ \A x \in list : Occupies(x, work[w].lc) /\ x # n
    /\ Cardinality(list) <= CapAt(work[w].lc)
    /\ links' = [links EXCEPT ![n][work[w].lc] = list]
    /\ work' = [work EXCEPT ![w] = t]
    /\ UNCHANGED <<level, allocated, entry, maxLevel, next, ready>>

\* Then the invariant is kept, whoever else is at work.
LEMMA StoreStepKeeps ==
    ASSUME IInv, NEW w \in Worker, NEW t \in CallType,
           NEW n \in Node, NEW list \in SUBSET Node, Stores(w, t, n, list)
    PROVE  IInv' /\ Placed' = Placed
<1> USE DEF IInv, Stores
<1> DEFINE l == work[w].lc
<1>1. /\ links' \in [Node -> [Layer -> SUBSET Node]]
      /\ SafeToFollow'
      /\ DegreeCap'
  BY StoreKeeps
<1>2. TypeOK'
  BY <1>1 DEF TypeOK
<1>3. \A v \in Worker : work'[v] = IF v = w THEN t ELSE work[v]
  BY DEF TypeOK
<1>4. WalkInBounds'
  BY <1>3 DEF WalkInBounds, InBounds, Occupies
<1>5. Busy' = Busy /\ InFlight' = InFlight /\ Placed' = Placed
  BY <1>3 DEF Busy, InFlight, Placed
<1>6. TopIsTallest'
  BY <1>5 DEF TopIsTallest
<1>7. Turns'
  BY <1>3, <1>5 DEF Turns, Busy
<1>8. NothingAhead'
  <2> SUFFICES ASSUME ~Building, NEW k \in Ahead(t)
               PROVE  links'[t.cur][k] = {}
    BY <1>3, OneWorker DEF NothingAhead, Ahead
  <2>1. k \in Layer /\ k < l
    BY DEF Ahead
  <2>2. k # l /\ k <= l
    BY <2>1 DEF Layer
  <2>3. k \in Ahead(work[w])
    BY <2>1, <2>2 DEF Ahead
  <2>4. links[t.cur][k] = {}
    BY <2>3 DEF NothingAhead
  <2>5. t.cur \in Node
    BY DEF CallType
  <2> QED
    BY <2>1, <2>2, <2>4, <2>5 DEF TypeOK
<1> QED
  BY <1>1, <1>2, <1>4, <1>5, <1>6, <1>7, <1>8

\* The list setOwn stores fits its layer and holds occupants of it.
LEMMA SetOwnKeeps ==
    ASSUME IInv, NEW w \in Worker, SetOwn(w)
    PROVE  IInv' /\ Placed' = Placed
<1> DEFINE s == work[w]
<1>1. s.pc = "own" /\ UNCHANGED <<level, allocated, entry, maxLevel, next, ready>>
  BY DEF SetOwn
<1>2. PICK K \in SUBSET s.found, own \in SUBSET (s.found \cup links[s.cur][s.lc]),
           e \in s.found :
        /\ Selected(s.cur, s.found, M, NearestM, K)
        /\ OwnList(s.cur, s.lc, K, own)
        /\ links' = [links EXCEPT ![s.cur][s.lc] = own]
        /\ work' = [work EXCEPT ![w] = Linking(s.cur, e, s.lc, K)]
  BY DEF SetOwn
<1>3. /\ s \in CallType /\ s.cur \in Node /\ s.lc \in Layer /\ s.found \subseteq Node
      /\ links[s.cur][s.lc] \subseteq Node /\ level[s.cur] \in Layer
  BY DEF IInv, TypeOK, CallType
<1>4. /\ level[s.cur] >= s.lc
      /\ \A x \in s.found : Occupies(x, s.lc)
      /\ s.cur \notin s.found
  BY <1>1 DEF IInv, WalkInBounds, InBounds
<1>5. Occupies(s.cur, s.lc)
  <2>1. w \in Busy
    BY <1>1 DEF Busy
  <2>2. s.cur \in allocated
    BY <2>1 DEF IInv, Turns, TypeOK
  <2> QED
    BY <2>2, <1>4 DEF Occupies
<1>6. \A x \in own : Occupies(x, s.lc) /\ x # s.cur
  BY <1>2, <1>3, <1>4 DEF IInv, SafeToFollow
<1>7. Cardinality(own) <= CapAt(s.lc)
  <2>1. K \subseteq Node /\ own \subseteq Node /\ K \cup links[s.cur][s.lc] \subseteq Node
    BY <1>2, <1>3
  <2>2. /\ Cardinality(K) \in Nat /\ Cardinality(own) \in Nat
        /\ Cardinality(K \cup links[s.cur][s.lc]) \in Nat
    BY <2>1, NodeFinite, FS_CardinalityType
  <2>3. CapAt(s.lc) \in Nat /\ CapAt(s.lc) >= M /\ M \in Nat
    BY <1>3, CapType
  <2>4. CASE Building
    <3> DEFINE merged == K \cup links[s.cur][s.lc]
    <3>1. CASE Cardinality(merged) > CapAt(s.lc)
      BY <1>2, <2>4, <3>1 DEF OwnList, Selected
    <3>2. CASE ~(Cardinality(merged) > CapAt(s.lc))
      <4>1. own = merged
        BY <1>2, <2>4, <3>2 DEF OwnList
      <4> QED
        BY <2>2, <2>3, <3>2, <4>1
    <3> QED
      BY <3>1, <3>2
  <2>5. CASE ~Building
    BY <1>2, <2>2, <2>3, <2>5 DEF OwnList, Selected
  <2> QED
    BY <2>4, <2>5
<1> DEFINE t == Linking(s.cur, e, s.lc, K)
<1>8. /\ t \in CallType /\ t.pc = "link" /\ t.cur = s.cur /\ t.ep = e /\ t.lc = s.lc
      /\ t.cand = {} /\ t.found = {} /\ t.todo = K
  <2>1. K \subseteq Node /\ {} \subseteq Node /\ e \in Node /\ "link" \in PC
    BY <1>2, <1>3 DEF PC
  <2> QED
    BY <1>3, <2>1, CallTyped DEF Linking
<1>9. work' = [work EXCEPT ![w] = t]
  BY <1>2
<1> HIDE DEF t
<1>10. InBounds(t) /\ \A k \in Ahead(t) : k < s.lc
  BY <1>2, <1>4, <1>8 DEF InBounds, Ahead
<1>11. own \in SUBSET Node
  BY <1>2, <1>3
<1>12. Stores(w, t, s.cur, own)
  BY <1>1, <1>2, <1>3, <1>5, <1>6, <1>7, <1>8, <1>9, <1>10 DEF Stores
<1> HIDE DEF s
<1> QED
  BY <1>3, <1>8, <1>11, <1>12, StoreStepKeeps

\* So does the list link stores.
LEMMA LinkKeeps ==
    ASSUME IInv, NEW w \in Worker, Link(w)
    PROVE  IInv' /\ Placed' = Placed
<1> DEFINE s == work[w]
<1>1. s.pc = "link" /\ UNCHANGED <<level, allocated, entry, maxLevel, next, ready>>
  BY DEF Link
<1>2. PICK r \in s.todo, list \in SUBSET Node :
        /\ LinkedList(r, s.cur, s.lc, list)
        /\ links' = [links EXCEPT ![r][s.lc] = list]
        /\ work' = [work EXCEPT ![w] =
              IF s.todo # {r} THEN Linking(s.cur, s.ep, s.lc, s.todo \ {r})
                              ELSE NextLayer(s.cur, s.ep, s.lc)]
  BY DEF Link
<1>3. /\ s \in CallType /\ s.cur \in Node /\ s.ep \in Node /\ s.lc \in Layer
      /\ s.todo \subseteq Node /\ r \in Node
      /\ links[r][s.lc] \subseteq Node
  BY DEF IInv, TypeOK, CallType
<1>4. /\ level[s.cur] >= s.lc /\ Occupies(s.ep, s.lc) /\ s.ep # s.cur
      /\ \A x \in s.todo : Occupies(x, s.lc)
      /\ s.cur \notin s.todo
  BY <1>1 DEF IInv, WalkInBounds, InBounds
<1>5. Occupies(s.cur, s.lc)
  <2>1. w \in Busy
    BY <1>1 DEF Busy
  <2>2. s.cur \in allocated
    BY <2>1 DEF IInv, Turns, TypeOK
  <2> QED
    BY <2>2, <1>4 DEF Occupies
<1>6. list \subseteq links[r][s.lc] \cup {s.cur}
  BY <1>2 DEF LinkedList, Selected
<1>7. \A x \in list : Occupies(x, s.lc) /\ x # r
  BY <1>2, <1>3, <1>4, <1>5, <1>6 DEF IInv, SafeToFollow
<1>8. Cardinality(list) <= CapAt(s.lc)
  BY <1>2 DEF LinkedList, Selected
<1> DEFINE more == Linking(s.cur, s.ep, s.lc, s.todo \ {r})
           down == NextLayer(s.cur, s.ep, s.lc)
           t == IF s.todo # {r} THEN more ELSE down
<1>9. more \in CallType /\ more.pc = "link" /\ more.cur = s.cur
      /\ InBounds(more) /\ \A k \in Ahead(more) : k < s.lc
  <2>1. s.todo \ {r} \subseteq Node /\ {} \subseteq Node /\ "link" \in PC
    BY <1>3 DEF PC
  <2>2. /\ more \in CallType /\ more.pc = "link" /\ more.cur = s.cur
        /\ more.ep = s.ep /\ more.lc = s.lc
        /\ more.cand = {} /\ more.found = {} /\ more.todo = s.todo \ {r}
    BY <1>3, <2>1, CallTyped DEF Linking
  <2> HIDE DEF more
  <2> QED
    BY <1>4, <2>2 DEF InBounds, Ahead
<1>10. down \in CallType /\ down.pc # "idle" /\ down.cur = s.cur
       /\ InBounds(down) /\ \A k \in Ahead(down) : k < s.lc
  BY <1>3, <1>4, NextLayerStarts DEF IInv
<1> HIDE DEF more, down
<1>11. t \in CallType /\ t.pc # "idle" /\ t.cur = s.cur
       /\ InBounds(t) /\ \A k \in Ahead(t) : k < s.lc
  BY <1>9, <1>10
<1>12. work' = [work EXCEPT ![w] = t]
  BY <1>2 DEF more, down
<1>13. Occupies(r, s.lc)
  BY <1>2, <1>4
<1>14. list \in SUBSET Node /\ s.pc \in {"own", "link"}
  BY <1>1, <1>2
<1>15. links' = [links EXCEPT ![r][s.lc] = list]
  BY <1>2
<1>16. r \in Node /\ s.lc \in Layer
  BY <1>3
<1> HIDE DEF t
<1>17. Stores(w, t, r, list)
  BY <1>1, <1>7, <1>8, <1>11, <1>12, <1>13, <1>14, <1>15, <1>16 DEF Stores
<1> HIDE DEF s
<1> QED
  BY <1>11, <1>14, <1>16, <1>17, StoreStepKeeps

\* The node's insertion is over: it joins the placed nodes, and the top.
LEMMA RaiseKeeps ==
    ASSUME IInv, NEW w \in Worker, Raise(w)
    PROVE  /\ IInv'
           /\ work[w].cur \in Node \ Placed
           /\ Placed' = Placed \cup {work[w].cur}
           /\ entry' = IF level[work[w].cur] > level[entry] THEN work[w].cur ELSE entry
<1> USE DEF IInv
<1> DEFINE x == work[w].cur
<1>1. /\ work[w].pc = "raise" /\ RaiseTop(x)
      /\ work' = [work EXCEPT ![w] = Idle]
      /\ UNCHANGED <<level, allocated, links, next, ready>>
  BY DEF Raise
<1>2. x \in Node /\ level[x] \in Layer /\ entry \in Node /\ maxLevel \in Layer
  BY DEF TypeOK, CallType
<1>3. Idle \in CallType /\ Idle.pc = "idle" /\ Idle.cur = 0
      /\ Idle.cand = {} /\ Idle.found = {} /\ Idle.todo = {}
  BY DEF Idle, Call, CallType, PC, Node, Layer
<1>4. \A v \in Worker : work'[v] = IF v = w THEN Idle ELSE work[v]
  BY <1>1 DEF TypeOK
<1>5. w \in Busy /\ Busy' = Busy \ {w}
  BY <1>1, <1>3, <1>4 DEF Busy
<1>6. InFlight' = InFlight \ {x} /\ x \in InFlight
  <2>1. \A v \in Busy \ {w} : work[v].cur # x
    BY <1>5 DEF Turns
  <2> QED
    BY <1>4, <1>5, <2>1 DEF InFlight, Busy
<1>7. Placed' = Placed \cup {x} /\ x \notin Placed
  <2>1. x < next
    BY <1>5 DEF Turns, TypeOK
  <2> QED
    BY <1>1, <1>2, <1>6, <2>1 DEF Placed
<1>8. /\ maxLevel' = IF level[x] > maxLevel THEN level[x] ELSE maxLevel
      /\ entry' = IF level[x] > maxLevel THEN x ELSE entry
  BY <1>1 DEF RaiseTop
<1>9. TypeOK'
  BY <1>1, <1>2, <1>3, <1>8 DEF TypeOK
<1>10. SafeToFollow' /\ DegreeCap'
  BY <1>1 DEF SafeToFollow, DegreeCap, Occupies, CapAt
<1>11. WalkInBounds'
  BY <1>1, <1>3, <1>4 DEF WalkInBounds, InBounds, Occupies
<1>12. TopIsTallest'
  <2>1. level[entry] = maxLevel /\ entry \in Placed /\ \A y \in Placed : level[y] <= maxLevel
    BY DEF TopIsTallest
  <2>2. \A y \in Node : level[y] \in Int
    BY DEF TypeOK, Layer
  <2>3. Placed \subseteq Node /\ maxLevel \in Int
    BY <1>2 DEF Placed, Layer
  <2> QED
    BY <1>1, <1>2, <1>7, <1>8, <2>1, <2>2, <2>3 DEF TopIsTallest
<1>13. Turns'
  BY <1>1, <1>4, <1>5 DEF Turns, Busy
<1>14. NothingAhead'
  BY <1>1, <1>3, <1>4 DEF NothingAhead, Ahead
<1> QED
  BY <1>2, <1>7, <1>8, <1>9, <1>10, <1>11, <1>12, <1>13, <1>14 DEF TopIsTallest

\* Finish only sets ready.
LEMMA FinishKeeps ==
    ASSUME IInv, Finish
    PROVE  IInv' /\ Placed' = Placed
BY DEF IInv, Finish, TypeOK, SafeToFollow, DegreeCap, WalkInBounds, InBounds,
       Occupies, CapAt, TopIsTallest, Turns, NothingAhead, Ahead, Busy, InFlight, Placed

-----------------------------------------------------------------------------
(* The invariant, and what follows from it.                                *)

\* A step in which nothing happens keeps the invariant.
LEMMA StutterKeeps ==
    ASSUME IInv, UNCHANGED vars
    PROVE  IInv' /\ Placed' = Placed
BY DEF IInv, vars, TypeOK, SafeToFollow, DegreeCap, WalkInBounds, InBounds,
       Occupies, CapAt, TopIsTallest, Turns, NothingAhead, Ahead, Busy, InFlight, Placed

\* Every step keeps the invariant.
LEMMA NextIInv == IInv /\ [Next]_vars => IInv'
<1> SUFFICES ASSUME IInv, [Next]_vars PROVE IInv'
  OBVIOUS
<1>1. ASSUME NEW w \in Worker, Insert(w) PROVE IInv'
  BY <1>1, ReceiveKeeps, ReadTopKeeps, DescendMoveKeeps, DescendDropKeeps,
     ExpandKeeps, SetOwnKeeps, LinkKeeps, RaiseKeeps DEF Insert
<1>2. CASE Finish
  BY <1>2, FinishKeeps
<1>3. CASE Finished \/ UNCHANGED vars
  BY <1>3, StutterKeeps DEF Finished
<1> QED
  BY <1>1, <1>2, <1>3 DEF Next

\* The conjunction the following theorems take their part of holds throughout
\* every build.
THEOREM Invariance == Spec => []IInv
<1>1. Spec => Init /\ [][Next]_vars
  BY DEF Spec
<1> QED
  BY <1>1, InitIInv, NextIInv, PTL

\* insertAt, topOfIndex and raiseTop keep every field of the index, and every
\* worker's place in it, within its type.
THEOREM TypeCorrect == Spec => []TypeOK
BY Invariance, PTL DEF IInv

\* No edge leads to a node whose lists are not there yet, or to a layer the
\* node does not reach.
THEOREM FollowingIsSafe == Spec => []SafeToFollow
BY Invariance, PTL DEF IInv

\* No goroutine indexes a list that is not there, although the lists it copied
\* have changed since.
THEOREM WalksStayInBounds == Spec => []WalkInBounds
BY Invariance, PTL DEF IInv

\* No list is ever longer than capAt allows.
THEOREM DegreesCapped == Spec => []DegreeCap
BY Invariance, PTL DEF IInv

\* The entry point and maxLevel always belong together and to the tallest node
\* whose insertion is complete.
THEOREM TopCorrect == Spec => []TopIsTallest
BY Invariance, PTL DEF IInv

-----------------------------------------------------------------------------
(* Edges are lost to justified prunes only.                                *)

\* What selectNeighbours leaves out is covered by something it keeps, unless
\* it kept as many as it was asked for.
LEMMA SelectionJustified ==
    ASSUME NEW n \in Node, NEW C \in SUBSET Node, NEW cap \in Nat, NEW K,
           Selected(n, C, cap, NearestM, K), NEW x \in C \ K
    PROVE  \/ Full(K, cap)
           \/ ~NearestM /\ \E k \in K : Covers(n, k, x)
<1>1. CASE NearestM
  BY <1>1 DEF Selected, Closest
<1>2. CASE ~NearestM
  <2> DEFINE kept == { k \in K : Before(n, k, x) }
  <2>1. Cardinality(kept) >= cap \/ \E k \in kept : Covers(n, k, x)
    <3>1. Cardinality(kept) \in Int
      BY NodeFinite, FS_CardinalityType DEF Selected
    <3>2. Spread(n, C, cap, K)
      BY <1>2 DEF Selected
    <3>3. ~(Cardinality(kept) < cap /\ \A k \in kept : ~Covers(n, k, x))
      BY <3>2 DEF Spread
    <3> QED
      BY <3>1, <3>3
  <2>2. CASE Cardinality(kept) >= cap
    <3>1. IsFiniteSet(K) /\ kept \subseteq K
      BY NodeFinite DEF Selected
    <3>2. /\ Cardinality(kept) <= Cardinality(K)
          /\ Cardinality(kept) \in Nat /\ Cardinality(K) \in Nat
      BY <3>1, FS_Subset, FS_CardinalityType
    <3> HIDE DEF kept
    <3> QED
      BY <2>2, <3>2 DEF Full
  <2>3. CASE \E k \in kept : Covers(n, k, x)
    BY <1>2, <2>3
  <2> QED
    BY <2>1, <2>2, <2>3
<1> QED
  BY <1>1, <1>2

\* When one list is replaced by a justified one, no other list loses anything.
LEMMA OneListChanged ==
    ASSUME TypeOK, NEW n \in Node, NEW l \in Layer, NEW list \in SUBSET Node,
           links' = [links EXCEPT ![n][l] = list],
           \A x \in links[n][l] \ list :
               \/ Full(list, CapAt(l))
               \/ ~NearestM /\ \E k \in list : Covers(n, k, x)
    PROVE  EdgeLossJustified
<1>1. \A m \in Node, k \in Layer :
        links'[m][k] = IF m = n /\ k = l THEN list ELSE links[m][k]
  BY DEF TypeOK
<1> QED
  BY <1>1 DEF EdgeLossJustified

\* What setOwn leaves out it leaves out for a reason.
LEMMA SetOwnJustified ==
    ASSUME IInv, NEW w \in Worker, SetOwn(w)
    PROVE  EdgeLossJustified
<1> DEFINE s == work[w]
<1>1. s.pc = "own" /\ s.cur \in Node /\ s.lc \in Layer /\ s.found \subseteq Node
  BY DEF SetOwn, IInv, TypeOK, CallType
<1>2. PICK K \in SUBSET s.found, own \in SUBSET (s.found \cup links[s.cur][s.lc]) :
        /\ OwnList(s.cur, s.lc, K, own)
        /\ links' = [links EXCEPT ![s.cur][s.lc] = own]
  BY DEF SetOwn
<1>3. links[s.cur][s.lc] \subseteq Node /\ CapAt(s.lc) \in Nat /\ TypeOK
  BY <1>1, CapType DEF IInv, TypeOK
<1> DEFINE merged == K \cup links[s.cur][s.lc]
<1>4. merged \in SUBSET Node /\ own \in SUBSET Node
  BY <1>1, <1>2, <1>3
<1>5. ASSUME NEW x \in links[s.cur][s.lc] \ own
      PROVE  \/ Full(own, CapAt(s.lc))
             \/ ~NearestM /\ \E k \in own : Covers(s.cur, k, x)
  <2>1. CASE ~Building
    \* nothing is there to be lost
    <3>1. s.lc \in Ahead(work[w])
      BY <1>1 DEF Ahead, Layer
    <3> QED
      BY <1>5, <2>1, <3>1 DEF IInv, NothingAhead
  <2>2. CASE Building /\ own = merged
    BY <1>5, <2>2
  <2>3. CASE Building /\ own # merged
    <3>1. Selected(s.cur, merged, CapAt(s.lc), NearestM, own) /\ x \in merged \ own
      BY <1>2, <1>5, <2>3 DEF OwnList
    <3> HIDE DEF merged, s
    <3> QED
      BY <1>1, <1>3, <1>4, <3>1, SelectionJustified
  <2> QED
    BY <2>1, <2>2, <2>3
<1> QED
  BY <1>1, <1>2, <1>3, <1>4, <1>5, OneListChanged

\* link drops an edge only to make room, or because it is covered.
LEMMA LinkJustified ==
    ASSUME IInv, NEW w \in Worker, Link(w)
    PROVE  EdgeLossJustified
<1> DEFINE s == work[w]
<1>1. s.cur \in Node /\ s.lc \in Layer /\ s.todo \subseteq Node
  BY DEF IInv, TypeOK, CallType
<1>2. PICK r \in s.todo, list \in SUBSET Node :
        /\ LinkedList(r, s.cur, s.lc, list)
        /\ links' = [links EXCEPT ![r][s.lc] = list]
  BY DEF Link
<1>3. r \in Node /\ links[r][s.lc] \subseteq Node /\ CapAt(s.lc) \in Nat /\ TypeOK
  BY <1>1, CapType DEF IInv, TypeOK
<1> DEFINE longer == links[r][s.lc] \cup {s.cur}
<1>4. longer \in SUBSET Node
  BY <1>1, <1>3
<1>5. ASSUME NEW x \in links[r][s.lc] \ list
      PROVE  \/ Full(list, CapAt(s.lc))
             \/ ~NearestM /\ \E k \in list : Covers(r, k, x)
  <2>1. Selected(r, longer, CapAt(s.lc), NearestM, list) /\ x \in longer \ list
    BY <1>2, <1>5 DEF LinkedList
  <2> HIDE DEF longer, s
  <2> QED
    BY <1>3, <1>4, <2>1, SelectionJustified
<1> QED
  BY <1>1, <1>2, <1>3, <1>5, OneListChanged

\* No step of any build, sequential or parallel, drops an edge other than by a
\* prune that has a reason for it.
THEOREM EdgesKept == Spec => NoSilentEdgeLoss
<1>1. ASSUME IInv, [Next]_vars PROVE [EdgeLossJustified]_vars
  <2>1. ASSUME UNCHANGED links PROVE EdgeLossJustified
    BY <2>1 DEF EdgeLossJustified
  <2>2. ASSUME NEW w \in Worker, Insert(w) PROVE EdgeLossJustified
    BY <1>1, <2>1, <2>2, SetOwnJustified, LinkJustified
       DEF Insert, Receive, ReadTop, DescendMove, DescendDrop, Expand, Raise
  <2> QED
    BY <1>1, <2>1, <2>2 DEF Next, Finish, Finished
<1>2. Spec => Init /\ [][Next]_vars
  BY DEF Spec
<1> QED
  BY <1>1, <1>2, Invariance, PTL DEF NoSilentEdgeLoss

-----------------------------------------------------------------------------
(* The build implements Assembly (its safety part; that it ends is left to *)
(* TLC).                                                                   *)

\* At first node 0 alone is placed.
LEMMA InitAssembles == Init => Assembled!Init
<1> SUFFICES ASSUME Init PROVE Assembled!Init
  OBVIOUS
<1>1. \A w \in Worker : work[w].pc = "idle"
  BY DEF Init, Idle, Call
<1>2. InFlight = {}
  BY <1>1 DEF InFlight, Busy
<1>3. Placed = {0}
  BY <1>2 DEF Placed, Init, Node
<1> QED
  BY <1>3 DEF Init, Assembled!Init

\* Raise places a node, Finish hands over, and no other step is seen.
LEMMA StepAssembles ==
    IInv /\ [Next]_vars => [Assembled!Next]_(Assembled!vars)
<1> SUFFICES ASSUME IInv, [Next]_vars
             PROVE  [Assembled!Next]_(Assembled!vars)
  OBVIOUS
<1> USE DEF Assembled!vars
<1>1. ASSUME NEW w \in Worker, Raise(w)
      PROVE  Assembled!Next
  <2>1. Assembled!Place(work[w].cur)
    BY <1>1, RaiseKeeps DEF Assembled!Place, Raise
  <2> QED
    BY <1>1, <2>1, RaiseKeeps DEF Assembled!Next
<1>2. ASSUME NEW w \in Worker, Insert(w), ~Raise(w)
      PROVE  UNCHANGED Assembled!vars
  <2>1. Placed' = Placed
    BY <1>2, ReceiveKeeps, ReadTopKeeps, DescendMoveKeeps, DescendDropKeeps,
       ExpandKeeps, SetOwnKeeps, LinkKeeps DEF Insert
  <2>2. UNCHANGED <<level, entry, ready>>
    BY <1>2 DEF Insert, Receive, ReadTop, DescendMove, DescendDrop, Expand, SetOwn, Link
  <2> QED
    BY <2>1, <2>2
<1>3. CASE Finish
  <2>1. InFlight = {}
    BY <1>3 DEF Finish, InFlight, Busy, Idle, Call
  <2>2. Placed = Node
    BY <1>3, <2>1 DEF Placed, Finish, Node
  <2>3. Placed' = Placed
    BY <1>3, FinishKeeps
  <2> QED
    BY <1>3, <2>2, <2>3 DEF Finish, Assembled!Next, Assembled!HandOver
<1>4. CASE Finished \/ UNCHANGED vars
  <2>1. UNCHANGED vars
    BY <1>4 DEF Finished
  <2>2. Placed' = Placed
    BY <2>1, StutterKeeps
  <2> QED
    BY <2>1, <2>2 DEF vars
<1> QED
  BY <1>1, <1>2, <1>3, <1>4 DEF Next

\* However the goroutines interleave, the build does what inserting the nodes
\* one at a time would: each exactly once, the top always the tallest so far,
\* and the index handed over only when all of them are in.
THEOREM BuildImplementsAssembly ==
    Spec => Assembled!Init /\ [][Assembled!Next]_(Assembled!vars)
<1>1. Spec => Init /\ [][Next]_vars
  BY DEF Spec
<1> QED
  BY <1>1, InitAssembles, StepAssembles, Invariance, PTL

-----------------------------------------------------------------------------
(* Who hangs below whom.  A node about to be linked at a layer will end up *)
(* in one piece with the entry point it searches from, but is not there    *)
(* yet: it hangs below it.  P[a] is the set of the nodes a hangs below,    *)
(* itself among them; nodes with the same set are in one piece for good,   *)
(* whatever edges are pruned later.                                        *)

Order(P) ==
    /\ P \in [Node -> SUBSET Node]
    /\ \A a \in Node : a \in P[a]
    /\ \A a \in Node : \A b \in P[a] : P[b] \subseteq P[a]

\* p, and all that hangs below it, is hung below q.
Hang(P, p, q) == [a \in Node |-> IF p \in P[a] THEN P[a] \cup P[q] ELSE P[a]]

\* Nothing keeps c from everything it hangs below.
Settled(P, c) == \A y \in P[c] : P[y] = P[c]

\* c hangs below d, which is not below c, and otherwise is settled.
Waiting(P, c, d) ==
    /\ d \in P[c] /\ c \notin P[d]
    /\ \A y \in P[c] : P[y] = P[c] \/ y \in P[d]

\* Two nodes hang below the same nodes exactly if each hangs below the other.
LEMMA OrderFacts ==
    ASSUME NEW P, Order(P)
    PROVE  /\ \A a \in Node : P[a] \in SUBSET Node /\ a \in P[a]
           /\ \A a, b, c \in Node : b \in P[a] /\ c \in P[b] => c \in P[a]
           /\ \A a, b \in Node : P[a] = P[b] <=> a \in P[b] /\ b \in P[a]
<1>1. \A a \in Node : P[a] \in SUBSET Node /\ a \in P[a]
  BY DEF Order
<1>2. \A a, b, c \in Node : b \in P[a] /\ c \in P[b] => c \in P[a]
  BY DEF Order
<1>3. ASSUME NEW a \in Node, NEW b \in Node, a \in P[b], b \in P[a]
      PROVE  P[a] = P[b]
  <2>1. P[a] \subseteq P[b] /\ P[b] \subseteq P[a]
    BY <1>3 DEF Order
  <2> QED
    BY <2>1
<1> QED
  BY <1>1, <1>2, <1>3

\* Hanging x below e, which is not below x, puts no two nodes into one piece.
LEMMA Entering ==
    ASSUME NEW P, Order(P), NEW x \in Node, NEW e \in Node, x \notin P[e],
           NEW Q, Q = Hang(P, x, e)
    PROVE  /\ Order(Q)
           /\ \A a, b \in Node : b \in Q[a] <=> b \in P[a] \/ (x \in P[a] /\ b \in P[e])
           /\ \A a, b \in Node : Q[a] = Q[b] <=> P[a] = P[b]
<1>1. \A a, b \in Node : b \in Q[a] <=> b \in P[a] \/ (x \in P[a] /\ b \in P[e])
  BY DEF Order, Hang
<1>2. Q \in [Node -> SUBSET Node]
  BY DEF Order, Hang
<1>3. Order(Q)
  <2>1. \A a \in Node : a \in Q[a]
    BY <1>1 DEF Order
  <2>2. ASSUME NEW a \in Node, NEW b \in Q[a], NEW c \in Q[b] PROVE c \in Q[a]
    <3>1. b \in Node /\ c \in Node
      BY <1>2, <2>2
    <3> QED
      BY <1>1, <2>2, <3>1 DEF Order
  <2> QED
    BY <1>2, <2>1, <2>2 DEF Order
<1>4. ASSUME NEW a \in Node, NEW b \in Node, Q[a] = Q[b] PROVE P[a] = P[b]
  <2>1. a \in Q[b] /\ b \in Q[a]
    BY <1>3, <1>4 DEF Order
  <2>2. a \in P[b] /\ b \in P[a]
    BY <1>1, <2>1 DEF Order
  <2> QED
    BY <2>2, OrderFacts
<1>5. ASSUME NEW a \in Node, NEW b \in Node, P[a] = P[b] PROVE Q[a] = Q[b]
  BY <1>5 DEF Hang
<1> QED
  BY <1>1, <1>3, <1>4, <1>5

\* Hanging x below e keeps the other pieces settled, or waiting where they were.
LEMMA EnteringKeeps ==
    ASSUME NEW P, Order(P), NEW x \in Node, NEW e \in Node, x \notin P[e],
           NEW Q, Q = Hang(P, x, e),
           NEW c \in Node, NEW d \in Node, P[c] # P[x]
    PROVE  /\ Settled(P, c) => Settled(Q, c)
           /\ Waiting(P, c, d) => Waiting(Q, c, d)
<1>1. /\ Order(Q)
      /\ \A a, b \in Node : b \in Q[a] <=> b \in P[a] \/ (x \in P[a] /\ b \in P[e])
      /\ \A a, b \in Node : Q[a] = Q[b] <=> P[a] = P[b]
  BY Entering
<1>2. P[c] \subseteq Node /\ Q[c] \subseteq Node
  BY <1>1 DEF Order
<1>3. ASSUME Settled(P, c) PROVE Settled(Q, c)
  BY <1>1, <1>2, <1>3 DEF Settled
<1>4. ASSUME Waiting(P, c, d) PROVE Waiting(Q, c, d)
  <2>1. d \in Q[c]
    BY <1>1, <1>4 DEF Waiting
  <2>2. c \notin Q[d]
    BY <1>1, <1>4 DEF Waiting, Order
  <2>3. ASSUME NEW y \in Q[c] PROVE Q[y] = Q[c] \/ y \in Q[d]
    BY <1>1, <1>2, <1>4, <2>3 DEF Waiting
  <2> QED
    BY <2>1, <2>2, <2>3 DEF Waiting
<1> QED
  BY <1>3, <1>4

\* Linking x to what it waited for joins these two pieces and no others.
LEMMA Joining ==
    ASSUME NEW P, Order(P), NEW x \in Node, NEW e \in Node, Waiting(P, x, e),
           NEW Q, Q = Hang(P, e, x)
    PROVE  /\ Order(Q)
           /\ \A a, b \in Node : b \in Q[a] <=> b \in P[a] \/ (e \in P[a] /\ b \in P[x])
           /\ \A a, b \in Node : P[a] = P[b] => Q[a] = Q[b]
           /\ Q[x] = Q[e]
           /\ \A a, b \in Node : P[b] # P[x] /\ b \in Q[a] => b \in P[a]
           /\ \A a, b \in Node : Q[a] = Q[b] =>
                \/ P[a] = P[b]
                \/ P[a] \in {P[x], P[e]} /\ P[b] \in {P[x], P[e]}
<1>1. \A a, b \in Node : b \in Q[a] <=> b \in P[a] \/ (e \in P[a] /\ b \in P[x])
  BY DEF Order, Hang
<1>2. Q \in [Node -> SUBSET Node]
  BY DEF Order, Hang
<1>3. Order(Q)
  <2>1. \A a \in Node : a \in Q[a]
    BY <1>1 DEF Order
  <2>2. ASSUME NEW a \in Node, NEW b \in Q[a], NEW c \in Q[b] PROVE c \in Q[a]
    <3>1. b \in Node /\ c \in Node
      BY <1>2, <2>2
    <3> QED
      BY <1>1, <2>2, <3>1 DEF Order
  <2> QED
    BY <1>2, <2>1, <2>2 DEF Order
<1>4. \A a, b \in Node : P[a] = P[b] => Q[a] = Q[b]
  BY DEF Hang
<1>5. Q[x] = Q[e]
  <2>1. x \in Q[e] /\ e \in Q[x]
    BY <1>1 DEF Order, Waiting
  <2> QED
    BY <1>3, <2>1, OrderFacts
<1>6. ASSUME NEW a \in Node, NEW b \in Node, P[b] # P[x], b \in Q[a] PROVE b \in P[a]
  BY <1>1, <1>6 DEF Order, Waiting
<1>7. ASSUME NEW a \in Node, NEW b \in Node, Q[a] = Q[b]
      PROVE  \/ P[a] = P[b]
             \/ P[a] \in {P[x], P[e]} /\ P[b] \in {P[x], P[e]}
  <2>1. \A y \in P[x] : P[y] = P[x] \/ y \in P[e]
    BY DEF Waiting
  <2>2. /\ b \in P[a] \/ (e \in P[a] /\ b \in P[x])
        /\ a \in P[b] \/ (e \in P[b] /\ a \in P[x])
    BY <1>1, <1>3, <1>7 DEF Order
  <2> QED
    BY <2>1, <2>2, OrderFacts
<1> QED
  BY <1>1, <1>3, <1>4, <1>5, <1>6, <1>7

\* So does joining x to e, outside the piece of x.
LEMMA JoiningKeeps ==
    ASSUME NEW P, Order(P), NEW x \in Node, NEW e \in Node, Waiting(P, x, e),
           NEW Q, Q = Hang(P, e, x),
           NEW c \in Node, NEW d \in Node, P[c] # P[x]
    PROVE  /\ Settled(P, c) => Settled(Q, c)
           /\ Waiting(P, c, d) => Waiting(Q, c, d)
<1>1. /\ Order(Q)
      /\ \A a, b \in Node : b \in Q[a] <=> b \in P[a] \/ (e \in P[a] /\ b \in P[x])
      /\ \A a, b \in Node : P[a] = P[b] => Q[a] = Q[b]
      /\ Q[x] = Q[e]
      /\ \A a, b \in Node : P[b] # P[x] /\ b \in Q[a] => b \in P[a]
  BY Joining
<1>2. P[c] \subseteq Node /\ Q[c] \subseteq Node /\ P[x] \subseteq Node
  BY <1>1 DEF Order
<1>3. ASSUME Settled(P, c), NEW y \in Q[c] PROVE Q[y] = Q[c]
  <2>1. CASE y \in P[c]
    BY <1>1, <1>2, <1>3, <2>1 DEF Settled
  <2>2. CASE e \in P[c] /\ y \in P[x]
    <3>1. P[e] = P[c] /\ Q[e] = Q[c]
      BY <1>1, <1>3, <2>2 DEF Settled
    <3>2. CASE P[y] = P[x]
      BY <1>1, <1>2, <2>2, <3>1, <3>2
    <3>3. CASE y \in P[e]
      BY <1>1, <1>2, <1>3, <3>1, <3>3 DEF Settled
    <3> QED
      BY <2>2, <3>2, <3>3 DEF Waiting
  <2> QED
    BY <1>1, <1>2, <1>3, <2>1, <2>2
<1>4. ASSUME Waiting(P, c, d) PROVE Waiting(Q, c, d)
  <2>1. d \in Q[c]
    BY <1>1, <1>4 DEF Waiting
  <2>2. c \notin Q[d]
    BY <1>1, <1>4 DEF Waiting
  <2>3. ASSUME NEW y \in Q[c] PROVE Q[y] = Q[c] \/ y \in Q[d]
    <3>1. y \in Node
      BY <1>2, <2>3
    <3>2. CASE y \in P[c]
      BY <1>1, <1>4, <3>1, <3>2 DEF Waiting
    <3>3. CASE e \in P[c] /\ y \in P[x] /\ y \notin P[c]
      <4>1. P[e] = P[c] \/ e \in P[d]
        BY <1>4, <3>3 DEF Waiting
      <4>2. CASE e \in P[d]
        BY <1>1, <3>1, <3>3, <4>2
      <4>3. CASE P[e] = P[c]
        <5>1. P[y] = P[x]
          BY <3>3, <4>3 DEF Waiting
        <5>2. Q[y] = Q[x] /\ Q[e] = Q[c]
          BY <1>1, <3>1, <4>3, <5>1
        <5> QED
          BY <1>1, <5>2
      <4> QED
        BY <4>1, <4>2, <4>3
    <3> QED
      BY <1>1, <2>3, <3>1, <3>2, <3>3
  <2> QED
    BY <2>1, <2>2, <2>3 DEF Waiting
<1>5. Settled(P, c) => Settled(Q, c)
  BY <1>3 DEF Settled
<1> QED
  BY <1>4, <1>5

-----------------------------------------------------------------------------
(* The hanging order of a build.  It depends on the build so far, not on   *)
(* its state: the invariant says that there is one, and every action       *)
(* either leaves it alone or extends it.                                   *)

\* A node no layer of the graph has seen yet.
Newcomer(n) ==
    \/ n \notin allocated
    \/ \E w \in Worker : work[w].pc \in {"top", "descend"} /\ work[w].cur = n

\* The call searches layer l, or will do so next, from its entry point.
Enters(s, l) ==
    \/ s.pc \in {"search", "own"} /\ s.lc = l
    \/ s.pc = "link" /\ s.lc = l + 1

\* What a call holds is in one piece with the entry point it searches from,
\* and what it has yet to link back with its node.
Gathers(up, s) ==
    /\ s.pc \in {"search", "own"} =>
        /\ s.found # {}
        /\ \A x \in s.seen \cup s.cand \cup s.found : up[s.lc][x] = up[s.lc][s.ep]
    /\ s.pc = "link" =>
        \A x \in s.todo \cup {s.ep} : up[s.lc][x] = up[s.lc][s.cur]
    /\ s.pc # "link" => s.todo = {}

Orders(up) ==
    /\ up \in [Layer -> [Node -> SUBSET Node]]
    /\ \A l \in Layer : Order(up[l])

\* An edge is never between two pieces.
EdgesJoin(up) ==
    \A n \in Node, l \in Layer : \A y \in links[n][l] : up[l][n] = up[l][y]

CallsGather(up) == \A w \in Worker : Gathers(up, work[w])

CallsHigh ==
    \A w \in Worker :
        /\ work[w].pc \in {"descend", "search", "own", "link"} => work[w].lc <= maxLevel
        /\ work[w].pc = "descend" => ~Newcomer(work[w].ep)

NewcomersAlone(up) ==
    \A n \in Node, l \in Layer :
        Newcomer(n) => up[l][n] = {n} /\ \A a \in Node : n \in up[l][a] => a = n

\* A node hangs below its entry point where it enters a layer, and below
\* nothing on the layers after it.
CallsPend(up) ==
    \A w \in Worker : \A l \in Ahead(work[w]) :
        /\ Enters(work[w], l) => Waiting(up[l], work[w].cur, work[w].ep)
        /\ ~Enters(work[w], l) => Settled(up[l], work[w].cur)

\* The nodes being inserted are in pieces of their own.
CallsApart(up) ==
    \A v, w \in Worker : \A l \in Ahead(work[v]) \cap Ahead(work[w]) :
        v # w => up[l][work[v].cur] # up[l][work[w].cur]

\* Of the nodes that reach a layer, those that hang below a newly inserted one
\* on the next layer down hang below it on this one.
HungAbove(up) ==
    \A w \in Worker, l \in Layer : l + 1 \in Ahead(work[w]) =>
        \A a \in Node :
            a # work[w].cur /\ level[a] >= l + 1 /\ work[w].cur \in up[l][a]
                => work[w].cur \in up[l + 1][a]

Hung(up) ==
    /\ Orders(up) /\ EdgesJoin(up) /\ CallsGather(up) /\ CallsHigh
    /\ NewcomersAlone(up) /\ CallsPend(up) /\ CallsApart(up) /\ HungAbove(up)

\* The pieces of the bottom layer.
SamePieces(up, q) == \A a, b \in Node : q[0][a] = q[0][b] <=> up[0][a] = up[0][b]
JoinedPieces(up, q, x, e) ==
    \A a, b \in Node : q[0][a] = q[0][b] <=>
        \/ up[0][a] = up[0][b]
        \/ up[0][a] \in {up[0][x], up[0][e]} /\ up[0][b] \in {up[0][x], up[0][e]}

\* A worker that goes on at the layers it had ahead leaves the order alone.
LEMMA MoveHung ==
    ASSUME IInv, NEW up, Hung(up), NEW w \in Worker, NEW s \in CallType,
           work' = [work EXCEPT ![w] = s],
           UNCHANGED <<level, allocated>>,
           maxLevel' \in Layer, maxLevel' >= maxLevel,
           EdgesJoin(up)', Gathers(up, s),
           \A l \in Ahead(s) :
               /\ l \in Ahead(work[w]) /\ s.cur = work[w].cur
               /\ Enters(s, l) <=> Enters(work[w], l)
               /\ Enters(s, l) => s.ep = work[w].ep,
           s.pc \in {"descend", "search", "own", "link"} => s.lc <= maxLevel',
           s.pc \in {"top", "descend"} =>
               work[w].pc \in {"top", "descend"} /\ s.cur = work[w].cur,
           s.pc = "descend" => ~Newcomer(s.ep)
    PROVE  Hung(up)'
<1>1. \A v \in Worker : work'[v] = IF v = w THEN s ELSE work[v]
  BY DEF IInv, TypeOK
<1>2. Orders(up)'
  BY DEF Hung, Orders
<1>3. CallsGather(up)'
  BY <1>1 DEF Hung, CallsGather, Gathers
<1>4. ASSUME NEW n, Newcomer(n)' PROVE Newcomer(n)
  BY <1>1, <1>4 DEF Newcomer
<1>5. CallsHigh'
  <2>1. \A v \in Worker : v # w /\ work[v].pc \in {"descend", "search", "own", "link"}
                            => work[v].lc <= maxLevel'
    BY DEF Hung, CallsHigh, IInv, TypeOK, CallType, Layer
  <2> QED
    BY <1>1, <1>4, <2>1 DEF Hung, CallsHigh
<1>6. NewcomersAlone(up)'
  BY <1>4 DEF Hung, NewcomersAlone
<1>7. CallsPend(up)'
  BY <1>1 DEF Hung, CallsPend, Ahead, Enters
<1>8. CallsApart(up)'
  BY <1>1 DEF Hung, CallsApart, Ahead
<1>9. HungAbove(up)'
  BY <1>1 DEF Hung, HungAbove, Ahead
<1> QED
  BY <1>2, <1>3, <1>5, <1>6, <1>7, <1>8, <1>9 DEF Hung

\* Before anything is linked every node hangs below itself alone.
LEMMA InitHung ==
    ASSUME Init, NEW up, up = [l \in Layer |-> [a \in Node |-> {a}]]
    PROVE  Hung(up)
<1>1. up = [l \in Layer |-> [a \in Node |-> {a}]]
  OBVIOUS
<1>2. \A l \in Layer, a \in Node : up[l][a] = {a}
  BY <1>1
<1>3. \A w \in Worker : work[w].pc = "idle" /\ work[w].todo = {} /\ Ahead(work[w]) = {}
  BY DEF Init, Idle, Call, Ahead
<1>4. Orders(up)
  BY <1>1 DEF Orders, Order
<1>5. EdgesJoin(up)
  BY DEF Init, EdgesJoin
<1>6. CallsGather(up) /\ CallsHigh
  BY <1>3 DEF CallsGather, Gathers, CallsHigh
<1>7. NewcomersAlone(up)
  BY <1>2 DEF NewcomersAlone
<1>8. CallsPend(up) /\ CallsApart(up) /\ HungAbove(up)
  BY <1>3 DEF CallsPend, CallsApart, HungAbove
<1> QED
  BY <1>4, <1>5, <1>6, <1>7, <1>8 DEF Hung

\* The node taken was a newcomer, and still is.
LEMMA ReceiveHung ==
    ASSUME IInv, NEW up, Hung(up), NEW w \in Worker, Receive(w)
    PROVE  Hung(up)'
<1> USE DEF Receive
<1>1. next \in Node /\ next \notin allocated
  BY DEF IInv, TypeOK, Turns, Node
<1>2. /\ AtTop(next).pc = "top" /\ AtTop(next).cur = next /\ AtTop(next).todo = {}
      /\ Ahead(AtTop(next)) = Layer
  BY <1>1 DEF AtTop, Call, Ahead
<1>3. \A v \in Worker : work'[v] = IF v = w THEN AtTop(next) ELSE work[v]
  BY DEF IInv, TypeOK
<1>4. Orders(up)' /\ EdgesJoin(up)'
  BY DEF Hung, Orders, EdgesJoin
<1>5. CallsGather(up)'
  BY <1>2, <1>3 DEF Hung, CallsGather, Gathers
<1>6. ASSUME NEW n, Newcomer(n)' PROVE Newcomer(n)
  BY <1>1, <1>2, <1>3, <1>6 DEF Newcomer
<1>7. CallsHigh'
  BY <1>2, <1>3, <1>6 DEF Hung, CallsHigh
<1>8. NewcomersAlone(up)'
  BY <1>6 DEF Hung, NewcomersAlone
<1>9. \A l \in Layer : /\ up[l][next] = {next}
                       /\ \A a \in Node : next \in up[l][a] => a = next
  BY <1>1 DEF Hung, NewcomersAlone, Newcomer
<1>10. CallsPend(up)'
  <2>1. \A l \in Layer : Settled(up[l], next)
    BY <1>9 DEF Settled
  <2>2. \A v \in Worker \ {w} : Ahead(work'[v]) = Ahead(work[v]) /\ Ahead(work[v]) \subseteq Layer
    BY <1>3 DEF Ahead
  <2>3. Ahead(work'[w]) = Layer /\ work'[w].cur = next /\ \A l \in Layer : ~Enters(work'[w], l)
    BY <1>2, <1>3 DEF Enters
  <2> QED
    BY <1>3, <2>1, <2>2, <2>3 DEF Hung, CallsPend
<1>11. CallsApart(up)'
  <2>1. ASSUME NEW v \in Worker, v # w, NEW l \in Ahead(work[v])
        PROVE  up[l][work[v].cur] # up[l][next]
    <3>1. v \in Busy /\ l \in Layer /\ work[v].cur \in Node
      BY <2>1 DEF Ahead, Busy, IInv, TypeOK, CallType
    <3>2. work[v].cur # next
      BY <1>1, <3>1 DEF IInv, Turns, TypeOK
    <3>3. work[v].cur \in up[l][work[v].cur]
      BY <3>1 DEF Hung, Orders, Order
    <3> QED
      BY <1>9, <3>1, <3>2, <3>3
  <2>2. \A v \in Worker : Ahead(work'[v]) = IF v = w THEN Layer ELSE Ahead(work[v])
    BY <1>2, <1>3
  <2> QED
    BY <1>2, <1>3, <2>1, <2>2 DEF Hung, CallsApart
<1>12. HungAbove(up)'
  <2>1. \A v \in Worker \ {w} : Ahead(work'[v]) = Ahead(work[v])
    BY <1>3
  <2>2. work'[w].cur = next
    BY <1>2, <1>3
  <2> QED
    BY <1>3, <1>9, <2>1, <2>2 DEF Hung, HungAbove
<1> QED
  BY <1>4, <1>5, <1>7, <1>8, <1>10, <1>11, <1>12 DEF Hung

\* A newcomer that starts its first search, at layer l and from e, is hung
\* below e there.
LEMMA EnterHung ==
    ASSUME IInv, NEW up, Hung(up), NEW w \in Worker,
           work[w].pc \in {"top", "descend"},
           NEW e \in Node, ~Newcomer(e),
           NEW l \in Layer, l <= maxLevel, level[work[w].cur] >= l,
           l = maxLevel \/ level[work[w].cur] = l,
           work' = [work EXCEPT ![w] = Searching(work[w].cur, e, l)],
           UNCHANGED <<level, allocated, links, entry, maxLevel, next, ready>>
    PROVE  \E q : Hung(q)' /\ SamePieces(up, q)
<1> DEFINE x == work[w].cur
<1>1. PICK q : q = [up EXCEPT ![l] = Hang(up[l], x, e)]
  OBVIOUS
<1>2. /\ \A k \in Layer : Order(up[k])
      /\ up \in [Layer -> [Node -> SUBSET Node]]
  BY DEF Hung, Orders
<1>3. \A k \in Layer : q[k] = IF k = l THEN Hang(up[l], x, e) ELSE up[k]
  BY <1>1, <1>2
<1>4. x \in Node /\ Newcomer(x) /\ e # x /\ w \in Busy
  BY DEF IInv, TypeOK, CallType, Newcomer, Busy
<1>5. \A n \in Node, k \in Layer : Newcomer(n) =>
          up[k][n] = {n} /\ \A a \in Node : n \in up[k][a] => a = n
  BY DEF Hung, NewcomersAlone
<1>6. \A n \in Node : Newcomer(n) => n \notin up[l][e]
  BY <1>5
<1>7. /\ Order(q[l])
      /\ \A a, b \in Node : b \in q[l][a] <=> b \in up[l][a] \/ (x \in up[l][a] /\ b \in up[l][e])
      /\ \A a, b \in Node : q[l][a] = q[l][b] <=> up[l][a] = up[l][b]
  <2>1. Order(up[l]) /\ x \notin up[l][e] /\ q[l] = Hang(up[l], x, e)
    BY <1>2, <1>3, <1>4, <1>6
  <2> QED
    BY <1>4, <2>1, Entering
<1>8. /\ \A k \in Layer, a, b \in Node : b \in up[k][a] => b \in q[k][a]
      /\ \A k \in Layer, a, b \in Node : q[k][a] = q[k][b] <=> up[k][a] = up[k][b]
      /\ \A k \in Layer, a, b \in Node : a # x => (b \in up[k][a] <=> b \in q[k][a])
  BY <1>3, <1>4, <1>5, <1>7
<1> DEFINE s == Searching(x, e, l)
<1>9. /\ s.pc = "search" /\ s.cur = x /\ s.ep = e /\ s.lc = l
      /\ s.seen = {e} /\ s.cand = {e} /\ s.found = {e} \ {x} /\ s.todo = {}
  BY DEF Searching, Call
<1>10. \A v \in Worker : work'[v] = IF v = w THEN s ELSE work[v]
  BY DEF IInv, TypeOK
<1> HIDE DEF s
<1>11. /\ Ahead(s) = { k \in Layer : k <= l }
       /\ \A k \in Layer : Enters(s, k) <=> k = l
  BY <1>9 DEF Ahead, Enters
<1>12. Ahead(work[w]) = Layer /\ \A k \in Layer : ~Enters(work[w], k)
  BY DEF Ahead, Enters
<1>13. \A v \in Worker : Ahead(work[v]) \subseteq Layer /\ work[v] \in CallType
                         /\ work[v].cur \in Node /\ work[v].ep \in Node /\ work[v].lc \in Layer
  BY DEF Ahead, IInv, TypeOK, CallType
<1>14. \A v \in Worker : v # w /\ Ahead(work[v]) # {} => work[v].cur # x
  <2>1. \A v \in Worker : Ahead(work[v]) # {} => v \in Busy
    BY DEF Ahead, Busy
  <2> QED
    BY <1>4, <2>1 DEF IInv, Turns
<1>20. Orders(q)'
  <2>1. q \in [Layer -> [Node -> SUBSET Node]]
    BY <1>1, <1>2, <1>3, <1>7 DEF Order
  <2> QED
    BY <1>2, <1>3, <1>7, <2>1 DEF Orders
<1>21. EdgesJoin(q)'
  BY <1>8 DEF Hung, EdgesJoin, IInv, TypeOK
<1>22. CallsGather(q)'
  <2>1. Gathers(q, s)
    BY <1>4, <1>9 DEF Gathers
  <2>2. ASSUME NEW v \in Worker, v # w PROVE Gathers(q, work[v])
    <3>1. Gathers(up, work[v])
      BY DEF Hung, CallsGather
    <3>2. /\ work[v].seen \subseteq Node /\ work[v].cand \subseteq Node
          /\ work[v].found \subseteq Node /\ work[v].todo \subseteq Node
      BY <1>13 DEF CallType
    <3> QED
      BY <1>8, <1>13, <3>1, <3>2 DEF Gathers
  <2>3. \A v \in Worker : Gathers(q, work'[v])
    BY <1>10, <2>1, <2>2
  <2> QED
    BY <2>3 DEF CallsGather, Gathers
<1>23. ASSUME NEW n, Newcomer(n)' PROVE Newcomer(n) /\ n # x
  <2>1. Newcomer(n)
    BY <1>9, <1>10, <1>23 DEF Newcomer
  <2>2. n # x
    <3>1. x \in allocated
      BY <1>4 DEF IInv, Turns, TypeOK
    <3>2. \A v \in Worker : work[v].pc \in {"top", "descend"} => v \in Busy
      BY DEF Busy
    <3>3. \A v \in Worker : v # w /\ work[v].pc \in {"top", "descend"} => work[v].cur # x
      BY <1>4, <3>2 DEF IInv, Turns
    <3> QED
      BY <1>9, <1>10, <1>23, <3>1, <3>3 DEF Newcomer
  <2> QED
    BY <2>1, <2>2
<1>24. CallsHigh'
  BY <1>9, <1>10, <1>23 DEF Hung, CallsHigh
<1>25. NewcomersAlone(q)'
  <2>1. ASSUME NEW n \in Node, NEW k \in Layer, Newcomer(n), n # x
        PROVE  q[k][n] = {n} /\ \A a \in Node : n \in q[k][a] => a = n
    <3>1. up[k][n] = {n} /\ \A a \in Node : n \in up[k][a] => a = n
      BY <1>5, <2>1
    <3>2. Order(q[k])
      BY <1>2, <1>3, <1>7
    <3>3. q[k][n] \subseteq Node
      BY <3>2 DEF Order
    <3>4. q[k][n] = {n}
      BY <1>8, <2>1, <3>1, <3>3
    <3>5. n \notin up[l][e]
      BY <1>6, <2>1
    <3>6. \A a \in Node : n \in q[k][a] => n \in up[k][a]
      BY <1>3, <1>7, <3>5
    <3> QED
      BY <3>1, <3>4, <3>6
  <2> QED
    BY <1>23, <2>1 DEF NewcomersAlone
<1>26. CallsPend(q)'
  <2>1. ASSUME NEW k \in Ahead(s)
        PROVE  /\ Enters(s, k) => Waiting(q[k], x, e)
               /\ ~Enters(s, k) => Settled(q[k], x)
    <3>1. k \in Layer
      BY <1>11
    <3>2. CASE k = l
      <4>1. up[l][x] = {x} /\ x \notin up[l][e] /\ e \in up[l][e] /\ x \in up[l][x]
        BY <1>2, <1>4, <1>5, <1>6 DEF Order
      <4>2. e \in q[l][x] /\ x \notin q[l][e]
        BY <1>4, <1>7, <4>1
      <4>3. \A y \in q[l][x] : y \in Node /\ (y = x \/ y \in q[l][e])
        BY <1>4, <1>7, <4>1 DEF Order
      <4> QED
        BY <1>11, <3>2, <4>2, <4>3 DEF Waiting
    <3>3. CASE k # l
      <4>1. q[k][x] = {x}
        BY <1>3, <1>4, <1>5, <3>1, <3>3
      <4> QED
        BY <1>11, <3>1, <3>3, <4>1 DEF Settled
    <3> QED
      BY <3>2, <3>3
  <2>2. ASSUME NEW v \in Worker, v # w, NEW k \in Ahead(work[v])
        PROVE  /\ Enters(work[v], k) => Waiting(q[k], work[v].cur, work[v].ep)
               /\ ~Enters(work[v], k) => Settled(q[k], work[v].cur)
    <3>1. /\ Enters(work[v], k) => Waiting(up[k], work[v].cur, work[v].ep)
          /\ ~Enters(work[v], k) => Settled(up[k], work[v].cur)
      BY <2>2 DEF Hung, CallsPend
    <3>2. work[v].cur # x /\ k \in Layer /\ work[v].cur \in Node /\ work[v].ep \in Node
      BY <1>13, <1>14, <2>2
    <3>3. CASE k = l
      <4>1. up[l][work[v].cur] # up[l][x]
        BY <1>2, <1>4, <1>5, <3>2 DEF Order
      <4>2. Order(up[l]) /\ x \notin up[l][e] /\ q[l] = Hang(up[l], x, e)
        BY <1>2, <1>3, <1>4, <1>6
      <4>3. /\ Settled(up[l], work[v].cur) => Settled(q[l], work[v].cur)
            /\ Waiting(up[l], work[v].cur, work[v].ep) => Waiting(q[l], work[v].cur, work[v].ep)
        BY <1>4, <3>2, <4>1, <4>2, EnteringKeeps
      <4> QED
        BY <3>1, <3>3, <4>3
    <3>4. CASE k # l
      BY <1>3, <3>1, <3>2, <3>4
    <3> QED
      BY <3>3, <3>4
  <2> QED
    BY <1>9, <1>10, <2>1, <2>2 DEF CallsPend, Ahead, Enters
<1>27. CallsApart(q)'
  <2>1. Ahead(s) \subseteq Ahead(work[w])
    BY <1>11, <1>12
  <2>2. \A v, u \in Worker : \A k \in Ahead(work[v]) \cap Ahead(work[u]) :
          v # u => q[k][work[v].cur] # q[k][work[u].cur]
    BY <1>8, <1>13 DEF Hung, CallsApart
  <2>3. \A v \in Worker : Ahead(work'[v]) \subseteq Ahead(work[v]) /\ work'[v].cur = work[v].cur
    BY <1>9, <1>10, <2>1
  <2> QED
    BY <2>2, <2>3 DEF CallsApart
<1>28. HungAbove(q)'
  <2>1. ASSUME NEW k \in Layer, k + 1 \in Ahead(s), NEW a \in Node, a # x,
               x \in q[k][a]
        PROVE  FALSE
    BY <1>3, <1>4, <1>5, <1>6, <1>7, <2>1
  <2>2. ASSUME NEW v \in Worker, v # w, NEW k \in Layer, k + 1 \in Ahead(work[v]),
               NEW a \in Node, a # work[v].cur, level[a] >= k + 1, work[v].cur \in q[k][a]
        PROVE  work[v].cur \in q[k + 1][a]
    <3>1. work[v].cur \in Node /\ k + 1 \in Layer
      BY <1>13, <2>2
    <3>2. CASE work[v].cur \in up[k][a]
      <4>1. work[v].cur \in up[k + 1][a]
        BY <2>2, <3>2 DEF Hung, HungAbove
      <4> QED
        BY <1>8, <3>1, <4>1
    <3>3. CASE k = l /\ x \in up[l][a] /\ work[v].cur \in up[l][e]
      \* then v has not entered any layer
      <4>1. a = x
        BY <1>4, <1>5, <3>3
      <4>2. l = maxLevel
        BY <2>2, <3>3, <4>1 DEF Layer, IInv, TypeOK
      <4>3. work[v].pc \in {"top", "descend"}
        <5>1. work[v].lc <= maxLevel => ~(k + 1 <= work[v].lc)
          BY <1>13, <3>3, <4>2 DEF Layer
        <5>2. work[v].lc <= maxLevel => ~(k + 1 < work[v].lc)
          BY <1>13, <3>3, <4>2 DEF Layer
        <5> QED
          BY <2>2, <5>1, <5>2 DEF Ahead, Hung, CallsHigh
      <4>4. Newcomer(work[v].cur)
        BY <4>3 DEF Newcomer
      <4> QED
        BY <1>6, <3>1, <3>3, <4>4
    <3> QED
      BY <1>3, <1>7, <2>2, <3>1, <3>2, <3>3
  <2>3. ASSUME NEW v \in Worker, NEW k \in Layer, k + 1 \in Ahead(work'[v]), NEW a \in Node,
               a # work'[v].cur, level[a] >= k + 1, work'[v].cur \in q[k][a]
        PROVE  work'[v].cur \in q[k + 1][a]
    <3>1. CASE v = w
      BY <1>9, <1>10, <2>1, <2>3, <3>1
    <3>2. CASE v # w
      BY <1>10, <2>2, <2>3, <3>2
    <3> QED
      BY <3>1, <3>2
  <2> QED
    BY <2>3 DEF HungAbove, Ahead
<1>29. SamePieces(up, q)
  BY <1>8 DEF SamePieces, Layer
<1> QED
  BY <1>20, <1>21, <1>22, <1>24, <1>25, <1>26, <1>27, <1>28, <1>29 DEF Hung

\* Storing a node's list joins it to its entry point on this layer, and hangs
\* it below the nearest node found on the next.
LEMMA JoinHung ==
    ASSUME IInv, NEW up, Hung(up), NEW w \in Worker, work[w].pc = "own",
           NEW K \in SUBSET work[w].found, NEW e \in work[w].found,
           NEW own \in SUBSET (work[w].found \cup links[work[w].cur][work[w].lc]),
           links' = [links EXCEPT ![work[w].cur][work[w].lc] = own],
           work' = [work EXCEPT ![w] = Linking(work[w].cur, e, work[w].lc, K)],
           UNCHANGED <<level, allocated, entry, maxLevel, next, ready>>
    PROVE  \E q : /\ Hung(q)'
                  /\ work[w].lc = 0 => JoinedPieces(up, q, work[w].cur, work[w].ep)
                  /\ work[w].lc # 0 => SamePieces(up, q)
<1> DEFINE x == work[w].cur
           p == work[w].ep
           l == work[w].lc
<1>1. PICK q : q = [k \in Layer |-> IF k = l THEN Hang(up[k], p, x)
                                   ELSE IF k = l - 1 THEN Hang(up[k], x, e)
                                   ELSE up[k]]
  OBVIOUS
<1>2. \A k \in Layer : Order(up[k])
  BY DEF Hung, Orders
<1>3. /\ work[w] \in CallType /\ x \in Node /\ p \in Node /\ l \in Layer /\ l \in Nat
      /\ work[w].found \subseteq Node /\ e \in Node /\ w \in Busy
  BY DEF IInv, TypeOK, CallType, Layer, Busy
<1>4. l - 1 # l /\ (l # 0 => l - 1 \in Layer /\ (l - 1) + 1 = l)
  BY <1>3 DEF Layer
<1>5. /\ q[l] = Hang(up[l], p, x)
      /\ l # 0 => q[l - 1] = Hang(up[l - 1], x, e)
      /\ \A k \in Layer : k # l /\ k # l - 1 => q[k] = up[k]
  BY <1>1, <1>3, <1>4
<1>6. Ahead(work[w]) = { k \in Layer : k <= l } /\ \A k \in Layer : Enters(work[w], k) <=> k = l
  BY DEF Ahead, Enters
<1>7. l \in Ahead(work[w])
  BY <1>3, <1>6
<1>8. Waiting(up[l], x, p)
  BY <1>3, <1>6, <1>7 DEF Hung, CallsPend
<1>9. \A y \in work[w].found : y \in Node /\ level[y] >= l /\ up[l][y] = up[l][p]
  BY <1>3 DEF Hung, CallsGather, Gathers, IInv, WalkInBounds, InBounds, Occupies
<1>10. l # 0 => x \notin up[l - 1][e]
  <2> SUFFICES ASSUME l # 0, x \in up[l - 1][e] PROVE FALSE
    OBVIOUS
  <2>1. e # x
    BY DEF IInv, WalkInBounds, InBounds
  <2>2. x \in up[l][e]
    BY <1>3, <1>4, <1>7, <1>9, <2>1 DEF Hung, HungAbove
  <2> QED
    BY <1>8, <1>9, <2>2 DEF Waiting
<1>11. /\ Order(q[l])
       /\ \A a, b \in Node : b \in q[l][a] <=> b \in up[l][a] \/ (p \in up[l][a] /\ b \in up[l][x])
       /\ \A a, b \in Node : up[l][a] = up[l][b] => q[l][a] = q[l][b]
       /\ q[l][x] = q[l][p]
       /\ \A a, b \in Node : up[l][b] # up[l][x] /\ b \in q[l][a] => b \in up[l][a]
       /\ \A a, b \in Node : q[l][a] = q[l][b] =>
                \/ up[l][a] = up[l][b]
                \/ up[l][a] \in {up[l][x], up[l][p]} /\ up[l][b] \in {up[l][x], up[l][p]}
  <2>1. Order(up[l])
    BY <1>2, <1>3
  <2>2. x \in Node /\ p \in Node /\ Waiting(up[l], x, p) /\ q[l] = Hang(up[l], p, x)
    BY <1>3, <1>5, <1>8
  <2> HIDE DEF x, p, l
  <2> QED
    BY <2>1, <2>2, Joining
<1>12. l # 0 =>
       /\ Order(q[l - 1])
       /\ \A a, b \in Node : b \in q[l - 1][a] <=>
                b \in up[l - 1][a] \/ (x \in up[l - 1][a] /\ b \in up[l - 1][e])
       /\ \A a, b \in Node : q[l - 1][a] = q[l - 1][b] <=> up[l - 1][a] = up[l - 1][b]
  <2>1. l # 0 => Order(up[l - 1]) /\ q[l - 1] = Hang(up[l - 1], x, e) /\ x \notin up[l - 1][e]
    BY <1>2, <1>4, <1>5, <1>10
  <2>2. x \in Node /\ e \in Node
    BY <1>3
  <2> HIDE DEF x, p, l
  <2> QED
    BY <2>1, <2>2, Entering
<1>13. \A k \in Layer : Order(q[k])
  <2> HIDE DEF x, p, l
  <2>1. ASSUME NEW k \in Layer, k = l - 1 PROVE Order(q[k])
    BY <1>12, <2>1 DEF Layer
  <2> QED
    BY <1>2, <1>5, <1>11, <2>1
<1>14. /\ \A k \in Layer, a, b \in Node : b \in up[k][a] => b \in q[k][a]
       /\ \A k \in Layer, a, b \in Node : up[k][a] = up[k][b] => q[k][a] = q[k][b]
       /\ \A k \in Layer, a, b \in Node : k # l /\ q[k][a] = q[k][b] => up[k][a] = up[k][b]
  <2> SUFFICES ASSUME NEW k \in Layer, NEW a \in Node, NEW b \in Node
               PROVE  /\ b \in up[k][a] => b \in q[k][a]
                      /\ up[k][a] = up[k][b] => q[k][a] = q[k][b]
                      /\ k # l /\ q[k][a] = q[k][b] => up[k][a] = up[k][b]
    OBVIOUS
  <2> HIDE DEF x, p, l
  <2>1. CASE k = l
    BY <1>11, <2>1
  <2>2. CASE k = l - 1
    BY <1>4, <1>12, <2>2 DEF Layer
  <2>3. CASE k # l /\ k # l - 1
    BY <1>5, <2>3
  <2> QED
    BY <2>1, <2>2, <2>3
<1> DEFINE t == Linking(x, e, l, K)
<1>15. t.pc = "link" /\ t.cur = x /\ t.ep = e /\ t.lc = l /\ t.todo = K
  BY DEF Linking, Call
<1>16. \A v \in Worker : work'[v] = IF v = w THEN t ELSE work[v]
  BY DEF IInv, TypeOK
<1> HIDE DEF t
<1>17. /\ Ahead(t) = { k \in Layer : k < l }
       /\ \A k \in Layer : Enters(t, k) <=> k = l - 1
  BY <1>3, <1>15 DEF Ahead, Enters, Layer
<1>18. \A v \in Worker : Ahead(work[v]) \subseteq Layer /\ work[v] \in CallType
                         /\ work[v].cur \in Node /\ work[v].ep \in Node /\ work[v].lc \in Layer
  BY DEF Ahead, IInv, TypeOK, CallType
<1>19. \A v \in Worker : \A k \in Ahead(work[v]) :
          v # w /\ k <= l => up[k][work[v].cur] # up[k][x]
  BY <1>6, <1>18 DEF Hung, CallsApart
<1>20. Orders(q)'
  <2>1. \A k \in Layer : q[k] \in [Node -> SUBSET Node]
    BY <1>13 DEF Order
  <2> QED
    BY <1>1, <1>13, <2>1 DEF Orders
<1>21. EdgesJoin(q)'
  <2>1. \A n \in Node, k \in Layer : links'[n][k] = IF n = x /\ k = l THEN own ELSE links[n][k]
    BY <1>3 DEF IInv, TypeOK
  <2>2. \A n \in Node, k \in Layer : \A y \in links[n][k] : y \in Node /\ q[k][n] = q[k][y]
    BY <1>14 DEF Hung, EdgesJoin, IInv, TypeOK
  <2>3. \A y \in work[w].found : q[l][y] = q[l][x]
    BY <1>3, <1>9, <1>11
  <2> QED
    BY <1>3, <2>1, <2>2, <2>3 DEF EdgesJoin
<1>22. CallsGather(q)'
  <2>1. Gathers(q, t)
    <3>1. \A y \in work[w].found : q[l][y] = q[l][x]
      BY <1>3, <1>9, <1>11
    <3> QED
      BY <1>15, <3>1 DEF Gathers
  <2>2. ASSUME NEW v \in Worker, v # w PROVE Gathers(q, work[v])
    <3>1. Gathers(up, work[v])
      BY DEF Hung, CallsGather
    <3>2. /\ work[v].seen \subseteq Node /\ work[v].cand \subseteq Node
          /\ work[v].found \subseteq Node /\ work[v].todo \subseteq Node
      BY <1>18 DEF CallType
    <3>3. \A a, b \in Node :
            up[work[v].lc][a] = up[work[v].lc][b] => q[work[v].lc][a] = q[work[v].lc][b]
      BY <1>14, <1>18
    <3>4. work[v].cur \in Node /\ work[v].ep \in Node
      BY <1>18
    <3> HIDE DEF x, p, l
    <3> QED
      BY <3>1, <3>2, <3>3, <3>4 DEF Gathers
  <2>3. \A v \in Worker : Gathers(q, work'[v])
    BY <1>16, <2>1, <2>2
  <2> QED
    BY <2>3 DEF CallsGather, Gathers
<1>23. ASSUME NEW n, Newcomer(n)' PROVE Newcomer(n) /\ n # x
  <2>1. Newcomer(n)
    BY <1>15, <1>16, <1>23 DEF Newcomer
  <2>2. n # x
    <3>1. x \in allocated
      BY <1>3 DEF IInv, Turns, TypeOK
    <3>2. \A v \in Worker : work[v].pc \in {"top", "descend"} => v \in Busy
      BY DEF Busy
    <3>3. \A v \in Worker : v # w /\ work[v].pc \in {"top", "descend"} => work[v].cur # x
      BY <1>3, <3>2 DEF IInv, Turns
    <3> QED
      BY <1>15, <1>16, <1>23, <3>1, <3>3 DEF Newcomer
  <2> QED
    BY <2>1, <2>2
<1>24. CallsHigh'
  <2>1. l <= maxLevel
    BY DEF Hung, CallsHigh
  <2> QED
    BY <1>15, <1>16, <1>23, <2>1 DEF Hung, CallsHigh
<1>25. NewcomersAlone(q)'
  <2>1. ASSUME NEW n \in Node, NEW k \in Layer, Newcomer(n), n # x
        PROVE  q[k][n] = {n} /\ \A a \in Node : n \in q[k][a] => a = n
    <3>1. \A j \in Layer : up[j][n] = {n} /\ \A a \in Node : n \in up[j][a] => a = n
      BY <2>1 DEF Hung, NewcomersAlone
    <3>2. n # p
      <4>1. p \in up[l][x]
        BY <1>8 DEF Waiting
      <4> QED
        BY <1>3, <2>1, <3>1, <4>1
    <3>3. n # e
      BY <1>2, <1>3, <1>9, <3>1, <3>2 DEF Order
    <3>4. CASE k = l
      <4>1. p \notin up[l][n] /\ n \notin up[l][x]
        BY <1>3, <2>1, <3>1, <3>2
      <4>2. q[l][n] = up[l][n]
        BY <1>3, <1>5, <4>1 DEF Hang
      <4>3. \A a \in Node : n \in q[l][a] => n \in up[l][a]
        BY <1>11, <4>1
      <4> QED
        BY <1>3, <3>1, <3>4, <4>2, <4>3
    <3>5. CASE k = l - 1
      <4>1. l # 0
        BY <3>5 DEF Layer
      <4>2. x \notin up[k][n] /\ n \notin up[k][e]
        BY <1>3, <2>1, <3>1, <3>3
      <4>3. q[k] = Hang(up[k], x, e)
        BY <1>5, <3>5, <4>1
      <4>4. q[k][n] = up[k][n]
        BY <4>2, <4>3 DEF Hang
      <4>5. \A a \in Node : n \in q[k][a] => n \in up[k][a]
        BY <1>12, <3>5, <4>1, <4>2
      <4> QED
        BY <3>1, <4>4, <4>5
    <3> QED
      BY <1>5, <3>1, <3>4, <3>5
  <2> QED
    BY <1>23, <2>1 DEF NewcomersAlone
<1>26. CallsPend(q)'
  <2>1. ASSUME NEW k \in Ahead(t)
        PROVE  /\ Enters(t, k) => Waiting(q[k], x, e)
               /\ ~Enters(t, k) => Settled(q[k], x)
    <3>1. k \in Layer /\ k < l /\ k # l /\ k <= l
      BY <1>3, <1>17, <2>1 DEF Layer
    <3>2. Settled(up[k], x)
      BY <1>6, <3>1 DEF Hung, CallsPend
    <3>3. CASE k = l - 1
      <4>1. l # 0 /\ x \notin up[k][e] /\ e \in up[k][e] /\ x \in up[k][x] /\ q[k][x] \subseteq Node
        BY <1>2, <1>3, <1>10, <1>13, <3>1, <3>3 DEF Order, Layer
      <4>2. e \in q[k][x] /\ x \notin q[k][e]
        BY <1>3, <1>12, <3>3, <4>1
      <4>3. \A y \in q[k][x] : q[k][y] = q[k][x] \/ y \in q[k][e]
        <5> SUFFICES ASSUME NEW y \in q[k][x] PROVE q[k][y] = q[k][x] \/ y \in q[k][e]
          OBVIOUS
        <5>1. y \in Node
          BY <4>1
        <5>2. y \in up[k][x] \/ y \in up[k][e]
          BY <1>3, <1>12, <3>3, <4>1, <5>1
        <5>3. y \in up[k][x] => up[k][y] = up[k][x]
          BY <3>2 DEF Settled
        <5> QED
          BY <1>3, <1>14, <3>1, <5>1, <5>2, <5>3
      <4> QED
        BY <1>17, <3>1, <3>3, <4>2, <4>3 DEF Waiting
    <3>4. CASE k # l - 1
      BY <1>5, <1>17, <3>1, <3>2, <3>4
    <3> QED
      BY <3>3, <3>4
  <2>2. ASSUME NEW v \in Worker, v # w, NEW k \in Ahead(work[v])
        PROVE  /\ Enters(work[v], k) => Waiting(q[k], work[v].cur, work[v].ep)
               /\ ~Enters(work[v], k) => Settled(q[k], work[v].cur)
    <3>1. /\ Enters(work[v], k) => Waiting(up[k], work[v].cur, work[v].ep)
          /\ ~Enters(work[v], k) => Settled(up[k], work[v].cur)
      BY <2>2 DEF Hung, CallsPend
    <3>2. k \in Layer /\ work[v].cur \in Node /\ work[v].ep \in Node /\ Order(up[k])
      BY <1>2, <1>18, <2>2
    <3>3. CASE k = l
      <4>1. up[k][work[v].cur] # up[k][x] /\ Waiting(up[k], x, p) /\ q[k] = Hang(up[k], p, x)
        BY <1>5, <1>8, <1>19, <1>3, <2>2, <3>3
      <4>2. /\ Settled(up[k], work[v].cur) => Settled(q[k], work[v].cur)
            /\ Waiting(up[k], work[v].cur, work[v].ep) => Waiting(q[k], work[v].cur, work[v].ep)
        BY <1>3, <3>2, <4>1, JoiningKeeps
      <4> QED
        BY <3>1, <4>2
    <3>4. CASE k = l - 1
      <4>1. l # 0 /\ k <= l
        BY <1>3, <3>2, <3>4 DEF Layer
      <4>2. up[k][work[v].cur] # up[k][x] /\ x \notin up[k][e] /\ q[k] = Hang(up[k], x, e)
        BY <1>5, <1>10, <1>19, <2>2, <3>4, <4>1
      <4>3. /\ Settled(up[k], work[v].cur) => Settled(q[k], work[v].cur)
            /\ Waiting(up[k], work[v].cur, work[v].ep) => Waiting(q[k], work[v].cur, work[v].ep)
        BY <1>3, <3>2, <4>2, EnteringKeeps
      <4> QED
        BY <3>1, <4>3
    <3>5. CASE k # l /\ k # l - 1
      BY <1>5, <3>1, <3>2, <3>5
    <3> QED
      BY <3>3, <3>4, <3>5
  <2> QED
    BY <1>15, <1>16, <2>1, <2>2 DEF CallsPend, Ahead, Enters
<1>27. CallsApart(q)'
  <2>1. ASSUME NEW v \in Worker, NEW u \in Worker, v # u,
               NEW k \in Ahead(work[v]), k \in Ahead(work[u]),
               k # l \/ (v # w /\ u # w)
        PROVE  q[k][work[v].cur] # q[k][work[u].cur]
    <3>1. up[k][work[v].cur] # up[k][work[u].cur]
      BY <2>1 DEF Hung, CallsApart
    <3>2. k \in Layer /\ work[v].cur \in Node /\ work[u].cur \in Node
      BY <1>18, <2>1
    <3>3. CASE k # l
      BY <1>14, <3>1, <3>2, <3>3
    <3>4. CASE k = l
      <4>1. up[l][work[v].cur] # up[l][x] /\ up[l][work[u].cur] # up[l][x]
        BY <1>3, <1>19, <2>1, <3>4
      <4> QED
        BY <1>11, <3>1, <3>2, <3>4, <4>1
    <3> QED
      BY <3>3, <3>4
  <2>2. /\ \A v \in Worker : Ahead(work'[v]) \subseteq Ahead(work[v]) /\ work'[v].cur = work[v].cur
        /\ l \notin Ahead(work'[w])
    BY <1>3, <1>6, <1>15, <1>16, <1>17 DEF Layer
  <2>3. ASSUME NEW v \in Worker, NEW u \in Worker, v # u,
               NEW k \in Ahead(work'[v]) \cap Ahead(work'[u])
        PROVE  q[k][work'[v].cur] # q[k][work'[u].cur]
    BY <2>1, <2>2, <2>3
  <2>4. \A v \in Worker : Ahead(work[v])' = Ahead(work'[v])
    BY DEF Ahead
  <2> HIDE DEF x, p, l
  <2> QED
    BY <2>3, <2>4 DEF CallsApart
<1>28. HungAbove(q)'
  <2>1. ASSUME NEW k \in Layer, k + 1 \in Ahead(t), NEW a \in Node, a # x,
               level[a] >= k + 1, x \in q[k][a]
        PROVE  x \in q[k + 1][a]
    <3>1. k # l /\ k # l - 1 /\ k + 1 \in Layer /\ k + 1 \in Ahead(work[w])
      BY <1>3, <1>6, <1>17, <2>1 DEF Layer
    <3>2. q[k] = up[k]
      BY <1>5, <3>1
    <3>3. x \in up[k + 1][a]
      BY <2>1, <3>1, <3>2 DEF Hung, HungAbove
    <3> QED
      BY <1>3, <1>14, <2>1, <3>1, <3>3
  <2>2. ASSUME NEW v \in Worker, v # w, NEW k \in Layer, k + 1 \in Ahead(work[v]),
               NEW a \in Node, a # work[v].cur, level[a] >= k + 1, work[v].cur \in q[k][a]
        PROVE  work[v].cur \in q[k + 1][a]
    <3> DEFINE c == work[v].cur
    <3>1. c \in Node /\ k + 1 \in Layer
      BY <1>18, <2>2
    <3>2. CASE c \in up[k][a]
      <4>1. c \in up[k + 1][a]
        BY <2>2, <3>2 DEF Hung, HungAbove
      <4> QED
        BY <1>14, <3>1, <4>1
    <3>3. CASE k = l
      <4>1. k \in Ahead(work[v])
        BY <1>18, <2>2 DEF Ahead, Layer
      <4>2. up[l][c] # up[l][x]
        BY <1>3, <1>19, <2>2, <3>3, <4>1
      <4> QED
        BY <1>11, <2>2, <3>1, <3>2, <3>3, <4>2
    <3>4. CASE k = l - 1 /\ x \in up[k][a] /\ c \in up[k][e]
      <4>1. l # 0 /\ k + 1 = l
        BY <1>3, <3>4 DEF Layer
      <4>2. x \in q[l][a]
        <5>1. a # x => x \in up[l][a]
          BY <1>3, <1>7, <2>2, <3>4, <4>1 DEF Hung, HungAbove
        <5> QED
          BY <1>3, <1>13, <1>14, <5>1 DEF Order
      <4>3. c \in q[l][e]
        <5>1. e # c => c \in up[l][e]
          BY <1>3, <1>9, <2>2, <3>4, <4>1 DEF Hung, HungAbove
        <5> QED
          BY <1>3, <1>13, <1>14, <3>1, <5>1 DEF Order
      <4>4. q[l][e] = q[l][x]
        BY <1>3, <1>9, <1>11
      <4>5. q[l][x] \subseteq q[l][a]
        BY <1>11, <2>2, <4>2 DEF Order
      <4> QED
        BY <4>1, <4>3, <4>4, <4>5
    <3> QED
      BY <1>4, <1>5, <1>12, <2>2, <3>1, <3>2, <3>3, <3>4 DEF Layer
  <2>3. ASSUME NEW v \in Worker, NEW k \in Layer, k + 1 \in Ahead(work'[v]), NEW a \in Node,
               a # work'[v].cur, level[a] >= k + 1, work'[v].cur \in q[k][a]
        PROVE  work'[v].cur \in q[k + 1][a]
    <3>1. CASE v = w
      BY <1>15, <1>16, <2>1, <2>3, <3>1
    <3>2. CASE v # w
      BY <1>16, <2>2, <2>3, <3>2
    <3> QED
      BY <3>1, <3>2
  <2> QED
    BY <2>3 DEF HungAbove, Ahead
<1>29. l = 0 => JoinedPieces(up, q, x, p)
  BY <1>3, <1>11 DEF JoinedPieces
<1>30. l # 0 => SamePieces(up, q)
  BY <1>14 DEF SamePieces, Layer
<1> HIDE DEF x, p, l
<1>31. Hung(q)'
  BY <1>20, <1>21, <1>22, <1>24, <1>25, <1>26, <1>27, <1>28 DEF Hung
<1> QED
  BY <1>29, <1>30, <1>31 DEF x, p, l

-----------------------------------------------------------------------------
(* What is chosen from a set that is not empty is not empty.               *)

\* A predicate of numbers, given as a set, that holds of 0 and steps upward.
LEMMA NumbersInduct ==
    ASSUME NEW S \in SUBSET Nat, 0 \in S, \A n \in S : n + 1 \in S
    PROVE  S = Nat
<1> SUFFICES ASSUME NEW n \in Nat, n \notin S PROVE FALSE
  OBVIOUS
<1> DEFINE T == { i \in S : i <= n }
           f == [i \in T |-> i + 1]
<1>1. IsFiniteSet(T)
  BY FS_BoundedSetOfNaturals
<1>2. 0 \in T
  OBVIOUS
<1>3. f \in [T -> T \ {0}]
  <2>1. ASSUME NEW i \in T PROVE i + 1 \in T \ {0}
    <3>1. i + 1 \in S /\ i # n /\ i \in Nat /\ i <= n
      OBVIOUS
    <3> QED
      BY <3>1
  <2> QED
    BY <2>1
<1>4. /\ IsFiniteSet(T \ {0}) /\ Cardinality(T \ {0}) = Cardinality(T) - 1
      /\ Cardinality(T) \in Nat
  BY <1>1, <1>2, FS_RemoveElement, FS_CardinalityType
<1>5. \E x, y \in T : x # y /\ f[x] = f[y]
  <2> HIDE DEF T, f
  <2>1. Cardinality(T \ {0}) < Cardinality(T)
    BY <1>4
  <2> QED
    BY <1>1, <1>3, <1>4, <2>1, FS_PigeonHole
<1> QED
  BY <1>5

\* A set of numbers that is not empty has a least member.
LEMMA LeastNumber ==
    ASSUME NEW T \in SUBSET Nat, T # {}
    PROVE  \E n \in T : \A m \in T : n <= m
<1> SUFFICES ASSUME \A n \in T : \E m \in T : m < n PROVE FALSE
  OBVIOUS
<1> DEFINE S == { n \in Nat : \A m \in T : n <= m }
<1>1. 0 \in S
  OBVIOUS
<1>2. \A n \in S : n + 1 \in S
  OBVIOUS
<1>3. S = Nat
  <2> HIDE DEF S
  <2> QED
    BY <1>1, <1>2, NumbersInduct DEF S
<1>4. PICK t \in T : TRUE
  OBVIOUS
<1>5. t + 1 \in S
  BY <1>3
<1> QED
  BY <1>4, <1>5

\* A ranking of some nodes puts one of them first.
LEMMA OneIsFirst ==
    ASSUME NEW q \in Node, NEW S \in SUBSET Node, S # {}
    PROVE  \E c \in S : { s \in S : Before(q, s, c) } = {}
<1>1. \A a \in Node : Dist[<<q, a>>] \in Nat /\ a \in Nat
  BY DistAssumption DEF Node
<1> DEFINE T == { Dist[<<q, s>>] : s \in S }
<1>2. PICK d \in T : \A m \in T : d <= m
  <2>1. T \in SUBSET Nat /\ T # {}
    BY <1>1
  <2> HIDE DEF T
  <2> QED
    BY <2>1, LeastNumber
<1> DEFINE D == { s \in S : Dist[<<q, s>>] = d }
<1>3. PICK c \in D : \A m \in D : c <= m
  <2>1. D \in SUBSET Nat /\ D # {}
    BY <1>1, <1>2
  <2> HIDE DEF D
  <2> QED
    BY <2>1, LeastNumber
<1>4. ASSUME NEW s \in S, Before(q, s, c) PROVE FALSE
  <2>1. Dist[<<q, s>>] \in T /\ Dist[<<q, s>>] \in Nat /\ s \in Nat
    BY <1>1
  <2>2. d <= Dist[<<q, s>>] /\ d \in Nat
    BY <1>1, <1>2, <2>1
  <2>3. Dist[<<q, c>>] = d /\ c \in Nat
    BY <1>1, <1>3
  <2>4. Dist[<<q, s>>] = d => c <= s
    BY <1>3
  <2> QED
    BY <1>4, <2>1, <2>2, <2>3, <2>4 DEF Before
<1> QED
  BY <1>3, <1>4

\* Among some nodes one is nearest to q.
LEMMA SomeNearest ==
    ASSUME NEW q \in Node, NEW S \in SUBSET Node, S # {}, NEW k \in Nat, k > 0
    PROVE  Nearest(q, S, k) # {}
<1>1. PICK c \in S : { s \in S : Before(q, s, c) } = {}
  BY OneIsFirst
<1>2. Cardinality({ s \in S : Before(q, s, c) }) = 0
  BY <1>1, FS_EmptySet
<1>3. c \in Nearest(q, S, k)
  BY <1>2 DEF Nearest
<1> QED
  BY <1>3

\* selectNeighbours never chooses nobody among some.
LEMMA SomeSelected ==
    ASSUME NEW n \in Node, NEW C \in SUBSET Node, C # {}, NEW cap \in Nat, cap > 0,
           NEW K, Selected(n, C, cap, NearestM, K)
    PROVE  K # {}
<1> SUFFICES ASSUME K = {} PROVE FALSE
  OBVIOUS
<1>1. CASE NearestM
  <2>1. Full(K, cap)
    BY <1>1 DEF Selected, Closest
  <2> QED
    BY <2>1, FS_EmptySet DEF Full
<1>2. CASE ~NearestM
  <2>1. PICK c \in C : TRUE
    OBVIOUS
  <2>2. { k \in K : Before(n, k, c) } = {}
    OBVIOUS
  <2>3. Cardinality({ k \in K : Before(n, k, c) }) = 0
    BY <2>2, FS_EmptySet
  <2>4. c \in K
    BY <1>2, <2>2, <2>3 DEF Selected, Spread
  <2> QED
    BY <2>4
<1> QED
  BY <1>1, <1>2

-----------------------------------------------------------------------------
(* Every action keeps a hanging order.                                     *)

\* No piece of the bottom layer changes.
Keeps(up) == \E q : Hung(q)' /\ SamePieces(up, q)

\* Reading the top starts the walk at the entry, where the tallest pieces hang.
LEMMA ReadTopHung ==
    ASSUME IInv, NEW up, Hung(up), NEW w \in Worker, ReadTop(w)
    PROVE  Keeps(up)
<1> USE DEF ReadTop
<1> DEFINE x == work[w].cur
<1>1. x \in Node /\ entry \in Node /\ maxLevel \in Layer /\ level[x] \in Layer
  BY DEF IInv, TypeOK, CallType
<1>2. ~Newcomer(entry)
  <2>1. entry \in allocated
    BY DEF IInv, TopIsTallest, Placed, Turns, Node, TypeOK
  <2>2. \A v \in Worker : work[v].pc \in {"top", "descend"} => work[v].cur # entry
    BY DEF IInv, TopIsTallest, Placed, InFlight, Busy
  <2> QED
    BY <2>1, <2>2 DEF Newcomer
<1>3. CASE maxLevel > level[x]
  <2> DEFINE s == Descending(x, entry, maxLevel)
  <2>1. work' = [work EXCEPT ![w] = s]
    BY <1>3
  <2>2. /\ s \in CallType /\ s.pc = "descend" /\ s.cur = x /\ s.ep = entry /\ s.lc = maxLevel
        /\ s.todo = {}
    BY <1>1, CallTyped DEF Descending, PC
  <2> HIDE DEF s
  <2>3. Gathers(up, s)
    BY <2>2 DEF Gathers
  <2>4. \A l \in Ahead(s) :
               /\ l \in Ahead(work[w]) /\ s.cur = work[w].cur
               /\ Enters(s, l) <=> Enters(work[w], l)
               /\ Enters(s, l) => s.ep = work[w].ep
    BY <2>2 DEF Ahead, Enters
  <2>5. maxLevel' \in Layer /\ maxLevel' >= maxLevel /\ s.lc <= maxLevel'
    BY <1>1, <2>2 DEF Layer
  <2>6. EdgesJoin(up)'
    BY DEF Hung, EdgesJoin
  <2>7. Hung(up)'
    BY <1>2, <2>1, <2>2, <2>3, <2>4, <2>5, <2>6, MoveHung
  <2> QED
    BY <2>7 DEF SamePieces, Keeps
<1>4. CASE ~(maxLevel > level[x])
  <2>1. StartLayer(level[x], maxLevel) = maxLevel /\ level[x] >= maxLevel /\ maxLevel <= maxLevel
    BY <1>1, <1>4 DEF StartLayer, Layer
  <2>2. work' = [work EXCEPT ![w] = Searching(x, entry, maxLevel)]
    BY <1>4, <2>1
  <2> QED
    BY <1>1, <1>2, <2>1, <2>2, EnterHung DEF Keeps
<1> QED
  BY <1>3, <1>4

\* The neighbour descended to is in one piece with the position left.
LEMMA DescendMoveHung ==
    ASSUME IInv, NEW up, Hung(up), NEW w \in Worker, DescendMove(w)
    PROVE  Keeps(up)
<1> DEFINE x == work[w].cur
           l == work[w].lc
<1>1. /\ work[w].pc = "descend"
      /\ UNCHANGED <<level, allocated, links, entry, maxLevel, next, ready>>
  BY DEF DescendMove
<1>2. PICK b \in Nearer(x, work[w].ep, l) : work' = [work EXCEPT ![w] = Descending(x, b, l)]
  BY DEF DescendMove
<1>3. work[w] \in CallType /\ x \in Node /\ l \in Layer /\ work[w].ep \in Node /\ maxLevel \in Layer
  BY DEF IInv, TypeOK, CallType
<1>4. b \in Node /\ b \in links[work[w].ep][l] /\ b # work[w].ep
  BY <1>2, <1>3 DEF Nearer, IInv, SafeToFollow, TypeOK
<1>5. ~Newcomer(b)
  <2>1. up[l][work[w].ep] = up[l][b] /\ work[w].ep \in up[l][work[w].ep]
    BY <1>3, <1>4 DEF Hung, EdgesJoin, Orders, Order
  <2>2. up[l][b] # {b}
    BY <1>4, <2>1
  <2> QED
    BY <1>3, <1>4, <2>2 DEF Hung, NewcomersAlone
<1> DEFINE s == Descending(x, b, l)
<1>6. /\ s \in CallType /\ s.pc = "descend" /\ s.cur = x /\ s.ep = b /\ s.lc = l
      /\ s.todo = {}
  BY <1>3, <1>4, CallTyped DEF Descending, PC
<1>7. work' = [work EXCEPT ![w] = s]
  BY <1>2
<1> HIDE DEF s
<1>8. Gathers(up, s)
  BY <1>6 DEF Gathers
<1>9. \A k \in Ahead(s) :
               /\ k \in Ahead(work[w]) /\ s.cur = work[w].cur
               /\ Enters(s, k) <=> Enters(work[w], k)
               /\ Enters(s, k) => s.ep = work[w].ep
  BY <1>1, <1>6 DEF Ahead, Enters
<1>10. maxLevel' \in Layer /\ maxLevel' >= maxLevel /\ s.lc <= maxLevel'
  BY <1>1, <1>3, <1>6 DEF Layer, Hung, CallsHigh
<1>11. EdgesJoin(up)'
  BY <1>1 DEF Hung, EdgesJoin
<1>12. Hung(up)'
  BY <1>1, <1>5, <1>6, <1>7, <1>8, <1>9, <1>10, <1>11, MoveHung
<1> QED
  BY <1>12 DEF SamePieces, Keeps

\* One layer down the call hangs below the same position.
LEMMA DescendDropHung ==
    ASSUME IInv, NEW up, Hung(up), NEW w \in Worker, DescendDrop(w)
    PROVE  Keeps(up)
<1> DEFINE x == work[w].cur
           e == work[w].ep
           l == work[w].lc
<1>1. /\ work[w].pc = "descend"
      /\ UNCHANGED <<level, allocated, links, entry, maxLevel, next, ready>>
  BY DEF DescendDrop
<1>2. /\ work[w] \in CallType /\ x \in Node /\ l \in Layer /\ e \in Node
      /\ level[x] \in Layer /\ maxLevel \in Layer
  BY DEF IInv, TypeOK, CallType
<1>3. level[x] < l /\ l <= maxLevel /\ ~Newcomer(e)
  BY <1>1 DEF IInv, WalkInBounds, InBounds, Hung, CallsHigh
<1>4. l - 1 \in Layer /\ l - 1 <= maxLevel
  BY <1>2, <1>3 DEF Layer
<1>5. CASE l - 1 > level[x]
  <2> DEFINE s == Descending(x, e, l - 1)
  <2>1. work' = [work EXCEPT ![w] = s]
    BY <1>5 DEF DescendDrop
  <2>2. /\ s \in CallType /\ s.pc = "descend" /\ s.cur = x /\ s.ep = e /\ s.lc = l - 1
        /\ s.todo = {}
    BY <1>2, <1>4, CallTyped DEF Descending, PC
  <2> HIDE DEF s
  <2>3. Gathers(up, s)
    BY <2>2 DEF Gathers
  <2>4. \A k \in Ahead(s) :
               /\ k \in Ahead(work[w]) /\ s.cur = work[w].cur
               /\ Enters(s, k) <=> Enters(work[w], k)
               /\ Enters(s, k) => s.ep = work[w].ep
    BY <1>1, <2>2 DEF Ahead, Enters
  <2>5. maxLevel' \in Layer /\ maxLevel' >= maxLevel /\ s.lc <= maxLevel'
    BY <1>1, <1>2, <1>4, <2>2 DEF Layer
  <2>6. EdgesJoin(up)'
    BY <1>1 DEF Hung, EdgesJoin
  <2>7. Hung(up)'
    BY <1>1, <1>3, <2>1, <2>2, <2>3, <2>4, <2>5, <2>6, MoveHung
  <2> QED
    BY <2>7 DEF SamePieces, Keeps
<1>6. CASE ~(l - 1 > level[x])
  <2>1. level[x] = l - 1 /\ level[x] >= l - 1
    BY <1>2, <1>3, <1>6 DEF Layer
  <2>2. work' = [work EXCEPT ![w] = Searching(x, e, l - 1)]
    BY <1>6 DEF DescendDrop
  <2>3. work[w].pc \in {"top", "descend"}
    BY <1>1
  <2> HIDE DEF e, l
  <2> QED
    BY <1>1, <1>2, <1>3, <1>4, <2>1, <2>2, <2>3, EnterHung DEF Keeps
<1> QED
  BY <1>5, <1>6

\* A search always ends with something found, so every layer gets linked.
LEMMA ExpandMoves ==
    ASSUME IInv, NEW up, Hung(up), NEW w \in Worker, Expand(w)
    PROVE  \E t \in CallType :
              /\ work' = [work EXCEPT ![w] = t]
              /\ work[w].pc = "search" /\ t.pc \in {"search", "own"}
              /\ t.cur = work[w].cur /\ t.ep = work[w].ep /\ t.lc = work[w].lc
              /\ t.found # {} /\ t.todo = {}
              /\ \E c \in work[w].cand : t.seen \cup t.cand \cup t.found \subseteq
                    work[w].seen \cup work[w].cand \cup work[w].found \cup links[c][work[w].lc]
              /\ UNCHANGED <<level, allocated, links, entry, maxLevel, next, ready>>
<1> DEFINE s == work[w]
<1>1. /\ s.pc = "search"
      /\ UNCHANGED <<level, allocated, links, entry, maxLevel, next, ready>>
  BY DEF Expand
<1>2. PICK c \in s.cand : \E A \in SUBSET (links[c][s.lc] \ s.seen) :
        LET fresh == links[c][s.lc] \ s.seen
            R == Nearest(s.cur, s.found \cup (A \ {s.cur}), Ef)
            queued == (s.cand \ {c}) \cup A
            live == IF Full(R, Ef) THEN { x \in queued : ~Beyond(s.cur, R, x) }
                                   ELSE queued
        IN work' = [work EXCEPT ![w] =
              IF live # {} THEN Call("search", s.cur, s.ep, s.lc,
                                     s.seen \cup fresh, live, R, {})
              ELSE IF R # {} THEN Owning(s.cur, s.ep, s.lc, R)
              ELSE NextLayer(s.cur, s.ep, s.lc)]
  BY DEF Expand
<1> DEFINE fresh == links[c][s.lc] \ s.seen
<1>3. PICK A \in SUBSET fresh :
        LET R == Nearest(s.cur, s.found \cup (A \ {s.cur}), Ef)
            queued == (s.cand \ {c}) \cup A
            live == IF Full(R, Ef) THEN { x \in queued : ~Beyond(s.cur, R, x) }
                                   ELSE queued
        IN work' = [work EXCEPT ![w] =
              IF live # {} THEN Call("search", s.cur, s.ep, s.lc,
                                     s.seen \cup fresh, live, R, {})
              ELSE IF R # {} THEN Owning(s.cur, s.ep, s.lc, R)
              ELSE NextLayer(s.cur, s.ep, s.lc)]
  BY <1>2
<1> DEFINE near == s.found \cup (A \ {s.cur})
           R == Nearest(s.cur, near, Ef)
           queued == (s.cand \ {c}) \cup A
           live == IF Full(R, Ef) THEN { x \in queued : ~Beyond(s.cur, R, x) }
                                  ELSE queued
           on == Call("search", s.cur, s.ep, s.lc, s.seen \cup fresh, live, R, {})
           own == Owning(s.cur, s.ep, s.lc, R)
           t == IF live # {} THEN on ELSE own
<1>4. /\ s \in CallType /\ s.cur \in Node /\ s.ep \in Node /\ s.lc \in Layer
      /\ s.cand \subseteq Node /\ s.found \subseteq Node /\ s.seen \subseteq Node
      /\ links[c][s.lc] \subseteq Node
  BY DEF IInv, TypeOK, CallType
<1>5. near \subseteq Node /\ near # {}
  BY <1>1, <1>3, <1>4 DEF Hung, CallsGather, Gathers
<1>6. Ef \in Nat /\ Ef > 0
  BY DEF Ef
<1>7. R # {} /\ R \subseteq near
  <2>1. R \subseteq near
    BY DEF Nearest
  <2>2. near \in SUBSET Node
    BY <1>5
  <2>3. s.cur \in Node /\ near # {}
    BY <1>4, <1>5
  <2> HIDE DEF near, s
  <2>4. R # {}
    BY <1>6, <2>2, <2>3, SomeNearest
  <2> QED
    BY <2>1, <2>4
<1>8. live \subseteq s.cand \cup fresh
  BY <1>3
<1>9. work' = [work EXCEPT ![w] = t]
  BY <1>3, <1>7
<1>10. fresh \subseteq links[c][s.lc] /\ near \subseteq s.found \cup links[c][s.lc]
  BY <1>3
<1> HIDE DEF s, live, near, R, fresh
<1>11. R \subseteq Node /\ live \subseteq Node /\ s.seen \cup fresh \subseteq Node /\ {} \subseteq Node
       /\ "search" \in PC /\ "own" \in PC
  BY <1>4, <1>5, <1>7, <1>8, <1>10 DEF PC
<1>12. /\ on \in CallType /\ on.pc = "search" /\ on.cur = s.cur /\ on.ep = s.ep /\ on.lc = s.lc
       /\ on.seen = s.seen \cup fresh /\ on.cand = live /\ on.found = R /\ on.todo = {}
  BY <1>4, <1>11, CallTyped
<1>13. /\ own \in CallType /\ own.pc = "own" /\ own.cur = s.cur /\ own.ep = s.ep /\ own.lc = s.lc
       /\ own.seen = {} /\ own.cand = {} /\ own.found = R /\ own.todo = {}
  BY <1>4, <1>11, CallTyped DEF Owning
<1> HIDE DEF on, own
<1>14. /\ t \in CallType /\ t.pc \in {"search", "own"} /\ t.cur = s.cur /\ t.ep = s.ep /\ t.lc = s.lc
       /\ t.found # {} /\ t.todo = {}
       /\ t.seen \cup t.cand \cup t.found \subseteq s.seen \cup s.cand \cup s.found \cup links[c][s.lc]
  BY <1>7, <1>8, <1>10, <1>12, <1>13
<1>15. c \in s.cand
  OBVIOUS
<1> HIDE DEF t
<1> QED
  BY <1>1, <1>9, <1>14, <1>15 DEF s

\* What a search collects is in one piece with where it started.
LEMMA ExpandHung ==
    ASSUME IInv, NEW up, Hung(up), NEW w \in Worker, Expand(w)
    PROVE  Keeps(up)
<1> DEFINE s == work[w]
<1>1. PICK t \in CallType :
              /\ work' = [work EXCEPT ![w] = t]
              /\ s.pc = "search" /\ t.pc \in {"search", "own"}
              /\ t.cur = s.cur /\ t.ep = s.ep /\ t.lc = s.lc
              /\ t.found # {} /\ t.todo = {}
              /\ \E c \in s.cand : t.seen \cup t.cand \cup t.found \subseteq
                    s.seen \cup s.cand \cup s.found \cup links[c][s.lc]
              /\ UNCHANGED <<level, allocated, links, entry, maxLevel, next, ready>>
  BY ExpandMoves
<1>2. s \in CallType /\ s.lc \in Layer /\ s.cand \subseteq Node /\ maxLevel \in Layer /\ maxLevel <= maxLevel
  BY DEF IInv, TypeOK, CallType, Layer
<1>3. Gathers(up, t)
  <2>1. \A x \in s.seen \cup s.cand \cup s.found : up[s.lc][x] = up[s.lc][s.ep]
    BY <1>1 DEF Hung, CallsGather, Gathers
  <2>2. ASSUME NEW c \in s.cand, NEW x \in links[c][s.lc] PROVE up[s.lc][x] = up[s.lc][s.ep]
    BY <1>2, <2>1, <2>2 DEF Hung, EdgesJoin
  <2> QED
    BY <1>1, <2>1, <2>2 DEF Gathers
<1>4. \A l \in Ahead(t) :
               /\ l \in Ahead(work[w]) /\ t.cur = work[w].cur
               /\ Enters(t, l) <=> Enters(work[w], l)
               /\ Enters(t, l) => t.ep = work[w].ep
  BY <1>1 DEF Ahead, Enters
<1>5. maxLevel' \in Layer /\ maxLevel' >= maxLevel /\ t.lc <= maxLevel'
  BY <1>1, <1>2 DEF Hung, CallsHigh
<1>6. EdgesJoin(up)'
  BY <1>1 DEF Hung, EdgesJoin
<1> HIDE DEF s
<1>7. Hung(up)'
  BY <1>1, <1>3, <1>4, <1>5, <1>6, MoveHung
<1> QED
  BY <1>7 DEF SamePieces, Keeps

\* A call that links goes on, as c, at the layers it had ahead.
GoesOn(up, s, c) ==
    /\ c \in CallType /\ Gathers(up, c)
    /\ \A l \in Ahead(c) :
           /\ l \in Ahead(s) /\ c.cur = s.cur
           /\ Enters(c, l) <=> Enters(s, l)
           /\ Enters(c, l) => c.ep = s.ep
    /\ c.lc <= s.lc
    /\ c.pc \notin {"top", "descend"}

\* link adds an edge within a piece, and a prune takes none apart.
LEMMA LinkHung ==
    ASSUME IInv, NEW up, Hung(up), NEW w \in Worker, Link(w)
    PROVE  Keeps(up)
<1> DEFINE s == work[w]
<1>1. s.pc = "link" /\ UNCHANGED <<level, allocated, entry, maxLevel, next, ready>>
  BY DEF Link
<1>2. PICK r \in s.todo, list \in SUBSET Node :
        /\ LinkedList(r, s.cur, s.lc, list)
        /\ links' = [links EXCEPT ![r][s.lc] = list]
        /\ work' = [work EXCEPT ![w] =
              IF s.todo # {r} THEN Linking(s.cur, s.ep, s.lc, s.todo \ {r})
                              ELSE NextLayer(s.cur, s.ep, s.lc)]
  BY DEF Link
<1>3. /\ s \in CallType /\ s.cur \in Node /\ s.ep \in Node /\ s.lc \in Layer
      /\ s.todo \subseteq Node /\ r \in Node /\ maxLevel \in Layer /\ s.ep # s.cur
  BY <1>1 DEF IInv, TypeOK, CallType, WalkInBounds, InBounds
<1>4. \A x \in s.todo \cup {s.ep} : up[s.lc][x] = up[s.lc][s.cur]
  BY <1>1 DEF Hung, CallsGather, Gathers
<1>5. EdgesJoin(up)'
  <2>1. list \subseteq links[r][s.lc] \cup {s.cur}
    BY <1>2 DEF LinkedList, Selected
  <2>2. \A n \in Node, k \in Layer : links'[n][k] = IF n = r /\ k = s.lc THEN list ELSE links[n][k]
    BY <1>2, <1>3 DEF IInv, TypeOK
  <2>3. \A y \in list : up[s.lc][r] = up[s.lc][y]
    BY <1>2, <1>3, <1>4, <2>1 DEF Hung, EdgesJoin
  <2> HIDE DEF s
  <2> QED
    BY <2>2, <2>3 DEF Hung, EdgesJoin
<1> DEFINE more == Linking(s.cur, s.ep, s.lc, s.todo \ {r})
           down == NextLayer(s.cur, s.ep, s.lc)
           t == IF s.todo # {r} THEN more ELSE down
<1>6. work' = [work EXCEPT ![w] = t]
  BY <1>2
<1> HIDE DEF s
<1>7. GoesOn(up, s, more)
  <2>1. s.todo \ {r} \subseteq Node /\ {} \subseteq Node /\ "link" \in PC
    BY <1>3 DEF PC
  <2>2. /\ more \in CallType /\ more.pc = "link" /\ more.cur = s.cur
        /\ more.ep = s.ep /\ more.lc = s.lc /\ more.todo = s.todo \ {r}
    BY <1>3, <2>1, CallTyped DEF Linking
  <2> HIDE DEF more
  <2>3. Gathers(up, more)
    BY <1>4, <2>2 DEF Gathers
  <2> QED
    BY <1>1, <1>3, <2>2, <2>3 DEF GoesOn, Ahead, Enters, Layer
<1>8. GoesOn(up, s, down)
  <2>1. CASE s.lc = 0
    <3>1. /\ down \in CallType /\ down.pc = "raise" /\ down.lc = 0 /\ down.todo = {}
      BY <1>3, <2>1, CallTyped DEF NextLayer, Raising, PC, Node
    <3> HIDE DEF down
    <3> QED
      BY <1>3, <2>1, <3>1 DEF GoesOn, Gathers, Ahead
  <2>2. CASE s.lc # 0
    <3>1. s.lc - 1 \in Layer /\ {s.ep} \subseteq Node /\ {s.ep} \ {s.cur} \subseteq Node
          /\ {} \subseteq Node /\ "search" \in PC
      BY <1>3, <2>2 DEF Layer, PC
    <3>2. down = Call("search", s.cur, s.ep, s.lc - 1, {s.ep}, {s.ep}, {s.ep} \ {s.cur}, {})
      BY <2>2 DEF NextLayer, Searching
    <3> HIDE DEF down
    <3>3. /\ down \in CallType /\ down.pc = "search" /\ down.lc = s.lc - 1
          /\ down.cur = s.cur /\ down.ep = s.ep
          /\ down.seen = {s.ep} /\ down.cand = {s.ep} /\ down.found = {s.ep} \ {s.cur}
          /\ down.todo = {}
      BY <1>3, <3>1, <3>2, CallTyped
    <3>4. Gathers(up, down)
      BY <1>3, <3>3 DEF Gathers
    <3>5. \A k, l \in Layer : (l <= k - 1 <=> l < k) /\ (l = k - 1 <=> k = l + 1)
      BY DEF Layer
    <3>6. Ahead(down) = Ahead(s)
      BY <1>1, <1>3, <3>3, <3>5 DEF Ahead
    <3>7. \A l \in Layer : Enters(down, l) <=> Enters(s, l)
      BY <1>1, <1>3, <3>3, <3>5 DEF Enters
    <3>8. Ahead(s) \subseteq Layer
      BY DEF Ahead
    <3> QED
      BY <1>3, <3>3, <3>4, <3>6, <3>7, <3>8 DEF GoesOn, Layer
  <2> QED
    BY <2>1, <2>2
<1>9. GoesOn(up, s, t)
  BY <1>7, <1>8
<1> HIDE DEF t, more, down
<1>10. maxLevel' \in Layer /\ maxLevel' >= maxLevel /\ s.lc <= maxLevel /\ s = work[w]
  BY <1>1, <1>3 DEF Hung, CallsHigh, s, Layer
<1>11. t.lc <= maxLevel'
  BY <1>1, <1>3, <1>9, <1>10 DEF GoesOn, CallType, Layer
<1>12. Hung(up)'
  BY <1>1, <1>5, <1>6, <1>9, <1>10, <1>11, MoveHung DEF GoesOn
<1> QED
  BY <1>12 DEF SamePieces, Keeps

\* The finished node leaves the pieces as they are.
LEMMA RaiseHung ==
    ASSUME IInv, NEW up, Hung(up), NEW w \in Worker, Raise(w)
    PROVE  Keeps(up)
<1>1. /\ work[w].pc = "raise" /\ RaiseTop(work[w].cur)
      /\ work' = [work EXCEPT ![w] = Idle]
      /\ UNCHANGED <<level, allocated, links, next, ready>>
  BY DEF Raise
<1>2. maxLevel' \in Layer /\ maxLevel' >= maxLevel
  BY <1>1 DEF RaiseTop, IInv, TypeOK, CallType, Layer
<1>3. Idle \in CallType /\ Idle.pc = "idle" /\ Idle.todo = {}
  BY DEF Idle, Call, CallType, PC, Node, Layer
<1>4. Gathers(up, Idle) /\ Ahead(Idle) = {}
  BY <1>3 DEF Gathers, Ahead
<1>5. EdgesJoin(up)'
  BY <1>1 DEF Hung, EdgesJoin
<1>6. Hung(up)'
  BY <1>1, <1>2, <1>3, <1>4, <1>5, MoveHung
<1> QED
  BY <1>6 DEF SamePieces, Keeps

\* So does a step that changes neither graph nor calls.
LEMMA StillHung ==
    ASSUME IInv, NEW up, Hung(up), UNCHANGED <<level, allocated, links, maxLevel, work>>
    PROVE  Keeps(up)
<1>1. Hung(up)'
  BY DEF Hung, Orders, EdgesJoin, CallsGather, CallsHigh, NewcomersAlone, CallsPend,
         CallsApart, HungAbove, Gathers, Newcomer, Ahead, Enters
<1> QED
  BY <1>1 DEF SamePieces, Keeps

\* setOwn joins the node's piece to the one its search started in.
LEMMA SetOwnHung ==
    ASSUME IInv, NEW up, Hung(up), NEW w \in Worker, SetOwn(w)
    PROVE  \E q : /\ Hung(q)'
                  /\ work[w].lc = 0 => JoinedPieces(up, q, work[w].cur, work[w].ep)
                  /\ work[w].lc # 0 => SamePieces(up, q)
<1>1. PICK K \in SUBSET work[w].found,
           own \in SUBSET (work[w].found \cup links[work[w].cur][work[w].lc]),
           e \in work[w].found :
        /\ links' = [links EXCEPT ![work[w].cur][work[w].lc] = own]
        /\ work' = [work EXCEPT ![w] = Linking(work[w].cur, e, work[w].lc, K)]
  BY DEF SetOwn
<1>2. work[w].pc = "own" /\ UNCHANGED <<level, allocated, entry, maxLevel, next, ready>>
  BY DEF SetOwn
<1> QED
  BY <1>1, <1>2, JoinHung

\* Of all steps, setOwn at the bottom layer alone joins pieces of that layer.
LEMMA NextHung ==
    ASSUME IInv, NEW up, Hung(up), [Next]_vars
    PROVE  \/ \E w \in Worker :
                /\ SetOwn(w) /\ work[w].lc = 0
                /\ \E q : Hung(q)' /\ JoinedPieces(up, q, work[w].cur, work[w].ep)
           \/ /\ \A w \in Worker : SetOwn(w) => work[w].lc # 0
              /\ Keeps(up)
<1>0. CASE \E w \in Worker : SetOwn(w) /\ work[w].lc = 0
  BY <1>0, SetOwnHung
<1>1. ASSUME NEW w \in Worker, Insert(w)
      PROVE  \/ Keeps(up)
             \/ /\ SetOwn(w) /\ work[w].lc = 0
                /\ \E q : Hung(q)' /\ JoinedPieces(up, q, work[w].cur, work[w].ep)
  <2>1. CASE Receive(w)
    BY <2>1, ReceiveHung DEF Keeps, SamePieces
  <2>2. CASE SetOwn(w)
    BY <2>2, SetOwnHung DEF Keeps
  <2> QED
    BY <1>1, <2>1, <2>2, ReadTopHung, DescendMoveHung, DescendDropHung, ExpandHung,
       LinkHung, RaiseHung DEF Insert
<1>2. ASSUME Finish \/ Finished \/ UNCHANGED vars PROVE Keeps(up)
  <2>1. UNCHANGED <<level, allocated, links, maxLevel, work>>
    BY <1>2 DEF Finish, Finished, vars
  <2> QED
    BY <2>1, StillHung
<1> QED
  BY <1>0, <1>1, <1>2 DEF Next

-----------------------------------------------------------------------------
(* No list gets one neighbour twice.                                       *)

\* The list setOwn stores names nobody who is yet to link to its node.
LEMMA SetOwnNoDouble ==
    ASSUME IInv, NEW up, Hung(up), NoDoubleEntry, NEW w \in Worker, SetOwn(w)
    PROVE  NoDoubleEntry'
<1> DEFINE x == work[w].cur
           p == work[w].ep
           l == work[w].lc
<1>1. work[w].pc = "own"
  BY DEF SetOwn
<1>2. PICK K \in SUBSET work[w].found,
           own \in SUBSET (work[w].found \cup links[x][l]),
           e \in work[w].found :
        /\ links' = [links EXCEPT ![x][l] = own]
        /\ work' = [work EXCEPT ![w] = Linking(x, e, l, K)]
  BY DEF SetOwn
<1>3. /\ work[w] \in CallType /\ x \in Node /\ p \in Node /\ l \in Layer
      /\ work[w].found \subseteq Node
  BY DEF IInv, TypeOK, CallType
<1>4. x \notin work[w].found
  BY DEF IInv, WalkInBounds, InBounds
<1>5. x \in up[l][x] /\ x \notin up[l][p]
  <2>1. l \in Ahead(work[w]) /\ Enters(work[w], l)
    BY <1>1, <1>3 DEF Ahead, Enters, Layer
  <2> QED
    BY <1>3, <2>1 DEF Hung, CallsPend, Waiting, Orders, Order
<1>6. \A y \in work[w].found : up[l][y] = up[l][p]
  BY <1>1 DEF Hung, CallsGather, Gathers
<1>7. \A n \in Node, k \in Layer :
        links'[n][k] = IF n = x /\ k = l THEN own ELSE links[n][k]
  BY <1>2, <1>3 DEF IInv, TypeOK
<1>8. /\ \A v \in Worker \ {w} : work'[v] = work[v]
      /\ work'[w].cur = x /\ work'[w].lc = l /\ work'[w].todo = K
  BY <1>2 DEF IInv, TypeOK, Linking, Call
<1>9. ASSUME NEW v \in Worker, v # w, NEW r \in work[v].todo, work[v].cur \in links'[r][work[v].lc]
      PROVE  FALSE
  <2>1. r \in Node /\ work[v].lc \in Layer
    BY <1>9 DEF IInv, TypeOK, CallType
  <2>2. r = x /\ work[v].lc = l /\ work[v].cur \in work[w].found
    BY <1>2, <1>7, <1>9, <2>1 DEF NoDoubleEntry
  <2>3. up[l][r] = up[l][work[v].cur]
    BY <1>9, <2>2 DEF Hung, CallsGather, Gathers
  <2> QED
    BY <1>5, <1>6, <2>2, <2>3
<1>10. ASSUME NEW r \in K, x \in links'[r][l]
       PROVE  FALSE
  <2>1. r \in Node /\ r # x /\ x \in links[r][l]
    BY <1>2, <1>3, <1>4, <1>7, <1>10
  <2>2. up[l][r] = up[l][x]
    BY <1>3, <2>1 DEF Hung, EdgesJoin
  <2> QED
    BY <1>2, <1>5, <1>6, <2>2
<1> QED
  BY <1>8, <1>9, <1>10 DEF NoDoubleEntry

\* The ID link appends is that of its own call, which no other call appends.
LEMMA LinkNoDouble ==
    ASSUME IInv, NEW up, Hung(up), NoDoubleEntry, NEW w \in Worker, Link(w)
    PROVE  NoDoubleEntry'
<1> DEFINE x == work[w].cur
           l == work[w].lc
<1>1. work[w].pc = "link" /\ w \in Busy
  BY DEF Link, Busy
<1>2. PICK r \in work[w].todo, list \in SUBSET Node :
        /\ LinkedList(r, x, l, list)
        /\ links' = [links EXCEPT ![r][l] = list]
        /\ work' = [work EXCEPT ![w] =
              IF work[w].todo # {r} THEN Linking(x, work[w].ep, l, work[w].todo \ {r})
                                    ELSE NextLayer(x, work[w].ep, l)]
  BY DEF Link
<1>3. /\ work[w] \in CallType /\ x \in Node /\ l \in Layer /\ r \in Node
  BY DEF IInv, TypeOK, CallType
<1>4. \A n \in Node, k \in Layer :
        links'[n][k] = IF n = r /\ k = l THEN list ELSE links[n][k]
  BY <1>2, <1>3 DEF IInv, TypeOK
<1>5. list \subseteq links[r][l] \cup {x}
  BY <1>2 DEF LinkedList, Selected
<1>6. /\ \A v \in Worker \ {w} : work'[v] = work[v]
      /\ work'[w].todo # {} =>
            work'[w].cur = x /\ work'[w].lc = l /\ work'[w].todo = work[w].todo \ {r}
  BY <1>2 DEF IInv, TypeOK, Linking, NextLayer, Raising, Searching, Call
<1>7. ASSUME NEW v \in Worker, v # w, NEW y \in work[v].todo, work[v].cur \in links'[y][work[v].lc]
      PROVE  FALSE
  <2>1. y \in Node /\ work[v].lc \in Layer
    BY <1>7 DEF IInv, TypeOK, CallType
  <2>2. work[v].cur = x
    BY <1>4, <1>5, <1>7, <2>1 DEF NoDoubleEntry
  <2>3. v \in Busy
    BY <1>7 DEF Hung, CallsGather, Gathers, Busy
  <2> QED
    BY <1>1, <1>7, <2>2, <2>3 DEF IInv, Turns
<1>8. ASSUME NEW y \in work[w].todo \ {r}, x \in links'[y][l]
      PROVE  FALSE
  <2>1. y \in Node
    BY <1>8 DEF IInv, TypeOK, CallType
  <2> QED
    BY <1>3, <1>4, <1>8, <2>1 DEF NoDoubleEntry
<1> QED
  BY <1>6, <1>7, <1>8 DEF NoDoubleEntry

\* A call with nothing to link to yet is no danger.
LEMMA MoveNoDouble ==
    ASSUME IInv, NoDoubleEntry, NEW w \in Worker, UNCHANGED links,
           \E t : work' = [work EXCEPT ![w] = t] /\ t.todo = {}
    PROVE  NoDoubleEntry'
BY DEF IInv, TypeOK, NoDoubleEntry

\* Everywhere but in the link step a call has nothing to link back.
LEMMA NothingToDo ==
    /\ Idle.todo = {}
    /\ \A x, e, l : /\ AtTop(x).todo = {} /\ Raising(x).todo = {}
                    /\ Descending(x, e, l).todo = {}
                    /\ Searching(x, e, l).todo = {}
BY DEF Idle, AtTop, Raising, Descending, Searching, Call

\* All steps but setOwn and link leave the graph alone and nothing to link to.
LEMMA QuietStep ==
    ASSUME IInv, NEW up, Hung(up), NEW w \in Worker, Insert(w), ~SetOwn(w), ~Link(w)
    PROVE  /\ UNCHANGED links
           /\ work[w].pc # "link"
           /\ \E t : work' = [work EXCEPT ![w] = t] /\ t.todo = {}
<1>1. UNCHANGED links /\ \E t : work' = [work EXCEPT ![w] = t] /\ t.todo = {}
  <2>1. CASE Receive(w)
    BY <2>1, NothingToDo DEF Receive
  <2>2. CASE ReadTop(w)
    <3> DEFINE x == work[w].cur
               t == IF maxLevel > level[x] THEN Descending(x, entry, maxLevel)
                    ELSE Searching(x, entry, StartLayer(level[x], maxLevel))
    <3>1. work' = [work EXCEPT ![w] = t] /\ UNCHANGED links
      BY <2>2 DEF ReadTop
    <3>2. t.todo = {}
      BY NothingToDo
    <3> QED
      BY <3>1, <3>2
  <2>3. CASE DescendMove(w)
    <3>1. PICK b : work' = [work EXCEPT ![w] = Descending(work[w].cur, b, work[w].lc)]
      BY <2>3 DEF DescendMove
    <3> QED
      BY <2>3, <3>1, NothingToDo DEF DescendMove
  <2>4. CASE DescendDrop(w)
    <3> DEFINE s == work[w]
               t == IF s.lc - 1 > level[s.cur] THEN Descending(s.cur, s.ep, s.lc - 1)
                                               ELSE Searching(s.cur, s.ep, s.lc - 1)
    <3>1. work' = [work EXCEPT ![w] = t] /\ UNCHANGED links
      BY <2>4 DEF DescendDrop
    <3>2. t.todo = {}
      BY NothingToDo
    <3> QED
      BY <3>1, <3>2
  <2>5. CASE Expand(w)
    BY <2>5, ExpandMoves
  <2>6. CASE Raise(w)
    BY <2>6, NothingToDo DEF Raise
  <2> QED
    BY <2>1, <2>2, <2>3, <2>4, <2>5, <2>6 DEF Insert
<1>2. work[w].pc # "link"
  BY DEF Insert, Receive, ReadTop, DescendMove, DescendDrop, Expand, Raise
<1> QED
  BY <1>1, <1>2

\* No step makes link append an ID twice.
LEMMA NextNoDouble ==
    ASSUME IInv, NEW up, Hung(up), NoDoubleEntry, [Next]_vars
    PROVE  NoDoubleEntry'
<1>1. ASSUME NEW w \in Worker, Insert(w), ~SetOwn(w), ~Link(w)
      PROVE  UNCHANGED links /\ \E t : work' = [work EXCEPT ![w] = t] /\ t.todo = {}
  BY <1>1, QuietStep
<1>2. ASSUME NEW w \in Worker, Insert(w) PROVE NoDoubleEntry'
  BY <1>1, <1>2, SetOwnNoDouble, LinkNoDouble, MoveNoDouble
<1>3. CASE Finish \/ Finished \/ UNCHANGED vars
  BY <1>3 DEF Finish, Finished, vars, NoDoubleEntry
<1> QED
  BY <1>2, <1>3 DEF Next

-----------------------------------------------------------------------------
(* Lists, once filled, stay filled, and every insertion fills its node's.  *)

\* What setOwn stores is never empty, nor is what it leaves to link back.
LEMMA SetOwnFills ==
    ASSUME IInv, NEW up, Hung(up), NEW w \in Worker, SetOwn(w)
    PROVE  \E K \in SUBSET work[w].found, e \in work[w].found,
              own \in SUBSET (work[w].found \cup links[work[w].cur][work[w].lc]) :
              /\ K # {} /\ own # {}
              /\ OwnList(work[w].cur, work[w].lc, K, own)
              /\ links' = [links EXCEPT ![work[w].cur][work[w].lc] = own]
              /\ work' = [work EXCEPT ![w] = Linking(work[w].cur, e, work[w].lc, K)]
<1> DEFINE x == work[w].cur
           l == work[w].lc
           F == work[w].found
<1>1. PICK K \in SUBSET F, own \in SUBSET (F \cup links[x][l]), e \in F :
        /\ Selected(x, F, M, NearestM, K)
        /\ OwnList(x, l, K, own)
        /\ links' = [links EXCEPT ![x][l] = own]
        /\ work' = [work EXCEPT ![w] = Linking(x, e, l, K)]
  BY DEF SetOwn
<1>2. x \in Node /\ l \in Layer /\ F \in SUBSET Node /\ F # {} /\ links[x][l] \in SUBSET Node
  BY DEF SetOwn, IInv, TypeOK, CallType, Hung, CallsGather, Gathers
<1>3. M \in Nat /\ M > 0 /\ CapAt(l) \in Nat /\ CapAt(l) > 0
  BY <1>2, CapType
<1>4. K # {}
  <2> HIDE DEF x, l, F
  <2> QED
    BY <1>1, <1>2, <1>3, SomeSelected
<1>5. own # {}
  <2> DEFINE merged == IF Building THEN K \cup links[x][l] ELSE K
  <2>1. merged \in SUBSET Node /\ merged # {}
    BY <1>1, <1>2, <1>4
  <2>2. own = merged \/ Selected(x, merged, CapAt(l), NearestM, own)
    BY <1>1 DEF OwnList
  <2> HIDE DEF merged, x, l, F
  <2> QED
    BY <1>2, <1>3, <2>1, <2>2, SomeSelected
<1> QED
  BY <1>1, <1>4, <1>5

\* The same of link.
LEMMA LinkFills ==
    ASSUME IInv, NEW w \in Worker, Link(w)
    PROVE  \E r \in work[w].todo, list \in SUBSET Node :
              /\ list # {}
              /\ LinkedList(r, work[w].cur, work[w].lc, list)
              /\ links' = [links EXCEPT ![r][work[w].lc] = list]
              /\ work' = [work EXCEPT ![w] =
                    IF work[w].todo # {r}
                    THEN Linking(work[w].cur, work[w].ep, work[w].lc, work[w].todo \ {r})
                    ELSE NextLayer(work[w].cur, work[w].ep, work[w].lc)]
<1> DEFINE x == work[w].cur
           l == work[w].lc
<1>1. PICK r \in work[w].todo, list \in SUBSET Node :
              /\ LinkedList(r, x, l, list)
              /\ links' = [links EXCEPT ![r][l] = list]
              /\ work' = [work EXCEPT ![w] =
                    IF work[w].todo # {r} THEN Linking(x, work[w].ep, l, work[w].todo \ {r})
                                          ELSE NextLayer(x, work[w].ep, l)]
  BY DEF Link
<1>2. x \in Node /\ l \in Layer /\ r \in Node /\ links[r][l] \in SUBSET Node
  BY DEF IInv, TypeOK, CallType
<1> DEFINE longer == links[r][l] \cup {x}
<1>3. longer \in SUBSET Node /\ longer # {} /\ CapAt(l) \in Nat /\ CapAt(l) > 0
  BY <1>2, CapType
<1>4. list = longer \/ Selected(r, longer, CapAt(l), NearestM, list)
  BY <1>1 DEF LinkedList
<1>5. list # {}
  <2> HIDE DEF longer, x, l
  <2> QED
    BY <1>2, <1>3, <1>4, SomeSelected
<1> QED
  BY <1>1, <1>5

\* No step empties a list.
LEMMA FilledStays ==
    ASSUME IInv, NEW up, Hung(up), [Next]_vars,
           NEW n \in Node, NEW l \in Layer, links[n][l] # {}
    PROVE  links'[n][l] # {}
<1>1. ASSUME NEW m \in Node, NEW k \in Layer, NEW list \in SUBSET Node, list # {},
             links' = [links EXCEPT ![m][k] = list]
      PROVE  links'[n][l] # {}
  BY <1>1 DEF IInv, TypeOK
<1>2. ASSUME NEW w \in Worker, SetOwn(w) PROVE links'[n][l] # {}
  <2>1. /\ work[w].cur \in Node /\ work[w].lc \in Layer /\ work[w].found \subseteq Node
        /\ links[work[w].cur][work[w].lc] \subseteq Node
    BY DEF IInv, TypeOK, CallType
  <2>2. PICK own \in SUBSET Node :
           own # {} /\ links' = [links EXCEPT ![work[w].cur][work[w].lc] = own]
    BY <1>2, <2>1, SetOwnFills
  <2> QED
    BY <1>1, <2>1, <2>2
<1>3. ASSUME NEW w \in Worker, Link(w) PROVE links'[n][l] # {}
  <2>1. work[w].lc \in Layer /\ work[w].todo \subseteq Node
    BY DEF IInv, TypeOK, CallType
  <2>2. PICK r \in work[w].todo, list \in SUBSET Node :
              /\ list # {}
              /\ LinkedList(r, work[w].cur, work[w].lc, list)
              /\ links' = [links EXCEPT ![r][work[w].lc] = list]
              /\ work' = [work EXCEPT ![w] =
                    IF work[w].todo # {r}
                    THEN Linking(work[w].cur, work[w].ep, work[w].lc, work[w].todo \ {r})
                    ELSE NextLayer(work[w].cur, work[w].ep, work[w].lc)]
    BY <1>3, LinkFills
  <2>3. r \in Node
    BY <2>1
  <2> QED
    BY <1>1, <2>1, <2>2, <2>3
<1>4. ASSUME UNCHANGED links PROVE links'[n][l] # {}
  BY <1>4
<1> QED
  BY <1>2, <1>3, <1>4 DEF Next, Insert, Receive, ReadTop, DescendMove, DescendDrop, Expand,
     Raise, Finish, Finished, vars

-----------------------------------------------------------------------------
(* Every node can be left at the bottom layer.                             *)

\* Some goroutine is about to link back from n at the bottom layer.
Awaits(n) ==
    \E w \in Worker : work[w].pc = "link" /\ work[w].lc = 0 /\ n \in work[w].todo

\* The nodes that have yet to join a piece of the bottom layer, and node 0.
Roots ==
    {0} \cup (Node \ allocated)
        \cup { work[w].cur : w \in { v \in Worker : 0 \in Ahead(work[v]) } }

\* A call has filled its node's bottom list.
Filled(s) == s.pc = "raise" \/ (s.pc = "link" /\ s.lc = 0)

\* Nobody is at work on a finished index.
Done == ready => next = N /\ \A w \in Worker : work[w].pc = "idle"

Rooted(up) ==
    /\ Done
    /\ \A n \in Node : \E r \in Roots : up[0][n] = up[0][r]
    /\ (\E b \in Node \ {0} : up[0][b] = up[0][0]) => links[0][0] # {} \/ Awaits(0)
    /\ \A w \in Worker : Filled(work[w]) => links[work[w].cur][0] # {}
    /\ \A x \in Placed \ {0} : links[x][0] # {}

\* On a finished index node 0 is the only root, so its piece is everything.
LEMMA RootedWayOut ==
    ASSUME IInv, NEW up, Rooted(up)
    PROVE  HasWayOut
<1> SUFFICES ASSUME ready, N > 1 PROVE links[0][0] # {}
  BY DEF HasWayOut, Rooted
<1>1. next = N /\ \A w \in Worker : work[w].pc = "idle"
  BY DEF Rooted, Done
<1>2. Roots = {0}
  <2>1. \A w \in Worker : Ahead(work[w]) = {}
    BY <1>1 DEF Ahead
  <2>2. Node \ allocated = {}
    BY <1>1 DEF IInv, Turns, Node
  <2> QED
    BY <2>1, <2>2 DEF Roots
<1>3. 1 \in Node /\ 1 # 0
  BY DEF Node
<1>4. up[0][1] = up[0][0]
  BY <1>2, <1>3 DEF Rooted
<1>5. ~Awaits(0)
  BY <1>1 DEF Awaits
<1> QED
  BY <1>3, <1>4, <1>5 DEF Rooted

\* At first every node is a root.
LEMMA InitRooted ==
    ASSUME Init, NEW up, up = [l \in Layer |-> [a \in Node |-> {a}]]
    PROVE  Rooted(up)
<1>1. 0 \in Layer /\ 0 \in Node
  BY DEF Layer, Node
<1>2. \A a \in Node : up[0][a] = {a}
  BY <1>1
<1>3. \A w \in Worker : work[w].pc = "idle"
  BY DEF Init, Idle, Call
<1>4. Done
  BY DEF Init, Done
<1>5. \A n \in Node : n \in Roots
  BY DEF Init, Roots
<1>6. ~\E b \in Node \ {0} : up[0][b] = up[0][0]
  BY <1>1, <1>2
<1>7. \A w \in Worker : ~Filled(work[w])
  BY <1>3 DEF Filled
<1>8. Placed \subseteq {0}
  BY DEF Init, Placed, Node
<1> QED
  BY <1>4, <1>5, <1>6, <1>7, <1>8 DEF Rooted

\* A worker that goes on, unless it joins pieces of the bottom layer.
LEMMA MoveRooted ==
    ASSUME IInv, NEW up, NEW q, Rooted(up), SamePieces(up, q), Done',
           NEW w \in Worker, NEW t, work' = [work EXCEPT ![w] = t],
           \A n \in Node \ allocated :
               n \in allocated' => 0 \in Ahead(t) /\ t.cur = n,
           \A n \in Node : links[n][0] # {} => links'[n][0] # {},
           0 \in Ahead(work[w]) => 0 \in Ahead(t) /\ t.cur = work[w].cur,
           work[w].pc = "link" /\ work[w].lc = 0 /\ 0 \in work[w].todo =>
               \/ t.pc = "link" /\ t.lc = 0 /\ 0 \in t.todo
               \/ links'[0][0] # {},
           Filled(t) => t.cur \in Node /\ links'[t.cur][0] # {},
           \A x \in Placed' \ Placed : links'[x][0] # {}
    PROVE  Rooted(q)'
<1>1. \A v \in Worker : work'[v] = IF v = w THEN t ELSE work[v]
  BY DEF IInv, TypeOK
<1>2. 0 \in Node /\ \A v \in Worker : work[v].cur \in Node
  BY DEF Node, IInv, TypeOK, CallType
<1>3. ASSUME NEW n \in Node PROVE \E r \in Roots' : q[0][n] = q[0][r]
  <2>1. PICK r \in Roots : up[0][n] = up[0][r]
    BY DEF Rooted
  <2>2. r \in Node
    BY <1>2, <2>1 DEF Roots
  <2>3. r \in Roots'
    <3>1. CASE r \in {0} \cup (Node \ allocated)
      <4>1. r \in allocated' /\ r # 0 => 0 \in Ahead(work'[w]) /\ r = work'[w].cur
        BY <1>1, <3>1
      <4> QED
        BY <2>2, <3>1, <4>1 DEF Roots, Ahead
    <3>2. CASE \E v \in Worker : 0 \in Ahead(work[v]) /\ r = work[v].cur
      <4>1. PICK v \in Worker : 0 \in Ahead(work[v]) /\ r = work[v].cur
        BY <3>2
      <4>2. 0 \in Ahead(work'[v]) /\ r = work'[v].cur
        BY <1>1, <4>1
      <4> QED
        BY <4>2 DEF Roots, Ahead
    <3> QED
      BY <2>1, <3>1, <3>2 DEF Roots
  <2> QED
    BY <2>1, <2>2, <2>3 DEF SamePieces
<1>4. ASSUME NEW b \in Node \ {0}, q[0][b] = q[0][0] PROVE links'[0][0] # {} \/ Awaits(0)'
  <2>1. links[0][0] # {} \/ Awaits(0)
    BY <1>2, <1>4 DEF Rooted, SamePieces
  <2>2. CASE Awaits(0)
    <3>1. PICK v \in Worker : work[v].pc = "link" /\ work[v].lc = 0 /\ 0 \in work[v].todo
      BY <2>2 DEF Awaits
    <3> QED
      BY <1>1, <3>1 DEF Awaits
  <2> QED
    BY <1>2, <2>1, <2>2
<1>5. ASSUME NEW v \in Worker, Filled(work'[v]) PROVE links'[work'[v].cur][0] # {}
  BY <1>1, <1>2, <1>5 DEF Rooted
<1>6. ASSUME NEW x \in Placed' \ {0} PROVE links'[x][0] # {}
  <2>1. x \in Node
    BY DEF Placed
  <2> QED
    BY <1>6, <2>1 DEF Rooted
<1> QED
  BY <1>3, <1>4, <1>5, <1>6 DEF Rooted, Filled

\* The node joins a piece with a root of its own, and may stop being one.
LEMMA SetOwnRooted ==
    ASSUME IInv, NEW up, Hung(up), Rooted(up), NEW w \in Worker, SetOwn(w), work[w].lc = 0,
           NEW q, JoinedPieces(up, q, work[w].cur, work[w].ep),
           \A n \in Node : links[n][0] # {} => links'[n][0] # {}
    PROVE  Rooted(q)'
<1> DEFINE x == work[w].cur
           p == work[w].ep
<1>1. PICK K \in SUBSET work[w].found, e \in work[w].found,
           own \in SUBSET (work[w].found \cup links[x][0]) :
        /\ K # {} /\ own # {}
        /\ links' = [links EXCEPT ![x][0] = own]
        /\ work' = [work EXCEPT ![w] = Linking(x, e, 0, K)]
  BY SetOwnFills
<1>2. /\ work[w].pc = "own" /\ w \in Busy
      /\ UNCHANGED <<level, allocated, entry, maxLevel, next, ready>>
  BY DEF SetOwn, Busy
<1>3. /\ work[w] \in CallType /\ x \in Node /\ p \in Node /\ 0 \in Layer /\ 0 \in Node
      /\ work[w].found \subseteq Node /\ x # 0 /\ x \in allocated
  <2>1. work[w] \in CallType
    BY DEF IInv, TypeOK
  <2>2. x \in Node /\ p \in Node /\ work[w].found \subseteq Node
    BY <2>1 DEF CallType
  <2>3. x # 0 /\ x \in allocated
    BY <1>2 DEF IInv, TypeOK, Turns
  <2>4. 0 \in Layer /\ 0 \in Node
    BY DEF Layer, Node
  <2> QED
    BY <2>1, <2>2, <2>3, <2>4
<1>4. up[0][x] # up[0][p]
  <2>1. 0 \in Ahead(work[w]) /\ Enters(work[w], 0)
    BY <1>2, <1>3 DEF Ahead, Enters, Layer
  <2> QED
    BY <1>3, <2>1 DEF Hung, CallsPend, Waiting, Orders, Order
<1>5. \A y \in work[w].found : y \in Node /\ up[0][y] = up[0][p]
  BY <1>2, <1>3 DEF Hung, CallsGather, Gathers
<1> DEFINE t == Linking(x, e, 0, K)
<1>6. t.pc = "link" /\ t.cur = x /\ t.lc = 0 /\ t.todo = K
  BY DEF Linking, Call
<1>7. \A v \in Worker : work'[v] = IF v = w THEN t ELSE work[v]
  BY <1>1 DEF IInv, TypeOK
<1>8. links'[x][0] # {}
  BY <1>1, <1>3 DEF IInv, TypeOK
<1> HIDE DEF t
<1>9. Done'
  BY <1>2, <1>7 DEF Rooted, Done
<1>10. \A n \in Roots : n # x => n \in Roots'
  <2> SUFFICES ASSUME NEW n \in Roots, n # x PROVE n \in Roots'
    OBVIOUS
  <2>1. CASE n \in {0} \cup (Node \ allocated)
    BY <1>2, <2>1 DEF Roots
  <2>2. CASE \E v \in Worker : 0 \in Ahead(work[v]) /\ n = work[v].cur
    <3>1. PICK v \in Worker : 0 \in Ahead(work[v]) /\ n = work[v].cur
      BY <2>2
    <3>2. 0 \in Ahead(work'[v]) /\ n = work'[v].cur
      BY <1>7, <3>1
    <3> QED
      BY <3>2 DEF Roots, Ahead
  <2> QED
    BY <2>1, <2>2 DEF Roots
<1>11. Roots \subseteq Node
  BY <1>3 DEF Roots, IInv, TypeOK, CallType
<1>12. ASSUME NEW n \in Node PROVE \E r \in Roots' : q[0][n] = q[0][r]
  <2>1. PICK r \in Roots : up[0][n] = up[0][r]
    BY DEF Rooted
  <2>2. CASE r # x
    BY <1>10, <1>11, <2>1, <2>2 DEF JoinedPieces
  <2>3. CASE r = x
    <3>1. PICK s \in Roots : up[0][p] = up[0][s]
      BY <1>3 DEF Rooted
    <3>2. s # x
      BY <1>4, <3>1
    <3> QED
      BY <1>3, <1>10, <1>11, <2>1, <2>3, <3>1, <3>2 DEF JoinedPieces
  <2> QED
    BY <2>2, <2>3
<1>13. ASSUME NEW b \in Node \ {0}, q[0][b] = q[0][0] PROVE links'[0][0] # {} \/ Awaits(0)'
  <2>1. CASE \E a \in Node \ {0} : up[0][a] = up[0][0]
    <3>1. links[0][0] # {} \/ Awaits(0)
      BY <2>1 DEF Rooted
    <3>2. CASE Awaits(0)
      <4>1. PICK v \in Worker : work[v].pc = "link" /\ work[v].lc = 0 /\ 0 \in work[v].todo
        BY <3>2 DEF Awaits
      <4> QED
        BY <1>2, <1>7, <4>1 DEF Awaits
    <3> QED
      BY <1>3, <3>1, <3>2
  <2>2. CASE ~\E a \in Node \ {0} : up[0][a] = up[0][0]
    \* node 0 is alone, so it is the node found
    <3>1. up[0][0] \in {up[0][x], up[0][p]}
      BY <1>3, <1>13, <2>2 DEF JoinedPieces
    <3>2. up[0][0] = up[0][p]
      BY <1>3, <2>2, <3>1
    <3>3. PICK k \in K : k \in Node /\ up[0][k] = up[0][p]
      BY <1>1, <1>5
    <3>4. k = 0
      BY <2>2, <3>2, <3>3
    <3> QED
      BY <1>6, <1>7, <3>3, <3>4 DEF Awaits
  <2> QED
    BY <2>1, <2>2
<1>14. ASSUME NEW v \in Worker, Filled(work'[v]) PROVE links'[work'[v].cur][0] # {}
  <2>1. CASE v = w
    BY <1>6, <1>7, <1>8, <2>1
  <2>2. CASE v # w
    BY <1>7, <1>14, <2>2 DEF Rooted, IInv, TypeOK, CallType
  <2> QED
    BY <2>1, <2>2
<1>15. ASSUME NEW y \in Placed' \ {0} PROVE links'[y][0] # {}
  <2>1. Placed' = Placed /\ y \in Node
    BY SetOwnKeeps DEF Placed
  <2> QED
    BY <1>15, <2>1 DEF Rooted
<1> QED
  BY <1>9, <1>12, <1>13, <1>14, <1>15 DEF Rooted, Filled

\* The other steps leave the pieces of the bottom layer as they are.
LEMMA StepRooted ==
    ASSUME IInv, NEW up, Hung(up), Rooted(up), [Next]_vars,
           \A w \in Worker : SetOwn(w) => work[w].lc # 0,
           NEW q, SamePieces(up, q)
    PROVE  Rooted(q)'
<1>0. 0 \in Layer /\ 0 \in Node /\ \A l \in Layer : 0 <= l /\ (0 < l <=> l # 0)
  BY DEF Layer, Node
<1>1. \A n \in Node : links[n][0] # {} => links'[n][0] # {}
  BY <1>0, FilledStays
<1>2. ASSUME NEW w \in Worker, Receive(w) PROVE Rooted(q)'
  <2> DEFINE t == AtTop(next)
  <2>1. t.pc = "top" /\ t.cur = next /\ 0 \in Ahead(t) /\ work' = [work EXCEPT ![w] = t]
    BY <1>0, <1>2 DEF AtTop, Call, Ahead, Receive
  <2>2. Done'
    BY <1>2 DEF Rooted, Done, Receive, IInv, TypeOK
  <2>3. work[w].pc = "idle" /\ allocated' = allocated \cup {next} /\ Placed' = Placed
    BY <1>2, ReceiveKeeps DEF Receive
  <2>4. 0 \notin Ahead(work[w]) /\ ~Filled(t)
    BY <2>1, <2>3 DEF Ahead, Filled
  <2> HIDE DEF t
  <2> QED
    BY <1>1, <2>1, <2>2, <2>3, <2>4, MoveRooted
<1>3. ASSUME NEW w \in Worker, NEW t, work' = [work EXCEPT ![w] = t], work[w].pc # "idle",
             UNCHANGED <<allocated, next, ready>>, Placed' = Placed,
             0 \in Ahead(work[w]) => 0 \in Ahead(t) /\ t.cur = work[w].cur,
             work[w].pc = "link" /\ work[w].lc = 0 /\ 0 \in work[w].todo =>
               \/ t.pc = "link" /\ t.lc = 0 /\ 0 \in t.todo
               \/ links'[0][0] # {},
             Filled(t) => t.cur = work[w].cur /\ Filled(work[w])
      PROVE  Rooted(q)'
  <2>1. Done'
    BY <1>3 DEF Rooted, Done
  <2>2. Filled(t) => t.cur \in Node /\ links'[t.cur][0] # {}
    BY <1>1, <1>3 DEF Rooted, IInv, TypeOK, CallType
  <2> QED
    BY <1>1, <1>3, <2>1, <2>2, MoveRooted
<1>4. ASSUME NEW w \in Worker, ReadTop(w) PROVE Rooted(q)'
  <2> DEFINE x == work[w].cur
             t == IF maxLevel > level[x] THEN Descending(x, entry, maxLevel)
                  ELSE Searching(x, entry, StartLayer(level[x], maxLevel))
  <2>1. /\ work' = [work EXCEPT ![w] = t] /\ work[w].pc = "top"
        /\ UNCHANGED <<allocated, next, ready>>
    BY <1>4 DEF ReadTop
  <2>2. StartLayer(level[x], maxLevel) \in Layer
    BY DEF StartLayer, IInv, TypeOK, CallType
  <2>3. t.pc \in {"descend", "search"} /\ t.cur = x /\ (t.pc = "search" => t.lc \in Layer)
    BY <2>2 DEF Descending, Searching, Call
  <2> HIDE DEF t
  <2>4. 0 \in Ahead(t) /\ ~Filled(t)
    BY <1>0, <2>3 DEF Ahead, Filled
  <2> QED
    BY <1>3, <1>4, <2>1, <2>3, <2>4, ReadTopKeeps
<1>5. ASSUME NEW w \in Worker, DescendMove(w) PROVE Rooted(q)'
  <2>1. PICK b : work' = [work EXCEPT ![w] = Descending(work[w].cur, b, work[w].lc)]
    BY <1>5 DEF DescendMove
  <2> DEFINE t == Descending(work[w].cur, b, work[w].lc)
  <2>2. t.pc = "descend" /\ t.cur = work[w].cur
    BY DEF Descending, Call
  <2>3. work[w].pc = "descend" /\ UNCHANGED <<allocated, next, ready>> /\ work' = [work EXCEPT ![w] = t]
    BY <1>5, <2>1 DEF DescendMove
  <2> HIDE DEF t
  <2>4. 0 \in Ahead(t) /\ ~Filled(t)
    BY <1>0, <2>2 DEF Ahead, Filled
  <2> QED
    BY <1>3, <1>5, <2>2, <2>3, <2>4, DescendMoveKeeps
<1>6. ASSUME NEW w \in Worker, DescendDrop(w) PROVE Rooted(q)'
  <2> DEFINE s == work[w]
             t == IF s.lc - 1 > level[s.cur] THEN Descending(s.cur, s.ep, s.lc - 1)
                                             ELSE Searching(s.cur, s.ep, s.lc - 1)
  <2>1. /\ work' = [work EXCEPT ![w] = t] /\ s.pc = "descend"
        /\ UNCHANGED <<allocated, next, ready>>
    BY <1>6 DEF DescendDrop
  <2>2. s.lc - 1 >= 0
    BY <2>1 DEF IInv, TypeOK, CallType, WalkInBounds, InBounds, Layer
  <2>3. t.pc \in {"descend", "search"} /\ t.cur = s.cur /\ t.lc = s.lc - 1
    BY DEF Descending, Searching, Call
  <2> HIDE DEF t
  <2>4. 0 \in Ahead(t) /\ ~Filled(t)
    BY <1>0, <2>2, <2>3 DEF Ahead, Filled
  <2> HIDE DEF s
  <2> QED
    BY <1>3, <1>6, <2>1, <2>3, <2>4, DescendDropKeeps DEF s
<1>7. ASSUME NEW w \in Worker, Expand(w) PROVE Rooted(q)'
  <2>1. PICK t \in CallType :
              /\ work' = [work EXCEPT ![w] = t]
              /\ work[w].pc = "search" /\ t.pc \in {"search", "own"}
              /\ t.cur = work[w].cur /\ t.ep = work[w].ep /\ t.lc = work[w].lc
              /\ t.found # {} /\ t.todo = {}
              /\ \E c \in work[w].cand : t.seen \cup t.cand \cup t.found \subseteq
                    work[w].seen \cup work[w].cand \cup work[w].found \cup links[c][work[w].lc]
              /\ UNCHANGED <<level, allocated, links, entry, maxLevel, next, ready>>
    BY <1>7, ExpandMoves
  <2>2. t.lc \in Layer
    BY DEF CallType
  <2>3. 0 \in Ahead(t) /\ ~Filled(t)
    BY <1>0, <2>1, <2>2 DEF Ahead, Filled
  <2> QED
    BY <1>3, <1>7, <2>1, <2>3, ExpandKeeps
<1>8. ASSUME NEW w \in Worker, SetOwn(w) PROVE Rooted(q)'
  <2>1. PICK K, e : work' = [work EXCEPT ![w] = Linking(work[w].cur, e, work[w].lc, K)]
    BY <1>8 DEF SetOwn
  <2> DEFINE t == Linking(work[w].cur, e, work[w].lc, K)
  <2>2. t.pc = "link" /\ t.cur = work[w].cur /\ t.lc = work[w].lc
    BY DEF Linking, Call
  <2>3. work[w].pc = "own" /\ UNCHANGED <<allocated, next, ready>> /\ work' = [work EXCEPT ![w] = t]
    BY <1>8, <2>1 DEF SetOwn
  <2> HIDE DEF t
  <2>4. work[w].lc \in Layer /\ work[w].lc # 0
    BY <1>8 DEF IInv, TypeOK, CallType
  <2>5. 0 \in Ahead(t) /\ ~Filled(t)
    BY <1>0, <2>2, <2>4 DEF Ahead, Filled
  <2> QED
    BY <1>3, <1>8, <2>2, <2>3, <2>5, SetOwnKeeps
<1>9. ASSUME NEW w \in Worker, Link(w) PROVE Rooted(q)'
  <2> DEFINE s == work[w]
  <2>1. PICK r \in s.todo, list \in SUBSET Node :
              /\ list # {}
              /\ LinkedList(r, s.cur, s.lc, list)
              /\ links' = [links EXCEPT ![r][s.lc] = list]
              /\ work' = [work EXCEPT ![w] =
                    IF s.todo # {r} THEN Linking(s.cur, s.ep, s.lc, s.todo \ {r})
                                    ELSE NextLayer(s.cur, s.ep, s.lc)]
    BY <1>9, LinkFills
  <2>2. s.pc = "link" /\ UNCHANGED <<allocated, next, ready>> /\ s.lc \in Layer
    BY <1>9 DEF Link, IInv, TypeOK, CallType
  <2> DEFINE t == IF s.todo # {r} THEN Linking(s.cur, s.ep, s.lc, s.todo \ {r})
                                  ELSE NextLayer(s.cur, s.ep, s.lc)
  <2>3. /\ s.todo # {r} => t.pc = "link" /\ t.cur = s.cur /\ t.lc = s.lc /\ t.todo = s.todo \ {r}
        /\ s.todo = {r} /\ s.lc = 0 => t.pc = "raise" /\ t.cur = s.cur
        /\ s.todo = {r} /\ s.lc # 0 => t.pc = "search" /\ t.cur = s.cur /\ t.lc = s.lc - 1
    BY DEF Linking, NextLayer, Raising, Searching, Call
  <2>4. work' = [work EXCEPT ![w] = t]
    BY <2>1
  <2> HIDE DEF t
  <2>5. 0 \in Ahead(s) => 0 \in Ahead(t) /\ t.cur = s.cur
    <3> SUFFICES ASSUME 0 \in Ahead(s) PROVE 0 \in Ahead(t) /\ t.cur = s.cur
      OBVIOUS
    <3>1. s.lc # 0
      BY <1>0, <2>2 DEF Ahead
    <3>2. 0 <= s.lc - 1 /\ 0 < s.lc
      BY <2>2, <3>1 DEF Layer
    <3> QED
      BY <1>0, <2>3, <3>1, <3>2 DEF Ahead
  <2>6. Filled(t) => t.cur = s.cur /\ Filled(s)
    BY <2>2, <2>3 DEF Filled
  <2>7. s.lc = 0 /\ 0 \in s.todo => \/ t.pc = "link" /\ t.lc = 0 /\ 0 \in t.todo
                                   \/ links'[0][0] # {}
    <3>1. r = 0 /\ s.lc = 0 => links'[0][0] # {}
      BY <1>0, <2>1 DEF IInv, TypeOK
    <3> QED
      BY <2>3, <3>1
  <2> HIDE DEF s
  <2> QED
    BY <1>3, <1>9, <2>2, <2>4, <2>5, <2>6, <2>7, LinkKeeps DEF s
<1>10. ASSUME NEW w \in Worker, Raise(w) PROVE Rooted(q)'
  <2>1. /\ work[w].pc = "raise" /\ work' = [work EXCEPT ![w] = Idle]
        /\ UNCHANGED <<allocated, next, ready>>
    BY <1>10 DEF Raise
  <2>2. Placed' = Placed \cup {work[w].cur} /\ work[w].cur \in Node
    BY <1>10, RaiseKeeps
  <2>3. Done'
    BY <2>1 DEF Rooted, Done
  <2>4. links'[work[w].cur][0] # {}
    BY <1>1, <2>1, <2>2 DEF Rooted, Filled
  <2>5. 0 \notin Ahead(work[w]) /\ ~Filled(Idle)
    BY <2>1 DEF Ahead, Filled, Idle, Call
  <2> QED
    BY <1>1, <2>1, <2>2, <2>3, <2>4, <2>5, MoveRooted
<1>11. CASE Finish \/ Finished \/ UNCHANGED vars
  <2>1. UNCHANGED <<level, allocated, links, next, work>>
    BY <1>11 DEF Finish, Finished, vars
  <2>2. Placed' = Placed
    BY <2>1 DEF Placed, InFlight, Busy
  <2>3. Done'
    <3>1. CASE Finish
      <4>1. next' = N /\ \A w \in Worker : work'[w] = Idle
        BY <3>1 DEF Finish
      <4> QED
        BY <4>1 DEF Done, Idle, Call
    <3>2. CASE Finished \/ UNCHANGED vars
      <4>1. UNCHANGED <<next, work, ready>>
        BY <3>2 DEF Finished, vars
      <4> QED
        BY <4>1 DEF Rooted, Done
    <3> QED
      BY <1>11, <3>1, <3>2
  <2>4. Roots' = Roots /\ Roots \subseteq Node /\ (Awaits(0))' = Awaits(0)
    BY <1>0, <2>1 DEF Roots, Awaits, Ahead, IInv, TypeOK, CallType
  <2>5. \A n \in Node : \E r \in Roots' : q[0][n] = q[0][r]
    BY <2>4 DEF Rooted, SamePieces
  <2>6. (\E b \in Node \ {0} : q[0][b] = q[0][0]) => links'[0][0] # {} \/ (Awaits(0))'
    BY <1>0, <2>1, <2>4 DEF Rooted, SamePieces
  <2> QED
    BY <2>1, <2>2, <2>3, <2>5, <2>6 DEF Rooted, Filled
<1> QED
  BY <1>2, <1>4, <1>5, <1>6, <1>7, <1>8, <1>9, <1>10, <1>11 DEF Next, Insert

\* What every reachable state of a build satisfies.
Woven == IInv /\ NoDoubleEntry /\ \E up : Hung(up) /\ Rooted(up)

\* The first node alone is woven.
LEMMA InitWoven == Init => Woven
<1> SUFFICES ASSUME Init PROVE Woven
  OBVIOUS
<1>1. PICK up : up = [l \in Layer |-> [a \in Node |-> {a}]]
  OBVIOUS
<1>2. NoDoubleEntry
  BY NothingToDo DEF Init, NoDoubleEntry
<1> QED
  BY <1>1, <1>2, InitIInv, InitHung, InitRooted DEF Woven

\* setOwn at the bottom joins two pieces of it, all other steps keep them.
LEMMA StepWoven ==
    ASSUME IInv, NEW up, Hung(up), Rooted(up), [Next]_vars
    PROVE  \E q : /\ Hung(q)' /\ Rooted(q)'
                  /\ \/ SamePieces(up, q)
                     \/ \E w \in Worker : /\ SetOwn(w) /\ work[w].lc = 0
                                          /\ JoinedPieces(up, q, work[w].cur, work[w].ep)
<1>1. CASE \E w \in Worker :
              /\ SetOwn(w) /\ work[w].lc = 0
              /\ \E q : Hung(q)' /\ JoinedPieces(up, q, work[w].cur, work[w].ep)
  <2>1. PICK w \in Worker :
              /\ SetOwn(w) /\ work[w].lc = 0
              /\ \E q : Hung(q)' /\ JoinedPieces(up, q, work[w].cur, work[w].ep)
    BY <1>1
  <2>2. PICK q : Hung(q)' /\ JoinedPieces(up, q, work[w].cur, work[w].ep)
    BY <2>1
  <2>3. 0 \in Layer
    BY DEF Layer
  <2>4. \A n \in Node : links[n][0] # {} => links'[n][0] # {}
    BY <2>3, FilledStays
  <2>5. Rooted(q)'
    BY <2>1, <2>2, <2>4, SetOwnRooted
  <2> QED
    BY <2>1, <2>2, <2>5
<1>2. CASE (\A w \in Worker : SetOwn(w) => work[w].lc # 0) /\ Keeps(up)
  <2>1. PICK q : Hung(q)' /\ SamePieces(up, q)
    BY <1>2 DEF Keeps
  <2>2. Rooted(q)'
    BY <1>2, <2>1, StepRooted
  <2> QED
    BY <2>1, <2>2
<1> QED
  BY <1>1, <1>2, NextHung

\* So every step weaves on.
LEMMA NextWoven == Woven /\ [Next]_vars => Woven'
<1> SUFFICES ASSUME Woven, [Next]_vars PROVE Woven'
  OBVIOUS
<1>1. IInv /\ NoDoubleEntry
  BY DEF Woven
<1>2. PICK up : Hung(up) /\ Rooted(up)
  BY DEF Woven
<1>3. IInv' /\ NoDoubleEntry'
  BY <1>1, <1>2, NextIInv, NextNoDouble
<1> QED
  BY <1>1, <1>2, <1>3, StepWoven DEF Woven

\* Every reachable state is woven.
LEMMA WovenInvariance == Spec => []Woven
BY InitWoven, NextWoven, PTL DEF Spec

\* link never appends an ID that a list holds already, although it does not
\* look: a goroutine can have been met by another only after it has stored its
\* own list, so no two of them link to each other.
THEOREM NoDoubleEntries == Spec => []NoDoubleEntry
<1>1. Woven => NoDoubleEntry
  BY DEF Woven
<1> QED
  BY <1>1, WovenInvariance, PTL

\* A finished insertion leaves its node with a neighbour at the bottom layer,
\* no later prune takes the last one away, and once the build is over the
\* first node has one as well.
THEOREM WaysOut == Spec => []HasWayOut
<1>1. Woven => HasWayOut
  BY RootedWayOut DEF Woven
<1> QED
  BY <1>1, WovenInvariance, PTL

-----------------------------------------------------------------------------
(* A sequential build links every node into every layer it shares.         *)

\* The inserted nodes that reach layer l.
Tall(l) == { x \in Placed : level[x] >= l }

\* The layers a call has been through are linked: its node has its own list,
\* and every inserted node has one or is about to be linked back.
Meets(s) ==
    \A l \in Layer \ Ahead(s) : l <= level[s.cur] /\ l <= maxLevel =>
        /\ links[s.cur][l] # {}
        /\ \A y \in Tall(l) : links[y][l] # {} \/ (s.pc = "link" /\ s.lc = l /\ y \in s.todo)

LayersMet ==
    /\ \A l \in Layer : \A x, y \in Tall(l) : x # y => links[x][l] # {}
    /\ \A w \in Busy : Meets(work[w])

\* A call that goes on without a change to the graph.
LEMMA MoveMeets ==
    ASSUME ~Building, IInv, LayersMet, NEW w \in Worker, NEW t,
           work' = [work EXCEPT ![w] = t], t.cur = work[w].cur,
           UNCHANGED <<level, links, maxLevel>>, Placed' = Placed,
           \A l \in Layer \ Ahead(t) : l <= level[work[w].cur] /\ l <= maxLevel =>
              /\ work[w].pc \notin {"idle", "link"}
              /\ l \notin Ahead(work[w])
    PROVE  LayersMet'
<1>1. \A v \in Worker : v = w
  BY OneWorker
<1>2. work'[w] = t
  BY DEF IInv, TypeOK
<1>3. \A l \in Layer : Tall(l)' = Tall(l)
  BY DEF Tall
<1>4. ASSUME NEW l \in Layer, l \notin Ahead(t), l <= level[t.cur], l <= maxLevel
      PROVE  links[t.cur][l] # {} /\ \A y \in Tall(l) : links[y][l] # {}
  <2>1. Meets(work[w]) /\ l \notin Ahead(work[w]) /\ work[w].pc # "link"
    BY <1>4 DEF LayersMet, Busy
  <2> QED
    BY <1>4, <2>1 DEF Meets
<1>5. Meets(work[w])'
  BY <1>2, <1>3, <1>4 DEF Meets, Ahead
<1> QED
  BY <1>1, <1>3, <1>5 DEF LayersMet, Busy

\* Taking a node, reading the top and descending link nothing yet.
LEMMA WalkMeets ==
    ASSUME ~Building, IInv, LayersMet, NEW w \in Worker,
           Receive(w) \/ ReadTop(w) \/ DescendMove(w) \/ DescendDrop(w)
    PROVE  LayersMet'
<1>0. work[w] \in CallType
  BY DEF IInv, TypeOK
<1>1. CASE Receive(w)
  <2> DEFINE t == AtTop(next)
  <2>1. /\ work' = [work EXCEPT ![w] = t] /\ t.pc = "top"
        /\ UNCHANGED <<level, links, maxLevel>> /\ Placed' = Placed
    BY <1>1, ReceiveKeeps DEF Receive, AtTop, Call
  <2> HIDE DEF t
  <2>2. \A l \in Layer : l \in Ahead(t)
    BY <2>1 DEF Ahead
  <2>3. /\ \A v \in Worker : v = w
        /\ work'[w] = t /\ \A l \in Layer : Tall(l)' = Tall(l)
    BY <2>1, OneWorker DEF Tall, IInv, TypeOK
  <2>4. Meets(work[w])'
    BY <2>2, <2>3 DEF Meets, Ahead
  <2> QED
    BY <2>1, <2>3, <2>4 DEF LayersMet, Busy
<1>2. CASE ReadTop(w)
  <2> DEFINE x == work[w].cur
             k == StartLayer(level[x], maxLevel)
             t == IF maxLevel > level[x] THEN Descending(x, entry, maxLevel)
                  ELSE Searching(x, entry, k)
  <2>1. /\ work' = [work EXCEPT ![w] = t]
        /\ UNCHANGED <<level, links, maxLevel>> /\ Placed' = Placed
    BY <1>2, ReadTopKeeps DEF ReadTop
  <2>2. t.cur = x /\ (t.pc = "descend" \/ (t.pc = "search" /\ t.lc = k))
    BY DEF Descending, Searching, Call
  <2>3. \A l \in Layer : l <= level[x] /\ l <= maxLevel => l <= k
    BY DEF StartLayer, Layer
  <2> HIDE DEF t, k
  <2>4. \A l \in Layer \ Ahead(t) : ~(l <= level[x] /\ l <= maxLevel)
    BY <2>2, <2>3 DEF Ahead
  <2> HIDE DEF x
  <2> QED
    BY <2>1, <2>2, <2>4, MoveMeets DEF x
<1>3. CASE DescendMove(w)
  <2>1. PICK b : work' = [work EXCEPT ![w] = Descending(work[w].cur, b, work[w].lc)]
    BY <1>3 DEF DescendMove
  <2> DEFINE t == Descending(work[w].cur, b, work[w].lc)
  <2>2. /\ work' = [work EXCEPT ![w] = t] /\ t.pc = "descend" /\ t.cur = work[w].cur
        /\ UNCHANGED <<level, links, maxLevel>> /\ Placed' = Placed
    BY <1>3, <2>1, DescendMoveKeeps DEF DescendMove, Descending, Call
  <2> HIDE DEF t
  <2>3. \A l \in Layer : l \in Ahead(t)
    BY <2>2 DEF Ahead
  <2> QED
    BY <2>2, <2>3, MoveMeets
<1>4. CASE DescendDrop(w)
  <2> DEFINE x == work[w].cur
             k == work[w].lc - 1
             t == IF k > level[x] THEN Descending(x, work[w].ep, k)
                                  ELSE Searching(x, work[w].ep, k)
  <2>1. /\ work' = [work EXCEPT ![w] = t] /\ work[w].pc = "descend"
        /\ UNCHANGED <<level, links, maxLevel>> /\ Placed' = Placed
    BY <1>4, DescendDropKeeps DEF DescendDrop
  <2>2. t.cur = x /\ (t.pc = "descend" \/ (t.pc = "search" /\ t.lc = k))
    BY DEF Descending, Searching, Call
  <2>3. level[x] < work[w].lc
    BY <2>1 DEF IInv, WalkInBounds, InBounds
  <2>4. \A l \in Layer : l <= level[x] => l <= k
    BY <1>0, <2>3 DEF IInv, TypeOK, CallType, Layer
  <2> HIDE DEF t, k
  <2>5. \A l \in Layer \ Ahead(t) : ~(l <= level[x] /\ l <= maxLevel)
    BY <2>2, <2>4 DEF Ahead
  <2> HIDE DEF x
  <2> QED
    BY <2>1, <2>2, <2>5, MoveMeets DEF x
<1> QED
  BY <1>1, <1>2, <1>3, <1>4

\* A search goes on at its layer.
LEMMA ExpandMeets ==
    ASSUME ~Building, IInv, NEW up, Hung(up), LayersMet, NEW w \in Worker, Expand(w)
    PROVE  LayersMet'
<1>1. PICK t \in CallType :
              /\ work' = [work EXCEPT ![w] = t]
              /\ work[w].pc = "search" /\ t.pc \in {"search", "own"}
              /\ t.cur = work[w].cur /\ t.ep = work[w].ep /\ t.lc = work[w].lc
              /\ t.found # {} /\ t.todo = {}
              /\ \E c \in work[w].cand : t.seen \cup t.cand \cup t.found \subseteq
                    work[w].seen \cup work[w].cand \cup work[w].found \cup links[c][work[w].lc]
              /\ UNCHANGED <<level, allocated, links, entry, maxLevel, next, ready>>
  BY ExpandMoves
<1>2. Ahead(t) = Ahead(work[w])
  BY <1>1 DEF Ahead
<1> QED
  BY <1>1, <1>2, ExpandKeeps, MoveMeets

\* What a search of a sequential build has found is inserted already.
LEMMA FoundPlaced ==
    ASSUME ~Building, IInv, NEW w \in Worker, work[w].pc # "idle"
    PROVE  work[w].found \subseteq Tall(work[w].lc)
<1> SUFFICES ASSUME NEW y \in work[w].found PROVE y \in Tall(work[w].lc)
  OBVIOUS
<1>1. y # work[w].cur /\ y \in allocated /\ level[y] >= work[w].lc /\ y \in Node
  BY DEF IInv, TypeOK, CallType, WalkInBounds, InBounds, Occupies
<1>2. InFlight = {work[w].cur}
  BY OneWorker DEF InFlight, Busy
<1>3. y < next
  BY <1>1 DEF IInv, Turns, TypeOK, Node
<1> QED
  BY <1>1, <1>2, <1>3 DEF Tall, Placed

\* setOwn gives the node its list; a node that is alone in the layer is the
\* one found, and will be linked back.
LEMMA SetOwnMeets ==
    ASSUME ~Building, IInv, NEW up, Hung(up), LayersMet, NEW w \in Worker, SetOwn(w)
    PROVE  LayersMet'
<1> DEFINE x == work[w].cur
           k == work[w].lc
<1>1. PICK K \in SUBSET work[w].found, e \in work[w].found,
              own \in SUBSET (work[w].found \cup links[x][k]) :
              /\ K # {} /\ own # {}
              /\ OwnList(x, k, K, own)
              /\ links' = [links EXCEPT ![x][k] = own]
              /\ work' = [work EXCEPT ![w] = Linking(x, e, k, K)]
  BY SetOwnFills
<1>2. /\ x \in Node /\ k \in Layer /\ work[w].pc = "own" /\ w \in Busy
      /\ UNCHANGED <<level, maxLevel>> /\ Placed' = Placed /\ Placed \subseteq Node
  BY SetOwnKeeps DEF IInv, TypeOK, CallType, SetOwn, Busy, Placed
<1> DEFINE t == Linking(x, e, k, K)
<1>3. t.pc = "link" /\ t.cur = x /\ t.lc = k /\ t.todo = K
  BY DEF Linking, Call
<1> HIDE DEF t
<1>4. work'[w] = t /\ \A v \in Worker : v = w
  BY <1>1, OneWorker DEF IInv, TypeOK, t
<1>5. /\ \A l \in Layer : Tall(l)' = Tall(l)
      /\ \A l \in Layer : Tall(l) \subseteq Node
  BY <1>2 DEF Tall
<1>6. \A n \in Node, l \in Layer : links[n][l] # {} => links'[n][l] # {}
  BY FilledStays DEF Next, Insert
<1>7. links'[x][k] # {}
  BY <1>1, <1>2 DEF IInv, TypeOK
<1>8. K \subseteq Tall(k)
  BY <1>1, <1>2, FoundPlaced
<1>9. ASSUME NEW l \in Layer, l \notin Ahead(t), l <= level[x], l <= maxLevel
      PROVE  /\ links'[x][l] # {}
             /\ \A y \in Tall(l) : links'[y][l] # {} \/ (l = k /\ y \in K)
  <2>1. CASE l = k
    <3>1. ASSUME NEW y \in Tall(k), y \notin K PROVE links[y][k] # {}
      <4>1. PICK z \in K : z \in Tall(k) /\ z # y
        BY <1>1, <1>8, <3>1
      <4> QED
        BY <1>2, <3>1, <4>1 DEF LayersMet
    <3> QED
      BY <1>2, <1>5, <1>6, <1>7, <2>1, <3>1
  <2>2. CASE l # k
    <3>1. l \notin Ahead(work[w])
      BY <1>2, <1>3, <1>9, <2>2 DEF Ahead, Layer
    <3>2. links[x][l] # {} /\ \A y \in Tall(l) : links[y][l] # {}
      BY <1>2, <1>9, <3>1 DEF LayersMet, Meets
    <3> QED
      BY <1>2, <1>5, <1>6, <3>2
  <2> QED
    BY <2>1, <2>2
<1>10. Meets(work[w])'
  BY <1>2, <1>3, <1>4, <1>5, <1>9 DEF Meets, Ahead
<1>11. \A l \in Layer : \A a, b \in Tall(l)' : a # b => links'[a][l] # {}
  BY <1>5, <1>6 DEF LayersMet
<1> QED
  BY <1>4, <1>10, <1>11 DEF LayersMet, Busy

\* link fills the list of the node it links back.
LEMMA LinkMeets ==
    ASSUME ~Building, IInv, NEW up, Hung(up), LayersMet, NEW w \in Worker, Link(w)
    PROVE  LayersMet'
<1> DEFINE x == work[w].cur
           k == work[w].lc
<1>1. PICK r \in work[w].todo, list \in SUBSET Node :
              /\ list # {}
              /\ LinkedList(r, x, k, list)
              /\ links' = [links EXCEPT ![r][k] = list]
              /\ work' = [work EXCEPT ![w] =
                    IF work[w].todo # {r}
                    THEN Linking(x, work[w].ep, k, work[w].todo \ {r})
                    ELSE NextLayer(x, work[w].ep, k)]
  BY LinkFills
<1>2. /\ x \in Node /\ k \in Layer /\ work[w].pc = "link" /\ w \in Busy /\ r \in Node
      /\ UNCHANGED <<level, maxLevel>> /\ Placed' = Placed /\ Placed \subseteq Node
  BY LinkKeeps DEF IInv, TypeOK, CallType, Link, Busy, Placed
<1> DEFINE t == IF work[w].todo # {r}
                THEN Linking(x, work[w].ep, k, work[w].todo \ {r})
                ELSE NextLayer(x, work[w].ep, k)
<1>3. /\ t.cur = x
      /\ \/ t.pc = "link" /\ t.lc = k /\ t.todo = work[w].todo \ {r}
         \/ t.pc = "search" /\ t.lc = k - 1 /\ work[w].todo = {r}
         \/ t.pc = "raise" /\ k = 0 /\ work[w].todo = {r}
  BY DEF Linking, NextLayer, Raising, Searching, Call
<1>4. work'[w] = t /\ \A v \in Worker : v = w
  BY <1>1, OneWorker DEF IInv, TypeOK
<1> HIDE DEF t
<1>5. /\ \A l \in Layer : Tall(l)' = Tall(l)
      /\ \A l \in Layer : Tall(l) \subseteq Node
  BY <1>2 DEF Tall
<1>6. \A n \in Node, l \in Layer : links[n][l] # {} => links'[n][l] # {}
  BY FilledStays DEF Next, Insert
<1>7. links'[r][k] # {}
  BY <1>1, <1>2 DEF IInv, TypeOK
<1>8. \A l \in Layer : l \notin Ahead(t) => l \notin Ahead(work[w])
  <2>1. \A l \in Layer : l < k => l <= k - 1
    BY <1>2 DEF Layer
  <2>2. \A l \in Layer : ~(l < 0)
    BY DEF Layer
  <2> QED
    BY <1>2, <1>3, <2>1, <2>2 DEF Ahead
<1>9. ASSUME NEW l \in Layer, l \notin Ahead(t), l <= level[x], l <= maxLevel
      PROVE  /\ links'[x][l] # {}
             /\ \A y \in Tall(l) :
                   links'[y][l] # {} \/ (t.pc = "link" /\ t.lc = l /\ y \in t.todo)
  <2>1. /\ links[x][l] # {}
        /\ \A y \in Tall(l) : links[y][l] # {} \/ (l = k /\ y \in work[w].todo)
    BY <1>2, <1>8, <1>9 DEF LayersMet, Meets
  <2>2. ASSUME NEW y \in Tall(l), l = k, y \in work[w].todo, y # r
        PROVE  t.pc = "link" /\ t.lc = l /\ y \in t.todo
    BY <1>3, <2>2
  <2> QED
    BY <1>2, <1>5, <1>6, <1>7, <2>1, <2>2
<1>10. Meets(work[w])'
  BY <1>2, <1>3, <1>4, <1>5, <1>9 DEF Meets, Ahead
<1>11. \A l \in Layer : \A a, b \in Tall(l)' : a # b => links'[a][l] # {}
  BY <1>5, <1>6 DEF LayersMet
<1> QED
  BY <1>4, <1>10, <1>11 DEF LayersMet, Busy

\* The finished node has met the inserted ones in every layer they share.
LEMMA RaiseMeets ==
    ASSUME ~Building, IInv, LayersMet, NEW w \in Worker, Raise(w)
    PROVE  LayersMet'
<1> DEFINE x == work[w].cur
<1>1. /\ work[w].pc = "raise" /\ work' = [work EXCEPT ![w] = Idle] /\ w \in Busy
      /\ UNCHANGED <<level, links>> /\ Placed' = Placed \cup {x}
  BY RaiseKeeps DEF Raise, Busy
<1>2. Busy' = {}
  <2>1. \A v \in Worker : v = w
    BY OneWorker
  <2>2. work'[w].pc = "idle"
    BY <1>1 DEF IInv, TypeOK, Idle, Call
  <2> QED
    BY <2>1, <2>2 DEF Busy
<1>3. ASSUME NEW l \in Layer, l <= level[x], NEW y \in Tall(l)
      PROVE  links[x][l] # {} /\ links[y][l] # {}
  <2>1. l <= maxLevel
    <3>1. y \in Placed /\ level[y] >= l /\ level[y] <= maxLevel
      BY <1>3 DEF Tall, IInv, TopIsTallest
    <3>2. level[y] \in Nat /\ maxLevel \in Nat /\ l \in Nat
      BY <3>1 DEF Placed, IInv, TypeOK, Layer
    <3> QED
      BY <3>1, <3>2
  <2>2. l \notin Ahead(work[w])
    BY <1>1 DEF Ahead
  <2> QED
    BY <1>1, <1>3, <2>1, <2>2 DEF LayersMet, Meets
<1>4. ASSUME NEW l \in Layer, NEW a \in Tall(l)', NEW b \in Tall(l)', a # b
      PROVE  links'[a][l] # {}
  <2>1. /\ a \in Placed \cup {x} /\ b \in Placed \cup {x}
        /\ level[a] >= l /\ level[b] >= l
    BY <1>1, <1>4 DEF Tall
  <2>2. /\ a # x => a \in Tall(l)
        /\ b # x => b \in Tall(l)
    BY <2>1 DEF Tall
  <2>3. CASE a # x /\ b # x
    BY <1>1, <1>4, <2>2, <2>3 DEF LayersMet
  <2>4. CASE a = x \/ b = x
    <3>1. l <= level[x]
      BY <2>1, <2>4 DEF IInv, TypeOK, CallType, Layer
    <3> QED
      BY <1>1, <1>3, <1>4, <2>2, <2>4, <3>1
  <2> QED
    BY <2>3, <2>4
<1> QED
  BY <1>2, <1>4 DEF LayersMet

\* The first node shares its layers with nobody.
LEMMA InitMeets == Init => LayersMet
<1> SUFFICES ASSUME Init PROVE LayersMet
  OBVIOUS
<1>1. Placed \subseteq {0} /\ Busy = {}
  BY DEF Init, Placed, Node, Busy, Idle, Call
<1> QED
  BY <1>1 DEF LayersMet, Tall

\* No step of a sequential build leaves nodes apart that share a layer.
LEMMA NextMeets ==
    ASSUME ~Building, Woven, LayersMet, [Next]_vars
    PROVE  LayersMet'
<1>1. PICK up : IInv /\ Hung(up)
  BY DEF Woven
<1>2. ASSUME NEW w \in Worker, Insert(w) PROVE LayersMet'
  BY <1>1, <1>2, WalkMeets, ExpandMeets, SetOwnMeets, LinkMeets, RaiseMeets DEF Insert
<1>3. CASE Finish \/ Finished \/ UNCHANGED vars
  <2>1. UNCHANGED <<level, links, maxLevel, next, work>>
    BY <1>3 DEF Finish, Finished, vars
  <2>2. Busy' = Busy /\ Placed' = Placed
    BY <2>1 DEF Busy, Placed, InFlight
  <2> QED
    BY <2>1, <2>2 DEF LayersMet, Meets, Tall, Ahead
<1> QED
  BY <1>2, <1>3 DEF Next

\* A finished index holds every node, and nobody is at work on it.
LEMMA AllPlaced == Woven /\ ready => Placed = Node
<1> SUFFICES ASSUME Woven, ready PROVE Placed = Node
  OBVIOUS
<1>1. next = N /\ \A w \in Worker : work[w].pc = "idle"
  BY DEF Woven, Rooted, Done
<1>2. InFlight = {}
  BY <1>1 DEF InFlight, Busy
<1> QED
  BY <1>1, <1>2 DEF Placed, Node

\* On a finished index those are all nodes.
LEMMA MetIsLinked == Woven /\ LayersMet => EveryLayerLinked
<1> SUFFICES ASSUME Woven, LayersMet, ready, NEW l \in 1 .. MaxLayer,
                    Cardinality({ x \in Node : level[x] >= l }) > 1,
                    NEW a \in Node, level[a] >= l
             PROVE  links[a][l] # {}
  BY DEF EveryLayerLinked
<1> DEFINE here == { x \in Node : level[x] >= l }
<1>1. l \in Layer /\ here = Tall(l)
  BY AllPlaced DEF Layer, Tall
<1>2. PICK b \in here : b # a
  <2>1. here # {a}
    BY FS_Singleton
  <2> QED
    BY <2>1
<1> QED
  BY <1>1, <1>2 DEF LayersMet

\* A sequential build "links it into every layer from there to the bottom"
\* (insert): on a finished index a node that shares an upper layer with another
\* one has a neighbour there. A parallel build does not ensure this.
THEOREM LayersLinked == ~Building => (Spec => []EveryLayerLinked)
<1> SUFFICES ASSUME ~Building PROVE Spec => []EveryLayerLinked
  OBVIOUS
<1>1. Woven /\ LayersMet /\ [Next]_vars => LayersMet'
  BY NextMeets
<1>2. Woven /\ LayersMet => EveryLayerLinked
  BY MetIsLinked
<1> QED
  BY <1>1, <1>2, InitMeets, WovenInvariance, PTL DEF Spec

-----------------------------------------------------------------------------
(* Without prunes at the bottom layer the finished index is one piece.     *)

\* The cap of the bottom layer is never reached.
Roomy == MMax0 >= N - 1

\* Worker w is about to add the edge from y back to n.
Backing(w, n, y) ==
    /\ work[w].pc = "link" /\ work[w].lc = 0
    /\ work[w].cur = n /\ y \in work[w].todo

\* An edge of the bottom layer goes both ways, or is about to.
Mutual ==
    /\ \A n \in Node : \A y \in links[n][0] :
          n \in links[y][0] \/ \E w \in Worker : Backing(w, n, y)
    /\ \A w \in Worker : work[w].pc = "link" /\ work[w].lc = 0 =>
          work[w].todo \subseteq links[work[w].cur][0]

\* No edge of the bottom layer leaves or enters S.
Severed(S) == \A n \in Node : \A y \in links[n][0] : n \in S <=> y \in S

\* What is said to be one piece of the bottom layer is connected there.
Traced(up) ==
    \A S \in SUBSET Node : Severed(S) =>
        \A a, b \in Node : up[0][a] = up[0][b] => (a \in S <=> b \in S)

\* There are N nodes.
LEMMA NodeCount == IsFiniteSet(Node) /\ Cardinality(Node) = N
BY FS_Interval DEF Node

\* A list of neighbours other than n has room for all of them.
LEMMA Fits ==
    ASSUME Roomy, NEW n \in Node, NEW S \in SUBSET Node, n \notin S
    PROVE  Cardinality(S) <= CapAt(0)
<1>1. IsFiniteSet(Node \ {n}) /\ Cardinality(Node \ {n}) = N - 1
  BY NodeCount, FS_RemoveElement
<1>2. S \in SUBSET (Node \ {n})
  OBVIOUS
<1>3. Cardinality(S) <= N - 1 /\ IsFiniteSet(S)
  BY <1>1, <1>2, FS_Subset
<1>4. Cardinality(S) \in Nat
  BY <1>3, FS_CardinalityType
<1> QED
  BY <1>3, <1>4 DEF Roomy, CapAt

\* setOwn keeps what the list holds, in a parallel and in a sequential build.
LEMMA SetOwnAdds ==
    ASSUME Roomy, IInv, NEW up, Hung(up), NEW w \in Worker, SetOwn(w), work[w].lc = 0
    PROVE  \E K \in SUBSET work[w].found, e \in work[w].found :
              /\ K # {}
              /\ links' = [links EXCEPT ![work[w].cur][0] = K \cup links[work[w].cur][0]]
              /\ work' = [work EXCEPT ![w] = Linking(work[w].cur, e, 0, K)]
<1> DEFINE x == work[w].cur
<1>1. PICK K \in SUBSET work[w].found, e \in work[w].found,
              own \in SUBSET (work[w].found \cup links[x][0]) :
              /\ K # {} /\ own # {}
              /\ OwnList(x, 0, K, own)
              /\ links' = [links EXCEPT ![x][0] = own]
              /\ work' = [work EXCEPT ![w] = Linking(x, e, 0, K)]
  BY SetOwnFills
<1>2. x \in Node /\ 0 \in Layer /\ work[w].found \subseteq Node /\ work[w].pc = "own"
  BY DEF IInv, TypeOK, CallType, SetOwn, Layer
<1>3. x \notin work[w].found /\ x \notin links[x][0] /\ links[x][0] \subseteq Node
  BY <1>2 DEF IInv, TypeOK, WalkInBounds, InBounds, SafeToFollow
<1>4. own = K \cup links[x][0]
  <2>1. CASE Building
    <3>1. Cardinality(K \cup links[x][0]) <= CapAt(0)
      BY <1>1, <1>2, <1>3, Fits
    <3>2. /\ Cardinality(K \cup links[x][0]) \in Nat /\ CapAt(0) \in Nat
      <4>1. IsFiniteSet(K \cup links[x][0])
        BY <1>1, <1>2, <1>3, NodeFinite
      <4> QED
        BY <1>2, <4>1, FS_CardinalityType, CapType
    <3> QED
      BY <1>1, <2>1, <3>1, <3>2 DEF OwnList
  <2>2. CASE ~Building
    <3>1. 0 \in Ahead(work[w])
      BY <1>2 DEF Ahead
    <3>2. links[x][0] = {}
      BY <2>2, <3>1 DEF IInv, NothingAhead
    <3> QED
      BY <1>1, <2>2, <3>2 DEF OwnList
  <2> QED
    BY <2>1, <2>2
<1> QED
  BY <1>1, <1>4

\* link keeps what the other list holds.
LEMMA LinkAdds ==
    ASSUME Roomy, IInv, NEW w \in Worker, Link(w), work[w].lc = 0
    PROVE  \E r \in work[w].todo :
              /\ links' = [links EXCEPT ![r][0] = links[r][0] \cup {work[w].cur}]
              /\ work' = [work EXCEPT ![w] =
                    IF work[w].todo # {r}
                    THEN Linking(work[w].cur, work[w].ep, 0, work[w].todo \ {r})
                    ELSE NextLayer(work[w].cur, work[w].ep, 0)]
<1> DEFINE x == work[w].cur
<1>1. PICK r \in work[w].todo, list \in SUBSET Node :
              /\ list # {}
              /\ LinkedList(r, x, 0, list)
              /\ links' = [links EXCEPT ![r][0] = list]
              /\ work' = [work EXCEPT ![w] =
                    IF work[w].todo # {r}
                    THEN Linking(x, work[w].ep, 0, work[w].todo \ {r})
                    ELSE NextLayer(x, work[w].ep, 0)]
  BY LinkFills
<1>2. x \in Node /\ r \in Node /\ 0 \in Layer
  BY DEF IInv, TypeOK, CallType, Layer
<1>3. x # r /\ r \notin links[r][0] /\ links[r][0] \subseteq Node
  BY <1>2 DEF IInv, TypeOK, WalkInBounds, InBounds, SafeToFollow
<1>4. Cardinality(links[r][0] \cup {x}) <= CapAt(0)
  BY <1>2, <1>3, Fits
<1> QED
  BY <1>1, <1>4 DEF LinkedList

\* Where w does not link back at the bottom layer, before or after its step.
LEMMA ElsewhereMutual ==
    ASSUME IInv, Mutual, NEW w \in Worker, NEW t, work' = [work EXCEPT ![w] = t],
           \A n \in Node : links'[n][0] = links[n][0],
           ~(work[w].pc = "link" /\ work[w].lc = 0),
           t.todo = {} \/ ~(t.pc = "link" /\ t.lc = 0)
    PROVE  Mutual'
<1>1. work'[w] = t /\ \A v \in Worker \ {w} : work'[v] = work[v]
  BY DEF IInv, TypeOK
<1>2. \A v \in Worker : work[v].cur \in Node /\ work[v].todo \subseteq Node
  BY DEF IInv, TypeOK, CallType
<1>3. \A n \in Node : links[n][0] \subseteq Node
  BY DEF IInv, TypeOK, Layer
<1>4. \A v \in Worker, n, y \in Node : Backing(v, n, y) => Backing(v, n, y)'
  BY <1>1 DEF Backing
<1>5. ASSUME NEW n \in Node, NEW y \in links'[n][0]
      PROVE  n \in links'[y][0] \/ \E v \in Worker : Backing(v, n, y)'
  BY <1>3, <1>4, <1>5 DEF Mutual
<1>6. ASSUME NEW v \in Worker, work'[v].pc = "link", work'[v].lc = 0
      PROVE  work'[v].todo \subseteq links'[work'[v].cur][0]
  BY <1>1, <1>2, <1>6 DEF Mutual
<1> QED
  BY <1>5, <1>6 DEF Mutual

\* setOwn's new edges are those it leaves to link back.
LEMMA SetOwnMutual ==
    ASSUME Roomy, IInv, NEW up, Hung(up), Mutual,
           NEW w \in Worker, SetOwn(w), work[w].lc = 0
    PROVE  Mutual'
<1> DEFINE x == work[w].cur
<1>1. PICK K \in SUBSET work[w].found, e \in work[w].found :
              /\ K # {}
              /\ links' = [links EXCEPT ![x][0] = K \cup links[x][0]]
              /\ work' = [work EXCEPT ![w] = Linking(x, e, 0, K)]
  BY SetOwnAdds
<1>2. /\ x \in Node /\ 0 \in Layer /\ K \subseteq Node /\ work[w].pc = "own"
      /\ \A n \in Node : links[n][0] \subseteq Node
      /\ \A v \in Worker : work[v].cur \in Node /\ work[v].todo \subseteq Node
  BY <1>1 DEF IInv, TypeOK, CallType, SetOwn, Layer
<1>3. \A n \in Node : links'[n][0] = IF n = x THEN K \cup links[x][0] ELSE links[n][0]
  BY <1>1, <1>2 DEF IInv, TypeOK
<1> DEFINE t == Linking(x, e, 0, K)
<1>4. t.pc = "link" /\ t.cur = x /\ t.lc = 0 /\ t.todo = K
  BY DEF Linking, Call
<1> HIDE DEF t
<1>5. work'[w] = t /\ \A v \in Worker \ {w} : work'[v] = work[v]
  BY <1>1 DEF IInv, TypeOK, t
<1>6. \A v \in Worker, n, y \in Node : Backing(v, n, y) => Backing(v, n, y)'
  BY <1>2, <1>5 DEF Backing
<1>7. \A n \in Node : n = x => \A y \in K : Backing(w, n, y)'
  BY <1>4, <1>5 DEF Backing
<1>8. ASSUME NEW n \in Node, NEW y \in links'[n][0]
      PROVE  n \in links'[y][0] \/ \E v \in Worker : Backing(v, n, y)'
  <2>1. CASE n = x /\ y \in K
    BY <1>7, <2>1
  <2>2. CASE y \in links[n][0]
    BY <1>2, <1>3, <1>6, <2>2 DEF Mutual
  <2> QED
    BY <1>3, <1>8, <2>1, <2>2
<1>9. ASSUME NEW v \in Worker, work'[v].pc = "link", work'[v].lc = 0
      PROVE  work'[v].todo \subseteq links'[work'[v].cur][0]
  <2>1. CASE v = w
    BY <1>2, <1>3, <1>4, <1>5, <2>1
  <2>2. CASE v # w
    BY <1>2, <1>3, <1>5, <1>9, <2>2 DEF Mutual
  <2> QED
    BY <2>1, <2>2
<1> QED
  BY <1>8, <1>9 DEF Mutual

\* link adds the edge that was missing.
LEMMA LinkMutual ==
    ASSUME Roomy, IInv, Mutual, NEW w \in Worker, Link(w), work[w].lc = 0
    PROVE  Mutual'
<1> DEFINE x == work[w].cur
<1>1. PICK r \in work[w].todo :
              /\ links' = [links EXCEPT ![r][0] = links[r][0] \cup {x}]
              /\ work' = [work EXCEPT ![w] =
                    IF work[w].todo # {r}
                    THEN Linking(x, work[w].ep, 0, work[w].todo \ {r})
                    ELSE NextLayer(x, work[w].ep, 0)]
  BY LinkAdds
<1>2. /\ x \in Node /\ r \in Node /\ 0 \in Layer /\ work[w].pc = "link"
      /\ \A n \in Node : links[n][0] \subseteq Node
      /\ \A v \in Worker : work[v].cur \in Node /\ work[v].todo \subseteq Node
  BY DEF IInv, TypeOK, CallType, Link, Layer
<1>3. \A n \in Node : links'[n][0] = IF n = r THEN links[r][0] \cup {x} ELSE links[n][0]
  BY <1>1, <1>2 DEF IInv, TypeOK
<1> DEFINE t == IF work[w].todo # {r}
                THEN Linking(x, work[w].ep, 0, work[w].todo \ {r})
                ELSE NextLayer(x, work[w].ep, 0)
<1>4. /\ work[w].todo # {r} =>
            t.pc = "link" /\ t.cur = x /\ t.lc = 0 /\ t.todo = work[w].todo \ {r}
      /\ work[w].todo = {r} => t.pc = "raise"
  BY DEF Linking, NextLayer, Raising, Call
<1>5. work'[w] = t /\ \A v \in Worker \ {w} : work'[v] = work[v]
  BY <1>1 DEF IInv, TypeOK
<1> HIDE DEF t
<1>6. \A v \in Worker, n, y \in Node :
        Backing(v, n, y) => Backing(v, n, y)' \/ (n = x /\ y = r)
  BY <1>4, <1>5 DEF Backing
<1>7. r \in links[x][0]
  BY <1>2 DEF Mutual
<1>8. ASSUME NEW n \in Node, NEW y \in links'[n][0]
      PROVE  n \in links'[y][0] \/ \E v \in Worker : Backing(v, n, y)'
  <2>1. CASE n = r /\ y = x
    BY <1>2, <1>3, <1>7, <2>1
  <2>2. CASE y \in links[n][0]
    <3>1. CASE n = x /\ y = r
      BY <1>2, <1>3, <3>1
    <3>2. CASE n # x \/ y # r
      BY <1>2, <1>3, <1>6, <2>2, <3>2 DEF Mutual
    <3> QED
      BY <3>1, <3>2
  <2> QED
    BY <1>3, <1>8, <2>1, <2>2
<1>9. ASSUME NEW v \in Worker, work'[v].pc = "link", work'[v].lc = 0
      PROVE  work'[v].todo \subseteq links'[work'[v].cur][0]
  <2>1. CASE v = w
    BY <1>2, <1>3, <1>4, <1>5, <1>9, <2>1 DEF Mutual
  <2>2. CASE v # w
    BY <1>2, <1>3, <1>5, <1>9, <2>2 DEF Mutual
  <2> QED
    BY <2>1, <2>2
<1> QED
  BY <1>8, <1>9 DEF Mutual

\* Every step keeps the edges of the bottom layer, and keeps them mutual.
LEMMA NextMutual ==
    ASSUME Roomy, IInv, NEW up, Hung(up), Mutual, [Next]_vars
    PROVE  Mutual' /\ \A n \in Node : links[n][0] \subseteq links'[n][0]
<1>0. 0 \in Layer
  BY DEF Layer
<1>1. ASSUME NEW w \in Worker, SetOwn(w)
      PROVE  Mutual' /\ \A n \in Node : links[n][0] \subseteq links'[n][0]
  <2>1. CASE work[w].lc = 0
    <3>1. PICK K \in SUBSET work[w].found, e \in work[w].found :
              /\ K # {}
              /\ links' = [links EXCEPT ![work[w].cur][0] = K \cup links[work[w].cur][0]]
              /\ work' = [work EXCEPT ![w] = Linking(work[w].cur, e, 0, K)]
      BY <1>1, <2>1, SetOwnAdds
    <3>2. \A n \in Node : links[n][0] \subseteq links'[n][0]
      BY <1>0, <3>1 DEF IInv, TypeOK
    <3> QED
      BY <1>1, <2>1, <3>2, SetOwnMutual
  <2>2. CASE work[w].lc # 0
    <3>1. PICK K, own, e :
              /\ links' = [links EXCEPT ![work[w].cur][work[w].lc] = own]
              /\ work' = [work EXCEPT ![w] = Linking(work[w].cur, e, work[w].lc, K)]
      BY <1>1 DEF SetOwn
    <3> DEFINE t == Linking(work[w].cur, e, work[w].lc, K)
    <3>2. t.lc # 0
      BY <2>2 DEF Linking, Call
    <3>3. work' = [work EXCEPT ![w] = t] /\ work[w].pc = "own"
      BY <1>1, <3>1 DEF SetOwn
    <3> HIDE DEF t
    <3>4. \A n \in Node : links'[n][0] = links[n][0]
      BY <1>0, <2>2, <3>1 DEF IInv, TypeOK
    <3> QED
      BY <3>2, <3>3, <3>4, ElsewhereMutual
  <2> QED
    BY <2>1, <2>2
<1>2. ASSUME NEW w \in Worker, Link(w)
      PROVE  Mutual' /\ \A n \in Node : links[n][0] \subseteq links'[n][0]
  <2>1. CASE work[w].lc = 0
    <3>1. PICK r \in work[w].todo :
              /\ links' = [links EXCEPT ![r][0] = links[r][0] \cup {work[w].cur}]
              /\ work' = [work EXCEPT ![w] =
                    IF work[w].todo # {r}
                    THEN Linking(work[w].cur, work[w].ep, 0, work[w].todo \ {r})
                    ELSE NextLayer(work[w].cur, work[w].ep, 0)]
      BY <1>2, <2>1, LinkAdds
    <3>2. \A n \in Node : links[n][0] \subseteq links'[n][0]
      BY <1>0, <3>1 DEF IInv, TypeOK
    <3> QED
      BY <1>2, <2>1, <3>2, LinkMutual
  <2>2. CASE work[w].lc # 0
    <3>1. PICK r, list :
              /\ links' = [links EXCEPT ![r][work[w].lc] = list]
              /\ work' = [work EXCEPT ![w] =
                    IF work[w].todo # {r}
                    THEN Linking(work[w].cur, work[w].ep, work[w].lc, work[w].todo \ {r})
                    ELSE NextLayer(work[w].cur, work[w].ep, work[w].lc)]
      BY <1>2 DEF Link
    <3> DEFINE t == IF work[w].todo # {r}
                    THEN Linking(work[w].cur, work[w].ep, work[w].lc, work[w].todo \ {r})
                    ELSE NextLayer(work[w].cur, work[w].ep, work[w].lc)
    <3>2. t.lc # 0 \/ t.pc = "search"
      BY <2>2 DEF Linking, NextLayer, Searching, Call
    <3>3. work' = [work EXCEPT ![w] = t]
      BY <3>1
    <3> HIDE DEF t
    <3>4. \A n \in Node : links'[n][0] = links[n][0]
      BY <1>0, <2>2, <3>1 DEF IInv, TypeOK
    <3> QED
      BY <2>2, <3>2, <3>3, <3>4, ElsewhereMutual
  <2> QED
    BY <2>1, <2>2
<1>3. ASSUME NEW w \in Worker, Insert(w), ~SetOwn(w), ~Link(w)
      PROVE  Mutual' /\ UNCHANGED links
  <2>1. /\ UNCHANGED links
        /\ work[w].pc # "link"
        /\ \E t : work' = [work EXCEPT ![w] = t] /\ t.todo = {}
    BY <1>3, QuietStep
  <2> QED
    BY <2>1, ElsewhereMutual
<1>4. CASE Finish \/ Finished \/ UNCHANGED vars
  <2>1. UNCHANGED <<links, work>>
    BY <1>4 DEF Finish, Finished, vars
  <2> QED
    BY <2>1 DEF Mutual, Backing
<1> QED
  BY <1>1, <1>2, <1>3, <1>4 DEF Next

\* What was connected stays so, and a new edge connects what it joins.
LEMMA StepTraced ==
    ASSUME Roomy, IInv, NEW up, Hung(up), Traced(up), NEW q,
           \A n \in Node : links[n][0] \subseteq links'[n][0],
           \/ SamePieces(up, q)
           \/ \E w \in Worker : /\ SetOwn(w) /\ work[w].lc = 0
                                /\ JoinedPieces(up, q, work[w].cur, work[w].ep)
    PROVE  Traced(q)'
<1> SUFFICES ASSUME NEW S \in SUBSET Node, Severed(S)', NEW a \in Node, NEW b \in Node,
                    q[0][a] = q[0][b]
             PROVE  a \in S <=> b \in S
  BY DEF Traced
<1>1. Severed(S)
  BY DEF Severed
<1>2. \A c, d \in Node : up[0][c] = up[0][d] => (c \in S <=> d \in S)
  BY <1>1 DEF Traced
<1>3. CASE SamePieces(up, q)
  BY <1>2, <1>3 DEF SamePieces
<1>4. ASSUME NEW w \in Worker, SetOwn(w), work[w].lc = 0,
             JoinedPieces(up, q, work[w].cur, work[w].ep)
      PROVE  a \in S <=> b \in S
  <2> DEFINE x == work[w].cur
             p == work[w].ep
  <2>1. PICK K \in SUBSET work[w].found, e \in work[w].found :
              /\ K # {}
              /\ links' = [links EXCEPT ![x][0] = K \cup links[x][0]]
              /\ work' = [work EXCEPT ![w] = Linking(x, e, 0, K)]
    BY <1>4, SetOwnAdds
  <2>2. PICK k \in K : TRUE
    BY <2>1
  <2>3. x \in Node /\ p \in Node /\ k \in Node /\ 0 \in Layer /\ work[w].pc = "own"
    BY <1>4, <2>1, <2>2 DEF IInv, TypeOK, CallType, SetOwn, Layer
  <2>4. k \in links'[x][0]
    BY <2>1, <2>2, <2>3 DEF IInv, TypeOK
  <2>5. up[0][k] = up[0][p]
    BY <1>4, <2>1, <2>2, <2>3 DEF Hung, CallsGather, Gathers
  <2>6. x \in S <=> p \in S
    BY <1>2, <2>3, <2>4, <2>5 DEF Severed
  <2>7. \/ up[0][a] = up[0][b]
        \/ up[0][a] \in {up[0][x], up[0][p]} /\ up[0][b] \in {up[0][x], up[0][p]}
    BY <1>4 DEF JoinedPieces
  <2> HIDE DEF x, p
  <2> QED
    BY <1>2, <2>3, <2>6, <2>7
<1> QED
  BY <1>3, <1>4

\* The first n + 1 sets of Reached's recursion from node e.
Widens(e, n, g) ==
    g = [k \in 0 .. n |-> IF k = 0 THEN {e}
                          ELSE g[k - 1] \cup UNION { links[m][0] : m \in g[k - 1] }]

\* There are such sets, for every n.
LEMMA WidensExist == ASSUME NEW e PROVE \A n \in Nat : \E g : Widens(e, n, g)
<1> DEFINE S == { n \in Nat : \E g : Widens(e, n, g) }
           Out(T) == UNION { links[m][0] : m \in T }
<1>1. 0 \in S
  <2> DEFINE g == [k \in 0 .. 0 |-> {e}]
  <2>1. g = [k \in 0 .. 0 |-> IF k = 0 THEN {e} ELSE g[k - 1] \cup Out(g[k - 1])]
    OBVIOUS
  <2> QED
    BY <2>1 DEF Widens
<1>2. ASSUME NEW n \in S PROVE n + 1 \in S
  <2>1. PICK g : Widens(e, n, g)
    OBVIOUS
  <2> DEFINE h == [k \in 0 .. n + 1 |-> IF k = n + 1 THEN g[n] \cup Out(g[n]) ELSE g[k]]
  <2>2. ASSUME NEW k \in 0 .. n + 1
        PROVE  h[k] = IF k = 0 THEN {e} ELSE h[k - 1] \cup Out(h[k - 1])
    <3>1. n \in Nat /\ k \in Nat /\ h[k] = IF k = n + 1 THEN g[n] \cup Out(g[n]) ELSE g[k]
      OBVIOUS
    <3>2. CASE k = n + 1
      <4>1. k - 1 = n /\ n \in 0 .. n + 1 /\ n # n + 1 /\ k # 0
        BY <3>1, <3>2
      <4>2. h[n] = g[n]
        BY <4>1
      <4> HIDE DEF h, Out
      <4> QED
        BY <3>1, <3>2, <4>1, <4>2
    <3>3. CASE k # n + 1
      <4>1. k \in 0 .. n
        BY <3>1, <3>3
      <4>2. h[k] = g[k] /\ (k # 0 => h[k - 1] = g[k - 1])
        BY <3>1, <4>1
      <4>3. g[k] = IF k = 0 THEN {e} ELSE g[k - 1] \cup Out(g[k - 1])
        BY <2>1, <4>1 DEF Widens
      <4> HIDE DEF h, Out
      <4> QED
        BY <4>2, <4>3
    <3> QED
      BY <3>2, <3>3
  <2>3. Widens(e, n + 1, h)
    <3>1. h = [k \in 0 .. n + 1 |-> h[k]]
      OBVIOUS
    <3> HIDE DEF h
    <3> QED
      BY <2>2, <3>1 DEF Widens
  <2> HIDE DEF h
  <2> QED
    BY <2>3
<1>3. S = Nat
  <2> HIDE DEF S
  <2>1. S \in SUBSET Nat
    BY DEF S
  <2> QED
    BY <1>1, <1>2, <2>1, NumbersInduct
<1> QED
  BY <1>3

\* After as many rounds as there are nodes, no edge leads further: each round
\* before the last one adds a node.
LEMMA WidensClose ==
    ASSUME TypeOK, NEW g, NEW e \in Node, Widens(e, N, g)
    PROVE  /\ g[N] \in SUBSET Node /\ e \in g[N]
           /\ \A n \in g[N] : links[n][0] \subseteq g[N]
<1> DEFINE Out(T) == UNION { links[m][0] : m \in T }
           Closed(T) == Out(T) \subseteq T
<1>1. \A k \in 0 .. N : g[k] = IF k = 0 THEN {e} ELSE g[k - 1] \cup Out(g[k - 1])
  BY DEF Widens
<1>2. \A T \in SUBSET Node : Out(T) \in SUBSET Node
  <2>1. \A m \in Node : links[m][0] \in SUBSET Node
    BY DEF TypeOK, Layer
  <2> QED
    BY <2>1
<1> HIDE DEF Out
<1> DEFINE Good(k) == /\ g[k] \in SUBSET Node /\ e \in g[k]
                      /\ Closed(g[k]) \/ Cardinality(g[k]) > k
           S == { k \in Nat : k <= N => Good(k) }
<1>3. 0 \in S
  <2>1. g[0] = {e}
    <3>1. 0 \in 0 .. N
      OBVIOUS
    <3> QED
      BY <1>1, <3>1
  <2>2. Cardinality({e}) = 1
    BY FS_Singleton
  <2> QED
    BY <2>1, <2>2
<1>4. ASSUME NEW k \in S PROVE k + 1 \in S
  <2> SUFFICES ASSUME k + 1 <= N PROVE Good(k + 1)
    OBVIOUS
  <2>1. k \in Nat /\ Good(k) /\ k + 1 \in 0 .. N /\ k + 1 # 0 /\ (k + 1) - 1 = k
    OBVIOUS
  <2>2. g[k + 1] = g[k] \cup Out(g[k])
    BY <1>1, <2>1
  <2>3. g[k + 1] \in SUBSET Node /\ e \in g[k + 1]
    BY <1>2, <2>1, <2>2
  <2>4. CASE Closed(g[k])
    <3>1. g[k + 1] = g[k]
      BY <2>2, <2>4
    <3> QED
      BY <2>3, <2>4, <3>1
  <2>5. CASE ~Closed(g[k])
    <3>1. g[k] \subseteq g[k + 1] /\ g[k] # g[k + 1]
      BY <2>2, <2>5
    <3>2. IsFiniteSet(g[k]) /\ IsFiniteSet(g[k + 1])
      BY <2>1, <2>3, NodeFinite
    <3>3. /\ Cardinality(g[k]) <= Cardinality(g[k + 1])
          /\ Cardinality(g[k]) # Cardinality(g[k + 1])
      BY <3>1, <3>2, FS_Subset
    <3>4. Cardinality(g[k]) \in Nat /\ Cardinality(g[k + 1]) \in Nat
      BY <3>2, FS_CardinalityType
    <3>5. Cardinality(g[k]) > k
      BY <2>1, <2>5
    <3>6. Cardinality(g[k + 1]) > k + 1
      <4> DEFINE c == Cardinality(g[k])
                 d == Cardinality(g[k + 1])
      <4>1. c \in Nat /\ d \in Nat /\ c <= d /\ c # d /\ c > k /\ k \in Nat
        BY <2>1, <3>3, <3>4, <3>5
      <4> HIDE DEF c, d
      <4>2. d > k + 1
        BY <4>1
      <4> QED
        BY <4>2 DEF d
    <3> QED
      BY <2>3, <3>6
  <2> QED
    BY <2>4, <2>5
<1>5. Good(N)
  <2> HIDE DEF Good
  <2>1. S \in SUBSET Nat
    OBVIOUS
  <2> HIDE DEF S
  <2>2. S = Nat
    BY <1>3, <1>4, <2>1, NumbersInduct
  <2> QED
    BY <2>2 DEF S
<1>6. Closed(g[N])
  <2>1. Cardinality(g[N]) <= N /\ IsFiniteSet(g[N])
    BY <1>5, NodeCount, FS_Subset
  <2>2. Cardinality(g[N]) \in Nat
    BY <2>1, FS_CardinalityType
  <2>3. ~(Cardinality(g[N]) > N)
    BY <2>1, <2>2
  <2> QED
    BY <1>5, <2>3
<1> QED
  BY <1>5, <1>6 DEF Out

\* What is reached holds the entry, and everything next to what it holds.
LEMMA ReachedCloses ==
    ASSUME TypeOK
    PROVE  /\ Reached(0) \in SUBSET Node /\ entry \in Reached(0)
           /\ \A n \in Reached(0) : links[n][0] \subseteq Reached(0)
<1> DEFINE g == CHOOSE f : Widens(entry, N, f)
<1>1. Widens(entry, N, g)
  BY WidensExist
<1>2. Reached(0) = g[N]
  BY DEF Reached, Widens
<1> HIDE DEF g
<1>3. entry \in Node
  BY DEF TypeOK
<1> QED
  BY <1>1, <1>2, <1>3, WidensClose

\* Nodes in one piece of a finished index are reached together.
LEMMA TracedOnePiece ==
    ASSUME IInv, NEW up, Rooted(up), Mutual, Traced(up), ready
    PROVE  Reached(0) = Node
<1>1. next = N /\ \A w \in Worker : work[w].pc = "idle"
  BY DEF Rooted, Done
<1>2. \A a, b \in Node : up[0][a] = up[0][b]
  <2>1. Roots = {0}
    <3>1. \A w \in Worker : Ahead(work[w]) = {}
      BY <1>1 DEF Ahead
    <3>2. Node \ allocated = {}
      BY <1>1 DEF IInv, Turns, Node
    <3> QED
      BY <3>1, <3>2 DEF Roots
  <2> QED
    BY <2>1 DEF Rooted
<1>3. \A n \in Node : \A y \in links[n][0] : n \in links[y][0] /\ y \in Node
  <2>1. ~\E w \in Worker, n, y \in Node : Backing(w, n, y)
    BY <1>1 DEF Backing
  <2>2. \A n \in Node : links[n][0] \subseteq Node
    BY DEF IInv, TypeOK, Layer
  <2> QED
    BY <2>1, <2>2 DEF Mutual
<1>4. /\ Reached(0) \in SUBSET Node /\ entry \in Reached(0) /\ entry \in Node
      /\ \A n \in Reached(0) : links[n][0] \subseteq Reached(0)
  BY ReachedCloses DEF IInv, TypeOK
<1> DEFINE R == Reached(0)
<1> HIDE DEF R
<1>5. Severed(R)
  BY <1>3, <1>4 DEF Severed, R
<1>6. \A a \in Node : a \in R
  BY <1>2, <1>4, <1>5 DEF Traced, R
<1> QED
  BY <1>4, <1>6 DEF R

\* What every reachable state of a build with room satisfies.
WovenTight == Woven /\ Mutual /\ \E up : Hung(up) /\ Rooted(up) /\ Traced(up)

\* The first node alone is traced.
LEMMA InitTight == Init => WovenTight
<1> SUFFICES ASSUME Init PROVE WovenTight
  OBVIOUS
<1>1. PICK up : up = [l \in Layer |-> [a \in Node |-> {a}]]
  OBVIOUS
<1>2. 0 \in Layer
  BY DEF Layer
<1>3. Mutual
  BY <1>2 DEF Init, Mutual, Idle, Call
<1>4. \A a, b \in Node : up[0][a] = up[0][b] => a = b
  BY <1>1, <1>2
<1>5. Traced(up)
  BY <1>4 DEF Traced
<1> QED
  BY <1>1, <1>3, <1>5, InitWoven, InitHung, InitRooted DEF WovenTight

\* Every step keeps a build with room traced.
LEMMA NextTight == ASSUME Roomy, WovenTight, [Next]_vars PROVE WovenTight'
<1>1. IInv /\ Mutual /\ Woven'
  BY NextWoven DEF WovenTight, Woven
<1>2. PICK up : Hung(up) /\ Rooted(up) /\ Traced(up)
  BY DEF WovenTight
<1>3. Mutual' /\ \A n \in Node : links[n][0] \subseteq links'[n][0]
  BY <1>1, <1>2, NextMutual
<1>4. PICK q : /\ Hung(q)' /\ Rooted(q)'
               /\ \/ SamePieces(up, q)
                  \/ \E w \in Worker : /\ SetOwn(w) /\ work[w].lc = 0
                                       /\ JoinedPieces(up, q, work[w].cur, work[w].ep)
  BY <1>1, <1>2, StepWoven
<1>5. Traced(q)'
  BY <1>1, <1>2, <1>3, <1>4, StepTraced
<1> QED
  BY <1>1, <1>3, <1>4, <1>5 DEF WovenTight

\* If the bottom lists have room for every other node, a walk from the entry
\* reaches every node of a finished index, however the goroutines interleaved:
\* what Reachable counts is everything.
THEOREM AllOnePiece == MMax0 >= N - 1 => (Spec => []OnePiece)
<1> SUFFICES ASSUME MMax0 >= N - 1 PROVE Spec => []OnePiece
  OBVIOUS
<1>1. WovenTight /\ [Next]_vars => WovenTight'
  BY NextTight DEF Roomy
<1>2. WovenTight => OnePiece
  BY TracedOnePiece DEF WovenTight, Woven, OnePiece
<1> QED
  BY <1>1, <1>2, InitTight, PTL DEF Spec

=============================================================================
