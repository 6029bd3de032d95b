----------------------------- MODULE QueryHeaps -----------------------------
(***************************************************************************)
(* HNSW.Search with the two heaps it works with, item by item: the         *)
(* candidates of src/internal/index/candidates.go, a min-heap, and the     *)
(* topk.Collector of src/internal/topk/topk.go, a max-heap of bounded size.*)
(* Neighbour lists are read in their order.                                *)
(*                                                                         *)
(* Vectors come from files in which nothing forbids NaN, and a distance to *)
(* such a vector is NaN: every comparison with it is false.  The order of  *)
(* the heaps is then no order, and Query says nothing about such a search. *)
(*                                                                         *)
(* A heap is a sequence, so that the children of item i are 2i and 2i + 1. *)
(***************************************************************************)
EXTENDS FinishedIndex, Functions

CONSTANT Undefined    \* the <<q, n>> for which the distance of n to q is NaN

ASSUME UndefinedAssumption == Undefined \subseteq Node \X Node

VARIABLES
    index,      \* the index that is searched
    efSearch,   \* its atomic width
    search      \* search[c]: the call c is in, or its last one

vars == <<index, efSearch, search>>

Defined(q, S) == \A n \in S : <<q, n>> \notin Undefined

\* The comparison of two distances by their values.
Less(q, a, b) == Defined(q, {a, b}) /\ Dist[<<q, a>>] < Dist[<<q, b>>]

\* topk.Before: NaN differs from everything and is less than nothing.
Ranks(q, a, b) == Defined(q, {a, b}) /\ Before(q, a, b)

\* The order in which an item belongs above another one: in the candidates the
\* nearer is above, in the collector the further.
NearOnTop == [q \in Node |-> { p \in Node \X Node : Ranks(q, p[1], p[2]) }]
FarOnTop == [q \in Node |-> { p \in Node \X Node : Ranks(q, p[2], p[1]) }]

-----------------------------------------------------------------------------

Swapped(h, i, j) == [h EXCEPT ![i] = h[j], ![j] = h[i]]

Parent(i) == i \div 2

\* A set of pairs <<a, b>> for which a belongs above b.
Order == SUBSET (Node \X Node)

\* A heap with an item on its way up or down.
Sift == [heap : Seq(Node), at : Nat, above : Order]
Sifting(h, i, above) == [heap |-> h, at |-> i, above |-> above]

\* candidates.up and Collector.siftUp.
Rising(x) == x.at > 1 /\ <<x.heap[x.at], x.heap[Parent(x.at)]>> \in x.above
Risen(x) == Sifting(Swapped(x.heap, x.at, Parent(x.at)), Parent(x.at), x.above)
Up[x \in Sift] == IF Rising(x) THEN Up[Risen(x)] ELSE x.heap

\* The one of i and its children that belongs on top; one child forgotten.
Upper(h, i, j, above) == IF j <= Len(h) /\ <<h[j], h[i]>> \in above THEN j ELSE i
TopmostLeft(h, i, above) == Upper(h, i, 2 * i, above)
Topmost(h, i, above) == Upper(h, Upper(h, i, 2 * i, above), 2 * i + 1, above)

\* candidates.down and Collector.siftDown.
Lower(x) == Topmost(x.heap, x.at, x.above)
Sunk(x) == Sifting(Swapped(x.heap, x.at, Lower(x)), Lower(x), x.above)
Down[x \in Sift] == IF Lower(x) # x.at THEN Down[Sunk(x)] ELSE x.heap

Push(h, n, above) == Up[Sifting(Append(h, n), Len(h) + 1, above)]

\* What candidates.pop leaves; the item it returns is the first.
Pop(h, above) ==
    Down[Sifting([i \in 1 .. Len(h) - 1 |-> IF i = 1 THEN h[Len(h)] ELSE h[i]], 1, above)]

\* Collector.Add, for a collector of the given capacity.
Add(q, h, n, cap) ==
    IF Len(h) < cap THEN Push(h, n, FarOnTop[q])
    ELSE IF Ranks(q, n, h[1]) THEN Down[Sifting([h EXCEPT ![1] = n], 1, FarOnTop[q])] ELSE h

-----------------------------------------------------------------------------

Call(pc, q, k, w, e, l, seen, cand, found, answer) ==
    [pc |-> pc, q |-> q, k |-> k, width |-> w, ep |-> e, lc |-> l,
     seen |-> seen, cand |-> cand, found |-> found, answer |-> answer]

Idle == Call("idle", 0, 0, 0, 0, 0, {}, <<>>, <<>>, {})
Asked(q, k) == Call("asked", q, k, 0, 0, 0, {}, <<>>, <<>>, {})
Descending(q, k, w, e, l) == Call("descend", q, k, w, e, l, {}, <<>>, <<>>, {})
Searching(q, k, w, e) == Call("search", q, k, w, e, 0, {e}, <<e>>, <<e>>, {})
Answered(s, A) == Call("done", s.q, s.k, s.width, s.ep, 0, {}, <<>>, <<>>, A)

CallType ==
    [pc : {"idle", "asked", "descend", "search", "done"}, q : Node, k : Nat, width : Int,
     ep : Node, lc : Layer, seen : SUBSET Node, cand : Seq(Node),
     found : Seq(Node), answer : SUBSET Node]

Entering(q, k, w, e, l) ==
    IF l > 0 THEN Descending(q, k, w, e, l) ELSE Searching(q, k, w, e)

Init ==
    /\ index \in Indexes
    /\ efSearch \in Widths
    /\ search = [c \in Client |-> Idle]

SetEfSearch ==
    /\ \E ef \in Widths : efSearch' = ef
    /\ UNCHANGED <<index, search>>

Ask(c) ==
    /\ search[c].pc \in {"idle", "done"}
    /\ \E a \in Asks : search' = [search EXCEPT ![c] = Asked(a[1], a[2])]
    /\ UNCHANGED <<index, efSearch>>

\* The width of the whole search is read here, once.
ReadWidth(c) ==
    LET s == search[c] IN
    /\ s.pc = "asked"
    /\ search' = [search EXCEPT ![c] =
            Entering(s.q, s.k, Width(efSearch, s.k), index.entry, index.level[index.entry])]
    /\ UNCHANGED <<index, efSearch>>

\* Whether descend, at best, moves to n; and a mistake.
NotWorse(q, n, best) == ~Less(q, best, n)
Better(q, n, best) == Less(q, n, best)

\* One walk over a list, from q and with best the best so far.
Walk == [q : Node, best : Node, list : Seq(Node)]
Step(x) ==
    [x EXCEPT !.best = IF Better(x.q, Head(x.list), @) THEN Head(x.list) ELSE @,
              !.list = Tail(@)]
Walking[x \in Walk] == IF x.list = <<>> THEN x.best ELSE Walking[Step(x)]

\* Where descend is after the list of its position.
Walked(s) == Walking[[q |-> s.q, best |-> s.ep, list |-> index.lists[s.ep][s.lc]]]

\* It moves, or goes down a layer if nothing was better.
Descend(c) ==
    LET s == search[c] IN
    /\ s.pc = "descend"
    /\ search' = [search EXCEPT ![c] =
            IF Walked(s) # s.ep THEN Descending(s.q, s.k, s.width, Walked(s), s.lc)
                                ELSE Entering(s.q, s.k, s.width, s.ep, s.lc - 1)]
    /\ UNCHANGED <<index, efSearch>>

\* Whether the collector is full; a mistake first.
HasWorstEarly(s) == Len(s.found) + 1 >= Clamped(s.width)
HasWorst(s) == Len(s.found) >= Clamped(s.width)

\* The queue's first is further than the worst result; a mistake first.
SettledOnTie(s) == HasWorst(s) /\ ~Less(s.q, s.cand[1], s.found[1])
Settled(s) == HasWorst(s) /\ Less(s.q, s.found[1], s.cand[1])

TurnedAway(s, n) ==
    HasWorst(s) /\ Defined(s.q, {n, s.found[1]}) /\ ~Less(s.q, n, s.found[1])

\* The loop's body for one neighbour.
Meet(s, n) ==
    IF n \in s.seen THEN s
    ELSE IF TurnedAway(s, n) THEN [s EXCEPT !.seen = @ \cup {n}]
    ELSE [s EXCEPT !.seen = @ \cup {n},
                   !.cand = Push(@, n, NearOnTop[s.q]),
                   !.found = Add(s.q, @, n, Clamped(s.width))]

\* A call with the rest of the list it goes over.
Reading == [call : CallType, list : Seq(Node)]
Onward(x) == [call |-> Meet(x.call, Head(x.list)), list |-> Tail(x.list)]
MeetAll[x \in Reading] == IF x.list = <<>> THEN x.call ELSE MeetAll[Onward(x)]

\* The width during a turn of searchLayer's loop; and if it were read again.
WidthAnew(s) == Width(efSearch, s.k)
WidthKept(s) == s.width

\* One turn of searchLayer's loop.
Expanded(s) ==
    MeetAll[[call |-> [s EXCEPT !.cand = Pop(@, NearOnTop[s.q]), !.width = WidthKept(s)],
             list |-> index.lists[s.cand[1]][0]]]

Expand(c) ==
    LET s == search[c] IN
    /\ s.pc = "search"
    /\ s.cand # <<>> /\ ~Settled(s)
    /\ search' = [search EXCEPT ![c] = Expanded(s)]
    /\ UNCHANGED <<index, efSearch>>

\* The first k of the sorted results.  Sorting by what is no order may put any
\* of them first.
Cuts(s) ==
    LET R == Range(s.found) IN
    { A \in SUBSET R : /\ Cardinality(A) <= s.k /\ (Full(A, s.k) \/ A = R)
                       /\ Defined(s.q, R) => Firsts(s.q, R, s.k, A) }

Answer(c) ==
    LET s == search[c] IN
    /\ s.pc = "search"
    /\ s.cand # <<>> => Settled(s)
    /\ \E A \in Cuts(s) : search' = [search EXCEPT ![c] = Answered(s, A)]
    /\ UNCHANGED <<index, efSearch>>

Searches(c) ==
    \/ ReadWidth(c)
    \/ Descend(c)
    \/ Expand(c)
    \/ Answer(c)

Next == SetEfSearch \/ \E c \in Client : Ask(c) \/ Searches(c)

\* Search blocks on nothing.
Spec == Init /\ [][Next]_vars /\ \A c \in Client : WF_vars(Searches(c))

-----------------------------------------------------------------------------

\* The heaps as sets; a call that meets NaN is none of Query's business.
viewed(s) ==
    IF Defined(s.q, Node)
    THEN [s EXCEPT !.cand = Range(@), !.found = Range(@)]
    ELSE [Idle EXCEPT !.cand = {}, !.found = {}]

Q == INSTANCE Query WITH search <- [c \in Client |-> viewed(search[c])]

\* Each heap keeps its order, locally: no item belongs above its parent.  No
\* node is in a heap twice, and the collector stays within its capacity.  This
\* holds also when NaN is in them.
Heap(h, above) ==
    /\ IsInjective(h)
    /\ \A i \in DOMAIN h \ {1} : <<h[i], h[Parent(i)]>> \notin above

HeapsHold ==
    \A c \in Client : LET s == search[c] IN
        /\ Heap(s.cand, NearOnTop[s.q]) /\ Heap(s.found, FarOnTop[s.q])
        /\ Len(s.found) <= Clamped(s.width)

\* Search returns as many as were asked for if that many can be reached, and
\* else all of them; NaN among the distances costs none.
Enough == \A c \in Client : Q!EnoughOf(search[c])

\* The inductive invariant.  What Query's Explored says of distances is about
\* searches without NaN; this is what is left of it.  A call without results has
\* no heaps; and until the results are full all that was seen is in them.
TypeOK ==
    /\ index \in Indexes
    /\ efSearch \in Widths
    /\ search \in [Client -> CallType]

Ready(s) ==
    /\ s.pc = "idle" => s = Idle
    /\ s.pc # "idle" => s.k >= 1
    /\ s.pc \in {"descend", "search"} => s.width >= s.k
    /\ s.pc = "descend" => s.lc >= 1
    /\ s.pc = "search" => s.lc = 0 /\ s.answer = {}
    /\ s.pc # "search" => s.cand = <<>> /\ s.found = <<>>

Explored(s) ==
    s.pc = "search" =>
        /\ s.ep \in s.seen /\ s.seen \subseteq Reach(index, s.ep)
        /\ Range(s.cand) \subseteq s.seen /\ Range(s.found) \subseteq s.seen
        /\ s.found # <<>>
        /\ s.seen = Range(s.found) \/ Len(s.found) = Clamped(s.width)
        /\ \A x \in Range(s.found) :
            x \in Range(s.cand) \/ Neighbours(index, x, 0) \subseteq s.seen

IInv ==
    /\ TypeOK
    /\ \A c \in Client : Ready(search[c]) /\ Explored(search[c])
    /\ HeapsHold /\ Enough

\* Every search returns, also if the width is changed all the time, whatever
\* the distances.
Returns == \A c \in Client : search[c].pc = "asked" ~> search[c].pc = "done"

\* Whatever the graph is like, an answer is the best in its neighbourhood.
LocallyBest == Q!LocallyBest

\* A search as wide as the index is exact about what it can reach.
ExactIfWide == Q!ExactIfWide

\* With heaps a search visits and returns what it would with sets.
Implements == Q!Spec

=============================================================================
