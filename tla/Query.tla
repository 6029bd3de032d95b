-------------------------------- MODULE Query --------------------------------
(***************************************************************************)
(* HNSW.Search: what a query visits and returns, while other ones run and  *)
(* SetEfSearch changes the width for those to come                         *)
(* (src/internal/index/hnsw.go).                                           *)
(*                                                                         *)
(* The candidates and the results of a search are sets here, ordered by    *)
(* Before.  The heaps that hold them are the subject of QueryHeaps, which  *)
(* implements this module.                                                 *)
(***************************************************************************)
EXTENDS FinishedIndex

VARIABLES
    index,      \* the index that is searched
    efSearch,   \* its atomic width
    search      \* search[c]: the call c is in, or its last one

vars == <<index, efSearch, search>>

Call(pc, q, k, w, e, l, seen, cand, found, answer) ==
    [pc |-> pc, q |-> q, k |-> k, width |-> w, ep |-> e, lc |-> l,
     seen |-> seen, cand |-> cand, found |-> found, answer |-> answer]

Idle == Call("idle", 0, 0, 0, 0, 0, {}, {}, {}, {})
Asked(q, k) == Call("asked", q, k, 0, 0, 0, {}, {}, {}, {})
Descending(q, k, w, e, l) == Call("descend", q, k, w, e, l, {}, {}, {}, {})
Searching(q, k, w, e) == Call("search", q, k, w, e, 0, {e}, {e}, {e}, {})
Answered(s, A) == Call("done", s.q, s.k, s.width, s.ep, 0, {}, {}, {}, A)

\* At layer l, from e: down to the bottom, or searching there.
Entering(q, k, w, e, l) ==
    IF l > 0 THEN Descending(q, k, w, e, l) ELSE Searching(q, k, w, e)

Init ==
    /\ index \in Indexes
    /\ efSearch \in Widths
    /\ search = [c \in Client |-> Idle]

SetEfSearch ==
    /\ \E ef \in Widths : efSearch' = ef
    /\ UNCHANGED <<index, search>>

Ask(c) ==
    /\ search[c].pc \in {"idle", "done"}
    /\ \E a \in Asks : search' = [search EXCEPT ![c] = Asked(a[1], a[2])]
    /\ UNCHANGED <<index, efSearch>>

\* The caller does something that this module does not speak of.
Turn(c) ==
    /\ search[c].pc = "done"
    /\ search' = [search EXCEPT ![c] = Idle]
    /\ UNCHANGED <<index, efSearch>>

\* The width of the whole search is read here, once.
ReadWidth(c) ==
    LET s == search[c] IN
    /\ s.pc = "asked"
    /\ search' = [search EXCEPT ![c] =
            Entering(s.q, s.k, Width(efSearch, s.k), index.entry, index.level[index.entry])]
    /\ UNCHANGED <<index, efSearch>>

\* The neighbours of a call's position that are nearer to its query.
Nearer(s) ==
    { y \in Neighbours(index, s.ep, s.lc) : Dist[<<s.q, y>>] < Dist[<<s.q, s.ep>>] }

\* descend moves to a neighbour no other one is nearer than, ...
DescendMove(c) ==
    LET s == search[c] IN
    /\ s.pc = "descend"
    /\ \E b \in Nearer(s) :
        /\ \A y \in Nearer(s) : Dist[<<s.q, b>>] <= Dist[<<s.q, y>>]
        /\ search' = [search EXCEPT ![c] = Descending(s.q, s.k, s.width, b, s.lc)]
    /\ UNCHANGED <<index, efSearch>>

\* ... and goes down a layer if there is none.
DescendDrop(c) ==
    LET s == search[c] IN
    /\ s.pc = "descend"
    /\ Nearer(s) = {}
    /\ search' = [search EXCEPT ![c] = Entering(s.q, s.k, s.width, s.ep, s.lc - 1)]
    /\ UNCHANGED <<index, efSearch>>

\* The results are full of nodes that are all nearer than n.
Settled(s, n) == Full(s.found, Clamped(s.width)) /\ Beyond(s.q, s.found, n)

\* Of the neighbours not seen before, A enter the queue, and the results become
\* R.  A neighbour is turned away only if the results have become full of nodes
\* no further than it; which ones are depends on the order of the list.
Takes(s, fresh, A, R) ==
    /\ Firsts(s.q, s.found \cup A, Clamped(s.width), R)
    /\ \A y \in A : ~(Full(s.found, Clamped(s.width)) /\ NoBetter(s.q, s.found, y))
    /\ \A y \in fresh \ A : Full(R, Clamped(s.width)) /\ NoBetter(s.q, R, y)

\* One turn of searchLayer's loop.
Expand(c) ==
    LET s == search[c] IN
    /\ s.pc = "search"
    /\ \E n \in s.cand :
        /\ IsNearest(s.q, n, s.cand)
        /\ ~Settled(s, n)
        /\ LET fresh == Neighbours(index, n, 0) \ s.seen IN
           \E A \in SUBSET fresh : \E R \in SUBSET (s.found \cup A) :
             /\ search' = [search EXCEPT ![c] =
                    Call("search", s.q, s.k, s.width, s.ep, 0, s.seen \cup fresh,
                         (s.cand \ {n}) \cup A, R, {})]
             /\ Takes(s, fresh, A, R)
    /\ UNCHANGED <<index, efSearch>>

\* Nothing is queued, or nothing queued can improve the results.
Answer(c) ==
    LET s == search[c] IN
    /\ s.pc = "search"
    /\ \A n \in s.cand : Settled(s, n)
    /\ \E A \in SUBSET s.found :
        /\ search' = [search EXCEPT ![c] = Answered(s, A)]
        /\ Firsts(s.q, s.found, s.k, A)
    /\ UNCHANGED <<index, efSearch>>

Searches(c) ==
    \/ ReadWidth(c)
    \/ DescendMove(c)
    \/ DescendDrop(c)
    \/ Expand(c)
    \/ Answer(c)

Next == SetEfSearch \/ \E c \in Client : Ask(c) \/ Turn(c) \/ Searches(c)

Spec == Init /\ [][Next]_vars

-----------------------------------------------------------------------------

CallType ==
    [pc : {"idle", "asked", "descend", "search", "done"}, q : Node, k : Nat, width : Int,
     ep : Node, lc : Layer, seen : SUBSET Node, cand : SUBSET Node,
     found : SUBSET Node, answer : SUBSET Node]

TypeOK ==
    /\ index \in Indexes
    /\ efSearch \in Widths
    /\ search \in [Client -> CallType]

\* What a call remembers: a width of at least k, and above the bottom a position
\* that has a list there.
Ready(s) ==
    /\ s.pc # "idle" => s.k >= 1
    /\ s.pc \in {"descend", "search"} => s.width >= s.k
    /\ s.pc = "descend" => s.lc >= 1 /\ index.level[s.ep] >= s.lc

\* What a search has seen: all of it can be reached from where it entered, it
\* keeps no more than its width, it forgets a node only for ones no further,
\* and the neighbours of a result are seen unless it is still queued.
Explored(s) ==
    s.pc = "search" =>
        /\ s.ep \in s.seen /\ s.seen \subseteq Reach(index, s.ep)
        /\ s.cand \subseteq s.seen /\ s.found \subseteq s.seen
        /\ Cardinality(s.found) <= Clamped(s.width) /\ s.found # {}
        /\ \A x \in s.seen \ s.found :
            Full(s.found, Clamped(s.width)) /\ NoBetter(s.q, s.found, x)
        /\ \A x \in s.found : x \in s.cand \/ Neighbours(index, x, 0) \subseteq s.seen

\* Whatever the graph is like, an answer is the best in its neighbourhood: no
\* node that an answer links to was left out for one that is further away.
\* It would be if the search stopped with a result not yet looked at, or if
\* the width changed under it.
BestOf(s) ==
    s.pc = "done" =>
        \A a \in s.answer, r \in s.answer :
            \A y \in Neighbours(index, a, 0) \ s.answer : Dist[<<s.q, r>>] <= Dist[<<s.q, y>>]
LocallyBest == \A c \in Client : BestOf(search[c])

\* Search returns k nodes, also if efSearch is less, unless there are fewer to
\* be reached from where it came down; then it returns all of them.
EnoughOf(s) ==
    s.pc = "done" =>
        /\ s.answer \subseteq Reach(index, s.ep)
        /\ IF Cardinality(Reach(index, s.ep)) >= s.k THEN Cardinality(s.answer) = s.k
                                                     ELSE s.answer = Reach(index, s.ep)
Enough == \A c \in Client : EnoughOf(search[c])

\* A search as wide as the index is exact about what it can reach: a loss of
\* recall can only come from the width and from the graph.
ExactOf(s) ==
    s.pc = "done" /\ s.width >= N => Firsts(s.q, Reach(index, s.ep), s.k, s.answer)
ExactIfWide == \A c \in Client : ExactOf(search[c])

IInv ==
    /\ TypeOK
    /\ \A c \in Client : Ready(search[c]) /\ Explored(search[c])
    /\ LocallyBest /\ Enough /\ ExactIfWide

=============================================================================
