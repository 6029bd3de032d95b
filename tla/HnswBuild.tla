------------------------------ MODULE HnswBuild ------------------------------
(***************************************************************************)
(* BuildHNSW: how the index graph is built, one insertion at a time or by  *)
(* several goroutines at once (src/internal/index/hnsw.go).                *)
(*                                                                         *)
(* Building is HNSW.building.  FALSE is the sequential build, with one     *)
(* worker; TRUE is buildParallel, whose goroutines run insertAt            *)
(* concurrently.  One action is one critical section: reading a list in    *)
(* neighbours, setOwn, link, topOfIndex and raiseTop each hold one mutex   *)
(* from beginning to end and never a second one, and what a goroutine      *)
(* computes between two of them touches only its own workspace.            *)
(*                                                                         *)
(* An adjacency list is the set of its members.  The code could append an  *)
(* ID a list already holds; NoDoubleEntry is the invariant that it never   *)
(* does, so a set loses nothing but the order of a list.  The order only   *)
(* decides which of two equally distant neighbours is met first, and the   *)
(* model allows either.                                                    *)
(***************************************************************************)
EXTENDS Ranking

CONSTANTS
    Worker,       \* the goroutines of buildParallel; one for a sequential build
    Building,     \* HNSW.building
    MaxLayer,     \* bound: no node draws a level above this one
    LevelDraws,   \* the level assignments randomLevel can produce
    M, MMax, MMax0, EfConstruct, NearestM   \* Params

Layer == 0 .. MaxLayer

ASSUME LayerAssumption ==
    /\ MaxLayer \in Nat
    /\ LevelDraws \subseteq [Node -> Layer]

\* The checks at the head of BuildHNSW, after zero fields got their defaults.
ASSUME ParamsAssumption ==
    /\ M \in Nat /\ M >= 2
    /\ EfConstruct \in Nat /\ EfConstruct >= M
    /\ MMax \in Nat /\ MMax >= M
    /\ MMax0 \in Nat /\ MMax0 >= M
    /\ NearestM \in BOOLEAN

ASSUME WorkerAssumption ==
    /\ Building \in BOOLEAN
    /\ IsFiniteSet(Worker)
    /\ ~Building => Cardinality(Worker) = 1

VARIABLES
    level,      \* level[x]: the top layer drawn for x
    allocated,  \* the nodes whose links[x] slice exists
    links,      \* links[x][l]: x's neighbours at layer l
    entry,      \* where every search starts ...
    maxLevel,   \* ... and the height of the index
    next,       \* the next ID to insert; N once the channel is drained
    work,       \* work[w]: the insertAt call worker w is in
    ready       \* BuildHNSW has returned

vars == <<level, allocated, links, entry, maxLevel, next, work, ready>>

-----------------------------------------------------------------------------
(***************************************************************************)
(* The call a worker is in: pc names the critical section it runs next.    *)
(* Fields the rest of the call does not read are reset, so that one state  *)
(* of the program is one state of the model.                               *)
(***************************************************************************)

Call(pc, x, e, l, seen, cand, found, todo) ==
    [pc |-> pc, cur |-> x, ep |-> e, lc |-> l,
     seen |-> seen, cand |-> cand, found |-> found, todo |-> todo]

Idle == Call("idle", 0, 0, 0, {}, {}, {}, {})
AtTop(x) == Call("top", x, 0, 0, {}, {}, {}, {})
Descending(x, e, l) == Call("descend", x, e, l, {}, {}, {}, {})
Searching(x, e, l) == Call("search", x, e, l, {e}, {e}, {e} \ {x}, {})
Owning(x, e, l, R) == Call("own", x, e, l, {}, {}, R, {})
Linking(x, e, l, K) == Call("link", x, e, l, {}, {}, {}, K)
Raising(x) == Call("raise", x, 0, 0, {}, {}, {}, {})

PC == {"idle", "top", "descend", "search", "own", "link", "raise"}

CallType ==
    [pc : PC, cur : Node, ep : Node, lc : Layer, seen : SUBSET Node,
     cand : SUBSET Node, found : SUBSET Node, todo : SUBSET Node]

\* The layer after l in insertAt's loop over the layers to link; two mistakes
\* in the loop's condition first.
NextLayerNoEnd(x, e, l) == Searching(x, e, l - 1)
NextLayerSkipsBottom(x, e, l) == IF l <= 1 THEN Raising(x) ELSE Searching(x, e, l - 1)
NextLayer(x, e, l) == IF l = 0 THEN Raising(x) ELSE Searching(x, e, l - 1)

CapAt(l) == IF l = 0 THEN MMax0 ELSE MMax

\* searchLayer never keeps more results than there are nodes.
Ef == IF EfConstruct > N THEN N ELSE EfConstruct

Init ==
    /\ level \in LevelDraws
    /\ allocated = {0}
    /\ links = [x \in Node |-> [l \in Layer |-> {}]]
    /\ entry = 0
    /\ maxLevel = level[0]
    /\ next = 1
    /\ work = [w \in Worker |-> Idle]
    /\ ready = FALSE

-----------------------------------------------------------------------------

\* A mistake: two goroutines take one ID, as an unguarded counter lets them.
ReceiveTwice(w) ==
    /\ work[w].pc = "idle" /\ next < N
    /\ next' \in {next, next + 1}
    /\ allocated' = allocated \cup {next}
    /\ work' = [work EXCEPT ![w] = AtTop(next)]
    /\ UNCHANGED <<level, links, entry, maxLevel, ready>>

\* A worker takes the next ID and gives it an empty list for every layer.
Receive(w) ==
    /\ work[w].pc = "idle" /\ next < N
    /\ next' = next + 1
    /\ allocated' = allocated \cup {next}
    /\ work' = [work EXCEPT ![w] = AtTop(next)]
    /\ UNCHANGED <<level, links, entry, maxLevel, ready>>

\* The first layer a node of level k is linked in, under an index of height
\* top; two ways to get the minimum wrong first.
StartLayerUnclamped(k, top) == k
StartLayerBelowTop(k, top) == IF k >= top /\ top > 0 THEN top - 1 ELSE k
StartLayer(k, top) == IF k > top THEN top ELSE k

\* topOfIndex, and the choice between descending and linking at once.
ReadTop(w) ==
    /\ work[w].pc = "top"
    /\ LET x == work[w].cur
           lc == StartLayer(level[x], maxLevel) IN
       work' = [work EXCEPT ![w] = IF maxLevel > level[x]
                                   THEN Descending(x, entry, maxLevel)
                                   ELSE Searching(x, entry, lc)]
    /\ UNCHANGED <<level, allocated, links, entry, maxLevel, next, ready>>

\* The neighbours of n at layer l that improve on n, seen from q; a mistake
\* that takes equally distant ones for better first.
NearerOrEqual(q, n, l) == { y \in links[n][l] : Dist[<<q, y>>] <= Dist[<<q, n>>] }
Nearer(q, n, l) == { y \in links[n][l] : Dist[<<q, y>>] < Dist[<<q, n>>] }

\* descend moves to a neighbour no other one is nearer than.
DescendMove(w) ==
    LET s == work[w]
        nearer == Nearer(s.cur, s.ep, s.lc) IN
    /\ s.pc = "descend"
    /\ \E b \in nearer :
        /\ \A y \in nearer : Dist[<<s.cur, b>>] <= Dist[<<s.cur, y>>]
        /\ work' = [work EXCEPT ![w] = Descending(s.cur, b, s.lc)]
    /\ UNCHANGED <<level, allocated, links, entry, maxLevel, next, ready>>

\* descend found nothing nearer: carry the node down one layer.
DescendDrop(w) ==
    LET s == work[w] IN
    /\ s.pc = "descend"
    /\ Nearer(s.cur, s.ep, s.lc) = {}
    /\ work' = [work EXCEPT ![w] = IF s.lc - 1 > level[s.cur]
                                   THEN Descending(s.cur, s.ep, s.lc - 1)
                                   ELSE Searching(s.cur, s.ep, s.lc - 1)]
    /\ UNCHANGED <<level, allocated, links, entry, maxLevel, next, ready>>


\* One turn of searchLayer's loop: pop the nearest candidate, read its list and
\* take in the neighbours not seen before.  Which of them, A, enter the queue
\* depends on the order of the list: one is turned away only if the results
\* are full of nodes at least as near, and never enters against results that
\* were so before the list was read.  A candidate every result is nearer than
\* ends the search when popped, so it is dropped from the queue at once.
Expand(w) ==
    LET s == work[w] IN
    /\ s.pc = "search"
    /\ \E c \in s.cand :
        /\ IsNearest(s.cur, c, s.cand)
        /\ LET fresh == links[c][s.lc] \ s.seen IN
           \E A \in SUBSET fresh :
             LET R == Nearest(s.cur, s.found \cup (A \ {s.cur}), Ef)
                 queued == (s.cand \ {c}) \cup A
                 live == IF Full(R, Ef) THEN { x \in queued : ~Beyond(s.cur, R, x) }
                                        ELSE queued
             IN
             /\ \A x \in A : ~(Full(s.found, Ef) /\ NoBetter(s.cur, s.found, x))
             /\ \A x \in fresh \ A : Full(R, Ef) /\ NoBetter(s.cur, R, x)
             /\ work' = [work EXCEPT ![w] =
                    IF live # {} THEN Call("search", s.cur, s.ep, s.lc,
                                           s.seen \cup fresh, live, R, {})
                    ELSE IF R # {} THEN Owning(s.cur, s.ep, s.lc, R)
                    ELSE NextLayer(s.cur, s.ep, s.lc)]
    /\ UNCHANGED <<level, allocated, links, entry, maxLevel, next, ready>>

\* The list setOwn stores for x, given the chosen neighbours K: during a
\* parallel build the reverse links others have added already are preserved.
\* Storing the chosen ones alone, as before the merge was there, comes first.
OwnListOverwritten(x, l, K, own) == own = K
OwnList(x, l, K, own) ==
    LET merged == IF Building THEN K \cup links[x][l] ELSE K IN
    IF Building /\ Cardinality(merged) > CapAt(l)
    THEN Selected(x, merged, CapAt(l), NearestM, own)
    ELSE own = merged

\* selectNeighbours and setOwn; the next layer will start from the nearest found.
SetOwn(w) ==
    LET s == work[w] IN
    /\ s.pc = "own"
    /\ \E K \in SUBSET s.found, own \in SUBSET (s.found \cup links[s.cur][s.lc]) :
        /\ Selected(s.cur, s.found, M, NearestM, K)
        /\ OwnList(s.cur, s.lc, K, own)
        /\ links' = [links EXCEPT ![s.cur][s.lc] = own]
        /\ \E e \in s.found :
            /\ IsNearest(s.cur, e, s.found)
            /\ work' = [work EXCEPT ![w] = Linking(s.cur, e, s.lc, K)]
    /\ UNCHANGED <<level, allocated, entry, maxLevel, next, ready>>

\* The list link stores for other once x was appended to it.  A mistake first:
\* testing the length before the append.
LinkedListLate(other, x, l, list) ==
    LET longer == links[other][l] \cup {x} IN
    IF Cardinality(links[other][l]) <= CapAt(l)
    THEN list = longer
    ELSE Selected(other, longer, CapAt(l), NearestM, list)
LinkedList(other, x, l, list) ==
    LET longer == links[other][l] \cup {x} IN
    IF Cardinality(longer) <= CapAt(l)
    THEN list = longer
    ELSE Selected(other, longer, CapAt(l), NearestM, list)

\* link, for the nearest chosen neighbour not yet linked back.
Link(w) ==
    LET s == work[w] IN
    /\ s.pc = "link"
    /\ \E r \in s.todo, list \in SUBSET Node :
        /\ IsNearest(s.cur, r, s.todo)
        /\ LinkedList(r, s.cur, s.lc, list)
        /\ links' = [links EXCEPT ![r][s.lc] = list]
        /\ work' = [work EXCEPT ![w] =
                IF s.todo # {r} THEN Linking(s.cur, s.ep, s.lc, s.todo \ {r})
                                ELSE NextLayer(s.cur, s.ep, s.lc)]
    /\ UNCHANGED <<level, allocated, entry, maxLevel, next, ready>>

\* raiseTop's assignments: the comparison and both writes are one section.
\* Without the comparison, or with one of the writes missing, they would be:
RaiseTopHalf(x) ==
    /\ maxLevel' = IF level[x] > maxLevel THEN level[x] ELSE maxLevel
    /\ UNCHANGED entry
RaiseTopUnchecked(x) == maxLevel' = level[x] /\ entry' = x
RaiseTop(x) ==
    IF level[x] > maxLevel THEN maxLevel' = level[x] /\ entry' = x
                           ELSE UNCHANGED <<maxLevel, entry>>

\* raiseTop, the last thing insertAt does.
Raise(w) ==
    /\ work[w].pc = "raise"
    /\ RaiseTop(work[w].cur)
    /\ work' = [work EXCEPT ![w] = Idle]
    /\ UNCHANGED <<level, allocated, links, next, ready>>

\* A mistake: returning once the channel is drained, whatever the workers are doing.
FinishWithoutWait ==
    /\ next = N
    /\ ready' = TRUE
    /\ UNCHANGED <<level, allocated, links, entry, maxLevel, next, work>>

\* wg.Wait and compactBottom, which keeps every list as it is.
Finish ==
    /\ ~ready
    /\ next = N
    /\ \A w \in Worker : work[w] = Idle
    /\ ready' = TRUE
    /\ UNCHANGED <<level, allocated, links, entry, maxLevel, next, work>>

\* A finished index is immutable.
Finished == ready /\ UNCHANGED vars

Insert(w) ==
    \/ Receive(w)
    \/ ReadTop(w)
    \/ DescendMove(w)
    \/ DescendDrop(w)
    \/ Expand(w)
    \/ SetOwn(w)
    \/ Link(w)
    \/ Raise(w)

Next == (\E w \in Worker : Insert(w)) \/ Finish \/ Finished

\* No mutex is held across another acquisition or a blocking call, so a
\* goroutine that has work to do gets to do it, and wg.Wait returns.
Fairness == (\A w \in Worker : WF_vars(Insert(w))) /\ WF_vars(Finish)

Spec == Init /\ [][Next]_vars /\ Fairness

-----------------------------------------------------------------------------

Busy == { w \in Worker : work[w].pc # "idle" }
InFlight == { work[w].cur : w \in Busy }
Placed == { x \in Node : x < next } \ InFlight
Occupies(x, l) == x \in allocated /\ level[x] >= l

\* Every variable has the type its declaration in hnsw.go gives it.
TypeOK ==
    /\ level \in [Node -> Layer]
    /\ allocated \subseteq Node
    /\ links \in [Node -> [Layer -> SUBSET Node]]
    /\ entry \in Node
    /\ maxLevel \in Layer
    /\ next \in 1 .. N
    /\ work \in [Worker -> CallType]
    /\ ready \in BOOLEAN

\* Publishing a node before anything links to it makes it safe to follow
\* (insertAt): whatever list an edge is read from, the node it names has its
\* lists allocated and reaches up to that layer, and no node names itself.
SafeToFollow ==
    \A n \in Node, l \in Layer : \A x \in links[n][l] :
        Occupies(n, l) /\ Occupies(x, l) /\ x # n

\* The lists a call indexes next exist at its layer: those of its position,
\* its candidates, its results and of the node being inserted.
InBounds(s) ==
    /\ s.pc \in {"descend", "search", "own", "link"} =>
        Occupies(s.ep, s.lc) /\ s.ep # s.cur
    /\ s.pc \in {"search", "own", "link"} => level[s.cur] >= s.lc
    /\ s.pc = "descend" => level[s.cur] < s.lc
    /\ \A x \in s.cand \cup s.found \cup s.todo : Occupies(x, s.lc)
    /\ s.cur \notin s.found \cup s.todo

\* Wherever the workers stand, neighbours, setOwn and link index slices that
\* are there, and a node never becomes its own entry point or neighbour.
WalkInBounds == \A w \in Worker : InBounds(work[w])

\* No list outgrows its layer's cap, at any point of the build and with any
\* number of workers appending to it ("A max above mMax0 means the prune in
\* link is not firing", Degrees).
DegreeCap == \A n \in Node, l \in Layer : Cardinality(links[n][l]) <= CapAt(l)

\* link appends without looking; what it appends is never there already, so a
\* slot of a capped list is never spent twice on one neighbour.
NoDoubleEntry ==
    \A w \in Worker : \A r \in work[w].todo : work[w].cur \notin links[r][work[w].lc]

\* The entry is a fully inserted node, it is as tall as maxLevel says, and no
\* inserted node is taller: topOfIndex never pairs one node with another's
\* height, and raiseTop never loses to a shorter node.
TopIsTallest ==
    /\ entry \in Placed
    /\ level[entry] = maxLevel
    /\ \A x \in Placed : level[x] <= maxLevel

\* Every inserted node has a neighbour at the bottom layer; without one it
\* could not be left again.  The first node gets its own from whoever links to
\* it first, which is certain only once the build is over: until then others
\* may have met at the bottom through a taller node still being inserted.
HasWayOut ==
    \A x \in Placed : (x # 0 \/ (ready /\ N > 1)) => links[x][0] # {}

\* An edge leaves a list only by a prune, and a prune drops it only for a
\* reason: the list is full, or a neighbour that stays covers that direction.
\* In particular setOwn does not lose the reverse links of other goroutines.
EdgeLossJustified ==
    \A n \in Node, l \in Layer : \A x \in links[n][l] \ links'[n][l] :
        \/ Full(links'[n][l], CapAt(l))
        \/ ~NearestM /\ \E k \in links'[n][l] : Covers(n, k, x)
NoSilentEdgeLoss == [][EdgeLossJustified]_vars

\* The IDs taken from the channel are the allocated nodes, and every worker
\* has one of its own.
Turns ==
    /\ allocated = 0 .. next - 1
    /\ \A w \in Busy : work[w].cur \in 1 .. next - 1
    /\ \A v, w \in Busy : work[v].cur = work[w].cur => v = w

\* The layers at which a call has yet to store its node's own list.
Ahead(s) ==
    { l \in Layer : \/ s.pc \in {"top", "descend"}
                    \/ s.pc \in {"search", "own"} /\ l <= s.lc
                    \/ s.pc = "link" /\ l < s.lc }

\* Alone, a worker finds no list of its node filled in before it gets there:
\* this is why setOwn may overwrite in a sequential build.
NothingAhead ==
    ~Building => \A w \in Worker : \A l \in Ahead(work[w]) : links[work[w].cur][l] = {}

\* The inductive invariant the proofs rest on.
IInv ==
    /\ TypeOK /\ SafeToFollow /\ WalkInBounds /\ DegreeCap /\ TopIsTallest
    /\ Turns /\ NothingAhead

\* A node of a finished index that shares an upper layer with another node was
\* linked there: insert "links it into every layer from there to the bottom".
EveryLayerLinked ==
    ready => \A l \in 1 .. MaxLayer :
        LET here == { x \in Node : level[x] >= l } IN
        Cardinality(here) > 1 => \A x \in here : links[x][l] # {}

\* What a walk of at most k steps from the entry reaches on layer l.
Reached(l) ==
    LET within[k \in 0 .. N] ==
            IF k = 0 THEN {entry}
            ELSE within[k - 1] \cup UNION { links[n][l] : n \in within[k - 1] }
    IN within[N]

\* If no cap is ever reached, a finished index is one piece: Reachable counts
\* every node, although an insertion may enter the bottom layer through a node
\* that is itself not linked there yet.
OnePiece == ready => Reached(0) = Node

\* Every build ends: no descent circles among equally distant nodes, and no
\* worker waits for another.
BuildEnds == <>ready

\* The goroutines' interleaved insertions amount to inserting the nodes one at
\* a time, each becoming the entry if it is the tallest so far.
Assembled == INSTANCE Assembly
    WITH Heights <- LevelDraws, height <- level, placed <- Placed,
         start <- entry, done <- ready
BuildAssembles == Assembled!Spec

=============================================================================
