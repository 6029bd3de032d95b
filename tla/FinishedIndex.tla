---------------------------- MODULE FinishedIndex ----------------------------
(***************************************************************************)
(* What queries run on: an index that BuildHNSW or LoadHNSW has returned.  *)
(* Nothing writes to it any more, so that Search takes no lock.            *)
(*                                                                         *)
(* That its lists can be followed is what HnswBuild (SafeToFollow,         *)
(* TopIsTallest) and Loader (LoadedSafe) establish; here it is assumed.    *)
(*                                                                         *)
(* A query is named by the row of Dist that holds its distances.  Nothing  *)
(* is assumed of Dist, so a row stands for any vector asked about.         *)
(***************************************************************************)
EXTENDS Ranking, Sequences

CONSTANTS
    MaxLayer,    \* no node of an index occupies a layer above this one
    Indexes,     \* the indexes that may be searched
    Client,      \* goroutines that call Search
    Widths,      \* values that SetEfSearch is called with
    Asks         \* Search's arguments: <<q, k>>, a query and how many it wants

Layer == 0 .. MaxLayer

\* The nodes that list l of node n names.
Neighbours(x, n, l) == { x.lists[n][l][i] : i \in DOMAIN x.lists[n][l] }

Followable(x) ==
    /\ x.level \in [Node -> Layer]
    /\ x.lists \in [Node -> [Layer -> Seq(Node)]]
    /\ x.entry \in Node
    /\ \A n \in Node, l \in Layer : \A y \in Neighbours(x, n, l) : x.level[y] >= l

ASSUME QueryAssumption ==
    /\ MaxLayer \in Nat
    /\ \A x \in Indexes : Followable(x)
    /\ Widths \subseteq Int
    /\ Asks \subseteq Node \X (Nat \ {0})

\* searchLayer never keeps more results than there are nodes; a mistake first.
ClampedBelow(width) == IF width >= N THEN N - 1 ELSE width
Clamped(width) == IF width > N THEN N ELSE width

\* ef is raised to k; a mistake first.
WidthUnraised(ef, k) == ef
Width(ef, k) == IF ef < k THEN k ELSE ef

\* R is what the first k of S are, sorted from q: a collector's results, or the
\* results a search returns of them.
Firsts(q, S, k, R) == Selected(q, S, k, TRUE, R)

\* The nodes that a walk over the bottom layer can get to from e.
Reaches ==
    [x \in Indexes |-> [e \in Node |->
        { n \in Node : \A S \in SUBSET Node :
            e \in S /\ (\A m \in S : Neighbours(x, m, 0) \subseteq S) => n \in S }]]
Reach(x, e) == Reaches[x][e]

=============================================================================
