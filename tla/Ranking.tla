------------------------------- MODULE Ranking -------------------------------
(***************************************************************************)
(* How the index orders and chooses vectors.                               *)
(*                                                                         *)
(* Every part of the program that has to decide which of two vectors is    *)
(* the better answer uses topk.Before: the smaller distance wins and, on a *)
(* tie, the smaller ID.  A vector is its ID here, and Dist stands for      *)
(* distance.L2Squared between the vectors two IDs name.                    *)
(*                                                                         *)
(* The loops that fill a bounded heap or walk a sorted candidate list are  *)
(* stated by what they return, as sets, so that they can be used in proofs *)
(* without recursion.                                                      *)
(***************************************************************************)
EXTENDS Integers, FiniteSets

CONSTANTS
    N,        \* number of vectors in the dataset; a node's ID is its row
    Dist      \* Dist[<<a, b>>]: L2Squared of the vectors of a and b

Node == 0 .. N - 1

ASSUME SizeAssumption == N \in Nat \ {0}
ASSUME DistAssumption == Dist \in [Node \X Node -> Nat]

-----------------------------------------------------------------------------

\* topk.Before with both results measured from the query q.
Before(q, a, b) ==
    \/ Dist[<<q, a>>] < Dist[<<q, b>>]
    \/ Dist[<<q, a>>] = Dist[<<q, b>>] /\ a < b

\* c comes first in S.
IsNearest(q, c, S) == c \in S /\ \A s \in S \ {c} : Before(q, c, s)

\* What a topk.Collector of capacity k holds once every member of S was added.
Nearest(q, S, k) == { c \in S : Cardinality({ s \in S : Before(q, s, c) }) < k }

\* Collector.Worst's second result: the collector holds k results.
Full(R, k) == Cardinality(R) >= k

\* Every result held is strictly nearer than x: the test that ends a search.
Beyond(q, R, x) == \A r \in R : Dist[<<q, r>>] < Dist[<<q, x>>]

\* No result held is further than x: the test that turns a neighbour away.
NoBetter(q, R, x) == \A r \in R : Dist[<<q, r>>] <= Dist[<<q, x>>]

-----------------------------------------------------------------------------

\* One kept neighbour k covers c when c is closer to k than to node.
Covers(node, k, c) == Dist[<<c, k>>] < Dist[<<node, c>>]

\* selectNeighbours with the paper's heuristic: walking C nearest first, a
\* candidate is kept while there is room and nothing already kept covers it.
Spread(node, C, m, K) ==
    \A c \in C :
        LET kept == { k \in K : Before(node, k, c) } IN
        c \in K <=> /\ Cardinality(kept) < m
                    /\ \A k \in kept : ~Covers(node, k, c)

\* selectNeighbours without it: the first m of C, nearest first.
Closest(node, C, m, K) ==
    /\ Full(K, m) \/ K = C
    /\ \A k \in K, c \in C \ K : Before(node, k, c)

\* selectNeighbours returns K when asked for at most m neighbours of node
\* among the candidates C.
Selected(node, C, m, nearestM, K) ==
    /\ K \subseteq C
    /\ Cardinality(K) <= m
    /\ IF nearestM THEN Closest(node, C, m, K) ELSE Spread(node, C, m, K)

=============================================================================
