---------------------------- MODULE MCHnswBuild ----------------------------
(***************************************************************************)
(* Small instances of HnswBuild: vectors are points on a line or in a      *)
(* plane, and Dist is the squared Euclidean distance, as in L2Squared.     *)
(***************************************************************************)
EXTENDS HnswBuild, Sequences, TLC

CONSTANTS
    w1, w2, w3,   \* goroutines
    Points        \* Points[i]: the coordinates of the vector with ID i - 1

One == {w1}
Two == {w1, w2}
Three == {w1, w2, w3}
\* The goroutines run the same code: sound for the runs without liveness.
WorkerSymmetry == Permutations(Worker)

Sq(i) == i * i
MCDist ==
    [p \in Node \X Node |->
        Sq(Points[p[1] + 1][1] - Points[p[2] + 1][1])
      + Sq(Points[p[1] + 1][2] - Points[p[2] + 1][2])]

\* Four points: a close pair, an equidistant one and one further off.
Scattered == <<<<0, 0>>, <<1, 0>>, <<0, 1>>, <<3, 0>>>>
\* Two vectors that are equal and two that are equally far from them.
Duplicates == <<<<1, 0>>, <<1, 0>>, <<0, 0>>, <<2, 0>>>>
\* Two clusters.
Clusters == <<<<0, 0>>, <<5, 0>>, <<1, 0>>, <<6, 1>>, <<0, 1>>>>
Clusters6 == Clusters \o <<<<5, 1>>>>

AnyLevels == [Node -> Layer]
\* SingleLayer: randomLevel returns 0.
Flat == {[x \in Node |-> 0]}

=============================================================================
