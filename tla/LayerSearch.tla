----------------------------- MODULE LayerSearch -----------------------------
(***************************************************************************)
(* What a layer search may rely on, as if every search had scratch space   *)
(* of its own: it starts having seen nothing, comes across every node at   *)
(* most once, expands only nodes it queued itself, and keeps at most as    *)
(* many results as it was asked for.                                       *)
(***************************************************************************)
EXTENDS Integers, FiniteSets

CONSTANTS Search, Id, Widths   \* goroutines searching, node IDs, values of ef

VARIABLES visited, queue, best, width

vars == <<visited, queue, best, width>>

Init ==
    /\ visited = [s \in Search |-> {}]
    /\ queue = [s \in Search |-> {}]
    /\ best = [s \in Search |-> {}]
    /\ width = [s \in Search |-> 0]

\* s forgets its last search, and begins another one if ef is not 0.
Start(s, ef) ==
    /\ visited' = [visited EXCEPT ![s] = {}]
    /\ queue' = [queue EXCEPT ![s] = {}]
    /\ best' = [best EXCEPT ![s] = {}]
    /\ width' = [width EXCEPT ![s] = ef]

\* s comes across id for the first time: it is turned away, or it is queued
\* and the results become at most width[s] of those held and id.
Meet(s, id) ==
    /\ id \notin visited[s]
    /\ visited' = [visited EXCEPT ![s] = @ \cup {id}]
    /\ \/ UNCHANGED <<queue, best>>
       \/ /\ queue' = [queue EXCEPT ![s] = @ \cup {id}]
          /\ \E kept \in SUBSET (best[s] \cup {id}) :
                /\ Cardinality(kept) <= width[s]
                /\ best' = [best EXCEPT ![s] = kept]
    /\ UNCHANGED width

Expand(s, id) ==
    /\ id \in queue[s]
    /\ queue' = [queue EXCEPT ![s] = @ \ {id}]
    /\ UNCHANGED <<visited, best, width>>

Next ==
    \E s \in Search :
        \/ \E ef \in Widths \cup {0} : Start(s, ef)
        \/ \E id \in Id : Meet(s, id) \/ Expand(s, id)

Spec == Init /\ [][Next]_vars

=============================================================================
