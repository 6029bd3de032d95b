------------------------------ MODULE Assembly ------------------------------
(***************************************************************************)
(* What BuildHNSW promises its caller about the top of the index, whatever *)
(* the number of goroutines: the nodes are inserted one after the other,   *)
(* each exactly once and in some order; searches always start from a node  *)
(* that was inserted and that no node inserted so far is taller than; and  *)
(* the index is handed over when every node is in.                         *)
(***************************************************************************)
EXTENDS Integers

CONSTANTS Node, Heights   \* the nodes, and the height assignments possible

VARIABLES height, placed, start, done

vars == <<height, placed, start, done>>

Init ==
    /\ height \in Heights
    /\ placed = {0}
    /\ start = 0
    /\ done = FALSE

\* x is in; it becomes the start if it is taller than the one there was.
Place(x) ==
    /\ x \notin placed
    /\ placed' = placed \cup {x}
    /\ start' = IF height[x] > height[start] THEN x ELSE start
    /\ UNCHANGED <<height, done>>

HandOver ==
    /\ placed = Node
    /\ done' = TRUE
    /\ UNCHANGED <<height, placed, start>>

Next == (\E x \in Node : Place(x)) \/ HandOver

Spec == Init /\ [][Next]_vars /\ WF_vars(Next)

=============================================================================
