---------------------------- MODULE MCFlatSearch ----------------------------
(***************************************************************************)
(* Small instances of FlatSearch.  A query stands for the distances it has *)
(* to the rows, so that every pattern of near, far and equal ones occurs.  *)
(***************************************************************************)
EXTENDS FlatSearch

CONSTANT Farthest   \* bound: no distance is larger

AnyDistances == [Row -> 0 .. Farthest]
MCDist == [p \in Query \X Row |-> p[1][p[2]]]

=============================================================================
