---------------------------- MODULE MCWorkspace ----------------------------
(***************************************************************************)
(* Small instances of Workspace: a two-bit epoch instead of a 16-bit one,  *)
(* so that it wraps every third search.                                    *)
(***************************************************************************)
EXTENDS Workspace, TLC

CONSTANTS p1, p2, s1, s2

Spaces == {p1, p2}
Searches == {s1, s2}
Alike == Permutations(Spaces) \cup Permutations(Searches)

Counts == {1, 2}

=============================================================================
