---------------------------- MODULE MCIndexCache ----------------------------
(***************************************************************************)
(* Small instances of IndexCache: indexes of one dataset, with settings    *)
(* that make the files of different lengths, or that cannot be stored.     *)
(***************************************************************************)
EXTENDS IndexCache, TLC

CONSTANTS r1, r2, r3

Two == {r1, r2}
Three == {r1, r2, r3}
Single == {r3}

Indexes == [data : {"sift"}, settings : {"default", "wide", "absurd"}]
Absurd == { x \in Indexes : x.settings = "absurd" }
Storable == Indexes \ Absurd
Blocks == [x \in Index |-> IF x.settings = "wide" THEN 4 ELSE 3]

=============================================================================
