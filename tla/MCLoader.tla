------------------------------ MODULE MCLoader ------------------------------
(***************************************************************************)
(* Small instances of Loader: three-bit words, of which four are IDs that  *)
(* int32 would make negative, and indexes of up to two nodes and layers.   *)
(***************************************************************************)
EXTENDS Loader

\* Every word where a check could go wrong by one, or by the sign.
EdgeHeaders ==
    [dim : 0 .. 4, count : {0, 1, 2, 3, 4, 6}, m : {1, 2}, mMax : {1, 2}, mMax0 : {1, 3},
     efConstruct : {1, 2}, maxLevel : 0 .. 2, entry : {0, 1, 7}, flags : {0, 1, 2, 4}]

=============================================================================
