---------------------------- MODULE MCBenchmark ----------------------------
(***************************************************************************)
(* A small instance of Benchmark: two runs of the subset command, with two *)
(* settings, over a source of three vectors.                               *)
(***************************************************************************)
EXTENDS Benchmark

CONSTANTS r1, r2

MCRun == {r1, r2}
\* One is of fewer queries with more answers; two differ in the vectors only.
MCSettings ==
    { [base |-> 3, queries |-> 2, k |-> 2], [base |-> 2, queries |-> 2, k |-> 2],
      [base |-> 3, queries |-> 1, k |-> 3] }

\* A query whose nearest two are the first two vectors, and one for which not.
Rows == << <<0, 1, 2>>, <<1, 2, 0>>, <<0, 0, 0>> >>
MCDist == [p \in Node \X Node |-> Rows[p[1] + 1][p[2] + 1]]

MCEfs == <<1, 2>>
MCElapses == {-1, 0, 5}

=============================================================================
