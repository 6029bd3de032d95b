------------------------------ MODULE MCQuery ------------------------------
(***************************************************************************)
(* Small instances of QueryHeaps: six nodes and one caller.  Calls have only *)
(* efSearch in common, which may be set at any time.                       *)
(***************************************************************************)
EXTENDS QueryHeaps

CONSTANT c1

MCClient == {c1}

\* One row of distances for each query: the nodes in order and against it, with
\* ties, mixed, with one node that has NaN in it, and a query full of NaN.
Rows == <<
    <<0, 1, 2, 3, 4, 5>>,
    <<5, 4, 3, 2, 1, 0>>,
    <<2, 2, 1, 1, 3, 1>>,
    <<3, 0, 4, 1, 5, 2>>,
    <<4, 0, 3, 5, 1, 2>>,
    <<0, 0, 0, 0, 0, 0>> >>
MCDist == [p \in Node \X Node |-> Rows[p[1] + 1][p[2] + 1]]
MCUndefined == {<<4, 0>>} \cup ({5} \X Node)

AnIndex(level, entry, bottom, upper) ==
    [level |-> [n \in Node |-> IF n \in level THEN 1 ELSE 0],
     entry |-> entry,
     lists |-> [n \in Node |-> [l \in Layer |->
                    IF l = 0 THEN bottom[n + 1]
                    ELSE IF n \in DOMAIN upper THEN upper[n] ELSE <<>>]]]

\* Everything linked to everything; a ring with a shortcut under a layer of
\* three; and lists that pruning has left one-way, so that not all is reached.
MCIndexes == {
    AnIndex({2}, 2,
        << <<5, 4, 3, 2, 1>>, <<0, 2, 3, 4, 5>>, <<5, 0, 4, 1, 3>>,
           <<0, 1, 2, 4, 5>>, <<5, 3, 1, 2, 0>>, <<4, 3, 2, 1, 0>> >>,
        [n \in {} |-> <<>>]),
    AnIndex({0, 3, 5}, 0,
        << <<1, 5>>, <<0, 2, 4>>, <<3, 1>>, <<2, 4>>, <<5, 3, 1>>, <<4, 0>> >>,
        [n \in {0, 3, 5} |-> IF n = 0 THEN <<3, 5>> ELSE <<0>>]),
    AnIndex({1, 4}, 4,
        << <<2>>, <<0, 3>>, <<0, 3>>, <<2, 0>>, <<1, 5>>, <<>> >>,
        [n \in {1, 4} |-> IF n = 4 THEN <<1>> ELSE <<>>]) }

MCWidths == {0, 2, 4, 9}
MCAsks == (Node \X {1, 3}) \cup {<<3, 8>>}

=============================================================================
