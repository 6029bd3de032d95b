----------------------------- MODULE FlatSearch -----------------------------
(***************************************************************************)
(* Flat.Search and Flat.SearchN: the exact scan that ground truth comes    *)
(* from, on one goroutine or split over several (src/internal/index/       *)
(* flat.go), with the topk.Collector each of them fills.                   *)
(*                                                                         *)
(* One call is modelled: a Flat never changes, and a call shares nothing   *)
(* with another one.  A collector is the set of rows it holds; Results     *)
(* sorts them by Before, which is total, so the set determines the list.   *)
(***************************************************************************)
EXTENDS Integers, FiniteSets

CONSTANTS
    Count,     \* number of vectors stored
    Query,     \* the vectors it may be asked about
    Dist,      \* Dist[<<q, i>>]: L2Squared of query q and row i
    K,         \* neighbours asked for; check refuses less than 1
    Workers    \* goroutines asked for, any integer

Row == 0 .. Count - 1

ASSUME FlatAssumption ==
    /\ Count \in Nat
    /\ Dist \in [Query \X Row -> Nat]
    /\ K \in Nat \ {0}
    /\ Workers \in Int

\* topk.Before with both results measured from q.
Before(q, a, b) ==
    \/ Dist[<<q, a>>] < Dist[<<q, b>>]
    \/ Dist[<<q, a>>] = Dist[<<q, b>>] /\ a < b

\* More than one goroutine is used only if each gets a row.
Split == Workers >= 2 /\ Count >= Workers
Hands == IF Split THEN Workers ELSE 1
Hand == 0 .. Hands - 1

Least(a, b) == IF a < b THEN a ELSE b

Chunk == Count \div Hands
Extra == Count % Hands
Wanted == Least(K, Count)

\* The rows hand w gets; "spread the remainder over the first few workers".
\* A mistake that forgets the remainder comes first.
SizeNoRemainder(w) == Chunk
Size(w) == IF w < Extra THEN Chunk + 1 ELSE Chunk

VARIABLES
    query,      \* the argument of the call
    launched,   \* how many goroutines the loop has started
    start,      \* where the next one will start scanning
    lo, hi,     \* the rows each one got
    at,         \* the row each one scans next
    held,       \* its collector
    partials,   \* the results it left for the merge
    finished,   \* the goroutines that are done
    given,      \* the rows offered to the merging collector ...
    merged,     \* ... and those it holds
    answer,     \* what the call returns
    returned

vars == <<query, launched, start, lo, hi, at, held, partials, finished, given,
          merged, answer, returned>>

Init ==
    /\ query \in Query
    /\ launched = 0 /\ start = 0
    /\ lo = [w \in Hand |-> 0] /\ hi = [w \in Hand |-> 0]
    /\ at = [w \in Hand |-> 0]
    /\ held = [w \in Hand |-> {}]
    /\ partials = [w \in Hand |-> {}]
    /\ finished = {}
    /\ given = {} /\ merged = {}
    /\ answer = {} /\ returned = FALSE

-----------------------------------------------------------------------------

\* The capacity of hand w's collector.  Too small a share of the results first.
RoomShared(w) == LET share == Wanted \div Hands IN IF share < 1 THEN 1 ELSE share
Room(w) ==
    LET k == Least(Wanted, hi[w] - lo[w]) IN IF k < 1 THEN 1 ELSE k

\* Adding row x to a collector of capacity k that holds H may leave it with T:
\* its root, the worst of those held, makes way for a better one.
Takes(H, k, x, T) ==
    \/ Cardinality(H) < k /\ T = H \cup {x}
    \/ /\ Cardinality(H) >= k
       /\ \E worst \in H :
            /\ \A h \in H \ {worst} : Before(query, h, worst)
            /\ T = IF Before(query, x, worst) THEN (H \ {worst}) \cup {x} ELSE H

\* A mistake: the wait group counts every worker, the loop starts one less.
LaunchOneShort ==
    /\ launched < Hands - 1
    /\ lo' = [lo EXCEPT ![launched] = start]
    /\ hi' = [hi EXCEPT ![launched] = start + Size(launched)]
    /\ at' = [at EXCEPT ![launched] = start]
    /\ start' = start + Size(launched)
    /\ launched' = launched + 1
    /\ UNCHANGED <<query, held, partials, finished, given, merged, answer, returned>>

\* The loop hands the next rows to a new goroutine.
Launch ==
    /\ launched < Hands
    /\ lo' = [lo EXCEPT ![launched] = start]
    /\ hi' = [hi EXCEPT ![launched] = start + Size(launched)]
    /\ at' = [at EXCEPT ![launched] = start]
    /\ start' = start + Size(launched)
    /\ launched' = launched + 1
    /\ UNCHANGED <<query, held, partials, finished, given, merged, answer, returned>>

\* scan: hand w measures a row and offers it to its own collector.
Scan(w) ==
    /\ w < launched /\ at[w] < hi[w]
    /\ \E T \in SUBSET (held[w] \cup {at[w]}) :
        /\ Takes(held[w], Room(w), at[w], T)
        /\ held' = [held EXCEPT ![w] = T]
    /\ at' = [at EXCEPT ![w] = @ + 1]
    /\ UNCHANGED <<query, launched, start, lo, hi, partials, finished, given, merged,
                   answer, returned>>

\* Hand w leaves its results where the merge will look for them.
Publish(w) ==
    /\ w < launched /\ at[w] = hi[w] /\ w \notin finished
    /\ partials' = [partials EXCEPT ![w] = held[w]]
    /\ finished' = finished \cup {w}
    /\ UNCHANGED <<query, launched, start, lo, hi, at, held, given, merged, answer, returned>>

\* wg.Wait lets the caller go on; forgetting the goroutines first.
AllLaunched == launched = Hands
Waited == launched = Hands /\ finished = Hand

\* The merge reads the partial results by worker, the nearest first.
Merge ==
    /\ Split /\ Waited
    /\ \E w \in Hand :
        LET left == partials[w] \ given IN
        /\ \A v \in Hand : v < w => partials[v] \subseteq given
        /\ \E r \in left, T \in SUBSET (merged \cup left) :
            /\ \A s \in left \ {r} : Before(query, r, s)
            /\ Takes(merged, Wanted, r, T)
            /\ merged' = T
            /\ given' = given \cup {r}
    /\ UNCHANGED <<query, launched, start, lo, hi, at, held, partials, finished, answer,
                   returned>>

\* SearchN returns the merged results, Search those of its only collector.
Return ==
    /\ ~returned /\ Waited
    /\ Split => \A w \in Hand : partials[w] \subseteq given
    /\ answer' = IF Split THEN merged ELSE partials[0]
    /\ returned' = TRUE
    /\ UNCHANGED <<query, launched, start, lo, hi, at, held, partials, finished, given, merged>>

Caller == Launch \/ Merge \/ Return
Goroutine(w) == Scan(w) \/ Publish(w)

Next == Caller \/ (\E w \in Hand : Goroutine(w)) \/ (returned /\ UNCHANGED vars)

\* Nothing blocks but wg.Wait, so every goroutine and the caller keep running.
Fairness == WF_vars(Caller) /\ \A w \in Hand : WF_vars(Goroutine(w))

Spec == Init /\ [][Next]_vars /\ Fairness

-----------------------------------------------------------------------------

TypeOK ==
    /\ query \in Query
    /\ launched \in 0 .. Hands
    /\ start \in Nat
    /\ lo \in [Hand -> Nat] /\ hi \in [Hand -> Nat] /\ at \in [Hand -> Nat]
    /\ held \in [Hand -> SUBSET Row]
    /\ partials \in [Hand -> SUBSET Row]
    /\ finished \subseteq Hand
    /\ given \subseteq Row /\ merged \subseteq Row /\ answer \subseteq Row
    /\ returned \in BOOLEAN

\* The k nearest rows of the dataset, by the definition of nearest.
Nearest(k) == { r \in Row : Cardinality({ s \in Row : Before(query, s, r) }) < k }

\* However the goroutines interleave, SearchN "returns exactly what Search
\* returns": the k nearest rows, or all of them if there are fewer.
Exact == returned => answer = Nearest(K)

\* The goroutines scan every row, and no row twice.
Tiled ==
    launched = Hands =>
        \A r \in Row : \E w \in Hand :
            /\ lo[w] <= r /\ r < hi[w]
            /\ \A v \in Hand \ {w} : ~(lo[v] <= r /\ r < hi[v])

\* Every call returns.
Answers == <>returned

-----------------------------------------------------------------------------
\* What the proofs rest on.

\* H is what a collector of capacity k holds after being offered S.
IsBest(H, S, k) ==
    /\ H \subseteq S
    /\ Cardinality(H) = k \/ (H = S /\ Cardinality(H) <= k)
    /\ \A h \in H, s \in S \ H : Before(query, h, s)

\* Where hand w is to start.
Begin(w) == w * Chunk + Least(w, Extra)

Spans ==
    /\ start = Begin(launched)
    /\ \A w \in Hand : w < launched =>
        /\ at[w] \in lo[w] .. hi[w] /\ hi[w] <= start
        /\ \A v \in Hand : v < w => hi[v] <= lo[w]
    /\ \A r \in Row : r < start =>
        \E w \in Hand : w < launched /\ lo[w] <= r /\ r < hi[w]

Scanned(w) == lo[w] .. at[w] - 1

Collected ==
    \A w \in Hand : IF w < launched THEN IsBest(held[w], Scanned(w), Room(w))
                                    ELSE held[w] = {} /\ w \notin finished

Published ==
    \A w \in Hand : IF w \in finished THEN at[w] = hi[w] /\ partials[w] = held[w]
                                      ELSE partials[w] = {}

Merged ==
    /\ given \subseteq UNION { partials[w] : w \in Hand }
    /\ given # {} => Split /\ Waited
    /\ IsBest(merged, given, Wanted)

Answered ==
    returned =>
        /\ Waited
        /\ Split => \A w \in Hand : partials[w] \subseteq given
        /\ answer = IF Split THEN merged ELSE partials[0]

IInv == TypeOK /\ Spans /\ Collected /\ Published /\ Merged /\ Answered

=============================================================================
