------------------------------ MODULE Workspace ------------------------------
(***************************************************************************)
(* The scratch space of a search and the sync.Pool it is borrowed from     *)
(* (src/internal/index/workspace.go, and its users insertAt, Search and    *)
(* searchLayer in hnsw.go).                                                *)
(*                                                                         *)
(* A workspace outlives a search.  A node counts as seen if its stamp is   *)
(* the workspace's current epoch, so that a new search only has to advance *)
(* the epoch; the 16-bit epoch wraps, after which every stamp is cleared.  *)
(* The candidates and the result collector are kept and reset as well.     *)
(* LayerSearch is what the searches must be able to take for granted.      *)
(***************************************************************************)
EXTENDS Integers, FiniteSets

CONSTANTS
    Space,      \* the workspaces there may be at one time
    Search,     \* the goroutines that search
    Sizes,      \* the node counts begin is called with
    Widths,     \* the values of ef begin is called with
    MaxEpoch,   \* the largest epoch: 2^16 - 1 in the code
    None

ASSUME WorkspaceAssumption ==
    /\ Sizes \subseteq Nat \ {0}
    /\ Widths \subseteq Nat \ {0}
    /\ MaxEpoch \in Nat \ {0}
    /\ None \notin Space

VARIABLES
    stamp,    \* stamp[p][id]; 0 for a slot the slice does not have
    size,     \* len(stamp)
    epoch,
    cand,     \* the nodes still to be examined
    res,      \* the results held ...
    cap,      \* ... and the capacity of the collector, 0 while it is nil
    pool,     \* the workspaces in the sync.Pool
    holder,   \* holder[s]: the workspace s has borrowed
    nodes,    \* the arguments of the search s is in, both 0 if it has not
    ef        \* begun one with the workspace it holds

vars == <<stamp, size, epoch, cand, res, cap, pool, holder, nodes, ef>>

Id == UNION { 0 .. n - 1 : n \in Sizes }

Init ==
    /\ stamp = [p \in Space |-> [i \in Id |-> 0]]
    /\ size = [p \in Space |-> 0]
    /\ epoch = [p \in Space |-> 0]
    /\ cand = [p \in Space |-> {}]
    /\ res = [p \in Space |-> {}]
    /\ cap = [p \in Space |-> 0]
    /\ pool = {}
    /\ holder = [s \in Search |-> None]
    /\ nodes = [s \in Search |-> 0]
    /\ ef = [s \in Search |-> 0]

\* pool.Get with a workspace that was put back: it comes as it was left.
Get(s) ==
    /\ holder[s] = None
    /\ \E p \in pool :
        /\ pool' = pool \ {p}
        /\ holder' = [holder EXCEPT ![s] = p]
    /\ UNCHANGED <<stamp, size, epoch, cand, res, cap, nodes, ef>>

\* pool.Get with nothing to hand out: newWorkspace makes one.  A workspace
\* that neither the pool nor a search refers to any more stands for the memory.
New(s) ==
    /\ holder[s] = None
    /\ \E p \in Space \ pool, n \in Sizes :
        /\ \A t \in Search : holder[t] # p
        /\ holder' = [holder EXCEPT ![s] = p]
        /\ stamp' = [stamp EXCEPT ![p] = [i \in Id |-> 0]]
        /\ size' = [size EXCEPT ![p] = n]
        /\ epoch' = [epoch EXCEPT ![p] = 0]
        /\ cand' = [cand EXCEPT ![p] = {}]
        /\ res' = [res EXCEPT ![p] = {}]
        /\ cap' = [cap EXCEPT ![p] = 0]
    /\ UNCHANGED <<pool, nodes, ef>>

\* begin's stamps and epoch for a search over n nodes, given those it finds;
\* first without the clearing when the epoch wraps, and clearing only the
\* slots of this search.
NextEpoch(p, n) ==
    LET e == IF size[p] < n THEN 0 ELSE epoch[p]
    IN IF e = MaxEpoch THEN 0 ELSE e + 1   \* uint16: the increment wraps
EpochAfter(p, n) == IF NextEpoch(p, n) = 0 THEN 1 ELSE NextEpoch(p, n)
StampsNeverCleared(p, n) ==
    IF size[p] < n THEN [i \in Id |-> 0] ELSE stamp[p]
StampsClearedBelow(p, n) ==
    IF size[p] < n THEN [i \in Id |-> 0]
    ELSE [i \in Id |-> IF NextEpoch(p, n) = 0 /\ i < n THEN 0 ELSE stamp[p][i]]
StampsAfter(p, n) ==
    IF size[p] < n \/ NextEpoch(p, n) = 0 THEN [i \in Id |-> 0] ELSE stamp[p]

\* What begin leaves in the collector: it is reset, or replaced if it has not
\* the capacity wanted; a mistake that keeps whatever collector there is first.
CapKept(p, k) == IF cap[p] = 0 THEN k ELSE cap[p]
CapAfter(p, k) == k

\* begin, at the head of every searchLayer.
Begin(s) ==
    LET p == holder[s] IN
    /\ p # None
    /\ \E n \in Sizes, k \in Widths :
        /\ nodes' = [nodes EXCEPT ![s] = n]
        /\ ef' = [ef EXCEPT ![s] = k]
        /\ size' = [size EXCEPT ![p] = IF @ < n THEN n ELSE @]
        /\ stamp' = [stamp EXCEPT ![p] = StampsAfter(p, n)]
        /\ epoch' = [epoch EXCEPT ![p] = EpochAfter(p, n)]
        /\ cap' = [cap EXCEPT ![p] = CapAfter(p, k)]
    /\ cand' = [cand EXCEPT ![p] = {}]
    /\ res' = [res EXCEPT ![p] = {}]
    /\ UNCHANGED <<pool, holder>>

Seen(p, i) == stamp[p][i] = epoch[p]

\* searchLayer meets a node it has not seen: it marks it and either turns it
\* away or queues it, and offers it to the collector unless it is the one to
\* be skipped.
Meet(s, i) ==
    LET p == holder[s] IN
    /\ p # None /\ i < nodes[s]
    /\ ~Seen(p, i)
    /\ stamp' = [stamp EXCEPT ![p][i] = epoch[p]]
    /\ \/ UNCHANGED <<cand, res>>
       \/ /\ cand' = [cand EXCEPT ![p] = @ \cup {i}]
          /\ \/ UNCHANGED res
             \/ /\ Cardinality(res[p]) < cap[p]
                /\ res' = [res EXCEPT ![p] = @ \cup {i}]
             \/ /\ Cardinality(res[p]) >= cap[p]
                /\ \E out \in res[p] : res' = [res EXCEPT ![p] = (@ \ {out}) \cup {i}]
    /\ UNCHANGED <<size, epoch, cap, pool, holder, nodes, ef>>

\* searchLayer pops the next node to expand.  It may as well stop and leave
\* candidates behind.
Pop(s) ==
    LET p == holder[s] IN
    /\ p # None /\ nodes[s] > 0
    /\ \E i \in cand[p] : cand' = [cand EXCEPT ![p] = @ \ {i}]
    /\ UNCHANGED <<stamp, size, epoch, res, cap, pool, holder, nodes, ef>>

\* A mistake: the workspace goes back while the search still uses it.
PutEarly(s) ==
    /\ holder[s] # None
    /\ pool' = pool \cup {holder[s]}
    /\ UNCHANGED <<stamp, size, epoch, cand, res, cap, holder, nodes, ef>>

\* pool.Put, at the end of Search and insertAt; nothing is cleaned up.  The answer
\* was copied out of the collector before, so no step of the search follows.
Put(s) ==
    /\ holder[s] # None
    /\ pool' = pool \cup {holder[s]}
    /\ holder' = [holder EXCEPT ![s] = None]
    /\ nodes' = [nodes EXCEPT ![s] = 0]
    /\ ef' = [ef EXCEPT ![s] = 0]
    /\ UNCHANGED <<stamp, size, epoch, cand, res, cap>>

\* The garbage collector empties a sync.Pool at will.
Drop ==
    /\ \E p \in pool : pool' = pool \ {p}
    /\ UNCHANGED <<stamp, size, epoch, cand, res, cap, holder, nodes, ef>>

Next ==
    \/ Drop
    \/ \E s \in Search :
        \/ Get(s) \/ New(s) \/ Begin(s) \/ Pop(s) \/ Put(s)
        \/ \E i \in Id : Meet(s, i)

Spec == Init /\ [][Next]_vars

-----------------------------------------------------------------------------

TypeOK ==
    /\ stamp \in [Space -> [Id -> 0 .. MaxEpoch]]
    /\ size \in [Space -> Nat]
    /\ epoch \in [Space -> 0 .. MaxEpoch]
    /\ cand \in [Space -> SUBSET Id]
    /\ res \in [Space -> SUBSET Id]
    /\ cap \in [Space -> Nat]
    /\ pool \subseteq Space
    /\ holder \in [Search -> Space \cup {None}]
    /\ nodes \in [Search -> Sizes \cup {0}]
    /\ ef \in [Search -> Widths \cup {0}]

\* A borrowed workspace is its borrower's alone: "this can't be shared".  It is
\* about steps that need the workspace, up to Put; that what a search returns is
\* no view of the workspace is how the code is written, and no state shows it.
Unshared ==
    \A s, t \in Search : holder[s] # None =>
        /\ holder[s] \notin pool
        /\ holder[s] = holder[t] => s = t

\* No stamp is from the future, in a workspace at rest either: the next search
\* to borrow it, after any number of wraps, takes no old stamp for its own.
StampsPast == \A p \in Space, i \in Id : stamp[p][i] <= epoch[p]

\* While a search is under way its workspace holds its own work only, and the
\* collector has the capacity this search asked for.
OwnWork ==
    \A s \in Search : nodes[s] > 0 =>
        LET p == holder[s] IN
        /\ p # None /\ cap[p] = ef[s]
        /\ \A i \in cand[p] \cup res[p] : i < nodes[s] /\ Seen(p, i)
        /\ IsFiniteSet(res[p]) /\ Cardinality(res[p]) <= cap[p]

IInv == TypeOK /\ Unshared /\ StampsPast /\ OwnWork

\* What the search that s is in has seen, queued and kept; nothing outside a search.
SeenBy(s) == { i \in Id : nodes[s] > 0 /\ i < nodes[s] /\ Seen(holder[s], i) }
QueueOf(s) == IF nodes[s] > 0 THEN cand[holder[s]] ELSE {}
BestOf(s) == IF nodes[s] > 0 THEN res[holder[s]] ELSE {}

\* Searches that take turns with recycled workspaces behave as if each had
\* fresh ones: seen answers exactly what this search has marked.
Fresh == INSTANCE LayerSearch WITH
    visited <- [s \in Search |-> SeenBy(s)],
    queue <- [s \in Search |-> QueueOf(s)],
    best <- [s \in Search |-> BestOf(s)],
    width <- ef
SearchesIndependent == Fresh!Spec

=============================================================================
