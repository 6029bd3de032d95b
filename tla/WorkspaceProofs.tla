--------------------------- MODULE WorkspaceProofs ---------------------------
(***************************************************************************)
(* Searches with recycled workspaces behave as if each had fresh ones,     *)
(* whatever the number of searches, workspaces and nodes and the width of  *)
(* the epoch.                                                              *)
(***************************************************************************)
EXTENDS Workspace, FiniteSetTheorems, TLAPS

USE WorkspaceAssumption

-----------------------------------------------------------------------------
(* begin.                                                                  *)

\* The new epoch is in range and later than every stamp that is left.
LEMMA EpochAdvances ==
    ASSUME TypeOK, StampsPast, NEW p \in Space, NEW n \in Sizes
    PROVE  /\ EpochAfter(p, n) \in 1 .. MaxEpoch
           /\ StampsAfter(p, n) \in [Id -> 0 .. MaxEpoch]
           /\ \A i \in Id : StampsAfter(p, n)[i] < EpochAfter(p, n)
<1>1. /\ epoch[p] \in 0 .. MaxEpoch /\ size[p] \in Nat /\ n \in Nat
      /\ stamp[p] \in [Id -> 0 .. MaxEpoch]
      /\ \A i \in Id : stamp[p][i] <= epoch[p]
  BY DEF TypeOK, StampsPast
<1>2. CASE size[p] < n
  BY <1>1, <1>2 DEF EpochAfter, StampsAfter, NextEpoch
<1>3. CASE ~(size[p] < n) /\ epoch[p] = MaxEpoch
  BY <1>1, <1>3 DEF EpochAfter, StampsAfter, NextEpoch
<1>4. CASE ~(size[p] < n) /\ epoch[p] # MaxEpoch
  <2>1. NextEpoch(p, n) = epoch[p] + 1 /\ epoch[p] + 1 # 0
    BY <1>1, <1>4 DEF NextEpoch
  <2>2. EpochAfter(p, n) = epoch[p] + 1 /\ StampsAfter(p, n) = stamp[p]
    BY <1>4, <2>1 DEF EpochAfter, StampsAfter
  <2> QED
    BY <1>1, <1>4, <2>2
<1> QED
  BY <1>2, <1>3, <1>4

\* begin leaves nothing of the search before.
LEMMA BeginFresh ==
    ASSUME IInv, NEW s \in Search, Begin(s)
    PROVE  /\ holder[s] \in Space
           /\ \E n \in Sizes, k \in Widths :
                /\ nodes' = [nodes EXCEPT ![s] = n]
                /\ ef' = [ef EXCEPT ![s] = k]
                /\ cap' = [cap EXCEPT ![holder[s]] = k]
                /\ size'[holder[s]] \in Nat
           /\ size' = [size EXCEPT ![holder[s]] = size'[holder[s]]]
           /\ epoch' = [epoch EXCEPT ![holder[s]] = epoch'[holder[s]]]
           /\ stamp' = [stamp EXCEPT ![holder[s]] = stamp'[holder[s]]]
           /\ epoch'[holder[s]] \in 0 .. MaxEpoch
           /\ stamp'[holder[s]] \in [Id -> 0 .. MaxEpoch]
           /\ \A i \in Id : stamp'[holder[s]][i] < epoch'[holder[s]]
           /\ cand' = [cand EXCEPT ![holder[s]] = {}]
           /\ res' = [res EXCEPT ![holder[s]] = {}]
           /\ UNCHANGED <<pool, holder>>
<1> DEFINE p == holder[s]
<1>1. p \in Space /\ TypeOK /\ StampsPast
  BY DEF Begin, IInv, TypeOK
<1>2. PICK n \in Sizes, k \in Widths :
        /\ nodes' = [nodes EXCEPT ![s] = n]
        /\ ef' = [ef EXCEPT ![s] = k]
        /\ size' = [size EXCEPT ![p] = IF @ < n THEN n ELSE @]
        /\ stamp' = [stamp EXCEPT ![p] = StampsAfter(p, n)]
        /\ epoch' = [epoch EXCEPT ![p] = EpochAfter(p, n)]
        /\ cap' = [cap EXCEPT ![p] = k]
  BY DEF Begin, CapAfter
<1>3. /\ EpochAfter(p, n) \in 1 .. MaxEpoch
      /\ StampsAfter(p, n) \in [Id -> 0 .. MaxEpoch]
      /\ \A i \in Id : StampsAfter(p, n)[i] < EpochAfter(p, n)
  BY <1>1, EpochAdvances
<1>4. /\ stamp'[p] = StampsAfter(p, n) /\ epoch'[p] = EpochAfter(p, n)
      /\ size'[p] = IF size[p] < n THEN n ELSE size[p]
  BY <1>1, <1>2 DEF TypeOK
<1>5. size'[p] \in Nat
  BY <1>1, <1>4 DEF TypeOK
<1>6. /\ size' = [size EXCEPT ![p] = size'[p]]
      /\ epoch' = [epoch EXCEPT ![p] = epoch'[p]]
      /\ stamp' = [stamp EXCEPT ![p] = stamp'[p]]
  BY <1>2, <1>4
<1>7. epoch'[p] \in 0 .. MaxEpoch /\ stamp'[p] \in [Id -> 0 .. MaxEpoch]
      /\ \A i \in Id : stamp'[p][i] < epoch'[p]
  BY <1>3, <1>4
<1> QED
  BY <1>1, <1>2, <1>5, <1>6, <1>7 DEF Begin

LEMMA BeginKeeps == ASSUME IInv, NEW s \in Search, Begin(s) PROVE IInv'
<1> DEFINE p == holder[s]
<1>0. PICK n \in Sizes, k \in Widths :
        /\ nodes' = [nodes EXCEPT ![s] = n]
        /\ ef' = [ef EXCEPT ![s] = k]
        /\ cap' = [cap EXCEPT ![p] = k]
        /\ size'[p] \in Nat
  BY BeginFresh
<1>1. p \in Space /\ p # None
  BY BeginFresh
<1>2. TypeOK'
  <2>1. TypeOK
    BY DEF IInv
  <2>2. nodes' \in [Search -> Sizes \cup {0}] /\ ef' \in [Search -> Widths \cup {0}]
    BY <1>0, <2>1 DEF TypeOK
  <2>3. cap' \in [Space -> Nat]
    BY <1>0, <2>1, WorkspaceAssumption DEF TypeOK
  <2>4. size' \in [Space -> Nat] /\ epoch' \in [Space -> 0 .. MaxEpoch]
    BY <1>0, <2>1, BeginFresh DEF TypeOK
  <2>5. stamp' \in [Space -> [Id -> 0 .. MaxEpoch]]
    BY <2>1, BeginFresh DEF TypeOK
  <2>6. cand' \in [Space -> SUBSET Id] /\ res' \in [Space -> SUBSET Id]
    BY <2>1, BeginFresh DEF TypeOK
  <2>7. pool' \subseteq Space /\ holder' \in [Search -> Space \cup {None}]
    BY <2>1, BeginFresh DEF TypeOK
  <2> QED
    BY <2>2, <2>3, <2>4, <2>5, <2>6, <2>7 DEF TypeOK
<1>3. Unshared'
  BY BeginFresh DEF IInv, Unshared
<1>4. StampsPast'
  <2> SUFFICES ASSUME NEW r \in Space, NEW i \in Id PROVE stamp'[r][i] <= epoch'[r]
    BY DEF StampsPast
  <2>1. CASE r = p
    BY <1>2, <2>1, BeginFresh DEF TypeOK
  <2>2. CASE r # p
    BY <2>2, BeginFresh DEF IInv, StampsPast, TypeOK
  <2> QED
    BY <2>1, <2>2
<1>5. OwnWork'
  <2> SUFFICES ASSUME NEW t \in Search, nodes'[t] > 0
               PROVE  /\ holder'[t] # None /\ cap'[holder'[t]] = ef'[t]
                      /\ \A i \in cand'[holder'[t]] \cup res'[holder'[t]] :
                            i < nodes'[t] /\ stamp'[holder'[t]][i] = epoch'[holder'[t]]
                      /\ IsFiniteSet(res'[holder'[t]])
                      /\ Cardinality(res'[holder'[t]]) <= cap'[holder'[t]]
    BY DEF OwnWork, Seen
  <2>1. CASE t = s
    <3>1. holder'[t] = p /\ cand'[p] = {} /\ res'[p] = {} /\ cap'[p] = k /\ ef'[t] = k
      BY <1>0, <1>1, <2>1, BeginFresh DEF IInv, TypeOK
    <3>2. IsFiniteSet({}) /\ Cardinality({}) = 0 /\ k >= 0
      BY FS_EmptySet
    <3> QED
      BY <1>1, <3>1, <3>2
  <2>2. CASE t # s
    <3>1. nodes'[t] = nodes[t] /\ ef'[t] = ef[t] /\ holder'[t] = holder[t]
      BY <1>0, <2>2, BeginFresh DEF IInv, TypeOK
    <3>2. holder[t] # p /\ holder[t] \in Space
      BY <1>1, <2>2, <3>1 DEF IInv, Unshared, OwnWork, TypeOK
    <3>3. /\ cap'[holder[t]] = cap[holder[t]] /\ cand'[holder[t]] = cand[holder[t]]
          /\ res'[holder[t]] = res[holder[t]] /\ stamp'[holder[t]] = stamp[holder[t]]
          /\ epoch'[holder[t]] = epoch[holder[t]]
      BY <1>0, <3>2, BeginFresh DEF IInv, TypeOK
    <3> QED
      BY <3>1, <3>3 DEF IInv, OwnWork, Seen
  <2> QED
    BY <2>1, <2>2
<1> QED
  BY <1>2, <1>3, <1>4, <1>5 DEF IInv

-----------------------------------------------------------------------------
(* Small facts.                                                            *)

LEMMA IdNat == Id \subseteq Nat
BY DEF Id

LEMMA AddOne ==
    ASSUME NEW S, NEW x, IsFiniteSet(S)
    PROVE  /\ IsFiniteSet(S \cup {x})
           /\ Cardinality(S) \in Nat /\ Cardinality(S \cup {x}) \in Nat
           /\ Cardinality(S \cup {x}) <= Cardinality(S) + 1
<1>1. /\ IsFiniteSet(S \cup {x})
      /\ \/ Cardinality(S \cup {x}) = Cardinality(S)
         \/ Cardinality(S \cup {x}) = Cardinality(S) + 1
  BY FS_AddElement
<1>2. Cardinality(S) \in Nat /\ Cardinality(S \cup {x}) \in Nat
  BY <1>1, FS_CardinalityType
<1> QED
  BY <1>1, <1>2

LEMMA Idlers ==
    ASSUME TypeOK, OwnWork, NEW s \in Search
    PROVE  nodes[s] \in Nat /\ (holder[s] = None => nodes[s] = 0)
<1>1. nodes[s] \in Nat
  <2>1. nodes[s] \in Sizes \cup {0}
    BY DEF TypeOK
  <2>2. \A n \in Sizes \cup {0} : n \in Nat
    OBVIOUS
  <2> QED
    BY <2>1, <2>2
<1>2. nodes[s] > 0 => holder[s] # None
  BY DEF OwnWork
<1> QED
  BY <1>1, <1>2

-----------------------------------------------------------------------------
(* The other steps.                                                        *)

LEMMA InitIInv == Init => IInv
<1> SUFFICES ASSUME Init PROVE IInv
  OBVIOUS
<1>1. TypeOK
  BY DEF Init, TypeOK
<1>2. Unshared /\ StampsPast /\ OwnWork
  BY DEF Init, Unshared, StampsPast, OwnWork
<1> QED
  BY <1>1, <1>2 DEF IInv

LEMMA GetKeeps == ASSUME IInv, NEW s \in Search, Get(s) PROVE IInv'
<1> USE DEF IInv
<1>1. PICK p \in pool : pool' = pool \ {p} /\ holder' = [holder EXCEPT ![s] = p]
  BY DEF Get
<1>2. p \in Space /\ \A t \in Search : holder[t] # p
  BY <1>1 DEF TypeOK, Unshared
<1>3. holder[s] = None /\ UNCHANGED <<stamp, size, epoch, cand, res, cap, nodes, ef>>
  BY DEF Get
<1>4. TypeOK'
  BY <1>1, <1>2, <1>3 DEF TypeOK
<1>5. Unshared'
  BY <1>1, <1>2, <1>3 DEF Unshared, TypeOK
<1>6. StampsPast'
  BY <1>3 DEF StampsPast
<1>7. nodes[s] = 0
  BY <1>3, Idlers
<1>8. OwnWork'
  BY <1>1, <1>3, <1>7 DEF OwnWork, Seen, TypeOK
<1> QED
  BY <1>4, <1>5, <1>6, <1>8

LEMMA NewKeeps == ASSUME IInv, NEW s \in Search, New(s) PROVE IInv'
<1> USE DEF IInv
<1>1. PICK p \in Space \ pool, n \in Sizes :
        /\ \A t \in Search : holder[t] # p
        /\ holder' = [holder EXCEPT ![s] = p]
        /\ stamp' = [stamp EXCEPT ![p] = [i \in Id |-> 0]]
        /\ size' = [size EXCEPT ![p] = n]
        /\ epoch' = [epoch EXCEPT ![p] = 0]
        /\ cand' = [cand EXCEPT ![p] = {}]
        /\ res' = [res EXCEPT ![p] = {}]
        /\ cap' = [cap EXCEPT ![p] = 0]
  BY DEF New
<1>2. holder[s] = None /\ UNCHANGED <<pool, nodes, ef>>
  BY DEF New
<1>3. TypeOK'
  <2>1. [i \in Id |-> 0] \in [Id -> 0 .. MaxEpoch] /\ n \in Nat /\ 0 \in 0 .. MaxEpoch
    OBVIOUS
  <2>2. stamp' \in [Space -> [Id -> 0 .. MaxEpoch]]
    BY <1>1, <2>1 DEF TypeOK
  <2> QED
    BY <1>1, <1>2, <2>1, <2>2 DEF TypeOK
<1>4. Unshared'
  BY <1>1, <1>2 DEF Unshared, TypeOK
<1>5. StampsPast'
  BY <1>1 DEF StampsPast, TypeOK
<1>6. nodes[s] = 0
  BY <1>2, Idlers
<1>7. OwnWork'
  <2>1. \A t \in Search : nodes'[t] > 0 =>
          /\ nodes[t] > 0 /\ holder'[t] = holder[t] /\ holder[t] # p
          /\ holder[t] \in Space
    BY <1>1, <1>2, <1>6 DEF OwnWork, TypeOK
  <2>2. \A r \in Space \ {p} :
          /\ stamp'[r] = stamp[r] /\ epoch'[r] = epoch[r] /\ cand'[r] = cand[r]
          /\ res'[r] = res[r] /\ cap'[r] = cap[r]
    BY <1>1 DEF TypeOK
  <2> QED
    BY <1>2, <2>1, <2>2 DEF OwnWork, Seen
<1> QED
  BY <1>3, <1>4, <1>5, <1>7

\* What a search meets goes into its own workspace, and the collector does
\* not grow beyond its capacity.
LEMMA MeetFacts ==
    ASSUME IInv, NEW s \in Search, NEW i \in Id, Meet(s, i)
    PROVE  /\ holder[s] \in Space /\ i < nodes[s] /\ nodes[s] > 0
           /\ ~Seen(holder[s], i)
           /\ stamp' = [stamp EXCEPT ![holder[s]][i] = epoch[holder[s]]]
           /\ cand' = [cand EXCEPT ![holder[s]] = cand'[holder[s]]]
           /\ res' = [res EXCEPT ![holder[s]] = res'[holder[s]]]
           /\ \/ cand'[holder[s]] = cand[holder[s]] /\ res'[holder[s]] = res[holder[s]]
              \/ /\ cand'[holder[s]] = cand[holder[s]] \cup {i}
                 /\ res'[holder[s]] \subseteq res[holder[s]] \cup {i}
           /\ IsFiniteSet(res'[holder[s]])
           /\ Cardinality(res'[holder[s]]) <= cap[holder[s]]
           /\ UNCHANGED <<size, epoch, cap, pool, holder, nodes, ef>>
<1> DEFINE p == holder[s]
<1>1. p \in Space /\ i < nodes[s] /\ ~Seen(p, i)
  BY DEF Meet, IInv, TypeOK
<1>2. nodes[s] > 0 /\ nodes[s] \in Nat /\ i \in Nat
  <2>1. i \in Nat /\ nodes[s] \in Nat
    BY IdNat, Idlers DEF IInv
  <2> QED
    BY <1>1, <2>1
<1>3. cap[p] \in Nat /\ IsFiniteSet(res[p]) /\ Cardinality(res[p]) \in Nat
      /\ Cardinality(res[p]) <= cap[p]
  BY <1>1, <1>2, FS_CardinalityType DEF IInv, OwnWork, TypeOK
<1>4. \/ cand' = cand /\ res' = res
      \/ /\ cand' = [cand EXCEPT ![p] = @ \cup {i}]
         /\ \/ res' = res
            \/ /\ Cardinality(res[p]) < cap[p]
               /\ res' = [res EXCEPT ![p] = @ \cup {i}]
            \/ \E out \in res[p] : res' = [res EXCEPT ![p] = (@ \ {out}) \cup {i}]
  BY DEF Meet
<1>5. cand' = [cand EXCEPT ![p] = cand'[p]] /\ res' = [res EXCEPT ![p] = res'[p]]
  BY <1>1, <1>4 DEF IInv, TypeOK
<1>6. \/ cand'[p] = cand[p] /\ res'[p] = res[p]
      \/ cand'[p] = cand[p] \cup {i} /\ res'[p] \subseteq res[p] \cup {i}
  BY <1>1, <1>4 DEF IInv, TypeOK
<1>7. IsFiniteSet(res'[p]) /\ Cardinality(res'[p]) <= cap[p]
  <2>1. CASE res'[p] = res[p]
    BY <1>3, <2>1
  <2>2. CASE Cardinality(res[p]) < cap[p] /\ res'[p] = res[p] \cup {i}
    <3>1. IsFiniteSet(res[p] \cup {i})
          /\ Cardinality(res[p] \cup {i}) <= Cardinality(res[p]) + 1
      BY <1>3, AddOne
    <3>2. Cardinality(res[p] \cup {i}) \in Nat
      BY <3>1, FS_CardinalityType
    <3> QED
      BY <1>3, <2>2, <3>1, <3>2
  <2>3. ASSUME NEW out \in res[p], res'[p] = (res[p] \ {out}) \cup {i}
        PROVE  IsFiniteSet(res'[p]) /\ Cardinality(res'[p]) <= cap[p]
    <3> DEFINE fewer == res[p] \ {out}
    <3>1. IsFiniteSet(fewer) /\ Cardinality(fewer) = Cardinality(res[p]) - 1
      BY <1>3, FS_RemoveElement
    <3>2. IsFiniteSet(fewer \cup {i}) /\ Cardinality(fewer \cup {i}) <= Cardinality(fewer) + 1
      BY <3>1, AddOne
    <3>3. Cardinality(fewer \cup {i}) \in Nat
      BY <3>2, FS_CardinalityType
    <3> QED
      BY <1>3, <2>3, <3>1, <3>2, <3>3
  <2> QED
    BY <1>1, <1>4, <2>1, <2>2, <2>3 DEF IInv, TypeOK
<1> QED
  BY <1>1, <1>2, <1>5, <1>6, <1>7 DEF Meet

\* What a step that only touches the workspace of s leaves to the others.
LEMMA OthersKeepWork ==
    ASSUME IInv, NEW s \in Search, holder[s] \in Space,
           NEW t \in Search \ {s}, nodes[t] > 0,
           \A r \in Space \ {holder[s]} :
              /\ stamp'[r] = stamp[r] /\ epoch'[r] = epoch[r] /\ cand'[r] = cand[r]
              /\ res'[r] = res[r] /\ cap'[r] = cap[r]
    PROVE  /\ holder[t] \in Space \ {holder[s]}
           /\ stamp'[holder[t]] = stamp[holder[t]]
           /\ epoch'[holder[t]] = epoch[holder[t]]
           /\ cand'[holder[t]] = cand[holder[t]]
           /\ res'[holder[t]] = res[holder[t]]
           /\ cap'[holder[t]] = cap[holder[t]]
<1>1. holder[t] \in Space \ {holder[s]}
  BY DEF IInv, Unshared, OwnWork, TypeOK
<1> QED
  BY <1>1

LEMMA MeetKeeps == ASSUME IInv, NEW s \in Search, NEW i \in Id, Meet(s, i) PROVE IInv'
<1> DEFINE p == holder[s]
<1>1. /\ p \in Space /\ i < nodes[s] /\ nodes[s] > 0
      /\ stamp' = [stamp EXCEPT ![p][i] = epoch[p]]
      /\ cand' = [cand EXCEPT ![p] = cand'[p]]
      /\ res' = [res EXCEPT ![p] = res'[p]]
      /\ cand'[p] \subseteq cand[p] \cup {i} /\ res'[p] \subseteq res[p] \cup {i}
      /\ IsFiniteSet(res'[p]) /\ Cardinality(res'[p]) <= cap[p]
      /\ UNCHANGED <<size, epoch, cap, pool, holder, nodes, ef>>
  BY MeetFacts
<1>2. \A r \in Space, j \in Id :
        stamp'[r][j] = IF r = p /\ j = i THEN epoch[p] ELSE stamp[r][j]
  BY <1>1 DEF IInv, TypeOK
<1>3. TypeOK'
  <2>1. stamp' \in [Space -> [Id -> 0 .. MaxEpoch]]
    BY <1>1 DEF IInv, TypeOK
  <2>2. cand'[p] \subseteq Id /\ res'[p] \subseteq Id
    BY <1>1 DEF IInv, TypeOK
  <2>3. cand' \in [Space -> SUBSET Id] /\ res' \in [Space -> SUBSET Id]
    BY <1>1, <2>2 DEF IInv, TypeOK
  <2> QED
    BY <1>1, <2>1, <2>3 DEF IInv, TypeOK
<1>4. Unshared'
  BY <1>1 DEF IInv, Unshared
<1>5. StampsPast'
  BY <1>1, <1>2 DEF IInv, StampsPast, TypeOK
<1>6. OwnWork'
  <2> SUFFICES ASSUME NEW t \in Search, nodes[t] > 0
               PROVE  /\ holder[t] # None /\ cap[holder[t]] = ef[t]
                      /\ \A j \in cand'[holder[t]] \cup res'[holder[t]] :
                            j < nodes[t] /\ stamp'[holder[t]][j] = epoch[holder[t]]
                      /\ IsFiniteSet(res'[holder[t]])
                      /\ Cardinality(res'[holder[t]]) <= cap[holder[t]]
    BY <1>1 DEF OwnWork, Seen
  <2>1. CASE t = s
    <3>1. \A j \in cand[p] \cup res[p] : j \in Id /\ j < nodes[s] /\ stamp[p][j] = epoch[p]
      BY <1>1 DEF IInv, OwnWork, Seen, TypeOK
    <3> QED
      BY <1>1, <1>2, <2>1, <3>1 DEF IInv, OwnWork
  <2>2. CASE t # s
    <3>1. \A r \in Space \ {p} :
            /\ stamp'[r] = stamp[r] /\ epoch'[r] = epoch[r] /\ cand'[r] = cand[r]
            /\ res'[r] = res[r] /\ cap'[r] = cap[r]
      BY <1>1 DEF IInv, TypeOK
    <3>2. /\ stamp'[holder[t]] = stamp[holder[t]] /\ cand'[holder[t]] = cand[holder[t]]
          /\ res'[holder[t]] = res[holder[t]]
      BY <1>1, <2>2, <3>1, OthersKeepWork
    <3> QED
      BY <3>2 DEF IInv, OwnWork, Seen
  <2> QED
    BY <2>1, <2>2
<1> QED
  BY <1>3, <1>4, <1>5, <1>6 DEF IInv

LEMMA PopKeeps == ASSUME IInv, NEW s \in Search, Pop(s) PROVE IInv'
<1> USE DEF IInv
<1>1. PICK i \in cand[holder[s]] : cand' = [cand EXCEPT ![holder[s]] = @ \ {i}]
  BY DEF Pop
<1>2. UNCHANGED <<stamp, size, epoch, res, cap, pool, holder, nodes, ef>>
  BY DEF Pop
<1>3. \A p \in Space : cand'[p] \subseteq cand[p]
  BY <1>1 DEF TypeOK
<1>4. TypeOK'
  BY <1>1, <1>2 DEF TypeOK
<1>5. Unshared' /\ StampsPast'
  BY <1>2 DEF Unshared, StampsPast
<1>6. OwnWork'
  BY <1>2, <1>3 DEF OwnWork, Seen, TypeOK
<1> QED
  BY <1>4, <1>5, <1>6

LEMMA PutKeeps == ASSUME IInv, NEW s \in Search, Put(s) PROVE IInv'
<1> USE DEF IInv, Put
<1>1. TypeOK'
  BY DEF TypeOK
<1>2. \A t \in Search \ {s} : holder'[t] = holder[t] /\ nodes'[t] = nodes[t] /\ ef'[t] = ef[t]
  BY DEF TypeOK
<1>3. holder'[s] = None /\ nodes'[s] = 0
  BY DEF TypeOK
<1>4. Unshared'
  BY <1>2, <1>3 DEF Unshared
<1>5. StampsPast'
  BY DEF StampsPast
<1>6. OwnWork'
  BY <1>2, <1>3 DEF OwnWork, Seen
<1> QED
  BY <1>1, <1>4, <1>5, <1>6

LEMMA DropKeeps == ASSUME IInv, Drop PROVE IInv'
BY DEF IInv, Drop, TypeOK, Unshared, StampsPast, OwnWork, Seen

LEMMA NextIInv == IInv /\ [Next]_vars => IInv'
<1> SUFFICES ASSUME IInv, [Next]_vars PROVE IInv'
  OBVIOUS
<1>1. CASE UNCHANGED vars
  BY <1>1 DEF IInv, vars, TypeOK, Unshared, StampsPast, OwnWork, Seen
<1> QED
  BY <1>1, GetKeeps, NewKeeps, BeginKeeps, MeetKeeps, PopKeeps, PutKeeps, DropKeeps
     DEF Next

\* Workspaces are never shared, never hold a stamp from the future, and hold
\* nothing but the work of the search they are lent to.
THEOREM Invariance == Spec => []IInv
<1>1. Spec => Init /\ [][Next]_vars
  BY DEF Spec
<1> QED
  BY <1>1, InitIInv, NextIInv, PTL

\* Stamps, epoch and capacity keep within their types, the epoch also when it
\* wraps.
THEOREM TypeCorrect == Spec => []TypeOK
BY Invariance, PTL DEF IInv

\* Two searches never hold the same workspace, and a pooled one is nobody's.
THEOREM NeverShared == Spec => []Unshared
BY Invariance, PTL DEF IInv

\* However often the epoch has wrapped, no stamp is later than the epoch.
THEOREM NoFutureStamps == Spec => []StampsPast
BY Invariance, PTL DEF IInv

\* A search's candidates and results are nodes it marked itself, and its
\* collector has the capacity it asked for.
THEOREM WorkIsOwn == Spec => []OwnWork
BY Invariance, PTL DEF IInv

-----------------------------------------------------------------------------
(* Workspace implements LayerSearch.                                       *)

\* What a search has seen, queued and kept depends on nothing but its own
\* arguments and its own workspace.
LEMMA SameView ==
    ASSUME NEW t \in Search, nodes'[t] = nodes[t],
           nodes[t] > 0 =>
              /\ holder'[t] = holder[t]
              /\ stamp'[holder[t]] = stamp[holder[t]]
              /\ epoch'[holder[t]] = epoch[holder[t]]
              /\ cand'[holder[t]] = cand[holder[t]]
              /\ res'[holder[t]] = res[holder[t]]
    PROVE  SeenBy(t)' = SeenBy(t) /\ QueueOf(t)' = QueueOf(t) /\ BestOf(t)' = BestOf(t)
BY DEF SeenBy, QueueOf, BestOf, Seen

\* The two modules count in the same way.
LEMMA SameCardinality == \A S : Fresh!Cardinality(S) = Cardinality(S)
BY DEF Fresh!Cardinality, Cardinality

LEMMA InitFresh == Init => Fresh!Init
<1> SUFFICES ASSUME Init PROVE Fresh!Init
  OBVIOUS
<1>1. \A s \in Search : SeenBy(s) = {} /\ QueueOf(s) = {} /\ BestOf(s) = {}
  BY DEF Init, SeenBy, QueueOf, BestOf
<1> QED
  BY <1>1 DEF Init, Fresh!Init

\* A step that leaves every search its view is a stutter.
LEMMA StutterFresh ==
    ASSUME \A t \in Search : /\ SeenBy(t)' = SeenBy(t) /\ QueueOf(t)' = QueueOf(t)
                             /\ BestOf(t)' = BestOf(t),
           ef' = ef
    PROVE  UNCHANGED Fresh!vars
BY DEF Fresh!vars

LEMMA GetFresh == ASSUME IInv, NEW s \in Search, Get(s) PROVE UNCHANGED Fresh!vars
<1>1. /\ holder[s] = None /\ UNCHANGED <<stamp, size, epoch, cand, res, cap, nodes, ef>>
      /\ \A t \in Search \ {s} : holder'[t] = holder[t]
  BY DEF Get, IInv, TypeOK
<1>2. nodes[s] = 0
  BY <1>1, Idlers DEF IInv
<1>3. \A t \in Search : /\ SeenBy(t)' = SeenBy(t) /\ QueueOf(t)' = QueueOf(t)
                        /\ BestOf(t)' = BestOf(t)
  BY <1>1, <1>2, SameView
<1> QED
  BY <1>1, <1>3, StutterFresh

LEMMA NewFresh == ASSUME IInv, NEW s \in Search, New(s) PROVE UNCHANGED Fresh!vars
<1>1. PICK p \in Space \ pool, n \in Sizes :
        /\ \A t \in Search : holder[t] # p
        /\ holder' = [holder EXCEPT ![s] = p]
        /\ stamp' = [stamp EXCEPT ![p] = [i \in Id |-> 0]]
        /\ epoch' = [epoch EXCEPT ![p] = 0]
        /\ cand' = [cand EXCEPT ![p] = {}]
        /\ res' = [res EXCEPT ![p] = {}]
  BY DEF New
<1>2. holder[s] = None /\ UNCHANGED <<nodes, ef>>
  BY DEF New
<1>3. nodes[s] = 0
  BY <1>2, Idlers DEF IInv
<1>4. ASSUME NEW t \in Search
      PROVE  /\ SeenBy(t)' = SeenBy(t) /\ QueueOf(t)' = QueueOf(t)
             /\ BestOf(t)' = BestOf(t)
  <2>1. CASE t = s
    BY <1>2, <1>3, <2>1, SameView
  <2>2. CASE t # s
    <3>1. holder'[t] = holder[t] /\ holder[t] # p
      BY <1>1, <2>2 DEF IInv, TypeOK
    <3>2. nodes[t] > 0 => holder[t] \in Space
      BY DEF IInv, OwnWork, TypeOK
    <3>3. nodes[t] > 0 =>
            /\ stamp'[holder[t]] = stamp[holder[t]] /\ epoch'[holder[t]] = epoch[holder[t]]
            /\ cand'[holder[t]] = cand[holder[t]] /\ res'[holder[t]] = res[holder[t]]
      BY <1>1, <3>1, <3>2 DEF IInv, TypeOK
    <3> QED
      BY <1>2, <3>1, <3>3, SameView
  <2> QED
    BY <2>1, <2>2
<1> QED
  BY <1>2, <1>4, StutterFresh

LEMMA BeginStarts ==
    ASSUME IInv, NEW s \in Search, Begin(s)
    PROVE  \E k \in Widths : Fresh!Start(s, k)
<1> DEFINE p == holder[s]
<1>1. PICK n \in Sizes, k \in Widths :
        nodes' = [nodes EXCEPT ![s] = n] /\ ef' = [ef EXCEPT ![s] = k]
  BY BeginFresh
<1>2. /\ p \in Space
      /\ epoch' = [epoch EXCEPT ![p] = epoch'[p]]
      /\ stamp' = [stamp EXCEPT ![p] = stamp'[p]]
      /\ cand' = [cand EXCEPT ![p] = {}]
      /\ res' = [res EXCEPT ![p] = {}]
      /\ \A i \in Id : stamp'[p][i] < epoch'[p]
      /\ epoch'[p] \in 0 .. MaxEpoch
      /\ stamp'[p] \in [Id -> 0 .. MaxEpoch]
      /\ UNCHANGED <<pool, holder>>
  BY BeginFresh
<1>3. SeenBy(s)' = {} /\ QueueOf(s)' = {} /\ BestOf(s)' = {}
  <2>1. \A i \in Id : stamp'[p][i] # epoch'[p]
    BY <1>2
  <2>2. holder'[s] = p /\ cand'[p] = {} /\ res'[p] = {}
    BY <1>2 DEF IInv, TypeOK
  <2> QED
    BY <2>1, <2>2 DEF SeenBy, QueueOf, BestOf, Seen
<1>4. ASSUME NEW t \in Search \ {s}
      PROVE  /\ SeenBy(t)' = SeenBy(t) /\ QueueOf(t)' = QueueOf(t)
             /\ BestOf(t)' = BestOf(t)
  <2>1. nodes'[t] = nodes[t] /\ holder'[t] = holder[t]
    BY <1>1, <1>2 DEF IInv, TypeOK
  <2>2. nodes[t] > 0 => holder[t] \in Space \ {p}
    BY <1>2 DEF IInv, Unshared, OwnWork, TypeOK
  <2>3. nodes[t] > 0 =>
          /\ stamp'[holder[t]] = stamp[holder[t]] /\ epoch'[holder[t]] = epoch[holder[t]]
          /\ cand'[holder[t]] = cand[holder[t]] /\ res'[holder[t]] = res[holder[t]]
    BY <1>2, <2>2 DEF IInv, TypeOK
  <2> QED
    BY <2>1, <2>3, SameView
<1>5. Fresh!Start(s, k)
  BY <1>1, <1>3, <1>4 DEF Fresh!Start
<1> QED
  BY <1>5

LEMMA MeetMeets ==
    ASSUME IInv, NEW s \in Search, NEW i \in Id, Meet(s, i)
    PROVE  Fresh!Meet(s, i)
<1> DEFINE p == holder[s]
<1>1. /\ p \in Space /\ i < nodes[s] /\ nodes[s] > 0 /\ ~Seen(p, i)
      /\ stamp' = [stamp EXCEPT ![p][i] = epoch[p]]
      /\ cand' = [cand EXCEPT ![p] = cand'[p]]
      /\ res' = [res EXCEPT ![p] = res'[p]]
      /\ \/ cand'[p] = cand[p] /\ res'[p] = res[p]
         \/ cand'[p] = cand[p] \cup {i} /\ res'[p] \subseteq res[p] \cup {i}
      /\ Cardinality(res'[p]) <= cap[p]
      /\ UNCHANGED <<size, epoch, cap, pool, holder, nodes, ef>>
  BY MeetFacts
<1>2. i \notin SeenBy(s)
  BY <1>1 DEF SeenBy
<1>3. SeenBy(s)' = SeenBy(s) \cup {i}
  <2>1. \A j \in Id : stamp'[p][j] = IF j = i THEN epoch[p] ELSE stamp[p][j]
    BY <1>1 DEF IInv, TypeOK
  <2> QED
    BY <1>1, <2>1 DEF SeenBy, Seen
<1>4. /\ QueueOf(s) = cand[p] /\ QueueOf(s)' = cand'[p]
      /\ BestOf(s) = res[p] /\ BestOf(s)' = res'[p] /\ cap[p] = ef[s]
  BY <1>1 DEF QueueOf, BestOf, IInv, OwnWork
<1>5. ASSUME NEW t \in Search \ {s}
      PROVE  /\ SeenBy(t)' = SeenBy(t) /\ QueueOf(t)' = QueueOf(t)
             /\ BestOf(t)' = BestOf(t)
  <2>1. nodes[t] > 0 => holder[t] \in Space \ {p}
    BY <1>1 DEF IInv, Unshared, OwnWork, TypeOK
  <2>2. nodes[t] > 0 =>
          /\ stamp'[holder[t]] = stamp[holder[t]]
          /\ cand'[holder[t]] = cand[holder[t]] /\ res'[holder[t]] = res[holder[t]]
    BY <1>1, <2>1 DEF IInv, TypeOK
  <2> QED
    BY <1>1, <2>2, SameView
<1>6. [t \in Search |-> SeenBy(t)]' =
        [[t \in Search |-> SeenBy(t)] EXCEPT ![s] = @ \cup {i}]
  BY <1>3, <1>5
<1>7. CASE cand'[p] = cand[p] /\ res'[p] = res[p]
  <2>1. \A t \in Search : QueueOf(t)' = QueueOf(t) /\ BestOf(t)' = BestOf(t)
    BY <1>4, <1>5, <1>7
  <2> QED
    BY <1>1, <1>2, <1>6, <2>1 DEF Fresh!Meet
<1>8. CASE cand'[p] = cand[p] \cup {i} /\ res'[p] \subseteq res[p] \cup {i}
  <2>1. [t \in Search |-> QueueOf(t)]' =
          [[t \in Search |-> QueueOf(t)] EXCEPT ![s] = @ \cup {i}]
    BY <1>4, <1>5, <1>8
  <2>2. [t \in Search |-> BestOf(t)]' = [[t \in Search |-> BestOf(t)] EXCEPT ![s] = res'[p]]
    BY <1>4, <1>5
  <2>3. /\ res'[p] \in SUBSET ([t \in Search |-> BestOf(t)][s] \cup {i})
        /\ Cardinality(res'[p]) <= ef[s]
    BY <1>1, <1>4, <1>8
  <2>4. \E kept \in SUBSET ([t \in Search |-> BestOf(t)][s] \cup {i}) :
          /\ Cardinality(kept) <= ef[s]
          /\ [t \in Search |-> BestOf(t)]' =
                [[t \in Search |-> BestOf(t)] EXCEPT ![s] = kept]
    BY <2>2, <2>3
  <2>5. UNCHANGED ef /\ i \notin [t \in Search |-> SeenBy(t)][s]
    BY <1>1, <1>2
  <2> QED
    BY <1>6, <2>1, <2>4, <2>5, SameCardinality DEF Fresh!Meet
<1> QED
  BY <1>1, <1>7, <1>8

LEMMA PopExpands ==
    ASSUME IInv, NEW s \in Search, Pop(s)
    PROVE  \E i \in Id : Fresh!Expand(s, i)
<1> DEFINE p == holder[s]
<1>1. p \in Space /\ nodes[s] > 0
  BY DEF Pop, IInv, TypeOK
<1>2. PICK i \in cand[p] : cand' = [cand EXCEPT ![p] = @ \ {i}]
  BY DEF Pop
<1>3. UNCHANGED <<stamp, size, epoch, res, cap, pool, holder, nodes, ef>>
  BY DEF Pop
<1>4. QueueOf(s) = cand[p] /\ QueueOf(s)' = cand[p] \ {i} /\ i \in Id
  BY <1>1, <1>2, <1>3 DEF QueueOf, IInv, TypeOK
<1>5. SeenBy(s)' = SeenBy(s) /\ BestOf(s)' = BestOf(s)
  BY <1>3 DEF SeenBy, BestOf, Seen
<1>6. ASSUME NEW t \in Search \ {s}
      PROVE  /\ SeenBy(t)' = SeenBy(t) /\ QueueOf(t)' = QueueOf(t)
             /\ BestOf(t)' = BestOf(t)
  <2>1. nodes[t] > 0 => holder[t] \in Space \ {p}
    BY <1>1 DEF IInv, Unshared, OwnWork, TypeOK
  <2>2. nodes[t] > 0 => cand'[holder[t]] = cand[holder[t]]
    BY <1>2, <2>1 DEF IInv, TypeOK
  <2> QED
    BY <1>3, <2>2, SameView
<1>7. Fresh!Expand(s, i)
  BY <1>3, <1>4, <1>5, <1>6 DEF Fresh!Expand
<1> QED
  BY <1>4, <1>7

LEMMA PutStarts ==
    ASSUME IInv, NEW s \in Search, Put(s)
    PROVE  Fresh!Start(s, 0)
<1>1. /\ nodes'[s] = 0 /\ ef' = [ef EXCEPT ![s] = 0]
      /\ \A t \in Search \ {s} : holder'[t] = holder[t] /\ nodes'[t] = nodes[t]
      /\ UNCHANGED <<stamp, size, epoch, cand, res, cap>>
  BY DEF Put, IInv, TypeOK
<1>2. SeenBy(s)' = {} /\ QueueOf(s)' = {} /\ BestOf(s)' = {}
  BY <1>1 DEF SeenBy, QueueOf, BestOf
<1>3. \A t \in Search \ {s} : /\ SeenBy(t)' = SeenBy(t) /\ QueueOf(t)' = QueueOf(t)
                              /\ BestOf(t)' = BestOf(t)
  BY <1>1, SameView
<1> QED
  BY <1>1, <1>2, <1>3 DEF Fresh!Start

LEMMA StepFresh == IInv /\ [Next]_vars => [Fresh!Next]_(Fresh!vars)
<1> SUFFICES ASSUME IInv, [Next]_vars
             PROVE  [Fresh!Next]_(Fresh!vars)
  OBVIOUS
<1>1. CASE Drop \/ UNCHANGED vars
  <2>1. UNCHANGED <<stamp, epoch, cand, res, holder, nodes, ef>>
    BY <1>1 DEF Drop, vars
  <2>2. \A t \in Search : /\ SeenBy(t)' = SeenBy(t) /\ QueueOf(t)' = QueueOf(t)
                          /\ BestOf(t)' = BestOf(t)
    BY <2>1, SameView
  <2> QED
    BY <2>1, <2>2, StutterFresh
<1>2. ASSUME NEW s \in Search, Get(s) \/ New(s)
      PROVE  UNCHANGED Fresh!vars
  BY <1>2, GetFresh, NewFresh
<1>3. ASSUME NEW s \in Search, Begin(s) \/ Put(s)
      PROVE  Fresh!Next
  BY <1>3, BeginStarts, PutStarts DEF Fresh!Next
<1>4. ASSUME NEW s \in Search, Pop(s) \/ \E i \in Id : Meet(s, i)
      PROVE  Fresh!Next
  BY <1>4, PopExpands, MeetMeets DEF Fresh!Next
<1> QED
  BY <1>1, <1>2, <1>3, <1>4 DEF Next

\* Recycling workspaces and epochs is invisible: every search sees, queues
\* and keeps what it would with scratch space of its own.
THEOREM Independence == Spec => SearchesIndependent
<1>1. Spec => Init /\ [][Next]_vars
  BY DEF Spec
<1> QED
  BY <1>1, InitFresh, StepFresh, Invariance, PTL DEF SearchesIndependent, Fresh!Spec

=============================================================================
