-------------------------- MODULE FlatSearchProofs --------------------------
(***************************************************************************)
(* Proofs about FlatSearch: SearchN returns the k nearest rows for any     *)
(* dataset, query, k and number of workers.                                *)
(*                                                                         *)
(* The invariant says of each collector, as IsBest does, what it holds of  *)
(* the rows it was offered so far; that it is kept by one Add (lemma       *)
(* TakesKeepsBest) makes an induction over the rows unnecessary.  Lemma    *)
(* Together then argues about the final merge: a row some worker turned    *)
(* away is behind Wanted others already.                                   *)
(***************************************************************************)
EXTENDS FlatSearch, FiniteSetTheorems, TLAPS

-----------------------------------------------------------------------------
(* Arithmetic of the chunks. *)

\* The rows divide into chunks of two sizes with nothing left over.
LEMMA Division ==
    /\ Hands \in Nat \ {0}
    /\ Chunk \in Nat
    /\ Extra \in 0 .. Hands - 1
    /\ Count = Hands * Chunk + Extra
<1>1. Hands \in Nat \ {0} /\ Count \in Nat
  BY FlatAssumption DEF Hands, Split
<1> QED
  BY <1>1, SMTT(30) DEF Chunk, Extra

\* Consecutive chunks meet, the first starts at row 0 and the last ends with the data.
LEMMA Chunks ==
    /\ Begin(0) = 0
    /\ Begin(Hands) = Count
    /\ \A w \in Hand : Size(w) \in Nat /\ Begin(w) \in Nat /\ Begin(w + 1) = Begin(w) + Size(w)
<1> USE Division
<1>1. Begin(0) = 0
  BY DEF Begin, Least
<1>2. Begin(Hands) = Count
  BY DEF Begin, Least
<1>3. ASSUME NEW w \in Hand
      PROVE  Size(w) \in Nat /\ Begin(w) \in Nat /\ Begin(w + 1) = Begin(w) + Size(w)
  <2>1. w \in Nat /\ Size(w) \in Nat
    BY DEF Hand, Size
  <2>2. w * Chunk \in Nat /\ (w + 1) * Chunk = w * Chunk + Chunk
    BY <2>1
  <2> QED
    BY <2>1, <2>2 DEF Begin, Least, Size
<1> QED
  BY <1>1, <1>2, <1>3

-----------------------------------------------------------------------------
(* Collectors. *)

\* Ties are broken by ID, so Before orders the rows totally.
LEMMA BeforeOrders ==
    ASSUME NEW q \in Query, NEW a \in Row, NEW b \in Row, NEW c \in Row
    PROVE  /\ ~Before(q, a, a)
           /\ Before(q, a, b) => ~Before(q, b, a)
           /\ a # b => Before(q, a, b) \/ Before(q, b, a)
           /\ Before(q, a, b) /\ Before(q, b, c) => Before(q, a, c)
<1>1. Dist[<<q, a>>] \in Nat /\ Dist[<<q, b>>] \in Nat /\ Dist[<<q, c>>] \in Nat
  BY FlatAssumption
<1>2. a \in Int /\ b \in Int /\ c \in Int
  BY DEF Row
<1> QED
  BY <1>1, <1>2 DEF Before

\* The dataset is finite, and so is every part of it.
LEMMA RowsFinite ==
    /\ IsFiniteSet(Row) /\ Cardinality(Row) = Count
    /\ \A S \in SUBSET Row : IsFiniteSet(S) /\ Cardinality(S) \in Nat
<1>1. 0 \in Int /\ Count - 1 \in Int /\ Count \in Nat
  BY FlatAssumption
<1>2. IsFiniteSet(Row) /\ Cardinality(Row) = Count
  BY <1>1, FS_Interval DEF Row
<1> QED
  BY <1>2, FS_Subset, FS_CardinalityType

\* Adding a row to a collector keeps it the best of what it was offered.
LEMMA TakesKeepsBest ==
    ASSUME query \in Query,
           NEW S \in SUBSET Row, NEW x \in Row, x \notin S,
           NEW k \in Nat \ {0}, NEW H \in SUBSET Row, NEW T,
           IsBest(H, S, k), Takes(H, k, x, T)
    PROVE  IsBest(T, S \cup {x}, k)
<1>1. H \subseteq S /\ x \notin H /\ IsFiniteSet(H) /\ Cardinality(H) \in Nat
  BY RowsFinite DEF IsBest
<1>2. CASE Cardinality(H) < k
  <2>1. H = S /\ T = S \cup {x}
    BY <1>1, <1>2 DEF IsBest, Takes
  <2>2. Cardinality(T) = Cardinality(S) + 1
    BY <1>1, <2>1, FS_AddElement
  <2> QED
    BY <1>1, <1>2, <2>1, <2>2 DEF IsBest
<1>3. CASE ~(Cardinality(H) < k)
  <2>1. Cardinality(H) = k
    BY <1>1, <1>3 DEF IsBest
  <2>2. PICK worst \in H :
            /\ \A h \in H \ {worst} : Before(query, h, worst)
            /\ T = IF Before(query, x, worst) THEN (H \ {worst}) \cup {x} ELSE H
    BY <1>3 DEF Takes
  <2>3. \A h \in H, s \in S \ H : Before(query, h, s)
    BY DEF IsBest
  <2>4. CASE Before(query, x, worst)
    <3>1. T = (H \ {worst}) \cup {x}
      BY <2>2, <2>4
    <3>2. /\ IsFiniteSet(H \ {worst}) /\ Cardinality(H \ {worst}) = k - 1
          /\ x \notin H \ {worst}
      BY <1>1, <2>1, FS_RemoveElement
    <3>3. Cardinality(T) = k
      <4>1. Cardinality((H \ {worst}) \cup {x}) = (k - 1) + 1
        BY <3>2, FS_AddElement
      <4> QED
        BY <3>1, <4>1
    <3>4. ASSUME NEW t \in T, NEW s \in (S \cup {x}) \ T
          PROVE  Before(query, t, s)
      <4>1. s = worst \/ s \in S \ H
        BY <3>1
      <4>2. Before(query, t, worst)
        BY <2>2, <2>4, <3>1
      <4>3. CASE s = worst
        BY <4>2, <4>3
      <4>4. CASE s \in S \ H
        <5>1. Before(query, worst, s)
          BY <2>3, <4>4
        <5> QED
          BY <1>1, <3>1, <4>2, <4>4, <5>1, BeforeOrders
      <4> QED
        BY <4>1, <4>3, <4>4
    <3> QED
      BY <1>1, <3>1, <3>3, <3>4 DEF IsBest
  <2>5. CASE ~Before(query, x, worst)
    <3>1. T = H
      BY <2>2, <2>5
    <3>2. Before(query, worst, x)
      BY <1>1, <2>5, BeforeOrders
    <3>3. ASSUME NEW h \in H PROVE Before(query, h, x)
      <4>1. CASE h = worst
        BY <3>2, <4>1
      <4>2. CASE h # worst
        <5>1. Before(query, h, worst)
          BY <2>2, <4>2
        <5> QED
          BY <1>1, <3>2, <5>1, BeforeOrders
      <4> QED
        BY <4>1, <4>2
    <3> QED
      BY <1>1, <2>1, <2>3, <3>1, <3>3 DEF IsBest
  <2> QED
    BY <2>4, <2>5
<1> QED
  BY <1>2, <1>3

-----------------------------------------------------------------------------
(* The invariant. *)

\* Wanted results are room for at least one when the rows are split, and
\* hand 0 always exists.
LEMMA WantedType == Wanted \in Nat /\ (Split => Wanted \in Nat \ {0}) /\ 0 \in Hand
BY FlatAssumption, Division DEF Wanted, Least, Split, Hand

\* New never makes a collector without capacity.
LEMMA RoomType ==
    ASSUME TypeOK, NEW w \in Hand
    PROVE  Room(w) \in Nat \ {0}
BY WantedType DEF TypeOK, Room, Least

\* The loop never hands out rows past the last one.
LEMMA StartInRange ==
    ASSUME TypeOK, Spans
    PROVE  start <= Count
<1>1. launched \in Nat /\ launched <= Hands
  BY Division DEF TypeOK
<1>2. launched * Chunk <= Hands * Chunk
  <2>1. PICK d \in Nat : Hands = launched + d
    <3>1. Hands - launched \in Nat /\ Hands = launched + (Hands - launched)
      BY <1>1, Division
    <3> QED
      BY <3>1
  <2>2. Hands * Chunk = launched * Chunk + d * Chunk /\ d * Chunk \in Nat /\ launched * Chunk \in Nat
    BY <1>1, <2>1, Division
  <2> QED
    BY <2>2
<1>3. launched * Chunk \in Nat /\ Hands * Chunk \in Nat
  BY <1>1, Division
<1> QED
  BY <1>1, <1>2, <1>3, Division DEF Spans, Begin, Least

\* A call starts with empty collectors that were offered nothing.
LEMMA InitIsBest == Init => IInv
<1> SUFFICES ASSUME Init PROVE IInv
  OBVIOUS
<1>1. TypeOK
  <2>1. Hands \in Nat
    BY Division
  <2>2. launched \in 0 .. Hands /\ start \in Nat
    BY <2>1 DEF Init
  <2>3. /\ lo \in [Hand -> Nat] /\ hi \in [Hand -> Nat] /\ at \in [Hand -> Nat]
        /\ held \in [Hand -> SUBSET Row] /\ partials \in [Hand -> SUBSET Row]
    BY DEF Init
  <2> QED
    BY <2>2, <2>3, Zenon DEF Init, TypeOK
<1>2. Spans
  BY Chunks, Division DEF Init, Spans, Hand, Row
<1>3. Collected
  BY Division DEF Init, Collected, Hand
<1>4. Published
  BY DEF Init, Published
<1>5. Merged
  <2>1. IsBest({}, {}, Wanted)
    BY WantedType, FS_EmptySet DEF IsBest
  <2> QED
    BY <2>1 DEF Init, Merged
<1>6. Answered
  BY DEF Init, Answered
<1> QED
  BY <1>1, <1>2, <1>3, <1>4, <1>5, <1>6 DEF IInv

\* The new hand's rows start where those handed out before end.
LEMMA LaunchKeeps == IInv /\ Launch => IInv'
<1> SUFFICES ASSUME IInv, Launch PROVE IInv'
  OBVIOUS
<1> USE DEF IInv, Launch
<1>1. launched \in Hand /\ launched \in Nat /\ Size(launched) \in Nat /\ start \in Nat
  BY Chunks, Division DEF TypeOK, Hand
<1>2. TypeOK'
  <2>1. Hands \in Nat
    BY Division
  <2>2. launched' \in 0 .. Hands /\ start' \in Nat
    BY <1>1, <2>1 DEF TypeOK
  <2> QED
    BY <1>1, <2>2 DEF TypeOK
<1>3. /\ lo'[launched] = start /\ hi'[launched] = start' /\ at'[launched] = start
      /\ \A w \in Hand \ {launched} : lo'[w] = lo[w] /\ hi'[w] = hi[w] /\ at'[w] = at[w]
  BY <1>1 DEF TypeOK
<1>4. Spans'
  <2>1. start' = Begin(launched')
    BY <1>1, Chunks DEF Spans
  <2>2. ASSUME NEW w \in Hand, w < launched'
        PROVE  /\ at'[w] \in lo'[w] .. hi'[w] /\ hi'[w] <= start'
               /\ \A v \in Hand : v < w => hi'[v] <= lo'[w]
    <3>1. start \in Nat /\ start' \in Nat /\ start <= start'
      BY <1>1
    <3>2. CASE w = launched
      <4>1. lo'[w] = start /\ hi'[w] = start' /\ at'[w] = start
        BY <1>3, <3>2
      <4>2. ASSUME NEW v \in Hand, v < w PROVE hi'[v] <= lo'[w]
        <5>1. v # launched /\ v < launched
          BY <3>2, <4>2 DEF Hand
        <5>2. hi[v] <= start
          BY <5>1 DEF Spans
        <5> QED
          BY <1>3, <4>1, <5>1, <5>2
      <4> QED
        BY <3>1, <4>1, <4>2
    <3>3. CASE w # launched
      <4>1. w < launched
        BY <1>1, <2>2, <3>3 DEF Hand
      <4>2. /\ at[w] \in lo[w] .. hi[w] /\ hi[w] <= start
            /\ \A v \in Hand : v < w => hi[v] <= lo[w]
        BY <4>1 DEF Spans
      <4>3. hi[w] <= start'
        <5>1. hi[w] \in Nat
          BY DEF TypeOK
        <5> QED
          BY <3>1, <4>2, <5>1
      <4>4. \A v \in Hand : v < w => v # launched
        BY <1>1, <4>1 DEF Hand
      <4> QED
        BY <1>3, <3>3, <4>2, <4>3, <4>4
    <3> QED
      BY <3>2, <3>3
  <2>3. ASSUME NEW r \in Row, r < start'
        PROVE  \E w \in Hand : w < launched' /\ lo'[w] <= r /\ r < hi'[w]
    <3>1. CASE r < start
      <4>1. PICK w \in Hand : w < launched /\ lo[w] <= r /\ r < hi[w]
        BY <3>1 DEF Spans
      <4>2. w # launched /\ w < launched'
        BY <1>1, <4>1 DEF Hand
      <4> QED
        BY <1>3, <4>1, <4>2
    <3>2. CASE ~(r < start)
      <4>1. r \in Int /\ start <= r
        BY <1>1, <3>2 DEF Row
      <4> QED
        BY <1>1, <1>3, <2>3, <4>1
    <3> QED
      BY <3>1, <3>2
  <2> QED
    BY <2>1, <2>2, <2>3 DEF Spans
<1>5. Collected'
  <2>1. ASSUME NEW w \in Hand
        PROVE  IF w < launched' THEN IsBest(held[w], Scanned(w), Room(w))'
                                ELSE held'[w] = {} /\ w \notin finished'
    <3>1. CASE w = launched
      <4>1. held[w] = {} /\ (Scanned(w))' = {}
        BY <1>1, <1>3, <3>1 DEF Collected, Scanned
      <4>2. (Room(w))' \in Nat
        BY <1>2, <3>1, WantedType DEF TypeOK, Room, Least
      <4>3. IsBest(held[w], Scanned(w), Room(w))'
        BY <4>1, <4>2, FS_EmptySet DEF IsBest
      <4> QED
        BY <1>1, <3>1, <4>3
    <3>2. CASE w # launched
      <4>1. (Scanned(w))' = Scanned(w) /\ (Room(w))' = Room(w)
        BY <1>3, <3>2 DEF Scanned, Room
      <4>2. IsBest(held[w], Scanned(w), Room(w))' <=> IsBest(held[w], Scanned(w), Room(w))
        BY <4>1 DEF IsBest
      <4>3. w < launched' <=> w < launched
        BY <1>1, <3>2 DEF Hand
      <4> QED
        BY <4>2, <4>3 DEF Collected
    <3> QED
      BY <3>1, <3>2
  <2> QED
    BY <2>1 DEF Collected
<1>6. Published'
  BY <1>1, <1>3 DEF Published, Collected, Hand, TypeOK
<1>7. ~Waited
  BY Division DEF Waited, TypeOK
<1>8. Merged'
  BY <1>7 DEF Merged, IsBest
<1>9. Answered'
  BY <1>7 DEF Answered
<1> QED
  BY <1>2, <1>4, <1>5, <1>6, <1>8, <1>9

\* A scanned row goes through the hand's own collector only.
LEMMA ScanKeeps == ASSUME NEW w \in Hand PROVE IInv /\ Scan(w) => IInv'
<1> SUFFICES ASSUME IInv, Scan(w) PROVE IInv'
  OBVIOUS
<1> USE DEF IInv
<1>1. PICK T \in SUBSET (held[w] \cup {at[w]}) :
        /\ Takes(held[w], Room(w), at[w], T)
        /\ held' = [held EXCEPT ![w] = T]
  BY DEF Scan
<1>2. /\ w < launched /\ at[w] < hi[w]
      /\ at' = [at EXCEPT ![w] = @ + 1]
      /\ UNCHANGED <<query, launched, start, lo, hi, partials, finished, given,
                     merged, answer, returned>>
  BY DEF Scan
<1>3. /\ lo[w] \in Nat /\ at[w] \in Nat /\ hi[w] \in Nat
      /\ lo[w] <= at[w] /\ start \in Nat /\ hi[w] <= start
  BY <1>2 DEF TypeOK, Spans
<1>4. start <= Count
  BY StartInRange
<1>5. at[w] \in Row /\ T \in SUBSET Row
  BY <1>2, <1>3, <1>4, FlatAssumption DEF Row, TypeOK
<1>6. TypeOK'
  BY <1>1, <1>2, <1>3, <1>5 DEF TypeOK
<1>7. Spans'
  <2>1. at'[w] \in lo[w] .. hi[w] /\ \A v \in Hand \ {w} : at'[v] = at[v]
    BY <1>2, <1>3 DEF TypeOK
  <2> QED
    BY <1>2, <2>1 DEF Spans
<1>8. w \notin finished
  BY <1>2, <1>3 DEF Published
<1>9. Collected'
  <2>1. ASSUME NEW v \in Hand
        PROVE  IF v < launched' THEN IsBest(held[v], Scanned(v), Room(v))'
                                ELSE held'[v] = {} /\ v \notin finished'
    <3>1. CASE v = w
      <4>1. (Scanned(w))' = Scanned(w) \cup {at[w]} /\ at[w] \notin Scanned(w)
        BY <1>2, <1>3 DEF Scanned, TypeOK
      <4>2. Scanned(w) \subseteq Row
        BY <1>3, <1>5, FlatAssumption DEF Scanned, Row
      <4>3. IsBest(held[w], Scanned(w), Room(w))
        BY <1>2 DEF Collected
      <4>4. IsBest(T, Scanned(w) \cup {at[w]}, Room(w))
        BY <1>1, <1>5, <4>1, <4>2, <4>3, RoomType, TakesKeepsBest DEF TypeOK
      <4>5. held'[w] = T /\ (Room(w))' = Room(w)
        BY <1>1, <1>2 DEF TypeOK, Room
      <4>6. IsBest(held[w], Scanned(w), Room(w))'
        BY <1>2, <4>1, <4>4, <4>5 DEF IsBest
      <4> QED
        BY <1>2, <3>1, <4>6
    <3>2. CASE v # w
      <4>1. held'[v] = held[v] /\ (Scanned(v))' = Scanned(v) /\ (Room(v))' = Room(v)
        BY <1>1, <1>2, <3>2 DEF TypeOK, Scanned, Room
      <4>2. IsBest(held[v], Scanned(v), Room(v))' <=> IsBest(held[v], Scanned(v), Room(v))
        BY <1>2, <4>1 DEF IsBest
      <4> QED
        BY <1>2, <4>1, <4>2 DEF Collected
    <3> QED
      BY <3>1, <3>2
  <2> QED
    BY <2>1 DEF Collected
<1>10. Published'
  BY <1>1, <1>2, <1>8 DEF Published, TypeOK
<1>11. Merged'
  BY <1>2 DEF Merged, IsBest, Waited
<1>12. Answered'
  BY <1>2 DEF Answered, Waited
<1> QED
  BY <1>6, <1>7, <1>9, <1>10, <1>11, <1>12

\* A hand that publishes has scanned all of its rows, and keeps the merge
\* waiting until then.
LEMMA PublishKeeps == ASSUME NEW w \in Hand PROVE IInv /\ Publish(w) => IInv'
<1> SUFFICES ASSUME IInv, Publish(w) PROVE IInv'
  OBVIOUS
<1> USE DEF IInv, Publish
<1>1. TypeOK'
  BY DEF TypeOK
<1>2. Spans'
  BY DEF Spans
<1>3. Collected'
  <2>1. ASSUME NEW v \in Hand
        PROVE  IF v < launched' THEN IsBest(held[v], Scanned(v), Room(v))'
                                ELSE held'[v] = {} /\ v \notin finished'
    BY DEF Collected, IsBest, Scanned, Room
  <2> QED
    BY <2>1 DEF Collected
<1>4. Published'
  BY DEF Published, TypeOK
<1>5. ~Waited
  BY DEF Waited
<1>6. Merged'
  <2>1. given = {}
    BY <1>5 DEF Merged
  <2> QED
    BY <2>1 DEF Merged, IsBest
<1>7. Answered'
  BY <1>5 DEF Answered
<1> QED
  BY <1>1, <1>2, <1>3, <1>4, <1>6, <1>7

\* The merging collector holds the best of what it was given.
LEMMA MergeKeeps == IInv /\ Merge => IInv'
<1> SUFFICES ASSUME IInv, Merge PROVE IInv'
  OBVIOUS
<1> USE DEF IInv
<1>1. /\ Split /\ Waited
      /\ UNCHANGED <<query, launched, start, lo, hi, at, held, partials, finished,
                     answer, returned>>
  BY DEF Merge
<1>2. PICK w \in Hand : \E r \in partials[w] \ given, T \in SUBSET (merged \cup (partials[w] \ given)) :
            /\ Takes(merged, Wanted, r, T)
            /\ merged' = T
            /\ given' = given \cup {r}
  BY DEF Merge
<1>3. PICK r \in partials[w] \ given, T \in SUBSET (merged \cup (partials[w] \ given)) :
            /\ Takes(merged, Wanted, r, T)
            /\ merged' = T
            /\ given' = given \cup {r}
  BY <1>2
<1>4. r \in Row /\ T \in SUBSET Row /\ r \notin given /\ given \in SUBSET Row /\ merged \in SUBSET Row
  BY <1>3 DEF TypeOK
<1>5. TypeOK'
  BY <1>1, <1>3, <1>4 DEF TypeOK
<1>6. Spans' /\ Published'
  BY <1>1 DEF Spans, Published
<1>7. Collected'
  <2>1. ASSUME NEW v \in Hand
        PROVE  IF v < launched' THEN IsBest(held[v], Scanned(v), Room(v))'
                                ELSE held'[v] = {} /\ v \notin finished'
    BY <1>1 DEF Collected, IsBest, Scanned, Room
  <2> QED
    BY <2>1 DEF Collected
<1>8. Merged'
  <2>1. IsBest(merged, given, Wanted)
    BY DEF Merged
  <2>2. IsBest(T, given \cup {r}, Wanted)
    BY <1>1, <1>3, <1>4, <2>1, WantedType, TakesKeepsBest DEF TypeOK
  <2>3. IsBest(merged, given, Wanted)'
    BY <1>1, <1>3, <2>2 DEF IsBest
  <2> QED
    BY <1>1, <1>3, <2>3 DEF Merged, Waited
<1>9. Answered'
  <2>1. ~returned
    BY <1>1, <1>3 DEF Answered
  <2> QED
    BY <1>1, <2>1 DEF Answered
<1> QED
  BY <1>5, <1>6, <1>7, <1>8, <1>9

\* Nothing is returned before every result was merged.
LEMMA ReturnKeeps == IInv /\ Return => IInv'
<1> SUFFICES ASSUME IInv, Return PROVE IInv'
  OBVIOUS
<1> USE DEF IInv, Return
<1>1. TypeOK'
  BY WantedType DEF TypeOK
<1>2. Spans' /\ Published'
  BY DEF Spans, Published
<1>3. Collected'
  <2>1. ASSUME NEW v \in Hand
        PROVE  IF v < launched' THEN IsBest(held[v], Scanned(v), Room(v))'
                                ELSE held'[v] = {} /\ v \notin finished'
    BY DEF Collected, IsBest, Scanned, Room
  <2> QED
    BY <2>1 DEF Collected
<1>4. Merged'
  BY DEF Merged, IsBest, Waited
<1>5. Answered'
  BY DEF Answered, Waited
<1> QED
  BY <1>1, <1>2, <1>3, <1>4, <1>5

\* A step that changes nothing keeps the invariant.
LEMMA StutterKeeps == IInv /\ UNCHANGED vars => IInv'
<1> SUFFICES ASSUME IInv, UNCHANGED vars PROVE IInv'
  OBVIOUS
<1>1. TypeOK' /\ Spans' /\ Published' /\ Answered'
  BY DEF IInv, vars, TypeOK, Spans, Published, Answered, Waited
<1>2. Collected'
  <2>1. ASSUME NEW v \in Hand
        PROVE  IF v < launched' THEN IsBest(held[v], Scanned(v), Room(v))'
                                ELSE held'[v] = {} /\ v \notin finished'
    BY DEF IInv, vars, Collected, IsBest, Scanned, Room
  <2> QED
    BY <2>1 DEF Collected
<1>3. Merged'
  BY DEF IInv, vars, Merged, IsBest, Waited
<1> QED
  BY <1>1, <1>2, <1>3 DEF IInv

\* IInv is an invariant of every call.
THEOREM Invariance == Spec => []IInv
<1>1. IInv /\ [Next]_vars => IInv'
  BY LaunchKeeps, ScanKeeps, PublishKeeps, MergeKeeps, ReturnKeeps, StutterKeeps
     DEF Next, Caller, Goroutine
<1> QED
  BY InitIsBest, <1>1, PTL DEF Spec

-----------------------------------------------------------------------------
(* What follows from it. *)

\* Once every goroutine was started they cover every row, and no row twice.
THEOREM RowsTiled == Spec => []Tiled
<1>1. IInv => Tiled
  <2> SUFFICES ASSUME IInv, launched = Hands, NEW r \in Row
               PROVE  \E w \in Hand :
                        /\ lo[w] <= r /\ r < hi[w]
                        /\ \A v \in Hand \ {w} : ~(lo[v] <= r /\ r < hi[v])
    BY DEF Tiled
  <2>1. r < start
    BY Chunks, FlatAssumption DEF IInv, Spans, Row
  <2>2. PICK w \in Hand : lo[w] <= r /\ r < hi[w]
    BY <2>1 DEF IInv, Spans
  <2>3. ASSUME NEW v \in Hand \ {w} PROVE ~(lo[v] <= r /\ r < hi[v])
    <3>1. r \in Int /\ v \in Int /\ w \in Int /\ v < launched /\ w < launched
      BY Division DEF Row, Hand
    <3>2. /\ lo[v] \in Nat /\ hi[v] \in Nat /\ lo[w] \in Nat /\ hi[w] \in Nat
      BY DEF IInv, TypeOK
    <3>3. v < w \/ w < v
      BY <3>1
    <3>4. hi[v] <= lo[w] \/ hi[w] <= lo[v]
      BY <3>1, <3>3 DEF IInv, Spans
    <3> QED
      BY <2>2, <3>1, <3>2, <3>4
  <2> QED
    BY <2>2, <2>3
<1> QED
  BY Invariance, <1>1, PTL

\* A collector that may hold as many results as are wanted holds the nearest.
LEMMA BestIsNearest ==
    ASSUME query \in Query, NEW H \in SUBSET Row, IsBest(H, Row, Wanted)
    PROVE  H = Nearest(K)
<1> DEFINE Ahead(r) == { s \in Row : Before(query, s, r) }
<1>1. IsFiniteSet(H) /\ Cardinality(H) \in Nat /\ Count \in Nat /\ K \in Nat
  BY RowsFinite, FlatAssumption
<1>2. \A r \in Row : IsFiniteSet(Ahead(r)) /\ Cardinality(Ahead(r)) \in Nat
  BY RowsFinite
<1>3. ASSUME NEW r \in H PROVE Cardinality(Ahead(r)) < K
  <2>1. Ahead(r) \subseteq H \ {r}
    BY BeforeOrders DEF IsBest
  <2>2. IsFiniteSet(H \ {r}) /\ Cardinality(H \ {r}) = Cardinality(H) - 1
    BY <1>1, FS_RemoveElement
  <2>3. Cardinality(Ahead(r)) <= Cardinality(H) - 1
    BY <2>1, <2>2, FS_Subset
  <2>4. Cardinality(H) <= K
    BY <1>1 DEF IsBest, Wanted, Least
  <2> QED
    BY <1>1, <1>2, <2>3, <2>4
<1>4. ASSUME NEW r \in Row \ H PROVE ~(Cardinality(Ahead(r)) < K)
  <2>1. Cardinality(H) = Wanted
    BY <1>4 DEF IsBest
  <2>2. Wanted = K
    <3>1. CASE Wanted = Count
      <4>1. H = Row
        BY <2>1, <3>1, RowsFinite, FS_Subset
      <4> QED
        BY <4>1
    <3> QED
      BY <3>1 DEF Wanted, Least
  <2>3. H \subseteq Ahead(r)
    BY DEF IsBest
  <2>4. IsFiniteSet(Ahead(r)) /\ Cardinality(Ahead(r)) \in Nat
    BY <1>2
  <2> HIDE DEF Ahead
  <2>5. Cardinality(H) <= Cardinality(Ahead(r))
    BY <2>3, <2>4, FS_Subset
  <2> QED
    BY <1>1, <2>1, <2>2, <2>4, <2>5
<1> QED
  BY <1>3, <1>4 DEF Nearest

\* A hand that is done holds as many results as the call wants, or all its rows.
LEMMA FullOrAll ==
    ASSUME IInv, Waited, NEW w \in Hand
    PROVE  /\ IsBest(partials[w], lo[w] .. hi[w] - 1, Room(w))
           /\ lo[w] .. hi[w] - 1 \subseteq Row
           /\ \/ Cardinality(partials[w]) = Wanted
              \/ partials[w] = lo[w] .. hi[w] - 1
<1>1. w < launched /\ w \in finished /\ lo[w] \in Nat /\ hi[w] \in Nat /\ hi[w] <= start
  BY Division DEF IInv, Waited, TypeOK, Spans, Hand
<1>2. lo[w] .. hi[w] - 1 \subseteq Row
  BY <1>1, StartInRange, FlatAssumption DEF IInv, TypeOK, Row
<1>3. IsBest(partials[w], lo[w] .. hi[w] - 1, Room(w))
  BY <1>1 DEF IInv, Collected, Published, Scanned
<1>4. CASE partials[w] = lo[w] .. hi[w] - 1
  BY <1>2, <1>3, <1>4
<1>5. CASE partials[w] # lo[w] .. hi[w] - 1
  <2>1. Cardinality(partials[w]) = Room(w) /\ partials[w] \subseteq lo[w] .. hi[w] - 1
    BY <1>3, <1>5 DEF IsBest
  <2>2. lo[w] < hi[w]
    <3>1. CASE hi[w] <= lo[w]
      <4>1. lo[w] .. hi[w] - 1 = {}
        BY <1>1, <3>1
      <4> QED
        BY <1>5, <2>1, <4>1
    <3> QED
      BY <1>1, <3>1
  <2>3. /\ IsFiniteSet(lo[w] .. hi[w] - 1)
        /\ Cardinality(lo[w] .. hi[w] - 1) = hi[w] - lo[w]
    <3>1. lo[w] \in Int /\ hi[w] - 1 \in Int
      BY <1>1
    <3>2. /\ IsFiniteSet(lo[w] .. hi[w] - 1)
          /\ Cardinality(lo[w] .. hi[w] - 1) =
                IF lo[w] > hi[w] - 1 THEN 0 ELSE (hi[w] - 1) - lo[w] + 1
      BY <3>1, FS_Interval
    <3> QED
      BY <1>1, <2>2, <3>2
  <2>4. Cardinality(partials[w]) # hi[w] - lo[w]
    BY <1>5, <2>1, <2>3, FS_Subset
  <2>5. lo[w] + 1 <= Count /\ Wanted \in Nat \ {0}
    <3>1. lo[w] \in Row
      BY <1>1, <1>2, <2>2
    <3> QED
      BY <1>1, <3>1, FlatAssumption DEF Row, Wanted, Least
  <2>6. Room(w) = Wanted
    BY <1>1, <2>1, <2>2, <2>4, <2>5 DEF Room, Least
  <2> QED
    BY <1>2, <1>3, <2>1, <2>6
<1> QED
  BY <1>4, <1>5

\* What the merge holds when every partial result was given to it is the best
\* of all rows, not just of those it was given.
LEMMA Together ==
    ASSUME IInv, Split, Waited, \A w \in Hand : partials[w] \subseteq given
    PROVE  IsBest(merged, Row, Wanted)
<1>1. /\ IsBest(merged, given, Wanted) /\ given \subseteq Row /\ merged \subseteq given
      /\ query \in Query /\ Wanted \in Nat \ {0}
  BY WantedType DEF IInv, TypeOK, Merged, IsBest
<1>2. ASSUME NEW r \in Row
      PROVE  \E w \in Hand : r \in lo[w] .. hi[w] - 1
  <2>1. r < start
    BY Chunks, FlatAssumption DEF IInv, Spans, Waited, Row
  <2>2. PICK w \in Hand : lo[w] <= r /\ r < hi[w]
    BY <2>1 DEF IInv, Spans
  <2> QED
    BY <2>2 DEF IInv, TypeOK, Row
<1>3. CASE \A w \in Hand : partials[w] = lo[w] .. hi[w] - 1
  <2>1. given = Row
    BY <1>1, <1>2, <1>3
  <2> QED
    BY <1>1, <2>1
<1>4. CASE \E w \in Hand : partials[w] # lo[w] .. hi[w] - 1
  <2>1. \A S \in SUBSET Row : IsFiniteSet(S) /\ Cardinality(S) \in Nat
    BY RowsFinite
  <2>2. Cardinality(merged) = Wanted
    <3>1. PICK w \in Hand : partials[w] # lo[w] .. hi[w] - 1
      BY <1>4
    <3>2. Cardinality(partials[w]) = Wanted
      BY <3>1, FullOrAll
    <3>3. Cardinality(partials[w]) <= Cardinality(given)
      BY <1>1, <2>1, FS_Subset
    <3> QED
      BY <1>1, <2>1, <3>2, <3>3 DEF IsBest
  <2>3. ASSUME NEW m \in merged, NEW s \in Row \ merged
        PROVE  Before(query, m, s)
    <3>1. CASE s \in given
      BY <1>1, <3>1 DEF IsBest
    <3>2. CASE s \notin given
      <4>1. PICK w \in Hand : s \in lo[w] .. hi[w] - 1
        BY <1>2
      <4>2. s \notin partials[w]
        BY <3>2
      <4>3. /\ Cardinality(partials[w]) = Wanted
            /\ \A p \in partials[w] : Before(query, p, s)
        BY <4>1, <4>2, FullOrAll DEF IsBest
      <4>4. CASE partials[w] \subseteq merged
        <5>1. partials[w] = merged
          BY <1>1, <2>1, <2>2, <4>3, <4>4, FS_Subset
        <5> QED
          BY <4>3, <5>1
      <4>5. CASE ~(partials[w] \subseteq merged)
        <5>1. PICK p \in partials[w] : p \notin merged
          BY <4>5
        <5>2. p \in given /\ p \in Row /\ m \in Row
          BY <1>1
        <5>3. Before(query, m, p) /\ Before(query, p, s)
          BY <1>1, <4>3, <5>1, <5>2 DEF IsBest
        <5> QED
          BY <1>1, <5>2, <5>3, BeforeOrders
      <4> QED
        BY <4>4, <4>5
    <3> QED
      BY <3>1, <3>2
  <2> QED
    BY <1>1, <2>2, <2>3 DEF IsBest
<1> QED
  BY <1>3, <1>4

\* Without a split the only hand's collector has seen every row.
LEMMA Alone ==
    ASSUME IInv, ~Split, Waited
    PROVE  IsBest(partials[0], Row, Wanted)
<1>1. 0 \in Hand /\ Hand = {0}
  BY Division DEF Hands, Hand
<1>2. /\ IsBest(partials[0], lo[0] .. hi[0] - 1, Room(0))
      /\ lo[0] .. hi[0] - 1 \subseteq Row
      /\ Cardinality(partials[0]) = Wanted \/ partials[0] = lo[0] .. hi[0] - 1
  BY <1>1, FullOrAll
<1>3. Row \subseteq lo[0] .. hi[0] - 1
  <2> SUFFICES ASSUME NEW r \in Row PROVE r \in lo[0] .. hi[0] - 1
    OBVIOUS
  <2>1. r < start
    BY Chunks, FlatAssumption DEF IInv, Spans, Waited, Row
  <2>2. lo[0] <= r /\ r < hi[0]
    BY <1>1, <2>1 DEF IInv, Spans
  <2> QED
    BY <1>1, <2>2 DEF IInv, TypeOK, Row
<1>4. lo[0] .. hi[0] - 1 = Row
  BY <1>2, <1>3
<1>5. Cardinality(partials[0]) <= Room(0) /\ Room(0) <= (IF Wanted < 1 THEN 1 ELSE Wanted)
  <2>1. Room(0) <= (IF Wanted < 1 THEN 1 ELSE Wanted)
    BY <1>1, WantedType DEF IInv, TypeOK, Room, Least
  <2>2. Room(0) \in Nat
    BY <1>1, RoomType DEF IInv
  <2> QED
    BY <1>2, <2>1, <2>2 DEF IsBest
<1>6. CASE partials[0] = Row
  <2>1. Cardinality(partials[0]) = Count /\ Count \in Nat
    BY <1>6, RowsFinite, FlatAssumption
  <2>2. Cardinality(partials[0]) <= Wanted
    <3>1. CASE Wanted < 1
      BY <2>1, <3>1, FlatAssumption DEF Wanted, Least
    <3>2. CASE ~(Wanted < 1)
      <4>1. Room(0) \in Nat
        BY <1>1, RoomType DEF IInv
      <4> QED
        BY <1>5, <2>1, <3>2, <4>1, WantedType
    <3> QED
      BY <3>1, <3>2
  <2> QED
    BY <1>6, <2>2 DEF IsBest
<1>7. CASE partials[0] # Row
  BY <1>2, <1>4, <1>7 DEF IsBest
<1> QED
  BY <1>6, <1>7

\* SearchN returns exactly the rows Search returns, the k nearest, whatever
\* the number of workers and however they interleave.
THEOREM SearchNIsExact == Spec => []Exact
<1>1. IInv => Exact
  <2> SUFFICES ASSUME IInv, returned PROVE answer = Nearest(K)
    BY DEF Exact
  <2>1. Waited /\ query \in Query /\ answer \in SUBSET Row
    BY DEF IInv, Answered, TypeOK
  <2>2. IsBest(answer, Row, Wanted)
    BY <2>1, Together, Alone DEF IInv, Answered
  <2> QED
    BY <2>1, <2>2, BestIsNearest
<1> QED
  BY Invariance, <1>1, PTL

=============================================================================
