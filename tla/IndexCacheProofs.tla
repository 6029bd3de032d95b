--------------------------- MODULE IndexCacheProofs ---------------------------
(***************************************************************************)
(* Proofs about IndexCache, for any number of runs, any indexes and any    *)
(* lengths of their files.                                                 *)
(***************************************************************************)
EXTENDS IndexCache, SequenceTheorems, TLAPS

\* What a write leaves in the file: block p and all that was there elsewhere.
LEMMA WrittenKeeps ==
    ASSUME NEW x \in Index, NEW p \in Nat \ {0}, file \in Seq(Index \cup {Zeros})
    PROVE  /\ Written(p, x) \in Seq(Index \cup {Zeros})
           /\ Len(Written(p, x)) \in Nat /\ Len(file) \in Nat
           /\ Len(Written(p, x)) >= p /\ Len(Written(p, x)) >= Len(file)
           /\ Written(p, x)[p] = x
           /\ \A i \in 1 .. Len(file) : i # p => Written(p, x)[i] = file[i]
<1> DEFINE len == IF Len(file) > p THEN Len(file) ELSE p
           block(i) == IF i = p THEN x ELSE IF i <= Len(file) THEN file[i] ELSE Zeros
<1>1. Len(file) \in Nat /\ \A i \in 1 .. Len(file) : file[i] \in Index \cup {Zeros}
  BY LenProperties, ElementOfSeq
<1>2. len \in Nat /\ len >= p /\ len >= Len(file)
  BY <1>1
<1>3. \A i \in 1 .. len : block(i) \in Index \cup {Zeros}
  BY <1>1, <1>2
<1>4. Written(p, x) = [i \in 1 .. len |-> block(i)]
  BY DEF Written
<1> HIDE DEF len
<1>5. /\ [i \in 1 .. len |-> block(i)] \in Seq(Index \cup {Zeros})
      /\ Len([i \in 1 .. len |-> block(i)]) = len
  <2>1. [i \in 1 .. len |-> block(i)] \in [1 .. len -> Index \cup {Zeros}]
    BY <1>3
  <2> HIDE DEF block
  <2> QED
    BY <1>2, <2>1, SeqDef, LenProperties
<1>6. p \in 1 .. len /\ \A i \in 1 .. Len(file) : i \in 1 .. len
  BY <1>1, <1>2
<1> QED
  BY <1>1, <1>2, <1>4, <1>5, <1>6

\* Every block a load reads is one of the file's.
LEMMA PositionInFile ==
    ASSUME NEW r \in Run, NEW x \in Index, NEW k \in Nat \ {0}, k <= Reads(r, x)
    PROVE  Position(r, x, k) \in 1 .. Size[x]
<1>1. Size[x] \in Nat /\ Size[x] >= 3
  BY CacheAssumption
<1> QED
  BY <1>1 DEF Reads, Position, Place

\* Two indexes are never both at the start of one file.
LEMMA HeldOnce ==
    ASSUME NEW x \in Index, NEW y \in Index, Holds(x), file[1] = y
    PROVE  x = y
BY CacheAssumption DEF Holds

LEMMA InitHolds == Init => IInv
<1> SUFFICES ASSUME Init PROVE IInv
  OBVIOUS
<1>1. <<>> \in Seq(Index \cup {Zeros})
  BY EmptySeq
<1>2. TypeOK
  <2>1. want \in [Run -> Index] /\ present \in BOOLEAN
    BY DEF Init
  <2>5. at \in [Run -> Nat \ {0}]
    BY DEF Init
  <2>6. found \in [Run -> Index \cup {Zeros}]
    BY DEF Init
  <2>2. phase \in [Run -> Phase]
    BY DEF Init, Phase
  <2>3. met \in [Run -> {"nothing", "fragment", "unfinished", "complete", "settled"}]
    BY DEF Init
  <2>4. file \in Seq(Index \cup {Zeros})
    BY <1>1 DEF Init
  <2> QED
    BY <2>1, <2>2, <2>3, <2>4, <2>5, <2>6 DEF TypeOK
<1>3. Covered /\ Steady
  BY DEF Init, Covered, Creators, Steady, OnSettled
<1> QED
  BY <1>2, <1>3 DEF IInv

\* A file that no run will create again is left alone, whatever happens.
LEMMA SettledKept ==
    ASSUME TypeOK, [Next]_vars, Settled
    PROVE  Settled' /\ file' = file /\ present' = present
<1>1. present /\ \A r \in Run : phase[r] \notin {"building", "saving"}
  BY DEF Settled, Complete
<1>2. CASE UNCHANGED vars
  BY <1>2 DEF vars, Settled, Complete, Holds
<1>3. ASSUME NEW r \in Run,
             Open(r) \/ ReadFirst(r) \/ ReadOn(r) \/ Create(r) \/ Write(r) \/ Stop(r)
      PROVE  Settled' /\ file' = file /\ present' = present
  <2>1. file' = file /\ present' = present
    BY <1>1, <1>3 DEF Open, ReadFirst, ReadOn, Create, Write, Stop
  <2>2. \A s \in Run : phase'[s] \notin {"building", "saving"}
    BY <1>1, <1>3
       DEF TypeOK, Open, ReadFirst, ReadOn, Create, Write, Stop, MismatchEnds
  <2> QED
    BY <2>1, <2>2 DEF Settled, Complete, Holds
<1> QED
  BY <1>2, <1>3 DEF Next

\* Each action keeps the types.
LEMMA TypeKept == ASSUME TypeOK, Next PROVE TypeOK'
<1>1. PICK r \in Run :
        Open(r) \/ ReadFirst(r) \/ ReadOn(r) \/ Create(r) \/ Write(r) \/ Stop(r)
  BY DEF Next
<1> USE DEF TypeOK
<1>2. want' = want
  BY <1>1 DEF Open, ReadFirst, ReadOn, Create, Write, Stop
<1>3. phase' \in [Run -> Phase]
  BY <1>1 DEF Open, ReadFirst, ReadOn, Create, Write, Stop, MismatchEnds, Phase
<1>4. at' \in [Run -> Nat \ {0}]
  BY <1>1 DEF Open, ReadFirst, ReadOn, Create, Write, Stop
<1>5. found' \in [Run -> Index \cup {Zeros}]
  <2>1. CASE ReadFirst(r)
    <3>1. Len(file) \in Nat
      BY LenProperties
    <3>2. Len(file) >= 1 => file[1] \in Index \cup {Zeros}
      BY <3>1, ElementOfSeq
    <3> QED
      BY <2>1, <3>2 DEF ReadFirst
  <2> QED
    BY <1>1, <2>1 DEF Open, ReadOn, Create, Write, Stop
<1>6. met' \in [Run -> {"nothing", "fragment", "unfinished", "complete", "settled"}]
  BY <1>1 DEF Open, AtPath, ReadFirst, ReadOn, Create, Write, Stop
<1>7. present' \in BOOLEAN
  BY <1>1 DEF Open, ReadFirst, ReadOn, Create, Write, Stop
<1>8. file' \in Seq(Index \cup {Zeros})
  <2>1. CASE Create(r)
    BY <2>1, EmptySeq DEF Create
  <2>2. CASE Write(r)
    <3>1. want[r] \in Index /\ at[r] \in Nat \ {0} /\ file' = Written(at[r], want[r])
      BY <2>2 DEF Write
    <3> QED
      BY <3>1, WrittenKeeps
  <2> QED
    BY <1>1, <2>1, <2>2 DEF Open, ReadFirst, ReadOn, Stop
<1> QED
  BY <1>2, <1>3, <1>4, <1>5, <1>6, <1>7, <1>8

\* A step that creates or writes nothing disturbs no block.
LEMMA CoveredElsewhere ==
    ASSUME TypeOK, Covered, NEW r \in Run,
           Open(r) \/ ReadFirst(r) \/ ReadOn(r) \/ (Stop(r) /\ phase[r] # "saving")
    PROVE  Covered'
<1>1. /\ want' = want /\ present' = present /\ file' = file
      /\ phase[r] \notin {"saving", "saved", "cut"}
      /\ phase'[r] \notin {"saving", "saved", "cut"}
      /\ \A s \in Run \ {r} : phase'[s] = phase[s] /\ at'[s] = at[s]
  BY DEF TypeOK, Open, ReadFirst, ReadOn, Stop, MismatchEnds
<1>2. \A s \in Run :
        /\ phase'[s] = "saving" <=> phase[s] = "saving"
        /\ phase'[s] = "cut" <=> phase[s] = "cut"
        /\ phase[s] = "saving" => at'[s] = at[s]
  BY <1>1
<1>3. Creators' = Creators
  BY <1>1 DEF Creators
<1>4. \A i \in Nat : Pending(i)' <=> Pending(i)
  BY <1>2 DEF Pending
<1>5. present' <=> Creators' # {}
  BY <1>1, <1>3 DEF Covered
<1>6. \A s \in Run : phase'[s] = "saving" => at'[s] <= Size[want'[s]]
  BY <1>1, <1>2 DEF Covered
<1>7. ASSUME NEW s \in Creators',
             \A t \in Creators' : phase'[t] # "cut" /\ want'[t] = want'[s],
             NEW i \in 1 .. Size[want'[s]]
      PROVE  (i <= Len(file') /\ file'[i] = want'[s]) \/ Pending(i)'
  <2>1. s \in Creators /\ \A t \in Creators : phase[t] # "cut" /\ want[t] = want[s]
    BY <1>1, <1>2, <1>3, <1>7 DEF Creators
  <2>2. i \in 1 .. Size[want[s]] /\ i \in Nat
    BY <1>1, <1>7
  <2>3. (i <= Len(file) /\ file[i] = want[s]) \/ Pending(i)
    BY <2>1, <2>2 DEF Covered
  <2> QED
    BY <1>1, <1>4, <2>2, <2>3
<1> QED
  BY <1>5, <1>6, <1>7 DEF Covered

\* A truncation undoes every block, but makes every one pending as well.
LEMMA CoveredByCreate ==
    ASSUME TypeOK, Covered, NEW r \in Run, Create(r)
    PROVE  Covered'
<1>1. /\ phase[r] = "building" /\ at'  = [at EXCEPT ![r] = 1] /\ want' = want
      /\ present' = TRUE
      /\ phase' = [phase EXCEPT ![r] = IF want[r] \in Unstorable THEN "cut" ELSE "saving"]
  BY DEF Create
<1>2. r \in Creators'
  BY <1>1 DEF TypeOK, Creators
<1>3. \A s \in Run : phase'[s] = "saving" => at'[s] <= Size[want'[s]]
  BY <1>1, CacheAssumption DEF TypeOK, Covered
<1>4. ASSUME phase'[r] # "cut", NEW i \in Nat \ {0} PROVE Pending(i)'
  <2>1. phase'[r] = "saving" /\ at'[r] = 1
    BY <1>1, <1>4 DEF TypeOK
  <2> QED
    BY <2>1 DEF Pending
<1> QED
  <2>1. ASSUME NEW s \in Creators', \A t \in Creators' : phase'[t] # "cut",
               NEW i \in 1 .. Size[want'[s]]
        PROVE  Pending(i)'
    <3>1. i \in Nat \ {0}
      BY CacheAssumption DEF TypeOK, Creators
    <3> QED
      BY <1>2, <1>4, <2>1, <3>1
  <2>2. present' <=> Creators' # {}
    BY <1>1, <1>2
  <2> QED
    BY <1>3, <2>1, <2>2 DEF Covered

\* The block that a write no longer owes is the one it has put in place.
LEMMA CoveredByWrite ==
    ASSUME TypeOK, Covered, NEW r \in Run, Write(r)
    PROVE  Covered'
<1> DEFINE p == at[r]
<1>1. /\ phase[r] = "saving" /\ want' = want /\ present' = present
      /\ file' = Written(p, want[r]) /\ p \in Nat \ {0} /\ want[r] \in Index
      /\ phase' = [phase EXCEPT ![r] = phase'[r]] /\ at' = [at EXCEPT ![r] = at'[r]]
      /\ \/ p < Size[want[r]] /\ at'[r] = p + 1 /\ phase'[r] = "saving"
         \/ ~(p < Size[want[r]]) /\ phase'[r] = "saved"
  BY DEF Write, LastBlock, TypeOK
<1>2. /\ Len(file') \in Nat /\ Len(file) \in Nat /\ Len(file') >= p
      /\ Len(file') >= Len(file) /\ file'[p] = want[r]
      /\ \A i \in 1 .. Len(file) : i # p => file'[i] = file[i]
  BY <1>1, WrittenKeeps DEF TypeOK
<1>3. \A s \in Run \ {r} : phase'[s] = phase[s] /\ at'[s] = at[s]
  BY <1>1 DEF TypeOK
<1>4. /\ Creators' = Creators /\ r \in Creators
      /\ \A s \in Run : phase'[s] = "cut" <=> phase[s] = "cut"
  BY <1>1, <1>3 DEF Creators
<1>5. \A s \in Run : phase'[s] = "saving" => at'[s] <= Size[want'[s]]
  BY <1>1, <1>3, CacheAssumption DEF Covered, TypeOK
<1>6. ASSUME NEW s \in Creators,
             \A t \in Creators : phase[t] # "cut" /\ want[t] = want[s],
             NEW i \in 1 .. Size[want[s]]
      PROVE  (i <= Len(file') /\ file'[i] = want[s]) \/ Pending(i)'
  <2>1. want[s] = want[r] /\ Size[want[s]] \in Nat /\ i \in Nat \ {0} /\ i <= Size[want[r]]
    BY <1>1, <1>4, <1>6, CacheAssumption
  <2>2. CASE i = p
    BY <1>2, <2>1, <2>2
  <2>3. CASE i # p /\ i <= Len(file) /\ file[i] = want[s]
    BY <1>2, <2>1, <2>3
  <2>4. CASE i # p /\ Pending(i)
    <3>1. PICK t \in Run : phase[t] = "saving" /\ at[t] <= i
      BY <2>4 DEF Pending
    <3>2. CASE t = r
      <4>1. p < i /\ i <= Size[want[r]]
        BY <1>1, <2>1, <2>4, <3>1, <3>2
      <4>2. p + 1 <= i /\ p < Size[want[r]]
        BY <1>1, <2>1, <4>1
      <4> QED
        BY <1>1, <4>2 DEF Pending
    <3>3. CASE t # r
      BY <1>3, <3>1, <3>3 DEF Pending
    <3> QED
      BY <3>2, <3>3
  <2> QED
    BY <1>6, <2>2, <2>3, <2>4 DEF Covered
<1> QED
  <2>1. present' <=> Creators' # {}
    BY <1>1, <1>4 DEF Covered
  <2>2. ASSUME NEW s \in Creators',
               \A t \in Creators' : phase'[t] # "cut" /\ want'[t] = want'[s],
               NEW i \in 1 .. Size[want'[s]]
        PROVE  (i <= Len(file') /\ file'[i] = want'[s]) \/ Pending(i)'
    <3>1. s \in Creators /\ \A t \in Creators : phase[t] # "cut" /\ want[t] = want[s]
      BY <1>1, <1>4, <2>2 DEF Creators
    <3>2. i \in 1 .. Size[want[s]] /\ want'[s] = want[s]
      BY <1>1, <2>2
    <3> QED
      BY <1>6, <3>1, <3>2
  <2> QED
    BY <1>5, <2>1, <2>2 DEF Covered

LEMMA CoveredKept == ASSUME TypeOK, Covered, Next PROVE Covered'
<1>1. PICK r \in Run :
        Open(r) \/ ReadFirst(r) \/ ReadOn(r) \/ Create(r) \/ Write(r) \/ Stop(r)
  BY DEF Next
<1>2. CASE Stop(r) /\ phase[r] = "saving"
  <2>1. /\ want' = want /\ present' = present /\ at' = at
        /\ phase' = [phase EXCEPT ![r] = "cut"]
    BY <1>2 DEF Stop
  <2>2. Creators' = Creators /\ r \in Creators /\ phase'[r] = "cut"
    BY <1>2, <2>1 DEF TypeOK, Creators
  <2>3. \A s \in Run : phase'[s] = "saving" => phase[s] = "saving"
    BY <2>1 DEF TypeOK
  <2> QED
    BY <2>1, <2>2, <2>3 DEF Covered
<1> QED
  BY <1>1, <1>2, CoveredElsewhere, CoveredByCreate, CoveredByWrite

\* The other runs' steps do not change what a run takes a settled file for.
LEMMA OthersSteady ==
    ASSUME TypeOK, [Next]_vars, NEW s \in Run, OnSettled(s),
           want' = want, met'[s] = met[s], phase'[s] = phase[s], at'[s] = at[s],
           found'[s] = found[s]
    PROVE  OnSettled(s)'
<1> SUFFICES ASSUME met'[s] = "settled" PROVE OnSettled(s)'
  BY DEF OnSettled
<1>1. Settled /\ OnSettled(s) /\ met[s] = "settled"
  BY DEF OnSettled
<1>2. Settled' /\ file' = file
  BY <1>1, SettledKept
<1>3. \A x \in Index : Holds(x)' <=> Holds(x)
  BY <1>2 DEF Holds
<1>4. /\ phase'[s] \in {"reading", "reused", "mismatch", "stopped"}
      /\ phase'[s] = "reused" => found'[s] = want'[s]
      /\ phase'[s] = "mismatch" => found'[s] # want'[s]
  BY <1>1 DEF OnSettled
<1>5. phase'[s] = "reading" =>
        at'[s] = 1 \/ (/\ found'[s] \in Index /\ Holds(found[s])'
                      /\ at'[s] <= Reads(s, found'[s]))
  <2>1. SUFFICES ASSUME phase[s] = "reading", at[s] # 1
                 PROVE  /\ found'[s] \in Index /\ Holds(found[s])'
                        /\ at'[s] <= Reads(s, found'[s])
    OBVIOUS
  <2>2. found[s] \in Index /\ Holds(found[s]) /\ at[s] <= Reads(s, found[s])
    BY <1>1, <2>1 DEF OnSettled
  <2>3. Holds(found[s])'
    BY <1>2, <2>2 DEF Holds
  <2> QED
    BY <2>2, <2>3
<1> QED
  BY <1>2, <1>4, <1>5 DEF OnSettled

\* A run that meets a settled file starts at its first block, ...
LEMMA OpenSteady ==
    ASSUME TypeOK, NEW r \in Run, Open(r)
    PROVE  OnSettled(r)'
<1>1. /\ at'[r] = 1 /\ met'[r] = AtPath /\ file' = file /\ present' = present
      /\ phase' = [phase EXCEPT ![r] = IF present THEN "reading" ELSE "building"]
  BY DEF Open, TypeOK
<1> SUFFICES ASSUME met'[r] = "settled" PROVE OnSettled(r)'
  BY DEF OnSettled
<1>2. Settled
  BY <1>1 DEF AtPath
<1>3. present /\ phase'[r] = "reading"
  BY <1>1, <1>2 DEF Settled, Complete, TypeOK
<1>4. Settled'
  BY <1>2, SettledKept DEF Next
<1> QED
  BY <1>1, <1>3, <1>4 DEF OnSettled

\* ... takes the file for the index it is of, ...
LEMMA ReadFirstSteady ==
    ASSUME TypeOK, NEW r \in Run, OnSettled(r), ReadFirst(r)
    PROVE  OnSettled(r)'
<1>1. met' = met /\ file' = file /\ phase[r] = "reading"
  BY DEF ReadFirst
<1> SUFFICES ASSUME met'[r] = "settled" PROVE OnSettled(r)'
  BY DEF OnSettled
<1>2. Settled
  BY <1>1 DEF OnSettled
<1>3. Settled'
  BY <1>2, SettledKept DEF Next
<1>4. PICK x \in Index : Holds(x)
  BY <1>2 DEF Settled, Complete
<1>5. Size[x] \in Nat /\ Size[x] >= 3 /\ Len(file) \in Nat /\ x # Zeros
  BY CacheAssumption, LenProperties DEF TypeOK
<1>6. Len(file) >= 1 /\ file[1] = x
  BY <1>4, <1>5 DEF Holds
<1>7. found'[r] = x /\ at'[r] = 2 /\ phase' = phase
  BY <1>5, <1>6 DEF ReadFirst, TypeOK
<1>8. at'[r] <= Reads(r, x)
  BY <1>5, <1>7 DEF Reads
<1>9. Holds(x)'
  BY <1>1, <1>4 DEF Holds
<1>10. Holds(found[r])'
  BY <1>7, <1>9 DEF Holds
<1> QED
  BY <1>1, <1>3, <1>7, <1>8, <1>10 DEF OnSettled

\* ... finds each of its blocks in place, and judges the whole of it.
LEMMA ReadOnSteady ==
    ASSUME TypeOK, NEW r \in Run, OnSettled(r), ReadOn(r)
    PROVE  OnSettled(r)'
<1> DEFINE x == found[r]
           p == Position(r, x, at[r])
<1>1. met' = met /\ file' = file /\ found' = found /\ want' = want
      /\ phase[r] = "reading" /\ at[r] > 1 /\ at[r] \in Nat /\ want[r] \in Index
  BY DEF ReadOn, TypeOK
<1> SUFFICES ASSUME met'[r] = "settled" PROVE OnSettled(r)'
  BY DEF OnSettled
<1>2. Settled /\ x \in Index /\ Holds(x) /\ at[r] <= Reads(r, x)
  BY <1>1 DEF OnSettled
<1>3. Settled'
  BY <1>2, SettledKept DEF Next
<1>4. p \in 1 .. Size[x]
  <2>1. at[r] \in Nat \ {0}
    BY <1>1
  <2> QED
    BY <1>2, <2>1, PositionInFile
<1>5. Len(file) >= p /\ file[p] = x
  <2>1. Len(file) \in Nat /\ Size[x] \in Nat
    BY <1>2, CacheAssumption, LenProperties DEF TypeOK
  <2> QED
    BY <1>2, <1>4, <2>1 DEF Holds
<1>6. \/ at[r] < Reads(r, x) /\ at'[r] = at[r] + 1 /\ phase' = phase
      \/ phase'[r] = IF Reusable(x, want[r]) THEN "reused" ELSE "mismatch"
  BY <1>5 DEF ReadOn, TypeOK, MismatchEnds
<1>7. Reusable(x, want[r]) <=> x = want[r]
  BY <1>1, <1>2, CacheAssumption DEF Reusable
<1>8. Holds(found[r])'
  BY <1>1, <1>2 DEF Holds
<1>9. CASE at[r] < Reads(r, x) /\ at'[r] = at[r] + 1 /\ phase' = phase
  <2>1. Reads(r, x) \in Nat
    <3>1. Size[x] \in Nat /\ Size[x] >= 3
      BY <1>2, CacheAssumption
    <3> QED
      BY <3>1 DEF Reads
  <2>2. at'[r] <= Reads(r, found'[r])
    BY <1>1, <1>9, <2>1
  <2> QED
    BY <1>1, <1>2, <1>3, <1>8, <1>9, <2>2 DEF OnSettled
<1>10. CASE phase'[r] = IF Reusable(x, want[r]) THEN "reused" ELSE "mismatch"
  BY <1>1, <1>3, <1>7, <1>10 DEF OnSettled
<1> QED
  BY <1>6, <1>9, <1>10

LEMMA SteadyKept == ASSUME TypeOK, Steady, Next PROVE Steady'
<1>1. PICK r \in Run :
        Open(r) \/ ReadFirst(r) \/ ReadOn(r) \/ Create(r) \/ Write(r) \/ Stop(r)
  BY DEF Next
<1>2. want' = want
  BY <1>1 DEF Open, ReadFirst, ReadOn, Create, Write, Stop
<1>3. ASSUME NEW s \in Run, s # r PROVE OnSettled(s)'
  <2>1. /\ met'[s] = met[s] /\ phase'[s] = phase[s] /\ at'[s] = at[s]
        /\ found'[s] = found[s]
    BY <1>1, <1>3 DEF TypeOK, Open, ReadFirst, ReadOn, Create, Write, Stop
  <2> QED
    BY <1>2, <2>1, OthersSteady DEF Steady
<1>4. OnSettled(r)'
  <2>1. OnSettled(r)
    BY DEF Steady
  <2>2. CASE Create(r) \/ Write(r)
    <3>1. met[r] # "settled" /\ met' = met
      BY <2>1, <2>2 DEF OnSettled, Create, Write
    <3> QED
      BY <3>1 DEF OnSettled
  <2>3. CASE Stop(r)
    <3>1. met' = met
      BY <2>3 DEF Stop
    <3>2. CASE met[r] = "settled"
      <4>1. Settled'
        BY <2>1, <3>2, SettledKept DEF OnSettled
      <4>2. phase'[r] = "stopped"
        BY <2>1, <2>3, <3>2 DEF OnSettled, Stop, TypeOK
      <4> QED
        BY <4>1, <4>2 DEF OnSettled
    <3> QED
      BY <3>1, <3>2 DEF OnSettled
  <2> QED
    BY <1>1, <2>1, <2>2, <2>3, OpenSteady, ReadFirstSteady, ReadOnSteady
<1> QED
  BY <1>3, <1>4 DEF Steady

LEMMA StepKeeps == IInv /\ [Next]_vars => IInv'
<1>1. CASE UNCHANGED vars
  BY <1>1 DEF vars, IInv, TypeOK, Covered, Creators, Pending, Steady, OnSettled,
              Settled, Complete, Holds
<1>2. CASE Next
  BY <1>2, TypeKept, CoveredKept, SteadyKept DEF IInv
<1> QED
  BY <1>1, <1>2

\* The inductive invariant: the types, what each block of the file owes to the
\* runs that create it, and what a run has seen of a file that is settled.
THEOREM Invariance == Spec => []IInv
BY InitHolds, StepKeeps, PTL DEF Spec

\* Runs of loadOrBuild that race for a missing cache file and save the same
\* index leave a complete one once they are done, unless one is cut short,
\* although each truncates what another has written.
THEOREM IntactAfterRaces == Spec => []IntactUnlessCut
<1>1. ASSUME IInv PROVE IntactUnlessCut
  <2> SUFFICES ASSUME present, \A r \in Run : phase[r] \notin {"saving", "cut"},
                      \A r, s \in { t \in Run : phase[t] = "saved" } : want[r] = want[s]
               PROVE  Complete
    BY DEF IntactUnlessCut
  <2>1. PICK r \in Creators : TRUE
    BY <1>1 DEF IInv, Covered
  <2>2. \A s \in Creators : phase[s] = "saved" /\ want[s] = want[r]
    BY DEF Creators
  <2>3. \A i \in 1 .. Size[want[r]] : i <= Len(file) /\ file[i] = want[r]
    BY <1>1, <2>2 DEF IInv, Covered, Pending
  <2>4. want[r] \in Index /\ Len(file) \in Nat
    BY <1>1, LenProperties DEF IInv, TypeOK, Creators
  <2>5. Size[want[r]] \in 1 .. Size[want[r]]
    BY <2>4, CacheAssumption
  <2>6. Holds(want[r])
    BY <2>3, <2>4, <2>5 DEF Holds
  <2> QED
    BY <2>4, <2>6 DEF Complete
<1> QED
  BY <1>1, Invariance, PTL

\* A run that opens a settled cache file loads all of one index, and
\* ValidateReuse accepts it exactly if it is the index that the run would build.
THEOREM SettledReused == Spec => []SettledIsReused
<1>1. IInv => SettledIsReused
  BY DEF IInv, Steady, OnSettled, SettledIsReused
<1> QED
  BY <1>1, Invariance, PTL

\* Once no run is left that found no file, none truncates or writes the file,
\* also a run whose ValidateReuse has refused it.
THEOREM SettledNeverTouched == Spec => SettledStays
<1>1. IInv /\ [Next]_vars => [CacheUntouched]_vars
  BY SettledKept DEF IInv, CacheUntouched
<1> QED
  BY <1>1, Invariance, PTL DEF Spec, SettledStays

=============================================================================
