----------------------------- MODULE IndexCache -----------------------------
(***************************************************************************)
(* The index file that runs of the benchmark share: a run loads it if it   *)
(* is there, and otherwise builds the index and saves it                   *)
(* (loadOrBuild in src/cmd/fastvec-bench/main.go, with HNSW.Save and       *)
(* ValidateReuse in src/internal/index).                                   *)
(*                                                                         *)
(* Runs are processes.  They start at any time, overlap in any way, and    *)
(* may be killed or meet an I/O error at any time.  A run opens the path,  *)
(* then builds, creates the file (which empties one that is there), writes *)
(* it block by block; another run reads it block by block meanwhile.       *)
(*                                                                         *)
(* The benchmark builds sequentially, "the only mode that produces the     *)
(* same index twice", so that an index is determined by the dataset and    *)
(* the settings, and so is its file.  A file put together from two indexes *)
(* is taken for unreadable: the vectors at its end, which ValidateReuse    *)
(* compares bit for bit, are only found if no size before them is off.     *)
(* What makes a file readable in detail is the subject of Loader.          *)
(***************************************************************************)
EXTENDS Integers, Sequences, FiniteSets

CONSTANTS
    Run,          \* runs of the benchmark with one -index path
    SinglePass,   \* those with -index-load-policy single-pass
    Index,        \* the indexes asked for: records with fields data, settings
    Size,         \* Size[x]: blocks of the file of index x
    Unstorable,   \* the indexes with settings wider than the format's words
    Zeros         \* a block that was skipped when the file was written

ASSUME CacheAssumption ==
    /\ SinglePass \subseteq Run
    /\ Unstorable \subseteq Index
    /\ Zeros \notin Index
    /\ \A x \in Index : Size[x] \in Nat /\ Size[x] >= 3
    /\ \A x, y \in Index : x.data = y.data /\ x.settings = y.settings => x = y

VARIABLES
    want,     \* want[r]: the index that r's dataset and settings determine
    phase,    \* where r is, or how it ended
    at,       \* how many blocks r has read or written, and one
    found,    \* the index that the first block r read is of
    met,      \* what was at the path when r opened it
    present,  \* there is a file at the path ...
    file      \* ... with these blocks, each named by the index it belongs to

vars == <<want, phase, at, found, met, present, file>>

Phase == {"new", "reading", "building", "saving",
          "reused", "saved", "unreadable", "mismatch", "stopped", "cut"}

Init ==
    /\ want \in [Run -> Index]
    /\ phase = [r \in Run |-> "new"]
    /\ at = [r \in Run |-> 1]
    /\ found = [r \in Run |-> Zeros]
    /\ met = [r \in Run |-> "nothing"]
    /\ present = FALSE
    /\ file = <<>>

\* The file starts with all of x; what follows is never looked at.
Holds(x) == Len(file) >= Size[x] /\ \A i \in 1 .. Size[x] : file[i] = x
Complete == present /\ \E x \in Index : Holds(x)

\* A complete file that no run is about to create again.
Settled == Complete /\ \A r \in Run : phase[r] \notin {"building", "saving"}

\* What a run that opens the path now finds there.
AtPath ==
    IF Settled THEN "settled"
    ELSE IF Complete THEN "complete"
    ELSE IF \E r \in Run : phase[r] = "saving" THEN "unfinished"
    ELSE IF present THEN "fragment" ELSE "nothing"

-----------------------------------------------------------------------------

\* os.Open decides once and for all whether the run loads or builds.
Open(r) ==
    /\ phase[r] = "new"
    /\ phase' = [phase EXCEPT ![r] = IF present THEN "reading" ELSE "building"]
    /\ met' = [met EXCEPT ![r] = AtPath]
    /\ at' = [at EXCEPT ![r] = 1]
    /\ UNCHANGED <<want, found, present, file>>

\* How many blocks a load of x reads, and where the k-th one is: two passes
\* read all but the vectors, go back to the graph and read on to the end; a
\* mistake first that forgets to go back.
Reads(r, x) == IF r \in SinglePass THEN Size[x] ELSE 2 * Size[x] - 2
PlaceUnwound(x, k) == k
Place(x, k) == IF k < Size[x] THEN k ELSE k - Size[x] + 2
Position(r, x, k) == IF r \in SinglePass THEN k ELSE Place(x, k)

\* ValidateReuse.  Comparing nothing but the vectors comes first.
ReusableByData(x, y) == x.data = y.data
Reusable(x, y) == x.data = y.data /\ x.settings = y.settings

\* How a run goes on that was told its cache does not fit.  Building over it,
\* as for a missing one, comes first.
MismatchRebuilds == "building"
MismatchEnds == "mismatch"

\* The first block says which index this is.
ReadFirst(r) ==
    /\ phase[r] = "reading" /\ at[r] = 1
    /\ IF Len(file) >= 1 /\ file[1] # Zeros
       THEN /\ found' = [found EXCEPT ![r] = file[1]]
            /\ at' = [at EXCEPT ![r] = 2]
            /\ UNCHANGED phase
       ELSE phase' = [phase EXCEPT ![r] = "unreadable"] /\ UNCHANGED <<at, found>>
    /\ UNCHANGED <<want, met, present, file>>

\* The next block has to go with it; after the last one the index is validated.
ReadOn(r) ==
    LET x == found[r]
        p == Position(r, x, at[r])
    IN
    /\ phase[r] = "reading" /\ at[r] > 1
    /\ IF Len(file) >= p /\ file[p] = x
       THEN IF at[r] < Reads(r, x)
            THEN at' = [at EXCEPT ![r] = @ + 1] /\ UNCHANGED phase
            ELSE /\ phase' = [phase EXCEPT ![r] =
                        IF Reusable(x, want[r]) THEN "reused" ELSE MismatchEnds]
                 /\ at' = [at EXCEPT ![r] = 1]
       ELSE phase' = [phase EXCEPT ![r] = "unreadable"] /\ UNCHANGED at
    /\ UNCHANGED <<want, found, met, present, file>>

\* The build ends, and os.Create empties the file, whoever has made it since.
\* Save refuses settings that the format cannot hold before it writes a byte.
Create(r) ==
    /\ phase[r] = "building"
    /\ present' = TRUE
    /\ file' = <<>>
    /\ phase' = [phase EXCEPT ![r] = IF want[r] \in Unstorable THEN "cut" ELSE "saving"]
    /\ at' = [at EXCEPT ![r] = 1]
    /\ UNCHANGED <<want, found, met>>

\* The file after block p is written; what lies before it reads as zeros.
Written(p, x) ==
    LET len == IF Len(file) > p THEN Len(file) ELSE p
    IN [i \in 1 .. len |-> IF i = p THEN x ELSE IF i <= Len(file) THEN file[i] ELSE Zeros]

\* Save writes its next block; a mistake first that forgets the last Flush.
LastBlockUnflushed(x) == Size[x] - 1
LastBlock(x) == Size[x]
Write(r) ==
    /\ phase[r] = "saving"
    /\ file' = Written(at[r], want[r])
    /\ IF at[r] < LastBlock(want[r])
       THEN at' = [at EXCEPT ![r] = @ + 1] /\ UNCHANGED phase
       ELSE at' = [at EXCEPT ![r] = 1] /\ phase' = [phase EXCEPT ![r] = "saved"]
    /\ UNCHANGED <<want, found, met, present>>

\* The run is killed, or reading, creating or writing the file fails.
Stop(r) ==
    /\ phase[r] \in {"reading", "building", "saving"}
    /\ phase' = [phase EXCEPT ![r] = IF @ = "saving" THEN "cut" ELSE "stopped"]
    /\ UNCHANGED <<want, at, found, met, present, file>>

Next ==
    \E r \in Run :
        \/ Open(r)
        \/ ReadFirst(r)
        \/ ReadOn(r)
        \/ Create(r)
        \/ Write(r)
        \/ Stop(r)

Spec == Init /\ [][Next]_vars

-----------------------------------------------------------------------------

TypeOK ==
    /\ want \in [Run -> Index]
    /\ phase \in [Run -> Phase]
    /\ at \in [Run -> Nat \ {0}]
    /\ found \in [Run -> Index \cup {Zeros}]
    /\ met \in [Run -> {"nothing", "fragment", "unfinished", "complete", "settled"}]
    /\ present \in BOOLEAN
    /\ file \in Seq(Index \cup {Zeros})

\* Runs that race for a missing file truncate each other's and leave holes in
\* it, but once none of them is writing any more it is a complete index after
\* all, unless one was cut short or two of them saved different indexes.
IntactUnlessCut ==
    LET saved == { r \in Run : phase[r] = "saved" } IN
    /\ present
    /\ \A r \in Run : phase[r] \notin {"saving", "cut"}
    /\ \A r, s \in saved : want[r] = want[s]
    => Complete

\* A complete file stays as it is once no run is left that found none: no run
\* that opened it ever creates it again, also if it has no use for it.
CacheUntouched == Settled => Settled' /\ file' = file
SettledStays == [][CacheUntouched]_vars

\* A run that starts when the file is settled reads a whole index whatever the
\* other runs do, and uses it if and only if it is the one it would have built.
SettledIsReused ==
    \A r \in Run : met[r] = "settled" =>
        /\ phase[r] \in {"reading", "reused", "mismatch", "stopped"}
        /\ phase[r] = "reused" => found[r] = want[r]
        /\ phase[r] = "mismatch" => found[r] # want[r]

\* "loadOrBuild reads a saved index when one is there, otherwise builds and
\* saves it": what an interrupted save left behind is not a saved index, so a
\* run that finds it has no reason to fail.
ReadsOrBuilds == \A r \in Run : met[r] = "fragment" => phase[r] # "unreadable"

-----------------------------------------------------------------------------
\* What the proofs rest on.

Creators == { r \in Run : phase[r] \in {"saving", "saved", "cut"} }

\* A run that is saving has yet to write block i.
Pending(i) == \E r \in Run : phase[r] = "saving" /\ at[r] <= i

\* If every run that creates the file saves the same index and none is cut
\* short, each block of it is in place or pending, also after a truncation.
Covered ==
    /\ present <=> Creators # {}
    /\ \A r \in Run : phase[r] = "saving" => at[r] <= Size[want[r]]
    /\ \A r \in Creators :
        (\A s \in Creators : phase[s] # "cut" /\ want[s] = want[r]) =>
            \A i \in 1 .. Size[want[r]] :
                (i <= Len(file) /\ file[i] = want[r]) \/ Pending(i)

\* What a run has read of a settled file is still the file it is reading, and
\* is what it judges in the end.
OnSettled(r) ==
    met[r] = "settled" =>
        /\ Settled
        /\ phase[r] \in {"reading", "reused", "mismatch", "stopped"}
        /\ phase[r] = "reading" =>
            at[r] = 1 \/ (found[r] \in Index /\ Holds(found[r]) /\ at[r] <= Reads(r, found[r]))
        /\ phase[r] = "reused" => found[r] = want[r]
        /\ phase[r] = "mismatch" => found[r] # want[r]

Steady == \A r \in Run : OnSettled(r)

IInv == TypeOK /\ Covered /\ Steady

=============================================================================
