------------------------------- MODULE Dataset -------------------------------
(***************************************************************************)
(* The three files of a dataset, the subset command that writes them       *)
(* (src/cmd/fastvec-subset/main.go), and the benchmark that reads and      *)
(* validates them (src/internal/fvecs/fvecs.go,                            *)
(* src/cmd/fastvec-bench/main.go).                                         *)
(*                                                                         *)
(* Nothing locks the files.  A run of the subset command may be cut short  *)
(* anywhere, the next one starts over what it left, and the benchmark may  *)
(* read meanwhile.  Two runs of the command at once are left out.          *)
(*                                                                         *)
(* A file is a sequence of 32-bit words; a record is a word that holds its *)
(* dimension, and the words of the vector.  All runs cut their subsets out *)
(* of one source.                                                          *)
(***************************************************************************)
EXTENDS Ranking, Sequences

CONSTANTS
    Run,        \* runs of the subset command
    Settings,   \* their -base, -queries and -k
    Dim,        \* the dimension of the source's vectors
    MaxDim,     \* fvecs.maxDim, above which a dimension is not believed
    K           \* the benchmark's -k

ASSUME DatasetAssumption ==
    /\ Dim \in Nat \ {0} /\ MaxDim \in Nat \ {0} /\ K \in Nat \ {0}
    /\ Settings \subseteq [base : 1 .. N, queries : 1 .. N, k : Nat \ {0}]
    /\ \A s \in Settings : s.k <= s.base

VARIABLES
    file,       \* file[f]: the words of f, none if it does not exist
    sub,        \* sub[r]: the setting of run r, the file it is at, if any,
                \* and the records it has written of it
    reader,     \* the file the benchmark is at, its size when it was opened,
                \* and the words read since
    got,        \* got[f]: the words of f, once it has been read
    verdict     \* of reading and validating: "none", "accepted" or "failed"

dataVars == <<file, sub, reader, got, verdict>>

\* In the order in which they are written and read.
Files == <<"base", "query", "truth">>
FileName == {"base", "query", "truth"}

\* A word, and whose it is, for RealTruth's sake.
Word(v, by) == [v |-> v, by |-> by]
Source == [base |-> 0, queries |-> 0, k |-> 0]

\* Coordinate j of the source's vector i, told apart from all others.
Bits(i, j) == MaxDim + i * Dim + j

\* The vector that SearchN ranks j-th for query i among the first n, which it
\* does exactly (FlatSearchProofs).
Ranked(i, n, j) ==
    CHOOSE x \in 0 .. n - 1 : Cardinality({ y \in 0 .. n - 1 : Before(i, y, x) }) = j - 1

\* How many words the records have that a run writes, and how many there are.
Width(f, s) == 1 + (IF f = "truth" THEN s.k ELSE Dim)
Records(f, s) == IF f = "base" THEN s.base ELSE s.queries

\* The word that a run puts at place p of a file, from 0.
WordAt(f, s, p) ==
    LET i == p \div Width(f, s)
        j == p % Width(f, s)
    IN  IF f = "truth" THEN Word(IF j = 0 THEN s.k ELSE Ranked(i, s.base, j), s)
                       ELSE Word(IF j = 0 THEN Dim ELSE Bits(i, j), Source)

\* The first n words of the i-th record that a run writes, from 0.
Record(f, s, i, n) == [j \in 1 .. n |-> WordAt(f, s, i * Width(f, s) + j - 1)]

DataInit ==
    /\ file = [f \in FileName |-> <<>>]
    /\ sub = [r \in Run |-> [stage |-> 0, n |-> 0, s |-> Source]]
    /\ reader = [stage |-> 1, size |-> 0, words |-> <<>>]
    /\ got = [f \in FileName |-> <<>>]
    /\ verdict = "none"

-----------------------------------------------------------------------------
(* The subset command. *)

Writing(r) == sub[r].stage \in 1 .. 3
Target(r) == Files[sub[r].stage]
Complete(r) == Writing(r) /\ sub[r].n = Records(Target(r), sub[r].s)

Begin(r) ==
    /\ sub[r].stage = 0
    /\ \A o \in Run : ~Writing(o)
    /\ \E s \in Settings : sub' = [sub EXCEPT ![r] = [stage |-> 1, n |-> 0, s |-> s]]
    /\ file' = [file EXCEPT !["base"] = <<>>]
    /\ UNCHANGED <<reader, got, verdict>>

\* The next file is created; the ground truth has been computed by then.
Create(r) ==
    /\ Complete(r) /\ sub[r].stage < 3
    /\ sub' = [sub EXCEPT ![r].stage = @ + 1, ![r].n = 0]
    /\ file' = [file EXCEPT ![Files[sub[r].stage + 1]] = <<>>]
    /\ UNCHANGED <<reader, got, verdict>>

\* The first n words of the next record follow what was written.
Puts(r, n) ==
    file' = [file EXCEPT ![Target(r)] = @ \o Record(Target(r), sub[r].s, sub[r].n, n)]

Write(r) ==
    /\ Writing(r) /\ ~Complete(r)
    /\ Puts(r, Width(Target(r), sub[r].s))
    /\ sub' = [sub EXCEPT ![r].n = @ + 1]
    /\ UNCHANGED <<reader, got, verdict>>

\* A run ends with its last file, or it dies, or a write fails that may have
\* written a part of its record.
End(r) ==
    /\ Writing(r)
    /\ sub' = [sub EXCEPT ![r].stage = 4]
    /\ \/ UNCHANGED file
       \/ ~Complete(r) /\ \E n \in 1 .. Width(Target(r), sub[r].s) - 1 : Puts(r, n)
    /\ UNCHANGED <<reader, got, verdict>>

Subset(r) == Begin(r) \/ Create(r) \/ Write(r) \/ End(r)

-----------------------------------------------------------------------------
(* The benchmark's side. *)

Reads == verdict = "none" /\ reader.stage \in 1 .. 3
Name == Files[reader.stage]
Words == file[Name]

Refuse ==
    /\ verdict' = "failed"
    /\ UNCHANGED <<file, sub, reader, got>>

\* os.Open and Stat.
Open ==
    /\ Reads /\ reader.size = 0
    /\ IF Words = <<>> THEN Refuse
       ELSE /\ reader' = [reader EXCEPT !.size = Len(Words)]
            /\ UNCHANGED <<file, sub, got, verdict>>

\* Whether v may be the next word.  The first tells how long a record is, and
\* the size has to fit; each further record has to be as long.
WordOK(v) ==
    IF reader.words = <<>>
    THEN v \in 1 .. MaxDim /\ reader.size % (1 + v) = 0
    ELSE Len(reader.words) % (1 + reader.words[1].v) = 0 => v = reader.words[1].v

\* One word more; with the last one the file is done.  The file may have changed
\* since the word before was read: a read of the buffer's ends anywhere.
Gets(words) ==
    /\ IF Len(words) = reader.size
       THEN /\ got' = [got EXCEPT ![Name] = words]
            /\ reader' = [stage |-> reader.stage + 1, size |-> 0, words |-> <<>>]
       ELSE /\ reader' = [reader EXCEPT !.words = words]
            /\ UNCHANGED got
    /\ UNCHANGED <<file, sub, verdict>>

ReadWord ==
    /\ Reads /\ reader.size > 0
    /\ LET n == Len(reader.words) IN
       IF n < Len(Words) /\ WordOK(Words[n + 1].v)
       THEN Gets(Append(reader.words, Words[n + 1]))
       ELSE Refuse

\* The dimension of what was read, how many vectors it is, and the IDs of a row
\* of the ground truth.
DimOf(f) == got[f][1].v
Length(f) == Len(got[f]) \div (1 + DimOf(f))
Place(f, i, j) == (i - 1) * (1 + DimOf(f)) + 1 + j
Ids(i) == [j \in 1 .. DimOf("truth") |-> got["truth"][Place("truth", i, j)].v]

\* Every ID is a vector's; a mistake first.
IdsOffByOne(ids, count) == \A j \in DOMAIN ids : 0 <= ids[j] /\ ids[j] <= count
IdsKnown(ids, count) == \A j \in DOMAIN ids : 0 <= ids[j] /\ ids[j] < count

Valid ==
    /\ Length("truth") = Length("query")
    /\ DimOf("base") = DimOf("query")
    /\ K <= Length("base") /\ K <= DimOf("truth")
    /\ \A i \in 1 .. Length("truth") : IdsKnown(Ids(i), Length("base"))

Validate ==
    /\ verdict = "none" /\ reader.stage = 4
    /\ verdict' = IF Valid THEN "accepted" ELSE "failed"
    /\ UNCHANGED <<file, sub, reader, got>>

ReadAll == Open \/ ReadWord \/ Validate

-----------------------------------------------------------------------------

\* The vectors read of f are the source's first ones.
FromSource(f) == \A p \in DOMAIN got[f] : got[f][p] = WordAt(f, Source, p - 1)

\* The i-th row of the ground truth was written by runs with setting s, which
\* computed it over at least the vectors that were read.
Computed(s, i) ==
    /\ \A j \in 1 .. DimOf("truth") : got["truth"][Place("truth", i, j)].by = s
    /\ s.k = DimOf("truth") /\ s.base >= Length("base")

\* Whatever was cut short, started over or written while it was read: vectors
\* that the benchmark accepts are the source's, without gaps, and its recall is
\* measured against the K that are really nearest among them.  Nothing is claimed
\* of a row that was computed over fewer vectors than were read, nor of one put
\* together from two runs: the code accepts both, and their answers may be wrong.
RealTruth ==
    verdict = "accepted" =>
        /\ FromSource("base") /\ FromSource("query")
        /\ \A i \in 1 .. Length("query"), s \in Settings :
            Computed(s, i) =>
                { Ids(i)[j] : j \in 1 .. K } = Nearest(i - 1, 0 .. Length("base") - 1, K)

\* The invariant behind RealTruth.  Every word in a file, or read from one, is
\* where the run that wrote it would put it, and belongs to one of its records.
Owner(f) == IF f = "truth" THEN Settings ELSE {Source}
AWord == [v : Int, by : Settings \cup {Source}]

InPlace(f, words) ==
    /\ words \in Seq(AWord)
    /\ \A p \in 1 .. Len(words) :
        /\ words[p].by \in Owner(f)
        /\ words[p] = WordAt(f, words[p].by, p - 1)
        /\ (p - 1) \div Width(f, words[p].by) < N

\* Of the runs one at most is writing, at the end of its file.
Writes ==
    /\ sub \in [Run -> [stage : 0 .. 4, n : Nat, s : Settings \cup {Source}]]
    /\ \A r \in Run : Writing(r) =>
        /\ sub[r].s \in Settings /\ sub[r].n <= Records(Target(r), sub[r].s)
        /\ Len(file[Target(r)]) = sub[r].n * Width(Target(r), sub[r].s)
        /\ \A o \in Run : Writing(o) => o = r

\* What was read has a dimension, and what is accepted has been validated.
Headed(words) == words # <<>> /\ words[1].v \in 1 .. MaxDim
Progress ==
    /\ verdict \in {"none", "accepted", "failed"}
    /\ reader.stage \in 1 .. 4 /\ reader.size \in Nat
    /\ reader.stage < 4 => reader.words = <<>> \/ Headed(reader.words)
    /\ \A t \in 1 .. 3 : t < reader.stage => Headed(got[Files[t]])
    /\ verdict = "accepted" => reader.stage = 4 /\ Valid

DataInv ==
    /\ DOMAIN file = FileName /\ DOMAIN got = FileName
    /\ reader = [stage |-> reader.stage, size |-> reader.size, words |-> reader.words]
    /\ \A f \in FileName : InPlace(f, file[f]) /\ InPlace(f, got[f])
    /\ reader.stage \in 1 .. 3 => InPlace(Name, reader.words)
    /\ Writes
    /\ Progress

=============================================================================
