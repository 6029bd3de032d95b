------------------------------- MODULE Loader -------------------------------
(***************************************************************************)
(* LoadHNSW: reading an index back, in one pass over its graph or in two   *)
(* (src/internal/index/store.go).                                          *)
(*                                                                         *)
(* The input is arbitrary: every word read may have any value, whatever    *)
(* was read at the same place before, and every read may come up short.    *)
(* This covers each file there can be, and one that is rewritten while it  *)
(* is loaded: the first pass fixes how the bottom layer is laid out, the   *)
(* second fills it in.  Words are unsigned and as wide as int32.  What the *)
(* coordinates of the vectors are is left out, and so are the settings     *)
(* that no check but HeaderOK looks at.                                    *)
(***************************************************************************)
EXTENDS Integers, Sequences

CONSTANTS
    MaxInt,        \* largest int32
    MaxByte,       \* largest byte: 255
    MaxElements,   \* maxElements
    Headers        \* the headers a file may have

Word == 0 .. 2 * MaxInt + 1
Byte == 0 .. MaxByte

Header == [dim : Word, count : Word, m : Word, mMax : Word, mMax0 : Word,
           efConstruct : Word, maxLevel : Word, entry : Word, flags : Word]

ASSUME LoaderAssumption ==
    /\ MaxInt \in Nat \ {0} /\ MaxByte \in Nat \ {0} /\ MaxElements \in Nat
    /\ Headers \subseteq Header

VARIABLES
    phase,     \* what is read next, or how the load ended
    twoPass,   \* the input can seek, and SinglePass is not set
    head,      \* the header
    levels,    \* levels[i]: how many layers node i occupies
    node,      \* the list being read (or packed) is node's ...
    layer,     \* ... at this layer
    left,      \* how many IDs of it are still to be read
    owed,      \* IDs announced by the size words of this pass, less those read
    offsets,   \* offsets[i]: where node i's bottom list starts
    links,     \* links[i][l]: the neighbours read so far
    stored,    \* how many coordinates were read
    taken      \* the words that links was read from, for SavesBack's sake

vars == <<phase, twoPass, head, levels, node, layer, left, owed, offsets, links, stored, taken>>

NoHeader == [dim |-> 0, count |-> 0, m |-> 0, mMax |-> 0, mMax0 |-> 0,
             efConstruct |-> 0, maxLevel |-> 0, entry |-> 0, flags |-> 0]

Node == 0 .. head.count - 1

Init ==
    /\ phase = "header"
    /\ twoPass \in BOOLEAN
    /\ head = NoHeader
    /\ levels = <<>> /\ offsets = <<>> /\ links = <<>> /\ taken = <<>>
    /\ node = 0 /\ layer = 0 /\ left = 0 /\ owed = 0 /\ stored = 0

Ended == phase \in {"loaded", "failed"}

\* A load that fails returns nothing of what it has read.
Fail ==
    /\ phase' = "failed"
    /\ head' = NoHeader
    /\ levels' = <<>> /\ offsets' = <<>> /\ links' = <<>> /\ taken' = <<>>
    /\ node' = 0 /\ layer' = 0 /\ left' = 0 /\ owed' = 0 /\ stored' = 0
    /\ UNCHANGED twoPass

\* The input ends too early, in the middle of a word even, or cannot be read.
ShortRead == phase \in {"header", "levels", "scan", "graph"} /\ Fail

-----------------------------------------------------------------------------

\* count * dim, computed in 64 bits, where two words cannot overflow.
Elements(h) == h.dim * h.count

SingleLayer(h) == h.flags % 2 = 1

HeaderOK(h) ==
    /\ h.dim # 0 /\ h.count # 0
    /\ Elements(h) <= MaxElements /\ h.count <= MaxInt
    /\ h.m >= 2 /\ h.mMax >= h.m /\ h.mMax0 >= h.m /\ h.efConstruct >= h.m
    /\ h.entry < h.count
    /\ h.maxLevel < MaxByte
    /\ SingleLayer(h) => h.maxLevel = 0
    /\ h.flags < 4   \* flagSingleLayer | flagNearestM

ReadHeader ==
    /\ phase = "header"
    /\ \E h \in Headers :
        IF HeaderOK(h)
        THEN /\ phase' = "levels" /\ head' = h
             /\ UNCHANGED <<twoPass, levels, node, layer, left, owed, offsets, links, stored, taken>>
        ELSE Fail

\* One byte per node; the entry is as tall as the header says the index is.
LevelsOK(b) ==
    /\ \A i \in Node : 1 <= b[i] /\ b[i] <= head.maxLevel + 1
    /\ b[head.entry] = head.maxLevel + 1

\* If the input turns out not to seek, one pass has to do.
ReadLevels ==
    /\ phase = "levels"
    /\ \E b \in [Node -> Byte] :
        IF LevelsOK(b)
        THEN /\ levels' = b
             /\ offsets' = [i \in 0 .. head.count |-> 0]
             /\ links' = [i \in Node |-> [l \in 0 .. b[i] - 1 |-> <<>>]]
             /\ \/ twoPass /\ phase' = "scan" /\ UNCHANGED twoPass
                \/ phase' = "graph" /\ twoPass' = FALSE
             /\ UNCHANGED <<head, node, layer, left, owed, stored, taken>>
        ELSE Fail

CapAt(l) == IF l = 0 THEN head.mMax0 ELSE head.mMax

\* The bottom list of this node has its place in the packed storage already.
Placed == phase = "graph" /\ twoPass /\ layer = 0
Place == offsets[node + 1] - offsets[node]

\* Whether a list may have v neighbours; without asking again in the second
\* pass first.
SizeOKOnce(v) == v <= head.count /\ v <= CapAt(layer)
SizeOK(v) ==
    /\ v <= head.count /\ v <= CapAt(layer)
    /\ Placed => v = Place

\* Whether v may be a neighbour in the list being read.  First with the mistake
\* of comparing after the conversion to int32.
Signed(v) == IF v > MaxInt THEN v - 2 * (MaxInt + 1) ELSE v
IdOKSigned(v) == Signed(v) < head.count /\ (Signed(v) >= 0 => levels[v] > layer)
IdOK(v) == v < head.count /\ levels[v] > layer

\* The list after the one at node and layer; one list too far first.
MoveOnLate ==
    IF layer + 1 <= levels[node] THEN layer' = layer + 1 /\ UNCHANGED node
                                 ELSE layer' = 0 /\ node' = node + 1
MoveOn ==
    IF layer + 1 < levels[node] THEN layer' = layer + 1 /\ UNCHANGED node
                                ELSE layer' = 0 /\ node' = node + 1

InGraph == phase \in {"scan", "graph"} /\ node < head.count

\* A word that is stored.
Take(v) == taken' = IF phase = "graph" THEN Append(taken, v) ELSE taken

\* The next word is the length of a list.  IDs are read until the slice that
\* was made for them is full.
ReadSize ==
    /\ InGraph /\ left = 0
    /\ \E v \in Word :
        IF SizeOK(v)
        THEN /\ left' = IF Placed THEN Place ELSE v
             /\ owed' = owed + v
             /\ IF left' = 0 THEN MoveOn ELSE UNCHANGED <<node, layer>>
             /\ offsets' = IF phase = "scan" /\ layer = 0
                           THEN [offsets EXCEPT ![node + 1] = offsets[node] + v]
                           ELSE offsets
             /\ Take(v)
             /\ UNCHANGED <<phase, twoPass, head, levels, links, stored>>
        ELSE Fail

\* The next word is a neighbour; the first pass only checks it.
ReadId ==
    /\ InGraph /\ left > 0
    /\ \E v \in Word :
        IF IdOK(v)
        THEN /\ left' = left - 1
             /\ owed' = owed - 1
             /\ IF left' = 0 THEN MoveOn ELSE UNCHANGED <<node, layer>>
             /\ links' = IF phase = "graph"
                         THEN [links EXCEPT ![node][layer] = Append(@, Signed(v))]
                         ELSE links
             /\ Take(v)
             /\ UNCHANGED <<phase, twoPass, head, levels, offsets, stored>>
        ELSE Fail

\* A mistake: going back after the second pass as well.
RewindAlways ==
    /\ phase \in {"scan", "graph"} /\ node = head.count
    /\ phase' = "graph" /\ node' = 0 /\ owed' = 0 /\ taken' = <<>>
    /\ UNCHANGED <<twoPass, head, levels, layer, left, offsets, links, stored>>

\* Back to where the graph starts, for the second pass.
Rewind ==
    /\ phase = "scan" /\ node = head.count
    /\ phase' = "graph" /\ node' = 0 /\ owed' = 0
    /\ UNCHANGED <<twoPass, head, levels, layer, left, offsets, links, stored, taken>>

\* The vectors follow the graph, and nothing after them is looked at.  What one
\* pass has read is packed yet.
ReadVectors ==
    /\ phase = "graph" /\ node = head.count
    /\ stored' = Elements(head)
    /\ IF twoPass THEN phase' = "loaded" /\ UNCHANGED node
                  ELSE phase' = "packing" /\ node' = 0
    /\ UNCHANGED <<twoPass, head, levels, layer, left, owed, offsets, links, taken>>

\* Where a node's list ends when the lists follow each other in ID order; first
\* without the ones before it.
PackedAlone == Len(links[node][0])
Packed == offsets[node] + Len(links[node][0])

\* compactBottom, one node at a time.
Pack ==
    /\ phase = "packing"
    /\ offsets' = [offsets EXCEPT ![node + 1] = Packed]
    /\ node' = node + 1
    /\ phase' = IF node + 1 = head.count THEN "loaded" ELSE "packing"
    /\ UNCHANGED <<twoPass, head, levels, layer, left, owed, links, stored, taken>>

Next ==
    \/ ShortRead
    \/ ReadHeader
    \/ ReadLevels
    \/ ReadSize
    \/ ReadId
    \/ Rewind
    \/ ReadVectors
    \/ Pack
    \/ Ended /\ UNCHANGED vars

\* Nothing but the input is waited for, and a read returns.
Spec == Init /\ [][Next]_vars /\ WF_vars(Next)

-----------------------------------------------------------------------------

\* There are lists.
Graph == phase \in {"scan", "graph", "packing", "loaded"}

TypeOK ==
    /\ phase \in {"header", "levels", "scan", "graph", "packing", "loaded", "failed"}
    /\ twoPass \in BOOLEAN
    /\ head \in Headers \cup {NoHeader}
    /\ node \in Nat /\ layer \in Nat /\ left \in Nat /\ owed \in Int /\ stored \in Nat
    /\ Graph =>
        /\ levels \in [Node -> Byte]
        /\ offsets \in [0 .. head.count -> Nat]
        /\ links = [i \in Node |-> links[i]]
        /\ \A i \in Node : links[i] \in [0 .. levels[i] - 1 -> Seq(Int)]

\* A loaded index is one that searches can walk: the entry is as tall as the
\* index and nothing is taller, every edge leads to a node that is there at
\* that layer, no list is longer than its cap, and every node has a vector.
ListOK(l, list) ==
    /\ Len(list) <= CapAt(l)
    /\ \A j \in 1 .. Len(list) : list[j] \in Node /\ levels[list[j]] > l

LoadedSafe ==
    phase = "loaded" =>
        /\ head.entry \in Node
        /\ levels[head.entry] = head.maxLevel + 1
        /\ \A i \in Node : levels[i] \in 1 .. head.maxLevel + 1
        /\ \A i \in Node : \A l \in 0 .. levels[i] - 1 : ListOK(l, links[i][l])
        /\ stored = head.dim * head.count /\ stored > 0

\* Every ID that a size word announces is read as an ID, and nothing else is:
\* "a changing input cannot overrun slices", nor shift what follows them.
Aligned == owed = left

\* The packed bottom layer that queries read has a slot for every neighbour
\* links names, in the place of the node it belongs to, after either policy.
BottomAgrees ==
    phase = "loaded" =>
        /\ offsets[0] = 0
        /\ \A i \in Node : offsets[i + 1] - offsets[i] = Len(links[i][0])

\* Past the header it is a good one, past the levels they are, and the list
\* that is read is one there is.
Checked ==
    /\ phase \in {"header", "levels", "failed"} => node = 0 /\ layer = 0 /\ left = 0
    /\ phase = "levels" \/ Graph => head \in Headers /\ HeaderOK(head)
    /\ Graph => LevelsOK(levels)
    /\ phase \in {"scan", "graph"} =>
        \/ node < head.count /\ layer < levels[node]
        \/ node = head.count /\ layer = 0 /\ left = 0
    /\ phase = "packing" => node < head.count
    /\ phase \in {"packing", "loaded"} => left = 0 /\ stored = Elements(head)

\* What is in the lists could be there at the end, they are empty before their
\* turn, and the one whose turn it is has room for what is left to be read.
InTurn ==
    Graph =>
        /\ \A i \in Node : \A l \in 0 .. levels[i] - 1 :
            /\ ListOK(l, links[i][l])
            /\ phase = "scan" \/ (phase = "graph" /\ (i > node \/ (i = node /\ l > layer)))
                => links[i][l] = <<>>
        /\ InGraph =>
            /\ Len(links[node][layer]) + left <= CapAt(layer)
            /\ left = 0 => links[node][layer] = <<>>

\* Node i's bottom list is as long as its place, or will be.
Fits(i, missing) == offsets[i + 1] - offsets[i] = Len(links[i][0]) + missing
LaidOut ==
    /\ Graph => offsets[0] = 0
    /\ phase = "graph" /\ twoPass =>
        /\ \A i \in Node : i < node \/ (i = node /\ layer > 0) => Fits(i, 0)
        /\ node < head.count /\ layer = 0 /\ left > 0 => Fits(node, left)
    /\ phase = "packing" => \A i \in Node : i < node => Fits(i, 0)

\* f[0], f[1] and so on up to f[n - 1], one after the other.
Joined(f, n) ==
    LET upto[k \in Nat] == IF k = 0 THEN <<>> ELSE upto[k - 1] \o f[k - 1] IN upto[n]

\* What Save writes of the lists: each one's length and its IDs, unsigned.
Unsigned(id) == IF id < 0 THEN id + 2 * (MaxInt + 1) ELSE id
ListWords(list) == <<Len(list)>> \o [j \in 1 .. Len(list) |-> Unsigned(list[j])]

\* A node's first n layers from the bottom up; from the top down would be a
\* mistake.
LayerWordsDown(i, n) ==
    Joined([l \in 0 .. levels[i] - 1 |-> ListWords(links[i][levels[i] - 1 - l])], n)
LayerWords(i, n) == Joined([l \in 0 .. levels[i] - 1 |-> ListWords(links[i][l])], n)

\* The first n nodes, and all of them.
NodeWords(n) == Joined([i \in Node |-> LayerWords(i, levels[i])], n)
GraphWords == NodeWords(head.count)

\* What was taken of the list whose turn it is.
Begun ==
    IF left = 0 THEN <<>>
    ELSE LET list == links[node][layer] IN
         <<Len(list) + left>> \o [j \in 1 .. Len(list) |-> Unsigned(list[j])]

\* What was taken is what Save would write of the lists that were read.
Kept ==
    /\ phase = "graph" =>
        taken = IF node < head.count THEN NodeWords(node) \o LayerWords(node, layer) \o Begun
                                     ELSE NodeWords(node)
    /\ phase \in {"packing", "loaded"} => taken = GraphWords
    /\ ~Graph \/ phase = "scan" => taken = <<>>

IInv == TypeOK /\ Aligned /\ Checked /\ InTurn /\ LaidOut /\ BottomAgrees /\ Kept

\* An index that was loaded would be saved as it was read, word for word, so
\* that no two files hold one graph, and Save and LoadHNSW mean the same by one.
SavesBack == phase = "loaded" => taken = GraphWords

\* Every load ends, one way or the other.
LoadEnds == <>Ended

=============================================================================
