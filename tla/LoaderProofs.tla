----------------------------- MODULE LoaderProofs -----------------------------
(***************************************************************************)
(* Proofs about Loader, for words and bytes of any width, any headers and  *)
(* any input, also one that changes between the passes.  First each action *)
(* keeps Solid; then what Joined computes, and that each keeps Kept too.   *)
(***************************************************************************)
EXTENDS Loader, SequenceTheorems, FiniteSetTheorems, TLAPS

\* IInv without what is said of the words that were taken.
Solid == TypeOK /\ Aligned /\ Checked /\ InTurn /\ LaidOut /\ BottomAgrees

\* What a header that passes the checks is good for.
LEMMA GoodHeader ==
    ASSUME NEW h \in Headers, HeaderOK(h)
    PROVE  /\ h.dim \in Nat \ {0} /\ h.count \in Nat \ {0} /\ h.count <= MaxInt
           /\ h.mMax \in Nat /\ h.mMax0 \in Nat /\ h.maxLevel \in Nat
           /\ h.entry \in 0 .. h.count - 1
<1>1. h \in Header /\ MaxInt \in Nat \ {0}
  BY LoaderAssumption
<1> QED
  BY <1>1 DEF HeaderOK, Header, Word

\* Two words above zero have a product above zero.
LEMMA Positive == ASSUME NEW a \in Nat \ {0}, NEW b \in Nat \ {0} PROVE a * b \in Nat \ {0}
OBVIOUS

\* A load that has failed holds nothing.
LEMMA FailSolid == ASSUME TypeOK, Fail PROVE Solid'
<1>1. TypeOK'
  BY DEF TypeOK, Fail, Graph
<1>2. Aligned' /\ Checked' /\ InTurn' /\ LaidOut' /\ BottomAgrees'
  BY DEF Fail, Graph, Aligned, Checked, InTurn, InGraph, LaidOut, BottomAgrees
<1> QED
  BY <1>1, <1>2 DEF Solid

LEMMA InitSolid == Init => Solid
<1> SUFFICES ASSUME Init PROVE Solid
  OBVIOUS
<1>1. TypeOK
  BY DEF TypeOK, Init, Graph
<1>2. Aligned /\ Checked /\ InTurn /\ LaidOut /\ BottomAgrees
  BY DEF Init, Graph, Aligned, Checked, InTurn, InGraph, LaidOut, BottomAgrees
<1> QED
  BY <1>1, <1>2 DEF Solid

LEMMA HeaderSolid == ASSUME Solid, ReadHeader PROVE Solid'
<1>1. PICK h \in Headers :
        IF HeaderOK(h)
        THEN /\ phase' = "levels" /\ head' = h
             /\ UNCHANGED <<twoPass, levels, node, layer, left, owed, offsets, links, stored, taken>>
        ELSE Fail
  BY DEF ReadHeader
<1>2. CASE ~HeaderOK(h)
  BY <1>1, <1>2, FailSolid DEF Solid
<1>3. CASE HeaderOK(h)
  <2>1. TypeOK'
    BY <1>1, <1>3 DEF Solid, TypeOK, Graph
  <2>2. Checked'
    BY <1>1, <1>3 DEF Solid, ReadHeader, Checked, Graph, HeaderOK, SingleLayer, Elements
  <2>3. Aligned' /\ InTurn' /\ LaidOut' /\ BottomAgrees'
    BY <1>1, <1>3 DEF Solid, Aligned, Graph, InTurn, InGraph, LaidOut, BottomAgrees
  <2> QED
    BY <2>1, <2>2, <2>3 DEF Solid
<1> QED
  BY <1>2, <1>3

\* The lists start empty, the offsets at zero.
LEMMA LevelsSolid == ASSUME Solid, ReadLevels PROVE Solid'
<1>1. PICK b \in [Node -> Byte] :
        IF LevelsOK(b)
        THEN /\ levels' = b
             /\ offsets' = [i \in 0 .. head.count |-> 0]
             /\ links' = [i \in Node |-> [l \in 0 .. b[i] - 1 |-> <<>>]]
             /\ \/ twoPass /\ phase' = "scan" /\ UNCHANGED twoPass
                \/ phase' = "graph" /\ twoPass' = FALSE
             /\ UNCHANGED <<head, node, layer, left, owed, stored, taken>>
        ELSE Fail
  BY DEF ReadLevels
<1>2. CASE ~LevelsOK(b)
  BY <1>1, <1>2, FailSolid DEF Solid
<1>3. CASE LevelsOK(b)
  <2>1. /\ head \in Headers /\ HeaderOK(head)
        /\ node = 0 /\ layer = 0 /\ left = 0 /\ owed = 0
    BY DEF ReadLevels, Solid, Checked, Aligned
  <2>2. /\ levels' = b /\ head' = head /\ node' = 0 /\ layer' = 0 /\ left' = 0 /\ owed' = 0
        /\ stored' = stored /\ Node' = Node
        /\ offsets' = [i \in 0 .. head.count |-> 0]
        /\ links' = [i \in Node |-> [l \in 0 .. b[i] - 1 |-> <<>>]]
        /\ phase' = "scan" \/ (phase' = "graph" /\ twoPass' = FALSE)
        /\ twoPass' \in BOOLEAN
    BY <1>1, <1>3, <2>1 DEF Node, Solid, TypeOK
  <2>3. head.count \in Nat \ {0} /\ 0 \in Node /\ head.mMax \in Nat /\ head.mMax0 \in Nat
    BY <2>1, GoodHeader DEF Node
  <2>4. b[0] >= 1 /\ \A i \in Node : b[i] \in Nat
    <3>1. \A i \in Node : b[i] \in Byte
      BY <1>1
    <3> QED
      BY <1>3, <2>3, <3>1, LoaderAssumption DEF LevelsOK, Byte
  <2>5. \A i \in Node : \A l \in 0 .. b[i] - 1 : links'[i][l] = <<>>
    BY <2>2
  <2>6. TypeOK'
    <3>1. \A i \in Node : links'[i] \in [0 .. b[i] - 1 -> Seq(Int)]
      BY <2>2, EmptySeq
    <3> QED
      BY <2>1, <2>2, <2>3, <3>1 DEF Solid, TypeOK
  <2>7. Checked'
    <3>1. HeaderOK(head)' /\ LevelsOK(levels)'
      BY <1>3, <2>1, <2>2 DEF HeaderOK, SingleLayer, Elements, LevelsOK
    <3> QED
      BY <2>1, <2>2, <2>3, <2>4, <3>1 DEF Checked
  <2>8. InTurn'
    <3>1. \A i \in Node : \A l \in 0 .. b[i] - 1 : ListOK(l, links[i][l])'
      BY <2>2, <2>3, <2>5 DEF ListOK, CapAt
    <3>2. links'[0][0] = <<>> /\ CapAt(0)' \in Nat
      BY <2>2, <2>3, <2>4, <2>5 DEF CapAt
    <3> QED
      BY <2>2, <2>5, <3>1, <3>2 DEF InTurn, InGraph
  <2>9. LaidOut' /\ BottomAgrees' /\ Aligned'
    <3>1. offsets'[0] = 0
      BY <2>2, <2>3
    <3> QED
      BY <2>2, <3>1 DEF LaidOut, BottomAgrees, Aligned, Node
  <2> QED
    BY <2>6, <2>7, <2>8, <2>9 DEF Solid
<1> QED
  BY <1>2, <1>3

\* The list whose turn it is, while the graph is read.
LEMMA AtList ==
    ASSUME Solid, InGraph
    PROVE  /\ head \in Headers /\ HeaderOK(head) /\ LevelsOK(levels)
           /\ head.count \in Nat \ {0} /\ head.mMax \in Nat /\ head.mMax0 \in Nat
           /\ node \in Node /\ node \in Nat /\ node + 1 \in 0 .. head.count
           /\ layer \in Nat /\ layer < levels[node]
           /\ \A i \in Node : levels[i] \in Nat /\ levels[i] >= 1
           /\ CapAt(layer) \in Nat
           /\ links[node][layer] \in Seq(Int) /\ Len(links[node][layer]) \in Nat
<1>1. /\ head \in Headers /\ HeaderOK(head) /\ LevelsOK(levels)
      /\ node \in Nat /\ layer \in Nat /\ node < head.count /\ layer < levels[node]
  BY DEF Solid, TypeOK, Checked, InGraph, Graph
<1>2. head.count \in Nat \ {0} /\ head.mMax \in Nat /\ head.mMax0 \in Nat
  BY <1>1, GoodHeader
<1>3. node \in Node /\ node + 1 \in 0 .. head.count
  BY <1>1, <1>2 DEF Node
<1>4. \A i \in Node : levels[i] \in Nat /\ levels[i] >= 1
  <2>1. \A i \in Node : levels[i] \in Byte
    BY DEF Solid, TypeOK, InGraph, Graph
  <2> QED
    BY <1>1, <2>1, LoaderAssumption DEF LevelsOK, Byte
<1>5. links[node][layer] \in Seq(Int)
  <2>1. links[node] \in [0 .. levels[node] - 1 -> Seq(Int)]
    BY <1>3 DEF Solid, TypeOK, InGraph, Graph
  <2> QED
    BY <1>1, <1>3, <1>4, <2>1
<1> QED
  BY <1>1, <1>2, <1>3, <1>4, <1>5, LenProperties DEF CapAt

\* Where MoveOn goes: to a list of the same node above, or to the next node.
LEMMA MovesOn ==
    ASSUME Solid, InGraph, MoveOn
    PROVE  \/ node' = node /\ layer' = layer + 1 /\ layer + 1 < levels[node]
           \/ node' = node + 1 /\ layer' = 0 /\ layer + 1 = levels[node]
BY AtList DEF MoveOn

LEMMA SizeSolid == ASSUME Solid, ReadSize PROVE Solid'
<1>1. PICK v \in Word :
        IF SizeOK(v)
        THEN /\ left' = IF Placed THEN Place ELSE v
             /\ owed' = owed + v
             /\ IF left' = 0 THEN MoveOn ELSE UNCHANGED <<node, layer>>
             /\ offsets' = IF phase = "scan" /\ layer = 0
                           THEN [offsets EXCEPT ![node + 1] = offsets[node] + v]
                           ELSE offsets
             /\ Take(v)
             /\ UNCHANGED <<phase, twoPass, head, levels, links, stored>>
        ELSE Fail
  BY DEF ReadSize
<1>2. CASE ~SizeOK(v)
  BY <1>1, <1>2, FailSolid DEF Solid
<1>3. CASE SizeOK(v)
  <2>1. InGraph /\ left = 0 /\ owed = 0
    BY DEF ReadSize, Solid, Aligned
  <2>2. v \in Nat /\ left' = v /\ owed' = v /\ v <= CapAt(layer)
    BY <1>1, <1>3, <2>1, LoaderAssumption DEF SizeOK, Word
  <2>3. /\ phase' = phase /\ twoPass' = twoPass /\ head' = head /\ levels' = levels
        /\ links' = links /\ stored' = stored /\ Node' = Node
        /\ phase \in {"scan", "graph"}
    BY <1>1, <1>3, <2>1 DEF Node, InGraph
  <2>4. \/ v # 0 /\ node' = node /\ layer' = layer
        \/ v = 0 /\ node' = node /\ layer' = layer + 1 /\ layer + 1 < levels[node]
        \/ v = 0 /\ node' = node + 1 /\ layer' = 0 /\ layer + 1 = levels[node]
    BY <1>1, <1>3, <2>1, <2>2, MovesOn
  <2>5. TypeOK'
    <3>1. offsets \in [0 .. head.count -> Nat]
      BY <2>3 DEF Solid, TypeOK, Graph
    <3>2. node \in 0 .. head.count /\ node \in Nat /\ layer \in Nat
      BY <2>1, AtList DEF Node
    <3>3. offsets' \in [0 .. head.count -> Nat]
      <4>1. offsets[node] + v \in Nat
        BY <2>2, <3>1, <3>2
      <4> QED
        BY <1>1, <1>3, <3>1, <4>1
    <3>4. node' \in Nat /\ layer' \in Nat /\ left' \in Nat /\ owed' \in Int
      BY <2>2, <2>4, <3>2
    <3> QED
      BY <2>3, <3>3, <3>4 DEF Solid, TypeOK, Graph
  <2>6. Checked'
    <3>1. HeaderOK(head)' /\ LevelsOK(levels)'
      BY <2>1, <2>3, AtList DEF HeaderOK, SingleLayer, Elements, LevelsOK
    <3>2. \/ node' < head.count /\ layer' < levels[node']
          \/ node' = head.count /\ layer' = 0 /\ left' = 0
      <4>1. /\ node \in 0 .. head.count - 1 /\ head.count \in Nat /\ layer < levels[node]
            /\ \A i \in 0 .. head.count - 1 : levels[i] \in Nat /\ levels[i] >= 1
        BY <2>1, AtList DEF Node
      <4>2. node' = node + 1 => node + 1 = head.count \/ levels[node + 1] >= 1
        BY <4>1
      <4> QED
        BY <2>2, <2>3, <2>4, <4>1, <4>2
    <3> QED
      BY <2>1, <2>3, <3>1, <3>2, AtList DEF Checked, Graph
  <2>7. InTurn'
    <3>1. \A i \in Node : \A l \in 0 .. levels[i] - 1 :
            /\ ListOK(l, links[i][l])
            /\ phase = "scan" \/ (phase = "graph" /\ (i > node \/ (i = node /\ l > layer)))
                => links[i][l] = <<>>
      BY <2>3 DEF Solid, InTurn, Graph
    <3>2. links[node][layer] = <<>>
      BY <2>1 DEF Solid, InTurn, InGraph, Graph
    <3>3. \A i \in Node : \A l \in 0 .. levels[i] - 1 : ListOK(l, links[i][l])'
      BY <2>3, <3>1 DEF ListOK, CapAt
    <3>4. \A i \in Node : \A l \in 0 .. levels[i] - 1 :
            phase = "scan" \/ (phase = "graph" /\ (i > node' \/ (i = node' /\ l > layer')))
                => links[i][l] = <<>>
      BY <2>1, <2>4, <3>1, AtList DEF Node
    <3>5. InGraph' => /\ Len(links[node'][layer']) + left' <= CapAt(layer')
                      /\ left' = 0 => links[node'][layer'] = <<>>
      <4> SUFFICES ASSUME InGraph'
                   PROVE  /\ Len(links[node'][layer']) + left' <= CapAt(layer')
                          /\ left' = 0 => links[node'][layer'] = <<>>
        OBVIOUS
      <4>1. CASE v # 0
        BY <2>2, <2>4, <3>2, <4>1, <2>1, AtList
      <4>2. CASE v = 0
        <5>0. /\ node \in Nat /\ layer \in Nat /\ head.count \in Nat
              /\ \A i \in Node : levels[i] \in Nat /\ levels[i] >= 1
          BY <2>1, AtList
        <5>1. node' \in Node /\ layer' \in 0 .. levels[node'] - 1
          <6>1. node' < head.count
            BY <2>3 DEF InGraph
          <6>2. node' \in Node
            BY <2>4, <5>0, <6>1 DEF Node
          <6> QED
            BY <2>4, <4>2, <5>0, <6>2
        <5>2. links[node'][layer'] = <<>>
          <6>1. node' > node \/ (node' = node /\ layer' > layer)
            BY <2>4, <4>2, <5>0
          <6> QED
            BY <2>3, <3>1, <5>1, <6>1
        <5>3. CapAt(layer') \in Nat
          BY <2>1, AtList DEF CapAt
        <5> QED
          BY <2>2, <4>2, <5>2, <5>3
      <4> QED
        BY <4>1, <4>2
    <3> QED
      BY <2>3, <3>3, <3>4, <3>5 DEF InTurn, Graph, CapAt
  <2>8. LaidOut'
    <3>1. offsets'[0] = 0
      <4>1. offsets \in [0 .. head.count -> Nat] /\ offsets[0] = 0
        BY <2>3 DEF Solid, TypeOK, LaidOut, Graph
      <4> QED
        BY <1>1, <1>3, <2>1, <4>1, AtList
    <3>2. ASSUME phase = "graph", twoPass
          PROVE  /\ \A i \in Node : i < node' \/ (i = node' /\ layer' > 0) => Fits(i, 0)'
                 /\ node' < head.count /\ layer' = 0 /\ left' > 0 => Fits(node, left)'
      <4>1. offsets' = offsets /\ links' = links
        BY <1>1, <1>3, <2>3, <3>2
      <4>2. \A i \in Node : i < node \/ (i = node /\ layer > 0) => Fits(i, 0)
        BY <3>2 DEF Solid, LaidOut
      <4>3. layer = 0 => Fits(node, v)
        <5>1. layer = 0 => v = Place
          BY <1>3, <3>2 DEF SizeOK, Placed
        <5>2. links[node][layer] = <<>>
          BY <2>1 DEF Solid, InTurn, InGraph, Graph
        <5> QED
          BY <2>2, <5>1, <5>2 DEF Fits, Place
      <4>4. node \in Nat /\ layer \in Nat /\ \A i \in Node : i \in Int
        BY <2>1, AtList DEF Node
      <4>5. \A i \in Node : i < node' \/ (i = node' /\ layer' > 0) => Fits(i, 0)
        BY <2>4, <4>2, <4>3, <4>4
      <4>6. layer' = 0 /\ left' > 0 => Fits(node', left')
        BY <2>2, <2>4, <4>3, <4>4
      <4> QED
        BY <4>1, <4>5, <4>6 DEF Fits
    <3> QED
      BY <2>3, <3>1, <3>2 DEF LaidOut, Graph
  <2>9. Aligned' /\ BottomAgrees'
    BY <2>2, <2>3 DEF Aligned, BottomAgrees
  <2> QED
    BY <2>5, <2>6, <2>7, <2>8, <2>9 DEF Solid
<1> QED
  BY <1>2, <1>3

\* Only the list whose turn it is gets longer, in the pass that stores it.
LEMMA IdSolid == ASSUME Solid, ReadId PROVE Solid'
<1>1. PICK v \in Word :
        IF IdOK(v)
        THEN /\ left' = left - 1
             /\ owed' = owed - 1
             /\ IF left' = 0 THEN MoveOn ELSE UNCHANGED <<node, layer>>
             /\ links' = IF phase = "graph"
                         THEN [links EXCEPT ![node][layer] = Append(@, Signed(v))]
                         ELSE links
             /\ Take(v)
             /\ UNCHANGED <<phase, twoPass, head, levels, offsets, stored>>
        ELSE Fail
  BY DEF ReadId
<1>2. CASE ~IdOK(v)
  BY <1>1, <1>2, FailSolid DEF Solid
<1>3. CASE IdOK(v)
  <2> DEFINE list == links[node][layer]
  <2>1. InGraph /\ left \in Nat /\ left > 0 /\ owed = left
    BY DEF ReadId, Solid, TypeOK, Aligned
  <2>2. /\ phase' = phase /\ twoPass' = twoPass /\ head' = head /\ levels' = levels
        /\ offsets' = offsets /\ stored' = stored /\ Node' = Node
        /\ left' = left - 1 /\ owed' = left - 1
        /\ phase \in {"scan", "graph"}
    BY <1>1, <1>3, <2>1 DEF Node, InGraph
  <2>3. Signed(v) = v /\ v \in Node /\ v \in Int /\ levels[v] > layer
    <3>1. head.count \in Nat \ {0} /\ head.count <= MaxInt /\ MaxInt \in Nat
      BY <2>1, AtList, GoodHeader, LoaderAssumption
    <3> QED
      BY <1>3, <3>1 DEF IdOK, Signed, Word, Node
  <2>4. \/ left # 1 /\ node' = node /\ layer' = layer
        \/ left = 1 /\ node' = node /\ layer' = layer + 1 /\ layer + 1 < levels[node]
        \/ left = 1 /\ node' = node + 1 /\ layer' = 0 /\ layer + 1 = levels[node]
    BY <1>1, <1>3, <2>1, <2>2, MovesOn
  <2>5. /\ links = [i \in Node |-> links[i]]
        /\ \A i \in Node : links[i] \in [0 .. levels[i] - 1 -> Seq(Int)]
    BY <2>2 DEF Solid, TypeOK, Graph
  <2>6. /\ node \in Node /\ node \in Nat /\ layer \in Nat /\ layer \in 0 .. levels[node] - 1
        /\ head.count \in Nat
        /\ \A i \in Node : i \in Int /\ levels[i] \in Nat /\ levels[i] >= 1
        /\ list \in Seq(Int) /\ Len(list) \in Nat
    BY <2>1, AtList DEF Node
  <2>7. /\ Append(list, v) \in Seq(Int) /\ Len(Append(list, v)) = Len(list) + 1
        /\ \A j \in 1 .. Len(list) : Append(list, v)[j] = list[j]
        /\ Append(list, v)[Len(list) + 1] = v
    BY <2>3, <2>6
  <2>8. /\ links' = [i \in Node |-> links'[i]]
        /\ \A i \in Node : links'[i] \in [0 .. levels[i] - 1 -> Seq(Int)]
        /\ \A i \in Node : \A l \in 0 .. levels[i] - 1 :
            i # node \/ l # layer => links'[i][l] = links[i][l]
        /\ phase = "scan" => links' = links
        /\ phase = "graph" => links'[node][layer] = Append(list, v)
    <3>1. CASE phase = "scan"
      BY <1>1, <1>3, <2>5, <3>1
    <3>2. CASE phase = "graph"
      <4>1. links' = [links EXCEPT ![node] = [links[node] EXCEPT ![layer] = Append(list, v)]]
        BY <1>1, <1>3, <2>3, <3>2
      <4> HIDE DEF list
      <4>2. /\ links' = [i \in Node |-> links'[i]]
            /\ links'[node] = [links[node] EXCEPT ![layer] = Append(list, v)]
            /\ \A i \in Node : i # node => links'[i] = links[i]
        BY <2>5, <2>6, <4>1
      <4>3. [links[node] EXCEPT ![layer] = Append(list, v)] \in [0 .. levels[node] - 1 -> Seq(Int)]
        BY <2>5, <2>6, <2>7
      <4>4. /\ links'[node][layer] = Append(list, v)
            /\ \A l \in 0 .. levels[node] - 1 : l # layer => links'[node][l] = links[node][l]
        BY <2>5, <2>6, <4>2
      <4> QED
        BY <2>5, <3>2, <4>2, <4>3, <4>4
    <3> QED
      BY <2>2, <3>1, <3>2
  <2> HIDE DEF list
  <2>9. list = links[node][layer]
    BY DEF list
  <2>10. TypeOK'
    <3>1. node' \in Nat /\ layer' \in Nat /\ left' \in Nat /\ owed' \in Int
      BY <2>1, <2>2, <2>4, <2>6
    <3> QED
      BY <2>2, <2>8, <3>1 DEF Solid, TypeOK, Graph
  <2>11. Checked'
    <3>1. HeaderOK(head)' /\ LevelsOK(levels)'
      BY <2>1, <2>2, AtList DEF HeaderOK, SingleLayer, Elements, LevelsOK
    <3>2. \/ node' < head.count /\ layer' < levels[node']
          \/ node' = head.count /\ layer' = 0 /\ left' = 0
      <4>1. /\ node \in Nat /\ layer \in Nat /\ head.count \in Nat /\ node < head.count
            /\ layer < levels[node]
            /\ \A i \in 0 .. head.count - 1 : levels[i] \in Nat /\ levels[i] >= 1
        BY <2>6 DEF Node
      <4>2. node + 1 = head.count \/ levels[node + 1] >= 1
        BY <4>1
      <4> QED
        BY <2>1, <2>2, <2>4, <4>1, <4>2
    <3> QED
      BY <2>1, <2>2, <3>1, <3>2, AtList DEF Checked, Graph
  <2>12. InTurn'
    <3>1. \A i \in Node : \A l \in 0 .. levels[i] - 1 :
            /\ ListOK(l, links[i][l])
            /\ phase = "scan" \/ (phase = "graph" /\ (i > node \/ (i = node /\ l > layer)))
                => links[i][l] = <<>>
      BY <2>2 DEF Solid, InTurn, Graph
    <3>2. Len(list) + left <= CapAt(layer)
      BY <2>1, <2>2, <2>9 DEF Solid, InTurn, Graph
    <3>3. CapAt(0) \in Nat /\ CapAt(layer) \in Nat /\ CapAt(layer') \in Nat
      BY <2>1, AtList DEF CapAt
    <3>4. ListOK(layer, Append(list, v))
      <4>1. ListOK(layer, list)
        BY <2>6, <2>9, <3>1
      <4>2. Len(list) + 1 <= CapAt(layer)
        BY <2>1, <2>6, <3>2, <3>3
      <4>3. \A j \in 1 .. Len(list) + 1 :
              Append(list, v)[j] \in Node /\ levels[Append(list, v)[j]] > layer
        BY <2>3, <2>6, <2>7, <4>1 DEF ListOK
      <4> QED
        BY <2>7, <4>2, <4>3 DEF ListOK
    <3>5. \A i \in Node : \A l \in 0 .. levels[i] - 1 : ListOK(l, links'[i][l])
      <4> TAKE i \in Node
      <4> TAKE l \in 0 .. levels[i] - 1
      <4> QED
        BY <2>2, <2>8, <3>1, <3>4
    <3>6. \A i \in Node : \A l \in 0 .. levels[i] - 1 :
            phase = "scan" \/ (phase = "graph" /\ (i > node' \/ (i = node' /\ l > layer')))
                => links'[i][l] = <<>>
      <4> TAKE i \in Node
      <4> TAKE l \in 0 .. levels[i] - 1
      <4>1. CASE phase = "scan"
        BY <2>8, <3>1, <4>1
      <4>2. ASSUME i > node' \/ (i = node' /\ l > layer')
            PROVE  i > node \/ (i = node /\ l > layer)
        BY <2>4, <2>6, <4>2
      <4>3. ASSUME phase = "graph", i > node' \/ (i = node' /\ l > layer')
            PROVE  links'[i][l] = <<>>
        <5>1. i > node \/ (i = node /\ l > layer)
          BY <4>2, <4>3
        <5>2. links[i][l] = <<>>
          BY <3>1, <4>3, <5>1
        <5>3. i # node \/ l # layer
          BY <2>6, <5>1
        <5> QED
          BY <2>8, <5>2, <5>3
      <4> QED
        BY <4>1, <4>3
    <3>7. InGraph' => /\ Len(links'[node'][layer']) + left' <= CapAt(layer')
                      /\ left' = 0 => links'[node'][layer'] = <<>>
      <4> SUFFICES ASSUME InGraph'
                   PROVE  /\ Len(links'[node'][layer']) + left' <= CapAt(layer')
                          /\ left' = 0 => links'[node'][layer'] = <<>>
        OBVIOUS
      <4>1. CASE left # 1
        <5>1. node' = node /\ layer' = layer /\ left' = left - 1 /\ left' # 0
          BY <2>1, <2>2, <2>4, <4>1
        <5>2. Len(links'[node][layer]) <= Len(list) + 1
          BY <2>2, <2>6, <2>7, <2>8, <2>9
        <5>3. Len(links'[node][layer]) \in Nat
          BY <2>6, <2>8, LenProperties
        <5> QED
          BY <2>1, <2>6, <3>2, <3>3, <5>1, <5>2, <5>3
      <4>2. CASE left = 1
        <5>0. node' < head.count /\ node' \in Nat
          BY <2>2, <2>4, <2>6 DEF InGraph
        <5>1. node' \in Node /\ layer' \in 0 .. levels[node'] - 1
          <6>1. node' \in Node
            BY <2>6, <5>0 DEF Node
          <6> QED
            BY <2>4, <2>6, <4>2, <6>1
        <5>2. node' > node \/ (node' = node /\ layer' > layer)
          BY <2>4, <2>6, <4>2
        <5>3. links[node'][layer'] = <<>>
          BY <2>2, <3>1, <5>1, <5>2
        <5>4. links'[node'][layer'] = <<>>
          <6>1. node' # node \/ layer' # layer
            BY <2>6, <5>0, <5>2
          <6> QED
            BY <2>8, <5>1, <5>3, <6>1
        <5> QED
          BY <2>2, <3>3, <4>2, <5>4
      <4> QED
        BY <4>1, <4>2
    <3> QED
      BY <2>2, <3>5, <3>6, <3>7 DEF InTurn, Graph, CapAt, ListOK
  <2>13. LaidOut'
    <3>1. Graph => offsets[0] = 0
      BY DEF Solid, LaidOut
    <3>2. ASSUME phase = "graph", twoPass
          PROVE  /\ \A i \in Node : i < node' \/ (i = node' /\ layer' > 0) => Fits(i, 0)'
                 /\ node' < head.count /\ layer' = 0 /\ left' > 0 => Fits(node, left)'
      <4>1. /\ \A i \in Node : i < node \/ (i = node /\ layer > 0) => Fits(i, 0)
            /\ layer = 0 => Fits(node, left)
        BY <2>1, <3>2 DEF Solid, LaidOut, InGraph
      <4>2. \A i \in Node : 0 \in 0 .. levels[i] - 1
        BY <2>6
      <4> DEFINE will(i, m) == offsets[i + 1] - offsets[i] = Len(links'[i][0]) + m
      <4>3. \A i \in Node : i < node \/ (i = node /\ layer > 0) => will(i, 0)
        <5>1. \A i \in Node : i < node \/ (i = node /\ layer > 0) => links'[i][0] = links[i][0]
          <6> TAKE i \in Node
          <6> HAVE i < node \/ (i = node /\ layer > 0)
          <6>1. i # node \/ 0 # layer
            BY <2>6
          <6> QED
            BY <2>8, <4>2, <6>1
        <5> QED
          BY <4>1, <5>1 DEF Fits
      <4>4. layer = 0 => will(node, left - 1)
        <5>1. layer = 0 => Len(links'[node][0]) = Len(links[node][0]) + 1
          BY <2>7, <2>8, <2>9, <3>2
        <5>2. layer = 0 => Len(links[node][0]) \in Nat
          BY <2>6, <2>9
        <5>3. layer = 0 => offsets[node + 1] - offsets[node] = Len(links[node][0]) + left
          BY <4>1 DEF Fits
        <5>4. \A a \in Nat, b \in Nat : a + b = (a + 1) + (b - 1)
          OBVIOUS
        <5> QED
          BY <2>1, <5>1, <5>2, <5>3, <5>4
      <4> HIDE DEF will
      <4>5. \A i \in Node : i < node' \/ (i = node' /\ layer' > 0) => will(i, 0)
        <5>1. layer = 0 /\ left = 1 => will(node, 0)
          BY <4>4
        <5> QED
          BY <2>4, <2>6, <4>3, <5>1
      <4>6. layer' = 0 /\ left' > 0 => will(node', left')
        BY <2>2, <2>4, <2>6, <4>4
      <4> QED
        BY <2>2, <4>5, <4>6 DEF Fits, will
    <3> QED
      BY <2>2, <3>1, <3>2 DEF LaidOut, Graph
  <2>14. Aligned' /\ BottomAgrees'
    BY <2>2 DEF Aligned, BottomAgrees
  <2> QED
    BY <2>10, <2>11, <2>12, <2>13, <2>14 DEF Solid
<1> QED
  BY <1>2, <1>3

\* When the graph has been read, no ID is owed.
LEMMA AtEnd ==
    ASSUME Solid, phase \in {"scan", "graph"}, node = head.count
    PROVE  layer = 0 /\ left = 0 /\ owed = 0 /\ head.count \in Nat \ {0}
<1>1. head \in Headers /\ HeaderOK(head)
  BY DEF Solid, Checked, Graph
<1> QED
  BY <1>1, GoodHeader DEF Solid, Checked, Aligned

LEMMA RewindSolid == ASSUME Solid, Rewind PROVE Solid'
<1>1. layer = 0 /\ left = 0 /\ head.count \in Nat \ {0}
  BY AtEnd DEF Rewind
<1>2. /\ phase = "scan" /\ phase' = "graph" /\ node' = 0 /\ owed' = 0
      /\ UNCHANGED <<twoPass, head, levels, layer, left, offsets, links, stored>>
      /\ Node' = Node /\ 0 \in Node /\ node = head.count
  BY <1>1 DEF Rewind, Node
<1>3. levels[0] >= 1 /\ \A i \in Node : i \in Int /\ levels[i] \in Int
  <2>1. LevelsOK(levels) /\ \A i \in Node : levels[i] \in Byte
    BY <1>2 DEF Solid, TypeOK, Checked, Graph
  <2> QED
    BY <1>2, <2>1, LoaderAssumption DEF LevelsOK, Byte, Node
<1>4. TypeOK'
  BY <1>2 DEF Solid, TypeOK, Graph
<1>5. Checked'
  <2>1. HeaderOK(head)' /\ LevelsOK(levels)'
    BY <1>2 DEF Solid, Checked, Graph, HeaderOK, SingleLayer, Elements, LevelsOK
  <2> QED
    BY <1>1, <1>2, <1>3, <2>1 DEF Solid, Checked, Graph
<1>6. InTurn'
  <2>1. \A i \in Node : \A l \in 0 .. levels[i] - 1 :
          ListOK(l, links[i][l]) /\ links[i][l] = <<>>
    BY <1>2 DEF Solid, InTurn, Graph
  <2>2. \A i \in Node : \A l \in 0 .. levels[i] - 1 : ListOK(l, links[i][l])'
    BY <1>2, <2>1 DEF ListOK, CapAt
  <2>3. links[0][0] = <<>> /\ CapAt(0) \in Nat
    <3>1. head \in Headers /\ HeaderOK(head)
      BY <1>2 DEF Solid, Checked, Graph
    <3> QED
      BY <1>2, <1>3, <2>1, <3>1, GoodHeader DEF CapAt
  <2> QED
    BY <1>1, <1>2, <2>1, <2>2, <2>3 DEF InTurn, CapAt
<1>7. LaidOut' /\ BottomAgrees' /\ Aligned'
  BY <1>1, <1>2 DEF Solid, LaidOut, Graph, BottomAgrees, Aligned, Node
<1> QED
  BY <1>4, <1>5, <1>6, <1>7 DEF Solid

LEMMA VectorsSolid == ASSUME Solid, ReadVectors PROVE Solid'
<1>1. layer = 0 /\ left = 0 /\ owed = 0 /\ head.count \in Nat \ {0}
  BY AtEnd DEF ReadVectors
<1>2. /\ phase = "graph" /\ node = head.count /\ stored' = Elements(head)
      /\ \/ twoPass /\ phase' = "loaded" /\ node' = node
         \/ ~twoPass /\ phase' = "packing" /\ node' = 0
      /\ UNCHANGED <<twoPass, head, levels, layer, left, owed, offsets, links>>
      /\ Node' = Node
  BY DEF ReadVectors, Node, Solid, TypeOK
<1>3. head \in Headers /\ HeaderOK(head)
  BY <1>2 DEF Solid, Checked, Graph
<1>4. TypeOK'
  <2>1. Elements(head) \in Nat
    BY <1>3, GoodHeader, Positive DEF Elements
  <2> QED
    BY <1>1, <1>2, <2>1 DEF Solid, TypeOK, Graph
<1>5. Checked'
  <2>1. HeaderOK(head)' /\ LevelsOK(levels)' /\ stored' = Elements(head)'
    BY <1>2 DEF Solid, Checked, Graph, HeaderOK, SingleLayer, Elements, LevelsOK
  <2> QED
    BY <1>1, <1>2, <1>3, <2>1 DEF Checked, Graph
<1>6. InTurn'
  BY <1>2 DEF Solid, InTurn, InGraph, Graph, ListOK, CapAt
<1>7. LaidOut' /\ BottomAgrees'
  <2>1. offsets[0] = 0 /\ \A i \in Node : i \in Int /\ i < node /\ ~(i < 0)
    BY <1>1, <1>2 DEF Solid, LaidOut, Graph, Node
  <2>2. twoPass => \A i \in Node : Fits(i, 0)
    BY <1>2, <2>1 DEF Solid, LaidOut
  <2>3. \A i \in Node : Len(links[i][0]) \in Nat
    <3>1. \A i \in Node : links[i] \in [0 .. levels[i] - 1 -> Seq(Int)] /\ levels[i] \in Byte
      BY <1>2 DEF Solid, TypeOK, Graph
    <3>2. LevelsOK(levels)
      BY <1>2 DEF Solid, Checked, Graph
    <3>3. \A i \in Node : 0 \in 0 .. levels[i] - 1
      BY <3>1, <3>2, LoaderAssumption DEF LevelsOK, Byte
    <3> QED
      BY <3>1, <3>3, LenProperties
  <2>4. BottomAgrees'
    BY <1>2, <2>1, <2>2, <2>3 DEF BottomAgrees, Fits
  <2>5. LaidOut'
    BY <1>2, <2>1 DEF LaidOut, Graph
  <2> QED
    BY <2>4, <2>5
<1> QED
  BY <1>1, <1>2, <1>4, <1>5, <1>6, <1>7 DEF Solid, Aligned

\* Each offset is fixed when the ones before it are.
LEMMA PackSolid == ASSUME Solid, Pack PROVE Solid'
<1>1. /\ phase = "packing" /\ node' = node + 1
      /\ offsets' = [offsets EXCEPT ![node + 1] = Packed]
      /\ phase' = IF node + 1 = head.count THEN "loaded" ELSE "packing"
      /\ UNCHANGED <<twoPass, head, levels, layer, left, owed, links, stored>>
      /\ Node' = Node
  BY DEF Pack, Node
<1>2. head \in Headers /\ HeaderOK(head) /\ node < head.count /\ node \in Nat
  BY <1>1 DEF Solid, TypeOK, Checked, Graph
<1>3. head.count \in Nat \ {0} /\ node \in Node /\ \A i \in Node : i \in Nat /\ i < head.count
  BY <1>2, GoodHeader DEF Node
<1>4. \A i \in Node : Len(links[i][0]) \in Nat
  <2>1. \A i \in Node : links[i] \in [0 .. levels[i] - 1 -> Seq(Int)] /\ levels[i] \in Byte
    BY <1>1 DEF Solid, TypeOK, Graph
  <2>2. LevelsOK(levels)
    BY <1>1 DEF Solid, Checked, Graph
  <2>3. \A i \in Node : 0 \in 0 .. levels[i] - 1
    BY <2>1, <2>2, LoaderAssumption DEF LevelsOK, Byte
  <2> QED
    BY <2>1, <2>3, LenProperties
<1>5. /\ offsets \in [0 .. head.count -> Nat] /\ offsets[0] = 0
      /\ \A i \in Node : i < node => Fits(i, 0)
  BY <1>1 DEF Solid, TypeOK, LaidOut, Graph
<1>6. Packed \in Nat /\ node \in 0 .. head.count /\ node + 1 \in 0 .. head.count
  BY <1>2, <1>3, <1>4, <1>5 DEF Packed
<1>7. /\ offsets' \in [0 .. head.count -> Nat] /\ offsets'[node + 1] = Packed
      /\ \A i \in 0 .. head.count : i # node + 1 => offsets'[i] = offsets[i]
  BY <1>1, <1>5, <1>6
<1>8. \A i \in Node : i <= node => offsets'[i + 1] - offsets'[i] = Len(links[i][0])
  <2> TAKE i \in Node
  <2> HAVE i <= node
  <2>1. i \in 0 .. head.count /\ i # node + 1 /\ offsets'[i] = offsets[i] /\ offsets[i] \in Nat
    BY <1>2, <1>3, <1>5, <1>7
  <2>2. CASE i = node
    BY <1>3, <1>4, <1>7, <2>1, <2>2 DEF Packed
  <2>3. CASE i < node
    <3>1. i + 1 \in 0 .. head.count /\ i + 1 # node + 1
      BY <1>2, <1>3, <2>3
    <3>2. offsets'[i + 1] = offsets[i + 1] /\ offsets[i + 1] \in Nat
      BY <1>5, <1>7, <3>1
    <3> QED
      BY <1>4, <1>5, <2>1, <2>3, <3>2 DEF Fits
  <2> QED
    BY <1>2, <1>3, <2>2, <2>3
<1>9. TypeOK'
  BY <1>1, <1>2, <1>7 DEF Solid, TypeOK, Graph
<1>10. Checked'
  <2>1. HeaderOK(head)' /\ LevelsOK(levels)' /\ stored' = Elements(head)' /\ left' = 0
    BY <1>1 DEF Solid, Checked, Graph, HeaderOK, SingleLayer, Elements, LevelsOK
  <2>2. phase' = "packing" => node' < head.count
    BY <1>1, <1>2, <1>3
  <2> QED
    BY <1>1, <1>2, <2>1, <2>2 DEF Checked, Graph
<1>11. InTurn'
  <2>1. \A i \in Node : \A l \in 0 .. levels[i] - 1 : ListOK(l, links[i][l])
    BY <1>1 DEF Solid, InTurn, Graph
  <2>2. \A i \in Node : \A l \in 0 .. levels[i] - 1 : ListOK(l, links[i][l])'
    BY <1>1, <2>1 DEF ListOK, CapAt
  <2>3. phase' \in {"packing", "loaded"}
    BY <1>1
  <2> QED
    BY <1>1, <2>2, <2>3 DEF InTurn, InGraph
<1>12. LaidOut' /\ BottomAgrees'
  <2>1. offsets'[0] = 0
    BY <1>2, <1>3, <1>5, <1>7
  <2>2. \A i \in Node : i < node' => offsets'[i + 1] - offsets'[i] = Len(links[i][0]) + 0
    BY <1>1, <1>2, <1>3, <1>4, <1>8
  <2>3. LaidOut'
    BY <1>1, <2>1, <2>2 DEF LaidOut, Graph, Fits
  <2>4. BottomAgrees'
    BY <1>1, <1>2, <1>3, <1>8, <2>1 DEF BottomAgrees
  <2> QED
    BY <2>3, <2>4
<1> QED
  BY <1>1, <1>9, <1>10, <1>11, <1>12 DEF Solid, Aligned

-----------------------------------------------------------------------------

\* The numbers are a set with 0 and with the next of each of its members: if n
\* were left out, counting up would map those up to n into one fewer.
LEMMA NumbersInduct ==
    ASSUME NEW S \in SUBSET Nat, 0 \in S, \A n \in S : n + 1 \in S
    PROVE  S = Nat
<1> SUFFICES ASSUME NEW n \in Nat, n \notin S PROVE FALSE
  OBVIOUS
<1> DEFINE T == { i \in S : i <= n }
           f == [i \in T |-> i + 1]
<1>1. IsFiniteSet(T)
  BY FS_BoundedSetOfNaturals
<1>2. 0 \in T
  OBVIOUS
<1>3. f \in [T -> T \ {0}]
  <2>1. ASSUME NEW i \in T PROVE i + 1 \in T \ {0}
    <3>1. i + 1 \in S /\ i # n /\ i \in Nat /\ i <= n
      OBVIOUS
    <3> QED
      BY <3>1
  <2> QED
    BY <2>1
<1>4. /\ IsFiniteSet(T \ {0}) /\ Cardinality(T \ {0}) = Cardinality(T) - 1
      /\ Cardinality(T) \in Nat
  BY <1>1, <1>2, FS_RemoveElement, FS_CardinalityType
<1>5. \E x, y \in T : x # y /\ f[x] = f[y]
  <2> HIDE DEF T, f
  <2>1. Cardinality(T \ {0}) < Cardinality(T)
    BY <1>4
  <2> QED
    BY <1>1, <1>3, <1>4, <2>1, FS_PigeonHole
<1> QED
  BY <1>5

\* The joining of f, up to n.
JoinsUpTo(f, n, g) == g = [k \in 0 .. n |-> IF k = 0 THEN <<>> ELSE g[k - 1] \o f[k - 1]]

\* There is one up to every n: the one before and one more.
LEMMA JoinsExist == ASSUME NEW f PROVE \A n \in Nat : \E g : JoinsUpTo(f, n, g)
<1> DEFINE S == {n \in Nat : \E g : JoinsUpTo(f, n, g)}
<1>1. 0 \in S
  <2> DEFINE g == [k \in 0 .. 0 |-> <<>>]
  <2>1. g = [k \in 0 .. 0 |-> IF k = 0 THEN <<>> ELSE g[k - 1] \o f[k - 1]]
    OBVIOUS
  <2> QED
    BY <2>1 DEF JoinsUpTo
<1>2. ASSUME NEW n \in S PROVE n + 1 \in S
  <2>1. PICK g : JoinsUpTo(f, n, g)
    OBVIOUS
  <2> DEFINE h == [k \in 0 .. n + 1 |-> IF k = n + 1 THEN g[n] \o f[n] ELSE g[k]]
  <2>2. ASSUME NEW k \in 0 .. n + 1
        PROVE  h[k] = IF k = 0 THEN <<>> ELSE h[k - 1] \o f[k - 1]
    <3>1. n \in Nat /\ k \in Nat /\ h[k] = IF k = n + 1 THEN g[n] \o f[n] ELSE g[k]
      OBVIOUS
    <3>2. CASE k = n + 1
      <4>1. k - 1 = n /\ n \in 0 .. n + 1 /\ n # n + 1 /\ k # 0
        BY <3>1, <3>2
      <4>2. h[n] = g[n]
        BY <4>1
      <4> HIDE DEF h
      <4> QED
        BY <3>1, <3>2, <4>1, <4>2
    <3>3. CASE k # n + 1
      <4>1. k \in 0 .. n
        BY <3>1, <3>3
      <4>2. h[k] = g[k] /\ (k # 0 => h[k - 1] = g[k - 1])
        BY <3>1, <4>1
      <4>3. g[k] = IF k = 0 THEN <<>> ELSE g[k - 1] \o f[k - 1]
        BY <2>1, <4>1 DEF JoinsUpTo
      <4> HIDE DEF h
      <4> QED
        BY <4>2, <4>3
    <3> QED
      BY <3>2, <3>3
  <2>3. JoinsUpTo(f, n + 1, h)
    <3>1. h = [k \in 0 .. n + 1 |-> h[k]]
      OBVIOUS
    <3> HIDE DEF h
    <3> QED
      BY <2>2, <3>1 DEF JoinsUpTo
  <2> HIDE DEF h
  <2> QED
    BY <2>3
<1>3. S = Nat
  <2> HIDE DEF S
  <2>1. S \in SUBSET Nat
    BY DEF S
  <2> QED
    BY <1>1, <1>2, <2>1, NumbersInduct
<1> QED
  BY <1>3

\* Where two of them are both defined they agree.
LEMMA JoinsAgree ==
    ASSUME NEW f, NEW k \in Nat, NEW n \in Nat, NEW m \in Nat, k <= n, k <= m,
           NEW g, NEW h, JoinsUpTo(f, n, g), JoinsUpTo(f, m, h)
    PROVE  g[k] = h[k]
<1> DEFINE S == {i \in Nat : i <= k => g[i] = h[i]}
<1>1. 0 \in S
  <2>1. 0 \in 0 .. n /\ 0 \in 0 .. m
    OBVIOUS
  <2> QED
    BY <2>1 DEF JoinsUpTo
<1>2. ASSUME NEW i \in S PROVE i + 1 \in S
  <2>1. i \in Nat /\ (i <= k => g[i] = h[i])
    OBVIOUS
  <2>2. ASSUME i + 1 <= k PROVE g[i + 1] = h[i + 1]
    <3>1. i + 1 \in 0 .. n /\ i + 1 \in 0 .. m /\ i + 1 # 0 /\ (i + 1) - 1 = i /\ i <= k
      BY <2>1, <2>2
    <3> QED
      BY <2>1, <3>1 DEF JoinsUpTo
  <2> QED
    BY <2>1, <2>2
<1>3. S = Nat
  <2> HIDE DEF S
  <2>1. S \in SUBSET Nat
    BY DEF S
  <2> QED
    BY <1>1, <1>2, <2>1, NumbersInduct
<1> QED
  BY <1>3

\* Joined does what its recursion says.
LEMMA JoinedIs ==
    ASSUME NEW f
    PROVE  Joined(f, 0) = <<>> /\ \A n \in Nat : Joined(f, n + 1) = Joined(f, n) \o f[n]
<1> DEFINE upto(n) == CHOOSE g : JoinsUpTo(f, n, g)
           u == [k \in Nat |-> upto(k)[k]]
<1>1. \A n \in Nat : JoinsUpTo(f, n, upto(n))
  BY JoinsExist
<1> HIDE DEF upto
<1>2. ASSUME NEW k \in Nat PROVE u[k] = IF k = 0 THEN <<>> ELSE u[k - 1] \o f[k - 1]
  <2>1. u[k] = upto(k)[k]
    OBVIOUS
  <2>2. k \in 0 .. k
    OBVIOUS
  <2>3. upto(k)[k] = IF k = 0 THEN <<>> ELSE upto(k)[k - 1] \o f[k - 1]
    BY <1>1, <2>2 DEF JoinsUpTo
  <2>4. ASSUME k # 0 PROVE upto(k)[k - 1] = u[k - 1]
    <3>1. k - 1 \in Nat /\ k - 1 <= k /\ k - 1 <= k - 1
      BY <2>4
    <3>2. upto(k)[k - 1] = upto(k - 1)[k - 1]
      BY <1>1, <3>1, JoinsAgree
    <3> QED
      BY <3>1, <3>2
  <2> HIDE DEF u
  <2> QED
    BY <2>1, <2>3, <2>4
<1>3. u = [k \in Nat |-> IF k = 0 THEN <<>> ELSE u[k - 1] \o f[k - 1]]
  <2>1. u = [k \in Nat |-> u[k]]
    OBVIOUS
  <2> HIDE DEF u
  <2> QED
    BY <1>2, <2>1
<1> HIDE DEF u
<1> DEFINE c == CHOOSE w : w = [k \in Nat |-> IF k = 0 THEN <<>> ELSE w[k - 1] \o f[k - 1]]
<1>4. c = [k \in Nat |-> IF k = 0 THEN <<>> ELSE c[k - 1] \o f[k - 1]]
  BY <1>3
<1>5. \A n : Joined(f, n) = c[n]
  BY DEF Joined
<1> HIDE DEF c
<1>6. c[0] = <<>>
  BY <1>4
<1>7. ASSUME NEW n \in Nat PROVE c[n + 1] = c[n] \o f[n]
  <2>1. n + 1 \in Nat /\ n + 1 # 0 /\ (n + 1) - 1 = n
    OBVIOUS
  <2>2. c[n + 1] = IF n + 1 = 0 THEN <<>> ELSE c[(n + 1) - 1] \o f[(n + 1) - 1]
    BY <1>4, <2>1
  <2> QED
    BY <2>1, <2>2
<1> QED
  BY <1>5, <1>6, <1>7

\* What is joined of one family and of another that agrees with it so far.
LEMMA JoinedSame ==
    ASSUME NEW f, NEW g, NEW n \in Nat, \A i \in 0 .. n - 1 : f[i] = g[i]
    PROVE  Joined(f, n) = Joined(g, n)
<1> DEFINE S == {k \in Nat : k <= n => Joined(f, k) = Joined(g, k)}
<1>1. 0 \in S
  BY JoinedIs
<1>2. ASSUME NEW k \in S PROVE k + 1 \in S
  <2>1. k \in Nat /\ (k <= n => Joined(f, k) = Joined(g, k))
    OBVIOUS
  <2>2. ASSUME k + 1 <= n PROVE Joined(f, k + 1) = Joined(g, k + 1)
    <3>1. k \in 0 .. n - 1 /\ k <= n
      BY <2>1, <2>2
    <3> QED
      BY <2>1, <3>1, JoinedIs
  <2> QED
    BY <2>1, <2>2
<1>3. S = Nat
  <2> HIDE DEF S
  <2>1. S \in SUBSET Nat
    BY DEF S
  <2> QED
    BY <1>1, <1>2, <2>1, NumbersInduct
<1> QED
  BY <1>3

\* Sequences joined are one.
LEMMA JoinedSeq ==
    ASSUME NEW f, NEW A, NEW n \in Nat, \A i \in 0 .. n - 1 : f[i] \in Seq(A)
    PROVE  Joined(f, n) \in Seq(A)
<1> DEFINE S == {k \in Nat : k <= n => Joined(f, k) \in Seq(A)}
<1>1. 0 \in S
  BY JoinedIs, EmptySeq
<1>2. ASSUME NEW k \in S PROVE k + 1 \in S
  <2>1. k \in Nat /\ (k <= n => Joined(f, k) \in Seq(A))
    OBVIOUS
  <2>2. ASSUME k + 1 <= n PROVE Joined(f, k + 1) \in Seq(A)
    <3>1. k \in 0 .. n - 1 /\ k <= n
      BY <2>1, <2>2
    <3>2. Joined(f, k) \in Seq(A) /\ f[k] \in Seq(A)
      BY <2>1, <3>1
    <3>3. Joined(f, k + 1) = Joined(f, k) \o f[k]
      BY <2>1, JoinedIs
    <3> QED
      BY <3>2, <3>3, ConcatProperties
  <2> QED
    BY <2>1, <2>2
<1>3. S = Nat
  <2> HIDE DEF S
  <2>1. S \in SUBSET Nat
    BY DEF S
  <2> QED
    BY <1>1, <1>2, <2>1, NumbersInduct
<1> QED
  BY <1>3

\* A word at the end of what is there.
LEMMA AppendConcat ==
    ASSUME NEW s \in Seq(Int), NEW t \in Seq(Int), NEW v \in Int
    PROVE  Append(s \o t, v) = s \o Append(t, v)
<1>1. s \o t \in Seq(Int) /\ <<v>> \in Seq(Int)
  BY ConcatProperties
<1>2. Append(s \o t, v) = (s \o t) \o <<v>> /\ Append(t, v) = t \o <<v>>
  BY <1>1, AppendIsConcat
<1>3. (s \o t) \o <<v>> = s \o (t \o <<v>>)
  BY <1>1, ConcatAssociative
<1> QED
  BY <1>2, <1>3

-----------------------------------------------------------------------------

\* The length that is announced for a list, and the IDs read so far.
Words(n, list) == <<n>> \o [j \in 1 .. Len(list) |-> Unsigned(list[j])]

\* They are integers.
LEMMA WordsSeq ==
    ASSUME NEW n \in Int, NEW list \in Seq(Int) PROVE Words(n, list) \in Seq(Int)
<1>1. \A j \in 1 .. Len(list) : Unsigned(list[j]) \in Int
  BY LoaderAssumption, ElementOfSeq DEF Unsigned
<1>2. Len(list) \in Nat
  BY LenProperties
<1> DEFINE ids == [j \in 1 .. Len(list) |-> Unsigned(list[j])]
<1>3. ids \in Seq(Int)
  BY <1>1, <1>2
<1>4. <<n>> \in Seq(Int)
  OBVIOUS
<1> HIDE DEF ids
<1>5. <<n>> \o ids \in Seq(Int)
  BY <1>3, <1>4, ConcatProperties
<1> QED
  BY <1>5 DEF Words, ids

\* The next ID.
LEMMA WordsAppend ==
    ASSUME NEW n \in Int, NEW list \in Seq(Int), NEW v \in Nat
    PROVE  Append(Words(n, list), v) = Words(n, Append(list, v))
<1> DEFINE more == Append(list, v)
           ids == [j \in 1 .. Len(list) |-> Unsigned(list[j])]
           moreIds == [j \in 1 .. Len(more) |-> Unsigned(more[j])]
<1>1. /\ Len(list) \in Nat /\ Len(more) = Len(list) + 1 /\ more[Len(list) + 1] = v
      /\ \A j \in 1 .. Len(list) : more[j] = list[j] /\ list[j] \in Int
  BY AppendProperties, LenProperties, ElementOfSeq
<1>2. Unsigned(v) = v /\ \A i \in Int : Unsigned(i) \in Int
  BY LoaderAssumption DEF Unsigned
<1> HIDE DEF more
<1>3. ids \in Seq(Int) /\ Len(ids) = Len(list)
  <2>1. \A j \in 1 .. Len(list) : Unsigned(list[j]) \in Int
    BY <1>1, <1>2
  <2> QED
    BY <1>1, <2>1
<1>4. moreIds \in Seq(Int) /\ Len(moreIds) = Len(list) + 1
  <2>1. \A j \in 1 .. Len(list) + 1 : more[j] \in Int
    BY <1>1
  <2> QED
    BY <1>1, <1>2, <2>1
<1>5. /\ Append(ids, v) \in Seq(Int) /\ Len(Append(ids, v)) = Len(list) + 1
      /\ \A j \in 1 .. Len(list) : Append(ids, v)[j] = ids[j]
      /\ Append(ids, v)[Len(list) + 1] = v
  <2> HIDE DEF ids
  <2> QED
    BY <1>3, AppendProperties
<1>6. ASSUME NEW j \in 1 .. Len(list) + 1 PROVE Append(ids, v)[j] = moreIds[j]
  <2>1. moreIds[j] = Unsigned(more[j])
    BY <1>1
  <2>2. CASE j = Len(list) + 1
    <3> HIDE DEF ids, moreIds
    <3> QED
      BY <1>1, <1>2, <1>5, <2>1, <2>2
  <2>3. CASE j # Len(list) + 1
    <3>1. j \in 1 .. Len(list)
      BY <1>1, <2>3
    <3>2. ids[j] = Unsigned(list[j])
      BY <3>1
    <3> HIDE DEF ids, moreIds
    <3> QED
      BY <1>1, <1>5, <2>1, <3>1, <3>2
  <2> QED
    BY <2>2, <2>3
<1>7. Words(n, list) = <<n>> \o ids /\ Words(n, Append(list, v)) = <<n>> \o moreIds
  BY DEF Words, more
<1> HIDE DEF ids, moreIds
<1>8. Append(ids, v) = moreIds
  BY <1>1, <1>4, <1>5, <1>6, SeqEqual
<1>9. Append(<<n>> \o ids, v) = <<n>> \o Append(ids, v)
  BY <1>3, AppendConcat
<1> QED
  BY <1>7, <1>8, <1>9

-----------------------------------------------------------------------------

\* The words of one more list and of one more node follow the ones before.
LEMMA WordsAre ==
    ASSUME Solid, Graph
    PROVE  /\ NodeWords(0) = <<>>
           /\ \A i \in Node :
               /\ LayerWords(i, 0) = <<>>
               /\ NodeWords(i + 1) = NodeWords(i) \o LayerWords(i, levels[i])
               /\ NodeWords(i) \in Seq(Int)
               /\ \A l \in 0 .. levels[i] : LayerWords(i, l) \in Seq(Int)
<1>0. /\ head.count \in Nat /\ \A i \in Node : i \in Nat /\ levels[i] \in Nat
      /\ \A i \in Node : links[i] \in [0 .. levels[i] - 1 -> Seq(Int)]
  <2>1. head \in Headers /\ HeaderOK(head)
    BY DEF Solid, Checked
  <2>2. \A i \in Node : levels[i] \in Byte
    BY DEF Solid, TypeOK
  <2> QED
    BY <2>1, <2>2, GoodHeader, LoaderAssumption DEF Solid, TypeOK, Node, Byte
<1>1. NodeWords(0) = <<>>
  BY JoinedIs DEF NodeWords
<1>2. ASSUME NEW i \in Node
      PROVE  /\ LayerWords(i, 0) = <<>>
             /\ \A l \in 0 .. levels[i] : LayerWords(i, l) \in Seq(Int)
  <2> DEFINE f == [l \in 0 .. levels[i] - 1 |-> ListWords(links[i][l])]
  <2>1. \A l \in 0 .. levels[i] - 1 : f[l] \in Seq(Int)
    <3> TAKE l \in 0 .. levels[i] - 1
    <3>1. links[i][l] \in Seq(Int)
      BY <1>0
    <3>2. Words(Len(links[i][l]), links[i][l]) \in Seq(Int)
      BY <3>1, WordsSeq, LenProperties
    <3> QED
      BY <3>2 DEF ListWords, Words
  <2>2. \A l : LayerWords(i, l) = Joined(f, l)
    BY DEF LayerWords
  <2> HIDE DEF f
  <2>3. \A l \in 0 .. levels[i] : Joined(f, l) \in Seq(Int)
    <3> TAKE l \in 0 .. levels[i]
    <3>1. l \in Nat /\ \A k \in 0 .. l - 1 : f[k] \in Seq(Int)
      BY <1>0, <2>1
    <3> QED
      BY <3>1, JoinedSeq
  <2>4. Joined(f, 0) = <<>>
    BY JoinedIs
  <2> QED
    BY <2>2, <2>3, <2>4
<1> DEFINE f == [i \in Node |-> LayerWords(i, levels[i])]
<1>3. \A i \in Node : f[i] = LayerWords(i, levels[i])
  OBVIOUS
<1>4. \A n : NodeWords(n) = Joined(f, n)
  BY DEF NodeWords
<1> HIDE DEF f
<1>5. ASSUME NEW i \in Node
      PROVE  /\ NodeWords(i + 1) = NodeWords(i) \o LayerWords(i, levels[i])
             /\ NodeWords(i) \in Seq(Int)
  <2>1. i \in Nat /\ \A k \in 0 .. i - 1 : k \in Node
    <3>1. i \in Nat /\ i < head.count /\ head.count \in Nat
      BY <1>0 DEF Node
    <3> QED
      BY <3>1 DEF Node
  <2>2. \A k \in 0 .. i - 1 : f[k] \in Seq(Int)
    BY <1>0, <1>2, <1>3, <2>1
  <2>3. Joined(f, i) \in Seq(Int)
    BY <2>1, <2>2, JoinedSeq
  <2>4. Joined(f, i + 1) = Joined(f, i) \o f[i]
    BY <2>1, JoinedIs
  <2> QED
    BY <1>3, <1>4, <2>3, <2>4
<1> QED
  BY <1>1, <1>2, <1>5

\* Reading into one list changes no words of the ones before it.
Onward ==
    /\ phase' = phase /\ head' = head /\ levels' = levels
    /\ \A i \in Node : \A l \in 0 .. levels[i] - 1 :
        i # node \/ l # layer => links'[i][l] = links[i][l]

\* The finished lists keep theirs, and the one that is read adds its own.
LEMMA WordsStay ==
    ASSUME Solid, InGraph, Onward
    PROVE  \A i \in Node, l \in 0 .. levels[node] - 1 : i = node /\ l = layer =>
            /\ NodeWords(i)' = NodeWords(i)
            /\ LayerWords(i, l)' = LayerWords(i, l)
            /\ LayerWords(i, l + 1)' = LayerWords(i, l) \o ListWords(links'[i][l])
            /\ l + 1 = levels[i] => NodeWords(i + 1)' = NodeWords(i) \o LayerWords(i, l + 1)'
<1> SUFFICES ASSUME NEW i \in Node, NEW l \in 0 .. levels[node] - 1, i = node, l = layer
             PROVE  /\ NodeWords(i)' = NodeWords(i)
                    /\ LayerWords(i, l)' = LayerWords(i, l)
                    /\ LayerWords(i, l + 1)' = LayerWords(i, l) \o ListWords(links'[i][l])
                    /\ l + 1 = levels[i]
                        => NodeWords(i + 1)' = NodeWords(i) \o LayerWords(i, l + 1)'
  OBVIOUS
<1>1. /\ i \in Nat /\ l \in Nat /\ l \in 0 .. levels[i] - 1
      /\ \A k \in Node : levels[k] \in Nat
      /\ \A k \in 0 .. i - 1 : k \in Node /\ k # i
      /\ Node' = Node
  BY AtList DEF Node, Onward
<1> DEFINE old == [k \in 0 .. levels[i] - 1 |-> ListWords(links[i][k])]
           new == [k \in 0 .. levels[i] - 1 |-> ListWords(links'[i][k])]
<1>2. /\ \A n : LayerWords(i, n) = Joined(old, n)
      /\ \A n : LayerWords(i, n)' = Joined(new, n)
  BY DEF LayerWords, Onward, ListWords, Unsigned
<1>3. \A k \in 0 .. l - 1 : old[k] = new[k]
  <2> TAKE k \in 0 .. l - 1
  <2>1. k \in 0 .. levels[i] - 1 /\ k # l
    BY <1>1
  <2>2. links'[i][k] = links[i][k]
    BY <2>1 DEF Onward
  <2> QED
    BY <2>1, <2>2
<1>4. new[l] = ListWords(links'[i][l])
  BY <1>1
<1> HIDE DEF old, new
<1>5. /\ LayerWords(i, l)' = LayerWords(i, l)
      /\ LayerWords(i, l + 1)' = LayerWords(i, l) \o ListWords(links'[i][l])
  <2>1. Joined(old, l) = Joined(new, l)
    BY <1>1, <1>3, JoinedSame
  <2>2. Joined(new, l + 1) = Joined(new, l) \o new[l]
    BY <1>1, JoinedIs
  <2> QED
    BY <1>2, <1>4, <2>1, <2>2
<1> DEFINE before == [k \in Node |-> LayerWords(k, levels[k])]
           after == [k \in Node |-> LayerWords(k, levels[k])']
<1>6. /\ \A n : NodeWords(n) = Joined(before, n)
      /\ \A n : NodeWords(n)' = Joined(after, n)
  BY <1>1 DEF NodeWords
<1>7. \A k \in 0 .. i - 1 : before[k] = after[k]
  <2> TAKE k \in 0 .. i - 1
  <2> DEFINE f == [m \in 0 .. levels[k] - 1 |-> ListWords(links[k][m])]
             g == [m \in 0 .. levels[k] - 1 |-> ListWords(links'[k][m])]
  <2>1. k \in Node /\ k # i /\ levels[k] \in Nat
    BY <1>1
  <2>2. LayerWords(k, levels[k]) = Joined(f, levels[k])
        /\ LayerWords(k, levels[k])' = Joined(g, levels[k])
    BY DEF LayerWords, Onward, ListWords, Unsigned
  <2>3. \A m \in 0 .. levels[k] - 1 : f[m] = g[m]
    BY <2>1 DEF Onward
  <2>4. before[k] = LayerWords(k, levels[k]) /\ after[k] = LayerWords(k, levels[k])'
    BY <2>1
  <2> HIDE DEF f, g, before, after
  <2> QED
    BY <2>1, <2>2, <2>3, <2>4, JoinedSame
<1>8. after[i] = LayerWords(i, levels[i])'
  OBVIOUS
<1> HIDE DEF before, after
<1>9. NodeWords(i)' = NodeWords(i)
  BY <1>1, <1>6, <1>7, JoinedSame
<1>10. NodeWords(i + 1)' = NodeWords(i) \o LayerWords(i, levels[i])'
  <2>1. Joined(after, i + 1) = Joined(after, i) \o after[i]
    BY <1>1, JoinedIs
  <2> QED
    BY <1>6, <1>8, <1>9, <2>1
<1>11. ASSUME l + 1 = levels[i] PROVE LayerWords(i, levels[i])' = LayerWords(i, l + 1)'
  BY <1>11 DEF Onward
<1> QED
  BY <1>5, <1>9, <1>10, <1>11

-----------------------------------------------------------------------------

\* The actions once more, now with the words that were taken.
LEMMA FailKeeps == ASSUME TypeOK, Fail PROVE IInv'
<1>1. Kept'
  BY DEF Fail, Kept, Graph
<1> QED
  BY <1>1, FailSolid DEF IInv, Solid

LEMMA InitHolds == Init => IInv
<1>1. Init => Kept
  BY DEF Init, Kept, Graph
<1> QED
  BY <1>1, InitSolid DEF IInv, Solid

LEMMA HeaderKeeps == ASSUME IInv, ReadHeader PROVE IInv'
<1>1. CASE Fail
  BY <1>1, FailKeeps DEF IInv
<1>2. CASE ~Fail
  <2>1. phase = "header" /\ phase' = "levels" /\ taken' = taken
    BY <1>2 DEF ReadHeader
  <2>2. Kept'
    BY <2>1 DEF IInv, Kept, Graph
  <2> QED
    BY <2>2, HeaderSolid DEF IInv, Solid
<1> QED
  BY <1>1, <1>2

\* Nothing is taken at the first list.
LEMMA NothingKept ==
    ASSUME phase' = "graph", node' = 0, layer' = 0, left' = 0, taken' = <<>>
    PROVE  Kept'
<1>1. Begun' = <<>>
  BY DEF Begun
<1>2. NodeWords(node)' = <<>> /\ LayerWords(node, layer)' = <<>>
  BY JoinedIs DEF NodeWords, LayerWords
<1>3. <<>> \o <<>> = <<>>
  BY EmptySeq, ConcatEmptySeq
<1> QED
  BY <1>1, <1>2, <1>3 DEF Kept, Graph

LEMMA LevelsKeep == ASSUME IInv, ReadLevels PROVE IInv'
<1>1. CASE Fail
  BY <1>1, FailKeeps DEF IInv
<1>2. CASE ~Fail
  <2>1. /\ phase = "levels" /\ phase' \in {"scan", "graph"} /\ taken' = taken
        /\ node' = node /\ layer' = layer /\ left' = left
    BY <1>2 DEF ReadLevels
  <2>2. taken = <<>> /\ node = 0 /\ layer = 0 /\ left = 0
    BY <2>1 DEF IInv, Kept, Checked, Graph
  <2>3. Kept'
    <3>1. CASE phase' = "graph"
      BY <2>1, <2>2, <3>1, NothingKept
    <3>2. CASE phase' = "scan"
      BY <2>1, <2>2, <3>2 DEF Kept
    <3> QED
      BY <2>1, <3>1, <3>2
  <2> QED
    BY <2>3, LevelsSolid DEF IInv, Solid
<1> QED
  BY <1>1, <1>2

\* A list that is finished has its words behind those of the ones before it.
LEMMA ListDone ==
    ASSUME Solid, InGraph, phase = "graph", Onward, MoveOn, left' = 0,
           links'[node][layer] \in Seq(Int),
           taken' = NodeWords(node) \o LayerWords(node, layer) \o ListWords(links'[node][layer])
    PROVE  Kept'
<1>1. PICK i \in Node, l \in 0 .. levels[node] - 1 : i = node /\ l = layer
  BY AtList
<1>2. /\ i \in Nat /\ l \in Nat /\ levels[i] \in Nat /\ l \in 0 .. levels[i] /\ Node' = Node
  BY <1>1, AtList DEF Node, Onward
<1> DEFINE list == ListWords(links'[i][l])
<1>3. /\ NodeWords(i)' = NodeWords(i)
      /\ LayerWords(i, l + 1)' = LayerWords(i, l) \o list
      /\ l + 1 = levels[i] => NodeWords(i + 1)' = NodeWords(i) \o LayerWords(i, l + 1)'
  BY <1>1, WordsStay
<1>4. NodeWords(i) \in Seq(Int) /\ LayerWords(i, l) \in Seq(Int)
  BY <1>1, <1>2, WordsAre DEF InGraph, Graph
<1>5. list \in Seq(Int)
  <2>1. Words(Len(links'[i][l]), links'[i][l]) \in Seq(Int)
    BY <1>1, WordsSeq, LenProperties
  <2> QED
    BY <2>1 DEF Words, ListWords
<1>6. taken' = NodeWords(i) \o LayerWords(i, l) \o list
  BY <1>1
<1> HIDE DEF list
<1>7. LayerWords(i, l) \o list \in Seq(Int)
  BY <1>4, <1>5, ConcatProperties
<1>8. taken' = NodeWords(i) \o (LayerWords(i, l) \o list)
  <2> DEFINE nodes == NodeWords(i)
             layers == LayerWords(i, l)
  <2>1. nodes \in Seq(Int) /\ layers \in Seq(Int) /\ taken' = (nodes \o layers) \o list
    BY <1>4, <1>6
  <2> HIDE DEF nodes, layers
  <2>2. nodes \in Seq(Int) /\ layers \in Seq(Int) /\ list \in Seq(Int)
    BY <1>5, <2>1
  <2>3. (nodes \o layers) \o list = nodes \o (layers \o list)
    BY ONLY <2>2, ConcatAssociative
  <2> QED
    BY <2>1, <2>3 DEF nodes, layers
<1>9. NodeWords(i) \o (LayerWords(i, l) \o list) \in Seq(Int)
  BY <1>4, <1>7, ConcatProperties
<1>10. Begun' = <<>> /\ phase' = "graph"
  BY DEF Begun, Onward
<1>11. CASE node' = node /\ layer' = layer + 1
  <2>1. NodeWords(node)' = NodeWords(i)' /\ LayerWords(node, layer)' = LayerWords(i, l + 1)'
    BY <1>1, <1>11
  <2>2. taken' = NodeWords(node)' \o LayerWords(node, layer)' \o Begun'
    BY <1>3, <1>8, <1>9, <1>10, <2>1, ConcatEmptySeq
  <2>3. node' < head.count'
    BY <1>11, AtList DEF Onward, Node
  <2> QED
    BY <1>10, <2>2, <2>3 DEF Kept, Graph
<1>12. CASE node' = node + 1 /\ layer' = 0 /\ layer + 1 = levels[node]
  <2>1. NodeWords(node)' = NodeWords(i + 1)'
    BY <1>1, <1>12
  <2>2. taken' = NodeWords(node)' /\ NodeWords(node)' \in Seq(Int)
    BY <1>1, <1>3, <1>8, <1>9, <1>12, <2>1
  <2>3. LayerWords(node, layer)' = <<>>
    BY <1>12, JoinedIs DEF LayerWords
  <2>4. taken' = NodeWords(node)' \o LayerWords(node, layer)' \o Begun'
    BY <1>10, <2>2, <2>3, ConcatEmptySeq
  <2> QED
    BY <1>10, <2>2, <2>4 DEF Kept, Graph
<1> QED
  BY <1>11, <1>12, MovesOn

\* One that is not has them up to the last that was read.
LEMMA ListGoesOn ==
    ASSUME Solid, InGraph, phase = "graph", Onward, node' = node, layer' = layer, left' # 0,
           taken' = NodeWords(node) \o LayerWords(node, layer)
                        \o Words(Len(links'[node][layer]) + left', links'[node][layer])
    PROVE  Kept'
<1>1. PICK i \in Node, l \in 0 .. levels[node] - 1 : i = node /\ l = layer
  BY AtList
<1>2. NodeWords(i)' = NodeWords(i) /\ LayerWords(i, l)' = LayerWords(i, l)
  BY <1>1, WordsStay
<1>3. NodeWords(node)' = NodeWords(node) /\ LayerWords(node, layer)' = LayerWords(node, layer)
  BY <1>1, <1>2
<1>4. Begun' = Words(Len(links'[node][layer]) + left', links'[node][layer])
  BY DEF Begun, Words, Unsigned
<1>5. phase' = "graph" /\ node' < head.count'
  BY AtList DEF Onward, Node
<1> QED
  BY <1>3, <1>4, <1>5 DEF Kept, Graph

\* The next word is behind the ones before it.
LEMMA TakenNext ==
    ASSUME IInv, InGraph, phase = "graph", Onward, NEW v \in Nat, Take(v),
           NEW b \in Seq(Int), Begun = b
    PROVE  taken' = NodeWords(node) \o LayerWords(node, layer) \o Append(b, v)
<1>1. PICK i \in Node, l \in 0 .. levels[node] - 1 : i = node /\ l = layer
  BY AtList DEF IInv, Solid
<1>2. NodeWords(i) \in Seq(Int) /\ LayerWords(i, l) \in Seq(Int)
  <2>1. l \in 0 .. levels[i] /\ Graph
    BY <1>1, AtList DEF IInv, Solid, Graph
  <2> QED
    BY <2>1, WordsAre DEF IInv, Solid
<1>3. NodeWords(i) \o LayerWords(i, l) \in Seq(Int)
  BY <1>2, ConcatProperties
<1>4. taken = NodeWords(i) \o LayerWords(i, l) \o b
  BY <1>1 DEF IInv, Kept, InGraph
<1>5. taken' = NodeWords(i) \o LayerWords(i, l) \o Append(b, v)
  <2> DEFINE s == NodeWords(i) \o LayerWords(i, l)
  <2>1. s \in Seq(Int) /\ v \in Int /\ taken' = Append(s \o b, v)
    BY <1>3, <1>4 DEF Take
  <2> HIDE DEF s
  <2>2. taken' = s \o Append(b, v)
    BY <2>1, AppendConcat
  <2> QED
    BY <2>2 DEF s
<1> QED
  BY <1>1, <1>5

LEMMA SizeKeeps == ASSUME IInv, ReadSize PROVE IInv'
<1>1. CASE Fail
  BY <1>1, FailKeeps DEF IInv
<1>2. CASE ~Fail
  <2>0. Solid
    BY DEF IInv, Solid
  <2>1. PICK v \in Word :
          /\ SizeOK(v)
          /\ left' = IF Placed THEN Place ELSE v
          /\ IF left' = 0 THEN MoveOn ELSE UNCHANGED <<node, layer>>
          /\ Take(v)
          /\ UNCHANGED <<phase, twoPass, head, levels, links, stored>>
    BY <1>2 DEF ReadSize
  <2>2. InGraph /\ left = 0 /\ v \in Nat /\ left' = v /\ Onward
    BY <2>1, LoaderAssumption DEF ReadSize, SizeOK, Word, Onward
  <2>3. links'[node][layer] = <<>> /\ <<>> \in Seq(Int) /\ Len(<<>>) = 0
    BY <2>1, <2>2, EmptySeq DEF IInv, InTurn, InGraph, Graph
  <2>4. Kept'
    <3>1. CASE phase = "scan"
      BY <2>1, <3>1 DEF Kept, IInv, Take
    <3>2. CASE phase = "graph"
      <4>1. Begun = <<>>
        BY <2>2 DEF Begun
      <4>2. taken' = NodeWords(node) \o LayerWords(node, layer) \o <<v>>
        <5>1. taken' = NodeWords(node) \o LayerWords(node, layer) \o Append(<<>>, v)
          BY <2>1, <2>2, <2>3, <3>2, <4>1, TakenNext
        <5>2. Append(<<>>, v) = <<v>>
          OBVIOUS
        <5> QED
          BY <5>1, <5>2
      <4>3. Words(v, <<>>) = <<v>>
        <5>1. [j \in 1 .. Len(<<>>) |-> Unsigned(<<>>[j])] = <<>>
          BY <2>3
        <5>2. <<v>> \in Seq(Int) /\ <<v>> \o <<>> = <<v>>
          BY <2>2, ConcatEmptySeq
        <5> QED
          BY <5>1, <5>2 DEF Words
      <4>4. CASE v = 0
        <5>1. ListWords(<<>>) = <<0>>
          BY <2>3, <4>3, <4>4 DEF ListWords, Words
        <5>2. MoveOn /\ left' = 0
          BY <2>1, <2>2, <4>4
        <5> QED
          BY <2>0, <2>2, <2>3, <3>2, <4>2, <4>4, <5>1, <5>2, ListDone
      <4>5. CASE v # 0
        <5>1. node' = node /\ layer' = layer /\ left' # 0 /\ 0 + left' = v
          BY <2>1, <2>2, <4>5
        <5>2. Words(Len(<<>>) + left', <<>>) = <<v>>
          BY <2>3, <4>3, <5>1
        <5> QED
          BY <2>0, <2>2, <2>3, <3>2, <4>2, <5>1, <5>2, ListGoesOn
      <4> QED
        BY <4>4, <4>5
    <3> QED
      BY <2>2, <3>1, <3>2 DEF InGraph
  <2> QED
    BY <2>0, <2>4, SizeSolid DEF IInv, Solid
<1> QED
  BY <1>1, <1>2

LEMMA IdKeeps == ASSUME IInv, ReadId PROVE IInv'
<1>1. CASE Fail
  BY <1>1, FailKeeps DEF IInv
<1>2. CASE ~Fail
  <2>0. Solid
    BY DEF IInv, Solid
  <2>1. PICK v \in Word :
          /\ IdOK(v)
          /\ left' = left - 1
          /\ IF left' = 0 THEN MoveOn ELSE UNCHANGED <<node, layer>>
          /\ links' = IF phase = "graph"
                      THEN [links EXCEPT ![node][layer] = Append(@, Signed(v))]
                      ELSE links
          /\ Take(v)
          /\ UNCHANGED <<phase, twoPass, head, levels, offsets, stored>>
    BY <1>2 DEF ReadId
  <2>2. InGraph /\ left \in Nat /\ left > 0
    BY DEF ReadId, IInv, TypeOK
  <2>3. CASE phase = "scan"
    <3>1. Kept'
      BY <2>1, <2>3 DEF Kept, IInv, Take
    <3> QED
      BY <2>0, <3>1, IdSolid DEF IInv, Solid
  <2>4. CASE phase = "graph"
    <3> DEFINE list == links[node][layer]
    <3>1. Signed(v) = v /\ v \in Nat
      <4>1. head.count \in Nat \ {0} /\ head.count <= MaxInt /\ MaxInt \in Nat
        BY <2>0, <2>2, AtList, GoodHeader, LoaderAssumption
      <4> QED
        BY <2>1, <4>1 DEF IdOK, Signed, Word
    <3>2. /\ list \in Seq(Int) /\ Len(list) \in Nat
          /\ node \in Node /\ layer \in 0 .. levels[node] - 1
          /\ links = [i \in Node |-> links[i]]
          /\ \A i \in Node : links[i] \in [0 .. levels[i] - 1 -> Seq(Int)]
      BY <2>0, <2>2, AtList DEF Solid, TypeOK, InGraph, Graph
    <3>3. Append(list, v) \in Seq(Int) /\ Len(Append(list, v)) = Len(list) + 1
      BY <3>1, <3>2, AppendProperties
    <3>4. /\ links'[node][layer] = Append(list, v)
          /\ \A i \in Node : \A l \in 0 .. levels[i] - 1 :
                i # node \/ l # layer => links'[i][l] = links[i][l]
      <4>1. links' = [links EXCEPT ![node] = [links[node] EXCEPT ![layer] = Append(list, v)]]
        BY <2>1, <2>4, <3>1
      <4> HIDE DEF list
      <4>2. /\ links'[node] = [links[node] EXCEPT ![layer] = Append(list, v)]
            /\ \A i \in Node : i # node => links'[i] = links[i]
        BY <3>2, <4>1
      <4>3. /\ links'[node][layer] = Append(list, v)
            /\ \A l \in 0 .. levels[node] - 1 : l # layer => links'[node][l] = links[node][l]
        BY <3>2, <4>2
      <4> QED
        BY <4>2, <4>3
    <3>5. Onward
      BY <2>1, <3>4 DEF Onward
    <3>6. Begun = Words(Len(list) + left, list)
      BY <2>2 DEF Begun, Words
    <3> HIDE DEF list
    <3>7. list = links[node][layer]
      BY DEF list
    <3>8. Words(Len(list) + left, list) \in Seq(Int)
      <4>1. Len(list) + left \in Int
        BY <2>2, <3>2
      <4> QED
        BY <3>2, <4>1, WordsSeq
    <3>9. taken' = NodeWords(node) \o LayerWords(node, layer)
                    \o Words(Len(list) + left, Append(list, v))
      <4>1. taken' = NodeWords(node) \o LayerWords(node, layer)
                        \o Append(Words(Len(list) + left, list), v)
        BY <2>1, <2>2, <2>4, <3>1, <3>5, <3>6, <3>8, TakenNext
      <4>2. Len(list) + left \in Int
        BY <2>2, <3>2
      <4> QED
        BY <3>1, <3>2, <4>1, <4>2, WordsAppend
    <3>10. Kept'
      <4>1. CASE left = 1
        <5>1. MoveOn /\ left' = 0
          BY <2>1, <4>1
        <5>2. ListWords(Append(list, v)) = Words(Len(list) + left, Append(list, v))
          BY <3>3, <4>1 DEF ListWords, Words
        <5> QED
          BY <2>0, <2>2, <2>4, <3>3, <3>4, <3>5, <3>9, <5>1, <5>2, ListDone
      <4>2. CASE left # 1
        <5>1. left' # 0 /\ node' = node /\ layer' = layer
          BY <2>1, <2>2, <4>2
        <5>2. Len(Append(list, v)) + left' = Len(list) + left
          BY <2>1, <2>2, <3>2, <3>3
        <5> QED
          BY <2>0, <2>2, <2>4, <3>4, <3>5, <3>9, <5>1, <5>2, ListGoesOn
      <4> QED
        BY <4>1, <4>2
    <3> QED
      BY <2>0, <3>10, IdSolid DEF IInv, Solid
  <2> QED
    BY <2>2, <2>3, <2>4 DEF InGraph
<1> QED
  BY <1>1, <1>2

LEMMA RewindKeeps == ASSUME IInv, Rewind PROVE IInv'
<1>1. Solid
  BY DEF IInv, Solid
<1>2. phase' = "graph" /\ node' = 0 /\ layer' = 0 /\ left' = 0 /\ taken' = <<>>
  BY <1>1, AtEnd DEF Rewind, IInv, Kept
<1>3. Kept'
  BY <1>2, NothingKept
<1> QED
  BY <1>1, <1>3, RewindSolid DEF IInv, Solid

\* What Save writes is what the lists say.
LEMMA WordsUnchanged ==
    ASSUME head' = head, levels' = levels, links' = links
    PROVE  /\ GraphWords' = GraphWords
           /\ \A i, l : NodeWords(i)' = NodeWords(i) /\ LayerWords(i, l)' = LayerWords(i, l)
<1>1. Node' = Node
  BY DEF Node
<1>2. \A i, l : LayerWords(i, l)' = LayerWords(i, l)
  BY DEF LayerWords, ListWords, Unsigned
<1>3. \A i : LayerWords(i, levels[i])' = LayerWords(i, levels[i])
  BY <1>2
<1>4. \A n : NodeWords(n)' = NodeWords(n)
  BY <1>1, <1>3 DEF NodeWords
<1> QED
  BY <1>2, <1>4 DEF GraphWords

LEMMA VectorsKeep == ASSUME IInv, ReadVectors PROVE IInv'
<1>1. Solid
  BY DEF IInv, Solid
<1>2. /\ phase = "graph" /\ node = head.count /\ phase' \in {"packing", "loaded"}
      /\ taken' = taken /\ head' = head /\ levels' = levels /\ links' = links
  BY DEF ReadVectors
<1>3. taken = GraphWords
  <2>1. ~(node < head.count)
    BY <1>1, <1>2, AtEnd
  <2> QED
    BY <1>2, <2>1 DEF IInv, Kept, GraphWords
<1>4. Kept'
  BY <1>2, <1>3, WordsUnchanged DEF Kept, Graph
<1> QED
  BY <1>1, <1>4, VectorsSolid DEF IInv, Solid

LEMMA PackKeeps == ASSUME IInv, Pack PROVE IInv'
<1>1. Solid
  BY DEF IInv, Solid
<1>2. /\ phase = "packing" /\ phase' \in {"packing", "loaded"}
      /\ taken' = taken /\ head' = head /\ levels' = levels /\ links' = links
  BY DEF Pack
<1>3. Kept'
  BY <1>2, WordsUnchanged DEF IInv, Kept, Graph
<1> QED
  BY <1>1, <1>3, PackSolid DEF IInv, Solid

LEMMA StepKeeps == ASSUME IInv, [Next]_vars PROVE IInv'
<1>1. CASE ShortRead
  BY <1>1, FailKeeps DEF ShortRead, IInv
<1>2. CASE UNCHANGED vars
  <2>1. Solid'
    BY <1>2
       DEF vars, IInv, Solid, TypeOK, Aligned, Checked, InTurn, InGraph, LaidOut, BottomAgrees,
           Graph, Node, HeaderOK, Elements, SingleLayer, LevelsOK, ListOK, CapAt, Fits
  <2>2. /\ NodeWords(node)' = NodeWords(node) /\ LayerWords(node, layer)' = LayerWords(node, layer)
        /\ GraphWords' = GraphWords
    BY <1>2, WordsUnchanged DEF vars
  <2>3. Begun' = Begun
    BY <1>2 DEF vars, Begun, Unsigned
  <2>4. Kept'
    BY <1>2, <2>2, <2>3 DEF vars, IInv, Kept, Graph
  <2> QED
    BY <2>1, <2>4 DEF IInv, Solid
<1> QED
  BY <1>1, <1>2, HeaderKeeps, LevelsKeep, SizeKeeps, IdKeeps, RewindKeeps, VectorsKeep, PackKeeps
     DEF Next

\* A load stays within the checks it has made, and its lists within their
\* places, whatever it reads.
THEOREM Invariance == Spec => []IInv
<1>1. IInv /\ [Next]_vars => IInv'
  BY StepKeeps
<1> QED
  BY InitHolds, <1>1, PTL DEF Spec

\* Every ID that a size word announces is read as one, and nothing else is.
THEOREM StaysAligned == Spec => []Aligned
<1>1. IInv => Aligned
  BY DEF IInv
<1> QED
  BY Invariance, <1>1, PTL

\* What queries read of the bottom layer is what links holds of it, whichever
\* way the index was loaded.
THEOREM BottomLayerAgrees == Spec => []BottomAgrees
<1>1. IInv => BottomAgrees
  BY DEF IInv
<1> QED
  BY Invariance, <1>1, PTL

\* Searches can walk every index that LoadHNSW returns.
THEOREM LoadsAreSafe == Spec => []LoadedSafe
<1>1. ASSUME IInv, phase = "loaded"
      PROVE  /\ head.entry \in Node
             /\ levels[head.entry] = head.maxLevel + 1
             /\ \A i \in Node : levels[i] \in 1 .. head.maxLevel + 1
             /\ \A i \in Node : \A l \in 0 .. levels[i] - 1 : ListOK(l, links[i][l])
             /\ stored = head.dim * head.count /\ stored > 0
  <2>1. /\ head \in Headers /\ HeaderOK(head) /\ LevelsOK(levels)
        /\ stored = Elements(head)
        /\ \A i \in Node : levels[i] \in Byte
    BY <1>1 DEF IInv, TypeOK, Checked, Graph
  <2>2. head.entry \in Node /\ head.maxLevel \in Nat /\ Elements(head) \in Nat \ {0}
    BY <2>1, GoodHeader, Positive DEF Node, Elements
  <2>3. \A i \in Node : levels[i] \in 1 .. head.maxLevel + 1
    BY <2>1, <2>2, LoaderAssumption DEF LevelsOK, Byte
  <2>4. \A i \in Node : \A l \in 0 .. levels[i] - 1 : ListOK(l, links[i][l])
    BY <1>1 DEF IInv, InTurn, Graph
  <2> QED
    BY <2>1, <2>2, <2>3, <2>4 DEF LevelsOK, Elements
<1>2. IInv => LoadedSafe
  BY <1>1 DEF LoadedSafe
<1> QED
  BY Invariance, <1>2, PTL

\* Save would write what LoadHNSW read of the lists, word for word.
THEOREM SavesWhatItRead == Spec => []SavesBack
<1>1. IInv => SavesBack
  BY DEF IInv, Kept, SavesBack
<1> QED
  BY Invariance, <1>1, PTL

=============================================================================
