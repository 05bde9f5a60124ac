------------------------------ MODULE BpeProofs ------------------------------
(***************************************************************************)
(* Theorems about bp_bpe.c, for every vocabulary and every pretoken: the   *)
(* two merge engines, MergeLong first, then MergeShort, and the function   *)
(* that calls them, Pretoken.                                              *)
(*                                                                         *)
(* TypeCorrect and ListCorrect are proved together: a pop makes a merge    *)
(* only for a node whose next is set, and it is the list invariant that    *)
(* says such a node is live and where its neighbours are.  NeverFull       *)
(* follows from the potential of HeapFits, whose last step is the fact     *)
(* that a merge removes one live node.                                     *)
(*                                                                         *)
(* That the ids emitted are the greedy encoding, and that merge_long       *)
(* implements Bpe, is shown with the tokens of the list as a sequence: the *)
(* walk along next from the first node, whose adjacent pairs are those of  *)
(* the nodes, so that the splice of a merge is the rule's step on it.      *)
(*                                                                         *)
(* Of the calls: a cache entry always is the greedy encoding of its own    *)
(* key, so a hit returns what a merge would, and neither its key nor its   *)
(* ids overrun their arrays; hence the sink gets the greedy encoding of    *)
(* what was given, whichever paths the pretokens took, and no merge runs   *)
(* in a buffer that is too small.                                          *)
(***************************************************************************)
EXTENDS MergeLong, MergeShort, Pretoken, DataProofs, FiniteSetTheorems

\* The length of a pretoken.
LEMMA TextLength ==
  ASSUME text \in Inputs
  PROVE  N \in Nat /\ N > 1 /\ text \in Seq(Token) /\ 0 \in Index
  BY InputsAssumption DEF N, Index

\* What a lookup that hits returns.
LEMMA TableEntry ==
  ASSUME voc \in Vocabs, NEW pr \in DOMAIN voc
  PROVE  voc[pr].rank \in Nat /\ voc[pr].id \in Token
  BY VocabsAssumption DEF IsTable, IsTableOver

\* A candidate is at most one entry, whatever the links of the node are.
LEMMA CandidateType ==
  ASSUME voc \in Vocabs, NEW nodes \in [Index -> Node], NEW i \in Index
  PROVE  /\ Candidate(nodes, i) \in Seq(Entry)
         /\ Len(Candidate(nodes, i)) <= 1
<1> DEFINE pr == <<nodes[i].id, nodes[nodes[i].next].id>>
<1>1. CASE pr \in DOMAIN voc
  <2>1. [rank |-> voc[pr].rank, pos |-> i, gen |-> nodes[i].gen] \in Entry
    BY <1>1, TableEntry DEF Entry, Node
  <2>2. Candidate(nodes, i) = <<[rank |-> voc[pr].rank, pos |-> i, gen |-> nodes[i].gen]>>
    BY <1>1 DEF Candidate
  <2> QED BY <2>1, <2>2
<1>2. CASE pr \notin DOMAIN voc
  BY <1>2 DEF Candidate
<1> QED BY <1>1, <1>2

\* A pop removes one entry and keeps the others.
LEMMA WithoutType ==
  ASSUME heap \in Seq(Entry), NEW k \in 1..Len(heap)
  PROVE  /\ Without(k) \in Seq(Entry)
         /\ Len(Without(k)) = Len(heap) - 1
         /\ \A m \in 1..Len(heap) : m # k =>
              \E p \in 1..Len(Without(k)) : Without(k)[p] = heap[m]
<1> DEFINE L == Len(heap)
<1>1. L \in Nat /\ \A m \in 1..L : heap[m] \in Entry
  OBVIOUS
<1>2. Without(k) = [m \in 1..(L - 1) |-> IF m = k THEN heap[L] ELSE heap[m]]
  BY DEF Without
<1>3. \A m \in 1..(L - 1) : Without(k)[m] \in Entry
  BY <1>1, <1>2
<1>4. Without(k) \in [1..(L - 1) -> Entry]
  BY <1>2, <1>3
<1>5. Without(k) \in Seq(Entry) /\ Len(Without(k)) = L - 1
  BY <1>1, <1>4
<1>6. ASSUME NEW m \in 1..L, m # k
      PROVE  \E p \in 1..(L - 1) : Without(k)[p] = heap[m]
  <2>1. CASE m = L
    BY <1>1, <1>2, <1>6, <2>1
  <2>2. CASE m # L
    BY <1>1, <1>2, <1>6, <2>2
  <2> QED BY <2>1, <2>2
<1> QED BY <1>5, <1>6

\* The list built from the text is well formed and every node is live.
LEMMA FreshList ==
  ASSUME text \in Inputs
  PROVE  /\ InitNodes \in [Index -> Node]
         /\ IsList(InitNodes)
         /\ LiveIn(InitNodes) = Index
<1>1. N \in Nat /\ N > 1 /\ text \in Seq(Token)
  BY TextLength
<1>2. \A i \in Index : InitNodes[i] \in Node
  <2> TAKE i \in Index
  <2>1. i \in Nat /\ i < N /\ text[i + 1] \in Token
    BY <1>1 DEF Index, N
  <2>2. i - 1 \in Link /\ (IF i + 1 < N THEN i + 1 ELSE -1) \in Link
    BY <1>1, <2>1 DEF Index, Link
  <2> QED BY <1>1, <2>1, <2>2 DEF InitNodes, Node
<1>3. LiveIn(InitNodes) = Index
  BY <1>1 DEF LiveIn, InitNodes, Index
<1>4. /\ InitNodes[0].prev = -1
      /\ \A i \in Index : /\ InitNodes[i].prev = i - 1
                          /\ InitNodes[i].next = IF i + 1 < N THEN i + 1 ELSE -1
  BY <1>1 DEF InitNodes, Index
<1>5. IsList(InitNodes)
  <2>1. \A i \in Index : InitNodes[i].next # -1 =>
          /\ InitNodes[i].next = i + 1 /\ i + 1 \in Index
          /\ InitNodes[i + 1].prev = i
    BY <1>1, <1>4 DEF Index
  <2>2. \A i \in Index : i # 0 =>
          /\ InitNodes[i].prev = i - 1 /\ i - 1 \in Index
          /\ InitNodes[i - 1].next = i
    BY <1>1, <1>4 DEF Index
  <2>3. \A i, x \in Index : x > i => InitNodes[i].next = i + 1
    BY <1>1, <1>4 DEF Index
  <2>4. \A i, x \in Index : x > i => InitNodes[i].next # -1 /\ InitNodes[i].next <= x
    BY <2>3 DEF Index
  <2>5. \A i \in Index : i + 1 > i
    BY DEF Index
  <2> HIDE DEF InitNodes
  <2> QED BY <1>3, <1>4, <2>1, <2>2, <2>4, <2>5 DEF IsList
<1> QED BY <1>2, <1>3, <1>5 DEF InitNodes

\* A merge at a node whose next is set takes exactly that neighbour out of the
\* list and keeps the rest well formed.
LEMMA SplicedList ==
  ASSUME voc \in Vocabs, text \in Inputs, nd \in [Index -> Node], IsList(nd),
         NEW i \in Index, nd[i].next >= 0, PairAt(i) \in DOMAIN voc
  PROVE  /\ Spliced(i) \in [Index -> Node]
         /\ IsList(Spliced(i))
         /\ LiveIn(Spliced(i)) = Live \ {nd[i].next}
         /\ i \in Live /\ nd[i].next \in Live /\ nd[i].next # i
<1> DEFINE j == nd[i].next
           q == nd[j].next
           nodes == Spliced(i)
<1>1. /\ N \in Nat /\ N > 1 /\ 0 \in Index
      /\ \A x \in Index : x \in Nat
      /\ \A x \in Link : x \in Int /\ (x >= 0 => x \in Index) /\ (x # -1 => x >= 0)
  BY TextLength DEF Index, Link
<1>2. /\ i \in Live /\ j \in Live /\ nd[j].prev = i
      /\ i \in Nat /\ j \in Nat /\ j > i /\ j # i
  <2>1. j \in Link
    BY DEF Node
  <2>2. j \in Int /\ j # -1 /\ i \in Nat
    BY <1>1, <2>1
  <2>3. i \in Live
    BY <2>2 DEF IsList, Live, LiveIn
  <2>4. j > i /\ j \in Live /\ nd[j].prev = i
    BY <2>2, <2>3 DEF IsList, Live
  <2> QED BY <1>1, <2>1, <2>2, <2>3, <2>4
<1>3. j \in Index /\ q \in Link /\ (q # -1 => q \in Live /\ q > j /\ nd[q].prev = j)
  BY <1>1, <1>2 DEF IsList, Live, LiveIn, Node, Link
<1>4. voc[PairAt(i)].id \in Token
  BY TableEntry
<1>5. /\ nodes[i] = [id |-> voc[PairAt(i)].id, prev |-> nd[i].prev,
                     next |-> q, gen |-> nd[i].gen + 1]
      /\ nodes[j] = [nd[j] EXCEPT !.prev = -1, !.next = -1]
      /\ q # -1 => nodes[q] = [nd[q] EXCEPT !.prev = i]
      /\ \A x \in Index : x # i /\ x # j /\ x # q => nodes[x] = nd[x]
  BY <1>1, <1>2, <1>3 DEF Spliced, PairAt, Live, LiveIn
<1>6. nodes \in [Index -> Node]
  <2>1. nodes[i] \in Node
    BY <1>3, <1>4, <1>5 DEF Node, Link
  <2>2. nodes[j] \in Node
    BY <1>3, <1>5 DEF Node, Link
  <2>3. q # -1 => nodes[q] \in Node
    BY <1>3, <1>5 DEF Node, Link, Live, LiveIn
  <2>4. \A x \in Index : nodes[x] \in Node
    BY <1>1, <1>5, <2>1, <2>2, <2>3
  <2> QED BY <2>4 DEF Spliced
<1>7. /\ nodes[i].next = q /\ nodes[i].prev = nd[i].prev
      /\ nodes[j].next = -1 /\ nodes[j].prev = -1
      /\ q # -1 => nodes[q].prev = i /\ nodes[q].next = nd[q].next
      /\ \A x \in Index : x # i /\ x # j => nodes[x].next = nd[x].next
      /\ \A x \in Index : x # j /\ x # q => nodes[x].prev = nd[x].prev
  BY <1>1, <1>2, <1>3, <1>5 DEF Node, Live, LiveIn
<1>8. LiveIn(nodes) = Live \ {j}
  <2>1. j \notin LiveIn(nodes) /\ i \in LiveIn(nodes)
    BY <1>1, <1>2, <1>7 DEF Live, LiveIn
  <2>2. q # -1 => q \in LiveIn(nodes) /\ q \in Live
    BY <1>2, <1>3, <1>7 DEF Live, LiveIn
  <2>3. ASSUME NEW x \in Index, x # j, x # q
        PROVE  x \in LiveIn(nodes) <=> x \in Live
    BY <1>7, <2>3 DEF Live, LiveIn
  <2>4. LiveIn(nodes) \subseteq Index /\ Live \subseteq Index /\ -1 \notin Index
    BY <1>1 DEF Live, LiveIn
  <2> QED BY <2>1, <2>2, <2>3, <2>4
<1>9. /\ nd[0].prev = -1
      /\ \A x \in Live : x \in Index /\ nd[x].next \in Link /\ nd[x].prev \in Link
      /\ \A x \in Live : nd[x].next # -1 =>
           nd[x].next > x /\ nd[x].next \in Live /\ nd[nd[x].next].prev = x
      /\ \A x \in Live : x # 0 => nd[x].prev \in Live /\ nd[nd[x].prev].next = x
      /\ \A x, y \in Live : y > x => nd[x].next # -1 /\ nd[x].next <= y
      /\ \A x \in Index \ Live : nd[x].next = -1
  BY DEF IsList, Live, LiveIn, Node
<1>10. IsList(nodes)
  <2>1. nodes[0].prev = -1
    BY <1>1, <1>2, <1>3, <1>7, <1>9
  <2>2. ASSUME NEW x \in LiveIn(nodes), nodes[x].next # -1
        PROVE  /\ nodes[x].next > x
               /\ nodes[x].next \in LiveIn(nodes)
               /\ nodes[nodes[x].next].prev = x
    <3>1. x \in Live /\ x \in Index /\ x # j
      BY <1>8, <1>9
    <3>2. CASE x = i
      <4>1. nodes[x].next = q /\ q # -1
        BY <1>7, <2>2, <3>2
      <4>2. q > j /\ q \in Live /\ q \in Int /\ nodes[q].prev = i
        BY <1>1, <1>3, <1>7, <4>1
      <4>3. q > i /\ q # j
        BY <1>2, <4>2
      <4> QED BY <1>8, <3>2, <4>1, <4>2, <4>3
    <3>3. CASE x # i
      <4>1. nodes[x].next = nd[x].next
        BY <1>7, <3>1, <3>3
      <4>2. /\ nd[x].next > x /\ nd[x].next \in Live
            /\ nd[nd[x].next].prev = x /\ nd[x].next \in Index
        BY <1>9, <2>2, <3>1, <4>1
      <4>3. nd[x].next # j /\ nd[x].next # q
        BY <1>2, <1>3, <2>2, <3>1, <3>3, <4>1, <4>2
      <4>4. nodes[nd[x].next].prev = x
        BY <1>7, <4>2, <4>3
      <4> QED BY <1>8, <4>1, <4>2, <4>3, <4>4
    <3> QED BY <3>2, <3>3
  <2>3. ASSUME NEW x \in LiveIn(nodes), x # 0
        PROVE  nodes[x].prev \in LiveIn(nodes) /\ nodes[nodes[x].prev].next = x
    <3>1. x \in Live /\ x \in Index /\ x # j
      BY <1>8, <1>9
    <3>2. nd[x].prev \in Live /\ nd[nd[x].prev].next = x /\ nd[x].prev \in Index
      BY <1>9, <2>3, <3>1
    <3>3. CASE x = q
      BY <1>1, <1>2, <1>3, <1>7, <1>8, <3>1, <3>3 DEF Link
    <3>4. CASE x # q
      <4>1. nodes[x].prev = nd[x].prev
        BY <1>7, <3>1, <3>4
      <4>2. nd[x].prev # j /\ nd[x].prev # i
        BY <3>1, <3>2, <3>4
      <4>3. nodes[nd[x].prev].next = nd[nd[x].prev].next
        BY <1>7, <3>2, <4>2
      <4> QED BY <1>8, <3>2, <4>1, <4>2, <4>3
    <3> QED BY <3>3, <3>4
  <2>4. ASSUME NEW x \in LiveIn(nodes), NEW y \in LiveIn(nodes), y > x
        PROVE  nodes[x].next # -1 /\ nodes[x].next <= y
    <3>1. x \in Live /\ y \in Live /\ x # j /\ y # j /\ x \in Nat /\ y \in Nat
      BY <1>1, <1>8, <1>9
    <3>2. CASE x = i
      <4>1. j <= y
        BY <1>9, <2>4, <3>1, <3>2
      <4>2. y > j
        BY <1>2, <3>1, <4>1
      <4>3. nd[j].next # -1 /\ nd[j].next <= y
        BY <1>2, <1>9, <3>1, <4>2
      <4> QED BY <1>7, <3>2, <4>3
    <3>3. CASE x # i
      BY <1>7, <1>9, <2>4, <3>1, <3>3
    <3> QED BY <3>2, <3>3
  <2>5. ASSUME NEW x \in Index \ LiveIn(nodes) PROVE nodes[x].next = -1
    BY <1>2, <1>7, <1>8, <1>9
  <2> QED BY <2>1, <2>2, <2>3, <2>4, <2>5 DEF IsList
<1> QED BY <1>2, <1>6, <1>8, <1>10

LEMMA PushesType ==
  ASSUME voc \in Vocabs, text \in Inputs,
         NEW nodes \in [Index -> Node], NEW i \in Index
  PROVE  Pushes(nodes, i) \in Seq(Entry) /\ Len(Pushes(nodes, i)) <= 2
<1> DEFINE left == IF nodes[i].prev >= 0 THEN Candidate(nodes, nodes[i].prev) ELSE <<>>
           right == IF nodes[i].next >= 0 THEN Candidate(nodes, i) ELSE <<>>
<1>1. nodes[i].prev \in Link /\ \A x \in Link : x >= 0 => x \in Index
  BY TextLength DEF Node, Link, Index
<1>2. left \in Seq(Entry) /\ Len(left) <= 1
  BY <1>1, CandidateType
<1>3. right \in Seq(Entry) /\ Len(right) <= 1
  BY CandidateType
<1>4. Pushes(nodes, i) = left \o right
  BY DEF Pushes
<1> HIDE DEF left, right
<1> QED BY <1>2, <1>3, <1>4

----------------------------------------------------------------------------

\* The filling loop starts at 0, and while it runs the list is still the text.
Fresh ==
  /\ pc = "reserve" => at = 0
  /\ pc = "fill" => nd = InitNodes

\* The inductive invariant.
IInv == TypeOK /\ Fresh /\ ListOK /\ HeapFits /\ NeverFull /\ EmitFits

LEMMA InitInv == Init => IInv
<1> SUFFICES ASSUME Init PROVE IInv
  OBVIOUS
<1>1. 0 \in Index /\ N \in Nat
  BY TextLength DEF Init
<1>2. TypeOK
  BY <1>1 DEF Init, TypeOK, Built, Link
<1>3. HeapFits /\ EmitFits
  BY <1>1 DEF Init, HeapFits, EmitFits
<1> QED BY <1>2, <1>3 DEF Init, IInv, Fresh, ListOK, Built, NeverFull

\* The text is never written, so neither are the sets that depend on it.
LEMMA Frozen ==
  ASSUME text' = text
  PROVE  /\ N' = N /\ Index' = Index /\ HeapCap' = HeapCap
         /\ Node' = Node /\ Entry' = Entry /\ InitNodes' = InitNodes
         /\ \A nodes : /\ LiveIn(nodes)' = LiveIn(nodes)
                       /\ IsList(nodes)' = IsList(nodes)
BY DEF N, Index, HeapCap, Node, Entry, Link, InitNodes, LiveIn, IsList

\* What a step of Merge does to the shared state; used for every property.
LEMMA MergeStep ==
  ASSUME IInv, Merge
  PROVE  \E k \in 1..Len(heap) :
           LET i == heap[k].pos
               j == nd[i].next
           IN /\ IsTop(k) /\ Current(heap[k])
              /\ i \in Index /\ i \in Live /\ j \in Live /\ j # i
              /\ PairAt(i) \in DOMAIN voc
              /\ nd' = Spliced(i) /\ nd' \in [Index -> Node]
              /\ IsList(nd') /\ LiveIn(nd') = Live \ {j}
              /\ Cardinality(Live) \in Nat /\ Cardinality(LiveIn(nd')) = Cardinality(Live) - 1
              /\ pc' = "loop" /\ pc = "loop"
              /\ heap' = Without(k) \o Pushes(nd', i)
<1>1. PICK k \in 1..Len(heap) :
        LET i == heap[k].pos
            nodes == Spliced(i)
            h == Compacted(nodes, Without(k))
        IN /\ IsTop(k)
           /\ Current(heap[k])
           /\ nd' = nodes
           /\ IF Len(h) + 2 > HeapCap
              THEN pc' = "full" /\ heap' = h
              ELSE pc' = pc /\ heap' = h \o Pushes(nodes, i)
  BY DEF Merge
<1> DEFINE i == heap[k].pos
           j == nd[i].next
<1>2. /\ voc \in Vocabs /\ text \in Inputs /\ nd \in [Index -> Node]
      /\ heap \in Seq(Entry) /\ pc = "loop" /\ IsList(nd)
  BY DEF IInv, TypeOK, ListOK, Built, Merge
<1>3. i \in Index /\ nd[i].next >= 0 /\ PairAt(i) \in DOMAIN voc
  <2>1. heap[k] \in Entry
    BY <1>2
  <2>2. i \in Index
    BY <2>1 DEF Entry
  <2> QED BY <1>1, <2>2 DEF Current, PairAt
<1>4. /\ Spliced(i) \in [Index -> Node]
      /\ IsList(Spliced(i))
      /\ LiveIn(Spliced(i)) = Live \ {j}
      /\ i \in Live /\ j \in Live /\ j # i
  BY <1>2, <1>3, SplicedList
<1>5. /\ N \in Nat /\ IsFiniteSet(Live)
      /\ Cardinality(Live) \in Nat /\ Cardinality(Live) >= 2
      /\ Cardinality(Live \ {j}) = Cardinality(Live) - 1
  <2>1. N \in Nat /\ IsFiniteSet(Index)
    BY <1>2, TextLength, FS_Interval DEF Index
  <2>2. IsFiniteSet(Live)
    BY <2>1, FS_Subset DEF Live, LiveIn
  <2>3. /\ Cardinality(Live \ {j}) = Cardinality(Live) - 1 /\ IsFiniteSet(Live \ {j})
    BY <1>4, <2>2, FS_RemoveElement
  <2>4. Cardinality(Live \ {j}) # 0
    BY <1>4, <2>3, FS_EmptySet
  <2> QED BY <2>1, <2>2, <2>3, <2>4, FS_CardinalityType
<1>6. Len(Without(k)) = Len(heap) - 1 /\ Len(heap) \in Nat
  BY <1>2, WithoutType
<1>7. Len(heap) + Cardinality(Live) <= 2 * N - 1
  BY <1>2 DEF IInv, HeapFits, HeapCap
<1>8. ~(Len(Without(k)) + 2 > HeapCap)
  BY <1>5, <1>6, <1>7 DEF HeapCap
<1>9. Compacted(Spliced(i), Without(k)) = Without(k)
  BY <1>8 DEF Compacted
<1>10. nd' = Spliced(i) /\ pc' = "loop" /\ heap' = Without(k) \o Pushes(nd', i)
  BY <1>1, <1>2, <1>8, <1>9
<1> QED BY <1>1, <1>2, <1>3, <1>4, <1>5, <1>10

LEMMA StepInv == IInv /\ [Next]_vars => IInv'
<1> SUFFICES ASSUME IInv, [Next]_vars PROVE IInv'
  OBVIOUS
<1>1. text' = text /\ voc' = voc
  BY DEF Next, vars, ReserveFails, Reserve, Fill, Discard, Merge, EmitFails, StartEmit, Emit
<1>2. /\ voc \in Vocabs /\ text \in Inputs /\ heap \in Seq(Entry) /\ at \in Link
      /\ ids \in Seq(Token) /\ N \in Nat /\ N > 1 /\ 0 \in Index /\ Len(ids) <= N
      /\ \A x \in Index : x \in Nat /\ x < N
      /\ \A x \in Link : x \in Int /\ (x >= 0 => x \in Index)
  BY TextLength DEF IInv, TypeOK, EmitFits, Index, Link
<1>3. /\ Index' = Index /\ Entry' = Entry /\ Node' = Node /\ HeapCap' = HeapCap
      /\ N' = N /\ Link' = Link
      /\ InitNodes' = InitNodes /\ Live' = LiveIn(nd') /\ IsList(nd)' = IsList(nd')
  BY <1>1, Frozen DEF Live, LiveIn, IsList, Link
<1> USE DEF IInv, TypeOK, Built, Fresh, ListOK, HeapFits, NeverFull, EmitFits
<1>4. CASE ReserveFails
  BY <1>1, <1>2, <1>3, <1>4 DEF ReserveFails
<1>5. CASE Reserve
  <2>1. nd' \in [Index -> Node] /\ IsList(nd')
    BY <1>2, <1>5, FreshList DEF Reserve
  <2> QED BY <1>1, <1>2, <1>3, <1>5, <2>1 DEF Reserve
<1>6. CASE Fill
  <2>1. CASE at + 1 < N
    <3>1. /\ heap' = heap \o Candidate(nd, at) /\ at' = at + 1 /\ pc' = "fill"
          /\ nd' = nd /\ nd \in [Index -> Node] /\ at \in Index /\ Len(heap) <= at
      BY <1>6, <2>1 DEF Fill
    <3>2. Candidate(nd, at) \in Seq(Entry) /\ Len(Candidate(nd, at)) <= 1
      BY <1>2, <3>1, CandidateType
    <3>3. heap' \in Seq(Entry) /\ Len(heap') <= at' /\ at' \in Index /\ at' \in Link
      BY <1>2, <2>1, <3>1, <3>2 DEF Index, Link
    <3> QED BY <1>1, <1>2, <1>3, <1>6, <2>1, <3>1, <3>3 DEF Fill
  <2>2. CASE ~(at + 1 < N)
    <3>1. pc' = "loop" /\ heap' = heap /\ at' = at /\ nd' = nd /\ ids' = ids
      BY <1>6, <2>2 DEF Fill
    <3>2. nd = InitNodes /\ Live = Index /\ Len(heap) <= N - 1
      BY <1>2, <1>6, FreshList DEF Fill, Live
    <3>3. Cardinality(Index) = N
      BY <1>2, FS_Interval DEF Index
    <3>4. Len(heap) + Cardinality(Live) <= HeapCap - 1
      BY <1>2, <3>2, <3>3 DEF HeapCap
    <3> QED BY <1>1, <1>2, <1>3, <1>6, <3>1, <3>2, <3>4 DEF Fill, Live
  <2> QED BY <2>1, <2>2
<1>7. CASE Discard
  <2>1. PICK k \in 1..Len(heap) : heap' = Without(k)
    BY <1>7 DEF Discard
  <2>2. heap' \in Seq(Entry) /\ Len(heap') = Len(heap) - 1
    BY <1>2, <2>1, WithoutType
  <2>3. Live' = Live
    BY <1>3, <1>7 DEF Discard, Live
  <2>4. Cardinality(Live) \in Nat
    <3>1. IsFiniteSet(Index) /\ Live \subseteq Index
      BY <1>2, FS_Interval DEF Live, LiveIn, Index
    <3> QED BY <3>1, FS_Subset, FS_CardinalityType
  <2> QED BY <1>1, <1>2, <1>3, <1>7, <2>2, <2>3, <2>4 DEF Discard, HeapCap
<1>8. CASE Merge
  <2>1. PICK k \in 1..Len(heap) :
          /\ heap[k].pos \in Index
          /\ nd' \in [Index -> Node] /\ IsList(nd')
          /\ Cardinality(Live) \in Nat
          /\ Cardinality(LiveIn(nd')) = Cardinality(Live) - 1
          /\ pc' = "loop" /\ pc = "loop"
          /\ heap' = Without(k) \o Pushes(nd', heap[k].pos)
    BY <1>8, MergeStep
  <2>2. Without(k) \in Seq(Entry) /\ Len(Without(k)) = Len(heap) - 1
    BY <1>2, WithoutType
  <2>3. Pushes(nd', heap[k].pos) \in Seq(Entry) /\ Len(Pushes(nd', heap[k].pos)) <= 2
    BY <1>2, <2>1, PushesType
  <2>4. heap' \in Seq(Entry) /\ Len(heap') <= Len(heap) + 1
    BY <1>2, <2>1, <2>2, <2>3
  <2>5. Len(heap') + Cardinality(Live') <= HeapCap' - 1
    BY <1>2, <1>3, <2>1, <2>4 DEF HeapCap
  <2> QED BY <1>1, <1>2, <1>3, <1>8, <2>1, <2>4, <2>5 DEF Merge
<1>9. CASE EmitFails
  BY <1>1, <1>2, <1>3, <1>9 DEF EmitFails
<1>10. CASE StartEmit
  BY <1>1, <1>2, <1>3, <1>10 DEF StartEmit
<1>11. CASE Emit
  <2>1. CASE at >= 0
    <3>1. at \in Index /\ nd[at].next \in Link /\ nd[at].id \in Token
      BY <1>2, <1>11, <2>1 DEF Emit, Node
    <3>2. nd[at].next >= 0 => nd[at].next > at
      BY <1>2, <1>11, <3>1 DEF Emit, IsList
    <3>3. Len(ids) <= at /\ at < N /\ pc = "emit"
      BY <1>2, <1>11, <2>1, <3>1 DEF Emit
    <3>4. /\ ids' = Append(ids, nd[at].id) /\ at' = nd[at].next /\ pc' = "emit"
          /\ heap' = heap /\ nd' = nd
      BY <1>11, <2>1 DEF Emit
    <3>5. ids' \in Seq(Token) /\ Len(ids') = Len(ids) + 1
      BY <1>2, <3>1, <3>4
    <3>6. Len(ids') <= (IF at' >= 0 THEN at' ELSE N) /\ Len(ids') <= N
      BY <1>2, <3>1, <3>2, <3>3, <3>4, <3>5
    <3> QED BY <1>1, <1>2, <1>3, <3>1, <3>3, <3>4, <3>5, <3>6
  <2>2. CASE ~(at >= 0)
    BY <1>1, <1>2, <1>3, <1>11, <2>2 DEF Emit
  <2> QED BY <2>1, <2>2
<1>12. CASE UNCHANGED vars
  BY <1>1, <1>2, <1>3, <1>12 DEF vars, Live
<1> QED
  BY <1>4, <1>5, <1>6, <1>7, <1>8, <1>9, <1>10, <1>11, <1>12 DEF Next

\* The inductive invariant holds of every behaviour.
THEOREM Inductive == Spec => []IInv
  BY InitInv, StepInv, PTL DEF Spec

----------------------------------------------------------------------------

\* Every variable keeps its type, for every vocabulary and every pretoken.
THEOREM TypeCorrect == Spec => []TypeOK
<1>1. IInv => TypeOK
  BY DEF IInv
<1> QED BY <1>1, Inductive, PTL

\* The linked list of merge_long is well formed at every loop iteration.
THEOREM ListCorrect == Spec => []ListOK
<1>1. IInv => ListOK
  BY DEF IInv
<1> QED BY <1>1, Inductive, PTL

\* The heap of 2n entries always has room: the "cannot happen" branch of
\* bp_bpe.c:124-136 is unreachable.
THEOREM HeapHasRoom == Spec => [](HeapFits /\ NeverFull)
<1>1. IInv => HeapFits /\ NeverFull
  BY DEF IInv
<1> QED BY <1>1, Inductive, PTL

\* The emit loop stays within the n ids it reserved.
THEOREM EmitHasRoom == Spec => []EmitFits
<1>1. IInv => EmitFits
  BY DEF IInv
<1> QED BY <1>1, Inductive, PTL

----------------------------------------------------------------------------

InHeap(h, e) == \E k \in 1..Len(h) : h[k] = e

EntryOf(nodes, i) ==
  [rank |-> voc[<<nodes[i].id, nodes[nodes[i].next].id>>].rank, pos |-> i,
   gen |-> nodes[i].gen]

\* Both operands of a concatenation keep their elements.
LEMMA ConcatHolds ==
  ASSUME NEW g \in Seq(Entry), NEW h \in Seq(Entry), NEW e
  PROVE  InHeap(g, e) \/ InHeap(h, e) => InHeap(g \o h, e)
<1>1. ASSUME NEW k \in 1..Len(g), g[k] = e PROVE InHeap(g \o h, e)
  <2>1. k \in 1..Len(g \o h) /\ (g \o h)[k] = e
    BY <1>1
  <2> QED BY <2>1 DEF InHeap
<1>2. ASSUME NEW k \in 1..Len(h), h[k] = e PROVE InHeap(g \o h, e)
  <2>1. Len(g) + k \in 1..Len(g \o h) /\ (g \o h)[Len(g) + k] = e
    BY <1>2
  <2> QED BY <2>1 DEF InHeap
<1> QED BY <1>1, <1>2 DEF InHeap

\* A hit yields a candidate that describes the pair.
LEMMA CandidateHolds ==
  ASSUME NEW nodes, NEW i,
         <<nodes[i].id, nodes[nodes[i].next].id>> \in DOMAIN voc
  PROVE  InHeap(Candidate(nodes, i), EntryOf(nodes, i))
<1>1. Candidate(nodes, i) = <<EntryOf(nodes, i)>>
  BY DEF Candidate, EntryOf
<1> QED BY <1>1 DEF InHeap

LEMMA NoLostHolds ==
  NoLostCandidate <=>
    (pc \in {"fill", "loop"} =>
       \A i \in Index : MergeableAt(i) /\ (pc = "fill" => i < at) =>
         InHeap(heap, EntryOf(nd, i)))
BY DEF NoLostCandidate, InHeap, EntryOf, PairAt

LEMMA NoLostMerge ==
  ASSUME IInv, NoLostCandidate, Merge
  PROVE  NoLostCandidate'
<1>1. PICK k \in 1..Len(heap) :
        LET i == heap[k].pos
            j == nd[i].next
        IN /\ i \in Index /\ i \in Live /\ j \in Live /\ j # i
           /\ PairAt(i) \in DOMAIN voc
           /\ nd' = Spliced(i) /\ nd' \in [Index -> Node]
           /\ IsList(nd') /\ LiveIn(nd') = Live \ {j}
           /\ pc' = "loop" /\ pc = "loop"
           /\ heap' = Without(k) \o Pushes(nd', i)
  BY MergeStep
<1> DEFINE i == heap[k].pos
           j == nd[i].next
           q == nd[j].next
<1>2. /\ voc \in Vocabs /\ text \in Inputs /\ nd \in [Index -> Node] /\ IsList(nd)
      /\ heap \in Seq(Entry) /\ voc' = voc /\ text' = text
      /\ Index' = Index /\ LiveIn(nd)' = LiveIn(nd') /\ Live \subseteq Index
      /\ \A x \in Link : x >= 0 => x \in Index
  <2>1. text' = text /\ voc' = voc
    BY DEF Merge
  <2>2. LiveIn(nd)' = LiveIn(nd')
    BY <2>1 DEF LiveIn, Index, N
  <2> QED BY <1>1, <2>1, <2>2, Frozen, TextLength
             DEF IInv, TypeOK, ListOK, Built, Live, LiveIn, Link, Index
<1> SUFFICES ASSUME NEW x \in Index, x \in LiveIn(nd'), nd'[x].next # -1,
                    <<nd'[x].id, nd'[nd'[x].next].id>> \in DOMAIN voc
             PROVE  InHeap(heap', EntryOf(nd', x))
  <2>1. ASSUME NEW z \in Index, MergeableAt(z)'
        PROVE  /\ z \in LiveIn(nd') /\ nd'[z].next # -1
               /\ <<nd'[z].id, nd'[nd'[z].next].id>> \in DOMAIN voc
    BY <1>2, <2>1 DEF MergeableAt, PairAt, Live
  <2>2. (\A z \in Index : MergeableAt(z)' => InHeap(heap', EntryOf(nd', z)))
          => NoLostCandidate'
    BY <1>1, <1>2 DEF NoLostCandidate, InHeap, EntryOf, PairAt
  <2> QED BY <2>1, <2>2
<1> DEFINE y == nd'[x].next
           left == IF nd'[i].prev >= 0 THEN Candidate(nd', nd'[i].prev) ELSE <<>>
           right == IF nd'[i].next >= 0 THEN Candidate(nd', i) ELSE <<>>
<1>3. /\ Without(k) \in Seq(Entry)
      /\ \A m \in 1..Len(heap) : m # k => InHeap(Without(k), heap[m])
  BY <1>2, WithoutType DEF InHeap
<1>4. left \in Seq(Entry) /\ right \in Seq(Entry) /\ left \o right \in Seq(Entry)
  <2>1. nd'[i] \in Node
    BY <1>1
  <2>2. nd'[i].prev \in Link
    BY <2>1 DEF Node
  <2>3. i \in Index /\ (nd'[i].prev >= 0 => nd'[i].prev \in Index)
    BY <1>1, <1>2, <2>2
  <2>4. \A z \in Index : Candidate(nd', z) \in Seq(Entry)
    BY <1>1, <1>2, CandidateType
  <2>5. left \in Seq(Entry)
    BY <2>3, <2>4
  <2>6. right \in Seq(Entry)
    BY <2>3, <2>4
  <2> HIDE DEF left, right
  <2> QED BY <2>5, <2>6
<1>5. heap' = Without(k) \o (left \o right)
  BY <1>1 DEF Pushes
<1>6. y \in Index /\ y \in LiveIn(nd') /\ y > x /\ nd'[y].prev = x /\ y >= 0
  <2>1. y \in LiveIn(nd') /\ y > x /\ nd'[y].prev = x
    BY <1>1 DEF IsList
  <2> QED BY <2>1, TextLength, <1>2 DEF LiveIn, Index
<1> HIDE DEF left, right
<1>7. CASE x = i
  <2>1. right = Candidate(nd', x)
    BY <1>6, <1>7 DEF right
  <2>2. InHeap(right, EntryOf(nd', x))
    BY <2>1, CandidateHolds
  <2> QED BY <1>3, <1>4, <1>5, <2>2, ConcatHolds
<1>8. CASE y = i
  <2>1. left = Candidate(nd', x)
    BY <1>2, <1>6, <1>8, TextLength DEF left, Index
  <2>2. InHeap(left, EntryOf(nd', x))
    BY <2>1, CandidateHolds
  <2> QED BY <1>3, <1>4, <1>5, <2>2, ConcatHolds
<1>9. CASE x # i /\ y # i
  <2>1. x \in Live /\ y \in Live /\ x # j /\ y # j
    BY <1>1, <1>6
  <2>2. nd'[x].id = nd[x].id /\ nd'[x].gen = nd[x].gen /\ nd'[x].next = nd[x].next
    BY <1>1, <1>2, <1>9, <2>1 DEF Spliced, Node
  <2>3. nd'[y].id = nd[y].id
    BY <1>1, <1>2, <1>6, <1>9, <2>1 DEF Spliced, Node
  <2>4. EntryOf(nd', x) = EntryOf(nd, x) /\ MergeableAt(x)
    BY <2>1, <2>2, <2>3 DEF EntryOf, MergeableAt, PairAt
  <2>5. PICK m \in 1..Len(heap) : heap[m] = EntryOf(nd, x)
    BY <1>1, <2>4, NoLostHolds DEF InHeap
  <2>6. m # k
    BY <1>9, <2>5 DEF EntryOf
  <2>7. InHeap(Without(k), EntryOf(nd', x))
    BY <1>3, <2>4, <2>5, <2>6
  <2> QED BY <1>3, <1>4, <1>5, <2>7, ConcatHolds
<1> QED BY <1>7, <1>8, <1>9

\* The invariant behind the greedy rule.
CInv == IInv /\ NoLostCandidate /\ NothingLeft

LEMMA CandidatesStep == CInv /\ [Next]_vars => CInv'
<1> SUFFICES ASSUME CInv, [Next]_vars PROVE NoLostCandidate' /\ NothingLeft'
  BY StepInv DEF CInv
<1>1. text' = text /\ voc' = voc
  BY DEF Next, vars, ReserveFails, Reserve, Fill, Discard, Merge, EmitFails, StartEmit, Emit
<1>2. /\ voc \in Vocabs /\ text \in Inputs /\ heap \in Seq(Entry) /\ at \in Link
      /\ N \in Nat /\ N > 1 /\ Index' = Index /\ LiveIn(nd)' = LiveIn(nd')
      /\ \A x \in Index : x \in Nat /\ x < N
      /\ \A x \in Link : x \in Int /\ (x >= 0 => x \in Index)
  BY <1>1, TextLength, Frozen DEF CInv, IInv, TypeOK, Index, Link, LiveIn
<1>3. ASSUME nd' = nd
      PROVE  \A i \in Index : /\ MergeableAt(i)' <=> MergeableAt(i)
                             /\ EntryOf(nd, i)' = EntryOf(nd, i)
  BY <1>1, <1>2, <1>3 DEF MergeableAt, PairAt, Live, EntryOf
<1>4. CASE ReserveFails
  BY <1>4 DEF ReserveFails, NoLostCandidate, NothingLeft
<1>5. CASE Reserve
  BY <1>1, <1>2, <1>5 DEF Reserve, NoLostCandidate, NothingLeft, CInv, IInv, Fresh
<1>6. CASE Fill
  <2>1. NothingLeft'
    BY <1>6 DEF Fill, NothingLeft
  <2>2. /\ nd' = nd /\ nd = InitNodes /\ nd \in [Index -> Node]
        /\ at \in Index /\ Live = Index /\ pc = "fill"
        /\ \A i \in Index : nd[i].next # -1 => i + 1 < N
    <3>1. nd' = nd /\ pc = "fill" /\ nd = InitNodes /\ at \in Index
      BY <1>6 DEF Fill, CInv, IInv, Fresh, HeapFits
    <3>2. nd \in [Index -> Node] /\ Live = Index
      BY <1>2, <3>1, FreshList DEF Live
    <3>3. \A i \in Index : nd[i].next # -1 => i + 1 < N
      BY <1>2, <3>1 DEF InitNodes
    <3> QED BY <3>1, <3>2, <3>3
  <2>3. CASE at + 1 < N
    <3>1. heap' = heap \o Candidate(nd, at) /\ at' = at + 1 /\ pc' = "fill"
      BY <1>6, <2>3 DEF Fill
    <3>2. Candidate(nd, at) \in Seq(Entry)
      BY <1>2, <2>2, CandidateType
    <3>3. ASSUME NEW i \in Index, MergeableAt(i), i < at + 1
          PROVE  InHeap(heap', EntryOf(nd, i))
      <4>1. CASE i = at
        <5>1. InHeap(Candidate(nd, at), EntryOf(nd, i))
          BY <3>3, <4>1, CandidateHolds DEF MergeableAt, PairAt
        <5> QED BY <1>2, <3>1, <3>2, <5>1, ConcatHolds
      <4>2. CASE i # at
        <5>1. i < at
          BY <1>2, <2>2, <3>3, <4>2
        <5>2. InHeap(heap, EntryOf(nd, i))
          BY <2>2, <3>3, <5>1, NoLostHolds DEF CInv
        <5> QED BY <1>2, <3>1, <3>2, <5>2, ConcatHolds
      <4> QED BY <4>1, <4>2
    <3>4. \A i \in Index : MergeableAt(i)' /\ i < at' => InHeap(heap', EntryOf(nd, i)')
      BY <1>3, <2>2, <3>1, <3>3
    <3> QED BY <1>2, <2>1, <3>1, <3>4 DEF NoLostCandidate, InHeap, EntryOf, PairAt
  <2>4. CASE ~(at + 1 < N)
    <3>1. heap' = heap /\ pc' = "loop"
      BY <1>6, <2>4 DEF Fill
    <3>2. \A i \in Index : MergeableAt(i) => i < at
      BY <1>2, <2>2, <2>4 DEF MergeableAt
    <3>3. \A i \in Index : MergeableAt(i) => InHeap(heap, EntryOf(nd, i))
      BY <2>2, <3>2, NoLostHolds DEF CInv
    <3>4. \A i \in Index : MergeableAt(i)' => InHeap(heap', EntryOf(nd, i)')
      BY <1>3, <2>2, <3>1, <3>3
    <3> QED BY <1>2, <2>1, <3>1, <3>4 DEF NoLostCandidate, InHeap, EntryOf, PairAt
  <2> QED BY <2>3, <2>4
<1>7. CASE Discard
  <2>1. PICK k \in 1..Len(heap) : ~Current(heap[k]) /\ heap' = Without(k)
    BY <1>7 DEF Discard
  <2>2. nd' = nd /\ pc = "loop" /\ pc' = "loop"
    BY <1>7 DEF Discard
  <2>3. ASSUME NEW i \in Index, MergeableAt(i)
        PROVE  InHeap(heap', EntryOf(nd, i))
    <3>1. PICK m \in 1..Len(heap) : heap[m] = EntryOf(nd, i)
      BY <2>2, <2>3, NoLostHolds DEF CInv, InHeap
    <3>2. nd[i].next >= 0
      BY <1>2, <2>2, <2>3 DEF MergeableAt, CInv, IInv, ListOK, Built, IsList, Live, LiveIn
    <3>3. Current(heap[m])
      BY <2>3, <3>1, <3>2 DEF Current, EntryOf, MergeableAt, PairAt
    <3>4. m # k
      BY <2>1, <3>3
    <3> QED BY <1>2, <2>1, <3>1, <3>4, WithoutType DEF InHeap
  <2>4. \A i \in Index : MergeableAt(i)' => InHeap(heap', EntryOf(nd, i)')
    BY <1>3, <2>2, <2>3
  <2> QED BY <1>2, <2>2, <2>4 DEF NoLostCandidate, NothingLeft, InHeap, EntryOf, PairAt
<1>8. CASE Merge
  <2>1. NoLostCandidate'
    BY <1>8, NoLostMerge DEF CInv
  <2>2. pc' \notin {"emit", "done"}
    BY <1>8, MergeStep DEF CInv
  <2> QED BY <2>1, <2>2 DEF NothingLeft
<1>9. CASE EmitFails
  BY <1>9 DEF EmitFails, NoLostCandidate, NothingLeft
<1>10. CASE StartEmit
  <2>1. \A i \in Index : ~MergeableAt(i)
    BY <1>10, NoLostHolds DEF StartEmit, CInv, InHeap
  <2> QED BY <1>2, <1>3, <1>10, <2>1 DEF StartEmit, NoLostCandidate, NothingLeft
<1>11. CASE Emit
  BY <1>2, <1>3, <1>11 DEF Emit, NoLostCandidate, NothingLeft, CInv
<1>12. CASE UNCHANGED vars
  <2>1. heap' = heap /\ at' = at /\ pc' = pc /\ nd' = nd
    BY <1>12 DEF vars
  <2> QED BY <1>1, <1>2, <1>3, <2>1 DEF NoLostCandidate, NothingLeft, CInv, PairAt
<1> QED
  BY <1>4, <1>5, <1>6, <1>7, <1>8, <1>9, <1>10, <1>11, <1>12 DEF Next

LEMMA CandidatesInv == Spec => []CInv
<1>1. Init => CInv
  BY InitInv DEF Init, CInv, NoLostCandidate, NothingLeft
<1> QED BY <1>1, CandidatesStep, PTL DEF Spec

\* Every mergeable pair of the list has a current entry in the heap, and the
\* result is handed over only when none is left.
THEOREM NothingLost == Spec => [](NoLostCandidate /\ NothingLeft)
<1>1. CInv => NoLostCandidate /\ NothingLeft
  BY DEF CInv
<1> QED BY <1>1, CandidatesInv, PTL

\* A merge is made at a mergeable node, and no other one comes before it.
LEMMA MergeIsBest ==
  ASSUME CInv, Merge
  PROVE  \E i \in Index :
           /\ nd' = Spliced(i) /\ MergeableAt(i) /\ nd[i].next >= 0
           /\ pc = "loop" /\ pc' = "loop"
           /\ \A x \in Index : MergeableAt(x) =>
                \/ voc[PairAt(i)].rank < voc[PairAt(x)].rank
                \/ voc[PairAt(i)].rank = voc[PairAt(x)].rank /\ i <= x
<1>1. PICK k \in 1..Len(heap) :
        LET i == heap[k].pos
            j == nd[i].next
        IN /\ IsTop(k) /\ Current(heap[k])
           /\ i \in Index /\ i \in Live /\ j \in Live /\ j # i
           /\ PairAt(i) \in DOMAIN voc
           /\ nd' = Spliced(i) /\ pc = "loop" /\ pc' = "loop"
  BY MergeStep DEF CInv
<1> DEFINE i == heap[k].pos
<1>2. /\ nd \in [Index -> Node] /\ voc \in Vocabs /\ text \in Inputs
      /\ \A x \in Index : x \in Nat
  BY TextLength DEF CInv, IInv, TypeOK, Built, Merge, Index
<1>3. nd[i].next >= 0 /\ nd[i].next # -1
  BY <1>1, <1>2 DEF Current, Live, LiveIn
<1>4. MergeableAt(i)
  BY <1>1, <1>3 DEF MergeableAt
<1>5. ASSUME NEW x \in Index, MergeableAt(x)
      PROVE  \/ voc[PairAt(i)].rank < voc[PairAt(x)].rank
             \/ voc[PairAt(i)].rank = voc[PairAt(x)].rank /\ i <= x
  <2>1. PICK m \in 1..Len(heap) : heap[m] = EntryOf(nd, x)
    BY <1>1, <1>5, NoLostHolds DEF CInv, InHeap
  <2>2. heap[m].rank = voc[PairAt(x)].rank /\ heap[m].pos = x
    BY <2>1 DEF EntryOf, PairAt
  <2>3. heap[k].rank = voc[PairAt(i)].rank /\ heap[k].pos = i
    BY <1>1 DEF Current, PairAt
  <2>4. ~Less(heap[m], heap[k])
    BY <1>1 DEF IsTop
  <2>5. voc[PairAt(i)].rank \in Nat /\ voc[PairAt(x)].rank \in Nat
    BY <1>2, <1>4, <1>5, TableEntry DEF MergeableAt
  <2> QED BY <1>1, <1>2, <2>2, <2>3, <2>4, <2>5 DEF Less
<1> QED BY <1>1, <1>3, <1>4, <1>5

\* merge_long makes only the merges of the greedy rule: lowest rank first,
\* leftmost among equals, and never one that a stale entry asks for.
THEOREM OnlyBestMerges == Spec => MergesBest
<1> DEFINE Best == \A i \in Index : pc = "loop" /\ nd'[i].gen # nd[i].gen =>
       /\ MergeableAt(i)
       /\ nd'[i].id = voc[PairAt(i)].id
       /\ \A x \in Index : MergeableAt(x) =>
            \/ voc[PairAt(i)].rank < voc[PairAt(x)].rank
            \/ voc[PairAt(i)].rank = voc[PairAt(x)].rank /\ i <= x
<1>1. CInv /\ [Next]_vars => [Best]_vars
  <2> SUFFICES ASSUME CInv, Next, NEW i \in Index, pc = "loop", nd'[i].gen # nd[i].gen
               PROVE  /\ MergeableAt(i)
                      /\ nd'[i].id = voc[PairAt(i)].id
                      /\ \A x \in Index : MergeableAt(x) =>
                           \/ voc[PairAt(i)].rank < voc[PairAt(x)].rank
                           \/ voc[PairAt(i)].rank = voc[PairAt(x)].rank /\ i <= x
    OBVIOUS
  <2>1. Merge
    BY DEF Next, ReserveFails, Reserve, Fill, Discard, EmitFails, StartEmit, Emit
  <2>2. PICK a \in Index :
          /\ nd' = Spliced(a) /\ MergeableAt(a)
          /\ \A x \in Index : MergeableAt(x) =>
               \/ voc[PairAt(a)].rank < voc[PairAt(x)].rank
               \/ voc[PairAt(a)].rank = voc[PairAt(x)].rank /\ a <= x
    BY <2>1, MergeIsBest
  <2>3. /\ nd \in [Index -> Node] /\ text \in Inputs
        /\ nd[a].next \in Index /\ nd[a].next # a
    <3>1. nd \in [Index -> Node] /\ IsList(nd) /\ text \in Inputs
      BY <2>1 DEF CInv, IInv, TypeOK, ListOK, Built, Merge
    <3> QED BY <2>2, <3>1, TextLength DEF IsList, MergeableAt, Live, LiveIn, Index
  <2>4. i = a
    <3> SUFFICES ASSUME i # a PROVE nd'[i].gen = nd[i].gen
      OBVIOUS
    <3>1. CASE i = nd[a].next
      BY <2>2, <2>3, <3>1 DEF Spliced, Node
    <3>2. CASE i = nd[nd[a].next].next /\ i # nd[a].next
      BY <2>2, <2>3, <3>2 DEF Spliced, Node
    <3>3. CASE i # nd[a].next /\ i # nd[nd[a].next].next
      BY <2>2, <2>3, <3>3 DEF Spliced
    <3> QED BY <3>1, <3>2, <3>3
  <2>5. nd'[i].id = voc[PairAt(i)].id
    BY <2>2, <2>3, <2>4 DEF Spliced, PairAt
  <2> QED BY <2>2, <2>4, <2>5
<1> QED BY <1>1, CandidatesInv, PTL DEF Spec, MergesBest

----------------------------------------------------------------------------
(* The list as a sequence.                                                 *)

\* f names the live nodes of the array, from the head to the right.
Chain(nodes, f) ==
  /\ f \in Seq(Index) /\ Len(f) >= 1 /\ f[1] = 0
  /\ \A k, m \in 1..Len(f) : k < m => f[k] < f[m]
  /\ \A k \in 1..Len(f) : nodes[f[k]].next = IF k < Len(f) THEN f[k + 1] ELSE -1
  /\ LiveIn(nodes) = {f[k] : k \in 1..Len(f)}

\* The tokens of those nodes.
Tokens(nodes, f) == [k \in 1..Len(f) |-> nodes[f[k]].id]

\* next never points to the left.
Rightward(nodes) == \A i \in Index : nodes[i].next # -1 => nodes[i].next > i

\* Walk, of any node array.
WalkOf(nodes) ==
  LET from[i \in Link] ==
        IF i = -1 THEN <<>> ELSE <<nodes[i].id>> \o from[nodes[i].next]
  IN from[0]

ReadsFrom(nodes, g) ==
  g = [i \in Link |-> IF i = -1 THEN <<>> ELSE <<nodes[i].id>> \o g[nodes[i].next]]

LEMMA ListRightward ==
  ASSUME text \in Inputs, NEW nodes \in [Index -> Node], IsList(nodes)
  PROVE  Rightward(nodes)
  BY DEF IsList, Rightward

\* What is read from every position is well defined: links run to the right.
LEMMA ReadExists ==
  ASSUME text \in Inputs, NEW nodes \in [Index -> Node], Rightward(nodes)
  PROVE  \E g : ReadsFrom(nodes, g)
<1> DEFINE S == [Link -> Seq(Token)]
           c == [i \in Link |-> <<>>]
           put(m, x) == [x EXCEPT ![N - m] = <<nodes[N - m].id>> \o x[nodes[N - m].next]]
           F == [m \in 1..N |-> [x \in S |-> put(m, x)]]
<1>1. /\ N \in Nat /\ Index = 0..(N - 1) /\ Link = Index \cup {-1} /\ -1 \notin Index
      /\ \A i \in Index : nodes[i].id \in Token /\ nodes[i].next \in Link
  BY TextLength DEF Index, Link, Node
<1>2. c \in S
  OBVIOUS
<1>3. \A m \in 1..N : N - m \in Index
  BY <1>1
<1>4. ASSUME NEW m \in 1..N, NEW x \in S PROVE put(m, x) \in S
  <2>1. x[nodes[N - m].next] \in Seq(Token) /\ nodes[N - m].id \in Token
    BY <1>1, <1>3
  <2>2. <<nodes[N - m].id>> \o x[nodes[N - m].next] \in Seq(Token)
    BY <2>1
  <2> QED BY <2>2
<1> HIDE DEF S, put
<1>5. F \in Steps(N, S)
  BY <1>4 DEF Steps
<1> HIDE DEF F, c
<1>6. PICK g : Iterated(g, N, S, c, F)
  BY <1>1, <1>2, <1>5, Iterates
<1>7. g \in [0..N -> S] /\ g[0] = c /\ \A m \in 1..N : g[m] = put(m, g[m - 1])
  <2>1. g \in [0..N -> S] /\ g[0] = c /\ \A m \in 1..N : g[m] = F[m][g[m - 1]]
    BY <1>6 DEF Iterated
  <2>2. \A m \in 1..N : g[m - 1] \in S
    BY <1>1, <2>1
  <2> QED BY <2>1, <2>2 DEF F
<1> DEFINE at1(m, i) == g[m][i] = <<nodes[i].id>> \o g[m][nodes[i].next]
           T == {m \in 0..N : g[m][-1] = <<>> /\ \A i \in Index : i >= N - m => at1(m, i)}
<1>8. 0 \in T
  <2>1. \A i \in Index : ~(i >= N - 0)
    BY <1>1
  <2> QED BY <1>1, <1>7, <2>1 DEF c
<1>9. ASSUME NEW m \in 1..N, m - 1 \in T PROVE m \in T
  <2>1. g[m - 1] \in [Link -> Seq(Token)] /\ g[m] = put(m, g[m - 1])
    <3>1. m - 1 \in 0..N
      BY <1>1
    <3>2. g[m - 1] \in S /\ g[m] = put(m, g[m - 1])
      BY <1>7, <3>1
    <3> QED BY <3>2 DEF S
  <2>2. \A x \in Link : x # N - m => g[m][x] = g[m - 1][x]
    BY <2>1 DEF put
  <2>3. g[m][-1] = <<>>
    BY <1>1, <1>3, <1>9, <2>2
  <2>4. ASSUME NEW i \in Index, i >= N - m PROVE at1(m, i)
    <3>1. nodes[i].next \in Link /\ i \in Link
      BY <1>1
    <3>2. nodes[i].next # N - m
      BY <1>1, <1>3, <2>4 DEF Rightward
    <3>3. g[m][nodes[i].next] = g[m - 1][nodes[i].next]
      BY <2>2, <3>1, <3>2
    <3>4. CASE i = N - m
      <4>1. g[m][i] = <<nodes[i].id>> \o g[m - 1][nodes[i].next]
        BY <2>1, <3>1, <3>4 DEF put
      <4> QED BY <3>3, <4>1
    <3>5. CASE i # N - m
      <4>1. i >= N - (m - 1)
        BY <1>1, <2>4, <3>5
      <4>2. g[m - 1][i] = <<nodes[i].id>> \o g[m - 1][nodes[i].next]
        BY <1>9, <4>1
      <4> QED BY <2>2, <3>1, <3>3, <3>5, <4>2
    <3> QED BY <3>4, <3>5
  <2> HIDE DEF at1
  <2> QED BY <2>3, <2>4
<1>10. N \in T
  <2> HIDE DEF T
  <2>1. \A m \in 0..N : m \in T
    BY <1>1, <1>8, <1>9, UpTo
  <2> QED BY <1>1, <2>1
<1>11. ReadsFrom(nodes, g[N])
  <2>1. g[N] \in [Link -> Seq(Token)]
    <3>1. g[N] \in S
      BY <1>1, <1>7
    <3> QED BY <3>1 DEF S
  <2>2. g[N][-1] = <<>> /\ \A i \in Index : at1(N, i)
    BY <1>1, <1>10
  <2>3. \A i \in Link : g[N][i] = IF i = -1 THEN <<>> ELSE <<nodes[i].id>> \o g[N][nodes[i].next]
    BY <1>1, <2>2
  <2> HIDE DEF at1
  <2>4. g[N] = [i \in Link |-> g[N][i]]
    BY <2>1
  <2> QED BY <2>3, <2>4 DEF ReadsFrom
<1> QED BY <1>11

\* Walk reads the tokens of the live nodes.
LEMMA WalkTokens ==
  ASSUME text \in Inputs, NEW nodes \in [Index -> Node], Rightward(nodes),
         NEW f, Chain(nodes, f)
  PROVE  WalkOf(nodes) = Tokens(nodes, f)
<1> DEFINE h == CHOOSE g : ReadsFrom(nodes, g)
           L == Len(f)
           tail(m) == [k \in 1..(m + 1) |-> nodes[f[L - m + k - 1]].id]
           T == {m \in 0..(L - 1) : h[f[L - m]] = tail(m)}
<1>1. WalkOf(nodes) = h[0]
  BY DEF WalkOf, ReadsFrom
<1>2. ReadsFrom(nodes, h)
  BY ReadExists
<1> HIDE DEF h
<1>3. /\ L \in Nat /\ L >= 1 /\ f[1] = 0
      /\ \A k \in 1..L : f[k] \in Index /\ f[k] \in Link /\ f[k] # -1
      /\ \A k \in 1..L : nodes[f[k]].next = IF k < L THEN f[k + 1] ELSE -1
  BY TextLength DEF Chain, Link, Index
<1>4. h[-1] = <<>> /\ \A k \in 1..L : h[f[k]] = <<nodes[f[k]].id>> \o h[nodes[f[k]].next]
  BY <1>2, <1>3 DEF ReadsFrom, Link
<1> HIDE DEF L
<1>5. 0 \in T
  <2>1. h[f[L]] = <<nodes[f[L]].id>>
    <3>1. L \in 1..L /\ nodes[f[L]].next = -1
      BY <1>3
    <3>2. h[f[L]] = <<nodes[f[L]].id>> \o <<>>
      BY <1>4, <3>1
    <3> QED BY <3>2
  <2>2. tail(0) = <<nodes[f[L]].id>>
    BY <1>3
  <2> QED BY <1>3, <2>1, <2>2
<1>6. ASSUME NEW m \in 1..(L - 1), m - 1 \in T PROVE m \in T
  <2> DEFINE i == L - m
             a == nodes[f[i]].id
  <2>1. i \in 1..(L - 1) /\ i + 1 = L - (m - 1) /\ i \in 1..L
    BY <1>3
  <2>2. h[f[i]] = <<a>> \o h[f[i + 1]]
    <3>1. nodes[f[i]].next = f[i + 1]
      BY <1>3, <2>1
    <3> QED BY <1>4, <2>1, <3>1
  <2>3. h[f[i + 1]] = tail(m - 1)
    BY <1>6, <2>1
  <2>4. tail(m - 1) = [k \in 1..m |-> nodes[f[i + k]].id]
    BY <1>3
  <2>5. tail(m) = [k \in 1..(m + 1) |-> nodes[f[i + k - 1]].id]
    OBVIOUS
  <2> HIDE DEF tail
  <2>6. <<a>> \o [k \in 1..m |-> nodes[f[i + k]].id] = [k \in 1..(m + 1) |-> nodes[f[i + k - 1]].id]
    BY <1>3, <2>1
  <2>7. h[f[i]] = tail(m)
    BY <2>2, <2>3, <2>4, <2>5, <2>6
  <2> QED BY <2>7
<1>7. L - 1 \in T
  <2> HIDE DEF T
  <2>1. L - 1 \in Nat
    BY <1>3
  <2>2. \A m \in 0..(L - 1) : m \in T
    BY <1>5, <1>6, <2>1, UpTo
  <2> QED BY <2>1, <2>2
<1>8. h[f[1]] = tail(L - 1)
  BY <1>3, <1>7
<1>9. tail(L - 1) = [k \in 1..L |-> nodes[f[k]].id]
  BY <1>3
<1> QED BY <1>1, <1>3, <1>8, <1>9 DEF Tokens, L

\* The list built from the text reads as the text.
LEMMA ChainStart ==
  ASSUME text \in Inputs
  PROVE  \E f : Chain(InitNodes, f) /\ Tokens(InitNodes, f) = text
<1> DEFINE f == [k \in 1..N |-> k - 1]
<1>1. N \in Nat /\ N > 1 /\ text \in Seq(Token) /\ Index = 0..(N - 1) /\ LiveIn(InitNodes) = Index
  BY TextLength, FreshList DEF Index
<1>2. f \in Seq(Index) /\ Len(f) = N
  BY <1>1
<1>3. \A k \in 1..N : /\ f[k] = k - 1
                      /\ InitNodes[f[k]].next = IF k < N THEN k ELSE -1
                      /\ InitNodes[f[k]].id = text[k]
  BY <1>1 DEF InitNodes
<1>4. Index = {f[k] : k \in 1..N}
  <2>1. \A x \in Index : x + 1 \in 1..N /\ x = f[x + 1]
    BY <1>1, <1>3
  <2>2. \A k \in 1..N : f[k] \in Index
    BY <1>1, <1>3
  <2> HIDE DEF f
  <2> QED BY <1>1, <2>1, <2>2
<1> HIDE DEF f
<1>5. Chain(InitNodes, f)
  <2>1. f[1] = 0 /\ Len(f) >= 1
    BY <1>1, <1>2, <1>3
  <2>2. \A k, m \in 1..N : k < m => f[k] < f[m]
    BY <1>1, <1>3
  <2>3. \A k \in 1..N : InitNodes[f[k]].next = IF k < N THEN f[k + 1] ELSE -1
    BY <1>1, <1>3
  <2> QED BY <1>1, <1>2, <1>4, <2>1, <2>2, <2>3 DEF Chain
<1>6. Tokens(InitNodes, f) = text
  <2>1. Tokens(InitNodes, f) = [k \in 1..N |-> text[k]]
    BY <1>2, <1>3 DEF Tokens
  <2> QED BY <1>1, <2>1 DEF N
<1> QED BY <1>5, <1>6

\* The mergeable pairs of the list are those of its tokens.
LEMMA ChainPairs ==
  ASSUME text \in Inputs, nd \in [Index -> Node], NEW f, Chain(nd, f)
  PROVE  /\ Tokens(nd, f) \in Seq(Token) /\ Len(Tokens(nd, f)) = Len(f)
         /\ \A p \in 1..Len(f) : /\ f[p] \in Index
                                 /\ p \in Mergeable(voc, Tokens(nd, f)) <=> MergeableAt(f[p])
         /\ \A p \in Mergeable(voc, Tokens(nd, f)) :
              /\ p \in 1..(Len(f) - 1) /\ nd[f[p]].next = f[p + 1]
              /\ <<Tokens(nd, f)[p], Tokens(nd, f)[p + 1]>> = PairAt(f[p])
<1> DEFINE L == Len(f)
           s == Tokens(nd, f)
<1>1. /\ L \in Nat /\ \A k \in 1..L : f[k] \in Index /\ f[k] \in Live /\ f[k] # -1
      /\ \A k \in 1..L : nd[f[k]].next = IF k < L THEN f[k + 1] ELSE -1
  BY TextLength DEF Chain, Live, Index
<1> HIDE DEF L
<1>2. s = [k \in 1..L |-> nd[f[k]].id]
  BY DEF Tokens, L
<1>3. \A k \in 1..L : nd[f[k]].id \in Token
  BY <1>1 DEF Node
<1>4. s \in Seq(Token) /\ Len(s) = L /\ \A k \in 1..L : s[k] = nd[f[k]].id
  BY <1>1, <1>2, <1>3
<1> HIDE DEF s
<1>5. \A p \in 1..(L - 1) : nd[f[p]].next = f[p + 1] /\ <<s[p], s[p + 1]>> = PairAt(f[p])
  BY <1>1, <1>4 DEF PairAt
<1>6. ASSUME NEW p \in 1..L PROVE p \in Mergeable(voc, s) <=> MergeableAt(f[p])
  <2>1. CASE p < L
    <3>1. p \in 1..(L - 1) /\ nd[f[p]].next # -1 /\ f[p] \in Live
      BY <1>1, <2>1
    <3>2. p \in Mergeable(voc, s) <=> <<s[p], s[p + 1]>> \in DOMAIN voc
      BY <1>4, <3>1 DEF Mergeable
    <3> QED BY <1>5, <3>1, <3>2 DEF MergeableAt
  <2>2. CASE ~(p < L)
    <3>1. nd[f[p]].next = -1 /\ p \notin 1..(L - 1)
      BY <1>1, <2>2
    <3> QED BY <1>4, <3>1 DEF MergeableAt, Mergeable
  <2> QED BY <2>1, <2>2
<1>7. \A p \in Mergeable(voc, s) : p \in 1..(L - 1)
  BY <1>4 DEF Mergeable
<1> QED BY <1>1, <1>4, <1>5, <1>6, <1>7 DEF L, s

\* A merge at the best node is the merge the rule makes in the tokens.
LEMMA ChainMerge ==
  ASSUME voc \in Vocabs, text \in Inputs, nd \in [Index -> Node], IsList(nd),
         NEW f, Chain(nd, f),
         NEW i \in Index, MergeableAt(i), nd[i].next >= 0,
         \A x \in Index : MergeableAt(x) =>
           \/ voc[PairAt(i)].rank < voc[PairAt(x)].rank
           \/ voc[PairAt(i)].rank = voc[PairAt(x)].rank /\ i <= x
  PROVE  \E p, g : /\ IsBest(voc, Tokens(nd, f), p)
                   /\ Chain(Spliced(i), g)
                   /\ Tokens(Spliced(i), g) = MergedAt(voc, Tokens(nd, f), p)
<1> DEFINE L == Len(f)
           s == Tokens(nd, f)
           nodes == Spliced(i)
<1>1. /\ L \in Nat /\ f[1] = 0 /\ f \in Seq(Index)
      /\ \A k \in 1..L : f[k] \in Index
      /\ \A k, m \in 1..L : k < m => f[k] < f[m]
      /\ \A k \in 1..L : nd[f[k]].next = IF k < L THEN f[k + 1] ELSE -1
      /\ Live = {f[k] : k \in 1..L}
      /\ \A x \in Index : x \in Nat
  BY TextLength DEF Chain, Live, Index
<1>2. PICK p \in 1..L : f[p] = i
  BY <1>1 DEF MergeableAt
<1> HIDE DEF L
<1>3. p \in 1..(L - 1) /\ p \in Mergeable(voc, s) /\ nd[i].next = f[p + 1]
  <2>1. p \in Mergeable(voc, s)
    BY <1>2, ChainPairs DEF L
  <2> QED BY <1>2, <2>1, ChainPairs DEF L
<1> DEFINE g == [k \in 1..(L - 1) |-> IF k <= p THEN f[k] ELSE f[k + 1]]
           j == f[p + 1]
<1>4. IsBest(voc, s, p)
  <2>1. ASSUME NEW k \in Mergeable(voc, s)
        PROVE  \/ RankAt(voc, s, p) < RankAt(voc, s, k)
               \/ RankAt(voc, s, p) = RankAt(voc, s, k) /\ p <= k
    <3>1. /\ k \in 1..L /\ MergeableAt(f[k]) /\ f[k] \in Index
          /\ <<s[k], s[k + 1]>> = PairAt(f[k]) /\ <<s[p], s[p + 1]>> = PairAt(i)
      <4>1. k \in 1..(L - 1) /\ <<s[k], s[k + 1]>> = PairAt(f[k])
        BY ChainPairs DEF L
      <4>2. k \in 1..L
        BY <1>1, <4>1
      <4>3. <<s[p], s[p + 1]>> = PairAt(i)
        BY <1>2, <1>3, ChainPairs
      <4> QED BY <4>1, <4>2, <4>3, ChainPairs DEF L
    <3>2. i <= f[k] => p <= k
      BY <1>1, <1>2, <3>1
    <3> QED BY <3>1, <3>2 DEF RankAt
  <2> QED BY <1>3, <2>1 DEF IsBest
<1>4a. p \in Nat /\ p >= 1 /\ p + 1 <= L /\ p + 1 \in 1..L
  BY <1>1, <1>3
<1>5. /\ LiveIn(nodes) = Live \ {j}
      /\ j # i /\ j \in Index
  <2>1. PairAt(i) \in DOMAIN voc
    BY DEF MergeableAt
  <2>2. LiveIn(nodes) = Live \ {nd[i].next} /\ nd[i].next # i
    BY <2>1, SplicedList
  <2> QED BY <1>1, <1>3, <1>4a, <2>2
<1>6. /\ nodes[i].next = nd[j].next /\ nodes[i].id = voc[PairAt(i)].id
      /\ \A x \in Index : x # i /\ x # j => nodes[x].next = nd[x].next /\ nodes[x].id = nd[x].id
  <2>1. nodes[i].next = nd[j].next /\ nodes[i].id = voc[PairAt(i)].id
    BY <1>3, <1>5 DEF Spliced, PairAt
  <2>2. ASSUME NEW x \in Index, x # i, x # j
        PROVE  nodes[x].next = nd[x].next /\ nodes[x].id = nd[x].id
    <3>1. nodes[x] = IF x = nd[j].next THEN [nd[x] EXCEPT !.prev = i] ELSE nd[x]
      BY <1>3, <2>2 DEF Spliced
    <3>2. nd[x] \in Node
      OBVIOUS
    <3> QED BY <3>1, <3>2 DEF Node
  <2> QED BY <2>1, <2>2
<1> HIDE DEF nodes
<1>7. \A k \in 1..L : k # p /\ k # p + 1 => f[k] # i /\ f[k] # j
  <2>1. \A k, m \in 1..L : k # m => f[k] # f[m]
    <3> SUFFICES ASSUME NEW k \in 1..L, NEW m \in 1..L, k # m PROVE f[k] # f[m]
      OBVIOUS
    <3>1. f[k] \in Nat /\ f[m] \in Nat
      BY <1>1
    <3>2. k < m => f[k] < f[m]
      BY <1>1
    <3>3. m < k => f[m] < f[k]
      BY <1>1
    <3> QED BY <1>1, <3>1, <3>2, <3>3
  <2> QED BY <1>2, <1>4a, <2>1
<1>8. g \in Seq(Index) /\ Len(g) = L - 1 /\ g[1] = 0 /\ Len(g) >= 1
  <2>1. L - 1 \in Nat /\ L - 1 >= 1 /\ 1 \in 1..(L - 1) /\ 1 <= p
    BY <1>1, <1>4a
  <2>2. ASSUME NEW k \in 1..(L - 1) PROVE (IF k <= p THEN f[k] ELSE f[k + 1]) \in Index
    <3>1. k \in 1..L /\ k + 1 \in 1..L
      BY <1>1
    <3> QED BY <1>1, <3>1
  <2>3. g \in [1..(L - 1) -> Index]
    BY <2>2
  <2>4. g[1] = f[1]
    BY <2>1
  <2>5. \A m \in Nat : \A h \in [1..m -> Index] : h \in Seq(Index) /\ Len(h) = m
    OBVIOUS
  <2> HIDE DEF g
  <2>6. g \in Seq(Index) /\ Len(g) = L - 1
    BY <2>1, <2>3, <2>5
  <2> QED BY <1>1, <2>1, <2>4, <2>6
<1>9. \A k \in 1..(L - 1) : g[k] = IF k <= p THEN f[k] ELSE f[k + 1]
  OBVIOUS
<1> HIDE DEF g, j
<1>9a. ASSUME NEW k \in 1..(L - 1)
       PROVE  /\ k \in 1..L /\ k + 1 \in 1..L /\ k \in Nat
              /\ k < p => /\ g[k] = f[k] /\ g[k + 1] = f[k + 1]
                         /\ nodes[g[k]].next = nd[f[k]].next /\ nodes[g[k]].id = nd[f[k]].id
              /\ k = p => g[k] = i
              /\ k > p => /\ g[k] = f[k + 1]
                         /\ nodes[g[k]].next = nd[f[k + 1]].next
                         /\ nodes[g[k]].id = nd[f[k + 1]].id
  <2>1. k \in 1..L /\ k + 1 \in 1..L /\ k \in Nat
    BY <1>1
  <2>2. ASSUME k < p
        PROVE  /\ g[k] = f[k] /\ g[k + 1] = f[k + 1]
               /\ nodes[g[k]].next = nd[f[k]].next /\ nodes[g[k]].id = nd[f[k]].id
    <3>1. g[k] = f[k] /\ g[k + 1] = f[k + 1]
      <4>1. L \in Nat
        BY <1>1
      <4>2. k <= p /\ k + 1 <= p /\ k + 1 \in 1..(L - 1)
        BY <1>4a, <2>1, <2>2, <4>1
      <4> QED BY <1>9, <4>2
    <3>2. f[k] # i /\ f[k] # j /\ f[k] \in Index
      BY <1>1, <1>4a, <1>7, <2>1, <2>2
    <3> QED BY <1>6, <3>1, <3>2
  <2>3. k = p => g[k] = i
    BY <1>2, <1>4a, <1>9
  <2>4. ASSUME k > p
        PROVE  /\ g[k] = f[k + 1] /\ nodes[g[k]].next = nd[f[k + 1]].next
               /\ nodes[g[k]].id = nd[f[k + 1]].id
    <3>1. g[k] = f[k + 1]
      BY <1>4a, <1>9, <2>1, <2>4
    <3>2. f[k + 1] # i /\ f[k + 1] # j /\ f[k + 1] \in Index
      BY <1>1, <1>4a, <1>7, <2>1, <2>4
    <3> QED BY <1>6, <3>1, <3>2
  <2> QED BY <2>1, <2>2, <2>3, <2>4
<1>10. Chain(nodes, g)
  <2>1. ASSUME NEW k \in 1..(L - 1), NEW m \in 1..(L - 1), k < m PROVE g[k] < g[m]
    <3> DEFINE a == IF k <= p THEN k ELSE k + 1
               b == IF m <= p THEN m ELSE m + 1
    <3>1. a \in 1..L /\ b \in 1..L /\ a < b
      BY <1>1, <1>4a, <2>1
    <3>2. g[k] = f[a] /\ g[m] = f[b]
      BY <1>9
    <3> HIDE DEF a, b
    <3> QED BY <1>1, <3>1, <3>2
  <2>2. ASSUME NEW k \in 1..(L - 1)
        PROVE  nodes[g[k]].next = IF k < L - 1 THEN g[k + 1] ELSE -1
    <3>1. CASE k < p
      <4>1. L \in Nat /\ k \in 1..L /\ k < L /\ k < L - 1
        BY <1>1, <1>4a, <1>9a, <3>1
      <4>2. nd[f[k]].next = f[k + 1]
        BY <1>1, <4>1
      <4> QED BY <1>9a, <3>1, <4>1, <4>2
    <3>2. CASE k = p
      <4>1. nodes[g[k]].next = nd[f[p + 1]].next
        BY <1>6, <1>9a, <3>2 DEF j
      <4>2. nd[f[p + 1]].next = IF p + 1 < L THEN f[p + 2] ELSE -1
        BY <1>1, <1>4a
      <4>3. p + 1 < L => g[k + 1] = f[p + 2]
        BY <1>1, <1>4a, <1>9, <3>2
      <4> QED BY <1>1, <1>4a, <3>2, <4>1, <4>2, <4>3
    <3>3. CASE k > p
      <4>1. nd[f[k + 1]].next = IF k + 1 < L THEN f[k + 2] ELSE -1
        <5>1. k + 1 \in 1..L /\ (k + 1) + 1 = k + 2
          BY <1>9a
        <5> QED BY <1>1, <5>1
      <4>2. ASSUME k + 1 < L PROVE g[k + 1] = f[k + 2]
        <5>1. L \in Nat /\ k \in Nat /\ k >= 1 /\ p \in Nat
          BY <1>1, <1>4a, <1>9a
        <5>2. k + 1 \in 1..(L - 1) /\ ~(k + 1 <= p) /\ (k + 1) + 1 = k + 2
          BY <3>3, <4>2, <5>1
        <5> QED BY <1>9, <5>2
      <4> QED BY <1>1, <1>9a, <3>3, <4>1, <4>2
    <3> QED BY <1>4a, <1>9a, <3>1, <3>2, <3>3
  <2>3. LiveIn(nodes) = {g[k] : k \in 1..(L - 1)}
    <3>1. ASSUME NEW x \in LiveIn(nodes) PROVE \E k \in 1..(L - 1) : g[k] = x
      <4>1. PICK k \in 1..L : f[k] = x
        BY <1>1, <1>5
      <4>2. k # p + 1
        BY <1>5, <4>1 DEF j
      <4>3. CASE k <= p
        <5>1. k \in 1..(L - 1) /\ g[k] = f[k]
          BY <1>1, <1>4a, <1>9, <4>3
        <5> QED BY <4>1, <5>1
      <4>4. CASE k > p + 1
        <5>1. k - 1 \in 1..(L - 1) /\ g[k - 1] = f[k]
          BY <1>1, <1>3, <1>9, <4>4
        <5> QED BY <4>1, <5>1
      <4> QED BY <1>1, <1>3, <4>2, <4>3, <4>4
    <3>2. ASSUME NEW k \in 1..(L - 1) PROVE g[k] \in LiveIn(nodes)
      <4>1. \E m \in 1..L : g[k] = f[m]
        BY <1>1, <1>3, <1>9
      <4>2. g[k] # j
        <5>1. k < p => f[k] # j
          BY <1>4a, <1>7, <1>9a
        <5>2. k > p => f[k + 1] # j
          BY <1>4a, <1>7, <1>9a
        <5> QED BY <1>4a, <1>5, <1>9a, <5>1, <5>2
      <4> QED BY <1>1, <1>5, <4>1, <4>2
    <3> QED BY <3>1, <3>2
  <2> QED BY <1>8, <2>1, <2>2, <2>3 DEF Chain
<1>11. Tokens(nodes, g) = MergedAt(voc, s, p)
  <2>1. Len(s) = L /\ \A k \in 1..L : s[k] = nd[f[k]].id
    BY ChainPairs DEF L, Tokens
  <2>2. <<s[p], s[p + 1]>> = PairAt(i)
    BY <1>2, <1>3, ChainPairs
  <2>3. ASSUME NEW k \in 1..(L - 1)
        PROVE  nodes[g[k]].id =
                 IF k < p THEN s[k] ELSE IF k = p THEN voc[<<s[p], s[p + 1]>>].id ELSE s[k + 1]
    <3>1. CASE k < p
      BY <1>9a, <2>1, <3>1
    <3>2. CASE k = p
      BY <1>6, <1>9a, <2>2, <3>2
    <3>3. CASE k > p
      BY <1>4a, <1>9a, <2>1, <3>3
    <3> QED BY <1>4a, <1>9a, <3>1, <3>2, <3>3
  <2> HIDE DEF s
  <2> QED BY <1>8, <2>1, <2>3 DEF Tokens, MergedAt
<1> QED BY <1>4, <1>10, <1>11 DEF s, nodes

----------------------------------------------------------------------------
(* The greedy encoding.                                                    *)

\* The list has come as far as the rule when as many merges were made.
Says(nodes, f) ==
  /\ Chain(nodes, f) /\ Len(f) <= N
  /\ Tokens(nodes, f) = Rewritings(voc, text)[N - Len(f)]

\* The first k - 1 tokens have been copied, and the node of the k-th is next.
Copied(f, k) ==
  /\ ids = SubSeq(Tokens(nd, f), 1, k - 1)
  /\ at = IF k <= Len(f) THEN f[k] ELSE -1
  /\ pc = "done" => k = Len(f) + 1

Emitting == pc \in {"emit", "done"}

GreedyInv ==
  /\ ~Emitting => ids = <<>>
  /\ Built => \E f : /\ Says(nd, f)
                     /\ Emitting => \E k \in 1..(Len(f) + 1) : Copied(f, k)

GInv == CInv /\ GreedyInv

LEMMA FrozenChain ==
  ASSUME text' = text, voc' = voc
  PROVE  \A nodes, f : Says(nodes, f)' <=> Says(nodes, f)
  BY DEF Says, Chain, Tokens, LiveIn, Index, N

\* A merge moves the list one application of the rule further.
LEMMA SaysMerge ==
  ASSUME CInv, Merge, NEW f, Says(nd, f)
  PROVE  \E p, g : /\ IsBest(voc, Tokens(nd, f), p) /\ Says(nd', g)
                   /\ Tokens(nd', g) = MergedAt(voc, Tokens(nd, f), p)
<1> DEFINE s == Tokens(nd, f)
<1>1. /\ voc \in Vocabs /\ text \in Inputs /\ nd \in [Index -> Node] /\ IsList(nd)
      /\ IsTableOver(Token, voc) /\ N \in Nat /\ text \in Seq(Token)
  BY VocabsAssumption, TextLength
     DEF CInv, IInv, TypeOK, ListOK, Built, Merge, IsTable
<1>2. Chain(nd, f) /\ Len(f) <= N /\ s = Rewritings(voc, text)[N - Len(f)]
  BY DEF Says
<1>3. PICK i \in Index :
        /\ nd' = Spliced(i) /\ MergeableAt(i) /\ nd[i].next >= 0
        /\ \A x \in Index : MergeableAt(x) =>
             \/ voc[PairAt(i)].rank < voc[PairAt(x)].rank
             \/ voc[PairAt(i)].rank = voc[PairAt(x)].rank /\ i <= x
  BY MergeIsBest
<1>4. PICK p, g : /\ IsBest(voc, s, p) /\ Chain(nd', g)
                  /\ Tokens(nd', g) = MergedAt(voc, s, p)
  BY <1>1, <1>2, <1>3, ChainMerge
<1>5. s \in Seq(Token) /\ Len(s) = Len(f)
  BY <1>1, <1>2, ChainPairs
<1> HIDE DEF s
<1>6. /\ Len(f) \in Nat /\ Len(g) \in Nat /\ Len(g) >= 1 /\ Len(g) = Len(f) - 1
  <2>1. Len(MergedAt(voc, s, p)) = Len(f) - 1 /\ MergedAt(voc, s, p) \in Seq(Token)
    BY <1>1, <1>4, <1>5, MergedType DEF IsBest
  <2>2. Len(g) \in Nat /\ Len(g) >= 1 /\ Len(f) \in Nat
    BY <1>2, <1>4 DEF Chain
  <2>3. Len(Tokens(nd', g)) = Len(g)
    BY <2>2 DEF Tokens
  <2> QED BY <1>4, <2>1, <2>2, <2>3
<1>7. Tokens(nd', g) = Rewritings(voc, text)[N - Len(g)]
  <2> DEFINE m == N - Len(g)
  <2>1. m \in 1..N /\ m - 1 = N - Len(f)
    BY <1>1, <1>2, <1>6
  <2>2. Rewritings(voc, text)[m] = Rewritten(voc, Rewritings(voc, text)[m - 1])
    BY <1>1, <2>1, RewritingsSteps DEF N
  <2>3. Rewritten(voc, s) = MergedAt(voc, s, p)
    BY <1>1, <1>4, <1>5, RewrittenAt
  <2> QED BY <1>2, <1>4, <2>1, <2>2, <2>3 DEF s
<1>8. Len(g) <= N
  BY <1>1, <1>2, <1>6
<1> QED BY <1>4, <1>7, <1>8 DEF Says, s

LEMMA GreedyStep == GInv /\ [Next]_vars => GInv'
<1> SUFFICES ASSUME GInv, [Next]_vars PROVE GreedyInv'
  BY CandidatesStep DEF GInv
<1>1. text' = text /\ voc' = voc
  BY DEF Next, vars, ReserveFails, Reserve, Fill, Discard, Merge, EmitFails, StartEmit, Emit
<1>2. /\ voc \in Vocabs /\ text \in Inputs /\ N \in Nat /\ text \in Seq(Token)
      /\ IsTableOver(Token, voc) /\ CInv /\ GreedyInv
  BY VocabsAssumption, TextLength DEF GInv, CInv, IInv, TypeOK, IsTable
<1>3. ASSUME Built, nd' = nd, ids' = ids, ~Emitting, pc' \notin {"emit", "done"}
      PROVE  GreedyInv'
  <2>1. PICK f : Says(nd, f)
    BY <1>2, <1>3 DEF GreedyInv
  <2>2. Says(nd, f)'
    BY <1>1, <1>3, <2>1, FrozenChain
  <2>3. ids' = <<>> /\ ~Emitting'
    BY <1>2, <1>3 DEF GreedyInv, Emitting
  <2> QED BY <2>2, <2>3 DEF GreedyInv
<1>4. CASE ReserveFails
  BY <1>2, <1>4 DEF ReserveFails, GreedyInv, Emitting, Built
<1>5. CASE Reserve
  <2>1. PICK f : Chain(InitNodes, f) /\ Tokens(InitNodes, f) = text
    BY <1>2, ChainStart
  <2>2. Len(f) = N
    BY <2>1 DEF Tokens, Chain, N
  <2>3. Rewritings(voc, text)[0] = text
    BY <1>2, RewritingsSteps
  <2>4. Says(InitNodes, f)
    BY <1>2, <2>1, <2>2, <2>3 DEF Says
  <2>5. nd' = InitNodes /\ pc' = "fill" /\ ids' = <<>>
    BY <1>2, <1>5 DEF Reserve, GreedyInv, Emitting
  <2>6. Says(nd, f)'
    BY <1>1, <2>4, <2>5, FrozenChain
  <2> QED BY <2>5, <2>6 DEF GreedyInv, Emitting
<1>6. CASE Fill
  BY <1>3, <1>6 DEF Fill, Built, Emitting
<1>7. CASE Discard
  BY <1>3, <1>7 DEF Discard, Built, Emitting
<1>8. CASE Merge
  <2>1. pc = "loop" /\ pc' = "loop" /\ ids' = ids
    BY <1>2, <1>8, MergeIsBest DEF Merge
  <2>2. PICK f : Says(nd, f)
    BY <1>2, <2>1 DEF GreedyInv, Built
  <2>3. PICK g : Says(nd', g)
    BY <1>2, <1>8, <2>2, SaysMerge
  <2>4. Says(nd, g)'
    BY <1>1, <2>3, FrozenChain
  <2> QED BY <1>2, <2>1, <2>4 DEF GreedyInv, Emitting
<1>9. CASE EmitFails
  BY <1>3, <1>9 DEF EmitFails, Built, Emitting
<1>10. CASE StartEmit
  <2>1. pc = "loop" /\ pc' = "emit" /\ at' = 0 /\ nd' = nd /\ ids' = ids
    BY <1>10 DEF StartEmit
  <2>2. ids = <<>>
    BY <1>2, <2>1 DEF GreedyInv, Emitting
  <2>3. PICK f : Says(nd, f)
    BY <1>2, <2>1 DEF GreedyInv, Built
  <2>4. f[1] = 0 /\ Len(f) \in Nat /\ Len(f) >= 1
    BY <2>3 DEF Says, Chain
  <2>5. SubSeq(Tokens(nd, f), 1, 0) = <<>>
    BY SubSeqEmpty
  <2>6. Copied(f, 1)'
    BY <2>1, <2>2, <2>4, <2>5 DEF Copied, Tokens
  <2>7. Says(nd, f)'
    BY <1>1, <2>1, <2>3, FrozenChain
  <2>8. 1 \in 1..(Len(f) + 1)
    BY <2>4
  <2> QED BY <2>1, <2>6, <2>7, <2>8 DEF GreedyInv, Emitting
<1>11. CASE Emit
  <2>1. pc = "emit" /\ nd' = nd /\ pc' \in {"emit", "done"}
    BY <1>11 DEF Emit
  <2>2. PICK f : Says(nd, f) /\ \E k \in 1..(Len(f) + 1) : Copied(f, k)
    BY <1>2, <2>1 DEF GreedyInv, Built, Emitting
  <2>3. PICK k \in 1..(Len(f) + 1) : Copied(f, k)
    BY <2>2
  <2> DEFINE s == Tokens(nd, f)
  <2>4. /\ Len(f) \in Nat /\ s \in Seq(Token) /\ Len(s) = Len(f)
        /\ \A m \in 1..Len(f) : f[m] \in Nat /\ s[m] = nd[f[m]].id
    <3>1. nd \in [Index -> Node] /\ Chain(nd, f)
      BY <1>2, <2>1, <2>2 DEF CInv, IInv, TypeOK, Built, Says
    <3>2. s \in Seq(Token) /\ Len(s) = Len(f) /\ Len(f) \in Nat
      BY <1>2, <3>1, ChainPairs DEF Chain
    <3>3. \A m \in 1..Len(f) : f[m] \in Nat
      BY <1>2, <3>1, ChainPairs DEF Index
    <3>4. \A m \in 1..Len(f) : s[m] = nd[f[m]].id
      BY DEF Tokens
    <3> QED BY <3>2, <3>3, <3>4
  <2>5. Says(nd, f)'
    BY <1>1, <2>1, <2>2, FrozenChain
  <2>6. CASE at >= 0
    <3>1. k <= Len(f) /\ at = f[k] /\ ids = SubSeq(s, 1, k - 1)
      BY <2>3, <2>4, <2>6 DEF Copied
    <3>2. /\ ids' = Append(ids, s[k]) /\ pc' = "emit"
          /\ at' = IF k + 1 <= Len(f) THEN f[k + 1] ELSE -1
      <4>1. ids' = Append(ids, nd[f[k]].id) /\ at' = nd[f[k]].next /\ pc' = "emit"
        BY <1>11, <2>6, <3>1 DEF Emit
      <4>2. k \in 1..Len(f) /\ (k < Len(f) <=> k + 1 <= Len(f))
        BY <2>4, <3>1
      <4>3. nd[f[k]].next = IF k < Len(f) THEN f[k + 1] ELSE -1
        BY <2>2, <4>2 DEF Says, Chain
      <4> QED BY <2>4, <4>1, <4>2, <4>3
    <3> HIDE DEF s
    <3>3. Append(SubSeq(s, 1, k - 1), s[k]) = SubSeq(s, 1, k)
      BY <2>4, <3>1
    <3>4. Copied(f, k + 1)'
      BY <2>1, <2>4, <3>1, <3>2, <3>3 DEF Copied, s, Tokens
    <3>5. k + 1 \in 1..(Len(f) + 1)
      BY <2>4, <3>1
    <3> QED BY <2>5, <3>2, <3>4, <3>5 DEF GreedyInv, Emitting
  <2>7. CASE ~(at >= 0)
    <3>1. ~(k <= Len(f))
      BY <2>3, <2>4, <2>7 DEF Copied
    <3>2. k = Len(f) + 1
      BY <2>4, <3>1
    <3>3. Copied(f, k)' /\ pc' = "done"
      BY <1>11, <2>1, <2>3, <2>7, <3>2 DEF Emit, Copied, Tokens
    <3> QED BY <2>5, <3>3 DEF GreedyInv, Emitting
  <2> QED BY <2>6, <2>7
<1>12. CASE UNCHANGED vars
  BY <1>1, <1>2, <1>12, FrozenChain DEF vars, GreedyInv, Emitting, Built, Copied, Tokens
<1> QED
  BY <1>4, <1>5, <1>6, <1>7, <1>8, <1>9, <1>10, <1>11, <1>12 DEF Next

LEMMA GreedyAlways == Spec => []GInv
<1>1. Init => CInv
  BY InitInv DEF Init, CInv, NoLostCandidate, NothingLeft
<1>2. Init => GreedyInv
  BY DEF Init, GreedyInv, Emitting, Built
<1> QED BY <1>1, <1>2, GreedyStep, PTL DEF Spec, GInv

\* When the tokens of the list are handed over, the rule is at its fixpoint.
LEMMA NoneMergeable ==
  ASSUME CInv, Emitting, NEW f, Chain(nd, f)
  PROVE  Mergeable(voc, Tokens(nd, f)) = {}
<1>1. text \in Inputs /\ nd \in [Index -> Node] /\ \A i \in Index : ~MergeableAt(i)
  BY DEF CInv, IInv, TypeOK, Built, NothingLeft, Emitting
<1>2. ASSUME NEW p \in Mergeable(voc, Tokens(nd, f)) PROVE FALSE
  <2>1. p \in 1..(Len(f) - 1) /\ Len(f) \in Nat
    BY <1>1, ChainPairs DEF Chain
  <2>2. p \in 1..Len(f)
    BY <2>1
  <2> QED BY <1>1, <2>2, ChainPairs
<1> QED BY <1>2

\* What merge_long hands to the sink is the greedy encoding of the pretoken,
\* for every table, pretoken and order of equal heap entries (96-165).
THEOREM EmitsWholeEncoding == Spec => []EmitsGreedy
<1>1. GInv => EmitsGreedy
  <2> SUFFICES ASSUME GInv, pc = "done" PROVE ids = Greedy(voc, text)
    BY DEF EmitsGreedy
  <2>1. /\ voc \in Vocabs /\ text \in Inputs /\ nd \in [Index -> Node] /\ N \in Nat
        /\ text \in Seq(Token) /\ IsTableOver(Token, voc) /\ CInv /\ Emitting
    BY VocabsAssumption, TextLength DEF GInv, CInv, IInv, TypeOK, Built, IsTable, Emitting
  <2>2. PICK f : Says(nd, f) /\ \E k \in 1..(Len(f) + 1) : Copied(f, k)
    BY <2>1 DEF GInv, GreedyInv, Built
  <2> DEFINE s == Tokens(nd, f)
  <2>3. s \in Seq(Token) /\ Len(s) = Len(f) /\ Chain(nd, f) /\ Len(f) \in Nat /\ Len(f) >= 1
    BY <2>1, <2>2, ChainPairs DEF Says, Chain
  <2>4. ids = SubSeq(s, 1, Len(s))
    BY <2>2, <2>3 DEF Copied
  <2>5. Mergeable(voc, s) = {}
    BY <2>1, <2>3, NoneMergeable
  <2>6. N - Len(f) \in 0..Len(text) /\ s = Rewritings(voc, text)[N - Len(f)]
    BY <2>1, <2>2, <2>3 DEF Says, N
  <2>7. Greedy(voc, text) = s
    BY <2>1, <2>5, <2>6, GreedyFixpoint
  <2>8. SubSeq(s, 1, Len(s)) = s
    BY <2>3, SubSeqFull
  <2> QED BY <2>4, <2>7, <2>8
<1> QED BY <1>1, GreedyAlways, PTL

\* Walk is what the list says.
LEMMA WalkSays ==
  ASSUME CInv, Built, NEW f, Chain(nd, f)
  PROVE  Walk = Tokens(nd, f)
<1>1. text \in Inputs /\ nd \in [Index -> Node] /\ IsList(nd)
  BY DEF CInv, IInv, TypeOK, ListOK
<1>2. Walk = WalkOf(nd)
  BY DEF Walk, WalkOf
<1> QED BY <1>1, <1>2, ListRightward, WalkTokens

LEMMA WalkSaysNext ==
  ASSUME CInv', text' = text, Built', NEW f, Chain(nd', f)
  PROVE  Walk' = Tokens(nd', f)
<1>1. text \in Inputs /\ nd' \in [Index -> Node] /\ IsList(nd')
  <2>1. text' \in Inputs /\ nd' \in [Index' -> Node'] /\ IsList(nd)'
    BY DEF CInv, IInv, TypeOK, ListOK
  <2>2. IsList(nd)' <=> IsList(nd')
    BY DEF IsList, LiveIn, Index, N
  <2> QED BY <2>1, <2>2, Frozen
<1>2. Walk' = WalkOf(nd')
  BY DEF Walk, WalkOf, Link, Index, N
<1> QED BY <1>1, <1>2, ListRightward, WalkTokens

\* A step of merge_long is one application of the rule, the end of it, or
\* nothing the rule tells apart.
LEMMA StepRefines == GInv /\ GInv' /\ [Next]_vars => [Abs!Next]_(Abs!vars)
<1> SUFFICES ASSUME GInv, GInv', [Next]_vars PROVE [Abs!Next]_(Abs!vars)
  OBVIOUS
<1> DEFINE seq == IF Built THEN Walk ELSE text
<1>1. text' = text /\ voc' = voc
  BY DEF Next, vars, ReserveFails, Reserve, Fill, Discard, Merge, EmitFails, StartEmit, Emit
<1>2. CInv /\ CInv' /\ GreedyInv /\ text \in Inputs
  BY DEF GInv, CInv, IInv, TypeOK
<1>3. ASSUME seq' = seq, pc' # "done" <=> pc # "done" PROVE UNCHANGED Abs!vars
  BY <1>1, <1>3 DEF Abs!vars
<1>4. ASSUME nd' = nd PROVE Walk' = Walk
  BY <1>1, <1>4 DEF Walk, Link, Index, N
<1>5. CASE ReserveFails
  BY <1>1, <1>3, <1>5 DEF ReserveFails, Built
<1>6. CASE Reserve
  <2>1. PICK f : Chain(InitNodes, f) /\ Tokens(InitNodes, f) = text
    BY <1>2, ChainStart
  <2>2. nd' = InitNodes /\ pc = "reserve" /\ pc' = "fill" /\ Built'
    BY <1>6 DEF Reserve, Built
  <2>3. Walk' = text
    BY <1>1, <1>2, <2>1, <2>2, WalkSaysNext
  <2> QED BY <1>3, <2>2, <2>3 DEF Built
<1>7. CASE Fill \/ Discard \/ EmitFails \/ StartEmit
  <2>1. nd' = nd /\ Built /\ Built' /\ pc # "done" /\ pc' # "done"
    BY <1>7 DEF Fill, Discard, EmitFails, StartEmit, Built
  <2> QED BY <1>3, <1>4, <2>1
<1>8. CASE Merge
  <2>1. Built /\ Built' /\ pc # "done" /\ pc' # "done"
    BY <1>2, <1>8, MergeIsBest DEF Built
  <2>2. PICK f : Says(nd, f)
    BY <1>2, <2>1 DEF GreedyInv
  <2>3. PICK p, g : /\ IsBest(voc, Tokens(nd, f), p) /\ Says(nd', g)
                    /\ Tokens(nd', g) = MergedAt(voc, Tokens(nd, f), p)
    BY <1>2, <1>8, <2>2, SaysMerge
  <2>4. Walk = Tokens(nd, f)
    BY <1>2, <2>1, <2>2, WalkSays DEF Says
  <2>5. Walk' = MergedAt(voc, Walk, p)
    BY <1>1, <1>2, <2>1, <2>3, <2>4, WalkSaysNext DEF Says
  <2>6. IsBest(voc, Walk, p) /\ p \in Mergeable(voc, Walk)
    BY <2>3, <2>4 DEF IsBest
  <2> QED BY <1>1, <2>1, <2>5, <2>6
          DEF Abs!Next, Abs!Merge, Abs!Mergeable, Abs!IsBest, Abs!MergedAt, Abs!RankAt,
              Mergeable, IsBest, MergedAt, RankAt
<1>9. CASE Emit
  <2>1. nd' = nd /\ pc = "emit" /\ Built /\ Built' /\ Walk' = Walk
    BY <1>4, <1>9 DEF Emit, Built
  <2>2. CASE pc' = "emit"
    BY <1>3, <2>1, <2>2
  <2>3. CASE pc' = "done"
    <3>1. PICK f : Says(nd, f)
      BY <1>2, <2>1 DEF GreedyInv
    <3>2. Walk = Tokens(nd, f) /\ Mergeable(voc, Walk) = {}
      BY <1>2, <2>1, <3>1, WalkSays, NoneMergeable DEF Says, Emitting
    <3> QED BY <1>1, <2>1, <2>3, <3>2 DEF Abs!Next, Abs!Finish, Abs!Mergeable, Mergeable
  <2> QED BY <1>9, <2>1, <2>2, <2>3 DEF Emit
<1>10. CASE UNCHANGED vars
  <2>1. nd' = nd /\ pc' = pc
    BY <1>10 DEF vars
  <2> QED BY <1>1, <1>3, <1>4, <2>1 DEF Built
<1> QED BY <1>5, <1>6, <1>7, <1>8, <1>9, <1>10 DEF Next

\* merge_long, linked list, heap and stale entries and all, implements the
\* merge rule: read from its head, the list goes through its states alone.
THEOREM LongImplementsBpe == Spec => ImplementsBpe
<1>1. Init => Abs!Init
  BY DEF Init, Abs!Init, Built
<1> QED BY <1>1, StepRefines, GreedyAlways, PTL DEF Spec, Abs!Spec, ImplementsBpe

----------------------------------------------------------------------------
(* merge_short implements the greedy rule for every vocabulary whose ranks *)
(* stay below the scan's initial bound.  The inductive invariant is        *)
(* ScanOK: what the scan remembers is the best of the pairs it has passed; *)
(* at the end of a round that is the whole array.  Its result is the       *)
(* greedy encoding, because the array always is what the rule makes of the *)
(* pretoken in as many applications as it has lost tokens.                 *)

\* No rank of a table is the initial value of best_rank.
RanksBelowMax == \A v \in Vocabs : \A pr \in DOMAIN v : v[pr].rank < MaxRank

ShortInv == ShortTypeOK /\ ScanOK

LEMMA RankedEntry ==
  ASSUME NEW v \in Vocabs, NEW pr \in DOMAIN v
  PROVE  v[pr].rank \in Nat /\ v[pr].rank <= MaxRank /\ v[pr].id \in Token
  BY VocabsAssumption, RankAssumption DEF IsTable, IsTableOver

\* The start of a round satisfies the invariant.
LEMMA RoundStart ==
  ASSUME NEW s \in Seq(Token), Len(s) > 0
  PROVE  /\ NoBest(s) \in [at : 1..Len(s), rank : 0..MaxRank, id : Token]
         /\ 1 \in 1..Len(s)
  BY RankAssumption DEF NoBest

LEMMA MovedType ==
  ASSUME NEW s \in Seq(Token), NEW b \in [at : 1..Len(s), rank : 0..MaxRank, id : Token],
         b.at # Len(s), Len(s) > 0
  PROVE  Moved(s, b) \in Seq(Token) /\ Len(Moved(s, b)) = Len(s) - 1 /\ Len(Moved(s, b)) > 0
<1>1. Len(s) \in Nat /\ Len(s) > 1 /\ \A k \in 1..Len(s) : s[k] \in Token
  BY DEF Moved
<1>2. Moved(s, b) \in [1..(Len(s) - 1) -> Token]
  BY <1>1 DEF Moved
<1> QED BY <1>1, <1>2

LEMMA ShortInitInv == ShortInit => ShortInv
<1> SUFFICES ASSUME ShortInit PROVE ShortInv
  OBVIOUS
<1>1. flat \in Seq(Token) /\ Len(flat) > 1
  BY InputsAssumption DEF ShortInit
<1>2. ShortTypeOK
  BY <1>1, RoundStart DEF ShortInit, ShortTypeOK
<1>3. Seen = {}
  BY DEF ShortInit, Seen, Mergeable
<1> QED BY <1>2, <1>3 DEF ShortInit, ShortInv, ScanOK, NoBest

\* The invariant with the mergeable positions written out.
LEMMA ScanStep ==
  ASSUME ShortInv, Scan
  PROVE  ShortInv'
<1> DEFINE pr == <<flat[scan], flat[scan + 1]>>
<1>1. /\ pairs \in Vocabs /\ pairs' = pairs /\ flat \in Seq(Token) /\ flat' = flat /\ scan' = scan + 1
      /\ Len(flat) \in Nat /\ scan \in 1..Len(flat) /\ scan < Len(flat) /\ phase = "scan" /\ phase' = phase
      /\ best \in [at : 1..Len(flat), rank : 0..MaxRank, id : Token] /\ MaxRank \in Nat
      /\ best' = IF pr \in DOMAIN pairs /\ pairs[pr].rank < best.rank
                 THEN [at |-> scan, rank |-> pairs[pr].rank, id |-> pairs[pr].id]
                 ELSE best
  BY RankAssumption DEF ShortInv, ShortTypeOK, Scan
<1>2. \A k \in Seen : k \in Nat /\ k < scan /\ RankAt(pairs, flat, k) \in Nat
  BY <1>1, RankedEntry DEF Seen, Mergeable, RankAt
<1>3. scan \in Mergeable(pairs, flat) <=> pr \in DOMAIN pairs
  BY <1>1 DEF Mergeable
<1>4. Seen' = IF pr \in DOMAIN pairs THEN Seen \cup {scan} ELSE Seen
  <2>1. Seen' = {k \in Mergeable(pairs, flat) : k < scan + 1}
    BY <1>1 DEF Seen, Mergeable
  <2>2. \A k \in Mergeable(pairs, flat) : k \in Nat /\ (k < scan + 1 <=> k < scan \/ k = scan)
    BY <1>1 DEF Mergeable
  <2> QED BY <1>1, <1>3, <2>1, <2>2 DEF Seen
<1>5. pr \in DOMAIN pairs => pairs[pr].rank \in 0..MaxRank /\ pairs[pr].id \in Token
  BY <1>1, RankedEntry
<1>6. ShortTypeOK'
  BY <1>1, <1>5 DEF ShortTypeOK, ShortInv
<1>7. RankAt(pairs, flat, scan) = pairs[pr].rank
  BY DEF RankAt
<1>8. \A k : RankAt(pairs, flat, k)' = RankAt(pairs, flat, k)
  BY <1>1 DEF RankAt
<1>9. ScanOK'
  <2>1. CASE pr \in DOMAIN pairs /\ pairs[pr].rank < best.rank
    <3>1. /\ best'.at = scan /\ best'.rank = pairs[pr].rank /\ best'.id = pairs[pr].id
          /\ scan # Len(flat) /\ scan \in Seen'
      BY <1>1, <1>4, <2>1
    <3>2. \A k \in Seen : best.rank <= RankAt(pairs, flat, k)
      BY <1>1, <1>2 DEF ShortInv, ScanOK
    <3>3. \A k \in Seen' : \/ best'.rank < RankAt(pairs, flat, k)
                           \/ best'.rank = RankAt(pairs, flat, k) /\ scan <= k
      BY <1>1, <1>2, <1>4, <1>5, <1>7, <2>1, <3>1, <3>2
    <3> QED BY <1>1, <1>7, <1>8, <3>1, <3>3 DEF ScanOK
  <2>2. CASE pr \in DOMAIN pairs /\ ~(pairs[pr].rank < best.rank)
    <3>1. best' = best /\ Seen' = Seen \cup {scan} /\ RankAt(pairs, flat, scan) >= best.rank
      BY <1>1, <1>4, <1>5, <1>7, <2>2
    <3>2. CASE best.at = Len(flat)
      BY <1>1, <1>2, <1>8, <3>1, <3>2 DEF ShortInv, ScanOK
    <3>3. CASE best.at # Len(flat)
      <4>1. /\ best.at \in Seen /\ best.rank = RankAt(pairs, flat, best.at)
            /\ best.id = pairs[<<flat[best.at], flat[best.at + 1]>>].id
            /\ \A k \in Seen :
                 \/ best.rank < RankAt(pairs, flat, k)
                 \/ best.rank = RankAt(pairs, flat, k) /\ best.at <= k
        BY <1>1, <3>3 DEF ShortInv, ScanOK
      <4>2. best.at <= scan
        BY <1>1, <1>2, <4>1
      <4>3. \A k \in Seen' :
              \/ best.rank < RankAt(pairs, flat, k)
              \/ best.rank = RankAt(pairs, flat, k) /\ best.at <= k
        BY <1>1, <1>2, <1>5, <1>7, <2>2, <3>1, <4>1, <4>2
      <4> QED BY <1>1, <1>8, <3>1, <3>3, <4>1, <4>3 DEF ScanOK
    <3> QED BY <3>2, <3>3
  <2>3. CASE pr \notin DOMAIN pairs
    BY <1>1, <1>4, <1>8, <2>3 DEF ShortInv, ScanOK
  <2> QED BY <2>1, <2>2, <2>3
<1> QED BY <1>6, <1>9 DEF ShortInv

LEMMA EndRoundStep ==
  ASSUME ShortInv, EndRound
  PROVE  ShortInv'
<1>1. /\ flat \in Seq(Token) /\ Len(flat) \in Nat /\ Len(flat) > 0
      /\ best \in [at : 1..Len(flat), rank : 0..MaxRank, id : Token]
      /\ pairs \in Vocabs /\ pairs' = pairs
  BY DEF ShortInv, ShortTypeOK, EndRound
<1>2. CASE best.at = Len(flat)
  BY <1>1, <1>2 DEF EndRound, ShortInv, ShortTypeOK, ScanOK
<1>3. CASE best.at # Len(flat)
  <2>1. flat' = Moved(flat, best) /\ scan' = 1 /\ best' = NoBest(flat') /\ phase' = phase
    BY <1>3 DEF EndRound
  <2>2. flat' \in Seq(Token) /\ Len(flat') > 0
    BY <1>1, <1>3, <2>1, MovedType
  <2>3. ShortTypeOK'
    BY <1>1, <2>1, <2>2, RoundStart DEF ShortTypeOK, ShortInv
  <2>4. Seen' = {}
    BY <2>1 DEF Seen, Mergeable
  <2> QED BY <2>1, <2>3, <2>4 DEF ShortInv, ScanOK, NoBest
<1> QED BY <1>2, <1>3

LEMMA ShortStepInv == ShortInv /\ [ShortNext]_shortVars => ShortInv'
<1> SUFFICES ASSUME ShortInv, [ShortNext]_shortVars PROVE ShortInv'
  OBVIOUS
<1>1. CASE UNCHANGED shortVars
  BY <1>1 DEF shortVars, ShortInv, ShortTypeOK, ScanOK, Seen, Mergeable, RankAt
<1> QED BY <1>1, ScanStep, EndRoundStep DEF ShortNext

\* Types, and the bookkeeping of the scan, for every vocabulary and pretoken.
THEOREM ScanCorrect == ShortSpec => [](ShortTypeOK /\ ScanOK)
  BY ShortInitInv, ShortStepInv, PTL DEF ShortSpec, ShortInv

\* At the end of a round nothing lies outside the scan.
LEMMA RoundEnd ==
  ASSUME RanksBelowMax, ShortInv, EndRound
  PROVE  /\ best.at = Len(flat) => Mergeable(pairs, flat) = {}
         /\ best.at # Len(flat) => /\ IsBest(pairs, flat, best.at)
                                  /\ Moved(flat, best) = MergedAt(pairs, flat, best.at)
<1>1. /\ Len(flat) \in Nat /\ scan = Len(flat) /\ phase = "scan" /\ MaxRank \in Nat
      /\ pairs \in Vocabs /\ best.at \in 1..Len(flat)
  BY RankAssumption DEF ShortInv, ShortTypeOK, EndRound
<1>2. Seen = Mergeable(pairs, flat)
  BY <1>1 DEF Seen, Mergeable
<1>3. \A k \in Mergeable(pairs, flat) :
        RankAt(pairs, flat, k) \in Nat /\ RankAt(pairs, flat, k) < MaxRank
  BY <1>1, RankedEntry DEF RanksBelowMax, Mergeable, RankAt
<1>4. best.at = Len(flat) => Mergeable(pairs, flat) = {}
  BY <1>1, <1>2, <1>3 DEF ShortInv, ScanOK
<1>5. best.at # Len(flat) => IsBest(pairs, flat, best.at)
  BY <1>1, <1>2 DEF ShortInv, ScanOK, IsBest
<1>6. best.at # Len(flat) => Moved(flat, best) = MergedAt(pairs, flat, best.at)
  BY <1>1 DEF ShortInv, ScanOK, Moved, MergedAt
<1> QED BY <1>4, <1>5, <1>6

\* The result of merge_short has no mergeable pair left.
THEOREM ShortMergesAll ==
  ASSUME RanksBelowMax
  PROVE  ShortSpec => []NoPairLeft
<1>1. ShortInit => ShortInv /\ NoPairLeft
  BY ShortInitInv DEF ShortInit, NoPairLeft
<1>2. ShortInv /\ NoPairLeft /\ [ShortNext]_shortVars => (ShortInv /\ NoPairLeft)'
  <2> SUFFICES ASSUME ShortInv, NoPairLeft, [ShortNext]_shortVars PROVE NoPairLeft'
    BY ShortStepInv
  <2>1. CASE Scan
    BY <2>1 DEF Scan, NoPairLeft
  <2>2. CASE EndRound
    BY <2>2, RoundEnd DEF EndRound, NoPairLeft, Mergeable
  <2>3. CASE UNCHANGED shortVars
    BY <2>3 DEF shortVars, NoPairLeft, Mergeable
  <2> QED BY <2>1, <2>2, <2>3 DEF ShortNext
<1> QED BY <1>1, <1>2, PTL DEF ShortSpec

\* merge_short implements the greedy rule.
THEOREM ShortImplementsBpe ==
  ASSUME RanksBelowMax
  PROVE  ShortSpec => ShortRefinesBpe
<1>1. ShortInit => ShortAbs!Init
  BY DEF ShortInit, ShortAbs!Init
<1>2. ShortInv /\ [ShortNext]_shortVars => [ShortAbs!Next]_(ShortAbs!vars)
  <2> SUFFICES ASSUME ShortInv, [ShortNext]_shortVars PROVE [ShortAbs!Next]_(ShortAbs!vars)
    OBVIOUS
  <2>1. CASE Scan
    BY <2>1 DEF Scan, ShortAbs!vars
  <2>2. CASE EndRound /\ best.at = Len(flat)
    <3>1. Mergeable(pairs, flat) = {}
      BY <2>2, RoundEnd
    <3>2. phase = "scan" /\ phase' = "done" /\ flat' = flat /\ pairs' = pairs
      BY <2>2 DEF EndRound
    <3> QED BY <3>1, <3>2 DEF ShortAbs!Next, ShortAbs!Finish, ShortAbs!Mergeable, Mergeable
  <2>3. CASE EndRound /\ best.at # Len(flat)
    <3>1. IsBest(pairs, flat, best.at) /\ Moved(flat, best) = MergedAt(pairs, flat, best.at)
      BY <2>3, RoundEnd
    <3>2. phase = "scan" /\ phase' = phase /\ flat' = Moved(flat, best) /\ pairs' = pairs
      BY <2>3 DEF EndRound
    <3> QED BY <3>1, <3>2
            DEF ShortAbs!Next, ShortAbs!Merge, ShortAbs!Mergeable, ShortAbs!IsBest, ShortAbs!MergedAt, ShortAbs!RankAt,
                Mergeable, IsBest, MergedAt, RankAt
  <2>4. CASE UNCHANGED shortVars
    BY <2>4 DEF shortVars, ShortAbs!vars
  <2> QED BY <2>1, <2>2, <2>3, <2>4 DEF ShortNext
<1> QED BY <1>1, <1>2, ScanCorrect, PTL DEF ShortSpec, ShortAbs!Spec, ShortRefinesBpe, ShortInv

----------------------------------------------------------------------------

\* The array is what as many applications of the rule as it has lost tokens
\* make of the pretoken p it was filled with.
Reached(p) ==
  /\ Len(flat) <= Len(p)
  /\ flat = Rewritings(pairs, p)[Len(p) - Len(flat)]

\* merge_short returns the greedy encoding of the pretoken it was given: with
\* MergeLong's EmitsWholeEncoding, the two engines agree (bp_bpe.c 18-37).
THEOREM ShortEncodesGreedy ==
  ASSUME RanksBelowMax, NEW p \in Inputs
  PROVE  ShortSpec /\ flat = p => [](phase = "done" => flat = Greedy(pairs, p))
<1>1. p \in Seq(Token) /\ Len(p) \in Nat
  BY InputsAssumption
<1> DEFINE HInv == ShortInv /\ NoPairLeft /\ Reached(p)
<1>2. ShortInit /\ flat = p => HInv
  <2> SUFFICES ASSUME ShortInit, flat = p PROVE HInv
    OBVIOUS
  <2>1. IsTableOver(Token, pairs)
    BY VocabsAssumption DEF ShortInit, IsTable
  <2>2. Rewritings(pairs, p)[0] = p
    BY <1>1, <2>1, RewritingsSteps
  <2> QED BY <1>1, <2>2, ShortInitInv DEF ShortInit, NoPairLeft, Reached
<1>3. HInv /\ [ShortNext]_shortVars => HInv'
  <2> SUFFICES ASSUME HInv, [ShortNext]_shortVars PROVE NoPairLeft' /\ Reached(p)'
    BY ShortStepInv
  <2>1. pairs \in Vocabs /\ flat \in Seq(Token) /\ Len(flat) \in Nat /\ IsTableOver(Token, pairs)
    BY VocabsAssumption DEF ShortInv, ShortTypeOK, IsTable
  <2>2. CASE Scan \/ UNCHANGED shortVars
    BY <2>2 DEF Scan, shortVars, NoPairLeft, Reached, Mergeable
  <2>3. CASE EndRound /\ best.at = Len(flat)
    <3>1. Mergeable(pairs, flat) = {} /\ flat' = flat /\ pairs' = pairs
      BY <2>3, RoundEnd DEF EndRound
    <3> QED BY <3>1 DEF NoPairLeft, Reached, Mergeable
  <2>4. CASE EndRound /\ best.at # Len(flat)
    <3>1. /\ IsBest(pairs, flat, best.at) /\ flat' = MergedAt(pairs, flat, best.at)
          /\ pairs' = pairs /\ phase' = "scan"
      BY <2>4, RoundEnd DEF EndRound
    <3>2. Len(flat') = Len(flat) - 1 /\ Len(flat') \in Nat
      <4>1. flat' \in Seq(Token) /\ Len(flat') = Len(flat) - 1
        BY <2>1, <3>1, MergedType DEF IsBest
      <4> QED BY <4>1
    <3> DEFINE m == Len(p) - Len(flat')
    <3>3. m \in 1..Len(p) /\ m - 1 = Len(p) - Len(flat)
      BY <1>1, <2>1, <3>2 DEF Reached
    <3>4. Rewritings(pairs, p)[m] = Rewritten(pairs, Rewritings(pairs, p)[m - 1])
      BY <1>1, <2>1, <3>3, RewritingsSteps
    <3>5. Rewritten(pairs, flat) = MergedAt(pairs, flat, best.at)
      BY <2>1, <3>1, RewrittenAt
    <3>6. flat' = Rewritings(pairs, p)[m] /\ Len(flat') <= Len(p)
      BY <1>1, <3>1, <3>2, <3>3, <3>4, <3>5 DEF Reached
    <3> QED BY <3>1, <3>6 DEF NoPairLeft, Reached
  <2> QED BY <2>2, <2>3, <2>4 DEF ShortNext
<1>4. HInv => (phase = "done" => flat = Greedy(pairs, p))
  <2> SUFFICES ASSUME HInv, phase = "done" PROVE flat = Greedy(pairs, p)
    OBVIOUS
  <2>1. IsTableOver(Token, pairs) /\ Len(flat) \in Nat
    BY VocabsAssumption DEF ShortInv, ShortTypeOK, IsTable
  <2>2. Mergeable(pairs, flat) = {} /\ Len(p) - Len(flat) \in 0..Len(p)
    BY <1>1, <2>1 DEF NoPairLeft, Reached
  <2>3. flat = Rewritings(pairs, p)[Len(p) - Len(flat)]
    BY DEF Reached
  <2> QED BY <1>1, <2>1, <2>2, <2>3, GreedyFixpoint
<1> QED BY <1>2, <1>3, <1>4, PTL DEF ShortSpec

----------------------------------------------------------------------------
(* Pretoken.                                                               *)

CacheInv == DOMAIN cache = 0..(Slots - 1) /\ CacheSound /\ EntryFits

\* The pretokens bp_bpe_pretoken is called with.
Given == Inputs \cup {<<t>> : t \in Token}

LEMMA GivenType ==
  ASSUME NEW p \in Given
  PROVE  Len(p) \in Nat
  BY InputsAssumption DEF Given

LEMMA SlotRange ==
  ASSUME NEW p \in Given, Cacheable(p)
  PROVE  Slot(p) \in 0..(Slots - 1) /\ Len(p) \in Nat /\ Hash(p) \in Nat
<1>1. Slots \in Nat /\ Slots > 0 /\ Len(p) \in Nat /\ Len(p) > 2
  BY SizesAssumption, GivenType DEF Cacheable
<1>2. p \in Inputs
  <2>1. ASSUME NEW t \in Token, p = <<t>> PROVE FALSE
    BY <1>1, <2>1
  <2> QED BY <2>1 DEF Given
<1>3. Hash(p) \in Nat
  BY <1>2, HashAssumption
<1> QED BY <1>1, <1>3 DEF Slot

\* Storing an entry disturbs no other slot, and leaves a whole entry in its own.
LEMMA StoreKeeps ==
  ASSUME CacheInv, NEW p \in Given, cache' = Stored(p, Greedy(table, p)), table' = table
  PROVE  CacheInv'
<1> DEFINE got == Greedy(table, p)
           e == [hash |-> Hash(p), len |-> Len(p), bytes |-> p, ids |-> got]
<1> HIDE DEF got
<1>1. CASE Cacheable(p) /\ Len(got) <= CacheMaxIds
  <2>1. cache' = [cache EXCEPT ![Slot(p)] = e]
    BY <1>1 DEF Stored, got
  <2>2. Slot(p) \in DOMAIN cache /\ DOMAIN cache = 0..(Slots - 1)
    BY <1>1, SlotRange DEF CacheInv
  <2>3. DOMAIN cache' = 0..(Slots - 1)
    BY <2>1, <2>2
  <2>4. ASSUME NEW s \in 0..(Slots - 1)
        PROVE  /\ EntryOK(s)'
               /\ Len(cache'[s].bytes) <= CacheMaxBytes /\ Len(cache'[s].ids) <= CacheMaxIds
    <3>1. CASE s = Slot(p)
      <4>1. cache'[s] = e
        BY <2>1, <2>2, <3>1
      <4>2. /\ e.len = Len(e.bytes) /\ e.hash = Hash(e.bytes) /\ Slot(e.bytes) = s
            /\ e.ids = Greedy(table, e.bytes)
        BY <3>1 DEF got
      <4>3. Len(e.bytes) <= CacheMaxBytes /\ Len(e.ids) <= CacheMaxIds
        BY <1>1 DEF Cacheable
      <4> QED BY <4>1, <4>2, <4>3 DEF EntryOK, Slot
    <3>2. CASE s # Slot(p)
      <4>1. cache'[s] = cache[s]
        BY <2>1, <2>2, <3>2
      <4>2. EntryOK(s)' <=> EntryOK(s)
        BY <4>1 DEF EntryOK, Slot
      <4> QED BY <4>1, <4>2 DEF CacheInv, CacheSound, EntryFits
    <3> QED BY <3>1, <3>2
  <2> QED BY <2>3, <2>4 DEF CacheInv, CacheSound, EntryFits
<1>2. CASE ~(Cacheable(p) /\ Len(got) <= CacheMaxIds)
  <2>1. cache' = cache
    BY <1>2 DEF Stored, got
  <2> QED BY <2>1 DEF CacheInv, CacheSound, EntryFits, EntryOK, Slot
<1> QED BY <1>1, <1>2

LEMMA CacheKept == CacheInv /\ [CallsNext]_callVars => CacheInv'
<1> SUFFICES ASSUME CacheInv, [CallsNext]_callVars PROVE CacheInv'
  OBVIOUS
<1>1. CASE cache' = cache /\ table' = table
  BY <1>1 DEF CacheInv, CacheSound, EntryFits, EntryOK, Slot
<1>2. ASSUME NEW p \in Given, Short(p) PROVE CacheInv'
  BY <1>2, StoreKeeps DEF Short, Give
<1> QED
  BY <1>1, <1>2 DEF CallsNext, NewCall, One, Two, Hit, Long, LongFails, Give, callVars, Given

\* The cache never changes what a pretoken encodes to, and its arrays are
\* never overrun.
THEOREM CacheCorrect == CallsSpec => [](CacheSound /\ EntryFits)
<1>1. CallsInit => CacheInv
  <2> SUFFICES ASSUME CallsInit PROVE CacheInv
    OBVIOUS
  <2>1. \A s \in 0..(Slots - 1) : cache[s] = NoEntry
    BY DEF CallsInit
  <2>2. Len(NoEntry.bytes) = 0 /\ Len(NoEntry.ids) = 0
    BY DEF NoEntry
  <2> QED BY <2>1, <2>2, SizesAssumption DEF CallsInit, CacheInv, CacheSound, EntryOK, EntryFits
<1>2. CacheInv => CacheSound /\ EntryFits
  BY DEF CacheInv
<1> QED BY <1>1, <1>2, CacheKept, PTL DEF CallsSpec

----------------------------------------------------------------------------
(* The sink and the buffers.                                               *)

LEMMA GivenTokens ==
  ASSUME NEW p \in Given
  PROVE  p \in Seq(Token) /\ Len(p) \in Nat
<1>1. CASE p \in Inputs
  BY <1>1, InputsAssumption
<1>2. ASSUME NEW t \in Token, p = <<t>> PROVE p \in Seq(Token) /\ Len(p) \in Nat
  BY <1>2
<1> QED BY <1>1, <1>2 DEF Given

LEMMA TableOver ==
  ASSUME table \in Vocabs
  PROVE  IsTableOver(Token, table)
  BY VocabsAssumption DEF IsTable

\* The encodings of the pretokens given, one for each.
Encodings(ps) == [k \in 1..Len(ps) |-> Greedy(table, ps[k])]

LEMMA EncodingsType ==
  ASSUME table \in Vocabs, NEW ps \in Seq(Given)
  PROVE  Encodings(ps) \in Seq(Seq(Token))
<1>1. Len(ps) \in Nat /\ \A k \in 1..Len(ps) : ps[k] \in Given
  OBVIOUS
<1>2. \A k \in 1..Len(ps) : Greedy(table, ps[k]) \in Seq(Token)
  BY <1>1, GivenTokens, TableOver, GreedyType
<1> QED BY <1>1, <1>2 DEF Encodings

\* A pretoken more puts its encoding behind the others.
LEMMA EncodedAppend ==
  ASSUME table \in Vocabs, NEW ps \in Seq(Given), NEW p \in Given
  PROVE  /\ Encoded(ps) \in Seq(Token) /\ Greedy(table, p) \in Seq(Token)
         /\ Encoded(Append(ps, p)) = Encoded(ps) \o Greedy(table, p)
<1> DEFINE x == Greedy(table, p)
<1>1. x \in Seq(Token) /\ Encodings(ps) \in Seq(Seq(Token))
  BY EncodingsType, GivenTokens, TableOver, GreedyType
<1>2. Encodings(Append(ps, p)) = Append(Encodings(ps), x)
  <2> DEFINE n == Len(ps)
             qs == Append(ps, p)
  <2>1. n \in Nat /\ Len(qs) = n + 1 /\ qs[n + 1] = p /\ \A k \in 1..n : qs[k] = ps[k]
    OBVIOUS
  <2>2. Encodings(ps) = [k \in 1..n |-> Greedy(table, ps[k])]
    BY DEF Encodings
  <2> HIDE DEF n, qs, x
  <2>3. Encodings(qs) = [k \in 1..(n + 1) |-> Greedy(table, qs[k])]
    BY <2>1 DEF Encodings
  <2> DEFINE e == Encodings(ps)
             a == Append(e, x)
  <2>4. e \in Seq(Seq(Token)) /\ Len(e) = n /\ \A k \in 1..n : e[k] = Greedy(table, ps[k])
    BY <1>1, <2>1, <2>2
  <2> HIDE DEF e
  <2>5. /\ a \in Seq(Seq(Token)) /\ Len(a) = n + 1 /\ a[n + 1] = x
        /\ \A k \in 1..n : a[k] = e[k]
    BY <1>1, <2>1, <2>4, AppendProperties
  <2> HIDE DEF a
  <2>6. a = [k \in 1..(n + 1) |-> a[k]]
    BY <2>1, <2>5
  <2>7. \A k \in 1..(n + 1) : a[k] = Greedy(table, qs[k])
    <3>1. a[n + 1] = Greedy(table, qs[n + 1])
      BY <2>1, <2>5 DEF x
    <3>2. \A k \in 1..n : a[k] = Greedy(table, qs[k])
      BY <2>1, <2>4, <2>5
    <3> QED BY <2>1, <3>1, <3>2
  <2>8. Encodings(qs) = a
    BY <2>3, <2>6, <2>7, Zenon
  <2> QED BY <2>8 DEF qs, a, e
<1> HIDE DEF x
<1>3. FlattenSeq(Append(Encodings(ps), x)) = FlattenSeq(Encodings(ps)) \o x
  BY <1>1, FlattenAppend
<1>4. FlattenSeq(Encodings(ps)) \in Seq(Token)
  BY <1>1, FlattenType
<1> QED BY <1>1, <1>2, <1>3, <1>4 DEF Encoded, Encodings, x

\* Growing a buffer makes it large enough and never smaller.
LEMMA GrownEnough ==
  ASSUME NEW cap \in Nat, NEW first \in Nat, first > 0, NEW need \in Nat
  PROVE  /\ Grown(cap, first, need) \in Nat
         /\ Grown(cap, first, need) >= cap /\ Grown(cap, first, need) >= need
<1> DEFINE base == IF cap = 0 THEN first ELSE cap
           Next1(x) == IF x >= need THEN x ELSE 2 * x
           Eq(f) == f = [k \in 0..need |-> IF k = 0 THEN base ELSE Next1(f[k - 1])]
           F == [k \in 1..need |-> [x \in Nat |-> Next1(x)]]
           size == CHOOSE f : Eq(f)
<1>1. base \in Nat /\ base >= 1 /\ base >= cap
  OBVIOUS
<1>2. Grown(cap, first, need) = IF cap >= need THEN cap ELSE size[need]
  BY DEF Grown
<1> HIDE DEF base
<1>3. F \in Steps(need, Nat)
  <2>1. \A x \in Nat : Next1(x) \in Nat
    OBVIOUS
  <2> HIDE DEF Next1
  <2> QED BY <2>1 DEF Steps
<1>4. PICK g : Iterated(g, need, Nat, base, F)
  <2> HIDE DEF F
  <2> QED BY <1>1, <1>3, Iterates
<1>5. Eq(g)
  <2>1. g \in [0..need -> Nat] /\ g[0] = base
    BY <1>4 DEF Iterated
  <2>2. ASSUME NEW k \in 1..need PROVE g[k] = Next1(g[k - 1])
    <3>1. g[k] = F[k][g[k - 1]]
      BY <1>4 DEF Iterated
    <3>2. g[k - 1] \in Nat
      BY <2>1
    <3> QED BY <3>1, <3>2
  <2> HIDE DEF F, Next1
  <2>3. \A k \in 0..need : g[k] = IF k = 0 THEN base ELSE Next1(g[k - 1])
    BY <2>1, <2>2
  <2> QED BY <2>1, <2>3
<1>6. Eq(size)
  <2> HIDE DEF Eq
  <2> QED BY <1>5
<1> HIDE DEF size
<1> DEFINE T == {k \in 0..need :
                   /\ size[k] \in Nat /\ size[k] >= cap
                   /\ size[k] >= need \/ size[k] >= k + 1}
<1>7. size[0] = base /\ \A k \in 1..need : size[k] = Next1(size[k - 1])
  BY <1>6
<1>8. 0 \in T
  BY <1>1, <1>7
<1>9. ASSUME NEW k \in 1..need, k - 1 \in T PROVE k \in T
  BY <1>7, <1>9
<1>10. \A k \in 0..need : k \in T
  <2> HIDE DEF T
  <2> QED BY <1>8, <1>9, UpTo
<1>11. size[need] \in Nat /\ size[need] >= cap /\ size[need] >= need
  BY <1>10
<1> QED BY <1>2, <1>11

CallsInv == CallsTypeOK /\ CacheInv /\ SinkOK /\ BuffersOK

LEMMA CallsInitInv == CallsInit => CallsInv
<1> SUFFICES ASSUME CallsInit PROVE CallsInv
  OBVIOUS
<1>1. CacheInv
  <2>1. \A s \in 0..(Slots - 1) : cache[s] = NoEntry
    BY DEF CallsInit
  <2>2. Len(NoEntry.bytes) = 0 /\ Len(NoEntry.ids) = 0
    BY DEF NoEntry
  <2> QED BY <2>1, <2>2, SizesAssumption DEF CallsInit, CacheInv, CacheSound, EntryOK, EntryFits
<1>2. PICK cap \in Caps : sink = NewSink(cap)
  BY DEF CallsInit
<1>3. cap \in Nat
  BY SizesAssumption
<1>4. Encoded(given) = <<>>
  <2>1. [k \in 1..Len(given) |-> Greedy(table, given[k])] = <<>>
    BY DEF CallsInit
  <2> QED BY <2>1, FlattenEmpty DEF Encoded
<1>5. SinkOK
  BY <1>2, <1>3, <1>4, NewSinkHolds DEF SinkOK
<1>6. CallsTypeOK /\ BuffersOK
  BY <1>2 DEF CallsInit, CallsTypeOK, BuffersOK, NewSink
<1> QED BY <1>1, <1>5, <1>6 DEF CallsInv

\* A pretoken handed over with its greedy encoding leaves the sink right.
LEMMA GiveHolds ==
  ASSUME CallsTypeOK, SinkOK, NEW p \in Given, Give(p, Greedy(table, p))
  PROVE  SinkOK' /\ given' \in Seq(Given) /\ sink' \in [out : Seq(Token), cap : Caps, total : Nat]
<1> DEFINE x == Greedy(table, p)
           got == Encoded(given)
<1>1. table \in Vocabs /\ given \in Seq(Given) /\ table' = table
  BY DEF CallsTypeOK, Given, Give
<1>2. got \in Seq(Token) /\ x \in Seq(Token) /\ Encoded(Append(given, p)) = got \o x
  BY <1>1, EncodedAppend
<1>3. sink \in Sinks(Token) /\ sink.cap \in Caps
  BY SizesAssumption DEF CallsTypeOK, Sinks
<1>4. Holds(sink, got)
  BY DEF SinkOK
<1>5. given' = Append(given, p) /\ sink' = Put(sink, x)
  BY DEF Give
<1> HIDE DEF x, got
<1>6. Put(sink, x) \in Sinks(Token) /\ Put(sink, x).cap = sink.cap /\ Holds(Put(sink, x), got \o x)
  BY <1>2, <1>3, <1>4, PutHolds
<1>7. SinkOK'
  <2>1. Encoded(given)' = got \o x
    BY <1>1, <1>2, <1>5 DEF Encoded
  <2> QED BY <1>5, <1>6, <2>1 DEF SinkOK
<1>8. sink' \in [out : Seq(Token), cap : Caps, total : Nat]
  BY <1>3, <1>5, <1>6 DEF Sinks
<1> QED BY <1>1, <1>5, <1>7, <1>8

\* Buffers that do not shrink stay large enough for what was given before.
LEMMA BuffersKept ==
  ASSUME CallsTypeOK, BuffersOK, NEW p \in Given, given' = Append(given, p),
         workCap' \in Nat, idsCap' \in Nat, workCap' >= workCap, idsCap' >= idsCap,
         Len(p) > ShortMax => workCap' >= Len(p) /\ idsCap' >= Len(p)
  PROVE  BuffersOK'
<1>1. given \in Seq(Given) /\ workCap \in Nat /\ idsCap \in Nat
  BY DEF CallsTypeOK, Given
<1>2. Len(given') = Len(given) + 1
  BY <1>1
<1>3. ASSUME NEW k \in 1..Len(given'), Len(given'[k]) > ShortMax
      PROVE  workCap' >= Len(given'[k]) /\ idsCap' >= Len(given'[k])
  <2>1. CASE k = Len(given) + 1
    <3>1. given'[k] = p
      BY <1>1, <2>1
    <3> QED BY <1>3, <3>1
  <2>2. CASE k \in 1..Len(given)
    <3>1. given'[k] = given[k] /\ given[k] \in Given
      BY <1>1, <2>2
    <3>2. workCap >= Len(given[k]) /\ idsCap >= Len(given[k])
      BY <1>3, <2>2, <3>1 DEF BuffersOK
    <3>3. Len(given[k]) \in Nat
      BY <3>1, GivenTokens
    <3> QED BY <1>1, <3>1, <3>2, <3>3
  <2> QED BY <1>1, <1>2, <2>1, <2>2
<1> QED BY <1>3 DEF BuffersOK

LEMMA CallsNextInv == CallsInv /\ [CallsNext]_callVars => CallsInv'
<1> SUFFICES ASSUME CallsInv, [CallsNext]_callVars PROVE CallsInv'
  OBVIOUS
<1> USE DEF CallsInv
<1>1. CacheInv'
  BY CacheKept
<1>2. ASSUME UNCHANGED callVars PROVE CallsTypeOK' /\ SinkOK' /\ BuffersOK'
  BY <1>2 DEF callVars, CallsTypeOK, SinkOK, Encoded, BuffersOK
<1>3. ASSUME NewCall PROVE CallsTypeOK' /\ SinkOK' /\ BuffersOK'
  <2>1. PICK cap \in Caps : sink' = NewSink(cap)
    BY <1>3 DEF NewCall
  <2>2. cap \in Nat /\ given' = <<>>
    BY <1>3, SizesAssumption DEF NewCall
  <2>3. Encoded(given)' = <<>>
    <3>1. [k \in 1..Len(given') |-> Greedy(table', given'[k])] = <<>>
      BY <2>2
    <3> QED BY <3>1, FlattenEmpty DEF Encoded
  <2>4. SinkOK'
    BY <2>1, <2>2, <2>3, NewSinkHolds DEF SinkOK
  <2> QED BY <1>3, <2>1, <2>2, <2>4 DEF NewCall, CallsTypeOK, NewSink, BuffersOK
<1>4. ASSUME NEW p \in Given, One(p) \/ Two(p) \/ Hit(p) \/ Short(p) \/ Long(p) \/ LongFails(p)
      PROVE  CallsTypeOK' /\ SinkOK' /\ BuffersOK'
  <2>1. table \in Vocabs /\ IsTableOver(Token, table) /\ p \in Seq(Token) /\ Len(p) \in Nat
    BY TableOver, GivenTokens DEF CallsTypeOK
  <2>2. ASSUME Give(p, Greedy(table, p)), workCap' \in Nat, idsCap' \in Nat,
               workCap' >= workCap, idsCap' >= idsCap,
               Len(p) > ShortMax => workCap' >= Len(p) /\ idsCap' >= Len(p)
        PROVE  CallsTypeOK' /\ SinkOK' /\ BuffersOK'
    <3>1. SinkOK' /\ given' \in Seq(Given) /\ sink' \in [out : Seq(Token), cap : Caps, total : Nat]
      BY <2>2, GiveHolds
    <3>2. BuffersOK'
      BY <2>2, BuffersKept DEF Give
    <3>3. DOMAIN cache' = 0..(Slots - 1) /\ table' = table /\ rc' = rc
      BY <1>1, <2>2 DEF CacheInv, Give
    <3> QED BY <2>2, <3>1, <3>2, <3>3 DEF CallsTypeOK, Given
  <2>3. workCap \in Nat /\ idsCap \in Nat /\ workCap >= workCap /\ idsCap >= idsCap
    BY DEF CallsTypeOK
  <2>4. ASSUME Len(p) <= ShortMax, UNCHANGED <<workCap, idsCap>>, Give(p, Greedy(table, p))
        PROVE  CallsTypeOK' /\ SinkOK' /\ BuffersOK'
    <3>1. ~(Len(p) > ShortMax)
      BY <2>1, <2>4, SizesAssumption
    <3> QED BY <2>2, <2>3, <2>4, <3>1
  <2>5. CASE One(p)
    BY <2>1, <2>4, <2>5, GreedyOne, SizesAssumption DEF One
  <2>6. CASE Two(p)
    BY <2>1, <2>4, <2>6, GreedyTwo, SizesAssumption DEF Two
  <2>7. CASE Hit(p)
    <3>1. Cacheable(p) /\ cache[Slot(p)].bytes = p /\ cache[Slot(p)].len = Len(p) /\ Len(p) > 2
      BY <2>7 DEF Hit, IsHit, Cacheable
    <3>2. Slot(p) \in 0..(Slots - 1)
      BY <3>1, SlotRange
    <3>3. cache[Slot(p)] # NoEntry
      BY <3>1 DEF NoEntry
    <3>4. cache[Slot(p)].ids = Greedy(table, p)
      BY <3>1, <3>2, <3>3 DEF CacheInv, CacheSound, EntryOK
    <3>5. Len(p) <= ShortMax
      BY <2>1, <3>1, SizesAssumption DEF Cacheable
    <3> QED BY <2>4, <2>7, <3>4, <3>5 DEF Hit
  <2>8. CASE Short(p)
    BY <2>1, <2>4, <2>8 DEF Short
  <2>9. CASE Long(p)
    <3>1. /\ workCap' \in Nat /\ workCap' >= workCap /\ workCap' >= Len(p)
          /\ idsCap' \in Nat /\ idsCap' >= idsCap /\ idsCap' >= Len(p)
      BY <2>1, <2>3, <2>9, GrownEnough, SizesAssumption DEF Long
    <3> QED BY <2>2, <2>9, <3>1 DEF Long
  <2>10. CASE LongFails(p)
    <3>1. workCap' \in Nat /\ workCap' >= workCap
      <4>1. workCap' = workCap \/ workCap' = Grown(workCap, WorkFirst, Len(p))
        BY <2>10 DEF LongFails
      <4>2. WorkFirst \in Nat /\ WorkFirst > 0
        BY SizesAssumption
      <4>3. CASE workCap' = workCap
        BY <2>3, <4>3
      <4>4. CASE workCap' = Grown(workCap, WorkFirst, Len(p))
        BY <2>1, <2>3, <4>2, <4>4, GrownEnough
      <4> QED BY <4>1, <4>3, <4>4
    <3>2. /\ table' = table /\ cache' = cache /\ idsCap' = idsCap /\ sink' = sink
          /\ given' = given /\ rc' = "nomem"
      BY <2>10 DEF LongFails
    <3>3. CallsTypeOK' /\ SinkOK'
      BY <3>1, <3>2 DEF CallsTypeOK, SinkOK, Encoded
    <3>4. BuffersOK'
      <4>1. \A k \in 1..Len(given) : Len(given[k]) \in Nat
        <5>1. given \in Seq(Given)
          BY DEF CallsTypeOK, Given
        <5> QED BY <5>1, GivenTokens
      <4> QED BY <2>3, <3>1, <3>2, <4>1 DEF BuffersOK
    <3> QED BY <3>3, <3>4
  <2> QED BY <1>4, <2>5, <2>6, <2>7, <2>8, <2>9, <2>10
<1> QED BY <1>1, <1>2, <1>3, <1>4 DEF CallsNext, Given

\* Whatever the cache held, whichever path each pretoken took and whichever
\* earlier calls failed: the sink has counted the greedy encoding of all that
\* was given, and holds as much of it as fits (bp_bpe_pretoken, bp_sink_put).
THEOREM SinkCorrect == CallsSpec => []SinkOK
<1>1. CallsInv => SinkOK
  BY DEF CallsInv
<1> QED BY <1>1, CallsInitInv, CallsNextInv, PTL DEF CallsSpec

\* merge_long always runs in buffers that hold the pretoken, those it grew
\* itself and those an earlier call left (bp_buf_reserve, bp_ids_reserve).
THEOREM BuffersLargeEnough == CallsSpec => []BuffersOK
<1>1. CallsInv => BuffersOK
  BY DEF CallsInv
<1> QED BY <1>1, CallsInitInv, CallsNextInv, PTL DEF CallsSpec

\* The state of a context and of the call under way keep their types.
THEOREM CallsTyped == CallsSpec => []CallsTypeOK
<1>1. CallsInv => CallsTypeOK
  BY DEF CallsInv
<1> QED BY <1>1, CallsInitInv, CallsNextInv, PTL DEF CallsSpec
=============================================================================
