----------------------------- MODULE MergeLong -----------------------------
(***************************************************************************)
(* merge_long of bp_bpe.c: the merge engine for pretokens longer than      *)
(* SHORT_MAX bytes.  The tokens form a doubly linked list threaded through *)
(* an array of nodes; candidate merges wait in a min-heap ordered by rank, *)
(* then position.  Entries are not removed when their pair disappears: a   *)
(* popped entry is compared with the node's generation and with a fresh    *)
(* lookup, and dropped when it is stale.                                   *)
(*                                                                         *)
(* The heap is a sequence used as a bag: a push appends, a pop removes any *)
(* entry that no other entry precedes; the array layout that provides this *)
(* is left out.  One step is one loop iteration.                           *)
(***************************************************************************)
EXTENDS PairData, FiniteSets

VARIABLES
  voc,    \* the pair table, never written
  text,   \* the token ids of the pretoken's bytes, never written
  nd,     \* node array, built once the work buffer is reserved
  heap,   \* candidate merges: rank, pos and gen at push time
  at,     \* the index of the loop that fills the heap, then of the one that emits
  ids,    \* the context's id scratch, handed to the sink at the end
  pc      \* where merge_long is

vars == <<voc, text, nd, heap, at, ids, pc>>

N == Len(text)
Index == 0..(N - 1)
\* Mutant: room for one entry per adjacent pair of the text.
HeapCapTight == N - 1
HeapCap == 2 * N

Link == Index \cup {-1}
Node == [id : Token, prev : Link, next : Link, gen : Nat]
Entry == [rank : Nat, pos : Index, gen : Nat]

InTable(a, b) == <<a, b>> \in DOMAIN voc

\* Mutant: ties on rank in any order.
LessByRank(a, b) == a.rank < b.rank

\* heap_less: by rank, then leftmost.
Less(a, b) == a.rank < b.rank \/ (a.rank = b.rank /\ a.pos < b.pos)

\* heap_pop may return the entry at k: no entry of the heap precedes it.
IsTop(k) == \A m \in 1..Len(heap) : ~Less(heap[m], heap[k])

\* Mutant: the entry is read but not removed.
WithoutNothing(k) == SubSeq(heap, 1, IF k > Len(heap) THEN k ELSE Len(heap))

\* The heap without the entry at k: the last entry takes its place.
Without(k) ==
  [m \in 1..(Len(heap) - 1) |-> IF m = k THEN heap[Len(heap)] ELSE heap[m]]

\* The nodes that still stand for a token; the head never dies.
LiveIn(nodes) == {i \in Index : i = 0 \/ nodes[i].prev # -1}

----------------------------------------------------------------------------

Init ==
  /\ voc \in Vocabs
  /\ text \in Inputs
  /\ nd = <<>>
  /\ heap = <<>>
  /\ at = 0
  /\ ids = <<>>
  /\ pc = "reserve"

\* bp_buf_reserve fails: BP_E_NOMEM.
ReserveFails ==
  /\ pc = "reserve"
  /\ pc' = "noWork"
  /\ UNCHANGED <<voc, text, nd, heap, at, ids>>

\* Mutant: the last node's next is not cut.
InitNodesUncut ==
  [i \in Index |-> [id |-> text[i + 1], prev |-> i - 1, next |-> i + 1, gen |-> 0]]

InitNodes ==
  [i \in Index |-> [id |-> text[i + 1], prev |-> i - 1,
                    next |-> IF i + 1 < N THEN i + 1 ELSE -1, gen |-> 0]]

\* The work buffer holds n nodes and room for 2n entries.
Reserve ==
  /\ pc = "reserve"
  /\ nd' = InitNodes
  /\ pc' = "fill"
  /\ UNCHANGED <<voc, text, heap, at, ids>>

\* The entry for the pair that starts at i, if the table has that pair.
Candidate(nodes, i) ==
  LET pr == <<nodes[i].id, nodes[nodes[i].next].id>>
  IN IF pr \in DOMAIN voc
     THEN <<[rank |-> voc[pr].rank, pos |-> i, gen |-> nodes[i].gen]>>
     ELSE <<>>

Fill ==
  /\ pc = "fill"
  /\ IF at + 1 < N
     THEN /\ heap' = heap \o Candidate(nd, at)
          /\ at' = at + 1
          /\ pc' = pc
     ELSE /\ pc' = "loop"
          /\ UNCHANGED <<heap, at>>
  /\ UNCHANGED <<voc, text, nd, ids>>

\* Mutant: the rank of the pair found now is not compared.
CurrentAnyRank(e) ==
  /\ nd[e.pos].gen = e.gen
  /\ nd[e.pos].next >= 0
  /\ <<nd[e.pos].id, nd[nd[e.pos].next].id>> \in DOMAIN voc

\* The popped entry still describes a pair of the list.
Current(e) ==
  /\ nd[e.pos].gen = e.gen
  /\ nd[e.pos].next >= 0
  /\ LET pr == <<nd[e.pos].id, nd[nd[e.pos].next].id>>
     IN pr \in DOMAIN voc /\ voc[pr].rank = e.rank

Discard ==
  /\ pc = "loop"
  /\ \E k \in 1..Len(heap) :
       IsTop(k) /\ ~Current(heap[k]) /\ heap' = Without(k)
  /\ UNCHANGED <<voc, text, nd, at, ids, pc>>

\* Mutant: the node after the swallowed one keeps its prev.
SplicedNoBackLink(i) ==
  LET j == nd[i].next
  IN [nd EXCEPT ![i] = [id |-> voc[<<nd[i].id, nd[j].id>>].id, prev |-> @.prev,
                        next |-> nd[j].next, gen |-> @.gen + 1],
                ![j].prev = -1, ![j].next = -1]

\* Mutant: the merged node takes over the wrong link of its neighbour.
SplicedWrongLink(i) ==
  LET j == nd[i].next
  IN [nd EXCEPT ![i] = [id |-> voc[<<nd[i].id, nd[j].id>>].id, prev |-> @.prev,
                        next |-> nd[j].prev, gen |-> @.gen + 1],
                ![j].prev = -1, ![j].next = -1]

\* The nodes after i swallows its right neighbour.
Spliced(i) ==
  LET j == nd[i].next
      q == nd[j].next
  IN [x \in Index |->
        IF x = i THEN [id |-> voc[<<nd[i].id, nd[j].id>>].id, prev |-> nd[i].prev,
                       next |-> q, gen |-> nd[i].gen + 1]
        ELSE IF x = j THEN [nd[j] EXCEPT !.prev = -1, !.next = -1]
        ELSE IF x = q THEN [nd[q] EXCEPT !.prev = i]
        ELSE nd[x]]

\* The heap with its stale-looking entries dropped, done only when two pushes
\* might not fit.
Compacted(nodes, h) ==
  IF Len(h) + 2 > HeapCap
  THEN SelectSeq(h, LAMBDA x : nodes[x.pos].gen = x.gen /\ nodes[x.pos].next >= 0)
  ELSE h

\* Mutant: only the pair to the right of the merged node is pushed.
PushesRight(nodes, i) ==
  IF nodes[i].next >= 0 THEN Candidate(nodes, i) ELSE <<>>

\* The new pairs on both sides of the merged node i.
Pushes(nodes, i) ==
     (IF nodes[i].prev >= 0 THEN Candidate(nodes, nodes[i].prev) ELSE <<>>)
  \o (IF nodes[i].next >= 0 THEN Candidate(nodes, i) ELSE <<>>)

Merge ==
  /\ pc = "loop"
  /\ \E k \in 1..Len(heap) :
       LET i == heap[k].pos
           nodes == Spliced(i)
           h == Compacted(nodes, Without(k))
       IN /\ IsTop(k)
          /\ Current(heap[k])
          /\ nd' = nodes
          /\ IF Len(h) + 2 > HeapCap
             THEN pc' = "full" /\ heap' = h
             ELSE pc' = pc /\ heap' = h \o Pushes(nodes, i)
  /\ UNCHANGED <<voc, text, at, ids>>

\* bp_ids_reserve fails: BP_E_NOMEM, and the sink is left as it was.
EmitFails ==
  /\ pc = "loop" /\ heap = <<>>
  /\ pc' = "noIds"
  /\ UNCHANGED <<voc, text, nd, heap, at, ids>>

\* The scratch has room for n ids.
StartEmit ==
  /\ pc = "loop" /\ heap = <<>>
  /\ pc' = "emit"
  /\ at' = 0
  /\ UNCHANGED <<voc, text, nd, heap, ids>>

Emit ==
  /\ pc = "emit"
  /\ IF at >= 0
     THEN /\ ids' = Append(ids, nd[at].id)
          /\ at' = nd[at].next
          /\ pc' = pc
     ELSE /\ pc' = "done"
          /\ UNCHANGED <<ids, at>>
  /\ UNCHANGED <<voc, text, nd, heap>>

Next ==
  \/ ReserveFails \/ Reserve \/ Fill
  \/ Discard \/ Merge
  \/ EmitFails \/ StartEmit \/ Emit

Spec == Init /\ [][Next]_vars

\* One thread runs merge_long to its end.
FairSpec == Spec /\ WF_vars(Next)

----------------------------------------------------------------------------

\* The node array has been built.
Built == pc \notin {"reserve", "noWork"}

TypeOK ==
  /\ voc \in Vocabs
  /\ text \in Inputs
  /\ Built => nd \in [Index -> Node]
  /\ heap \in Seq(Entry)
  /\ at \in Link
  /\ ids \in Seq(Token)
  /\ pc \in {"reserve", "noWork", "fill", "loop", "full", "noIds", "emit", "done"}

Live == LiveIn(nd)

IsList(nodes) ==
  /\ nodes[0].prev = -1
  /\ \A i \in LiveIn(nodes) : nodes[i].next # -1 =>
       /\ nodes[i].next > i
       /\ nodes[i].next \in LiveIn(nodes)
       /\ nodes[nodes[i].next].prev = i
  /\ \A i \in LiveIn(nodes) : i # 0 =>
       nodes[i].prev \in LiveIn(nodes) /\ nodes[nodes[i].prev].next = i
  /\ \A i, x \in LiveIn(nodes) : x > i =>
       nodes[i].next # -1 /\ nodes[i].next <= x
  /\ \A i \in Index \ LiveIn(nodes) : nodes[i].next = -1

\* The live nodes form one doubly linked list in text order, whatever order
\* the merges were made in: next is the nearest live node to the right, prev
\* its inverse, and a dead node has no next, which is what makes the popped
\* entries that still name it stale (lines 112, 118-122).
ListOK == Built => IsList(nd)

\* The entries in the heap and the tokens still in the list together never
\* exceed 2n - 1: a merge takes one of each and adds at most two entries.
HeapFits ==
  /\ pc \in {"reserve", "fill"} => at \in Index /\ Len(heap) <= at
  /\ pc = "loop" => Len(heap) + Cardinality(Live) <= HeapCap - 1

\* The two pushes after a merge always fit, so the compaction and the
\* BP_E_NOMEM under it never run: "cannot happen" (lines 124-136).
NeverFull == pc # "full"

\* The pair that starts at the live node i, when the list has one.
PairAt(i) == <<nd[i].id, nd[nd[i].next].id>>
MergeableAt(i) == i \in Live /\ nd[i].next # -1 /\ PairAt(i) \in DOMAIN voc

\* No mergeable pair of the list is forgotten: an entry with its rank, its
\* position and the current generation waits in the heap (102-107, 137-150).
NoLostCandidate ==
  pc \in {"fill", "loop"} =>
    \A i \in Index : MergeableAt(i) /\ (pc = "fill" => i < at) =>
      \E k \in 1..Len(heap) :
        heap[k] = [rank |-> voc[PairAt(i)].rank, pos |-> i, gen |-> nd[i].gen]

\* The result is handed over only when no two neighbours of the list can merge.
NothingLeft == pc \in {"emit", "done"} => \A i \in Index : ~MergeableAt(i)

\* The emit loop never writes past the n ids it reserved (lines 153-156): the
\* list only runs to the right.
EmitFits ==
  /\ pc = "emit" => Len(ids) <= (IF at >= 0 THEN at ELSE N)
  /\ Len(ids) <= N

\* A node changes its token only by the merge the greedy rule prescribes: its
\* pair is mergeable, and no other mergeable pair has a lower rank, or the
\* same rank further left.  Stale entries never cause a merge.
MergesBest ==
  [][\A i \in Index : pc = "loop" /\ nd'[i].gen # nd[i].gen =>
       /\ MergeableAt(i)
       /\ nd'[i].id = voc[PairAt(i)].id
       /\ \A x \in Index : MergeableAt(x) =>
            \/ voc[PairAt(i)].rank < voc[PairAt(x)].rank
            \/ voc[PairAt(i)].rank = voc[PairAt(x)].rank /\ i <= x]_vars

\* The tokens of the list, read from its head.
Walk ==
  LET from[i \in Link] ==
        IF i = -1 THEN <<>> ELSE <<nd[i].id>> \o from[nd[i].next]
  IN from[0]

\* Read from its head, the list goes through the states of the greedy rule and
\* no others: merge_long implements Bpe.
Abs == INSTANCE Bpe WITH seq <- IF Built THEN Walk ELSE text,
                         done <- pc = "done"
ImplementsBpe == Abs!Spec

\* What reaches the sink is the whole greedy encoding.
EmitsGreedy == pc = "done" => ids = Greedy(voc, text)

\* Every iteration pops an entry and merges shorten the list: the loop ends for
\* every table, those whose merges run in circles included.
Terminates == <>(pc \in {"done", "noWork", "noIds"})
=============================================================================
