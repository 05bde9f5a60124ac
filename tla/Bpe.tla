-------------------------------- MODULE Bpe --------------------------------
(***************************************************************************)
(* What the merge engine of bp_bpe.c promises: starting from one token per *)
(* byte, the adjacent pair of lowest rank in the pair table is merged, the *)
(* leftmost one when ranks tie, until no adjacent pair is in the table.    *)
(* Both engines, MergeShort (flat array) and MergeLong (linked list and    *)
(* heap), are checked to implement this specification.                     *)
(***************************************************************************)
EXTENDS PairData

VARIABLES voc,     \* the pair table of the vocabulary, never written
          seq,     \* the tokens of the pretoken so far
          done     \* the result has been handed to the sink

vars == <<voc, seq, done>>

Init ==
  /\ voc \in Vocabs
  /\ seq \in Inputs
  /\ done = FALSE

Merge ==
  /\ ~done
  /\ \E i \in Mergeable(voc, seq) :
       IsBest(voc, seq, i) /\ seq' = MergedAt(voc, seq, i)
  /\ UNCHANGED <<voc, done>>

Finish ==
  /\ ~done
  /\ Mergeable(voc, seq) = {}
  /\ done' = TRUE
  /\ UNCHANGED <<voc, seq>>

Next == Merge \/ Finish

Spec == Init /\ [][Next]_vars
=============================================================================
