------------------------------ MODULE MergeRule ------------------------------
(***************************************************************************)
(* The merge rule every BPE module speaks of.  A pair table (the pairs     *)
(* section of a .bpv file, as read through bp_pair_lookup) is a function   *)
(* from the pairs it holds to the rank and the id of the merged token.     *)
(* bp_vocab_open checks neither that ranks are distinct nor that the       *)
(* merged token spells its two parts, so neither is assumed here.          *)
(***************************************************************************)
EXTENDS Integers, Sequences

\* A pair table over the token ids toks.
IsTableOver(toks, v) ==
  /\ DOMAIN v \subseteq toks \X toks
  /\ \A pr \in DOMAIN v : v[pr].rank \in Nat /\ v[pr].id \in toks

\* The positions whose token and right neighbour form a pair of the table.
Mergeable(v, s) == {i \in 1..(Len(s) - 1) : <<s[i], s[i + 1]>> \in DOMAIN v}

RankAt(v, s, i) == v[<<s[i], s[i + 1]>>].rank

\* i is the leftmost of the mergeable positions of lowest rank.
IsBest(v, s, i) ==
  /\ i \in Mergeable(v, s)
  /\ \A k \in Mergeable(v, s) :
       \/ RankAt(v, s, i) < RankAt(v, s, k)
       \/ RankAt(v, s, i) = RankAt(v, s, k) /\ i <= k

\* s with the tokens at i and i + 1 replaced by what the table merges them to.
MergedAt(v, s, i) ==
  [k \in 1..(Len(s) - 1) |->
     IF k < i THEN s[k] ELSE IF k = i THEN v[<<s[i], s[i + 1]>>].id ELSE s[k + 1]]

\* One application of the rule; nothing changes when there is nothing to merge.
Rewritten(v, s) ==
  IF Mergeable(v, s) = {} THEN s
  ELSE MergedAt(v, s, CHOOSE i \in Mergeable(v, s) : IsBest(v, s, i))

\* s and what the rule makes of it, one application after the other.
Rewritings(v, s) ==
  LET run[m \in 0..Len(s)] == IF m = 0 THEN s ELSE Rewritten(v, run[m - 1]) IN run

\* The fixpoint of the rule: the reference encoding of a pretoken.
Greedy(v, s) == Rewritings(v, s)[Len(s)]
=============================================================================
