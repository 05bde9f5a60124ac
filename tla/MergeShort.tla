----------------------------- MODULE MergeShort -----------------------------
(***************************************************************************)
(* merge_short of bp_bpe.c: the merge engine for pretokens of three to     *)
(* SHORT_MAX bytes; shorter ones never come here (lines 166-183).  Each    *)
(* round scans the adjacent pairs from the left, remembers the first of    *)
(* the lowest rank, merges it and closes the gap.  One step is one         *)
(* iteration of the inner loop, or the end of a round.                     *)
(*                                                                         *)
(* The scan starts from best_rank = 0xFFFFFFFF and takes only strictly     *)
(* lower ranks.  MaxRank is that bound: the largest rank a pair can have.  *)
(***************************************************************************)
EXTENDS PairData

CONSTANT MaxRank

ASSUME RankAssumption ==
  /\ MaxRank \in Nat
  /\ \A v \in Vocabs : \A pr \in DOMAIN v : v[pr].rank <= MaxRank

VARIABLES pairs,  \* the pair table, never written
          flat,   \* ids, the flat array of tokens, cut to its first n
          scan,   \* i, the scan position, counted from 1
          best,   \* best_at, best_rank and best_id of the round
          phase   \* "scan" or "done"

shortVars == <<pairs, flat, scan, best, phase>>

\* best_at = n stands for "nothing found": no pair starts at the last token.
NoBest(s) == [at |-> Len(s), rank |-> MaxRank, id |-> s[1]]

ShortInit ==
  /\ pairs \in Vocabs
  /\ flat \in Inputs
  /\ scan = 1
  /\ best = NoBest(flat)
  /\ phase = "scan"

\* Mutant: a tie goes to the pair further right.
ScanRightmost ==
  /\ phase = "scan" /\ scan < Len(flat)
  /\ LET pr == <<flat[scan], flat[scan + 1]>>
     IN best' = IF pr \in DOMAIN pairs /\ pairs[pr].rank <= best.rank
                THEN [at |-> scan, rank |-> pairs[pr].rank, id |-> pairs[pr].id]
                ELSE best
  /\ scan' = scan + 1
  /\ UNCHANGED <<pairs, flat, phase>>

Scan ==
  /\ phase = "scan" /\ scan < Len(flat)
  /\ LET pr == <<flat[scan], flat[scan + 1]>>
     IN best' = IF pr \in DOMAIN pairs /\ pairs[pr].rank < best.rank
                THEN [at |-> scan, rank |-> pairs[pr].rank, id |-> pairs[pr].id]
                ELSE best
  /\ scan' = scan + 1
  /\ UNCHANGED <<pairs, flat, phase>>

\* The array with the best pair merged and what follows it moved up by one.
Moved(s, b) ==
  [k \in 1..(Len(s) - 1) |->
     IF k < b.at THEN s[k] ELSE IF k = b.at THEN b.id ELSE s[k + 1]]

EndRound ==
  /\ phase = "scan" /\ scan = Len(flat)
  /\ IF best.at = Len(flat)
     THEN phase' = "done" /\ UNCHANGED <<flat, scan, best>>
     ELSE /\ flat' = Moved(flat, best)
          /\ scan' = 1
          /\ best' = NoBest(flat')
          /\ UNCHANGED phase
  /\ UNCHANGED pairs

ShortNext == Scan \/ EndRound

ShortSpec == ShortInit /\ [][ShortNext]_shortVars

----------------------------------------------------------------------------

ShortTypeOK ==
  /\ pairs \in Vocabs
  /\ flat \in Seq(Token) /\ Len(flat) > 0
  /\ scan \in 1..Len(flat)
  /\ best \in [at : 1..Len(flat), rank : 0..MaxRank, id : Token]
  /\ phase \in {"scan", "done"}

\* The pairs to the left of the scan that can still win the round.
Seen == {k \in Mergeable(pairs, flat) : k < scan}

\* What the scan remembers is the leftmost lowest-ranked pair of those it has
\* passed (lines 21-30).
ScanOK ==
  phase = "scan" =>
    IF best.at = Len(flat)
    THEN best.rank = MaxRank /\ \A k \in Seen : RankAt(pairs, flat, k) >= MaxRank
    ELSE /\ best.at \in Seen
         /\ best.rank = RankAt(pairs, flat, best.at)
         /\ best.id = pairs[<<flat[best.at], flat[best.at + 1]>>].id
         /\ \A k \in Seen :
              \/ best.rank < RankAt(pairs, flat, k)
              \/ best.rank = RankAt(pairs, flat, k) /\ best.at <= k

\* "[...] bytes map to initial ids through `byte_to_id`, then the adjacent pair with
\* the lowest merge rank is merged repeatedly" (FORMAT.md 82-83): a result in which a
\* pair of the table is left is not what that gives, whatever the pair's rank.
NoPairLeft == phase = "done" => Mergeable(pairs, flat) = {}

\* merge_short makes the greedy rule's merges and no others, when no rank of
\* the table is the scan's initial bound.
ShortAbs == INSTANCE Bpe WITH voc <- pairs, seq <- flat, done <- phase = "done"
ShortRefinesBpe == ShortAbs!Spec
=============================================================================
