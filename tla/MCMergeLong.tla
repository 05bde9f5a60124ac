---------------------------- MODULE MCMergeLong ----------------------------
(***************************************************************************)
(* An instance of MergeLong: every pair table over two tokens (cyclic and  *)
(* rank-tied ones included) on every text of 2 or Length bytes, and a      *)
(* trained vocabulary on texts of LongLength bytes.                        *)
(***************************************************************************)
EXTENDS MergeLong, TLC

CONSTANTS Length, LongLength, Ranks

TwoTokens == {"a", "b"}

AllTables ==
  UNION {[D -> [rank : 0..(Ranks - 1), id : TwoTokens]] :
         D \in SUBSET (TwoTokens \X TwoTokens)}

AllTexts == UNION {[1..n -> TwoTokens] : n \in {2, Length}}

\* A trained vocabulary: every merged token spells its two parts, every rank is
\* used once.  All orders of its five merges, so that a merge on one side of a
\* pair comes before or after the one on the other side.
Spelled == {"a", "b", "aa", "ab", "ba", "aab", "abab"}

TrainedWith(r) ==
  (<<"a", "b">> :> [rank |-> r[1], id |-> "ab"]) @@
  (<<"a", "a">> :> [rank |-> r[2], id |-> "aa"]) @@
  (<<"b", "a">> :> [rank |-> r[3], id |-> "ba"]) @@
  (<<"aa", "b">> :> [rank |-> r[4], id |-> "aab"]) @@
  (<<"ab", "ab">> :> [rank |-> r[5], id |-> "abab"])

Trained == {TrainedWith(r) : r \in Permutations(1..5)}

LongTexts == [1..LongLength -> TwoTokens]

Tables == AllTables \cup Trained
Texts == AllTexts \cup LongTexts

\* The long texts go with the trained vocabulary, the short ones with the rest.
MCInit == Init /\ (voc \in Trained <=> text \in LongTexts)

MCSpec == MCInit /\ [][Next]_vars /\ WF_vars(Next)
=============================================================================
