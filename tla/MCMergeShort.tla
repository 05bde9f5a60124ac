---------------------------- MODULE MCMergeShort ----------------------------
(***************************************************************************)
(* Instances of MergeShort: every pair table over two tokens with ranks    *)
(* 0..TopRank, on every text of 3 to Length bytes.  TopRank = MaxRank - 1  *)
(* keeps the scan's initial bound out of the table, TopRank = MaxRank      *)
(* allows it.                                                              *)
(***************************************************************************)
EXTENDS MergeShort

CONSTANTS Length, TopRank

TwoTokens == {"a", "b"}

AllTables ==
  UNION {[D -> [rank : 0..TopRank, id : TwoTokens]] :
         D \in SUBSET (TwoTokens \X TwoTokens)}

AllTexts == UNION {[1..n -> TwoTokens] : n \in 3..Length}
=============================================================================
