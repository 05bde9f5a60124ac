------------------------------ MODULE PairData ------------------------------
(***************************************************************************)
(* The data of the BPE modules: tokens, pair tables and pretokens, with    *)
(* the merge rule.                                                         *)
(***************************************************************************)
EXTENDS MergeRule

CONSTANTS Token,   \* token ids
          Vocabs,  \* the pair tables considered
          Inputs   \* pretokens, each as the token ids of its bytes

IsTable(v) == IsTableOver(Token, v)

ASSUME VocabsAssumption == \A v \in Vocabs : IsTable(v)
ASSUME InputsAssumption == Inputs \subseteq {s \in Seq(Token) : Len(s) > 1}
=============================================================================
