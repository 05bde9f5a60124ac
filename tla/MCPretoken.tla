----------------------------- MODULE MCPretoken -----------------------------
(***************************************************************************)
(* An instance of Pretoken: two vocabularies, every pretoken of up to      *)
(* MaxLen bytes, a cache of Slots entries and a hash that collides both on *)
(* the slot and on the full value.                                         *)
(***************************************************************************)
EXTENDS Pretoken, TLC

CONSTANT MaxLen

Bytes == {"a", "b"}
Tokens == {"a", "b", "ab", "ba", "aab"}

Pair(a, b, r, t) == <<a, b>> :> [rank |-> r, id |-> t]

TwoVocabs ==
  { Pair("a", "b", 0, "ab") @@ Pair("a", "ab", 1, "aab"),
    Pair("b", "a", 0, "ba") @@ Pair("a", "b", 1, "ab") @@ Pair("a", "ab", 2, "aab") }

AllTexts == UNION {[1..n -> Bytes] : n \in 2..MaxLen}

\* Distinguishes the first byte only, so that four keys share each value.
FirstByte(p) == IF p[1] = "a" THEN 1 ELSE 2
=============================================================================
