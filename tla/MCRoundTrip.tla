----------------------------- MODULE MCRoundTrip -----------------------------
(***************************************************************************)
(* Instances of RoundTrip.  For the encoder: added tokens that are         *)
(* prefixes of one another, overlap, share their bytes or all begin with   *)
(* the same byte, in id order unrelated to length, over every text of up   *)
(* to MaxLen bytes; two bytes of a segment make one id, so that a segment  *)
(* cut elsewhere is seen.  For a decoder on its own: vocabularies of six   *)
(* ids with up to five added tokens, special or not, and unused ids, over  *)
(* every list of up to two ids, one beyond the vocabulary included, and    *)
(* some of three.                                                          *)
(***************************************************************************)
EXTENDS RoundTrip

CONSTANT MaxLen

Bytes == {"a", "b", "<"}

\* Ids 0 to 11: the strings of one and two bytes.
Letter == <<"a", "b", "<">>
Plain == [k \in 1..12 |-> IF k <= 3 THEN <<Letter[k]>>
                          ELSE <<Letter[(k - 1) \div 3], Letter[((k - 1) % 3) + 1]>>]
IdOf(s) == (CHOOSE k \in 1..Len(Plain) : Plain[k] = s) - 1

EncodingOf(s) ==
  [k \in 1..((Len(s) + 1) \div 2) |-> IdOf(SubSeq(s, 2 * k - 1, IF 2 * k < Len(s) THEN 2 * k ELSE Len(s)))]

Tokens(seqs) == [k \in 1..Len(seqs) |-> [bytes |-> seqs[k], id |-> Len(Plain) + k]]

AddedArrays ==
  { <<>>,
    Tokens(<< <<"<", "a">>, <<"<", "a", "b">>, <<"<">> >>),
    Tokens(<< <<"a", "b", "a">>, <<"b", "a">>, <<"b", "a">>, <<"<", "<">> >>) }

Texts == UNION {[1..n -> Bytes] : n \in 0..MaxLen}

AllCalls ==
  [text : Texts, hasText : {TRUE}, hasOut : {TRUE}, cap : {0, 2, 5}, raw : BOOLEAN]
  \cup [text : {<<>>, <<"a">>}, hasText : BOOLEAN, hasOut : BOOLEAN, cap : {0, 2}, raw : {FALSE}]

ASSUME EncodingSpells

----------------------------------------------------------------------------

\* Vocabularies for the arrays above; id 12 is not used.
ViewOf(a, special) ==
  [bytes |-> Plain \o << <<>> >> \o [k \in 1..Len(a) |-> a[k].bytes],
   added |-> [k \in 1..Len(a) |-> [id |-> a[k].id, special |-> k \in special]]]

\* The bytes of ids 0 to 5: none for the unused ones, else one or two.
BytesFor(un) ==
  [k \in 1..6 |-> IF k - 1 \in un THEN <<>> ELSE IF k % 2 = 1 THEN <<"a">> ELSE <<"b", "a">>]

AddedOf(ids, special) ==
  LET sorted == SetToSortSeq(ids, <)
  IN [k \in 1..Len(sorted) |-> [id |-> sorted[k], special |-> sorted[k] \in special]]

SixIds ==
  { [bytes |-> BytesFor({0, 1, 2, 3, 4, 5} \ (ids \cup {0, 2})), added |-> AddedOf(ids, sp)]
    : ids \in (SUBSET {1, 3, 4, 5}) \ {{}}, sp \in SUBSET {1, 4, 5} }
  \cup { [bytes |-> BytesFor({}), added |-> AddedOf({1, 2, 3, 4, 5}, {2, 5})] }

AllViews == SixIds \cup {ViewOf(a, sp) : a \in AddedArrays, sp \in {{1}, {2, 4}}}

Lists == UNION {[1..n -> 0..6] : n \in 0..2} \cup {<<4, 1, 5>>, <<0, 4, 0>>, <<2, 2, 3>>}

AllRequests ==
  [ids : Lists, hasIds : {TRUE}, hasOut : {TRUE}, cap : {0, 2, 9}, skipSpecial : BOOLEAN]
  \cup [ids : {<<>>, <<0>>}, hasIds : BOOLEAN, hasOut : BOOLEAN, cap : {0, 2},
        skipSpecial : {FALSE}]
=============================================================================
