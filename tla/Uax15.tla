-------------------------------- MODULE Uax15 --------------------------------
(***************************************************************************)
(* Normalization form C as UAX #15 and chapter 3.11 of the Unicode         *)
(* standard define it, on sequences of codepoints: what bp_nfc.c is        *)
(* measured against.  Hangul syllables are ordinary entries of the tables  *)
(* here, and a byte that is not text is a starter that decomposes to       *)
(* itself and composes with nothing (bp_nfc.c 99-101).                     *)
(***************************************************************************)
EXTENDS Integers, FiniteSets, SequencesExt

CONSTANTS
  CccOf(_),         \* canonical combining class
  FullDecomp(_),    \* full canonical decomposition of a codepoint
  HasPrimary(_, _), \* whether a pair has a primary composite
  Primary(_, _)     \* and which

Decomposed(s) == FlattenSeq([k \in 1..Len(s) |-> FullDecomp(s[k])])

\* The members of S in the order R, by how many come before each.
Arranged(S, R) ==
  LET rank == {<<a, Cardinality({b \in S : <<b, a>> \in R})>> : a \in S}
  IN [p \in 1..Cardinality(S) |-> CHOOSE a \in S : <<a, p - 1>> \in rank]

\* No starter from the one of the two positions to the other.
Together(s, a, b) == \A k \in (a..b) \cup (b..a) : CccOf(s[k]) # 0

\* D109: where a permutation has put the entries of s, so that no two adjacent
\* ones are a reorderable pair (D108) and equal classes stay in order.
Precedes(s, a, b) ==
  IF Together(s, a, b) /\ CccOf(s[a]) # CccOf(s[b]) THEN CccOf(s[a]) < CccOf(s[b]) ELSE a < b

CanonicalOrder(s) == {p \in (1..Len(s)) \X (1..Len(s)) : Precedes(s, p[1], p[2])}

Ordered(s) ==
  LET at == Arranged(1..Len(s), CanonicalOrder(s)) IN [k \in 1..Len(s) |-> s[at[k]]]

\* D117, for the character at k, given the positions kept before it: it is put
\* into the last starter before it when it is not blocked from it (D115).
Absorbed(st, k) ==
  LET starters == {a \in st.kept : a < k /\ CccOf(st.s[a]) = 0}
      last == CHOOSE a \in starters : \A b \in starters : b <= a
      blocked == \E b \in st.kept :
                   /\ last < b /\ b < k
                   /\ CccOf(st.s[b]) = 0 \/ CccOf(st.s[b]) >= CccOf(st.s[k])
  IN IF starters # {} /\ ~blocked /\ HasPrimary(st.s[last], st.s[k])
     THEN [s |-> [st.s EXCEPT ![last] = Primary(st.s[last], st.s[k])], kept |-> st.kept \ {k}]
     ELSE st

\* The characters after the first k have had their turn, and which are kept.
Compositions(s) ==
  LET after[k \in 0..Len(s)] ==
        IF k = 0 THEN [s |-> s, kept |-> 1..Len(s)] ELSE Absorbed(after[k - 1], k)
  IN after

Composed(s) ==
  LET end == Compositions(s)[Len(s)]
      at == Arranged(end.kept, {p \in end.kept \X end.kept : p[1] < p[2]})
  IN [k \in 1..Cardinality(end.kept) |-> end.s[at[k]]]

Nfc(s) == Composed(Ordered(Decomposed(s)))
=============================================================================
