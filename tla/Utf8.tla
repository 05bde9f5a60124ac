-------------------------------- MODULE Utf8 --------------------------------
(***************************************************************************)
(* The UTF-8 codec of bytepair: the decoder bp_utf8_next (bp_util.c),      *)
(* which every stage reads text with, and the encoder inside bp_nfc        *)
(* (bp_nfc.c), which writes normalized text back.  A text is a sequence of *)
(* byte values, positions count from 1, and a malformed byte is decoded    *)
(* alone, as NoCp.                                                         *)
(***************************************************************************)
EXTENDS Integers, Sequences

Byte == 0..255

MaxCodepoint == 1114111            \* 0x10FFFF
Codepoint == 0..MaxCodepoint

\* 0xFFFFFFFF: what bp_utf8_next returns for a malformed byte.
NoCp == -1

Continuation(b) == b \div 64 = 2

\* The payload of a continuation byte.
Low6(b) == b % 64

\* The n - 1 bytes after position at exist and are continuation bytes.
Tailed(s, at, n) ==
  /\ at + n - 1 <= Len(s)
  /\ \A d \in 1..(n - 1) : Continuation(s[at + d])

Two(s, at) == (s[at] % 32) * 64 + Low6(s[at + 1])

Three(s, at) == (s[at] % 16) * 4096 + Low6(s[at + 1]) * 64 + Low6(s[at + 2])

Four(s, at) ==
  (s[at] % 8) * 262144 + Low6(s[at + 1]) * 4096 + Low6(s[at + 2]) * 64 + Low6(s[at + 3])

Surrogate == 55296..57343          \* 0xD800..0xDFFF

\* The forms of two, three and four bytes that bp_utf8_next takes.
IsTwo(s, at) == s[at] \in 194..223 /\ Tailed(s, at, 2)

\* Mutant: surrogates are not rejected.
IsThreeLax(s, at) == s[at] \in 224..239 /\ Tailed(s, at, 3) /\ Three(s, at) >= 2048

IsThree(s, at) ==
  /\ s[at] \in 224..239 /\ Tailed(s, at, 3)
  /\ Three(s, at) >= 2048 /\ Three(s, at) \notin Surrogate

IsFour(s, at) ==
  /\ s[at] \in 240..244 /\ Tailed(s, at, 4)
  /\ Four(s, at) >= 65536 /\ Four(s, at) <= MaxCodepoint

\* bp_utf8_next at position at of s.
Decode(s, at) ==
  IF s[at] < 128 THEN [cp |-> s[at], adv |-> 1]
  ELSE IF IsTwo(s, at) THEN [cp |-> Two(s, at), adv |-> 2]
  ELSE IF IsThree(s, at) THEN [cp |-> Three(s, at), adv |-> 3]
  ELSE IF IsFour(s, at) THEN [cp |-> Four(s, at), adv |-> 4]
  ELSE [cp |-> NoCp, adv |-> 1]

\* The encoder of bp_nfc, for a codepoint.
EncodeCp(cp) ==
  IF cp < 128 THEN <<cp>>
  ELSE IF cp < 2048 THEN <<192 + cp \div 64, 128 + Low6(cp)>>
  ELSE IF cp < 65536
  THEN <<224 + cp \div 4096, 128 + Low6(cp \div 64), 128 + Low6(cp)>>
  ELSE <<240 + cp \div 262144, 128 + Low6(cp \div 4096),
         128 + Low6(cp \div 64), 128 + Low6(cp)>>

----------------------------------------------------------------------------

\* Table 3-7 of the Unicode standard: the rows of well-formed byte sequences.
WellFormedRows ==
  { <<0..127>>,
    <<194..223, 128..191>>,
    <<{224}, 160..191, 128..191>>,
    <<225..236, 128..191, 128..191>>,
    <<{237}, 128..159, 128..191>>,
    <<238..239, 128..191, 128..191>>,
    <<{240}, 144..191, 128..191, 128..191>>,
    <<241..243, 128..191, 128..191, 128..191>>,
    <<{244}, 128..143, 128..191, 128..191>> }

IsWellFormed(s) ==
  \E row \in WellFormedRows :
    Len(s) = Len(row) /\ \A k \in 1..Len(row) : s[k] \in row[k]
=============================================================================
