--------------------------------- MODULE Nfc ---------------------------------
(***************************************************************************)
(* bp_nfc of bp_nfc.c: canonical composition (NFC) of a segment of bytes,  *)
(* with the quick check before it.  The entries of the work buffer are     *)
(* codepoints and opaque bytes with their combining class; the Unicode     *)
(* tables are constants.                                                   *)
(***************************************************************************)
EXTENDS Utf8, SequencesExt

CONSTANTS
  Texts,            \* the segments considered, as bytes
  Codepoints,       \* the codepoints there are
  Ccc(_),           \* bp_ccc: the canonical combining class
  Qc(_),            \* bp_nfc_qc: "yes", "no" or "maybe"
  Decomp(_),        \* bp_decomp: the full decomposition, empty if there is none
  Compose(_, _),    \* bp_compose: the primary composite, or 0
  StdCcc(_),        \* what the Unicode standard says of the same: the class,
  StdDecomp(_),     \*   the full decomposition, the codepoint itself if it has
  HasStd(_, _),     \*   none, and of a pair whether it has a primary composite
  StdPrimary(_, _)  \*   and which, Hangul included

VARIABLES
  flag,      \* whether the vocabulary asks for NFC
  text,      \* the segment
  pc,        \* "quick", "decompose", "order", "compose", "done"
  i,         \* the byte or entry looked at
  prevCcc,   \* the class before it, in the quick check
  buf,       \* the work buffer's entries
  w,         \* how many of them the composition has kept
  starter,   \* the last starter kept, 0 if there is none to compose with
  out, rc

vars == <<flag, text, pc, i, prevCcc, buf, w, starter, out, rc>>

\* The tag that keeps the value of a malformed byte (lines 99-101).
Opaque == 1114112
IsOpaque(cp) == cp >= Opaque

Entry(cp, ccc) == [cp |-> cp, ccc |-> ccc]

----------------------------------------------------------------------------
(* Hangul syllables, by arithmetic.                                        *)

SBase == 44032
LBase == 4352
VBase == 4449
TBase == 4519
LCount == 19
VCount == 21
TCount == 28
NCount == VCount * TCount
SCount == LCount * NCount

IsHangulS(cp) == cp >= SBase /\ cp < SBase + SCount

Spelled(cp) ==
  LET s == cp - SBase
      lv == <<LBase + s \div NCount, VBase + (s % NCount) \div TCount>>
  IN IF IsHangulS(cp) THEN IF s % TCount = 0 THEN lv ELSE Append(lv, TBase + (s % TCount))
     ELSE IF Decomp(cp) = <<>> THEN <<cp>> ELSE Decomp(cp)

\* decompose_one: the class of a jamo is not looked up.
DecomposeOne(cp) ==
  LET ds == Spelled(cp)
  IN [k \in 1..Len(ds) |-> Entry(ds[k], IF IsHangulS(cp) THEN 0 ELSE Ccc(ds[k]))]

\* compose_pair
ComposePair(a, b) ==
  IF a >= LBase /\ a < LBase + LCount /\ b >= VBase /\ b < VBase + VCount
  THEN SBase + ((a - LBase) * VCount + (b - VBase)) * TCount
  ELSE IF IsHangulS(a) /\ (a - SBase) % TCount = 0 /\ b > TBase /\ b < TBase + TCount
  THEN a + (b - TBase)
  ELSE Compose(a, b)

\* A segment is bytes, of which the decoder makes codepoints.
ASSUME TextsAssumption ==
  LET cps == Codepoints \cup {NoCp}
  IN Texts \subseteq Seq(Byte)
     /\ \A s \in Texts : \A k \in 1..Len(s) : Decode(s, k).cp \in cps

\* The tables, with Hangul by arithmetic, are the standard's.
ASSUME TablesAssumption ==
  LET cps == Codepoints
  IN /\ cps \subseteq 0..(Opaque - 1)
     /\ \A cp \in cps : Ccc(cp) = StdCcc(cp) /\ Spelled(cp) = StdDecomp(cp)
     /\ \A a, b \in cps : ComposePair(a, b) = IF HasStd(a, b) THEN StdPrimary(a, b) ELSE 0

\* What the standard's data is like: Hangul syllables decompose to starters, and so
\* is what a starter is composed to: its "ccc stays 0" (line 141).
ASSUME StandardAssumption ==
  LET cps == Codepoints
  IN /\ \A cp \in cps :
          /\ StdCcc(cp) \in Nat /\ StdDecomp(cp) \in Seq(cps) /\ StdDecomp(cp) # <<>>
          /\ IsHangulS(cp) => \A k \in 1..Len(StdDecomp(cp)) : StdCcc(StdDecomp(cp)[k]) = 0
     /\ \A a, b \in cps :
          HasStd(a, b) =>
            StdPrimary(a, b) \in cps \ {0} /\ (StdCcc(a) = 0 => StdCcc(StdPrimary(a, b)) = 0)

----------------------------------------------------------------------------

Ascii == \A k \in 1..Len(text) : text[k] < 128

Init ==
  /\ flag \in BOOLEAN /\ text \in Texts
  /\ pc = "quick" /\ i = 1 /\ prevCcc = 0
  /\ buf = <<>> /\ w = 0 /\ starter = 0
  /\ out = <<>> /\ rc = "ok"

\* The segment itself is the answer.
Unchanged ==
  /\ pc = "quick" /\ (~flag \/ Ascii \/ i > Len(text))
  /\ out' = text /\ pc' = "done"
  /\ UNCHANGED <<flag, text, i, prevCcc, buf, w, starter, rc>>

Here == Decode(text, i)

\* Mutant: marks out of order pass.
CleanAnyOrder == Here.cp < 128 \/ Qc(Here.cp) = "yes"

\* nfc_quick goes on: NoCp, a malformed byte, is below 128 too.
Clean ==
  \/ Here.cp < 128
  \/ ~(Ccc(Here.cp) # 0 /\ prevCcc > Ccc(Here.cp)) /\ Qc(Here.cp) = "yes"

QuickOn ==
  /\ pc = "quick" /\ flag /\ ~Ascii /\ i <= Len(text) /\ Clean
  /\ prevCcc' = IF Here.cp < 128 THEN 0 ELSE Ccc(Here.cp)
  /\ i' = i + Here.adv
  /\ UNCHANGED <<flag, text, pc, buf, w, starter, out, rc>>

\* The full path, unless the work buffer cannot be had.
QuickStop ==
  /\ pc = "quick" /\ flag /\ ~Ascii /\ i <= Len(text) /\ ~Clean
  /\ \/ pc' = "decompose" /\ UNCHANGED rc
     \/ pc' = "done" /\ rc' = "nomem"
  /\ i' = 1
  /\ UNCHANGED <<flag, text, prevCcc, buf, w, starter, out>>

Decompose ==
  /\ pc = "decompose" /\ i <= Len(text)
  /\ buf' = buf \o IF Here.cp = NoCp THEN <<Entry(Opaque + text[i], 0)>>
                   ELSE DecomposeOne(Here.cp)
  /\ i' = i + Here.adv
  /\ UNCHANGED <<flag, text, pc, prevCcc, w, starter, out, rc>>

Decomposed ==
  /\ pc = "decompose" /\ i > Len(text)
  /\ pc' = "order" /\ i' = 2
  /\ UNCHANGED <<flag, text, prevCcc, buf, w, starter, out, rc>>

\* Mutant: a mark also passes those of its own class.
IsPlaceBeforeEqual(p) ==
  /\ \A q \in p..(i - 1) : buf[q].ccc >= buf[i].ccc
  /\ p > 1 => buf[p - 1].ccc < buf[i].ccc

\* Where the insertion sort puts entry i: past the entries of higher class.
IsPlace(p) ==
  /\ \A q \in p..(i - 1) : buf[q].ccc > buf[i].ccc
  /\ p > 1 => buf[p - 1].ccc <= buf[i].ccc

Order ==
  /\ pc = "order" /\ i <= Len(buf)
  /\ IF buf[i].ccc = 0 THEN UNCHANGED buf
     ELSE \E p \in 1..i : IsPlace(p) /\ buf' = InsertAt(RemoveAt(buf, i), p, buf[i])
  /\ i' = i + 1
  /\ UNCHANGED <<flag, text, pc, prevCcc, w, starter, out, rc>>

Ordered ==
  /\ pc = "order" /\ i > Len(buf)
  /\ pc' = "compose" /\ i' = 1
  /\ UNCHANGED <<flag, text, prevCcc, buf, w, starter, out, rc>>

Composite == ComposePair(buf[starter].cp, buf[i].cp)

\* Mutant: a mark of the same class does not block.
CombinesPastEqual ==
  /\ starter # 0 /\ ~IsOpaque(buf[i].cp)
  /\ w = starter \/ buf[w].ccc <= buf[i].ccc
  /\ Composite # 0

\* Entry i is not blocked from the last starter, and forms a composite with it.
Combines ==
  /\ starter # 0 /\ ~IsOpaque(buf[i].cp)
  /\ w = starter \/ buf[w].ccc < buf[i].ccc
  /\ Composite # 0

\* The class of the starter is left as it is: 0.
Combine ==
  /\ pc = "compose" /\ i <= Len(buf) /\ Combines
  /\ buf' = [buf EXCEPT ![starter].cp = Composite]
  /\ i' = i + 1
  /\ UNCHANGED <<flag, text, pc, prevCcc, w, starter, out, rc>>

\* Entry i is kept, in place: it moves down to where the next one is written.
Keep ==
  /\ pc = "compose" /\ i <= Len(buf) /\ ~Combines
  /\ starter' = IF buf[i].ccc # 0 THEN starter
                ELSE IF IsOpaque(buf[i].cp) THEN 0 ELSE w + 1
  /\ buf' = [buf EXCEPT ![w + 1] = buf[i]]
  /\ w' = w + 1 /\ i' = i + 1
  /\ UNCHANGED <<flag, text, pc, prevCcc, out, rc>>

BytesOf(cp) == IF IsOpaque(cp) THEN <<cp - Opaque>> ELSE EncodeCp(cp)

\* Text of codepoints and tagged bytes.
Written(cps) == FlattenSeq([k \in 1..Len(cps) |-> BytesOf(cps[k])])

\* Encoding back, unless the second buffer cannot be had.
Composed ==
  /\ pc = "compose" /\ i > Len(buf)
  /\ \/ out' = Written([k \in 1..w |-> buf[k].cp]) /\ UNCHANGED rc
     \/ rc' = "nomem" /\ UNCHANGED out
  /\ pc' = "done"
  /\ UNCHANGED <<flag, text, i, prevCcc, buf, w, starter>>

Next ==
  \/ Unchanged \/ QuickOn \/ QuickStop \/ Decompose \/ Decomposed
  \/ Order \/ Ordered \/ Combine \/ Keep \/ Composed

Spec == Init /\ [][Next]_vars

----------------------------------------------------------------------------

(* The standard; a tagged byte takes part in nothing.                      *)

ClassOf(x) == IF IsOpaque(x) THEN 0 ELSE StdCcc(x)
SpelledOut(x) == IF IsOpaque(x) THEN <<x>> ELSE StdDecomp(x)
HasComposite(x, y) == ~IsOpaque(x) /\ ~IsOpaque(y) /\ HasStd(x, y)

Uax == INSTANCE Uax15 WITH CccOf <- ClassOf, FullDecomp <- SpelledOut,
                           HasPrimary <- HasComposite, Primary <- StdPrimary

\* One character more of s, unless all of s is read.
ReadOne(s, st) ==
  LET d == Decode(s, st.next)
  IN IF st.next > Len(s) THEN st
     ELSE [next |-> st.next + d.adv,
           cps |-> Append(st.cps, IF d.cp = NoCp THEN Opaque + s[st.next] ELSE d.cp)]

\* After so many reads, and after all: the characters of s, its malformed bytes tagged.
Readings(s) ==
  LET read[k \in 0..Len(s)] ==
        IF k = 0 THEN [next |-> 1, cps |-> <<>>] ELSE ReadOne(s, read[k - 1])
  IN read
Chars(s) == Readings(s)[Len(s)].cps

----------------------------------------------------------------------------

Reading == pc \in {"quick", "decompose"} /\ i <= Len(text)

BytesRead == SubSeq(text, i, i + Here.adv - 1)

\* A character is accepted exactly when its bytes are a row of the table: no
\* overlong form, no surrogate, nothing above U+10FFFF, no truncated sequence
\* (bp_util.c 6-39); any other byte is read alone as malformed, and no
\* well-formed sequence starts there.  What bp_nfc writes for a character it
\* decoded is the bytes it read, so text that normalization leaves alone comes
\* out unchanged (bp_nfc.c 153-176).
CodecExact ==
  Reading =>
    IF Here.cp = NoCp
    THEN /\ Here.adv = 1
         /\ \A n \in i..Len(text) : ~IsWellFormed(SubSeq(text, i, n))
    ELSE IsWellFormed(BytesRead) /\ EncodeCp(Here.cp) = BytesRead

\* "canonical reordering (stable)" (FORMAT.md 32), lines 119-129: the entries
\* sorted so far are in the order of D109, marks of one class in the order of
\* the text, and no mark has passed a starter or a malformed byte.
OrderedSoFar ==
  pc = "order" =>
    LET spelled == Uax!Decomposed(Chars(text))
    IN /\ Len(buf) = Len(spelled)
       /\ \A k \in 1..Len(buf) : buf[k].ccc = ClassOf(buf[k].cp)
       /\ [k \in 1..(i - 1) |-> buf[k].cp] = Uax!Ordered(SubSeq(spelled, 1, i - 1))

\* What the full path returns is the NFC of the segment as UAX #15 defines it,
\* encoded, with malformed bytes where they were: decomposing, reordering and
\* composing in place in one buffer, with a last starter and the class of the
\* last entry kept for all it remembers, loses and blocks nothing it should not
\* (lines 102-180).
Recomposed ==
  pc = "done" /\ rc = "ok" /\ buf # <<>> => out = Written(Uax!Nfc(Chars(text)))

\* What bp_nfc returns, read again, is the NFC of the segment: no malformed byte
\* becomes part of a character, and the quick check lets a text pass only "when
\* it is provably unnecessary" to do the work (FORMAT.md 29-30), its resets at
\* ASCII and malformed bytes included.
Normalized ==
  pc = "done" /\ rc = "ok" =>
    Chars(out) = IF flag THEN Uax!Nfc(Chars(text)) ELSE Chars(text)
=============================================================================
