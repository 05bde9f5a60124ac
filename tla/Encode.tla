------------------------------- MODULE Encode -------------------------------
(***************************************************************************)
(* bp_encode of bp_encode.c with the added-token matcher that              *)
(* bp_vocab_open (bp_vocab.c) prepares for it.  Added tokens are matched   *)
(* on the raw bytes; the text between two of them is a segment, handed to  *)
(* encode_segment (normalization, split scanner, BPE), which here is the   *)
(* operator Encoding.  The matcher tries the tokens longest first at each  *)
(* position whose byte begins some token.                                  *)
(***************************************************************************)
EXTENDS Sink, SequencesExt

CONSTANTS
  Added,        \* the added-token arrays a vocabulary file can hold
  Calls,        \* the calls made
  Encoding(_),  \* the ids of a segment
  Symbol        \* the bytes of texts and tokens

\* bp_vocab_open refuses an empty record.
ASSUME AddedAssumption ==
  \A a \in Added :
    /\ a \in Seq([bytes : Seq(Symbol), id : Nat])
    /\ \A k \in 1..Len(a) : Len(a[k].bytes) > 0

ASSUME CallsAssumption ==
  Calls \subseteq [text : Seq(Symbol), hasText : BOOLEAN, hasOut : BOOLEAN,
                   cap : Nat, raw : BOOLEAN]

\* encode_segment appends token ids, for every part of a text.
ASSUME EncodingAssumption ==
  \A c \in Calls : \A from, to \in 1..(Len(c.text) + 1) :
    Encoding(SubSeq(c.text, from, to - 1)) \in Seq(Nat)

VARIABLES
  added,   \* the added tokens, sorted by id
  order,   \* added_order: the tokens in the order the matcher tries them
  call,    \* the arguments of bp_encode
  pc,      \* "index" while the file is opened, "scan", "done"
  i,       \* the position looked at
  seg,     \* seg_start: where the segment under way begins
  spans,   \* what was encoded so far, as [from, to, tok]; tok 0 for a segment
  sink, rc

vars == <<added, order, call, pc, i, seg, spans, sink, rc>>

----------------------------------------------------------------------------
(* bp_vocab_open: the matcher's tables.                                    *)

Init ==
  /\ added \in Added /\ call \in Calls
  /\ order = <<>>
  /\ pc = "index"
  /\ i = 1 /\ seg = 1 /\ spans = <<>>
  /\ sink = NewSink(call.cap) /\ rc = "ok"

LenOf(k) == Len(added[k].bytes)

\* Mutant: a token also goes before those of its own length.
IsPlaceBeforeEqual(k, p) ==
  /\ \A q \in 1..(p - 1) : LenOf(order[q]) > LenOf(k)
  /\ \A q \in p..Len(order) : LenOf(order[q]) <= LenOf(k)

\* The insertion sort puts token k before all shorter ones.
IsPlace(k, p) ==
  /\ \A q \in 1..(p - 1) : LenOf(order[q]) >= LenOf(k)
  /\ \A q \in p..Len(order) : LenOf(order[q]) < LenOf(k)

\* s with x inserted at p.
Inserted(s, p, x) ==
  [n \in 1..(Len(s) + 1) |-> IF n < p THEN s[n] ELSE IF n = p THEN x ELSE s[n - 1]]

Index ==
  /\ pc = "index" /\ Len(order) < Len(added)
  /\ \E p \in 1..(Len(order) + 1) :
       /\ IsPlace(Len(order) + 1, p)
       /\ order' = Inserted(order, p, Len(order) + 1)
  /\ UNCHANGED <<added, call, pc, i, seg, spans, sink, rc>>

BadCall == (~call.hasText /\ call.text # <<>>) \/ (~call.hasOut /\ call.cap # 0)

Enter ==
  /\ pc = "index" /\ Len(order) = Len(added)
  /\ IF BadCall THEN rc' = "arg" /\ pc' = "done" ELSE pc' = "scan" /\ UNCHANGED rc
  /\ UNCHANGED <<added, order, call, i, seg, spans, sink>>

----------------------------------------------------------------------------
(* bp_encode.                                                              *)

text == call.text

\* added_first, added_single_first and added_first_map: the bytes tokens begin with.
FirstBytes == {added[k].bytes[1] : k \in 1..Len(added)}

\* Token k is in the text at p.
OccursAt(k, p) ==
  /\ p + LenOf(k) - 1 <= Len(text)
  /\ \A d \in 1..LenOf(k) : text[p + d - 1] = added[k].bytes[d]

\* match_added returns the first token in its order that is there.
Matched(k, p) ==
  \E n \in 1..Len(order) :
    /\ order[n] = k /\ OccursAt(k, p)
    /\ \A m \in 1..(n - 1) : ~OccursAt(order[m], p)

NoMatch(p) == \A n \in 1..Len(order) : ~OccursAt(order[n], p)

Span(from, to, tok) == [from |-> from, to |-> to, tok |-> tok]

\* Mutant: a segment of one byte is skipped too.
WithSegmentOfTwo(ss, from, to) ==
  IF to - from <= 1 THEN ss ELSE Append(ss, Span(from, to, 0))

\* The segment from..(to - 1), which is skipped when it is empty.
WithSegment(ss, from, to) == IF from = to THEN ss ELSE Append(ss, Span(from, to, 0))

SegmentPut(s, from, to) ==
  IF from = to THEN s ELSE Put(s, Encoding(SubSeq(text, from, to - 1)))

NoTokens == call.raw \/ Len(added) = 0

InScan == pc = "scan" /\ rc = "ok"

Stay == UNCHANGED <<added, order, call>>

\* BP_RAW, or no added tokens: the text is one segment.
Whole ==
  /\ InScan /\ NoTokens
  /\ spans' = WithSegment(spans, 1, Len(text) + 1)
  /\ sink' = SegmentPut(sink, 1, Len(text) + 1)
  /\ pc' = "done"
  /\ UNCHANGED <<i, seg, rc>> /\ Stay

\* memchr, or the loop over the bitmap: on to a byte that begins a token.
Seek ==
  /\ InScan /\ ~NoTokens /\ i <= Len(text)
  /\ text[i] \notin FirstBytes
  /\ i' = i + 1
  /\ UNCHANGED <<pc, seg, spans, sink, rc>> /\ Stay

Miss ==
  /\ InScan /\ ~NoTokens /\ i <= Len(text)
  /\ text[i] \in FirstBytes /\ NoMatch(i)
  /\ i' = i + 1
  /\ UNCHANGED <<pc, seg, spans, sink, rc>> /\ Stay

Match ==
  /\ InScan /\ ~NoTokens /\ i <= Len(text)
  /\ text[i] \in FirstBytes
  /\ \E k \in 1..Len(added) :
       /\ Matched(k, i)
       /\ i' = i + LenOf(k)
       /\ spans' = Append(WithSegment(spans, seg, i), Span(i, i + LenOf(k), k))
       /\ sink' = Put(SegmentPut(sink, seg, i), <<added[k].id>>)
  /\ seg' = i'
  /\ UNCHANGED <<pc, rc>> /\ Stay

\* The segment after the last token.
Finish ==
  /\ InScan /\ ~NoTokens /\ i > Len(text)
  /\ spans' = WithSegment(spans, seg, Len(text) + 1)
  /\ sink' = SegmentPut(sink, seg, Len(text) + 1)
  /\ pc' = "done"
  /\ UNCHANGED <<i, seg, rc>> /\ Stay

\* encode_segment runs out of memory, after some of the segment's ids: the call
\* fails with those written.
FailsAfter(from, to) ==
  /\ from < to
  /\ \E n \in 0..Len(Encoding(SubSeq(text, from, to - 1))) :
       sink' = Put(sink, SubSeq(Encoding(SubSeq(text, from, to - 1)), 1, n))
  /\ rc' = "nomem" /\ pc' = "done"
  /\ UNCHANGED <<i, seg, spans>> /\ Stay

SegmentFails ==
  /\ InScan
  /\ \/ NoTokens /\ FailsAfter(1, Len(text) + 1)
     \/ ~NoTokens /\ i <= Len(text) /\ ~NoMatch(i) /\ FailsAfter(seg, i)
     \/ ~NoTokens /\ i > Len(text) /\ FailsAfter(seg, Len(text) + 1)

Next ==
  Index \/ Enter \/ Whole \/ Seek \/ Miss \/ Match \/ Finish \/ SegmentFails

Spec == Init /\ [][Next]_vars

----------------------------------------------------------------------------

SpanSet ==
  [from : 1..(Len(text) + 1), to : 1..(Len(text) + 1), tok : 0..Len(added)]

TypeOK ==
  /\ order \in Seq(1..Len(added)) /\ Len(order) <= Len(added)
  /\ pc \in {"index", "scan", "done"}
  /\ i \in 1..(Len(text) + 1) /\ seg \in 1..(Len(text) + 1)
  /\ spans \in Seq(SpanSet)
  /\ rc \in {"ok", "arg", "nomem"}

\* Added token k is the one the documentation prescribes at p: no longer one is
\* there, and of two with the same bytes it is the one of lower id.
Longest(k, p) ==
  /\ OccursAt(k, p)
  /\ \A m \in 1..Len(added) :
       OccursAt(m, p) => LenOf(m) < LenOf(k) \/ (LenOf(m) = LenOf(k) /\ k <= m)

TokenAt(p) == \E k \in 1..Len(added) : OccursAt(k, p)

SpanOK(s) ==
  IF s.tok = 0
  THEN s.from < s.to /\ (call.raw \/ \A p \in s.from..(s.to - 1) : ~TokenAt(p))
  ELSE ~call.raw /\ s.to = s.from + LenOf(s.tok) /\ Longest(s.tok, s.from)

\* Added tokens are found leftmost first and longest first (bp_encode.c 5-7,
\* 25-34, 52-71), whether the scan for their first byte is memchr or the
\* bitmap: every span taken for a token holds the longest token there, and no
\* token begins anywhere in a segment.
LeftmostLongest == \A n \in 1..Len(spans) : SpanOK(spans[n])

Chained(ss) == \A n \in 1..Len(ss) : ss[n].from = IF n = 1 THEN 1 ELSE ss[n - 1].to

EndOf(ss) == IF ss = <<>> THEN 1 ELSE ss[Len(ss)].to

\* The spans follow one another and a call that succeeds has covered the text:
\* no byte of a segment is lost where the scan skips ahead.
Covered ==
  /\ Chained(spans)
  /\ pc # "done" => seg = EndOf(spans)
  /\ pc = "done" /\ rc = "ok" => EndOf(spans) = Len(text) + 1

IdsOf(s) == IF s.tok = 0 THEN Encoding(SubSeq(text, s.from, s.to - 1)) ELSE <<added[s.tok].id>>

\* The ids of all spans so far, in order.
AllIds == FlattenSeq([n \in 1..Len(spans) |-> IdsOf(spans[n])])

\* The count does not depend on the room the caller gives, and the ids written
\* are the first of those counted: a sizing call and the call that follows it
\* agree (bytepair.h 70-76).
SinkOK == rc # "nomem" => Holds(sink, AllIds)
=============================================================================
