------------------------------- MODULE Decode -------------------------------
(***************************************************************************)
(* bp_decode of bp_encode.c: the bytes of each id, in order, written as    *)
(* far as the caller's buffer goes and counted beyond it.  With            *)
(* BP_SKIP_SPECIAL each id is first looked for in the added-token array,   *)
(* by bisection.  Here an index counts from 1 and lo, hi from 0, as in the *)
(* code.                                                                   *)
(***************************************************************************)
EXTENDS Sink, SequencesExt

CONSTANTS
  Vocabs,   \* what vocabulary files hold: bytes of the ids, added tokens
  Calls,    \* the calls made
  Byte      \* the bytes of tokens

\* bp_vocab_open refuses added records that are not sorted by id, out of range,
\* or empty.  An id with no bytes is one the vocabulary does not use.
VocabsTyped ==
  \A v \in Vocabs :
    /\ v.bytes \in Seq(Seq(Byte))
    /\ v.added \in Seq([id : 0..(Len(v.bytes) - 1), special : BOOLEAN])
    /\ \A j, k \in 1..Len(v.added) : j < k => v.added[j].id < v.added[k].id
    /\ \A k \in 1..Len(v.added) : Len(v.bytes[v.added[k].id + 1]) > 0

CallsTyped ==
  Calls \subseteq [ids : Seq(Nat), hasIds : BOOLEAN, hasOut : BOOLEAN,
                   cap : Nat, skipSpecial : BOOLEAN]

VARIABLES
  vocab,   \* the vocabulary
  call,    \* the arguments of bp_decode
  pc,      \* "enter", "next", "search", "copy", "done"
  i,       \* the id looked at
  lo, hi,  \* what is left of the added tokens to look in
  sink,    \* the bytes written and counted
  rc

vars == <<vocab, call, pc, i, lo, hi, sink, rc>>

Init ==
  /\ vocab \in Vocabs /\ call \in Calls
  /\ pc = "enter" /\ i = 1 /\ lo = 0 /\ hi = 0
  /\ sink = NewSink(call.cap) /\ rc = "ok"

BytesOf(id) == vocab.bytes[id + 1]

BadCall == (~call.hasIds /\ call.ids # <<>>) \/ (~call.hasOut /\ call.cap # 0)

Return(code) == pc' = "done" /\ rc' = code /\ UNCHANGED <<vocab, call, i, lo, hi, sink>>

Enter ==
  /\ pc = "enter"
  /\ IF BadCall THEN Return("arg")
     ELSE pc' = "next" /\ UNCHANGED <<vocab, call, i, lo, hi, sink, rc>>

Finish == pc = "next" /\ i > Len(call.ids) /\ Return("ok")

OutOfRange ==
  /\ pc = "next" /\ i <= Len(call.ids) /\ call.ids[i] >= Len(vocab.bytes)
  /\ Return("range")

Begin ==
  /\ pc = "next" /\ i <= Len(call.ids) /\ call.ids[i] < Len(vocab.bytes)
  /\ IF call.skipSpecial
     THEN pc' = "search" /\ lo' = 0 /\ hi' = Len(vocab.added)
     ELSE pc' = "copy" /\ UNCHANGED <<lo, hi>>
  /\ UNCHANGED <<vocab, call, i, sink, rc>>

Mid == vocab.added[(lo + hi) \div 2 + 1]

\* Mutant: the upper half is cut one short.
HalveLeftShort ==
  /\ pc = "search" /\ lo < hi /\ Mid.id > call.ids[i]
  /\ hi' = IF (lo + hi) \div 2 > lo THEN (lo + hi) \div 2 - 1 ELSE lo
  /\ UNCHANGED <<vocab, call, pc, i, lo, sink, rc>>

HalveLeft ==
  /\ pc = "search" /\ lo < hi /\ Mid.id > call.ids[i]
  /\ hi' = (lo + hi) \div 2
  /\ UNCHANGED <<vocab, call, pc, i, lo, sink, rc>>

\* Mutant: the middle stays in the half that is kept.
HalveRightSame ==
  /\ pc = "search" /\ lo < hi /\ Mid.id < call.ids[i]
  /\ lo' = (lo + hi) \div 2
  /\ UNCHANGED <<vocab, call, pc, i, hi, sink, rc>>

HalveRight ==
  /\ pc = "search" /\ lo < hi /\ Mid.id < call.ids[i]
  /\ lo' = (lo + hi) \div 2 + 1
  /\ UNCHANGED <<vocab, call, pc, i, hi, sink, rc>>

\* Found: a special token is left out, another added token is not.
Found ==
  /\ pc = "search" /\ lo < hi /\ Mid.id = call.ids[i]
  /\ IF Mid.special THEN pc' = "next" /\ i' = i + 1 ELSE pc' = "copy" /\ UNCHANGED i
  /\ UNCHANGED <<vocab, call, lo, hi, sink, rc>>

NotFound ==
  /\ pc = "search" /\ lo >= hi
  /\ pc' = "copy"
  /\ UNCHANGED <<vocab, call, i, lo, hi, sink, rc>>

\* Mutant: an unused id decodes to nothing.
UnusedSkipped ==
  /\ pc = "copy" /\ BytesOf(call.ids[i]) = <<>>
  /\ i' = i + 1 /\ pc' = "next"
  /\ UNCHANGED <<vocab, call, lo, hi, sink, rc>>

Unused == pc = "copy" /\ BytesOf(call.ids[i]) = <<>> /\ Return("range")

Copy ==
  /\ pc = "copy" /\ BytesOf(call.ids[i]) # <<>>
  /\ sink' = Put(sink, BytesOf(call.ids[i]))
  /\ i' = i + 1 /\ pc' = "next"
  /\ UNCHANGED <<vocab, call, lo, hi, rc>>

Next ==
  Enter \/ Finish \/ OutOfRange \/ Begin \/ HalveLeft \/ HalveRight \/ Found \/ NotFound
    \/ Unused \/ Copy

Spec == Init /\ [][Next]_vars /\ WF_vars(Next)

----------------------------------------------------------------------------

TypeOK ==
  /\ pc \in {"enter", "next", "search", "copy", "done"}
  /\ i \in 1..(Len(call.ids) + 1)
  /\ lo \in 0..Len(vocab.added) /\ hi \in 0..Len(vocab.added) /\ lo <= hi
  /\ pc \in {"search", "copy"} => i <= Len(call.ids) /\ call.ids[i] < Len(vocab.bytes)
  /\ rc \in {"ok", "arg", "range"}

Special(id) == \E k \in 1..Len(vocab.added) : vocab.added[k].id = id /\ vocab.added[k].special

\* The bisection has not lost the id: it is among those left, or nowhere.
SearchSound ==
  pc = "search" =>
    \A k \in 1..Len(vocab.added) : vocab.added[k].id = call.ids[i] => k \in (lo + 1)..hi

\* What an id contributes to the output.
Shown(id) == IF call.skipSpecial /\ Special(id) THEN <<>> ELSE BytesOf(id)

\* The output is the bytes of the ids so far, less the special tokens when they
\* are skipped and those only, cut off at the buffer's end; the count goes on, so
\* a sizing call and the call that follows it agree (bytepair.h 81-84).
Decoded == Holds(sink, FlattenSeq([k \in 1..(i - 1) |-> Shown(call.ids[k])]))

Bad(id) == id >= Len(vocab.bytes) \/ BytesOf(id) = <<>>

\* A call that succeeds has decoded all ids, and none of them is one the
\* vocabulary does not have or use; it is refused for one that is.
Refused ==
  /\ pc = "done" /\ rc = "ok" =>
       i = Len(call.ids) + 1 /\ \A k \in 1..Len(call.ids) : ~Bad(call.ids[k])
  /\ rc = "range" =>
       i <= Len(call.ids) /\ Bad(call.ids[i]) /\ \A k \in 1..(i - 1) : ~Bad(call.ids[k])

\* bp_decode returns.
Terminates == <>(pc = "done")
=============================================================================
