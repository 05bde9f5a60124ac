------------------------------ MODULE RoundTrip ------------------------------
(***************************************************************************)
(* bp_encode and bp_decode over one vocabulary: the ids that an encode     *)
(* call wrote are handed to a decode call.  A decode call may also be made *)
(* on its own, with ids that no encoder wrote.  The variables of Decode    *)
(* have a d in front here.                                                 *)
(***************************************************************************)
EXTENDS Encode

CONSTANTS
  Views,      \* the vocabularies as bp_decode sees them
  Requests,   \* the calls of bp_decode made on their own
  Room        \* the capacity given to a decode of what was encoded

VARIABLES dvocab, dcall, dpc, di, lo, hi, dsink, drc

dvars == <<dvocab, dcall, dpc, di, lo, hi, dsink, drc>>
allVars == <<vars, dvars>>

D == INSTANCE Decode WITH
  Vocabs <- Views, Calls <- Requests, Byte <- Symbol,
  vocab <- dvocab, call <- dcall, pc <- dpc, i <- di, sink <- dsink, rc <- drc

ASSUME ViewsAssumption == D!VocabsTyped
ASSUME RequestsAssumption == D!CallsTyped
ASSUME RoomAssumption == Room \in Nat

\* v has the added tokens a: both come from one image.
Agrees(v, a) ==
  /\ Len(v.added) = Len(a)
  /\ \A k \in 1..Len(a) : v.added[k].id = a[k].id /\ v.bytes[a[k].id + 1] = a[k].bytes

\* The ids of every part of a text are ids in use, none of a special token, and
\* their bytes are that part: so it is in a byte-level vocabulary with a token for
\* each byte, when no normalization changes the text.
EncodingSpells ==
  \A v \in Views, a \in Added, c \in Calls :
    Agrees(v, a) =>
      \A from, to \in 1..(Len(c.text) + 1) :
        LET part == SubSeq(c.text, from, to - 1)
            ids == Encoding(part)
        IN /\ \A k \in 1..Len(ids) :
                /\ ids[k] < Len(v.bytes) /\ v.bytes[ids[k] + 1] # <<>>
                /\ \A j \in 1..Len(v.added) : v.added[j].special => v.added[j].id # ids[k]
           /\ FlattenSeq([k \in 1..Len(ids) |-> v.bytes[ids[k] + 1]]) = part

Request(ids, skip) ==
  [ids |-> ids, hasIds |-> TRUE, hasOut |-> TRUE, cap |-> Room, skipSpecial |-> skip]

EncodeFirst ==
  /\ Init /\ dpc = "idle" /\ dvocab \in {v \in Views : Agrees(v, added)}
  /\ dcall = Request(<<>>, FALSE)
  /\ di = 1 /\ lo = 0 /\ hi = 0 /\ dsink = NewSink(Room) /\ drc = "ok"

DecodeOnly ==
  /\ D!Init /\ pc = "idle"
  /\ added = <<>> /\ order = <<>> /\ i = 1 /\ seg = 1 /\ spans = <<>> /\ rc = "ok"
  /\ call = [text |-> <<>>, hasText |-> FALSE, hasOut |-> FALSE, cap |-> 0, raw |-> FALSE]
  /\ sink = NewSink(0)

RoundTripInit == EncodeFirst \/ DecodeOnly

EncodeStep == Next /\ UNCHANGED dvars

HandOver ==
  /\ pc = "done" /\ rc = "ok" /\ dpc = "idle"
  /\ \E skip \in BOOLEAN : dcall' = Request(sink.out, skip)
  /\ dpc' = "enter"
  /\ UNCHANGED <<vars, dvocab, di, lo, hi, dsink, drc>>

\* There is nothing to decode after an error.
GiveUp ==
  /\ pc = "done" /\ rc # "ok" /\ dpc = "idle" /\ dpc' = "done"
  /\ UNCHANGED <<vars, dvocab, dcall, di, lo, hi, dsink, drc>>

DecodeStep == D!Next /\ UNCHANGED vars

RoundTripNext == EncodeStep \/ HandOver \/ GiveUp \/ DecodeStep

\* One thread makes the calls, one after the other.
RoundTripSpec == RoundTripInit /\ [][RoundTripNext]_allVars /\ WF_allVars(RoundTripNext)

----------------------------------------------------------------------------

\* The text of a span, but nothing of a special token when those are skipped.
Returned(s) ==
  IF dcall.skipSpecial /\ s.tok # 0 /\ D!Special(added[s.tok].id) THEN <<>>
  ELSE SubSeq(text, s.from, s.to - 1)

\* All ids of a text, when the encoder had room for them, decode to that text,
\* less the special added tokens when they are to be skipped, and no id of the
\* encoder's is refused (the sample round trip of tests/differential.py 165, for
\* every placement of added tokens).
Restored ==
  pc = "done" /\ rc = "ok" /\ sink.total <= call.cap /\ dpc = "done" =>
    /\ drc = "ok"
    /\ Holds(dsink, FlattenSeq([n \in 1..Len(spans) |-> Returned(spans[n])]))

\* What bp_decode has written and counted, and what it refuses: see Decode.
Decoded == D!Decoded /\ D!Refused
Terminates == D!Terminates
=============================================================================
