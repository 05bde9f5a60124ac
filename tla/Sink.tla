-------------------------------- MODULE Sink --------------------------------
(***************************************************************************)
(* The output sink of bp_encode (bp_internal.h): a caller's array of cap   *)
(* ids, of which the first are filled, and a count of all ids there are.   *)
(* A call with cap 0 only counts.                                          *)
(***************************************************************************)
EXTENDS Integers, Sequences

NewSink(cap) == [out |-> <<>>, cap |-> cap, total |-> 0]

\* Mutant: an id list that does not fit is dropped whole.
PutWhole(s, ids) ==
  [s EXCEPT !.out = IF s.total + Len(ids) <= s.cap THEN @ \o ids ELSE @,
            !.total = @ + Len(ids)]

\* bp_sink_put: write what fits, count everything.
Put(s, ids) ==
  LET room == IF s.total < s.cap THEN s.cap - s.total ELSE 0
      fits == IF Len(ids) < room THEN Len(ids) ELSE room
  IN [s EXCEPT !.out = @ \o SubSeq(ids, 1, fits), !.total = @ + Len(ids)]

\* The sink has counted all of ids, and holds as much of them as it has room for.
Holds(s, ids) ==
  /\ s.total = Len(ids)
  /\ s.out = SubSeq(ids, 1, IF s.cap < Len(ids) THEN s.cap ELSE Len(ids))
=============================================================================
