------------------------------- MODULE MCCli -------------------------------
(***************************************************************************)
(* Cli with two byte values instead of 256, files that differ from a valid *)
(* one in up to two places, and command lines whose texts cross the small  *)
(* capacities and document sizes of the configuration.                     *)
(***************************************************************************)
EXTENDS Cli

Place(o, z) == [off |-> o, size |-> z]
P(l, r, id) == [used |-> TRUE, left |-> l, right |-> r, id |-> id]
Empty == [used |-> FALSE, left |-> 0, right |-> 0, id |-> 0]

\* A vocabulary of the byte tokens 0 and 1, the merged token 01 and a further
\* token 11; the last two are added tokens.  Beyond what the sections hold there
\* is more of the same.
Valid ==
  [at |-> "there", size |-> 520, magic |-> TRUE, profile |-> 1, vocabCount |-> 4,
   addedCount |-> 2, slotsLog2 |-> 1, nameLen |-> 4,
   sec |-> [offsets |-> Place(192, 20), blob |-> Place(256, 6), pairs |-> Place(320, 32),
            bytes |-> Place(384, 8), added |-> Place(448, 32), meta |-> Place(512, 8)],
   tokOff |-> <<0, 1, 2, 4, 6, 6, 6, 6>>, blob |-> <<0, 1, 0, 1, 1, 1>> \o [i \in 1..26 |-> 0],
   pairs |-> <<P(0, 1, 2), Empty>>, byteId |-> <<0, 1, 2, 2, 2, 2, 2, 2>>,
   added |-> <<[id |-> 2, offset |-> 2, len |-> 2], [id |-> 3, offset |-> 4, len |-> 2]>>]

\* The files that differ from f in one thing.
Changed(f) ==
       {[f EXCEPT !.size = v] : v \in {191, 515, 519}}
  \cup {[f EXCEPT !.magic = FALSE], [f EXCEPT !.profile = 0]}
  \cup {[f EXCEPT !.vocabCount = v] : v \in {0, 3, 5, 6}}
  \cup {[f EXCEPT !.addedCount = v] : v \in {0, 1, 3, 5}}
  \cup {[f EXCEPT !.slotsLog2 = v] : v \in {0, 2, 4}}
  \cup {[f EXCEPT !.nameLen = v] : v \in {0, 5}}
  \cup {[f EXCEPT !.sec[x].off = v]
        : x \in Section, v \in {128, 256, 260, Word - 64}}
  \cup {[f EXCEPT !.sec[x].size = v] : x \in Section, v \in {0, 16, 24, Word - 192}}
  \cup {[f EXCEPT !.tokOff[i] = v] : i \in 1..5, v \in {3, 7}}
  \cup {[f EXCEPT !.blob[i] = 1 - @] : i \in 1..4}
  \cup {[f EXCEPT !.pairs[i] = v] : i \in 1..2, v \in {P(4, 0, 2), P(0, 4, 2), P(0, 0, 4), Empty}}
  \cup {[f EXCEPT !.byteId[i] = v] : i \in 1..2, v \in {1, 2, 4}}
  \cup {[f EXCEPT !.added[i].id = v] : i \in 1..2, v \in {2, 3, 4}}
  \cup {[f EXCEPT !.added[i].offset = v] : i \in 1..2, v \in {3}}
  \cup {[f EXCEPT !.added[i].len = v] : i \in 1..2, v \in {0, 1, 3}}

\* Id 2 is not used, and no token is an added one.
Sparse == [Valid EXCEPT !.addedCount = 0, !.sec.added.size = 0, !.tokOff[4] = 2]

AllFiles == {Valid, Sparse} \cup UNION {{f} \cup Changed(f) : f \in Changed(Valid)}
  \cup {[Valid EXCEPT !.at = x] : x \in {"no path", "nowhere"}}

----------------------------------------------------------------------------

Texts(chars, lengths) == UNION {[1..l -> chars] : l \in lengths}
Line(cmd, arg, threads, text) == [cmd |-> cmd, file |-> arg, threads |-> threads, text |-> text]

\* Numbers up to one that wraps to an id, and one that does not fit a word.
Numbers == Texts({"1", " ", "-", "x"}, 0..4)
             \cup {<<"2">>, <<"1", " ", "2">>, <<"-", "9", "2">>, <<"9", "0">>, <<"9", "9", "9">>, <<"2", " ", "9">>}

Lines ==
       {Line(cmd, TRUE, 1, <<>>) : cmd \in {"api", "help", "info", "census", "witness"}}
  \cup {Line(cmd, FALSE, 1, <<>>) : cmd \in {"bench", "census", "witness"}}
  \cup {Line(cmd, f, 1, x) : cmd \in {"encode", "count"}, f \in BOOLEAN, x \in Texts({"x"}, 0..4)}
  \cup {Line("decode", FALSE, 1, x) : x \in Numbers}
  \cup {Line("bench", TRUE, threads, x)
        : threads \in {0, 2, 4}, x \in Texts({"x", "\n"}, {0, 1, 4}) \cup
            {y \in Texts({"x", "\n"}, {7}) : y[3] = "\n" \/ y[4] = "\n"}}

\* Every file is opened by a program that does nothing else; the commands find
\* a valid one, none, or one that is refused.
Few(f) == f \in {Valid, Sparse, [Valid EXCEPT !.size = 191]} \/ f.at = "nowhere"
MCInit ==
  /\ LoaderInit
  /\ args \in IF Few(file) THEN Lines ELSE {Line("api", TRUE, 1, <<>>)}
  /\ MainInit
MCSpec == MCInit /\ [][Next]_vars /\ Fairness
=============================================================================
