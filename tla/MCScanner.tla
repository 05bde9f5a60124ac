------------------------------ MODULE MCScanner ------------------------------
(***************************************************************************)
(* An instance of SplitRegex: texts of characters given by their UTF-8     *)
(* bytes and classed by the generated table of UcTables, cut by the scalar *)
(* loops and by kernels of Block bytes.                                    *)
(***************************************************************************)
EXTENDS SplitRegex, UcTables

\* One character for each thing the scanner tells apart.
AllChars ==
  {<<Quote>>, <<115>>, <<82>>, <<101>>, <<Space>>, <<9>>, <<10>>, <<49>>, <<33>>,
   <<197, 191>>, <<195, 169>>, <<194, 160>>, <<197>>}

\* The characters of a run with its kernel: letters, symbols, a non-ASCII of each.
RunChars == {<<97>>, <<33>>, <<195, 169>>, <<226, 130, 172>>, <<13>>}

\* Whitespace of every kind, and what may follow it.
SpaceChars == {<<Space>>, <<9>>, <<10>>, <<194, 160>>, <<97>>, <<33>>}

\* What the class table is made of.  Only classes are looked up here.
Probed ==
  [cp \in 65..90 \cup 97..122 \cup {233, 383} |-> {"L"}] @@ [cp \in 48..57 |-> {"N"}]
    @@ [cp \in {10, 13} |-> {"S", "NL"}] @@ [cp \in 9..12 \cup {32, 160} |-> {"S"}]
None == <<>>
NoneExcluded == {}

TextsOf(chars, most) == {FlattenSeq(s) : s \in UNION {[1..n -> chars] : n \in 0..most}}

\* Four characters for every mixture; five for the runs a kernel takes, in blocks
\* of two bytes, and for whitespace.
Scanned == TextsOf(AllChars, 4) \cup TextsOf(RunChars, 5) \cup TextsOf(SpaceChars, 5)
=============================================================================
