------------------------------- MODULE Scanner -------------------------------
(***************************************************************************)
(* bp_scan_gpt4 of bp_scan.c: the hand-compiled split regex.  The text is  *)
(* cut, from left to right, into pretokens; the alternatives A1..A7 of the *)
(* regex are tried in order at each position by looking at one or two      *)
(* characters, and the loops that extend a run take one step per           *)
(* iteration.  With simd set, the ASCII part of a letter or symbol run is  *)
(* taken by the kernels of bp_scan_avx2.c, Block bytes at a time.          *)
(***************************************************************************)
EXTENDS Utf8

CONSTANTS
  Texts,      \* the texts scanned
  Class(_),   \* bp_char_class: the classes of a codepoint
  Simds,      \* whether the kernels run: a subset of BOOLEAN
  Block       \* bytes a kernel looks at at once; 32 in the code

ASSUME TextsAssumption == Texts \subseteq Seq(Byte)
ASSUME SimdsAssumption == Simds \subseteq BOOLEAN
ASSUME BlockAssumption == Block \in Nat \ {0}

Newlines == {10, 13}

\* What the class table says of ASCII, and of what ends a line (gen_tables.py
\* 251-288); the code relies on it wherever it looks at a byte instead.
ASSUME ClassAssumption ==
  /\ \A b \in 0..127 :
       /\ "L" \in Class(b) <=> b \in 65..90 \cup 97..122
       /\ "N" \in Class(b) <=> b \in 48..57
       /\ "S" \in Class(b) <=> b \in 9..13 \cup {32}
  /\ \A cp \in Codepoint : "NL" \in Class(cp) <=> cp \in Newlines

VARIABLES
  t,      \* the text
  simd,   \* the kernels are used
  pc,     \* the loop the scanner is in
  i,      \* where the span under way begins
  j,      \* how far it reaches: the position after its last byte
  cut,    \* last_nl_end: the position after the last CR or LF, 0 if none
  last,   \* last_cp_start: where the last whitespace character starts
  ncp,    \* whitespace characters walked over
  spans,  \* the spans handed to bp_bpe_pretoken, as <<begin, end>>
  rc      \* "ok", or "nomem" when bp_bpe_pretoken failed

vars == <<t, simd, pc, i, j, cut, last, ncp, spans, rc>>

Quote == 39
Space == 32

Within(k) == k <= Len(t)

\* Class 0 for a malformed byte.
ClassAt(k) == LET c == Decode(t, k).cp IN IF c = NoCp THEN {} ELSE Class(c)

After(k) == k + Decode(t, k).adv

IsLetter(k) == "L" \in ClassAt(k)
IsNumber(k) == "N" \in ClassAt(k)
IsSymbol(k) == ClassAt(k) \cap {"L", "N", "S"} = {}

\* An ASCII letter at k, by its lower case value.
Letter(k, lower) == Within(k) /\ t[k] \in {lower, lower - 32}

\* try_contraction: the length of the contraction at the apostrophe i, or 0.
ContractionLen ==
  IF \E x \in {115, 116, 109, 100} : Letter(i + 1, x) THEN 2               \* s t m d
  ELSE IF Within(i + 2) /\ t[i + 1] = 197 /\ t[i + 2] = 191 THEN 3   \* U+017F
  ELSE IF \E p \in {<<114, 101>>, <<118, 101>>, <<108, 108>>} :            \* re ve ll
            Letter(i + 1, p[1]) /\ Letter(i + 2, p[2]) THEN 3
  ELSE 0

----------------------------------------------------------------------------
(* The alternatives, each tried when those before it do not apply.         *)

Init ==
  /\ t \in Texts /\ simd \in Simds
  /\ pc = "top" /\ i = 1 /\ j = 1
  /\ cut = 0 /\ last = 0 /\ ncp = 0
  /\ spans = <<>> /\ rc = "ok"

IsContraction == t[i] = Quote /\ ContractionLen > 0

IsPrefixedWord ==
  /\ ClassAt(i) \cap {"L", "N", "NL"} = {}
  /\ Within(After(i)) /\ IsLetter(After(i))

IsSpacedSymbols == t[i] = Space /\ Within(After(i)) /\ IsSymbol(After(i))

\* A span that begins at i and goes on in loop p from position k.
Begin(p, k) ==
  /\ pc = "top" /\ Within(i)
  /\ pc' = p /\ j' = k
  /\ UNCHANGED <<t, simd, i, spans, rc>>

NoRun == UNCHANGED <<cut, last, ncp>>

Contraction == IsContraction /\ Begin("emit", i + ContractionLen) /\ NoRun

Word == ~IsContraction /\ IsLetter(i) /\ Begin("letters", After(i)) /\ NoRun

PrefixedWord ==
  /\ ~IsContraction /\ IsPrefixedWord
  /\ Begin("letters", After(After(i))) /\ NoRun

Number ==
  /\ IsNumber(i) /\ ~IsLetter(i)
  /\ Begin("emit", After(i)) /\ NoRun

SpacedSymbols ==
  /\ ~IsPrefixedWord /\ IsSpacedSymbols
  /\ Begin("symbols", After(After(i))) /\ NoRun

Symbols ==
  /\ ~IsContraction /\ ~IsPrefixedWord /\ IsSymbol(i)
  /\ Begin("symbols", After(i)) /\ NoRun

Whitespace ==
  /\ ClassAt(i) \cap {"L", "N"} = {} /\ "S" \in ClassAt(i)
  /\ ~IsPrefixedWord /\ ~IsSpacedSymbols
  /\ Begin("spaces", i)
  /\ cut' = 0 /\ last' = i /\ ncp' = 0

Top ==
  /\ pc = "top" /\ Within(i)
  /\ \/ Contraction \/ Word \/ PrefixedWord \/ Number
     \/ SpacedSymbols \/ Symbols \/ Whitespace

----------------------------------------------------------------------------
(* The loops: run_letters, run_symbols, the CR/LF run of A4, the \s run.   *)

\* The scanner goes to loop p with its span reaching to k.
Goto(p, k) == pc' = p /\ j' = k /\ UNCHANGED <<t, simd, i, spans, rc>>

\* There is a full block at k.
BlockFits(k) == k + Block - 1 <= Len(t)

\* The bytes the kernels take, told by value: the class table plays no part.
AsciiLetter(k) == t[k] \in 97..122 \/ t[k] \in 65..90

\* Mutant: the kernel's test of whitespace is missing.
AsciiSymbolOrSpace(k) == t[k] < 128 /\ ~AsciiLetter(k) /\ t[k] \notin 48..57

AsciiSymbol(k) == t[k] < 128 /\ ~AsciiLetter(k) /\ t[k] \notin 48..57 \cup 9..13 \cup {32}

\* Mutant: after a kernel the loop always goes on.
AfterKernelLoops(run, end, k) == run

\* After a kernel: at a non-ASCII byte the loop goes on, anywhere else it ends.
AfterKernel(run, end, k) == IF Within(k) /\ t[k] >= 128 THEN run ELSE end

\* A run of letters or symbols, and the kernel for its ASCII bytes.  Good is the
\* class of the run, Ascii that of its kernel; end is where the scanner goes on.
Run(run, kernel, end, Good(_), Ascii(_)) ==
  \/ /\ pc = run /\ ~Within(j)
     /\ Goto(end, j)
  \/ /\ pc = run /\ Within(j) /\ t[j] < 128 /\ simd
     /\ Goto(kernel, j)
  \/ /\ pc = run /\ Within(j) /\ (t[j] >= 128 \/ ~simd)
     /\ IF Good(j) THEN Goto(run, After(j)) ELSE Goto(end, j)
  \/ /\ pc = kernel /\ BlockFits(j)
     /\ \A x \in j..(j + Block - 1) : Ascii(x)
     /\ Goto(kernel, j + Block)
  \/ /\ pc = kernel /\ BlockFits(j)
     /\ \E k \in j..(j + Block - 1) :        \* the first byte the mask rejects
          /\ ~Ascii(k) /\ \A x \in j..(k - 1) : Ascii(x)
          /\ Goto(AfterKernel(run, end, k), k)
  \/ /\ pc = kernel /\ ~BlockFits(j)
     /\ IF Within(j) /\ Ascii(j)
        THEN Goto(kernel, j + 1)
        ELSE Goto(AfterKernel(run, end, j), j)

Letters == Run("letters", "letter_kernel", "emit", IsLetter, AsciiLetter) /\ NoRun

\* Only run_symbols is followed by a run of CR and LF.
SymbolRun == Run("symbols", "symbol_kernel", "newlines", IsSymbol, AsciiSymbol) /\ NoRun

NewlineRun ==
  /\ pc = "newlines" /\ NoRun
  /\ IF Within(j) /\ t[j] \in Newlines THEN Goto("newlines", j + 1) ELSE Goto("emit", j)

MoreSpace == Within(j) /\ "S" \in ClassAt(j)

SpaceRun ==
  /\ pc = "spaces" /\ MoreSpace
  /\ last' = j /\ ncp' = ncp + 1
  /\ cut' = IF "NL" \in ClassAt(j) THEN After(j) ELSE cut
  /\ Goto("spaces", After(j))

\* Mutant: a single space is given back too.
SpaceEndAlways == IF cut # 0 THEN cut ELSE IF ~Within(j) THEN j ELSE last

\* A5 the last newline, A6 the end of the text or give-back, A7 fallback.
SpaceEnd ==
  IF cut # 0 THEN cut
  ELSE IF ~Within(j) THEN j
  ELSE IF ncp >= 2 THEN last ELSE j

SpaceStop ==
  /\ pc = "spaces" /\ ~MoreSpace
  /\ Goto("emit", SpaceEnd) /\ NoRun

----------------------------------------------------------------------------
(* EMIT: bp_bpe_pretoken may run out of memory, which ends the scan.       *)

Emit ==
  /\ pc = "emit"
  /\ spans' = Append(spans, <<i, j>>)
  /\ i' = j /\ pc' = "top"
  /\ UNCHANGED <<t, simd, j, cut, last, ncp, rc>>

EmitFails ==
  /\ pc = "emit"
  /\ rc' = "nomem" /\ pc' = "done"
  /\ UNCHANGED <<t, simd, i, j, cut, last, ncp, spans>>

Return ==
  /\ pc = "top" /\ ~Within(i)
  /\ pc' = "done"
  /\ UNCHANGED <<t, simd, i, j, cut, last, ncp, spans, rc>>

Loops == Letters \/ SymbolRun \/ NewlineRun \/ SpaceRun \/ SpaceStop

Next == Top \/ Loops \/ Emit \/ EmitFails \/ Return

Spec == Init /\ [][Next]_vars /\ WF_vars(Next)

----------------------------------------------------------------------------

TypeOK ==
  /\ simd \in Simds
  /\ pc \in {"top", "letters", "letter_kernel", "symbols", "symbol_kernel", "newlines",
             "spaces", "emit", "done"}
  /\ i \in 1..(Len(t) + 1) /\ j \in 1..(Len(t) + 1)
  /\ cut \in 0..(Len(t) + 1) /\ last \in 0..Len(t) /\ ncp \in 0..Len(t)
  /\ rc \in {"ok", "nomem"}

\* The spans are not empty, each begins where the one before it ended, and a
\* scan that succeeds has covered the text: no byte is dropped or encoded
\* twice.
Partition ==
  /\ \A k \in 1..Len(spans) :
       /\ spans[k][1] < spans[k][2]
       /\ spans[k][1] = IF k = 1 THEN 1 ELSE spans[k - 1][2]
  /\ i = IF spans = <<>> THEN 1 ELSE spans[Len(spans)][2]
  /\ pc = "done" /\ rc = "ok" => i = Len(t) + 1
=============================================================================
