----------------------------- MODULE SplitRegex -----------------------------
(***************************************************************************)
(* The split regex as docs/FORMAT.md gives it, under the semantics of a    *)
(* backtracking engine.  A pattern is a function: from the position it is  *)
(* started at to the positions it can end at, in the order in which the    *)
(* engine tries them; the match is the first.  Against it the              *)
(* hand-compiled Scanner is checked.                                       *)
(***************************************************************************)
EXTENDS Scanner, SequencesExt

Place == 1..Len(t)
Position == 1..(Len(t) + 1)

\* A character at one of the places S.
One(S) == [k \in Position |-> IF k \in S THEN <<After(k)>> ELSE <<>>]

Or(p, q) == [k \in DOMAIN p |-> p[k] \o q[k]]

\* Where p ends when it is started at each of these positions in turn.
Onward(p, from) == FlattenSeq([x \in DOMAIN from |-> p[from[x]]])

Then(p, q) == [k \in DOMAIN p |-> Onward(q, p[k])]
Star(p) == LET star[k \in DOMAIN p] == Onward(star, p[k]) \o <<k>> IN star
NotBefore(p) == [k \in DOMAIN p |-> IF p[k] = <<>> THEN <<k>> ELSE <<>>]
Opt(p) == Or(p, [k \in DOMAIN p |-> <<k>>])
Plus(p) == Then(p, Star(p))

\* The places of the characters that the regex names.
Cp(k) == Decode(t, k).cp
OfClass(c) == {k \in Place : c \in ClassAt(k)}
SymbolAt == {k \in Place : ClassAt(k) \cap {"S", "L", "N"} = {}}
NewlineAt == {k \in Place : Cp(k) \in Newlines}
PrefixAt == {k \in Place : Cp(k) \notin Newlines /\ ClassAt(k) \cap {"L", "N"} = {}}

Char(x) == One({k \in Place : Cp(k) = x})

\* A letter by its lower case, which U+017F has in common with s.
AnyCase(x) == One({k \in Place : Cp(k) \in {x, x - 32} \/ (x = 115 /\ Cp(k) = 383)})

\* (?i:'s|'t|'re|'ve|'m|'ll|'d)
A1 ==
  Then(Char(Quote),
    Or(AnyCase(115), Or(AnyCase(116),
    Or(Then(AnyCase(114), AnyCase(101)), Or(Then(AnyCase(118), AnyCase(101)),
    Or(AnyCase(109), Or(Then(AnyCase(108), AnyCase(108)), AnyCase(100))))))))

\* [^\r\n\p{L}\p{N}]?\p{L}+
A2 == Then(Opt(One(PrefixAt)), Plus(One(OfClass("L"))))

\* \p{N}
A3 == One(OfClass("N"))

\*  ?[^\s\p{L}\p{N}]+[\r\n]*
A4 == Then(Opt(Char(Space)), Then(Plus(One(SymbolAt)), Star(One(NewlineAt))))

\* \s*[\r\n]+
A5 == Then(Star(One(OfClass("S"))), Plus(One(NewlineAt)))

\* \s+(?!\S)
A6 == Then(Plus(One(OfClass("S"))), NotBefore(One(Place \ OfClass("S"))))

\* \s+
A7 == Plus(One(OfClass("S")))

Regex == Or(A1, Or(A2, Or(A3, Or(A4, Or(A5, Or(A6, A7))))))

----------------------------------------------------------------------------

\* Every pretoken is the first match of the regex where it starts, with the
\* kernels and without: the one- or two-character lookahead, the order of the
\* tests, the give-back of trailing whitespace and the block loops together do
\* what a backtracking engine does (bp_scan.c 122-208, bp_scan_avx2.c).
MatchesRegex ==
  pc = "top" /\ spans # <<>> =>
    LET s == spans[Len(spans)]
        ends == Regex[s[1]]
    IN ends # <<>> /\ Head(ends) = s[2]

\* "every character matches one alternative" (bp_scan.c 11): the scan ends, and
\* never by running out of alternatives.
Terminates == <>(pc = "done")
=============================================================================
