------------------------------ MODULE MCCensus ------------------------------
(***************************************************************************)
(* Census in a world of fifteen characters, where every text of a few      *)
(* characters can be tried: the encoder is normalization, the split regex  *)
(* of SplitRegex and the greedy rule of MergeRule, and a vocabulary is a   *)
(* list of merges, a token being the bytes it spells.  The properties hold *)
(* the verdicts against all those texts.                                   *)
(***************************************************************************)
EXTENDS Census, SequencesExt

\* a, s, ', 1, space, LF, no-break space, e acute, acute, angstrom sign (never
\* normal), long s, an emoji; A ring, which the angstrom sign becomes, and two
\* that share its first and its last bytes.
Alphabet == {97, 115, 39, 49, 32, 10, 160, 233, 769, 8491, 383, 128512}
World == Alphabet \cup {197, 8451, 12587}
NotNormal == {8491}
ContBytes == {128, 129, 132, 133, 152, 159, 160, 169, 171, 191}

Classes(cp) ==
  CASE cp \in {97, 115, 233, 8491, 383, 197, 12587} -> {"L"} [] cp = 49 -> {"N"} [] cp = 10 -> {"S", "NL"}
    [] cp \in {32, 160} -> {"S"} [] OTHER -> {}

Split(x) == INSTANCE SplitRegex WITH
  t <- x, simd <- FALSE, pc <- "top", i <- 1, j <- 1, cut <- 0, last <- 0, ncp <- 0,
  spans <- <<>>, rc <- "ok", Class <- Classes, Texts <- {}, Simds <- {}, Block <- 1

\* The pretokens of a text.
Pretokens(x) ==
  LET from[k \in 1..(Len(x) + 1)] ==
        IF k > Len(x) THEN {}
        ELSE LET end == Head(Split(x)!Regex[k])
             IN {SubSeq(x, k, end - 1)} \cup from[end]
  IN from[1]

Normal(w) ==
  LET from[k \in 1..(Len(w) + 1)] ==
        IF k > Len(w) THEN <<>>
        ELSE LET d == Decode(w, k)
             IN (IF d.cp = 8491 THEN EncodeCp(197) ELSE SubSeq(w, k, k + d.adv - 1)) \o from[k + d.adv]
  IN from[1]

IdOf(v, x) == IF \E k \in DOMAIN v.bytes : v.bytes[k] = x
              THEN (CHOOSE k \in DOMAIN v.bytes : v.bytes[k] = x) - 1 ELSE -1

PureIds(v, x) ==
  LET toks == Greedy(v.table, [k \in 1..Len(x) |-> <<x[k]>>])
  IN [k \in 1..Len(toks) |-> IdOf(v, toks[k])]

SegmentIds(v, w) ==
  UNION {Range(PureIds(v, p)) : p \in Pretokens(IF v.nfc THEN Normal(w) ELSE w)}

\* Added tokens, the longest at the leftmost place first, and the rest.
TextIds(v, w) ==
  LET At(k) == {a \in v.added : IsPrefix(v.bytes[a + 1], SubSeq(w, k, Len(w)))}
      from[s \in 1..(Len(w) + 1)] ==
        LET places == {k \in s..Len(w) : At(k) # {}}
        IN IF places = {} THEN SegmentIds(v, SubSeq(w, s, Len(w)))
           ELSE LET k == CHOOSE x \in places : \A y \in places : x <= y
                    a == CHOOSE x \in At(k) : \A y \in At(k) : Len(v.bytes[y + 1]) <= Len(v.bytes[x + 1])
                IN SegmentIds(v, SubSeq(w, s, k - 1)) \cup {a} \cup from[k + Len(v.bytes[a + 1])]
  IN from[1]

StealsIn(v, b, x, y) ==
  /\ {<< <<b>>, <<x>> >>, << <<x>>, <<y>> >>} \subseteq DOMAIN v.table
  /\ v.table[<< <<x>>, <<y>> >>].rank < v.table[<< <<b>>, <<x>> >>].rank

AffixSets(deep) ==
  {<<>>, <<97>>, <<32>>, <<195>>, <<169>>}
    \cup IF deep THEN {<<10>>, <<39>>, <<115>>, <<49>>, <<195, 169>>, <<194, 160>>, <<240, 159, 152>>, <<128>>} ELSE {}

----------------------------------------------------------------------------
(* The vocabularies.                                                       *)

Strings(cps, lengths) ==
  {FlattenSeq([k \in DOMAIN s |-> EncodeCp(s[k])]) : s \in UNION {[1..l -> cps] : l \in lengths}}

Vocabulary(bytes, merges, added, nfc) ==
  [bytes |-> bytes, added |-> added, nfc |-> nfc,
   table |-> [p \in Range(merges) |->
     [rank |-> CHOOSE k \in DOMAIN merges : merges[k] = p, id |-> p[1] \o p[2]]]]

\* Merged from its bytes from left to right.
Chain(x) == [k \in 1..(Len(x) - 1) |-> <<SubSeq(x, 1, k), <<x[k + 1]>> >>]

Pieces(x) == {SubSeq(x, k, l) : k \in 1..Len(x), l \in 1..Len(x)} \ {<<>>}
Malformed2 == {<<195, 97>>, <<169, 195, 195>>, <<255>>, <<97, 193>>, <<240, 159, 97>>, <<129, 129>>, <<128, 128, 128, 128>>}

Targets ==
  UNION {Pieces(x) : x \in Strings(Alphabet, {2}) \cup Strings({39, 115, 97, 32, 10, 233, 769}, {3})}
    \cup {<<39>> \o x : x \in Strings({39, 115, 97, 383}, {3})} \cup Malformed2

\* A vocabulary that does not normalize differs for one character only.
Chains == {Vocabulary(<<x>>, Chain(x), {}, TRUE) : x \in Targets}
            \cup {Vocabulary(<<x>>, Chain(x), {}, FALSE)
                  : x \in {y \in Targets : Range(y) \cap {226, 132, 171} # {}}}

\* Every order of three merges of a and s.
Merged(m) == {<<97>>, <<115>>} \cup {p[1] \o p[2] : p \in Range(m)}
Grown(ms) == UNION {{Append(m, p) : p \in {q \in Merged(m) \X Merged(m) :
                       q \notin Range(m) /\ Len(q[1] \o q[2]) <= 3}} : m \in ms}
Orders == {Vocabulary([k \in DOMAIN m |-> m[k][1] \o m[k][2]], m, {}, TRUE)
           : m \in Grown(Grown(Grown({<<>>})))}

\* Fragments whose neighbours merge with them, and with others before that.
Thieves ==
  {Vocabulary(<< <<195>>, <<>>, <<49>>, <<169>>, <<159, 152>>, <<39, 97>>, <<97, 10>> >> \o tail,
              m \o Chain(<<159, 152>>) \o Chain(<<39, 97>>) \o Chain(<<97, 10>>), {2}, TRUE)
   : m \in {<<>>, << << <<195>>, <<169>> >> >>,
            << << <<169>>, <<97>> >>, << <<195>>, <<169>> >>, << <<195>>, <<133>> >> >>},
     tail \in {<<>>, << <<>> >>}}

VocabularySet == Chains \cup Orders \cup Thieves
Job(op, deep, limit, id) == [op |-> op, deep |-> deep, limit |-> limit, id |-> id]
JobSet == {Job("run", FALSE, 0, 0), Job("run", TRUE, 4, 0), Job("witness", TRUE, 0, 0),
           Job("witness", TRUE, 0, 8)}

\* All jobs for the vocabularies of seven tokens.
MCInit ==
  /\ Init
  /\ Len(vocab.bytes) <= 3 => job = Job("run", FALSE, 0, 0)
MCSpec == MCInit /\ [][Next]_vars

----------------------------------------------------------------------------

\* The texts that are tried, as the splitter sees them.
Texts == Strings(Alphabet, 0..3) \cup Strings({97, 115}, {4, 5})
           \cup Strings({39, 115, 97, 32, 10, 383}, {4}) \cup Strings({39, 115, 97, 383}, {5})
NormalTexts == {Normal(x) : x \in Texts}
Holds(x, y) == \E k \in 1..(Len(x) - Len(y) + 1) : SubSeq(x, k, k + Len(y) - 1) = y

Reachable(v, id) ==
  LET b == v.bytes[id + 1]
  IN \E x \in IF v.nfc THEN NormalTexts ELSE Texts :
       Holds(x, b) /\ \E p \in Pretokens(x) : Holds(p, b) /\ id \in Range(PureIds(v, p))

\* alignment_units gives up at more characters than MaxUnits.
Units(x) == Cardinality({k \in DOMAIN x : k = 1 \/ ~IsCont(x[k])})

\* No text makes the encoder emit a token that the census calls impossible: the
\* boundary lemma, the relaxed pretoken language, the alignments and the
\* contraction rule each err on the side of "possible" (CENSUS.md 62-64), for a
\* vocabulary that normalizes, tokens of up to MaxUnits characters and an encoder
\* that has had memory.
ImpossibleSound ==
  pc = "report" /\ r.verdict = "impossible" /\ vocab.nfc /\ ~oom /\ Units(Spelled(t)) <= MaxUnits =>
    ~Reachable(vocab, t)

\* "All proofs are sound by construction [...] so a token is never called
\* impossible without the property actually holding" (CENSUS.md 62-64), and "The
\* census applies to any `.bpv` vocabulary" (134-135).
ProofsSound ==
  pc = "report" /\ r.verdict = "impossible" /\ ~oom /\ Units(Spelled(t)) <= MaxUnits =>
    ~Reachable(vocab, t)

\* What MergeOrderSound of CensusProofs asks of the encoder, for texts of up to two
\* characters; a token is the bytes it spells.
Tokens(v) == {<<b>> : b \in Byte} \cup {v.table[p].id : p \in DOMAIN v.table}
FewTexts == Strings({97, 39, 32, 233, 8491}, 0..2)
ASSUME EncoderAssumption ==
  \A v \in Vocabs :
    /\ IsGreedy(v, Tokens(v), v.table, [b \in Byte |-> <<b>>], [x \in Tokens(v) |-> x],
                [x \in Tokens(v) |-> IdOf(v, x)], FewTexts)
    /\ FromPretokens(v, FewTexts, Strings(World, 0..2))
=============================================================================
