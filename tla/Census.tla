------------------------------- MODULE Census -------------------------------
(***************************************************************************)
(* The vocabulary reachability census of bp_census.c.  Each token id in    *)
(* turn is put through the tests of census_token, in their order, until    *)
(* one gives a verdict; bp_census_run encodes its witness once more,       *)
(* counts it and writes its record.  A stage that searches is the set of   *)
(* texts it tries: which of those that succeed comes first is left open.   *)
(* The encoder is the operator Ids, the merge engines are Pure.            *)
(***************************************************************************)
EXTENDS Utf8, MergeRule, FiniteSets

CONSTANTS
  Vocabs,      \* what vocabularies hold: bytes of the ids, added tokens, the NFC flag
  Jobs,        \* the calls of bp_census_run and bp_census_witness
  Scalars,     \* the codepoints there are
  ClassOf(_),  \* bp_char_class
  QcNo,        \* the codepoints of quick check "no" (bp_nfc_qc)
  Ids(_, _),   \* bp_encode: the set of ids of a text
  Pure(_, _),  \* bp_bpe_pretoken: the ids of a string
  Steals(_, _, _, _),  \* bp_pair_lookup: whether of three bytes the last two merge first
  MaxUnits,    \* 260
  WMax,        \* 320
  Conts,       \* 0x80..0xBF, the continuation bytes tried where all are
  Affixes(_)   \* AFFIX_DEEP and AFFIX_QUICK

ASSUME JobsAssumption ==
  /\ Jobs \subseteq [op : {"run", "witness"}, deep : BOOLEAN, limit : Nat, id : Nat]
  /\ \A v \in Vocabs : v.bytes \in Seq(Seq(Byte)) /\ v.added \subseteq Nat /\ v.nfc \in BOOLEAN
  /\ QcNo \subseteq Scalars

VARIABLES
  vocab, job,
  pc,       \* "begin", "next", the test that is next, "report", "done"
  t,        \* the id under way
  r,        \* cres: verdict, reason, witness
  oom,      \* an allocation of the encoder has failed
  counts, reasons,
  refuted,  \* reverify_failed
  json,     \* the records written: id, verdict, and whether a comma follows
  rc

vars == <<vocab, job, pc, t, r, oom, counts, reasons, refuted, json, rc>>

Verdicts == {"added", "self", "context", "impossible", "unresolved"}
Reasons == {"merge-order", "invalid-utf8", "pretoken-shape", "contraction", "nfc-excluded"}
Fresh == [verdict |-> "none", reason |-> "none", witness |-> <<>>]

Init ==
  /\ vocab \in Vocabs /\ job \in Jobs /\ pc = "begin" /\ t = 0 /\ r = Fresh
  /\ counts = [v \in Verdicts |-> 0] /\ reasons = [x \in Reasons |-> 0]
  /\ oom = FALSE /\ refuted = 0 /\ json = <<>> /\ rc = 0

----------------------------------------------------------------------------
(* The prover: what the bytes of a token can be characters of.             *)

IsCont(b) == b \in 128..191

\* utf8_len_from_lead; 0 for a byte that leads nothing.
LeadLen(b) ==
  CASE b < 128 -> 1 [] b \in 194..223 -> 2 [] b \in 224..239 -> 3 [] b \in 240..244 -> 4
    [] OTHER -> 0

\* cp_unit
UnitOf(cp) ==
  CASE cp = 32 -> "SP" [] cp \in {10, 13} -> "SNL"
    [] OTHER -> CASE "L" \in ClassOf(cp) -> "L" [] "N" \in ClassOf(cp) -> "N"
                  [] "S" \in ClassOf(cp) -> "SO" [] OTHER -> "O"

\* partial_prefix_bits, partial_suffix_bits: the characters that end with the
\* continuation bytes p, or begin with p, and have other bytes too.
EndingWith(p) ==
  {cp \in Scalars : LET e == EncodeCp(cp)
                    IN Len(e) > Len(p) /\ SubSeq(e, Len(e) - Len(p) + 1, Len(e)) = p}
BeginningWith(p) ==
  {cp \in Scalars : LET e == EncodeCp(cp) IN Len(e) > Len(p) /\ SubSeq(e, 1, Len(p)) = p}

\* alignment_units, for a token whose first k bytes end a character that began
\* before it: the characters each unit may be; none if there is no alignment.
Alignment(b, k) ==
  LET from[i \in 1..(Len(b) + 1)] ==
        IF i > Len(b) THEN <<>>
        ELSE LET need == LeadLen(b[i]) d == Decode(b, i)
             IN IF need > 0 /\ i + need - 1 <= Len(b)
                THEN IF d.cp # NoCp /\ d.adv = need THEN <<{d.cp}>> \o from[i + need] ELSE <<{}>>
                ELSE IF need > 0 THEN <<BeginningWith(SubSeq(b, i, Len(b)))>> ELSE <<{}>>
  IN IF k = 0 THEN from[1]
     ELSE IF \A i \in 1..k : IsCont(b[i]) THEN <<EndingWith(SubSeq(b, 1, k))>> \o from[k + 1]
     ELSE <<{}>>

IsAlignment(a) == Len(a) \in 1..MaxUnits /\ \A i \in 1..Len(a) : a[i] # {}

\* has_qcno: one of its characters never occurs in normalized text.
NeverNormal(a) == \E i \in 1..Len(a) : a[i] \subseteq QcNo

\* fits_pretoken_language: a superset of what is in a pretoken.
Fits(a) ==
  LET Can(i, units) == \E cp \in a[i] : UnitOf(cp) \in units
      All(i, units) == \A h \in i..Len(a) : Can(h, units)
      \* The position after the run of such units from i on.
      Past(i, units) == CHOOSE h \in i..(Len(a) + 1) :
        (\A g \in i..(h - 1) : Can(g, units)) /\ (h <= Len(a) => ~Can(h, units))
      from == IF Can(1, {"SP"}) THEN 2 ELSE 1
      symbols == Past(from, {"O"})
  IN \/ All(1, {"L"}) \/ All(1, {"SP", "SO", "SNL"})
     \/ Len(a) = 1 /\ Can(1, {"N", "SP", "SO", "O"})
     \/ Len(a) > 1 /\ Can(1, {"SP", "SO", "O"}) /\ All(2, {"L"})
     \/ Past(symbols, {"SNL"}) > Len(a) /\ (symbols > from \/ Len(a) = 1)

\* blocked_by_contraction: 's, 't, 'm, 'd, 're, 've, 'll and more letters.
Lower(b) == IF b \in 64..95 THEN b + 32 ELSE b
Contraction(b) ==
  CASE Len(b) < 2 \/ b[1] # 39 -> 0
    [] Len(b) >= 2 /\ b[1] = 39 /\ Lower(b[2]) \in {115, 116, 109, 100} -> 2
    [] OTHER -> IF Len(b) >= 3 /\ (\/ <<b[2], b[3]>> = <<197, 191>>
                                   \/ <<Lower(b[2]), Lower(b[3])>>
                                        \in {<<114, 101>>, <<118, 101>>, <<108, 108>>})
                THEN 3 ELSE 0

\* The characters from position i on are complete, and letters.
Letters(b, i) ==
  LET from[h \in i..(Len(b) + 1)] ==
        h > Len(b) \/ LET d == Decode(b, h)
                      IN d.cp # NoCp /\ "L" \in ClassOf(d.cp) /\ from[h + d.adv]
  IN from[i]

Blocked(b) == Contraction(b) \in 1..(Len(b) - 1) /\ Letters(b, Contraction(b) + 1)

\* Mutant: the token is read from a character's first byte only.
LeadsWhole(b) == {0}
\* How many bytes of a character a token can begin with that began before it.
Leads(b) == {k \in 0..3 : k < Len(b)}

\* prove_impossible: "none" is no proof.
Proof(b) ==
  LET aligned == {a \in {Alignment(b, k) : k \in Leads(b)} : IsAlignment(a)}
      fitting == {a \in aligned : Fits(a)}
  IN CASE Blocked(b) -> "contraction"
       [] ~Blocked(b) /\ \E a \in fitting : ~NeverNormal(a) -> "none"
       [] ~Blocked(b) /\ fitting # {} /\ \A a \in fitting : NeverNormal(a) -> "nfc-excluded"
       [] OTHER -> IF Len(b) <= 3 /\ \A i \in 1..Len(b) : IsCont(b[i]) THEN "none"
                   ELSE IF aligned # {} THEN "pretoken-shape" ELSE "invalid-utf8"

----------------------------------------------------------------------------
(* The texts a search puts around the token, as a prefix and a suffix.     *)

Many(b, n) == [i \in 1..n |-> b]

\* utf8_valid
Valid(w) ==
  LET from[i \in 1..(Len(w) + 1)] ==
        i > Len(w) \/ LET d == Decode(w, i) IN d.cp \in Scalars /\ from[i + d.adv]
  IN from[1]

Pads == {128, 144, 160, 177, 143, 159}
GlueLeads == {194, 195, 208, 224, 225, 228, 234, 237, 240, 241, 243, 244}

\* Where the last character of a token begins that is not complete.
LastPart(b, k) ==
  LET from[i \in (k + 1)..(Len(b) + 1)] ==
        IF i > Len(b) \/ LeadLen(b[i]) = 0 \/ i + LeadLen(b[i]) - 1 > Len(b) THEN i
        ELSE from[i + LeadLen(b[i])]
  IN from[k + 1]

\* try_glue: the characters at both ends are completed, or the token is put inside
\* of one.
Glue(b) ==
  LET n == Len(b)
      Gluable(k) ==
        /\ \A i \in 1..k : IsCont(b[i])
        /\ LastPart(b, k) <= n => /\ LeadLen(b[LastPart(b, k)]) > 0
                             /\ \A i \in (LastPart(b, k) + 1)..n : IsCont(b[i])
      Missing(k) == IF LastPart(b, k) > n THEN 0 ELSE LastPart(b, k) + LeadLen(b[LastPart(b, k)]) - 1 - n
      Heads(k) ==
        IF k = 0 THEN {<<>>}
        ELSE {<<lead>> \o Many(pad, LeadLen(lead) - 1 - k)
              : lead \in {x \in GlueLeads : LeadLen(x) > k}, pad \in Pads}
      Inside(off, pads) ==
        {<<<<lead>> \o Many(pad, off - 1), Many(pad, LeadLen(lead) - off - n)>>
         : lead \in {x \in GlueLeads \ {194, 195, 208, 234} : LeadLen(x) >= off + n}, pad \in pads}
  IN   (UNION {Heads(k) \X {Many(pad, Missing(k)) : pad \in Pads}
               : k \in {x \in 0..3 : x <= n /\ Gluable(x)}} \ {<<<<>>, <<>>>>})
     \cup IF n <= 2 /\ \A i \in 1..n : IsCont(b[i])
          THEN UNION {Inside(off, {128, 144, 160, 177}) : off \in 1..(4 - n)} ELSE {}

\* A character that follows, from its first byte.
Follower(b) ==
  <<b>> \o Many(CASE b = 224 -> 160 [] b = 240 -> 144 [] OTHER -> 128, LeadLen(b) - 1)

\* try_fragment_exhaustive: all ways to complete a short fragment, with and
\* without a second character, and all characters around continuation bytes.
Fragments(b) ==
  LET n == Len(b)
      missing == LeadLen(b[1]) - n
      Firsts == {y \in 32..244 : LeadLen(y) > 0}
      Around(lead) ==
        {<<<<lead>> \o SubSeq(x, 1, off - 1), SubSeq(x, off, Len(x))>>
         : x \in [1..(LeadLen(lead) - 1 - n) -> Conts], off \in 1..(LeadLen(lead) - n)}
  IN IF n > 3 THEN {}
     ELSE (IF missing \in {1, 2} THEN {<<>>} \X [1..missing -> Conts] ELSE {})
       \cup (IF missing = 1
             THEN {<<<<>>, <<x>> \o Follower(y)>> : x \in Conts, y \in Firsts \ {32}} ELSE {})
       \cup (IF n = 1 /\ missing = 1
             THEN {<<<<>>, <<x[1]>> \o Follower(x[2])>>
                   : x \in {p \in Conts \X Firsts : Steals(vocab, b[1], p[1], p[2])}} ELSE {})
       \cup (IF \A i \in 1..n : IsCont(b[i])
             THEN UNION {Around(lead) : lead \in {x \in 194..244 : LeadLen(x) \in (n + 1)..(n + 3)}}
             ELSE {})

----------------------------------------------------------------------------
(* census_token.                                                           *)

Spelled(id) == vocab.bytes[id + 1]
N == Len(vocab.bytes)
Upto == IF job.limit # 0 /\ job.limit < N THEN job.limit ELSE N

Totals == UNCHANGED <<counts, reasons, refuted, json, rc>>
Go(x) == pc' = x /\ UNCHANGED r
Settle(verdict, reason, w) ==
  pc' = "report" /\ r' = [verdict |-> verdict, reason |-> reason, witness |-> w]

Least(x, y) == IF x < y THEN x ELSE y

\* A vocabulary has few added tokens; no token comes near WMax.
Classify ==
  /\ pc = "token" /\ Totals /\ UNCHANGED <<vocab, job, t, oom>>
  /\ CASE t \in vocab.added ->
            Settle("added", "none", SubSeq(Spelled(t), 1, Least(Len(Spelled(t)), WMax)))
       [] t \notin vocab.added /\ Len(Spelled(t)) > WMax -> Settle("unresolved", "none", <<>>)
       [] OTHER -> Go("pure")

\* pure_is_single: out of memory is no for an answer.
PureTest ==
  /\ pc = "pure" /\ Totals /\ UNCHANGED <<vocab, job, t>>
  /\ \/ /\ UNCHANGED oom
        /\ IF Pure(vocab, Spelled(t)) = <<t>> THEN Go("self")
           ELSE Settle("impossible", "merge-order", <<>>)
     \/ oom' = TRUE /\ Settle("impossible", "merge-order", <<>>)

\* Mutant: what is not text is a witness too.
WitnessesAny(w) == Len(w) <= WMax /\ t \in Ids(vocab, w)
\* try_witness
Witnesses(w) == Len(w) <= WMax /\ Valid(w) /\ t \in Ids(vocab, w)

\* The first of the tries that is a witness, unless memory runs out, settles it.
Search(tries, verdict, Otherwise) ==
  LET hits == {w \in {x[1] \o Spelled(t) \o x[2] : x \in tries} : Witnesses(w)}
  IN \/ UNCHANGED oom /\ \E w \in hits : Settle(verdict, "none", w)
     \/ hits = {} /\ UNCHANGED oom /\ Otherwise
     \/ hits # {} /\ oom' = TRUE /\ Otherwise

SelfTest ==
  /\ pc = "self" /\ Totals /\ UNCHANGED <<vocab, job, t>>
  /\ Search({<<<<>>, <<>>>>}, "self", Go("prove"))

Prove ==
  /\ pc = "prove" /\ Totals /\ UNCHANGED <<vocab, job, t, oom>>
  /\ IF Proof(Spelled(t)) # "none" THEN Settle("impossible", Proof(Spelled(t)), <<>>) ELSE Go("glue")

TryGlue ==
  /\ pc = "glue" /\ Totals /\ UNCHANGED <<vocab, job, t>>
  /\ Search(Glue(Spelled(t)), "context", Go("affixes"))

Unresolved == Settle("unresolved", "none", <<>>)
Deep == job.deep \/ job.op = "witness"

TryAffixes ==
  /\ pc = "affixes" /\ Totals /\ UNCHANGED <<vocab, job, t>>
  /\ Search((Affixes(Deep) \X Affixes(Deep)) \ {<<<<>>, <<>>>>}, "context",
            IF Deep THEN Go("fragments") ELSE Unresolved)

TryFragments ==
  /\ pc = "fragments" /\ Totals /\ UNCHANGED <<vocab, job, t>>
  /\ Search(Fragments(Spelled(t)), "context", Unresolved)

----------------------------------------------------------------------------
(* bp_census_run and bp_census_witness.                                    *)

Begin ==
  /\ pc = "begin" /\ UNCHANGED <<vocab, job, r, oom, counts, reasons, refuted, json>>
  /\ \/ job.op = "run" /\ pc' = "next" /\ UNCHANGED <<t, rc>>
     \/ job.op = "witness" /\ job.id < N /\ t' = job.id /\ pc' = "token" /\ UNCHANGED rc
     \/ job.op = "witness" /\ job.id >= N /\ rc' = 1 /\ pc' = "done" /\ UNCHANGED t

\* An id without bytes is not used.
NextToken ==
  /\ pc = "next" /\ UNCHANGED <<vocab, job, oom, counts, reasons, refuted, json>>
  /\ IF t >= Upto
     THEN pc' = "done" /\ rc' = (IF refuted > 0 THEN 1 ELSE 0) /\ UNCHANGED <<t, r>>
     ELSE /\ UNCHANGED rc
          /\ IF Spelled(t) = <<>> THEN t' = t + 1 /\ UNCHANGED <<pc, r>>
             ELSE pc' = "token" /\ r' = Fresh /\ UNCHANGED t

\* A witness is encoded once more, which may fail for want of memory.
Report ==
  /\ pc = "report" /\ job.op = "run" /\ UNCHANGED <<vocab, job, r, rc>>
  /\ pc' = "next" /\ t' = t + 1
  /\ counts' = [counts EXCEPT ![r.verdict] = @ + 1]
  /\ reasons' = IF r.verdict = "impossible" THEN [reasons EXCEPT ![r.reason] = @ + 1] ELSE reasons
  /\ \/ /\ r.verdict \in {"self", "context"} /\ oom' = TRUE /\ refuted' = refuted + 1
     \/ /\ UNCHANGED oom
        /\ refuted' = refuted + IF r.verdict \in {"self", "context"} /\ t \notin Ids(vocab, r.witness)
                               THEN 1 ELSE 0
  /\ json' = Append(json, [id |-> t, verdict |-> r.verdict, comma |-> t + 1 < Upto])

Show ==
  /\ pc = "report" /\ job.op = "witness" /\ pc' = "done"
  /\ Totals /\ UNCHANGED <<vocab, job, t, r, oom>>

Next ==
  \/ Begin \/ NextToken \/ Classify \/ PureTest \/ SelfTest \/ Prove \/ TryGlue
  \/ TryAffixes \/ TryFragments \/ Report \/ Show

Spec == Init /\ [][Next]_vars

----------------------------------------------------------------------------

\* What a report says: a witness is well-formed text that makes the encoder emit
\* the token (CENSUS.md 20-26), only want of memory refutes one; every used id
\* below the limit has one record and is counted once, under one reason when it
\* is impossible; and the records are separated by commas, unless the last id
\* below the limit is not used.
Reported ==
  /\ pc = "report" /\ r.verdict \in {"self", "context"} =>
       Valid(r.witness) /\ Len(r.witness) <= WMax /\ t \in Ids(vocab, r.witness)
  /\ refuted > 0 => oom
  /\ job.op = "run" /\ pc = "done" =>
       /\ {json[k].id : k \in DOMAIN json} = {id \in 0..(Upto - 1) : Spelled(id) # <<>>}
       /\ \A k, l \in DOMAIN json : k < l => json[k].id < json[l].id
       /\ \A v \in Verdicts : counts[v] = Cardinality({k \in DOMAIN json : json[k].verdict = v})
       /\ reasons["merge-order"] + reasons["invalid-utf8"] + reasons["pretoken-shape"]
            + reasons["contraction"] + reasons["nfc-excluded"] = counts["impossible"]
       /\ Spelled(Upto - 1) # <<>> =>
            \A k \in DOMAIN json : json[k].comma <=> k < Len(json)

----------------------------------------------------------------------------
(* What the merge-order verdict rests on.                                  *)

\* What merged tokens spell is what their parts spell.
Spells(W, v) == \A pr \in DOMAIN v : W[v[pr].id] = W[pr[1]] \o W[pr[2]]

\* The one-byte tokens of a string.
BaseOf(base, x) == [k \in 1..Len(x) |-> base[x[k]]]

\* The merge engines give the strings xs the ids of their greedy encoding, for a
\* table over the tokens toks that spells, from the token of each byte on; an id
\* of the vocabulary has the bytes its token spells.
IsGreedy(v, toks, table, base, spell, id, xs) ==
  /\ IsTableOver(toks, table) /\ Spells(spell, table)
  /\ base \in [Byte -> toks] /\ spell \in [toks -> Seq(Byte)]
  /\ \A b \in Byte : spell[base[b]] = <<b>>
  /\ \A k \in toks : id[k] \in 0..(Len(v.bytes) - 1) => v.bytes[id[k] + 1] = spell[k]
  /\ \A x \in xs :
       LET g == Greedy(table, BaseOf(base, x)) IN Pure(v, x) = [k \in 1..Len(g) |-> id[g[k]]]

\* An id in one of the texts ws is an added token's, or one of the ids of a
\* pretoken, which is among the strings xs.
FromPretokens(v, ws, xs) ==
  \A w \in ws : \A i \in Ids(v, w) \ v.added :
    \E x \in xs : \E k \in DOMAIN Pure(v, x) : Pure(v, x)[k] = i
=============================================================================
