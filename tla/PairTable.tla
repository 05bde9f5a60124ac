------------------------------ MODULE PairTable ------------------------------
(***************************************************************************)
(* The pair table of a .bpv file: open addressing with linear probing.     *)
(* build_pair_table (bpv_convert.py) writes it, bp_vocab_open              *)
(* (bp_vocab.c) accepts or refuses it, bp_pair_lookup (bp_internal.h)      *)
(* reads it, and neither of the last two relies on the first: the table of *)
(* a file may be any.  The hash is the operator Home, of which only the    *)
(* range is known.                                                         *)
(***************************************************************************)
EXTENDS Integers, Sequences, FiniteSets

CONSTANTS
  Pair,        \* pairs of ids: the keys
  Id, Known,   \* the ids a file can name; those below vocab_count
  Member(_, _),\* Member(x, p): id x is the left or the right one of pair p
  Sizes,       \* the numbers of slots a table can have
  MinSlots,    \* the smallest table the converter makes
  Home(_, _),  \* the slot of a pair in a table of n slots
  Sources,     \* the merge lists of the tokenizer.json files converted
  Images,      \* the tables of the files that were not converted from one
  Absent       \* BPV_PAIR_EMPTY, as a key and as an answer

Val == [rank : Nat, id : Id]
Merge == [pair : Pair, id : Id, known : BOOLEAN, spells : BOOLEAN]

ASSUME SizesAssumption == Sizes \subseteq Nat \ {0}
ASSUME HomeAssumption == \A p \in Pair, m \in Sizes : Home(p, m) \in 0..(m - 1)
ASSUME SourcesAssumption == Sources \subseteq Seq(Merge)
\* vocab_count is larger than every id of the vocabulary.
ASSUME KnownAssumption ==
  \A list \in Sources : \A k \in 1..Len(list) :
    list[k].known =>
      list[k].id \in Known /\ \A x \in Id : Member(x, list[k].pair) => x \in Known
ASSUME ImagesAssumption ==
  \A im \in Images :
    /\ im.n \in Sizes
    /\ im.keys \in [0..(im.n - 1) -> Pair \cup {Absent}]
    /\ im.values \in [0..(im.n - 1) -> Val]
ASSUME AbsentAssumption == Absent \notin Pair /\ Absent \notin Val

VARIABLES
  source,       \* the merge list, when the file is converted from one
  converted,    \* whether it is
  n,            \* nslots
  keys, values, \* the slots
  rank,         \* how many merges the converter has dealt with
  mismatches,   \* byte_mismatches
  pc,           \* "size", "build", "insert", "load", "ready", "probe", "refused"
  pair,         \* the key being inserted or looked up
  slot,         \* the slot looked at
  answer,       \* what the last lookup returned
  rc            \* what bp_vocab_open reports

vars == <<source, converted, n, keys, values, rank, mismatches, pc, pair, slot, answer, rc>>

table == <<source, converted, n, keys, values>>

Slots == 0..(n - 1)

Init ==
  /\ rank = 0 /\ mismatches = 0 /\ slot = 0 /\ rc = "ok"
  /\ pair = Absent /\ answer = Absent
  /\ \/ /\ source \in Sources /\ converted = TRUE /\ pc = "size"
        /\ n = 0 /\ keys = <<>> /\ values = <<>>
     \/ \E im \in Images :
          /\ source = <<>> /\ converted = FALSE /\ pc = "load"
          /\ n = im.n /\ keys = im.keys /\ values = im.values

\* (slot + 1) & mask
NextSlot(s) == IF s + 1 = n THEN 0 ELSE s + 1

----------------------------------------------------------------------------
(* convert and build_pair_table.                                           *)

\* Mutant: every slot may be used.
RoomyWhenFull(m, count) == m >= MinSlots /\ count <= m

\* A load factor of at most 0.65.
Roomy(m, count) == m >= MinSlots /\ 20 * count <= 13 * m

\* slots_log2: the smallest table that is roomy enough.
Size ==
  /\ pc = "size"
  /\ \E m \in Sizes :
       /\ Roomy(m, Len(source)) /\ \A k \in Sizes : Roomy(k, Len(source)) => m <= k
       /\ n' = m
       /\ keys' = [s \in 0..(m - 1) |-> Absent]
       /\ values' = [s \in 0..(m - 1) |-> Absent]
  /\ pc' = "build"
  /\ UNCHANGED <<source, converted, rank, mismatches, pair, slot, answer, rc>>

Refuse == pc' = "refused" /\ UNCHANGED <<table, rank, mismatches, pair, slot, answer, rc>>

\* A merge of tokens that are not in the vocabulary.
RefuseUnknown ==
  /\ pc = "build" /\ rank < Len(source) /\ ~source[rank + 1].known
  /\ Refuse

\* A merged token that does not spell its parts is counted and left out.
Mismatch ==
  /\ pc = "build" /\ rank < Len(source)
  /\ source[rank + 1].known /\ ~source[rank + 1].spells
  /\ rank' = rank + 1 /\ mismatches' = mismatches + 1
  /\ UNCHANGED <<table, pc, pair, slot, answer, rc>>

Insert ==
  /\ pc = "build" /\ rank < Len(source)
  /\ source[rank + 1].known /\ source[rank + 1].spells
  /\ pair' = source[rank + 1].pair /\ slot' = Home(pair', n)
  /\ pc' = "insert"
  /\ UNCHANGED <<table, rank, mismatches, answer, rc>>

InsertOn ==
  /\ pc = "insert" /\ keys[slot] \notin {Absent, pair}
  /\ slot' = NextSlot(slot)
  /\ UNCHANGED <<table, rank, mismatches, pc, pair, answer, rc>>

RefuseDuplicate == pc = "insert" /\ keys[slot] = pair /\ Refuse

Place ==
  /\ pc = "insert" /\ keys[slot] = Absent
  /\ keys' = [keys EXCEPT ![slot] = pair]
  /\ values' = [values EXCEPT ![slot] = [rank |-> rank, id |-> source[rank + 1].id]]
  /\ rank' = rank + 1
  /\ pc' = "build"
  /\ UNCHANGED <<source, converted, n, mismatches, pair, slot, answer, rc>>

Write ==
  /\ pc = "build" /\ rank = Len(source) /\ mismatches = 0
  /\ pc' = "load"
  /\ UNCHANGED <<table, rank, mismatches, pair, slot, answer, rc>>

RefuseMismatches == pc = "build" /\ rank = Len(source) /\ mismatches > 0 /\ Refuse

----------------------------------------------------------------------------
(* bp_vocab_open and bp_pair_lookup.                                       *)

Occupied == {s \in Slots : keys[s] # Absent}

\* Mutant: the merged id is not looked at.
InRangeKeys == \A s \in Occupied : \A x \in Id : Member(x, keys[s]) => x \in Known

InRange ==
  \A s \in Occupied :
    values[s].id \in Known /\ \A x \in Id : Member(x, keys[s]) => x \in Known

\* Mutant: a full table is accepted.
FitsWhenFull == Cardinality(Occupied) <= n

\* occupied > slots * 13 / 20 refuses, in integers.
Fits == Cardinality(Occupied) <= (n * 13) \div 20

Load ==
  /\ pc = "load"
  /\ IF InRange /\ Fits THEN pc' = "ready" /\ UNCHANGED rc
     ELSE pc' = "refused" /\ rc' = "format"
  /\ UNCHANGED <<table, rank, mismatches, pair, slot, answer>>

Ask ==
  /\ pc = "ready"
  /\ pair' \in Pair /\ slot' = Home(pair', n)
  /\ pc' = "probe"
  /\ UNCHANGED <<table, rank, mismatches, answer, rc>>

LookupHit ==
  /\ pc = "probe" /\ keys[slot] = pair
  /\ answer' = values[slot] /\ pc' = "ready"
  /\ UNCHANGED <<table, rank, mismatches, pair, slot, rc>>

\* Mutant: the probe ends at the first slot that holds another pair.
LookupMissAtOnce ==
  /\ pc = "probe" /\ keys[slot] # pair
  /\ answer' = Absent /\ pc' = "ready"
  /\ UNCHANGED <<table, rank, mismatches, pair, slot, rc>>

LookupMiss ==
  /\ pc = "probe" /\ keys[slot] = Absent
  /\ answer' = Absent /\ pc' = "ready"
  /\ UNCHANGED <<table, rank, mismatches, pair, slot, rc>>

LookupOn ==
  /\ pc = "probe" /\ keys[slot] \notin {Absent, pair}
  /\ slot' = NextSlot(slot)
  /\ UNCHANGED <<table, rank, mismatches, pc, pair, answer, rc>>

Work ==
  \/ Size \/ RefuseUnknown \/ Mismatch \/ Insert \/ InsertOn \/ RefuseDuplicate
  \/ Place \/ Write \/ RefuseMismatches \/ Load \/ LookupHit \/ LookupMiss \/ LookupOn

Next == Work \/ Ask

Spec == Init /\ [][Next]_vars /\ WF_vars(Work)

----------------------------------------------------------------------------

TypeOK ==
  /\ pc \in {"size", "build", "insert", "load", "ready", "probe", "refused"}
  /\ source \in Seq(Merge) /\ rank \in 0..Len(source) /\ mismatches \in Nat
  /\ pair \in Pair \cup {Absent} /\ slot \in Nat
  /\ pc # "size" => /\ n \in Sizes
                    /\ keys \in [Slots -> Pair \cup {Absent}]
                    /\ values \in [Slots -> Val \cup {Absent}]
                    /\ \A s \in Slots : keys[s] # Absent => values[s] \in Val
  /\ pc \in {"insert", "probe"} => slot \in Slots /\ pair \in Pair

\* A probe, of the converter or of a lookup in whatever table a file holds,
\* never comes round to the slot it began at: lookups terminate (FORMAT.md
\* 82-84, "Validation contract"; bp_vocab.c 113-116).
NeverRound ==
  [][(pc \in {"insert", "probe"} /\ pc' = pc) => slot' # Home(pair, n)]_vars

\* Whatever the file, a lookup answers with a slot of that pair, whose id is
\* below vocab_count: no other pair's value, and no id out of range.
AnswerInRange ==
  pc = "ready" /\ answer # Absent =>
    /\ answer.id \in Known
    /\ \E s \in Slots : keys[s] = pair /\ values[s] = answer

\* The loader accepts each table the converter writes: its integer bound on the
\* load is no tighter than the converter's.
WrittenIsAccepted == converted => rc = "ok"

\* Every lookup ends: the loader has made sure of a free slot.
LookupEnds == pc = "probe" ~> pc = "ready"

\* The slots a probe that began at h has passed before it came to s.
Passed(h, s) == IF h <= s THEN h..(s - 1) ELSE (h..(n - 1)) \cup (0..(s - 1))

\* A probe for p ends at slot s, which holds it.
Found(p, s) ==
  s \in Slots /\ keys[s] = p /\ \A q \in Passed(Home(p, n), s) : keys[q] \notin {Absent, p}

\* The pairs a probe comes to, with their values.
Held == IF pc = "size" THEN {} ELSE {p \in Pair : \E s \in Slots : Found(p, s)}
Contents == [p \in Held |-> values[CHOOSE s \in Slots : Found(p, s)]]

\* The table is a map, however the probe sequences of the pairs cross and wrap
\* round: bp_pair_lookup returns what build_pair_table inserted, and in a table
\* of any other file, duplicate and unreachable keys included, it always gives
\* a pair the same answer.
Map == INSTANCE PairMap WITH
         map <- Contents,
         asked <- IF pc = "probe" THEN pair ELSE Absent
IsMap == Map!Spec
=============================================================================
