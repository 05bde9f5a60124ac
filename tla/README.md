# bytepair, verified

TLA+ modules, TLC models and TLAPS proofs for `bytepair`, a byte-level BPE
tokenizer in C: `src/src/*.c` is the engine, `src/include/bytepair.h` its API,
`src/cli/main.c` the command line, `src/tools/bpv_convert.py` the converter that
makes the memory-mapped `.bpv` vocabulary files. Line numbers below are those of
the sources.

Run a model with `tlc -config X.cfg MCModule`, a proof with `tlapm XProofs.tla`.

## 1. The system

A text goes through

    bp_encode -> added-token matcher -> segment -> bp_nfc -> bp_scan_gpt4 -> pretoken
              -> bp_bpe_pretoken (cache | merge_short | merge_long) -> sink

over a vocabulary that `bp_vocab_open` mapped and checked once. The vocabulary is
immutable and shared; a context (`bp_ctx`) belongs to one thread and carries the
pretoken cache and three growing buffers from call to call. Every call runs to
its end on the caller's thread. Calls between components are plain function
calls; what persists is the vocabulary, the context's state and the caller's
output array. The program `bytepair` opens a vocabulary, makes a context and calls
the library; its `bench` is the one place with threads, each with a context of its
own over the shared vocabulary. The census asks the same encoder, token by token,
which ids a text can reach.

| component (code) | state | operations | what is hard | what makes it correct |
| --- | --- | --- | --- | --- |
| merge engines (`bp_bpe.c` 12-159) | symbol array; linked list, lazy heap of candidate pairs | scan, merge, push, pop, splice, emit | stale heap entries, ties, heap capacity 2n, allocation failure | the result is that of the greedy rule: lowest rank first, leftmost on ties |
| pretoken encoder (`bp_bpe.c` 161-213, `bp_internal.h` 80-154, `bp_util.c` 41-63) | cache, work buffer, id array, sink | probe, fill, encode, grow, put | hash collisions, overwrites, failed growth, short output arrays | the cache never changes an answer; the count is independent of the capacity |
| UTF-8 (`bp_util.c` 6-39, `bp_nfc.c` 153-176) | none | decode one, encode one | truncated, overlong, surrogate forms | exactly the well-formed sequences decode; encode inverts decode |
| split scanner (`bp_scan.c`) | position, marks of the whitespace walk | eight alternatives and their runs | backtracking done by hand: give-back, last newline, case-folded contractions | the cuts are those of the regular expression |
| AVX2 kernels (`bp_scan_avx2.c`) | none | length of an ASCII run | block ends | equal to the scalar loops |
| pipeline, added tokens (`bp_encode.c` 12-79, `bp_vocab.c` 182-203) | matcher tables; position, segment start, sink | index, seek, match, encode segment | overlapping tokens, skipping ahead, failure in a segment | leftmost-longest cuts that cover the text |
| decoder (`bp_encode.c` 81-112) | position, bisection bounds, sink | range check, search, copy | unused ids, special tokens, short output | bytes of exactly the wanted ids |
| pair table (`bpv_convert.py` 351-417, 487-499; `bp_vocab.c` 113-130; `bp_internal.h` 157-167) | slots | insert, check, look up | collisions, wrap-round, load limit, tables not made by the converter | it is a map; every lookup ends |
| NFC (`bp_nfc.c`) | work buffer of code points | quick check, decompose, order, compose, encode | composition in place, opaque bytes, quick check against full path | UAX #15 normal form, idempotence |
| Unicode tables (`bp_uctables.c`, made by `gen_tables.py`) | constant arrays | class, combining class, quick check, decomposition, composition | five lookups with bounds of their own, shared blocks | a lookup answers what the data it was made from says |
| loader, handles (`bp_vocab.c`) | descriptor, mapping, handle, name | open, close, context new, free | order of checks, release on each failure, sums that wrap | what later readers rely on has been checked; a failed call holds nothing |
| census (`bp_census.c`) | verdict, reason and witness of a token; counts | test, prove, search, verify, report | soundness of "impossible" for tokens cut out of characters | an impossible token occurs in no encoding; a witness shows its token |
| program, bench (`cli/main.c`) | input buffer, ids, documents, threads, exit code | load, parse, count, encode, decode, split, spawn, join | failures half-way, buffers at their limits, threads that fail or cannot be created | an exit code of 0 comes with the whole answer, others with none; no context outlives the vocabulary, and no thread its call, unless a thread cannot be created |
| converter (`bpv_convert.py`) | image under construction | validate, build, verify | refusing what the loader would | the loader opens what it writes |

Not part of the logic: dump and probe tools, fingerprint and bench scripts, tests. `PROJECT.json` lists every
component with its status and every hazard with its line.

## 2. Modules

| module | models | state and actions |
| --- | --- | --- |
| `MergeRule` | pair tables and the greedy rule as a function | operators only; a table is any function from pairs to rank and id, since the loader checks neither distinct ranks nor spelling |
| `PairData` | the tables and pretokens that the BPE modules are about | constants with their assumptions |
| `Bpe` | what a merge engine promises | `syms`, `done`; `Merge` the best pair, `Finish` when none is left |
| `MergeLong` | `merge_long` | `nodes` (linked list), `heap` (a bag of entries; `IsTop` is what popping a binary heap yields), `pc`; `Reserve`, `Fill` (one push each), `Discard` a stale entry, `Merge` with splice, compaction and both pushes, `Emit`; both allocations may fail |
| `MergeShort` | `merge_short` | `sym`, scan position and best so far; one action per scan step, `EndRound` merges and shifts |
| `Pretoken` | `bp_bpe_pretoken` over several calls on one context | `cache`, buffer sizes, the call; an action per path (`One`, `Two`, `Hit`, `Short`, `Long`) and per failure |
| `Sink` | `bp_sink_put`, `bp_sink_put1` | operators on [out, cap, total] |
| `Utf8` | `bp_utf8_next`, the encoder of `bp_nfc` | operators |
| `UcTables` | the arrays of `bp_uctables.c` as `gen_tables.py` builds them, and the lookups | operators: blocks kept once and an index to them, ascending arrays, pools with offsets, bisections |
| `Nfc` | `bp_nfc` | the code's tables and the standard's data are constants; `i`, `prevCcc` of the quick check; `buf`, entries of code point and class; `w`, `starter` of the composition in place; an action per character checked or decomposed, per entry placed and per entry composed or kept; both reservations may fail |
| `Uax15` | definitions D108 to D117 of the Unicode standard | normalization by whole sequences and kept positions; reference only, its Hangul is a table |
| `Scanner` | `bp_scan_gpt4`, `run_letters`, `run_symbols`, the kernels | `i`, `j`, whitespace marks `ncp`, `last`, `cut`; one action per alternative, per loop iteration and per emit |
| `SplitRegex` | the regular expression of FORMAT.md 53-75 | reference only: a pattern is a function from where it starts to the ends it can have, in a backtracking engine's order; `Or` and `Then` put patterns together, `Star` is a recursive function |
| `Encode` | `bp_encode`, matcher tables | `order` (insertion sort, one token a step), `i`, `seg`, `spans` (history: the cuts made), `sink`; `Whole`, `Seek`, `Miss`, `Match`, `Finish`, `SegmentFails` |
| `Decode` | `bp_decode` | `i`, `lo`, `hi`, `sink`; an action per step of the bisection |
| `PairMap` | what the pair table promises | a map, a question, an answer |
| `PairTable` | converter, loader check, lookup | `keys`, `values`, probe `slot`; an action per probe step |
| `RoundTrip` | a `bp_encode` and a `bp_decode` of what it wrote, over one vocabulary | the variables of `Encode` and, with a d in front, those of `Decode`; `HandOver` passes the ids on, `DecodeOnly` starts with ids no encoder wrote |
| `Loader` | `bp_vocab_open`, `bp_vocab_close` | `pc`, the check the call has come to, `k` its iteration; `fd`, `map`, `handle`, `name`; one action per check and per allocation. `Reads` says which bytes the next step looks at, and for a handle which its users may |
| `Cli` | `main`, `read_all`, `load_input`, `cmd_bench`, `bench_worker`, `bp_ctx_new` | `Loader`'s state; where main is, its context, buffers, ids, the documents, each thread's state and partial result, the exit code; an action per call that can fail. `result` names the spans of the input that what is printed stands for |
| `Census` | `census_token`, its prover and searches, `bp_census_run`, `bp_census_witness` | `t`, the record `r`, counts, the records of the report; an action per test. A search is the set of texts it tries; which hit comes first is left open. A partial character is the set of characters it may be |

`MergeLong` and `MergeShort` implement `Bpe` under refinement mappings (the live
nodes in list order; the symbol array), `PairTable` implements `PairMap` (the
occupied slots). `Pretoken` composes the engines by the result both are shown to
have, `Greedy`; `Encode` composes what lies behind a segment as the operator
`Encoding`. `RoundTrip` composes `Encode` with `Decode`, `Cli` extends `Loader`.
`Scanner`, `Nfc` and `Census` use `Utf8`; `Pretoken`, `Encode` and `Decode` share
`Sink`; the models of `Nfc` and `Scanner` give them their tables by `UcTables`, and
the model of `Census` builds its encoder of `SplitRegex` and `MergeRule`.

Abstractions common to all: bytes, tokens and classes are small sets; the hash is
any function; positions count from 1; numbers are unbounded (the widths that
could matter are listed as hazards). A failed allocation is a nondeterministic
choice at the place of each reservation.

## 3. What the runs check

| run | question | bounds |
| --- | --- | --- |
| `merge_long` | Is the list sound, does the heap suffice, is no candidate lost, is each merge the best one, and is the result the greedy rule's, for any table? | every pair table over two tokens with ranks that may tie, cyclic merges too, with texts of 2 and 4 bytes: the least for a stale entry that looks live and for compaction to be thinkable. For merges of merged tokens, five merges in all 120 orders with every text of seven bytes |
| `merge_short` | Does the rescan take the leftmost best pair and stop at a fixpoint? | every pair table over two tokens, texts of 3 to 5: shorter ones do not come to `merge_short` |
| `merge_short_maxrank` | Is the pair "with the lowest merge rank [...] merged repeatedly" (FORMAT.md 82-83) when its rank is 0xFFFFFFFF? It is not: see section 6 | every pair table over two tokens, that rank included, texts of 3 |
| `pretoken` | Do cache, buffers and failures leave every answer that of the greedy rule? | pretokens of up to five bytes, pairs of calls on one context, constants of the code scaled down (cache of two slots, short limit 4), a full-hash collision |
| `scanner` | Are the cuts those of the regular expression, with and without kernels? | four characters of an alphabet that has one for each thing the scanner tells apart; five for runs, with kernels whose blocks have two bytes (a block that ends before, at and after the run's and the text's end), and five for whitespace. Every alternative looks at most three characters ahead or is a run |
| `round_trip` | Leftmost-longest, covering, counting, failing; are decoded bytes those of the wanted ids, is an unused id refused, and does decoding give the text back? | three token arrays (prefixes of one another, equal bytes, overlaps, one or several first bytes), every text of five bytes; every list of up to two ids of seven and some of three, every set of added tokens of four ids, buffers that cut a token |
| `pair_table` | Is the converter's table a map that the loader accepts? Do lookups in any table end, in range? | lists of up to four merges, three pairs colliding in the last slot; every table of 1, 2, 4 slots over three pairs |
| `nfc` | Are decoder and encoder those of Unicode's table of well-formed sequences? Is the ordering stable, is the result the NFC of UAX #15 with malformed bytes untouched (which holds of what the quick check passes too), from tables as they are generated? | three characters of an alphabet with a letter and its composites, marks of four classes that the quick check answers differently, a singleton, an excluded composite, a mark that decomposes into two, and raw bytes that would be a character together; five for marks round one letter; three for jamo and syllables at the ends of their ranges; three bytes from the values at which a condition of the decoder changes. Five entries are the least at which a blocked mark can be followed by one that composes twice |
| `cli` | Is every read of the loader and of a handle's users inside its section, is a failed call's all given back, do a handle's tables agree? Do buffers suffice, is what exit code 0 prints the whole answer, does the program end? | every file that differs from a valid one in up to two of some ninety ways (two byte values, four tokens, sizes that wrap a word of 2^12), and one with an unused id, which `decode` must refuse. Constants scaled down so that texts of up to seven bytes make read_all, the id array and the documents grow; up to three threads, two rounds: the least at which a stride goes on and a second round follows |
| `cli_exits` | Does the process always end with a documented code? It does not: section 6 | the same |
| `census` | Is a token called impossible really out of reach, and does a report say the truth? | fifteen characters: letters (one of two bytes, the long s of the contractions, the angstrom sign that never stays), digit, apostrophe, space, newline, no-break space, mark, emoji, and characters that share first or last bytes with these; as tokens every piece of two characters, every piece of three of seven of them, three characters after an apostrophe, some malformed strings; without the NFC flag only the tokens that have a byte of the angstrom sign, the one character for which the flag matters; every order of three merges of two letters; reachability is tried with all texts of up to three characters of twelve, and more of the contraction's and the two letters'. All tokens have at most `MAX_UNITS` characters, four here, to which `Units` keeps: one more, and the code is wrong (section 6) |
| `census_proofs` | Do the proofs hold for "any `.bpv` vocabulary"? Not without the NFC flag: section 6 | the same |

Fairness. Where termination is checked (`merge_long`, `scanner`, `round_trip`,
and `pair_table`, where it covers everything but asking the next
question) the specification has weak fairness on its next-state relation: the
code is a sequential function that its thread runs to the end, and no step waits
for another thread. `Cli` has weak fairness on main and on each thread by itself:
the operating system runs every thread that can go on, in any order; main waits
only in `pthread_join`, for a thread that waits for nobody. Reads end because a
file does. Nothing more is assumed; termination is a matter of the
loops' own progress, and a mutant of each shows a loop that makes none.
`CHECK_DEADLOCK FALSE` is set where the call returns and the model stops.

## 4. What is proved

For every value of the constants, by `tlapm`:

- `BpeProofs`, of `merge_long`: `TypeCorrect`, `ListCorrect`, `HeapHasRoom`, `EmitHasRoom`,
  `NothingLost`, `OnlyBestMerges`. The list invariant says that live nodes are
  those reached from the first one and that both directions agree. The heap never
  overflows because of a potential: entries plus live nodes never exceed 2n - 1; a
  merge consumes one of each and adds at most two entries, and the initial fill
  gives n - 1 entries. So the compaction guard at `bp_bpe.c` 124 and the error
  behind it are never taken. Each adjacent mergeable pair has a current entry in
  the heap (`NoLostCandidate`), so the top current entry is the best pair of all.

  `EmitsWholeEncoding`: what is emitted is the greedy encoding, none of it left
  out; `LongImplementsBpe`: every step is one of `Bpe` or a stutter. Both need the
  list as a sequence: `Says` gives the order of the live nodes as a function f
  onto them (`Chain`), and says that their tokens are what the greedy rule has made
  of the text after as many applications as nodes have gone. A merge takes one
  element out of f (`SaysMerge`), emitting copies the tokens from the front on
  (`Copied`), and `Walk` of the refinement mapping, which is defined by recursion
  from the list's end, is shown to read the tokens in f's order (`WalkTokens`).
  Of `merge_short`: `ScanCorrect`, `ShortMergesAll`, that `MergeShort`
  implements `Bpe` (`ShortImplementsBpe`), and that it ends with the greedy
  encoding (`ShortEncodesGreedy`).

  Of the pretoken encoder: `CacheCorrect`: an entry always holds the greedy result of
  its own key, whatever the hash. `SinkCorrect`: over all calls the output and the
  count are those of the greedy encodings of the pretokens so far, whichever way
  each was encoded. `BuffersLargeEnough`, `CallsTyped`.
- `ScannerProofs`: `PositionsCorrect`, `SpansPartition`: every position is in the
  text and the spans are non-empty and partition it. `Walked` is the
  strengthening: in the whitespace walk the second character begins after the
  span does, so giving it back never empties the span.

  `ScannerMatches`: every span is the first match of the regular expression where
  it starts. The kernels are part of the scanner for every width of their blocks,
  so this is also SIMD = scalar. A pattern at a position `Fails`, or `Takes` an end
  first; the lemmas on `Onward`, `StarIs` and `FurthestIs` say what an alternative
  takes, `A1At` to `A4At` that the code's tests decide the first four of them, from
  bytes where the regex speaks of characters (`CpIs`, `AnyCaseIs`, and U+017F from
  its two bytes). `Matching`, the inductive invariant, says of each loop where the
  alternative ends that it was entered for; a kernel keeps it because a block skipped
  is in the run (`RunReaches`). Over whitespace two alternatives are still open, and
  the walk keeps the engine's stack for both in `cut`, `last` and `ncp`
  (`NewlineCut`, `GiveBack`); at its end one test each says whether A5 or A6 takes
  anything (`WalkEnds`).
- `NfcProofs`, for any text, any tables that are the standard's and any data of the
  standard that `StandardAssumption` allows. `CodecCorrect`: at every position the quick
  check or the full pass reads, what is accepted is what the table of well-formed
  sequences allows, any other byte is read alone where no such sequence starts, and
  encoding gives back the bytes read. `RowIs` reads the table at a position;
  `ThreeEdges` and `FourEdges` show that the decoder's comparisons of the codepoint,
  made after the bits are put together, cut off exactly the second bytes the table
  leaves out; `Sixes` takes the bits apart again.

  `OrderCorrect`: each prefix the insertion sort has been through is in canonical
  order. D109 orders positions by a relation that is not linear on any sequence, so
  `Uax15` counts for each position those before it; `ArrangedIs` says that a
  permutation along which exactly the earlier positions come first is that order, and
  `IsOrder` names it. The invariant `Arranges` says that such a permutation leads from
  the spelled-out text to the buffer. Putting entry i past the entries of higher class
  keeps it (`InsertIsOrder`): what it passes is not a starter and is in one run of
  marks with it, and where it stops either a starter or a class not higher stands, so
  that no further mark of that run has to follow it.

  `Recomposes`: what the full path returns is the NFC of UAX #15, encoded. The
  standard keeps positions of the whole text; the code overwrites the front of its
  buffer and remembers a last starter and how many entries it kept. `Tracks` relates
  the two when m characters have had their turn: the first w entries are, in order, the
  characters kept of these (`KeptAt`), the rest is as it was; `starter` is the last
  starter kept, or what stands there is a malformed byte (`StarterAt`); and of the
  marks after it the last has the highest class, not above that of character m
  (`MarksSorted`). By the last part the one comparison with entry w tells whether any
  character between blocks (`FreeIs`), which D115 asks of them all; it needs the order
  of the first pass. `CombineKeeps` and `KeepKeeps` are the two steps.
- `EncodeProofs`: `TokensLeftmostLongest`, `TextCovered`, `EncodeTyped`. `Sorted`
  says the insertion sort is stable, hence the first match is the longest and of
  lowest id; `Passed` says no token begins between `seg` and `i`, which the skips
  by first byte keep. `EncodeCounts`: what is written and counted is what the
  spans' ids are, for any capacity.

  `DecodeCorrect`: `bp_decode` writes and counts the bytes of the wanted ids,
  special ones skipped or not, up to the first it refuses, and refuses what is out
  of range or unused. The bisection's invariant is that an id which is in the table
  is between the bounds; the table is sorted. `TextRestored`: a text encoded with
  room for all ids and decoded is the text, less what is skipped, for every way in
  which added tokens lie in it; `EncodeInSession` carries the encoder's results to
  the composed specification.
- `PairTableProofs`: `ProbesEnd`, `AnswersInRange` for any table, `TableIsMap` for
  converted ones, `TableTyped`. A probe passes only occupied slots of other pairs
  (`Seen`) and the load bounds, the converter's by counting (`Counted`) and the
  loader's in integers, leave a free slot ahead; each key sits where its own probe
  would first find it (`Placed`), so no pair is held twice. `ConvertedLoads`: the
  loader accepts what the converter writes; it needs that the converter's bound on
  the load implies the loader's, which divides integers, and that the ids in the
  table stay in range while it is built (`Written`).
- `LoaderProofs`: `LoaderReleases`, `LoaderCoheres`, `LoaderReadsInside`. The
  invariant follows the order of the checks: at each one the conditions of those
  before it hold, and a loop's own up to its iteration. Offsets are kept in order
  pairwise (`OffsetsUpTo`), so that the last one bounds them all without an
  induction over the file; the count of used slots equals the iteration when no
  slot was free (`PairsUpTo`), which the load bound refutes at the end. The ends of
  sections are sums of 64-bit numbers; that none wraps follows from `section_ok`,
  which is why the overlap test may form them (`Apart`).

  `MainInBounds`, of the program around the loader, for any number of threads and
  any text: the buffer has room for the input and its NUL, the ids for every
  number, the offsets for every document, since each document but the last has at
  least `DocSize` bytes and the array is made for one of half that size (`DocsFit`,
  by induction along the text: `CutsHold`); no context outlives the mapping; and a
  thread works only while `cmd_bench` is there and the vocabulary open, except that
  when a thread cannot be made those made before it are left behind and the program
  is to end with 4 (`Behind`, the strengthening, with `Crew`, which says of each place
  of main which threads are joined). `cli_exits` shows what the exception can do.

  `MainAnswers`: what the exit code promises (`Answered`), for any number of threads,
  documents and rounds. Thread w of m counts the documents w, w + m, w + 2m, ...
  (`Turn`), every document is in the turns of exactly one thread (`Turns`,
  `SomeTurn`), and the documents partition the text (`DocOf`, `DocsApart`). `Covers`
  says that the spans of a list are those of a set of documents, each once: a thread
  that has come to document d has covered its turns before d (`JobOf`), main, having
  joined t threads that did not fail, all of those threads' turns (`Shared`), and
  after the last one the text (`Joined`). For decode, the numbers that have ended
  where `strtoull` goes on are those in `ids`, each in its place (`ParsedAt`;
  `NextNumber`, `NoNumber`). `Placed` says which command brings main where, and that
  `read_all` leaves with the whole text; `Told` ties `rc`, the exit code and what is
  printed to the answer: nothing is printed while a thread is left behind, which
  could still kill the process.
- `CensusProofs`: `Boundary`, the lemma the census rests on (`bp_census.c` 13-18): each
  token of an encoding is the whole encoding of the part of the string it was made of,
  for any table, ranks that tie and cyclic merges included. By induction over the
  applications of the rule: the tokens made so far are blocks of the string's tokens,
  and a row of them is what the rule makes of its part alone after as many
  applications as tokens have gone (`DerivesBy`). Where the next merge is inside the
  row it is the best one there too (`BestInPart`), elsewhere it leaves the row alone
  (`UnmergedPart`). As merged tokens spell what their parts spell (`GreedySpells`), the
  part is the token's bytes: a token that its own bytes do not give is in no encoding
  (`MergeOrderIsFinal`), and `MergeOrderSound` says so of the running census: the
  verdict "merge-order" is final for every text, unless `oom` is set.

  `ReportCorrect`: what `Reported` says of witnesses, counts and records, whatever the
  tables, the encoder and the job are. `ReportInv` is the strengthening: the records are
  those of the used ids below the one under way (`Accounted`), each counted under its
  verdict and, if it is impossible, under one reason (`Counted`); and what a search
  settles on was valid and emitted the token when it was tried (`Settled`), so encoding
  it once more can only fail for want of memory.
- `DataProofs`: the lemmas about data these share. Induction comes from the least
  element of a set of numbers (`LeastNatural`, from the well-foundedness of < in the
  library); `UpTo` is the form the others cite, with the set of those numbers for
  which the claim holds in place of a predicate; `Iterates` shows that a function
  defined by recursion over 0..n exists and is the one defined. On these rest the
  facts about `FlattenSeq`, the sink and the greedy rule (`GreedyFixpoint`: once
  nothing can be merged, further applications change nothing, so that the result
  after n of them is the result of any run that stops).

Assumptions are the named ASSUMEs of each module, all facts that the loader
checks or that C types give: tables have their domain, texts are sequences, added
tokens are not empty, hashes are in range; of `Loader`, that a section which lies
in its file has the elements its size says, whatever they hold. Of `Encode`, that
what encodes a segment yields ids (`EncodingAssumption`); of `PairTable`, that
the ids of a merge whose three tokens the vocabulary has are below `vocab_count`,
which is one more than the largest (`KnownAssumption`); of `Scanner`, what the
class table says of ASCII and that only CR and LF end a line, as `gen_tables.py`
251-264 has it (`ClassAssumption`; TLC evaluates it for the table of
`MCScanner`); of `Cli`, that decode's bound on ids, 2^32, is below 2^64, where
`strtoull` saturates; of `Nfc`, that segments are bytes, that the tables, with Hangul by
arithmetic, are the standard's (`TablesAssumption`; which values these are is left
open), and of the standard that spellings are not empty, that Hangul syllables spell
out to starters and that a starter composes to a starter. `TextRestored` has a
hypothesis of its own, `EncodingSpells`: the ids of a segment are in use, not
special, and spell the segment. That is what the other modules are about, in a
byte-level vocabulary and where normalization changes nothing; `MCRoundTrip` has
TLC evaluate it for the encoding of its instance. So has `MergeOrderSound`, `Encodes`:
the merge engines are the greedy rule over a table whose merged tokens spell their
parts, and an id of a text is an added token's or a pretoken's. That the engines are
the greedy rule is what `BpeProofs` shows; that merged tokens spell their parts is so
in every file the converter writes from a byte-level tokenizer, but `bp_vocab_open`
does not check it. `EncoderAssumption` of `MCCensus` has TLC evaluate `Encodes` for all
its vocabularies and texts of up to two characters.

Only model-checked: termination (liveness is out of the prover's reach, as is
ENABLED); `Normalized`, where it goes beyond `Recomposed`: that a text which passes the
quick check is in NFC is a fact about Unicode's data and follows from no structure of
the tables; of `ImpossibleSound` the proofs from shapes (malformed, `Fits`, contraction,
"no" of the quick check), which are about all characters and all splits at once. The
one by merge order is proved.

## 5. Plan

Done since the first version: `Loader` with its theorems, `Cli`, `Census`,
`RoundTrip`, `UcTables`; the models of `Utf8`, `Encode` and `Decode` joined to
those that use them; induction over data, and with it the results of both merge
engines, of the pretoken encoder, of `bp_decode` and of the round trip; and that
the scanner is the regular expression, the program's exit code what it promises, the
UTF-8 codec what the standard's table says, `bp_nfc` ordering and composing what
UAX #15 defines, and the census's boundary lemma and reports.

Next, in order of weight:

1. Theorems: of `Normalized`, from the quick check's guarantee as a hypothesis, that the
   code's resets at ASCII and malformed bytes do not weaken it.
2. `Convert`: the converter's refusals against the loader's, and `verify_image`.
3. The census and failed allocations: `pure_is_single` turns want of memory into
   "impossible" (`bp_census.c` 324), which the condition of `ImpossibleSound`
   leaves out; a run of its own would show it.

## 6. Findings

- `merge_short_maxrank`: `merge_short` initialises `best_rank` with 0xFFFFFFFF and
  compares with `<` (`bp_bpe.c` 19, 25), so a pair of that rank is not merged in
  pretokens of 3 to 64 bytes. The run leaves "bbb" as it is although the table merges
  bb; the same pair alone, which goes through lines 173-183, and in longer pretokens,
  which go to `merge_long`, is merged. FORMAT.md 82-83 states one rule for all
  lengths: "the adjacent pair with the lowest merge rank is merged repeatedly". Only a
  file that uses this rank is affected; the converter never writes it.
- `cli_exits`: when a thread of `bench` cannot be created, `cmd_bench` returns 4 at
  once (`main.c` 154-155). The threads it has started use jobs in its frame, and
  after `bp_vocab_close` an unmapped file. The model lets such a thread go on or
  have the process killed; main.c 3-8 promises exit codes 0 to 4. Joining the
  started threads before the return would do.
- `census_proofs`: `prove_impossible` answers `nfc-excluded` without asking whether
  the vocabulary normalizes (`bp_census.c` 257). For an image without the NFC flag,
  which the converter writes for a tokenizer without a normalizer, a token such as
  the angstrom sign's bytes and one more is called impossible although a text
  reaches it. CENSUS.md 62-64 calls all proofs sound and 134-135 says that the
  census applies to any vocabulary.

Smaller observations, without a run: a file shorter than the first section, or
one that cannot be mapped, gives `BP_E_IO` though FORMAT.md 127-128 promises
`BP_E_FORMAT` for any failure of validation (`bp_vocab.c` 58, before anything is
read); `bench` of an empty file and a report file that does not open exit with 2,
"input file I/O error"; the JSON report has a comma before its closing bracket when
the last id below the limit is unused (`bp_census.c` 731, the case that `Reported`
leaves out); a token of more than `MAX_UNITS` characters has no alignment and is
called impossible, though tokens of up to 320 bytes get there: 260 newlines and a
space, say, which a text with one more newline behind them may well hold (with the
limit scaled to 2, `ImpossibleSound` fails for two newlines and a space).

## 7. Not modelled, and why

Reading JSON, printing, escaping, flags and timing: pure I/O or data that other
modules enumerate. The CPU test of `bp_vocab.c` 23-44: `Scanner` takes both its
answers. The Unicode data themselves: `UcTables` builds and searches the arrays as
the generator and the C code do, but over a few characters, in blocks of another
size; that the arrays hold Unicode's values is the business of the generator's
hashes and of the self-test. The downloads, probes, dump and fingerprint tools keep
no state. The bit tricks of one AVX2 block are abstracted to the classes of its
bytes. Integer widths: pretokens of 2^31 bytes and more (int32 links, `bp_bpe.c`
99-100) are out of the models' range, and `Index` in `MergeLong` takes every
position to fit; the sums of the loader and strtoull's values do wrap and saturate.
`realloc` of a failed `read_all` and other leaks before `exit` are not counted:
the process ends.
