------------------------------ MODULE Pretoken ------------------------------
(***************************************************************************)
(* bp_bpe_pretoken of bp_bpe.c, with what outlives one call of it: the     *)
(* context's pretoken cache and scratch buffers, kept from one bp_encode   *)
(* to the next, and the sink of the bp_encode under way, which counts      *)
(* every id and writes those that fit.                                     *)
(*                                                                         *)
(* One step is one call of bp_bpe_pretoken, on the path the code takes.    *)
(* What the two merge engines return is the greedy encoding, which is the  *)
(* subject of MergeShort and MergeLong; here it matters who calls them.    *)
(***************************************************************************)
EXTENDS PairData, Sink, SequencesExt

CONSTANTS
  ShortMax,        \* SHORT_MAX: longest pretoken for merge_short
  CacheMaxBytes,   \* CACHE_MAX_BYTES: room for the key of an entry
  CacheMaxIds,     \* CACHE_MAX_IDS: room for the ids of an entry
  Slots,           \* number of cache entries; 0 when the cache is disabled
  Hash(_),         \* bp_hash_bytes
  WorkFirst,       \* first size of the work buffer, in nodes with their entries
  IdsFirst,        \* first size of the id scratch
  Caps,            \* capacities callers pass to bp_encode
  MaxPretokens     \* bound: pretokens of one bp_encode

ASSUME SizesAssumption ==
  /\ {ShortMax, CacheMaxBytes, CacheMaxIds, Slots, WorkFirst, IdsFirst} \subseteq Nat
  /\ WorkFirst > 0 /\ IdsFirst > 0
  /\ 2 < CacheMaxBytes /\ CacheMaxBytes <= ShortMax
  /\ Caps \subseteq Nat

ASSUME HashAssumption == \A p \in Inputs : Hash(p) \in Nat

VARIABLES
  table,    \* the pair table, never written
  cache,    \* the entries; an empty slot is the zeroed entry, of length 0
  workCap,  \* capacity of the work buffer
  idsCap,   \* capacity of the id scratch
  sink,     \* out, cap and total of the bp_encode under way
  rc,       \* "ok", or "nomem" once the bp_encode under way has failed
  given     \* the pretokens handed over by the bp_encode under way

callVars == <<table, cache, workCap, idsCap, sink, rc, given>>

NoEntry == [hash |-> 0, len |-> 0, bytes |-> <<>>, ids |-> <<>>]

\* Mutant: doubled once, not until it is enough.
GrownOnce(cap, first, need) ==
  IF cap >= need THEN cap ELSE IF cap = 0 THEN first ELSE 2 * cap

\* bp_buf_reserve and bp_ids_reserve: double from the present or first size until
\* it is enough.
Grown(cap, first, need) ==
  LET size[k \in 0..need] ==
        IF k = 0 THEN IF cap = 0 THEN first ELSE cap
        ELSE IF size[k - 1] >= need THEN size[k - 1] ELSE 2 * size[k - 1]
  IN IF cap >= need THEN cap ELSE size[need]

CallsInit ==
  /\ table \in Vocabs
  /\ cache = [s \in 0..(Slots - 1) |-> NoEntry]
  /\ workCap = 0 /\ idsCap = 0
  /\ sink \in {NewSink(cap) : cap \in Caps}
  /\ rc = "ok"
  /\ given = <<>>

\* The caller starts another bp_encode with the same context, whether the last
\* one ended or failed.
NewCall ==
  /\ sink' \in {NewSink(cap) : cap \in Caps}
  /\ rc' = "ok"
  /\ given' = <<>>
  /\ UNCHANGED <<table, cache, workCap, idsCap>>

Accepting == rc = "ok" /\ Len(given) < MaxPretokens

Give(p, ids) ==
  /\ sink' = Put(sink, ids)
  /\ given' = Append(given, p)
  /\ UNCHANGED <<table, rc>>

\* A pretoken of one byte bypasses cache and engines.
One(p) ==
  /\ Accepting /\ Len(p) = 1
  /\ Give(p, p)
  /\ UNCHANGED <<cache, workCap, idsCap>>

\* So does one of two bytes: a single lookup decides.
Two(p) ==
  /\ Accepting /\ Len(p) = 2
  /\ Give(p, IF p \in DOMAIN table THEN <<table[p].id>> ELSE p)
  /\ UNCHANGED <<cache, workCap, idsCap>>

Cacheable(p) == Slots > 0 /\ Len(p) > 2 /\ Len(p) <= CacheMaxBytes

Slot(p) == Hash(p) % Slots

\* Mutant: the hash is trusted, the bytes are not compared.
IsHitByHash(p) ==
  /\ Cacheable(p)
  /\ cache[Slot(p)].len = Len(p) /\ cache[Slot(p)].hash = Hash(p)

IsHit(p) ==
  /\ Cacheable(p)
  /\ cache[Slot(p)].len = Len(p) /\ cache[Slot(p)].hash = Hash(p)
  /\ cache[Slot(p)].bytes = p

Hit(p) ==
  /\ Accepting /\ IsHit(p)
  /\ Give(p, cache[Slot(p)].ids)
  /\ UNCHANGED <<cache, workCap, idsCap>>

\* Mutant: the ids of an entry in use are not replaced.
StoredKey(p, ids) ==
  IF Cacheable(p) /\ Len(ids) <= CacheMaxIds
  THEN [cache EXCEPT ![Slot(p)] =
          [hash |-> Hash(p), len |-> Len(p), bytes |-> p,
           ids |-> IF @.len = 0 THEN ids ELSE @.ids]]
  ELSE cache

\* The cache after p was merged to ids: the slot's entry is replaced when the
\* ids fit.
Stored(p, ids) ==
  IF Cacheable(p) /\ Len(ids) <= CacheMaxIds
  THEN [cache EXCEPT ![Slot(p)] =
          [hash |-> Hash(p), len |-> Len(p), bytes |-> p, ids |-> ids]]
  ELSE cache

Short(p) ==
  /\ Accepting /\ Len(p) \in 3..ShortMax /\ ~IsHit(p)
  /\ LET ids == Greedy(table, p)
     IN Give(p, ids) /\ cache' = Stored(p, ids)
  /\ UNCHANGED <<workCap, idsCap>>

Long(p) ==
  /\ Accepting /\ Len(p) > ShortMax
  /\ Give(p, Greedy(table, p))
  /\ workCap' = Grown(workCap, WorkFirst, Len(p))
  /\ idsCap' = Grown(idsCap, IdsFirst, Len(p))
  /\ UNCHANGED cache

\* Either reservation of merge_long fails, if it has to allocate; the work
\* buffer may have grown by then.
LongFails(p) ==
  /\ Accepting /\ Len(p) > ShortMax
  /\ \/ workCap < Len(p) /\ UNCHANGED workCap
     \/ idsCap < Len(p) /\ workCap' = Grown(workCap, WorkFirst, Len(p))
  /\ rc' = "nomem"
  /\ UNCHANGED <<table, cache, idsCap, sink, given>>

CallsNext ==
  \/ NewCall
  \/ \E p \in Inputs \cup {<<t>> : t \in Token} :
       One(p) \/ Two(p) \/ Hit(p) \/ Short(p) \/ Long(p) \/ LongFails(p)

CallsSpec == CallsInit /\ [][CallsNext]_callVars

----------------------------------------------------------------------------

CallsTypeOK ==
  /\ table \in Vocabs
  /\ DOMAIN cache = 0..(Slots - 1)
  /\ workCap \in Nat /\ idsCap \in Nat
  /\ sink \in [out : Seq(Token), cap : Caps, total : Nat]
  /\ rc \in {"ok", "nomem"}
  /\ given \in Seq(Inputs \cup {<<t>> : t \in Token})

\* An entry is empty, or holds the greedy encoding of its key.
EntryOK(s) ==
  LET e == cache[s]
  IN \/ e = NoEntry
     \/ /\ e.len = Len(e.bytes) /\ e.hash = Hash(e.bytes) /\ Slot(e.bytes) = s
        /\ e.ids = Greedy(table, e.bytes)

\* Whatever pretokens shared its slot before, a cache entry never holds ids of
\* another pretoken, nor a stale part of the entry it replaced (lines 204-210).
CacheSound == \A s \in 0..(Slots - 1) : EntryOK(s)

\* An entry's key and ids fit its arrays: the lengths are guarded at different
\* places, 187 and 204.
EntryFits ==
  \A s \in 0..(Slots - 1) :
    Len(cache[s].bytes) <= CacheMaxBytes /\ Len(cache[s].ids) <= CacheMaxIds

\* The ids of a sequence of pretokens, one after the other.
Encoded(ps) == FlattenSeq([k \in 1..Len(ps) |-> Greedy(table, ps[k])])

\* Hits, misses, collisions and earlier failed calls make no difference: the
\* sink has counted the greedy encoding of every pretoken given, and holds as
\* much of it as fits.  So a sizing call (cap 0) and the writing call after it
\* agree, whatever the first one left in the cache.
SinkOK == Holds(sink, Encoded(given))

\* merge_long never runs in buffers smaller than it asked for.
BuffersOK ==
  \A k \in 1..Len(given) :
    Len(given[k]) > ShortMax => workCap >= Len(given[k]) /\ idsCap >= Len(given[k])
=============================================================================
