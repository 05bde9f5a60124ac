------------------------------- MODULE Loader -------------------------------
(***************************************************************************)
(* bp_vocab_open and bp_vocab_close of bp_vocab.c.  A .bpv file is mapped, *)
(* checked from its header to its name, and served from the mapping until  *)
(* the handle is closed; a check that fails gives back all that the call   *)
(* has taken by then.  Each iteration of a loop over the file is a step,   *)
(* and Reads names the bytes that the next step reads: a check may rely on *)
(* nothing but the checks before it.  The matcher's tables are in Encode,  *)
(* the pair table's probes in PairTable.                                   *)
(***************************************************************************)
EXTENDS Integers, Sequences, FiniteSets

CONSTANTS
  Files,         \* what a path can lead to
  Bytes,         \* 256, the number of byte values
  FirstSection,  \* 192
  HeaderSize,    \* 136
  MaxVocab, MaxAdded, MaxLog2, MaxLen,  \* 2^21, 64, 32, 250
  Word           \* 2^64

Section == {"offsets", "blob", "pairs", "bytes", "added", "meta"}

\* The size of one element; 0 where it does not matter.
Elem == [offsets |-> 4, blob |-> 0, pairs |-> 16, bytes |-> 4, added |-> 16, meta |-> 0]

Extent == [off : 0..(Word - 1), size : 0..(Word - 1)]
Slot == [used : BOOLEAN, left : Nat, right : Nat, id : Nat]
Record == [id : Nat, offset : Nat, len : Nat]

ASSUME SizesAssumption ==
  /\ Bytes \in Nat \ {0} /\ Word \in Nat /\ MaxLen \in Nat
  /\ FirstSection \in Nat /\ HeaderSize \in 0..FirstSection

\* A section that lies in its file has the elements its size says.
ASSUME FilesAssumption ==
  \A f \in Files :
    /\ f.at \in {"no path", "nowhere", "there"} /\ f.size \in 0..(Word - 1)
    /\ f.magic \in BOOLEAN /\ f.sec \in [Section -> Extent]
    /\ {f.profile, f.vocabCount, f.addedCount, f.slotsLog2, f.nameLen} \subseteq Nat
    /\ 2 ^ f.slotsLog2 \in Nat \ {0}
    /\ f.tokOff \in Seq(Nat) /\ f.blob \in Seq(0..(Bytes - 1)) /\ f.byteId \in Seq(Nat)
    /\ f.pairs \in Seq(Slot) /\ f.added \in Seq(Record)
    /\ LET Holds(s, n) == f.sec[s].size <= f.size => f.sec[s].size <= n
       IN /\ Holds("offsets", 4 * Len(f.tokOff)) /\ Holds("blob", Len(f.blob))
          /\ Holds("pairs", 16 * Len(f.pairs)) /\ Holds("bytes", 4 * Len(f.byteId))
          /\ Holds("added", 16 * Len(f.added))

VARIABLES
  file,      \* the path's file, whose contents nobody changes
  pc,        \* the check the call has come to; "ready", "failed", "closed"
  k,         \* the iteration of its loop
  occupied,  \* slots of the pair table in use
  fd, map, handle, name,  \* what is held: descriptor, mapping, handle, name
  err

lvars == <<file, pc, k, occupied, fd, map, handle, name, err>>

LoaderInit ==
  /\ file \in Files /\ pc = "open" /\ k = 0 /\ occupied = 0
  /\ fd = FALSE /\ map = FALSE /\ handle = FALSE /\ name = FALSE /\ err = "ok"

----------------------------------------------------------------------------
(* What the file holds.                                                    *)

Sec(s) == file.sec[s]
Slots == 2 ^ file.slotsLog2
N == file.vocabCount

\* Words, slots and records count from 0, as in the file.
Entry(seq, n) == seq[n + 1]
TokOff(n) == Entry(file.tokOff, n)
IsByteToken(id, b) == TokOff(id + 1) - TokOff(id) = 1 /\ Entry(file.blob, TokOff(id)) = b

\* The size of a section, where the header's counts imply it.
Implied(s) ==
  CASE s = "offsets" -> 4 * (N + 1) [] s = "pairs" -> 16 * Slots [] s = "bytes" -> 4 * Bytes
    [] s = "added" -> 16 * file.addedCount [] OTHER -> Sec(s).size

\* Mutant: the end of the section is computed, and may wrap round.
SectionOKByEnd(s) ==
  /\ Sec(s).off >= FirstSection /\ Sec(s).off % 64 = 0
  /\ (Sec(s).off + Sec(s).size) % Word <= file.size
  /\ (Elem[s] # 0 => Sec(s).size % Elem[s] = 0) /\ Sec(s).size = Implied(s)

\* section_ok, with the size that is implied.
SectionOK(s) ==
  /\ Sec(s).off >= FirstSection /\ Sec(s).off % 64 = 0
  /\ Sec(s).off <= file.size /\ Sec(s).size <= file.size - Sec(s).off
  /\ (Elem[s] # 0 => Sec(s).size % Elem[s] = 0) /\ Sec(s).size = Implied(s)

End(s) == (Sec(s).off + Sec(s).size) % Word
Disjoint == \A s, t \in Section : s # t => ~(Sec(s).off < End(t) /\ Sec(t).off < End(s))

HeaderOK ==
  /\ file.magic /\ file.profile = 1
  /\ N \in 1..MaxVocab /\ file.addedCount <= MaxAdded /\ file.slotsLog2 <= MaxLog2

OffsetOK == IF k < N THEN TokOff(k) <= TokOff(k + 1) ELSE TokOff(N) <= Sec("blob").size

Used == k < Slots /\ Entry(file.pairs, k).used
PairOK ==
  IF k < Slots
  THEN Used => LET p == Entry(file.pairs, k) IN p.left < N /\ p.right < N /\ p.id < N
  ELSE occupied <= (Slots * 13) \div 20

ByteOK == Entry(file.byteId, k) < N /\ IsByteToken(Entry(file.byteId, k), k)

Added(n) == Entry(file.added, n)

\* Mutant: the record's length is not compared with the token's.
AddedOKPrefix ==
  k < file.addedCount =>
    /\ Added(k).id < N /\ Added(k).len \in 1..MaxLen
    /\ Added(k).offset = TokOff(Added(k).id)
    /\ k > 0 => Added(k).id > Added(k - 1).id

AddedOK ==
  k < file.addedCount =>
    /\ Added(k).id < N /\ Added(k).len \in 1..MaxLen
    /\ Added(k).offset = TokOff(Added(k).id)
    /\ Added(k).len = TokOff(Added(k).id + 1) - TokOff(Added(k).id)
    /\ k > 0 => Added(k).id > Added(k - 1).id

----------------------------------------------------------------------------
(* bp_vocab_open.                                                          *)

\* goto fail: the mapping is given back.
Fail(e) ==
  /\ pc' = "failed" /\ err' = e /\ map' = FALSE
  /\ UNCHANGED <<file, k, occupied, fd, handle, name>>

\* goto fail_v: the handle and its name too.
FailV(e) ==
  /\ pc' = "failed" /\ err' = e /\ map' = FALSE /\ handle' = FALSE /\ name' = FALSE
  /\ UNCHANGED <<file, k, occupied, fd>>

Open ==
  /\ pc = "open"
  /\ \/ file.at = "no path" /\ Fail("arg")
     \/ file.at # "no path" /\ Fail("io")
     \/ /\ file.at = "there" /\ fd' = TRUE /\ pc' = "stat"
        /\ UNCHANGED <<file, k, occupied, map, handle, name, err>>

\* The descriptor is closed on every way out.
Stat ==
  /\ pc = "stat" /\ fd' = FALSE
  /\ \/ pc' = "failed" /\ err' = "io" /\ UNCHANGED map
     \/ file.size >= FirstSection /\ map' = TRUE /\ pc' = "header" /\ err' = "format"
  /\ UNCHANGED <<file, k, occupied, handle, name>>

\* One iteration of a loop, which has failed, is the last, or goes on.
Check(ok, last, next) ==
  IF ~ok THEN Fail("format")
  ELSE /\ IF last THEN pc' = next /\ k' = 0 ELSE k' = k + 1 /\ UNCHANGED pc
       /\ UNCHANGED <<file, fd, map, handle, name, err>>

Header ==
  /\ pc = "header"
  /\ Check(HeaderOK /\ (\A s \in Section : SectionOK(s)) /\ Disjoint, TRUE, "offsets")
  /\ UNCHANGED occupied

Offsets == pc = "offsets" /\ Check(OffsetOK, k = N, "pairs") /\ UNCHANGED occupied

Pairs ==
  /\ pc = "pairs" /\ Check(PairOK, k = Slots, "bytes")
  /\ occupied' = IF PairOK /\ Used THEN occupied + 1 ELSE occupied

ByteIds == pc = "bytes" /\ Check(ByteOK, k + 1 = Bytes, "added") /\ UNCHANGED occupied

AddedTokens ==
  pc = "added" /\ Check(AddedOK, k >= file.addedCount, "alloc") /\ UNCHANGED occupied

Alloc ==
  /\ pc = "alloc"
  /\ \/ Sec("meta").size < 4 /\ Fail("format")
     \/ Sec("meta").size >= 4 /\ Fail("nomem")
     \/ /\ Sec("meta").size >= 4 /\ handle' = TRUE /\ pc' = "name"
        /\ UNCHANGED <<file, k, occupied, fd, map, name, err>>

\* Mutant: the handle is forgotten when its name cannot be had.
NameForgets ==
  /\ pc = "name"
  /\ \/ file.nameLen > Sec("meta").size - 4 /\ FailV("format")
     \/ file.nameLen <= Sec("meta").size - 4 /\ Fail("nomem")
     \/ /\ file.nameLen <= Sec("meta").size - 4
        /\ name' = TRUE /\ pc' = "ready" /\ err' = "ok"
        /\ UNCHANGED <<file, k, occupied, fd, map, handle>>

Name ==
  /\ pc = "name"
  /\ \/ file.nameLen > Sec("meta").size - 4 /\ FailV("format")
     \/ file.nameLen <= Sec("meta").size - 4 /\ FailV("nomem")
     \/ /\ file.nameLen <= Sec("meta").size - 4
        /\ name' = TRUE /\ pc' = "ready" /\ err' = "ok"
        /\ UNCHANGED <<file, k, occupied, fd, map, handle>>

OpenNext ==
  Open \/ Stat \/ Header \/ Offsets \/ Pairs \/ ByteIds \/ AddedTokens \/ Alloc \/ Name

\* bp_vocab_close
Close ==
  /\ pc = "ready" /\ pc' = "closed"
  /\ map' = FALSE /\ handle' = FALSE /\ name' = FALSE
  /\ UNCHANGED <<file, k, occupied, fd, err>>

LoaderSpec == LoaderInit /\ [][OpenNext \/ Close]_lvars

----------------------------------------------------------------------------

\* The bytes from..to - 1 of a section.
Read(s, from, to) == [sec |-> s, from |-> from, to |-> to]
Token(n) == {Read("offsets", 4 * n, 4 * n + 8)}
Spelling(n) == {Read("blob", TokOff(n), TokOff(n + 1))}

\* Of a handle, what encoding, decoding and the census may read with ids below
\* vocab_count.
Served ==
  (UNION {Token(n) \cup Spelling(n) : n \in 0..(N - 1)})
    \cup {Read("pairs", 0, 16 * Slots), Read("bytes", 0, 4 * Bytes)}
    \cup {Read("added", 16 * n, 16 * n + 16) : n \in 0..(file.addedCount - 1)}
    \cup {Read("blob", Added(n).offset, Added(n).offset + Added(n).len)
          : n \in 0..(file.addedCount - 1)}

\* What the next step reads behind the header.
Reads ==
  CASE pc = "offsets" -> {Read("offsets", 4 * k, IF k < N THEN 4 * k + 8 ELSE 4 * k + 4)}
    [] pc = "pairs" /\ k < Slots -> {Read("pairs", 16 * k, 16 * k + 16)}
    [] pc = "bytes" ->
         {Read("bytes", 4 * k, 4 * k + 4)}
           \cup LET id == Entry(file.byteId, k)
                IN IF id >= N THEN {} ELSE Token(id)
                     \cup IF TokOff(id + 1) - TokOff(id) = 1 THEN Spelling(id) ELSE {}
    [] pc = "added" /\ k < file.addedCount ->
         {Read("added", 16 * k, 16 * k + 16)}
           \cup IF Added(k).id < N THEN Token(Added(k).id) ELSE {}
    [] pc = "name" ->
         {Read("meta", 0, IF file.nameLen <= Sec("meta").size - 4 THEN 4 + file.nameLen ELSE 4)}
    [] pc = "ready" -> Served
    [] OTHER -> {}

\* No file makes the loader, or what is served by its handle, read out of bounds
\* (FORMAT.md 128-131): a read lies in its own section, and the sections lie
\* apart, in the mapping, which is there.
ReadsInside ==
  /\ pc = "header" => map /\ HeaderSize <= file.size
  /\ \A r \in Reads : 0 <= r.from /\ r.from <= r.to /\ r.to <= Sec(r.sec).size
  /\ Reads # {} =>
       /\ map
       /\ \A s \in Section : Sec(s).off + Sec(s).size <= file.size
       /\ \A s, t \in Section : s # t =>
            \A b \in Sec(s).off..(Sec(s).off + Sec(s).size - 1) :
              b \notin Sec(t).off..(Sec(t).off + Sec(t).size - 1)

\* What is held: a failed call has given back all it took, "no partial open"
\* (FORMAT.md 127-128), and the descriptor never outlives the call.
Released ==
  /\ pc \in {"failed", "closed"} => ~fd /\ ~map /\ ~handle /\ ~name
  /\ pc = "ready" => ~fd /\ map /\ handle /\ name
  /\ pc = "failed" => err # "ok"

\* The bytes of token n.
Spelled(n) == SubSeq(file.blob, TokOff(n) + 1, TokOff(n + 1))

\* A handle's tokens are coherent: every byte value has an id that spells it and
\* nothing else, each added token stands for all the bytes of an id of its own,
\* not for a prefix of them (lines 132-133, 142-143), and no id a lookup, a byte
\* or an added token gives is out of range.
Coherent ==
  pc = "ready" =>
    /\ \A b \in 0..(Bytes - 1) : Spelled(Entry(file.byteId, b)) = <<b>>
    /\ \A n \in 0..(file.addedCount - 1) :
         /\ Added(n).id < N
         /\ Spelled(Added(n).id)
              = SubSeq(file.blob, Added(n).offset + 1, Added(n).offset + Added(n).len)
         /\ Spelled(Added(n).id) # <<>>
         /\ \A m \in 0..(n - 1) : Added(m).id # Added(n).id
    /\ \A n \in 0..(Slots - 1) : Entry(file.pairs, n).used => Entry(file.pairs, n).id < N
    /\ \E n \in 0..(Slots - 1) : ~Entry(file.pairs, n).used
=============================================================================
