---------------------------- MODULE LoaderProofs ----------------------------
(***************************************************************************)
(* For every file: bp_vocab_open and the handle it returns read inside the *)
(* mapping, a call that fails holds nothing, and a handle's tables agree   *)
(* with one another.  The argument follows the order of the checks: when   *)
(* the call has come to one, the conditions of those before it hold, and a *)
(* loop has established its own up to the iteration it has come to.  The   *)
(* offsets are kept in order pairwise, which needs no induction over them. *)
(*                                                                         *)
(* The program around it, which takes the loader's steps and its own: what *)
(* it fills is large enough, what it reads is open, and what it answers is *)
(* the answer.  For bench, documents are numbers and every thread's turns  *)
(* are the numbers w + m * q: what is counted covers the turns before the  *)
(* one a thread has come to, and what is joined those of the threads that  *)
(* have been joined.  For decode, the numbers that have ended where        *)
(* strtoull goes on are those in ids, each in its place.                   *)
(***************************************************************************)
EXTENDS Cli, DataProofs, FiniteSetTheorems

Ready == {"name", "ready"}
AfterAdded == {"alloc"} \cup Ready
AfterBytes == {"added"} \cup AfterAdded
AfterPairs == {"bytes"} \cup AfterBytes
AfterOffsets == {"pairs"} \cup AfterPairs
AfterHeader == {"offsets"} \cup AfterOffsets

TypeOK ==
  /\ file \in Files /\ k \in Nat /\ occupied \in Nat
  /\ pc \in {"open", "stat", "header", "failed", "closed"} \cup AfterHeader

Held ==
  /\ fd <=> pc = "stat"
  /\ map <=> pc \in {"header"} \cup AfterHeader
  /\ handle <=> pc \in Ready
  /\ name <=> pc = "ready"
  /\ pc = "failed" => err # "ok"

HeaderDone == HeaderOK /\ (\A z \in Section : SectionOK(z)) /\ Disjoint

\* What each loop has established before iteration m.
OffsetsUpTo(m) == \A i \in 0..m : \A j \in i..m : TokOff(i) <= TokOff(j)

PairsUpTo(m) ==
  /\ \A j \in 0..(m - 1) : Entry(file.pairs, j).used => Entry(file.pairs, j).id < N
  /\ (\A j \in 0..(m - 1) : Entry(file.pairs, j).used) => occupied = m

BytesUpTo(m) ==
  \A b \in 0..(m - 1) : Entry(file.byteId, b) < N /\ IsByteToken(Entry(file.byteId, b), b)

AddedUpTo(m) ==
  \A j \in 0..(m - 1) :
    /\ Added(j).id < N /\ Added(j).len \in 1..MaxLen
    /\ Added(j).offset = TokOff(Added(j).id)
    /\ Added(j).len = TokOff(Added(j).id + 1) - TokOff(Added(j).id)
    /\ \A l \in 0..(j - 1) : Added(l).id < Added(j).id

Checks ==
  /\ pc \in {"header"} \cup AfterHeader => file.size >= FirstSection
  /\ pc \in AfterHeader => HeaderDone
  /\ pc = "offsets" => k <= N /\ OffsetsUpTo(k)
  /\ pc \in AfterOffsets => OffsetsUpTo(N) /\ TokOff(N) <= Sec("blob").size
  /\ pc = "pairs" => k <= Slots /\ PairsUpTo(k)
  /\ pc \in AfterPairs => PairsUpTo(Slots) /\ occupied <= (Slots * 13) \div 20
  /\ pc = "bytes" => k < Bytes /\ BytesUpTo(k)
  /\ pc \in AfterBytes => BytesUpTo(Bytes)
  /\ pc = "added" => k <= file.addedCount /\ AddedUpTo(k)
  /\ pc \in AfterAdded => AddedUpTo(file.addedCount)
  /\ pc \in Ready => Sec("meta").size >= 4
  /\ pc = "ready" => file.nameLen <= Sec("meta").size - 4
  /\ pc \in {"open", "stat", "header", "alloc"} => k = 0
  /\ pc \in {"open", "stat", "header", "offsets"} => occupied = 0

IInv == TypeOK /\ Held /\ Checks

----------------------------------------------------------------------------

\* The file and its counts are what FilesAssumption says.
LEMMA FileTypes ==
  ASSUME TypeOK
  PROVE /\ N \in Nat /\ Slots \in Nat \ {0} /\ file.addedCount \in Nat /\ file.nameLen \in Nat
        /\ file.size \in 0..(Word - 1) /\ Word \in Nat
        /\ \A z \in Section : Sec(z).off \in Nat /\ Sec(z).size \in Nat
        /\ file.tokOff \in Seq(Nat) /\ file.blob \in Seq(0..(Bytes - 1))
        /\ file.byteId \in Seq(Nat) /\ file.pairs \in Seq(Slot) /\ file.added \in Seq(Record)
<1>1. file \in Files BY DEF TypeOK
<1>2. Word \in Nat BY SizesAssumption
<1>3. /\ file.size \in 0..(Word - 1) /\ file.sec \in [Section -> Extent]
      /\ {file.profile, file.vocabCount, file.addedCount, file.slotsLog2, file.nameLen}
           \subseteq Nat
      /\ 2 ^ file.slotsLog2 \in Nat \ {0}
      /\ file.tokOff \in Seq(Nat) /\ file.blob \in Seq(0..(Bytes - 1))
      /\ file.byteId \in Seq(Nat) /\ file.pairs \in Seq(Slot) /\ file.added \in Seq(Record)
  BY <1>1, FilesAssumption, Zenon
<1>4. N \in Nat /\ file.addedCount \in Nat /\ file.nameLen \in Nat BY <1>3 DEF N
<1>5. Slots \in Nat \ {0} BY <1>3 DEF Slots
<1>6. \A z \in Section : Sec(z).off \in Nat /\ Sec(z).size \in Nat
  <2> TAKE z \in Section
  <2>1. file.sec[z] \in Extent BY <1>3, Zenon
  <2>2. file.sec[z].off \in 0..(Word - 1) /\ file.sec[z].size \in 0..(Word - 1)
    BY <2>1 DEF Extent
  <2> QED BY <1>2, <2>2 DEF Sec
<1> QED BY <1>2, <1>3, <1>4, <1>5, <1>6

\* Past the header, the words, slots and records the counts promise are there.
LEMMA Elements ==
  ASSUME TypeOK, HeaderDone
  PROVE /\ \A z \in Section : Sec(z).size <= file.size
        /\ Sec("offsets").size = 4 * (N + 1) /\ Sec("pairs").size = 16 * Slots
        /\ Sec("bytes").size = 4 * Bytes /\ Sec("added").size = 16 * file.addedCount
        /\ \A j \in 0..N : TokOff(j) \in Nat
        /\ \A j \in 0..(Slots - 1) : Entry(file.pairs, j) \in Slot
        /\ \A j \in 0..(Bytes - 1) : Entry(file.byteId, j) \in Nat
        /\ \A j \in 0..(file.addedCount - 1) : Entry(file.added, j) \in Record
        /\ Sec("blob").size <= Len(file.blob)
<1>1. \A z \in Section : Sec(z).size <= file.size
  <2> TAKE z \in Section
  <2>1. Sec(z).off <= file.size /\ Sec(z).size <= file.size - Sec(z).off
    BY DEF HeaderDone, SectionOK
  <2>2. Sec(z).off \in Nat /\ Sec(z).size \in Nat /\ file.size \in Int BY FileTypes
  <2> QED BY <2>1, <2>2
<1>2. /\ Sec("offsets").size = 4 * (N + 1) /\ Sec("pairs").size = 16 * Slots
      /\ Sec("bytes").size = 4 * Bytes /\ Sec("added").size = 16 * file.addedCount
  BY DEF HeaderDone, SectionOK, Implied, Section
<1>3. /\ 4 * (N + 1) <= 4 * Len(file.tokOff) /\ 16 * Slots <= 16 * Len(file.pairs)
      /\ 4 * Bytes <= 4 * Len(file.byteId) /\ 16 * file.addedCount <= 16 * Len(file.added)
      /\ Sec("blob").size <= Len(file.blob)
  <2>1. file \in Files BY DEF TypeOK
  <2> QED BY <1>1, <1>2, <2>1, FilesAssumption DEF Sec, Section
<1>4. N + 1 <= Len(file.tokOff)
  <2>1. N + 1 \in Nat /\ Len(file.tokOff) \in Nat BY FileTypes
  <2>2. 4 * (N + 1) <= 4 * Len(file.tokOff) BY <1>3
  <2> QED BY <2>1, <2>2
<1>5. Slots <= Len(file.pairs)
  <2>1. Slots \in Nat /\ Len(file.pairs) \in Nat BY FileTypes
  <2>2. 16 * Slots <= 16 * Len(file.pairs) BY <1>3
  <2> QED BY <2>1, <2>2
<1>6. Bytes <= Len(file.byteId) /\ Bytes \in Nat
  <2>1. Bytes \in Nat /\ Len(file.byteId) \in Nat BY FileTypes, SizesAssumption
  <2>2. 4 * Bytes <= 4 * Len(file.byteId) BY <1>3
  <2> QED BY <2>1, <2>2
<1>7. file.addedCount <= Len(file.added)
  <2>1. file.addedCount \in Nat /\ Len(file.added) \in Nat BY FileTypes
  <2>2. 16 * file.addedCount <= 16 * Len(file.added) BY <1>3
  <2> QED BY <2>1, <2>2
<1>8. \A j \in 0..N : TokOff(j) \in Nat
  <2> SUFFICES ASSUME NEW j \in 0..N PROVE file.tokOff[j + 1] \in Nat BY DEF TokOff, Entry
  <2>1. N \in Nat /\ file.tokOff \in Seq(Nat) BY FileTypes
  <2>2. j + 1 \in 1..Len(file.tokOff) BY <1>4, <2>1
  <2> QED BY <2>1, <2>2
<1>9. \A j \in 0..(Slots - 1) : Entry(file.pairs, j) \in Slot BY <1>5, FileTypes DEF Entry
<1>10. \A j \in 0..(Bytes - 1) : Entry(file.byteId, j) \in Nat
  <2> SUFFICES ASSUME NEW j \in 0..(Bytes - 1) PROVE file.byteId[j + 1] \in Nat BY DEF Entry
  <2>1. j + 1 \in 1..Len(file.byteId) BY <1>6, FileTypes
  <2>2. file.byteId \in Seq(Nat) BY FileTypes
  <2> QED BY <2>1, <2>2
<1>11. \A j \in 0..(file.addedCount - 1) : Entry(file.added, j) \in Record
  BY <1>7, FileTypes DEF Entry
<1> QED BY <1>1, <1>2, <1>3, <1>8, <1>9, <1>10, <1>11

\* The record's fields, and a slot's, are numbers.
LEMMA Fields ==
  /\ \A r \in Record : r.id \in Nat /\ r.offset \in Nat /\ r.len \in Nat
  /\ \A p \in Slot : p.id \in Nat /\ p.used \in BOOLEAN
BY DEF Record, Slot

LEMMA Starts == LoaderInit => IInv
BY DEF LoaderInit, IInv, TypeOK, Held, Checks, AfterHeader, AfterOffsets, AfterPairs,
       AfterBytes, AfterAdded, Ready

\* What depends on the file alone stays as it is.
LEMMA Same ==
  ASSUME file' = file
  PROVE /\ N' = N /\ Slots' = Slots /\ HeaderDone' = HeaderDone
        /\ Sec("blob")' = Sec("blob") /\ Sec("meta")' = Sec("meta")
        /\ (TokOff(N) <= Sec("blob").size)' = (TokOff(N) <= Sec("blob").size)
        /\ OffsetsUpTo(N)' = OffsetsUpTo(N) /\ BytesUpTo(Bytes)' = BytesUpTo(Bytes)
        /\ AddedUpTo(file.addedCount)' = AddedUpTo(file.addedCount)
        /\ occupied' = occupied => PairsUpTo(Slots)' = PairsUpTo(Slots)
<1>1. N' = N /\ Slots' = Slots BY DEF N, Slots
<1>2. Sec("blob")' = Sec("blob") /\ Sec("meta")' = Sec("meta") BY DEF Sec
<1>3. HeaderDone' = HeaderDone
  BY <1>1 DEF HeaderDone, HeaderOK, SectionOK, Disjoint, End, Implied, Sec
<1>4. (TokOff(N) <= Sec("blob").size)' = (TokOff(N) <= Sec("blob").size)
  BY <1>1, <1>2 DEF TokOff, Entry
<1>5. OffsetsUpTo(N)' = OffsetsUpTo(N) BY <1>1 DEF OffsetsUpTo, TokOff, Entry
<1>6. BytesUpTo(Bytes)' = BytesUpTo(Bytes)
  BY <1>1 DEF BytesUpTo, IsByteToken, TokOff, Entry
<1>7. AddedUpTo(file.addedCount)' = AddedUpTo(file.addedCount)
  BY <1>1 DEF AddedUpTo, Added, TokOff, Entry
<1>8. occupied' = occupied => PairsUpTo(Slots)' = PairsUpTo(Slots)
  BY <1>1 DEF PairsUpTo, Entry
<1> QED BY <1>1, <1>2, <1>3, <1>4, <1>5, <1>6, <1>7, <1>8

\* A call that fails, before the handle is there or after, keeps the invariant.
LEMMA Failing ==
  ASSUME IInv, pc \notin {"stat"}, pc' = "failed", err' # "ok", map' = FALSE,
         UNCHANGED <<file, k, occupied, fd>>,
         (pc \notin Ready /\ UNCHANGED <<handle, name>>) \/ (handle' = FALSE /\ name' = FALSE)
  PROVE IInv'
BY DEF IInv, TypeOK, Held, Checks, AfterHeader, AfterOffsets, AfterPairs,
       AfterBytes, AfterAdded, Ready

LEMMA OpenKeeps == ASSUME IInv, Open PROVE IInv'
<1>1. CASE Fail("arg") \/ Fail("io")
  BY <1>1, Failing DEF Open, Fail, Ready
<1>2. CASE fd' = TRUE /\ pc' = "stat" /\ UNCHANGED <<file, k, occupied, map, handle, name, err>>
  BY <1>2 DEF Open, IInv, TypeOK, Held, Checks, AfterHeader, AfterOffsets, AfterPairs,
       AfterBytes, AfterAdded, Ready
<1> QED BY <1>1, <1>2 DEF Open

LEMMA StatKeeps == ASSUME IInv, Stat PROVE IInv'
BY DEF Stat, IInv, TypeOK, Held, Checks, AfterHeader, AfterOffsets, AfterPairs,
       AfterBytes, AfterAdded, Ready

LEMMA HeaderKeeps == ASSUME IInv, Header PROVE IInv'
<1> DEFINE ok == HeaderOK /\ (\A z \in Section : SectionOK(z)) /\ Disjoint
<1>1. CASE ~ok
  BY <1>1, Failing DEF Header, Check, Fail, Ready
<1>2. CASE ok
  <2>1. /\ pc = "header" /\ pc' = "offsets" /\ k' = 0
        /\ UNCHANGED <<file, fd, map, handle, name, err, occupied>>
    BY <1>2 DEF Header, Check
  <2>2. TypeOK' /\ Held'
    BY <2>1 DEF IInv, TypeOK, Held, AfterHeader, AfterOffsets, AfterPairs, AfterBytes,
                AfterAdded, Ready
  <2>3. HeaderDone' BY <1>2, <2>1, Same DEF HeaderDone
  <2>4. k' <= N' BY <2>1, FileTypes, Same DEF IInv
  <2>5. OffsetsUpTo(k)'
    <3>1. \A i \in 0..k' : \A j \in i..k' : i = 0 /\ j = 0 BY <2>1
    <3>2. TokOff(0)' \in Nat
      <4>1. HeaderDone BY <1>2 DEF HeaderDone
      <4>2. TokOff(0) \in Nat BY <4>1, Elements, FileTypes DEF IInv
      <4> QED BY <2>1, <4>2 DEF TokOff, Entry
    <3> QED BY <3>1, <3>2 DEF OffsetsUpTo
  <2> QED
    BY <2>1, <2>2, <2>3, <2>4, <2>5 DEF IInv, Checks, AfterHeader, AfterOffsets, AfterPairs,
       AfterBytes, AfterAdded, Ready
<1> QED BY <1>1, <1>2

LEMMA OffsetsKeep == ASSUME IInv, Offsets PROVE IInv'
<1>1. CASE ~OffsetOK
  BY <1>1, Failing DEF Offsets, Check, Fail, Ready
<1>2. CASE OffsetOK
  <2>1. pc = "offsets" /\ UNCHANGED <<file, fd, map, handle, name, err, occupied>>
    BY <1>2 DEF Offsets, Check
  <2>2. HeaderDone /\ k \in Nat /\ k <= N /\ OffsetsUpTo(k) /\ N \in Nat
    BY <2>1, FileTypes DEF IInv, TypeOK, Checks, AfterHeader
  <2>3. \A j \in 0..N : TokOff(j) \in Nat BY <2>2, Elements DEF IInv
  <2>4. CASE k = N
    <3>1. pc' = "pairs" /\ k' = 0 BY <1>2, <2>4 DEF Offsets, Check
    <3>2. TypeOK' /\ Held'
      BY <2>1, <3>1 DEF IInv, TypeOK, Held, AfterHeader, AfterOffsets, AfterPairs, AfterBytes,
                  AfterAdded, Ready
    <3>3. OffsetsUpTo(N) /\ TokOff(N) <= Sec("blob").size
      BY <1>2, <2>2, <2>4 DEF OffsetOK
    <3>4. k' <= Slots' BY <2>1, <3>1, FileTypes, Same DEF IInv
    <3>5. PairsUpTo(k)'
      BY <2>1, <3>1 DEF PairsUpTo, IInv, Checks
    <3> QED
      BY <2>1, <2>2, <3>1, <3>2, <3>3, <3>4, <3>5, Same
      DEF IInv, Checks, AfterHeader, AfterOffsets, AfterPairs, AfterBytes, AfterAdded, Ready
  <2>5. CASE k # N
    <3>1. pc' = pc /\ k' = k + 1 BY <1>2, <2>5 DEF Offsets, Check
    <3>2. TypeOK' /\ Held'
      BY <2>1, <3>1 DEF IInv, TypeOK, Held, AfterHeader, AfterOffsets, AfterPairs, AfterBytes,
                  AfterAdded, Ready
    <3>3. k < N /\ TokOff(k) <= TokOff(k + 1) BY <1>2, <2>2, <2>5 DEF OffsetOK
    <3>4. \A i \in 0..(k + 1) : \A j \in i..(k + 1) : TokOff(i) <= TokOff(j)
      <4> TAKE i \in 0..(k + 1)
      <4> TAKE j \in i..(k + 1)
      <4>2. CASE j <= k BY <2>2, <4>2 DEF OffsetsUpTo
      <4>3. CASE j = k + 1 /\ i <= k
        <5>1. TokOff(i) <= TokOff(k) BY <2>2, <4>3 DEF OffsetsUpTo
        <5>2. TokOff(i) \in Nat /\ TokOff(k) \in Nat /\ TokOff(k + 1) \in Nat
          BY <2>2, <2>3, <3>3, <4>3
        <5> QED BY <3>3, <4>3, <5>1, <5>2
      <4>4. CASE i = k + 1
        <5>1. j = k + 1 BY <2>2, <4>4
        <5>2. TokOff(k + 1) \in Nat BY <2>2, <2>3, <3>3
        <5> QED BY <4>4, <5>1, <5>2
      <4> QED BY <2>2, <4>2, <4>3, <4>4
    <3>5. OffsetsUpTo(k)' BY <2>1, <3>1, <3>4 DEF OffsetsUpTo, TokOff, Entry
    <3>6. k' <= N' BY <2>1, <2>2, <3>1, <3>3, Same
    <3> QED
      BY <2>1, <2>2, <3>1, <3>2, <3>5, <3>6, Same
      DEF IInv, Checks, AfterHeader, AfterOffsets, AfterPairs, AfterBytes, AfterAdded, Ready
  <2> QED BY <2>4, <2>5
<1> QED BY <1>1, <1>2

LEMMA PairsKeep == ASSUME IInv, Pairs PROVE IInv'
<1>1. CASE ~PairOK
  BY <1>1, Failing DEF Pairs, Check, Fail, Ready
<1>2. CASE PairOK
  <2>1. pc = "pairs" /\ UNCHANGED <<file, fd, map, handle, name, err>>
    BY <1>2 DEF Pairs, Check
  <2>2. /\ HeaderDone /\ k \in Nat /\ k <= Slots /\ PairsUpTo(k) /\ Slots \in Nat \ {0}
        /\ occupied \in Nat /\ OffsetsUpTo(N) /\ TokOff(N) <= Sec("blob").size
    BY <2>1, FileTypes DEF IInv, TypeOK, Checks, AfterHeader, AfterOffsets
  <2>3. CASE k = Slots
    <3>1. pc' = "bytes" /\ k' = 0 /\ occupied' = occupied
      BY <1>2, <2>2, <2>3 DEF Pairs, Check, Used
    <3>2. TypeOK' /\ Held'
      BY <2>1, <3>1 DEF IInv, TypeOK, Held, AfterHeader, AfterOffsets, AfterPairs, AfterBytes,
                  AfterAdded, Ready
    <3>3. PairsUpTo(Slots) /\ occupied <= (Slots * 13) \div 20
      BY <1>2, <2>2, <2>3 DEF PairOK
    <3>4. k' < Bytes /\ BytesUpTo(k)' BY <3>1, SizesAssumption DEF BytesUpTo
    <3> QED
      BY <2>1, <2>2, <3>1, <3>2, <3>3, <3>4, Same
      DEF IInv, Checks, AfterHeader, AfterOffsets, AfterPairs, AfterBytes, AfterAdded, Ready
  <2>4. CASE k # Slots
    <3>1. /\ pc' = pc /\ k' = k + 1 /\ k < Slots
          /\ occupied' = IF Used THEN occupied + 1 ELSE occupied
      BY <1>2, <2>2, <2>4 DEF Pairs, Check
    <3>2. TypeOK' /\ Held'
      BY <2>1, <2>2, <3>1 DEF IInv, TypeOK, Held, AfterHeader, AfterOffsets, AfterPairs,
                  AfterBytes, AfterAdded, Ready
    <3>3. Used <=> Entry(file.pairs, k).used BY <3>1 DEF Used
    <3>4. Entry(file.pairs, k).used => Entry(file.pairs, k).id < N
      BY <1>2, <3>1, <3>3 DEF PairOK
    <3>5. \A j \in 0..(k' - 1) : Entry(file.pairs, j).used => Entry(file.pairs, j).id < N
      BY <2>2, <3>1, <3>4 DEF PairsUpTo
    <3>6. (\A j \in 0..(k' - 1) : Entry(file.pairs, j).used) => occupied' = k'
      <4> SUFFICES ASSUME \A j \in 0..(k' - 1) : Entry(file.pairs, j).used
                   PROVE  occupied' = k'
        OBVIOUS
      <4>1. \A j \in 0..(k - 1) : Entry(file.pairs, j).used BY <2>2, <3>1
      <4>2. Entry(file.pairs, k).used BY <2>2, <3>1
      <4>3. occupied = k BY <2>2, <4>1 DEF PairsUpTo
      <4> QED BY <3>1, <3>3, <4>2, <4>3
    <3>7. PairsUpTo(k)' BY <2>1, <3>5, <3>6, Same DEF PairsUpTo, Entry
    <3>8. k' <= Slots' BY <2>1, <2>2, <3>1, Same
    <3> QED
      BY <2>1, <2>2, <3>1, <3>2, <3>7, <3>8, Same
      DEF IInv, Checks, AfterHeader, AfterOffsets, AfterPairs, AfterBytes, AfterAdded, Ready
  <2> QED BY <2>3, <2>4
<1> QED BY <1>1, <1>2

LEMMA ByteIdsKeep == ASSUME IInv, ByteIds PROVE IInv'
<1>1. CASE ~ByteOK
  BY <1>1, Failing DEF ByteIds, Check, Fail, Ready
<1>2. CASE ByteOK
  <2>1. pc = "bytes" /\ UNCHANGED <<file, fd, map, handle, name, err, occupied>>
    BY <1>2 DEF ByteIds, Check
  <2>2. /\ HeaderDone /\ k \in Nat /\ k < Bytes /\ BytesUpTo(k) /\ Bytes \in Nat
        /\ OffsetsUpTo(N) /\ TokOff(N) <= Sec("blob").size
        /\ PairsUpTo(Slots) /\ occupied <= (Slots * 13) \div 20
    BY <2>1, SizesAssumption
    DEF IInv, TypeOK, Checks, AfterHeader, AfterOffsets, AfterPairs
  <2>3. \A b \in 0..k : Entry(file.byteId, b) < N /\ IsByteToken(Entry(file.byteId, b), b)
    BY <1>2, <2>2 DEF ByteOK, BytesUpTo
  <2>4. (occupied <= (Slots * 13) \div 20)' BY <2>1, <2>2 DEF Slots
  <2>5. CASE k + 1 = Bytes
    <3>1. pc' = "added" /\ k' = 0 BY <1>2, <2>5 DEF ByteIds, Check
    <3>2. TypeOK' /\ Held'
      BY <2>1, <3>1 DEF IInv, TypeOK, Held, AfterHeader, AfterOffsets, AfterPairs, AfterBytes,
                  AfterAdded, Ready
    <3>3. BytesUpTo(Bytes) BY <2>2, <2>3, <2>5 DEF BytesUpTo
    <3>4. (k <= file.addedCount)' BY <2>1, <3>1, FileTypes DEF IInv
    <3>5. AddedUpTo(k)' BY <3>1 DEF AddedUpTo
    <3> QED
      BY <2>1, <2>2, <2>4, <3>1, <3>2, <3>3, <3>4, <3>5, Same
      DEF IInv, Checks, AfterHeader, AfterOffsets, AfterPairs, AfterBytes, AfterAdded, Ready
  <2>6. CASE k + 1 # Bytes
    <3>1. pc' = pc /\ k' = k + 1 BY <1>2, <2>6 DEF ByteIds, Check
    <3>2. TypeOK' /\ Held'
      BY <2>1, <2>2, <3>1 DEF IInv, TypeOK, Held, AfterHeader, AfterOffsets, AfterPairs,
                  AfterBytes, AfterAdded, Ready
    <3>3. BytesUpTo(k + 1) BY <2>2, <2>3 DEF BytesUpTo
    <3>4. BytesUpTo(k)'
      BY <2>1, <3>1, <3>3, Same DEF BytesUpTo, IsByteToken, TokOff, Entry
    <3>5. k' < Bytes BY <2>2, <2>6, <3>1
    <3> QED
      BY <2>1, <2>2, <2>4, <3>1, <3>2, <3>4, <3>5, Same
      DEF IInv, Checks, AfterHeader, AfterOffsets, AfterPairs, AfterBytes, AfterAdded, Ready
  <2> QED BY <2>5, <2>6
<1> QED BY <1>1, <1>2

LEMMA AddedKeep == ASSUME IInv, AddedTokens PROVE IInv'
<1>1. CASE ~AddedOK
  BY <1>1, Failing DEF AddedTokens, Check, Fail, Ready
<1>2. CASE AddedOK
  <2>1. pc = "added" /\ UNCHANGED <<file, fd, map, handle, name, err, occupied>>
    BY <1>2 DEF AddedTokens, Check
  <2>2. /\ HeaderDone /\ k \in Nat /\ k <= file.addedCount /\ AddedUpTo(k)
        /\ file.addedCount \in Nat /\ OffsetsUpTo(N) /\ TokOff(N) <= Sec("blob").size
        /\ PairsUpTo(Slots) /\ BytesUpTo(Bytes) /\ N \in Nat
    BY <2>1, FileTypes
    DEF IInv, TypeOK, Checks, AfterHeader, AfterOffsets, AfterPairs, AfterBytes
  <2>3. occupied <= (Slots * 13) \div 20 /\ (occupied <= (Slots * 13) \div 20)'
    <3>1. occupied <= (Slots * 13) \div 20
      BY <2>1 DEF IInv, Checks, AfterPairs, AfterBytes
    <3> QED BY <2>1, <3>1 DEF Slots
  <2>4. CASE k >= file.addedCount
    <3>1. pc' = "alloc" /\ k' = 0 BY <1>2, <2>4 DEF AddedTokens, Check
    <3>2. TypeOK' /\ Held'
      BY <2>1, <3>1 DEF IInv, TypeOK, Held, AfterHeader, AfterOffsets, AfterPairs, AfterBytes,
                  AfterAdded, Ready
    <3>3. k = file.addedCount BY <2>2, <2>4
    <3>4. AddedUpTo(file.addedCount) BY <2>2, <3>3
    <3> QED
      BY <2>1, <2>2, <2>3, <3>1, <3>2, <3>4, Same
      DEF IInv, Checks, AfterHeader, AfterOffsets, AfterPairs, AfterBytes, AfterAdded, Ready
  <2>5. CASE k < file.addedCount
    <3>1. pc' = pc /\ k' = k + 1 BY <1>2, <2>2, <2>5 DEF AddedTokens, Check
    <3>2. TypeOK' /\ Held'
      BY <2>1, <2>2, <3>1 DEF IInv, TypeOK, Held, AfterHeader, AfterOffsets, AfterPairs,
                  AfterBytes, AfterAdded, Ready
    <3>3. AddedOK /\ k < file.addedCount BY <1>2, <2>5
    <3>4. \A j \in 0..k : Added(j).id \in Nat
      BY <2>2, <2>5, Elements, Fields DEF IInv, Added
    <3>5. \A l \in 0..(k - 1) : Added(l).id < Added(k).id
      <4> SUFFICES ASSUME NEW l \in 0..(k - 1) PROVE Added(l).id < Added(k).id OBVIOUS
      <4>1. k - 1 \in 0..(k - 1) /\ k > 0 BY <2>2
      <4>2. Added(k).id > Added(k - 1).id BY <3>3, <4>1 DEF AddedOK
      <4>3. CASE l = k - 1 BY <3>4, <4>1, <4>2, <4>3, <2>2
      <4>4. CASE l # k - 1
        <5>1. l \in 0..((k - 1) - 1) BY <2>2, <4>4
        <5>2. Added(l).id < Added(k - 1).id BY <2>2, <4>1, <5>1 DEF AddedUpTo
        <5>3. Added(l).id \in Nat /\ Added(k - 1).id \in Nat /\ Added(k).id \in Nat
          BY <2>2, <3>4, <4>1
        <5> QED BY <4>2, <5>2, <5>3
      <4> QED BY <4>3, <4>4
    <3>6. AddedUpTo(k + 1)
      <4> SUFFICES ASSUME NEW j \in 0..k
                   PROVE  /\ Added(j).id < N /\ Added(j).len \in 1..MaxLen
                          /\ Added(j).offset = TokOff(Added(j).id)
                          /\ Added(j).len = TokOff(Added(j).id + 1) - TokOff(Added(j).id)
                          /\ \A l \in 0..(j - 1) : Added(l).id < Added(j).id
        BY <2>2 DEF AddedUpTo
      <4>1. CASE j = k BY <3>3, <3>5, <4>1 DEF AddedOK
      <4>2. CASE j # k
        <5>1. j \in 0..(k - 1) BY <2>2, <4>2
        <5> QED BY <2>2, <5>1 DEF AddedUpTo
      <4> QED BY <4>1, <4>2
    <3>7. AddedUpTo(k)'
      BY <2>1, <3>1, <3>6, Same DEF AddedUpTo, Added, TokOff, Entry
    <3>8. (k <= file.addedCount)' BY <2>1, <2>2, <2>5, <3>1
    <3> QED
      BY <2>1, <2>2, <2>3, <3>1, <3>2, <3>7, <3>8, Same
      DEF IInv, Checks, AfterHeader, AfterOffsets, AfterPairs, AfterBytes, AfterAdded, Ready
  <2> QED BY <2>2, <2>4, <2>5
<1> QED BY <1>1, <1>2

LEMMA AllocKeeps == ASSUME IInv, Alloc PROVE IInv'
<1>1. CASE Fail("format") \/ Fail("nomem")
  BY <1>1, Failing DEF Alloc, Fail, Ready
<1>2. CASE /\ Sec("meta").size >= 4 /\ handle' = TRUE /\ pc' = "name"
           /\ UNCHANGED <<file, k, occupied, fd, map, name, err>>
  <2>1. (occupied <= (Slots * 13) \div 20)'
    BY <1>2 DEF Alloc, Slots, IInv, Checks, AfterPairs, AfterBytes, AfterAdded
  <2> QED
    BY <1>2, <2>1, Same
    DEF Alloc, IInv, TypeOK, Held, Checks, AfterHeader, AfterOffsets, AfterPairs, AfterBytes,
        AfterAdded, Ready
<1> QED BY <1>1, <1>2 DEF Alloc

LEMMA NameKeeps == ASSUME IInv, Name PROVE IInv'
<1>1. CASE FailV("format") \/ FailV("nomem")
  BY <1>1, Failing DEF Name, FailV, Ready
<1>2. CASE /\ file.nameLen <= Sec("meta").size - 4
           /\ name' = TRUE /\ pc' = "ready" /\ err' = "ok"
           /\ UNCHANGED <<file, k, occupied, fd, map, handle>>
  <2>1. (occupied <= (Slots * 13) \div 20)'
    BY <1>2 DEF Name, Slots, IInv, Checks, AfterPairs, AfterBytes, AfterAdded, Ready
  <2>2. (file.nameLen <= Sec("meta").size - 4)' BY <1>2, Same
  <2> QED
    BY <1>2, <2>1, <2>2, Same
    DEF Name, IInv, TypeOK, Held, Checks, AfterHeader, AfterOffsets, AfterPairs, AfterBytes,
        AfterAdded, Ready
<1> QED BY <1>1, <1>2 DEF Name

LEMMA CloseKeeps == ASSUME IInv, Close PROVE IInv'
BY DEF Close, IInv, TypeOK, Held, Checks, AfterHeader, AfterOffsets, AfterPairs,
       AfterBytes, AfterAdded, Ready

LEMMA StutterKeeps == ASSUME IInv, UNCHANGED lvars PROVE IInv'
<1>1. (occupied <= (Slots * 13) \div 20)' = (occupied <= (Slots * 13) \div 20)
  BY DEF lvars, Slots
<1>2. OffsetsUpTo(k)' = OffsetsUpTo(k) /\ PairsUpTo(k)' = PairsUpTo(k)
  BY DEF lvars, OffsetsUpTo, PairsUpTo, TokOff, Entry, N
<1>3. BytesUpTo(k)' = BytesUpTo(k) /\ AddedUpTo(k)' = AddedUpTo(k)
  BY DEF lvars, BytesUpTo, AddedUpTo, IsByteToken, Added, TokOff, Entry, N
<1> QED
  BY <1>1, <1>2, <1>3, Same
  DEF lvars, IInv, TypeOK, Held, Checks, AfterHeader, AfterOffsets, AfterPairs, AfterBytes,
      AfterAdded, Ready

LEMMA Inductive == IInv /\ [OpenNext \/ Close]_lvars => IInv'
BY OpenKeeps, StatKeeps, HeaderKeeps, OffsetsKeep, PairsKeep, ByteIdsKeep, AddedKeep,
   AllocKeeps, NameKeeps, CloseKeeps, StutterKeeps DEF OpenNext

LEMMA Invariant == LoaderSpec => []IInv
BY Starts, Inductive, PTL DEF LoaderSpec

\* What is held (FORMAT.md 127-128): every failing call has given back the
\* mapping, the handle and the name, and no call leaves the descriptor open.
THEOREM LoaderReleases == LoaderSpec => []Released
<1>1. IInv => Released BY DEF IInv, Held, Released, AfterHeader, AfterOffsets, AfterPairs,
                              AfterBytes, AfterAdded, Ready
<1> QED BY <1>1, Invariant, PTL

----------------------------------------------------------------------------

\* An added token, or one in range, is spelled inside the blob.
LEMMA Spells ==
  ASSUME TypeOK, HeaderDone, OffsetsUpTo(N), TokOff(N) <= Sec("blob").size,
         NEW w \in Nat, w < N
  PROVE /\ TokOff(w) \in Nat /\ TokOff(w + 1) \in Nat /\ TokOff(w) <= TokOff(w + 1)
        /\ TokOff(w + 1) <= Sec("blob").size /\ Sec("blob").size \in Nat
<1>1. N \in Nat BY FileTypes
<1>2. w \in 0..N /\ w + 1 \in w..N /\ w + 1 \in 0..N /\ N \in (w + 1)..N BY <1>1
<1>3. TokOff(w) \in Nat /\ TokOff(w + 1) \in Nat /\ TokOff(N) \in Nat
  BY <1>1, <1>2, Elements
<1>4. TokOff(w) <= TokOff(w + 1) /\ TokOff(w + 1) <= TokOff(N)
  BY <1>2 DEF OffsetsUpTo
<1>5. Sec("blob").size \in Nat BY FileTypes DEF Section
<1> QED BY <1>3, <1>4, <1>5

LEMMA OneByte ==
  ASSUME NEW S, NEW q \in Seq(S), NEW i \in 1..Len(q)
  PROVE  SubSeq(q, i, i) = <<q[i]>>
<1>1. /\ SubSeq(q, i, i) \in Seq(S) /\ Len(SubSeq(q, i, i)) = 1
      /\ SubSeq(q, i, i)[1] = q[i]
  <2>1. \A j \in i..i : q[j] \in S OBVIOUS
  <2>2. /\ SubSeq(q, i, i) \in Seq(S)
        /\ Len(SubSeq(q, i, i)) = IF i <= i THEN i - i + 1 ELSE 0
        /\ \A j \in 1..(i - i + 1) : SubSeq(q, i, i)[j] = q[i + j - 1]
    BY <2>1, SubSeqProperties
  <2> QED BY <2>2
<1>2. <<q[i]>> \in Seq(S) /\ Len(<<q[i]>>) = 1 /\ <<q[i]>>[1] = q[i] OBVIOUS
<1>3. \A j \in 1..Len(SubSeq(q, i, i)) : SubSeq(q, i, i)[j] = <<q[i]>>[j] BY <1>1, <1>2
<1> QED BY <1>1, <1>2, <1>3, SeqEqual

\* The tokens the vocabulary has been checked for are coherent with one another:
\* every byte has an id that spells it, and an added token is all of an id.
THEOREM LoaderCoheres == LoaderSpec => []Coherent
<1>1. ASSUME IInv PROVE Coherent
  <2> SUFFICES ASSUME pc = "ready"
      PROVE /\ \A b \in 0..(Bytes - 1) : Spelled(Entry(file.byteId, b)) = <<b>>
            /\ \A w \in 0..(file.addedCount - 1) :
                 /\ Added(w).id < N
                 /\ Spelled(Added(w).id)
                      = SubSeq(file.blob, Added(w).offset + 1, Added(w).offset + Added(w).len)
                 /\ Spelled(Added(w).id) # <<>>
                 /\ \A m \in 0..(w - 1) : Added(m).id # Added(w).id
            /\ \A w \in 0..(Slots - 1) :
                 Entry(file.pairs, w).used => Entry(file.pairs, w).id < N
            /\ \E w \in 0..(Slots - 1) : ~Entry(file.pairs, w).used
    BY DEF Coherent
  <2>1. /\ TypeOK /\ HeaderDone /\ OffsetsUpTo(N) /\ TokOff(N) <= Sec("blob").size
        /\ PairsUpTo(Slots) /\ occupied <= (Slots * 13) \div 20
        /\ BytesUpTo(Bytes) /\ AddedUpTo(file.addedCount)
    BY <1>1 DEF IInv, Checks, AfterHeader, AfterOffsets, AfterPairs, AfterBytes, AfterAdded,
                Ready
  <2>2. Sec("blob").size <= Len(file.blob) /\ Len(file.blob) \in Nat
    <3>1. Sec("blob").size <= Len(file.blob) BY <2>1, Elements
    <3>2. file.blob \in Seq(0..(Bytes - 1)) BY <2>1, FileTypes
    <3> QED BY <3>1, <3>2
  <2>3. ASSUME NEW b \in 0..(Bytes - 1) PROVE Spelled(Entry(file.byteId, b)) = <<b>>
    <3> DEFINE id == Entry(file.byteId, b)
    <3>1. id \in Nat /\ id < N /\ IsByteToken(id, b) BY <2>1, <2>3, Elements DEF BytesUpTo
    <3> HIDE DEF id
    <3>2. /\ TokOff(id) \in Nat /\ TokOff(id + 1) = TokOff(id) + 1
          /\ TokOff(id) + 1 <= Len(file.blob)
      <4>1. TokOff(id) \in Nat /\ TokOff(id + 1) \in Nat /\ TokOff(id + 1) <= Sec("blob").size
            /\ Sec("blob").size \in Nat
        BY <2>1, <3>1, Spells
      <4>2. TokOff(id + 1) - TokOff(id) = 1 BY <3>1 DEF IsByteToken
      <4> QED BY <2>2, <4>1, <4>2
    <3>3. file.blob[TokOff(id) + 1] = b BY <3>1 DEF IsByteToken, Entry
    <3>4. file.blob \in Seq(0..(Bytes - 1)) BY <2>1, FileTypes
    <3>5. SubSeq(file.blob, TokOff(id) + 1, TokOff(id) + 1) = <<file.blob[TokOff(id) + 1]>>
      BY <3>2, <3>4, OneByte
    <3> QED BY <3>2, <3>3, <3>5 DEF Spelled, id
  <2>4. ASSUME NEW w \in 0..(file.addedCount - 1)
        PROVE /\ Added(w).id < N
              /\ Spelled(Added(w).id)
                   = SubSeq(file.blob, Added(w).offset + 1, Added(w).offset + Added(w).len)
              /\ Spelled(Added(w).id) # <<>>
              /\ \A m \in 0..(w - 1) : Added(m).id # Added(w).id
    <3> DEFINE id == Added(w).id
    <3>1. id \in Nat /\ Added(w).len \in Nat
      BY <2>1, Elements, Fields DEF Added
    <3>2. /\ id < N /\ Added(w).len \in 1..MaxLen /\ Added(w).offset = TokOff(id)
          /\ Added(w).len = TokOff(id + 1) - TokOff(id)
          /\ \A l \in 0..(w - 1) : Added(l).id < id
      BY <2>1 DEF AddedUpTo
    <3>3. \A m \in 0..(w - 1) : Added(m).id # id
      <4> SUFFICES ASSUME NEW m \in 0..(w - 1) PROVE Added(m).id # id OBVIOUS
      <4>1. Added(m).id < id BY <3>2
      <4>2. m \in 0..(file.addedCount - 1)
        <5>1. file.addedCount \in Nat BY <2>1, FileTypes
        <5> QED BY <2>4, <5>1
      <4>3. Added(m).id \in Nat BY <2>1, <4>2, Elements, Fields DEF Added
      <4> QED BY <3>1, <4>1, <4>3
    <3> HIDE DEF id
    <3>4. TokOff(id) \in Nat /\ TokOff(id + 1) \in Nat /\ TokOff(id + 1) <= Len(file.blob)
      <4>1. TokOff(id) \in Nat /\ TokOff(id + 1) \in Nat /\ TokOff(id + 1) <= Sec("blob").size
            /\ Sec("blob").size \in Nat
        BY <2>1, <3>1, <3>2, Spells
      <4> QED BY <2>2, <4>1
    <3>5. Added(w).offset + Added(w).len = TokOff(id + 1) BY <3>1, <3>2, <3>4
    <3>6. Spelled(id) = SubSeq(file.blob, Added(w).offset + 1, Added(w).offset + Added(w).len)
      BY <3>2, <3>5 DEF Spelled
    <3>7. Spelled(id) # <<>>
      <4>1. TokOff(id) + 1 <= TokOff(id + 1)
        <5>1. Added(w).len >= 1 BY <3>1, <3>2, SizesAssumption
        <5> QED BY <3>1, <3>2, <3>4, <5>1
      <4>2. file.blob \in Seq(0..(Bytes - 1)) BY <2>1, FileTypes
      <4>3. Len(SubSeq(file.blob, TokOff(id) + 1, TokOff(id + 1))) = TokOff(id + 1) - TokOff(id)
        BY <3>4, <4>1, <4>2
      <4>4. TokOff(id + 1) - TokOff(id) # 0 BY <3>4, <4>1
      <4> QED BY <4>3, <4>4 DEF Spelled
    <3> QED BY <3>2, <3>3, <3>6, <3>7 DEF id
  <2>5. \A w \in 0..(Slots - 1) : Entry(file.pairs, w).used => Entry(file.pairs, w).id < N
    BY <2>1 DEF PairsUpTo
  <2>6. \E w \in 0..(Slots - 1) : ~Entry(file.pairs, w).used
    <3> SUFFICES ASSUME \A w \in 0..(Slots - 1) : Entry(file.pairs, w).used PROVE FALSE
      OBVIOUS
    <3>1. occupied = Slots BY <2>1 DEF PairsUpTo
    <3>2. Slots \in Nat \ {0} BY <2>1, FileTypes
    <3> QED BY <2>1, <3>1, <3>2
  <2> QED BY <2>3, <2>4, <2>5, <2>6
<1> QED BY <1>1, Invariant, PTL

----------------------------------------------------------------------------

\* The sections lie in the file, and no byte is in two of them.
LEMMA Apart ==
  ASSUME TypeOK, HeaderDone
  PROVE /\ \A z \in Section : Sec(z).off + Sec(z).size <= file.size
        /\ \A z, y \in Section : z # y =>
             \A b \in Sec(z).off..(Sec(z).off + Sec(z).size - 1) :
               b \notin Sec(y).off..(Sec(y).off + Sec(y).size - 1)
<1>1. ASSUME NEW z \in Section
      PROVE /\ Sec(z).off + Sec(z).size <= file.size /\ End(z) = Sec(z).off + Sec(z).size
            /\ Sec(z).off \in Nat /\ Sec(z).size \in Nat
  <2>1. Sec(z).off <= file.size /\ Sec(z).size <= file.size - Sec(z).off
    BY DEF HeaderDone, SectionOK
  <2>2. /\ Sec(z).off \in Nat /\ Sec(z).size \in Nat /\ file.size \in 0..(Word - 1)
        /\ Word \in Nat
    BY FileTypes
  <2>3. Sec(z).off + Sec(z).size \in Nat /\ Sec(z).off + Sec(z).size < Word
    BY <2>1, <2>2
  <2>4. \A x \in Nat : x < Word => x % Word = x BY <2>2
  <2>5. (Sec(z).off + Sec(z).size) % Word = Sec(z).off + Sec(z).size BY <2>3, <2>4
  <2> QED BY <2>1, <2>2, <2>5 DEF End
<1>2. ASSUME NEW z \in Section, NEW y \in Section, z # y,
             NEW b \in Sec(z).off..(Sec(z).off + Sec(z).size - 1)
      PROVE b \notin Sec(y).off..(Sec(y).off + Sec(y).size - 1)
  <2>1. ~(Sec(z).off < End(y) /\ Sec(y).off < End(z)) BY <1>2 DEF HeaderDone, Disjoint
  <2>2. ~(Sec(z).off < Sec(y).off + Sec(y).size /\ Sec(y).off < Sec(z).off + Sec(z).size)
    BY <1>1, <2>1
  <2> QED BY <1>1, <1>2, <2>2
<1> QED BY <1>1, <1>2

\* A read of a token's two offsets, or of its spelling.
LEMMA TokenReads ==
  ASSUME TypeOK, HeaderDone, OffsetsUpTo(N), TokOff(N) <= Sec("blob").size,
         NEW w \in Nat, w < N, NEW r \in Token(w) \cup Spelling(w)
  PROVE  0 <= r.from /\ r.from <= r.to /\ r.to <= Sec(r.sec).size
<1>1. CASE r \in Token(w)
  <2>1. r.sec = "offsets" /\ r.from = 4 * w /\ r.to = 4 * w + 8 BY <1>1 DEF Token, Read
  <2>2. Sec("offsets").size = 4 * (N + 1) /\ N \in Nat BY Elements, FileTypes
  <2> QED BY <2>1, <2>2
<1>2. CASE r \in Spelling(w)
  <2>1. r.sec = "blob" /\ r.from = TokOff(w) /\ r.to = TokOff(w + 1)
    BY <1>2 DEF Spelling, Read
  <2> QED BY <2>1, Spells
<1> QED BY <1>1, <1>2

\* What each check reads lies in its section.
LEMMA Bounded ==
  ASSUME IInv, NEW r \in Reads
  PROVE  0 <= r.from /\ r.from <= r.to /\ r.to <= Sec(r.sec).size
<1>0. TypeOK /\ Checks BY DEF IInv
<1>1. CASE pc = "offsets"
  <2>1. HeaderDone /\ k \in Nat /\ k <= N /\ N \in Nat
    BY <1>0, <1>1, FileTypes DEF Checks, AfterHeader, TypeOK
  <2>2. r.sec = "offsets" /\ r.from = 4 * k /\ r.to = (IF k < N THEN 4 * k + 8 ELSE 4 * k + 4)
    BY <1>1 DEF Reads, Read
  <2>3. Sec("offsets").size = 4 * (N + 1) BY <1>0, <2>1, Elements
  <2> QED BY <2>1, <2>2, <2>3
<1>2. CASE pc = "pairs"
  <2>1. HeaderDone /\ k \in Nat /\ Slots \in Nat
    BY <1>0, <1>2, FileTypes DEF Checks, AfterHeader, AfterOffsets, TypeOK
  <2>2. k < Slots /\ r.sec = "pairs" /\ r.from = 16 * k /\ r.to = 16 * k + 16
    BY <1>2 DEF Reads, Read
  <2>3. Sec("pairs").size = 16 * Slots BY <1>0, <2>1, Elements
  <2> QED BY <2>1, <2>2, <2>3
<1>3. CASE pc = "bytes"
  <2>1. /\ HeaderDone /\ k \in Nat /\ k < Bytes /\ Bytes \in Nat
        /\ OffsetsUpTo(N) /\ TokOff(N) <= Sec("blob").size
    BY <1>0, <1>3, SizesAssumption
    DEF Checks, AfterHeader, AfterOffsets, AfterPairs, TypeOK
  <2> DEFINE id == Entry(file.byteId, k)
  <2>2. id \in Nat BY <1>0, <2>1, Elements
  <2>3. \/ r = Read("bytes", 4 * k, 4 * k + 4)
        \/ id < N /\ r \in Token(id) \cup Spelling(id)
    <3>1. r \in {Read("bytes", 4 * k, 4 * k + 4)}
            \cup IF id >= N THEN {} ELSE Token(id)
                   \cup IF TokOff(id + 1) - TokOff(id) = 1 THEN Spelling(id) ELSE {}
      BY <1>3 DEF Reads
    <3>2. id >= N \/ id < N BY <1>0, <2>2, FileTypes
    <3> HIDE DEF id
    <3> QED BY <3>1, <3>2
  <2> HIDE DEF id
  <2>4. CASE r = Read("bytes", 4 * k, 4 * k + 4)
    <3>1. r.sec = "bytes" /\ r.from = 4 * k /\ r.to = 4 * k + 4 BY <2>4 DEF Read
    <3>2. Sec("bytes").size = 4 * Bytes BY <1>0, <2>1, Elements
    <3> QED BY <2>1, <3>1, <3>2
  <2>5. CASE id < N /\ r \in Token(id) \cup Spelling(id)
    BY <1>0, <2>1, <2>2, <2>5, TokenReads
  <2> QED BY <2>3, <2>4, <2>5
<1>4. CASE pc = "added"
  <2>1. /\ HeaderDone /\ k \in Nat /\ OffsetsUpTo(N) /\ TokOff(N) <= Sec("blob").size
        /\ file.addedCount \in Nat
    BY <1>0, <1>4, FileTypes
    DEF Checks, AfterHeader, AfterOffsets, AfterPairs, AfterBytes, TypeOK
  <2>2. k < file.addedCount
        /\ \/ r = Read("added", 16 * k, 16 * k + 16)
           \/ Added(k).id < N /\ r \in Token(Added(k).id)
    BY <1>4 DEF Reads
  <2>3. CASE r = Read("added", 16 * k, 16 * k + 16)
    <3>1. r.sec = "added" /\ r.from = 16 * k /\ r.to = 16 * k + 16 BY <2>3 DEF Read
    <3>2. Sec("added").size = 16 * file.addedCount BY <1>0, <2>1, Elements
    <3> QED BY <2>1, <2>2, <3>1, <3>2
  <2>4. CASE Added(k).id < N /\ r \in Token(Added(k).id)
    <3>1. Added(k).id \in Nat BY <1>0, <2>1, <2>2, Elements, Fields DEF Added
    <3> QED BY <1>0, <2>1, <2>4, <3>1, TokenReads
  <2> QED BY <2>2, <2>3, <2>4
<1>5. CASE pc = "name"
  <2>1. Sec("meta").size >= 4 /\ Sec("meta").size \in Nat /\ file.nameLen \in Nat
    BY <1>0, <1>5, FileTypes DEF Checks, Ready, Section
  <2>2. /\ r.sec = "meta" /\ r.from = 0
        /\ r.to = (IF file.nameLen <= Sec("meta").size - 4 THEN 4 + file.nameLen ELSE 4)
    BY <1>5 DEF Reads, Read
  <2> QED BY <2>1, <2>2
<1>6. CASE pc = "ready"
  <2>1. /\ HeaderDone /\ OffsetsUpTo(N) /\ TokOff(N) <= Sec("blob").size
        /\ AddedUpTo(file.addedCount) /\ N \in Nat /\ Slots \in Nat
        /\ file.addedCount \in Nat /\ Bytes \in Nat
    BY <1>0, <1>6, FileTypes, SizesAssumption
    DEF Checks, AfterHeader, AfterOffsets, AfterPairs, AfterBytes, AfterAdded, Ready
  <2>2. /\ Sec("pairs").size = 16 * Slots /\ Sec("bytes").size = 4 * Bytes
        /\ Sec("added").size = 16 * file.addedCount
    BY <1>0, <2>1, Elements
  <2>3. \/ \E w \in 0..(N - 1) : r \in Token(w) \cup Spelling(w)
        \/ r = Read("pairs", 0, 16 * Slots) \/ r = Read("bytes", 0, 4 * Bytes)
        \/ \E w \in 0..(file.addedCount - 1) : r = Read("added", 16 * w, 16 * w + 16)
        \/ \E w \in 0..(file.addedCount - 1) :
             r = Read("blob", Added(w).offset, Added(w).offset + Added(w).len)
    <3> DEFINE spellings == UNION {Token(w) \cup Spelling(w) : w \in 0..(N - 1)}
               tables == {Read("pairs", 0, 16 * Slots), Read("bytes", 0, 4 * Bytes)}
               records == {Read("added", 16 * w, 16 * w + 16) : w \in 0..(file.addedCount - 1)}
               spelled == {Read("blob", Added(w).offset, Added(w).offset + Added(w).len)
                             : w \in 0..(file.addedCount - 1)}
    <3>1. r \in spellings \cup tables \cup records \cup spelled
      <4>1. r \in Served BY <1>6 DEF Reads
      <4> QED BY <4>1 DEF Served
    <3>2. CASE r \in spellings BY <3>2
    <3>3. CASE r \in tables BY <3>3
    <3>4. CASE r \in records BY <3>4
    <3>5. CASE r \in spelled BY <3>5
    <3> HIDE DEF spellings, tables, records, spelled
    <3> QED BY <3>1, <3>2, <3>3, <3>4, <3>5
  <2>4. CASE \E w \in 0..(N - 1) : r \in Token(w) \cup Spelling(w)
    BY <1>0, <2>1, <2>4, TokenReads
  <2>5. CASE r = Read("pairs", 0, 16 * Slots)
    <3>1. r.sec = "pairs" /\ r.from = 0 /\ r.to = 16 * Slots BY <2>5 DEF Read
    <3> QED BY <2>1, <2>2, <3>1
  <2>6. CASE r = Read("bytes", 0, 4 * Bytes)
    <3>1. r.sec = "bytes" /\ r.from = 0 /\ r.to = 4 * Bytes BY <2>6 DEF Read
    <3> QED BY <2>1, <2>2, <3>1
  <2>7. CASE \E w \in 0..(file.addedCount - 1) : r = Read("added", 16 * w, 16 * w + 16)
    <3> PICK w \in 0..(file.addedCount - 1) : r = Read("added", 16 * w, 16 * w + 16) BY <2>7
    <3>1. r.sec = "added" /\ r.from = 16 * w /\ r.to = 16 * w + 16 BY DEF Read
    <3> QED BY <2>1, <2>2, <3>1
  <2>8. CASE \E w \in 0..(file.addedCount - 1) :
               r = Read("blob", Added(w).offset, Added(w).offset + Added(w).len)
    <3> PICK w \in 0..(file.addedCount - 1) :
               r = Read("blob", Added(w).offset, Added(w).offset + Added(w).len)
      BY <2>8
    <3>1. r.sec = "blob" /\ r.from = Added(w).offset /\ r.to = Added(w).offset + Added(w).len
      BY DEF Read
    <3>2. Added(w).id \in Nat /\ Added(w).len \in Nat
      BY <1>0, <2>1, Elements, Fields DEF Added
    <3>3. /\ Added(w).id < N /\ Added(w).offset = TokOff(Added(w).id)
          /\ Added(w).len = TokOff(Added(w).id + 1) - TokOff(Added(w).id)
      BY <2>1 DEF AddedUpTo
    <3>4. /\ TokOff(Added(w).id) \in Nat /\ TokOff(Added(w).id + 1) \in Nat
          /\ TokOff(Added(w).id) <= TokOff(Added(w).id + 1)
          /\ TokOff(Added(w).id + 1) <= Sec("blob").size
      BY <1>0, <2>1, <3>2, <3>3, Spells
    <3> QED BY <3>1, <3>3, <3>4
  <2> QED BY <2>3, <2>4, <2>5, <2>6, <2>7, <2>8
<1>7. pc \in {"offsets", "pairs", "bytes", "added", "name", "ready"}
  BY Zenon DEF Reads
<1> QED BY <1>1, <1>2, <1>3, <1>4, <1>5, <1>6, <1>7

\* No file, however its sections, counts, offsets and ids are chosen, makes the
\* loader or what its handle serves read outside a mapping that is there, or one
\* section's bytes as another's (FORMAT.md 128-131).
THEOREM LoaderReadsInside == LoaderSpec => []ReadsInside
<1>1. ASSUME IInv PROVE ReadsInside
  <2>1. pc = "header" => map /\ HeaderSize <= file.size
    <3> SUFFICES ASSUME pc = "header" PROVE map /\ HeaderSize <= file.size OBVIOUS
    <3>1. map /\ file.size >= FirstSection BY <1>1 DEF IInv, Held, Checks
    <3>2. file.size \in 0..(Word - 1) /\ Word \in Nat BY <1>1, FileTypes DEF IInv
    <3> QED BY <3>1, <3>2, SizesAssumption
  <2>2. \A r \in Reads : 0 <= r.from /\ r.from <= r.to /\ r.to <= Sec(r.sec).size
    BY <1>1, Bounded
  <2>3. ASSUME Reads # {}
        PROVE  /\ map
               /\ \A z \in Section : Sec(z).off + Sec(z).size <= file.size
               /\ \A z, y \in Section : z # y =>
                    \A b \in Sec(z).off..(Sec(z).off + Sec(z).size - 1) :
                      b \notin Sec(y).off..(Sec(y).off + Sec(y).size - 1)
    <3>1. pc \in {"offsets", "pairs", "bytes", "added", "name", "ready"}
      BY <2>3, Zenon DEF Reads
    <3>2. map /\ TypeOK /\ HeaderDone
      BY <1>1, <3>1 DEF IInv, Held, Checks, AfterHeader, AfterOffsets, AfterPairs, AfterBytes,
                        AfterAdded, Ready
    <3> QED BY <3>2, Apart
  <2> QED BY <2>1, <2>2, <2>3 DEF ReadsInside
<1> QED BY <1>1, Invariant, PTL

----------------------------------------------------------------------------
(* The command line: what main and its threads fill.                       *)

\* The places where main works with an open vocabulary.
Working == {"input", "read", "parse", "context", "again", "split"} \cup Commands
Spawned == {"spawn", "join"}
Left == {"close", "closed", "exited"}

\* What main and its threads read is there: the vocabulary is open from the first
\* place that works with it to the one that closes it, a context comes and goes
\* between them, and threads are made after both of them.
Alive ==
  /\ at \in {"start", "open"} \cup Working \cup Spawned \cup Left
  /\ at = "open" => args.cmd \in Commands \cup {"api"}
  /\ at \in Working \cup Spawned => args.cmd \in Commands
  /\ at \in Working \cup Spawned \cup {"close"} => pc = "ready"
  /\ ctx => pc = "ready" /\ at \notin {"start", "open", "close"}
  /\ at \notin Spawned \cup Left => \A w \in DOMAIN worker : ~Live(w)

\* What is filled: the buffer has room for the NUL, the ids for one more, and the
\* offsets are those of Docs, once the whole text is read.
OffsetsFit ==
  Len(off) <= OffCap /\ \A i \in 1..NDocs : off[i] < off[i + 1] /\ off[i + 1] <= n

Filled ==
  /\ args \in Args /\ n \in Nat /\ cap \in Nat /\ n < cap
  /\ ids.cap \in Nat \ {0} /\ (\E S : ids.put \in Seq(S)) /\ Len(ids.put) <= ids.cap
  /\ off # <<>> => at \in Spawned \cup Left /\ OffsetsFit

CInv == IInv /\ Alive /\ Filled

\* As many steps of m as come to b, at most, are b \div m.
LEMMA Quotient ==
  ASSUME NEW a \in Nat, NEW b \in Nat, NEW m \in Nat \ {0}, a * m <= b
  PROVE  a <= b \div m
<1>1. \A x, y, z \in Nat : y > 0 /\ z * y <= x => z <= x \div y
  BY Z3
<1> QED BY <1>1

\* What the recursive definition of Cuts defines.
CutAt(m, x) == Char(m - 1) = "\n" /\ (m - 1) - x[Len(x)] >= DocSize

LEMMA CutSteps ==
  ASSUME n \in Nat
  PROVE  \E g \in [0..n -> Seq(Nat)] :
           /\ g[0] = <<0>> /\ Cuts = g[n]
           /\ \A m \in 1..n :
                g[m] = IF CutAt(m, g[m - 1]) THEN Append(g[m - 1], m) ELSE g[m - 1]
<1> DEFINE Step(m, x) == IF CutAt(m, x) THEN Append(x, m) ELSE x
           Eq(f) == f = [i \in 0..n |-> IF i = 0 THEN <<0>> ELSE Step(i, f[i - 1])]
           F == [m \in 1..n |-> [x \in Seq(Nat) |-> Step(m, x)]]
           h == CHOOSE f : Eq(f)
<1>1. F \in Steps(n, Seq(Nat)) /\ <<0>> \in Seq(Nat)
  <2>1. ASSUME NEW m \in 1..n, NEW x \in Seq(Nat) PROVE Step(m, x) \in Seq(Nat)
    BY AppendProperties
  <2> HIDE DEF Step
  <2>2. \A m \in 1..n : [x \in Seq(Nat) |-> Step(m, x)] \in [Seq(Nat) -> Seq(Nat)]
    BY <2>1
  <2> QED BY <2>2 DEF Steps
<1>2. PICK g : Iterated(g, n, Seq(Nat), <<0>>, F)
  <2> HIDE DEF F
  <2> QED BY <1>1, Iterates
<1>3. g \in [0..n -> Seq(Nat)] /\ g[0] = <<0>>
  BY <1>2 DEF Iterated
<1> HIDE DEF Step
<1>4. ASSUME NEW m \in 1..n PROVE g[m] = Step(m, g[m - 1])
  <2>1. g[m] = F[m][g[m - 1]]
    BY <1>2 DEF Iterated
  <2>2. g[m - 1] \in Seq(Nat)
    BY <1>3
  <2> QED BY <2>1, <2>2
<1>5. Eq(g)
  <2>1. ASSUME NEW m \in 0..n PROVE g[m] = IF m = 0 THEN <<0>> ELSE Step(m, g[m - 1])
    <3>1. m = 0 \/ m \in 1..n
      OBVIOUS
    <3> QED BY <1>3, <1>4, <3>1
  <2> QED BY <1>3, <2>1
<1>6. Eq(h)
  <2> HIDE DEF Eq
  <2> QED BY <1>5
<1>7. Cuts = h[n]
  BY DEF Cuts, Step, CutAt
<1> HIDE DEF h
<1> DEFINE T == {m \in 0..n : h[m] = g[m]}
<1>8. 0 \in T
  BY <1>3, <1>6
<1>9. ASSUME NEW m \in 1..n, m - 1 \in T PROVE m \in T
  <2>1. h[m] = Step(m, h[m - 1]) /\ h[m - 1] = g[m - 1]
    BY <1>6, <1>9
  <2> QED BY <1>4, <2>1
<1>10. \A m \in 0..n : m \in T
  <2> HIDE DEF T
  <2> QED BY <1>8, <1>9, UpTo
<1>11. Cuts = g[n]
  BY <1>7, <1>10
<1> QED BY <1>3, <1>4, <1>11 DEF Step

\* The cuts follow one another, more than DocSize bytes apart.
CutsOK(m, x) ==
  /\ x \in Seq(Nat) /\ Len(x) >= 1 /\ x[1] = 0 /\ x[Len(x)] <= m
  /\ \A i \in 1..(Len(x) - 1) : x[i] < x[i + 1]
  /\ (Len(x) - 1) * DocSize <= x[Len(x)]

LEMMA CutsHold == ASSUME n \in Nat PROVE CutsOK(n, Cuts)
<1>1. PICK g \in [0..n -> Seq(Nat)] :
        /\ g[0] = <<0>> /\ Cuts = g[n]
        /\ \A m \in 1..n : g[m] = IF CutAt(m, g[m - 1]) THEN Append(g[m - 1], m) ELSE g[m - 1]
  BY CutSteps
<1> DEFINE T == {m \in 0..n : CutsOK(m, g[m])}
<1>2. 0 \in T
  <2>1. CutsOK(0, <<0>>)
    BY ArgsAssumption DEF CutsOK
  <2> QED BY <1>1, <2>1
<1>3. ASSUME NEW m \in 1..n, m - 1 \in T PROVE m \in T
  <2> DEFINE x == g[m - 1]
             y == Append(x, m)
             l == Len(x)
  <2>1. CutsOK(m - 1, x) /\ m \in 0..n
    BY <1>3
  <2>2. g[m] = IF CutAt(m, x) THEN y ELSE x
    BY <1>1
  <2>3. /\ x \in Seq(Nat) /\ l \in Nat /\ l >= 1 /\ x[l] \in Nat /\ x[l] <= m - 1 /\ x[1] = 0
        /\ \A i \in 1..(l - 1) : x[i] < x[i + 1]
        /\ (l - 1) * DocSize <= x[l] /\ DocSize \in Nat /\ m \in Nat
    <3>1. x \in Seq(Nat) /\ Len(x) \in Nat /\ Len(x) >= 1
      BY <2>1 DEF CutsOK
    <3>2. x[Len(x)] \in Nat
      BY <3>1
    <3> QED BY <2>1, <3>1, <3>2, ArgsAssumption DEF CutsOK
  <2> HIDE DEF x
  <2>4. CASE ~CutAt(m, x)
    <3>1. x[l] <= m
      BY <2>3
    <3>2. CutsOK(m, x)
      BY <2>3, <3>1 DEF CutsOK
    <3> QED BY <2>1, <2>2, <2>4, <3>2
  <2>5. CASE CutAt(m, x)
    <3>1. (m - 1) - x[l] >= DocSize
      BY <2>5 DEF CutAt
    <3>2. /\ y \in Seq(Nat) /\ Len(y) = l + 1 /\ y[l + 1] = m
          /\ \A i \in 1..l : y[i] = x[i]
      BY <2>3, AppendProperties
    <3> HIDE DEF y, l
    <3>3. ASSUME NEW i \in 1..l PROVE y[i] < y[i + 1]
      <4>1. CASE i = l
        <5>1. x[l] < m
          BY <2>3
        <5> QED BY <3>2, <4>1, <5>1
      <4>2. CASE i # l
        <5>1. i \in 1..(l - 1) /\ i + 1 \in 1..l
          BY <2>3, <4>2
        <5> QED BY <2>3, <3>2, <5>1
      <4> QED BY <4>1, <4>2
    <3>4. l * DocSize <= m
      <4>1. (l - 1) * DocSize + DocSize <= m
        <5> DEFINE d == (l - 1) * DocSize
        <5>1. d \in Int /\ d <= x[l]
          BY <2>3
        <5> HIDE DEF d
        <5>2. d + DocSize <= m
          BY <2>3, <3>1, <5>1
        <5> QED BY <5>2 DEF d
      <4>2. \A a, c \in Nat : a >= 1 => (a - 1) * c + c = a * c
        OBVIOUS
      <4> QED BY <2>3, <4>1, <4>2
    <3>5. CutsOK(m, y)
      <4>1. Len(y) - 1 = l /\ Len(y) >= 1 /\ y[Len(y)] = m /\ y[1] = 0
        BY <2>3, <3>2
      <4> QED BY <2>3, <3>2, <3>3, <3>4, <4>1 DEF CutsOK
    <3> QED BY <2>1, <2>2, <2>5, <3>5
  <2> QED BY <2>4, <2>5
<1>4. \A m \in 0..n : m \in T
  <2> HIDE DEF T
  <2> QED BY <1>2, <1>3, UpTo
<1>5. CutsOK(n, g[n])
  BY <1>4
<1> QED BY <1>1, <1>5

\* The documents: doc_off has room for their offsets.
LEMMA DocsFit ==
  ASSUME n \in Nat
  PROVE  /\ Len(Docs) <= OffCap
         /\ \A i \in 1..(Len(Docs) - 1) : Docs[i] < Docs[i + 1] /\ Docs[i + 1] <= n
         /\ Docs \in Seq(Nat) /\ Len(Docs) >= 1 /\ Docs[1] = 0 /\ Docs[Len(Docs)] = n
<1> DEFINE x == Cuts
           l == Len(x)
           half == DocSize \div 2
           q == n \div half
<1>1. /\ x \in Seq(Nat) /\ l \in Nat /\ l >= 1 /\ x[l] \in Nat /\ x[l] <= n /\ x[1] = 0
      /\ \A i \in 1..(l - 1) : x[i] < x[i + 1]
      /\ (l - 1) * DocSize <= x[l]
  <2>1. CutsOK(n, x)
    BY CutsHold
  <2>2. x \in Seq(Nat) /\ Len(x) \in Nat /\ Len(x) >= 1
    BY <2>1 DEF CutsOK
  <2>3. x[Len(x)] \in Nat
    BY <2>2
  <2> QED BY <2>1, <2>2, <2>3 DEF CutsOK
<1> HIDE DEF x
<1>2. DocSize \in Nat /\ DocSize >= 2 /\ half \in Nat /\ half >= 1 /\ half <= DocSize
  BY ArgsAssumption
<1> HIDE DEF half
<1>3. (l - 1) * half <= n
  <2>1. (l - 1) * half <= (l - 1) * DocSize
    <3>1. \A a, c, d \in Nat : a * c <= a * (c + d)
      OBVIOUS
    <3>2. DocSize = half + (DocSize - half) /\ DocSize - half \in Nat /\ l - 1 \in Nat
      BY <1>1, <1>2
    <3> QED BY <1>2, <3>1, <3>2
  <2>2. (l - 1) * half \in Nat /\ (l - 1) * DocSize \in Nat
    <3>1. \A a, c \in Nat : a * c \in Nat
      BY Z3
    <3>2. l - 1 \in Nat
      BY <1>1
    <3> QED BY <1>2, <3>1, <3>2
  <2> QED BY <1>1, <2>1, <2>2
<1>4. l - 1 <= q /\ OffCap = q + 2 /\ q \in Int
  <2>1. l - 1 \in Nat /\ half \in Nat \ {0}
    BY <1>1, <1>2
  <2>2. l - 1 <= q
    BY <1>3, <2>1, Quotient
  <2>3. q \in Int
    BY <1>2
  <2>4. OffCap = q + 2
    BY DEF OffCap, half
  <2> QED BY <2>2, <2>3, <2>4
<1> HIDE DEF q
<1>5. \A i \in 1..(l - 1) : x[i + 1] <= x[l]
  <2> DEFINE T == {m \in 0..(l - 1) : x[l - m] <= x[l]}
  <2>1. 0 \in T
    BY <1>1
  <2>2. ASSUME NEW m \in 1..(l - 1), m - 1 \in T PROVE m \in T
    <3>1. l - m \in 1..(l - 1) /\ (l - m) + 1 = l - (m - 1) /\ l - (m - 1) \in 1..l
      BY <1>1
    <3>2. x[l - (m - 1)] <= x[l]
      BY <2>2
    <3>3. x[l - m] < x[l - (m - 1)]
      BY <1>1, <3>1
    <3>4. x[l - m] \in Nat /\ x[l - (m - 1)] \in Nat /\ x[l] \in Nat
      <4>1. \A i \in 1..l : x[i] \in Nat
        BY <1>1
      <4>2. l - m \in 1..l /\ l - (m - 1) \in 1..l /\ l \in 1..l
        BY <1>1, <3>1
      <4> QED BY <4>1, <4>2, Zenon
    <3>5. x[l - m] <= x[l]
      <4> HIDE DEF x
      <4> QED BY <3>2, <3>3, <3>4
    <3> QED BY <1>1, <3>5
  <2>3. \A m \in 0..(l - 1) : m \in T
    <3> HIDE DEF T
    <3>1. l - 1 \in Nat
      BY <1>1
    <3> QED BY <2>1, <2>2, <3>1, UpTo
  <2>4. ASSUME NEW i \in 1..(l - 1) PROVE x[i + 1] <= x[l]
    <3>1. l - (i + 1) \in 0..(l - 1) /\ l - (l - (i + 1)) = i + 1
      BY <1>1
    <3> QED BY <2>3, <3>1
  <2> QED BY <2>4
<1>6. \A i \in 1..l : x[i] \in Nat
  BY <1>1
<1>7. CASE ~(x[l] < n)
  <2>1. Docs = x
    BY <1>7 DEF Docs, x
  <2>2. \A i \in 1..(l - 1) : x[i] < x[i + 1] /\ x[i + 1] <= n
    <3> TAKE i \in 1..(l - 1)
    <3>1. i + 1 \in 1..l
      BY <1>1
    <3> QED BY <1>1, <1>5, <1>6, <3>1
  <2>3. l <= OffCap
    BY <1>1, <1>4
  <2>4. x[l] = n
    BY <1>1, <1>2, <1>7
  <2> QED BY <1>1, <2>1, <2>2, <2>3, <2>4
<1>8. CASE x[l] < n
  <2> DEFINE y == Append(x, n)
  <2>1. Docs = y
    BY <1>8 DEF Docs, x
  <2>2. /\ Len(y) = l + 1 /\ y[l + 1] = n /\ y \in Seq(Nat)
        /\ \A i \in 1..l : y[i] = x[i]
    BY <1>1, AppendProperties
  <2> HIDE DEF y, l
  <2>3. ASSUME NEW i \in 1..l PROVE y[i] < y[i + 1] /\ y[i + 1] <= n
    <3>1. CASE i = l
      BY <1>8, <2>2, <3>1
    <3>2. CASE i # l
      <4>1. i \in 1..(l - 1) /\ i + 1 \in 1..l
        BY <1>1, <3>2
      <4>2. y[i] = x[i] /\ y[i + 1] = x[i + 1]
        BY <2>2, <4>1
      <4> QED BY <1>1, <1>5, <1>6, <4>1, <4>2
    <3> QED BY <3>1, <3>2
  <2>4. /\ Len(y) <= OffCap /\ Len(y) - 1 = l /\ Len(y) >= 1
        /\ y[1] = 0 /\ y[Len(y)] = n
    BY <1>1, <1>4, <2>2
  <2> QED BY <2>1, <2>2, <2>3, <2>4
<1> QED BY <1>7, <1>8

LEMMA CliStarts == Init => CInv
<1> SUFFICES ASSUME Init PROVE CInv
  OBVIOUS
<1>1. IInv
  BY Starts DEF Init
<1>2. Alive
  BY DEF Init, MainInit, Alive, Live, Idle, Working, Commands, Spawned, Left
<1>3. Filled
  <2>1. ids.cap = IdsCap /\ ids.put = <<>> /\ <<>> \in Seq({})
    BY DEF Init, MainInit
  <2>2. \E S : ids.put \in Seq(S)
    BY <2>1
  <2>3. args \in Args /\ n = 0 /\ cap = BufCap /\ off = <<>>
    BY DEF Init, MainInit
  <2> QED BY <2>1, <2>2, <2>3, ArgsAssumption DEF Filled
<1> QED BY <1>1, <1>2, <1>3 DEF CInv

\* main takes the steps of a call of bp_vocab_open, or the one of bp_vocab_close.
LEMMA LoaderSteps == [Next]_vars => [OpenNext \/ Close]_lvars /\ args' = args
<1> SUFFICES ASSUME [Next]_vars PROVE [OpenNext \/ Close]_lvars /\ args' = args
  OBVIOUS
<1>1. CASE Start \/ Return \/ LoadInput \/ ReadAll \/ Context \/ Count \/ EncodeAgain
  BY <1>1 DEF Start, Return, LoadInput, ReadAll, Context, Count, EncodeAgain, Quiet
<1>2. CASE Parse \/ DecodeIds \/ RunCensus \/ Split \/ Spawn \/ Join \/ Killed
  BY <1>2 DEF Parse, DecodeIds, RunCensus, Split, Spawn, Join, Killed, Quiet
<1>3. CASE OpenVocab \/ CloseVocab
  BY <1>3 DEF OpenVocab, CloseVocab
<1>4. CASE \E w \in DOMAIN worker : Worker(w)
  BY <1>4 DEF Worker, Quiet
<1>5. CASE UNCHANGED vars
  BY <1>5 DEF vars, main
<1> QED BY <1>1, <1>2, <1>3, <1>4, <1>5 DEF Next, Main

\* The ways on and out keep what they read open.
LEMMA GoingOn ==
  ASSUME Alive, pc' = pc, args' = args, NEW x, Goto(x),
         x \in Spawned \/ (x \in Working /\ worker' = worker /\ at \in {"open"} \cup Working),
         at \in {"open"} \cup Working \cup Spawned, pc = "ready", args.cmd \in Commands
  PROVE  Alive'
<1>1. at' = x /\ ctx' = ctx
  BY DEF Goto
<1>2. x \notin {"start", "open", "close"} /\ x \in Working \cup Spawned
  BY DEF Working, Spawned, Commands
<1>4. (ctx => pc = "ready" /\ at \notin {"start", "open", "close"})'
  BY <1>1, <1>2
<1>5. (at \notin Spawned \cup Left => \A w \in DOMAIN worker : ~Live(w))'
  <2>1. CASE x \in Spawned
    BY <1>1, <2>1 DEF Spawned, Left
  <2>2. CASE x \in Working /\ worker' = worker /\ at \in {"open"} \cup Working
    <3>1. at \notin Spawned \cup Left
      BY <2>2 DEF Working, Spawned, Left, Commands
    <3> QED BY <2>2, <3>1 DEF Alive, Live
  <2> QED BY <2>1, <2>2
<1> QED BY <1>1, <1>2, <1>4, <1>5 DEF Alive

LEMMA GoingOut ==
  ASSUME Alive, pc' = pc, args' = args, NEW c,
         Exit(c) \/ (Finish(c) /\ pc = "ready")
  PROVE  Alive'
BY DEF Alive, Exit, Finish, Left, Working, Spawned, Commands

LEMMA AliveStep == ASSUME Alive, [Next]_vars PROVE Alive'
<1>1. CASE Start
  BY <1>1 DEF Start, Alive, Goto, Exit, Quiet, lvars, bench, Left, Working, Spawned, Commands, Live
<1>2. CASE OpenVocab
  <2>1. at = "open" /\ args' = args /\ worker' = worker
    BY <1>2 DEF OpenVocab, bench
  <2>2. CASE OpenNext /\ UNCHANGED <<at, rc, exit, ctx>>
    BY <2>1, <2>2 DEF Alive, Live, Working, Spawned, Commands, Left
  <2>3. CASE pc = "failed" /\ Exit(3) /\ UNCHANGED lvars
    BY <2>1, <2>3, GoingOut DEF lvars
  <2>4. CASE /\ pc = "ready" /\ UNCHANGED lvars
             /\ \/ \E c \in 0..2 : Finish(c)
                \/ args.cmd # "api" /\ (Goto("context") \/ Goto("input"))
    <3>1. pc' = pc
      BY <2>4 DEF lvars
    <3>2. CASE \E c \in 0..2 : Finish(c)
      BY <2>1, <2>4, <3>1, <3>2, GoingOut
    <3>3. CASE args.cmd # "api" /\ (Goto("context") \/ Goto("input"))
      <4>1. {"context", "input"} \subseteq Working /\ args.cmd \in Commands
        BY <2>1, <3>3 DEF Working, Alive
      <4> QED BY <2>1, <2>4, <3>1, <3>3, <4>1, GoingOn
    <3> QED BY <2>4, <3>2, <3>3
  <2> QED BY <1>2, <2>2, <2>3, <2>4 DEF OpenVocab
<1>3. CASE CloseVocab
  BY <1>3 DEF CloseVocab, Alive, Goto, Left, Working, Spawned, Commands
<1>4. CASE Return
  <2>1. pc' = pc /\ args' = args /\ Exit(rc)
    BY <1>4 DEF Return, Quiet, lvars
  <2> QED BY <2>1, GoingOut
<1>5. CASE /\ at \in Working /\ UNCHANGED <<lvars, args, worker>>
           /\ (\E c : Finish(c) \/ Exit(c)) \/ (\E x \in Working \cup Spawned : Goto(x))
  <2>1. /\ pc' = pc /\ pc = "ready" /\ args' = args /\ worker' = worker
        /\ args.cmd \in Commands
    BY <1>5 DEF lvars, Alive
  <2> QED BY <1>5, <2>1, GoingOn, GoingOut
<1>6. CASE LoadInput
  <2>1. (\E c : Finish(c) \/ Exit(c)) \/ Goto("read")
    BY <1>6 DEF LoadInput
  <2> QED BY <1>5, <1>6, <2>1 DEF LoadInput, Quiet, bench, Working
<1>7. CASE ReadAll
  <2>1. (\E c : Finish(c) \/ Exit(c)) \/ (\E x \in {"read", "parse", "context", "split"} : Goto(x))
    BY <1>7 DEF ReadAll, Loaded
  <2> QED BY <1>5, <1>7, <2>1 DEF ReadAll, Quiet, bench, Working
<1>8. CASE Context
  <2>1. at = "context" /\ UNCHANGED <<lvars, args, worker>>
    BY <1>8 DEF Context, Quiet, bench
  <2>2. CASE Finish(4)
    BY <1>5, <2>1, <2>2 DEF Working
  <2>3. CASE at' = args.cmd /\ ctx' = TRUE
    <3>1. /\ pc' = pc /\ pc = "ready" /\ args' = args /\ worker' = worker
          /\ args.cmd \in Commands /\ \A w \in DOMAIN worker : ~Live(w)
      BY <2>1 DEF lvars, Alive, Working, Spawned, Left, Commands
    <3>2. at' \in Working /\ at' \notin {"start", "open", "close"}
      BY <2>3, <3>1 DEF Working, Commands
    <3> QED BY <2>3, <3>1, <3>2 DEF Alive, Live
  <2> QED BY <1>8, <2>2, <2>3 DEF Context
<1>9. CASE Count \/ EncodeAgain \/ DecodeIds \/ RunCensus
  <2>1. at \in Working /\ UNCHANGED <<lvars, args, worker>>
    BY <1>9 DEF Count, EncodeAgain, DecodeIds, RunCensus, Quiet, bench, Working, Commands
  <2>2. (\E c : Finish(c) \/ Exit(c)) \/ Goto("again")
    BY <1>9 DEF Count, EncodeAgain, DecodeIds, RunCensus
  <2>3. "again" \in Working
    BY DEF Working
  <2> QED BY <1>5, <2>1, <2>2, <2>3
<1>10. CASE Parse
  <2>1. at \in Working /\ UNCHANGED <<lvars, args, worker>>
    BY <1>10 DEF Parse, Quiet, bench, Working
  <2>2. (\E c : Finish(c) \/ Exit(c)) \/ Goto("parse") \/ Goto("context")
    BY <1>10 DEF Parse
  <2>3. {"parse", "context"} \subseteq Working
    BY DEF Working
  <2> QED BY <1>5, <2>1, <2>2, <2>3
<1>11. CASE Split
  <2>1. at \in Working /\ UNCHANGED <<lvars, args, worker>>
    BY <1>11 DEF Split, Quiet, Working
  <2>2. (\E c : Finish(c) \/ Exit(c)) \/ Goto("spawn")
    BY <1>11 DEF Split
  <2>3. "spawn" \in Spawned
    BY DEF Spawned
  <2> QED BY <1>5, <2>1, <2>2, <2>3
<1>12. CASE Spawn \/ Join
  <2>1. at \in Spawned /\ pc = "ready" /\ pc' = pc /\ args' = args /\ args.cmd \in Commands
    BY <1>12 DEF Spawn, Join, Quiet, lvars, Spawned, Alive
  <2>2. (\E c : Finish(c)) \/ Goto("spawn") \/ Goto("join")
    BY <1>12 DEF Spawn, Join
  <2>3. {"spawn", "join"} \subseteq Spawned
    BY DEF Spawned
  <2> QED BY <2>1, <2>2, <2>3, GoingOn, GoingOut
<1>13. CASE \E w \in DOMAIN worker : Worker(w)
  <2>1. \E w \in DOMAIN worker : Live(w)
    BY <1>13 DEF Worker
  <2>2. at \in Spawned \cup Left
    BY <2>1 DEF Alive
  <2>3. UNCHANGED <<at, ctx, pc, args>>
    BY <1>13 DEF Worker, Quiet, lvars
  <2> QED BY <2>2, <2>3 DEF Alive
<1>14. CASE Killed
  <2>1. pc' = pc /\ args' = args /\ Exit(Signal)
    BY <1>14 DEF Killed, Quiet, lvars
  <2> QED BY <2>1, GoingOut
<1>15. CASE UNCHANGED vars
  BY <1>15 DEF vars, lvars, main, bench, Alive, Live
<1> QED
  BY <1>1, <1>2, <1>3, <1>4, <1>6, <1>7, <1>8, <1>9, <1>10, <1>11, <1>12, <1>13, <1>14, <1>15
  DEF Next, Main

LEMMA FilledStays ==
  ASSUME Filled, UNCHANGED <<args, n, cap, ids, off>>, off # <<>> => at' \in Spawned \cup Left
  PROVE  Filled'
<1>1. OffsetsFit' = OffsetsFit
  BY DEF OffsetsFit, OffCap, NDocs
<1> QED BY <1>1 DEF Filled

\* Nothing is cut into documents before the threads are made.
LEMMA NoDocs == ASSUME Filled, at \in Working PROVE off = <<>>
BY DEF Filled, Working, Spawned, Left, Commands

LEMMA ReadFills == ASSUME Filled, ReadAll PROVE Filled'
<1> DEFINE full == n + 1 >= cap
           room == (IF full THEN 2 * cap ELSE cap) - n - 1
           rest == Len(args.text) - n
<1>1. /\ UNCHANGED <<args, ids, off>> /\ at \in Working
      /\ \/ UNCHANGED input
         \/ \E r \in 0..Least(room, rest) : n' = n + r /\ cap' = room + n + 1
  BY DEF ReadAll, Quiet, bench, Working
<1>2. off = <<>> /\ off' = <<>>
  BY <1>1, NoDocs
<1>3. CASE UNCHANGED input
  <2>1. UNCHANGED <<args, n, cap, ids, off>>
    BY <1>1, <1>3 DEF input
  <2> QED BY <1>2, <2>1, FilledStays
<1>4. CASE \E r \in 0..Least(room, rest) : n' = n + r /\ cap' = room + n + 1
  <2>1. n \in Nat /\ cap \in Nat /\ n < cap /\ args \in Args /\ Len(args.text) \in Nat
    BY ArgsAssumption DEF Filled
  <2>2. room \in Nat /\ rest \in Int /\ Least(room, rest) <= room /\ Least(room, rest) \in Int
    BY <2>1 DEF Least
  <2> HIDE DEF room, rest
  <2>3. PICK r \in 0..Least(room, rest) : n' = n + r /\ cap' = room + n + 1
    BY <1>4
  <2>4. r \in Nat /\ r <= room
    BY <2>2
  <2>5. n' \in Nat /\ cap' \in Nat /\ n' < cap'
    BY <2>1, <2>2, <2>3, <2>4
  <2> QED BY <1>1, <1>2, <2>5 DEF Filled
<1> QED BY <1>1, <1>3, <1>4

LEMMA ParseFills == ASSUME Filled, Parse PROVE Filled'
<1>1. UNCHANGED <<args, n, cap, off>> /\ at \in Working
  BY DEF Parse, Quiet, input, bench, Working
<1>2. off = <<>> /\ off' = <<>>
  BY <1>1, NoDocs
<1>3. CASE UNCHANGED ids
  BY <1>1, <1>2, <1>3, FilledStays
<1>4. CASE \E v : ids' = [cap |-> IF Len(ids.put) = ids.cap THEN 2 * ids.cap ELSE ids.cap,
                          put |-> Append(ids.put, v)]
  <2>1. PICK v : ids' = [cap |-> IF Len(ids.put) = ids.cap THEN 2 * ids.cap ELSE ids.cap,
                         put |-> Append(ids.put, v)]
    BY <1>4
  <2>2. PICK S : ids.put \in Seq(S)
    BY DEF Filled
  <2> DEFINE U == S \cup {v}
  <2>3. ids.put \in Seq(U) /\ v \in U
    <3>1. \A q \in Seq(S) : q \in Seq(U)
      OBVIOUS
    <3> QED BY <2>2, <3>1
  <2>4. ids'.put = Append(ids.put, v)
    BY <2>1
  <2>5. ids'.cap = IF Len(ids.put) = ids.cap THEN 2 * ids.cap ELSE ids.cap
    BY <2>1
  <2> HIDE DEF U
  <2>6. ids'.put \in Seq(U) /\ Len(ids'.put) = Len(ids.put) + 1 /\ Len(ids.put) \in Nat
    BY <2>3, <2>4, AppendProperties
  <2>7. ids.cap \in Nat \ {0} /\ Len(ids.put) <= ids.cap
    BY DEF Filled
  <2>8. ids'.cap \in Nat \ {0} /\ Len(ids'.put) <= ids'.cap
    <3> DEFINE l == Len(ids.put)
               c == ids.cap
    <3>1. l \in Nat /\ c \in Nat \ {0} /\ l <= c
      BY <2>6, <2>7
    <3>2. ids'.cap = (IF l = c THEN 2 * c ELSE c) /\ Len(ids'.put) = l + 1
      BY <2>5, <2>6
    <3> HIDE DEF l, c
    <3> QED BY <3>1, <3>2
  <2>9. \E X : ids'.put \in Seq(X)
    BY <2>6
  <2> QED BY <1>1, <1>2, <2>8, <2>9 DEF Filled
<1> QED BY <1>3, <1>4 DEF Parse

LEMMA SplitFills == ASSUME Filled, Split PROVE Filled'
<1>1. UNCHANGED <<args, n, cap, ids>> /\ at \in Working
  BY DEF Split, Quiet, input, Working
<1>2. CASE UNCHANGED off
  BY <1>1, <1>2, NoDocs, FilledStays
<1>3. CASE off' = Docs /\ Goto("spawn")
  <2>1. at' \in Spawned
    BY <1>3 DEF Goto, Spawned
  <2>2. OffsetsFit'
    <3>1. n \in Nat
      BY DEF Filled
    <3>2. OffCap' = OffCap /\ NDocs' = Len(Docs) - 1
      BY <1>1, <1>3 DEF OffCap, NDocs
    <3> QED BY <1>1, <1>3, <3>1, <3>2, DocsFit DEF OffsetsFit
  <2> QED BY <1>1, <2>1, <2>2 DEF Filled
<1> QED BY <1>2, <1>3 DEF Split

LEMMA FilledStep == ASSUME Filled, [Next]_vars PROVE Filled'
<1>1. CASE Start \/ OpenVocab \/ LoadInput \/ Context \/ Count \/ EncodeAgain \/ DecodeIds
           \/ RunCensus
  <2>1. UNCHANGED <<args, n, cap, ids, off>> /\ at \in {"start", "open"} \cup Working
    BY <1>1 DEF Start, OpenVocab, LoadInput, Context, Count, EncodeAgain, DecodeIds, RunCensus,
                Quiet, input, bench, Working, Commands
  <2>2. off = <<>>
    BY <2>1 DEF Filled, Working, Spawned, Left, Commands
  <2> QED BY <2>1, <2>2, FilledStays
<1>2. CASE CloseVocab \/ Return \/ Spawn \/ Join \/ Killed
  <2>1. UNCHANGED <<args, n, cap, ids, off>>
    BY <1>2 DEF CloseVocab, Return, Spawn, Join, Killed, Quiet, input, bench
  <2>2. at' \in Spawned \cup Left
    BY <1>2 DEF CloseVocab, Return, Spawn, Join, Killed, Goto, Exit, Finish, Spawned, Left
  <2> QED BY <2>1, <2>2, FilledStays
<1>3. CASE (\E w \in DOMAIN worker : Worker(w)) \/ UNCHANGED vars
  <2>1. UNCHANGED <<args, n, cap, ids, off, at>>
    BY <1>3 DEF Worker, Quiet, input, vars, main, bench
  <2>2. off # <<>> => at \in Spawned \cup Left
    BY DEF Filled
  <2> QED BY <2>1, <2>2, FilledStays
<1> QED BY <1>1, <1>2, <1>3, ReadFills, ParseFills, SplitFills DEF Next, Main

----------------------------------------------------------------------------
(* Each byte once: of the spans that are counted, exactly one has it.       *)

Span == [from : Nat, to : Nat]
Has(x, g, i) == i \in x[g].from..(x[g].to - 1)
Never(x, i) == \A g \in 1..Len(x) : ~Has(x, g, i)
Once(x, i) == \E h \in 1..Len(x) : \A g \in 1..Len(x) : Has(x, g, i) <=> g = h

\* Once says what counting the spans says.
LEMMA OnceIs ==
  ASSUME NEW x, NEW i, Once(x, i)
  PROVE  Cardinality({h \in 1..Len(x) : i \in x[h].from..(x[h].to - 1)}) = 1
<1>1. PICK h \in 1..Len(x) : \A g \in 1..Len(x) : Has(x, g, i) <=> g = h
  BY DEF Once
<1>2. {g \in 1..Len(x) : i \in x[g].from..(x[g].to - 1)} = {h}
  BY <1>1 DEF Has
<1> QED BY <1>2, FS_Singleton

\* Putting lists of spans together.
LEMMA Together ==
  ASSUME NEW x \in Seq(Span), NEW y \in Seq(Span), NEW i
  PROVE  /\ x \o y \in Seq(Span)
         /\ Never(x, i) /\ Never(y, i) => Never(x \o y, i)
         /\ Once(x, i) /\ Never(y, i) => Once(x \o y, i)
         /\ Never(x, i) /\ Once(y, i) => Once(x \o y, i)
<1> DEFINE z == x \o y
           a == Len(x)
           b == Len(y)
<1>1. /\ z \in Seq(Span) /\ a \in Nat /\ b \in Nat /\ Len(z) = a + b
      /\ \A g \in 1..a : z[g] = x[g]
      /\ \A g \in 1..(a + b) : g > a => z[g] = y[g - a]
  OBVIOUS
<1> HIDE DEF z
<1>2. \A g \in 1..a : g \in 1..(a + b) /\ (Has(z, g, i) <=> Has(x, g, i))
  BY <1>1 DEF Has
<1>3. \A g \in 1..b : g + a \in 1..(a + b) /\ (Has(z, g + a, i) <=> Has(y, g, i))
  <2> TAKE g \in 1..b
  <2>1. g + a \in 1..(a + b) /\ g + a > a /\ (g + a) - a = g
    BY <1>1
  <2>2. z[g + a] = y[g]
    BY <1>1, <2>1
  <2> QED BY <2>1, <2>2 DEF Has
<1>4. \A g \in 1..Len(z) : g \in 1..a \/ (g - a \in 1..b /\ (g - a) + a = g /\ ~(g \in 1..a))
  BY <1>1
<1>5. ASSUME NEW g \in 1..Len(z) PROVE g \in 1..a \/ \E m \in 1..b : g = m + a
  <2>1. CASE g - a \in 1..b /\ (g - a) + a = g
    BY <2>1
  <2> QED BY <1>4, <2>1
<1>6. \A g \in 1..a : \A m \in 1..b : g # m + a
  BY <1>1
<1>7. \A m, g \in 1..b : m + a = g + a => m = g
  BY <1>1
<1>8. \A g \in 1..(a + b) : g \in 1..Len(z)
  BY <1>1
<1> HIDE DEF a, b
<1>9. ASSUME Never(x, i), Never(y, i) PROVE Never(z, i)
  BY <1>2, <1>3, <1>5, <1>9 DEF Never, a, b
<1>10. ASSUME Once(x, i), Never(y, i) PROVE Once(z, i)
  <2>1. PICK h \in 1..a : \A g \in 1..a : Has(x, g, i) <=> g = h
    BY <1>10 DEF Once, a
  <2>2. \A g \in 1..b : ~Has(y, g, i)
    BY <1>10 DEF Never, b
  <2>3. h \in 1..Len(z)
    BY <1>2, <1>8, <2>1
  <2>4. ASSUME NEW g \in 1..Len(z) PROVE Has(z, g, i) <=> g = h
    <3>1. CASE g \in 1..a
      BY <1>2, <2>1, <3>1
    <3>2. CASE \E m \in 1..b : g = m + a
      BY <1>3, <1>6, <2>1, <2>2, <3>2
    <3> QED BY <1>5, <3>1, <3>2
  <2> QED BY <2>3, <2>4 DEF Once
<1>11. ASSUME Never(x, i), Once(y, i) PROVE Once(z, i)
  <2>1. PICK h \in 1..b : \A g \in 1..b : Has(y, g, i) <=> g = h
    BY <1>11 DEF Once, b
  <2>2. \A g \in 1..a : ~Has(x, g, i)
    BY <1>11 DEF Never, a
  <2>3. h + a \in 1..Len(z)
    BY <1>3, <1>8, <2>1
  <2>4. ASSUME NEW g \in 1..Len(z) PROVE Has(z, g, i) <=> g = h + a
    <3>1. CASE g \in 1..a
      BY <1>2, <1>6, <2>1, <2>2, <3>1
    <3>2. CASE \E m \in 1..b : g = m + a
      BY <1>3, <1>7, <2>1, <3>2
    <3> QED BY <1>5, <3>1, <3>2
  <2> QED BY <2>3, <2>4 DEF Once
<1> QED BY <1>1, <1>9, <1>10, <1>11 DEF z

\* One span.
LEMMA Single ==
  ASSUME NEW p \in Span, NEW i
  PROVE  /\ <<p>> \in Seq(Span)
         /\ i \in p.from..(p.to - 1) => Once(<<p>>, i)
         /\ i \notin p.from..(p.to - 1) => Never(<<p>>, i)
  BY DEF Once, Never, Has

----------------------------------------------------------------------------
(* The documents, and who counts which.                                    *)

\* Offsets from 0 to m, each behind the one before it.
Offsets0(x, m) ==
  /\ x \in Seq(Nat) /\ Len(x) >= 1 /\ x[1] = 0 /\ x[Len(x)] = m
  /\ \A i \in 1..(Len(x) - 1) : x[i] < x[i + 1]

\* Offsets are in order at any distance.
LEMMA Ascending ==
  ASSUME NEW x, NEW m, Offsets0(x, m), NEW a \in 1..Len(x), NEW b \in 1..Len(x), a <= b
  PROVE  x[a] <= x[b]
<1>1. x \in Seq(Nat) /\ Len(x) \in Nat /\ \A i \in 1..Len(x) : x[i] \in Nat
  BY DEF Offsets0
<1> DEFINE T == {d \in 0..(b - a) : x[a] <= x[a + d]}
<1>2. 0 \in T
  BY <1>1
<1>3. ASSUME NEW d \in 1..(b - a), d - 1 \in T PROVE d \in T
  <2>1. a + (d - 1) \in 1..(Len(x) - 1) /\ (a + (d - 1)) + 1 = a + d /\ a + d \in 1..Len(x)
    BY <1>1
  <2>2. x[a + (d - 1)] < x[a + d]
    BY <2>1 DEF Offsets0
  <2>3. x[a] <= x[a + (d - 1)]
    BY <1>3
  <2>4. a + (d - 1) \in 1..Len(x)
    BY <1>1, <2>1
  <2> HIDE DEF T
  <2>5. x[a] <= x[a + d]
    BY <1>1, <2>1, <2>2, <2>3, <2>4
  <2> QED BY <2>5 DEF T
<1>4. \A d \in 0..(b - a) : d \in T
  <2> HIDE DEF T
  <2>1. b - a \in Nat
    BY <1>1
  <2> QED BY <1>2, <1>3, <2>1, UpTo
<1>5. b - a \in 0..(b - a) /\ a + (b - a) = b
  BY <1>1
<1> QED BY <1>4, <1>5

\* The bytes of document e, counting from 0.
InDoc(x, e, i) == i \in x[e + 1]..(x[e + 2] - 1)

\* Every byte is in a document,
LEMMA DocOf ==
  ASSUME NEW x, NEW m \in Nat, Offsets0(x, m), NEW i \in 0..(m - 1)
  PROVE  \E e \in 0..(Len(x) - 2) : InDoc(x, e, i)
<1>1. x \in Seq(Nat) /\ Len(x) \in Nat /\ \A j \in 1..Len(x) : x[j] \in Nat
  BY DEF Offsets0
<1> DEFINE T == {j \in 1..Len(x) : i < x[j]}
<1>2. Len(x) \in T /\ T \subseteq Nat
  BY <1>1 DEF Offsets0
<1>3. PICK j \in T : \A l \in T : j <= l
  <2> HIDE DEF T
  <2> QED BY <1>2, LeastNatural
<1>4. j # 1
  BY <1>3 DEF Offsets0
<1>5. j - 1 \in 1..Len(x) /\ j - 1 \notin T
  BY <1>1, <1>3, <1>4
<1>6. x[j - 1] <= i /\ i < x[j]
  BY <1>1, <1>3, <1>5
<1>7. j - 2 \in 0..(Len(x) - 2) /\ (j - 2) + 1 = j - 1 /\ (j - 2) + 2 = j
  BY <1>1, <1>3, <1>4
<1>8. x[j - 1] \in Nat /\ x[j] \in Nat
  BY <1>1, <1>5, <1>3
<1>9. i \in x[j - 1]..(x[j] - 1)
  BY <1>6, <1>8
<1> QED BY <1>7, <1>9 DEF InDoc

\* and in no other.
LEMMA DocsApart ==
  ASSUME NEW x, NEW m, Offsets0(x, m), NEW i,
         NEW e \in 0..(Len(x) - 2), NEW f \in 0..(Len(x) - 2), InDoc(x, e, i), InDoc(x, f, i)
  PROVE  e = f
<1>1. x \in Seq(Nat) /\ Len(x) \in Nat /\ \A j \in 1..Len(x) : x[j] \in Nat
  BY DEF Offsets0
<1>2. ASSUME NEW a \in 0..(Len(x) - 2), NEW b \in 0..(Len(x) - 2), a < b,
             InDoc(x, a, i), InDoc(x, b, i)
      PROVE  FALSE
  <2>1. a + 2 \in 1..Len(x) /\ b + 1 \in 1..Len(x) /\ a + 2 <= b + 1
    BY <1>1, <1>2
  <2>2. x[a + 2] <= x[b + 1]
    BY <2>1, Ascending
  <2>3. i <= x[a + 2] - 1 /\ x[b + 1] <= i /\ i \in Int
    <3>1. a + 1 \in 1..Len(x) /\ b + 2 \in 1..Len(x)
      BY <1>1
    <3>2. x[a + 1] \in Nat /\ x[b + 2] \in Nat /\ x[a + 2] \in Nat /\ x[b + 1] \in Nat
      BY <1>1, <2>1, <3>1
    <3> QED BY <1>2, <3>2 DEF InDoc
  <2>4. x[a + 2] \in Nat /\ x[b + 1] \in Nat
    BY <1>1, <2>1
  <2> QED BY <2>2, <2>3, <2>4
<1> QED BY <1>1, <1>2

\* The spans are those of the documents in E, each once.
Covers(o, x, E) ==
  \A e \in 0..(Len(o) - 2) : \A i : InDoc(o, e, i) =>
     IF e \in E THEN Once(x, i) ELSE Never(x, i)

\* Nothing counted, one more list of spans, one more document.
LEMMA CoversNone == ASSUME NEW o PROVE Covers(o, <<>>, {})
  BY DEF Covers, Never

LEMMA CoversMore ==
  ASSUME NEW o, NEW x \in Seq(Span), NEW y \in Seq(Span), NEW E, NEW F,
         E \cap F = {}, Covers(o, x, E), Covers(o, y, F)
  PROVE  x \o y \in Seq(Span) /\ Covers(o, x \o y, E \cup F)
<1>1. \A i : /\ Never(x, i) /\ Never(y, i) => Never(x \o y, i)
             /\ Once(x, i) /\ Never(y, i) => Once(x \o y, i)
             /\ Never(x, i) /\ Once(y, i) => Once(x \o y, i)
  BY Together
<1>2. x \o y \in Seq(Span)
  OBVIOUS
<1>3. ASSUME NEW e \in 0..(Len(o) - 2), NEW i, InDoc(o, e, i)
      PROVE  IF e \in E \cup F THEN Once(x \o y, i) ELSE Never(x \o y, i)
  <2>1. /\ e \in E => Once(x, i)
        /\ e \notin E => Never(x, i)
        /\ e \in F => Once(y, i)
        /\ e \notin F => Never(y, i)
    BY <1>3, Zenon DEF Covers
  <2> QED BY <1>1, <2>1
<1> QED BY <1>2, <1>3, Zenon DEF Covers

LEMMA CoversDoc ==
  ASSUME NEW o, NEW m, Offsets0(o, m), NEW d \in 0..(Len(o) - 2)
  PROVE  LET p == [from |-> o[d + 1], to |-> o[d + 2]]
         IN p \in Span /\ <<p>> \in Seq(Span) /\ Covers(o, <<p>>, {d})
<1> DEFINE p == [from |-> o[d + 1], to |-> o[d + 2]]
<1>1. p \in Span
  <2>1. d + 1 \in 1..Len(o) /\ d + 2 \in 1..Len(o) /\ o \in Seq(Nat)
    BY DEF Offsets0
  <2> QED BY <2>1 DEF Span
<1>2. \A i : i \in p.from..(p.to - 1) <=> InDoc(o, d, i)
  BY DEF InDoc
<1> HIDE DEF p
<1>3. \A i : /\ InDoc(o, d, i) => Once(<<p>>, i)
             /\ ~InDoc(o, d, i) => Never(<<p>>, i)
  BY <1>1, <1>2, Single
<1>4. ASSUME NEW e \in 0..(Len(o) - 2), NEW i, InDoc(o, e, i)
      PROVE  IF e \in {d} THEN Once(<<p>>, i) ELSE Never(<<p>>, i)
  <2>1. e # d => ~InDoc(o, d, i)
    BY <1>4, DocsApart
  <2> QED BY <1>3, <1>4, <2>1
<1>5. Covers(o, <<p>>, {d})
  BY <1>4, Zenon DEF Covers
<1>6. <<p>> \in Seq(Span)
  BY <1>1
<1> QED BY <1>1, <1>5, <1>6 DEF p

\* All of them: every byte of the text.
LEMMA CoversAll ==
  ASSUME NEW o, NEW m \in Nat, Offsets0(o, m), NEW x, NEW E, 0..(Len(o) - 2) \subseteq E,
         Covers(o, x, E)
  PROVE  \A i \in 0..(m - 1) : Once(x, i)
<1> TAKE i \in 0..(m - 1)
<1>1. PICK e \in 0..(Len(o) - 2) : InDoc(o, e, i)
  BY DocOf
<1> QED BY <1>1 DEF Covers

----------------------------------------------------------------------------
(* The threads take turns.                                                 *)

\* Element e comes in the turns of w when m take turns.
Turn(m, w, e) == \E q \in Nat : e = w + m * q

\* A turn later is m numbers later, or more.
LEMMA Farther ==
  ASSUME NEW m \in Nat \ {0}, NEW x \in Nat, NEW y \in Nat, x < y
  PROVE  m * x + m <= m * y /\ m * x \in Nat /\ m * y \in Nat
<1>1. y - x - 1 \in Nat /\ y = x + 1 + (y - x - 1)
  OBVIOUS
<1>2. \A u, v, w \in Nat : u * v + u <= u * (v + 1 + w) /\ u * v \in Nat
  BY Z3
<1> QED BY <1>1, <1>2

\* A thread's turns begin with its own number and come every m; no two threads share one.
LEMMA Turns ==
  ASSUME NEW m \in Nat \ {0}, NEW w \in 0..(m - 1)
  PROVE  /\ Turn(m, w, w)
         /\ \A e \in Nat : Turn(m, w, e) => e >= w /\ Turn(m, w, e + m)
         /\ \A d, e \in Nat : Turn(m, w, d) /\ Turn(m, w, e) /\ d <= e /\ e < d + m => d = e
         /\ \A v \in 0..(m - 1) : \A e \in Nat : Turn(m, w, e) /\ Turn(m, v, e) => v = w
<1>1. Turn(m, w, w)
  <2>1. w = w + m * 0
    OBVIOUS
  <2> QED BY <2>1 DEF Turn
<1>2. ASSUME NEW e \in Nat, Turn(m, w, e) PROVE e >= w /\ Turn(m, w, e + m)
  <2>1. PICK q \in Nat : e = w + m * q
    BY <1>2 DEF Turn
  <2>2. m * q + m = m * (q + 1) /\ m * q \in Nat
    BY Z3
  <2>3. e >= w /\ e + m = w + m * (q + 1) /\ q + 1 \in Nat
    BY <2>1, <2>2
  <2>4. Turn(m, w, e + m)
    BY <2>3, Zenon DEF Turn
  <2> QED BY <2>3, <2>4
<1>3. ASSUME NEW d \in Nat, NEW e \in Nat, Turn(m, w, d), Turn(m, w, e), d <= e, e < d + m
      PROVE  d = e
  <2>1. PICK q \in Nat : d = w + m * q
    BY <1>3 DEF Turn
  <2>2. PICK r \in Nat : e = w + m * r
    BY <1>3 DEF Turn
  <2>3. CASE q < r
    BY <1>3, <2>1, <2>2, <2>3, Farther
  <2>4. CASE r < q
    BY <1>3, <2>1, <2>2, <2>4, Farther
  <2>5. q = r \/ q < r \/ r < q
    OBVIOUS
  <2> QED BY <2>1, <2>2, <2>3, <2>4, <2>5
<1>4. ASSUME NEW v \in 0..(m - 1), NEW e \in Nat, Turn(m, w, e), Turn(m, v, e) PROVE v = w
  <2>1. PICK q \in Nat : e = w + m * q
    BY <1>4 DEF Turn
  <2>2. PICK r \in Nat : e = v + m * r
    BY <1>4 DEF Turn
  <2>3. CASE q < r
    BY <2>1, <2>2, <2>3, Farther
  <2>4. CASE r < q
    BY <2>1, <2>2, <2>4, Farther
  <2>5. CASE q = r
    <3>1. m * q \in Nat
      BY Z3
    <3> QED BY <2>1, <2>2, <2>5, <3>1
  <2> QED BY <2>3, <2>4, <2>5
<1> QED BY <1>1, <1>2, <1>3, <1>4

\* Every number is in some thread's turns.
LEMMA SomeTurn ==
  ASSUME NEW m \in Nat \ {0}, NEW e \in Nat
  PROVE  \E w \in 0..(m - 1) : Turn(m, w, e)
<1> DEFINE T == {d \in 0..e : \E w \in 0..(m - 1) : Turn(m, w, d)}
<1>1. 0 \in T
  <2>1. 0 \in 0..(m - 1) /\ 0 \in 0..e
    OBVIOUS
  <2> QED BY <2>1, Turns
<1>2. ASSUME NEW d \in 1..e, d - 1 \in T PROVE d \in T
  <2>1. PICK w \in 0..(m - 1) : Turn(m, w, d - 1)
    BY <1>2
  <2>2. PICK q \in Nat : d - 1 = w + m * q
    BY <2>1 DEF Turn
  <2>3. m * q \in Nat /\ m * (q + 1) = m * q + m
    BY Z3
  <2>4. CASE w + 1 < m
    <3>1. w + 1 \in 0..(m - 1) /\ d = (w + 1) + m * q
      BY <2>2, <2>3, <2>4
    <3>2. Turn(m, w + 1, d)
      BY <3>1, Zenon DEF Turn
    <3> QED BY <3>1, <3>2
  <2>5. CASE w + 1 = m
    <3>1. 0 \in 0..(m - 1) /\ d = 0 + m * (q + 1) /\ q + 1 \in Nat
      BY <2>2, <2>3, <2>5
    <3>2. Turn(m, 0, d)
      BY <3>1, Zenon DEF Turn
    <3> QED BY <3>1, <3>2
  <2> QED BY <2>4, <2>5
<1>3. \A d \in 0..e : d \in T
  <2> HIDE DEF T
  <2> QED BY <1>1, <1>2, UpTo
<1> QED BY <1>3

\* The documents before d that are thread w's, of m, and those of the threads before w.
Mine(m, w, d) == {e \in Nat : Turn(m, w, e) /\ e < d}
Before(m, w) == {e \in Nat : \E v \in 0..(w - 1) : Turn(m, v, e)}

Job == [st : {"none", "new", "count", "done", "failed"}, d : Nat, tokens : Seq(Span)]

\* Thread w of m has counted its documents of o up to the one it has come to.
JobOf(r, m, w, o) ==
  /\ r \in Job /\ r.st \in {"new", "count", "done", "failed"}
  /\ Turn(m, w, r.d) /\ Covers(o, r.tokens, Mine(m, w, r.d))
  /\ r.st = "done" => r.d >= Len(o) - 1

\* A thread that has been made has counted nothing, and is owed nothing before its first turn.
LEMMA NewJob ==
  ASSUME NEW m \in Nat \ {0}, NEW w \in 0..(m - 1), NEW o
  PROVE  JobOf([st |-> "new", d |-> w, tokens |-> <<>>], m, w, o)
<1>1. Turn(m, w, w) /\ \A e \in Nat : Turn(m, w, e) => e >= w
  BY Turns
<1>2. Mine(m, w, w) = {}
  BY <1>1 DEF Mine
<1>3. Covers(o, <<>>, {}) /\ <<>> \in Seq(Span)
  BY CoversNone
<1> HIDE DEF Span
<1> DEFINE r == [st |-> "new", d |-> w, tokens |-> <<>>]
<1>4. r.st = "new" /\ r.d = w /\ r.tokens = <<>> /\ r \in Job
  <2>1. w \in Nat
    OBVIOUS
  <2> QED BY <1>3, <2>1 DEF Job
<1> HIDE DEF r
<1>5. JobOf(r, m, w, o)
  BY <1>1, <1>2, <1>3, <1>4, Zenon DEF JobOf
<1> QED BY <1>5 DEF r

\* A document more.
LEMMA NextDoc ==
  ASSUME NEW m \in Nat \ {0}, NEW w \in 0..(m - 1), NEW o, NEW l, Offsets0(o, l),
         NEW r, JobOf(r, m, w, o), r.st = "count", r.d < Len(o) - 1
  PROVE  JobOf([st |-> "count", d |-> r.d + m,
                tokens |-> Append(r.tokens, [from |-> o[r.d + 1], to |-> o[r.d + 2]])], m, w, o)
<1> DEFINE d == r.d
           x == r.tokens
           p == [from |-> o[d + 1], to |-> o[d + 2]]
           E == Mine(m, w, d)
<1>1. d \in Nat /\ x \in Seq(Span) /\ Turn(m, w, d) /\ Covers(o, x, E)
  BY DEF JobOf, Job
<1>2. d \in 0..(Len(o) - 2) /\ Len(o) \in Nat
  BY <1>1 DEF Offsets0
<1>3. p \in Span /\ <<p>> \in Seq(Span) /\ Covers(o, <<p>>, {d})
  BY <1>2, CoversDoc
<1> HIDE DEF p, x
<1>4. E \cap {d} = {}
  BY <1>1 DEF Mine
<1>5. E \cup {d} = Mine(m, w, d + m)
  <2>1. \A e \in Nat : Turn(m, w, e) /\ d <= e /\ e < d + m => e = d
    BY <1>1, Turns
  <2>2. \A e \in Nat : e < d \/ d <= e
    BY <1>1
  <2>3. d < d + m /\ \A e \in Nat : e < d => e < d + m
    BY <1>1
  <2> HIDE DEF d
  <2> QED BY <1>1, <2>1, <2>2, <2>3 DEF Mine
<1>6. x \o <<p>> \in Seq(Span) /\ Covers(o, x \o <<p>>, E \cup {d})
  <2> HIDE DEF E, d
  <2> QED BY <1>1, <1>3, <1>4, CoversMore
<1>7. Append(x, p) = x \o <<p>>
  BY <1>1, <1>3
<1>8. Turn(m, w, d + m) /\ d + m \in Nat
  <2> HIDE DEF d
  <2> QED BY <1>1, Turns
<1> DEFINE q == [st |-> "count", d |-> d + m, tokens |-> Append(x, p)]
<1>9. q.st = "count" /\ q.d = d + m /\ q.tokens = x \o <<p>> /\ q \in Job
  <2>1. Append(x, p) \in Seq(Span)
    BY <1>6, <1>7
  <2> HIDE DEF Span, d
  <2> QED BY <1>7, <1>8, <2>1 DEF Job
<1> HIDE DEF q, d, E
<1>10. JobOf(q, m, w, o)
  BY <1>5, <1>6, <1>8, <1>9 DEF JobOf
<1> QED BY <1>10 DEF q, d, x, p

\* A thread that is done has all of its own.
LEMMA DoneJob ==
  ASSUME NEW m \in Nat \ {0}, NEW w \in 0..(m - 1), NEW o, NEW r, JobOf(r, m, w, o), r.st = "done",
         NEW s1 \in Seq(Span), Covers(o, s1, Before(m, w))
  PROVE  /\ s1 \o r.tokens \in Seq(Span)
         /\ Covers(o, s1 \o r.tokens, Before(m, w + 1))
<1>1. r.d \in Nat /\ r.tokens \in Seq(Span) /\ Covers(o, r.tokens, Mine(m, w, r.d)) /\ r.d >= Len(o) - 1
  BY DEF JobOf, Job
<1> DEFINE F == {e \in Nat : Turn(m, w, e)}
<1>2. Covers(o, r.tokens, F)
  <2>1. \A e \in 0..(Len(o) - 2) : e \in F <=> e \in Mine(m, w, r.d)
    <3>1. \A e \in 0..(Len(o) - 2) : e \in Nat /\ e < r.d
      BY <1>1
    <3> QED BY <3>1 DEF Mine
  <2> HIDE DEF F
  <2> QED BY <1>1, <2>1 DEF Covers
<1>3. Before(m, w) \cap F = {}
  <2>1. \A v \in 0..(w - 1) : v \in 0..(m - 1) /\ v # w
    OBVIOUS
  <2>2. \A v \in 0..(m - 1) : \A e \in Nat : Turn(m, w, e) /\ Turn(m, v, e) => v = w
    BY Turns
  <2> QED BY <2>1, <2>2 DEF Before
<1>4. Before(m, w) \cup F = Before(m, w + 1)
  <2>1. \A v : v \in 0..((w + 1) - 1) <=> v \in 0..(w - 1) \/ v = w
    OBVIOUS
  <2> QED BY <2>1 DEF Before
<1> HIDE DEF F
<1> QED BY <1>1, <1>2, <1>3, <1>4, CoversMore

\* After the last thread nothing is left.
LEMMA AllBefore == ASSUME NEW m \in Nat \ {0} PROVE Nat \subseteq Before(m, m)
  BY SomeTurn DEF Before

LEMMA NoneBefore == \A m : Before(m, 0) = {}
  BY DEF Before

\* What main and its threads have counted.  Main makes the threads one by one, and
\* takes what each has counted in the order it made them.
Shared ==
  /\ Offsets0(off, n) /\ t \in 0..(Threads - 1) /\ round \in Nat /\ sum \in Seq(Span)
  /\ at = "spawn" =>
       /\ sum = <<>> /\ \A w \in 0..(t - 1) : JobOf(worker[w], Threads, w, off)
       /\ \A w \in t..(MaxThreads - 1) : ~Live(w)
  /\ at = "join" =>
       /\ \A w \in 0..(Threads - 1) : JobOf(worker[w], Threads, w, off)
       /\ \A w \in 0..(t - 1) \cup Threads..(MaxThreads - 1) : ~Live(w)
       /\ (\A w \in 0..(t - 1) : worker[w].st = "done") => Covers(off, sum, Before(Threads, t))
  /\ round > 1 => Covers(off, tokens, Before(Threads, Threads))

Crew ==
  /\ at \notin Left => worker \in [0..(MaxThreads - 1) -> Job]
  /\ at \notin Spawned \cup Left => t = 0 /\ sum = <<>> /\ round = 1
  /\ at \in Spawned => Shared

\* There is a thread, and there are no more than jobs.
LEMMA ThreadsIs ==
  ASSUME args \in Args
  PROVE  Threads \in Nat \ {0} /\ Threads <= MaxThreads /\ MaxThreads \in Nat
  BY ArgsAssumption DEF Threads, Least

\* Elsewhere nothing of it changes.
LEMMA CrewStays ==
  ASSUME Crew, UNCHANGED bench, at \notin Spawned \cup Left \/ at' \in Left, at' \notin Spawned
  PROVE  Crew'
<1>1. worker' = worker /\ t' = t /\ sum' = sum /\ round' = round
  BY DEF bench
<1>2. at' \notin Left => at \notin Spawned \cup Left /\ at \notin Left
  OBVIOUS
<1> HIDE DEF Spawned, Left, Job
<1> QED BY <1>1, <1>2 DEF Crew

\* What main does with the documents and the threads.
LEMMA SplitKeepsCrew == ASSUME Crew, Alive, Filled, Split PROVE Crew'
<1>1. at \notin Spawned \cup Left /\ at \notin Left /\ at = "split"
  BY DEF Split, Spawned, Left
<1>2. CASE Exit(4) /\ UNCHANGED off
  <2>1. at' \in Left /\ at' \notin Spawned /\ UNCHANGED bench
    BY <1>2 DEF Split, Exit, Left, Spawned, bench
  <2> QED BY <2>1, CrewStays
<1>3. CASE off' = Docs /\ Goto("spawn")
  <2>1. /\ at' = "spawn" /\ UNCHANGED <<args, n, round, t, worker, sum, tokens>>
        /\ off' = Docs
    BY <1>3 DEF Split, Goto, Quiet, input
  <2>2. t = 0 /\ sum = <<>> /\ round = 1 /\ worker \in [0..(MaxThreads - 1) -> Job]
    BY <1>1 DEF Crew
  <2>3. Offsets0(Docs, n)
    BY DocsFit DEF Filled, Offsets0
  <2>4. \A w \in 0..(MaxThreads - 1) : ~Live(w)
    BY <1>1, <2>2 DEF Alive
  <2>5. Threads' = Threads /\ Threads \in Nat \ {0} /\ \A w : Live(w)' <=> Live(w)
    BY <2>1, ThreadsIs DEF Threads, Filled, Live
  <2>6. 0 \in 0..(Threads - 1) /\ \A w \in 0..(0 - 1) : FALSE
    BY <2>5
  <2>7. <<>> \in Seq(Span)
    OBVIOUS
  <2> HIDE DEF Threads, Span
  <2>8. Shared'
    BY <2>1, <2>2, <2>3, <2>4, <2>5, <2>6, <2>7 DEF Shared
  <2>9. at' \in Spawned /\ at' \notin Left
    BY <2>1 DEF Spawned, Left
  <2> QED BY <2>1, <2>2, <2>8, <2>9 DEF Crew
<1> QED BY <1>2, <1>3 DEF Split

LEMMA SpawnKeepsCrew == ASSUME Crew, Filled, Spawn PROVE Crew'
<1> DEFINE job == [st |-> "new", d |-> t, tokens |-> <<>>]
           m == Threads
<1>1. at = "spawn" /\ Shared /\ worker \in [0..(MaxThreads - 1) -> Job]
  BY DEF Spawn, Crew, Spawned, Left
<1>2. CASE Finish(4)
  BY <1>2 DEF Finish, Crew, Spawned, Left
<1>3. CASE /\ worker' = [worker EXCEPT ![t] = job]
           /\ IF t + 1 < m THEN t' = t + 1 /\ Goto("spawn") ELSE t' = 0 /\ Goto("join")
  <2>1. /\ UNCHANGED <<args, n, off, round, sum, tokens>>
    BY DEF Spawn, Quiet, input
  <2>2. /\ Threads' = m /\ m \in Nat \ {0} /\ m <= MaxThreads /\ MaxThreads \in Nat
        /\ t \in 0..(m - 1) /\ t \in 0..(MaxThreads - 1)
    <3>1. Threads' = m
      BY <2>1 DEF Threads
    <3>2. m \in Nat \ {0} /\ m <= MaxThreads /\ MaxThreads \in Nat
      BY ThreadsIs DEF Filled
    <3>3. t \in 0..(m - 1)
      BY <1>1 DEF Shared
    <3> HIDE DEF m
    <3> QED BY <3>1, <3>2, <3>3
  <2> HIDE DEF m
  <2>3. JobOf(job, m, t, off)
    BY <2>2, NewJob
  <2> HIDE DEF job
  <2>4. job \in Job
    BY <2>3 DEF JobOf
  <2>5. /\ worker' \in [0..(MaxThreads - 1) -> Job] /\ worker'[t] = job
        /\ \A w \in 0..(MaxThreads - 1) : w # t => worker'[w] = worker[w]
    <3> HIDE DEF Job
    <3> QED BY <1>1, <1>3, <2>2, <2>4
  <2>6. /\ \A w \in 0..(t - 1) : JobOf(worker[w], m, w, off)
        /\ \A w \in t..(MaxThreads - 1) : ~Live(w)
        /\ Offsets0(off, n) /\ sum = <<>> /\ round \in Nat
        /\ round > 1 => Covers(off, tokens, Before(m, m))
    BY <1>1 DEF Shared, m
  <2>7. \A w \in 0..t : JobOf(worker'[w], m, w, off)
    <3> TAKE w \in 0..t
    <3>1. w = t \/ (w \in 0..(t - 1) /\ w \in 0..(MaxThreads - 1) /\ w # t)
      BY <2>2
    <3> QED BY <2>3, <2>5, <2>6, <3>1
  <2>8. \A w \in (t + 1)..(MaxThreads - 1) : ~Live(w)'
    <3> TAKE w \in (t + 1)..(MaxThreads - 1)
    <3>1. w \in t..(MaxThreads - 1) /\ w \in 0..(MaxThreads - 1) /\ w # t
      BY <2>2
    <3> QED BY <2>5, <2>6, <3>1 DEF Live
  <2>9. CASE t + 1 < m
    <3>1. t' = t + 1 /\ at' = "spawn"
      BY <1>3, <2>9 DEF Goto
    <3>2. t' \in 0..(m - 1) /\ (t + 1) - 1 = t
      BY <2>2, <2>9, <3>1
    <3>3. Shared'
      BY <2>1, <2>2, <2>6, <2>7, <2>8, <3>1, <3>2 DEF Shared
    <3> QED BY <2>5, <3>1, <3>3 DEF Crew, Spawned, Left
  <2>10. CASE ~(t + 1 < m)
    <3>1. t' = 0 /\ at' = "join" /\ t = m - 1
      BY <1>3, <2>2, <2>10 DEF Goto
    <3>2. 0 \in 0..(m - 1) /\ (\A w : w \notin 0..(0 - 1)) /\ (t + 1) = m
      BY <2>2, <3>1
    <3>3. Covers(off, <<>>, Before(m, 0)) /\ <<>> \in Seq(Span)
      <4>1. Before(m, 0) = {}
        BY NoneBefore
      <4>2. <<>> \in Seq(Span)
        OBVIOUS
      <4> QED BY <4>1, <4>2, CoversNone
    <3>4. \A w \in 0..(m - 1) : JobOf(worker'[w], m, w, off)
      BY <2>7, <3>1
    <3>5. \A w \in m..(MaxThreads - 1) : ~Live(w)'
      BY <2>8, <3>2
    <3> HIDE DEF Span
    <3>6. Shared'
      BY <2>1, <2>2, <2>6, <3>1, <3>2, <3>3, <3>4, <3>5 DEF Shared
    <3> QED BY <2>5, <3>1, <3>6 DEF Crew, Spawned, Left
  <2> QED BY <2>9, <2>10
<1> QED BY <1>2, <1>3 DEF Spawn

\* What one join adds, and what the last one of all hands over.
LEMMA Joined ==
  ASSUME Crew, Filled, Join
  PROVE  /\ Crew'
         /\ \/ UNCHANGED result /\ (Finish(4) \/ \E x \in Spawned : Goto(x))
            \/ /\ Finish(0) /\ \A w \in DOMAIN worker : ~Live(w)
               /\ \A i \in 0..(n - 1) : Once(result', i)
<1> DEFINE m == Threads
           all == sum \o worker[t].tokens
<1>1. at = "join" /\ Shared /\ worker \in [0..(MaxThreads - 1) -> Job] /\ ~Live(t)
  BY DEF Join, Crew, Spawned, Left
<1>2. UNCHANGED <<args, n, off, worker>>
  BY DEF Join, Quiet, input
<1>3. /\ Threads' = m /\ m \in Nat \ {0} /\ m <= MaxThreads /\ MaxThreads \in Nat
      /\ t \in 0..(m - 1)
  BY <1>1, <1>2, ThreadsIs DEF Threads, Filled, Shared
<1>4. /\ \A w \in 0..(m - 1) : JobOf(worker[w], m, w, off)
      /\ \A w \in 0..(t - 1) \cup m..(MaxThreads - 1) : ~Live(w)
      /\ (\A w \in 0..(t - 1) : worker[w].st = "done") => Covers(off, sum, Before(m, t))
      /\ Offsets0(off, n) /\ sum \in Seq(Span) /\ round \in Nat
      /\ round > 1 => Covers(off, tokens, Before(m, m))
  BY <1>1 DEF Shared
<1> HIDE DEF m
<1>5. \A w \in 0..t : ~Live(w)
  <2>1. \A w \in 0..t : w = t \/ w \in 0..(t - 1)
    BY <1>3
  <2> QED BY <1>1, <1>4, <2>1
<1>6. \A w \in 0..t : worker[w].st \in {"done", "failed"}
  <2> TAKE w \in 0..t
  <2>1. w \in 0..(m - 1)
    BY <1>3
  <2>2. worker[w].st \in {"new", "count", "done", "failed"}
    BY <1>4, <2>1 DEF JobOf
  <2> QED BY <1>5, <2>2 DEF Live
<1>7. all \in Seq(Span)
  <2>1. worker[t].tokens \in Seq(Span)
    BY <1>3, <1>4 DEF JobOf, Job
  <2> HIDE DEF Span
  <2> QED BY <1>4, <2>1
<1>8. (\A w \in 0..t : worker[w].st = "done") => Covers(off, all, Before(m, t + 1))
  <2> SUFFICES ASSUME \A w \in 0..t : worker[w].st = "done"
               PROVE  Covers(off, all, Before(m, t + 1))
    OBVIOUS
  <2>1. t \in 0..t /\ \A w \in 0..(t - 1) : w \in 0..t
    BY <1>3
  <2>2. Covers(off, sum, Before(m, t)) /\ worker[t].st = "done"
    BY <1>4, <2>1
  <2>3. JobOf(worker[t], m, t, off)
    BY <1>3, <1>4
  <2> HIDE DEF Span
  <2> QED BY <1>3, <1>4, <2>2, <2>3, DoneJob
<1> HIDE DEF all, Span, Job
<1>9. CASE t + 1 < m
  <2>1. /\ t' = t + 1 /\ sum' = all /\ at' = "join" /\ Goto("join")
        /\ UNCHANGED <<round, tokens, result>>
    BY <1>9 DEF Join, m, all, Goto
  <2>2. t' \in 0..(m - 1) /\ (t + 1) - 1 = t /\ \A w : w \in 0..((t + 1) - 1) <=> w \in 0..t
    BY <1>3, <1>9, <2>1
  <2>3. \A w \in 0..t \cup m..(MaxThreads - 1) : ~Live(w)'
    BY <1>2, <1>4, <1>5 DEF Live
  <2>4. Shared'
    BY <1>2, <1>3, <1>4, <1>7, <1>8, <2>1, <2>2, <2>3 DEF Shared
  <2> QED BY <1>1, <1>2, <2>1, <2>4 DEF Crew, Spawned, Left
<1>10. CASE ~(t + 1 < m)
  <2>1. t + 1 = m /\ \A w \in 0..(MaxThreads - 1) : w \in 0..t \/ w \in m..(MaxThreads - 1)
    BY <1>3, <1>10
  <2>2. \A w \in 0..(MaxThreads - 1) : ~Live(w)
    BY <1>4, <1>5, <2>1
  <2>3. CASE Finish(4) /\ UNCHANGED <<round, tokens, result>>
    <3>1. Crew'
      BY <2>3 DEF Finish, Crew, Left, Spawned
    <3> QED BY <2>3, <3>1
  <2>4. CASE /\ t' = 0 /\ sum' = <<>>
             /\ \A w \in 0..t : worker[w].st # "failed"
             /\ tokens' = all \/ (round > 1 /\ UNCHANGED tokens)
             /\ round' = round + 1
             /\ IF round < Rounds THEN Goto("spawn") /\ UNCHANGED result
                ELSE result' = tokens' /\ Finish(0)
    <3>1. Covers(off, all, Before(m, m))
      <4>1. \A w \in 0..t : worker[w].st = "done"
        BY <1>6, <2>4
      <4> QED BY <1>8, <2>1, <4>1
    <3>2. Covers(off, tokens', Before(m, m))
      BY <1>4, <2>4, <3>1
    <3>3. CASE round < Rounds
      <4>1. at' = "spawn" /\ Goto("spawn") /\ result' = result
        BY <2>4, <3>3 DEF Goto
      <4>2. 0 \in 0..(m - 1) /\ (\A w : w \notin 0..(0 - 1)) /\ round + 1 \in Nat
        BY <1>3, <1>4
      <4>3. <<>> \in Seq(Span)
        OBVIOUS
      <4>4. \A w \in 0..(MaxThreads - 1) : ~Live(w)'
        BY <1>2, <2>2 DEF Live
      <4>5. t' = 0 /\ sum' = <<>> /\ round' = round + 1
        BY <2>4
      <4>6. Offsets0(off, n)' /\ (round > 1)' => Covers(off, tokens, Before(Threads, Threads))'
        BY <1>2, <1>3, <3>2
      <4>7. Offsets0(off, n)'
        BY <1>2, <1>4
      <4>8. Shared'
        BY <1>3, <4>1, <4>2, <4>3, <4>4, <4>5, <4>6, <4>7 DEF Shared
      <4> QED BY <1>1, <1>2, <4>1, <4>8 DEF Crew, Spawned, Left
    <3>4. CASE ~(round < Rounds)
      <4>1. at' = "close" /\ Finish(0) /\ result' = tokens'
        BY <2>4, <3>4 DEF Finish
      <4>2. 0..(Len(off) - 2) \subseteq Before(m, m)
        BY <1>3, AllBefore
      <4>3. n \in Nat
        BY DEF Filled
      <4>4. \A i \in 0..(n - 1) : Once(tokens', i)
        BY <1>4, <3>2, <4>2, <4>3, CoversAll
      <4>5. Crew'
        BY <4>1 DEF Crew, Left, Spawned
      <4>6. \A w \in DOMAIN worker : ~Live(w)
        BY <1>1, <2>2
      <4> QED BY <4>1, <4>4, <4>5, <4>6
    <3> QED BY <3>3, <3>4
  <2> QED BY <1>10, <2>3, <2>4 DEF Join, m, all
<1> QED BY <1>9, <1>10

\* A thread's own steps.
LEMMA WorkerKeepsCrew ==
  ASSUME Crew, Alive, Filled, NEW w \in DOMAIN worker, Worker(w)
  PROVE  Crew'
<1> DEFINE m == Threads
           r == worker[w]
<1>1. /\ Live(w) /\ UNCHANGED <<args, at, n, off, round, t, sum, tokens>>
  BY DEF Worker, Quiet, input
<1>2. CASE at \in Left
  BY <1>1, <1>2 DEF Crew, Left, Spawned
<1>3. CASE at \notin Left
  <2>1. at \in Spawned /\ Shared /\ worker \in [0..(MaxThreads - 1) -> Job]
    BY <1>1, <1>3 DEF Alive, Crew
  <2>2. /\ Threads' = m /\ m \in Nat \ {0} /\ m <= MaxThreads /\ MaxThreads \in Nat
        /\ t \in 0..(m - 1) /\ w \in 0..(MaxThreads - 1)
    BY <1>1, <2>1, ThreadsIs DEF Threads, Filled, Shared
  <2> HIDE DEF m
  <2>3. /\ w \in 0..(m - 1) /\ JobOf(r, m, w, off) /\ r \in Job
        /\ at = "spawn" => w \in 0..(t - 1)
        /\ at = "join" => w \notin 0..(t - 1)
    <3>1. CASE at = "spawn"
      <4>1. w \in 0..(t - 1)
        BY <1>1, <2>1, <2>2, <3>1 DEF Shared
      <4> QED BY <2>1, <2>2, <3>1, <4>1 DEF Shared, m
    <3>2. CASE at = "join"
      <4>1. w \notin 0..(t - 1) /\ w \notin m..(MaxThreads - 1)
        BY <1>1, <2>1, <3>2 DEF Shared, m
      <4>2. w \in 0..(m - 1)
        BY <2>2, <4>1
      <4> QED BY <2>1, <2>2, <3>2, <4>1, <4>2 DEF Shared, m
    <3> QED BY <2>1, <3>1, <3>2 DEF Spawned
  <2>4. Offsets0(off, n)
    BY <2>1 DEF Shared
  <2>5. \E q : JobOf(q, m, w, off) /\ worker' = [worker EXCEPT ![w] = q]
    <3>1. \A x \in {"count", "done", "failed"} :
            (x = "done" => r.d >= Len(off) - 1) =>
            JobOf([r EXCEPT !.st = x], m, w, off)
              /\ [worker EXCEPT ![w].st = x] = [worker EXCEPT ![w] = [r EXCEPT !.st = x]]
      <4> TAKE x \in {"count", "done", "failed"}
      <4> HAVE x = "done" => r.d >= Len(off) - 1
      <4> DEFINE q == [r EXCEPT !.st = x]
      <4>1. q.st = x /\ q.d = r.d /\ q.tokens = r.tokens /\ q \in Job
        <5>1. \A S : \A z \in [st : {"none", "new", "count", "done", "failed"}, d : Nat, tokens : S] :
                LET y == [z EXCEPT !.st = x]
                IN /\ y.st = x /\ y.d = z.d /\ y.tokens = z.tokens
                   /\ y \in [st : {"none", "new", "count", "done", "failed"}, d : Nat, tokens : S]
          OBVIOUS
        <5> HIDE DEF r, Span
        <5> QED BY <2>3, <5>1 DEF Job
      <4> HIDE DEF q
      <4>2. JobOf(q, m, w, off)
        BY <2>3, <4>1 DEF JobOf
      <4>3. [worker EXCEPT ![w].st = x] = [worker EXCEPT ![w] = [r EXCEPT !.st = x]]
        OBVIOUS
      <4> QED BY <4>2, <4>3 DEF q
    <3>2. CASE r.st = "new" /\ \E x \in {"failed", "count"} : worker' = [worker EXCEPT ![w].st = x]
      <4>1. PICK x \in {"failed", "count"} : worker' = [worker EXCEPT ![w].st = x]
        BY <3>2
      <4> HIDE DEF r
      <4>2. x \in {"count", "done", "failed"} /\ x # "done"
        BY <4>1
      <4>3. /\ JobOf([r EXCEPT !.st = x], m, w, off)
            /\ [worker EXCEPT ![w].st = x] = [worker EXCEPT ![w] = [r EXCEPT !.st = x]]
        BY <3>1, <4>2
      <4>4. worker' = [worker EXCEPT ![w] = [r EXCEPT !.st = x]]
        BY <4>1, <4>3
      <4> QED BY <4>3, <4>4
    <3>3. CASE r.d >= NDocs /\ worker' = [worker EXCEPT ![w].st = "done"]
      <4> HIDE DEF r
      <4>1. /\ JobOf([r EXCEPT !.st = "done"], m, w, off)
            /\ [worker EXCEPT ![w].st = "done"] = [worker EXCEPT ![w] = [r EXCEPT !.st = "done"]]
        BY <3>1, <3>3 DEF NDocs
      <4>2. worker' = [worker EXCEPT ![w] = [r EXCEPT !.st = "done"]]
        BY <3>3, <4>1
      <4> QED BY <4>1, <4>2
    <3>4. CASE worker' = [worker EXCEPT ![w].st = "failed"]
      <4> HIDE DEF r
      <4>1. /\ JobOf([r EXCEPT !.st = "failed"], m, w, off)
            /\ [worker EXCEPT ![w].st = "failed"] = [worker EXCEPT ![w] = [r EXCEPT !.st = "failed"]]
        BY <3>1
      <4>2. worker' = [worker EXCEPT ![w] = [r EXCEPT !.st = "failed"]]
        BY <3>4, <4>1
      <4> QED BY <4>1, <4>2
    <3>5. CASE /\ r.st = "count" /\ r.d < NDocs
               /\ worker' = [worker EXCEPT ![w].d = r.d + Threads, ![w].tokens =
                    Append(@, [from |-> off[r.d + 1], to |-> off[r.d + 2]])]
      <4> DEFINE more == Append(r.tokens, [from |-> off[r.d + 1], to |-> off[r.d + 2]])
                 q == [st |-> "count", d |-> r.d + m, tokens |-> more]
      <4>1. JobOf(q, m, w, off)
        BY <2>2, <2>3, <2>4, <3>5, NextDoc DEF NDocs
      <4>2. worker' = [worker EXCEPT ![w] = [r EXCEPT !.d = r.d + m, !.tokens = more]]
        BY <2>1, <2>2, <3>5 DEF m
      <4> DEFINE y == [r EXCEPT !.d = r.d + m, !.tokens = more]
      <4>3. q.st = "count" /\ q.d = r.d + m /\ q.tokens = more
        OBVIOUS
      <4>4. r.d + m \in Nat /\ more \in Seq(Span)
        <5>1. q.d \in Nat /\ q.tokens \in Seq(Span)
          BY <4>1 DEF JobOf, Job
        <5> HIDE DEF q, more
        <5> QED BY <4>3, <5>1
      <4>5. y \in Job /\ y.st = "count" /\ y.d = r.d + m /\ y.tokens = more
        <5>1. \A S : \A z \in [st : {"none", "new", "count", "done", "failed"}, d : Nat, tokens : S] :
                \A a \in Nat : \A b \in S :
                LET x == [z EXCEPT !.d = a, !.tokens = b]
                IN /\ x.st = z.st /\ x.d = a /\ x.tokens = b
                   /\ x \in [st : {"none", "new", "count", "done", "failed"}, d : Nat, tokens : S]
          OBVIOUS
        <5> HIDE DEF r, Span, more
        <5> QED BY <2>3, <3>5, <4>4, <5>1 DEF Job
      <4> HIDE DEF q, r, y, more
      <4>6. JobOf(y, m, w, off)
        BY <4>1, <4>3, <4>5 DEF JobOf
      <4>7. worker' = [worker EXCEPT ![w] = y]
        BY <4>2 DEF y
      <4> QED BY <4>6, <4>7
    <3> QED BY <3>2, <3>3, <3>4, <3>5 DEF Worker
  <2>6. PICK q : JobOf(q, m, w, off) /\ worker' = [worker EXCEPT ![w] = q]
    BY <2>5
  <2>7. /\ worker' \in [0..(MaxThreads - 1) -> Job] /\ worker'[w] = q
        /\ \A v \in 0..(MaxThreads - 1) : v # w => worker'[v] = worker[v]
    <3>1. q \in Job
      BY <2>6 DEF JobOf
    <3> HIDE DEF Job
    <3> QED BY <2>1, <2>2, <2>6, <3>1
  <2>8. \A v \in 0..(m - 1) : JobOf(worker[v], m, v, off) => JobOf(worker'[v], m, v, off)
    <3>1. \A v \in 0..(m - 1) : v \in 0..(MaxThreads - 1)
      BY <2>2
    <3> QED BY <2>6, <2>7, <3>1
  <2>9. \A v \in 0..(MaxThreads - 1) : ~Live(v) => ~Live(v)'
    <3> TAKE v \in 0..(MaxThreads - 1)
    <3> HAVE ~Live(v)
    <3>1. v # w
      BY <1>1
    <3>2. worker'[v] = worker[v]
      BY <2>7, <3>1
    <3> QED BY <3>2 DEF Live
  <2>10. CASE at = "spawn"
    <3>1. \A v \in 0..(t - 1) : v \in 0..(m - 1)
      BY <2>2
    <3>2. \A v \in t..(MaxThreads - 1) : v \in 0..(MaxThreads - 1)
      BY <2>2
    <3>3. /\ \A v \in 0..(t - 1) : JobOf(worker[v], m, v, off)
          /\ \A v \in t..(MaxThreads - 1) : ~Live(v)
          /\ sum = <<>> /\ round \in Nat /\ sum \in Seq(Span)
          /\ round > 1 => Covers(off, tokens, Before(m, m))
      BY <2>1, <2>10 DEF Shared, m
    <3>4. Shared'
      BY <1>1, <2>2, <2>4, <2>8, <2>9, <2>10, <3>1, <3>2, <3>3 DEF Shared
    <3> QED BY <1>1, <2>1, <2>7, <2>10, <3>4 DEF Crew, Spawned, Left
  <2>11. CASE at = "join"
    <3>1. \A v \in 0..(t - 1) \cup m..(MaxThreads - 1) : v \in 0..(MaxThreads - 1)
      BY <2>2
    <3>2. /\ \A v \in 0..(m - 1) : JobOf(worker[v], m, v, off)
          /\ \A v \in 0..(t - 1) \cup m..(MaxThreads - 1) : ~Live(v)
          /\ (\A v \in 0..(t - 1) : worker[v].st = "done") => Covers(off, sum, Before(m, t))
          /\ round \in Nat /\ sum \in Seq(Span)
          /\ round > 1 => Covers(off, tokens, Before(m, m))
      BY <2>1, <2>11 DEF Shared, m
    <3>3. \A v \in 0..(t - 1) : worker'[v] = worker[v]
      <4>1. \A v \in 0..(t - 1) : v \in 0..(MaxThreads - 1) /\ v # w
        BY <2>2, <2>3, <2>11
      <4> QED BY <2>7, <4>1
    <3>4. Shared'
      BY <1>1, <2>2, <2>4, <2>8, <2>9, <2>11, <3>1, <3>2, <3>3 DEF Shared
    <3> QED BY <1>1, <2>1, <2>7, <2>11, <3>4 DEF Crew, Spawned, Left
  <2> QED BY <2>1, <2>10, <2>11 DEF Spawned
<1> QED BY <1>2, <1>3

\* Every step of the program keeps it.
LEMMA CrewStep == ASSUME Crew, Alive, Filled, [Next]_vars PROVE Crew'
<1>1. CASE Start \/ OpenVocab \/ LoadInput \/ ReadAll \/ Context
  <2>1. UNCHANGED bench /\ at \in {"start", "open"} \cup Working
    BY <1>1 DEF Start, OpenVocab, LoadInput, ReadAll, Context, Working
  <2>2. at' \notin Spawned
    <3>1. args.cmd \notin Spawned \/ at # "context"
      BY DEF Alive, Commands, Working, Spawned
    <3> QED BY <1>1, <3>1 DEF Start, OpenVocab, LoadInput, ReadAll, Loaded, Context, Goto, Exit, Finish, Spawned
  <2>3. at \notin Spawned \cup Left
    BY <2>1 DEF Working, Spawned, Left, Commands
  <2> QED BY <2>1, <2>2, <2>3, CrewStays
<1>2. CASE Count \/ EncodeAgain \/ Parse \/ DecodeIds \/ RunCensus
  <2>1. UNCHANGED bench /\ at \in Working
    BY <1>2 DEF Count, EncodeAgain, Parse, DecodeIds, RunCensus, Working, Commands
  <2>2. at' \notin Spawned
    BY <1>2 DEF Count, EncodeAgain, Parse, DecodeIds, RunCensus, Goto, Exit, Finish, Spawned
  <2>3. at \notin Spawned \cup Left
    BY <2>1 DEF Working, Spawned, Left, Commands
  <2> QED BY <2>1, <2>2, <2>3, CrewStays
<1>3. CASE CloseVocab \/ Return \/ Killed
  <2>1. UNCHANGED bench /\ at' \in Left /\ at' \notin Spawned
    BY <1>3 DEF CloseVocab, Return, Killed, Goto, Exit, Left, Spawned
  <2> QED BY <2>1, CrewStays
<1>4. CASE UNCHANGED vars
  BY <1>4 DEF vars, main, bench, input, Crew, Shared, Threads, Live
<1> QED
  BY <1>1, <1>2, <1>3, <1>4, SplitKeepsCrew, SpawnKeepsCrew, Joined, WorkerKeepsCrew
  DEF Next, Main

\* The program starts with no thread made.
LEMMA CrewStarts == Init => Crew
<1> SUFFICES ASSUME Init PROVE Crew
  OBVIOUS
<1>1. /\ at = "start" /\ t = 0 /\ sum = <<>> /\ round = 1
      /\ worker = [w \in 0..(MaxThreads - 1) |-> Idle]
  BY DEF Init, MainInit
<1>2. Idle \in Job
  <2>1. Idle.st = "none" /\ <<>> \in Seq(Span)
    BY DEF Idle
  <2> HIDE DEF Span
  <2> QED BY <2>1 DEF Idle, Job
<1> HIDE DEF Idle, Job
<1> QED BY <1>1, <1>2 DEF Crew, Spawned

----------------------------------------------------------------------------
(* The threads and the frame and the mapping they work with.               *)

\* The threads that still run when cmd_bench has returned are those made before the
\* one that could not be.
Behind == at \in Left => \A w \in DOMAIN worker : Live(w) => rc = 4 /\ w < t

LEMMA BehindStep ==
  ASSUME Behind, Crew, Alive, Filled, [Next]_vars
  PROVE  Behind'
<1>1. CASE at \in Left
  <2>1. UNCHANGED <<rc, t>> /\ \A w \in DOMAIN worker' : w \in DOMAIN worker /\ (Live(w)' => Live(w))
    <3>1. CASE CloseVocab \/ Return \/ Killed \/ UNCHANGED vars
      BY <3>1 DEF CloseVocab, Return, Killed, Goto, Exit, bench, vars, main, Live
    <3>2. ASSUME NEW v \in DOMAIN worker, Worker(v)
          PROVE  /\ UNCHANGED <<rc, t>>
                 /\ \A w \in DOMAIN worker' : w \in DOMAIN worker /\ (Live(w)' => Live(w))
      <4>1. UNCHANGED <<rc, t>> /\ Live(v) /\ \E q : worker' = [worker EXCEPT ![v] = q]
        BY <3>2 DEF Worker
      <4> QED BY <4>1 DEF Live
    <3>3. ~Start /\ ~OpenVocab /\ ~LoadInput /\ ~ReadAll /\ ~Context /\ ~Count /\ ~EncodeAgain
          /\ ~Parse /\ ~DecodeIds /\ ~RunCensus /\ ~Split /\ ~Spawn /\ ~Join
      BY <1>1 DEF Left, Start, OpenVocab, LoadInput, ReadAll, Context, Count, EncodeAgain, Parse,
                  DecodeIds, RunCensus, Split, Spawn, Join
    <3> QED BY <3>1, <3>2, <3>3 DEF Next, Main
  <2> QED BY <1>1, <2>1 DEF Behind
<1>2. CASE at \notin Spawned \cup Left
  <2>1. worker' = worker
    BY <1>2 DEF Next, Main, Start, OpenVocab, CloseVocab, Return, LoadInput, ReadAll, Context, Count,
                EncodeAgain, Parse, DecodeIds, RunCensus, Split, Spawn, Join, Killed, Worker, Alive,
                bench, vars, main, Spawned, Left
  <2>2. \A w \in DOMAIN worker : ~Live(w)
    BY <1>2 DEF Alive
  <2> QED BY <2>1, <2>2 DEF Behind, Live
<1>3. CASE at = "spawn" /\ Spawn
  <2>1. CASE Finish(4) /\ UNCHANGED <<t, worker>>
    <3>1. /\ worker \in [0..(MaxThreads - 1) -> Job] /\ t \in Int
          /\ \A w \in t..(MaxThreads - 1) : ~Live(w)
      <4>1. Shared
        BY <1>3 DEF Crew, Spawned
      <4>2. Threads \in Nat
        BY ThreadsIs DEF Filled
      <4>3. t \in 0..(Threads - 1)
        BY <4>1 DEF Shared
      <4>4. worker \in [0..(MaxThreads - 1) -> Job]
        BY <1>3 DEF Crew, Left
      <4>5. \A w \in t..(MaxThreads - 1) : ~Live(w)
        BY <1>3, <4>1 DEF Shared
      <4>6. t \in Int
        <5> HIDE DEF Threads
        <5> QED BY <4>2, <4>3
      <4> QED BY <4>4, <4>5, <4>6
    <3>2. \A w \in DOMAIN worker : Live(w) => w < t
      <4>1. MaxThreads \in Nat
        BY ArgsAssumption
      <4>2. DOMAIN worker = 0..(MaxThreads - 1)
        BY <3>1
      <4>3. \A w \in 0..(MaxThreads - 1) : w < t \/ w \in t..(MaxThreads - 1)
        BY <3>1, <4>1
      <4> QED BY <3>1, <4>2, <4>3
    <3> QED BY <2>1, <3>2 DEF Behind, Finish, Live
  <2>2. CASE at' \notin Left
    BY <2>2 DEF Behind
  <2>3. at' \in {"spawn", "join"} \/ (Finish(4) /\ UNCHANGED <<t, worker>>)
    BY <1>3 DEF Spawn, Goto
  <2> QED BY <2>1, <2>2, <2>3 DEF Left
<1>4. CASE at = "join" /\ Join
  <2>1. CASE t + 1 < Threads
    BY <1>4, <2>1 DEF Join, Goto, Behind, Left
  <2>2. CASE ~(t + 1 < Threads)
    <3>1. worker' = worker
      BY <1>4 DEF Join
    <3>2. \A w \in DOMAIN worker : ~Live(w)
      <4>1. Shared /\ worker \in [0..(MaxThreads - 1) -> Job]
        BY <1>4 DEF Crew, Spawned, Left
      <4>2. Threads \in Nat \ {0} /\ Threads <= MaxThreads /\ MaxThreads \in Nat
        BY ThreadsIs DEF Filled
      <4>3. t \in 0..(Threads - 1) /\ \A w \in 0..(t - 1) \cup Threads..(MaxThreads - 1) : ~Live(w)
        BY <1>4, <4>1 DEF Shared
      <4>4. ~Live(t)
        BY <1>4 DEF Join
      <4>5. DOMAIN worker = 0..(MaxThreads - 1)
        BY <4>1
      <4> HIDE DEF Threads, Live
      <4>6. \A w \in 0..(MaxThreads - 1) : w \in 0..(t - 1) \/ w = t \/ w \in Threads..(MaxThreads - 1)
        BY <2>2, <4>2, <4>3
      <4> QED BY <4>3, <4>4, <4>5, <4>6
    <3> QED BY <3>1, <3>2 DEF Behind, Live
  <2> QED BY <2>1, <2>2
<1>5. CASE at \in Spawned /\ ~Spawn /\ ~Join
  <2>1. at' = at
    BY <1>5 DEF Next, Main, Start, OpenVocab, CloseVocab, Return, LoadInput, ReadAll, Context, Count,
                EncodeAgain, Parse, DecodeIds, RunCensus, Split, Killed, Worker, Alive, vars, main,
                Spawned, Commands
  <2> QED BY <1>5, <2>1 DEF Behind, Spawned, Left
<1>6. Spawn => at = "spawn"
  BY DEF Spawn
<1>7. Join => at = "join"
  BY DEF Join
<1> QED BY <1>1, <1>2, <1>3, <1>4, <1>5, <1>6, <1>7

\* However long the input is and wherever its lines end, whatever fails, and whatever
\* the threads of bench do: main never writes behind the buffer, the ids or the
\* document offsets it has room for, and works with no vocabulary that is closed; nor
\* does a thread outlive the call of cmd_bench that has its job, or the mapping, but
\* for those that were made before one could not be.
THEOREM MainInBounds == Spec => []InBounds
<1> DEFINE BInv == CInv /\ Crew /\ Behind
<1>1. Init => BInv
  <2>1. Init => Behind
    BY DEF Init, MainInit, Behind, Left
  <2> QED BY <2>1, CliStarts, CrewStarts
<1>2. BInv /\ [Next]_vars => BInv'
  <2> SUFFICES ASSUME BInv, [Next]_vars PROVE BInv'
    OBVIOUS
  <2>1. CInv'
    BY LoaderSteps, Inductive, AliveStep, FilledStep DEF CInv
  <2> QED BY <2>1, CrewStep, BehindStep DEF CInv
<1>3. BInv => InBounds
  <2> SUFFICES ASSUME BInv PROVE InBounds
    OBVIOUS
  <2>1. pc = "ready" => map
    BY DEF CInv, IInv, Held, Ready, AfterHeader, AfterOffsets, AfterPairs, AfterBytes, AfterAdded
  <2>2. ctx => map
    BY <2>1 DEF CInv, Alive
  <2>3. ASSUME NEW w \in DOMAIN worker, Live(w)
        PROVE  (map /\ at \in {"spawn", "join"}) \/ (rc = 4 /\ w < t)
    <3>1. at \in Spawned \cup Left
      BY <2>3 DEF CInv, Alive
    <3>2. CASE at \in Spawned
      BY <2>1, <3>2 DEF CInv, Alive, Spawned
    <3>3. CASE at \in Left
      BY <2>3, <3>3 DEF Behind
    <3> QED BY <3>1, <3>2, <3>3
  <2> QED BY <2>2, <2>3 DEF CInv, Filled, OffsetsFit, InBounds
<1> HIDE DEF BInv
<1> QED BY <1>1, <1>2, <1>3, PTL DEF Spec

----------------------------------------------------------------------------
(* decode: the numbers of the text, in order.                              *)

IsDigit(i) == Char(i) \in DOMAIN Digit
NoMinus == \A i \in 0..(n - 1) : Char(i) # "-"

\* The numbers that end at x or before it, and those up to r.
Ended(x) == {q \in Runs : q[2] <= x}
UpToRun(r) == {q \in Runs : q[1] <= r[1]}

\* What is put are the numbers that have ended, each in its place; x is not in one.
ParsedAt(x, put) ==
  /\ x \in 0..n /\ ~(x > 0 /\ IsDigit(x - 1) /\ IsDigit(x))
  /\ Len(put) = Cardinality(Ended(x))
  /\ \A r \in Ended(x) :
       /\ Cardinality(UpToRun(r)) \in 1..Len(put)
       /\ put[Cardinality(UpToRun(r))] = Value(r[1], r[2])

LEMMA DigitIs == /\ DOMAIN Digit = {"0", "1", "2", "9"}
                 /\ "NUL" \notin DOMAIN Digit /\ "NUL" \notin Space
                 /\ \A c \in DOMAIN Digit : c \notin Space /\ c # "-" /\ c # "+"
<1>1. DOMAIN Digit = {"0", "1", "2", "9"}
  BY DEF Digit
<1> QED BY <1>1 DEF Space

\* Where a run of S ends; the NUL ends every run.
LEMMA PastIs ==
  ASSUME n \in Nat, NEW S, "NUL" \notin S, NEW i \in 0..n
  PROVE  /\ Past(S, i) \in i..n /\ Char(Past(S, i)) \notin S
         /\ \A h \in i..(Past(S, i) - 1) : Char(h) \in S
<1> DEFINE T == {j \in i..n : Char(j) \notin S}
           P(j) == Char(j) \notin S /\ \A h \in i..(j - 1) : Char(h) \in S
<1>1. n \in T /\ T \subseteq Nat
  BY DEF Char
<1>2. PICK j \in T : \A l \in T : j <= l
  <2> HIDE DEF T
  <2> QED BY <1>1, LeastNatural
<1>3. j \in i..n /\ P(j)
  <2>1. ASSUME NEW h \in i..(j - 1) PROVE Char(h) \in S
    <3>1. h \in i..n /\ ~(j <= h)
      BY <1>2
    <3> QED BY <1>2, <3>1
  <2> QED BY <1>2, <2>1
<1>4. Past(S, i) = CHOOSE x \in i..n : P(x)
  BY DEF Past
<1>5. Past(S, i) \in i..n /\ P(Past(S, i))
  <2> HIDE DEF P
  <2> QED BY <1>3, <1>4
<1> QED BY <1>5

\* A number is a run of digits with none before and none behind.
LEMMA RunIs ==
  ASSUME n \in Nat, NEW q \in Runs
  PROVE  /\ q[1] \in 0..n /\ q[2] \in 0..n /\ q[1] < q[2] /\ q = <<q[1], q[2]>>
         /\ \A i \in q[1]..(q[2] - 1) : IsDigit(i)
         /\ ~IsDigit(q[2]) /\ (q[1] > 0 => ~IsDigit(q[1] - 1))
<1>1. q \in (0..n) \X (0..n)
  BY DEF Runs
<1>2. q[1] \in 0..n /\ q[2] \in 0..n /\ q = <<q[1], q[2]>>
  BY <1>1
<1> QED BY <1>2 DEF Runs, IsDigit

LEMMA RunsFinite ==
  ASSUME n \in Nat
  PROVE  \A T : T \subseteq Runs => IsFiniteSet(T) /\ Cardinality(T) \in Nat
<1>1. IsFiniteSet(0..n)
  BY FS_Interval
<1>2. IsFiniteSet((0..n) \X (0..n))
  BY <1>1, FS_Product
<1>3. Runs \subseteq (0..n) \X (0..n)
  BY DEF Runs
<1>4. IsFiniteSet(Runs)
  BY <1>2, <1>3, FS_Subset
<1> QED BY <1>4, FS_Subset, FS_CardinalityType

\* Before the first number, and behind the last one.
LEMMA NothingParsed == n \in Nat => ParsedAt(0, <<>>)
<1> SUFFICES ASSUME n \in Nat PROVE ParsedAt(0, <<>>)
  OBVIOUS
<1>1. Ended(0) = {}
  <2>1. \A q \in Runs : ~(q[2] <= 0)
    BY RunIs
  <2> QED BY <2>1 DEF Ended
<1>2. Cardinality(Ended(0)) = 0
  BY <1>1, FS_EmptySet
<1> QED BY <1>1, <1>2 DEF ParsedAt

LEMMA AllParsed ==
  ASSUME n \in Nat, NEW put, ParsedAt(n, put)
  PROVE  /\ Len(put) = Cardinality(Runs)
         /\ \A r \in Runs : put[Cardinality({q \in Runs : q[1] <= r[1]})] = Value(r[1], r[2])
<1>1. Ended(n) = Runs
  <2>1. \A q \in Runs : q[2] <= n
    BY RunIs
  <2> QED BY <2>1 DEF Ended
<1> QED BY <1>1 DEF ParsedAt, UpToRun

\* It is about the text only.
LEMMA ParsedFrozen ==
  ASSUME n' = n, args' = args, NEW x, NEW put, ParsedAt(x, put)
  PROVE  ParsedAt(x, put)'
<1>1. \A i : Char(i)' = Char(i)
  BY DEF Char
<1>2. Runs' = Runs
  BY <1>1 DEF Runs
<1>3. Ended(x)' = Ended(x) /\ \A r : UpToRun(r)' = UpToRun(r)
  BY <1>2 DEF Ended, UpToRun
<1>4. ASSUME NEW a, NEW b PROVE Value(a, b)' = Value(a, b)
  <2>1. [h \in 1..(b - a) |-> Char(a + h - 1)]' = [h \in 1..(b - a) |-> Char(a + h - 1)]
    BY <1>1
  <2> QED BY <2>1 DEF Value
<1>5. \A i : IsDigit(i)' = IsDigit(i)
  BY <1>1 DEF IsDigit
<1> QED BY <1>3, <1>4, <1>5 DEF ParsedAt

\* What is no number is passed over; a number comes behind those before it.
LEMMA NoNumber ==
  ASSUME n \in Nat, NEW x \in 0..(n - 1), NEW put, ParsedAt(x, put), Strtoull(x).next = x
  PROVE  ParsedAt(x + 1, put)
<1> DEFINE sign == Past(Space, x)
           from == IF Char(sign) \in {"-", "+"} THEN sign + 1 ELSE sign
           to == Past(DOMAIN Digit, from)
<1>1. ~IsDigit(x)
  <2> SUFFICES ASSUME IsDigit(x) PROVE FALSE
    OBVIOUS
  <2>1. x \in 0..n /\ sign \in x..n /\ \A h \in x..(sign - 1) : Char(h) \in Space
    BY DigitIs, PastIs
  <2>2. sign = x
    <3>1. Char(x) \notin Space
      BY DigitIs DEF IsDigit
    <3> HIDE DEF sign
    <3> QED BY <2>1, <3>1
  <2>3. from = x
    BY <2>2, DigitIs DEF IsDigit
  <2>4. to \in x..n /\ ~IsDigit(to)
    BY <2>1, <2>3, DigitIs, PastIs DEF IsDigit
  <2>5. Strtoull(x).next = IF to = from THEN x ELSE to
    BY DEF Strtoull
  <2> HIDE DEF to, from
  <2> QED BY <2>3, <2>4, <2>5
<1>2. Ended(x + 1) = Ended(x)
  <2>1. ASSUME NEW q \in Runs, q[2] <= x + 1 PROVE q[2] <= x
    <3>1. q[1] \in Nat /\ q[2] \in Nat /\ q[1] < q[2] /\ \A i \in q[1]..(q[2] - 1) : IsDigit(i)
      BY RunIs
    <3>2. q[2] # x + 1
      BY <1>1, <3>1
    <3> QED BY <2>1, <3>1, <3>2
  <2>2. \A q \in Runs : q[2] <= x => q[2] <= x + 1
    <3>1. \A q \in Runs : q[2] \in Nat
      BY RunIs
    <3> QED BY <3>1
  <2> QED BY <2>1, <2>2 DEF Ended
<1>3. x + 1 \in 0..n /\ (x + 1) - 1 = x
  OBVIOUS
<1> QED BY <1>1, <1>2, <1>3 DEF ParsedAt

\* Where a number begins and ends, and what is read of it.
LEMMA NumberIs ==
  ASSUME n \in Nat, NoMinus, NEW x \in 0..(n - 1), ~(x > 0 /\ IsDigit(x - 1) /\ IsDigit(x)),
         Strtoull(x).next # x, ~(Strtoull(x).val >= MaxId)
  PROVE  \E a \in x..n :
           LET b == Strtoull(x).next
           IN /\ b \in (a + 1)..n /\ (\A h \in a..(b - 1) : IsDigit(h)) /\ ~IsDigit(b)
              /\ \A h \in x..(a - 1) : ~IsDigit(h)
              /\ a > 0 => ~IsDigit(a - 1)
              /\ Strtoull(x).val = Value(a, b)
<1> DEFINE sign == Past(Space, x)
           from == IF Char(sign) \in {"-", "+"} THEN sign + 1 ELSE sign
           to == Past(DOMAIN Digit, from)
           v == Value(from, to)
<1>1. /\ sign \in x..n /\ x \in 0..n
      /\ \A h \in x..(sign - 1) : ~IsDigit(h)
  <2>1. x \in 0..n
    OBVIOUS
  <2>2. sign \in x..n /\ \A h \in x..(sign - 1) : Char(h) \in Space
    BY <2>1, DigitIs, PastIs
  <2> HIDE DEF sign
  <2> QED BY <2>1, <2>2, DigitIs DEF IsDigit
<1>2. /\ from \in sign..n
      /\ \A h \in sign..(from - 1) : ~IsDigit(h)
  <2>1. CASE Char(sign) \in {"-", "+"}
    <3>1. sign < n
      <4>1. sign = n => Char(sign) = "NUL"
        BY DEF Char
      <4> HIDE DEF sign
      <4> QED BY <1>1, <2>1, <4>1
    <3>2. ~IsDigit(sign)
      BY <2>1, DigitIs DEF IsDigit
    <3>3. from = sign + 1
      BY <2>1
    <3> HIDE DEF sign, from
    <3> QED BY <1>1, <3>1, <3>2, <3>3
  <2>2. CASE Char(sign) \notin {"-", "+"}
    <3>1. from = sign
      BY <2>2
    <3> HIDE DEF sign, from
    <3> QED BY <1>1, <3>1
  <2> QED BY <2>1, <2>2
<1>3. /\ to \in from..n /\ ~IsDigit(to)
      /\ \A h \in from..(to - 1) : IsDigit(h)
  <2>1. from \in 0..n
    <3> HIDE DEF sign, from
    <3> QED BY <1>1, <1>2
  <2> HIDE DEF from
  <2> QED BY <2>1, DigitIs, PastIs DEF IsDigit
<1>4. Strtoull(x) = [next |-> IF to = from THEN x ELSE to,
                     val |-> CASE v >= Word -> Word - 1
                               [] v < Word /\ Char(sign) = "-" -> (Word - v) % Word
                               [] OTHER -> v]
  BY DEF Strtoull
<1>5. Strtoull(x).next = to /\ to # from
  <2> HIDE DEF to, from, v, sign
  <2> QED BY <1>4
<1>6. Strtoull(x).val = v
  <2>1. Char(sign) # "-"
    <3>1. sign = n => Char(sign) = "NUL"
      BY DEF Char
    <3>2. sign < n => Char(sign) # "-"
      BY <1>1 DEF NoMinus
    <3> HIDE DEF sign
    <3> QED BY <1>1, <3>1, <3>2
  <2>2. ~(v >= Word)
    <3> SUFFICES ASSUME v >= Word PROVE FALSE
      OBVIOUS
    <3>1. Strtoull(x).val = Word - 1
      <4> HIDE DEF v, sign, to, from
      <4> QED BY <1>4, <2>1
    <3>2. Word - 1 >= MaxId
      BY ArgsAssumption, SizesAssumption
    <3> QED BY <3>1, <3>2
  <2> HIDE DEF v, sign, to, from
  <2> QED BY <1>4, <2>1, <2>2
<1> HIDE DEF sign, to
<1>7. from \in x..n /\ to \in (from + 1)..n
  <2> HIDE DEF from
  <2> QED BY <1>1, <1>2, <1>3, <1>5
<1>8. \A h \in x..(from - 1) : ~IsDigit(h)
  <2> TAKE h \in x..(from - 1)
  <2>1. h \in x..(sign - 1) \/ h \in sign..(from - 1)
    <3> HIDE DEF from
    <3> QED BY <1>1, <1>2
  <2> QED BY <1>1, <1>2, <2>1
<1> HIDE DEF from
<1>9. from > 0 => ~IsDigit(from - 1)
  <2>1. CASE from = x
    <3>1. IsDigit(x)
      BY <1>3, <1>7, <2>1
    <3> QED BY <2>1, <3>1
  <2>2. CASE from # x
    <3>1. from - 1 \in x..(from - 1)
      BY <1>7, <2>2
    <3> QED BY <1>8, <3>1
  <2> QED BY <2>1, <2>2
<1> QED BY <1>3, <1>5, <1>6, <1>7, <1>8, <1>9 DEF v

\* It is the next of the text's numbers, and takes the next place.
LEMMA NextNumber ==
  ASSUME n \in Nat, NoMinus, NEW x \in 0..(n - 1), NEW U, NEW put \in Seq(U), ParsedAt(x, put),
         Strtoull(x).next # x, ~(Strtoull(x).val >= MaxId)
  PROVE  ParsedAt(Strtoull(x).next, Append(put, Strtoull(x).val))
<1> DEFINE b == Strtoull(x).next
           val == Strtoull(x).val
<1>1. PICK a \in x..n :
        /\ b \in (a + 1)..n /\ (\A h \in a..(b - 1) : IsDigit(h)) /\ ~IsDigit(b)
        /\ \A h \in x..(a - 1) : ~IsDigit(h)
        /\ a > 0 => ~IsDigit(a - 1)
        /\ val = Value(a, b)
  BY NumberIs DEF ParsedAt
<1> HIDE DEF b, val
<1> DEFINE r == <<a, b>>
<1>2. r \in Runs /\ r[1] = a /\ r[2] = b
  <2>1. a \in 0..n /\ b \in 0..n /\ a < b
    BY <1>1
  <2> QED BY <1>1, <2>1 DEF Runs, IsDigit
<1> HIDE DEF r
<1>3. ASSUME NEW q \in Runs, q[2] <= b, ~(q[2] <= x) PROVE q = r
  <2>1. /\ q[1] \in Nat /\ q[2] \in Nat /\ q[1] < q[2] /\ q = <<q[1], q[2]>>
        /\ \A i \in q[1]..(q[2] - 1) : IsDigit(i)
        /\ ~IsDigit(q[2]) /\ (q[1] > 0 => ~IsDigit(q[1] - 1))
    BY RunIs
  <2>2. IsDigit(q[2] - 1) /\ q[2] - 1 >= x
    BY <1>3, <2>1
  <2>3. q[2] - 1 >= a
    BY <1>1, <2>1, <2>2
  <2>4. q[2] = b
    <3>1. q[2] < b => q[2] \in a..(b - 1)
      BY <1>1, <2>1, <2>3
    <3> QED BY <1>1, <1>3, <2>1, <3>1
  <2>5. q[1] = a
    <3>1. q[1] < a => a > 0 /\ a - 1 \in q[1]..(q[2] - 1)
      BY <1>1, <2>1, <2>3
    <3>2. q[1] > a => q[1] > 0 /\ q[1] - 1 \in a..(b - 1)
      BY <1>1, <2>1, <2>4
    <3>3. ~(q[1] < a) /\ ~(q[1] > a)
      BY <1>1, <2>1, <3>1, <3>2
    <3> QED BY <1>1, <2>1, <3>3
  <2> QED BY <2>1, <2>4, <2>5 DEF r
<1>4. Ended(b) = Ended(x) \cup {r} /\ r \notin Ended(x)
  <2>1. \A q \in Runs : q[2] <= x => q[2] <= b
    <3>1. \A q \in Runs : q[2] \in Nat
      BY RunIs
    <3> QED BY <1>1, <3>1
  <2>2. b <= b /\ ~(b <= x)
    BY <1>1
  <2> QED BY <1>2, <1>3, <2>1, <2>2 DEF Ended
<1>5. UpToRun(r) = Ended(b)
  <2>1. ASSUME NEW q \in Runs, q[1] <= a PROVE q[2] <= b
    <3>1. q[1] \in Nat /\ q[2] \in Nat /\ \A i \in q[1]..(q[2] - 1) : IsDigit(i)
      BY RunIs
    <3>2. ~(q[2] <= b) => b \in q[1]..(q[2] - 1)
      BY <1>1, <2>1, <3>1
    <3> QED BY <1>1, <3>1, <3>2
  <2>2. ASSUME NEW q \in Runs, q[2] <= b PROVE q[1] <= a
    <3>1. CASE q[2] <= x
      <4>1. q[1] \in Nat /\ q[2] \in Nat /\ q[1] < q[2]
        BY RunIs
      <4> QED BY <1>1, <3>1, <4>1
    <3>2. CASE ~(q[2] <= x)
      <4>1. q = r
        BY <1>3, <2>2, <3>2
      <4> QED BY <1>1, <1>2, <4>1
    <3> QED BY <3>1, <3>2
  <2> QED BY <1>2, <2>1, <2>2 DEF UpToRun, Ended
<1>6. Cardinality(Ended(b)) = Cardinality(Ended(x)) + 1
  <2>1. IsFiniteSet(Ended(x))
    BY RunsFinite DEF Ended
  <2> QED BY <1>4, <2>1, FS_AddElement
<1> DEFINE more == Append(put, val)
<1>7. /\ Len(put) \in Nat /\ Len(more) = Len(put) + 1 /\ more[Len(put) + 1] = val
      /\ \A i \in 1..Len(put) : more[i] = put[i]
  <2>1. put \in Seq(U \cup {val}) /\ val \in U \cup {val}
    <3>1. \A q \in Seq(U) : q \in Seq(U \cup {val})
      OBVIOUS
    <3> QED BY <3>1
  <2> QED BY <2>1, AppendProperties
<1> HIDE DEF more
<1>8. /\ Len(put) = Cardinality(Ended(x))
      /\ \A q \in Ended(x) : /\ Cardinality(UpToRun(q)) \in 1..Len(put)
                             /\ put[Cardinality(UpToRun(q))] = Value(q[1], q[2])
  BY DEF ParsedAt
<1>9. ASSUME NEW q \in Ended(b)
      PROVE  /\ Cardinality(UpToRun(q)) \in 1..Len(more)
             /\ more[Cardinality(UpToRun(q))] = Value(q[1], q[2])
  <2>1. CASE q \in Ended(x)
    <3> DEFINE c == Cardinality(UpToRun(q))
    <3>1. c \in 1..Len(put) /\ put[c] = Value(q[1], q[2])
      BY <1>8, <2>1
    <3> HIDE DEF c
    <3>2. c \in 1..Len(more) /\ more[c] = Value(q[1], q[2])
      BY <1>7, <3>1
    <3> QED BY <3>2 DEF c
  <2>2. CASE q = r
    <3>1. Cardinality(UpToRun(q)) = Len(put) + 1
      BY <1>5, <1>6, <1>8, <2>2
    <3>2. Value(q[1], q[2]) = val
      BY <1>1, <1>2, <2>2
    <3>3. Len(put) + 1 \in 1..Len(more)
      BY <1>7
    <3> QED BY <1>7, <3>1, <3>2, <3>3
  <2> QED BY <1>4, <2>1, <2>2
<1>10. b \in 0..n /\ Len(more) = Cardinality(Ended(b))
  BY <1>1, <1>6, <1>7, <1>8
<1>11. ParsedAt(b, more)
  BY <1>1, <1>9, <1>10 DEF ParsedAt
<1> QED BY <1>11 DEF b, more, val

----------------------------------------------------------------------------
(* Where main comes to, with what it has read, and what it ends with.       *)

\* Every place is one of a command's, and what comes behind read_all has the text.
Placed ==
  /\ at \in {"input", "read"} => args.cmd \in {"encode", "count", "decode", "bench"}
  /\ at \in {"parse", "decode"} => args.cmd = "decode"
  /\ at \in {"encode", "again"} => args.cmd = "encode"
  /\ at = "count" => args.cmd = "count"
  /\ at \in {"census", "witness"} => args.cmd \in {"census", "witness"}
  /\ at \in {"split", "spawn", "join"} => args.cmd = "bench"
  /\ at = "context" => args.cmd \in {"encode", "count", "decode", "census", "witness"}
  /\ n <= Len(args.text)
  /\ \/ at \in {"parse", "split", "spawn", "join", "encode", "again", "count", "decode"}
     \/ at = "context" /\ args.cmd \in {"encode", "count", "decode"}
     => n = Len(args.text)

\* Main comes to no place but its command's.
LEMMA PlacedStays ==
  ASSUME Placed, UNCHANGED <<args, n>>, at' \in Left \/ at' = at
  PROVE  Placed'
  BY DEF Placed, Left

\* fread is short without an error at the end only, so read_all leaves with the whole text.
LEMMA ReadPlaces == ASSUME Placed, Filled, ReadAll PROVE Placed'
<1> DEFINE full == n + 1 >= cap
           room == (IF full THEN 2 * cap ELSE cap) - n - 1
           rest == Len(args.text) - n
<1>1. /\ args' = args /\ at = "read"
      /\ \/ Exit(4) /\ n' = n
         \/ \E r \in 0..Least(room, rest), error \in BOOLEAN :
              /\ r < Least(room, rest) => error
              /\ n' = n + r /\ bad' = (bad \/ error)
              /\ IF r > 0 THEN Goto("read") ELSE IF bad' THEN Exit(2) ELSE Loaded
  BY DEF ReadAll, Quiet, input
<1>2. n \in Nat /\ cap \in Nat /\ n < cap /\ Len(args.text) \in Nat
  BY ArgsAssumption DEF Filled
<1>3. room \in Nat \ {0} /\ rest \in Nat
  BY <1>2 DEF Placed
<1> HIDE DEF room
<1>4. CASE Exit(4) /\ n' = n
  BY <1>1, <1>4, PlacedStays DEF Exit, Left
<1>5. ASSUME NEW r \in 0..Least(room, rest), NEW error \in BOOLEAN,
             r < Least(room, rest) => error,
             n' = n + r, bad' = (bad \/ error),
             IF r > 0 THEN Goto("read") ELSE IF bad' THEN Exit(2) ELSE Loaded
      PROVE  Placed'
  <2>1. r \in Nat /\ r <= rest
    BY <1>3, <1>5 DEF Least
  <2>2. n' <= Len(args.text)
    BY <1>2, <1>5, <2>1
  <2>3. CASE r > 0
    BY <1>1, <1>5, <2>2, <2>3 DEF Placed, Goto
  <2>4. CASE r = 0 /\ bad'
    <3>1. Exit(2) /\ n' = n
      BY <1>2, <1>5, <2>4
    <3> QED BY <1>1, <3>1, PlacedStays DEF Exit, Left
  <2>5. CASE r = 0 /\ ~bad'
    <3>1. Loaded /\ ~(r < Least(room, rest))
      BY <1>5, <2>5
    <3>2. rest = 0
      BY <1>3, <2>5, <3>1 DEF Least
    <3>3. n' = Len(args.text)
      BY <1>2, <1>5, <2>5, <3>2
    <3>4. args.cmd \in {"encode", "count", "decode", "bench"}
      BY <1>1 DEF Placed
    <3> QED BY <1>1, <3>1, <3>3, <3>4, <2>2 DEF Loaded, Goto, Exit, Finish, Placed
  <2> QED BY <2>1, <2>3, <2>4, <2>5
<1> QED BY <1>1, <1>4, <1>5

LEMMA PlacedStep == ASSUME Placed, Alive, Filled, [Next]_vars PROVE Placed'
<1>1. CASE Start
  BY <1>1 DEF Start, Quiet, input, Goto, Exit, Placed
<1>2. CASE OpenVocab
  <2>1. at = "open" /\ UNCHANGED <<args, n>> /\ args.cmd \in Commands \cup {"api"}
    BY <1>2 DEF OpenVocab, input, Alive
  <2>2. CASE UNCHANGED <<at, rc, exit, ctx>> \/ Exit(3)
    BY <2>1, <2>2, PlacedStays DEF Exit, Left
  <2>3. CASE pc = "ready" /\ UNCHANGED lvars
    <3>1. \/ at' \in Left \/ at' = at
          \/ Goto("context") /\ args.cmd \in {"witness", "census"}
          \/ Goto("input") /\ args.cmd \in {"encode", "count", "decode", "bench"}
      BY <1>2, <2>1, <2>3 DEF OpenVocab, Finish, Left, Commands, Goto
    <3> QED BY <2>1, <3>1, PlacedStays DEF Goto, Placed
  <2> QED BY <1>2, <2>2, <2>3 DEF OpenVocab
<1>3. CASE LoadInput
  BY <1>3 DEF LoadInput, Quiet, input, Goto, Exit, Placed
<1>4. CASE Context
  <2>1. at = "context" /\ UNCHANGED <<args, n>> /\ (at' \in Left \/ at' = args.cmd)
    BY <1>4 DEF Context, Quiet, input, Finish, Left
  <2>2. CASE at' = args.cmd
    BY <2>1, <2>2 DEF Placed
  <2> QED BY <2>1, <2>2, PlacedStays
<1>5. CASE Count \/ EncodeAgain \/ DecodeIds \/ RunCensus
  <2>1. UNCHANGED <<args, n>> /\ (at' \in Left \/ (at = "encode" /\ at' = "again"))
    BY <1>5 DEF Count, EncodeAgain, DecodeIds, RunCensus, Quiet, input, Goto, Exit, Finish, Left
  <2>2. CASE at = "encode" /\ at' = "again"
    BY <2>1, <2>2 DEF Placed
  <2> QED BY <2>1, <2>2, PlacedStays
<1>6. CASE Parse
  <2>1. at = "parse" /\ UNCHANGED <<args, n>> /\ (at' \in Left \/ at' = at \/ at' = "context")
    BY <1>6 DEF Parse, Quiet, input, Goto, Exit, Finish, Left
  <2>2. CASE at' = "context"
    BY <2>1, <2>2 DEF Placed
  <2> QED BY <2>1, <2>2, PlacedStays
<1>7. CASE Split \/ Spawn \/ Join
  <2>1. /\ at \in {"split", "spawn", "join"} /\ UNCHANGED <<args, n>>
        /\ at' \in Left \cup {"spawn", "join"}
    BY <1>7 DEF Split, Spawn, Join, Quiet, input, Goto, Exit, Finish, Left
  <2>2. CASE at' \in {"spawn", "join"}
    BY <2>1, <2>2 DEF Placed
  <2> QED BY <2>1, <2>2, PlacedStays
<1>8. CASE CloseVocab \/ Return \/ Killed
  <2>1. UNCHANGED <<args, n>> /\ at' \in Left
    BY <1>8 DEF CloseVocab, Return, Killed, Quiet, input, Goto, Exit, Left
  <2> QED BY <2>1, PlacedStays
<1>9. CASE (\E w \in DOMAIN worker : Worker(w)) \/ UNCHANGED vars
  <2>1. UNCHANGED <<args, n, at>>
    BY <1>9 DEF Worker, Quiet, input, vars, main
  <2> QED BY <2>1, PlacedStays
<1> QED
  BY <1>1, <1>2, <1>3, <1>4, <1>5, <1>6, <1>7, <1>8, <1>9, ReadPlaces DEF Next, Main

\* What decode has put in ids, from the first number to the last.
Parsed ==
  /\ at \in {"start", "open", "input", "read"} => s = 0 /\ ids.put = <<>>
  /\ at \in {"parse", "decode"} \/ (at = "context" /\ args.cmd = "decode") =>
       /\ NoMinus => ParsedAt(s, ids.put)
       /\ at # "parse" => s >= n

LEMMA MinusFrozen == ASSUME n' = n, args' = args PROVE NoMinus' <=> NoMinus
  BY DEF NoMinus, Char

\* What decode has read stays read elsewhere.
LEMMA ParsedStays ==
  ASSUME Parsed, UNCHANGED <<args, n, s, ids>>, \/ at' \in Left \cup {"spawn", "join"}
                                                \/ at' = at
                                                \/ args.cmd # "decode"
                                                   /\ at' \in {"context", "count", "encode", "again",
                                                                "census", "witness", "split"}
                                                \/ at = "context" /\ at' = "decode"
                                                   /\ args.cmd = "decode"
                                                \/ {at, at'} \subseteq {"start", "open", "input", "read"}
  PROVE  Parsed'
<1>1. NoMinus' <=> NoMinus
  BY MinusFrozen
<1>2. ParsedAt(s, ids.put) => ParsedAt(s, ids.put)'
  BY ParsedFrozen
<1> QED BY <1>1, <1>2 DEF Parsed, Left

\* A call of strtoull passes over what is no number, or takes one.
LEMMA ParseParses == ASSUME Parsed, Filled, Placed, Parse PROVE Parsed'
<1> DEFINE num == Strtoull(s)
<1>1. at = "parse" /\ args.cmd = "decode" /\ UNCHANGED <<args, n>> /\ n \in Nat
  BY DEF Parse, Quiet, input, Filled, Placed
<1>2. PICK S : ids.put \in Seq(S)
  BY DEF Filled
<1>3. NoMinus => ParsedAt(s, ids.put)
  BY <1>1 DEF Parsed
<1>4. NoMinus' <=> NoMinus
  BY <1>1, MinusFrozen
<1>5. CASE at' \in Left
  BY <1>5 DEF Parsed, Left
<1>6. CASE s >= n /\ Goto("context") /\ UNCHANGED <<ids, s>>
  <2>1. ParsedAt(s, ids.put) => ParsedAt(s, ids.put)'
    BY <1>1, <1>6, ParsedFrozen
  <2> QED BY <1>1, <1>3, <1>4, <1>6, <2>1 DEF Parsed, Goto
<1>7. CASE ~(s >= n) /\ num.next = s /\ s' = s + 1 /\ at' = "parse" /\ UNCHANGED ids
  <2>1. ASSUME NoMinus PROVE ParsedAt(s, ids.put)'
    <3>1. s \in 0..(n - 1) /\ ParsedAt(s, ids.put)
      BY <1>1, <1>3, <1>7, <2>1 DEF ParsedAt
    <3>2. ParsedAt(s + 1, ids.put)
      BY <1>1, <1>7, <3>1, NoNumber
    <3> QED BY <1>7, <3>2, <1>1, ParsedFrozen
  <2> QED BY <1>4, <1>7, <2>1 DEF Parsed
<1>8. CASE /\ ~(s >= n) /\ num.next # s /\ ~(num.val >= MaxId)
           /\ ids'.put = Append(ids.put, num.val) /\ s' = num.next /\ at' = "parse"
  <2>1. ASSUME NoMinus PROVE ParsedAt(s, ids.put)'
    <3>1. s \in 0..(n - 1) /\ ParsedAt(s, ids.put)
      BY <1>1, <1>3, <1>8, <2>1 DEF ParsedAt
    <3>2. ParsedAt(num.next, Append(ids.put, num.val))
      BY <1>1, <1>2, <1>8, <2>1, <3>1, NextNumber
    <3> HIDE DEF num
    <3> QED BY <1>8, <3>2, <1>1, ParsedFrozen
  <2> QED BY <1>4, <1>8, <2>1 DEF Parsed
<1>9. \/ at' \in Left
      \/ s >= n /\ Goto("context") /\ UNCHANGED <<ids, s>>
      \/ ~(s >= n) /\ num.next = s /\ s' = s + 1 /\ at' = "parse" /\ UNCHANGED ids
      \/ /\ ~(s >= n) /\ num.next # s /\ ~(num.val >= MaxId)
         /\ ids'.put = Append(ids.put, num.val) /\ s' = num.next /\ at' = "parse"
  <2> HIDE DEF num
  <2>1. Parse => 
        IF s >= n THEN Goto("context") /\ UNCHANGED <<ids, s>>
        ELSE IF num.next = s THEN s' = PastNumber(num) /\ Goto("parse") /\ UNCHANGED ids
        ELSE IF num.val >= MaxId THEN Finish(4) /\ UNCHANGED <<ids, s>>
        ELSE \/ Exit(4)
             \/ /\ ids' = [cap |-> IF Len(ids.put) = ids.cap THEN 2 * ids.cap ELSE ids.cap,
                           put |-> Append(ids.put, num.val)]
                /\ s' = PastNumber(num) /\ Goto("parse")
    BY DEF Parse, num
  <2>2. PastNumber(num) = IF num.next = s THEN s + 1 ELSE num.next
    BY DEF PastNumber
  <2> QED BY <2>1, <2>2 DEF Goto, Exit, Finish, Left
<1> QED BY <1>5, <1>6, <1>7, <1>8, <1>9

LEMMA ParsedStep == ASSUME Parsed, Placed, Alive, Filled, [Next]_vars PROVE Parsed'
<1>1. CASE Start \/ OpenVocab \/ LoadInput
  <2>1. UNCHANGED <<args, n, s, ids>> /\ at \in {"start", "open", "input"}
    BY <1>1 DEF Start, OpenVocab, LoadInput, Quiet, input
  <2>2. \/ at' \in Left \cup {"start", "open", "input", "read"}
        \/ args.cmd # "decode" /\ at' = "context"
    BY <1>1 DEF Start, OpenVocab, LoadInput, Goto, Exit, Finish, Left
  <2> QED BY <2>1, <2>2, ParsedStays
<1>2. CASE ReadAll
  <2>1. at = "read" /\ UNCHANGED <<args, s, ids>> /\ s = 0 /\ ids.put = <<>>
    BY <1>2 DEF ReadAll, Quiet, Parsed
  <2>2. n' \in Nat
    BY <1>2, ReadFills DEF Filled
  <2>3. \/ at' \in Left \cup {"read", "split"} \/ (at' = "context" /\ args.cmd # "decode")
        \/ at' = "parse"
    <3>1. \/ (\E c : Finish(c) \/ Exit(c)) \/ (\E x \in {"read", "parse", "split"} : Goto(x))
          \/ args.cmd # "decode" /\ Goto("context")
      BY <1>2 DEF ReadAll, Loaded
    <3> QED BY <3>1 DEF Goto, Exit, Finish, Left
  <2>4. CASE at' = "parse"
    <3>1. (n \in Nat => ParsedAt(0, <<>>))'
      BY NothingParsed, PTL
    <3>2. ParsedAt(s, ids.put)'
      BY <2>1, <2>2, <3>1
    <3> QED BY <2>4, <3>2 DEF Parsed
  <2> QED BY <2>1, <2>3, <2>4 DEF Parsed, Left
<1>3. CASE Context
  <2>1. at = "context" /\ UNCHANGED <<args, n, s, ids>> /\ (at' \in Left \/ at' = args.cmd)
    BY <1>3 DEF Context, Quiet, input, Finish, Left
  <2>2. args.cmd \in {"encode", "count", "decode", "census", "witness"}
    BY <2>1 DEF Placed
  <2> QED BY <2>1, <2>2, ParsedStays
<1>4. CASE Count \/ EncodeAgain \/ DecodeIds \/ RunCensus \/ Split \/ Spawn \/ Join
  <2>1. UNCHANGED <<args, n, s, ids>> /\ (at' \in Left \cup {"spawn", "join"} \/ (at = "encode" /\ at' = "again"))
    BY <1>4 DEF Count, EncodeAgain, DecodeIds, RunCensus, Split, Spawn, Join,
                Quiet, input, Goto, Exit, Finish, Left
  <2>2. at = "encode" => args.cmd # "decode"
    BY DEF Placed
  <2> QED BY <2>1, <2>2, ParsedStays
<1>5. CASE CloseVocab \/ Return \/ Killed
  <2>1. UNCHANGED <<args, n, s, ids>> /\ at' \in Left
    BY <1>5 DEF CloseVocab, Return, Killed, Quiet, input, Goto, Exit, Left
  <2> QED BY <2>1, ParsedStays
<1>6. CASE (\E w \in DOMAIN worker : Worker(w)) \/ UNCHANGED vars
  <2>1. UNCHANGED <<args, n, s, ids, at>>
    BY <1>6 DEF Worker, Quiet, input, vars, main
  <2> QED BY <2>1, ParsedStays
<1> QED
  BY <1>1, <1>2, <1>3, <1>4, <1>5, <1>6, ParseParses DEF Next, Main

\* What there is to say of the whole input, in result.
Answer ==
  /\ args.cmd \in {"count", "encode", "bench"} =>
       \A i \in 0..(Len(args.text) - 1) : Once(result, i)
  /\ args.cmd = "decode" => n = Len(args.text) /\ (NoMinus => ParsedAt(n, result))

\* main has 0 in rc, or the process has ended with it, only with the answer; what
\* has been printed cannot be lost to a thread left behind, for there is none then.
Told ==
  /\ at = "exited" <=> exit # Running
  /\ pc = "failed" => at = "open" \/ (at = "exited" /\ exit = 3)
  /\ exit = 3 => pc = "failed"
  /\ at \in {"close", "closed"} => rc \in {0, 1, 2, 4}
  /\ result # <<>> =>
       (at \in {"close", "closed"} /\ rc = 0 /\ \A w \in DOMAIN worker : ~Live(w)) \/ exit = 0
  /\ (at \in {"close", "closed"} /\ rc = 0) \/ exit = 0 => Answer

LEMMA AnswerStays == ASSUME Answer, UNCHANGED <<args, n, result>> PROVE Answer'
<1>1. NoMinus' <=> NoMinus
  BY MinusFrozen
<1>2. ParsedAt(n, result) => ParsedAt(n, result)'
  BY ParsedFrozen
<1> QED BY <1>1, <1>2 DEF Answer

\* On the way nothing is said, and a failure says nothing.
LEMMA ToldStays ==
  ASSUME Told, at \notin Left, result' = result,
         pc # "failed", pc' = "failed" => at = "open" /\ at' = at,
         \/ at' \notin Left /\ UNCHANGED <<rc, exit, ctx>>
         \/ \E c \in {1, 2, 4} : Finish(c) \/ Exit(c)
  PROVE  Told'
<1>1. exit = Running /\ at # "exited" /\ Running = -1
  BY DEF Told, Left, Running
<1>2. result = <<>>
  BY <1>1 DEF Told, Left
<1>3. CASE at' \notin Left /\ UNCHANGED <<rc, exit, ctx>>
  BY <1>1, <1>2, <1>3 DEF Told, Left
<1>4. ASSUME NEW c \in {1, 2, 4}, Finish(c) PROVE Told'
  BY <1>1, <1>2, <1>4 DEF Told, Finish
<1>5. ASSUME NEW c \in {1, 2, 4}, Exit(c) PROVE Told'
  BY <1>1, <1>2, <1>5 DEF Told, Exit
<1> QED BY <1>3, <1>4, <1>5

\* A command that succeeds has the answer.
LEMMA ToldAnswer ==
  ASSUME Told, at \notin Left, pc' = "ready", Finish(0), Answer',
         (\A w \in DOMAIN worker : ~Live(w))'
  PROVE  Told'
<1>1. exit = Running /\ Running = -1
  BY DEF Told, Left, Running
<1> QED BY <1>1 DEF Told, Finish

LEMMA ToldStep ==
  ASSUME Told, Crew, Parsed, Placed, Alive, Filled, [Next]_vars
  PROVE  Told'
<1>1. CASE Start
  <2>1. pc # "failed" /\ pc' = pc /\ result' = result /\ at = "start"
    BY <1>1 DEF Start, Told, Quiet, lvars
  <2>2. (at' = "open" /\ UNCHANGED <<rc, exit, ctx>>) \/ Exit(1)
    BY <1>1 DEF Start, Goto
  <2> QED BY <2>1, <2>2, ToldStays DEF Left
<1>2. CASE OpenVocab
  <2>1. at = "open" /\ UNCHANGED <<args, n, result, worker>> /\ args.cmd \in Commands \cup {"api"}
    BY <1>2 DEF OpenVocab, input, bench, Alive
  <2>2. CASE OpenNext /\ UNCHANGED <<at, rc, exit, ctx>>
    BY <2>1, <2>2 DEF Told, Running
  <2>3. CASE pc = "failed" /\ Exit(3) /\ UNCHANGED lvars
    <3>1. result = <<>> /\ exit = Running /\ Running = -1 /\ pc' = pc
      BY <2>1, <2>3 DEF Told, Running, lvars
    <3> QED BY <2>1, <2>3, <3>1 DEF Told, Exit
  <2>4. CASE /\ pc = "ready" /\ UNCHANGED lvars
             /\ \/ args.cmd \in {"info", "api"} /\ Finish(0)
                \/ Finish(1) \/ Finish(2) \/ Goto("context") \/ Goto("input")
    <3>1. pc = "ready" /\ pc' = "ready"
      BY <2>4 DEF lvars
    <3>2. CASE args.cmd \in {"info", "api"} /\ Finish(0)
      <4>1. Answer'
        BY <2>1, <3>2 DEF Answer
      <4>2. \A w \in DOMAIN worker : ~Live(w)
        BY <2>1 DEF Alive, Spawned, Left
      <4>3. (\A w \in DOMAIN worker : ~Live(w))'
        BY <2>1, <4>2 DEF Live
      <4> QED BY <2>1, <3>1, <3>2, <4>1, <4>3, ToldAnswer DEF Left
    <3>3. CASE Finish(1) \/ Finish(2) \/ Goto("context") \/ Goto("input")
      BY <2>1, <3>1, <3>3, ToldStays DEF Left, Goto
    <3> QED BY <2>4, <3>2, <3>3
  <2> QED BY <1>2, <2>2, <2>3, <2>4 DEF OpenVocab
<1>3. CASE /\ at \in Working \cup Spawned /\ UNCHANGED <<lvars, result>>
           /\ \/ at' \notin Left /\ UNCHANGED <<rc, exit, ctx>>
              \/ \E c \in {1, 2, 4} : Finish(c) \/ Exit(c)
  <2>1. at \notin Left /\ pc = "ready" /\ pc' = "ready" /\ result' = result
    BY <1>3 DEF Left, Alive, Working, Spawned, Commands, lvars
  <2> QED BY <1>3, <2>1, ToldStays
<1>4. CASE LoadInput \/ ReadAll
  <2>1. at \in Working /\ UNCHANGED <<lvars, result>>
    BY <1>4 DEF LoadInput, ReadAll, Quiet, Working
  <2>2. \/ \E c \in {1, 2, 4} : Finish(c) \/ Exit(c)
        \/ \E x \in {"read", "parse", "context", "split"} : Goto(x)
    BY <1>4 DEF LoadInput, ReadAll, Loaded
  <2> QED BY <1>3, <2>1, <2>2 DEF Goto, Left
<1>5. CASE Context
  <2>1. at \in Working /\ UNCHANGED <<args, worker, lvars, result>>
    BY <1>5 DEF Context, Quiet, Working, bench
  <2>2. CASE Finish(4)
    BY <1>3, <2>1, <2>2
  <2>3. CASE at' = args.cmd /\ UNCHANGED <<rc, exit>>
    <3>1. at' \notin Left /\ at \notin Left /\ pc = "ready" /\ pc' = "ready"
      BY <2>1, <2>3 DEF Alive, Commands, Working, Left, lvars
    <3> QED BY <2>1, <2>3, <3>1 DEF Told, Left, Running
  <2> QED BY <1>5, <2>2, <2>3 DEF Context
<1>6. CASE Count \/ EncodeAgain
  <2>1. /\ at \in Working /\ UNCHANGED <<args, n, worker, lvars>>
        /\ args.cmd \in {"count", "encode"} /\ n = Len(args.text)
    BY <1>6 DEF Count, EncodeAgain, Quiet, Working, Commands, Placed, bench, input
  <2>2. \/ UNCHANGED result /\ ((\E c \in {1, 2, 4} : Finish(c) \/ Exit(c)) \/ Goto("again"))
        \/ result' = Whole /\ Finish(0)
    BY <1>6 DEF Count, EncodeAgain
  <2>3. CASE result' = Whole /\ Finish(0)
    <3>1. \A i \in 0..(n - 1) : Once(Whole, i)
      <4>1. n \in Nat /\ [from |-> 0, to |-> n] \in Span
        BY DEF Filled, Span
      <4> QED BY <4>1, Single DEF Whole
    <3>2. Answer'
      BY <2>1, <2>3, <3>1 DEF Answer
    <3>3. at \notin Left /\ pc' = "ready" /\ \A w \in DOMAIN worker : ~Live(w)
      BY <2>1 DEF Alive, Working, Commands, Spawned, Left, lvars
    <3>4. (\A w \in DOMAIN worker : ~Live(w))'
      BY <2>1, <3>3 DEF Live
    <3> QED BY <2>3, <3>2, <3>3, <3>4, ToldAnswer
  <2>4. CASE UNCHANGED result /\ ((\E c \in {1, 2, 4} : Finish(c) \/ Exit(c)) \/ Goto("again"))
    BY <1>3, <2>1, <2>4 DEF Goto, Left
  <2> QED BY <2>2, <2>3, <2>4
<1>7. CASE Parse
  <2>1. at \in Working /\ UNCHANGED <<lvars, result>>
    BY <1>7 DEF Parse, Quiet, Working
  <2>2. \/ \E c \in {1, 2, 4} : Finish(c) \/ Exit(c)
        \/ \E x \in {"parse", "context"} : Goto(x)
    BY <1>7 DEF Parse
  <2> QED BY <1>3, <2>1, <2>2 DEF Goto, Left
<1>8. CASE DecodeIds
  <2>1. /\ at = "decode" /\ at \in Working /\ UNCHANGED <<args, n, worker, lvars>>
        /\ args.cmd = "decode" /\ n = Len(args.text)
    BY <1>8 DEF DecodeIds, Quiet, Working, Commands, Placed, bench, input
  <2>2. \/ UNCHANGED result /\ (Finish(4) \/ Exit(4))
        \/ result' = ids.put /\ Finish(0)
    BY <1>8 DEF DecodeIds
  <2>3. CASE result' = ids.put /\ Finish(0)
    <3>1. NoMinus => ParsedAt(n, ids.put)
      <4>1. s >= n /\ (NoMinus => ParsedAt(s, ids.put)) /\ n \in Nat
        BY <2>1 DEF Parsed, Filled
      <4>2. ParsedAt(s, ids.put) => s \in 0..n
        BY DEF ParsedAt
      <4>3. ParsedAt(s, ids.put) => s = n
        BY <4>1, <4>2
      <4> QED BY <4>1, <4>3
    <3>2. Answer'
      <4>1. NoMinus' <=> NoMinus
        BY <2>1, MinusFrozen
      <4>2. ParsedAt(n, ids.put) => ParsedAt(n, result)'
        BY <2>1, <2>3, ParsedFrozen
      <4> QED BY <2>1, <3>1, <4>1, <4>2 DEF Answer
    <3>3. at \notin Left /\ pc' = "ready" /\ \A w \in DOMAIN worker : ~Live(w)
      BY <2>1 DEF Alive, Working, Commands, Spawned, Left, lvars
    <3>4. (\A w \in DOMAIN worker : ~Live(w))'
      BY <2>1, <3>3 DEF Live
    <3> QED BY <2>3, <3>2, <3>3, <3>4, ToldAnswer
  <2> QED BY <1>3, <2>1, <2>2, <2>3
<1>9. CASE RunCensus
  <2>1. /\ at \in Working /\ UNCHANGED <<args, worker, lvars, result>>
        /\ args.cmd \in {"census", "witness"}
    BY <1>9 DEF RunCensus, Quiet, Working, Commands, Placed, bench
  <2>2. CASE Finish(4)
    BY <1>3, <2>1, <2>2
  <2>3. CASE Finish(0)
    <3>1. Answer'
      BY <2>1 DEF Answer
    <3>2. at \notin Left /\ pc' = "ready" /\ \A w \in DOMAIN worker : ~Live(w)
      BY <2>1 DEF Alive, Working, Commands, Spawned, Left, lvars
    <3>3. (\A w \in DOMAIN worker : ~Live(w))'
      BY <2>1, <3>2 DEF Live
    <3> QED BY <2>3, <3>1, <3>2, <3>3, ToldAnswer
  <2> QED BY <1>9, <2>2, <2>3 DEF RunCensus
<1>10. CASE Split \/ Spawn
  <2>1. at \in Working \cup Spawned /\ UNCHANGED <<lvars, result>>
    BY <1>10 DEF Split, Spawn, Quiet, Working, Spawned
  <2>2. \/ \E c \in {1, 2, 4} : Finish(c) \/ Exit(c)
        \/ \E x \in {"spawn", "join"} : Goto(x)
    BY <1>10 DEF Split, Spawn
  <2> QED BY <1>3, <2>1, <2>2 DEF Goto, Left
<1>11. CASE Join
  <2>1. at = "join" /\ at \in Spawned /\ UNCHANGED <<args, n, worker, lvars>>
        /\ args.cmd = "bench" /\ n = Len(args.text)
    BY <1>11 DEF Join, Quiet, Spawned, Placed, input
  <2>2. \/ UNCHANGED result /\ (Finish(4) \/ \E x \in Spawned : Goto(x))
        \/ /\ Finish(0) /\ \A w \in DOMAIN worker : ~Live(w)
           /\ \A i \in 0..(n - 1) : Once(result', i)
    BY <1>11, Joined
  <2>3. CASE UNCHANGED result /\ (Finish(4) \/ \E x \in Spawned : Goto(x))
    BY <1>3, <2>1, <2>3 DEF Goto, Left, Spawned
  <2>4. CASE /\ Finish(0) /\ \A w \in DOMAIN worker : ~Live(w)
             /\ \A i \in 0..(n - 1) : Once(result', i)
    <3>1. Answer'
      BY <2>1, <2>4 DEF Answer
    <3>2. at \notin Left /\ pc' = "ready"
      BY <2>1 DEF Alive, Spawned, Left, lvars
    <3>3. (\A w \in DOMAIN worker : ~Live(w))'
      BY <2>1, <2>4 DEF Live
    <3> QED BY <2>4, <3>1, <3>2, <3>3, ToldAnswer
  <2> QED BY <2>2, <2>3, <2>4
<1>12. CASE CloseVocab
  <2>1. /\ at = "close" /\ at' = "closed" /\ pc' = "closed" /\ pc = "ready"
        /\ UNCHANGED <<rc, exit, args, n, result, worker>>
    BY <1>12 DEF CloseVocab, Close, Goto, input, bench
  <2>2. Answer => Answer'
    BY <2>1, AnswerStays
  <2> QED BY <2>1, <2>2 DEF Told, Live, Running
<1>13. CASE Return
  <2>1. /\ at = "closed" /\ at' = "exited" /\ exit' = rc /\ pc' = pc
        /\ UNCHANGED <<rc, args, n, result>>
    BY <1>13 DEF Return, Exit, Quiet, lvars, input
  <2>2. Answer => Answer'
    BY <2>1, AnswerStays
  <2>3. rc \in {0, 1, 2, 4} /\ pc # "failed" /\ exit = Running
    BY <2>1 DEF Told
  <2> QED BY <2>1, <2>2, <2>3 DEF Told, Running
<1>14. CASE Killed
  <2>1. /\ at \in {"close", "closed"} /\ ~(\A w \in DOMAIN worker : ~Live(w))
        /\ at' = "exited" /\ exit' = Signal /\ pc' = pc /\ result' = result
    BY <1>14 DEF Killed, Exit, Quiet, lvars
  <2>2. exit = Running /\ pc # "failed"
    BY <2>1 DEF Told
  <2>3. result = <<>>
    BY <2>1, <2>2 DEF Told, Running
  <2> QED BY <2>1, <2>2, <2>3 DEF Told, Running, Signal
<1>15. CASE \E w \in DOMAIN worker : Worker(w)
  <2>1. /\ exit = Running /\ ~(\A w \in DOMAIN worker : ~Live(w))
        /\ UNCHANGED <<args, n, at, rc, exit, result, pc>>
    BY <1>15 DEF Worker, Quiet, lvars, input
  <2>2. Answer => Answer'
    BY <2>1, AnswerStays
  <2>3. result = <<>>
    BY <2>1 DEF Told, Running
  <2> QED BY <2>1, <2>2, <2>3 DEF Told, Running
<1>16. CASE UNCHANGED vars
  <2>1. UNCHANGED <<args, n, at, rc, exit, result, pc, worker>>
    BY <1>16 DEF vars, main, lvars, input, bench
  <2>2. Answer => Answer'
    BY <2>1, AnswerStays
  <2> QED BY <2>1, <2>2 DEF Told, Live
<1> QED
  BY <1>1, <1>2, <1>4, <1>5, <1>6, <1>7, <1>8, <1>9, <1>10, <1>11, <1>12, <1>13, <1>14,
     <1>15, <1>16
  DEF Next, Main

AInv == CInv /\ Crew /\ Placed /\ Parsed /\ Told

\* The program starts with nothing read, counted or said.
LEMMA AnswerStarts == Init => AInv
<1> SUFFICES ASSUME Init PROVE AInv
  OBVIOUS
<1>1. CInv
  BY CliStarts
<1>2. /\ at = "start" /\ n = 0 /\ s = 0 /\ ids.put = <<>> /\ result = <<>> /\ rc = 0
      /\ exit = Running /\ pc = "open"
  BY DEF Init, MainInit, LoaderInit
<1>3. Crew
  BY CrewStarts
<1>4. Placed
  <2>1. args \in Args /\ Len(args.text) \in Nat
    BY <1>1, ArgsAssumption DEF CInv, Filled
  <2> QED BY <1>2, <2>1 DEF Placed
<1>5. Parsed
  BY <1>2 DEF Parsed
<1>6. Told
  BY <1>2 DEF Told, Running
<1> QED BY <1>1, <1>3, <1>4, <1>5, <1>6 DEF AInv

\* Whatever the input and wherever its lines end, whatever fails, and in whatever
\* order the threads of bench get on: a program that ends with 0 has counted or
\* printed every byte of the input once, or decoded every number of it in its place;
\* with another code it has printed nothing; and 3 says that no vocabulary was opened.
THEOREM MainAnswers == Spec => []Answered
<1>1. AInv /\ [Next]_vars => AInv'
  <2> SUFFICES ASSUME AInv, [Next]_vars PROVE AInv'
    OBVIOUS
  <2>1. CInv'
    BY LoaderSteps, Inductive, AliveStep, FilledStep DEF AInv, CInv
  <2> QED BY <2>1, CrewStep, PlacedStep, ParsedStep, ToldStep DEF AInv, CInv
<1>2. AInv => Answered
  <2> SUFFICES ASSUME AInv PROVE Answered
    OBVIOUS
  <2>1. Told /\ Filled /\ n \in Nat
    BY DEF AInv, CInv, Filled
  <2>2. exit = 0 => Answer
    BY <2>1 DEF Told
  <2>3. ASSUME exit = 0, args.cmd \in {"count", "encode", "bench"},
               NEW i \in 0..(Len(args.text) - 1)
        PROVE  Cardinality({h \in 1..Len(result) : i \in result[h].from..(result[h].to - 1)}) = 1
    BY <2>2, <2>3, OnceIs DEF Answer
  <2>4. ASSUME exit = 0, args.cmd = "decode"
        PROVE  /\ n = Len(args.text)
               /\ (\A i \in 0..(n - 1) : Char(i) # "-") =>
                    /\ Len(result) = Cardinality(Runs)
                    /\ \A r \in Runs :
                         result[Cardinality({q \in Runs : q[1] <= r[1]})] = Value(r[1], r[2])
    <3>1. n = Len(args.text) /\ (NoMinus => ParsedAt(n, result))
      BY <2>2, <2>4 DEF Answer
    <3> QED BY <2>1, <3>1, AllParsed DEF NoMinus
  <2>5. exit # Running /\ result # <<>> => exit = 0
    BY <2>1 DEF Told
  <2>6. exit = 3 <=> (exit # Running /\ pc = "failed")
    BY <2>1 DEF Told, Running
  <2> QED BY <2>3, <2>4, <2>5, <2>6 DEF Answered
<1> QED BY AnswerStarts, <1>1, <1>2, PTL DEF Spec
=============================================================================
