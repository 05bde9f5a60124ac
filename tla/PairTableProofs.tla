--------------------------- MODULE PairTableProofs ---------------------------
(***************************************************************************)
(* For every hash, every number of slots, every merge list and every table *)
(* a file may hold: a probe never comes round to where it began, and a     *)
(* lookup answers with a slot of its own pair, within range.  A probe      *)
(* passes occupied slots only, and a bound on the load, the converter's    *)
(* while it builds and the loader's afterwards, leaves a free one.         *)
(* A table the converter made passes the loader's checks, whose bound on   *)
(* the load is in integers where the converter's is in floating point.     *)
(***************************************************************************)
EXTENDS PairTable, FiniteSetTheorems, TLAPS

Probing == pc \in {"insert", "probe"}

\* While the converter builds, it has used no more slots than it has merges.
Counted ==
  pc \in {"build", "insert"} =>
    /\ IsFiniteSet(Occupied) /\ Cardinality(Occupied) <= rank
    /\ 20 * Len(source) <= 13 * n
    /\ pc = "insert" => rank < Len(source)

Room == \E e \in Slots : keys[e] = Absent

\* Every slot passed holds another pair.
Seen == Probing => \A q \in Passed(Home(pair, n), slot) : keys[q] \notin {Absent, pair}

IInv ==
  /\ TypeOK /\ Counted /\ Seen
  /\ pc \in {"ready", "probe"} => InRange /\ Room
  /\ pc \notin {"ready", "probe"} => answer = Absent
  /\ AnswerInRange

LEMMA SlotsFinite ==
  ASSUME NEW m \in Nat
  PROVE  IsFiniteSet(0..(m - 1)) /\ Cardinality(0..(m - 1)) = m
<1>1. 0 \in Int /\ m - 1 \in Int
  OBVIOUS
<1>2. /\ IsFiniteSet(0..(m - 1))
      /\ Cardinality(0..(m - 1)) = IF 0 > m - 1 THEN 0 ELSE (m - 1) - 0 + 1
  BY <1>1, FS_Interval
<1> QED BY <1>2

\* Fewer occupied slots than slots leave a free one.
LEMMA FreeSlot ==
  ASSUME n \in Nat, IsFiniteSet(Occupied), Cardinality(Occupied) < n
  PROVE  Room
<1>1. SUFFICES ASSUME ~Room PROVE FALSE
  OBVIOUS
<1>2. Occupied = 0..(n - 1)
  BY <1>1 DEF Room, Occupied, Slots
<1>3. Cardinality(Occupied) = n
  BY <1>2, SlotsFinite
<1> QED BY <1>3

\* The loader's integer bound on the load is below the number of slots.
LEMMA FitsLeavesRoom ==
  ASSUME n \in Nat \ {0}, Fits
  PROVE  Room
<1>1. IsFiniteSet(Slots) /\ Occupied \subseteq Slots
  BY SlotsFinite DEF Slots, Occupied
<1>2. IsFiniteSet(Occupied) /\ Cardinality(Occupied) \in Nat
  BY <1>1, FS_Subset, FS_CardinalityType
<1>3. (n * 13) \div 20 < n
  BY SMT
<1>4. Cardinality(Occupied) < n
  <2>1. (n * 13) \div 20 \in Int
    BY SMT
  <2> QED BY <1>2, <1>3, <2>1 DEF Fits
<1> QED BY <1>2, <1>4, FreeSlot

\* One more step of a probe: the next slot is not the first, since a free slot
\* is still ahead, and what was passed now includes the slot just left.
LEMMA ProbeStep ==
  ASSUME NEW h \in Slots, NEW s \in Slots, n \in Nat, NEW e \in Slots,
         e \notin Passed(h, s), e # s
  PROVE  /\ NextSlot(s) \in Slots /\ NextSlot(s) # h
         /\ Passed(h, NextSlot(s)) = Passed(h, s) \cup {s}
<1>1. h \in Int /\ s \in Int /\ e \in Int /\ 0 <= h /\ h < n /\ 0 <= s /\ s < n /\ 0 <= e /\ e < n
  BY DEF Slots
<1>2. CASE h <= s
  <2>1. Passed(h, s) = h..(s - 1)
    BY <1>2 DEF Passed
  <2>2. CASE s + 1 = n
    <3>1. NextSlot(s) = 0 /\ h # 0
      BY <1>1, <1>2, <2>1, <2>2 DEF NextSlot
    <3>2. Passed(h, 0) = (h..(n - 1)) \cup (0..(0 - 1))
      BY <1>1, <3>1 DEF Passed
    <3> QED BY <1>1, <1>2, <2>1, <2>2, <3>1, <3>2 DEF Slots
  <2>3. CASE s + 1 # n
    <3>1. NextSlot(s) = s + 1
      BY <2>3 DEF NextSlot
    <3>2. Passed(h, s + 1) = h..((s + 1) - 1)
      BY <1>1, <1>2 DEF Passed
    <3> QED BY <1>1, <1>2, <2>1, <2>3, <3>1, <3>2 DEF Slots
  <2> QED BY <2>2, <2>3
<1>3. CASE h > s
  <2>1. Passed(h, s) = (h..(n - 1)) \cup (0..(s - 1))
    BY <1>1, <1>3 DEF Passed
  <2>2. NextSlot(s) = s + 1 /\ s + 1 # n
    BY <1>1, <1>3 DEF NextSlot
  <2>3. s + 1 # h
    BY <1>1, <2>1
  <2>4. Passed(h, s + 1) = (h..(n - 1)) \cup (0..((s + 1) - 1))
    BY <1>1, <1>3, <2>3 DEF Passed
  <2> QED BY <1>1, <1>3, <2>1, <2>2, <2>3, <2>4 DEF Slots
<1> QED BY <1>1, <1>2, <1>3

LEMMA ProbeBegins ==
  ASSUME NEW p \in Pair, n \in Sizes
  PROVE  Home(p, n) \in Slots /\ Passed(Home(p, n), Home(p, n)) = {}
<1>1. Home(p, n) \in 0..(n - 1) /\ n \in Nat
  BY HomeAssumption, SizesAssumption
<1> QED BY <1>1 DEF Slots, Passed

\* While a probe goes on there is a free slot, which it has not passed.
LEMMA ProbeAhead ==
  ASSUME IInv, Probing
  PROVE  /\ n \in Nat \ {0} /\ pair \in Pair /\ slot \in Slots /\ Home(pair, n) \in Slots
         /\ \E e \in Slots : keys[e] = Absent /\ e \notin Passed(Home(pair, n), slot)
<1>1. n \in Sizes /\ n \in Nat \ {0} /\ pair \in Pair /\ slot \in Slots
  BY SizesAssumption DEF IInv, TypeOK, Probing
<1>2. Home(pair, n) \in Slots
  BY <1>1, ProbeBegins
<1>3. Room
  <2>1. CASE pc = "insert"
    <3>1. /\ IsFiniteSet(Occupied) /\ Cardinality(Occupied) <= rank /\ rank < Len(source)
          /\ 20 * Len(source) <= 13 * n /\ rank \in Nat /\ Len(source) \in Nat
      BY <2>1 DEF IInv, Counted, TypeOK
    <3>2. Cardinality(Occupied) \in Nat
      BY <3>1, FS_CardinalityType
    <3>3. Cardinality(Occupied) < n
      BY <1>1, <3>1, <3>2
    <3> QED BY <1>1, <3>1, <3>3, FreeSlot
  <2>2. CASE pc = "probe"
    BY <2>2 DEF IInv
  <2> QED BY <2>1, <2>2 DEF Probing
<1>4. PICK e \in Slots : keys[e] = Absent
  BY <1>3 DEF Room
<1>5. e \notin Passed(Home(pair, n), slot)
  BY <1>4 DEF IInv, Seen, Probing
<1> QED BY <1>1, <1>2, <1>4, <1>5

\* What a step that leaves the slots alone keeps.
LEMMA SameTable ==
  ASSUME UNCHANGED table
  PROVE  /\ source' = source /\ n' = n /\ keys' = keys /\ values' = values
         /\ Slots' = Slots /\ Occupied' = Occupied /\ Room' = Room /\ InRange' = InRange
         /\ \A h, s : Passed(h, s)' = Passed(h, s)
  BY DEF table, Slots, Occupied, Room, InRange, Passed

LEMMA InitHolds == Init => IInv
<1> SUFFICES ASSUME Init PROVE IInv
  OBVIOUS
<1>1. CASE source \in Sources /\ pc = "size"
  <2>1. source \in Seq(Merge) /\ 0 \in 0..Len(source)
    BY <1>1, SourcesAssumption
  <2> QED BY <1>1, <2>1
      DEF Init, IInv, TypeOK, Counted, Seen, Probing, AnswerInRange
<1>2. CASE \E im \in Images : /\ source = <<>> /\ pc = "load" /\ n = im.n
                              /\ keys = im.keys /\ values = im.values
  <2>1. /\ source \in Seq(Merge) /\ 0 \in 0..Len(source)
        /\ n \in Sizes /\ keys \in [Slots -> Pair \cup {Absent}] /\ values \in [Slots -> Val]
    BY <1>2, ImagesAssumption DEF Slots
  <2>2. TypeOK
    BY <1>2, <2>1 DEF Init, TypeOK
  <2> QED BY <1>2, <2>2 DEF Init, IInv, Counted, Seen, Probing, AnswerInRange
<1> QED BY <1>1, <1>2 DEF Init

LEMMA SizeKeeps == IInv /\ Size => IInv'
<1> SUFFICES ASSUME IInv, Size PROVE IInv'
  OBVIOUS
<1>1. PICK m \in Sizes :
        /\ Roomy(m, Len(source)) /\ n' = m
        /\ keys' = [s \in 0..(m - 1) |-> Absent] /\ values' = [s \in 0..(m - 1) |-> Absent]
  BY DEF Size
<1>2. /\ pc = "size" /\ pc' = "build" /\ source' = source /\ rank' = rank
      /\ mismatches' = mismatches /\ pair' = pair /\ slot' = slot /\ answer' = answer
  BY DEF Size
<1>3. TypeOK'
  BY <1>1, <1>2 DEF IInv, TypeOK, Slots
<1>4. Counted'
  <2>1. Occupied' = {}
    BY <1>1 DEF Occupied, Slots
  <2>2. IsFiniteSet(Occupied') /\ Cardinality(Occupied') = 0
    BY <2>1, FS_EmptySet
  <2>3. rank' \in Nat /\ 20 * Len(source') <= 13 * n'
    BY <1>1, <1>2 DEF IInv, TypeOK, Roomy
  <2>4. 0 <= rank'
    BY <2>3
  <2> QED BY <1>2, <2>2, <2>3, <2>4 DEF Counted
<1> QED BY <1>2, <1>3, <1>4 DEF IInv, Seen, Probing, AnswerInRange

\* A probe begins: nothing is passed yet.
LEMMA InsertKeeps == IInv /\ Insert => IInv'
<1> SUFFICES ASSUME IInv, Insert PROVE IInv'
  OBVIOUS
<1>1. /\ pc = "build" /\ pc' = "insert" /\ UNCHANGED table /\ rank' = rank /\ rank < Len(source)
      /\ pair' = source[rank + 1].pair /\ slot' = Home(pair', n) /\ answer' = answer
      /\ mismatches' = mismatches
  BY DEF Insert
<1>2. pair' \in Pair
  <2>1. source \in Seq(Merge) /\ rank + 1 \in 1..Len(source)
    BY <1>1 DEF IInv, TypeOK
  <2>2. source[rank + 1] \in Merge
    <3> HIDE DEF Merge
    <3> QED BY <2>1
  <2> QED BY <1>1, <2>2 DEF Merge
<1>3. n \in Sizes /\ Home(pair', n) \in Slots /\ Passed(Home(pair', n), Home(pair', n)) = {}
  BY <1>1, <1>2, ProbeBegins DEF IInv, TypeOK
<1>4. TypeOK'
  BY <1>1, <1>2, <1>3, SameTable DEF IInv, TypeOK, Slots
<1>5. Counted'
  BY <1>1, SameTable DEF IInv, Counted
<1>6. Seen'
  BY <1>1, <1>3, SameTable DEF Seen
<1> QED BY <1>1, <1>4, <1>5, <1>6 DEF IInv, AnswerInRange

LEMMA AskKeeps == IInv /\ Ask => IInv'
<1> SUFFICES ASSUME IInv, Ask PROVE IInv'
  OBVIOUS
<1>1. /\ pc = "ready" /\ pc' = "probe" /\ UNCHANGED table /\ rank' = rank /\ pair' \in Pair
      /\ slot' = Home(pair', n) /\ answer' = answer /\ mismatches' = mismatches
  BY DEF Ask
<1>2. n \in Sizes /\ Home(pair', n) \in Slots /\ Passed(Home(pair', n), Home(pair', n)) = {}
  BY <1>1, ProbeBegins DEF IInv, TypeOK
<1>3. TypeOK'
  BY <1>1, <1>2, SameTable DEF IInv, TypeOK, Slots
<1>4. Seen'
  BY <1>1, <1>2, SameTable DEF Seen
<1> QED BY <1>1, <1>3, <1>4, SameTable DEF IInv, Counted, AnswerInRange

\* A probe goes on, in the converter or in a lookup.
LEMMA OnKeeps == IInv /\ (InsertOn \/ LookupOn) => IInv' /\ slot' # Home(pair, n)
<1> SUFFICES ASSUME IInv, InsertOn \/ LookupOn PROVE IInv' /\ slot' # Home(pair, n)
  OBVIOUS
<1>1. /\ Probing /\ pc' = pc /\ UNCHANGED table /\ rank' = rank /\ pair' = pair
      /\ keys[slot] \notin {Absent, pair} /\ slot' = NextSlot(slot) /\ answer' = answer
      /\ mismatches' = mismatches
  BY DEF InsertOn, LookupOn, Probing
<1>2. /\ n \in Nat /\ pair \in Pair /\ slot \in Slots /\ Home(pair, n) \in Slots
      /\ \E e \in Slots : keys[e] = Absent /\ e \notin Passed(Home(pair, n), slot)
  BY <1>1, ProbeAhead
<1>3. /\ NextSlot(slot) \in Slots /\ NextSlot(slot) # Home(pair, n)
      /\ Passed(Home(pair, n), NextSlot(slot)) = Passed(Home(pair, n), slot) \cup {slot}
  <2>1. PICK e \in Slots : keys[e] = Absent /\ e \notin Passed(Home(pair, n), slot)
    BY <1>2
  <2>2. e # slot
    BY <1>1, <2>1
  <2> QED BY <1>2, <2>1, <2>2, ProbeStep
<1>4. TypeOK'
  <2>1. slot' \in Nat /\ slot' \in Slots
    BY <1>1, <1>2, <1>3 DEF Slots
  <2> QED BY <1>1, <2>1, SameTable DEF IInv, TypeOK
<1>5. Seen'
  <2>1. \A q \in Passed(Home(pair, n), slot) \cup {slot} : keys[q] \notin {Absent, pair}
    BY <1>1 DEF IInv, Seen
  <2>2. Passed(Home(pair, n), slot)' = Passed(Home(pair, n), NextSlot(slot))
    BY <1>1, SameTable DEF Passed
  <2> QED BY <1>1, <1>3, <2>1, <2>2, SameTable DEF Seen
<1> QED BY <1>1, <1>3, <1>4, <1>5, SameTable DEF IInv, Counted, AnswerInRange

LEMMA PlaceKeeps == IInv /\ Place => IInv'
<1> SUFFICES ASSUME IInv, Place PROVE IInv'
  OBVIOUS
<1>1. /\ pc = "insert" /\ pc' = "build" /\ keys[slot] = Absent
      /\ keys' = [keys EXCEPT ![slot] = pair]
      /\ values' = [values EXCEPT ![slot] = [rank |-> rank, id |-> source[rank + 1].id]]
      /\ rank' = rank + 1 /\ source' = source /\ n' = n /\ pair' = pair /\ slot' = slot
      /\ answer' = answer /\ mismatches' = mismatches
  BY DEF Place
<1>2. /\ slot \in Slots /\ pair \in Pair /\ n \in Sizes /\ rank \in Nat /\ rank < Len(source)
      /\ source \in Seq(Merge) /\ Len(source) \in Nat /\ 20 * Len(source) <= 13 * n
      /\ keys \in [Slots -> Pair \cup {Absent}] /\ values \in [Slots -> Val \cup {Absent}]
      /\ IsFiniteSet(Occupied) /\ Cardinality(Occupied) <= rank
  BY <1>1 DEF IInv, TypeOK, Counted
<1>3. [rank |-> rank, id |-> source[rank + 1].id] \in Val
  <2>1. rank + 1 \in 1..Len(source)
    BY <1>2
  <2>2. source[rank + 1] \in Merge
    <3> HIDE DEF Merge
    <3> QED BY <1>2, <2>1
  <2> QED BY <1>2, <2>2 DEF Merge, Val
<1>4. TypeOK'
  <2>1. rank + 1 \in 0..Len(source)
    BY <1>2
  <2>2. /\ keys' \in [Slots -> Pair \cup {Absent}] /\ values' \in [Slots -> Val \cup {Absent}]
        /\ \A s \in Slots : keys'[s] # Absent => values'[s] \in Val
    <3> DEFINE v == [rank |-> rank, id |-> source[rank + 1].id]
    <3>1. v \in Val /\ values' = [values EXCEPT ![slot] = v]
      BY <1>1, <1>3
    <3>2. \A s \in Slots : keys[s] # Absent => values[s] \in Val
      BY <1>1 DEF IInv, TypeOK
    <3> HIDE DEF v, Val
    <3> QED BY <1>1, <1>2, <3>1, <3>2
  <2>3. Slots' = Slots
    BY <1>1 DEF Slots
  <2> QED BY <1>1, <1>2, <2>1, <2>2, <2>3 DEF IInv, TypeOK
<1>5. Counted'
  <2>1. Occupied' = Occupied \cup {slot} /\ slot \notin Occupied
    BY <1>1, <1>2, AbsentAssumption DEF Occupied, Slots
  <2>2. IsFiniteSet(Occupied') /\ Cardinality(Occupied') = Cardinality(Occupied) + 1
    BY <1>2, <2>1, FS_AddElement
  <2>3. Cardinality(Occupied') <= rank + 1
    BY <1>2, <2>2, FS_CardinalityType
  <2> QED BY <1>1, <1>2, <2>2, <2>3 DEF Counted
<1> QED BY <1>1, <1>4, <1>5 DEF IInv, Seen, Probing, AnswerInRange

\* The steps that leave slots and probe alone.
LEMMA RestKeeps ==
  IInv /\ (RefuseUnknown \/ Mismatch \/ RefuseDuplicate \/ Write \/ RefuseMismatches) => IInv'
<1> SUFFICES ASSUME IInv,
                    RefuseUnknown \/ Mismatch \/ RefuseDuplicate \/ Write \/ RefuseMismatches
             PROVE  IInv'
  OBVIOUS
<1>1. /\ pc \in {"build", "insert"} /\ pc' \in {"build", "load", "refused"} /\ UNCHANGED table
      /\ pc' = "build" => pc = "build"
      /\ answer' = answer /\ pair' = pair /\ slot' = slot
      /\ rank' = rank \/ (rank' = rank + 1 /\ rank < Len(source))
      /\ mismatches' \in {mismatches, mismatches + 1}
  BY DEF RefuseUnknown, Mismatch, RefuseDuplicate, Write, RefuseMismatches, Refuse
<1>2. rank \in Nat /\ Len(source) \in Nat /\ rank <= Len(source) /\ mismatches \in Nat
  BY DEF IInv, TypeOK
<1>3. rank' \in 0..Len(source) /\ rank' >= rank /\ mismatches' \in Nat
  BY <1>1, <1>2
<1>4. TypeOK'
  BY <1>1, <1>3, SameTable DEF IInv, TypeOK
<1>5. Counted'
  <2>1. CASE pc' = "build"
    <3>1. /\ IsFiniteSet(Occupied) /\ Cardinality(Occupied) <= rank
          /\ 20 * Len(source) <= 13 * n
      BY <1>1 DEF IInv, Counted
    <3>2. Cardinality(Occupied) <= rank'
      BY <1>2, <1>3, <3>1, FS_CardinalityType
    <3> QED BY <2>1, <3>1, <3>2, SameTable, <1>1 DEF Counted
  <2>2. CASE pc' # "build"
    BY <1>1, <2>2 DEF Counted
  <2> QED BY <2>1, <2>2
<1> QED BY <1>1, <1>4, <1>5 DEF IInv, Seen, Probing, AnswerInRange

LEMMA LoadKeeps == IInv /\ Load => IInv'
<1> SUFFICES ASSUME IInv, Load PROVE IInv'
  OBVIOUS
<1>1. /\ pc = "load" /\ UNCHANGED table /\ rank' = rank /\ pair' = pair /\ slot' = slot
      /\ answer' = answer /\ mismatches' = mismatches
      /\ (InRange /\ Fits /\ pc' = "ready") \/ pc' = "refused"
  BY DEF Load
<1>2. TypeOK'
  BY <1>1, SameTable DEF IInv, TypeOK
<1>3. pc' = "ready" => InRange /\ Room
  BY <1>1, SizesAssumption, FitsLeavesRoom DEF IInv, TypeOK
<1>4. answer' = Absent
  BY <1>1 DEF IInv
<1> QED BY <1>1, <1>2, <1>3, <1>4, SameTable DEF IInv, Counted, Seen, Probing, AnswerInRange

LEMMA AnswerKeeps == IInv /\ (LookupHit \/ LookupMiss) => IInv'
<1> SUFFICES ASSUME IInv, LookupHit \/ LookupMiss PROVE IInv'
  OBVIOUS
<1>1. /\ pc = "probe" /\ pc' = "ready" /\ UNCHANGED table /\ rank' = rank /\ pair' = pair
      /\ slot' = slot /\ mismatches' = mismatches
      /\ (keys[slot] = pair /\ answer' = values[slot]) \/ answer' = Absent
  BY DEF LookupHit, LookupMiss
<1>2. TypeOK'
  BY <1>1, SameTable DEF IInv, TypeOK
<1>3. InRange /\ Room /\ slot \in Slots /\ pair \in Pair
  BY <1>1 DEF IInv, TypeOK
<1>4. AnswerInRange'
  <2>1. SUFFICES ASSUME answer' # Absent
                 PROVE  answer'.id \in Known /\ \E s \in Slots : keys[s] = pair /\ values[s] = answer'
    BY <1>1, SameTable DEF AnswerInRange
  <2>2. keys[slot] = pair /\ answer' = values[slot]
    BY <1>1, <2>1
  <2>3. slot \in Occupied
    BY <1>3, <2>2, AbsentAssumption DEF Occupied
  <2> QED BY <1>3, <2>2, <2>3 DEF InRange
<1> QED BY <1>1, <1>2, <1>3, <1>4, SameTable DEF IInv, Counted, Seen, Probing

LEMMA StepKeeps == IInv /\ [Next]_vars => IInv'
<1> SUFFICES ASSUME IInv, [Next]_vars PROVE IInv'
  OBVIOUS
<1>1. CASE Next
  BY <1>1, SizeKeeps, InsertKeeps, AskKeeps, OnKeeps, PlaceKeeps, RestKeeps, LoadKeeps,
     AnswerKeeps DEF Next, Work
<1>2. CASE UNCHANGED vars
  <2>1. /\ UNCHANGED table /\ rank' = rank /\ mismatches' = mismatches /\ pc' = pc
        /\ pair' = pair /\ slot' = slot /\ answer' = answer
    BY <1>2 DEF vars, table
  <2> QED BY <2>1, SameTable DEF IInv, TypeOK, Counted, Seen, Probing, AnswerInRange
<1> QED BY <1>1, <1>2

LEMMA Invariance == Spec => []IInv
BY InitHolds, StepKeeps, PTL DEF Spec

\* The slots, the place of a probe and the loader's state have their types.
THEOREM TableTyped == Spec => []TypeOK
<1>1. IInv => TypeOK
  BY DEF IInv
<1> QED BY <1>1, Invariance, PTL

\* A lookup answers with a slot of its own pair and an id in range.
THEOREM AnswersInRange == Spec => []AnswerInRange
<1>1. IInv => AnswerInRange
  BY DEF IInv
<1> QED BY <1>1, Invariance, PTL

\* A probe never comes round to the slot it began at, whatever the table.
THEOREM ProbesEnd == Spec => NeverRound
<1> DEFINE Ahead == (pc \in {"insert", "probe"} /\ pc' = pc) => slot' # Home(pair, n)
<1>1. IInv /\ [Next]_vars => [Ahead]_vars
  <2> SUFFICES ASSUME IInv, Next PROVE Ahead
    OBVIOUS
  <2>1. CASE InsertOn \/ LookupOn
    BY <2>1, OnKeeps
  <2>2. CASE ~(InsertOn \/ LookupOn)
    BY <2>2 DEF Next, Work, Size, RefuseUnknown, Mismatch, Insert, RefuseDuplicate, Place,
       Write, RefuseMismatches, Load, LookupHit, LookupMiss, Ask, Refuse
  <2> QED BY <2>1, <2>2
<1> QED BY <1>1, Invariance, PTL DEF Spec, NeverRound

----------------------------------------------------------------------------
(* The loader accepts what the converter writes.                           *)

\* The merge being inserted is one of known tokens; what is in the slots is in
\* range, and fits the loader's bound when the table is written.
Written ==
  converted =>
    /\ rc = "ok"
    /\ source \in Sources
    /\ pc \in {"build", "insert", "load"} => InRange
    /\ pc = "insert" => /\ rank + 1 \in 1..Len(source) /\ source[rank + 1].known
                        /\ pair = source[rank + 1].pair
    /\ pc = "load" => Fits

LEMMA BoundsAgree ==
  ASSUME NEW c \in Nat, NEW r \in Nat, NEW m \in Nat, c <= r, 20 * r <= 13 * m
  PROVE  c <= (m * 13) \div 20
<1>1. 20 * c <= m * 13
  OBVIOUS
<1>2. \A x \in Nat : 20 * c <= x => c <= x \div 20
  BY SMT
<1> QED BY <1>1, <1>2

LEMMA WrittenInit == Init => Written
BY DEF Init, Written

LEMMA WrittenStep == IInv /\ Written /\ [Next]_vars => Written'
<1> SUFFICES ASSUME IInv, Written, [Next]_vars, converted' PROVE Written'
  BY DEF Written
<1>1. converted' = converted /\ source' = source
  BY DEF Next, Work, Size, RefuseUnknown, Mismatch, Insert, InsertOn, RefuseDuplicate, Place,
         Write, RefuseMismatches, Load, LookupHit, LookupMiss, LookupOn, Ask, Refuse, table, vars
<1>2. /\ rc = "ok" /\ source \in Sources
      /\ pc \in {"build", "insert", "load"} => InRange
      /\ pc = "insert" => /\ rank + 1 \in 1..Len(source) /\ source[rank + 1].known
                          /\ pair = source[rank + 1].pair
      /\ pc = "load" => Fits
  BY <1>1 DEF Written
<1>3. ASSUME UNCHANGED table PROVE InRange' = InRange /\ Fits' = Fits
  BY <1>3 DEF table, InRange, Fits, Occupied, Slots
<1>4. CASE Size
  <2>1. pc' = "build" /\ rc' = rc /\ n' \in Nat /\ keys' = [s \in 0..(n' - 1) |-> Absent]
    BY <1>4, SizesAssumption DEF Size
  <2>2. Occupied' = {}
    BY <2>1 DEF Occupied, Slots
  <2> QED BY <1>1, <1>2, <2>1, <2>2 DEF Written, InRange
<1>5. CASE Insert
  <2>1. /\ pc = "build" /\ pc' = "insert" /\ UNCHANGED table /\ rank' = rank /\ rc' = rc
        /\ pair' = source[rank + 1].pair /\ source[rank + 1].known /\ rank < Len(source)
    BY <1>5 DEF Insert
  <2>2. rank + 1 \in 1..Len(source)
    BY <2>1 DEF IInv, TypeOK
  <2> QED BY <1>1, <1>2, <1>3, <2>1, <2>2 DEF Written
<1>6. CASE Place
  <2>1. /\ pc = "insert" /\ pc' = "build" /\ rc' = rc /\ n' = n
        /\ keys' = [keys EXCEPT ![slot] = pair]
        /\ values' = [values EXCEPT ![slot] = [rank |-> rank, id |-> source[rank + 1].id]]
    BY <1>6 DEF Place
  <2>2. /\ slot \in Slots /\ keys \in [Slots -> Pair \cup {Absent}]
        /\ values \in [Slots -> Val \cup {Absent}]
    BY <2>1 DEF IInv, TypeOK
  <2>3. /\ source[rank + 1].id \in Known
        /\ \A x \in Id : Member(x, pair) => x \in Known
    <3>1. rank + 1 \in 1..Len(source) /\ source[rank + 1].known /\ pair = source[rank + 1].pair
          /\ source \in Sources
      BY <1>2, <2>1
    <3> DEFINE k == rank + 1
    <3>2. k \in 1..Len(source) /\ source[k].known /\ source \in Sources
      BY <3>1
    <3> HIDE DEF k
    <3>3. source[k].id \in Known /\ \A x \in Id : Member(x, source[k].pair) => x \in Known
      BY <3>2, KnownAssumption, Zenon
    <3> QED BY <3>1, <3>3 DEF k
  <2>4. ASSUME NEW s \in Occupied'
        PROVE  values'[s].id \in Known /\ \A x \in Id : Member(x, keys'[s]) => x \in Known
    <3>1. s \in Slots /\ keys'[s] # Absent
      BY <2>1 DEF Occupied, Slots
    <3>2. CASE s = slot
      <4>1. keys'[s] = pair /\ values'[s].id = source[rank + 1].id
        BY <2>1, <2>2, <3>2
      <4> QED BY <2>3, <4>1
    <3>3. CASE s # slot
      <4>1. keys'[s] = keys[s] /\ values'[s] = values[s]
        BY <2>1, <2>2, <3>1, <3>3
      <4>2. s \in Occupied
        BY <3>1, <4>1 DEF Occupied
      <4> QED BY <1>2, <2>1, <4>1, <4>2 DEF InRange
    <3> QED BY <3>2, <3>3
  <2>5. InRange'
    BY <2>4 DEF InRange
  <2> QED BY <1>1, <1>2, <2>1, <2>5 DEF Written
<1>7. CASE Write
  <2>1. pc = "build" /\ pc' = "load" /\ UNCHANGED table /\ rc' = rc /\ rank = Len(source)
    BY <1>7 DEF Write
  <2>2. /\ IsFiniteSet(Occupied) /\ Cardinality(Occupied) <= rank /\ 20 * Len(source) <= 13 * n
        /\ rank \in Nat /\ n \in Nat
    <3>1. /\ IsFiniteSet(Occupied) /\ Cardinality(Occupied) <= rank
          /\ 20 * Len(source) <= 13 * n
      BY <2>1 DEF IInv, Counted
    <3>2. rank \in Nat /\ n \in Sizes
      BY <2>1 DEF IInv, TypeOK
    <3> QED BY <3>1, <3>2, SizesAssumption
  <2>3. Fits
    BY <2>1, <2>2, FS_CardinalityType, BoundsAgree DEF Fits
  <2> QED BY <1>1, <1>2, <1>3, <2>1, <2>3 DEF Written
<1>8. CASE Load
  <2>1. pc = "load" /\ UNCHANGED table
    BY <1>8 DEF Load
  <2> QED BY <1>1, <1>2, <1>8, <2>1 DEF Load, Written
<1>9. CASE \/ RefuseUnknown \/ Mismatch \/ InsertOn \/ RefuseDuplicate \/ RefuseMismatches
           \/ LookupHit \/ LookupMiss \/ LookupOn \/ Ask \/ UNCHANGED vars
  <2>1. /\ UNCHANGED table /\ rc' = rc
        /\ pc' \in {"build", "insert", "load"} => pc' = pc
        /\ pc' = "insert" => rank' = rank /\ pair' = pair
    BY <1>9 DEF RefuseUnknown, Mismatch, InsertOn, RefuseDuplicate, RefuseMismatches, LookupHit,
       LookupMiss, LookupOn, Ask, Refuse, vars, table
  <2> QED BY <1>1, <1>2, <1>3, <2>1 DEF Written
<1> QED BY <1>4, <1>5, <1>6, <1>7, <1>8, <1>9 DEF Next, Work

\* bp_vocab_open accepts every table the converter writes, for every merge list,
\* every hash and all sizes of tables.
THEOREM ConvertedLoads == Spec => []WrittenIsAccepted
<1>1. Written => WrittenIsAccepted
  BY DEF Written, WrittenIsAccepted
<1> QED BY <1>1, WrittenInit, WrittenStep, InitHolds, StepKeeps, PTL DEF Spec

----------------------------------------------------------------------------
(* The table is a map.                                                     *)

\* While the converter builds, each key is where a probe for it finds it.
Placed == pc \in {"build", "insert"} => \A s \in Occupied : Found(keys[s], s)

\* Of two slots, a probe from h comes to one before the other.
LEMMA OneIsFirst ==
  ASSUME n \in Nat, NEW h \in Slots, NEW s \in Slots, NEW e \in Slots, s # e
  PROVE  s \in Passed(h, e) \/ e \in Passed(h, s)
<1>1. h \in Int /\ s \in Int /\ e \in Int /\ 0 <= h /\ h < n /\ 0 <= s /\ s < n /\ 0 <= e /\ e < n
  BY DEF Slots
<1> QED BY <1>1 DEF Passed

\* A probe for p ends at one slot only.
LEMMA FoundOnce ==
  ASSUME n \in Sizes, NEW p \in Pair, NEW s, NEW e, Found(p, s), Found(p, e)
  PROVE  s = e
<1>1. n \in Nat /\ Home(p, n) \in Slots /\ s \in Slots /\ e \in Slots
  BY SizesAssumption, ProbeBegins DEF Found
<1>2. s \notin Passed(Home(p, n), e) /\ e \notin Passed(Home(p, n), s)
  BY DEF Found
<1> QED BY <1>1, <1>2, OneIsFirst

\* What the table holds for a pair is the value of the slot its probe ends at.
LEMMA ValueAt ==
  ASSUME TypeOK, pc # "size", NEW p \in Pair, NEW s, Found(p, s)
  PROVE  p \in DOMAIN Contents /\ Contents[p] = values[s]
<1>1. n \in Sizes /\ s \in Slots
  BY DEF TypeOK, Found
<1>2. (CHOOSE e \in Slots : Found(p, e)) = s
  BY <1>1, FoundOnce
<1>3. p \in Held
  BY <1>1 DEF Held
<1> QED BY <1>2, <1>3 DEF Contents

\* The same as a formula, which holds before and after a step.
ValuesFound ==
  TypeOK /\ pc # "size" =>
    \A p \in Pair : \A s : Found(p, s) => p \in DOMAIN Contents /\ Contents[p] = values[s]

LEMMA ValuesAt == ValuesFound
BY ValueAt DEF ValuesFound

\* All it holds are pairs, with values.
ContentsInVal ==
  TypeOK => DOMAIN Contents \subseteq Pair /\ \A p \in DOMAIN Contents : Contents[p] \in Val

LEMMA ContentsTyped == ContentsInVal
<1> SUFFICES ASSUME TypeOK
             PROVE  DOMAIN Contents \subseteq Pair /\ \A p \in DOMAIN Contents : Contents[p] \in Val
  BY DEF ContentsInVal
<1>1. DOMAIN Contents = Held /\ Held \subseteq Pair
  BY DEF Contents, Held
<1>2. ASSUME NEW p \in Held PROVE Contents[p] \in Val
  <2>1. pc # "size" /\ p \in Pair
    BY DEF Held
  <2>2. PICK s \in Slots : Found(p, s)
    BY <2>1 DEF Held
  <2>3. values[s] \in Val
    BY <2>1, <2>2, AbsentAssumption DEF TypeOK, Found
  <2> QED BY <2>1, <2>2, <2>3, ValueAt
<1> QED BY <1>1, <1>2

\* Where a probe ends at a free slot, the table does not hold the pair.
LEMMA NotHeld ==
  ASSUME IInv, Probing, keys[slot] = Absent
  PROVE  pair \notin DOMAIN Contents
<1>1. SUFFICES ASSUME pair \in Held PROVE FALSE
  BY DEF Contents
<1>2. pc # "size" /\ slot \in Slots /\ pair \in Pair /\ n \in Sizes /\ n \in Nat
  BY SizesAssumption DEF Probing, IInv, TypeOK
<1>3. PICK e \in Slots : Found(pair, e)
  BY <1>1, <1>2 DEF Held
<1>4. keys[e] = pair /\ slot \notin Passed(Home(pair, n), e)
  BY <1>2, <1>3 DEF Found
<1>5. e \notin Passed(Home(pair, n), slot)
  BY <1>4 DEF IInv, Seen
<1>6. e # slot /\ Home(pair, n) \in Slots
  BY <1>2, <1>4, AbsentAssumption, ProbeBegins
<1> QED BY <1>2, <1>4, <1>5, <1>6, OneIsFirst

\* Placing a pair leaves the slots others are found at, and lets no other be
\* found that was not.
LEMMA PlaceFinds ==
  ASSUME IInv, Placed, Place
  PROVE  /\ pair \in Pair /\ n' = n /\ Slots' = Slots
         /\ Found(pair, slot)'
         /\ \A p \in Pair \ {pair} : \A s : Found(p, s)' <=> Found(p, s)
<1>1. /\ pc = "insert" /\ keys[slot] = Absent /\ keys' = [keys EXCEPT ![slot] = pair]
      /\ n' = n /\ Slots' = Slots /\ slot \in Slots /\ pair \in Pair
      /\ keys \in [Slots -> Pair \cup {Absent}] /\ n \in Sizes /\ n \in Nat
  BY SizesAssumption DEF Place, IInv, TypeOK, Slots
<1>2. \A h, s : Passed(h, s)' = Passed(h, s)
  BY <1>1 DEF Passed
<1>3. \A p \in Pair, s \in Slots : Passed(Home(p, n), s) \subseteq Slots
  <2> SUFFICES ASSUME NEW p \in Pair, NEW s \in Slots PROVE Passed(Home(p, n), s) \subseteq Slots
    OBVIOUS
  <2>1. Home(p, n) \in Slots
    BY <1>1, ProbeBegins
  <2> QED BY <1>1, <2>1 DEF Passed, Slots
<1>4. Found(pair, slot)'
  <2>1. \A q \in Passed(Home(pair, n), slot) : keys[q] \notin {Absent, pair}
    BY <1>1 DEF IInv, Seen, Probing
  <2>2. slot \notin Passed(Home(pair, n), slot)
    BY <1>1, <2>1
  <2>3. \A q \in Passed(Home(pair, n), slot) : keys'[q] = keys[q]
    BY <1>1, <1>3, <2>2
  <2> QED BY <1>1, <1>2, <2>1, <2>3 DEF Found, Place
<1>5. ASSUME NEW p \in Pair \ {pair}, NEW s, Found(p, s) PROVE Found(p, s)'
  <2>1. s \in Slots /\ keys[s] = p /\ \A q \in Passed(Home(p, n), s) : keys[q] \notin {Absent, p}
    BY <1>5 DEF Found
  <2>2. s # slot /\ slot \notin Passed(Home(p, n), s)
    BY <1>1, <2>1, AbsentAssumption
  <2>3. \A q \in Passed(Home(p, n), s) \cup {s} : keys'[q] = keys[q]
    BY <1>1, <1>3, <2>1, <2>2
  <2> QED BY <1>1, <1>2, <2>1, <2>3 DEF Found
<1>6. ASSUME NEW p \in Pair \ {pair}, NEW s, Found(p, s)' PROVE Found(p, s)
  <2>1. s \in Slots /\ keys'[s] = p
    BY <1>1, <1>6 DEF Found
  <2>2. s # slot /\ keys[s] = p
    BY <1>1, <2>1
  <2>3. s \in Occupied
    BY <2>1, <2>2, AbsentAssumption DEF Occupied
  <2> QED BY <1>1, <2>2, <2>3 DEF Placed
<1> QED BY <1>1, <1>4, <1>5, <1>6

LEMMA PlacedStep ==
  ASSUME IInv, IInv', Placed, [Next]_vars
  PROVE  Placed'
<1>1. CASE Size
  <2>1. Occupied' = {}
    BY <1>1 DEF Size, Occupied, Slots
  <2> QED BY <2>1 DEF Placed
<1>2. CASE Place
  <2>1. /\ keys' = [keys EXCEPT ![slot] = pair] /\ pc = "insert" /\ slot \in Slots
        /\ keys \in [Slots -> Pair \cup {Absent}] /\ Slots' = Slots /\ pair \in Pair
    BY <1>2 DEF Place, IInv, TypeOK, Slots
  <2>2. ASSUME NEW s \in Occupied' PROVE Found(keys[s], s)'
    <3>1. CASE s = slot
      <4>1. Found(pair, slot)' /\ slot' = slot /\ pair' = pair
        BY <1>2, PlaceFinds DEF Place
      <4> QED BY <2>1, <3>1, <4>1 DEF Found
    <3>2. CASE s # slot
      <4>1. s \in Slots /\ keys'[s] = keys[s] /\ s \in Occupied /\ keys[s] \in Pair
        BY <2>1, <2>2, <3>2 DEF Occupied
      <4>2. Found(keys[s], s)
        BY <2>1, <4>1 DEF Placed
      <4>3. keys[s] # pair
        <5>1. SUFFICES ASSUME keys[s] = pair PROVE FALSE
          OBVIOUS
        <5>2. TypeOK /\ pc # "size" /\ pair \in DOMAIN Contents
          BY <2>1, <4>1, <4>2, <5>1, ValueAt DEF IInv
        <5> QED BY <1>2, <2>1, <5>2, NotHeld DEF Place, Probing
      <4>4. \A p \in Pair \ {pair} : Found(p, s) => Found(p, s)'
        BY <1>2, PlaceFinds
      <4> DEFINE k == keys[s]
      <4>5. Found(k, s)'
        <5>1. \A p \in Pair \ {pair} : p = keys[s] => Found(p, s)'
          BY <4>2, <4>4
        <5>2. keys'[s] \in Pair \ {pair} /\ keys'[s] = keys[s]
          BY <4>1, <4>3
        <5> QED BY <5>1, <5>2 DEF Found
      <4> QED BY <4>5
    <3> QED BY <3>1, <3>2
  <2> QED BY <2>2 DEF Placed
<1>3. CASE ~Size /\ ~Place
  <2>1. UNCHANGED table /\ (pc' \in {"build", "insert"} => pc \in {"build", "insert"})
    BY <1>3 DEF Next, Work, RefuseUnknown, Mismatch, Insert, InsertOn, RefuseDuplicate,
       Write, RefuseMismatches, Load, LookupHit, LookupMiss, LookupOn, Ask, Refuse, vars, table
  <2> QED BY <2>1, SameTable DEF Placed, Found
<1> QED BY <1>1, <1>2, <1>3

\* Placing a pair adds it to the map, which did not hold it.
LEMMA PlaceAdds ==
  ASSUME IInv, IInv', Placed, Place
  PROVE  Map!Add(pair)
<1>1. /\ pc = "insert" /\ pc' = "build" /\ keys[slot] = Absent
      /\ answer' = answer /\ slot \in Slots /\ pair \in Pair
      /\ values \in [Slots -> Val \cup {Absent}]
      /\ values' = [values EXCEPT ![slot] = [rank |-> rank, id |-> source[rank + 1].id]]
  BY DEF Place, IInv, TypeOK
<1>2. /\ Found(pair, slot)' /\ Slots' = Slots
      /\ \A p \in Pair \ {pair} : \A s : Found(p, s)' <=> Found(p, s)
  BY PlaceFinds
<1>3. pair \notin DOMAIN Contents
  BY <1>1, NotHeld DEF Probing
<1>4. DOMAIN Contents' = DOMAIN Contents \cup {pair}
  <2>1. DOMAIN Contents' = {p \in Pair : \E s \in Slots : Found(p, s)'}
    BY <1>1, <1>2 DEF Contents, Held
  <2>2. DOMAIN Contents = {p \in Pair : \E s \in Slots : Found(p, s)}
    BY <1>1 DEF Contents, Held
  <2>3. \A p \in Pair \ {pair} : (\E s \in Slots : Found(p, s)') <=> (\E s \in Slots : Found(p, s))
    BY <1>2
  <2>4. slot' = slot /\ pair' = pair
    BY DEF Place
  <2>5. ASSUME NEW p \in Pair PROVE p \in DOMAIN Contents' <=> p \in DOMAIN Contents \/ p = pair
    <3>1. CASE p = pair
      <4>1. \E s \in Slots : Found(p, s)'
        BY <1>1, <1>2, <2>4, <3>1 DEF Found
      <4> QED BY <2>1, <3>1, <4>1
    <3>2. CASE p # pair
      BY <2>1, <2>2, <2>3, <3>2
    <3> QED BY <3>1, <3>2
  <2>6. DOMAIN Contents' \subseteq Pair /\ DOMAIN Contents \subseteq Pair
    BY <2>1, <2>2
  <2> QED BY <1>1, <2>5, <2>6
<1>5. ValuesFound /\ ValuesFound'
  BY ValuesAt, PTL
<1>6. Contents'[pair] \in Val
  <2>1. ContentsInVal'
    BY ContentsTyped, PTL
  <2> QED BY <1>4, <2>1 DEF ContentsInVal, IInv
<1>7. ASSUME NEW p \in DOMAIN Contents PROVE Contents'[p] = Contents[p]
  <2>1. p \in Pair \ {pair} /\ \E s \in Slots : Found(p, s)
    BY <1>1, <1>3 DEF Contents, Held
  <2>2. PICK s \in Slots : Found(p, s)
    BY <2>1
  <2>3. s # slot
    BY <1>1, <2>1, <2>2, AbsentAssumption DEF Found
  <2>4. Found(p, s)' /\ values'[s] = values[s]
    BY <1>1, <1>2, <2>1, <2>2, <2>3
  <2>5. Contents[p] = values[s] /\ Contents'[p] = values'[s]
    BY <1>1, <1>5, <2>1, <2>2, <2>4 DEF ValuesFound, IInv
  <2> QED BY <2>4, <2>5
<1> QED BY <1>1, <1>3, <1>4, <1>6, <1>7 DEF Map!Add

LEMMA SameContents ==
  ASSUME UNCHANGED table, pc' = "size" <=> pc = "size"
  PROVE  Contents' = Contents
BY DEF table, Contents, Held, Found, Passed, Slots

LEMMA StepMaps ==
  ASSUME IInv, IInv', Placed, [Next]_vars
  PROVE  [Map!Next]_(Map!vars)
<1>1. CASE Place
  <2>1. pair \in Pair
    BY <1>1 DEF Place, IInv, TypeOK
  <2> QED BY <1>1, <2>1, PlaceAdds DEF Map!Next
<1>2. CASE Ask
  <2>1. Contents' = Contents
    BY <1>2, SameContents DEF Ask
  <2>2. pair' \in Pair /\ pc = "ready" /\ pc' = "probe" /\ answer' = answer
    BY <1>2 DEF Ask
  <2>3. Map!Ask(pair')
    BY <2>1, <2>2 DEF Map!Ask
  <2> QED BY <2>2, <2>3 DEF Map!Next
<1>3. CASE LookupHit \/ LookupMiss
  <2>1. /\ pc = "probe" /\ pc' = "ready" /\ UNCHANGED table
        /\ slot \in Slots /\ pair \in Pair
    BY <1>3 DEF LookupHit, LookupMiss, IInv, TypeOK
  <2>2. Contents' = Contents /\ pair # Absent
    BY <2>1, SameContents, AbsentAssumption
  <2>3. answer' = IF pair \in DOMAIN Contents THEN Contents[pair] ELSE Absent
    <3>1. CASE LookupHit
      <4>1. answer' = values[slot] /\ Found(pair, slot)
        BY <2>1, <3>1 DEF LookupHit, Found, IInv, Seen, Probing
      <4> QED BY <2>1, <4>1, ValueAt DEF IInv
    <3>2. CASE LookupMiss
      BY <2>1, <3>2, NotHeld DEF LookupMiss, Probing
    <3> QED BY <1>3, <3>1, <3>2
  <2>4. Map!Reply
    BY <2>1, <2>2, <2>3 DEF Map!Reply
  <2> QED BY <2>4 DEF Map!Next
<1>4. CASE Size
  <2>1. /\ pc = "size" /\ pc' = "build" /\ answer' = answer
        /\ \A s \in Slots' : keys'[s] = Absent
    BY <1>4 DEF Size, Slots
  <2>2. Held = {} /\ Held' = {}
    BY <2>1, AbsentAssumption DEF Held, Found
  <2>3. Contents' = Contents
    BY <2>2 DEF Contents
  <2> QED BY <2>1, <2>3 DEF Map!vars
<1>5. CASE ~(Place \/ Ask \/ LookupHit \/ LookupMiss \/ Size)
  <2>1. /\ UNCHANGED table /\ answer' = answer
        /\ pc' = "probe" <=> pc = "probe"
        /\ pc' = "size" <=> pc = "size"
        /\ pc = "probe" => pair' = pair
    BY <1>5 DEF Next, Work, RefuseUnknown, Mismatch, Insert, InsertOn, RefuseDuplicate,
       Write, RefuseMismatches, Load, LookupOn, Refuse, vars, table
  <2>2. Contents' = Contents
    BY <2>1, SameContents
  <2> QED BY <2>1, <2>2 DEF Map!vars
<1> QED BY <1>1, <1>2, <1>3, <1>4, <1>5

\* For every hash, every merge list and every table a file may hold, the table
\* bp_pair_lookup reads is a map, to which build_pair_table adds one pair at a time.
THEOREM TableIsMap == Spec => IsMap
<1>1. Init => Placed
  BY DEF Init, Placed
<1>2. Init /\ IInv => Map!Init
  <2> SUFFICES ASSUME Init, IInv PROVE Map!Init
    OBVIOUS
  <2>1. pc \in {"size", "load"} /\ answer = Absent
    BY DEF Init
  <2> QED BY <2>1, ContentsTyped DEF ContentsInVal, Map!Init, IInv
<1>3. IInv /\ IInv' /\ Placed /\ [Next]_vars => Placed'
  BY PlacedStep
<1>4. IInv /\ IInv' /\ Placed /\ [Next]_vars => [Map!Next]_(Map!vars)
  BY StepMaps
<1> QED BY <1>1, <1>2, <1>3, <1>4, Invariance, PTL DEF Spec, IsMap, Map!Spec
=============================================================================
