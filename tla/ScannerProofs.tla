---------------------------- MODULE ScannerProofs ----------------------------
(***************************************************************************)
(* For every text, class table and block size, with the kernels or without *)
(* them: the scanner's positions stay in the text, the spans it hands over *)
(* partition the text into pieces that are not empty, and each of them is  *)
(* the first match of the split regex under a backtracking engine.         *)
(*                                                                         *)
(* An empty span would be an endless loop; the give-back of trailing       *)
(* whitespace is where one could arise, and Walked says why it does not.   *)
(* For the matches, a pattern is reasoned about by its first end only:     *)
(* Takes(p, k, e) when the engine, started at k, ends at e, Fails(p, k)    *)
(* when it finds no match.  In a loop the scanner has not found the end    *)
(* yet: Matching says that the match is where the loop will lead it.       *)
(***************************************************************************)
EXTENDS SplitRegex, DataProofs

----------------------------------------------------------------------------
(* Characters, told from their bytes.                                      *)

\* A byte by its value, not as a member of a set.
LEMMA Bytes ==
  ASSUME t \in Seq(Byte)
  PROVE  /\ Len(t) \in Nat
         /\ \A k \in 1..Len(t) : t[k] \in Nat /\ t[k] <= 255
<1>1. \A x \in Byte : x \in Nat /\ x <= 255
  BY DEF Byte
<1>2. \A k \in 1..Len(t) : t[k] \in Byte
  OBVIOUS
<1> QED BY <1>1, <1>2

\* An ASCII byte is a character, whose class the table gives by its value.
LEMMA AsciiIs ==
  ASSUME t \in Seq(Byte), NEW k \in 1..Len(t), t[k] < 128
  PROVE  /\ Cp(k) = t[k] /\ After(k) = k + 1 /\ ClassAt(k) = Class(t[k])
         /\ t[k] \in 0..127 /\ t[k] \in Nat
<1>1. t[k] \in Nat
  BY Bytes
<1>2. Decode(t, k) = [cp |-> t[k], adv |-> 1]
  BY SMT DEF Decode
<1>3. Decode(t, k).cp = t[k] /\ Decode(t, k).adv = 1
  BY <1>2
<1>4. t[k] # NoCp
  BY <1>1 DEF NoCp
<1>5. Cp(k) = t[k] /\ After(k) = k + 1
  BY <1>3 DEF Cp, After
<1>6. ClassAt(k) = Class(t[k])
  BY <1>3, <1>4, Zenon DEF ClassAt
<1>7. t[k] \in 0..127
  <2> DEFINE b == t[k]
  <2>1. b \in Nat /\ b < 128
    BY <1>1
  <2> HIDE DEF b
  <2>2. 0 <= b /\ b <= 127
    BY <2>1
  <2>3. b \in 0..127
    BY <2>1, <2>2
  <2> QED BY <2>3 DEF b
<1> QED BY <1>1, <1>5, <1>6, <1>7, Zenon

\* The forms of a character of more than one byte.
LEMMA LongForms ==
  ASSUME NEW k, ~(t[k] < 128)
  PROVE  \/ Decode(t, k).cp = NoCp /\ Decode(t, k).adv = 1
         \/ IsTwo(t, k) /\ Decode(t, k).cp = Two(t, k) /\ Decode(t, k).adv = 2
         \/ IsThree(t, k) /\ Decode(t, k).cp = Three(t, k) /\ Decode(t, k).adv = 3
         \/ IsFour(t, k) /\ Decode(t, k).cp = Four(t, k) /\ Decode(t, k).adv = 4
  BY SMT DEF Decode

\* The payloads are small, and the first byte of two bytes is told by its own.
LEMMA Payload ==
  /\ \A b \in Nat : b % 16 \in Nat /\ b % 16 <= 15 /\ b % 8 \in Nat
  /\ \A b \in Nat : b >= 194 /\ b <= 223 => b % 32 \in Nat /\ b % 32 = b - 192
<1>2. \A b \in Nat : b % 16 \in Nat /\ b % 16 <= 15 /\ b % 8 \in Nat
  OBVIOUS
<1>3. \A b \in Nat : b >= 194 /\ b <= 223 => b % 32 \in Nat /\ b % 32 = b - 192
  OBVIOUS
<1> QED BY <1>2, <1>3

LEMMA SixBits ==
  ASSUME NEW x \in Nat
  PROVE  Low6(x) \in Nat /\ Low6(x) <= 63 /\ (Continuation(x) => Low6(x) = x - 128)
  BY SMT DEF Low6, Continuation

\* Two well-formed bytes decode to 0x80..0x7FF, and U+017F is one pair of them.
LEMMA TwoIs ==
  ASSUME t \in Seq(Byte), NEW k \in 1..Len(t), IsTwo(t, k)
  PROVE  /\ k + 1 \in 1..Len(t) /\ Two(t, k) \in Nat
         /\ Two(t, k) >= 128 /\ Two(t, k) <= 2047
         /\ Two(t, k) = 383 <=> t[k] = 197 /\ t[k + 1] = 191
<1> DEFINE a == t[k]
           b == t[k + 1]
<1>1. k + 1 \in 1..Len(t) /\ Continuation(b)
  <2>1. Tailed(t, k, 2)
    BY Zenon DEF IsTwo
  <2>2. k + 2 - 1 <= Len(t) /\ Continuation(t[k + 1])
    BY <2>1 DEF Tailed
  <2>3. Len(t) \in Nat
    BY Bytes
  <2> QED BY <2>2, <2>3
<1>2. a \in Nat /\ b \in Nat
  BY <1>1, Bytes
<1>3. a >= 194 /\ a <= 223
  <2>1. \A x \in 194..223 : x >= 194 /\ x <= 223
    OBVIOUS
  <2> QED BY <2>1, Zenon DEF IsTwo
<1>4. Two(t, k) = (a % 32) * 64 + Low6(b)
  BY Zenon DEF Two
<1> HIDE DEF a, b
<1>5. a % 32 = a - 192 /\ Low6(b) = b - 128 /\ Low6(b) \in Nat /\ Low6(b) <= 63
  <2>1. a % 32 = a - 192
    BY <1>2, <1>3, Payload, Zenon
  <2>2. Low6(b) = b - 128 /\ Low6(b) \in Nat /\ Low6(b) <= 63
    BY <1>1, <1>2, SixBits
  <2> QED BY <2>1, <2>2
<1>6. Two(t, k) = (a - 192) * 64 + (b - 128) /\ b - 128 \in Nat /\ b - 128 <= 63
  BY <1>4, <1>5
<1>7. /\ Two(t, k) \in Nat /\ Two(t, k) >= 128 /\ Two(t, k) <= 2047
      /\ Two(t, k) = 383 <=> a = 197 /\ b = 191
  BY <1>2, <1>3, <1>6
<1> QED BY <1>1, <1>7 DEF a, b

\* Three well-formed bytes never decode to a character of one or two.
LEMMA ThreeIs ==
  ASSUME t \in Seq(Byte), NEW k \in 1..Len(t), IsThree(t, k)
  PROVE  Three(t, k) \in Nat /\ Three(t, k) >= 2048 /\ Three(t, k) <= MaxCodepoint
<1> DEFINE a == t[k] % 16
           b == Low6(t[k + 1])
           c == Low6(t[k + 2])
<1>1. k + 1 \in 1..Len(t) /\ k + 2 \in 1..Len(t)
  <2>1. Tailed(t, k, 3)
    BY SMT DEF IsThree
  <2>2. k + 3 - 1 <= Len(t)
    BY <2>1 DEF Tailed
  <2>3. Len(t) \in Nat
    BY Bytes
  <2> QED BY <2>2, <2>3
<1>2. /\ a \in Nat /\ a <= 15
      /\ b \in Nat /\ b <= 63 /\ c \in Nat /\ c <= 63
  <2>1. t[k] \in Nat /\ t[k + 1] \in Nat /\ t[k + 2] \in Nat
    BY <1>1, Bytes
  <2>2. a \in Nat /\ a <= 15
    BY <2>1, Payload, Zenon
  <2>3. b \in Nat /\ b <= 63 /\ c \in Nat /\ c <= 63
    BY <2>1, SixBits
  <2> QED BY <2>2, <2>3
<1>3. Three(t, k) = a * 4096 + b * 64 + c
  BY Zenon DEF Three
<1>4. Three(t, k) >= 2048
  BY DEF IsThree
<1> HIDE DEF a, b, c
<1>5. Three(t, k) \in Nat /\ Three(t, k) <= 65535
  BY <1>2, <1>3
<1>6. 65535 <= MaxCodepoint /\ MaxCodepoint \in Nat
  BY SMT DEF MaxCodepoint
<1> QED BY <1>4, <1>5, <1>6

\* Nor do four.
LEMMA FourIs ==
  ASSUME t \in Seq(Byte), NEW k \in 1..Len(t), IsFour(t, k)
  PROVE  Four(t, k) \in Nat /\ Four(t, k) >= 2048 /\ Four(t, k) <= MaxCodepoint
<1> DEFINE a == t[k] % 8
           b == Low6(t[k + 1])
           c == Low6(t[k + 2])
           d == Low6(t[k + 3])
<1>1. k + 1 \in 1..Len(t) /\ k + 2 \in 1..Len(t) /\ k + 3 \in 1..Len(t)
  <2>1. Tailed(t, k, 4)
    BY SMT DEF IsFour
  <2>2. k + 4 - 1 <= Len(t)
    BY <2>1 DEF Tailed
  <2>3. Len(t) \in Nat
    BY Bytes
  <2> QED BY <2>2, <2>3
<1>2. a \in Nat /\ b \in Nat /\ c \in Nat /\ d \in Nat
  <2>1. t[k] \in Nat /\ t[k + 1] \in Nat /\ t[k + 2] \in Nat /\ t[k + 3] \in Nat
    BY <1>1, Bytes
  <2>2. a \in Nat
    BY <2>1, Payload, Zenon
  <2>3. b \in Nat /\ c \in Nat /\ d \in Nat
    BY <2>1, SixBits
  <2> QED BY <2>2, <2>3
<1>3. Four(t, k) = a * 262144 + b * 4096 + c * 64 + d
  BY SMT DEF Four
<1>4. Four(t, k) >= 65536 /\ Four(t, k) <= MaxCodepoint
  BY SMT DEF IsFour
<1> HIDE DEF a, b, c, d
<1>5. Four(t, k) \in Nat
  BY <1>2, <1>3, SMT
<1> QED BY <1>4, <1>5, SMT

\* A character of more than one byte is none of ASCII, and the one that folds to an
\* s is two bytes.
LEMMA LongIs ==
  ASSUME t \in Seq(Byte), NEW k \in 1..Len(t), ~(t[k] < 128)
  PROVE  /\ Cp(k) = NoCp \/ (Cp(k) \in Codepoint /\ Cp(k) >= 128)
         /\ Cp(k) = 383 => k + 1 \in 1..Len(t) /\ t[k] = 197 /\ t[k + 1] = 191 /\ After(k) = k + 2
<1>1. MaxCodepoint \in Nat /\ MaxCodepoint >= 2047 /\ NoCp # 383
  BY SMT DEF MaxCodepoint, NoCp
<1>2. \A x \in Nat : x <= MaxCodepoint => x \in Codepoint
  BY <1>1 DEF Codepoint
<1>3. CASE Decode(t, k).cp = NoCp
  BY <1>1, <1>3 DEF Cp
<1>4. CASE IsTwo(t, k) /\ Decode(t, k).cp = Two(t, k) /\ Decode(t, k).adv = 2
  <2>1. /\ k + 1 \in 1..Len(t) /\ Two(t, k) \in Nat
        /\ Two(t, k) >= 128 /\ Two(t, k) <= 2047
        /\ Two(t, k) = 383 <=> t[k] = 197 /\ t[k + 1] = 191
    BY <1>4, TwoIs
  <2>2. Two(t, k) <= MaxCodepoint
    BY <1>1, <2>1
  <2> QED BY <1>2, <1>4, <2>1, <2>2 DEF Cp, After
<1>5. CASE IsThree(t, k) /\ Decode(t, k).cp = Three(t, k)
  <2>1. Three(t, k) \in Nat /\ Three(t, k) >= 2048 /\ Three(t, k) <= MaxCodepoint
    BY <1>5, ThreeIs
  <2> QED BY <1>2, <1>5, <2>1 DEF Cp
<1>6. CASE IsFour(t, k) /\ Decode(t, k).cp = Four(t, k)
  <2>1. Four(t, k) \in Nat /\ Four(t, k) >= 2048 /\ Four(t, k) <= MaxCodepoint
    BY <1>6, FourIs
  <2> QED BY <1>2, <1>6, <2>1 DEF Cp
<1> QED BY <1>3, <1>4, <1>5, <1>6, LongForms

\* U+017F where its two bytes are.
LEMMA LongSIs ==
  ASSUME t \in Seq(Byte), NEW k \in 1..Len(t), k + 1 \in 1..Len(t), t[k] = 197, t[k + 1] = 191
  PROVE  Cp(k) = 383 /\ After(k) = k + 2
<1>1. IsTwo(t, k)
  <2>1. 197 \in 194..223
    OBVIOUS
  <2>2. Continuation(191)
    BY DEF Continuation
  <2>3. k + 2 - 1 <= Len(t) /\ Len(t) \in Nat
    BY Bytes
  <2>4. \A d \in 1..(2 - 1) : d = 1
    OBVIOUS
  <2>5. \A d \in 1..(2 - 1) : Continuation(t[k + d])
    BY <2>2, <2>4
  <2>6. Tailed(t, k, 2)
    BY <2>3, <2>5 DEF Tailed
  <2> QED BY <2>1, <2>6 DEF IsTwo
<1>2. Two(t, k) = 383
  BY <1>1, TwoIs
<1>3. Decode(t, k) = [cp |-> Two(t, k), adv |-> 2]
  BY <1>1 DEF Decode
<1> QED BY <1>2, <1>3 DEF Cp, After

\* Only CR and LF have the class of newlines, and they are space.
LEMMA NewlineIs ==
  ASSUME t \in Seq(Byte), NEW k \in 1..Len(t)
  PROVE  /\ "NL" \in ClassAt(k) <=> k \in NewlineAt
         /\ k \in NewlineAt <=> t[k] \in Newlines
         /\ k \in NewlineAt => After(k) = k + 1 /\ "S" \in ClassAt(k)
<1>1. CASE t[k] < 128
  <2>1. ClassAt(k) = Class(t[k]) /\ t[k] \in Nat /\ t[k] \in 0..127 /\ Cp(k) = t[k] /\ After(k) = k + 1
    BY <1>1, AsciiIs
  <2>2. t[k] \in Codepoint
    <3>1. MaxCodepoint \in Nat /\ MaxCodepoint >= 127
      BY SMT DEF MaxCodepoint
    <3>2. \A x \in 0..127 : x \in Codepoint
      BY <3>1 DEF Codepoint
    <3> QED BY <2>1, <3>2
  <2>3. t[k] \in Newlines => t[k] \in 9..13
    BY DEF Newlines
  <2>4. "NL" \in Class(t[k]) <=> t[k] \in Newlines
    BY <2>2, ClassAssumption
  <2>5. t[k] \in Newlines => "S" \in Class(t[k])
    BY <2>1, <2>3, ClassAssumption
  <2>6. k \in NewlineAt <=> t[k] \in Newlines
    BY <2>1 DEF NewlineAt, Place
  <2> QED BY <2>1, <2>4, <2>5, <2>6
<1>2. CASE ~(t[k] < 128)
  <2>1. Cp(k) = NoCp \/ (Cp(k) \in Codepoint /\ Cp(k) >= 128)
    BY <1>2, LongIs
  <2>2. Cp(k) \notin Newlines /\ t[k] \notin Newlines
    BY <1>2, <2>1 DEF Newlines, NoCp
  <2>3. ClassAt(k) = IF Cp(k) = NoCp THEN {} ELSE Class(Cp(k))
    BY Zenon DEF ClassAt, Cp
  <2> QED BY <2>1, <2>2, <2>3, ClassAssumption DEF NewlineAt
<1> QED BY <1>1, <1>2

\* bp_utf8_next consumes at least one byte, and none past the end.
LEMMA DecodeAdvances ==
  ASSUME t \in Seq(Byte), NEW k \in 1..Len(t)
  PROVE  /\ Decode(t, k).adv \in 1..4
         /\ k + Decode(t, k).adv <= Len(t) + 1
         /\ After(k) \in (k + 1)..(Len(t) + 1)
<1>1. k \in Nat /\ Len(t) \in Nat /\ k <= Len(t)
  OBVIOUS
<1>2. \/ Decode(t, k).adv = 1
      \/ Decode(t, k).adv = 2 /\ Tailed(t, k, 2)
      \/ Decode(t, k).adv = 3 /\ Tailed(t, k, 3)
      \/ Decode(t, k).adv = 4 /\ Tailed(t, k, 4)
  BY SMT DEF Decode, IsTwo, IsThree, IsFour
<1>3. Decode(t, k).adv \in 1..4 /\ k + Decode(t, k).adv <= Len(t) + 1
  BY <1>1, <1>2 DEF Tailed
<1> QED BY <1>1, <1>3 DEF After

----------------------------------------------------------------------------
(* The positions of the scanner, and the partition.                         *)

\* Every loop but the whitespace walk is entered past the span's first character.
Advanced ==
  pc \in {"letters", "letter_kernel", "symbols", "symbol_kernel", "newlines", "emit"} => i < j

\* The walk over whitespace is entered at a whitespace character, and its three
\* marks are in the span: the second character starts after the first.
Walked ==
  pc = "spaces" =>
    /\ i <= j /\ i <= Len(t) /\ ncp <= j - i
    /\ j = i => MoreSpace
    /\ j > i => ncp >= 1
    /\ ncp >= 2 => last > i /\ last < j
    /\ ncp = 1 => last < j
    /\ cut # 0 => i < cut /\ cut <= j

IInv ==
  /\ TypeOK
  /\ t \in Seq(Byte) /\ spans \in Seq(Nat \X Nat)
  /\ Advanced /\ Walked /\ Partition

\* A contraction found is in the text.
LEMMA ContractionFits ==
  ASSUME t \in Seq(Byte), i \in 1..Len(t)
  PROVE  ContractionLen \in {0, 2, 3} /\ i + ContractionLen <= Len(t) + 1
<1>1. Len(t) \in Nat
  OBVIOUS
<1>2. \/ ContractionLen = 0
      \/ ContractionLen = 2 /\ Within(i + 1)
      \/ ContractionLen = 3 /\ Within(i + 2)
  BY DEF ContractionLen, Letter
<1> QED BY <1>1, <1>2 DEF Within

LEMMA InitHolds == Init => IInv
<1> SUFFICES ASSUME Init PROVE IInv
  OBVIOUS
<1>1. t \in Seq(Byte) /\ Len(t) \in Nat
  BY TextsAssumption DEF Init
<1>2. TypeOK /\ spans \in Seq(Nat \X Nat)
  BY <1>1 DEF Init, TypeOK
<1>3. Advanced /\ Walked /\ Partition
  BY <1>1 DEF Init, Advanced, Walked, Partition
<1> QED BY <1>1, <1>2, <1>3 DEF IInv

\* A step that only moves the scanner on, past the span's first character.
Move ==
  /\ UNCHANGED <<t, simd, i, spans, rc>>
  /\ pc' \in {"letters", "letter_kernel", "symbols", "symbol_kernel", "newlines", "emit"}
  /\ j' \in (i + 1)..(Len(t) + 1)
  /\ cut' \in 0..(Len(t) + 1) /\ last' \in 0..Len(t) /\ ncp' \in 0..Len(t)

\* A branch of the dispatch, and a loop that stops, only move j within the text.
LEMMA MoveKeeps == IInv /\ Move => IInv'
<1> SUFFICES ASSUME IInv, Move PROVE IInv'
  OBVIOUS
<1>1. Len(t) \in Nat /\ i \in 1..(Len(t) + 1)
  BY DEF IInv, TypeOK
<1>2. TypeOK'
  BY <1>1 DEF Move, IInv, TypeOK
<1>3. Advanced'
  BY <1>1 DEF Move, Advanced
<1>5. Walked'
  BY DEF Move, Walked
<1>4. Partition'
  BY DEF Move, IInv, Partition
<1> QED BY <1>2, <1>3, <1>4, <1>5 DEF Move, IInv

\* The dispatch looks one character ahead, and never past the text.
LEMMA TopKeeps == IInv /\ Top => IInv'
<1> SUFFICES ASSUME IInv, Top PROVE IInv'
  OBVIOUS
<1>1. /\ t \in Seq(Byte) /\ Len(t) \in Nat /\ i \in 1..Len(t)
      /\ cut \in 0..(Len(t) + 1) /\ last \in 0..Len(t) /\ ncp \in 0..Len(t)
  BY DEF IInv, TypeOK, Top, Within
<1>2. After(i) \in (i + 1)..(Len(t) + 1)
  BY <1>1, DecodeAdvances
<1>3. Within(After(i)) => After(After(i)) \in (i + 1)..(Len(t) + 1)
  <2> SUFFICES ASSUME Within(After(i)) PROVE After(After(i)) \in (i + 1)..(Len(t) + 1)
    OBVIOUS
  <2> DEFINE next == After(i)
  <2>1. next \in 1..Len(t) /\ next >= i + 1
    BY <1>1, <1>2 DEF Within
  <2> HIDE DEF next
  <2>2. After(next) \in (next + 1)..(Len(t) + 1)
    BY <1>1, <2>1, DecodeAdvances
  <2>3. After(next) \in (i + 1)..(Len(t) + 1)
    BY <1>1, <2>1, <2>2
  <2> QED BY <2>3 DEF next
<1>4. ASSUME Contraction PROVE IInv'
  <2>1. ContractionLen \in {2, 3} /\ i + ContractionLen <= Len(t) + 1
    BY <1>1, <1>4, ContractionFits DEF Contraction, IsContraction
  <2>2. i + ContractionLen \in (i + 1)..(Len(t) + 1)
    BY <1>1, <2>1
  <2> QED BY <1>1, <1>4, <2>2, MoveKeeps DEF Move, Contraction, Begin, NoRun
<1>5. ASSUME Word PROVE IInv'
  BY <1>1, <1>2, <1>5, MoveKeeps DEF Move, Word, Begin, NoRun
<1>6. ASSUME PrefixedWord PROVE IInv'
  BY <1>1, <1>3, <1>6, MoveKeeps DEF Move, PrefixedWord, IsPrefixedWord, Begin, NoRun
<1>7. ASSUME Number PROVE IInv'
  BY <1>1, <1>2, <1>7, MoveKeeps DEF Move, Number, Begin, NoRun
<1>8. ASSUME SpacedSymbols PROVE IInv'
  BY <1>1, <1>3, <1>8, MoveKeeps DEF Move, SpacedSymbols, IsSpacedSymbols, Begin, NoRun
<1>9. ASSUME Symbols PROVE IInv'
  BY <1>1, <1>2, <1>9, MoveKeeps DEF Move, Symbols, Begin, NoRun
<1>10. ASSUME Whitespace PROVE IInv'
  <2>1. TypeOK'
    BY <1>1, <1>10 DEF Whitespace, Begin, IInv, TypeOK
  <2>2. MoreSpace'
    <3>1. t' = t /\ j' = i /\ "S" \in ClassAt(i)
      BY <1>10 DEF Whitespace, Begin
    <3>2. Within(j)'
      BY <1>1, <3>1 DEF Within
    <3>3. ClassAt(j)' = ClassAt(i)
      BY <3>1 DEF ClassAt
    <3> QED BY <3>1, <3>2, <3>3 DEF MoreSpace
  <2>3. Advanced' /\ Partition'
    BY <1>10 DEF Whitespace, Begin, IInv, Advanced, Partition
  <2>4. Walked'
    BY <1>1, <1>10, <2>2 DEF Whitespace, Begin, Walked
  <2> QED BY <1>10, <2>1, <2>3, <2>4 DEF Whitespace, Begin, IInv
<1> QED BY <1>4, <1>5, <1>6, <1>7, <1>8, <1>9, <1>10 DEF Top

\* One iteration of a run or of its kernel.
LEMMA RunKeeps ==
  ASSUME IInv, NEW Good(_), NEW Ascii(_),
         NEW run \in {"letters", "symbols"},
         NEW kernel \in {"letter_kernel", "symbol_kernel"},
         NEW end \in {"emit", "newlines"},
         Run(run, kernel, end, Good, Ascii), NoRun
  PROVE  IInv'
<1>1. /\ t \in Seq(Byte) /\ Len(t) \in Nat /\ i \in 1..Len(t) + 1
      /\ j \in 1..Len(t) + 1 /\ Block \in Nat /\ Block > 0
      /\ cut \in 0..(Len(t) + 1) /\ last \in 0..Len(t) /\ ncp \in 0..Len(t)
  BY BlockAssumption DEF IInv, TypeOK
<1>2. i < j
  BY DEF IInv, Advanced, Run
<1>3. Within(j) => After(j) \in (i + 1)..(Len(t) + 1)
  <2> SUFFICES ASSUME Within(j) PROVE After(j) \in (i + 1)..(Len(t) + 1)
    OBVIOUS
  <2>1. After(j) \in (j + 1)..(Len(t) + 1)
    BY <1>1, DecodeAdvances DEF Within
  <2> QED BY <1>1, <1>2, <2>1
<1>4. \E p \in {run, kernel, end} : \E k \in (i + 1)..(Len(t) + 1) : Goto(p, k)
  <2>1. CASE pc = run /\ ~Within(j) /\ Goto(end, j)
    BY <1>1, <1>2, <2>1
  <2>2. CASE pc = run /\ Within(j) /\ t[j] < 128 /\ simd /\ Goto(kernel, j)
    BY <1>1, <1>2, <2>2
  <2>3. CASE pc = run /\ Within(j) /\ (t[j] >= 128 \/ ~simd)
             /\ IF Good(j) THEN Goto(run, After(j)) ELSE Goto(end, j)
    BY <1>1, <1>2, <1>3, <2>3
  <2>4. CASE pc = kernel /\ BlockFits(j) /\ Goto(kernel, j + Block)
    BY <1>1, <1>2, <2>4 DEF BlockFits
  <2>5. ASSUME pc = kernel, BlockFits(j), NEW k \in j..(j + Block - 1),
               Goto(AfterKernel(run, end, k), k)
        PROVE  \E p \in {run, kernel, end} : \E x \in (i + 1)..(Len(t) + 1) : Goto(p, x)
    BY <1>1, <1>2, <2>5 DEF BlockFits, AfterKernel
  <2>6. CASE pc = kernel /\ ~BlockFits(j)
             /\ IF Within(j) /\ Ascii(j) THEN Goto(kernel, j + 1)
                ELSE Goto(AfterKernel(run, end, j), j)
    BY <1>1, <1>2, <2>6 DEF Within, AfterKernel
  <2> QED BY <2>1, <2>2, <2>3, <2>4, <2>5, <2>6 DEF Run
<1>5. Move
  BY <1>1, <1>4 DEF Move, Goto, NoRun
<1> QED BY <1>5, MoveKeeps

\* The whitespace walk records where its last character began and where its last CR
\* or LF ended.
LEMMA SpaceRunKeeps == IInv /\ SpaceRun => IInv'
<1> SUFFICES ASSUME IInv, SpaceRun PROVE IInv'
  OBVIOUS
<1>1. /\ t \in Seq(Byte) /\ Len(t) \in Nat /\ i \in 1..Len(t)
      /\ j \in 1..Len(t) /\ i <= j /\ pc = "spaces"
      /\ cut \in 0..(Len(t) + 1) /\ last \in 0..Len(t) /\ ncp \in 0..Len(t)
  BY DEF IInv, TypeOK, Walked, SpaceRun, MoreSpace, Within
<1>2. After(j) \in (j + 1)..(Len(t) + 1)
  BY <1>1, DecodeAdvances
<1>3. /\ pc' = "spaces" /\ j' = After(j) /\ last' = j /\ ncp' = ncp + 1
      /\ cut' = After(j) \/ cut' = cut
      /\ UNCHANGED <<t, simd, i, spans, rc>>
  BY DEF SpaceRun, Goto
<1>4. /\ ncp <= j - i /\ (j > i => ncp >= 1)
      /\ cut # 0 => i < cut /\ cut <= j
  BY <1>1 DEF IInv, Walked
<1>5. TypeOK'
  BY <1>1, <1>2, <1>3, <1>4 DEF IInv, TypeOK
<1>6. Advanced' /\ Partition'
  BY <1>3 DEF IInv, Advanced, Partition
<1>7. Walked'
  BY <1>1, <1>2, <1>3, <1>4 DEF Walked
<1> QED BY <1>3, <1>5, <1>6, <1>7 DEF IInv

\* The whitespace span the alternatives A5, A6 and A7 agree on is not empty.
LEMMA SpaceStopKeeps == IInv /\ SpaceStop => IInv'
<1> SUFFICES ASSUME IInv, SpaceStop PROVE IInv'
  OBVIOUS
<1>1. /\ Len(t) \in Nat /\ i \in 1..Len(t) /\ j \in 1..(Len(t) + 1)
      /\ pc = "spaces" /\ ~MoreSpace
      /\ cut \in 0..(Len(t) + 1) /\ last \in 0..Len(t) /\ ncp \in 0..Len(t)
  BY DEF IInv, TypeOK, Walked, SpaceStop
<1>2. /\ i < j
      /\ ncp >= 2 => last > i
      /\ cut # 0 => i < cut
  BY <1>1 DEF IInv, Walked
<1>3. SpaceEnd \in (i + 1)..(Len(t) + 1)
  BY <1>1, <1>2 DEF SpaceEnd
<1>4. Move
  BY <1>1, <1>3 DEF Move, SpaceStop, Goto, NoRun
<1> QED BY <1>4, MoveKeeps

LEMMA LoopsKeep == IInv /\ Loops => IInv'
<1> SUFFICES ASSUME IInv, Loops PROVE IInv'
  OBVIOUS
<1>1. CASE Letters
  BY <1>1, RunKeeps DEF Letters
<1>2. CASE SymbolRun
  BY <1>2, RunKeeps DEF SymbolRun
<1>3. CASE NewlineRun
  <2>1. /\ Len(t) \in Nat /\ i \in 1..(Len(t) + 1) /\ j \in 1..(Len(t) + 1)
        /\ cut \in 0..(Len(t) + 1) /\ last \in 0..Len(t) /\ ncp \in 0..Len(t)
    BY DEF IInv, TypeOK
  <2>2. i < j
    BY <1>3 DEF IInv, Advanced, NewlineRun
  <2>3. Move
    BY <1>3, <2>1, <2>2 DEF Move, NewlineRun, Goto, NoRun, Within
  <2> QED BY <2>3, MoveKeeps
<1> QED BY <1>1, <1>2, <1>3, SpaceRunKeeps, SpaceStopKeeps DEF Loops

\* A span that is emitted goes on where the one before it ended.
LEMMA EmitKeeps == IInv /\ Emit => IInv'
<1> SUFFICES ASSUME IInv, Emit PROVE IInv'
  OBVIOUS
<1>1. /\ Len(t) \in Nat /\ i \in 1..(Len(t) + 1) /\ j \in 1..(Len(t) + 1) /\ i < j
      /\ spans \in Seq(Nat \X Nat)
  BY DEF IInv, TypeOK, Advanced, Emit
<1>2. /\ spans' = Append(spans, <<i, j>>) /\ i' = j /\ pc' = "top"
      /\ UNCHANGED <<t, simd, j, cut, last, ncp, rc>>
  BY DEF Emit
<1>3. TypeOK' /\ Advanced' /\ Walked'
  BY <1>1, <1>2 DEF IInv, TypeOK, Advanced, Walked
<1>4. /\ spans' \in Seq(Nat \X Nat) /\ Len(spans') = Len(spans) + 1
      /\ \A k \in 1..Len(spans) : spans'[k] = spans[k]
      /\ spans'[Len(spans) + 1] = <<i, j>> /\ Len(spans) \in Nat
  BY <1>1, <1>2
<1>5. ASSUME NEW k \in 1..Len(spans')
      PROVE  /\ spans'[k][1] < spans'[k][2]
             /\ spans'[k][1] = IF k = 1 THEN 1 ELSE spans'[k - 1][2]
  <2>1. CASE k <= Len(spans)
    <3>1. /\ k \in 1..Len(spans) /\ spans'[k] = spans[k]
          /\ k # 1 => spans'[k - 1] = spans[k - 1]
      <4>1. k \in 1..Len(spans) /\ (k # 1 => k - 1 \in 1..Len(spans))
        BY <1>4, <2>1
      <4> QED BY <1>4, <4>1
    <3>2. /\ spans[k][1] < spans[k][2]
          /\ spans[k][1] = IF k = 1 THEN 1 ELSE spans[k - 1][2]
      BY <3>1 DEF IInv, Partition
    <3> QED BY <3>1, <3>2
  <2>2. CASE k = Len(spans) + 1
    <3>1. spans'[k] = <<i, j>> /\ spans'[k][1] = i /\ spans'[k][2] = j
      BY <1>4, <2>2
    <3>2. i = IF spans = <<>> THEN 1 ELSE spans[Len(spans)][2]
      BY DEF IInv, Partition
    <3>3. CASE spans = <<>>
      BY <1>1, <1>4, <2>2, <3>1, <3>2, <3>3
    <3>4. CASE spans # <<>>
      <4>1. Len(spans) >= 1 /\ k # 1 /\ k - 1 = Len(spans)
        <5>1. Len(spans) # 0
          BY <1>1, <3>4
        <5> QED BY <1>4, <2>2, <5>1
      <4>2. spans'[k - 1] = spans[Len(spans)]
        BY <1>4, <4>1
      <4> QED BY <1>1, <3>1, <3>2, <3>4, <4>1, <4>2
    <3> QED BY <3>3, <3>4
  <2> QED BY <1>4, <2>1, <2>2
<1>6. i' = IF spans' = <<>> THEN 1 ELSE spans'[Len(spans')][2]
  BY <1>2, <1>4
<1>7. Partition'
  BY <1>2, <1>5, <1>6 DEF Partition
<1> QED BY <1>2, <1>3, <1>4, <1>7 DEF IInv

LEMMA StepKeeps == IInv /\ [Next]_vars => IInv'
<1> SUFFICES ASSUME IInv, [Next]_vars PROVE IInv'
  OBVIOUS
<1>1. CASE EmitFails
  <2>1. TypeOK' /\ Advanced' /\ Walked' /\ Partition'
    BY <1>1 DEF EmitFails, IInv, TypeOK, Advanced, Walked, Partition
  <2> QED BY <1>1, <2>1 DEF EmitFails, IInv
<1>2. CASE Return
  <2>1. TypeOK' /\ Advanced' /\ Walked'
    BY <1>2 DEF Return, IInv, TypeOK, Advanced, Walked
  <2>2. i = Len(t) + 1
    BY <1>2 DEF Return, IInv, TypeOK, Within
  <2>3. Partition'
    BY <1>2, <2>2 DEF Return, IInv, Partition
  <2> QED BY <1>2, <2>1, <2>3 DEF Return, IInv
<1>3. CASE UNCHANGED vars
  <2>1. /\ t' = t /\ simd' = simd /\ pc' = pc /\ i' = i /\ j' = j /\ cut' = cut
        /\ last' = last /\ ncp' = ncp /\ spans' = spans /\ rc' = rc
    BY <1>3 DEF vars
  <2>2. MoreSpace' = MoreSpace
    BY <2>1 DEF MoreSpace, Within, ClassAt
  <2>3. Walked'
    BY <2>1, <2>2 DEF IInv, Walked
  <2>4. TypeOK' /\ Advanced' /\ Partition'
    BY <2>1 DEF IInv, TypeOK, Advanced, Partition
  <2> QED BY <2>1, <2>3, <2>4 DEF IInv
<1> QED BY <1>1, <1>2, <1>3, TopKeeps, LoopsKeep, EmitKeeps DEF Next

\* The scanner's indices stay within the text, whatever the text and the width of a
\* kernel's block (bp_scan.c 122-208, bp_scan_avx2.c).
THEOREM PositionsCorrect == Spec => []TypeOK
<1>1. IInv => TypeOK
  BY DEF IInv
<1> QED BY <1>1, InitHolds, StepKeeps, PTL DEF Spec

\* Whatever the text, bp_scan_gpt4 hands over a partition of it into spans that
\* are not empty (bp_scan.c 122-208).
THEOREM SpansPartition == Spec => []Partition
<1>1. IInv => Partition
  BY DEF IInv
<1> QED BY <1>1, InitHolds, StepKeeps, PTL DEF Spec

----------------------------------------------------------------------------
(* Patterns: which of their ends is the first.                             *)

Pattern(P) == Maps(P, P)

\* The engine, started at k, finds no match; or finds the one that ends at e.
Fails(p, k) == p[k] = <<>>
Takes(p, k, e) == p[k] # <<>> /\ Head(p[k]) = e

\* The continuations of a concatenation are those of its parts, in order.
LEMMA OnwardConcat ==
  ASSUME NEW P, NEW p \in Pattern(P)
  PROVE  /\ \A x \in Seq(P) : Onward(p, x) \in Seq(P)
         /\ \A x, y \in Seq(P) : Onward(p, x \o y) = Onward(p, x) \o Onward(p, y)
<1>1. ASSUME NEW z \in Seq(P) PROVE Onward(p, z) = Mapped(p, z)
  <2>1. DOMAIN z = 1..Len(z)
    OBVIOUS
  <2> QED BY <2>1, Zenon DEF Onward, Mapped
<1>2. p \in Maps(P, P)
  BY DEF Pattern
<1> DEFINE Good(D, S, W) == \A u, w \in Seq(D) :
             Mapped(W, u) \in Seq(S) /\ Mapped(W, u \o w) = Mapped(W, u) \o Mapped(W, w)
<1>3. \A D, S : \A W \in Maps(D, S) : Good(D, S, W)
  BY MappedConcat
<1> HIDE DEF Good
<1>4. Good(P, P, p)
  BY <1>2, <1>3, Zenon
<1>5. \A x, y \in Seq(P) : x \o y \in Seq(P)
  OBVIOUS
<1> QED BY <1>1, <1>4, <1>5, Zenon DEF Good

LEMMA OnwardEmpty == \A p : Onward(p, <<>>) = <<>>
<1> TAKE p
<1>1. [x \in DOMAIN <<>> |-> p[<<>>[x]]] = <<>>
  OBVIOUS
<1> QED BY <1>1, FlattenEmpty DEF Onward

\* After one position there is nothing else to go on from.
LEMMA OnwardOne ==
  ASSUME NEW P, NEW p, NEW k, p[k] \in Seq(P)
  PROVE  Onward(p, <<k>>) = p[k]
<1>1. p[k] \in Seq(P)
  OBVIOUS
<1>2. [x \in DOMAIN <<k>> |-> p[<<k>>[x]]] = Append(<<>>, p[k])
  OBVIOUS
<1>3. FlattenSeq(Append(<<>>, p[k])) = <<>> \o p[k]
  <2>1. <<>> \in Seq(Seq(P))
    OBVIOUS
  <2>2. FlattenSeq(Append(<<>>, p[k])) = FlattenSeq(<<>>) \o p[k]
    BY <1>1, <2>1, FlattenAppend
  <2> QED BY <2>2, FlattenEmpty
<1>4. <<>> \o p[k] = p[k]
  <2> DEFINE a == p[k]
  <2>1. a \in Seq(P)
    BY <1>1
  <2> HIDE DEF a
  <2>2. <<>> \o a = a
    BY <2>1
  <2> QED BY <2>2 DEF a
<1> QED BY <1>2, <1>3, <1>4 DEF Onward

\* Sequences put one after the other, by their first.
LEMMA Heads ==
  ASSUME NEW P, NEW x \in Seq(P), NEW y \in Seq(P)
  PROVE  /\ x \o y \in Seq(P)
         /\ x = <<>> => x \o y = y
         /\ y = <<>> => x \o y = x
         /\ x # <<>> => x \o y # <<>> /\ Head(x \o y) = Head(x) /\ Head(x) \in P
         /\ x # <<>> => x = <<Head(x)>> \o Tail(x) /\ Tail(x) \in Seq(P)
<1>1. /\ x \o y \in Seq(P) /\ Len(x \o y) = Len(x) + Len(y)
      /\ \A k \in 1..(Len(x) + Len(y)) : (x \o y)[k] = IF k <= Len(x) THEN x[k] ELSE y[k - Len(x)]
  BY ConcatProperties
<1>2. x = <<>> => x \o y = y
  OBVIOUS
<1>3. y = <<>> => x \o y = x
  OBVIOUS
<1>4. ASSUME x # <<>>
      PROVE x \o y # <<>> /\ Head(x \o y) = Head(x) /\ Head(x) \in P
  <2>1. Len(x) \in Nat /\ Len(y) \in Nat /\ Len(x) # 0
    BY <1>4, EmptySeq
  <2>2. 1 \in 1..Len(x) /\ 1 \in 1..(Len(x) + Len(y)) /\ Len(x) + Len(y) # 0
    BY <2>1
  <2>3. (x \o y)[1] = x[1] /\ x[1] \in P
    BY <1>1, <2>2
  <2> QED BY <1>1, <2>2, <2>3
<1>5. ASSUME x # <<>> PROVE x = <<Head(x)>> \o Tail(x) /\ Tail(x) \in Seq(P)
  BY <1>5
<1> QED BY <1>1, <1>2, <1>3, <1>4, <1>5

\* The engine goes on with p from the first of the places x, and if it fails there
\* from the others.
LEMMA OnwardHead ==
  ASSUME NEW P, NEW p \in Pattern(P), NEW x \in Seq(P), x # <<>>
  PROVE  \A e : Takes(p, Head(x), e) => Onward(p, x) # <<>> /\ Head(Onward(p, x)) = e
<1>1. Head(x) \in P /\ x = <<Head(x)>> \o Tail(x) /\ Tail(x) \in Seq(P)
  BY Heads
<1> DEFINE h == Head(x)
           r == Tail(x)
           one == <<h>>
<1> HIDE DEF h, r
<1>2. h \in P /\ r \in Seq(P) /\ one \in Seq(P) /\ x = one \o r
  BY <1>1 DEF h, r
<1>4. Onward(p, one) = p[h] /\ p[h] \in Seq(P)
  <2>1. p[h] \in Seq(P)
    BY <1>2 DEF Pattern, Maps
  <2> QED BY <2>1, OnwardOne
<1> HIDE DEF one
<1>3. Onward(p, x) = Onward(p, one) \o Onward(p, r) /\ Onward(p, r) \in Seq(P)
  <2>1. \A u \in Seq(P) : Onward(p, u) \in Seq(P)
    BY OnwardConcat, Zenon
  <2>2. \A u, w \in Seq(P) : Onward(p, u \o w) = Onward(p, u) \o Onward(p, w)
    BY OnwardConcat, Zenon
  <2> QED BY <1>2, <2>1, <2>2, Zenon
<1>5. p[h] # <<>> => Onward(p, x) # <<>> /\ Head(Onward(p, x)) = Head(p[h])
  BY <1>3, <1>4, Heads
<1> QED BY <1>5 DEF Takes, h

\* Patterns built from patterns are patterns.
LEMMA PatternType ==
  ASSUME NEW P, NEW p \in Pattern(P), NEW q \in Pattern(P)
  PROVE  /\ Or(p, q) \in Pattern(P) /\ Then(p, q) \in Pattern(P)
         /\ NotBefore(p) \in Pattern(P) /\ Opt(p) \in Pattern(P)
         /\ DOMAIN p = P /\ \A k \in P : p[k] \in Seq(P)
<1>1. DOMAIN p = P /\ \A k \in P : p[k] \in Seq(P) /\ q[k] \in Seq(P)
  BY DEF Pattern, Maps
<1>2. \A k \in P : p[k] \o q[k] \in Seq(P) /\ Onward(q, p[k]) \in Seq(P)
  <2>1. \A u \in Seq(P) : Onward(q, u) \in Seq(P)
    BY OnwardConcat, Zenon
  <2>2. \A u, w \in Seq(P) : u \o w \in Seq(P)
    OBVIOUS
  <2> QED BY <1>1, <2>1, <2>2, Zenon
<1>3. \A k \in P : <<k>> \in Seq(P) /\ <<>> \in Seq(P)
  OBVIOUS
<1>4. Or(p, q) \in Pattern(P)
  BY <1>1, <1>2 DEF Or, Pattern, Maps
<1>5. Then(p, q) \in Pattern(P)
  BY <1>1, <1>2 DEF Then, Pattern, Maps
<1>6. NotBefore(p) \in Pattern(P)
  BY <1>1, <1>3 DEF NotBefore, Pattern, Maps
<1>7. Opt(p) \in Pattern(P)
  <2>1. \A k \in P : p[k] \o <<k>> \in Seq(P)
    BY <1>1, <1>3, Heads
  <2> QED BY <1>1, <2>1 DEF Opt, Or, Pattern, Maps
<1> QED BY <1>1, <1>4, <1>5, <1>6, <1>7

\* An alternative is tried when those before it fail.
LEMMA OrElse ==
  ASSUME NEW P, NEW p \in Pattern(P), NEW q \in Pattern(P), NEW k \in P
  PROVE  /\ Fails(p, k) => Or(p, q)[k] = q[k]
         /\ \A e : Takes(p, k, e) => Takes(Or(p, q), k, e)
         /\ \A e : Fails(p, k) /\ Takes(q, k, e) => Takes(Or(p, q), k, e)
         /\ Fails(p, k) /\ Fails(q, k) => Fails(Or(p, q), k)
<1>1. p[k] \in Seq(P) /\ q[k] \in Seq(P) /\ Or(p, q)[k] = p[k] \o q[k]
  BY PatternType DEF Or
<1> DEFINE a == p[k]
           b == q[k]
<1>3. a \in Seq(P) /\ b \in Seq(P)
  BY <1>1
<1> HIDE DEF a, b
<1>2. /\ a = <<>> => a \o b = b
      /\ a # <<>> => a \o b # <<>> /\ Head(a \o b) = Head(a)
  BY <1>3, Heads
<1> QED BY <1>1, <1>2 DEF Fails, Takes, a, b

\* A concatenation fails with its first part, and takes the first way of both when that
\* succeeds.
LEMMA AndThen ==
  ASSUME NEW P, NEW p \in Pattern(P), NEW q \in Pattern(P), NEW k \in P
  PROVE  /\ Fails(p, k) => Fails(Then(p, q), k)
         /\ \A m \in P : p[k] = <<m>> => Then(p, q)[k] = q[m]
         /\ \A e, m : Takes(p, k, m) /\ Takes(q, m, e) => Takes(Then(p, q), k, e)
<1>1. p[k] \in Seq(P) /\ Then(p, q)[k] = Onward(q, p[k])
  BY PatternType DEF Then
<1>2. Fails(p, k) => Fails(Then(p, q), k)
  BY <1>1, OnwardEmpty DEF Fails
<1>3. \A m \in P : p[k] = <<m>> => Then(p, q)[k] = q[m]
  <2> TAKE m \in P
  <2>1. q[m] \in Seq(P)
    BY PatternType
  <2>2. Onward(q, <<m>>) = q[m]
    BY <2>1, OnwardOne
  <2> QED BY <1>1, <2>2
<1>4. \A e, m : Takes(p, k, m) /\ Takes(q, m, e) => Takes(Then(p, q), k, e)
  BY <1>1, OnwardHead DEF Takes
<1> QED BY <1>2, <1>3, <1>4

\* An optional pattern can always be left out, and that is tried last.
LEMMA OptIs ==
  ASSUME NEW P, NEW p \in Pattern(P), NEW k \in P
  PROVE  /\ Fails(p, k) => Opt(p)[k] = <<k>>
         /\ Opt(p)[k] = p[k] \o <<k>>
<1>1. p[k] \in Seq(P) /\ Opt(p)[k] = p[k] \o <<k>>
  BY PatternType DEF Opt, Or
<1>2. <<>> \o <<k>> = <<k>>
  OBVIOUS
<1> QED BY <1>1, <1>2 DEF Fails

\* From each place k: the places that nx leads to while they are in S, the last
\* of them first.
IsChain(f, n, S, nx) ==
  /\ f \in [1..n -> Seq(1..n)]
  /\ \A k \in 1..n : f[k] = IF k \in S THEN f[nx[k]] \o <<k>> ELSE <<k>>

\* A recursion that climbs to n is defined: the function Star asks for exists.
LEMMA ChainExists ==
  ASSUME NEW n \in Nat, NEW S \in SUBSET (1..n), NEW nx \in [S -> 1..n], \A k \in S : k < nx[k]
  PROVE  \E f : IsChain(f, n, S, nx)
<1> DEFINE P == 1..n
           Good(f, m) == /\ f \in [P -> Seq(P)]
                         /\ \A k \in P : k > n - m => f[k] = IF k \in S THEN f[nx[k]] \o <<k>> ELSE <<k>>
           T == {m \in 0..n : \E f : Good(f, m)}
<1>1. 0 \in T
  <2>1. Good([k \in P |-> <<>>], 0)
    <3>1. \A k \in P : ~(k > n - 0)
      OBVIOUS
    <3>2. [k \in P |-> <<>>] \in [P -> Seq(P)]
      OBVIOUS
    <3> QED BY <3>1, <3>2
  <2> HIDE DEF Good
  <2> QED BY <2>1
<1>2. ASSUME NEW m \in 1..n, m - 1 \in T PROVE m \in T
  <2>1. PICK f : Good(f, m - 1)
    BY <1>2
  <2> DEFINE at == n - m + 1
             v == IF at \in S THEN f[nx[at]] \o <<at>> ELSE <<at>>
             g == [k \in P |-> IF k = at THEN v ELSE f[k]]
  <2>2. at \in P /\ \A k \in P : k > n - m <=> k = at \/ k > n - (m - 1)
    OBVIOUS
  <2>3. f \in [P -> Seq(P)]
    BY <2>1
  <2> HIDE DEF at, P
  <2>4. v \in Seq(P)
    <3>1. <<at>> \in Seq(P)
      BY <2>2
    <3>2. at \in S => f[nx[at]] \in Seq(P)
      BY <2>3 DEF P
    <3>3. at \in S => f[nx[at]] \o <<at>> \in Seq(P)
      BY <3>1, <3>2
    <3> QED BY <3>1, <3>3
  <2> HIDE DEF v
  <2>5. g \in [P -> Seq(P)] /\ \A k \in P : g[k] = IF k = at THEN v ELSE f[k]
    BY <2>3, <2>4
  <2> HIDE DEF g
  <2>6. ASSUME NEW k \in P, k > n - m PROVE g[k] = IF k \in S THEN g[nx[k]] \o <<k>> ELSE <<k>>
    <3>1. k \in S => nx[k] \in P /\ nx[k] # at
      <4> SUFFICES ASSUME k \in S PROVE nx[k] \in P /\ nx[k] # at
        OBVIOUS
      <4>1. nx[k] \in 1..n /\ k < nx[k] /\ k \in 1..n
        BY DEF P
      <4>2. k >= at /\ at \in Nat
        BY <2>2, <2>6, <4>1 DEF P, at
      <4> QED BY <4>1, <4>2 DEF P
    <3>2. k \in S => g[nx[k]] = f[nx[k]]
      BY <2>5, <3>1
    <3>3. CASE k = at
      BY <2>5, <3>2, <3>3 DEF v
    <3>4. CASE k # at
      <4>1. k > n - (m - 1)
        BY <2>2, <2>6, <3>4
      <4>2. f[k] = IF k \in S THEN f[nx[k]] \o <<k>> ELSE <<k>>
        BY <2>1, <4>1
      <4> QED BY <2>5, <3>2, <3>4, <4>2
    <3> QED BY <3>3, <3>4
  <2>7. Good(g, m)
    BY <2>5, <2>6
  <2> HIDE DEF Good
  <2> QED BY <2>7
<1>3. n \in T
  <2> HIDE DEF T
  <2>1. \A m \in 0..n : m \in T
    BY <1>1, <1>2, UpTo
  <2> QED BY <2>1
<1>4. PICK f : Good(f, n)
  BY <1>3
<1>5. \A k \in P : k > n - n
  OBVIOUS
<1>6. IsChain(f, n, S, nx)
  BY <1>4, <1>5 DEF IsChain
<1> QED BY <1>6

\* What the recursive definition of Star defines, for a pattern that takes one character.
LEMMA StarSteps ==
  ASSUME NEW n \in Nat, NEW S \in SUBSET (1..n), NEW nx \in [S -> 1..n], \A k \in S : k < nx[k],
         NEW p, p = [k \in 1..n |-> IF k \in S THEN <<nx[k]>> ELSE <<>>]
  PROVE  IsChain(Star(p), n, S, nx)
<1> DEFINE P == 1..n
           Eq(f) == f = [k \in DOMAIN p |-> Onward(f, p[k]) \o <<k>>]
           h == Star(p)
<1>1. h = CHOOSE f : Eq(f)
  BY DEF Star
<1> HIDE DEF h
<1>2. DOMAIN p = P /\ \A k \in P : p[k] = IF k \in S THEN <<nx[k]>> ELSE <<>>
  OBVIOUS
<1>3. ASSUME NEW f, NEW k \in P, k \in S => f[nx[k]] \in Seq(P)
      PROVE  Onward(f, p[k]) \o <<k>> = IF k \in S THEN f[nx[k]] \o <<k>> ELSE <<k>>
  <2>1. CASE k \in S
    <3>1. Onward(f, <<nx[k]>>) = f[nx[k]]
      <4> DEFINE m == nx[k]
      <4>1. f[m] \in Seq(P)
        BY <1>3, <2>1
      <4> HIDE DEF m, P
      <4>2. Onward(f, <<m>>) = f[m]
        BY <4>1, OnwardOne
      <4> QED BY <4>2 DEF m
    <3> QED BY <1>2, <2>1, <3>1
  <2>2. CASE k \notin S
    <3>1. Onward(f, p[k]) = <<>>
      BY <1>2, <2>2, OnwardEmpty
    <3>2. <<>> \o <<k>> = <<k>>
      OBVIOUS
    <3> QED BY <2>2, <3>1, <3>2
  <2> QED BY <2>1, <2>2
<1>0. PICK f : IsChain(f, n, S, nx)
  <2> HIDE DEF P
  <2> QED BY ChainExists
<1>4. /\ f \in [P -> Seq(P)]
      /\ \A k \in P : f[k] = IF k \in S THEN f[nx[k]] \o <<k>> ELSE <<k>>
  BY <1>0 DEF IsChain
<1>5. \A k \in S : nx[k] \in P /\ k < nx[k] /\ k \in P
  OBVIOUS
<1>6. Eq(f)
  <2> HIDE DEF P
  <2>1. ASSUME NEW k \in P PROVE f[k] = Onward(f, p[k]) \o <<k>>
    <3>1. k \in S => f[nx[k]] \in Seq(P)
      BY <1>4, <1>5
    <3> QED BY <1>3, <1>4, <3>1
  <2>2. f = [k \in P |-> f[k]]
    BY <1>4
  <2> QED BY <1>2, <2>1, <2>2
<1>7. Eq(h)
  <2> HIDE DEF Eq
  <2> QED BY <1>1, <1>6
<1>8. DOMAIN h = P /\ \A k \in P : h[k] = Onward(h, p[k]) \o <<k>>
  BY <1>2, <1>7
<1> DEFINE T == {m \in 0..n : \A k \in P : k > n - m => h[k] \in Seq(P)}
<1>9. 0 \in T
  OBVIOUS
<1>10. ASSUME NEW m \in 1..n, m - 1 \in T PROVE m \in T
  <2> SUFFICES ASSUME NEW k \in P, k > n - m PROVE h[k] \in Seq(P)
    OBVIOUS
  <2>1. k \in S => h[nx[k]] \in Seq(P)
    <3>1. k \in S => nx[k] \in P /\ nx[k] > n - (m - 1)
      BY <1>5
    <3> QED BY <1>10, <3>1
  <2> HIDE DEF P
  <2>2. h[k] = IF k \in S THEN h[nx[k]] \o <<k>> ELSE <<k>>
    <3>1. Onward(h, p[k]) \o <<k>> = IF k \in S THEN h[nx[k]] \o <<k>> ELSE <<k>>
      BY <1>3, <2>1, Zenon
    <3> QED BY <1>8, <3>1, Zenon
  <2>3. <<k>> \in Seq(P)
    OBVIOUS
  <2> QED BY <2>1, <2>2, <2>3
<1>11. \A k \in P : h[k] \in Seq(P)
  <2>1. n \in T
    <3> HIDE DEF T
    <3>1. \A m \in 0..n : m \in T
      BY <1>9, <1>10, UpTo
    <3> QED BY <3>1
  <2>2. \A k \in P : k > n - n
    OBVIOUS
  <2> QED BY <2>1, <2>2
<1>12. h \in [P -> Seq(P)]
  <2>1. h = [k \in P |-> h[k]]
    BY <1>8, <1>2, <1>7
  <2> HIDE DEF P
  <2> QED BY <1>11, <2>1
<1>13. ASSUME NEW k \in P PROVE h[k] = IF k \in S THEN h[nx[k]] \o <<k>> ELSE <<k>>
  <2>1. k \in S => h[nx[k]] \in Seq(P)
    BY <1>5, <1>11
  <2> HIDE DEF P
  <2>2. Onward(h, p[k]) \o <<k>> = IF k \in S THEN h[nx[k]] \o <<k>> ELSE <<k>>
    BY <1>3, <2>1, Zenon
  <2> QED BY <1>8, <2>2, Zenon
<1> QED BY <1>12, <1>13 DEF IsChain, h
----------------------------------------------------------------------------
(* The patterns of one character, and their repetition.                    *)

LEMMA PlaceIs ==
  ASSUME t \in Seq(Byte)
  PROVE  /\ Place = 1..Len(t) /\ Position = 1..(Len(t) + 1) /\ Len(t) \in Nat
         /\ \A k \in Place : k \in Position /\ After(k) \in Position /\ k < After(k)
<1>1. Len(t) \in Nat
  OBVIOUS
<1>2. ASSUME NEW k \in 1..Len(t) PROVE After(k) \in 1..(Len(t) + 1) /\ k < After(k)
  <2>1. After(k) \in (k + 1)..(Len(t) + 1)
    BY DecodeAdvances
  <2> QED BY <1>1, <2>1
<1>3. \A k \in 1..Len(t) : k \in 1..(Len(t) + 1)
  BY <1>1
<1> QED BY <1>1, <1>2, <1>3, Zenon DEF Place, Position

\* A character of a set matches where the set says so, in one way.
LEMMA OneIs ==
  ASSUME t \in Seq(Byte), NEW S \in SUBSET Place
  PROVE  /\ One(S) \in Pattern(Position)
         /\ \A k \in S : One(S)[k] = <<After(k)>>
         /\ \A k \in Position \ S : Fails(One(S), k)
<1>1. \A k \in S : k \in Position /\ After(k) \in Position
  BY PlaceIs
<1>2. One(S) = [k \in Position |-> IF k \in S THEN <<After(k)>> ELSE <<>>]
  BY DEF One
<1> HIDE DEF Position
<1>3. \A k \in Position : (IF k \in S THEN <<After(k)>> ELSE <<>>) \in Seq(Position)
  <2>1. <<>> \in Seq(Position)
    OBVIOUS
  <2>2. \A k \in S : <<After(k)>> \in Seq(Position)
    BY <1>1
  <2> QED BY <2>1, <2>2
<1>4. One(S) \in Pattern(Position)
  BY <1>2, <1>3 DEF Pattern, Maps
<1> QED BY <1>1, <1>2, <1>4 DEF Fails

\* A repetition goes on as long as the set says so, and gives back one character at a
\* time.
LEMMA StarIs ==
  ASSUME t \in Seq(Byte), NEW S \in SUBSET Place
  PROVE  /\ Star(One(S)) \in Pattern(Position)
         /\ \A k \in S : Star(One(S))[k] = Star(One(S))[After(k)] \o <<k>>
         /\ \A k \in Position \ S : Star(One(S))[k] = <<k>>
<1> DEFINE n == Len(t) + 1
           nx == [k \in S |-> After(k)]
           p == One(S)
           s == Star(p)
<1>1. n \in Nat /\ Position = 1..n /\ S \in SUBSET (1..n)
  BY PlaceIs
<1>2. nx \in [S -> 1..n] /\ \A k \in S : k < nx[k] /\ nx[k] = After(k)
  <2>1. \A k \in S : After(k) \in Position /\ k < After(k)
    BY PlaceIs
  <2> QED BY <1>1, <2>1
<1>3. p = [k \in 1..n |-> IF k \in S THEN <<nx[k]>> ELSE <<>>]
  <2>1. p = [k \in Position |-> IF k \in S THEN <<After(k)>> ELSE <<>>]
    BY DEF One
  <2> HIDE DEF n, nx, p
  <2>2. \A k \in Position : (IF k \in S THEN <<After(k)>> ELSE <<>>) = IF k \in S THEN <<nx[k]>> ELSE <<>>
    BY <1>2
  <2> QED BY <1>1, <2>1, <2>2
<1> HIDE DEF n, nx, p
<1>4. /\ s \in Pattern(1..n)
      /\ \A k \in 1..n : s[k] = IF k \in S THEN s[nx[k]] \o <<k>> ELSE <<k>>
  <2>1. IsChain(Star(p), n, S, nx)
    BY <1>1, <1>2, <1>3, StarSteps
  <2> QED BY <2>1 DEF IsChain, Pattern, Maps
<1> HIDE DEF s
<1>5. s \in Pattern(Position)
  BY <1>1, <1>4
<1>6. \A k \in S : s[k] = s[After(k)] \o <<k>>
  <2> TAKE k \in S
  <2>1. k \in 1..n /\ nx[k] = After(k)
    BY <1>1, <1>2
  <2>2. s[k] = s[nx[k]] \o <<k>>
    BY <1>4, <2>1
  <2> QED BY <2>1, <2>2
<1>7. \A k \in Position \ S : s[k] = <<k>>
  BY <1>1, <1>4
<1> QED BY <1>5, <1>6, <1>7 DEF s, p

\* How far a run of the characters S reaches from k.
Furthest(S, k) == Head(Star(One(S))[k])

\* Its first way is the longest.
LEMMA FurthestIs ==
  ASSUME t \in Seq(Byte), NEW S \in SUBSET Place
  PROVE  /\ \A k \in S : Furthest(S, k) = Furthest(S, After(k))
         /\ \A k \in Position \ S : Furthest(S, k) = k
         /\ \A k \in Position : Takes(Star(One(S)), k, Furthest(S, k)) /\ Furthest(S, k) \in Position
<1> DEFINE s == Star(One(S))
           n == Len(t) + 1
           T == {m \in 0..n : \A k \in Position : k > n - m => s[k] # <<>>}
<1>1. /\ s \in Pattern(Position)
      /\ \A k \in S : s[k] = s[After(k)] \o <<k>>
      /\ \A k \in Position \ S : s[k] = <<k>>
  BY StarIs
<1>2. n \in Nat /\ Position = 1..n /\ \A k \in S : k \in Position /\ After(k) \in Position
  BY PlaceIs
<1> HIDE DEF s, n
<1>3. \A k \in Position : s[k] \in Seq(Position) /\ <<k>> \in Seq(Position)
  BY <1>1 DEF Pattern, Maps
<1>4. ASSUME NEW k \in Position PROVE s[k] # <<>>
  <2>1. CASE k \in S
    <3> DEFINE x == s[After(k)]
    <3>1. x \in Seq(Position) /\ s[k] = x \o <<k>>
      BY <1>1, <1>2, <1>3, <2>1
    <3> HIDE DEF x
    <3>2. Len(x \o <<k>>) = Len(x) + 1 /\ Len(x) \in Nat
      BY <1>3, <3>1
    <3>3. x \o <<k>> # <<>>
      BY <3>2
    <3> QED BY <3>1, <3>3
  <2>2. CASE k \notin S
    BY <1>1, <2>2
  <2> QED BY <2>1, <2>2
<1>5. ASSUME NEW k \in S PROVE Head(s[k]) = Head(s[After(k)])
  <2> DEFINE x == s[After(k)]
             y == <<k>>
  <2>1. x \in Seq(Position) /\ y \in Seq(Position) /\ x # <<>> /\ s[k] = x \o y
    BY <1>1, <1>2, <1>3, <1>4
  <2> HIDE DEF x, y
  <2>2. Head(x \o y) = Head(x)
    BY <2>1, Heads
  <2> QED BY <2>1, <2>2 DEF x
<1>6. \A k \in Position \ S : Head(s[k]) = k
  BY <1>1
<1>7. ASSUME NEW k \in Position PROVE Head(s[k]) \in Position
  <2>1. s[k] \in Seq(Position) /\ s[k] # <<>>
    BY <1>3, <1>4
  <2> QED BY <2>1, Heads
<1> QED BY <1>4, <1>5, <1>6, <1>7 DEF Furthest, Takes, s

\* Where each byte is a character of S the run goes on from any of them.
LEMMA RunReaches ==
  ASSUME t \in Seq(Byte), NEW S \in SUBSET Place, NEW a \in Position, NEW b \in Position, a <= b,
         \A k \in a..(b - 1) : k \in S /\ After(k) = k + 1
  PROVE  Furthest(S, a) = Furthest(S, b)
<1> DEFINE n == b - a
           F(x) == Furthest(S, x)
           T == {m \in 0..n : F(a + m) = F(a)}
<1>1. a \in Nat /\ b \in Nat /\ n \in Nat /\ b = a + n
  BY PlaceIs
<1>2. \A k \in S : F(k) = F(After(k))
  BY FurthestIs
<1> HIDE DEF F, n
<1>3. 0 \in T
  BY <1>1
<1>4. ASSUME NEW m \in 1..n, m - 1 \in T PROVE m \in T
  <2>1. a + (m - 1) \in a..(b - 1) /\ a + (m - 1) + 1 = a + m
    BY <1>1
  <2>2. F(a + (m - 1)) = F(a + m)
    BY <1>2, <2>1
  <2> QED BY <1>1, <1>4, <2>2
<1>5. n \in T
  <2> HIDE DEF T
  <2>1. \A m \in 0..n : m \in T
    BY <1>1, <1>3, <1>4, UpTo
  <2> QED BY <1>1, <2>1
<1> QED BY <1>1, <1>5 DEF F

\* One or more is one, then the repetition.
LEMMA PlusIs ==
  ASSUME t \in Seq(Byte), NEW S \in SUBSET Place
  PROVE  /\ Plus(One(S)) \in Pattern(Position)
         /\ \A k \in S : Plus(One(S))[k] = Star(One(S))[After(k)]
         /\ \A k \in Position \ S : Fails(Plus(One(S)), k)
<1>1. One(S) \in Pattern(Position) /\ Star(One(S)) \in Pattern(Position)
  BY OneIs, StarIs
<1>2. Plus(One(S)) \in Pattern(Position)
  BY <1>1, PatternType DEF Plus
<1>3. ASSUME NEW k \in S PROVE Plus(One(S))[k] = Star(One(S))[After(k)]
  <2>1. k \in Position /\ After(k) \in Position /\ One(S)[k] = <<After(k)>>
    BY PlaceIs, OneIs
  <2> QED BY <1>1, <2>1, AndThen DEF Plus
<1>4. ASSUME NEW k \in Position \ S PROVE Fails(Plus(One(S)), k)
  <2>1. Fails(One(S), k)
    BY OneIs
  <2> QED BY <1>1, <2>1, AndThen DEF Plus
<1> QED BY <1>2, <1>3, <1>4

----------------------------------------------------------------------------
(* Single characters, told by the code from their bytes.                   *)

\* A character below 128 is told by its byte alone.
LEMMA CpIs ==
  ASSUME t \in Seq(Byte), NEW k \in Place, NEW x \in Nat, x < 128
  PROVE  /\ Cp(k) = x <=> t[k] = x
         /\ t[k] = x => After(k) = k + 1 /\ ClassAt(k) = Class(x)
<1>0. k \in 1..Len(t)
  BY PlaceIs
<1>1. CASE t[k] < 128
  BY <1>0, <1>1, AsciiIs
<1>2. CASE ~(t[k] < 128)
  <2>1. Cp(k) = NoCp \/ (Cp(k) \in Codepoint /\ Cp(k) >= 128)
    BY <1>0, <1>2, LongIs
  <2>2. NoCp # x
    BY DEF NoCp
  <2>3. Cp(k) # x
    <3>1. ~(x >= 128)
      OBVIOUS
    <3> QED BY <2>1, <2>2, <3>1
  <2> QED BY <1>2, <2>3
<1> QED BY <1>1, <1>2

\* U+017F at k.
LongS(k) == Within(k + 1) /\ t[k] = 197 /\ t[k + 1] = 191

\* A letter in any case is its two ASCII bytes, and for s also those of U+017F.
LEMMA AnyCaseIs ==
  ASSUME t \in Seq(Byte), NEW k \in Position, NEW x \in 97..122
  PROVE  /\ AnyCase(x) \in Pattern(Position)
         /\ Letter(k, x) => AnyCase(x)[k] = <<k + 1>> /\ k + 1 \in Position
         /\ x = 115 /\ LongS(k) => AnyCase(x)[k] = <<k + 2>> /\ k + 2 \in Position
         /\ ~Letter(k, x) /\ ~(x = 115 /\ LongS(k)) => Fails(AnyCase(x), k)
<1> DEFINE S == {m \in Place : Cp(m) \in {x, x - 32} \/ (x = 115 /\ Cp(m) = 383)}
<1>1. S \in SUBSET Place /\ AnyCase(x) = One(S)
  BY DEF AnyCase
<1>2. AnyCase(x) \in Pattern(Position)
  BY <1>1, OneIs
<1>3. /\ \A m \in S : AnyCase(x)[m] = <<After(m)>> /\ After(m) \in Position
      /\ \A m \in Position \ S : Fails(AnyCase(x), m)
  BY <1>1, OneIs, PlaceIs
<1>4. /\ x \in Nat /\ x - 32 \in Nat /\ x < 128 /\ x - 32 < 128 /\ x # 383 /\ x - 32 # 383
      /\ k \in Nat /\ Len(t) \in Nat
  BY PlaceIs
<1>5. Within(k) => k \in Place
  BY <1>4, PlaceIs DEF Within
<1>6. ASSUME Letter(k, x) PROVE AnyCase(x)[k] = <<k + 1>> /\ k + 1 \in Position
  <2>1. k \in Place /\ t[k] \in {x, x - 32}
    BY <1>5, <1>6 DEF Letter
  <2>2. Cp(k) \in {x, x - 32} /\ After(k) = k + 1
    BY <1>4, <2>1, CpIs
  <2>3. k \in S
    BY <2>1, <2>2
  <2> QED BY <1>3, <2>2, <2>3
<1>7. ASSUME x = 115, LongS(k) PROVE AnyCase(x)[k] = <<k + 2>> /\ k + 2 \in Position
  <2>1. k \in 1..Len(t) /\ k + 1 \in 1..Len(t) /\ t[k] = 197 /\ t[k + 1] = 191
    BY <1>4, <1>7, PlaceIs DEF LongS, Within
  <2>2. Cp(k) = 383 /\ After(k) = k + 2
    BY <2>1, LongSIs
  <2>3. k \in S
    BY <1>7, <2>1, <2>2, PlaceIs
  <2> QED BY <1>3, <2>2, <2>3
<1>8. ASSUME ~Letter(k, x), ~(x = 115 /\ LongS(k)) PROVE Fails(AnyCase(x), k)
  <2>1. ASSUME k \in S PROVE FALSE
    <3>1. k \in Place /\ k \in 1..Len(t) /\ Within(k)
      BY <1>4, <2>1, PlaceIs DEF Within
    <3>2. CASE Cp(k) \in {x, x - 32}
      <4>1. t[k] \in {x, x - 32}
        BY <1>4, <3>1, <3>2, CpIs
      <4> QED BY <1>8, <3>1, <4>1 DEF Letter
    <3>3. CASE x = 115 /\ Cp(k) = 383
      <4>1. ~(t[k] < 128)
        <5> SUFFICES ASSUME t[k] < 128 PROVE FALSE
          OBVIOUS
        <5>1. Cp(k) = t[k] /\ t[k] \in Nat
          BY <3>1, AsciiIs
        <5> QED BY <3>3, <5>1
      <4>2. k + 1 \in 1..Len(t) /\ t[k] = 197 /\ t[k + 1] = 191
        BY <3>1, <3>3, <4>1, LongIs
      <4>3. LongS(k)
        BY <1>4, <4>2 DEF LongS, Within
      <4> QED BY <1>8, <3>3, <4>3
    <3> QED BY <2>1, <3>2, <3>3
  <2> QED BY <1>3, <2>1
<1> QED BY <1>2, <1>6, <1>7, <1>8

\* Two such letters in a row.
LEMMA PairIs ==
  ASSUME t \in Seq(Byte), NEW k \in Position, NEW x \in 97..122, NEW y \in 97..122,
         x # 115, y # 115
  PROVE  /\ Then(AnyCase(x), AnyCase(y)) \in Pattern(Position)
         /\ Letter(k, x) /\ Letter(k + 1, y) => Takes(Then(AnyCase(x), AnyCase(y)), k, k + 2)
         /\ ~(Letter(k, x) /\ Letter(k + 1, y)) => Fails(Then(AnyCase(x), AnyCase(y)), k)
<1> DEFINE p == AnyCase(x)
           q == AnyCase(y)
<1>1. p \in Pattern(Position) /\ q \in Pattern(Position)
  BY AnyCaseIs
<1>2. /\ Letter(k, x) => p[k] = <<k + 1>> /\ k + 1 \in Position
      /\ ~Letter(k, x) => Fails(p, k)
  BY AnyCaseIs
<1>3. ASSUME k + 1 \in Position
      PROVE  /\ Letter(k + 1, y) => q[k + 1] = <<(k + 1) + 1>>
             /\ ~Letter(k + 1, y) => Fails(q, k + 1)
  BY <1>3, AnyCaseIs
<1>4. (k + 1) + 1 = k + 2
  BY PlaceIs
<1> HIDE DEF p, q
<1>5. Then(p, q) \in Pattern(Position)
  BY <1>1, PatternType
<1>6. ~Letter(k, x) => Fails(Then(p, q), k)
  BY <1>1, <1>2, AndThen
<1>7. ASSUME Letter(k, x) PROVE Then(p, q)[k] = q[k + 1]
  BY <1>1, <1>2, <1>7, AndThen
<1>8. ASSUME Letter(k, x) PROVE /\ Letter(k + 1, y) => Takes(Then(p, q), k, k + 2)
                                /\ ~Letter(k + 1, y) => Fails(Then(p, q), k)
  <2>1. k + 1 \in Position /\ Then(p, q)[k] = q[k + 1]
    BY <1>2, <1>7, <1>8
  <2>2. Letter(k + 1, y) => Then(p, q)[k] = <<k + 2>>
    BY <1>3, <1>4, <2>1
  <2>3. \A e : <<e>> # <<>> /\ Head(<<e>>) = e
    OBVIOUS
  <2>4. Letter(k + 1, y) => Takes(Then(p, q), k, k + 2)
    BY <2>2, <2>3, Zenon DEF Takes
  <2>5. ~Letter(k + 1, y) => Fails(Then(p, q), k)
    BY <1>3, <2>1 DEF Fails
  <2> QED BY <2>4, <2>5
<1> QED BY <1>5, <1>6, <1>8 DEF p, q

LEMMA OneTaken ==
  ASSUME t \in Seq(Byte), NEW k \in Position, NEW x \in 97..122
  PROVE  /\ Letter(k, x) => Takes(AnyCase(x), k, k + 1)
         /\ x = 115 /\ LongS(k) => Takes(AnyCase(x), k, k + 2)
         /\ ~Letter(k, x) /\ ~(x = 115 /\ LongS(k)) => Fails(AnyCase(x), k)
<1>1. /\ Letter(k, x) => AnyCase(x)[k] = <<k + 1>>
      /\ x = 115 /\ LongS(k) => AnyCase(x)[k] = <<k + 2>>
      /\ ~Letter(k, x) /\ ~(x = 115 /\ LongS(k)) => Fails(AnyCase(x), k)
  BY AnyCaseIs
<1>2. \A e : <<e>> # <<>> /\ Head(<<e>>) = e
  OBVIOUS
<1> QED BY <1>1, <1>2, Zenon DEF Takes

\* A byte is one letter at most, and U+017F begins with none.
LEMMA OneLetter ==
  ASSUME NEW k, NEW x \in 97..122, NEW y \in 97..122
  PROVE  /\ Letter(k, x) /\ Letter(k, y) => x = y
         /\ Letter(k, x) => ~LongS(k)
  BY DEF Letter, LongS

\* The seven contractions after the apostrophe, from k on.
Contracted ==
  Or(AnyCase(115), Or(AnyCase(116),
  Or(Then(AnyCase(114), AnyCase(101)), Or(Then(AnyCase(118), AnyCase(101)),
  Or(AnyCase(109), Or(Then(AnyCase(108), AnyCase(108)), AnyCase(100)))))))

\* What may follow the quote, told from the bytes as try_contraction does
\* (bp_scan.c 53-66).
LEMMA ContractedIs ==
  ASSUME t \in Seq(Byte), NEW k \in Position
  PROVE  /\ Contracted \in Pattern(Position)
         /\ (\E x \in {115, 116, 109, 100} : Letter(k, x)) => Takes(Contracted, k, k + 1)
         /\ LongS(k) => Takes(Contracted, k, k + 2)
         /\ (\E p \in {<<114, 101>>, <<118, 101>>, <<108, 108>>} :
                  Letter(k, p[1]) /\ Letter(k + 1, p[2]))
              => Takes(Contracted, k, k + 2)
         /\ \/ Contracted[k] = <<>>
            \/ \E x \in {115, 116, 109, 100} : Letter(k, x)
            \/ LongS(k)
            \/ \E p \in {<<114, 101>>, <<118, 101>>, <<108, 108>>} :
                    Letter(k, p[1]) /\ Letter(k + 1, p[2])
<1> DEFINE q1 == AnyCase(115)
           q2 == AnyCase(116)
           q3 == Then(AnyCase(114), AnyCase(101))
           q4 == Then(AnyCase(118), AnyCase(101))
           q5 == AnyCase(109)
           q6 == Then(AnyCase(108), AnyCase(108))
           q7 == AnyCase(100)
           b6 == Or(q6, q7)
           b5 == Or(q5, b6)
           b4 == Or(q4, b5)
           b3 == Or(q3, b4)
           b2 == Or(q2, b3)
           b1 == Or(q1, b2)
           P == Pattern(Position)
           s == Letter(k, 115)
           tt == Letter(k, 116)
           re == Letter(k, 114) /\ Letter(k + 1, 101)
           ve == Letter(k, 118) /\ Letter(k + 1, 101)
           m == Letter(k, 109)
           ll == Letter(k, 108) /\ Letter(k + 1, 108)
           d == Letter(k, 100)
           long == LongS(k)
<1>1. /\ 115 \in 97..122 /\ 116 \in 97..122 /\ 114 \in 97..122 /\ 101 \in 97..122
      /\ 118 \in 97..122 /\ 109 \in 97..122 /\ 108 \in 97..122 /\ 100 \in 97..122
  OBVIOUS
<1>2. q1 \in P /\ q2 \in P /\ q5 \in P /\ q7 \in P
  BY <1>1, AnyCaseIs
<1>3. q3 \in P /\ q4 \in P /\ q6 \in P
  BY <1>1, PairIs
<1>4. /\ s => Takes(q1, k, k + 1)
      /\ long => Takes(q1, k, k + 2)
      /\ ~s /\ ~long => Fails(q1, k)
  BY <1>1, OneTaken
<1>5. /\ tt => Takes(q2, k, k + 1)
      /\ ~tt => Fails(q2, k)
  BY <1>1, OneTaken
<1>6. /\ m => Takes(q5, k, k + 1)
      /\ ~m => Fails(q5, k)
  BY <1>1, OneTaken
<1>7. /\ d => Takes(q7, k, k + 1)
      /\ ~d => Fails(q7, k)
  BY <1>1, OneTaken
<1>8. /\ re => Takes(q3, k, k + 2)
      /\ ~re => Fails(q3, k)
  BY <1>1, PairIs, SMTT(20)
<1>9. /\ ve => Takes(q4, k, k + 2)
      /\ ~ve => Fails(q4, k)
  BY <1>1, PairIs, SMTT(20)
<1>10. /\ ll => Takes(q6, k, k + 2)
       /\ ~ll => Fails(q6, k)
  BY <1>1, PairIs, SMTT(20)
<1>11. /\ s => ~tt /\ ~re /\ ~ve /\ ~m /\ ~ll /\ ~d /\ ~long
       /\ tt => ~re /\ ~ve /\ ~m /\ ~ll /\ ~d /\ ~long
       /\ re => ~ve /\ ~m /\ ~ll /\ ~d /\ ~long
       /\ ve => ~m /\ ~ll /\ ~d /\ ~long
       /\ m => ~ll /\ ~d /\ ~long
       /\ ll => ~d /\ ~long
       /\ d => ~long
  BY <1>1, OneLetter
<1>12. /\ (\E x \in {115, 116, 109, 100} : Letter(k, x)) <=> (s \/ tt \/ m \/ d)
       /\ (\E p \in {<<114, 101>>, <<118, 101>>, <<108, 108>>} :
                Letter(k, p[1]) /\ Letter(k + 1, p[2]))
            <=> (re \/ ve \/ ll)
  <2>1. (\E x \in {115, 116, 109, 100} : Letter(k, x)) <=> (s \/ tt \/ m \/ d)
    OBVIOUS
  <2>3. (\E p \in {<<114, 101>>, <<118, 101>>, <<108, 108>>} :
              Letter(k, p[1]) /\ Letter(k + 1, p[2]))
            <=> (re \/ ve \/ ll)
    OBVIOUS
  <2> QED BY <2>1, <2>3
<1>13. b1 = Contracted
  BY DEF Contracted
<1> HIDE DEF q1, q2, q3, q4, q5, q6, q7, s, tt, re, ve, m, ll, d, long
<1> DEFINE Tried(p, q, o) ==
             /\ o \in P
             /\ \A e : Takes(p, k, e) => Takes(o, k, e)
             /\ \A e : Fails(p, k) /\ Takes(q, k, e) => Takes(o, k, e)
             /\ Fails(p, k) /\ Fails(q, k) => Fails(o, k)
<1>14. ASSUME NEW p \in P, NEW q \in P PROVE Tried(p, q, Or(p, q))
  <2>1. Or(p, q) \in P
    BY PatternType
  <2> QED BY <2>1, OrElse
<1> HIDE DEF P, Tried
<1>15. Tried(q6, q7, b6)
  BY <1>2, <1>3, <1>14
<1>16. Tried(q5, b6, b5)
  BY <1>2, <1>14, <1>15 DEF Tried
<1>17. Tried(q4, b5, b4)
  BY <1>3, <1>14, <1>16 DEF Tried
<1>18. Tried(q3, b4, b3)
  BY <1>3, <1>14, <1>17 DEF Tried
<1>19. Tried(q2, b3, b2)
  BY <1>2, <1>14, <1>18 DEF Tried
<1>20. Tried(q1, b2, b1)
  BY <1>2, <1>14, <1>19 DEF Tried
<1> HIDE DEF b1, b2, b3, b4, b5, b6
<1>21. /\ ll => Takes(b6, k, k + 2)
       /\ d => Takes(b6, k, k + 1)
       /\ ~ll /\ ~d => Fails(b6, k)
  BY <1>7, <1>10, <1>11, <1>15, Zenon DEF Tried
<1>22. /\ ll => Takes(b5, k, k + 2)
       /\ d \/ m => Takes(b5, k, k + 1)
       /\ ~ll /\ ~d /\ ~m => Fails(b5, k)
  BY <1>6, <1>11, <1>16, <1>21, Zenon DEF Tried
<1>23. /\ ll \/ ve => Takes(b4, k, k + 2)
       /\ d \/ m => Takes(b4, k, k + 1)
       /\ ~ll /\ ~d /\ ~m /\ ~ve => Fails(b4, k)
  BY <1>9, <1>11, <1>17, <1>22, Zenon DEF Tried
<1>24. /\ ll \/ ve \/ re => Takes(b3, k, k + 2)
       /\ d \/ m => Takes(b3, k, k + 1)
       /\ ~ll /\ ~d /\ ~m /\ ~ve /\ ~re => Fails(b3, k)
  BY <1>8, <1>11, <1>18, <1>23, Zenon DEF Tried
<1>25. /\ ll \/ ve \/ re => Takes(b2, k, k + 2)
       /\ d \/ m \/ tt => Takes(b2, k, k + 1)
       /\ ~ll /\ ~d /\ ~m /\ ~ve /\ ~re /\ ~tt => Fails(b2, k)
  BY <1>5, <1>11, <1>19, <1>24, Zenon DEF Tried
<1>26. /\ ll \/ ve \/ re \/ long => Takes(b1, k, k + 2)
       /\ d \/ m \/ tt \/ s => Takes(b1, k, k + 1)
       /\ ~ll /\ ~d /\ ~m /\ ~ve /\ ~re /\ ~tt /\ ~s /\ ~long => Fails(b1, k)
  BY <1>4, <1>11, <1>20, <1>25, Zenon DEF Tried
<1>27. b1 \in Pattern(Position)
  BY <1>20 DEF Tried, P
<1> QED BY <1>12, <1>13, <1>26, <1>27 DEF Fails, long

\* An optional prefix is tried first.
LEMMA OptThen ==
  ASSUME NEW P, NEW p \in Pattern(P), NEW q \in Pattern(P), NEW k \in P
  PROVE  /\ Then(Opt(p), q) \in Pattern(P)
         /\ Fails(p, k) => Then(Opt(p), q)[k] = q[k]
         /\ \A m \in P : p[k] = <<m>> =>
              /\ \A e : Takes(q, m, e) => Takes(Then(Opt(p), q), k, e)
              /\ Fails(q, m) => Then(Opt(p), q)[k] = q[k]
<1>1. Opt(p) \in Pattern(P) /\ Then(Opt(p), q) \in Pattern(P)
  <2>1. Opt(p) \in Pattern(P)
    BY PatternType
  <2> QED BY <2>1, PatternType
<1>2. /\ Fails(p, k) => Opt(p)[k] = <<k>>
      /\ Opt(p)[k] = p[k] \o <<k>>
  BY OptIs
<1>3. Fails(p, k) => Then(Opt(p), q)[k] = q[k]
  BY <1>1, <1>2, AndThen
<1>4. ASSUME NEW m \in P, p[k] = <<m>>
      PROVE  Then(Opt(p), q)[k] = q[m] \o q[k]
  <2> DEFINE x == <<m>>
             y == <<k>>
             o == Opt(p)
  <2>1. x \in Seq(P) /\ y \in Seq(P) /\ o[k] = x \o y
    BY <1>2, <1>4
  <2>2. q[m] \in Seq(P) /\ q[k] \in Seq(P) /\ DOMAIN o = P
    BY <1>1, PatternType
  <2>3. Onward(q, x) = q[m] /\ Onward(q, y) = q[k]
    BY <2>2, OnwardOne
  <2> HIDE DEF x, y, o
  <2>4. Then(o, q)[k] = Onward(q, x \o y)
    BY <2>1, <2>2 DEF Then
  <2>5. Onward(q, x \o y) = Onward(q, x) \o Onward(q, y)
    <3>1. \A u, w \in Seq(P) : Onward(q, u \o w) = Onward(q, u) \o Onward(q, w)
      BY OnwardConcat, Zenon
    <3> QED BY <2>1, <3>1, Zenon
  <2> QED BY <2>3, <2>4, <2>5 DEF o
<1>5. ASSUME NEW m \in P, p[k] = <<m>>
      PROVE  /\ \A e : Takes(q, m, e) => Takes(Then(Opt(p), q), k, e)
             /\ Fails(q, m) => Then(Opt(p), q)[k] = q[k]
  <2> DEFINE x == q[m]
             y == q[k]
  <2>1. x \in Seq(P) /\ y \in Seq(P)
    BY PatternType
  <2>2. Then(Opt(p), q)[k] = x \o y
    BY <1>4, <1>5
  <2> HIDE DEF x, y
  <2>3. /\ x = <<>> => x \o y = y
        /\ x # <<>> => x \o y # <<>> /\ Head(x \o y) = Head(x)
    BY <2>1, Heads
  <2> QED BY <2>2, <2>3 DEF Takes, Fails, x, y
<1> QED BY <1>1, <1>3, <1>5

----------------------------------------------------------------------------
(* The places the regex names, and the tests of the code.                  *)

\* The regex's sets of characters are the tests the code makes.
LEMMA PlacesAre ==
  ASSUME t \in Seq(Byte), NEW k \in Place
  PROVE  /\ \A c : k \in OfClass(c) <=> c \in ClassAt(k)
         /\ k \in SymbolAt <=> IsSymbol(k)
         /\ k \in PrefixAt <=> ClassAt(k) \cap {"L", "N", "NL"} = {}
         /\ k \in NewlineAt <=> t[k] \in Newlines
         /\ k \in NewlineAt <=> "NL" \in ClassAt(k)
         /\ k \in NewlineAt => After(k) = k + 1 /\ "S" \in ClassAt(k)
<1>1. k \in 1..Len(t)
  BY PlaceIs
<1>2. /\ "NL" \in ClassAt(k) <=> k \in NewlineAt
      /\ k \in NewlineAt <=> t[k] \in Newlines
      /\ k \in NewlineAt => After(k) = k + 1 /\ "S" \in ClassAt(k)
  BY <1>1, NewlineIs
<1>3. k \in NewlineAt <=> Cp(k) \in Newlines
  BY DEF NewlineAt
<1>4. k \in SymbolAt <=> IsSymbol(k)
  BY DEF SymbolAt, IsSymbol
<1>5. k \in PrefixAt <=> ClassAt(k) \cap {"L", "N", "NL"} = {}
  BY <1>2, <1>3 DEF PrefixAt
<1> QED BY <1>2, <1>4, <1>5 DEF OfClass

\* All of them are sets of places of the text.
LEMMA SetsOfPlaces ==
  /\ \A c : OfClass(c) \in SUBSET Place
  /\ SymbolAt \in SUBSET Place /\ NewlineAt \in SUBSET Place /\ PrefixAt \in SUBSET Place
  /\ \A x : {k \in Place : Cp(k) = x} \in SUBSET Place
  BY DEF OfClass, SymbolAt, NewlineAt, PrefixAt

\* The quote and the space of the regex are the bytes the code compares with.
LEMMA QuoteSpace ==
  ASSUME t \in Seq(Byte), NEW k \in Place
  PROVE  /\ Cp(k) = Quote <=> t[k] = Quote
         /\ Cp(k) = Space <=> t[k] = Space
         /\ t[k] = Quote => After(k) = k + 1 /\ ClassAt(k) \cap {"L", "N", "S"} = {}
         /\ t[k] = Space => "S" \in ClassAt(k) /\ "L" \notin ClassAt(k) /\ "N" \notin ClassAt(k)
<1>1. /\ 39 \in Nat /\ 39 < 128 /\ 39 \in 0..127 /\ 32 \in Nat /\ 32 < 128 /\ 32 \in 0..127
      /\ 39 \notin 65..90 \cup 97..122 /\ 39 \notin 48..57 /\ 39 \notin 9..13 \cup {32}
      /\ 32 \notin 65..90 \cup 97..122 /\ 32 \notin 48..57 /\ 32 \in 9..13 \cup {32}
  OBVIOUS
<1>2. /\ Cp(k) = 39 <=> t[k] = 39
      /\ t[k] = 39 => After(k) = k + 1 /\ ClassAt(k) = Class(39)
  BY <1>1, CpIs
<1>3. /\ Cp(k) = 32 <=> t[k] = 32
      /\ t[k] = 32 => ClassAt(k) = Class(32)
  BY <1>1, CpIs
<1>4. "L" \notin Class(39) /\ "N" \notin Class(39) /\ "S" \notin Class(39)
  BY <1>1, ClassAssumption
<1>5. "L" \notin Class(32) /\ "N" \notin Class(32) /\ "S" \in Class(32)
  BY <1>1, ClassAssumption
<1> QED BY <1>2, <1>3, <1>4, <1>5 DEF Quote, Space

----------------------------------------------------------------------------
(* The first four alternatives where the code tries them.                  *)

\* The code's test for a contraction decides A1.
LEMMA A1At ==
  ASSUME t \in Seq(Byte), i \in Place
  PROVE  /\ A1 \in Pattern(Position)
         /\ IsContraction => Takes(A1, i, i + ContractionLen)
         /\ ~IsContraction => Fails(A1, i)
<1> DEFINE Q == {k \in Place : Cp(k) = Quote}
           q == One(Q)
           c == Contracted
<1>1. A1 = Then(q, c)
  BY DEF A1, Char, Contracted
<1>2. /\ q \in Pattern(Position)
      /\ \A k \in Q : q[k] = <<After(k)>>
      /\ \A k \in Position \ Q : Fails(q, k)
  BY OneIs
<1>3. i \in Position /\ i \in Nat /\ Len(t) \in Nat /\ After(i) \in Position
  BY PlaceIs
<1>4. c \in Pattern(Position)
  BY <1>3, ContractedIs
<1>5. i \in Q <=> t[i] = Quote
  BY QuoteSpace
<1> HIDE DEF Q, q, c
<1>6. A1 \in Pattern(Position)
  BY <1>1, <1>2, <1>4, PatternType
<1>7. ASSUME t[i] # Quote PROVE Fails(A1, i) /\ ~IsContraction
  <2>1. Fails(q, i)
    BY <1>2, <1>3, <1>5, <1>7
  <2> QED BY <1>1, <1>2, <1>3, <1>4, <1>7, <2>1, AndThen DEF IsContraction
<1>8. ASSUME t[i] = Quote
      PROVE  /\ IsContraction => Takes(A1, i, i + ContractionLen)
             /\ ~IsContraction => Fails(A1, i)
  <2> DEFINE k == i + 1
             short == \E x \in {115, 116, 109, 100} : Letter(k, x)
             pair == \E p \in {<<114, 101>>, <<118, 101>>, <<108, 108>>} :
                       Letter(k, p[1]) /\ Letter(k + 1, p[2])
  <2>1. After(i) = k /\ k \in Position
    BY <1>3, <1>8, QuoteSpace
  <2>2. k + 1 = i + 2 /\ i + 2 = k + 1 /\ i + 3 = k + 2
    BY <1>3
  <2>3. /\ short => Takes(c, k, k + 1)
        /\ LongS(k) => Takes(c, k, k + 2)
        /\ pair => Takes(c, k, k + 2)
        /\ c[k] = <<>> \/ short \/ LongS(k) \/ pair
    BY <2>1, ContractedIs DEF c
  <2>4. ContractionLen = IF short THEN 2 ELSE IF LongS(k) THEN 3 ELSE IF pair THEN 3 ELSE 0
    <3>1. LongS(k) <=> Within(i + 2) /\ t[i + 1] = 197 /\ t[i + 2] = 191
      BY <2>2 DEF LongS
    <3>2. pair <=> \E p \in {<<114, 101>>, <<118, 101>>, <<108, 108>>} :
                     Letter(i + 1, p[1]) /\ Letter(i + 2, p[2])
      BY <2>2
    <3> QED BY <3>1, <3>2, SMT DEF ContractionLen
  <2>5. A1[i] = c[k]
    <3>1. q[i] = <<k>>
      BY <1>2, <1>5, <1>8, <2>1
    <3> QED BY <1>1, <1>2, <1>3, <1>4, <2>1, <3>1, AndThen
  <2> HIDE DEF short, pair, k
  <2>6. IsContraction <=> ContractionLen > 0
    BY <1>8 DEF IsContraction
  <2>7. CASE short
    BY <2>2, <2>3, <2>4, <2>5, <2>6, <2>7 DEF Takes
  <2>8. CASE ~short /\ (LongS(k) \/ pair)
    BY <2>2, <2>3, <2>4, <2>5, <2>6, <2>8 DEF Takes
  <2>9. CASE ~short /\ ~LongS(k) /\ ~pair
    BY <2>3, <2>4, <2>5, <2>6, <2>9 DEF Fails
  <2> QED BY <2>7, <2>8, <2>9
<1> QED BY <1>6, <1>7, <1>8

LetterAt == OfClass("L")
SpaceAt == OfClass("S")

\* Where a span goes from k: the end of its letters; of its symbols, CRs and LFs.
LettersEnd(k) == Furthest(LetterAt, k)
NewlinesEnd(k) == Furthest(NewlineAt, k)
SymbolsEnd(k) == NewlinesEnd(Furthest(SymbolAt, k))

\* A position where a character can be decoded is a place.
LEMMA WithinIs ==
  ASSUME t \in Seq(Byte), NEW k \in Position
  PROVE  Within(k) <=> k \in Place
  BY PlaceIs DEF Within

\* The branches for a letter and for a prefixed word decide A2.
LEMMA A2At ==
  ASSUME t \in Seq(Byte), i \in Place
  PROVE  /\ A2 \in Pattern(Position)
         /\ IsLetter(i) => Takes(A2, i, LettersEnd(After(i)))
         /\ IsPrefixedWord => Takes(A2, i, LettersEnd(After(After(i))))
         /\ ~IsLetter(i) /\ ~IsPrefixedWord => Fails(A2, i)
<1> DEFINE p == One(PrefixAt)
           w == Plus(One(LetterAt))
           next == After(i)
<1>1. A2 = Then(Opt(p), w)
  BY DEF A2, LetterAt
<1>2. /\ p \in Pattern(Position)
      /\ \A k \in PrefixAt : p[k] = <<After(k)>>
      /\ \A k \in Position \ PrefixAt : Fails(p, k)
  BY SetsOfPlaces, OneIs
<1>3. LetterAt \in SUBSET Place
  BY SetsOfPlaces DEF LetterAt
<1>4. /\ w \in Pattern(Position)
      /\ \A k \in LetterAt : w[k] = Star(One(LetterAt))[After(k)]
      /\ \A k \in Position \ LetterAt : Fails(w, k)
  BY <1>3, PlusIs
<1>5. i \in Position /\ next \in Position
  BY PlaceIs
<1>6. ASSUME NEW k \in LetterAt PROVE Takes(w, k, LettersEnd(After(k)))
  <2>1. After(k) \in Position
    BY <1>3, PlaceIs
  <2>2. Takes(Star(One(LetterAt)), After(k), LettersEnd(After(k)))
    BY <1>3, <2>1, FurthestIs DEF LettersEnd
  <2> QED BY <1>4, <2>2 DEF Takes
<1>7. \A k \in Place : k \in LetterAt <=> IsLetter(k)
  BY PlacesAre DEF LetterAt, IsLetter
<1>8. /\ i \in PrefixAt <=> ClassAt(i) \cap {"L", "N", "NL"} = {}
      /\ Within(next) <=> next \in Place
  BY <1>5, PlacesAre, WithinIs
<1>9. IsPrefixedWord <=> i \in PrefixAt /\ next \in LetterAt
  <2>1. next \in LetterAt => next \in Place
    BY <1>3
  <2> QED BY <1>7, <1>8, <2>1 DEF IsPrefixedWord
<1>10. i \in PrefixAt => ~IsLetter(i)
  BY <1>8 DEF IsLetter
<1> HIDE DEF p, w, next
<1>11. /\ A2 \in Pattern(Position)
       /\ Fails(p, i) => A2[i] = w[i]
       /\ \A m \in Position : p[i] = <<m>> =>
            /\ \A e : Takes(w, m, e) => Takes(A2, i, e)
            /\ Fails(w, m) => A2[i] = w[i]
  BY <1>1, <1>2, <1>4, <1>5, OptThen
<1>12. i \in PrefixAt => p[i] = <<next>>
  BY <1>2 DEF next
<1>13. CASE i \notin PrefixAt
  <2>1. A2[i] = w[i]
    BY <1>2, <1>5, <1>11, <1>13
  <2>2. IsLetter(i) => Takes(A2, i, LettersEnd(After(i)))
    BY <1>6, <1>7, <2>1 DEF Takes
  <2>3. ~IsLetter(i) => Fails(A2, i)
    BY <1>4, <1>5, <1>7, <2>1 DEF Fails
  <2> QED BY <1>9, <1>11, <1>13, <2>2, <2>3
<1>14. CASE i \in PrefixAt /\ next \in LetterAt
  <2>1. Takes(w, next, LettersEnd(After(next)))
    BY <1>6, <1>14
  <2>2. Takes(A2, i, LettersEnd(After(next)))
    BY <1>5, <1>11, <1>12, <1>14, <2>1
  <2> QED BY <1>9, <1>10, <1>11, <1>14, <2>2 DEF next
<1>15. CASE i \in PrefixAt /\ next \notin LetterAt
  <2>1. Fails(w, next) /\ Fails(w, i)
    BY <1>4, <1>5, <1>7, <1>10, <1>15
  <2>2. A2[i] = w[i]
    BY <1>5, <1>11, <1>12, <1>15, <2>1
  <2>3. Fails(A2, i)
    BY <2>1, <2>2 DEF Fails
  <2> QED BY <1>9, <1>10, <1>11, <1>15, <2>3
<1> QED BY <1>13, <1>14, <1>15

\* The branch for a number decides A3.
LEMMA A3At ==
  ASSUME t \in Seq(Byte), i \in Place
  PROVE  /\ A3 \in Pattern(Position)
         /\ IsNumber(i) => Takes(A3, i, After(i))
         /\ ~IsNumber(i) => Fails(A3, i)
<1>1. OfClass("N") \in SUBSET Place
  BY SetsOfPlaces
<1>2. /\ A3 \in Pattern(Position)
      /\ \A k \in OfClass("N") : A3[k] = <<After(k)>>
      /\ \A k \in Position \ OfClass("N") : Fails(A3, k)
  BY <1>1, OneIs DEF A3
<1>3. i \in Position /\ (i \in OfClass("N") <=> IsNumber(i))
  BY PlaceIs, PlacesAre DEF IsNumber
<1>4. \A e : <<e>> # <<>> /\ Head(<<e>>) = e
  OBVIOUS
<1>5. IsNumber(i) => Takes(A3, i, After(i))
  BY <1>2, <1>3, <1>4, Zenon DEF Takes
<1> QED BY <1>2, <1>3, <1>5

\* The symbols of A4 and what follows them.
SymbolsOn == Then(Plus(One(SymbolAt)), Star(One(NewlineAt)))

\* Symbols, and the newlines after them, in the longest run of each.
LEMMA SymbolsOnAt ==
  ASSUME t \in Seq(Byte)
  PROVE  /\ SymbolsOn \in Pattern(Position)
         /\ \A k \in SymbolAt : Takes(SymbolsOn, k, SymbolsEnd(After(k)))
         /\ \A k \in Position \ SymbolAt : Fails(SymbolsOn, k)
<1> DEFINE p == Plus(One(SymbolAt))
           q == Star(One(NewlineAt))
<1>1. SymbolAt \in SUBSET Place /\ NewlineAt \in SUBSET Place
  BY SetsOfPlaces
<1>2. /\ p \in Pattern(Position)
      /\ \A k \in SymbolAt : p[k] = Star(One(SymbolAt))[After(k)]
      /\ \A k \in Position \ SymbolAt : Fails(p, k)
  BY <1>1, PlusIs
<1>3. q \in Pattern(Position)
  BY <1>1, StarIs
<1>4. \A k \in Position : /\ Takes(Star(One(SymbolAt)), k, Furthest(SymbolAt, k))
                          /\ Furthest(SymbolAt, k) \in Position
  BY <1>1, FurthestIs
<1>5. \A k \in Position : Takes(q, k, NewlinesEnd(k))
  BY <1>1, FurthestIs DEF NewlinesEnd
<1> HIDE DEF p, q
<1>6. SymbolsOn = Then(p, q) /\ SymbolsOn \in Pattern(Position)
  <2>1. SymbolsOn = Then(p, q)
    BY DEF SymbolsOn, p, q
  <2> QED BY <1>2, <1>3, <2>1, PatternType
<1>7. ASSUME NEW k \in SymbolAt PROVE Takes(SymbolsOn, k, SymbolsEnd(After(k)))
  <2> DEFINE m == Furthest(SymbolAt, After(k))
  <2>1. k \in Position /\ After(k) \in Position
    BY <1>1, PlaceIs
  <2>2. Takes(Star(One(SymbolAt)), After(k), m) /\ m \in Position
    BY <1>4, <2>1
  <2>3. Takes(p, k, m)
    BY <1>2, <2>2 DEF Takes
  <2>4. Takes(q, m, NewlinesEnd(m))
    BY <1>5, <2>2
  <2>5. SymbolsEnd(After(k)) = NewlinesEnd(m)
    BY DEF SymbolsEnd
  <2> HIDE DEF m
  <2> QED BY <1>2, <1>3, <1>6, <2>1, <2>3, <2>4, <2>5, AndThen
<1>8. ASSUME NEW k \in Position \ SymbolAt PROVE Fails(SymbolsOn, k)
  BY <1>2, <1>3, <1>6, AndThen
<1> QED BY <1>6, <1>7, <1>8

\* The branches for a symbol and for a space before one decide A4.
LEMMA A4At ==
  ASSUME t \in Seq(Byte), i \in Place
  PROVE  /\ A4 \in Pattern(Position)
         /\ IsSpacedSymbols => Takes(A4, i, SymbolsEnd(After(After(i))))
         /\ IsSymbol(i) => Takes(A4, i, SymbolsEnd(After(i)))
         /\ ~IsSymbol(i) /\ ~IsSpacedSymbols => Fails(A4, i)
<1> DEFINE X == {k \in Place : Cp(k) = Space}
           p == One(X)
           next == After(i)
<1>1. A4 = Then(Opt(p), SymbolsOn)
  BY DEF A4, SymbolsOn, Char
<1>2. /\ p \in Pattern(Position)
      /\ \A k \in X : p[k] = <<After(k)>>
      /\ \A k \in Position \ X : Fails(p, k)
  BY OneIs
<1>3. i \in Position /\ next \in Position
  BY PlaceIs
<1>4. /\ i \in X <=> t[i] = Space
      /\ i \in X => ~IsSymbol(i)
  BY QuoteSpace DEF IsSymbol
<1>5. i \in SymbolAt <=> IsSymbol(i)
  BY PlacesAre
<1>6. IsSpacedSymbols <=> i \in X /\ next \in SymbolAt
  <2>1. SymbolAt \in SUBSET Place
    BY SetsOfPlaces
  <2>2. Within(next) <=> next \in Place
    BY <1>3, WithinIs
  <2>3. next \in Place => (next \in SymbolAt <=> IsSymbol(next))
    BY PlacesAre
  <2> HIDE DEF X
  <2> QED BY <1>4, <2>1, <2>2, <2>3 DEF IsSpacedSymbols
<1> HIDE DEF X, p, next
<1>7. /\ SymbolsOn \in Pattern(Position)
      /\ \A k \in SymbolAt : Takes(SymbolsOn, k, SymbolsEnd(After(k)))
      /\ \A k \in Position \ SymbolAt : Fails(SymbolsOn, k)
  BY SymbolsOnAt
<1>8. /\ A4 \in Pattern(Position)
      /\ Fails(p, i) => A4[i] = SymbolsOn[i]
      /\ \A m \in Position : p[i] = <<m>> =>
           /\ \A e : Takes(SymbolsOn, m, e) => Takes(A4, i, e)
           /\ Fails(SymbolsOn, m) => A4[i] = SymbolsOn[i]
  BY <1>1, <1>2, <1>3, <1>7, OptThen
<1>9. i \in X => p[i] = <<next>>
  BY <1>2 DEF next
<1>10. CASE i \notin X
  <2>1. A4[i] = SymbolsOn[i]
    BY <1>2, <1>3, <1>8, <1>10
  <2>2. IsSymbol(i) => Takes(A4, i, SymbolsEnd(After(i)))
    BY <1>5, <1>7, <2>1 DEF Takes
  <2>3. ~IsSymbol(i) => Fails(A4, i)
    BY <1>3, <1>5, <1>7, <2>1 DEF Fails
  <2> QED BY <1>6, <1>8, <1>10, <2>2, <2>3
<1>11. CASE i \in X /\ next \in SymbolAt
  <2>1. Takes(SymbolsOn, next, SymbolsEnd(After(next)))
    BY <1>7, <1>11
  <2>2. Takes(A4, i, SymbolsEnd(After(next)))
    BY <1>3, <1>8, <1>9, <1>11, <2>1
  <2> QED BY <1>4, <1>6, <1>8, <1>11, <2>2 DEF next
<1>12. CASE i \in X /\ next \notin SymbolAt
  <2>1. Fails(SymbolsOn, next) /\ Fails(SymbolsOn, i)
    BY <1>3, <1>4, <1>5, <1>7, <1>12
  <2>2. A4[i] = SymbolsOn[i]
    BY <1>3, <1>8, <1>9, <1>12, <2>1
  <2>3. Fails(A4, i)
    BY <2>1, <2>2 DEF Fails
  <2> QED BY <1>4, <1>6, <1>8, <1>12, <2>3
<1> QED BY <1>10, <1>11, <1>12

----------------------------------------------------------------------------
(* The three alternatives of whitespace, while the code walks over it.     *)

\* All the ends of \s*, of the CRs and LFs behind it, and of the negative lookahead.
Spaces == Star(One(SpaceAt))
NewlinesOn == Plus(One(NewlineAt))
NotSpaceAhead == NotBefore(One(Place \ SpaceAt))

\* The three whitespace alternatives are made of these.
LEMMA SpacesAre ==
  ASSUME t \in Seq(Byte)
  PROVE  /\ Spaces \in Pattern(Position) /\ NewlinesOn \in Pattern(Position)
         /\ NotSpaceAhead \in Pattern(Position) /\ Plus(One(SpaceAt)) \in Pattern(Position)
         /\ \A k \in SpaceAt : /\ Spaces[k] = Spaces[After(k)] \o <<k>>
                             /\ Plus(One(SpaceAt))[k] = Spaces[After(k)]
         /\ \A k \in Position \ SpaceAt : Spaces[k] = <<k>>
         /\ \A k \in NewlineAt : Takes(NewlinesOn, k, NewlinesEnd(After(k)))
         /\ \A k \in Position \ NewlineAt : Fails(NewlinesOn, k) /\ NewlinesEnd(k) = k
         /\ \A k \in Position \ Place : NotSpaceAhead[k] = <<k>>
         /\ \A k \in SpaceAt : NotSpaceAhead[k] = <<k>>
         /\ \A k \in Place \ SpaceAt : Fails(NotSpaceAhead, k)
         /\ SpaceAt \in SUBSET Place /\ NewlineAt \in SUBSET SpaceAt
<1>1. SpaceAt \in SUBSET Place /\ NewlineAt \in SUBSET Place /\ Place \ SpaceAt \in SUBSET Place
  BY SetsOfPlaces DEF SpaceAt
<1>2. NewlineAt \in SUBSET SpaceAt
  BY <1>1, PlacesAre DEF SpaceAt
<1>3. /\ Spaces \in Pattern(Position)
      /\ \A k \in SpaceAt : Spaces[k] = Spaces[After(k)] \o <<k>>
      /\ \A k \in Position \ SpaceAt : Spaces[k] = <<k>>
  BY <1>1, StarIs DEF Spaces
<1>4. /\ Plus(One(SpaceAt)) \in Pattern(Position)
      /\ \A k \in SpaceAt : Plus(One(SpaceAt))[k] = Spaces[After(k)]
  BY <1>1, PlusIs DEF Spaces
<1>5. /\ NewlinesOn \in Pattern(Position)
      /\ \A k \in NewlineAt : NewlinesOn[k] = Star(One(NewlineAt))[After(k)]
      /\ \A k \in Position \ NewlineAt : Fails(NewlinesOn, k)
  BY <1>1, PlusIs DEF NewlinesOn
<1>6. /\ \A k \in Position \ NewlineAt : NewlinesEnd(k) = k
      /\ \A k \in Position : Takes(Star(One(NewlineAt)), k, NewlinesEnd(k))
  BY <1>1, FurthestIs DEF NewlinesEnd
<1>7. ASSUME NEW k \in NewlineAt PROVE Takes(NewlinesOn, k, NewlinesEnd(After(k)))
  <2>1. After(k) \in Position
    BY <1>1, PlaceIs
  <2> QED BY <1>5, <1>6, <2>1 DEF Takes
<1> DEFINE o == One(Place \ SpaceAt)
<1>8. /\ o \in Pattern(Position)
      /\ \A k \in Place \ SpaceAt : o[k] = <<After(k)>>
      /\ \A k \in Position \ (Place \ SpaceAt) : Fails(o, k)
  BY <1>1, OneIs
<1>9. NotSpaceAhead = NotBefore(o)
  BY DEF NotSpaceAhead
<1> HIDE DEF o
<1>10. DOMAIN o = Position /\ NotSpaceAhead \in Pattern(Position)
  BY <1>8, <1>9, PatternType
<1>11. \A k \in Position : NotSpaceAhead[k] = IF o[k] = <<>> THEN <<k>> ELSE <<>>
  BY <1>9, <1>10 DEF NotBefore
<1>12. \A k \in Place : k \in Position
  BY PlaceIs
<1>13. \A k \in Position \ Place : NotSpaceAhead[k] = <<k>>
  BY <1>8, <1>11 DEF Fails
<1>14. \A k \in SpaceAt : NotSpaceAhead[k] = <<k>>
  BY <1>1, <1>8, <1>11, <1>12 DEF Fails
<1>15. \A k \in Place \ SpaceAt : Fails(NotSpaceAhead, k)
  <2>1. \A e : <<e>> # <<>>
    OBVIOUS
  <2>2. \A k \in Place \ SpaceAt : o[k] # <<>>
    BY <1>8, <2>1, Zenon
  <2> QED BY <1>11, <1>12, <2>2 DEF Fails
<1> QED BY <1>1, <1>2, <1>3, <1>4, <1>5, <1>6, <1>7, <1>10, <1>13, <1>14, <1>15

\* They are patterns.
LEMMA WhitespaceType ==
  ASSUME t \in Seq(Byte)
  PROVE  A5 \in Pattern(Position) /\ A6 \in Pattern(Position) /\ A7 \in Pattern(Position)
<1>1. /\ A5 = Then(Spaces, NewlinesOn) /\ A6 = Then(Plus(One(SpaceAt)), NotSpaceAhead)
      /\ A7 = Plus(One(SpaceAt))
  BY DEF A5, A6, A7, Spaces, NewlinesOn, NotSpaceAhead, SpaceAt
<1>2. /\ Spaces \in Pattern(Position) /\ NewlinesOn \in Pattern(Position)
      /\ NotSpaceAhead \in Pattern(Position) /\ Plus(One(SpaceAt)) \in Pattern(Position)
  BY SpacesAre
<1> QED BY <1>1, <1>2, PatternType

\* The walk from a has reached b, and c is where the last CR or LF ends: of the
\* ends behind b, those that A5 goes on from lead it there.
NewlineCut(a, b, c) ==
  \E r \in Seq(Position) :
    /\ Spaces[a] = Spaces[b] \o r
    /\ c = 0 => Onward(NewlinesOn, r) = <<>>
    /\ c # 0 => /\ c \in Position /\ (c = b \/ c \notin NewlineAt)
                /\ Onward(NewlinesOn, r) # <<>> /\ Head(Onward(NewlinesOn, r)) = NewlinesEnd(c)

\* Of n characters the last starts at l: the end that A6 gives back to.
GiveBack(a, b, n, l) ==
  b # a => \E r \in Seq(Position) :
             /\ Plus(One(SpaceAt))[a] = Spaces[b] \o r
             /\ n >= 2 => r # <<>> /\ Head(r) = l /\ l \in SpaceAt
             /\ ~(n >= 2) => r = <<>>

\* Nothing has been walked at the start.
LEMMA WalkStarts ==
  ASSUME t \in Seq(Byte), NEW a \in Position, NEW n, NEW l
  PROVE  NewlineCut(a, a, 0) /\ GiveBack(a, a, n, l)
<1>1. <<>> \in Seq(Position) /\ Onward(NewlinesOn, <<>>) = <<>>
  BY OnwardEmpty
<1> DEFINE x == Spaces[a]
<1>2. x \in Seq(Position)
  BY SpacesAre DEF Pattern, Maps
<1> HIDE DEF x
<1>3. x = x \o <<>>
  BY <1>2
<1>4. NewlineCut(a, a, 0)
  BY <1>1, <1>3 DEF NewlineCut, x
<1>5. GiveBack(a, a, n, l)
  BY DEF GiveBack
<1> QED BY <1>4, <1>5

\* What is behind one place more.
LEMMA Behind ==
  ASSUME NEW P, NEW x \in Seq(P), NEW b \in P, NEW r \in Seq(P)
  PROVE  /\ <<b>> \o r \in Seq(P) /\ <<b>> \o r # <<>> /\ Head(<<b>> \o r) = b
         /\ (x \o <<b>>) \o r = x \o (<<b>> \o r)
<1> DEFINE y == <<b>>
<1>1. y \in Seq(P) /\ y # <<>> /\ Head(y) = b
  OBVIOUS
<1> HIDE DEF y
<1>2. y \o r \in Seq(P) /\ y \o r # <<>> /\ Head(y \o r) = b
  BY <1>1, Heads
<1>3. (x \o y) \o r = x \o (y \o r)
  BY <1>1, Associates
<1> QED BY <1>2, <1>3 DEF y

\* A way that fails leaves the ways behind it; one that succeeds comes first.
LEMMA OnwardBehind ==
  ASSUME NEW P, NEW p \in Pattern(P), NEW b \in P, NEW r \in Seq(P)
  PROVE  /\ Onward(p, <<b>> \o r) \in Seq(P)
         /\ Fails(p, b) => Onward(p, <<b>> \o r) = Onward(p, r)
         /\ \A e : Takes(p, b, e) =>
              Onward(p, <<b>> \o r) # <<>> /\ Head(Onward(p, <<b>> \o r)) = e
<1> DEFINE y == <<b>>
           u == p[b]
           w == Onward(p, r)
<1>1. y \in Seq(P) /\ u \in Seq(P)
  BY DEF Pattern, Maps
<1>2. Onward(p, y) = u
  BY <1>1, OnwardOne
<1> HIDE DEF y, u
<1>3. Onward(p, y \o r) = Onward(p, y) \o Onward(p, r) /\ w \in Seq(P)
  <2>1. \A k, l \in Seq(P) : Onward(p, k \o l) = Onward(p, k) \o Onward(p, l)
    BY OnwardConcat, Zenon
  <2>2. \A k \in Seq(P) : Onward(p, k) \in Seq(P)
    BY OnwardConcat, Zenon
  <2> QED BY <1>1, <2>1, <2>2, Zenon
<1>4. Onward(p, y \o r) = u \o w
  BY <1>2, <1>3
<1> HIDE DEF w
<1>5. /\ u \o w \in Seq(P)
      /\ u = <<>> => u \o w = w
      /\ u # <<>> => u \o w # <<>> /\ Head(u \o w) = Head(u)
  BY <1>1, <1>3, Heads
<1> QED BY <1>4, <1>5 DEF y, u, w, Fails, Takes

\* One more whitespace character keeps both counts: what A5 would take so far, and what
\* A6 would give back.
LEMMA WalkGoesOn ==
  ASSUME t \in Seq(Byte), NEW a \in Position, NEW b \in SpaceAt, NEW c, NEW n \in Nat, NEW l,
         NewlineCut(a, b, c), GiveBack(a, b, n, l), b = a <=> n = 0
  PROVE  /\ NewlineCut(a, After(b), IF b \in NewlineAt THEN After(b) ELSE c)
         /\ GiveBack(a, After(b), n + 1, b)
<1> DEFINE next == After(b)
           x == Spaces[next]
           y == <<b>>
<1>1. b \in Position /\ next \in Position /\ b # next /\ 0 \notin Position
  <2>1. SpaceAt \in SUBSET Place
    BY SpacesAre
  <2>2. b \in Position /\ next \in Position /\ b < next /\ 0 \notin Position /\ b \in Nat
    BY <2>1, PlaceIs
  <2> QED BY <2>2
<1>2. x \in Seq(Position) /\ Spaces[b] = x \o y /\ Plus(One(SpaceAt))[b] = x
  BY <1>1, SpacesAre DEF Pattern, Maps
<1> HIDE DEF x, next
<1>3. NewlineCut(a, next, IF b \in NewlineAt THEN next ELSE c)
  <2>1. PICK r \in Seq(Position) :
          /\ Spaces[a] = Spaces[b] \o r
          /\ c = 0 => Onward(NewlinesOn, r) = <<>>
          /\ c # 0 => /\ c \in Position /\ (c = b \/ c \notin NewlineAt)
                      /\ Onward(NewlinesOn, r) # <<>> /\ Head(Onward(NewlinesOn, r)) = NewlinesEnd(c)
    BY DEF NewlineCut
  <2> DEFINE z == y \o r
  <2>2. z \in Seq(Position) /\ Spaces[a] = x \o z
    BY <1>1, <1>2, <2>1, Behind
  <2>3. NewlinesOn \in Pattern(Position)
    BY SpacesAre
  <2>4. /\ Fails(NewlinesOn, b) => Onward(NewlinesOn, z) = Onward(NewlinesOn, r)
        /\ \A e : Takes(NewlinesOn, b, e) =>
              Onward(NewlinesOn, z) # <<>> /\ Head(Onward(NewlinesOn, z)) = e
    BY <1>1, <2>3, OnwardBehind
  <2> HIDE DEF y, z
  <2>5. CASE b \in NewlineAt
    <3>1. Takes(NewlinesOn, b, NewlinesEnd(next))
      BY <2>5, SpacesAre DEF next
    <3>2. Onward(NewlinesOn, z) # <<>> /\ Head(Onward(NewlinesOn, z)) = NewlinesEnd(next)
      BY <2>4, <3>1
    <3>3. NewlineCut(a, next, next)
      BY <1>1, <2>2, <3>2 DEF NewlineCut, x
    <3> QED BY <2>5, <3>3
  <2>6. CASE b \notin NewlineAt
    <3>1. Fails(NewlinesOn, b)
      BY <1>1, <2>6, SpacesAre
    <3>2. Onward(NewlinesOn, z) = Onward(NewlinesOn, r)
      BY <2>4, <3>1
    <3>3. NewlineCut(a, next, c)
      BY <2>1, <2>2, <2>6, <3>2 DEF NewlineCut, x
    <3> QED BY <2>6, <3>3
  <2> QED BY <2>5, <2>6
<1>4. GiveBack(a, next, n + 1, b)
  <2>1. CASE b = a
    <3>1. n = 0 /\ ~(n + 1 >= 2)
      BY <2>1
    <3>2. <<>> \in Seq(Position) /\ x \o <<>> = x
      BY <1>2
    <3>3. Plus(One(SpaceAt))[a] = Spaces[next] \o <<>>
      BY <1>2, <2>1, <3>2 DEF x
    <3> QED BY <3>1, <3>2, <3>3 DEF GiveBack
  <2>2. CASE b # a
    <3>1. PICK r \in Seq(Position) : Plus(One(SpaceAt))[a] = Spaces[b] \o r
      BY <2>2 DEF GiveBack
    <3>2. y \o r \in Seq(Position) /\ y \o r # <<>> /\ Head(y \o r) = b /\ (x \o y) \o r = x \o (y \o r)
      BY <1>1, <1>2, Behind
    <3>3. n + 1 >= 2
      BY <2>2
    <3> DEFINE z == y \o r
    <3>4. z \in Seq(Position) /\ z # <<>> /\ Head(z) = b /\ Plus(One(SpaceAt))[a] = x \o z
      BY <1>2, <3>1, <3>2
    <3> HIDE DEF y, z
    <3> QED BY <3>3, <3>4 DEF GiveBack, x
  <2> QED BY <2>1, <2>2
<1> QED BY <1>3, <1>4 DEF next

\* The alternatives for whitespace at a, once the walk has stopped at b.
LEMMA WalkEnds ==
  ASSUME t \in Seq(Byte), NEW a \in Position, NEW b \in Position \ SpaceAt,
         NEW c, NEW n \in Nat, NEW l,
         NewlineCut(a, b, c), GiveBack(a, b, n, l), b # a
  PROVE  /\ c # 0 => Takes(A5, a, c)
         /\ c = 0 => Fails(A5, a)
         /\ ~Within(b) => Takes(A6, a, b)
         /\ Within(b) /\ n >= 2 => Takes(A6, a, l)
         /\ Within(b) /\ ~(n >= 2) => Fails(A6, a) /\ Takes(A7, a, b)
<1> DEFINE p == Spaces
           q == Plus(One(SpaceAt))
           y == <<b>>
<1>1. A5 = Then(p, NewlinesOn) /\ A6 = Then(q, NotSpaceAhead) /\ A7 = q
  BY DEF A5, A6, A7, Spaces, NewlinesOn, NotSpaceAhead, SpaceAt
<1>2. /\ p \in Pattern(Position) /\ q \in Pattern(Position)
      /\ NewlinesOn \in Pattern(Position) /\ NotSpaceAhead \in Pattern(Position)
  BY SpacesAre
<1>3. p[b] = y /\ b \notin NewlineAt
  BY SpacesAre
<1>4. Within(b) <=> b \in Place
  BY WithinIs
<1> HIDE DEF p, q
<1>5. /\ A5 \in Pattern(Position) /\ A6 \in Pattern(Position) /\ A7 \in Pattern(Position)
      /\ DOMAIN p = Position /\ DOMAIN q = Position
  BY <1>2, WhitespaceType, PatternType
<1>6. A5[a] = Onward(NewlinesOn, p[a]) /\ A6[a] = Onward(NotSpaceAhead, q[a]) /\ A7[a] = q[a]
  BY <1>1, <1>5 DEF Then
<1>7. (c # 0 => Takes(A5, a, c)) /\ (c = 0 => Fails(A5, a))
  <2>1. PICK r \in Seq(Position) :
          /\ p[a] = p[b] \o r
          /\ c = 0 => Onward(NewlinesOn, r) = <<>>
          /\ c # 0 => /\ c \in Position /\ (c = b \/ c \notin NewlineAt)
                      /\ Onward(NewlinesOn, r) # <<>> /\ Head(Onward(NewlinesOn, r)) = NewlinesEnd(c)
    BY DEF NewlineCut, p
  <2>2. Fails(NewlinesOn, b)
    BY <1>3, SpacesAre
  <2>3. Onward(NewlinesOn, y \o r) = Onward(NewlinesOn, r)
    BY <1>2, <2>2, OnwardBehind
  <2> HIDE DEF y
  <2>4. A5[a] = Onward(NewlinesOn, r)
    BY <1>3, <1>6, <2>1, <2>3
  <2>5. c # 0 => NewlinesEnd(c) = c
    BY <1>3, <2>1, SpacesAre
  <2> QED BY <2>1, <2>4, <2>5 DEF Takes, Fails
<1>8. PICK r \in Seq(Position) :
        /\ q[a] = y \o r
        /\ n >= 2 => r # <<>> /\ Head(r) = l /\ l \in SpaceAt
        /\ ~(n >= 2) => r = <<>>
  BY <1>3 DEF GiveBack, p, q
<1>9. A6[a] = Onward(NotSpaceAhead, y \o r) /\ A7[a] = y \o r
  BY <1>6, <1>8
<1>10. /\ Fails(NotSpaceAhead, b) => Onward(NotSpaceAhead, y \o r) = Onward(NotSpaceAhead, r)
       /\ \A e : Takes(NotSpaceAhead, b, e) =>
            Onward(NotSpaceAhead, y \o r) # <<>> /\ Head(Onward(NotSpaceAhead, y \o r)) = e
  BY <1>2, OnwardBehind
<1>11. y # <<>> /\ Head(y) = b /\ \A e : <<e>> # <<>> /\ Head(<<e>>) = e
  OBVIOUS
<1>12. y \o <<>> = y
  OBVIOUS
<1> HIDE DEF y
<1>13. ASSUME ~Within(b) PROVE Takes(A6, a, b)
  <2>1. NotSpaceAhead[b] = <<b>>
    BY <1>4, <1>13, SpacesAre
  <2>2. Takes(NotSpaceAhead, b, b)
    BY <1>11, <2>1, Zenon DEF Takes
  <2> QED BY <1>9, <1>10, <2>2 DEF Takes
<1>14. Within(b) => A6[a] = Onward(NotSpaceAhead, r)
  <2>1. b \in Place => Fails(NotSpaceAhead, b)
    BY SpacesAre
  <2> QED BY <1>4, <1>9, <1>10, <2>1
<1>15. ASSUME Within(b), n >= 2 PROVE Takes(A6, a, l)
  <2>1. NotSpaceAhead[l] = <<l>>
    BY <1>8, <1>15, SpacesAre
  <2>2. Takes(NotSpaceAhead, Head(r), l)
    BY <1>8, <1>11, <1>15, <2>1, Zenon DEF Takes
  <2>3. Onward(NotSpaceAhead, r) # <<>> /\ Head(Onward(NotSpaceAhead, r)) = l
    BY <1>2, <1>8, <1>15, <2>2, OnwardHead
  <2> QED BY <1>14, <1>15, <2>3 DEF Takes
<1>16. ASSUME Within(b), ~(n >= 2) PROVE Fails(A6, a) /\ Takes(A7, a, b)
  <2>1. r = <<>>
    BY <1>8, <1>16
  <2>2. Fails(A6, a)
    BY <1>14, <1>16, <2>1, OnwardEmpty DEF Fails
  <2>3. A7[a] = y
    BY <1>9, <1>12, <2>1
  <2>4. Takes(A7, a, b)
    BY <1>11, <2>3 DEF Takes
  <2> QED BY <2>2, <2>4
<1> QED BY <1>7, <1>13, <1>15, <1>16

\* The match of the regex is that of the first alternative that has one.
LEMMA RegexAt ==
  ASSUME NEW P, A1 \in Pattern(P), A2 \in Pattern(P), A3 \in Pattern(P), A4 \in Pattern(P),
         A5 \in Pattern(P), A6 \in Pattern(P), A7 \in Pattern(P), NEW k \in P, NEW e
  PROVE  /\ Takes(A1, k, e) => Takes(Regex, k, e)
         /\ Fails(A1, k) =>
              /\ Takes(A2, k, e) => Takes(Regex, k, e)
              /\ Fails(A2, k) =>
                   /\ Takes(A3, k, e) => Takes(Regex, k, e)
                   /\ Fails(A3, k) =>
                        /\ Takes(A4, k, e) => Takes(Regex, k, e)
                        /\ Fails(A4, k) =>
                             /\ Takes(A5, k, e) => Takes(Regex, k, e)
                             /\ Fails(A5, k) =>
                                  /\ Takes(A6, k, e) => Takes(Regex, k, e)
                                  /\ Fails(A6, k) => (Takes(A7, k, e) => Takes(Regex, k, e))
<1> DEFINE r6 == Or(A6, A7)
           r5 == Or(A5, r6)
           r4 == Or(A4, r5)
           r3 == Or(A3, r4)
           r2 == Or(A2, r3)
           r1 == Or(A1, r2)
           Tried(p, q, o) ==
             /\ o \in Pattern(P)
             /\ Takes(p, k, e) => Takes(o, k, e)
             /\ Fails(p, k) /\ Takes(q, k, e) => Takes(o, k, e)
<1>1. ASSUME NEW p \in Pattern(P), NEW q \in Pattern(P) PROVE Tried(p, q, Or(p, q))
  <2>1. Or(p, q) \in Pattern(P)
    BY PatternType
  <2> QED BY <2>1, OrElse
<1>2. Regex = r1
  BY DEF Regex
<1> HIDE DEF Tried
<1>3. Tried(A6, A7, r6)
  BY <1>1
<1>4. Tried(A5, r6, r5)
  BY <1>1, <1>3 DEF Tried
<1>5. Tried(A4, r5, r4)
  BY <1>1, <1>4 DEF Tried
<1>6. Tried(A3, r4, r3)
  BY <1>1, <1>5 DEF Tried
<1>7. Tried(A2, r3, r2)
  BY <1>1, <1>6 DEF Tried
<1>8. Tried(A1, r2, r1)
  BY <1>1, <1>7 DEF Tried
<1> HIDE DEF r1, r2, r3, r4, r5, r6
<1> QED BY <1>2, <1>3, <1>4, <1>5, <1>6, <1>7, <1>8, Zenon DEF Tried

----------------------------------------------------------------------------
(* A step leaves the text, and with it the regex, as it was.               *)

\* So are its characters,
LEMMA DecodeFrozen ==
  ASSUME t' = t, NEW k
  PROVE  /\ Cp(k)' = Cp(k) /\ After(k)' = After(k) /\ ClassAt(k)' = ClassAt(k)
         /\ Position' = Position /\ Place' = Place
<1>1. Cp(k)' = Cp(k)
  BY DEF Cp
<1>2. After(k)' = After(k)
  BY DEF After
<1>3. ClassAt(k)' = ClassAt(k)
  BY DEF ClassAt
<1>4. Position' = Position /\ Place' = Place
  BY DEF Position, Place
<1> QED BY <1>1, <1>2, <1>3, <1>4

\* the sets of places,
LEMMA SetsFrozen ==
  ASSUME t' = t
  PROVE  /\ \A c : OfClass(c)' = OfClass(c)
         /\ SymbolAt' = SymbolAt /\ NewlineAt' = NewlineAt /\ PrefixAt' = PrefixAt
<1>1. ASSUME NEW c PROVE OfClass(c)' = OfClass(c)
  <2>1. Place' = Place /\ \A k : ClassAt(k)' = ClassAt(k)
    BY DecodeFrozen
  <2> QED BY <2>1 DEF OfClass
<1>2. SymbolAt' = SymbolAt
  <2>1. Place' = Place /\ \A k : ClassAt(k)' = ClassAt(k)
    BY DecodeFrozen
  <2> QED BY <2>1 DEF SymbolAt
<1>3. NewlineAt' = NewlineAt
  <2>1. Place' = Place /\ \A k : Cp(k)' = Cp(k)
    BY DecodeFrozen
  <2> QED BY <2>1 DEF NewlineAt
<1>4. PrefixAt' = PrefixAt
  <2>1. Place' = Place /\ \A k : ClassAt(k)' = ClassAt(k) /\ Cp(k)' = Cp(k)
    BY DecodeFrozen
  <2> QED BY <2>1 DEF PrefixAt
<1> QED BY <1>1, <1>2, <1>3, <1>4

\* the patterns of one character,
LEMMA OnesFrozen ==
  ASSUME t' = t
  PROVE  /\ \A c : One(OfClass(c))' = One(OfClass(c))
         /\ One(SymbolAt)' = One(SymbolAt) /\ One(NewlineAt)' = One(NewlineAt)
         /\ One(PrefixAt)' = One(PrefixAt)
         /\ One(Place \ OfClass("S"))' = One(Place \ OfClass("S"))
         /\ \A x : Char(x)' = Char(x) /\ AnyCase(x)' = AnyCase(x)
<1>1. Position' = Position /\ Place' = Place /\ \A k : After(k)' = After(k) /\ Cp(k)' = Cp(k)
  BY DecodeFrozen
<1>2. /\ \A c : OfClass(c)' = OfClass(c)
      /\ SymbolAt' = SymbolAt /\ NewlineAt' = NewlineAt /\ PrefixAt' = PrefixAt
  BY SetsFrozen
<1>3. ASSUME NEW c PROVE One(OfClass(c))' = One(OfClass(c))
  BY <1>1, <1>2 DEF One
<1>4. One(SymbolAt)' = One(SymbolAt)
  BY <1>1, <1>2 DEF One
<1>5. One(NewlineAt)' = One(NewlineAt)
  BY <1>1, <1>2 DEF One
<1>6. One(PrefixAt)' = One(PrefixAt)
  BY <1>1, <1>2 DEF One
<1>7. One(Place \ OfClass("S"))' = One(Place \ OfClass("S"))
  BY <1>1, <1>2 DEF One
<1>8. ASSUME NEW x PROVE Char(x)' = Char(x)
  BY <1>1 DEF Char, One
<1>9. ASSUME NEW x PROVE AnyCase(x)' = AnyCase(x)
  BY <1>1 DEF AnyCase, One
<1> QED BY <1>3, <1>4, <1>5, <1>6, <1>7, <1>8, <1>9

\* the alternatives,
LEMMA RegexFrozen ==
  ASSUME t' = t
  PROVE  /\ A1' = A1 /\ A2' = A2 /\ A3' = A3 /\ A4' = A4 /\ Regex' = Regex
         /\ LettersEnd(j)' = LettersEnd(j') /\ SymbolsEnd(j)' = SymbolsEnd(j')
         /\ NewlinesEnd(j)' = NewlinesEnd(j') /\ NewlinesEnd(cut)' = NewlinesEnd(cut')
         /\ Spaces' = Spaces /\ NewlinesOn' = NewlinesOn
         /\ SpaceAt' = SpaceAt /\ NewlineAt' = NewlineAt /\ Position' = Position
         /\ Plus(One(SpaceAt))' = Plus(One(SpaceAt))
<1>1. /\ \A c : One(OfClass(c))' = One(OfClass(c))
      /\ One(SymbolAt)' = One(SymbolAt) /\ One(NewlineAt)' = One(NewlineAt)
      /\ One(PrefixAt)' = One(PrefixAt)
      /\ One(Place \ OfClass("S"))' = One(Place \ OfClass("S"))
      /\ \A x : Char(x)' = Char(x) /\ AnyCase(x)' = AnyCase(x)
  BY OnesFrozen
<1>2. A1' = A1
  BY <1>1 DEF A1
<1>3. A2' = A2
  BY <1>1 DEF A2
<1>4. A3' = A3
  BY <1>1 DEF A3
<1>5. A4' = A4
  BY <1>1 DEF A4
<1>6. A5' = A5
  BY <1>1 DEF A5
<1>7. A6' = A6
  BY <1>1 DEF A6
<1>8. A7' = A7
  BY <1>1 DEF A7
<1>9. Regex' = Regex
  BY <1>2, <1>3, <1>4, <1>5, <1>6, <1>7, <1>8 DEF Regex
<1>10. LettersEnd(j)' = LettersEnd(j')
  BY <1>1 DEF LettersEnd, Furthest, LetterAt
<1>11. NewlinesEnd(j)' = NewlinesEnd(j') /\ NewlinesEnd(cut)' = NewlinesEnd(cut')
  BY <1>1 DEF NewlinesEnd, Furthest
<1>12. SymbolsEnd(j)' = SymbolsEnd(j')
  BY <1>1 DEF SymbolsEnd, NewlinesEnd, Furthest
<1>13. Spaces' = Spaces /\ NewlinesOn' = NewlinesOn /\ Plus(One(SpaceAt))' = Plus(One(SpaceAt))
  BY <1>1 DEF Spaces, NewlinesOn, SpaceAt
<1>14. SpaceAt' = SpaceAt /\ NewlineAt' = NewlineAt /\ Position' = Position
  BY SetsFrozen, DecodeFrozen DEF SpaceAt
<1> QED BY <1>2, <1>3, <1>4, <1>5, <1>9, <1>10, <1>11, <1>12, <1>13, <1>14

\* and what is known of the walk.
LEMMA WalkFrozen ==
  ASSUME t' = t, NewlineCut(i', j', cut'), GiveBack(i', j', ncp', last')
  PROVE  NewlineCut(i, j, cut)' /\ GiveBack(i, j, ncp, last)'
<1>1. /\ NewlinesEnd(cut)' = NewlinesEnd(cut')
      /\ Spaces' = Spaces /\ NewlinesOn' = NewlinesOn
      /\ SpaceAt' = SpaceAt /\ NewlineAt' = NewlineAt /\ Position' = Position
      /\ Plus(One(SpaceAt))' = Plus(One(SpaceAt))
  BY RegexFrozen
<1>2. NewlineCut(i, j, cut)'
  BY <1>1 DEF NewlineCut
<1>3. GiveBack(i, j, ncp, last)'
  BY <1>1 DEF GiveBack
<1> QED BY <1>2, <1>3

\* What the kernels test by value is what the class table says.
LEMMA AsciiClasses ==
  ASSUME t \in Seq(Byte), NEW k \in Place
  PROVE  /\ AsciiLetter(k) => t[k] < 128 /\ k \in LetterAt /\ After(k) = k + 1
         /\ AsciiSymbol(k) => t[k] < 128 /\ k \in SymbolAt /\ After(k) = k + 1
         /\ t[k] < 128 /\ k \in LetterAt => AsciiLetter(k)
         /\ t[k] < 128 /\ k \in SymbolAt => AsciiSymbol(k)
<1>1. k \in 1..Len(t) /\ t[k] \in Nat
  BY PlaceIs, Bytes
<1>2. AsciiLetter(k) => t[k] < 128
  <2>1. \A b \in 97..122 : b < 128
    OBVIOUS
  <2>2. \A b \in 65..90 : b < 128
    OBVIOUS
  <2> QED BY <2>1, <2>2, Zenon DEF AsciiLetter
<1>3. AsciiSymbol(k) => t[k] < 128
  BY DEF AsciiSymbol
<1>4. ASSUME t[k] < 128
      PROVE  /\ AsciiLetter(k) <=> k \in LetterAt
             /\ AsciiSymbol(k) <=> k \in SymbolAt
             /\ After(k) = k + 1
  <2>1. t[k] \in 0..127 /\ ClassAt(k) = Class(t[k]) /\ After(k) = k + 1
    BY <1>1, <1>4, AsciiIs
  <2> DEFINE b == t[k]
  <2>2. /\ "L" \in ClassAt(k) <=> b \in 65..90 \cup 97..122
        /\ "N" \in ClassAt(k) <=> b \in 48..57
        /\ "S" \in ClassAt(k) <=> b \in 9..13 \cup {32}
    <3>1. b \in 0..127 /\ ClassAt(k) = Class(b)
      BY <2>1
    <3> DEFINE InL(x) == x \in 65..90 \cup 97..122
               InN(x) == x \in 48..57
               InS(x) == x \in 9..13 \cup {32}
               Ascii == 0..127
    <3>2. \A x \in Ascii : /\ "L" \in Class(x) <=> InL(x)
                           /\ "N" \in Class(x) <=> InN(x)
                           /\ "S" \in Class(x) <=> InS(x)
      BY ClassAssumption
    <3>3. b \in Ascii
      BY <3>1
    <3> HIDE DEF b, InL, InN, InS, Ascii
    <3>4. ("L" \in Class(b) <=> InL(b)) /\ ("N" \in Class(b) <=> InN(b)) /\ ("S" \in Class(b) <=> InS(b))
      BY <3>2, <3>3, Zenon
    <3> QED BY <3>1, <3>4 DEF InL, InN, InS
  <2>3. AsciiLetter(k) <=> b \in 65..90 \cup 97..122
    BY Zenon DEF AsciiLetter
  <2>4. AsciiSymbol(k) <=> ~AsciiLetter(k) /\ b \notin 48..57 /\ b \notin 9..13 \cup {32}
    <3> HIDE DEF b
    <3>1. b \notin 48..57 \cup 9..13 \cup {32} <=> b \notin 48..57 /\ b \notin 9..13 \cup {32}
      OBVIOUS
    <3> QED BY <1>4, <3>1, Zenon DEF AsciiSymbol, b
  <2>5. k \in LetterAt <=> "L" \in ClassAt(k)
    BY PlacesAre DEF LetterAt
  <2>6. k \in SymbolAt <=> "L" \notin ClassAt(k) /\ "N" \notin ClassAt(k) /\ "S" \notin ClassAt(k)
    BY PlacesAre DEF IsSymbol
  <2> QED BY <2>1, <2>2, <2>3, <2>4, <2>5, <2>6, Zenon
<1> QED BY <1>2, <1>3, <1>4

\* S are the places of the characters of a run: by the class table, and where its
\* kernel looks by value.
Tells(Good(_), Ascii(_), S) ==
  /\ \A k \in Place : Good(k) <=> k \in S
  /\ \A k \in Place : Ascii(k) => k \in S /\ After(k) = k + 1
  /\ \A k \in Place : t[k] < 128 /\ k \in S => Ascii(k)

\* A run, with its kernel or without, goes to the end of its characters.
LEMMA RunEnds ==
  ASSUME t \in Seq(Byte), j \in Position, NEW S \in SUBSET Place,
         NEW Good(_), NEW Ascii(_), NEW run, NEW kernel, NEW end,
         Tells(Good, Ascii, S),
         Run(run, kernel, end, Good, Ascii)
  PROVE  /\ t' = t /\ i' = i /\ spans' = spans /\ j' \in Position
         /\ \/ pc' \in {run, kernel} /\ Furthest(S, j') = Furthest(S, j)
            \/ pc' = end /\ j' = Furthest(S, j)
<1> DEFINE Arrives(p, k) ==
             /\ k \in Position
             /\ \/ p \in {run, kernel} /\ Furthest(S, k) = Furthest(S, j)
                \/ p = end /\ k = Furthest(S, j)
<1>0. /\ \A k \in Place : Good(k) <=> k \in S
      /\ \A k \in Place : Ascii(k) => k \in S /\ After(k) = k + 1
      /\ \A k \in Place : t[k] < 128 /\ k \in S => Ascii(k)
  BY DEF Tells
<1>1. /\ Len(t) \in Nat /\ j \in Nat /\ Block \in Nat /\ Block > 0
      /\ Place = 1..Len(t) /\ Position = 1..(Len(t) + 1)
      /\ \A k \in Position : Within(k) <=> k \in Place
  BY PlaceIs, WithinIs, BlockAssumption
<1>2. /\ \A k \in S : Furthest(S, k) = Furthest(S, After(k))
      /\ \A k \in Position \ S : Furthest(S, k) = k
  BY FurthestIs
<1>3. \A k \in Place : k \in Position /\ After(k) \in Position
  BY PlaceIs
<1>4. \A k \in Place : t[k] \in Nat
  BY <1>1, Bytes
<1>5. ASSUME NEW k \in Position, k >= j, \A x \in j..(k - 1) : Ascii(x)
      PROVE  Furthest(S, j) = Furthest(S, k)
  <2>1. \A x \in j..(k - 1) : x \in Place
    BY <1>1
  <2>2. \A x \in j..(k - 1) : x \in S /\ After(x) = x + 1
    BY <1>0, <1>5, <2>1
  <2> QED BY <1>5, <2>2, RunReaches
<1>6. ASSUME NEW k \in Position, Within(k) => ~Ascii(k), Furthest(S, j) = Furthest(S, k)
      PROVE  Arrives(AfterKernel(run, end, k), k)
  <2>1. CASE Within(k) /\ t[k] >= 128
    BY <1>6, <2>1 DEF AfterKernel
  <2>2. CASE ~(Within(k) /\ t[k] >= 128)
    <3>1. k \notin S
      <4>1. k \in Place => t[k] < 128
        BY <1>1, <1>4, <2>2
      <4> QED BY <1>0, <1>1, <1>6, <4>1
    <3>2. Furthest(S, k) = k
      BY <1>2, <3>1
    <3>3. AfterKernel(run, end, k) = end
      BY <2>2 DEF AfterKernel
    <3> QED BY <1>6, <3>2, <3>3
  <2> QED BY <2>1, <2>2
<1>7. \E p, k : Goto(p, k) /\ Arrives(p, k)
  <2>1. CASE pc = run /\ ~Within(j) /\ Goto(end, j)
    BY <1>1, <1>2, <2>1
  <2>2. CASE pc = run /\ Within(j) /\ t[j] < 128 /\ simd /\ Goto(kernel, j)
    BY <2>2
  <2>3. CASE pc = run /\ Within(j) /\ (t[j] >= 128 \/ ~simd)
             /\ IF Good(j) THEN Goto(run, After(j)) ELSE Goto(end, j)
    <3>1. j \in Place
      BY <1>1, <2>3
    <3>2. CASE Good(j)
      <4>1. Goto(run, After(j)) /\ Arrives(run, After(j))
        BY <1>0, <1>2, <1>3, <2>3, <3>1, <3>2
      <4> QED BY <4>1
    <3>3. CASE ~Good(j)
      <4>1. Goto(end, j) /\ Arrives(end, j)
        BY <1>0, <1>2, <2>3, <3>1, <3>3
      <4> QED BY <4>1
    <3> QED BY <3>2, <3>3
  <2>4. CASE /\ pc = kernel /\ BlockFits(j) /\ \A x \in j..(j + Block - 1) : Ascii(x)
             /\ Goto(kernel, j + Block)
    <3> DEFINE b == j + Block
    <3>1. b \in Position /\ b >= j /\ b - 1 = j + Block - 1
      BY <1>1, <2>4 DEF BlockFits
    <3>2. Goto(kernel, b) /\ \A x \in j..(b - 1) : Ascii(x)
      BY <2>4, <3>1
    <3> HIDE DEF b
    <3>3. Arrives(kernel, b)
      BY <1>5, <3>1, <3>2
    <3> QED BY <3>2, <3>3
  <2>5. ASSUME pc = kernel, BlockFits(j), NEW k \in j..(j + Block - 1), ~Ascii(k),
               \A x \in j..(k - 1) : Ascii(x), Goto(AfterKernel(run, end, k), k)
        PROVE  \E p, x : Goto(p, x) /\ Arrives(p, x)
    <3>1. k \in Position /\ k >= j
      BY <1>1, <2>5 DEF BlockFits
    <3>2. Arrives(AfterKernel(run, end, k), k)
      BY <1>5, <1>6, <2>5, <3>1
    <3> HIDE DEF Arrives
    <3> QED BY <2>5, <3>2
  <2>6. CASE pc = kernel /\ ~BlockFits(j)
             /\ IF Within(j) /\ Ascii(j) THEN Goto(kernel, j + 1)
                ELSE Goto(AfterKernel(run, end, j), j)
    <3>1. CASE Within(j) /\ Ascii(j)
      <4>1. j \in Place /\ j \in S /\ After(j) = j + 1
        BY <1>0, <1>1, <3>1
      <4>2. Arrives(kernel, j + 1)
        BY <1>2, <1>3, <4>1
      <4> QED BY <2>6, <3>1, <4>2
    <3>2. CASE ~(Within(j) /\ Ascii(j))
      <4>1. Arrives(AfterKernel(run, end, j), j)
        BY <1>6, <3>2
      <4> HIDE DEF Arrives
      <4> QED BY <2>6, <3>2, <4>1
    <3> QED BY <3>1, <3>2
  <2> HIDE DEF Arrives
  <2> QED BY <2>1, <2>2, <2>3, <2>4, <2>5, <2>6 DEF Run
<1> QED BY <1>7 DEF Goto

----------------------------------------------------------------------------
(* Every pretoken is the first match of the regex.                         *)

\* What the match at i is, told from the loop the scanner is in: the loop goes on to
\* where the alternative ends that it was entered for.  Over whitespace the
\* alternatives before A5 have failed.
Matching ==
  /\ pc \in {"letters", "letter_kernel"} => Takes(Regex, i, LettersEnd(j))
  /\ pc \in {"symbols", "symbol_kernel"} => Takes(Regex, i, SymbolsEnd(j))
  /\ pc = "newlines" => Takes(Regex, i, NewlinesEnd(j))
  /\ pc = "emit" => Takes(Regex, i, j)
  /\ pc = "spaces" =>
       /\ Fails(A1, i) /\ Fails(A2, i) /\ Fails(A3, i) /\ Fails(A4, i)
       /\ NewlineCut(i, j, cut) /\ GiveBack(i, j, ncp, last)
       /\ j = i <=> ncp = 0

MInv == IInv /\ Matching /\ MatchesRegex

\* It is enough to look at the place the step goes to.
LEMMA MatchingKept ==
  ASSUME t' = t, i' = i, pc' # "top",
         pc' \in {"letters", "letter_kernel"} => Takes(Regex, i, LettersEnd(j')),
         pc' \in {"symbols", "symbol_kernel"} => Takes(Regex, i, SymbolsEnd(j')),
         pc' = "newlines" => Takes(Regex, i, NewlinesEnd(j')),
         pc' = "emit" => Takes(Regex, i, j'),
         pc' = "spaces" =>
           /\ Fails(A1, i) /\ Fails(A2, i) /\ Fails(A3, i) /\ Fails(A4, i)
           /\ NewlineCut(i', j', cut') /\ GiveBack(i', j', ncp', last')
           /\ j' = i' <=> ncp' = 0
  PROVE  Matching' /\ MatchesRegex'
<1>1. /\ A1' = A1 /\ A2' = A2 /\ A3' = A3 /\ A4' = A4 /\ Regex' = Regex
      /\ LettersEnd(j)' = LettersEnd(j') /\ SymbolsEnd(j)' = SymbolsEnd(j')
      /\ NewlinesEnd(j)' = NewlinesEnd(j')
  BY RegexFrozen
<1>2. pc' = "spaces" => NewlineCut(i, j, cut)' /\ GiveBack(i, j, ncp, last)'
  BY WalkFrozen
<1>3. Matching'
  BY <1>1, <1>2 DEF Matching
<1>4. MatchesRegex'
  BY DEF MatchesRegex
<1> QED BY <1>3, <1>4

\* The dispatch enters the loop of the first alternative that does not fail.
LEMMA TopMatches == MInv /\ Top => Matching' /\ MatchesRegex'
<1> SUFFICES ASSUME MInv, Top PROVE Matching' /\ MatchesRegex'
  OBVIOUS
<1>1. t \in Seq(Byte) /\ i \in Position /\ i \in Place /\ i \in 1..Len(t)
  <2>1. t \in Seq(Byte) /\ i \in 1..(Len(t) + 1) /\ Within(i)
    BY DEF MInv, IInv, TypeOK, Top
  <2>2. i \in Position
    BY <2>1 DEF Position
  <2> QED BY <2>1, <2>2, WithinIs, PlaceIs
<1>2. t' = t /\ i' = i
  BY DEF Top, Contraction, Word, PrefixedWord, Number, SpacedSymbols, Symbols, Whitespace, Begin
<1>3. /\ A1 \in Pattern(Position)
      /\ IsContraction => Takes(A1, i, i + ContractionLen)
      /\ ~IsContraction => Fails(A1, i)
  BY <1>1, A1At
<1>4. /\ A2 \in Pattern(Position)
      /\ IsLetter(i) => Takes(A2, i, LettersEnd(After(i)))
      /\ IsPrefixedWord => Takes(A2, i, LettersEnd(After(After(i))))
      /\ ~IsLetter(i) /\ ~IsPrefixedWord => Fails(A2, i)
  BY <1>1, A2At
<1>5. /\ A3 \in Pattern(Position)
      /\ IsNumber(i) => Takes(A3, i, After(i))
      /\ ~IsNumber(i) => Fails(A3, i)
  BY <1>1, A3At
<1>6. /\ A4 \in Pattern(Position)
      /\ IsSpacedSymbols => Takes(A4, i, SymbolsEnd(After(After(i))))
      /\ IsSymbol(i) => Takes(A4, i, SymbolsEnd(After(i)))
      /\ ~IsSymbol(i) /\ ~IsSpacedSymbols => Fails(A4, i)
  BY <1>1, A4At
<1>7. ASSUME NEW e
      PROVE  /\ Takes(A1, i, e) => Takes(Regex, i, e)
             /\ Fails(A1, i) /\ Takes(A2, i, e) => Takes(Regex, i, e)
             /\ Fails(A1, i) /\ Fails(A2, i) /\ Takes(A3, i, e) => Takes(Regex, i, e)
             /\ Fails(A1, i) /\ Fails(A2, i) /\ Fails(A3, i) /\ Takes(A4, i, e) => Takes(Regex, i, e)
  <2>1. A5 \in Pattern(Position) /\ A6 \in Pattern(Position) /\ A7 \in Pattern(Position)
    BY <1>1, WhitespaceType
  <2> QED BY <1>1, <1>3, <1>4, <1>5, <1>6, <2>1, RegexAt
<1>8. /\ t[i] = Quote => ClassAt(i) \cap {"L", "N", "S"} = {}
      /\ t[i] = Space => "S" \in ClassAt(i) /\ "L" \notin ClassAt(i) /\ "N" \notin ClassAt(i)
      /\ t[i] = Space => t[i] # Quote
  BY <1>1, QuoteSpace DEF Quote, Space
<1>9. CASE Contraction
  <2>1. pc' = "emit" /\ j' = i + ContractionLen /\ IsContraction
    BY <1>9 DEF Contraction, Begin
  <2>2. Takes(Regex, i, j')
    BY <1>3, <1>7, <2>1
  <2> QED BY <1>2, <2>1, <2>2, MatchingKept
<1>10. CASE Word
  <2>1. pc' = "letters" /\ j' = After(i) /\ ~IsContraction /\ IsLetter(i)
    BY <1>10 DEF Word, Begin
  <2>2. Takes(Regex, i, LettersEnd(j'))
    BY <1>3, <1>4, <1>7, <2>1
  <2> QED BY <1>2, <2>1, <2>2, MatchingKept
<1>11. CASE PrefixedWord
  <2>1. pc' = "letters" /\ j' = After(After(i)) /\ ~IsContraction /\ IsPrefixedWord
    BY <1>11 DEF PrefixedWord, Begin
  <2>2. Takes(Regex, i, LettersEnd(j'))
    BY <1>3, <1>4, <1>7, <2>1
  <2> QED BY <1>2, <2>1, <2>2, MatchingKept
<1>12. CASE Number
  <2>1. pc' = "emit" /\ j' = After(i) /\ IsNumber(i) /\ ~IsLetter(i)
    BY <1>12 DEF Number, Begin
  <2>2. ~IsContraction /\ ~IsPrefixedWord
    BY <1>8, <2>1 DEF IsContraction, IsNumber, IsPrefixedWord
  <2>3. Takes(Regex, i, j')
    BY <1>3, <1>4, <1>5, <1>7, <2>1, <2>2
  <2> QED BY <1>2, <2>1, <2>3, MatchingKept
<1>13. CASE SpacedSymbols
  <2>1. pc' = "symbols" /\ j' = After(After(i)) /\ IsSpacedSymbols /\ ~IsPrefixedWord
    BY <1>13 DEF SpacedSymbols, Begin
  <2>2. ~IsContraction /\ ~IsLetter(i) /\ ~IsNumber(i)
    BY <1>8, <2>1 DEF IsContraction, IsLetter, IsNumber, IsSpacedSymbols
  <2>3. Takes(Regex, i, SymbolsEnd(j'))
    BY <1>3, <1>4, <1>5, <1>6, <1>7, <2>1, <2>2
  <2> QED BY <1>2, <2>1, <2>3, MatchingKept
<1>14. CASE Symbols
  <2>1. pc' = "symbols" /\ j' = After(i) /\ ~IsContraction /\ ~IsPrefixedWord /\ IsSymbol(i)
    BY <1>14 DEF Symbols, Begin
  <2>2. ~IsLetter(i) /\ ~IsNumber(i)
    BY <2>1 DEF IsSymbol, IsLetter, IsNumber
  <2>3. Takes(Regex, i, SymbolsEnd(j'))
    BY <1>3, <1>4, <1>5, <1>6, <1>7, <2>1, <2>2
  <2> QED BY <1>2, <2>1, <2>3, MatchingKept
<1>15. CASE Whitespace
  <2>1. /\ pc' = "spaces" /\ j' = i /\ cut' = 0 /\ ncp' = 0 /\ last' = i
        /\ ClassAt(i) \cap {"L", "N"} = {} /\ "S" \in ClassAt(i) /\ ~IsPrefixedWord /\ ~IsSpacedSymbols
    BY <1>15 DEF Whitespace, Begin
  <2>2. ~IsContraction /\ ~IsLetter(i) /\ ~IsNumber(i) /\ ~IsSymbol(i)
    BY <1>8, <2>1 DEF IsContraction, IsLetter, IsNumber, IsSymbol
  <2>3. Fails(A1, i) /\ Fails(A2, i) /\ Fails(A3, i) /\ Fails(A4, i)
    BY <1>3, <1>4, <1>5, <1>6, <2>1, <2>2
  <2>4. NewlineCut(i, i, 0) /\ GiveBack(i, i, 0, i)
    BY <1>1, WalkStarts
  <2>5. NewlineCut(i', j', cut') /\ GiveBack(i', j', ncp', last') /\ (j' = i' <=> ncp' = 0)
    BY <1>2, <2>1, <2>4
  <2> QED BY <1>2, <2>1, <2>3, <2>5, MatchingKept
<1> QED BY <1>9, <1>10, <1>11, <1>12, <1>13, <1>14, <1>15 DEF Top

\* The loops, the kernels' and the scalar ones, go on along the same match.
LEMMA LoopsMatch == MInv /\ Loops => Matching' /\ MatchesRegex'
<1> SUFFICES ASSUME MInv, Loops PROVE Matching' /\ MatchesRegex'
  OBVIOUS
<1>1. /\ t \in Seq(Byte) /\ i \in Position /\ j \in Position /\ ncp \in Nat
      /\ pc = "spaces" => i \in Place
  <2>1. t \in Seq(Byte) /\ i \in Position /\ j \in Position /\ ncp \in 0..Len(t) /\ Len(t) \in Nat
    BY DEF MInv, IInv, TypeOK, Position
  <2>2. pc = "spaces" => i <= Len(t)
    BY DEF MInv, IInv, Walked
  <2>3. pc = "spaces" => Within(i)
    BY <2>2 DEF Within
  <2> QED BY <2>1, <2>3, WithinIs
<1>2. /\ LetterAt \in SUBSET Place /\ SymbolAt \in SUBSET Place
      /\ NewlineAt \in SUBSET Place /\ SpaceAt \in SUBSET Place
  BY SetsOfPlaces DEF LetterAt, SpaceAt
<1>3. /\ \A k \in Place : k \in LetterAt <=> IsLetter(k)
      /\ \A k \in Place : k \in SymbolAt <=> IsSymbol(k)
      /\ \A k \in Place : k \in SpaceAt <=> "S" \in ClassAt(k)
      /\ \A k \in Place : k \in NewlineAt <=> t[k] \in Newlines
      /\ \A k \in Place : k \in NewlineAt <=> "NL" \in ClassAt(k)
      /\ \A k \in Place : k \in NewlineAt => After(k) = k + 1
  BY <1>1, PlacesAre DEF LetterAt, SpaceAt, IsLetter
<1>4. Within(j) <=> j \in Place
  BY <1>1, WithinIs
<1>5. CASE Letters
  <2>1. Run("letters", "letter_kernel", "emit", IsLetter, AsciiLetter)
    BY <1>5 DEF Letters
  <2>2. /\ t' = t /\ i' = i
        /\ \/ pc' \in {"letters", "letter_kernel"} /\ Furthest(LetterAt, j') = Furthest(LetterAt, j)
           \/ pc' = "emit" /\ j' = Furthest(LetterAt, j)
    <3>1. Tells(IsLetter, AsciiLetter, LetterAt)
      BY <1>1, <1>3, AsciiClasses DEF Tells
    <3> QED BY <1>1, <1>2, <2>1, <3>1, RunEnds
  <2>3. Takes(Regex, i, LettersEnd(j))
    BY <2>1 DEF MInv, Matching, Run
  <2>4. \/ pc' \in {"letters", "letter_kernel"} /\ Takes(Regex, i, LettersEnd(j'))
        \/ pc' = "emit" /\ Takes(Regex, i, j')
    BY <2>2, <2>3 DEF LettersEnd
  <2> QED BY <2>2, <2>4, MatchingKept
<1>6. CASE SymbolRun
  <2>1. Run("symbols", "symbol_kernel", "newlines", IsSymbol, AsciiSymbol)
    BY <1>6 DEF SymbolRun
  <2>2. /\ t' = t /\ i' = i
        /\ \/ pc' \in {"symbols", "symbol_kernel"} /\ Furthest(SymbolAt, j') = Furthest(SymbolAt, j)
           \/ pc' = "newlines" /\ j' = Furthest(SymbolAt, j)
    <3>1. Tells(IsSymbol, AsciiSymbol, SymbolAt)
      BY <1>1, <1>3, AsciiClasses DEF Tells
    <3> QED BY <1>1, <1>2, <2>1, <3>1, RunEnds
  <2>3. Takes(Regex, i, SymbolsEnd(j))
    BY <2>1 DEF MInv, Matching, Run
  <2>4. \/ pc' \in {"symbols", "symbol_kernel"} /\ Takes(Regex, i, SymbolsEnd(j'))
        \/ pc' = "newlines" /\ Takes(Regex, i, NewlinesEnd(j'))
    BY <2>2, <2>3 DEF SymbolsEnd
  <2> QED BY <2>2, <2>4, MatchingKept
<1>7. CASE NewlineRun
  <2>1. pc = "newlines" /\ t' = t /\ i' = i
    BY <1>7 DEF NewlineRun, Goto
  <2>2. Takes(Regex, i, NewlinesEnd(j))
    BY <2>1 DEF MInv, Matching
  <2>3. CASE j \in NewlineAt
    <3>1. pc' = "newlines" /\ j' = After(j)
      BY <1>2, <1>3, <1>4, <1>7, <2>3 DEF NewlineRun, Goto
    <3>2. NewlinesEnd(After(j)) = NewlinesEnd(j)
      BY <1>1, <1>2, <2>3, FurthestIs DEF NewlinesEnd
    <3> QED BY <2>1, <2>2, <3>1, <3>2, MatchingKept
  <2>4. CASE j \notin NewlineAt
    <3>1. pc' = "emit" /\ j' = j
      BY <1>3, <1>4, <1>7, <2>4 DEF NewlineRun, Goto
    <3>2. NewlinesEnd(j) = j
      BY <1>1, <1>2, <2>4, FurthestIs DEF NewlinesEnd
    <3> QED BY <2>1, <2>2, <3>1, <3>2, MatchingKept
  <2> QED BY <2>3, <2>4
<1>8. ASSUME pc = "spaces"
      PROVE  /\ Fails(A1, i) /\ Fails(A2, i) /\ Fails(A3, i) /\ Fails(A4, i)
             /\ NewlineCut(i, j, cut) /\ GiveBack(i, j, ncp, last)
             /\ j = i <=> ncp = 0
  BY <1>8 DEF MInv, Matching
<1>9. MoreSpace <=> j \in SpaceAt
  BY <1>2, <1>3, <1>4 DEF MoreSpace
<1>10. CASE SpaceRun
  <2>1. /\ pc = "spaces" /\ pc' = "spaces" /\ j \in SpaceAt /\ t' = t /\ i' = i
        /\ j' = After(j) /\ ncp' = ncp + 1 /\ last' = j
        /\ cut' = IF "NL" \in ClassAt(j) THEN After(j) ELSE cut
    BY <1>9, <1>10 DEF SpaceRun, Goto
  <2>2. cut' = IF j \in NewlineAt THEN After(j) ELSE cut
    BY <1>2, <1>3, <2>1
  <2>3. /\ NewlineCut(i, After(j), IF j \in NewlineAt THEN After(j) ELSE cut)
        /\ GiveBack(i, After(j), ncp + 1, j)
    BY <1>1, <1>8, <2>1, WalkGoesOn
  <2>4. NewlineCut(i', j', cut') /\ GiveBack(i', j', ncp', last')
    BY <2>1, <2>2, <2>3
  <2>5. j' = i' <=> ncp' = 0
    <3>1. After(j) > j /\ j >= i /\ After(j) \in Nat /\ i \in Nat /\ j \in Nat
      <4>1. After(j) \in Position /\ j < After(j)
        BY <1>1, <1>2, <2>1, PlaceIs
      <4>2. j >= i
        BY <2>1 DEF MInv, IInv, Walked
      <4>3. \A k \in Position : k \in Nat
        BY <1>1, PlaceIs
      <4> QED BY <1>1, <4>1, <4>2, <4>3
    <3>2. After(j) # i /\ ncp + 1 # 0
      BY <1>1, <3>1
    <3> QED BY <2>1, <3>2
  <2> QED BY <1>8, <2>1, <2>4, <2>5, MatchingKept
<1>11. CASE SpaceStop
  <2>1. /\ pc = "spaces" /\ pc' = "emit" /\ j \in Position \ SpaceAt /\ t' = t /\ i' = i
        /\ j' = SpaceEnd
    BY <1>1, <1>9, <1>11 DEF SpaceStop, Goto
  <2>2. j # i
    BY <1>11 DEF MInv, IInv, Walked, SpaceStop
  <2>3. /\ cut # 0 => Takes(A5, i, cut)
        /\ cut = 0 => Fails(A5, i)
        /\ ~Within(j) => Takes(A6, i, j)
        /\ Within(j) /\ ncp >= 2 => Takes(A6, i, last)
        /\ Within(j) /\ ~(ncp >= 2) => Fails(A6, i) /\ Takes(A7, i, j)
    BY <1>1, <1>8, <2>1, <2>2, WalkEnds
  <2>4. Takes(Regex, i, SpaceEnd)
    <3>1. /\ A1 \in Pattern(Position) /\ A2 \in Pattern(Position) /\ A3 \in Pattern(Position)
          /\ A4 \in Pattern(Position)
      BY <1>1, <2>1, A1At, A2At, A3At, A4At
    <3>2. A5 \in Pattern(Position) /\ A6 \in Pattern(Position) /\ A7 \in Pattern(Position)
      BY <1>1, WhitespaceType
    <3>3. ASSUME NEW e
          PROVE  /\ Takes(A5, i, e) => Takes(Regex, i, e)
                 /\ Fails(A5, i) /\ Takes(A6, i, e) => Takes(Regex, i, e)
                 /\ Fails(A5, i) /\ Fails(A6, i) /\ Takes(A7, i, e) => Takes(Regex, i, e)
      BY <1>1, <1>8, <2>1, <3>1, <3>2, RegexAt
    <3> QED BY <2>3, <3>3 DEF SpaceEnd
  <2> QED BY <2>1, <2>4, MatchingKept
<1> QED BY <1>5, <1>6, <1>7, <1>10, <1>11 DEF Loops

\* Matching holds at every step.
LEMMA StepMatches == MInv /\ [Next]_vars => MInv'
<1> SUFFICES ASSUME MInv, [Next]_vars PROVE MInv'
  OBVIOUS
<1>1. IInv'
  BY StepKeeps DEF MInv
<1>2. CASE Emit
  <2>1. /\ pc = "emit" /\ pc' = "top" /\ t' = t /\ spans' = Append(spans, <<i, j>>)
        /\ spans \in Seq(Nat \X Nat) /\ i \in Nat /\ j \in Nat
    BY <1>2 DEF Emit, MInv, IInv, TypeOK
  <2>2. Takes(Regex, i, j)
    BY <2>1 DEF MInv, Matching
  <2>3. spans'[Len(spans')] = <<i, j>>
    BY <2>1
  <2>4. Regex' = Regex
    BY <2>1, RegexFrozen
  <2>5. MatchesRegex'
    BY <2>2, <2>3, <2>4 DEF MatchesRegex, Takes
  <2>6. Matching'
    BY <2>1 DEF Matching
  <2> QED BY <1>1, <2>5, <2>6 DEF MInv
<1>3. CASE EmitFails \/ Return
  <2>1. pc' = "done"
    BY <1>3 DEF EmitFails, Return
  <2> QED BY <1>1, <2>1 DEF MInv, Matching, MatchesRegex
<1>4. CASE UNCHANGED vars
  <2>1. /\ t' = t /\ pc' = pc /\ i' = i /\ j' = j /\ cut' = cut
        /\ last' = last /\ ncp' = ncp /\ spans' = spans
    BY <1>4 DEF vars
  <2>2. CASE pc # "top"
    <3>1. /\ pc' \in {"letters", "letter_kernel"} => Takes(Regex, i, LettersEnd(j'))
          /\ pc' \in {"symbols", "symbol_kernel"} => Takes(Regex, i, SymbolsEnd(j'))
          /\ pc' = "newlines" => Takes(Regex, i, NewlinesEnd(j'))
          /\ pc' = "emit" => Takes(Regex, i, j')
          /\ pc' = "spaces" =>
               /\ Fails(A1, i) /\ Fails(A2, i) /\ Fails(A3, i) /\ Fails(A4, i)
               /\ NewlineCut(i', j', cut') /\ GiveBack(i', j', ncp', last')
               /\ j' = i' <=> ncp' = 0
      BY <2>1 DEF MInv, Matching
    <3> QED BY <1>1, <2>1, <2>2, <3>1, MatchingKept DEF MInv
  <2>3. CASE pc = "top"
    <3>1. Regex' = Regex
      BY <2>1, RegexFrozen
    <3>2. MatchesRegex'
      BY <2>1, <3>1 DEF MInv, MatchesRegex
    <3>3. Matching'
      BY <2>1, <2>3 DEF Matching
    <3> QED BY <1>1, <3>2, <3>3 DEF MInv
  <2> QED BY <2>2, <2>3
<1> QED BY <1>1, <1>2, <1>3, <1>4, TopMatches, LoopsMatch DEF Next, MInv

\* Whatever the text, every span bp_scan_gpt4 hands over is the first match of the split
\* regex where it starts, with the kernels and without (bp_scan.c 122-208,
\* bp_scan_avx2.c).
THEOREM ScannerMatches == Spec => []MatchesRegex
<1>1. Init => MInv
  <2>1. Init => IInv
    BY InitHolds
  <2>2. Init => Matching /\ MatchesRegex
    BY DEF Init, Matching, MatchesRegex
  <2> QED BY <2>1, <2>2 DEF MInv
<1>2. MInv => MatchesRegex
  BY DEF MInv
<1> QED BY <1>1, <1>2, StepMatches, PTL DEF Spec
=============================================================================
