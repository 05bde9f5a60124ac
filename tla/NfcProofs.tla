------------------------------ MODULE NfcProofs ------------------------------
(***************************************************************************)
(* Proofs about Nfc: the codec gives back what it read, and the full path  *)
(* of bp_nfc, reordering and composing in place, is NFC as UAX #15 defines *)
(* it over the same data.                                                  *)
(***************************************************************************)
EXTENDS Nfc, DataProofs, FiniteSetTheorems

----------------------------------------------------------------------------
(* The codec: what is decoded, and what encoding it gives back.             *)

\* The bytes of the standard's table: those a character goes on with, and the pairs that
\* one of two, three or four bytes begins with.
Trail == 128..191
Begins2(p, q) == p \in 194..223 /\ q \in 128..191
Begins3(p, q) ==
  \/ p = 224 /\ q \in 160..191
  \/ p \in 225..236 \cup 238..239 /\ q \in 128..191
  \/ p = 237 /\ q \in 128..159
Begins4(p, q) ==
  \/ p = 240 /\ q \in 144..191
  \/ p \in 241..243 /\ q \in 128..191
  \/ p = 244 /\ q \in 128..143

\* Bytes from at on that a row of the table allows, as many as m.
Row(s, at, m) ==
  \/ m = 1 /\ s[at] <= 127
  \/ m = 2 /\ Begins2(s[at], s[at + 1])
  \/ m = 3 /\ Begins3(s[at], s[at + 1]) /\ s[at + 2] \in Trail
  \/ m = 4 /\ Begins4(s[at], s[at + 1]) /\ s[at + 2] \in Trail /\ s[at + 3] \in Trail

LEMMA RowIs ==
  ASSUME NEW s \in Seq(Byte), NEW at \in 1..Len(s), NEW n \in at..Len(s)
  PROVE  IsWellFormed(SubSeq(s, at, n)) <=> Row(s, at, n - at + 1)
<1> DEFINE q == SubSeq(s, at, n)
           m == n - at + 1
<1>1. Len(q) = m /\ m \in Nat /\ m >= 1 /\ \A k \in 1..m : q[k] = s[at + k - 1]
  OBVIOUS
<1>2. s[at] \in Byte
  OBVIOUS
<1> HIDE DEF q, m
<1>3. \A b \in Byte : b \in 0..127 <=> b <= 127
  BY DEF Byte
<1> DEFINE
     first1 == 0..127
     first2 == 194..223
     after == 128..191
     first3 == {224}
     second3 == 160..191
     first4 == 225..236
     first5 == {237}
     second5 == 128..159
     first6 == 238..239
     first7 == {240}
     second7 == 144..191
     first8 == 241..243
     first9 == {244}
     second9 == 128..143
<1>4. IsWellFormed(q) <=>
        \/ Len(q) = 1 /\ q[1] \in first1
        \/ Len(q) = 2 /\ q[1] \in first2 /\ q[2] \in after
        \/ Len(q) = 3 /\ q[1] \in first3 /\ q[2] \in second3 /\ q[3] \in after
        \/ Len(q) = 3 /\ q[1] \in first4 /\ q[2] \in after /\ q[3] \in after
        \/ Len(q) = 3 /\ q[1] \in first5 /\ q[2] \in second5 /\ q[3] \in after
        \/ Len(q) = 3 /\ q[1] \in first6 /\ q[2] \in after /\ q[3] \in after
        \/ Len(q) = 4 /\ q[1] \in first7 /\ q[2] \in second7 /\ q[3] \in after /\ q[4] \in after
        \/ Len(q) = 4 /\ q[1] \in first8 /\ q[2] \in after /\ q[3] \in after /\ q[4] \in after
        \/ Len(q) = 4 /\ q[1] \in first9 /\ q[2] \in second9 /\ q[3] \in after /\ q[4] \in after
  <2> DEFINE Fits(row) == Len(q) = Len(row) /\ \A k \in 1..Len(row) : q[k] \in row[k]
             r1 == <<first1>>
             r2 == <<first2, after>>
             r3 == <<first3, second3, after>>
             r4 == <<first4, after, after>>
             r5 == <<first5, second5, after>>
             r6 == <<first6, after, after>>
             r7 == <<first7, second7, after, after>>
             r8 == <<first8, after, after, after>>
             r9 == <<first9, second9, after, after>>
  <2>1. IsWellFormed(q) <=> \E row \in {r1, r2, r3, r4, r5, r6, r7, r8, r9} : Fits(row)
    <3>1. WellFormedRows = {r1, r2, r3, r4, r5, r6, r7, r8, r9}
      BY SMT DEF WellFormedRows
    <3> HIDE DEF r1, r2, r3, r4, r5, r6, r7, r8, r9
    <3> QED BY ONLY <3>1, Zenon DEF IsWellFormed
  <2> HIDE DEF first1, first2, after, first3, second3, first4, first5, second5, first6, first7, second7, first8, first9, second9
  <2>2. \A A : Fits(<<A>>) <=> Len(q) = 1 /\ q[1] \in A
    OBVIOUS
  <2>3. \A A, B : Fits(<<A, B>>) <=> Len(q) = 2 /\ q[1] \in A /\ q[2] \in B
    OBVIOUS
  <2>4. \A A, B, D : Fits(<<A, B, D>>) <=>
          Len(q) = 3 /\ q[1] \in A /\ q[2] \in B /\ q[3] \in D
    OBVIOUS
  <2>5. \A A, B, D, E : Fits(<<A, B, D, E>>) <=>
          Len(q) = 4 /\ q[1] \in A /\ q[2] \in B /\ q[3] \in D /\ q[4] \in E
    OBVIOUS
  <2> HIDE DEF Fits
  <2>6. Fits(r1) <=> Len(q) = 1 /\ q[1] \in first1
    BY ONLY <2>2, Zenon
  <2>7. Fits(r2) <=> Len(q) = 2 /\ q[1] \in first2 /\ q[2] \in after
    BY ONLY <2>3, Zenon
  <2>8. Fits(r3) <=> Len(q) = 3 /\ q[1] \in first3 /\ q[2] \in second3 /\ q[3] \in after
    BY ONLY <2>4, Zenon
  <2>9. Fits(r4) <=> Len(q) = 3 /\ q[1] \in first4 /\ q[2] \in after /\ q[3] \in after
    BY ONLY <2>4, Zenon
  <2>10. Fits(r5) <=> Len(q) = 3 /\ q[1] \in first5 /\ q[2] \in second5 /\ q[3] \in after
    BY ONLY <2>4, Zenon
  <2>11. Fits(r6) <=> Len(q) = 3 /\ q[1] \in first6 /\ q[2] \in after /\ q[3] \in after
    BY ONLY <2>4, Zenon
  <2>12. Fits(r7) <=> Len(q) = 4 /\ q[1] \in first7 /\ q[2] \in second7 /\ q[3] \in after /\ q[4] \in after
    BY ONLY <2>5, Zenon
  <2>13. Fits(r8) <=> Len(q) = 4 /\ q[1] \in first8 /\ q[2] \in after /\ q[3] \in after /\ q[4] \in after
    BY ONLY <2>5, Zenon
  <2>14. Fits(r9) <=> Len(q) = 4 /\ q[1] \in first9 /\ q[2] \in second9 /\ q[3] \in after /\ q[4] \in after
    BY ONLY <2>5, Zenon
  <2> HIDE DEF r1, r2, r3, r4, r5, r6, r7, r8, r9
  <2>15. (\E row \in {r1, r2, r3, r4, r5, r6, r7, r8, r9} : Fits(row)) <=>
           Fits(r1) \/ Fits(r2) \/ Fits(r3) \/ Fits(r4) \/ Fits(r5) \/ Fits(r6) \/ Fits(r7) \/ Fits(r8) \/ Fits(r9)
    BY ONLY Zenon
  <2> QED BY ONLY <2>1, <2>15, <2>6, <2>7, <2>8, <2>9, <2>10, <2>11, <2>12, <2>13, <2>14, Zenon
<1>5. /\ q[1] = s[at]
      /\ m >= 2 => q[2] = s[at + 1]
      /\ m >= 3 => q[3] = s[at + 2]
      /\ m >= 4 => q[4] = s[at + 3]
  BY <1>1
<1>6. IsWellFormed(q) <=> Row(s, at, m)
  <2>1. m \in {1, 2, 3, 4} \/ m > 4
    BY <1>1
  <2>2. CASE m = 1
    BY <1>1, <1>2, <1>3, <1>4, <1>5, <2>2 DEF Row, Begins2, Begins3, Begins4, Trail
  <2>3. CASE m = 2
    <3>1. Len(q) = 2 /\ q[1] = s[at] /\ q[2] = s[at + 1] /\ m = 2
      BY <1>1, <1>5, <2>3
    <3> QED BY ONLY <1>4, <3>1 DEF Row, Begins2, Begins3, Begins4, Trail
  <2>4. CASE m = 3
    <3>1. /\ Len(q) = 3 /\ m = 3
          /\ q[1] = s[at] /\ q[2] = s[at + 1] /\ q[3] = s[at + 2]
      BY <1>1, <1>5, <2>4
    <3>2. IsWellFormed(q) <=>
            /\ s[at + 2] \in after
            /\ \/ s[at] \in first3 /\ s[at + 1] \in second3
               \/ s[at] \in first4 /\ s[at + 1] \in after
               \/ s[at] \in first5 /\ s[at + 1] \in second5
               \/ s[at] \in first6 /\ s[at + 1] \in after
      <4> HIDE DEF after, first3, second3, first4, first5, second5, first6
      <4> QED BY ONLY <1>4, <3>1, SMT
    <3> QED BY ONLY <3>1, <3>2, SMT DEF Row, Begins3, Trail
  <2>5. CASE m = 4
    <3>1. /\ Len(q) = 4 /\ m = 4
          /\ q[1] = s[at] /\ q[2] = s[at + 1] /\ q[3] = s[at + 2] /\ q[4] = s[at + 3]
      BY <1>1, <1>5, <2>5
    <3> QED BY ONLY <1>4, <3>1 DEF Row, Begins2, Begins3, Begins4, Trail
  <2>6. CASE m > 4
    <3>1. /\ Len(q) \notin {1, 2, 3, 4} /\ m \notin {1, 2, 3, 4}
      BY <1>1, <2>6
    <3> QED BY ONLY <1>4, <3>1 DEF Row, Begins2, Begins3, Begins4, Trail
  <2> QED BY <2>1, <2>2, <2>3, <2>4, <2>5, <2>6
<1> QED BY <1>6 DEF q, m

\* First bytes, continuation bytes and their payloads.
Lead2 == 194..223
Lead3 == 224..239
Lead4 == 240..244

LEMMA Continues == \A b \in Byte : Continuation(b) <=> b \in Trail
  BY DEF Byte, Continuation, Trail

LEMMA TailBits == \A b \in Trail : Low6(b) = b - 128
  BY DEF Low6, Trail

LEMMA Lead2Bits == \A b \in Lead2 : b % 32 = b - 192
  BY SMT DEF Lead2

LEMMA Lead3Bits == \A b \in Lead3 : b % 16 = b - 224
  BY SMT DEF Lead3

LEMMA Lead4Bits == \A b \in Lead4 : b % 8 = b - 240
  BY SMT DEF Lead4

\* What the table's pairs begin with.
LEMMA Leads ==
  ASSUME NEW p, NEW q
  PROVE  /\ Begins2(p, q) <=> p \in Lead2 /\ q \in Trail
         /\ Begins3(p, q) => p \in Lead3 /\ q \in Trail
         /\ Begins4(p, q) => p \in Lead4 /\ q \in Trail
  BY SMT DEF Begins2, Begins3, Begins4, Lead2, Lead3, Lead4, Trail

\* The codepoints of two, three and four bytes.
Of2(p, q) == (p - 192) * 64 + (q - 128)
Of3(p, q, r) == (p - 224) * 4096 + (q - 128) * 64 + (r - 128)
Of4(p, q, r, o) == (p - 240) * 262144 + (q - 128) * 4096 + (r - 128) * 64 + (o - 128)

\* Where overlong forms, surrogates and what is above U+10FFFF begin and end.
In3(x) == x >= 2048 /\ x \notin Surrogate
In4(x) == x >= 65536 /\ x <= MaxCodepoint

LEMMA ThreeEdges ==
  ASSUME NEW p \in Lead3, NEW q \in Trail, NEW r \in Trail
  PROVE  In3(Of3(p, q, r)) <=> Begins3(p, q)
<1>1. p = 224 \/ p = 237 \/ p \in 225..236 \cup 238..239
  BY SMT DEF Lead3
<1>2. CASE p = 224
  BY <1>2, SMT DEF In3, Surrogate, Begins3, Of3, Trail
<1>3. CASE p = 237
  BY <1>3, SMT DEF In3, Surrogate, Begins3, Of3, Trail
<1>4. CASE p \in 225..236 \cup 238..239
  BY <1>4, SMT DEF In3, Surrogate, Begins3, Of3, Trail
<1> QED BY ONLY <1>1, <1>2, <1>3, <1>4, SMT

LEMMA FourEdges ==
  ASSUME NEW p \in Lead4, NEW q \in Trail, NEW r \in Trail, NEW o \in Trail
  PROVE  In4(Of4(p, q, r, o)) <=> Begins4(p, q)
<1>1. p = 240 \/ p \in 241..243 \/ p = 244
  BY SMT DEF Lead4
<1>2. CASE p = 240
  BY <1>2, SMT DEF In4, MaxCodepoint, Begins4, Of4, Trail
<1>3. CASE p \in 241..243
  BY <1>3, SMT DEF In4, MaxCodepoint, Begins4, Of4, Trail
<1>4. CASE p = 244
  BY <1>4, SMT DEF In4, MaxCodepoint, Begins4, Of4, Trail
<1> QED BY ONLY <1>1, <1>2, <1>3, <1>4, SMT

\* The bits of a codepoint, six at a time.
Six == 0..63
Join(a, r) == a * 64 + r

LEMMA Sixes ==
  \A a \in Nat, r \in Six :
    Join(a, r) \in Nat /\ Join(a, r) \div 64 = a /\ Low6(Join(a, r)) = r
  BY DEF Low6, Six, Join

\* The forms that are decoded are the rows of the table, and what they decode to.
LEMMA Forms ==
  ASSUME NEW s \in Seq(Byte), NEW at \in 1..Len(s)
  PROVE  /\ IsTwo(s, at) <=> at + 1 <= Len(s) /\ Row(s, at, 2)
         /\ IsThree(s, at) <=> at + 2 <= Len(s) /\ Row(s, at, 3)
         /\ IsFour(s, at) <=> at + 3 <= Len(s) /\ Row(s, at, 4)
         /\ IsTwo(s, at) => Two(s, at) = Of2(s[at], s[at + 1])
         /\ IsThree(s, at) => Three(s, at) = Of3(s[at], s[at + 1], s[at + 2])
         /\ IsFour(s, at) => Four(s, at) = Of4(s[at], s[at + 1], s[at + 2], s[at + 3])
<1>1. /\ at + 1 <= Len(s) => s[at + 1] \in Byte
      /\ at + 2 <= Len(s) => s[at + 1] \in Byte /\ s[at + 2] \in Byte
      /\ at + 3 <= Len(s) => s[at + 1] \in Byte /\ s[at + 2] \in Byte /\ s[at + 3] \in Byte
  OBVIOUS
<1>2. /\ Tailed(s, at, 2) <=> at + 1 <= Len(s) /\ Continuation(s[at + 1])
      /\ Tailed(s, at, 3) <=>
           at + 2 <= Len(s) /\ Continuation(s[at + 1]) /\ Continuation(s[at + 2])
      /\ Tailed(s, at, 4) <=>
           /\ at + 3 <= Len(s) /\ Continuation(s[at + 1])
           /\ Continuation(s[at + 2]) /\ Continuation(s[at + 3])
  <2>1. /\ \A d : d \in 1..(2 - 1) <=> d = 1
        /\ \A d : d \in 1..(3 - 1) <=> d = 1 \/ d = 2
        /\ \A d : d \in 1..(4 - 1) <=> d = 1 \/ d = 2 \/ d = 3
    OBVIOUS
  <2>2. at + 2 - 1 = at + 1 /\ at + 3 - 1 = at + 2 /\ at + 4 - 1 = at + 3
    OBVIOUS
  <2> QED BY ONLY <2>1, <2>2, Zenon DEF Tailed
<1>3. /\ Tailed(s, at, 2) <=> at + 1 <= Len(s) /\ s[at + 1] \in Trail
      /\ Tailed(s, at, 3) <=>
           at + 2 <= Len(s) /\ s[at + 1] \in Trail /\ s[at + 2] \in Trail
      /\ Tailed(s, at, 4) <=>
           /\ at + 3 <= Len(s) /\ s[at + 1] \in Trail
           /\ s[at + 2] \in Trail /\ s[at + 3] \in Trail
  BY ONLY <1>1, <1>2, Continues, Zenon
<1>4. /\ Row(s, at, 2) <=> s[at] \in Lead2 /\ s[at + 1] \in Trail
      /\ Row(s, at, 3) <=> Begins3(s[at], s[at + 1]) /\ s[at + 2] \in Trail
      /\ Row(s, at, 4) <=>
           Begins4(s[at], s[at + 1]) /\ s[at + 2] \in Trail /\ s[at + 3] \in Trail
  <2>1. /\ Row(s, at, 2) <=> Begins2(s[at], s[at + 1])
        /\ Row(s, at, 3) <=> Begins3(s[at], s[at + 1]) /\ s[at + 2] \in Trail
        /\ Row(s, at, 4) <=>
             Begins4(s[at], s[at + 1]) /\ s[at + 2] \in Trail /\ s[at + 3] \in Trail
    BY SMT DEF Row
  <2> QED BY ONLY <2>1, Leads, Zenon
<1>5. IsTwo(s, at) <=> at + 1 <= Len(s) /\ Row(s, at, 2)
  <2>1. IsTwo(s, at) <=> s[at] \in Lead2 /\ Tailed(s, at, 2)
    BY SMT DEF IsTwo, Lead2
  <2> QED BY ONLY <2>1, <1>3, <1>4, Zenon
<1>6. s[at] \in Lead2 /\ Tailed(s, at, 2) => Two(s, at) = Of2(s[at], s[at + 1])
  <2> SUFFICES ASSUME s[at] \in Lead2, Tailed(s, at, 2)
      PROVE  Two(s, at) = Of2(s[at], s[at + 1])
    OBVIOUS
  <2>1. s[at + 1] \in Trail
    BY ONLY <1>3, Tailed(s, at, 2), Zenon
  <2>2. Low6(s[at + 1]) = s[at + 1] - 128
    BY ONLY <2>1, TailBits, Zenon
  <2>3. s[at] % 32 = s[at] - 192
    BY ONLY s[at] \in Lead2, Lead2Bits, Zenon
  <2> QED BY ONLY <2>2, <2>3, SMT DEF Two, Of2
<1>7. s[at] \in Lead3 /\ Tailed(s, at, 3) =>
        Three(s, at) = Of3(s[at], s[at + 1], s[at + 2])
  <2> SUFFICES ASSUME s[at] \in Lead3, Tailed(s, at, 3)
      PROVE  Three(s, at) = Of3(s[at], s[at + 1], s[at + 2])
    OBVIOUS
  <2>1. s[at + 1] \in Trail /\ s[at + 2] \in Trail
    BY ONLY <1>3, Tailed(s, at, 3), Zenon
  <2>2. Low6(s[at + 1]) = s[at + 1] - 128 /\ Low6(s[at + 2]) = s[at + 2] - 128
    BY ONLY <2>1, TailBits, Zenon
  <2>3. s[at] % 16 = s[at] - 224
    BY ONLY s[at] \in Lead3, Lead3Bits, Zenon
  <2> QED BY ONLY <2>2, <2>3, SMT DEF Three, Of3
<1>8. s[at] \in Lead4 /\ Tailed(s, at, 4) =>
        Four(s, at) = Of4(s[at], s[at + 1], s[at + 2], s[at + 3])
  <2> SUFFICES ASSUME s[at] \in Lead4, Tailed(s, at, 4)
      PROVE  Four(s, at) = Of4(s[at], s[at + 1], s[at + 2], s[at + 3])
    OBVIOUS
  <2>1. s[at + 1] \in Trail /\ s[at + 2] \in Trail /\ s[at + 3] \in Trail
    BY ONLY <1>3, Tailed(s, at, 4), Zenon
  <2>2. /\ Low6(s[at + 1]) = s[at + 1] - 128 /\ Low6(s[at + 2]) = s[at + 2] - 128
        /\ Low6(s[at + 3]) = s[at + 3] - 128
    BY ONLY <2>1, TailBits, Zenon
  <2>3. s[at] % 8 = s[at] - 240
    BY ONLY s[at] \in Lead4, Lead4Bits, Zenon
  <2> QED BY ONLY <2>2, <2>3, SMT DEF Four, Of4
<1>9. IsThree(s, at) <=> at + 2 <= Len(s) /\ Row(s, at, 3)
  <2>1. IsThree(s, at) <=> s[at] \in Lead3 /\ Tailed(s, at, 3) /\ In3(Three(s, at))
    BY SMT DEF IsThree, Lead3, In3
  <2>2. ASSUME s[at] \in Lead3, Tailed(s, at, 3)
        PROVE  In3(Three(s, at)) <=> Begins3(s[at], s[at + 1])
    BY ONLY <2>2, <1>3, <1>7, ThreeEdges, Zenon
  <2> QED BY ONLY <2>1, <2>2, <1>3, <1>4, Leads, Zenon
<1>10. IsFour(s, at) <=> at + 3 <= Len(s) /\ Row(s, at, 4)
  <2>1. IsFour(s, at) <=> s[at] \in Lead4 /\ Tailed(s, at, 4) /\ In4(Four(s, at))
    BY SMT DEF IsFour, Lead4, In4
  <2>2. ASSUME s[at] \in Lead4, Tailed(s, at, 4)
        PROVE  In4(Four(s, at)) <=> Begins4(s[at], s[at + 1])
    BY ONLY <2>2, <1>3, <1>8, FourEdges, Zenon
  <2> QED BY ONLY <2>1, <2>2, <1>3, <1>4, Leads, Zenon
<1> QED BY ONLY <1>5, <1>6, <1>7, <1>8, <1>9, <1>10, <1>3, <1>4, Leads, Zenon

\* Encoding a codepoint of two, three or four bytes gives those bytes.
LEMMA EncodesTwo ==
  ASSUME NEW p \in Lead2, NEW q \in Trail
  PROVE  EncodeCp(Of2(p, q)) = <<p, q>>
<1> DEFINE a == p - 192  b == q - 128  x == Of2(p, q)
<1>1. a \in Nat /\ b \in Six /\ x = Join(a, b)
  BY SMT DEF Lead2, Trail, Of2, Six, Join
<1>2. ~(x < 128) /\ x < 2048 /\ p = 192 + a /\ q = 128 + b
  BY SMT DEF Lead2, Trail, Of2
<1> HIDE DEF a, b, x
<1>3. x \div 64 = a /\ Low6(x) = b
  BY ONLY <1>1, Sixes, Zenon
<1>4. EncodeCp(x) = <<192 + x \div 64, 128 + Low6(x)>>
  BY ONLY <1>2, SMT DEF EncodeCp
<1>5. EncodeCp(x) = <<p, q>>
  BY ONLY <1>2, <1>3, <1>4, SMT
<1> QED BY ONLY <1>5, Zenon DEF x

LEMMA EncodesThree ==
  ASSUME NEW p, NEW q, NEW r \in Trail, Begins3(p, q)
  PROVE  EncodeCp(Of3(p, q, r)) = <<p, q, r>>
<1> DEFINE a == p - 224  b == q - 128  c == r - 128  x == Of3(p, q, r)
<1>1. p \in Lead3 /\ q \in Trail
  BY Leads, Zenon
<1>2. a \in Nat /\ b \in Six /\ c \in Six /\ x = Join(Join(a, b), c)
  BY <1>1, SMT DEF Lead3, Trail, Of3, Six, Join
<1>3. x \div 4096 = a /\ x < 65536
  BY <1>1, SMT DEF Lead3, Trail, Of3
<1>4. p = 224 + a /\ q = 128 + b /\ r = 128 + c
  BY <1>1, SMT DEF Lead3, Trail
<1>5. In3(x)
  BY <1>1, ThreeEdges, Zenon
<1> HIDE DEF a, b, c, x
<1>6. x \in Nat /\ Low6(x) = c /\ Low6(x \div 64) = b
  BY ONLY <1>2, Sixes, Zenon
<1>7. ~(x < 128) /\ ~(x < 2048)
  BY ONLY <1>5, <1>6, SMT DEF In3
<1>8. EncodeCp(x) = <<224 + x \div 4096, 128 + Low6(x \div 64), 128 + Low6(x)>>
  BY ONLY <1>3, <1>7, SMT DEF EncodeCp
<1>9. EncodeCp(x) = <<p, q, r>>
  BY ONLY <1>3, <1>4, <1>6, <1>8, SMT
<1> QED BY ONLY <1>9, Zenon DEF x

LEMMA EncodesFour ==
  ASSUME NEW p, NEW q, NEW r \in Trail, NEW o \in Trail, Begins4(p, q)
  PROVE  EncodeCp(Of4(p, q, r, o)) = <<p, q, r, o>>
<1> DEFINE a == p - 240  b == q - 128  c == r - 128  d == o - 128  x == Of4(p, q, r, o)
<1>1. p \in Lead4 /\ q \in Trail
  BY Leads, Zenon
<1>2. a \in Nat /\ b \in Six /\ c \in Six /\ d \in Six /\ x = Join(Join(Join(a, b), c), d)
  BY <1>1, SMT DEF Lead4, Trail, Of4, Six, Join
<1>3. x \div 262144 = a /\ x \div 4096 = Join(a, b)
  BY <1>1, SMT DEF Lead4, Trail, Of4, Join
<1>4. p = 240 + a /\ q = 128 + b /\ r = 128 + c /\ o = 128 + d
  BY <1>1, SMT DEF Lead4, Trail
<1>5. In4(x)
  BY <1>1, FourEdges, Zenon
<1> HIDE DEF a, b, c, d, x
<1>6. x \in Nat /\ Low6(x) = d /\ Low6(x \div 64) = c /\ Low6(Join(a, b)) = b
  <2>1. Join(a, b) \in Nat /\ Low6(Join(a, b)) = b
    BY ONLY <1>2, Sixes, Zenon
  <2>2. Join(Join(a, b), c) \in Nat /\ Low6(Join(Join(a, b), c)) = c
    BY ONLY <1>2, <2>1, Sixes, Zenon
  <2>3. x \in Nat /\ Low6(x) = d /\ x \div 64 = Join(Join(a, b), c)
    BY ONLY <1>2, <2>2, Sixes, Zenon
  <2> QED BY ONLY <2>1, <2>2, <2>3, Zenon
<1>7. ~(x < 128) /\ ~(x < 2048) /\ ~(x < 65536)
  BY ONLY <1>5, <1>6, SMT DEF In4
<1>8. EncodeCp(x) = <<240 + x \div 262144, 128 + Low6(x \div 4096),
                      128 + Low6(x \div 64), 128 + Low6(x)>>
  BY ONLY <1>7, SMT DEF EncodeCp
<1>9. EncodeCp(x) = <<p, q, r, o>>
  BY ONLY <1>3, <1>4, <1>6, <1>8, SMT
<1> QED BY ONLY <1>9, Zenon DEF x

LEMMA ByteIs == \A b \in Byte : b \in Nat
  BY DEF Byte

LEMMA Lead2Not == \A p \in Lead2, q \in Trail : Of2(p, q) # NoCp
  BY SMT DEF Of2, Lead2, Trail, NoCp

\* A piece of four bytes or fewer, byte by byte.
LEMMA Pieces ==
  ASSUME NEW s \in Seq(Byte), NEW at \in 1..Len(s)
  PROVE  /\ SubSeq(s, at, at) = <<s[at]>>
         /\ at + 1 <= Len(s) => SubSeq(s, at, at + 1) = <<s[at], s[at + 1]>>
         /\ at + 2 <= Len(s) => SubSeq(s, at, at + 2) = <<s[at], s[at + 1], s[at + 2]>>
         /\ at + 3 <= Len(s) =>
              SubSeq(s, at, at + 3) = <<s[at], s[at + 1], s[at + 2], s[at + 3]>>
<1>1. SubSeq(s, at, at) = <<s[at]>>
  <2> SUFFICES ASSUME at <= Len(s) PROVE SubSeq(s, at, at) = <<s[at]>>
    OBVIOUS
  <2> DEFINE q == SubSeq(s, at, at)
  <2>1. q \in Seq(Byte) /\ Len(q) = 1
    <3>1. \A k \in at..Len(s) : s[k] \in Byte
      OBVIOUS
    <3>2. q \in Seq(Byte)
      BY <3>1
    <3>3. Len(q) = 1
      OBVIOUS
    <3> QED BY ONLY <3>2, <3>3
  <2>2. q[1] = s[at]
    OBVIOUS
  <2> HIDE DEF q
  <2>3. q = <<q[1]>>
    BY ONLY <2>1
  <2>4. q = <<s[at]>>
    BY ONLY <2>2, <2>3
  <2> QED BY <2>4 DEF q
<1>2. at + 1 <= Len(s) => SubSeq(s, at, at + 1) = <<s[at], s[at + 1]>>
  <2> SUFFICES ASSUME at + 1 <= Len(s)
      PROVE  SubSeq(s, at, at + 1) = <<s[at], s[at + 1]>>
    OBVIOUS
  <2> DEFINE q == SubSeq(s, at, at + 1)
  <2>1. q \in Seq(Byte) /\ Len(q) = 2
    <3>1. \A k \in at..Len(s) : s[k] \in Byte
      OBVIOUS
    <3>2. q \in Seq(Byte)
      BY <3>1
    <3>3. Len(q) = 2
      OBVIOUS
    <3> QED BY ONLY <3>2, <3>3
  <2>2. q[1] = s[at] /\ q[2] = s[at + 1]
    OBVIOUS
  <2> HIDE DEF q
  <2>3. q = <<q[1], q[2]>>
    BY ONLY <2>1
  <2>4. q = <<s[at], s[at + 1]>>
    BY ONLY <2>2, <2>3
  <2> QED BY <2>4 DEF q
<1>3. at + 2 <= Len(s) => SubSeq(s, at, at + 2) = <<s[at], s[at + 1], s[at + 2]>>
  <2> SUFFICES ASSUME at + 2 <= Len(s)
      PROVE  SubSeq(s, at, at + 2) = <<s[at], s[at + 1], s[at + 2]>>
    OBVIOUS
  <2> DEFINE q == SubSeq(s, at, at + 2)
  <2>1. q \in Seq(Byte) /\ Len(q) = 3
    <3>1. \A k \in at..Len(s) : s[k] \in Byte
      OBVIOUS
    <3>2. q \in Seq(Byte)
      BY <3>1
    <3>3. Len(q) = 3
      OBVIOUS
    <3> QED BY ONLY <3>2, <3>3
  <2>2. q[1] = s[at] /\ q[2] = s[at + 1] /\ q[3] = s[at + 2]
    OBVIOUS
  <2> HIDE DEF q
  <2>3. q = <<q[1], q[2], q[3]>>
    BY ONLY <2>1
  <2>4. q = <<s[at], s[at + 1], s[at + 2]>>
    BY ONLY <2>2, <2>3
  <2> QED BY <2>4 DEF q
<1>4. at + 3 <= Len(s) => SubSeq(s, at, at + 3) = <<s[at], s[at + 1], s[at + 2], s[at + 3]>>
  <2> SUFFICES ASSUME at + 3 <= Len(s)
      PROVE  SubSeq(s, at, at + 3) = <<s[at], s[at + 1], s[at + 2], s[at + 3]>>
    OBVIOUS
  <2> DEFINE q == SubSeq(s, at, at + 3)
  <2>1. q \in Seq(Byte) /\ Len(q) = 4
    <3>1. \A k \in at..Len(s) : s[k] \in Byte
      OBVIOUS
    <3>2. q \in Seq(Byte)
      BY <3>1
    <3>3. Len(q) = 4
      OBVIOUS
    <3> QED BY ONLY <3>2, <3>3
  <2>2. q[1] = s[at] /\ q[2] = s[at + 1] /\ q[3] = s[at + 2] /\ q[4] = s[at + 3]
    OBVIOUS
  <2> HIDE DEF q
  <2>3. q = <<q[1], q[2], q[3], q[4]>>
    BY ONLY <2>1
  <2>4. q = <<s[at], s[at + 1], s[at + 2], s[at + 3]>>
    BY ONLY <2>2, <2>3
  <2> QED BY <2>4 DEF q
<1> QED BY <1>1, <1>2, <1>3, <1>4, Zenon

\* What the decoder accepts is exactly what the table allows: a malformed byte begins no
\* row, and a character is a row of as many bytes as are read.

LEMMA Reads ==
  ASSUME NEW s \in Seq(Byte), NEW at \in 1..Len(s)
  PROVE  IF Decode(s, at).cp = NoCp
         THEN /\ Decode(s, at).adv = 1
              /\ \A n \in at..Len(s) : ~IsWellFormed(SubSeq(s, at, n))
         ELSE /\ Decode(s, at).adv \in 1..4 /\ at + Decode(s, at).adv - 1 \in at..Len(s)
              /\ Row(s, at, Decode(s, at).adv)
              /\ IsWellFormed(SubSeq(s, at, at + Decode(s, at).adv - 1))
<1> DEFINE d == Decode(s, at)
           ok == s[at] < 128 \/ IsTwo(s, at) \/ IsThree(s, at) \/ IsFour(s, at)
<1>1. s[at] \in Nat /\ (s[at] < 128 <=> s[at] <= 127) /\ (s[at] < 128 <=> Row(s, at, 1))
  <2>1. s[at] \in Byte
    OBVIOUS
  <2>2. s[at] \in Nat
    BY ONLY <2>1, ByteIs, Zenon
  <2>3. s[at] < 128 <=> s[at] <= 127
    BY ONLY <2>2, SMT
  <2>4. Row(s, at, 1) <=> s[at] <= 127
    BY ONLY SMT DEF Row
  <2> QED BY ONLY <2>2, <2>3, <2>4, Zenon
<1>2. CASE ok
  <2>1. /\ d.adv \in 1..4 /\ at + d.adv - 1 <= Len(s) /\ Row(s, at, d.adv) /\ d.cp # NoCp
    <3>1. CASE s[at] < 128
      <4>1. d = [cp |-> s[at], adv |-> 1]
        BY <3>1, Zenon DEF Decode
      <4> QED BY <1>1, <3>1, <4>1, SMT DEF NoCp
    <3>2. CASE ~(s[at] < 128) /\ IsTwo(s, at)
      <4>1. d = [cp |-> Two(s, at), adv |-> 2]
        BY <3>2, Zenon DEF Decode
      <4>2. Two(s, at) = Of2(s[at], s[at + 1]) /\ at + 1 <= Len(s) /\ Row(s, at, 2)
        BY <3>2, Forms, Zenon
      <4>3. s[at] \in Lead2 /\ s[at + 1] \in Trail
        BY ONLY <4>2, Leads, SMT DEF Row
      <4>4. Of2(s[at], s[at + 1]) # NoCp
        BY <4>3, Lead2Not, Zenon
      <4> QED BY ONLY <4>1, <4>2, <4>4, at \in 1..Len(s), SMT
    <3>3. CASE ~(s[at] < 128) /\ ~IsTwo(s, at) /\ IsThree(s, at)
      <4>1. d = [cp |-> Three(s, at), adv |-> 3]
        BY <3>3, Zenon DEF Decode
      <4>2. at + 2 <= Len(s) /\ Row(s, at, 3)
        BY <3>3, Forms, Zenon
      <4>3. Three(s, at) # NoCp
        BY ONLY <3>3, SMT DEF IsThree, NoCp
      <4> QED BY ONLY <4>1, <4>2, <4>3, at \in 1..Len(s), SMT
    <3>4. CASE ~(s[at] < 128) /\ ~IsTwo(s, at) /\ ~IsThree(s, at) /\ IsFour(s, at)
      <4>1. d = [cp |-> Four(s, at), adv |-> 4]
        BY <3>4, Zenon DEF Decode
      <4>2. at + 3 <= Len(s) /\ Row(s, at, 4)
        BY <3>4, Forms, Zenon
      <4>3. Four(s, at) # NoCp
        BY ONLY <3>4, SMT DEF IsFour, NoCp
      <4> QED BY ONLY <4>1, <4>2, <4>3, at \in 1..Len(s), SMT
    <3> QED BY <1>2, <3>1, <3>2, <3>3, <3>4, Zenon
  <2>2. at + d.adv - 1 \in at..Len(s) /\ (at + d.adv - 1) - at + 1 = d.adv
    BY ONLY <2>1, at \in 1..Len(s), SMT
  <2>3. IsWellFormed(SubSeq(s, at, at + d.adv - 1)) <=> Row(s, at, d.adv)
    <3>1. IsWellFormed(SubSeq(s, at, at + d.adv - 1)) <=> Row(s, at, (at + d.adv - 1) - at + 1)
      BY <2>2, RowIs, Zenon
    <3> QED BY ONLY <2>2, <3>1, Zenon
  <2> QED BY ONLY <2>1, <2>2, <2>3, Zenon
<1>3. CASE ~ok
  <2>1. d = [cp |-> NoCp, adv |-> 1]
    BY <1>3, Zenon DEF Decode
  <2>2. ASSUME NEW n \in at..Len(s) PROVE ~IsWellFormed(SubSeq(s, at, n))
    <3> DEFINE m == n - at + 1
    <3>1. m \in Nat /\ m >= 1 /\ at + (m - 1) <= Len(s)
      BY at \in 1..Len(s), SMT
    <3>2. IsWellFormed(SubSeq(s, at, n)) <=> Row(s, at, m)
      BY RowIs, Zenon
    <3> HIDE DEF m
    <3>3. ~Row(s, at, 1) /\ ~(at + 1 <= Len(s) /\ Row(s, at, 2))
          /\ ~(at + 2 <= Len(s) /\ Row(s, at, 3)) /\ ~(at + 3 <= Len(s) /\ Row(s, at, 4))
      BY <1>1, <1>3, Forms, Zenon
    <3>4. Row(s, at, m) => m \in 1..4
      BY ONLY SMT DEF Row
    <3>5. m = 1 \/ m = 2 \/ m = 3 \/ m = 4 \/ m \notin 1..4
      BY ONLY <3>1, SMT
    <3>6. /\ m = 2 => at + 1 <= Len(s)
          /\ m = 3 => at + 2 <= Len(s)
          /\ m = 4 => at + 3 <= Len(s)
      BY ONLY <3>1, SMT
    <3> QED BY ONLY <3>2, <3>3, <3>4, <3>5, <3>6, Zenon
  <2>3. d.cp = NoCp /\ d.adv = 1
    BY ONLY <2>1, SMT
  <2> QED BY ONLY <2>2, <2>3, Zenon
<1> QED BY ONLY <1>2, <1>3, Zenon

\* Encoding gives back what was read.
LEMMA Writes ==
  ASSUME NEW s \in Seq(Byte), NEW at \in 1..Len(s), Decode(s, at).cp # NoCp
  PROVE  EncodeCp(Decode(s, at).cp) = SubSeq(s, at, at + Decode(s, at).adv - 1)
<1> DEFINE d == Decode(s, at)
           ok == s[at] < 128 \/ IsTwo(s, at) \/ IsThree(s, at) \/ IsFour(s, at)
<1>1. ok
  BY Zenon DEF Decode
<1>3. CASE s[at] < 128
  <2>1. d = [cp |-> s[at], adv |-> 1]
    BY <1>3, Zenon DEF Decode
  <2>2. EncodeCp(s[at]) = <<s[at]>>
    BY ONLY <1>3, SMT DEF EncodeCp
  <2>3. SubSeq(s, at, at + 1 - 1) = <<s[at]>>
    <3>1. at + 1 - 1 = at
      BY ONLY at \in 1..Len(s), SMT
    <3> QED BY ONLY <3>1, Pieces, s \in Seq(Byte), at \in 1..Len(s), Zenon
  <2>6. d.cp = s[at] /\ d.adv = 1
    BY ONLY <2>1, SMT
  <2> QED BY ONLY <2>2, <2>3, <2>6, Zenon
<1>4. CASE ~(s[at] < 128) /\ IsTwo(s, at)
  <2> DEFINE p == s[at]  q == s[at + 1]
  <2>1. d = [cp |-> Two(s, at), adv |-> 2]
    BY <1>4, Zenon DEF Decode
  <2>2. Two(s, at) = Of2(p, q) /\ at + 1 <= Len(s) /\ Row(s, at, 2)
    BY <1>4, Forms, Zenon
  <2>3. p \in Lead2 /\ q \in Trail
    BY ONLY <2>2, Leads, SMT DEF Row
  <2>4. SubSeq(s, at, at + 2 - 1) = <<p, q>>
    <3>1. at + 2 - 1 = at + 1
      BY ONLY at \in 1..Len(s), SMT
    <3> QED BY ONLY <2>2, <3>1, Pieces, s \in Seq(Byte), at \in 1..Len(s), Zenon
  <2>5. EncodeCp(Of2(p, q)) = <<p, q>>
    BY ONLY <2>3, EncodesTwo, Zenon
  <2>6. d.cp = Two(s, at) /\ d.adv = 2
    BY ONLY <2>1, SMT
  <2> QED BY ONLY <2>2, <2>4, <2>5, <2>6, Zenon
<1>5. CASE ~(s[at] < 128) /\ ~IsTwo(s, at) /\ IsThree(s, at)
  <2> DEFINE p == s[at]  q == s[at + 1]  r == s[at + 2]
  <2>1. d = [cp |-> Three(s, at), adv |-> 3]
    BY <1>5, Zenon DEF Decode
  <2>2. Three(s, at) = Of3(p, q, r) /\ at + 2 <= Len(s) /\ Row(s, at, 3)
    BY <1>5, Forms, Zenon
  <2>3. Begins3(p, q) /\ r \in Trail
    BY ONLY <2>2, SMT DEF Row
  <2>4. SubSeq(s, at, at + 3 - 1) = <<p, q, r>>
    <3>1. at + 3 - 1 = at + 2
      BY ONLY at \in 1..Len(s), SMT
    <3> QED BY ONLY <2>2, <3>1, Pieces, s \in Seq(Byte), at \in 1..Len(s), Zenon
  <2>5. EncodeCp(Of3(p, q, r)) = <<p, q, r>>
    BY ONLY <2>3, EncodesThree, Zenon
  <2>6. d.cp = Three(s, at) /\ d.adv = 3
    BY ONLY <2>1, SMT
  <2> QED BY ONLY <2>2, <2>4, <2>5, <2>6, Zenon
<1>6. CASE ~(s[at] < 128) /\ ~IsTwo(s, at) /\ ~IsThree(s, at) /\ IsFour(s, at)
  <2> DEFINE p == s[at]  q == s[at + 1]  r == s[at + 2]  o == s[at + 3]
  <2>1. d = [cp |-> Four(s, at), adv |-> 4]
    BY <1>6, Zenon DEF Decode
  <2>2. Four(s, at) = Of4(p, q, r, o) /\ at + 3 <= Len(s) /\ Row(s, at, 4)
    BY <1>6, Forms, Zenon
  <2>3. Begins4(p, q) /\ r \in Trail /\ o \in Trail
    BY ONLY <2>2, SMT DEF Row
  <2>4. SubSeq(s, at, at + 4 - 1) = <<p, q, r, o>>
    <3>1. at + 4 - 1 = at + 3
      BY ONLY at \in 1..Len(s), SMT
    <3> QED BY ONLY <2>2, <3>1, Pieces, s \in Seq(Byte), at \in 1..Len(s), Zenon
  <2>5. EncodeCp(Of4(p, q, r, o)) = <<p, q, r, o>>
    BY ONLY <2>3, EncodesFour, Zenon
  <2>6. d.cp = Four(s, at) /\ d.adv = 4
    BY ONLY <2>1, SMT
  <2> QED BY ONLY <2>2, <2>4, <2>5, <2>6, Zenon
<1> QED BY ONLY <1>1, <1>3, <1>4, <1>5, <1>6, Zenon

----------------------------------------------------------------------------
(* Characters: codepoints, and malformed bytes with their tag.              *)

Char == Codepoints \cup {Opaque + b : b \in Byte}

\* An entry of the work buffer carries the class of its character.
Entries == {e \in [cp : Char, ccc : Nat] : e.ccc = ClassOf(e.cp)}
Cps(b) == [k \in 1..Len(b) |-> b[k].cp]

LEMMA OpaqueIs == Opaque \in Nat /\ Opaque > 0
  BY SMT DEF Opaque

LEMMA CodepointIs ==
  ASSUME NEW x \in Codepoints
  PROVE  /\ x \in Nat /\ ~IsOpaque(x) /\ Ccc(x) = ClassOf(x) /\ ClassOf(x) \in Nat
         /\ Spelled(x) = SpelledOut(x) /\ SpelledOut(x) \in Seq(Codepoints)
         /\ SpelledOut(x) # <<>>
         /\ IsHangulS(x) => \A k \in 1..Len(SpelledOut(x)) : ClassOf(SpelledOut(x)[k]) = 0
<1>1. \A y \in Codepoints : y \in Nat /\ ~IsOpaque(y)
  <2>1. \A y \in Codepoints : y \in 0..(Opaque - 1)
    BY TablesAssumption, Zenon
  <2> QED BY ONLY <2>1, OpaqueIs, SMT DEF IsOpaque
<1>2. /\ Ccc(x) = StdCcc(x) /\ Spelled(x) = StdDecomp(x)
      /\ StdCcc(x) \in Nat /\ StdDecomp(x) \in Seq(Codepoints) /\ StdDecomp(x) # <<>>
      /\ IsHangulS(x) => \A k \in 1..Len(StdDecomp(x)) : StdCcc(StdDecomp(x)[k]) = 0
  BY TablesAssumption, StandardAssumption, Zenon
<1>3. ClassOf(x) = StdCcc(x) /\ SpelledOut(x) = StdDecomp(x)
  BY <1>1, Zenon DEF ClassOf, SpelledOut
<1>4. \A k \in 1..Len(StdDecomp(x)) : ClassOf(StdDecomp(x)[k]) = StdCcc(StdDecomp(x)[k])
  <2> SUFFICES ASSUME NEW k \in 1..Len(StdDecomp(x))
               PROVE  ClassOf(StdDecomp(x)[k]) = StdCcc(StdDecomp(x)[k])
    OBVIOUS
  <2>1. StdDecomp(x)[k] \in Codepoints
    BY <1>2
  <2> QED BY <1>1, <2>1, Zenon DEF ClassOf
<1> QED BY <1>1, <1>2, <1>3, <1>4, Zenon

LEMMA PairIs ==
  ASSUME NEW x \in Char, NEW y \in Char
  PROVE  /\ ~IsOpaque(x) /\ ~IsOpaque(y) =>
              ComposePair(x, y) = IF HasStd(x, y) THEN StdPrimary(x, y) ELSE 0
         /\ HasComposite(x, y) =>
              /\ ComposePair(x, y) = StdPrimary(x, y) /\ ComposePair(x, y) # 0
              /\ StdPrimary(x, y) \in Char /\ ~IsOpaque(StdPrimary(x, y))
              /\ ClassOf(x) = 0 => ClassOf(StdPrimary(x, y)) = 0
         /\ ~IsOpaque(x) /\ ~IsOpaque(y) /\ ~HasComposite(x, y) => ComposePair(x, y) = 0
<1>1. ASSUME NEW z \in Char, ~IsOpaque(z) PROVE z \in Codepoints
  BY <1>1, OpaqueIs, SMT DEF Char, IsOpaque, Byte
<1>2. CASE ~IsOpaque(x) /\ ~IsOpaque(y)
  <2>1. x \in Codepoints /\ y \in Codepoints
    BY <1>1, <1>2
  <2>2. /\ ComposePair(x, y) = IF HasStd(x, y) THEN StdPrimary(x, y) ELSE 0
        /\ HasStd(x, y) => /\ StdPrimary(x, y) \in Codepoints /\ StdPrimary(x, y) # 0
                           /\ StdCcc(x) = 0 => StdCcc(StdPrimary(x, y)) = 0
    BY <2>1, TablesAssumption, StandardAssumption
  <2>3. HasStd(x, y) => ~IsOpaque(StdPrimary(x, y))
    BY <2>2, CodepointIs, Zenon
  <2> QED BY <1>2, <2>2, <2>3, Zenon DEF HasComposite, ClassOf, Char
<1> QED BY <1>2, Zenon DEF HasComposite

\* A malformed byte and its tag.
LEMMA TaggedIs ==
  ASSUME NEW b \in Byte
  PROVE  /\ Opaque + b \in Char /\ IsOpaque(Opaque + b) /\ ClassOf(Opaque + b) = 0
         /\ SpelledOut(Opaque + b) = <<Opaque + b>>
<1>1. IsOpaque(Opaque + b)
  BY OpaqueIs, SMT DEF IsOpaque, Byte
<1> QED BY <1>1, Zenon DEF ClassOf, SpelledOut, Char

LEMMA CharIs ==
  ASSUME NEW x \in Char
  PROVE  ClassOf(x) \in Nat /\ SpelledOut(x) \in Seq(Char) /\ SpelledOut(x) # <<>>
<1>1. CASE x \in Codepoints
  <2>1. SpelledOut(x) \in Seq(Codepoints) /\ Codepoints \subseteq Char
    BY <1>1, CodepointIs DEF Char
  <2>2. SpelledOut(x) \in Seq(Char)
    BY ONLY <2>1
  <2> QED BY <1>1, <2>2, CodepointIs
<1>2. CASE x \notin Codepoints
  <2>1. PICK b \in Byte : x = Opaque + b
    BY <1>2 DEF Char
  <2>2. ClassOf(x) = 0 /\ SpelledOut(x) = <<x>>
    BY <2>1, TaggedIs
  <2> QED BY <2>2
<1> QED BY <1>1, <1>2

\* What decompose_one appends is the spelling, with its classes.
LEMMA DecomposeIs ==
  ASSUME NEW x \in Codepoints
  PROVE  /\ DecomposeOne(x) \in Seq(Entries) /\ Len(DecomposeOne(x)) = Len(SpelledOut(x))
         /\ \A k \in 1..Len(SpelledOut(x)) : DecomposeOne(x)[k].cp = SpelledOut(x)[k]
<1> DEFINE ds == SpelledOut(x)
           e(k) == Entry(ds[k], IF IsHangulS(x) THEN 0 ELSE Ccc(ds[k]))
<1>1. ds \in Seq(Codepoints) /\ Spelled(x) = ds
      /\ (IsHangulS(x) => \A k \in 1..Len(ds) : ClassOf(ds[k]) = 0)
  BY CodepointIs, Zenon
<1>2. DecomposeOne(x) = [k \in 1..Len(ds) |-> e(k)]
  BY <1>1, Zenon DEF DecomposeOne
<1>3. ASSUME NEW k \in 1..Len(ds) PROVE e(k) \in Entries /\ e(k).cp = ds[k]
  <2>1. ds[k] \in Codepoints
    BY <1>1
  <2>2. Ccc(ds[k]) = ClassOf(ds[k]) /\ ClassOf(ds[k]) \in Nat /\ ds[k] \in Char
    BY <2>1, CodepointIs DEF Char
  <2>3. (IF IsHangulS(x) THEN 0 ELSE Ccc(ds[k])) = ClassOf(ds[k])
    BY <1>1, <2>2
  <2>4. e(k) = [cp |-> ds[k], ccc |-> ClassOf(ds[k])]
    BY <2>3 DEF Entry
  <2> QED BY ONLY <2>2, <2>4 DEF Entries
<1> HIDE DEF ds, e
<1>4. DecomposeOne(x) \in Seq(Entries) /\ Len(DecomposeOne(x)) = Len(ds)
  BY <1>1, <1>2, <1>3
<1>5. \A k \in 1..Len(ds) : DecomposeOne(x)[k].cp = ds[k]
  BY <1>2, <1>3
<1> QED BY <1>4, <1>5 DEF ds

----------------------------------------------------------------------------
(* What bp_nfc reads and decomposes.                                        *)

\* The library's operators as Uax15 has them.
LEMMA SameFlatten == \A s : Uax!FlattenSeq(s) = FlattenSeq(s)
  BY Zenon DEF Uax!FlattenSeq, FlattenSeq

LEMMA SameCardinality == \A s : Uax!Cardinality(s) = Cardinality(s)
  BY Zenon DEF Uax!Cardinality, Cardinality

CharAt(s, k) == IF Decode(s, k).cp = NoCp THEN Opaque + s[k] ELSE Decode(s, k).cp

LEMMA TextIs ==
  ASSUME NEW s \in Texts
  PROVE  /\ s \in Seq(Byte) /\ Len(s) \in Nat
         /\ \A k \in 1..Len(s) :
              /\ s[k] \in Byte /\ Decode(s, k).cp \in Codepoints \cup {NoCp}
              /\ CharAt(s, k) \in Char
              /\ Decode(s, k).adv \in Nat /\ Decode(s, k).adv >= 1
              /\ k + Decode(s, k).adv <= Len(s) + 1
<1>1. s \in Seq(Byte) /\ \A k \in 1..Len(s) : Decode(s, k).cp \in Codepoints \cup {NoCp}
  BY TextsAssumption
<1> SUFFICES ASSUME NEW k \in 1..Len(s)
             PROVE  /\ s[k] \in Byte /\ CharAt(s, k) \in Char
                    /\ Decode(s, k).adv \in Nat /\ Decode(s, k).adv >= 1
                    /\ k + Decode(s, k).adv <= Len(s) + 1
  BY <1>1
<1>2. s[k] \in Byte
  BY <1>1
<1>3. CharAt(s, k) \in Char
  BY <1>1, <1>2, Zenon DEF CharAt, Char
<1>4. /\ Decode(s, k).adv \in Nat /\ Decode(s, k).adv >= 1
      /\ k + Decode(s, k).adv <= Len(s) + 1
  <2>1. \/ Decode(s, k).adv = 1
        \/ Decode(s, k).adv \in 1..4 /\ k + Decode(s, k).adv - 1 \in k..Len(s)
    BY ONLY <1>1, Reads, Zenon
  <2> QED BY <1>1, <2>1
<1> QED BY <1>2, <1>3, <1>4

ReadStates(s) == [next : 1..(Len(s) + 1), cps : Seq(Char)]

LEMMA ReadOneIs ==
  ASSUME NEW s \in Texts, NEW st \in ReadStates(s)
  PROVE  /\ ReadOne(s, st) \in ReadStates(s)
         /\ st.next > Len(s) => ReadOne(s, st) = st
         /\ st.next <= Len(s) =>
              /\ ReadOne(s, st).next = st.next + Decode(s, st.next).adv
              /\ ReadOne(s, st).next > st.next
              /\ ReadOne(s, st).cps = Append(st.cps, CharAt(s, st.next))
<1> DEFINE n == Len(s)
           k == st.next
           d == Decode(s, k)
<1>1. n \in Nat /\ k \in 1..(n + 1) /\ st.cps \in Seq(Char)
  BY TextIs DEF ReadStates
<1>2. CASE k > n
  <2>1. ReadOne(s, st) = st
    BY <1>2, Zenon DEF ReadOne
  <2>2. ~(k <= n)
    BY <1>1, <1>2
  <2> QED BY <1>2, <2>1, <2>2
<1>3. CASE k <= n
  <2>1. ReadOne(s, st) = [next |-> k + d.adv, cps |-> Append(st.cps, CharAt(s, k))]
    BY <1>1, <1>3 DEF ReadOne, CharAt
  <2>2. /\ CharAt(s, k) \in Char /\ d.adv \in Nat /\ d.adv >= 1 /\ k + d.adv <= n + 1
    BY <1>1, <1>3, TextIs
  <2> HIDE DEF d, k, n
  <2>3. k + d.adv \in 1..(n + 1) /\ k + d.adv > k /\ Append(st.cps, CharAt(s, k)) \in Seq(Char)
    BY ONLY <1>1, <2>2
  <2>4. ReadOne(s, st) \in [next : 1..(n + 1), cps : Seq(Char)]
    BY ONLY <2>1, <2>3
  <2>5. /\ ReadOne(s, st).next = k + d.adv
        /\ ReadOne(s, st).cps = Append(st.cps, CharAt(s, k))
    BY ONLY <2>1
  <2> QED BY ONLY <1>3, <2>3, <2>4, <2>5 DEF n, k, d, ReadStates
<1> QED BY ONLY <1>1, <1>2, <1>3

LEMMA ReadingsSteps ==
  ASSUME NEW s \in Texts
  PROVE  /\ Readings(s) \in [0..Len(s) -> ReadStates(s)]
         /\ Readings(s)[0] = [next |-> 1, cps |-> <<>>]
         /\ \A m \in 1..Len(s) : Readings(s)[m] = ReadOne(s, Readings(s)[m - 1])
<1> DEFINE n == Len(s)
           c == [next |-> 1, cps |-> <<>>]
           S == ReadStates(s)
           Eq(f) == f = [m \in 0..n |-> IF m = 0 THEN c ELSE ReadOne(s, f[m - 1])]
           F == [m \in 1..n |-> [x \in S |-> ReadOne(s, x)]]
           h == Readings(s)
<1>1. n \in Nat /\ c \in S
  BY TextIs DEF ReadStates
<1>2. F \in Steps(n, S)
  <2>1. [x \in S |-> ReadOne(s, x)] \in [S -> S]
    BY ReadOneIs
  <2> HIDE DEF S
  <2> QED BY <2>1 DEF Steps
<1>3. h = CHOOSE f : Eq(f)
  BY DEF Readings
<1> HIDE DEF n, h, S, c
<1>4. PICK g : Iterated(g, n, S, c, F)
  <2> HIDE DEF F
  <2> QED BY <1>1, <1>2, Iterates
<1>5. Eq(g)
  <2>1. g \in [0..n -> S] /\ g[0] = c
    BY <1>4 DEF Iterated
  <2>2. ASSUME NEW m \in 1..n PROVE g[m] = ReadOne(s, g[m - 1])
    <3>1. g[m] = F[m][g[m - 1]]
      BY <1>4 DEF Iterated
    <3>2. g[m - 1] \in S
      BY <1>1, <2>1
    <3> QED BY <3>1, <3>2
  <2> HIDE DEF F
  <2>3. ASSUME NEW m \in 0..n PROVE g[m] = IF m = 0 THEN c ELSE ReadOne(s, g[m - 1])
    BY <2>1, <2>2
  <2> QED BY <2>1, <2>3
<1>6. Eq(h)
  <2> HIDE DEF Eq
  <2> QED BY <1>3, <1>5
<1>7. h[0] = c /\ \A m \in 1..n : h[m] = ReadOne(s, h[m - 1])
  BY <1>1, <1>6
<1> DEFINE T == {m \in 0..n : h[m] \in S}
<1>8. 0 \in T
  BY <1>1, <1>7
<1>9. ASSUME NEW m \in 1..n, m - 1 \in T PROVE m \in T
  <2>1. h[m - 1] \in S
    BY <1>9
  <2>2. ReadOne(s, h[m - 1]) \in S
    BY <2>1, ReadOneIs DEF S
  <2>3. h[m] \in S /\ m \in 0..n
    BY <1>1, <1>7, <2>2
  <2> QED BY <2>3
<1>10. \A m \in 0..n : m \in T
  <2> HIDE DEF T
  <2> QED BY <1>1, <1>8, <1>9, UpTo
<1>11. \A m \in 0..n : h[m] \in S
  BY <1>10
<1>12. h \in [0..n -> S]
  BY <1>6, <1>11
<1> QED BY <1>7, <1>12 DEF n, h, S, c

\* A read leaves less to read; when nothing is left, nothing changes.
LEMMA ReadingsNext ==
  ASSUME NEW s \in Texts, NEW k \in 0..Len(s)
  PROVE  Readings(s)[k].next <= Len(s) => Readings(s)[k].next >= k + 1
<1> DEFINE n == Len(s)
           R == Readings(s)
           T == {m \in 0..n : R[m].next <= n => R[m].next >= m + 1}
<1>1. /\ n \in Nat /\ R \in [0..n -> ReadStates(s)] /\ R[0].next = 1
      /\ \A m \in 1..n : R[m] = ReadOne(s, R[m - 1])
  BY ReadingsSteps, TextIs
<1> HIDE DEF R
<1>2. 0 \in T
  BY <1>1
<1>3. ASSUME NEW m \in 1..n, m - 1 \in T PROVE m \in T
  <2>1. R[m - 1] \in ReadStates(s) /\ R[m] = ReadOne(s, R[m - 1]) /\ R[m] \in ReadStates(s)
    BY <1>1
  <2>2. R[m - 1].next \in Nat /\ R[m].next \in Nat
    BY <1>1, <2>1 DEF ReadStates
  <2>3. CASE R[m - 1].next > n
    BY <1>1, <2>1, <2>3, ReadOneIs
  <2>4. CASE R[m - 1].next <= n
    <3>1. R[m].next > R[m - 1].next
      BY <2>1, <2>4, ReadOneIs
    <3>2. R[m - 1].next >= m
      BY <1>1, <1>3, <2>4
    <3> QED BY <1>1, <2>2, <3>1, <3>2
  <2> QED BY <1>1, <2>2, <2>3, <2>4
<1>4. \A m \in 0..n : m \in T
  <2> HIDE DEF T
  <2> QED BY <1>1, <1>2, <1>3, UpTo
<1> QED BY <1>4 DEF R

LEMMA ReadingsEnd ==
  ASSUME NEW s \in Texts, NEW k \in 0..Len(s), Readings(s)[k].next > Len(s)
  PROVE  Readings(s)[Len(s)] = Readings(s)[k]
<1> DEFINE n == Len(s)
           R == Readings(s)
           T == {m \in 0..n : m >= k => R[m] = R[k]}
<1>1. /\ n \in Nat /\ R \in [0..n -> ReadStates(s)]
      /\ \A m \in 1..n : R[m] = ReadOne(s, R[m - 1])
  BY ReadingsSteps, TextIs
<1>2. R[k].next > n
  OBVIOUS
<1> HIDE DEF R
<1>3. 0 \in T
  BY <1>1
<1>4. ASSUME NEW m \in 1..n, m - 1 \in T PROVE m \in T
  <2>1. CASE m - 1 >= k
    <3>1. R[m - 1] = R[k] /\ R[m - 1] \in ReadStates(s) /\ R[m] = ReadOne(s, R[m - 1])
      BY <1>1, <1>4, <2>1
    <3>2. R[m] = R[m - 1]
      BY <1>2, <3>1, ReadOneIs
    <3> QED BY <1>1, <3>1, <3>2
  <2>2. CASE m - 1 < k
    BY <1>1, <2>2
  <2> QED BY <1>1, <2>1, <2>2
<1>5. \A m \in 0..n : m \in T
  <2> HIDE DEF T
  <2> QED BY <1>1, <1>3, <1>4, UpTo
<1>6. n \in 0..n /\ n >= k
  BY <1>1
<1>7. R[n] = R[k]
  BY <1>5, <1>6
<1> QED BY <1>7 DEF R

LEMMA DecomposedIs ==
  /\ Uax!Decomposed(<<>>) = <<>>
  /\ \A s \in Seq(Char) :
       /\ Uax!Decomposed(s) \in Seq(Char)
       /\ \A x \in Char : Uax!Decomposed(Append(s, x)) = Uax!Decomposed(s) \o SpelledOut(x)
<1> DEFINE each(s) == [k \in 1..Len(s) |-> SpelledOut(s[k])]
<1>1. \A s : Uax!Decomposed(s) = FlattenSeq(each(s))
  BY SameFlatten, Zenon DEF Uax!Decomposed
<1>2. each(<<>>) = <<>>
  OBVIOUS
<1>3. ASSUME NEW s \in Seq(Char) PROVE each(s) \in Seq(Seq(Char))
  <2>1. \A k \in 1..Len(s) : s[k] \in Char
    OBVIOUS
  <2>2. \A k \in 1..Len(s) : SpelledOut(s[k]) \in Seq(Char)
    BY ONLY <2>1, CharIs
  <2> QED BY <2>2
<1>4. ASSUME NEW s \in Seq(Char), NEW x \in Char
      PROVE  each(Append(s, x)) = Append(each(s), SpelledOut(x)) /\ SpelledOut(x) \in Seq(Char)
  <2>1. SpelledOut(x) \in Seq(Char) /\ each(s) \in Seq(Seq(Char)) /\ Len(each(s)) = Len(s)
    BY <1>3, CharIs
  <2>2. /\ Len(Append(s, x)) = Len(s) + 1 /\ Append(s, x)[Len(s) + 1] = x
        /\ \A k \in 1..Len(s) : Append(s, x)[k] = s[k]
    OBVIOUS
  <2>3. \A k \in 1..(Len(s) + 1) : SpelledOut(Append(s, x)[k]) = Append(each(s), SpelledOut(x))[k]
    BY <2>1, <2>2
  <2>4. Append(each(s), SpelledOut(x)) = [k \in 1..(Len(s) + 1) |-> Append(each(s), SpelledOut(x))[k]]
    BY <2>1
  <2> QED BY <2>1, <2>2, <2>3, <2>4
<1> HIDE DEF each
<1>5. Uax!Decomposed(<<>>) = <<>>
  BY <1>1, <1>2, FlattenEmpty
<1>6. ASSUME NEW s \in Seq(Char) PROVE Uax!Decomposed(s) \in Seq(Char)
  BY <1>1, <1>3, FlattenType
<1>7. ASSUME NEW s \in Seq(Char), NEW x \in Char
      PROVE  Uax!Decomposed(Append(s, x)) = Uax!Decomposed(s) \o SpelledOut(x)
  BY <1>1, <1>3, <1>4, FlattenAppend
<1> QED BY <1>5, <1>6, <1>7

----------------------------------------------------------------------------
(* Canonical order.                                                         *)

\* A set numbered without repetition has that many members.
LEMMA Counted ==
  ASSUME NEW T, NEW n \in Nat, NEW at \in [1..n -> T],
         \A a \in T : \E k \in 1..n : at[k] = a,
         \A j, k \in 1..n : at[j] = at[k] => j = k
  PROVE  Cardinality(T) = n
<1>1. at \in Bijection(1..n, T)
  BY DEF Bijection, Injection, Surjection, IsInjective
<1>2. ExistsBijection(1..n, T)
  BY <1>1 DEF ExistsBijection
<1>3. IsFiniteSet(1..n) /\ Cardinality(1..n) = n
  BY FS_Interval
<1> QED BY <1>2, <1>3, FS_Bijection

\* A numbering in a strict order is the arrangement by that order.
LEMMA ArrangedIs ==
  ASSUME NEW T, NEW R, NEW n \in Nat, NEW at \in [1..n -> T],
         \A a \in T : \E k \in 1..n : at[k] = a,
         \A j, k \in 1..n : <<at[j], at[k]>> \in R <=> j < k
  PROVE  Cardinality(T) = n /\ Uax!Arranged(T, R) = at
<1> DEFINE before(a) == {b \in T : <<b, a>> \in R}
           rank == {<<a, Cardinality(before(a))>> : a \in T}
<1>1. ASSUME NEW j \in 1..n, NEW k \in 1..n, at[j] = at[k] PROVE j = k
  <2>1. ~(j < k) /\ ~(k < j)
    <3>1. ~(j < j)
      OBVIOUS
    <3>2. <<at[j], at[j]>> \notin R
      BY <3>1
    <3> QED BY <1>1, <3>2
  <2> QED BY <2>1
<1>2. Cardinality(T) = n
  BY <1>1, Counted
<1>3. ASSUME NEW q \in 1..n PROVE Cardinality(before(at[q])) = q - 1
  <2> DEFINE B == before(at[q])
             f == [k \in 1..(q - 1) |-> at[k]]
  <2>1. q - 1 \in Nat /\ \A k \in 1..(q - 1) : k \in 1..n /\ k < q
    OBVIOUS
  <2>2. f \in [1..(q - 1) -> B]
    BY <2>1
  <2>3. \A b \in B : \E k \in 1..(q - 1) : f[k] = b
    <3> SUFFICES ASSUME NEW b \in B PROVE \E k \in 1..(q - 1) : f[k] = b
      OBVIOUS
    <3>1. PICK k \in 1..n : at[k] = b
      OBVIOUS
    <3>2. <<at[k], at[q]>> \in R
      BY <3>1
    <3>3. k < q
      BY <3>2
    <3>4. k \in 1..(q - 1)
      BY <3>3
    <3> QED BY <3>1, <3>4
  <2>4. \A j, k \in 1..(q - 1) : f[j] = f[k] => j = k
    BY <1>1, <2>1
  <2> HIDE DEF f, B
  <2>5. Cardinality(B) = q - 1
    BY ONLY <2>1, <2>2, <2>3, <2>4, Counted
  <2> QED BY <2>5 DEF B
<1> HIDE DEF before
<1>4. ASSUME NEW p \in 1..n PROVE (CHOOSE a \in T : <<a, p - 1>> \in rank) = at[p]
  <2>1. \A a \in T : <<a, p - 1>> \in rank <=> Cardinality(before(a)) = p - 1
    OBVIOUS
  <2>2. <<at[p], p - 1>> \in rank
    BY <1>3, <2>1
  <2>3. ASSUME NEW a \in T, <<a, p - 1>> \in rank PROVE a = at[p]
    <3>1. PICK q \in 1..n : at[q] = a
      OBVIOUS
    <3>2. q - 1 = p - 1
      BY <1>3, <2>1, <2>3, <3>1
    <3>3. q = p
      BY <3>2
    <3> QED BY <3>1, <3>3
  <2> HIDE DEF rank
  <2> QED BY <2>2, <2>3
<1>5. Uax!Arranged(T, R) = [p \in 1..n |-> CHOOSE a \in T : <<a, p - 1>> \in rank]
  <2> DEFINE counts == {<<a, Uax!Cardinality({b \in T : <<b, a>> \in R})>> : a \in T}
  <2>1. counts = rank
    BY SameCardinality DEF before
  <2>2. Uax!Arranged(T, R) = [p \in 1..Uax!Cardinality(T) |-> CHOOSE a \in T : <<a, p - 1>> \in counts]
    BY Zenon DEF Uax!Arranged
  <2> HIDE DEF counts, rank
  <2> QED BY <1>2, <2>1, <2>2, SameCardinality
<1> HIDE DEF rank
<1>6. [p \in 1..n |-> CHOOSE a \in T : <<a, p - 1>> \in rank] = [p \in 1..n |-> at[p]]
  BY <1>4
<1> QED BY <1>2, <1>5, <1>6

\* A permutation that puts the entries of s in the order of D109.
IsOrder(s, n, at) ==
  /\ at \in [1..n -> 1..n]
  /\ \A a \in 1..n : \E k \in 1..n : at[k] = a
  /\ \A j, k \in 1..n : j < k => Uax!Precedes(s, at[j], at[k])

\* No two precede each other.
LEMMA PrecedesOne ==
  ASSUME NEW s \in Seq(Char), NEW a \in 1..Len(s), NEW b \in 1..Len(s)
  PROVE  ~(Uax!Precedes(s, a, b) /\ Uax!Precedes(s, b, a))
<1>1. Uax!Together(s, a, b) <=> Uax!Together(s, b, a)
  BY Zenon DEF Uax!Together
<1>2. s[a] \in Char /\ s[b] \in Char
  OBVIOUS
<1>3. ClassOf(s[a]) \in Nat /\ ClassOf(s[b]) \in Nat
  BY <1>2, CharIs
<1> QED BY <1>1, <1>3 DEF Uax!Precedes

\* Such a permutation is what Ordered applies.
LEMMA OrderedIs ==
  ASSUME NEW s \in Seq(Char), NEW at, IsOrder(s, Len(s), at)
  PROVE  Uax!Ordered(s) = [k \in 1..Len(s) |-> s[at[k]]]
<1> DEFINE n == Len(s)
           R == Uax!CanonicalOrder(s)
<1>1. n \in Nat /\ at \in [1..n -> 1..n] /\ \A a \in 1..n : \E k \in 1..n : at[k] = a
  BY DEF IsOrder
<1>2. \A a, b \in 1..n : <<a, b>> \in R <=> Uax!Precedes(s, a, b)
  BY DEF Uax!CanonicalOrder
<1>3. \A j, k \in 1..n : j < k => Uax!Precedes(s, at[j], at[k])
  BY DEF IsOrder
<1>4. \A j, k \in 1..n : <<at[j], at[k]>> \in R <=> j < k
  <2> SUFFICES ASSUME NEW j \in 1..n, NEW k \in 1..n
               PROVE  Uax!Precedes(s, at[j], at[k]) <=> j < k
    BY <1>1, <1>2
  <2>1. at[j] \in 1..n /\ at[k] \in 1..n
    BY <1>1
  <2>2. ~(Uax!Precedes(s, at[j], at[k]) /\ Uax!Precedes(s, at[k], at[j]))
    BY <2>1, PrecedesOne
  <2>3. CASE j < k
    BY <1>3, <2>3
  <2>4. CASE k < j
    BY <1>3, <2>2, <2>4
  <2>5. CASE j = k
    BY <2>2, <2>5
  <2> QED BY <2>3, <2>4, <2>5
<1> HIDE DEF R, n
<1>5. Uax!Arranged(1..n, R) = at
  BY ONLY <1>1, <1>4, ArrangedIs
<1> QED BY <1>5, Zenon DEF Uax!Ordered, n, R

\* One entry more, where the insertion sort puts it.
InsertedAt(at, i1, p) ==
  [k \in 1..i1 |-> IF k < p THEN at[k] ELSE IF k = p THEN i1 ELSE at[k - 1]]

LEMMA InsertedOnto ==
  ASSUME NEW m \in Nat, NEW p \in 1..(m + 1), NEW at \in [1..m -> 1..m],
         \A a \in 1..m : \E k \in 1..m : at[k] = a
  PROVE  /\ InsertedAt(at, m + 1, p) \in [1..(m + 1) -> 1..(m + 1)]
         /\ \A a \in 1..(m + 1) : \E k \in 1..(m + 1) : InsertedAt(at, m + 1, p)[k] = a
<1> DEFINE t == InsertedAt(at, m + 1, p)
<1>1. \A k \in 1..(m + 1) : t[k] = IF k < p THEN at[k] ELSE IF k = p THEN m + 1 ELSE at[k - 1]
  BY DEF InsertedAt
<1>2. t \in [1..(m + 1) -> 1..(m + 1)]
  <2>1. ASSUME NEW k \in 1..(m + 1) PROVE t[k] \in 1..(m + 1)
    <3>1. CASE k < p
      <4>1. k \in 1..m /\ t[k] = at[k]
        BY <1>1, <3>1
      <4> QED BY <4>1
    <3>2. CASE k = p
      BY <1>1, <3>2
    <3>3. CASE k > p
      <4>1. k - 1 \in 1..m /\ t[k] = at[k - 1]
        BY <1>1, <3>3
      <4>2. at[k - 1] \in 1..m
        BY <4>1
      <4> HIDE DEF t
      <4> QED BY <4>1, <4>2
    <3> QED BY <3>1, <3>2, <3>3
  <2> QED BY <2>1 DEF InsertedAt
<1>3. ASSUME NEW a \in 1..(m + 1) PROVE \E k \in 1..(m + 1) : t[k] = a
  <2>1. CASE a = m + 1
    BY <1>1, <2>1
  <2>2. CASE a # m + 1
    <3>1. PICK q \in 1..m : at[q] = a
      BY <2>2
    <3>2. CASE q < p
      <4>1. q \in 1..(m + 1)
        OBVIOUS
      <4>2. t[q] = at[q]
        BY <1>1, <3>2, <4>1
      <4> QED BY <3>1, <4>1, <4>2
    <3>3. CASE q >= p
      <4>1. q + 1 \in 1..(m + 1) /\ ~(q + 1 < p) /\ q + 1 # p /\ (q + 1) - 1 = q
        BY <3>3
      <4>2. t[q + 1] = a
        BY <1>1, <3>1, <4>1
      <4> QED BY <4>1, <4>2
    <3> QED BY <3>2, <3>3
  <2> QED BY <2>1, <2>2
<1> QED BY <1>2, <1>3

\* The order holds for the longer prefix when the new entry is put where IsPlace says.
LEMMA InsertedIsOrder ==
  ASSUME NEW s \in Seq(Char), NEW m \in Nat, m + 1 \in 1..Len(s), NEW at, IsOrder(s, m, at),
         NEW p \in 1..(m + 1),
         ClassOf(s[m + 1]) = 0 => p = m + 1,
         ClassOf(s[m + 1]) # 0 =>
           /\ \A q \in p..m : ClassOf(s[at[q]]) > ClassOf(s[m + 1])
           /\ p > 1 => ClassOf(s[at[p - 1]]) <= ClassOf(s[m + 1])
  PROVE  IsOrder(s, m + 1, InsertedAt(at, m + 1, p))
<1> DEFINE t == InsertedAt(at, m + 1, p)
           x == m + 1
           c(a) == ClassOf(s[a])
<1>1. /\ at \in [1..m -> 1..m] /\ \A a \in 1..m : \E k \in 1..m : at[k] = a
      /\ \A j, k \in 1..m : j < k => Uax!Precedes(s, at[j], at[k])
  BY DEF IsOrder
<1>2. /\ t \in [1..x -> 1..x] /\ \A a \in 1..x : \E k \in 1..x : t[k] = a
  BY <1>1, InsertedOnto
<1>3. \A k \in 1..x : t[k] = IF k < p THEN at[k] ELSE IF k = p THEN x ELSE at[k - 1]
  BY DEF InsertedAt
<1>4. \A a \in 1..x : a \in 1..Len(s) /\ c(a) \in Nat
  <2> SUFFICES ASSUME NEW a \in 1..x PROVE a \in 1..Len(s) /\ c(a) \in Nat
    OBVIOUS
  <2>1. a \in 1..Len(s)
    OBVIOUS
  <2>2. s[a] \in Char
    BY <2>1
  <2> QED BY <2>1, <2>2, CharIs
<1> HIDE DEF t
<1>5. ASSUME NEW j \in 1..m, j < p PROVE Uax!Precedes(s, at[j], x)
  <2> DEFINE a == at[j]
  <2>1. a \in 1..m /\ a < x /\ c(a) \in Nat /\ c(x) \in Nat
    <3>1. a \in 1..m
      BY <1>1
    <3>2. a \in 1..x /\ x \in 1..x /\ a < x
      BY <3>1
    <3> QED BY <1>4, <3>1, <3>2
  <2>2. ASSUME Uax!Together(s, a, x), c(a) > c(x) PROVE FALSE
    <3>1. c(x) # 0
      <4>1. x \in (a..x) \cup (x..a)
        BY <2>1
      <4> QED BY <2>2, <4>1, Zenon DEF Uax!Together
    <3> DEFINE e == at[p - 1]
    <3>2. p > 1 /\ p - 1 \in 1..m /\ c(e) <= c(x)
      BY <1>5, <3>1
    <3>3. e \in 1..m /\ c(e) \in Nat /\ j # p - 1
      <4>1. e \in 1..m
        BY <1>1, <3>2
      <4>2. e \in 1..x
        BY <4>1
      <4>3. c(e) \in Nat
        BY <1>4, <4>2
      <4>4. j # p - 1
        <5> HIDE DEF c
        <5> QED BY <2>1, <2>2, <3>2, <4>3
      <4> QED BY <4>1, <4>3, <4>4
    <3>4. Uax!Precedes(s, a, e)
      BY <1>1, <1>5, <3>2, <3>3
    <3>5. c(a) > c(e)
      BY <2>1, <2>2, <3>2, <3>3
    <3>6. ~Uax!Together(s, a, e) /\ a < e
      BY <2>1, <3>3, <3>4, <3>5 DEF Uax!Precedes
    <3>7. \A k \in (a..e) \cup (e..a) : k \in (a..x) \cup (x..a)
      BY <2>1, <3>3, <3>6
    <3>8. Uax!Together(s, a, e)
      BY <2>2, <3>7, Zenon DEF Uax!Together
    <3> QED BY <3>6, <3>8
  <2> HIDE DEF a
  <2>3. Uax!Together(s, a, x) /\ c(a) # c(x) => c(a) < c(x)
    BY <2>1, <2>2
  <2> QED BY <2>1, <2>3 DEF Uax!Precedes, a
<1>6. ASSUME NEW k \in p..m PROVE Uax!Precedes(s, x, at[k])
  <2> DEFINE e == at[k]
  <2>1. k \in 1..m /\ e \in 1..m /\ e < x /\ c(e) \in Nat /\ c(x) \in Nat
    <3>1. k \in 1..m
      OBVIOUS
    <3>2. e \in 1..m
      BY <1>1, <3>1
    <3>3. e \in 1..x /\ x \in 1..x /\ e < x
      BY <3>2
    <3> QED BY <1>4, <3>1, <3>2, <3>3
  <2>2. c(x) # 0
    BY <1>6
  <2>3. c(e) > c(x)
    BY <2>2
  <2>4. ASSUME NEW r \in e..x, c(r) = 0 PROVE FALSE
    <3>1. r # e /\ r # x /\ r \in 1..m /\ r > e
      BY <2>1, <2>2, <2>3, <2>4
    <3>2. PICK q \in 1..m : at[q] = r
      BY <1>1, <3>1
    <3>3. q < p
      <4>1. CASE q \in p..m
        <5>1. c(r) > c(x)
          BY <2>2, <3>2, <4>1
        <5> QED BY <2>1, <2>4, <5>1
      <4> QED BY <4>1
    <3>4. Uax!Precedes(s, r, e)
      <4>1. q < k
        BY <3>3
      <4> QED BY <1>1, <2>1, <3>2, <4>1
    <3>5. r \in (r..e) \cup (e..r)
      BY <2>1, <3>1
    <3>6. ~Uax!Together(s, r, e)
      BY <2>4, <3>5, Zenon DEF Uax!Together
    <3>7. r < e
      BY <3>4, <3>6 DEF Uax!Precedes
    <3> QED BY <2>1, <3>1, <3>7
  <2>5. \A r \in (x..e) \cup (e..x) : r \in e..x
    BY <2>1
  <2>6. Uax!Together(s, x, e)
    BY <2>4, <2>5, Zenon DEF Uax!Together
  <2> HIDE DEF e
  <2> QED BY <2>1, <2>3, <2>6 DEF Uax!Precedes, e
<1>7. ASSUME NEW j \in 1..x, NEW k \in 1..x, j < k PROVE Uax!Precedes(s, t[j], t[k])
  <2>1. CASE k < p
    <3>1. j \in 1..m /\ k \in 1..m /\ t[j] = at[j] /\ t[k] = at[k]
      BY <1>3, <1>7, <2>1
    <3> QED BY <1>1, <1>7, <3>1
  <2>2. CASE k = p
    <3>1. j \in 1..m /\ j < p /\ t[j] = at[j] /\ t[k] = x
      BY <1>3, <1>7, <2>2
    <3> QED BY <1>5, <3>1
  <2>3. CASE k > p
    <3>1. k - 1 \in p..m /\ k - 1 \in 1..m /\ t[k] = at[k - 1]
      BY <1>3, <2>3
    <3>2. CASE j < p
      <4>1. j \in 1..m /\ j < k - 1 /\ t[j] = at[j]
        BY <1>3, <2>3, <3>1, <3>2
      <4> QED BY <1>1, <3>1, <4>1
    <3>3. CASE j = p
      <4>1. t[j] = x
        BY <1>3, <3>3
      <4> QED BY <1>6, <3>1, <4>1
    <3>4. CASE j > p
      <4>1. j - 1 \in 1..m /\ j - 1 < k - 1 /\ t[j] = at[j - 1]
        BY <1>3, <1>7, <3>4
      <4> QED BY <1>1, <3>1, <4>1
    <3> QED BY <3>2, <3>3, <3>4
  <2> QED BY <2>1, <2>2, <2>3
<1> QED BY <1>2, <1>7 DEF IsOrder, t

\* In the canonical order a mark is not before one of lower class, unless at a starter.
LEMMA OrderIsSorted ==
  ASSUME NEW s \in Seq(Char), NEW at, IsOrder(s, Len(s), at), NEW k \in 2..Len(s),
         ClassOf(s[at[k]]) # 0
  PROVE  ClassOf(s[at[k - 1]]) <= ClassOf(s[at[k]])
<1> DEFINE n == Len(s)
           a == at[k - 1]
           e == at[k]
           c(x) == ClassOf(s[x])
<1>1. /\ n \in Nat /\ \A x \in 1..n : at[x] \in 1..n
      /\ \A x \in 1..n : \E q \in 1..n : at[q] = x
      /\ \A j, q \in 1..n : j < q => Uax!Precedes(s, at[j], at[q])
  <2>1. at \in [1..n -> 1..n]
    BY Zenon DEF IsOrder
  <2>2. /\ \A x \in 1..n : \E q \in 1..n : at[q] = x
        /\ \A j, q \in 1..n : j < q => Uax!Precedes(s, at[j], at[q])
    BY Zenon DEF IsOrder
  <2>3. n \in Nat
    OBVIOUS
  <2> HIDE DEF n
  <2> QED BY ONLY <2>1, <2>2, <2>3
<1>2. k \in 1..n /\ k - 1 \in 1..n /\ k - 1 < k
  OBVIOUS
<1>3. a \in 1..n /\ e \in 1..n /\ Uax!Precedes(s, a, e)
  BY <1>1, <1>2
<1>4. \A x \in 1..n : c(x) \in Nat
  <2> SUFFICES ASSUME NEW x \in 1..n PROVE c(x) \in Nat
    OBVIOUS
  <2>1. s[x] \in Char
    OBVIOUS
  <2> QED BY <2>1, CharIs
<1> SUFFICES ASSUME c(a) > c(e), c(e) # 0 PROVE FALSE
  BY <1>3, <1>4
<1> HIDE DEF a, e
<1>5. ~Uax!Together(s, a, e) /\ a < e
  BY <1>3, <1>4 DEF Uax!Precedes
<1>6. PICK r \in (a..e) \cup (e..a) : c(r) = 0
  BY <1>5, Zenon DEF Uax!Together
<1>7. r \in 1..n /\ a < r /\ r < e
  BY <1>3, <1>4, <1>5, <1>6
<1>8. PICK q \in 1..n : at[q] = r
  BY <1>1, <1>7
<1>9. Uax!Precedes(s, a, r) /\ Uax!Precedes(s, r, e)
  <2>1. r \in (a..r) \cup (r..a) /\ r \in (r..e) \cup (e..r)
    BY <1>3, <1>7
  <2>2. ~Uax!Together(s, a, r) /\ ~Uax!Together(s, r, e)
    BY <1>6, <2>1, Zenon DEF Uax!Together
  <2> QED BY <1>7, <2>2 DEF Uax!Precedes
<1>10. ~Uax!Precedes(s, r, a) /\ ~Uax!Precedes(s, e, r)
  BY <1>3, <1>7, <1>9, PrecedesOne
<1>11. ~(q < k - 1) /\ ~(k < q)
  BY <1>1, <1>2, <1>8, <1>10 DEF a, e
<1>12. q = k - 1 \/ q = k
  BY <1>2, <1>11
<1> QED BY <1>3, <1>7, <1>8, <1>12 DEF a, e

\* The buffer after an insertion.
LEMMA InsertIs ==
  ASSUME NEW D, NEW b \in Seq(D), NEW x \in 1..Len(b), NEW p \in 1..x
  PROVE  /\ InsertAt(RemoveAt(b, x), p, b[x]) \in Seq(D)
         /\ Len(InsertAt(RemoveAt(b, x), p, b[x])) = Len(b)
         /\ \A k \in 1..Len(b) :
              InsertAt(RemoveAt(b, x), p, b[x])[k] =
                IF k > x THEN b[k] ELSE IF k < p THEN b[k] ELSE IF k = p THEN b[x] ELSE b[k - 1]
<1> DEFINE n == Len(b)
           r == RemoveAt(b, x)
           t == InsertAt(r, p, b[x])
<1>1. n \in Nat /\ x \in 1..n
  OBVIOUS
<1>2. /\ r \in Seq(D) /\ Len(r) = n - 1
      /\ \A k \in 1..(n - 1) : r[k] = IF k < x THEN b[k] ELSE b[k + 1]
  <2> DEFINE u == SubSeq(b, 1, x - 1)
             v == SubSeq(b, x + 1, n)
  <2>1. /\ u \in Seq(D) /\ Len(u) = x - 1 /\ \A k \in 1..(x - 1) : u[k] = b[k]
    BY <1>1
  <2>2. /\ v \in Seq(D) /\ Len(v) = n - x /\ \A k \in 1..(n - x) : v[k] = b[k + x]
    <3>1. \A k \in (x + 1)..n : k \in 1..Len(b)
      BY <1>1
    <3>2. v \in Seq(D) /\ Len(v) = n - x
      BY <1>1, <3>1
    <3>3. \A k \in 1..(n - x) : v[k] = b[(x + 1) + k - 1]
      BY <1>1
    <3>4. \A k \in 1..(n - x) : (x + 1) + k - 1 = k + x
      BY <1>1
    <3> HIDE DEF v
    <3> QED BY <3>2, <3>3, <3>4
  <2>3. r = u \o v
    BY DEF RemoveAt
  <2> HIDE DEF u, v, r
  <2>4. r \in Seq(D) /\ Len(r) = n - 1
    <3>1. r \in Seq(D) /\ Len(r) = Len(u) + Len(v)
      BY ONLY <2>1, <2>2, <2>3, ConcatProperties
    <3> QED BY <1>1, <2>1, <2>2, <3>1
  <2>5. ASSUME NEW k \in 1..(n - 1) PROVE r[k] = IF k < x THEN b[k] ELSE b[k + 1]
    <3>1. CASE k < x
      BY <1>1, <2>1, <2>2, <2>3, <3>1
    <3>2. CASE k >= x
      <4>1. r[k] = v[k - (x - 1)] /\ k - (x - 1) \in 1..(n - x)
        BY <1>1, <2>1, <2>2, <2>3, <3>2
      <4>2. (k - (x - 1)) + x = k + 1
        BY <1>1
      <4>3. r[k] = b[k + 1]
        BY <2>2, <4>1, <4>2
      <4> QED BY <1>1, <3>2, <4>3
    <3> QED BY <1>1, <3>1, <3>2
  <2> QED BY <2>4, <2>5
<1> HIDE DEF r
<1>3. /\ t \in Seq(D) /\ Len(t) = n
      /\ \A k \in 1..n : t[k] = IF k < p THEN r[k] ELSE IF k = p THEN b[x] ELSE r[k - 1]
  <2> DEFINE u == SubSeq(r, 1, p - 1)
             v == SubSeq(r, p, n - 1)
             o == <<b[x]>>
  <2>1. /\ u \in Seq(D) /\ Len(u) = p - 1 /\ \A k \in 1..(p - 1) : u[k] = r[k]
    BY <1>1, <1>2
  <2>2. /\ v \in Seq(D) /\ Len(v) = n - p /\ \A k \in 1..(n - p) : v[k] = r[(p + k) - 1]
    BY <1>1, <1>2
  <2>3. o \in Seq(D) /\ Len(o) = 1 /\ o[1] = b[x]
    BY <1>1
  <2>4. t = (u \o o) \o v
    BY <1>2 DEF InsertAt
  <2> HIDE DEF u, v, o, t
  <2> DEFINE uo == u \o o
  <2>5. /\ uo \in Seq(D) /\ Len(uo) = p /\ uo[p] = b[x]
        /\ \A k \in 1..(p - 1) : uo[k] = r[k]
    <3>1. /\ uo \in Seq(D) /\ Len(uo) = Len(u) + Len(o)
          /\ \A k \in 1..(Len(u) + Len(o)) : uo[k] = IF k <= Len(u) THEN u[k] ELSE o[k - Len(u)]
      BY ONLY <2>1, <2>3, ConcatProperties
    <3>2. Len(u) + Len(o) = p /\ p \in 1..p /\ ~(p <= Len(u)) /\ p - Len(u) = 1
      BY <2>1, <2>3
    <3>3. uo[p] = b[x]
      BY <2>3, <3>1, <3>2
    <3>4. \A k \in 1..(p - 1) : k \in 1..p /\ k <= Len(u)
      BY <2>1
    <3>5. \A k \in 1..(p - 1) : uo[k] = r[k]
      BY <2>1, <3>1, <3>2, <3>4
    <3> QED BY <3>1, <3>2, <3>3, <3>5
  <2>6. t = uo \o v
    BY <2>4
  <2> HIDE DEF uo
  <2>7. t \in Seq(D) /\ Len(t) = n
    <3>1. t \in Seq(D) /\ Len(t) = Len(uo) + Len(v)
      BY ONLY <2>2, <2>5, <2>6, ConcatProperties
    <3> QED BY <1>1, <2>2, <2>5, <3>1
  <2>8. ASSUME NEW k \in 1..n
        PROVE  t[k] = IF k < p THEN r[k] ELSE IF k = p THEN b[x] ELSE r[k - 1]
    <3>1. CASE k <= p
      <4>1. t[k] = uo[k]
        BY <1>1, <2>2, <2>5, <2>6, <3>1
      <4> QED BY <1>1, <2>5, <3>1, <4>1
    <3>2. CASE k > p
      <4>1. t[k] = v[k - p] /\ k - p \in 1..(n - p) /\ (p + (k - p)) - 1 = k - 1
        BY <1>1, <2>2, <2>5, <2>6, <3>2
      <4>2. t[k] = r[k - 1]
        BY <2>2, <4>1
      <4> QED BY <1>1, <3>2, <4>2
    <3> QED BY <1>1, <3>1, <3>2
  <2> QED BY <2>7, <2>8
<1> HIDE DEF t
<1>4. ASSUME NEW k \in 1..n
      PROVE  t[k] = IF k > x THEN b[k] ELSE IF k < p THEN b[k] ELSE IF k = p THEN b[x] ELSE b[k - 1]
  <2>1. CASE k < p
    <3>1. k \in 1..(n - 1) /\ k < x /\ t[k] = r[k]
      BY <1>1, <1>3, <2>1
    <3> QED BY <1>2, <2>1, <3>1
  <2>2. CASE k = p
    BY <1>3, <2>2
  <2>3. CASE k > p
    <3>1. k - 1 \in 1..(n - 1) /\ t[k] = r[k - 1] /\ (k - 1) + 1 = k
      BY <1>3, <2>3
    <3> QED BY <1>2, <2>3, <3>1
  <2> QED BY <2>1, <2>2, <2>3
<1> QED BY <1>3, <1>4 DEF t, r

LEMMA InsertSame ==
  ASSUME NEW D, NEW b \in Seq(D), NEW x \in 1..Len(b)
  PROVE  InsertAt(RemoveAt(b, x), x, b[x]) = b
<1> DEFINE t == InsertAt(RemoveAt(b, x), x, b[x])
<1>1. x \in 1..x
  OBVIOUS
<1>2. /\ t \in Seq(D) /\ Len(t) = Len(b)
      /\ \A k \in 1..Len(b) :
           t[k] = IF k > x THEN b[k] ELSE IF k < x THEN b[k] ELSE IF k = x THEN b[x] ELSE b[k - 1]
  BY <1>1, InsertIs
<1> HIDE DEF t
<1>3. \A k \in 1..Len(b) : t[k] = b[k]
  BY <1>2
<1>4. t = b
  BY <1>2, <1>3
<1> QED BY <1>4 DEF t

----------------------------------------------------------------------------
(* The buffer while it is filled and while it is put in order.              *)

LEMMA EntryIs ==
  ASSUME NEW e \in Entries
  PROVE  e.cp \in Char /\ e.ccc = ClassOf(e.cp) /\ e.ccc \in Nat
  BY DEF Entries

LEMMA CpsIs ==
  ASSUME NEW b \in Seq(Entries)
  PROVE  /\ Cps(b) \in Seq(Char) /\ Len(Cps(b)) = Len(b)
         /\ \A k \in 1..Len(b) : Cps(b)[k] = b[k].cp /\ b[k].ccc = ClassOf(b[k].cp)
<1>1. \A k \in 1..Len(b) : b[k].cp \in Char /\ b[k].ccc = ClassOf(b[k].cp)
  <2> SUFFICES ASSUME NEW k \in 1..Len(b)
               PROVE  b[k].cp \in Char /\ b[k].ccc = ClassOf(b[k].cp)
    OBVIOUS
  <2>1. b[k] \in Entries
    OBVIOUS
  <2> QED BY <2>1, EntryIs
<1> QED BY <1>1 DEF Cps

LEMMA CpsConcat ==
  ASSUME NEW b \in Seq(Entries), NEW d \in Seq(Entries)
  PROVE  Cps(b \o d) = Cps(b) \o Cps(d)
<1> DEFINE bd == b \o d
           u == Cps(b)
           v == Cps(d)
<1>1. /\ bd \in Seq(Entries) /\ Len(bd) = Len(b) + Len(d)
      /\ \A k \in 1..(Len(b) + Len(d)) : bd[k] = IF k <= Len(b) THEN b[k] ELSE d[k - Len(b)]
  BY ConcatProperties
<1>2. /\ u \in Seq(Char) /\ Len(u) = Len(b) /\ \A k \in 1..Len(b) : u[k] = b[k].cp
      /\ v \in Seq(Char) /\ Len(v) = Len(d) /\ \A k \in 1..Len(d) : v[k] = d[k].cp
  BY CpsIs
<1>3. /\ Len(u \o v) = Len(u) + Len(v) /\ u \o v \in Seq(Char)
      /\ \A k \in 1..(Len(u) + Len(v)) : (u \o v)[k] = IF k <= Len(u) THEN u[k] ELSE v[k - Len(u)]
  <2>1. u \in Seq(Char) /\ v \in Seq(Char)
    BY <1>2
  <2> HIDE DEF u, v
  <2> QED BY ONLY <2>1, ConcatProperties
<1>4. /\ Cps(bd) \in Seq(Char) /\ Len(Cps(bd)) = Len(bd)
      /\ \A k \in 1..Len(bd) : Cps(bd)[k] = bd[k].cp
  BY <1>1, CpsIs
<1> HIDE DEF bd, u, v
<1>5. ASSUME NEW k \in 1..Len(bd) PROVE Cps(bd)[k] = (u \o v)[k]
  <2>1. CASE k <= Len(b)
    <3>1. k \in 1..Len(b) /\ k \in 1..(Len(b) + Len(d)) /\ k <= Len(u)
      BY <1>1, <1>2, <2>1
    <3>2. bd[k] = b[k] /\ (u \o v)[k] = u[k]
      BY <1>1, <1>2, <1>3, <2>1, <3>1
    <3> QED BY <1>2, <1>4, <3>1, <3>2
  <2>2. CASE k > Len(b)
    <3>1. k - Len(b) \in 1..Len(d) /\ bd[k] = d[k - Len(b)] /\ ~(k <= Len(b))
      BY <1>1, <2>2
    <3>2. (u \o v)[k] = v[k - Len(b)]
      BY <1>1, <1>2, <1>3, <3>1
    <3> QED BY <1>2, <1>4, <3>1, <3>2
  <2>3. k <= Len(b) \/ k > Len(b)
    OBVIOUS
  <2> QED BY ONLY <2>1, <2>2, <2>3, Zenon
<1>6. Len(Cps(bd)) = Len(u \o v)
  BY <1>1, <1>2, <1>3, <1>4
<1>7. Cps(bd) = u \o v
  <2> DEFINE y == Cps(bd)
             z == u \o v
  <2>1. y \in Seq(Char) /\ z \in Seq(Char) /\ Len(y) = Len(z) /\ \A k \in 1..Len(y) : y[k] = z[k]
    BY <1>3, <1>4, <1>5, <1>6
  <2> HIDE DEF y, z
  <2>2. y = z
    BY ONLY <2>1
  <2> QED BY <2>2 DEF y, z
<1> QED BY <1>7 DEF bd, u, v

\* What Decompose appends at x.
Appended(s, x) ==
  IF Decode(s, x).cp = NoCp THEN <<Entry(Opaque + s[x], 0)>> ELSE DecomposeOne(Decode(s, x).cp)

LEMMA AppendedIs ==
  ASSUME NEW s \in Texts, NEW x \in 1..Len(s)
  PROVE  /\ Appended(s, x) \in Seq(Entries) /\ Appended(s, x) # <<>>
         /\ Cps(Appended(s, x)) = SpelledOut(CharAt(s, x))
<1> DEFINE d == Decode(s, x).cp
<1>1. d \in Codepoints \cup {NoCp} /\ s[x] \in Byte
  BY TextIs
<1>2. CASE d = NoCp
  <2> DEFINE e == Entry(Opaque + s[x], 0)
  <2>1. CharAt(s, x) = Opaque + s[x] /\ Appended(s, x) = <<e>>
    BY <1>2, Zenon DEF CharAt, Appended
  <2>2. /\ Opaque + s[x] \in Char /\ ClassOf(Opaque + s[x]) = 0
        /\ SpelledOut(Opaque + s[x]) = <<Opaque + s[x]>>
    BY <1>1, TaggedIs
  <2>3. e.cp = Opaque + s[x] /\ e \in Entries
    BY <2>2 DEF Entry, Entries
  <2> HIDE DEF e
  <2>4. <<e>> \in Seq(Entries) /\ <<e>> # <<>> /\ Cps(<<e>>) = <<e.cp>>
    BY <2>3 DEF Cps
  <2> QED BY <2>1, <2>2, <2>3, <2>4
<1>3. CASE d # NoCp
  <2>1. d \in Codepoints /\ CharAt(s, x) = d /\ Appended(s, x) = DecomposeOne(d)
    BY <1>1, <1>3, Zenon DEF CharAt, Appended
  <2> HIDE DEF d
  <2>2. /\ DecomposeOne(d) \in Seq(Entries) /\ Len(DecomposeOne(d)) = Len(SpelledOut(d))
        /\ \A k \in 1..Len(SpelledOut(d)) : DecomposeOne(d)[k].cp = SpelledOut(d)[k]
    BY <2>1, DecomposeIs
  <2>3. SpelledOut(d) \in Seq(Codepoints) /\ SpelledOut(d) # <<>>
    BY <2>1, CodepointIs
  <2>4. /\ Cps(DecomposeOne(d)) \in Seq(Char)
        /\ Len(Cps(DecomposeOne(d))) = Len(DecomposeOne(d))
        /\ \A k \in 1..Len(DecomposeOne(d)) : Cps(DecomposeOne(d))[k] = DecomposeOne(d)[k].cp
    BY <2>2, CpsIs
  <2>5. Cps(DecomposeOne(d)) = SpelledOut(d)
    BY ONLY <2>2, <2>3, <2>4
  <2>6. DecomposeOne(d) # <<>>
    BY ONLY <2>2, <2>3
  <2> QED BY <2>1, <2>2, <2>5, <2>6
<1> QED BY <1>2, <1>3

\* The buffer b is what the first k reads of s decompose to, up to position x.
Filled(s, b, x, k) ==
  /\ b \in Seq(Entries) /\ x = Readings(s)[k].next
  /\ Cps(b) = Uax!Decomposed(Readings(s)[k].cps)
  /\ b = <<>> => x <= Len(s)

LEMMA FilledNext ==
  ASSUME NEW s \in Texts, NEW b, NEW x, NEW k \in 0..Len(s), Filled(s, b, x, k), x <= Len(s)
  PROVE  k + 1 \in 0..Len(s) /\ x \in 1..Len(s)
         /\ Filled(s, b \o Appended(s, x), x + Decode(s, x).adv, k + 1)
<1> DEFINE n == Len(s)
           R == Readings(s)
<1>1. /\ n \in Nat /\ R \in [0..n -> ReadStates(s)]
      /\ \A m \in 1..n : R[m] = ReadOne(s, R[m - 1])
  BY ReadingsSteps, TextIs
<1>2. R[k].next = x /\ R[k].next <= n /\ b \in Seq(Entries) /\ Cps(b) = Uax!Decomposed(R[k].cps)
  BY DEF Filled
<1>3. R[k].next >= k + 1
  BY <1>2, ReadingsNext
<1>4. x \in 1..n /\ R[k] \in ReadStates(s) /\ R[k].cps \in Seq(Char)
  BY <1>1, <1>2 DEF ReadStates
<1> HIDE DEF R
<1>5. k + 1 \in 1..n /\ k + 1 \in 0..n /\ (k + 1) - 1 = k
  BY <1>1, <1>2, <1>3, <1>4
<1>6. R[k + 1] = ReadOne(s, R[k])
  BY <1>1, <1>5
<1>7. R[k + 1].next = x + Decode(s, x).adv /\ R[k + 1].cps = Append(R[k].cps, CharAt(s, x))
  BY <1>2, <1>4, <1>6, ReadOneIs
<1>8. /\ Appended(s, x) \in Seq(Entries) /\ Appended(s, x) # <<>>
      /\ Cps(Appended(s, x)) = SpelledOut(CharAt(s, x)) /\ CharAt(s, x) \in Char
  BY <1>4, AppendedIs, TextIs
<1>9. b \o Appended(s, x) \in Seq(Entries) /\ b \o Appended(s, x) # <<>>
  BY ONLY <1>2, <1>8
<1>10. Cps(b \o Appended(s, x)) = Uax!Decomposed(R[k + 1].cps)
  <2>1. Cps(b \o Appended(s, x)) = Cps(b) \o Cps(Appended(s, x))
    BY <1>2, <1>8, CpsConcat
  <2>2. Uax!Decomposed(Append(R[k].cps, CharAt(s, x))) =
          Uax!Decomposed(R[k].cps) \o SpelledOut(CharAt(s, x))
    BY <1>4, <1>8, DecomposedIs
  <2> QED BY <1>2, <1>7, <1>8, <2>1, <2>2
<1> QED BY <1>4, <1>5, <1>7, <1>9, <1>10 DEF Filled, R

LEMMA CharsIs ==
  ASSUME NEW s \in Texts
  PROVE  /\ Chars(s) \in Seq(Char) /\ Uax!Decomposed(Chars(s)) \in Seq(Char)
         /\ \A k \in 0..Len(s) : Readings(s)[k].next > Len(s) => Chars(s) = Readings(s)[k].cps
<1>1. Readings(s) \in [0..Len(s) -> ReadStates(s)] /\ Len(s) \in 0..Len(s)
  BY ReadingsSteps, TextIs
<1>2. Readings(s)[Len(s)] \in ReadStates(s)
  BY <1>1
<1>3. Chars(s) \in Seq(Char)
  BY <1>2 DEF Chars, ReadStates
<1> QED BY <1>3, DecomposedIs, ReadingsEnd DEF Chars

\* The first m entries of b are those of sp in order, the others as they were.
Arranges(sp, b, m) ==
  /\ b \in Seq(Entries) /\ Len(b) = Len(sp) /\ m \in 1..Len(b)
  /\ \E at : /\ IsOrder(sp, m, at)
             /\ \A k \in 1..m : b[k].cp = sp[at[k]]
             /\ \A k \in (m + 1)..Len(b) : b[k].cp = sp[k]

LEMMA ArrangesFirst ==
  ASSUME NEW s \in Texts, NEW b, NEW x, NEW k \in 0..Len(s), Filled(s, b, x, k), ~(x <= Len(s))
  PROVE  Arranges(Uax!Decomposed(Chars(s)), b, 1)
<1> DEFINE sp == Uax!Decomposed(Chars(s))
           at == [q \in 1..1 |-> 1]
<1>1. Readings(s)[k].next \in Nat /\ Len(s) \in Nat
  BY ReadingsSteps, TextIs DEF ReadStates
<1>2. b \in Seq(Entries) /\ Cps(b) = sp /\ b # <<>>
  BY <1>1, CharsIs DEF Filled
<1>3. Len(b) = Len(sp) /\ \A q \in 1..Len(b) : b[q].cp = sp[q]
  BY <1>2, CpsIs
<1> HIDE DEF sp
<1>4. 1 \in 1..Len(b)
  BY <1>2
<1>5. IsOrder(sp, 1, at)
  BY DEF IsOrder
<1>6. \A q \in 1..1 : b[q].cp = sp[at[q]]
  BY <1>3, <1>4
<1>7. \A q \in (1 + 1)..Len(b) : b[q].cp = sp[q]
  BY <1>2, <1>3
<1> HIDE DEF at
<1> QED BY <1>2, <1>3, <1>4, <1>5, <1>6, <1>7 DEF Arranges, sp

\* An entry in place: a starter stays, a mark is inserted.
LEMMA ArrangesNext ==
  ASSUME NEW sp \in Seq(Char), NEW b, NEW m, Arranges(sp, b, m), m + 1 <= Len(b),
         NEW p \in 1..(m + 1),
         b[m + 1].ccc = 0 => p = m + 1,
         b[m + 1].ccc # 0 => /\ \A q \in p..m : b[q].ccc > b[m + 1].ccc
                             /\ p > 1 => b[p - 1].ccc <= b[m + 1].ccc
  PROVE  Arranges(sp, InsertAt(RemoveAt(b, m + 1), p, b[m + 1]), m + 1)
<1> DEFINE x == m + 1
           n == Len(b)
           t == InsertAt(RemoveAt(b, x), p, b[x])
<1>1. b \in Seq(Entries) /\ n = Len(sp) /\ m \in 1..n /\ n \in Nat /\ m \in Nat
  BY DEF Arranges
<1>2. PICK at : /\ IsOrder(sp, m, at)
                /\ \A k \in 1..m : b[k].cp = sp[at[k]]
                /\ \A k \in x..n : b[k].cp = sp[k]
  BY Zenon DEF Arranges
<1>3. x \in 1..n /\ x \in x..n /\ x \in 1..Len(sp)
  BY <1>1
<1>4. \A k \in 1..n : b[k].ccc = ClassOf(b[k].cp)
  BY <1>1, CpsIs
<1>5. \A k \in 1..m : b[k].ccc = ClassOf(sp[at[k]])
  BY <1>1, <1>2, <1>4
<1>6. b[x].cp = sp[x] /\ b[x].ccc = ClassOf(sp[x])
  BY <1>2, <1>3, <1>4
<1>7. \A q \in p..m : q \in 1..m
  BY <1>1
<1>8. p > 1 => p - 1 \in 1..m
  BY <1>1
<1>9. ClassOf(sp[x]) = 0 => p = x
  BY <1>6
<1>10. ClassOf(sp[x]) # 0 =>
         /\ \A q \in p..m : ClassOf(sp[at[q]]) > ClassOf(sp[x])
         /\ p > 1 => ClassOf(sp[at[p - 1]]) <= ClassOf(sp[x])
  BY <1>5, <1>6, <1>7, <1>8
<1>11. IsOrder(sp, x, InsertedAt(at, x, p))
  BY <1>1, <1>2, <1>3, <1>9, <1>10, InsertedIsOrder
<1>12. /\ t \in Seq(Entries) /\ Len(t) = n
       /\ \A k \in 1..n :
            t[k] = IF k > x THEN b[k] ELSE IF k < p THEN b[k] ELSE IF k = p THEN b[x] ELSE b[k - 1]
  <2>1. b \in Seq(Entries) /\ x \in 1..Len(b) /\ p \in 1..x
    BY <1>1, <1>3
  <2> HIDE DEF x
  <2> QED BY ONLY <2>1, InsertIs
<1> HIDE DEF t
<1>13. ASSUME NEW k \in 1..x PROVE t[k].cp = sp[InsertedAt(at, x, p)[k]]
  <2>1. InsertedAt(at, x, p)[k] = IF k < p THEN at[k] ELSE IF k = p THEN x ELSE at[k - 1]
    BY DEF InsertedAt
  <2>2. k \in 1..n /\ ~(k > x)
    BY <1>1, <1>3
  <2>3. t[k] = IF k < p THEN b[k] ELSE IF k = p THEN b[x] ELSE b[k - 1]
    BY <1>12, <2>2
  <2>4. CASE k < p
    <3>1. k \in 1..m
      BY <1>1, <2>4
    <3> QED BY <1>2, <2>1, <2>3, <2>4, <3>1
  <2>5. CASE k = p
    BY <1>6, <2>1, <2>3, <2>5
  <2>6. CASE k > p
    <3>1. k - 1 \in 1..m /\ ~(k < p) /\ k # p
      BY <1>1, <2>6
    <3> QED BY <1>2, <2>1, <2>3, <3>1
  <2> QED BY <1>1, <2>4, <2>5, <2>6
<1>14. ASSUME NEW k \in (x + 1)..n PROVE t[k].cp = sp[k]
  <2>1. k \in 1..n /\ k > x /\ k \in x..n
    BY <1>1
  <2> QED BY <1>2, <1>12, <2>1
<1>15. \A k \in 1..x : t[k].cp = sp[InsertedAt(at, x, p)[k]]
  BY <1>13
<1>16. \A k \in (x + 1)..Len(t) : t[k].cp = sp[k]
  BY <1>12, <1>14
<1>17. x \in 1..Len(t) /\ Len(t) = Len(sp)
  BY <1>1, <1>3, <1>12
<1> HIDE DEF x
<1>18. Arranges(sp, t, x)
  BY ONLY <1>11, <1>12, <1>15, <1>16, <1>17, Zenon DEF Arranges
<1> QED BY <1>18 DEF t, x

----------------------------------------------------------------------------
(* Reading and ordering, step by step.                                      *)

Spelt == Uax!Decomposed(Chars(text))

PosInv == text \in Texts /\ i \in Nat \ {0} /\ pc \in {"quick", "decompose", "order", "compose", "done"}
FillInv ==
  /\ pc = "quick" => buf = <<>>
  /\ pc = "decompose" => \E k \in 0..Len(text) : Filled(text, buf, i, k)
OrderInv == pc = "order" => Arranges(Spelt, buf, i - 1)

ReadInv == PosInv /\ FillInv /\ OrderInv

LEMMA SpeltIs == PosInv => Spelt \in Seq(Char)
  BY CharsIs DEF Spelt, PosInv

LEMMA ReadInit == Init => ReadInv
<1> SUFFICES ASSUME Init PROVE ReadInv
  OBVIOUS
<1>1. text \in Texts /\ i = 1 /\ pc = "quick" /\ buf = <<>>
  BY DEF Init
<1> QED BY <1>1 DEF ReadInv, PosInv, FillInv, OrderInv

LEMMA PosStep == PosInv /\ [Next]_vars => PosInv'
<1> SUFFICES ASSUME PosInv, [Next]_vars PROVE PosInv'
  OBVIOUS
<1>1. text' = text
  BY DEF Next, vars, Unchanged, QuickOn, QuickStop, Decompose, Decomposed, Order, Ordered,
         Combine, Keep, Composed
<1>2. pc' \in {"quick", "decompose", "order", "compose", "done"}
  BY DEF PosInv, Next, vars, Unchanged, QuickOn, QuickStop, Decompose, Decomposed, Order, Ordered,
         Combine, Keep, Composed
<1>3. i' \in Nat \ {0}
  <2>1. CASE QuickOn \/ Decompose
    <3>1. i' = i + Decode(text, i).adv /\ i <= Len(text)
      BY <2>1, Zenon DEF QuickOn, Decompose, Here
    <3>2. text \in Texts /\ i \in Nat \ {0}
      BY Zenon DEF PosInv
    <3>3. i \in 1..Len(text)
      BY <3>1, <3>2, TextIs
    <3>4. Decode(text, i).adv \in Nat
      BY <3>2, <3>3, TextIs
    <3> QED BY <3>1, <3>2, <3>4
  <2>2. CASE ~(QuickOn \/ Decompose)
    BY <2>2 DEF PosInv, Next, vars, Unchanged, QuickStop, Decomposed, Order, Ordered, Combine,
                Keep, Composed
  <2> QED BY <2>1, <2>2
<1> QED BY <1>1, <1>2, <1>3 DEF PosInv

LEMMA FillStep == PosInv /\ FillInv /\ [Next]_vars => FillInv'
<1> SUFFICES ASSUME PosInv, FillInv, [Next]_vars PROVE FillInv'
  OBVIOUS
<1>1. text \in Texts /\ i \in Nat \ {0} /\ Len(text) \in Nat /\ text \in Seq(Byte)
  BY TextIs DEF PosInv
<1>2. CASE QuickOn
  <2>1. pc' = "quick" /\ buf' = buf /\ pc = "quick"
    BY <1>2 DEF QuickOn
  <2> QED BY <2>1 DEF FillInv
<1>3. CASE QuickStop
  <2>1. buf' = <<>> /\ i' = 1 /\ text' = text /\ i <= Len(text) /\ pc' # "quick"
    BY <1>3 DEF QuickStop, FillInv
  <2>2. 1 <= Len(text)
    BY <1>1, <2>1
  <2>3. Readings(text)[0] = [next |-> 1, cps |-> <<>>] /\ 0 \in 0..Len(text)
    BY <1>1, ReadingsSteps
  <2>4. <<>> \in Seq(Entries) /\ Cps(<<>>) = <<>>
    BY DEF Cps
  <2>5. Filled(text, <<>>, 1, 0)
    BY <2>2, <2>3, <2>4, DecomposedIs DEF Filled
  <2>6. \E k \in 0..Len(text') : Filled(text', buf', i', k)
    BY <2>1, <2>3, <2>5
  <2> QED BY <2>1, <2>6 DEF FillInv
<1>4. CASE Decompose
  <2>1. PICK k \in 0..Len(text) : Filled(text, buf, i, k)
    BY <1>4 DEF Decompose, FillInv
  <2>2. /\ buf' = buf \o Appended(text, i) /\ i' = i + Decode(text, i).adv
        /\ i <= Len(text) /\ text' = text /\ pc' = "decompose"
    BY <1>4, Zenon DEF Decompose, Here, Appended
  <2>3. k + 1 \in 0..Len(text) /\ Filled(text, buf', i', k + 1)
    BY <1>1, <2>1, <2>2, FilledNext
  <2>4. \E m \in 0..Len(text') : Filled(text', buf', i', m)
    BY <2>2, <2>3
  <2> QED BY <2>2, <2>4 DEF FillInv
<1>5. CASE ~(QuickOn \/ QuickStop \/ Decompose)
  <2>1. \/ pc' \notin {"quick", "decompose"}
        \/ pc' = pc /\ buf' = buf /\ i' = i /\ text' = text
    BY <1>5 DEF Next, vars, Unchanged, Decomposed, Order, Ordered, Combine, Keep, Composed
  <2> QED BY <2>1 DEF FillInv
<1> QED BY <1>2, <1>3, <1>4, <1>5

LEMMA OrderStep == ReadInv /\ [Next]_vars => OrderInv'
<1> SUFFICES ASSUME ReadInv, [Next]_vars PROVE OrderInv'
  OBVIOUS
<1>1. text \in Texts /\ i \in Nat /\ Len(text) \in Nat /\ Spelt \in Seq(Char)
  BY TextIs, SpeltIs DEF ReadInv, PosInv
<1>2. text' = text
  BY DEF Next, vars, Unchanged, QuickOn, QuickStop, Decompose, Decomposed, Order, Ordered,
         Combine, Keep, Composed
<1>3. Spelt' = Spelt
  BY <1>2 DEF Spelt
<1>4. CASE Decomposed
  <2>1. pc = "decompose" /\ i > Len(text) /\ i' = 2 /\ buf' = buf
    BY <1>4 DEF Decomposed
  <2>2. PICK k \in 0..Len(text) : Filled(text, buf, i, k)
    BY <2>1 DEF ReadInv, FillInv
  <2>3. ~(i <= Len(text))
    BY <1>1, <2>1
  <2>4. Arranges(Spelt, buf, 1)
    BY <1>1, <2>2, <2>3, ArrangesFirst DEF Spelt
  <2>5. i' - 1 = 1
    BY <2>1
  <2> QED BY <1>3, <2>1, <2>4, <2>5 DEF OrderInv
<1>5. CASE Order
  <2> DEFINE m == i - 1
             Put1(p) == InsertAt(RemoveAt(buf, m + 1), p, buf[m + 1])
  <2>1. /\ pc = "order" /\ i <= Len(buf) /\ i' = i + 1
        /\ IF buf[i].ccc = 0 THEN buf' = buf
           ELSE \E p \in 1..i : IsPlace(p) /\ buf' = InsertAt(RemoveAt(buf, i), p, buf[i])
    BY <1>5 DEF Order
  <2>2. Arranges(Spelt, buf, m)
    BY <2>1 DEF ReadInv, OrderInv
  <2>3. buf \in Seq(Entries) /\ m \in 1..Len(buf)
    BY <2>2 DEF Arranges
  <2>4. m + 1 = i /\ i' - 1 = m + 1 /\ m + 1 <= Len(buf) /\ i \in 1..Len(buf)
    BY <1>1, <2>1, <2>3
  <2> HIDE DEF m
  <2>5. CASE buf[i].ccc = 0
    <3>1. Put1(i) = buf
      <4>1. InsertAt(RemoveAt(buf, i), i, buf[i]) = buf
        BY <2>3, <2>4, InsertSame
      <4> QED BY <2>4, <4>1
    <3>2. Arranges(Spelt, Put1(i), m + 1)
      <4> HIDE DEF Put1
      <4>1. i \in 1..(m + 1) /\ (buf[m + 1].ccc = 0 => i = m + 1) /\ buf[m + 1].ccc = 0 /\ m + 1 <= Len(buf)
        BY <2>4, <2>5
      <4> QED BY <1>1, <2>2, <4>1, ArrangesNext DEF Put1
    <3>3. buf' = buf
      BY <2>1, <2>5
    <3> QED BY <1>3, <2>4, <3>1, <3>2, <3>3 DEF OrderInv
  <2>6. CASE buf[i].ccc # 0
    <3>1. PICK p \in 1..i : IsPlace(p) /\ buf' = Put1(p)
      BY <2>1, <2>4, <2>6
    <3>2. /\ \A q \in p..m : buf[q].ccc > buf[m + 1].ccc
          /\ p > 1 => buf[p - 1].ccc <= buf[m + 1].ccc
      <4>1. i - 1 = m
        BY <2>4, <2>3
      <4> QED BY <2>4, <3>1, <4>1 DEF IsPlace
    <3>3. p \in 1..(m + 1) /\ buf[m + 1].ccc # 0 /\ m + 1 <= Len(buf)
      BY <2>4, <2>6
    <3> HIDE DEF Put1
    <3>4. Arranges(Spelt, Put1(p), m + 1)
      BY <1>1, <2>2, <3>2, <3>3, ArrangesNext DEF Put1
    <3> QED BY <1>3, <2>4, <3>1, <3>4 DEF OrderInv
  <2> QED BY <2>5, <2>6
<1>6. CASE ~(Decomposed \/ Order)
  <2>1. pc' # "order" \/ (pc' = pc /\ buf' = buf /\ i' = i)
    BY <1>6 DEF Next, vars, Unchanged, QuickOn, QuickStop, Decompose, Ordered, Combine, Keep,
                Composed
  <2> QED BY <1>3, <2>1 DEF ReadInv, OrderInv
<1> QED BY <1>4, <1>5, <1>6

LEMMA ReadStep == ReadInv /\ [Next]_vars => ReadInv'
  BY PosStep, FillStep, OrderStep DEF ReadInv

LEMMA ReadHolds == Spec => []ReadInv
  BY ReadInit, ReadStep, PTL DEF Spec

\* Of any bytes, in the quick check and in the full pass, bp_utf8_next accepts exactly the
\* well-formed sequences of the standard's table, and reads every other byte alone, where
\* no well-formed sequence starts; and what it decodes the encoder of bp_nfc writes as the
\* bytes it was read from, at every boundary of length (bp_util.c 6-39, bp_nfc.c 153-176).
THEOREM CodecCorrect == Spec => []CodecExact
<1>1. ReadInv => CodecExact
  <2> SUFFICES ASSUME PosInv, Reading PROVE CodecExact
    BY Zenon DEF CodecExact, ReadInv
  <2>1. text \in Seq(Byte) /\ i \in 1..Len(text)
    BY TextIs DEF PosInv, Reading
  <2> QED BY ONLY <2>1, Reads, Writes, Zenon DEF CodecExact, Here, BytesRead
<1> QED BY <1>1, ReadHolds, PTL

\* The prefix of a sequence is ordered as the sequence is.
LEMMA PrefixOrder ==
  ASSUME NEW s \in Seq(Char), NEW m \in 1..Len(s), NEW at, IsOrder(s, m, at)
  PROVE  /\ SubSeq(s, 1, m) \in Seq(Char) /\ Len(SubSeq(s, 1, m)) = m
         /\ \A k \in 1..m : SubSeq(s, 1, m)[k] = s[k]
         /\ IsOrder(SubSeq(s, 1, m), m, at)
<1> DEFINE t == SubSeq(s, 1, m)
<1>1. t \in Seq(Char) /\ Len(t) = m /\ \A k \in 1..m : t[k] = s[k]
  OBVIOUS
<1> HIDE DEF t
<1>2. ASSUME NEW a \in 1..m, NEW b \in 1..m, Uax!Precedes(s, a, b) PROVE Uax!Precedes(t, a, b)
  <2>1. \A k \in (a..b) \cup (b..a) : t[k] = s[k]
    BY <1>1
  <2>2. Uax!Together(t, a, b) <=> Uax!Together(s, a, b)
    BY <2>1, Zenon DEF Uax!Together
  <2>3. t[a] = s[a] /\ t[b] = s[b]
    BY <1>1
  <2> QED BY <1>2, <2>2, <2>3, Zenon DEF Uax!Precedes
<1>3. /\ at \in [1..m -> 1..m] /\ \A a \in 1..m : \E k \in 1..m : at[k] = a
      /\ \A j, k \in 1..m : j < k => Uax!Precedes(s, at[j], at[k])
  BY Zenon DEF IsOrder
<1>4. \A j, k \in 1..m : j < k => Uax!Precedes(t, at[j], at[k])
  BY <1>2, <1>3
<1> QED BY <1>1, <1>3, <1>4, Zenon DEF t, IsOrder

\* The entries sorted so far are in the order of D109 (bp_nfc.c 119-129).
THEOREM OrderCorrect == Spec => []OrderedSoFar
<1>1. ReadInv => OrderedSoFar
  <2> SUFFICES ASSUME ReadInv, pc = "order" PROVE OrderedSoFar
    BY Zenon DEF OrderedSoFar
  <2> DEFINE m == i - 1
             sp == Spelt
  <2>1. Arranges(sp, buf, m) /\ sp \in Seq(Char)
    BY SpeltIs DEF ReadInv, OrderInv
  <2>2. buf \in Seq(Entries) /\ Len(buf) = Len(sp) /\ m \in 1..Len(sp)
    BY <2>1 DEF Arranges
  <2>3. PICK at : IsOrder(sp, m, at) /\ \A k \in 1..m : buf[k].cp = sp[at[k]]
    BY <2>1, Zenon DEF Arranges
  <2>4. at \in [1..m -> 1..m]
    BY <2>3, Zenon DEF IsOrder
  <2> HIDE DEF m, sp
  <2> DEFINE t == SubSeq(sp, 1, m)
  <2>5. /\ t \in Seq(Char) /\ Len(t) = m /\ \A k \in 1..m : t[k] = sp[k]
        /\ IsOrder(t, m, at)
    BY <2>1, <2>2, <2>3, PrefixOrder
  <2> HIDE DEF t
  <2>6. Uax!Ordered(t) = [k \in 1..m |-> t[at[k]]]
    BY <2>5, OrderedIs
  <2>7. \A k \in 1..m : t[at[k]] = buf[k].cp
    BY <2>3, <2>4, <2>5
  <2>8. Uax!Ordered(t) = [k \in 1..m |-> buf[k].cp]
    BY <2>6, <2>7
  <2>9. \A k \in 1..Len(buf) : buf[k].ccc = ClassOf(buf[k].cp)
    BY <2>2, CpsIs
  <2> QED BY <2>2, <2>8, <2>9, Zenon DEF OrderedSoFar, sp, Spelt, m, t
<1> QED BY <1>1, ReadHolds, PTL

----------------------------------------------------------------------------
(* Composition: the standard's states.                                      *)

CompStates(n) == [s : {x \in Seq(Char) : Len(x) = n}, kept : SUBSET (1..n)]

\* The position last is the last starter kept before k.
IsLast(st, k, last) ==
  /\ last \in st.kept /\ last < k /\ ClassOf(st.s[last]) = 0
  /\ \A a \in st.kept : last < a /\ a < k => ClassOf(st.s[a]) # 0

Free(st, k, last) == \A a \in st.kept : last < a /\ a < k => ClassOf(st.s[a]) < ClassOf(st.s[k])

Joined(st, k, last) ==
  [s |-> [st.s EXCEPT ![last] = StdPrimary(st.s[last], st.s[k])], kept |-> st.kept \ {k}]

LEMMA StateIs ==
  ASSUME NEW n \in Nat, NEW st \in CompStates(n)
  PROVE  /\ st.s \in Seq(Char) /\ Len(st.s) = n /\ st.kept \in SUBSET (1..n)
         /\ st.kept \in SUBSET Nat
         /\ \A a \in 1..n : st.s[a] \in Char /\ ClassOf(st.s[a]) \in Nat
<1>1. st.s \in Seq(Char) /\ Len(st.s) = n /\ st.kept \in SUBSET (1..n)
  BY DEF CompStates
<1>2. \A a \in 1..n : st.s[a] \in Char
  BY <1>1
<1>3. \A a \in 1..n : ClassOf(st.s[a]) \in Nat
  BY <1>2, CharIs
<1>4. st.kept \in SUBSET Nat
  BY <1>1
<1> QED BY <1>1, <1>2, <1>3, <1>4

LEMMA AbsorbedBy ==
  ASSUME NEW n \in Nat, NEW st \in CompStates(n), NEW k \in 1..n, NEW last, IsLast(st, k, last)
  PROVE  Uax!Absorbed(st, k) =
           IF Free(st, k, last) /\ HasComposite(st.s[last], st.s[k])
           THEN Joined(st, k, last) ELSE st
<1> DEFINE starters == {a \in st.kept : a < k /\ ClassOf(st.s[a]) = 0}
           ch == CHOOSE a \in starters : \A b \in starters : b <= a
           blocked(l) == \E b \in st.kept :
                           /\ l < b /\ b < k
                           /\ ClassOf(st.s[b]) = 0 \/ ClassOf(st.s[b]) >= ClassOf(st.s[k])
<1>1. /\ st.kept \in SUBSET (1..n) /\ st.kept \in SUBSET Nat
      /\ \A a \in 1..n : st.s[a] \in Char /\ ClassOf(st.s[a]) \in Nat
  BY StateIs
<1>2. /\ last \in st.kept /\ last < k /\ ClassOf(st.s[last]) = 0
      /\ \A a \in st.kept : last < a /\ a < k => ClassOf(st.s[a]) # 0
  BY DEF IsLast
<1>3. last \in starters /\ \A b \in starters : b <= last
  BY <1>1, <1>2
<1>4. \A a \in starters : (\A b \in starters : b <= a) => a = last
  BY <1>1, <1>3
<1>5. ch = last
  <2> HIDE DEF starters
  <2> QED BY <1>3, <1>4
<1>6. starters # {}
  BY <1>3
<1>7. blocked(last) <=> ~Free(st, k, last)
  <2>1. \A a \in st.kept : last < a /\ a < k =>
          ((ClassOf(st.s[a]) = 0 \/ ClassOf(st.s[a]) >= ClassOf(st.s[k]))
             <=> ~(ClassOf(st.s[a]) < ClassOf(st.s[k])))
    <3> SUFFICES ASSUME NEW a \in st.kept, last < a, a < k
                 PROVE  (ClassOf(st.s[a]) = 0 \/ ClassOf(st.s[a]) >= ClassOf(st.s[k]))
                          <=> ~(ClassOf(st.s[a]) < ClassOf(st.s[k]))
      OBVIOUS
    <3>1. ClassOf(st.s[a]) # 0 /\ ClassOf(st.s[a]) \in Nat /\ ClassOf(st.s[k]) \in Nat
      BY <1>1, <1>2
    <3> QED BY <3>1
  <2> QED BY <2>1, Zenon DEF Free
<1>8. Uax!Absorbed(st, k) =
        IF starters # {} /\ ~blocked(ch) /\ HasComposite(st.s[ch], st.s[k])
        THEN Joined(st, k, ch) ELSE st
  BY Zenon DEF Uax!Absorbed, Joined
<1> HIDE DEF starters, ch, blocked
<1> QED BY <1>5, <1>6, <1>7, <1>8

LEMMA NotAbsorbed ==
  ASSUME NEW st, NEW k, \A a \in st.kept : a < k => ClassOf(st.s[a]) # 0
  PROVE  Uax!Absorbed(st, k) = st
<1>1. {a \in st.kept : a < k /\ ClassOf(st.s[a]) = 0} = {}
  OBVIOUS
<1> QED BY <1>1, Zenon DEF Uax!Absorbed

\* There is a last starter, or none.
LEMMA LastExists ==
  ASSUME NEW n \in Nat, NEW st \in CompStates(n), NEW k \in 1..n
  PROVE  \/ \A a \in st.kept : a < k => ClassOf(st.s[a]) # 0
         \/ \E last : IsLast(st, k, last)
<1> DEFINE T == {x \in Nat : n - x \in st.kept /\ n - x < k /\ ClassOf(st.s[n - x]) = 0}
<1>1. st.kept \in SUBSET (1..n)
  BY StateIs
<1>2. CASE T = {}
  <2>1. ASSUME NEW a \in st.kept, a < k, ClassOf(st.s[a]) = 0 PROVE FALSE
    <3>1. n - a \in Nat /\ n - (n - a) = a
      BY <1>1
    <3>2. n - a \in T
      BY <2>1, <3>1
    <3> QED BY <1>2, <3>2
  <2> QED BY <2>1
<1>3. CASE T # {}
  <2>1. PICK x \in T : \A y \in T : x <= y
    <3>1. T \subseteq Nat
      OBVIOUS
    <3> HIDE DEF T
    <3> QED BY <1>3, <3>1, LeastNatural
  <2> DEFINE last == n - x
  <2>2. last \in st.kept /\ last < k /\ ClassOf(st.s[last]) = 0 /\ x \in Nat
    OBVIOUS
  <2>3. ASSUME NEW a \in st.kept, last < a, a < k, ClassOf(st.s[a]) = 0 PROVE FALSE
    <3>1. n - a \in Nat /\ n - (n - a) = a /\ a \in Nat
      BY <1>1
    <3>2. n - a \in T
      BY <2>3, <3>1
    <3>3. x <= n - a
      BY <2>1, <3>2
    <3> HIDE DEF T
    <3> QED BY <2>2, <2>3, <3>1, <3>3
  <2>4. IsLast(st, k, last)
    <3> HIDE DEF last
    <3> QED BY <2>2, <2>3 DEF IsLast
  <2> QED BY <2>4
<1> QED BY <1>2, <1>3

LEMMA AbsorbedType ==
  ASSUME NEW n \in Nat, NEW st \in CompStates(n), NEW k \in 1..n
  PROVE  Uax!Absorbed(st, k) \in CompStates(n)
<1>1. CASE \A a \in st.kept : a < k => ClassOf(st.s[a]) # 0
  BY <1>1, NotAbsorbed
<1>2. CASE \E last : IsLast(st, k, last)
  <2>1. PICK last : IsLast(st, k, last)
    BY <1>2
  <2>2. /\ st.s \in Seq(Char) /\ Len(st.s) = n /\ st.kept \in SUBSET (1..n)
        /\ \A a \in 1..n : st.s[a] \in Char
    BY StateIs
  <2>3. last \in 1..n
    BY <2>1, <2>2 DEF IsLast
  <2>4. CASE HasComposite(st.s[last], st.s[k])
    <3>1. StdPrimary(st.s[last], st.s[k]) \in Char
      BY <2>2, <2>3, <2>4, PairIs
    <3>2. Joined(st, k, last) \in CompStates(n)
      <4> DEFINE e == StdPrimary(st.s[last], st.s[k])
                 f == [st.s EXCEPT ![last] = e]
      <4>1. f \in Seq(Char) /\ Len(f) = n
        <5> HIDE DEF e
        <5> QED BY <2>2, <2>3, <3>1 DEF e
      <4>2. st.kept \ {k} \in SUBSET (1..n)
        BY <2>2
      <4>3. Joined(st, k, last) = [s |-> f, kept |-> st.kept \ {k}]
        BY DEF Joined
      <4> HIDE DEF f
      <4> QED BY <4>1, <4>2, <4>3 DEF CompStates
    <3> QED BY <2>1, <3>2, AbsorbedBy
  <2>5. CASE ~HasComposite(st.s[last], st.s[k])
    BY <2>1, <2>5, AbsorbedBy
  <2> QED BY <2>4, <2>5
<1> QED BY <1>1, <1>2, LastExists

LEMMA CompositionsSteps ==
  ASSUME NEW o \in Seq(Char)
  PROVE  /\ Uax!Compositions(o) \in [0..Len(o) -> CompStates(Len(o))]
         /\ Uax!Compositions(o)[0] = [s |-> o, kept |-> 1..Len(o)]
         /\ \A m \in 1..Len(o) :
              Uax!Compositions(o)[m] = Uax!Absorbed(Uax!Compositions(o)[m - 1], m)
<1> DEFINE n == Len(o)
           c == [s |-> o, kept |-> 1..n]
           S == CompStates(n)
           Eq(f) == f = [m \in 0..n |-> IF m = 0 THEN c ELSE Uax!Absorbed(f[m - 1], m)]
           F == [m \in 1..n |-> [x \in S |-> Uax!Absorbed(x, m)]]
           h == Uax!Compositions(o)
<1>1. n \in Nat /\ c \in S
  BY DEF CompStates
<1>2. F \in Steps(n, S)
  <2>1. ASSUME NEW m \in 1..n PROVE [x \in S |-> Uax!Absorbed(x, m)] \in [S -> S]
    BY <1>1, AbsorbedType
  <2> HIDE DEF S
  <2> QED BY <2>1 DEF Steps
<1>3. h = CHOOSE f : Eq(f)
  BY DEF Uax!Compositions
<1> HIDE DEF n, h, S, c
<1>4. PICK g : Iterated(g, n, S, c, F)
  <2> HIDE DEF F
  <2> QED BY <1>1, <1>2, Iterates
<1>5. Eq(g)
  <2>1. g \in [0..n -> S] /\ g[0] = c
    BY <1>4 DEF Iterated
  <2>2. ASSUME NEW m \in 1..n PROVE g[m] = Uax!Absorbed(g[m - 1], m)
    <3>1. g[m] = F[m][g[m - 1]]
      BY <1>4 DEF Iterated
    <3>2. g[m - 1] \in S
      BY <1>1, <2>1
    <3> QED BY <3>1, <3>2
  <2> HIDE DEF F
  <2>3. ASSUME NEW m \in 0..n PROVE g[m] = IF m = 0 THEN c ELSE Uax!Absorbed(g[m - 1], m)
    BY <2>1, <2>2
  <2> QED BY <2>1, <2>3
<1>6. Eq(h)
  <2> HIDE DEF Eq
  <2> QED BY <1>3, <1>5
<1>7. h[0] = c /\ \A m \in 1..n : h[m] = Uax!Absorbed(h[m - 1], m)
  BY <1>1, <1>6
<1> DEFINE T == {m \in 0..n : h[m] \in S}
<1>8. 0 \in T
  BY <1>1, <1>7
<1>9. ASSUME NEW m \in 1..n, m - 1 \in T PROVE m \in T
  <2>1. h[m - 1] \in S
    BY <1>9
  <2>2. Uax!Absorbed(h[m - 1], m) \in S
    BY <1>1, <2>1, AbsorbedType DEF S
  <2>3. h[m] \in S /\ m \in 0..n
    BY <1>1, <1>7, <2>2
  <2> QED BY <2>3
<1>10. \A m \in 0..n : m \in T
  <2> HIDE DEF T
  <2> QED BY <1>1, <1>8, <1>9, UpTo
<1>11. \A m \in 0..n : h[m] \in S
  BY <1>10
<1>12. h \in [0..n -> S]
  BY <1>6, <1>11
<1> QED BY <1>7, <1>12 DEF n, h, S, c

----------------------------------------------------------------------------
(* Composition: what the buffer says of the standard's state.               *)

\* The first v entries are the characters kept of the first m, in place at.
KeptAt(st, b, m, v, at) ==
  /\ at \in [1..v -> 1..m]
  /\ \A j, k \in 1..v : j < k => at[j] < at[k]
  /\ \A q \in 1..v : at[q] \in st.kept /\ b[q].cp = st.s[at[q]]
  /\ \A a \in 1..m : a \in st.kept => \E q \in 1..v : at[q] = a

\* The last starter kept is at z; for 0 it is a malformed byte, or there is none.
StarterAt(b, v, z) ==
  /\ z # 0 => /\ b[z].ccc = 0 /\ ~IsOpaque(b[z].cp)
              /\ \A q \in (z + 1)..v : b[q].ccc # 0
  /\ z = 0 => \A q \in 1..v :
                b[q].ccc = 0 /\ (\A r \in (q + 1)..v : b[r].ccc # 0) => IsOpaque(b[q].cp)

\* Of the marks after it the last one has the highest class, and no higher one than the
\* last character looked at.
MarksSorted(o, b, m, v, z) ==
  z # 0 /\ z < v =>
    /\ \A q \in (z + 1)..v : b[q].ccc <= b[v].ccc
    /\ b[v].ccc <= ClassOf(o[m])

\* The first m characters of o have had their turn.
Tracks(o, st, b, m, v, z) ==
  /\ b \in Seq(Entries) /\ Len(b) = Len(o) /\ m \in 0..Len(o) /\ v \in 0..m /\ z \in 0..v
  /\ \E at : KeptAt(st, b, m, v, at)
  /\ \A k \in (m + 1)..Len(o) : k \in st.kept /\ st.s[k] = o[k] /\ b[k].cp = o[k]
  /\ StarterAt(b, v, z)
  /\ MarksSorted(o, b, m, v, z)

\* Entries as they are when character m + 1 has its turn.
LEMMA TracksIs ==
  ASSUME NEW o \in Seq(Char), NEW st \in CompStates(Len(o)), NEW b, NEW m, NEW v, NEW z,
         Tracks(o, st, b, m, v, z), m + 1 <= Len(o), NEW at, KeptAt(st, b, m, v, at)
  PROVE  /\ Len(o) \in Nat /\ Len(b) = Len(o) /\ m \in Nat /\ v \in Nat /\ z \in Nat
         /\ m + 1 \in 1..Len(o) /\ v <= m /\ z <= v /\ b \in Seq(Entries)
         /\ \A q \in 1..v : /\ at[q] \in 1..m /\ at[q] < m + 1 /\ at[q] \in st.kept
                            /\ b[q].cp = st.s[at[q]] /\ b[q].ccc = ClassOf(st.s[at[q]])
                            /\ b[q].ccc \in Nat
         /\ \A a \in st.kept : a < m + 1 => \E q \in 1..v : at[q] = a
         /\ b[m + 1].cp = st.s[m + 1] /\ b[m + 1].cp = o[m + 1]
         /\ b[m + 1].ccc = ClassOf(st.s[m + 1])
         /\ b[m + 1].ccc \in Nat /\ m + 1 \in st.kept
<1> DEFINE n == Len(o)
           x == m + 1
<1>1. /\ n \in Nat /\ Len(b) = n /\ m \in Nat /\ v \in Nat /\ z \in Nat
      /\ x \in 1..n /\ v <= m /\ z <= v /\ b \in Seq(Entries) /\ x \in x..n
  BY DEF Tracks
<1>2. st.kept \in SUBSET (1..n)
  BY <1>1, StateIs
<1>3. \A k \in 1..n : b[k].ccc = ClassOf(b[k].cp) /\ b[k].ccc \in Nat
  <2> SUFFICES ASSUME NEW k \in 1..n PROVE b[k].ccc = ClassOf(b[k].cp) /\ b[k].ccc \in Nat
    OBVIOUS
  <2>1. b[k] \in Entries
    BY <1>1
  <2> QED BY <2>1, EntryIs
<1>4. /\ at \in [1..v -> 1..m]
      /\ \A q \in 1..v : at[q] \in st.kept /\ b[q].cp = st.s[at[q]]
      /\ \A a \in 1..m : a \in st.kept => \E q \in 1..v : at[q] = a
  BY Zenon DEF KeptAt
<1>5. ASSUME NEW q \in 1..v
      PROVE  /\ at[q] \in 1..m /\ at[q] < m + 1 /\ at[q] \in st.kept
             /\ b[q].cp = st.s[at[q]] /\ b[q].ccc = ClassOf(st.s[at[q]]) /\ b[q].ccc \in Nat
  <2>1. at[q] \in 1..m
    BY <1>4
  <2>2. at[q] < m + 1 /\ q \in 1..n
    BY <1>1, <2>1
  <2> QED BY <1>3, <1>4, <2>1, <2>2
<1>6. ASSUME NEW a \in st.kept, a < m + 1 PROVE \E q \in 1..v : at[q] = a
  <2>1. a \in 1..m
    BY <1>1, <1>2, <1>6
  <2> QED BY <1>4, <2>1
<1>7. x \in st.kept /\ st.s[x] = o[x] /\ b[x].cp = o[x]
  BY <1>1, Zenon DEF Tracks
<1>8. b[x].ccc = ClassOf(st.s[x]) /\ b[x].ccc \in Nat
  BY <1>1, <1>3, <1>7
<1> QED BY <1>1, <1>5, <1>6, <1>7, <1>8

\* Places are as the characters in them.
LEMMA PlaceOrder ==
  ASSUME NEW st, NEW b, NEW m \in Nat, NEW v \in Nat, NEW at, KeptAt(st, b, m, v, at),
         NEW j \in 1..v, NEW k \in 1..v
  PROVE  (at[j] < at[k] <=> j < k) /\ (at[j] = at[k] => j = k)
<1>1. at[j] \in 1..m /\ at[k] \in 1..m
  BY DEF KeptAt
<1>2. (j < k => at[j] < at[k]) /\ (k < j => at[k] < at[j])
  BY DEF KeptAt
<1> QED BY <1>1, <1>2

\* The starter of the code is the standard's.
LEMMA StarterIsLast ==
  ASSUME NEW o \in Seq(Char), NEW st \in CompStates(Len(o)), NEW b, NEW m, NEW v, NEW z,
         Tracks(o, st, b, m, v, z), m + 1 <= Len(o), NEW at, KeptAt(st, b, m, v, at), z # 0
  PROVE  IsLast(st, m + 1, at[z])
<1>1. /\ m \in Nat /\ v \in Nat /\ z \in 1..v
      /\ \A q \in 1..v : at[q] < m + 1 /\ at[q] \in st.kept /\ b[q].ccc = ClassOf(st.s[at[q]])
      /\ \A a \in st.kept : a < m + 1 => \E q \in 1..v : at[q] = a
  BY TracksIs
<1>2. b[z].ccc = 0 /\ \A q \in (z + 1)..v : b[q].ccc # 0
  BY Zenon DEF Tracks, StarterAt
<1>3. ASSUME NEW a \in st.kept, at[z] < a, a < m + 1 PROVE ClassOf(st.s[a]) # 0
  <2>1. PICK q \in 1..v : at[q] = a
    BY <1>1, <1>3
  <2>2. z < q
    BY <1>1, <1>3, <2>1, PlaceOrder
  <2>3. q \in (z + 1)..v
    BY <1>1, <2>2
  <2> QED BY <1>1, <1>2, <2>1, <2>3
<1> QED BY <1>1, <1>2, <1>3 DEF IsLast

\* The class of the last entry kept tells what blocks.
LEMMA FreeIs ==
  ASSUME NEW o \in Seq(Char), NEW st \in CompStates(Len(o)), NEW b, NEW m, NEW v, NEW z,
         Tracks(o, st, b, m, v, z), m + 1 <= Len(o), NEW at, KeptAt(st, b, m, v, at), z # 0
  PROVE  Free(st, m + 1, at[z]) <=> (v = z \/ b[v].ccc < b[m + 1].ccc)
<1>1. /\ m \in Nat /\ v \in Nat /\ z \in 1..v
      /\ \A q \in 1..v : /\ at[q] < m + 1 /\ at[q] \in st.kept /\ b[q].ccc = ClassOf(st.s[at[q]])
                         /\ b[q].ccc \in Nat
      /\ \A a \in st.kept : a < m + 1 => \E q \in 1..v : at[q] = a
      /\ b[m + 1].ccc = ClassOf(st.s[m + 1]) /\ b[m + 1].ccc \in Nat
  BY TracksIs
<1>2. z < v => \A q \in (z + 1)..v : b[q].ccc <= b[v].ccc
  BY Zenon DEF Tracks, MarksSorted
<1>3. ASSUME Free(st, m + 1, at[z]), v # z PROVE b[v].ccc < b[m + 1].ccc
  <2>1. v \in 1..v /\ z < v
    BY <1>1, <1>3
  <2>2. at[z] < at[v] /\ at[v] < m + 1 /\ at[v] \in st.kept
    BY <1>1, <2>1, PlaceOrder
  <2> QED BY <1>1, <1>3, <2>1, <2>2, Zenon DEF Free
<1>4. ASSUME v = z \/ b[v].ccc < b[m + 1].ccc, NEW a \in st.kept, at[z] < a, a < m + 1
      PROVE  ClassOf(st.s[a]) < ClassOf(st.s[m + 1])
  <2>1. PICK q \in 1..v : at[q] = a
    BY <1>1, <1>4
  <2>2. z < q
    BY <1>1, <1>4, <2>1, PlaceOrder
  <2>3. q \in (z + 1)..v /\ z < v /\ v \in 1..v
    BY <1>1, <2>2
  <2>4. b[q].ccc <= b[v].ccc /\ b[v].ccc < b[m + 1].ccc /\ b[v].ccc \in Nat /\ b[q].ccc \in Nat
    <3>1. b[q].ccc <= b[v].ccc
      BY <1>2, <2>3
    <3>2. v # z
      BY <1>1, <2>3
    <3> QED BY <1>1, <1>4, <2>3, <3>1, <3>2
  <2>5. b[q].ccc < b[m + 1].ccc
    <3>1. b[m + 1].ccc \in Nat
      BY <1>1
    <3> QED BY ONLY <2>4, <3>1
  <2> QED BY <1>1, <2>1, <2>5
<1> QED BY <1>3, <1>4, Zenon DEF Free

\* Without a starter to compose with nothing is composed.
LEMMA NoStarter ==
  ASSUME NEW o \in Seq(Char), NEW st \in CompStates(Len(o)), NEW b, NEW m, NEW v,
         Tracks(o, st, b, m, v, 0), m + 1 <= Len(o)
  PROVE  Uax!Absorbed(st, m + 1) = st
<1>1. PICK at : KeptAt(st, b, m, v, at)
  BY Zenon DEF Tracks
<1>2. /\ m \in Nat /\ v \in Nat /\ Len(o) \in Nat /\ m + 1 \in 1..Len(o)
      /\ \A q \in 1..v : /\ at[q] < m + 1 /\ at[q] \in st.kept /\ b[q].ccc = ClassOf(st.s[at[q]])
                         /\ b[q].cp = st.s[at[q]]
      /\ \A a \in st.kept : a < m + 1 => \E q \in 1..v : at[q] = a
  BY <1>1, TracksIs
<1>3. CASE \A a \in st.kept : a < m + 1 => ClassOf(st.s[a]) # 0
  BY <1>3, NotAbsorbed
<1>4. CASE \E last : IsLast(st, m + 1, last)
  <2>1. PICK last : IsLast(st, m + 1, last)
    BY <1>4
  <2>2. /\ last \in st.kept /\ last < m + 1 /\ ClassOf(st.s[last]) = 0
        /\ \A a \in st.kept : last < a /\ a < m + 1 => ClassOf(st.s[a]) # 0
    BY <2>1, Zenon DEF IsLast
  <2>3. PICK q \in 1..v : at[q] = last
    BY <1>2, <2>2
  <2>4. ASSUME NEW r \in (q + 1)..v PROVE b[r].ccc # 0
    <3>1. r \in 1..v /\ q < r
      BY <1>2
    <3>2. at[q] < at[r] /\ at[r] < m + 1 /\ at[r] \in st.kept /\ b[r].ccc = ClassOf(st.s[at[r]])
      BY <1>1, <1>2, <3>1, PlaceOrder
    <3>3. ClassOf(st.s[at[r]]) # 0
      BY ONLY <2>2, <2>3, <3>2, Zenon
    <3> QED BY <3>2, <3>3
  <2>5. b[q].ccc = 0
    BY <1>2, <2>2, <2>3
  <2>6. IsOpaque(st.s[last])
    <3>1. \A y \in 1..v :
            b[y].ccc = 0 /\ (\A r \in (y + 1)..v : b[r].ccc # 0) => IsOpaque(b[y].cp)
      BY Zenon DEF Tracks, StarterAt
    <3>2. IsOpaque(b[q].cp)
      BY <2>4, <2>5, <3>1
    <3> QED BY <1>2, <2>3, <3>2
  <2>7. ~HasComposite(st.s[last], st.s[m + 1])
    BY <2>6 DEF HasComposite
  <2> QED BY <1>2, <2>1, <2>7, AbsorbedBy
<1> QED BY <1>2, <1>3, <1>4, LastExists

\* The code's condition to combine entry m + 1, on the buffer.
CombinesIn(b, m, v, z) ==
  /\ z # 0 /\ ~IsOpaque(b[m + 1].cp)
  /\ v = z \/ b[v].ccc < b[m + 1].ccc
  /\ ComposePair(b[z].cp, b[m + 1].cp) # 0

\* It is the standard's, and so is what is composed.
LEMMA CombinesIs ==
  ASSUME NEW o \in Seq(Char), NEW st \in CompStates(Len(o)), NEW b, NEW m, NEW v, NEW z,
         Tracks(o, st, b, m, v, z), m + 1 <= Len(o), NEW at, KeptAt(st, b, m, v, at)
  PROVE  /\ CombinesIn(b, m, v, z) =>
              /\ Uax!Absorbed(st, m + 1) = Joined(st, m + 1, at[z])
              /\ ComposePair(b[z].cp, b[m + 1].cp) = StdPrimary(st.s[at[z]], st.s[m + 1])
              /\ ComposePair(b[z].cp, b[m + 1].cp) \in Char
              /\ ~IsOpaque(ComposePair(b[z].cp, b[m + 1].cp))
              /\ ClassOf(ComposePair(b[z].cp, b[m + 1].cp)) = 0
         /\ ~CombinesIn(b, m, v, z) => Uax!Absorbed(st, m + 1) = st
<1>1. /\ m \in Nat /\ v \in Nat /\ z \in 0..v /\ Len(o) \in Nat /\ m + 1 \in 1..Len(o)
      /\ \A q \in 1..v : /\ at[q] \in 1..m /\ b[q].cp = st.s[at[q]]
                         /\ b[q].ccc = ClassOf(st.s[at[q]])
      /\ b[m + 1].cp = st.s[m + 1]
  BY TracksIs
<1>2. CASE z = 0
  <2>1. ~CombinesIn(b, m, v, z)
    BY <1>2 DEF CombinesIn
  <2>2. Uax!Absorbed(st, m + 1) = st
    BY <1>2, NoStarter
  <2> QED BY <2>1, <2>2
<1>3. CASE z # 0
  <2> DEFINE last == at[z]
             s1 == st.s[last]
             s2 == st.s[m + 1]
  <2>1. /\ z \in 1..v /\ last \in 1..Len(o) /\ b[z].cp = s1 /\ b[m + 1].cp = s2
        /\ b[z].ccc = ClassOf(s1)
    BY <1>1, <1>3
  <2>2. s1 \in Char /\ s2 \in Char
    BY <1>1, <2>1, StateIs
  <2>3. IsLast(st, m + 1, last) /\ ClassOf(s1) = 0
    BY <1>3, StarterIsLast DEF IsLast
  <2>4. Free(st, m + 1, last) <=> (v = z \/ b[v].ccc < b[m + 1].ccc)
    BY <1>3, FreeIs
  <2>5. ~IsOpaque(s1)
    <3>1. ~IsOpaque(b[z].cp)
      BY <1>3, Zenon DEF Tracks, StarterAt
    <3> QED BY <2>1, <3>1
  <2> HIDE DEF last, s1, s2
  <2>6. HasComposite(s1, s2) <=> (~IsOpaque(s2) /\ ComposePair(s1, s2) # 0)
    BY <2>2, <2>5, PairIs, Zenon DEF HasComposite
  <2>7. CombinesIn(b, m, v, z) <=> (Free(st, m + 1, last) /\ HasComposite(s1, s2))
    BY <1>3, <2>1, <2>4, <2>6, Zenon DEF CombinesIn
  <2>8. Uax!Absorbed(st, m + 1) =
          IF Free(st, m + 1, last) /\ HasComposite(s1, s2) THEN Joined(st, m + 1, last) ELSE st
    BY <1>1, <2>3, AbsorbedBy DEF s1, s2
  <2>9. HasComposite(s1, s2) =>
          /\ ComposePair(s1, s2) = StdPrimary(s1, s2) /\ StdPrimary(s1, s2) \in Char
          /\ ~IsOpaque(StdPrimary(s1, s2)) /\ ClassOf(StdPrimary(s1, s2)) = 0
    BY <2>2, <2>3, PairIs
  <2>10. ASSUME CombinesIn(b, m, v, z)
         PROVE  /\ Uax!Absorbed(st, m + 1) = Joined(st, m + 1, last)
                /\ ComposePair(b[z].cp, b[m + 1].cp) = StdPrimary(s1, s2)
                /\ ComposePair(b[z].cp, b[m + 1].cp) \in Char
                /\ ~IsOpaque(ComposePair(b[z].cp, b[m + 1].cp))
                /\ ClassOf(ComposePair(b[z].cp, b[m + 1].cp)) = 0
    BY <2>1, <2>7, <2>8, <2>9, <2>10
  <2>11. ASSUME ~CombinesIn(b, m, v, z) PROVE Uax!Absorbed(st, m + 1) = st
    BY <2>7, <2>8, <2>11
  <2> QED BY <2>10, <2>11 DEF last, s1, s2
<1> QED BY <1>1, <1>2, <1>3

\* An entry composed into the starter.
LEMMA CombineKeeps ==
  ASSUME NEW o \in Seq(Char), NEW st \in CompStates(Len(o)), NEW b, NEW m, NEW v, NEW z,
         Tracks(o, st, b, m, v, z), m + 1 <= Len(o), CombinesIn(b, m, v, z)
  PROVE  Tracks(o, Uax!Absorbed(st, m + 1),
                [b EXCEPT ![z].cp = ComposePair(b[z].cp, b[m + 1].cp)], m + 1, v, z)
<1> DEFINE n == Len(o)
           x == m + 1
           e == ComposePair(b[z].cp, b[x].cp)
           t == [b EXCEPT ![z].cp = e]
<1>1. PICK at : KeptAt(st, b, m, v, at)
  BY Zenon DEF Tracks
<1> DEFINE last == at[z]
           su == Joined(st, x, last)
<1>2. /\ n \in Nat /\ Len(b) = n /\ m \in Nat /\ v \in Nat /\ z \in Nat
      /\ x \in 1..n /\ v <= m /\ z <= v /\ b \in Seq(Entries)
      /\ \A q \in 1..v : /\ at[q] \in 1..m /\ at[q] < x /\ at[q] \in st.kept
                         /\ b[q].cp = st.s[at[q]] /\ b[q].ccc = ClassOf(st.s[at[q]])
      /\ \A a \in st.kept : a < x => \E q \in 1..v : at[q] = a
      /\ b[x].ccc = ClassOf(st.s[x]) /\ b[x].cp = o[x] /\ b[x].cp = st.s[x]
  BY <1>1, TracksIs
<1>3. z # 0 /\ (v = z \/ b[v].ccc < b[x].ccc)
  BY DEF CombinesIn
<1>4. z \in 1..v /\ z \in 1..n /\ last \in 1..m /\ last \in 1..n
  BY <1>2, <1>3
<1>5. /\ Uax!Absorbed(st, x) = su /\ e = StdPrimary(st.s[last], st.s[x])
      /\ e \in Char /\ ~IsOpaque(e) /\ ClassOf(e) = 0
  BY <1>1, CombinesIs
<1>6. /\ b[z].ccc = 0 /\ \A q \in (z + 1)..v : b[q].ccc # 0
      /\ \A k \in x..n : k \in st.kept /\ st.s[k] = o[k] /\ b[k].cp = o[k]
      /\ z < v => \A q \in (z + 1)..v : b[q].ccc <= b[v].ccc
  BY <1>3, Zenon DEF Tracks, StarterAt, MarksSorted
<1>7. /\ st.s \in Seq(Char) /\ Len(st.s) = n /\ st.kept \in SUBSET (1..n)
  BY <1>2, StateIs
<1>8. /\ su.kept = st.kept \ {x} /\ su.s = [st.s EXCEPT ![last] = e]
  BY <1>5 DEF Joined
<1>9. /\ su.s[last] = e /\ \A k \in 1..n : k # last => su.s[k] = st.s[k]
  BY <1>4, <1>7, <1>8
<1> HIDE DEF su, e, last
<1>10. /\ t \in Seq(Entries) /\ Len(t) = n /\ t[z].cp = e /\ t[z].ccc = b[z].ccc
       /\ \A q \in 1..n : q # z => t[q] = b[q]
       /\ \A q \in 1..n : t[q].ccc = b[q].ccc
  <2>1. b[z] \in Entries
    BY <1>2, <1>4
  <2> DEFINE y == [b[z] EXCEPT !.cp = e]
  <2>2. y \in Entries /\ y.cp = e /\ y.ccc = b[z].ccc
    <3>1. b[z] \in [cp : Char, ccc : Nat]
      BY <2>1 DEF Entries
    <3>2. y \in [cp : Char, ccc : Nat] /\ y.cp = e /\ y.ccc = b[z].ccc
      BY <1>5, <3>1
    <3> QED BY <1>5, <1>6, <3>2 DEF Entries
  <2>3. t = [b EXCEPT ![z] = y]
    OBVIOUS
  <2> HIDE DEF y, t
  <2>4. /\ t \in Seq(Entries) /\ Len(t) = n /\ t[z] = y
        /\ \A q \in 1..n : q # z => t[q] = b[q]
    BY <1>2, <1>4, <2>2, <2>3
  <2> QED BY <2>2, <2>4
<1> HIDE DEF t
<1>11. KeptAt(su, t, x, v, at)
  <2>1. /\ at \in [1..v -> 1..m] /\ \A j, k \in 1..v : j < k => at[j] < at[k]
        /\ \A a \in 1..m : a \in st.kept => \E q \in 1..v : at[q] = a
    BY <1>1, Zenon DEF KeptAt
  <2>2. at \in [1..v -> 1..x]
    BY <1>2, <2>1
  <2>3. ASSUME NEW q \in 1..v PROVE at[q] \in su.kept /\ t[q].cp = su.s[at[q]]
    <3>1. at[q] \in su.kept
      <4>1. at[q] \in st.kept /\ at[q] < x /\ at[q] \in 1..m /\ x \in 1..n
        BY <1>2
      <4>2. at[q] # x
        BY <4>1
      <4> QED BY <1>8, <4>1, <4>2
    <3>2. CASE q = z
      <4>1. t[q].cp = e /\ at[q] = last
        BY <1>10, <3>2 DEF last
      <4>2. su.s[last] = e
        BY <1>9
      <4> QED BY ONLY <3>1, <4>1, <4>2, Zenon
    <3>3. CASE q # z
      <4>2. at[q] # last
        <5>1. m \in Nat /\ v \in Nat /\ z \in 1..v /\ KeptAt(st, b, m, v, at)
          BY <1>1, <1>2, <1>4
        <5>2. at[q] = at[z] => q = z
          BY ONLY <5>1, PlaceOrder, q \in 1..v
        <5> QED BY <3>3, <5>2 DEF last
      <4>3. at[q] \in 1..m
        BY <1>2
      <4>1. at[q] # last /\ at[q] \in 1..n /\ q \in 1..n
        BY <1>2, <4>2, <4>3
      <4> QED BY <1>2, <1>9, <1>10, <3>1, <3>3, <4>1
    <3> QED BY <3>2, <3>3
  <2>4. ASSUME NEW a \in 1..x, a \in su.kept PROVE \E q \in 1..v : at[q] = a
    <3>1. a \in st.kept /\ a < x
      BY <1>2, <1>8, <2>4
    <3> QED BY <1>2, <3>1
  <2> QED BY <2>1, <2>2, <2>3, <2>4, Zenon DEF KeptAt
<1>12. \A k \in (x + 1)..n : k \in su.kept /\ su.s[k] = o[k] /\ t[k].cp = o[k]
  <2> SUFFICES ASSUME NEW k \in (x + 1)..n
               PROVE  k \in su.kept /\ su.s[k] = o[k] /\ t[k].cp = o[k]
    OBVIOUS
  <2>1. k \in x..n /\ k \in 1..n /\ k # x /\ k # z /\ k # last
    BY <1>2, <1>4
  <2> QED BY <1>6, <1>8, <1>9, <1>10, <2>1
<1>13. StarterAt(t, v, z)
  <2>1. \A q \in (z + 1)..v : q \in 1..n
    BY <1>2
  <2> QED BY <1>3, <1>5, <1>6, <1>10, <2>1 DEF StarterAt
<1>14. MarksSorted(o, t, x, v, z)
  <2> SUFFICES ASSUME z < v
               PROVE  /\ \A q \in (z + 1)..v : t[q].ccc <= t[v].ccc
                      /\ t[v].ccc <= ClassOf(o[x])
    BY DEF MarksSorted
  <2>1. v \in 1..n /\ \A q \in (z + 1)..v : q \in 1..n
    BY <1>2
  <2>2. \A q \in (z + 1)..v : t[q].ccc <= t[v].ccc
    BY <1>6, <1>10, <2>1
  <2>3. b[v].ccc < b[x].ccc
    BY <1>2, <1>3
  <2>4. b[v].ccc \in Nat /\ b[x].ccc \in Nat
    <3>1. b[v] \in Entries /\ b[x] \in Entries
      BY <1>2, <2>1
    <3> QED BY <3>1, EntryIs
  <2>5. b[x].ccc = ClassOf(o[x]) /\ t[v].ccc = b[v].ccc
    BY <1>2, <1>10, <2>1
  <2> QED BY <2>2, <2>3, <2>4, <2>5
<1>15. x \in 0..n /\ v \in 0..x /\ z \in 0..v
  BY <1>2
<1> HIDE DEF x
<1>16. Tracks(o, su, t, x, v, z)
  BY <1>10, <1>11, <1>12, <1>13, <1>14, <1>15, Zenon DEF Tracks
<1> QED BY <1>5, <1>16 DEF t, e, x

\* Where the next starter is, when entry m + 1 is kept.
StarterAfter(b, m, v, z) ==
  IF b[m + 1].ccc # 0 THEN z ELSE IF IsOpaque(b[m + 1].cp) THEN 0 ELSE v + 1

\* An entry that is kept, moved down.
LEMMA KeepKeeps ==
  ASSUME NEW o \in Seq(Char), NEW st \in CompStates(Len(o)), NEW b, NEW m, NEW v, NEW z,
         Tracks(o, st, b, m, v, z), m + 1 <= Len(o), ~CombinesIn(b, m, v, z),
         \A k \in 2..Len(o) : ClassOf(o[k]) # 0 => ClassOf(o[k - 1]) <= ClassOf(o[k])
  PROVE  Tracks(o, Uax!Absorbed(st, m + 1), [b EXCEPT ![v + 1] = b[m + 1]], m + 1, v + 1,
                StarterAfter(b, m, v, z))
<1> DEFINE n == Len(o)
           x == m + 1
           u == v + 1
           y == StarterAfter(b, m, v, z)
           t == [b EXCEPT ![u] = b[x]]
<1>1. PICK at : KeptAt(st, b, m, v, at)
  BY Zenon DEF Tracks
<1>2. Uax!Absorbed(st, x) = st
  BY <1>1, CombinesIs
<1>3. /\ n \in Nat /\ Len(b) = n /\ m \in Nat /\ v \in Nat /\ z \in Nat
      /\ x \in 1..n /\ v <= m /\ z <= v /\ b \in Seq(Entries)
      /\ \A q \in 1..v : /\ at[q] \in 1..m /\ at[q] < x /\ at[q] \in st.kept
                         /\ b[q].cp = st.s[at[q]] /\ b[q].ccc \in Nat
      /\ \A a \in st.kept : a < x => \E q \in 1..v : at[q] = a
      /\ b[x].cp = st.s[x] /\ b[x].cp = o[x] /\ b[x].ccc \in Nat /\ x \in st.kept
      /\ b[x].ccc = ClassOf(st.s[x])
  BY <1>1, TracksIs
<1>4. /\ \A k \in x..n : k \in st.kept /\ st.s[k] = o[k] /\ b[k].cp = o[k]
      /\ StarterAt(b, v, z) /\ MarksSorted(o, b, m, v, z)
  BY Zenon DEF Tracks
<1>5. y = IF b[x].ccc # 0 THEN z ELSE IF IsOpaque(b[x].cp) THEN 0 ELSE u
  BY DEF StarterAfter
<1> HIDE DEF y
<1>6. /\ u \in 1..n /\ u \in Nat /\ u <= x /\ u > v /\ y \in 0..u /\ x \in Nat
      /\ \A q \in 1..v : q # u /\ q \in 1..n
      /\ \A q \in 1..u : q \in 1..v \/ q = u
      /\ \A q \in (x + 1)..n : q # u /\ q \in 1..n
  <2>1. /\ n \in Nat /\ m \in Nat /\ v \in Nat /\ z \in Nat /\ x <= n /\ v <= m /\ z <= v
    BY <1>3
  <2>2. y = z \/ y = 0 \/ y = u
    BY <1>5
  <2> QED BY ONLY <2>1, <2>2
<1>7. /\ t \in Seq(Entries) /\ Len(t) = n /\ t[u] = b[x]
      /\ \A q \in 1..n : q # u => t[q] = b[q]
  <2>1. b[x] \in Entries
    BY <1>3
  <2> QED BY <1>3, <1>6, <2>1
<1> HIDE DEF t, x, n
<1>8. \A q \in 1..v : t[q] = b[q]
  BY <1>6, <1>7
<1>9. \E f : KeptAt(st, t, x, u, f)
  <2> DEFINE f == [q \in 1..u |-> IF q = u THEN x ELSE at[q]]
  <2>1. f[u] = x /\ \A q \in 1..v : f[q] = at[q]
    BY <1>3, <1>6
  <2>2. f \in [1..u -> 1..x]
    <3> SUFFICES ASSUME NEW q \in 1..u PROVE (IF q = u THEN x ELSE at[q]) \in 1..x
      OBVIOUS
    <3>1. CASE q = u
      BY <1>3, <1>6, <3>1
    <3>2. CASE q # u
      <4>1. q \in 1..v /\ at[q] \in 1..m
        BY <1>3, <1>6, <3>2
      <4> QED BY <3>2, <4>1, <1>3, <1>6 DEF x
    <3> QED BY <3>1, <3>2
  <2> HIDE DEF f
  <2>3. ASSUME NEW j \in 1..u, NEW k \in 1..u, j < k PROVE f[j] < f[k]
    <3>1. j \in 1..v
      BY <1>3, <1>6, <2>3
    <3>2. CASE k = u
      BY <1>3, <2>1, <3>1, <3>2
    <3>3. CASE k # u
      <4>1. k \in 1..v
        BY <1>6, <3>3
      <4>2. at[j] < at[k]
        BY <1>1, <1>3, <2>3, <3>1, <4>1, PlaceOrder
      <4> QED BY <2>1, <3>1, <4>1, <4>2
    <3> QED BY <3>2, <3>3
  <2>4. ASSUME NEW q \in 1..u PROVE f[q] \in st.kept /\ t[q].cp = st.s[f[q]]
    <3>1. CASE q = u
      BY <1>3, <1>7, <2>1, <3>1
    <3>2. CASE q \in 1..v
      BY <1>3, <1>8, <2>1, <3>2
    <3> QED BY <1>6, <3>1, <3>2
  <2>5. ASSUME NEW a \in 1..x, a \in st.kept PROVE \E q \in 1..u : f[q] = a
    <3>1. CASE a = x
      <4>1. u \in 1..u
        BY <1>6
      <4> QED BY <2>1, <3>1, <4>1
    <3>2. CASE a # x
      <4>1. a < x
        BY <1>6, <3>2
      <4>2. PICK q \in 1..v : at[q] = a
        BY <1>3, <2>5, <4>1
      <4>3. q \in 1..u
        BY <1>3
      <4> QED BY <2>1, <4>2, <4>3
    <3> QED BY <3>1, <3>2
  <2>6. KeptAt(st, t, x, u, f)
    BY <2>2, <2>3, <2>4, <2>5, Zenon DEF KeptAt
  <2> QED BY <2>6
<1>10. \A k \in (x + 1)..n : k \in st.kept /\ st.s[k] = o[k] /\ t[k].cp = o[k]
  <2> SUFFICES ASSUME NEW k \in (x + 1)..n
               PROVE  k \in st.kept /\ st.s[k] = o[k] /\ t[k].cp = o[k]
    OBVIOUS
  <2>1. k \in x..n
    BY <1>3, <1>6
  <2>2. t[k] = b[k]
    BY <1>6, <1>7
  <2> QED BY <1>4, <2>1, <2>2
<1> HIDE DEF u
<1>11. StarterAt(t, u, y)
  <2>1. ASSUME y # 0
        PROVE  t[y].ccc = 0 /\ ~IsOpaque(t[y].cp) /\ \A q \in (y + 1)..u : t[q].ccc # 0
    <3>1. CASE b[x].ccc # 0
      <4>1. y = z /\ z \in 1..v
        BY <1>3, <1>5, <2>1, <3>1
      <4>2. /\ b[z].ccc = 0 /\ ~IsOpaque(b[z].cp) /\ \A q \in (z + 1)..v : b[q].ccc # 0
        BY <1>4, <2>1, <4>1, Zenon DEF StarterAt
      <4>3. ASSUME NEW q \in (y + 1)..u PROVE t[q].ccc # 0
        <5>1. CASE q = u
          BY <1>7, <3>1, <5>1
        <5>2. CASE q # u
          <6>1. q \in (z + 1)..v /\ q \in 1..v
            BY <1>3, <4>1, <5>2 DEF u
          <6> QED BY <1>8, <4>2, <6>1
        <5> QED BY <5>1, <5>2
      <4> QED BY <1>8, <4>1, <4>2, <4>3
    <3>2. CASE b[x].ccc = 0
      <4>1. y = u /\ ~IsOpaque(b[x].cp)
        BY <1>5, <2>1, <3>2
      <4>2. (y + 1)..u = {}
        BY <1>6, <4>1
      <4> QED BY <1>7, <3>2, <4>1, <4>2
    <3> QED BY <3>1, <3>2
  <2>2. ASSUME y = 0, NEW q \in 1..u, t[q].ccc = 0, \A r \in (q + 1)..u : t[r].ccc # 0
        PROVE  IsOpaque(t[q].cp)
    <3>1. CASE b[x].ccc # 0
      <4>1. z = 0
        BY <1>5, <2>2, <3>1
      <4>2. q # u
        BY <1>7, <2>2, <3>1
      <4>3. q \in 1..v /\ \A r \in (q + 1)..v : r \in (q + 1)..u /\ r \in 1..v
        BY <1>3, <4>2 DEF u
      <4>4. b[q].ccc = 0 /\ \A r \in (q + 1)..v : b[r].ccc # 0
        BY <1>8, <2>2, <4>3
      <4>5. IsOpaque(b[q].cp)
        BY <1>4, <4>1, <4>3, <4>4, Zenon DEF StarterAt
      <4> QED BY <1>8, <4>3, <4>5
    <3>2. CASE b[x].ccc = 0
      <4>1. IsOpaque(b[x].cp)
        BY <1>5, <1>6, <2>2, <3>2
      <4>2. q = u
        <5>1. ASSUME q # u PROVE FALSE
          <6>1. u \in (q + 1)..u
            BY <1>6, <5>1
          <6> QED BY <1>7, <2>2, <3>2, <6>1
        <5> QED BY <5>1
      <4> QED BY <1>7, <4>1, <4>2
    <3> QED BY <3>1, <3>2
  <2> QED BY <2>1, <2>2, Zenon DEF StarterAt
<1>12. MarksSorted(o, t, x, u, y)
  <2> SUFFICES ASSUME y # 0, y < u
               PROVE  (\A q \in (y + 1)..u : t[q].ccc <= t[u].ccc) /\ t[u].ccc <= ClassOf(o[x])
    BY Zenon DEF MarksSorted
  <2>1. b[x].ccc # 0 /\ y = z /\ z \in 1..v
    BY <1>3, <1>5, <1>6
  <2>2. t[u].ccc = ClassOf(o[x]) /\ t[u].ccc = b[x].ccc
    BY <1>3, <1>7
  <2>3. ASSUME NEW q \in (y + 1)..u, q # u PROVE t[q].ccc <= t[u].ccc
    <3>1. q \in (z + 1)..v /\ z < v /\ q \in 1..v /\ v \in 1..v /\ m \in 1..n /\ x \in 2..n
      BY <1>3, <2>1, <2>3 DEF u, x
    <3>2. b[q].ccc <= b[v].ccc /\ b[v].ccc <= ClassOf(o[m])
      BY <1>4, <2>1, <3>1, Zenon DEF MarksSorted
    <3>3. ClassOf(o[m]) <= ClassOf(o[x])
      <4>1. x - 1 = m
        BY <1>3 DEF x
      <4>2. ClassOf(o[x]) # 0
        BY <2>1, <2>2
      <4> QED BY <3>1, <4>1, <4>2 DEF n
    <3>4. ClassOf(o[m]) \in Nat
      <4>1. o[m] \in Char
        BY <3>1 DEF n
      <4> QED BY <4>1, CharIs
    <3>5. b[q].ccc \in Nat /\ b[v].ccc \in Nat /\ b[x].ccc \in Nat /\ t[q] = b[q]
      BY <1>3, <1>8, <3>1
    <3>6. b[q].ccc <= ClassOf(o[x])
      <4>1. ClassOf(o[x]) \in Nat
        BY <1>3, <2>2
      <4> QED BY <3>2, <3>3, <3>4, <3>5, <4>1
    <3> QED BY <2>2, <3>5, <3>6
  <2>4. t[u].ccc \in Nat
    BY <1>3, <2>2
  <2> QED BY <2>2, <2>3, <2>4
<1>13. x \in 0..n /\ u \in 0..x /\ y \in 0..u
  BY <1>3, <1>6
<1>14. Tracks(o, st, t, x, u, y)
  BY <1>7, <1>9, <1>10, <1>11, <1>12, <1>13, Zenon DEF Tracks, n
<1> QED BY <1>2, <1>14 DEF t, x, u, y

----------------------------------------------------------------------------
(* Composition: the invariant.                                              *)

\* The entries in canonical order, before any composition.
Arrayed == Uax!Ordered(Spelt)
NonDecreasing(o) ==
  \A k \in 2..Len(o) : ClassOf(o[k]) # 0 => ClassOf(o[k - 1]) <= ClassOf(o[k])

StartInv == pc \in {"quick", "decompose", "order"} => w = 0 /\ starter = 0
ComposeInv ==
  pc = "compose" =>
    /\ Arrayed \in Seq(Char) /\ NonDecreasing(Arrayed) /\ i - 1 \in 0..Len(Arrayed)
    /\ Tracks(Arrayed, Uax!Compositions(Arrayed)[i - 1], buf, i - 1, w, starter)

ComposesInv == StartInv /\ ComposeInv /\ Recomposed

\* All entries sorted: nothing is composed yet.
LEMMA TracksFirst ==
  ASSUME NEW sp \in Seq(Char), NEW b, Arranges(sp, b, Len(b))
  PROVE  LET o == Uax!Ordered(sp)
         IN /\ o \in Seq(Char) /\ NonDecreasing(o) /\ Len(o) = Len(b) /\ Len(b) \in Nat
            /\ Tracks(o, Uax!Compositions(o)[0], b, 0, 0, 0)
<1> DEFINE n == Len(sp)
           o == Uax!Ordered(sp)
           st == Uax!Compositions(o)[0]
<1>1. b \in Seq(Entries) /\ Len(b) = n /\ n \in Nat
  BY DEF Arranges
<1>2. PICK at : IsOrder(sp, n, at) /\ \A k \in 1..n : b[k].cp = sp[at[k]]
  BY <1>1, Zenon DEF Arranges
<1>3. at \in [1..n -> 1..n]
  BY <1>2, Zenon DEF IsOrder
<1>4. o = [k \in 1..n |-> sp[at[k]]]
  BY <1>2, OrderedIs
<1>5. o \in Seq(Char) /\ Len(o) = n /\ \A k \in 1..n : o[k] = sp[at[k]]
  <2>1. \A k \in 1..n : sp[at[k]] \in Char
    BY <1>3
  <2> HIDE DEF n, o
  <2> QED BY <1>1, <1>4, <2>1
<1> HIDE DEF o
<1>6. NonDecreasing(o)
  <2> SUFFICES ASSUME NEW k \in 2..n, ClassOf(o[k]) # 0
               PROVE  ClassOf(o[k - 1]) <= ClassOf(o[k])
    BY <1>5 DEF NonDecreasing
  <2>1. k \in 1..n /\ k - 1 \in 1..n
    BY <1>1
  <2>2. ClassOf(sp[at[k - 1]]) <= ClassOf(sp[at[k]])
    BY <1>2, <1>5, <2>1, OrderIsSorted
  <2> QED BY <1>5, <2>1, <2>2
<1>7. st = [s |-> o, kept |-> 1..n]
  BY <1>5, CompositionsSteps
<1> HIDE DEF st
<1>8. \E f : KeptAt(st, b, 0, 0, f)
  <2> DEFINE f == [q \in 1..0 |-> 1]
  <2>1. f \in [1..0 -> 1..0]
    OBVIOUS
  <2>2. \A j \in 1..0 : FALSE
    OBVIOUS
  <2> HIDE DEF f
  <2>3. KeptAt(st, b, 0, 0, f)
    BY <2>1, <2>2, Zenon DEF KeptAt
  <2> QED BY <2>3
<1>9. \A k \in (0 + 1)..n : k \in st.kept /\ st.s[k] = o[k] /\ b[k].cp = o[k]
  BY <1>2, <1>5, <1>7
<1>10. StarterAt(b, 0, 0) /\ MarksSorted(o, b, 0, 0, 0)
  BY DEF StarterAt, MarksSorted
<1>11. 0 \in 0..n /\ 0 \in 0..0
  BY <1>1
<1>12. Tracks(o, st, b, 0, 0, 0)
  BY <1>1, <1>5, <1>8, <1>9, <1>10, <1>11, Zenon DEF Tracks
<1> QED BY <1>1, <1>5, <1>6, <1>12 DEF o, st, n

\* All entries composed: what is kept is the standard's.
LEMMA TracksLast ==
  ASSUME NEW o \in Seq(Char), NEW b, NEW v, NEW z,
         Tracks(o, Uax!Compositions(o)[Len(o)], b, Len(o), v, z)
  PROVE  Uax!Composed(o) = [k \in 1..v |-> b[k].cp]
<1> DEFINE n == Len(o)
           st == Uax!Compositions(o)[n]
           R == {p \in st.kept \X st.kept : p[1] < p[2]}
<1>1. n \in Nat /\ v \in Nat
  BY DEF Tracks
<1>2. PICK at : KeptAt(st, b, n, v, at)
  BY Zenon DEF Tracks
<1>3. st \in CompStates(n)
  <2>1. Uax!Compositions(o) \in [0..n -> CompStates(n)]
    BY CompositionsSteps, Zenon
  <2>2. n \in 0..n
    BY <1>1
  <2> QED BY <2>1, <2>2
<1>4. Uax!Composed(o) =
        [k \in 1..Cardinality(st.kept) |-> st.s[Uax!Arranged(st.kept, R)[k]]]
  BY SameCardinality DEF Uax!Composed
<1> HIDE DEF st
<1>5. st.kept \in SUBSET (1..n)
  BY <1>1, <1>3, StateIs
<1>6. /\ at \in [1..v -> 1..n]
      /\ \A q \in 1..v : at[q] \in st.kept /\ b[q].cp = st.s[at[q]]
      /\ \A a \in 1..n : a \in st.kept => \E q \in 1..v : at[q] = a
  BY <1>2, Zenon DEF KeptAt
<1>7. at \in [1..v -> st.kept] /\ \A a \in st.kept : \E q \in 1..v : at[q] = a
  BY <1>5, <1>6
<1>8. \A j, k \in 1..v : <<at[j], at[k]>> \in R <=> j < k
  <2> SUFFICES ASSUME NEW j \in 1..v, NEW k \in 1..v PROVE <<at[j], at[k]>> \in R <=> j < k
    OBVIOUS
  <2>1. at[j] \in st.kept /\ at[k] \in st.kept
    BY <1>6
  <2>2. at[j] < at[k] <=> j < k
    BY <1>1, <1>2, PlaceOrder
  <2> QED BY <2>1, <2>2
<1> HIDE DEF R
<1>9. Cardinality(st.kept) = v /\ Uax!Arranged(st.kept, R) = at
  <2> DEFINE T == st.kept
  <2>1. /\ v \in Nat /\ at \in [1..v -> T] /\ \A a \in T : \E k \in 1..v : at[k] = a
        /\ \A j, k \in 1..v : <<at[j], at[k]>> \in R <=> j < k
    BY <1>1, <1>7, <1>8
  <2> HIDE DEF T
  <2>2. Cardinality(T) = v /\ Uax!Arranged(T, R) = at
    BY ONLY <2>1, ArrangedIs
  <2> QED BY <2>2 DEF T
<1> QED BY <1>4, <1>6, <1>9

LEMMA ComposesInit == Init => ComposesInv
<1> SUFFICES ASSUME Init PROVE ComposesInv
  OBVIOUS
<1>1. pc = "quick" /\ w = 0 /\ starter = 0
  BY DEF Init
<1> QED BY <1>1 DEF ComposesInv, StartInv, ComposeInv, Recomposed

\* The steps of the composing loop.
LEMMA ComposeLoop ==
  ASSUME ReadInv, ComposeInv, pc = "compose", i <= Len(buf), text' = text, pc' = pc, i' = i + 1,
         \/ /\ CombinesIn(buf, i - 1, w, starter) /\ w' = w /\ starter' = starter
            /\ buf' = [buf EXCEPT ![starter].cp = ComposePair(buf[starter].cp, buf[i].cp)]
         \/ /\ ~CombinesIn(buf, i - 1, w, starter) /\ w' = w + 1
            /\ starter' = StarterAfter(buf, i - 1, w, starter)
            /\ buf' = [buf EXCEPT ![w + 1] = buf[i]]
  PROVE  ComposeInv'
<1> DEFINE o == Arrayed
           n == Len(o)
           m == i - 1
           C == Uax!Compositions(o)
<1>1. /\ o \in Seq(Char) /\ NonDecreasing(o) /\ m \in 0..n
      /\ Tracks(o, C[m], buf, m, w, starter)
  BY DEF ComposeInv
<1>2. Len(buf) = n /\ n \in Nat
  BY <1>1 DEF Tracks
<1>3. m + 1 = i /\ m + 1 <= n /\ i' - 1 = m + 1 /\ m + 1 \in 1..n /\ m + 1 \in 0..n /\ (m + 1) - 1 = m
  <2>1. i \in Nat
    BY DEF ReadInv, PosInv
  <2> QED BY <1>1, <1>2, <2>1
<1>4. Arrayed' = o
  BY DEF Arrayed, Spelt
<1> HIDE DEF o, m
<1>5. C[m] \in CompStates(n) /\ C[m + 1] = Uax!Absorbed(C[m], m + 1)
  <2>1. /\ C \in [0..n -> CompStates(n)]
        /\ \A k \in 1..n : C[k] = Uax!Absorbed(C[k - 1], k)
    BY <1>1, CompositionsSteps
  <2> HIDE DEF C
  <2>2. C[m] \in CompStates(n)
    BY <1>1, <2>1
  <2>3. C[m + 1] = Uax!Absorbed(C[(m + 1) - 1], m + 1)
    BY <1>3, <2>1
  <2> QED BY <1>3, <2>2, <2>3
<1> HIDE DEF C
<1>6. Tracks(o, C[m + 1], buf', m + 1, w', starter')
  <2>1. CASE /\ CombinesIn(buf, m, w, starter) /\ w' = w /\ starter' = starter
             /\ buf' = [buf EXCEPT ![starter].cp = ComposePair(buf[starter].cp, buf[i].cp)]
    <3>1. Tracks(o, Uax!Absorbed(C[m], m + 1),
                 [buf EXCEPT ![starter].cp = ComposePair(buf[starter].cp, buf[m + 1].cp)],
                 m + 1, w, starter)
      BY <1>1, <1>3, <1>5, <2>1, CombineKeeps DEF n
    <3> QED BY <1>3, <1>5, <2>1, <3>1
  <2>2. CASE /\ ~CombinesIn(buf, m, w, starter) /\ w' = w + 1
             /\ starter' = StarterAfter(buf, m, w, starter)
             /\ buf' = [buf EXCEPT ![w + 1] = buf[i]]
    <3>1. \A k \in 2..Len(o) : ClassOf(o[k]) # 0 => ClassOf(o[k - 1]) <= ClassOf(o[k])
      BY <1>1, Zenon DEF NonDecreasing
    <3>2. Tracks(o, Uax!Absorbed(C[m], m + 1), [buf EXCEPT ![w + 1] = buf[m + 1]],
                 m + 1, w + 1, StarterAfter(buf, m, w, starter))
      BY <1>1, <1>3, <1>5, <2>2, <3>1, KeepKeeps DEF n
    <3> QED BY <1>3, <1>5, <2>2, <3>2
  <2> QED BY <2>1, <2>2 DEF m
<1>7. Tracks(o, C[i' - 1], buf', i' - 1, w', starter') /\ i' - 1 \in 0..n
  BY <1>3, <1>6
<1> QED BY <1>1, <1>4, <1>7 DEF ComposeInv, C, n

LEMMA ComposesStep == ReadInv /\ ComposesInv /\ [Next]_vars => ComposesInv'
<1> SUFFICES ASSUME ReadInv, ComposesInv, [Next]_vars PROVE ComposesInv'
  OBVIOUS
<1>1. text' = text
  BY DEF Next, vars, Unchanged, QuickOn, QuickStop, Decompose, Decomposed, Order, Ordered,
         Combine, Keep, Composed
<1>2. Spelt' = Spelt /\ Arrayed' = Arrayed
  BY <1>1 DEF Spelt, Arrayed
<1>3. ASSUME pc' \notin {"quick", "decompose", "order", "done"}, ComposeInv' PROVE ComposesInv'
  BY <1>3 DEF ComposesInv, StartInv, Recomposed
<1>4. CASE Unchanged \/ QuickOn \/ QuickStop \/ Decompose \/ Decomposed \/ Order
  <2>1. /\ w' = w /\ starter' = starter /\ pc \in {"quick", "decompose", "order"} /\ pc' # "compose"
        /\ pc' = "done" => buf' = <<>> \/ rc' = "nomem"
    BY <1>4 DEF ReadInv, FillInv, Unchanged, QuickOn, QuickStop, Decompose, Decomposed, Order
  <2>2. w' = 0 /\ starter' = 0
    BY <2>1 DEF ComposesInv, StartInv
  <2>3. Recomposed'
    BY <2>1 DEF Recomposed
  <2> QED BY <2>1, <2>2, <2>3 DEF ComposesInv, StartInv, ComposeInv
<1>5. CASE Ordered
  <2>1. /\ pc = "order" /\ i > Len(buf) /\ pc' = "compose" /\ i' = 1
        /\ buf' = buf /\ w' = w /\ starter' = starter
    BY <1>5 DEF Ordered
  <2>2. w' = 0 /\ starter' = 0
    BY <2>1 DEF ComposesInv, StartInv
  <2>3. Arranges(Spelt, buf, i - 1) /\ i \in Nat /\ Spelt \in Seq(Char)
    BY <2>1, SpeltIs DEF ReadInv, OrderInv, PosInv
  <2>4. i - 1 = Len(buf)
    <3>1. i - 1 \in 1..Len(buf) /\ Len(buf) \in Nat
      BY <2>3 DEF Arranges
    <3> QED BY <2>1, <2>3, <3>1
  <2>5. /\ Arrayed \in Seq(Char) /\ NonDecreasing(Arrayed) /\ Len(Arrayed) = Len(buf)
        /\ Len(buf) \in Nat /\ Tracks(Arrayed, Uax!Compositions(Arrayed)[0], buf, 0, 0, 0)
    BY <2>3, <2>4, TracksFirst DEF Arrayed
  <2>6. i' - 1 = 0 /\ 0 \in 0..Len(Arrayed)
    BY <2>1, <2>5
  <2>7. ComposeInv'
    BY <1>2, <2>1, <2>2, <2>5, <2>6 DEF ComposeInv
  <2> QED BY <1>3, <2>1, <2>7
<1>6. ASSUME pc = "compose" PROVE i \in Nat /\ (i - 1) + 1 = i
  BY DEF ReadInv, PosInv
<1>7. CASE Combine
  <2>1. /\ pc = "compose" /\ i <= Len(buf) /\ Combines /\ pc' = pc /\ i' = i + 1
        /\ w' = w /\ starter' = starter
        /\ buf' = [buf EXCEPT ![starter].cp = ComposePair(buf[starter].cp, buf[i].cp)]
    BY <1>7, Zenon DEF Combine, Composite
  <2>2. CombinesIn(buf, i - 1, w, starter)
    BY <1>6, <2>1, Zenon DEF Combines, CombinesIn, Composite
  <2>3. ComposeInv'
    BY <1>1, <2>1, <2>2, ComposeLoop DEF ComposesInv
  <2> QED BY <1>3, <2>1, <2>3
<1>8. CASE Keep
  <2>1. /\ pc = "compose" /\ i <= Len(buf) /\ ~Combines /\ pc' = pc /\ i' = i + 1 /\ w' = w + 1
        /\ starter' = IF buf[i].ccc # 0 THEN starter
                      ELSE IF IsOpaque(buf[i].cp) THEN 0 ELSE w + 1
        /\ buf' = [buf EXCEPT ![w + 1] = buf[i]]
    BY <1>8, Zenon DEF Keep
  <2>2. ~CombinesIn(buf, i - 1, w, starter) /\ starter' = StarterAfter(buf, i - 1, w, starter)
    BY <1>6, <2>1, Zenon DEF Combines, CombinesIn, Composite, StarterAfter
  <2>3. ComposeInv'
    BY <1>1, <2>1, <2>2, ComposeLoop DEF ComposesInv
  <2> QED BY <1>3, <2>1, <2>3
<1>9. CASE Composed
  <2> DEFINE o == Arrayed
             n == Len(o)
  <2>1. /\ pc = "compose" /\ i > Len(buf) /\ pc' = "done" /\ buf' = buf
        /\ out' = Written([k \in 1..w |-> buf[k].cp]) \/ rc' = "nomem"
    BY <1>9 DEF Composed
  <2>2. /\ o \in Seq(Char) /\ i - 1 \in 0..n
        /\ Tracks(o, Uax!Compositions(o)[i - 1], buf, i - 1, w, starter)
    BY <2>1 DEF ComposesInv, ComposeInv
  <2>3. i - 1 = n
    <3>1. Len(buf) = n /\ n \in Nat
      BY <2>2 DEF Tracks
    <3>2. i \in Nat
      BY <1>6, <2>1
    <3> QED BY <2>1, <2>2, <3>1, <3>2
  <2>4. Uax!Composed(o) = [k \in 1..w |-> buf[k].cp]
    <3>1. Tracks(o, Uax!Compositions(o)[n], buf, n, w, starter)
      BY <2>2, <2>3
    <3> HIDE DEF o
    <3> QED BY <2>2, <3>1, TracksLast
  <2>5. Uax!Nfc(Chars(text)) = Uax!Composed(o)
    BY Zenon DEF Uax!Nfc, Arrayed, Spelt
  <2>6. out' = Written(Uax!Nfc(Chars(text))) \/ rc' = "nomem"
    BY <2>1, <2>4, <2>5
  <2>7. Recomposed'
    BY <1>1, <2>6 DEF Recomposed
  <2> QED BY <2>1, <2>7 DEF ComposesInv, StartInv, ComposeInv
<1>10. CASE UNCHANGED vars
  BY <1>2, <1>10 DEF vars, ComposesInv, StartInv, ComposeInv, Recomposed
<1> QED BY <1>4, <1>5, <1>7, <1>8, <1>9, <1>10 DEF Next

\* What the full path of bp_nfc returns is the NFC of the segment as UAX #15 defines it,
\* encoded, its malformed bytes where they were (bp_nfc.c 102-180).
THEOREM Recomposes == Spec => []Recomposed
<1>1. ReadInv /\ [Next]_vars /\ ComposesInv => ComposesInv'
  BY ComposesStep
<1>2. ComposesInv => Recomposed
  BY DEF ComposesInv
<1> QED BY <1>1, <1>2, ComposesInit, ReadHolds, PTL DEF Spec

=============================================================================
