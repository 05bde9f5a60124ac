-------------------------------- MODULE MCNfc --------------------------------
(***************************************************************************)
(* An instance of Nfc over the generated tables of UcTables, with the      *)
(* Unicode data of some thirty characters, and the same data as the        *)
(* standard has it, spelled out.                                           *)
(***************************************************************************)
EXTENDS Nfc, UcTables, TLC

\* What the tables are made of: combining marks; quick check ranges, one of them
\* next to another; decompositions in one step.  2392 is excluded from
\* composition, 8490 is a singleton, 836 begins with a mark.
Marks ==
  [cp \in {768, 769, 770, 776, 836} |-> 230] @@ [cp \in {790, 803} |-> 220]
    @@ (789 :> 232) @@ (2364 :> 7)

Quick(lo, hi, val) == [lo |-> lo, hi |-> hi, val |-> val]
QuickRanges ==
  << Quick(768, 770, "maybe"), Quick(776, 776, "maybe"), Quick(803, 803, "maybe"),
     Quick(836, 836, "no"), Quick(2364, 2364, "maybe"), Quick(2392, 2392, "no"),
     Quick(4449, 4469, "maybe"), Quick(4520, 4546, "maybe"), Quick(8490, 8490, "no") >>

OneStep ==
  (224 :> <<97, 768>>) @@ (226 :> <<97, 770>>) @@ (836 :> <<776, 769>>)
    @@ (2392 :> <<2325, 2364>>) @@ (7841 :> <<97, 803>>) @@ (7847 :> <<226, 768>>)
    @@ (7853 :> <<7841, 770>>) @@ (8490 :> <<75>>)

NoPrimary == {2392}
NoClasses == <<>>

----------------------------------------------------------------------------
(* The same for the standard, spelled out.                                 *)

StdClass(cp) == IF cp \in DOMAIN Marks THEN Marks[cp] ELSE 0

Table ==
  [cp \in {224, 226, 836, 2392, 7841, 7847, 7853, 8490} |->
     CASE cp = 224 -> <<97, 768>>        [] cp = 226 -> <<97, 770>>
       [] cp = 836 -> <<776, 769>>       [] cp = 2392 -> <<2325, 2364>>
       [] cp = 7841 -> <<97, 803>>       [] cp = 7847 -> <<97, 770, 768>>
       [] cp = 7853 -> <<97, 803, 770>>  [] cp = 8490 -> <<75>>]

Pairs ==
  [p \in {<<97, 768>>, <<97, 770>>, <<97, 803>>, <<226, 768>>, <<7841, 770>>} |->
     CASE p = <<97, 768>> -> 224 [] p = <<97, 770>> -> 226 [] p = <<97, 803>> -> 7841
       [] p = <<226, 768>> -> 7847 [] p = <<7841, 770>> -> 7853]

\* Hangul as a table, for the standard: the first and the last jamo of each kind.
Jamo == {4352, 4370} \X {4449, 4469} \X {4520, 4546}
Lv == (<<4352, 4449>> :> 44032) @@ (<<4352, 4469>> :> 44592)
        @@ (<<4370, 4449>> :> 54616) @@ (<<4370, 4469>> :> 55176)
Syllables ==
  Lv @@ [j \in Jamo |-> Lv[<<j[1], j[2]>>] + IF j[3] = 4520 THEN 1 ELSE 27]

Spelling(cp) ==
  LET js == {j \in DOMAIN Syllables : Syllables[j] = cp}
  IN IF js # {} THEN CHOOSE j \in js : TRUE
     ELSE IF cp \in DOMAIN Table THEN Table[cp] ELSE <<cp>>

Precomposed == Pairs @@ Lv
  @@ [p \in {44032, 44592, 54616, 55176} \X {4520, 4546} |->
        p[1] + IF p[2] = 4520 THEN 1 ELSE 27]
IsPrecomposed(a, b) == <<a, b>> \in DOMAIN Precomposed
PrecomposedOf(a, b) == Precomposed[<<a, b>>]

----------------------------------------------------------------------------

Latin == {97, 224, 226, 7841, 7853, 768, 770, 803, 789, 790, 836, 8490, 2392, 2364}
Hangul == {4352, 4370, 4371, 4449, 4469, 4519, 4520, 4546, 4547, 44032, 54616, 55203}

\* Two bytes that are no text alone, and are U+0300 together.
Raw == {<<204>>, <<128>>}

Encoded(cps) == {EncodeCp(cp) : cp \in cps}

TextsOf(chars, most) == {FlattenSeq(s) : s \in UNION {[1..n -> chars] : n \in 0..most}}

\* The bytes at which the decoder's conditions change, and the codepoints at
\* which the encoder's do.
EdgeBytes == {65, 127, 128, 143, 144, 159, 160, 191, 193, 194, 223, 224, 237, 239, 240, 244, 245}
EdgeScalars ==
  {0, 127, 128, 2047, 2048, 4095, 4096, 55295, 57344, 65535, 65536, 262143, 262144, 1114111}

\* All pairs of bytes, and after them bytes that continue a character or do not; after
\* 237 none that would make a Hangul syllable, of which the tables have only a few.
EdgeTexts ==
  LET pairs == [1..2 -> EdgeBytes]
      more == {<<b>> : b \in {127, 128, 191, 193, 194}}
  IN {<<>>} \cup {<<b>> : b \in EdgeBytes} \cup pairs
       \cup {s \o b : s \in {p \in pairs : p[1] = 237 => p[2] \notin 128..158}, b \in more}
       \cup {s \o b \o c : s \in {p \in pairs : p[1] \in {240, 244} /\ p[2] # 237},
                           b \in more, c \in more}
       \cup Encoded(EdgeScalars)

Segments ==
  EdgeTexts
  \cup TextsOf(Encoded(Latin) \cup Raw, 3)
  \cup TextsOf(Encoded({97, 7841, 770, 803, 790}) \cup Raw, 5)
  \cup TextsOf(Encoded(Hangul \cup {803}), 3)

----------------------------------------------------------------------------

\* The codepoints of the texts, what they decompose to, and what that composes to.
Decodable ==
  {Decode(s, 1).cp : s \in (EdgeTexts \ {<<>>}) \cup Encoded(Latin \cup Hangul \cup {7841, 803})} \ {NoCp}
AllCodepoints ==
  LET parts == Decodable \cup UNION {Range(Spelled(cp)) : cp \in Decodable}
      WithComposites(cps) == cps \cup ({ComposePair(p[1], p[2]) : p \in cps \X parts} \ {0})
  IN WithComposites(WithComposites(parts))
=============================================================================
