------------------------------ MODULE UcTables ------------------------------
(***************************************************************************)
(* The Unicode tables of bp_uctables.c, as gen_tables.py makes them of the *)
(* Unicode data, and the lookups in them.  Arrays count from 0, as in C; a *)
(* block's zero entries are left out.                                      *)
(***************************************************************************)
EXTENDS Integers, FiniteSets, SequencesExt

CONSTANTS
  ClassData,   \* the classes of the codepoints that have any (the probe's)
  CccData,     \* the combining classes that are not 0
  QcData,      \* the NFC_QC ranges that are not Yes, as [lo, hi, val]
  RawDecomp,   \* the canonical decompositions of UnicodeData.txt, one step
  Excluded,    \* CompositionExclusions.txt
  BlockSize    \* 256, the codepoints of a block

MaxCp == 1114112

\* parse_derived_normalization_props refuses ranges that overlap.
ASSUME RangesAssumption ==
  \A k \in 1..Len(QcData) :
    QcData[k].lo <= QcData[k].hi /\ (k > 1 => QcData[k - 1].hi < QcData[k].lo)

----------------------------------------------------------------------------
(* gen_tables.py                                                           *)

Array(s) == [k \in 0..(Len(s) - 1) |-> s[k + 1]]

Chunk(data, b) ==
  LET here == {cp \in DOMAIN data : cp \div BlockSize = b}
  IN [o \in {cp % BlockSize : cp \in here} |-> data[(b * BlockSize) + o]]

\* build_two_level: equal blocks are kept once, in the order they come.
TwoLevel(data) ==
  LET all == 0..((MaxCp \div BlockSize) - 1)
      chunk == [b \in all |-> Chunk(data, b)]
      first == {b \in all : \A c \in 0..(b - 1) : chunk[c] # chunk[b]}
      slot == [b \in first |-> Cardinality({c \in first : c < b})]
  IN [index |-> [b \in all |-> slot[CHOOSE c \in first : chunk[c] = chunk[b]]],
      blocks |-> [k \in {slot[b] : b \in first} |-> chunk[CHOOSE b \in first : slot[b] = k]]]

\* expand_decompositions
FullDecomp ==
  LET expand[cp \in DOMAIN RawDecomp] ==
        FlattenSeq([k \in DOMAIN RawDecomp[cp] |->
          IF RawDecomp[cp][k] \in DOMAIN RawDecomp THEN expand[RawDecomp[cp][k]]
          ELSE <<RawDecomp[cp][k]>>])
  IN expand

\* composition_pairs: neither singletons, nor the excluded, nor what begins with a mark.
Primaries ==
  {cp \in DOMAIN RawDecomp :
     Len(RawDecomp[cp]) = 2 /\ cp \notin Excluded /\ RawDecomp[cp][1] \notin DOMAIN CccData}

\* Codepoints and pairs in ascending order; a pair is one 64-bit key.
Below(x, y) == x[1] < y[1] \/ (x[1] = y[1] /\ x[2] < y[2])
Ascending(S) == [k \in 0..(Cardinality(S) - 1) |->
                   CHOOSE x \in S : Cardinality({y \in S : Below(y, x)}) = k]

----------------------------------------------------------------------------
(* The arrays of bp_uctables.c.                                            *)

bp_cc == TwoLevel(ClassData)
bp_cc_index == bp_cc.index
bp_cc_blocks == bp_cc.blocks

bp_ccc_table == TwoLevel(CccData)
bp_ccc_index == bp_ccc_table.index
bp_ccc_blocks == bp_ccc_table.blocks

bp_qc_lo == Array([k \in DOMAIN QcData |-> QcData[k].lo])
bp_qc_hi == Array([k \in DOMAIN QcData |-> QcData[k].hi])
bp_qc_val == Array([k \in DOMAIN QcData |-> QcData[k].val])

bp_decomp_cp ==
  LET sorted == Ascending({<<cp, 0>> : cp \in DOMAIN RawDecomp})
  IN [k \in DOMAIN sorted |-> sorted[k][1]]
bp_decomp_len == [k \in DOMAIN bp_decomp_cp |-> Len(FullDecomp[bp_decomp_cp[k]])]
bp_decomp_off ==
  LET sum[k \in DOMAIN bp_decomp_cp] == IF k = 0 THEN 0 ELSE sum[k - 1] + bp_decomp_len[k - 1]
  IN sum
bp_decomp_pool ==
  Array(FlattenSeq([k \in 1..Cardinality(DOMAIN bp_decomp_cp) |-> FullDecomp[bp_decomp_cp[k - 1]]]))

bp_compose_key == Ascending({RawDecomp[cp] : cp \in Primaries})
bp_compose_val ==
  [k \in DOMAIN bp_compose_key |-> CHOOSE cp \in Primaries : RawDecomp[cp] = bp_compose_key[k]]

----------------------------------------------------------------------------
(* The lookups.                                                            *)

EntryAt(block, o, none) == IF o \in DOMAIN block THEN block[o] ELSE none

\* Both answer nothing for what is above U+10FFFF (BP_NOCP is; here it is -1).
bp_char_class(cp) ==
  IF cp \notin 0..(MaxCp - 1) THEN {}
  ELSE EntryAt(bp_cc_blocks[bp_cc_index[cp \div BlockSize]], cp % BlockSize, {})
bp_ccc(cp) ==
  IF cp \notin 0..(MaxCp - 1) THEN 0
  ELSE EntryAt(bp_ccc_blocks[bp_ccc_index[cp \div BlockSize]], cp % BlockSize, 0)

\* Bisections of lo..(hi - 1).
bp_nfc_qc(cp) ==
  LET count == Len(QcData)
      find[lo \in 0..count, hi \in 0..count] ==
        LET mid == lo + ((hi - lo) \div 2)
        IN IF lo >= hi THEN "yes"
           ELSE IF cp < bp_qc_lo[mid] THEN find[lo, mid]
           ELSE IF cp > bp_qc_hi[mid] THEN find[mid + 1, hi] ELSE bp_qc_val[mid]
  IN find[0, count]

bp_decomp(cp) ==
  LET count == Cardinality(DOMAIN bp_decomp_cp)
      find[lo \in 0..count, hi \in 0..count] ==
        LET mid == lo + ((hi - lo) \div 2)
        IN IF lo >= hi THEN <<>>
           ELSE IF cp < bp_decomp_cp[mid] THEN find[lo, mid]
           ELSE IF cp > bp_decomp_cp[mid] THEN find[mid + 1, hi]
           ELSE [i \in 1..bp_decomp_len[mid] |-> bp_decomp_pool[bp_decomp_off[mid] + i - 1]]
  IN find[0, count]

bp_compose(a, b) ==
  LET count == Cardinality(DOMAIN bp_compose_key)
      find[lo \in 0..count, hi \in 0..count] ==
        LET mid == lo + ((hi - lo) \div 2)
        IN IF lo >= hi THEN 0
           ELSE IF Below(<<a, b>>, bp_compose_key[mid]) THEN find[lo, mid]
           ELSE IF Below(bp_compose_key[mid], <<a, b>>) THEN find[mid + 1, hi]
           ELSE bp_compose_val[mid]
  IN find[0, count]
=============================================================================
