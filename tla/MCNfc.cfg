CONSTANTS
  Texts <- Segments
  Ccc <- bp_ccc
  Qc <- bp_nfc_qc
  Decomp <- bp_decomp
  Compose <- bp_compose
  StdCcc <- StdClass
  StdDecomp <- Spelling
  HasStd <- IsPrecomposed
  StdPrimary <- PrecomposedOf
  Codepoints <- AllCodepoints
  ClassData <- NoClasses
  CccData <- Marks
  QcData <- QuickRanges
  RawDecomp <- OneStep
  Excluded <- NoPrimary
  BlockSize = 1024
SPECIFICATION Spec
INVARIANTS CodecExact OrderedSoFar Recomposed Normalized
CHECK_DEADLOCK FALSE
