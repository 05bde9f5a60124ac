CONSTANTS
  Texts <- Scanned
  Class <- bp_char_class
  ClassData <- Probed
  CccData <- None
  QcData <- None
  RawDecomp <- None
  Excluded <- NoneExcluded
  BlockSize = 4096
  Simds = {FALSE, TRUE}
  Block = 2
SPECIFICATION Spec
INVARIANTS Partition MatchesRegex
PROPERTIES Terminates
CHECK_DEADLOCK FALSE
