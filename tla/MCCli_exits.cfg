CONSTANTS
  Files <- AllFiles
  Bytes = 2
  FirstSection = 192
  HeaderSize = 136
  MaxVocab = 5
  MaxAdded = 4
  MaxLog2 = 3
  MaxLen = 2
  Word = 4096
  Args <- Lines
  BufCap = 2
  IdsCap = 1
  DocSize = 2
  MaxThreads = 3
  Rounds = 2
  MaxId = 64
SPECIFICATION MCSpec
INVARIANTS ExitsDocumented
CHECK_DEADLOCK FALSE
