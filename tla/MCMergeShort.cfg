CONSTANTS
  Length = 5
  MaxRank = 2
  TopRank = 1
  Token <- TwoTokens
  Vocabs <- AllTables
  Inputs <- AllTexts
SPECIFICATION ShortSpec
INVARIANTS ScanOK
PROPERTIES ShortRefinesBpe
CHECK_DEADLOCK FALSE
