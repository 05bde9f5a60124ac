CONSTANTS
  Length = 3
  MaxRank = 2
  TopRank = 2
  Token <- TwoTokens
  Vocabs <- AllTables
  Inputs <- AllTexts
SPECIFICATION ShortSpec
INVARIANTS NoPairLeft
CHECK_DEADLOCK FALSE
