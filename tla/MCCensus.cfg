CONSTANTS
  Vocabs <- VocabularySet
  Jobs <- JobSet
  Scalars <- World
  ClassOf <- Classes
  QcNo <- NotNormal
  Ids <- TextIds
  Pure <- PureIds
  Steals <- StealsIn
  MaxUnits = 4
  WMax = 8
  Conts <- ContBytes
  Affixes <- AffixSets
SPECIFICATION MCSpec
INVARIANTS ImpossibleSound Reported
CHECK_DEADLOCK FALSE
