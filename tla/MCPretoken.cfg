CONSTANTS
  MaxLen = 5
  ShortMax = 4
  CacheMaxBytes = 4
  CacheMaxIds = 2
  Slots = 2
  Hash <- FirstByte
  WorkFirst = 4
  IdsFirst = 2
  Caps = {0, 3}
  MaxPretokens = 2
  Token <- Tokens
  Vocabs <- TwoVocabs
  Inputs <- AllTexts
SPECIFICATION CallsSpec
INVARIANTS CacheSound SinkOK BuffersOK
