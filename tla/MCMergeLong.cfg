CONSTANTS
  Length = 4
  LongLength = 7
  Ranks = 3
  Token <- Spelled
  Vocabs <- Tables
  Inputs <- Texts
SPECIFICATION MCSpec
INVARIANTS TypeOK ListOK NeverFull NoLostCandidate EmitFits EmitsGreedy
PROPERTIES MergesBest ImplementsBpe Terminates
CHECK_DEADLOCK FALSE
