CONSTANTS
  Absent = Absent
  MinSlots = 2
  Pair <- AllPairs
  Id <- Ids
  Known <- KnownIds
  Member <- MemberOf
  Sizes <- Powers
  Home <- HomeOf
  Sources <- Lists
  Images <- Tables
SPECIFICATION Spec
INVARIANTS WrittenIsAccepted AnswerInRange
PROPERTIES IsMap NeverRound LookupEnds
CHECK_DEADLOCK FALSE
