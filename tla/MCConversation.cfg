CONSTANTS
  MaxSaid = 5
  MaxMessages = 5
  MaxRounds = 2
SPECIFICATION Spec
INVARIANTS
  TurnsAlternate
  ResultsFollowCalls
  CallsAnsweredUnlessShared
  NothingLost
  ReasoningOfRound
PROPERTIES
  TextEndsAnswer
  HistoryGrows
CHECK_DEADLOCK FALSE
