CONSTANTS
  MaxSaid = 5
  MaxMessages = 5
  MaxRounds = 2
SPECIFICATION Spec
INVARIANT CallsAnswered
CHECK_DEADLOCK FALSE
