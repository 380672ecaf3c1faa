SPECIFICATION Spec
CONSTANTS
  NumRanks = 2
  Messages = {a, Exit}
  Exit = Exit
  MaxMessages = 1
  Fresh = 0
  Step <- MCStep
  Idle <- MCIdle
  Workers = {w}
  Stubborn = {w}
  MaxFaults = 1
INVARIANTS StartupIsSound NoOrphans StopIsNotFailure
PROPERTIES FailureIsContained
CHECK_DEADLOCK FALSE
