SPECIFICATION TPFairSpec
CONSTANTS
  NumRanks = 3
  Exit = Exit
  Messages = {a, b, Exit}
  MaxMessages = 3
  Fresh = 0
  Step <- MCStep
  Idle <- MCIdle
INVARIANTS RanksAgree
PROPERTIES ImplementsReplicatedInput GroupSettles
CHECK_DEADLOCK FALSE
