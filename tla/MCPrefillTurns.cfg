SPECIFICATION TurnsSpec
CONSTANTS
  DecodeLimits = {2}
  PrefillBudget = 6
  MixedPrefillBudget = 3
  RunBound = 3
  Requests = {r1, r2, r3}
  Quantum = 2
  PromptLens = {1, 7}
SYMMETRY RequestSymmetry
INVARIANTS
  PrefillTriedInTime
  DecodeProtected
  WorkConserving
  BudgetIsDivided
  RoundsAreFair
  WaitIsBounded
