SPECIFICATION FairSpec
CONSTANTS
  Uids = {u1, u2, u3}
  Slots = {s1, s2}
  NumPages = 4
  PageSize = 2
  MaxSeqLen = 5
  InputLens = {2, 4}
  OutputLens = {3}
  PrefillBudget = 3
  MixedPrefillBudget = 2
  DecodeLimit = 1
  Overlap = TRUE
  NoSlot = NoSlot
  NoOwner = NoOwner
INVARIANTS
  NoUseAfterRelease
  SlotsArePartitioned
  NoRequestIsLost
  TokensInOrder
  IdleIsClean
  RetirementIsOwned
PROPERTIES ImplementsContract EveryRequestEnds
