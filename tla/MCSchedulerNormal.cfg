SPECIFICATION Spec
CONSTANTS
  Uids = {u1, u2, u3}
  Slots = {s1, s2}
  NumPages = 3
  PageSize = 4
  MaxSeqLen = 8
  InputLens = {4, 8}
  OutputLens = {0, 2, 3}
  PrefillBudget = 8
  MixedPrefillBudget = 4
  DecodeLimit = 1
  Overlap = FALSE
  NoSlot = NoSlot
  NoOwner = NoOwner
SYMMETRY SchedulerSymmetry

PROPERTIES ImplementsContract
