SPECIFICATION Spec
CONSTANTS
  Uids = {u1, u2, u3}
  Slots = {s1, s2}
  NumPages = 3
  PageSize = 4
  MaxSeqLen = 8
  InputLens = {4}
  OutputLens = {2}
  PrefillBudget = 8
  MixedPrefillBudget = 4
  DecodeLimit = 1
  Overlap = TRUE
  NoSlot = NoSlot
  NoOwner = NoOwner
SYMMETRY SchedulerSymmetry
INVARIANTS AllocationSucceeds
