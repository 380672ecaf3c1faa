SPECIFICATION FairSpec
CONSTANTS
  Requests <- Users
  Workloads <- Sorted
  PageSize = 2
  Window = 2
  NumPages = 7
  PageOverride = FALSE
  MaxRunning = 2
  MaxForwardLen = 2
INVARIANTS
  PagesAreAccounted
  CacheIsSound
  PrefillReadsItsWindow
  DecodeFindsItsOwnPages
PROPERTIES
  EvictionIsComplete
  AllocationEnds
