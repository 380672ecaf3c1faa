SPECIFICATION Spec
CONSTANTS
  NumFull = 5
  NumSwa = 4
  NumComp = 5
  Unset = Unset
  ReleaseMaxBs = 512
  Requests <- Users
  Workloads <- Loads
  PageSize = 2
  Window = 1
  Slots <- Rows
  Buckets <- GraphSizes
  ShortWidth = 4
  MaxSeqLen = 6
INVARIANTS
  PagesInOnePlace
  HandlesMatchMappings
  PoolStaysSound
  ReadsItsContext
