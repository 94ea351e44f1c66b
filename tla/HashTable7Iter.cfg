CONSTANTS
  k1 = k1  k2 = k2  k3 = k3  k4 = k4  k5 = k5  v1 = v1  v2 = v2
  Key = {k1, k2, k4, k5}
  Value = {v1}
  NoValue = NoValue
  NoPair = NoPair
  DefaultValue = v1
  Hash <- MCIterHash
  FixedOne = 1000
  LoadFactors = {999}
  DefaultLoad = 800
  BucketCounts = {2, 4, 8}
  SizeBit = 4
  MaskBit = 2
  SmallTable = 64
  Batches <- MCIterBatches
  Requests = {1, 7}
  EMH_HIGH_LOAD = FALSE
  EMH_LRU_SET = FALSE
SPECIFICATION FairIterSpec
INVARIANTS IteratorIsLive EraseIfExact
PROPERTY LoopsReturn
