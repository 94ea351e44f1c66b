CONSTANTS
  k1 = k1  k2 = k2  k3 = k3  k4 = k4  k5 = k5  v1 = v1  v2 = v2
  Key = {k1, k2, k3}
  Value = {v1, v2}
  NoValue = NoValue
  NoPair = NoPair
  DefaultValue = v1
  Hash <- MCHash
  FixedOne = 1000
  LoadFactors = {}
  DefaultLoad = 800
  BucketCounts = {2, 4}
  SizeBit = 2
  MaskBit = 2
  SmallTable = 3
  Batches <- MCLruBatches
  Requests = {1, 2}
  EMH_HIGH_LOAD = TRUE
  EMH_LRU_SET = TRUE
SPECIFICATION FairSpec
PROPERTIES CallsReturn ImplementsMap
