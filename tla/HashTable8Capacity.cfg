CONSTANTS
  k1 = k1  k2 = k2  k3 = k3  k4 = k4  k5 = k5  k6 = k6  k7 = k7  k8 = k8  v1 = v1  v2 = v2
  Key = {k1, k2, k3, k4, k5, k6, k7, k8}
  Value = {v1}
  NoValue = NoValue
  NoPair = NoPair
  NoIndex = NoIndex
  DefaultValue = v1
  Hash <- MCSpread
  FixedOne = 1000
  LoadFactors = {999}
  InitialLoads = {300, 800}
  DefaultLoad = 800
  QuadraticProbeLength = 6
  BucketCounts = {4, 8}
  SafeGuard = 10
  PAIRS_CAPACITY_BUFFER = 4
  Batches <- MCFill
  Requests = {1, 5}
SPECIFICATION Spec
INVARIANT PairsFit
