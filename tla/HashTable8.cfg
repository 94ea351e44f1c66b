CONSTANTS
  k1 = k1  k2 = k2  k3 = k3  k4 = k4  k5 = k5  k6 = k6  k7 = k7  k8 = k8  v1 = v1  v2 = v2
  Key = {k1, k2, k3, k5, k6}
  Value = {v1}
  NoValue = NoValue
  NoPair = NoPair
  NoIndex = NoIndex
  DefaultValue = v1
  Hash <- MCHash
  FixedOne = 1000
  LoadFactors = {500, 999}
  InitialLoads = {999}
  DefaultLoad = 999
  QuadraticProbeLength = 4
  BucketCounts = {4, 8}
  SafeGuard = 6
  PAIRS_CAPACITY_BUFFER = 1
  Batches <- MCBatches
  Requests = {1, 4}
SPECIFICATION Spec
INVARIANTS DenseExact LookupExact ProbeHasRoom PairsFitShare
SYMMETRY MCSymmetry
