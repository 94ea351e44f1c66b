CONSTANTS
  k1 = k1
  k2 = k2
  k3 = k3
  v1 = v1
  v2 = v2
  Key = {k1, k2, k3}
  Value = {v1, v2}
  NoValue = NoValue
  NoPair = NoPair
  Hash <- MCHash
  FixedOne = 1000
  MinSize = 2
  LoadFactors = {1000}
  HintTurn = 2
  MaxBuckets = {1}
  Requests = {0}
  Plain = FALSE
  PairMax = 1
  DefaultLoad = 850
  LruGet = TRUE
  LruSet = FALSE
  MaxOrder = 4
SYMMETRY Symmetry
SPECIFICATION Spec
INVARIANTS TablesSound ProbeHasRoom SumExact
PROPERTIES EvictsOldest ImplementsCaches
