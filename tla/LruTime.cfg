CONSTANTS
  k1 = k1
  k2 = k2
  k3 = k3
  v1 = v1
  Key = {k1, k2, k3}
  Value = {v1}
  NoValue = NoValue
  NoPair = NoPair
  Hash <- MCHash
  FixedOne = 1000
  MinSize = 2
  LoadFactors = {1000}
  HintTurn = 2
  MaxBuckets = {2}
  Requests = {0}
  Plain = FALSE
  PairMax = 1
  DefaultLoad = 800
  TimeOut = 1
  TimeOuts = {0, 1}
  MaxNow = 2
  Careful = TRUE
SYMMETRY Symmetry
SPECIFICATION Spec
INVARIANTS TablesSound ProbeHasRoom
PROPERTIES KeepsFresh ImplementsCaches
