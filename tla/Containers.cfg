CONSTANTS
  k1 = k1
  k2 = k2
  k3 = k3
  k4 = k4
  v1 = v1
  v2 = v2
  Key = {k1, k2, k3, k4}
  Value = {v1}
  NoValue = NoValue
  NoPair = NoPair
  DefaultValue = v1
  Hash <- MCHash
  Kinds = {"map5", "map6", "map6swap", "map7", "set2", "set4", "set8"}
  FixedOne = 1000
  MinSize = 2
  MinLoad = 250
  LoadFactors = {1000}
  LocalProbes = 3
  LinearProbeLength = 1
  SlotSteps = 1
  SmallSet = 2
  SizeBit = 4
  MaskBit = 2
  Batches <- MCBatches
  Requests = {3}
  Careful = TRUE
  OtherMax <- MCOtherMax
  MaxSize <- MCMaxSize
SYMMETRY Symmetry
SPECIFICATION Spec
INVARIANTS TablesSound FirstIsLow ParityExact
PROPERTIES ImplementsMaps
