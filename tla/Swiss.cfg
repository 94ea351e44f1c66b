CONSTANTS
  k1 = k1
  k2 = k2
  k3 = k3
  k4 = k4
  v1 = v1
  Key = {k1, k2, k3, k4}
  Few = {k1, k2, k3}
  Value = {v1}
  NoValue = NoValue
  NoPair = NoPair
  Tombstone = Tombstone
  Hash <- MCHash
  Kinds = {"map1", "tight", "map2", "map3", "set2", "long", "set3"}
  Narrow = 2
  Wide = 3
  FixedOne = 5
  LoadFactors = {999}
  MXLOAD_FACTOR = 2
  OFFSET_STEP = 2
  Plain = TRUE
  OtherMax <- MCOtherMax
  Careful = TRUE
  Batches <- MCBatches
  Requests = {3}
SYMMETRY Symmetry
SPECIFICATION Spec
INVARIANTS LookupExact SearchUnbroken ProbeHasRoom
PROPERTIES ImplementsMaps
