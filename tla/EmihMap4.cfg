CONSTANTS
  v1 = v1
  k1 = k1
  k2 = k2
  k3 = k3
  k4 = k4
  Key = {k1, k2, k3, k4}
  Value = {v1}
  NoValue = NoValue
  NoPair = NoPair
  Hash <- MCHash
  HashRange = 8
  GroupCounts = {2, 4}
  N = 2
  Classes = 2
  MaxLoad = 875
  Batches <- MCBatches
  Requests = {4}
  OtherMax = 2
  OtherGroups = 2
SYMMETRY Symmetry
SPECIFICATION Spec
INVARIANTS LookupExact ProbeHasRoom
PROPERTIES ImplementsMaps CallsReturn
