SPECIFICATION Spec
CONSTANTS
  Clients = {c1, c2}
  Keys = {1, 3}
  Values = {u, v}
  ItemSize <- MCItemSize
  SlabSizes = {1, 2}
  SlabPerFile = 1
  PageCells = 2
  Ops = {"GET", "PUT", "UPDATE", "SCAN"}
  Scans <- MCScans
  Overlap <- SafeOverlap
  Faults = {"write_err"}
  MaxEvent = 2
  MaxFile = 2
PROPERTY ImplementsKVStore
INVARIANTS SlabsExclusive CacheCoherent CacheInv KVInv
SYMMETRY Symmetry
