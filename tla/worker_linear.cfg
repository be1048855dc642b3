SPECIFICATION Spec
CONSTANTS
  Clients = {c1, c2}
  Keys = {1, 2}
  Values = {u, v}
  ItemSize <- MCItemSize
  SlabSizes = {1, 2}
  SlabPerFile = 1
  PageCells = 2
  Ops = {"GET", "PUT", "UPDATE", "DELETE", "SCAN"}
  Scans <- MCScans
  Overlap <- SafeOverlap
  Faults = {}
  MaxEvent = 2
  MaxFile = 9
INVARIANTS TypeOK SlabsExclusive NoSlabLeak CacheCoherent SlabInv LeakInv KVInv
PROPERTY ImplementsKVStore
SYMMETRY Symmetry
