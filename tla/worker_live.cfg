SPECIFICATION FairSpec
CONSTANTS
  Clients = {c1, c2, c3}
  Keys = {1}
  Values = {u}
  ItemSize <- MCItemSize
  SlabSizes = {1, 2}
  SlabPerFile = 1
  PageCells = 2
  Ops = {"GET", "PUT", "UPDATE", "DELETE", "SCAN"}
  Scans <- MCScans
  Overlap <- SafeOverlap
  Faults = {"read_err"}
  MaxEvent = 2
  MaxFile = 1
PROPERTY EveryRequestAnswered
