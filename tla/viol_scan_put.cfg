SPECIFICATION AckedSpec
CONSTANTS
  Clients = {c1, c2}
  Keys = {1, 2}
  Values = {u, v}
  ItemSize <- MCItemSize
  SlabSizes = {1, 2}
  SlabPerFile = 1
  PageCells = 2
  Ops = {"GET", "PUT", "UPDATE", "SCAN"}
  Scans <- MCScans
  Overlap <- ScanWrite
  Faults = {}
  MaxEvent = 2
  MaxFile = 1
INVARIANT GetSeesAcked
