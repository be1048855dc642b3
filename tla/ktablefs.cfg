SPECIFICATION MCSpec
CONSTANTS
  Base = 2
  InoBytes = 3
  HashBytes = 1
  NameHash <- ThreeNames
  c1 = c1
  c2 = c2
  Calls <- Calling
  Clients = {c1, c2}
  WorkerNum = 2
  SplitFunc <- MCSplit
  Ends = {1, 2}
  CreateRaces = FALSE
  IoErrors = {"GET", "PUT"}
  MaxIno = 4
  MaxHandle = 4
  BufSize = 2
  EntSize <- MCEntSize
CHECK_DEADLOCK FALSE
INVARIANTS TypeOK Identity SizeKept NoCallStuck SameInv ListsDirectory ListInv
