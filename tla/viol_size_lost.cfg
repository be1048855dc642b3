SPECIFICATION Spec
CONSTANTS
  Base = 2
  InoBytes = 3
  HashBytes = 1
  NameHash <- TwoNames
  c1 = c1
  c2 = c2
  Calls <- Writers
  Clients = {c1, c2}
  WorkerNum = 2
  SplitFunc <- MCSplit
  Ends = {1, 2}
  CreateRaces = FALSE
  IoErrors = {}
  MaxIno = 2
  MaxHandle = 3
  BufSize = 2
  EntSize <- MCEntSize
CHECK_DEADLOCK FALSE
INVARIANT SizeStored
