SPECIFICATION Spec
CONSTANTS
  Clients = {c1}
  WorkerNum = 2
  SplitFunc <- MCSplit
  Programs <- MCPrograms
  ScanAnswers = {TRUE, FALSE}
  MaxEvent = 2
INVARIANT CallbackOnce
