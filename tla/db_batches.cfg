SPECIFICATION FairSpec
CONSTANTS
  Clients = {c1, c2}
  WorkerNum = 3
  SplitFunc <- MCSplit
  Programs <- MCPrograms
  ScanAnswers = {TRUE}
  MaxEvent = 2
INVARIANTS TypeOK OneOwner IoLocal AllCarriedOut InOrder BatchInv
PROPERTY EveryBatchAnswered
