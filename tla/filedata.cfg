SPECIFICATION Spec
CONSTANTS
  Threads = {t1}
  BlockSize = 2
  BlockLimit = 2
  Values = {u}
  MaxFiles = 4
  MaxSize = 4
  MaxGap = 2
  MaxCalls = 3
CHECK_DEADLOCK FALSE
INVARIANTS OnlyLastShared ReadsBack SizeIsEnd PlaceInv BlockInv
