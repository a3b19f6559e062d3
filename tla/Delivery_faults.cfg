SPECIFICATION Spec
CONSTANTS
  Msg = {1,2}
  Id = {1,2}
  TsOf <- MCTsOwn
  NoMsg = NoMsg
  MaxSpawn = 1
  TaskId = {1}
  Moves = {"swallow","midsend","slow","fail","end","root","nofiles","shutdown","crash"}
INVARIANT NoOrphanLatch
CHECK_DEADLOCK FALSE
