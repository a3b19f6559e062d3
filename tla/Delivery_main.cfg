SPECIFICATION FairSpec
CONSTANTS
  Msg = {1,2}
  Id = {1,2}
  TsOf <- MCTsOwn
  NoMsg = NoMsg
  MaxSpawn = 2
  TaskId = {1,2}
  Moves = {"refuse","noids","blind","exit","stop","spawnerr","nodir"}
INVARIANTS TypeOK OneTaskPerWindow HeldAndHandedOnce
PROPERTIES LeavesTyped RequestsSettle
CHECK_DEADLOCK FALSE
