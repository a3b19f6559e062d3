SPECIFICATION Spec
CONSTANTS
  Msg = {1, 2}
  Id = {1, 2}
  TsOf <- MCTsOwn
  NoMsg = NoMsg
  MaxSpawn = 2
  TaskId = {1}
  Moves = {"refuse","restart","dup","edit","delete"}
INVARIANT SurvivesRestart
CHECK_DEADLOCK FALSE
