SPECIFICATION FairSpec
CONSTANTS
  Call = {c1}
  Tool = {bash}
  ToolOf <- MCOneTool
  Question = {q1}
  Modal = {m1}
  RowsOf <- MCOwnRows
  NoDialog = NoDialog
  Moves = {"slackfail", "restart", "end", "refuse"}
INVARIANTS PromptsRecorded ToldTheTruth HookIsHeld
PROPERTIES FormStays NobodyIsLeftWaiting
CHECK_DEADLOCK FALSE
