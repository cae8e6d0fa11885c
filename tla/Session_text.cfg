SPECIFICATION Spec
CONSTANTS
  Stmts = {}
  QueryReplies <- MCReplies
  ExecuteReplies <- MCExecuteReplies
  ServerFlags <- SomeFlags
  Definitions <- NoDefinitions
  MaxCommands = 3
  Calls = {"query", "store", "use", "simple", "reset", "change_user", "close"}
  Results = {r1, r2}
  Reconnect = TRUE
  MallocFails = {}
  MaxSessions = 2
  MoreThanOne = TRUE
  RowErrors = TRUE
  Rows = {0, 1}
CHECK_DEADLOCK FALSE
INVARIANTS
  InStep
  OwnAnswers
  TransactionNotSplit
