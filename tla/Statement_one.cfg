SPECIFICATION StmtSpec
CONSTANTS
  Stmts = {s1, s2}
  QueryReplies <- MCReplies
  ExecuteReplies <- MCExecuteReplies
  ServerFlags <- OneFlag
  Definitions <- AllDefinitions
  MaxCommands = 4
  Calls = {"query", "store", "ping", "change_user", "close",
           "stmt_init", "stmt_prepare", "stmt_execute", "stmt_store", "stmt_fetch",
           "stmt_free", "stmt_reset", "stmt_close"}
  Results = {r1}
  Reconnect = FALSE
  MallocFails = {}
  MaxSessions = 2
  MoreThanOne = FALSE
  RowErrors = FALSE
  Rows = {0, 1}
  MariaDB = TRUE
  Ob20 = FALSE
  Careful = "yes"
SYMMETRY StmtSymmetry
CHECK_DEADLOCK FALSE
INVARIANTS
  InStep
  RightStatement
