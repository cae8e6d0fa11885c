SPECIFICATION StmtSpec
CONSTANTS
  Stmts = {s1, s2}
  QueryReplies <- MCReplies
  ExecuteReplies <- MCExecuteReplies
  ServerFlags <- OneFlag
  Definitions <- AllDefinitions
  MaxCommands = 4
  Calls = {"query", "store", "change_user",
           "stmt_init", "stmt_prepare", "stmt_execute", "stmt_direct", "stmt_fetch",
           "stmt_next", "stmt_reset", "stmt_close"}
  Results = {r1}
  Reconnect = FALSE
  MallocFails = {}
  MaxSessions = 1
  MoreThanOne = TRUE
  RowErrors = TRUE
  Rows = {0, 1}
  MariaDB = TRUE
  Ob20 = FALSE
  Careful = "yes"
SYMMETRY StmtSymmetry
CHECK_DEADLOCK FALSE
INVARIANTS
  InStep
  OwnAnswers
