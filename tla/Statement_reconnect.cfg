SPECIFICATION StmtSpec
CONSTANTS
  Stmts = {s1, s2}
  QueryReplies <- MCReplies
  ExecuteReplies <- MCExecuteReplies
  ServerFlags <- OneFlag
  Definitions <- NoDefinitions
  MaxCommands = 4
  Calls = {"stmt_init", "stmt_prepare", "stmt_execute", "stmt_reset"}
  Results = {r1}
  Reconnect = TRUE
  MallocFails = {}
  MaxSessions = 2
  MoreThanOne = FALSE
  RowErrors = FALSE
  Rows = {0, 1}
  MariaDB = TRUE
  Ob20 = FALSE
  Careful = "yes"
SYMMETRY StmtSymmetry
CHECK_DEADLOCK FALSE
INVARIANT RightStatement
