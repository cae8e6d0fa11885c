----------------------------- MODULE PrepareExec ----------------------------
(***************************************************************************)
(* The prepare-execute protocol of Oracle mode (mariadb_stmt.c): one       *)
(* statement that is prepared locally (mysql_stmt_prepare_v2), sent with   *)
(* its text at each execution and read through a cursor, with the server   *)
(* that answers.  Definitions of columns are one packet and so are the     *)
(* rows of one answer.  Values, pieces and their encoding are left out.    *)
(***************************************************************************)
EXTENDS Integers, Sequences, FiniteSets

CONSTANTS
  PeSqls,         \* the kinds of statement that the application prepares
  PeMaxCommands, PeMaxRows, PePrefetch,
  PeAltered,      \* the number of columns may differ from one execution to the next
  PeReuse,        \* a handle that had a cursor is prepared for other kinds
  PePolite        \* the application leaves alone the calls named at PeNext

VARIABLES pe

(* The server: parameters and columns of each kind.  RETURNING ... INTO    *)
(* counts its INTO as a parameter, but not in the answer to COM_STMT_PREPARE*)
PeParams == [select |-> 1, exact |-> 1, returning |-> 2, plain |-> 1, block |-> 1]
PeColumns == [select |-> 2, exact |-> 2, returning |-> 1, plain |-> 0, block |-> 1]
PeAdded == 3                        \* sql_no, error_code, error_msg of an array
PeTyped(sql) == sql \in {"returning", "plain"}       \* get_stmt_type(query) > 0

PeRank == [INITTED |-> 0, PREPARED |-> 1, EXECUTED |-> 2, WAITING_USE_OR_STORE |-> 3,
           USE_OR_STORE_CALLED |-> 4, USER_FETCHING |-> 5, FETCH_DONE |-> 6]
PeAbove(c, s) == PeRank[c.state] > PeRank[s]

(* The handle: data and at count the rows of result.data and those from    *)
(* result_cursor on; live tells whether their memory still holds them.     *)
PeHandle ==
  [state |-> "INITTED", sql |-> "none", stmt_id |-> 0, cursor_exists |-> FALSE,
   param_count |-> 0, params |-> 0, bind_param_done |-> FALSE,
   field_count |-> 0, bind |-> 0, bind_result_done |-> FALSE,
   data |-> 0, at |-> 0, columns |-> 0, live |-> TRUE, fetch_row_func |-> "none",
   returning |-> FALSE, added |-> FALSE, array |-> FALSE, scroll |-> FALSE, upsert |-> {}]
PeConnection ==
  [pvio |-> TRUE, status |-> "READY", server_status |-> {}, mysql_fields |-> 0, wire |-> <<>>,
   known |-> {}, ids |-> 0, left |-> -1, cols |-> 0, sent |-> 0, hung |-> FALSE, stray |-> FALSE]
PeMerge(f, g) == [k \in DOMAIN f \cup DOMAIN g |-> IF k \in DOMAIN g THEN g[k] ELSE f[k]]
PeInit == pe = PeMerge(PeHandle, PeConnection)

PeOut(c, rc) == [c |-> c, rc |-> rc]
PeThen(o, Step(_)) == IF o.rc = "ok" THEN Step(o.c) ELSE o

(***************************************************************************)
(* The wire                                                                *)
(***************************************************************************)
PePacket(kind) == [kind |-> kind, n |-> 0, columns |-> 0, params |-> 0, flags |-> {}]
PeLost == PePacket("lost")
PeBroken(n) == [PePacket("err") EXCEPT !.n = n]          \* an error after n rows
PeOk(flags) == [PePacket("ok") EXCEPT !.flags = flags]
PeRows(n, columns, flags) == [PePacket("rows") EXCEPT !.n = n, !.columns = columns, !.flags = flags]

PePeek(c) == IF c.pvio /\ c.wire # <<>> THEN c.wire[1] ELSE PeLost
(* free_old_query *)
PeFreeOld(c) == [c EXCEPT !.mysql_fields = 0]
PeEndServer(c) == [PeFreeOld(c) EXCEPT !.pvio = FALSE, !.wire = <<>>]
(* ma_net_safe_read: what the server does not send is waited for           *)
PeRead(c) ==
  IF ~c.pvio THEN c
  ELSE IF c.wire = <<>> THEN [c EXCEPT !.hung = TRUE]
  ELSE IF c.wire[1].kind = "lost" THEN PeEndServer(c)
  ELSE [c EXCEPT !.wire = Tail(@)]
PeFailed(p) == p.kind \in {"err", "exact", "lost"}
PeDefinitions(c) == PeOut(PeRead(c), IF PePeek(c).kind = "defs" THEN "ok" ELSE "err")

(***************************************************************************)
(* The server                                                              *)
(***************************************************************************)
PeLess(a, b) == IF a < b THEN a ELSE b
PeCursorRows(total) ==
  LET n == PeLess(PePrefetch, total)
  IN [n |-> n, left |-> total - n, flags |-> {"CURSOR"} \cup (IF n = total THEN {"LAST"} ELSE {})]
(* COM_STMT_PREPARE_EXECUTE: a header, the definitions, rows and a last    *)
(* packet.  An exact fetch has no cursor; its error follows its rows.      *)
PeServeExecute(c) ==
  LET id == IF c.stmt_id = 0 THEN c.ids + 1 ELSE c.stmt_id
      refused == (c.stmt_id # 0 /\ c.stmt_id \notin c.known) \/ c.param_count # PeParams[c.sql]
      array == c.sql = "returning" /\ c.array
      columns == {PeColumns[c.sql] + (IF array THEN PeAdded ELSE 0)}
                 \cup (IF PeAltered /\ c.sql = "select" THEN {1} ELSE {})
      head(k) == [PePacket("head") EXCEPT !.n = id, !.columns = k, !.params = PeParams[c.sql],
                    !.flags = (IF c.sql = "returning" THEN {"RETURNING"} ELSE {})
                              \cup (IF array THEN {"ADDED"} ELSE {})]
      begin(k) == <<head(k), PePacket("defs")>> \o (IF k = 0 THEN <<>> ELSE <<PePacket("defs")>>)
      says(k, left, rest) ==
        [c EXCEPT !.known = @ \cup {id}, !.ids = IF id > @ THEN id ELSE @, !.left = left, !.cols = k,
                  !.wire = @ \o begin(k) \o rest]
      cursor(k, total) ==
        LET r == PeCursorRows(total)
        IN {says(k, r.left, <<PeRows(r.n, k, r.flags), PeOk(r.flags)>>), says(k, -1, <<PeBroken(r.n)>>)}
      rows(k, n, last) == says(k, -1, <<PeRows(n, k, {}), last>>)
  IN {[c EXCEPT !.wire = Append(@, PePacket("err")), !.left = -1]}
     \cup IF refused THEN {}
          ELSE CASE c.sql = "plain" -> {says(0, -1, <<PeOk({})>>)}
                 [] c.sql = "select" -> UNION {cursor(k, n) : k \in columns, n \in 0..PeMaxRows}
                 [] c.sql = "exact" -> {rows(k, 1, PeOk({})) : k \in columns}
                                       \cup {rows(k, n, PePacket("exact")) : k \in columns, n \in {0, 1}}
                 [] OTHER -> {rows(k, 1, last) : k \in columns, last \in {PeOk({}), PePacket("err")}}
(* COM_STMT_PREPARE *)
PeServePrepare(c) ==
  LET fields == PeColumns[c.sql]
      head == [PePacket("prep") EXCEPT !.n = c.ids + 1, !.columns = fields,
                 !.params = PeParams[c.sql] - (IF c.sql = "returning" THEN 1 ELSE 0)]
      defs == <<PePacket("defs")>> \o (IF fields = 0 THEN <<>> ELSE <<PePacket("defs")>>)
  IN {[c EXCEPT !.wire = Append(@, PePacket("err"))],
      [c EXCEPT !.wire = @ \o <<head>> \o defs, !.known = @ \cup {c.ids + 1}, !.ids = @ + 1, !.left = -1]}
(* COM_STMT_FETCH: in Oracle mode the definitions come again, and after a  *)
(* scrollable cursor's rows, when it was asked for, an extra OK            *)
PeServeFetch(c, ok) ==
  LET r == PeCursorRows(c.left)
      more == IF ok THEN {"MORE"} ELSE {}
      extra == IF ok THEN <<PeOk(r.flags)>> ELSE <<>>
      header == [PePacket("fields") EXCEPT !.columns = c.cols]
  IN IF c.left = -1 THEN {[c EXCEPT !.wire = Append(@, PePacket("err")), !.stray = TRUE]}
     ELSE {[c EXCEPT !.wire = @ \o <<header, PePacket("defs"), PeRows(r.n, c.cols, r.flags \cup more)>> \o extra, !.left = r.left],
           [c EXCEPT !.wire = Append(@, PePacket("err"))]}
PeServe(c, com, ok) ==
  CASE com = "execute" -> PeServeExecute(c)
    [] com = "prepare" -> PeServePrepare(c)
    [] com = "fetch" -> PeServeFetch(c, ok)
    [] com = "close" -> {[c EXCEPT !.known = @ \ {c.stmt_id}, !.left = -1]}
    [] com = "reset" -> {[c EXCEPT !.wire = Append(@, PeOk({})), !.left = -1]}
    [] com = "send_piece" -> {[c EXCEPT !.wire = Append(@, p)] : p \in {PeOk({}), PePacket("err")}}
    [] com = "get_piece" -> {[c EXCEPT !.wire = Append(@, p)] : p \in {PePacket("piece"), PePacket("err")}}
    [] com = "long_data" -> {c}
(* mthd_my_send_cmd: outcomes, without reconnection                        *)
PeSend(c, com, ok) ==
  LET now == [c EXCEPT !.sent = @ + 1]
  IN IF ~c.pvio \/ c.status # "READY" \/ "MORE" \in c.server_status THEN {PeOut(c, "err")}
     ELSE {PeOut(PeEndServer(now), "err")}
          \cup {PeOut(x, "ok") : x \in PeServe(now, com, ok)}
          \cup (IF com \in {"close", "long_data"} THEN {}
                ELSE {PeOut([now EXCEPT !.wire = Append(@, PeLost)], "ok")})

(***************************************************************************)
(* Columns                                                                 *)
(***************************************************************************)
(* madb_alloc_stmt_fields                                                  *)
PeAllocFields(c) ==
  [c EXCEPT !.field_count = c.mysql_fields, !.bind = c.mysql_fields, !.bind_result_done = FALSE]
(* madb_update_stmt_fields                                                 *)
PeUpdateFields(c) ==
  LET same == c.field_count = c.mysql_fields
      grown == c.returning /\ c.added
  IN IF same THEN PeOut(c, "ok")
     ELSE IF grown THEN PeOut(PeAllocFields(c), "ok")
     ELSE PeOut(c, "err")
PeReinitMetadata(c) ==                                    \* madb_reinit_result_set_metadata
  IF c.field_count # 0 THEN PeUpdateFields(c)
  ELSE PeOut(IF c.mysql_fields = 0 THEN c ELSE PeAllocFields(c), "ok")

(***************************************************************************)
(* Answers                                                                 *)
(***************************************************************************)
PeFreeRows(c) == [c EXCEPT !.data = 0, !.live = FALSE]     \* ma_free_root of result.alloc
PeReadAllRows(c) ==                                       \* mthd_stmt_read_all_rows
  LET p == PePeek(c)
  IN IF p.kind = "rows"
     THEN PeOut([PeRead(c) EXCEPT !.data = p.n, !.at = p.n, !.columns = p.columns, !.live = TRUE,
                   !.server_status = p.flags, !.upsert = p.flags], "ok")
     ELSE PeOut([PeRead(c) EXCEPT !.at = 0, !.data = IF p.n = 0 THEN @ ELSE p.n, !.live = (p.n = 0)], "err")
(* mthd_my_read_prepare_execute_result *)
PeReadFields(c, n) ==
  LET o == PeDefinitions(PeFreeOld(c))
  IN IF o.rc = "ok" THEN PeOut([o.c EXCEPT !.mysql_fields = n, !.status = "GET_RESULT"], "ok") ELSE o
PeTakeParams(c, p) ==
  LET k == IF "RETURNING" \in p.flags THEN [c EXCEPT !.param_count = p.params] ELSE c
  IN IF p.params = 0 THEN PeOut(c, "ok")
     ELSE IF k.param_count # p.params THEN PeOut(PeEndServer(k), "err")
     ELSE PeDefinitions(k)
(* The last packet, OK or an error *)
PeLastPacket(c) ==
  LET p == PePeek(c)
  IN IF p.kind = "ok" THEN PeOut([PeRead(c) EXCEPT !.server_status = p.flags, !.upsert = p.flags], "ok")
     ELSE IF PeFailed(p) THEN PeOut(PeRead(c), p.kind)
     ELSE PeOut(PeEndServer(PeRead(c)), "err")
(* stmt_read_prepare_execute_response *)
PeReadResponse_NoLast(c) ==
  LET p == PePeek(c)
      e == PeRead(c)
      head == [e EXCEPT !.stmt_id = p.n, !.returning = ("RETURNING" \in p.flags), !.added = ("ADDED" \in p.flags)]
      fields(x) == IF p.columns = 0 THEN PeOut(PeFreeOld(x), "ok")
                   ELSE PeThen(PeReadFields(x, p.columns), PeReinitMetadata)
      rows(x) == IF p.columns = 0 THEN PeLastPacket(x) ELSE PeReadAllRows(x)
  IN IF PeFailed(p) THEN PeOut(e, p.kind)
     ELSE IF p.kind # "head" THEN PeOut(PeEndServer(e), "err")
     ELSE PeThen(PeThen(PeTakeParams(head, p), fields), rows)
PeReadResponse(c) ==
  LET p == PePeek(c)
      e == PeRead(c)
      head == [e EXCEPT !.stmt_id = p.n, !.returning = ("RETURNING" \in p.flags), !.added = ("ADDED" \in p.flags)]
      fields(x) == IF p.columns = 0 THEN PeOut(PeFreeOld(x), "ok")
                   ELSE PeThen(PeReadFields(x, p.columns), PeReinitMetadata)
      rows(x) == IF p.columns = 0 THEN PeOut(x, "ok") ELSE PeReadAllRows(x)
  IN IF PeFailed(p) THEN PeOut(e, p.kind)
     ELSE IF p.kind # "head" THEN PeOut(PeEndServer(e), "err")
     ELSE PeThen(PeThen(PeThen(PeTakeParams(head, p), fields), rows), PeLastPacket)
(* The result of an execution: through a cursor, or already here           *)
PeTakeResult(c) ==
  LET waiting == [c EXCEPT !.status = "READY", !.state = "WAITING_USE_OR_STORE"]
  IN IF "CURSOR" \in c.upsert THEN PeOut([waiting EXCEPT !.cursor_exists = TRUE], "ok")
     ELSE PeOut([waiting EXCEPT !.fetch_row_func = IF c.cursor_exists THEN "cursor" ELSE "buffered"], "ok")
(* stmt_read_execute_response: the error that an exact fetch ends with     *)
(* comes after its rows, which stay                                        *)
PeExecuteResponse(c) ==
  LET o == PeReadResponse(c)
      told == o.c.returning \/ o.c.added
      keep == o.rc = "exact" \/ told
      state == IF o.rc = "ok" THEN "EXECUTED"
               ELSE IF told THEN o.c.state
               ELSE IF keep THEN "EXECUTED" ELSE "PREPARED"
      d == [o.c EXCEPT !.state = state, !.status = IF o.rc = "ok" THEN @ ELSE "READY"]
      u == [d EXCEPT !.upsert = d.server_status]
      result == IF u.mysql_fields = 0 THEN PeOut(u, "ok") ELSE PeThen(PeReinitMetadata(u), PeTakeResult)
  IN IF o.rc # "ok" /\ ~keep THEN PeOut(d, "err")
     ELSE PeOut(result.c, IF o.rc = "ok" THEN result.rc ELSE "err")

(***************************************************************************)
(* The calls of the application                                            *)
(***************************************************************************)
PeUseResult(c) ==                                                \* _mysql_stmt_use_result
  IF /\ c.field_count # 0 /\ c.state = "WAITING_USE_OR_STORE"
     /\ c.cursor_exists /\ c.status = "READY"
  THEN [c EXCEPT !.state = "USE_OR_STORE_CALLED", !.fetch_row_func = "cursor"] ELSE c
(* mysql_stmt_internal_reset, without the COM_STMT_RESET                   *)
PeInternalReset(c) ==
  [c EXCEPT !.state = IF c.stmt_id # 0 THEN "PREPARED" ELSE "INITTED", !.upsert = c.server_status, !.status = "READY"]
(* A second preparation: everything of the first goes, on the server too   *)
PeForget(c) ==
  LET r == [PeInternalReset(c) EXCEPT !.bind_param_done = FALSE, !.bind_result_done = FALSE,
              !.param_count = 0, !.field_count = 0, !.params = 0]
  IN IF c.state = "INITTED" THEN {PeOut(c, "ok")}
     ELSE IF r.stmt_id = 0 THEN {PeOut(r, "ok")}
     ELSE PeSend(r, "close", FALSE)
PeFail(c) == [c EXCEPT !.state = "INITTED"]

PePrepareV2(c, sql, array) ==                                    \* mysql_stmt_prepare_v2
  LET local(x) == [x EXCEPT !.stmt_id = 0, !.sql = sql, !.array = array, !.param_count = PeParams[sql],
                            !.params = PeParams[sql], !.bind = 0, !.state = "PREPARED"]
  IN {IF o.rc = "ok" THEN local(o.c) ELSE PeFail(o.c) : o \in PeForget(PeFreeOld(c))}

(* mysql_stmt_execute_describe_only: the answer to COM_STMT_PREPARE        *)
PeReadDescription(c) ==
  LET p == PePeek(c)
      head == [PeRead(c) EXCEPT !.stmt_id = p.n, !.field_count = p.columns, !.param_count = p.params]
      params(x) == IF p.params = 0 THEN PeOut(x, "ok") ELSE PeDefinitions(x)
      fields(x) == IF p.columns = 0 THEN PeOut(x, "ok") ELSE PeDefinitions(x)
  IN IF p.kind # "prep" THEN PeOut(PeRead(c), "err")
     ELSE PeThen(PeThen(PeOut(head, "ok"), params), fields)
PeDescribed(c) ==
  LET o == PeReadDescription(c)
  IN IF o.rc # "ok" THEN PeFail(o.c)
     ELSE [o.c EXCEPT !.params = o.c.param_count, !.bind = 0,
                      !.state = "PREPARED"]
(* RETURNING ... INTO: the columns are parameters too                      *)
PeWithInto(c) ==
  [c EXCEPT !.param_count = @ + c.field_count, !.params = c.param_count + c.field_count]
PeDescribe(c) ==
  LET asked == UNION {IF o.rc = "ok" THEN PeSend(o.c, "prepare", FALSE) ELSE {o} : o \in PeForget(c)}
      done == {IF o.rc = "ok" THEN PeDescribed(o.c) ELSE PeFail(o.c) : o \in asked}
  IN {IF x.state = "PREPARED" /\ PeTyped(x.sql) /\ x.field_count > 0 THEN PeWithInto(x) ELSE x : x \in done}

(* mysql_stmt_execute_v2: rows that were never read are flushed first      *)
PeFlushed(c) ==
  LET u == PeUseResult(c)
  IN IF PeAbove(u, "WAITING_USE_OR_STORE") /\ u.state # "FETCH_DONE" /\ u.data = 0
     THEN [(IF u.cursor_exists THEN u ELSE PeRead(u)) EXCEPT !.state = "PREPARED", !.status = "READY"]
     ELSE u
PeCleared(c) == IF c.data # 0 THEN [PeFreeRows(c) EXCEPT !.at = 0] ELSE c
PeExecuteV2(c, scroll) ==
  LET ready == PeCleared(PeFlushed([c EXCEPT !.scroll = scroll]))
  IN {IF o.rc = "ok" THEN PeExecuteResponse(o.c).c ELSE o.c : o \in PeSend(ready, "execute", FALSE)}

PeBindResult(c) == [c EXCEPT !.bind = IF @ = 0 THEN c.field_count ELSE @, !.bind_result_done = TRUE]

(***************************************************************************)
(* Fetches                                                                 *)
(***************************************************************************)
PeBufferedFetch(c) ==                                            \* stmt_buffered_fetch
  IF c.at = 0 THEN PeOut([c EXCEPT !.state = "FETCH_DONE"], "none")
  ELSE PeOut([c EXCEPT !.state = "USER_FETCHING", !.at = @ - 1], "ok")
(* The answer to COM_STMT_FETCH, read into the memory of the last rows     *)
PeFetchAnswer(c, Metadata(_), ok, Finish(_)) ==
  LET freed == PeFreeRows(c)
      p == PePeek(freed)
      e == PeRead(freed)
      meta == IF p.kind # "fields" THEN PeOut(e, "err")
              ELSE PeThen(PeReadFields(e, p.columns), Metadata)
      back(x) == PeOut([x EXCEPT !.status = c.status], "ok")
      extra(x) == IF ok /\ "MORE" \in x.server_status THEN PeLastPacket(x) ELSE PeOut(x, "ok")
      final(x) == Finish([x EXCEPT !.upsert = x.server_status])
  IN PeThen(PeThen(PeThen(PeThen(meta, back), PeReadAllRows), extra), final)
PeFetchFrom(c, Metadata(_), ok, Finish(_)) ==
  {IF o.rc = "ok" THEN PeFetchAnswer(o.c, Metadata, ok, Finish) ELSE o : o \in PeSend(c, "fetch", ok)}
(* do_stmt_read_row_from_oracle_implicit_cursor                            *)
PeImplicitCursor(c, again) ==
  IF c.at # 0 /\ ~again THEN {PeBufferedFetch(c)}
  ELSE IF "LAST" \in c.upsert THEN {PeOut(IF c.scroll THEN c ELSE [c EXCEPT !.upsert = @ \ {"LAST"}], "none")}
  ELSE PeFetchFrom(c, PeReinitMetadata, c.scroll, PeBufferedFetch)
(* do_stmt_read_row_from_oracle_cursor: the rows are left for others       *)
PeOracleCursor(c) ==
  IF c.at # 0 THEN {PeBufferedFetch(c)}
  ELSE IF "LAST" \in c.upsert THEN {PeOut([c EXCEPT !.upsert = @ \ {"LAST"}], "none")}
  ELSE PeFetchFrom(c, LAMBDA x : PeOut(PeAllocFields(x), "ok"), FALSE, LAMBDA x : PeOut(x, "ok"))
PeFetched(outcomes) ==
  {[o.c EXCEPT !.state = IF o.rc = "ok" THEN "USER_FETCHING" ELSE "FETCH_DONE",
               !.status = IF o.rc = "ok" THEN @ ELSE "READY"] : o \in outcomes}
PeCursorFetch(c) ==                                              \* stmt_cursor_fetch, Oracle mode
  IF PeAbove(c, "WAITING_USE_OR_STORE") THEN PeImplicitCursor(c, FALSE) ELSE {PeOut(c, "err")}
PeFetch(c) ==                                                    \* mysql_stmt_fetch
  LET u == PeUseResult(c)
  IN IF u.state = "FETCH_DONE" THEN {u}
     ELSE PeFetched(IF u.fetch_row_func = "buffered" THEN {PeBufferedFetch(u)} ELSE PeCursorFetch(u))
PeFetchBuffered(c) == PeFetched({PeBufferedFetch(c)})            \* mysql_stmt_fetch_oracle_buffered_result
PeDataSeek(c, offset) ==                                         \* mysql_stmt_data_seek
  [c EXCEPT !.at = IF offset > c.data THEN 0 ELSE c.data - offset, !.state = "USER_FETCHING"]

(***************************************************************************)
(* Pieces, and the end of a statement                                      *)
(***************************************************************************)
(* mysql_stmt_read_piece_data gives the rows' memory up first              *)
PeReadPiece(c) ==
  LET freed == PeFreeRows(c)
      answer(x) == IF PePeek(x).kind = "piece" THEN [PeRead(x) EXCEPT !.state = "USER_FETCHING"]
                   ELSE PeEndServer(PeRead(x))
  IN {IF o.rc = "ok" THEN answer(o.c) ELSE o.c : o \in PeSend(freed, "get_piece", FALSE)}
PeReadPieceResult(c) ==                                          \* cli_read_piece_result
  IF PePeek(c).kind = "ok" THEN [PeRead(c) EXCEPT !.server_status = PePeek(c).flags]
  ELSE PeEndServer(PeRead(c))
PeSendPiece(c) ==                                                \* mysql_stmt_send_piece_data
  {IF o.rc = "ok" THEN PeReadPieceResult(o.c) ELSE o.c : o \in PeSend(c, "send_piece", FALSE)}
PeSendLongData(c) == {o.c : o \in PeSend(c, "long_data", FALSE)} \* mysql_stmt_send_long_data
(* mysql_stmt_free_result: madb_reset_stmt with STORED and BUFFER          *)
PeFreeResult(c) ==
  LET stored == IF c.at # 0 THEN [PeFreeRows(c) EXCEPT !.at = 0, !.status = "READY", !.state = "FETCH_DONE"] ELSE c
      pending == IF stored.state = "WAITING_USE_OR_STORE" THEN [PeUseResult(stored) EXCEPT !.state = "USER_FETCHING"] ELSE stored
  IN IF c.stmt_id = 0 THEN c ELSE pending
(* mysql_stmt_reset: COM_STMT_RESET and its answer                         *)
PeReset(c) ==
  LET asked == IF c.status = "READY" /\ c.pvio THEN PeSend(c, "reset", FALSE) ELSE {PeOut(c, "ok")}
      answer(x) == IF x.wire = <<>> THEN x
                   ELSE [PeRead(x) EXCEPT !.server_status = IF PePeek(x).kind = "ok" THEN PePeek(x).flags ELSE @]
  IN IF c.stmt_id = 0 THEN {c}
     ELSE {PeInternalReset(IF o.rc = "ok" THEN answer(o.c) ELSE o.c) : o \in asked}
(* mysql_stmt_close and mysql_stmt_init                                    *)
PeClose(c) ==
  LET r == IF c.pvio THEN PeInternalReset(c) ELSE c
      gone == IF r.state = "INITTED" THEN {PeOut(r, "ok")} ELSE PeSend(r, "close", FALSE)
  IN {PeMerge(o.c, PeHandle) : o \in gone}

(***************************************************************************)
(* A polite application does not                                           *)
(*   - reset a handle whose description failed, or free a result after the *)
(*     statement was reset or prepared again,                              *)
(*   - ask the server for rows or pieces while prefetched rows remain,     *)
(*   - seek in a result without rows, or whose rows were not all received,*)
(*   - free a result without rows instead of fetching to its end.          *)
(***************************************************************************)
PeCan == pe.sent < PeMaxCommands /\ ~pe.hung
PeInResult == PeAbove(pe, "EXECUTED")
PeBound == pe.field_count # 0 /\ pe.bind # 0
PeTo(set) == PeCan /\ pe' \in set

PeDoPrepare == \E sql \in PeSqls, array \in BOOLEAN :
  /\ ~array \/ sql = "returning"
  /\ PeReuse \/ pe.sql \in {"none", sql}
  /\ PeAltered \/ pe.sql = "none" \/ array = pe.array
  /\ PeTo(PePrepareV2(pe, sql, array))
PeDoBindParam == pe.state # "INITTED" /\ ~pe.bind_param_done /\ PeTo({[pe EXCEPT !.bind_param_done = TRUE]})
PeDoDescribe == pe.state # "INITTED" /\ PeTo(PeDescribe(pe))
PeDoExecute == \E scroll \in BOOLEAN, array \in BOOLEAN :
  /\ pe.state # "INITTED" /\ (pe.param_count = 0 \/ pe.bind_param_done)
  /\ scroll => pe.sql = "select"
  /\ array # pe.array => PeAltered /\ pe.sql = "returning"
  /\ PeTo(PeExecuteV2([pe EXCEPT !.array = array], scroll))
PeDoBindResult == pe.state # "INITTED" /\ pe.field_count # 0 /\ ~pe.bind_result_done /\ PeTo({PeBindResult(pe)})
PeDoFetch == PeInResult /\ PeBound /\ PeTo(PeFetch(pe))
PeDoFetchImplicit == \E again \in BOOLEAN :
  /\ PeInResult /\ PeBound /\ pe.cursor_exists /\ (again /\ PePolite => pe.at = 0)
  /\ PeTo(PeFetched(PeImplicitCursor(pe, again)))
PeDoFetchOracle == PeInResult /\ PeBound /\ pe.cursor_exists /\ PeTo(PeFetched(PeOracleCursor(pe)))
PeDoFetchBuffered == PeInResult /\ PeBound /\ PeTo(PeFetchBuffered(pe))
PeDoDataSeek == \E offset \in 0..PeMaxRows :
  /\ PeInResult /\ pe.fetch_row_func # "none" /\ (PePolite => pe.data # 0 /\ pe.live)
  /\ PeTo({PeDataSeek(pe, offset)})
PeDoReadPiece == PeInResult /\ pe.bind # 0 /\ pe.cursor_exists /\ (PePolite => pe.at = 0) /\ PeTo(PeReadPiece(pe))
PeDoSendPiece == pe.state # "INITTED" /\ pe.param_count # 0 /\ pe.stmt_id # 0 /\ PeTo(PeSendPiece(pe))
PeDoSendLongData == pe.state # "INITTED" /\ pe.param_count # 0 /\ pe.stmt_id # 0 /\ PeTo(PeSendLongData(pe))
PeDoFreeResult ==
  /\ PePolite => PeInResult /\ (pe.data # 0 \/ pe.cursor_exists)
  /\ PeTo({PeFreeResult(pe)})
PeDoReset == (PePolite => pe.state # "INITTED") /\ PeTo(PeReset(pe))
PeDoClose == PeTo(PeClose(pe))
PeNext ==
  \/ PeDoPrepare \/ PeDoBindParam \/ PeDoDescribe \/ PeDoExecute \/ PeDoBindResult
  \/ PeDoFetch \/ PeDoFetchImplicit \/ PeDoFetchOracle \/ PeDoFetchBuffered \/ PeDoDataSeek
  \/ PeDoReadPiece \/ PeDoSendPiece \/ PeDoSendLongData \/ PeDoFreeResult \/ PeDoReset \/ PeDoClose

(* When a call returns, whatever it was and however it failed, the answer  *)
(* of the server has been read to its last packet or the connection is     *)
(* closed: the next command does not take old packets for its answer       *)
(* (stmt_read_prepare_execute_response, the cursor fetches).               *)
PeInSync == pe.pvio => pe.wire = <<>>

(* No call waits for a packet that the server does not send: rows, the     *)
(* last packet of an execution and the extra OK of a scrollable cursor are *)
(* expected exactly when they come.                                        *)
PeNoHang == ~pe.hung

(* Rows are decoded with as many columns and result buffers as they have:  *)
(* mthd_stmt_fetch_to_bind walks field_count columns and binds.            *)
PeRowFits ==
  pe.at # 0 /\ PeInResult => /\ pe.columns = pe.field_count
                             /\ pe.bind \in {0, pe.field_count}

(* The parameters the statement counts have room in stmt->params, also     *)
(* after RETURNING ... INTO added its columns (mysql_stmt_execute_v2).     *)
PeParamsFit == pe.state # "INITTED" => pe.param_count <= pe.params

(* result_cursor never points into rows whose memory was given back.       *)
PeRowAlive == pe.at # 0 => pe.live

(* COM_STMT_FETCH is sent only for a cursor that the server holds open:    *)
(* the last-row flag and the kind of result decide it on the client.       *)
PeFetchHasCursor == ~pe.stray

(* A prepared handle that has a statement id has one the server knows.     *)
PeIdKnown == pe.state # "INITTED" /\ pe.stmt_id # 0 /\ pe.pvio => pe.stmt_id \in pe.known

(* A prepare-execute statement stays in step with the server through any   *)
(* sequence of calls, failures included: answers are read to their end and *)
(* not beyond, fetches name a cursor the server has open, and the columns, *)
(* buffers, parameters and rows that the client walks are those of the     *)
(* current result (mysql_stmt_prepare_v2, mysql_stmt_execute_v2, the       *)
(* cursor fetches).                                                        *)
StatementInStep ==
  /\ PeNoHang
  /\ PeInSync
  /\ PeIdKnown
  /\ PeFetchHasCursor
  /\ PeRowFits
  /\ PeParamsFit
  /\ PeRowAlive
=============================================================================
