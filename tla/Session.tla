------------------------------ MODULE Session ------------------------------
(* A connection and the text protocol on it: the MYSQL handle of             *)
(* libmariadb/mariadb_lib.c, its result handles and automatic reconnection.  *)
(*                                                                           *)
(* One thread uses a handle at a time, and every call blocks until it has    *)
(* read what it waits for, so a call is one action.  The server may go away  *)
(* between two calls and in the middle of an answer.  The operators below    *)
(* take a connection and return it as the function of the same name leaves   *)
(* it, or the set of the possible outcomes.                                  *)
EXTENDS Server

CONSTANTS
  Calls,          \* the calls the application makes
  Results,        \* the MYSQL_RES handles it holds at a time
  Reconnect,      \* options.reconnect
  MallocFails,    \* the allocations that may fail: "result", "rows", "fields"
  MaxSessions     \* bound: connections to the server

ASSUME SessionAssumption ==
  /\ Reconnect \in BOOLEAN
  /\ MallocFails \subseteq {"result", "rows", "fields"}
  /\ MaxSessions \in Nat

VARIABLES
  conn,   \* the MYSQL handle and what the server has sent on it
  res     \* the MYSQL_RES handles

vars == <<conn, res>>

NULL == <<0, 0>>   \* no result
Statuses == {"READY", "GET_RESULT", "USE_RESULT", "STMT_RESULT"}

(* The MYSQL_STMT handle.  live: between mysql_stmt_init and                 *)
(* mysql_stmt_close.  linked: stmt->mysql is not NULL.  fields: field_count  *)
(* is not 0.  fetch: fetch_row_func.  data: rows were stored, and left of    *)
(* them are not fetched yet.  of: the result it reads.                       *)
StmtStates == {"INITTED", "PREPARED", "EXECUTED", "WAITING_USE_OR_STORE",
               "USE_OR_STORE_CALLED", "USER_FETCHING", "FETCH_DONE"}
StmtHandles ==
  [live : BOOLEAN, linked : BOOLEAN, state : StmtStates, stmt_id : Nat, fields : BOOLEAN,
   fetch : {"none", "unbuffered", "eof", "buffered"}, data : BOOLEAN, left : Nat, of : Tags]
NoHandle ==
  [live |-> FALSE, linked |-> FALSE, state |-> "INITTED", stmt_id |-> 0, fields |-> FALSE,
   fetch |-> "none", data |-> FALSE, left |-> 0, of |-> NULL]

(* The MYSQL handle.  open: between mysql_real_connect and mysql_close.      *)
(* pvio: net.pvio is not NULL.  fields: the result whose column definitions  *)
(* are in mysql->fields.  multi: commands are collected in batch             *)
(* (COM_MULTI_ENABLED) and not sent.  stmts: the statements; the linked ones *)
(* are in mysql->stmts.                                                      *)
(* The server's side of it.  wire: the packets that have not been read, with *)
(* "lost" at the end if the server is gone.  sent, ids, last, misrouted:     *)
(* see Server.  ses counts the connections made.                                 *)
(* History.  hung: a read waited for a packet that nobody will send.  spins: *)
(* a call is in a loop that does not end.  mixed: a call read a packet that  *)
(* answers another one.  owed: the session that was lost in a transaction    *)
(* without the application being told.                                       *)
Connections ==
  [open : BOOLEAN, pvio : BOOLEAN, status : Statuses, server_status : SUBSET (Flags \cup Parts),
   fields : Tags, multi : BOOLEAN, batch : Seq([com : STRING, id : Nat, by : Stmts \cup {NoStmt}]),
   stmts : [Stmts -> StmtHandles],
   wire : Seq(Packets), sent : Nat, ids : Seq(Stmts \cup {NoStmt}), last : Nat, misrouted : BOOLEAN,
   ses : Nat, hung : BOOLEAN, spins : BOOLEAN, mixed : BOOLEAN, owed : Nat]

(* A buffered result ("stored"), or an unbuffered one ("use") that keeps its *)
(* handle until its last row is read.                                        *)
ResultHandles == [kind : {"free", "stored", "use"}, handle : BOOLEAN, of : Tags]
NoResult == [kind |-> "free", handle |-> FALSE, of |-> NULL]

Outcome(c, rc) == [c |-> c, rc |-> rc]

(* An error that a call returns also tells of a connection lost before.      *)
Told(s) == IF s.rc = "error" THEN [s.c EXCEPT !.owed = 0] ELSE s.c

---------------------------------------------------------------------------
(* Connecting and sending.                                                   *)

(* A new connection.  mariadb_reconnect keeps the statements, as not         *)
(* prepared; their ids it does not touch.                                    *)
Fresh(c) ==
  [c EXCEPT !.pvio = TRUE, !.status = "READY", !.server_status = {"AUTO"}, !.fields = NULL,
            !.multi = FALSE, !.batch = <<>>,
            !.stmts = [s \in Stmts |-> IF @[s].linked THEN [@[s] EXCEPT !.state = "INITTED"] ELSE @[s]],
            !.wire = <<>>, !.ids = <<>>, !.last = 0, !.ses = @ + 1]

(* Mutant: the statements stay linked.                                       *)
Unlinked_Not(c) == c

(* ma_invalidate_stmts.                                                      *)
Unlinked(c) == [c EXCEPT !.stmts = [s \in Stmts |-> [@[s] EXCEPT !.linked = FALSE]]]

(* end_server, with free_old_query.                                          *)
EndServer(c) ==
  [c EXCEPT !.pvio = FALSE, !.fields = NULL, !.wire = <<>>,
            !.owed = IF "TRANS" \in c.server_status THEN c.ses ELSE @]

(* Mutant: reconnects in a transaction, too.                                 *)
Reconnects_InTrans(c) ==
  {Outcome(c, "error")}
    \cup (IF Reconnect /\ c.ses < MaxSessions THEN {Outcome(Fresh(c), "ok")} ELSE {})

(* mariadb_reconnect: refused in a transaction, but only once.               *)
Reconnects(c) ==
  IF ~Reconnect \/ "TRANS" \in c.server_status
    THEN {Outcome([c EXCEPT !.server_status = @ \ {"TRANS"}], "error")}
    ELSE {Outcome(c, "error")}
           \cup (IF c.ses < MaxSessions THEN {Outcome(Fresh(c), "ok")} ELSE {})

(* ma_net_write_command succeeds.  A server that is gone does not answer.    *)
Broken(c) == c.wire # <<>> /\ c.wire[Len(c.wire)].kind = "lost"
Written(c, cmd) == {Outcome(x, "ok") : x \in IF Broken(c) THEN {c} ELSE Serve(c, cmd)}

(* A result is pending.                                                      *)
Busy(c) == c.status # "READY" \/ "MORE" \in c.server_status

(* Mutant: sends the command whether or not a result is pending.             *)
SendCmd_NotBusy(c, cmd) ==
  LET opened == IF c.pvio THEN {Outcome(c, "ok")} ELSE Reconnects(c)
  IN UNION {IF s.rc # "ok" THEN {s}
            ELSE IF s.c.multi THEN {Outcome([s.c EXCEPT !.batch = Append(@, cmd)], "ok")}
            ELSE Written(s.c, cmd) : s \in opened}

(* mthd_my_send_cmd up to the read: reconnect if there is no connection,     *)
(* refuse the command while a result is pending, write it or add it to the   *)
(* batch, and after a failed write reconnect and write it again.             *)
SendCmd(c, cmd) ==
  LET opened == IF c.pvio THEN {Outcome(c, "ok")} ELSE Reconnects(c)
      rewritten(x) == Written(x, cmd) \cup {Outcome([x EXCEPT !.wire = <<Lost>>], "error")}
      retried(x) == UNION {IF s.rc = "ok" THEN rewritten(s.c) ELSE {s} : s \in Reconnects(EndServer(x))}
  IN UNION {IF s.rc # "ok" THEN {s}
            ELSE IF Busy(s.c) THEN {Outcome(s.c, "error")}
            ELSE IF s.c.multi THEN {Outcome([s.c EXCEPT !.batch = Append(@, cmd)], "ok")}
            ELSE Written(s.c, cmd) \cup retried(s.c) : s \in opened}

---------------------------------------------------------------------------
(* Reading.                                                                  *)

(* The next packet.  Without a connection there is none, and a read for      *)
(* which nothing comes ends as if the connection were lost.                  *)
NextPacket(c) == IF ~c.pvio \/ c.wire = <<>> THEN Lost ELSE c.wire[1]

(* ma_net_safe_read.  own: the packet is part of what the caller reads.      *)
SafeRead(c, own) ==
  LET p == NextPacket(c)
      rest == [c EXCEPT !.wire = Tail(@), !.mixed = @ \/ ~own]
  IN IF p.kind = "lost"
       THEN [EndServer(c) EXCEPT !.hung = @ \/ (c.pvio /\ c.wire = <<>>)]
     ELSE IF p.kind = "err" THEN [rest EXCEPT !.server_status = @ \ {"MORE"}]
     ELSE rest

(* The connection when a loop over packets has come to an EOF or an error.   *)
Stops(w) == {i \in 1..Len(w) : w[i].kind \in EOFs \cup {"err", "lost"}}
FirstStop(w) == CHOOSE i \in Stops(w) : \A j \in Stops(w) : i <= j
AtStop(c) ==
  [c EXCEPT !.wire = IF Stops(@) = {} THEN <<>> ELSE SubSeq(@, FirstStop(@), Len(@))]

(* mthd_my_read_rows: all packets up to the EOF, whose status is taken over. *)
(* Without memory it returns before, at any packet.                          *)
ReadRows(c, of) ==
  LET own == NextPacket(c).of = of
      s == AtStop(c)
      p == NextPacket(s)
      e == SafeRead(s, own)
      all == IF p.kind \in EOFs THEN Outcome([e EXCEPT !.server_status = p.flags], "ok")
                                ELSE Outcome(e, "error")
      cut(k) == Outcome([c EXCEPT !.wire = SubSeq(@, k + 1, Len(@)), !.mixed = @ \/ ~own], "error")
      taken == {k \in 1..Len(c.wire) :
                  \/ \A i \in 1..k : i \notin Stops(c.wire)
                  \/ k = 1 /\ c.wire[1].kind \in EOFs}
  IN {all} \cup (IF "rows" \in MallocFails /\ c.pvio THEN {cut(k) : k \in taken} ELSE {})

(* mthd_my_skip_result: the same, but the status of the EOF is ignored.      *)
SkipResult(c, of) == SafeRead(AtStop(c), NextPacket(c).of = of)

(* mthd_my_read_query_result: OK, an error, or the column definitions of a   *)
(* result set.                                                               *)
ReadQueryResult(c) ==
  LET p == NextPacket(c)
      e == SafeRead(c, p.of[1] = c.sent)
      f == [e EXCEPT !.fields = NULL]
      g == [f EXCEPT !.server_status = IF "AUTO" \in @ THEN @ ELSE @ \cup {"TRANS"}]
      defined(x) == [x EXCEPT !.fields = p.of, !.status = "GET_RESULT"]
  IN IF p.kind \in {"err", "lost"} THEN {Outcome(e, "error")}
     ELSE IF p.kind = "ok" THEN {Outcome([f EXCEPT !.server_status = p.flags], "ok")}
     ELSE UNION {IF s.rc = "error" THEN {s}
                 ELSE {Outcome(defined(s.c), "ok")}
                        \cup (IF "fields" \in MallocFails THEN {Outcome(s.c, "error")} ELSE {}) :
                 s \in ReadRows(g, p.of)}

(* mthd_my_send_cmd with skipp_check = 0: the first packet of the answer is  *)
(* read and only an error in it is noticed.                                  *)
SimpleCommand(c, com) ==
  LET answered(x) == Outcome(SafeRead(x, NextPacket(x).of[1] = x.sent),
                             IF NextPacket(x).kind \in {"err", "lost"} THEN "error" ELSE "ok")
  IN {IF s.rc = "ok" /\ ~s.c.multi THEN answered(s.c) ELSE s : s \in SendCmd(c, Command(com))}

(* The same, and once more if it fails and options.reconnect is set.         *)
TwiceCommand(c, com) ==
  UNION {IF s.rc = "error" /\ Reconnect THEN SimpleCommand(s.c, com) ELSE {s} :
           s \in SimpleCommand(c, com)}

---------------------------------------------------------------------------
(* The calls of the application.                                             *)

May(call) == call \in Calls /\ conn.open /\ ~conn.spins
MaySend(call) == May(call) /\ conn.sent < MaxCommands
FreeOldQuery(c) == [c EXCEPT !.fields = NULL]

Ready(c) == [c EXCEPT !.status = "READY"]

Init ==
  /\ conn = Fresh([open |-> TRUE, pvio |-> FALSE, status |-> "READY", server_status |-> {},
                   fields |-> NULL, multi |-> FALSE, batch |-> <<>>,
                   stmts |-> [s \in Stmts |-> NoHandle],
                   wire |-> <<>>, sent |-> 0, ids |-> <<>>, last |-> 0, misrouted |-> FALSE,
                   ses |-> 0, hung |-> FALSE, spins |-> FALSE, mixed |-> FALSE, owed |-> 0])
  /\ res = [r \in Results |-> NoResult]

(* mysql_real_query.  The old column definitions go even if the query is     *)
(* refused.                                                                  *)
QueryOutcomes(c) ==
  UNION {IF s.rc = "ok" THEN ReadQueryResult(s.c) ELSE {s} :
           s \in SendCmd(FreeOldQuery(c), Command("QUERY"))}
RealQuery ==
  /\ MaySend("query")
  /\ \E s \in QueryOutcomes(conn) : conn' = Told(s)
  /\ UNCHANGED res

(* mysql_next_result.                                                        *)
NextResult ==
  /\ May("query")
  /\ conn.status = "READY" /\ "MORE" \in conn.server_status
  /\ \E s \in ReadQueryResult(conn) : conn' = Told(s)
  /\ UNCHANGED res

(* mysql_store_result.                                                       *)
StoreResult(r) ==
  LET c == Ready(conn)
      noMemory == {Outcome(c, "error") : m \in MallocFails \cap {"result"}}
      stored(s) == IF s.rc = "ok" THEN [kind |-> "stored", handle |-> FALSE, of |-> conn.fields]
                                  ELSE NoResult
  IN /\ May("store") /\ res[r].kind = "free"
     /\ conn.fields # NULL /\ conn.status = "GET_RESULT"
     /\ \E s \in ReadRows(c, c.fields) \cup noMemory :
          /\ conn' = IF s.rc = "ok" THEN FreeOldQuery(s.c) ELSE Told(s)
          /\ res' = [res EXCEPT ![r] = stored(s)]

(* mysql_use_result.                                                         *)
UseResult(r) ==
  /\ May("use") /\ res[r].kind = "free"
  /\ conn.fields # NULL /\ conn.status = "GET_RESULT"
  /\ conn' = [conn EXCEPT !.fields = NULL, !.status = "USE_RESULT"]
  /\ res' = [res EXCEPT ![r] = [kind |-> "use", handle |-> TRUE, of |-> conn.fields]]

(* Mutant: keeps result->handle at the end of the rows.                      *)
FetchRow_KeepsHandle(r) ==
  LET p == NextPacket(conn)
      e == SafeRead(conn, p.of = res[r].of)
  IN /\ May("use") /\ res[r].kind = "use" /\ res[r].handle
     /\ conn.status \in {"USE_RESULT", "GET_RESULT"}
     /\ conn' = IF p.kind \in EOFs THEN Ready([e EXCEPT !.server_status = p.flags])
                ELSE IF p.kind \in {"err", "lost"} THEN Told(Outcome(Ready(e), "error"))
                ELSE e
     /\ UNCHANGED res

(* mysql_fetch_row on an unbuffered result, with mthd_my_read_one_row.       *)
FetchRow(r) ==
  LET p == NextPacket(conn)
      e == SafeRead(conn, p.of = res[r].of)
  IN /\ May("use") /\ res[r].kind = "use" /\ res[r].handle
     /\ conn.status \in {"USE_RESULT", "GET_RESULT"}
     /\ \/ /\ p.kind \notin EOFs \cup {"err", "lost"}
           /\ conn' = e
           /\ UNCHANGED res
        \/ /\ p.kind \in EOFs
           /\ conn' = Ready([e EXCEPT !.server_status = p.flags])
           /\ res' = [res EXCEPT ![r].handle = FALSE]
        \/ /\ p.kind \in {"err", "lost"}
           /\ conn' = Told(Outcome(Ready(e), "error"))
           /\ res' = [res EXCEPT ![r].handle = FALSE]

(* Mutant: does not skip the rows.                                           *)
FreeResult_NoSkip(r) ==
  /\ (May("use") \/ May("store")) /\ res[r].kind # "free"
  /\ conn' = IF res[r].handle /\ conn.status = "USE_RESULT" THEN Ready(conn) ELSE conn
  /\ res' = [res EXCEPT ![r] = NoResult]

(* mysql_free_result.  It returns nothing, so it cannot tell of an error.    *)
FreeResult(r) ==
  /\ (May("use") \/ May("store")) /\ res[r].kind # "free"
  /\ conn' = IF res[r].handle /\ conn.status = "USE_RESULT"
                THEN Ready(SkipResult(conn, res[r].of))
                ELSE conn
  /\ res' = [res EXCEPT ![r] = NoResult]

(* mysql_select_db, mysql_kill, mysql_stat and the other calls that send one *)
(* command and wait for its answer.                                          *)
Simple ==
  /\ MaySend("simple")
  /\ \E s \in SimpleCommand(conn, "SIMPLE") : conn' = Told(s)
  /\ UNCHANGED res

(* mysql_ping.                                                               *)
Ping ==
  /\ MaySend("ping")
  /\ \E s \in TwiceCommand(conn, "SIMPLE") : conn' = Told(s)
  /\ UNCHANGED res

(* The application has no unbuffered result that still has its handle: it    *)
(* frees them before it resets or closes the connection.                     *)
NoneInUse == \A r \in Results : ~res[r].handle

(* mysql_reset_connection.  A success means a session without transaction,   *)
(* which is what the application asked for.                                  *)
SkipPending(c) ==
  IF c.status # "READY" THEN Ready(SkipResult(c, NextPacket(c).of)) ELSE c
ResetConnection ==
  /\ MaySend("reset") /\ NoneInUse
  /\ \E s \in TwiceCommand(SkipPending(conn), "RESET_CONNECTION") :
       conn' = IF s.rc = "error" THEN Told(s)
               ELSE [Ready(FreeOldQuery(Unlinked(s.c))) EXCEPT !.owed = 0]
  /\ UNCHANGED res

(* mysql_change_user with run_plugin_auth: whatever comes of it, the         *)
(* statements are invalidated.                                               *)
ChangeUserOutcomes(c) ==
  LET answered(x) == Outcome(SafeRead(x, NextPacket(x).of[1] = x.sent), "ok")
      ok(x) == [answered(x).c EXCEPT !.server_status = NextPacket(x).flags, !.owed = 0]
  IN {IF s.rc = "error" \/ NextPacket(s.c).kind # "ok"
        THEN Outcome(IF s.rc = "error" THEN s.c ELSE answered(s.c).c, "error")
        ELSE Outcome(ok(s.c), "ok") : s \in SendCmd(c, Command("CHANGE_USER"))}
ChangeUser ==
  /\ MaySend("change_user") /\ conn.pvio
  /\ \E s \in ChangeUserOutcomes(conn) : conn' = Unlinked(Told(s))
  /\ UNCHANGED res

(* mysql_close, and mysql_init with mysql_real_connect.  COM_QUIT is not     *)
(* modelled: the socket is closed in any case.                               *)
Close ==
  /\ May("close") /\ NoneInUse
  /\ conn' = [Unlinked(EndServer(Ready(conn))) EXCEPT !.open = FALSE, !.owed = 0]
  /\ UNCHANGED res
Connect ==
  /\ ~conn.open /\ conn.ses < MaxSessions
  /\ conn' = [Fresh(conn) EXCEPT !.open = TRUE]
  /\ UNCHANGED res

(* The server, or the network, fails: a part of what it has sent is lost.    *)
ServerDies ==
  /\ conn.pvio /\ ~Broken(conn)
  /\ \E n \in 0..Len(conn.wire) : conn' = [conn EXCEPT !.wire = Append(SubSeq(@, 1, n), Lost)]
  /\ UNCHANGED res

Others ==
  \/ RealQuery
  \/ \E r \in Results : StoreResult(r) \/ UseResult(r) \/ FetchRow(r) \/ FreeResult(r)
  \/ Simple \/ Ping \/ ResetConnection \/ ChangeUser
  \/ Close \/ Connect \/ ServerDies
Next == NextResult \/ Others

Spec == Init /\ [][Next]_vars

---------------------------------------------------------------------------
(* Properties.                                                               *)

(* Every field of the handle and of each result keeps its type, and the    *)
(* status is one of the three that the calls test (enum mysql_status).     *)
TypeOK ==
  /\ conn \in Connections
  /\ res \in [Results -> ResultHandles]

(* When the library believes that the server is ready for a command and that *)
(* no result follows (mthd_my_send_cmd would send), every packet that the    *)
(* server has sent was read.                                                 *)
InSync ==
  conn.pvio /\ ~Busy(conn) => conn.wire \in {<<>>, <<Lost>>}

(* No call reads a packet that answers another command, or rows of another   *)
(* result (mysql_real_query, mysql_next_result, mysql_store_result,          *)
(* mysql_fetch_row, mysql_free_result).                                      *)
OwnAnswers == ~conn.mixed

(* No call waits for a packet that the server has no reason to send.         *)
NoHang == ~conn.hung

(* A transaction that went down with its connection is reported to the       *)
(* application before the handle is used on a new connection: what it sends  *)
(* after that was not meant for the lost transaction (mariadb_reconnect,     *)
(* SERVER_STATUS_IN_TRANS).                                                  *)
TransactionNotSplit == conn.owed \in {0, conn.ses}

(* A result that is waiting (MYSQL_STATUS_GET_RESULT) can be read: its       *)
(* column definitions are there, without which mysql_store_result and        *)
(* mysql_use_result return nothing.                                          *)
PendingIsReadable == conn.status = "GET_RESULT" => conn.fields # NULL

(* mysql_reset_connection gets rid of what is pending: after it has skipped  *)
(* the result sets its command is not refused.                               *)
ResetSkips == conn.open /\ conn.pvio => ~Busy(SkipPending(conn)) \/ ~SkipPending(conn).pvio

(* Client and server agree on what is still to be read: neither is a       *)
(* packet of the server left over when the library believes it has read    *)
(* all (it would be taken for the answer of the next command), nor does a  *)
(* call wait for one that does not come (mthd_my_read_query_result,        *)
(* mysql_next_result, mysql_free_result, the skipping in                   *)
(* mthd_my_send_cmd).                                                      *)
InStep ==
  /\ InSync
  /\ NoHang
=============================================================================
