----------------------------- MODULE Statement -----------------------------
(* Prepared statements: the MYSQL_STMT handles of libmariadb/mariadb_stmt.c  *)
(* on the connection of Session.  Cursors, output parameters, bulk execution *)
(* and the prepare-execute protocol are left out.                            *)
EXTENDS Session, FiniteSetsExt

CONSTANTS
  MariaDB,    \* mariadb_connection(mysql): the server calls itself MariaDB
  Ob20,       \* get_use_protocol_ob20(mysql)
  Careful     \* "yes": the application finishes with the result of one handle
              \* before it calls a function of another; "stored": but fetches
              \* rows that it has stored whenever it likes; "no": neither

ASSUME StatementAssumption ==
  {MariaDB, Ob20} \subseteq BOOLEAN /\ Careful \in {"yes", "stored", "no"}

Rank ==
  [INITTED |-> 0, PREPARED |-> 1, EXECUTED |-> 2, WAITING_USE_OR_STORE |-> 3,
   USE_OR_STORE_CALLED |-> 4, USER_FETCHING |-> 5, FETCH_DONE |-> 6]
Above(h, state) == Rank[h.state] > Rank[state]
Below(h, state) == Rank[h.state] < Rank[state]
InState(c, s, state) == [c EXCEPT !.stmts[s].state = state]

(* The statement s reads the answer to the last command.                     *)
Owner(c, s) == c.stmts[s].of[1] = c.sent

---------------------------------------------------------------------------
(* Reading results.                                                          *)

(* _mysql_stmt_use_result, which is also the default_rset_handler.           *)
UseRows(c, s) ==
  LET h == c.stmts[s] IN
  IF h.fields /\ c.status = "STMT_RESULT" /\ h.state = "WAITING_USE_OR_STORE"
    THEN [c EXCEPT !.stmts[s].state = "USE_OR_STORE_CALLED", !.stmts[s].fetch = "unbuffered"]
    ELSE c

(* A first byte of 0, which is taken for an OK packet.                       *)
LooksOK(p) == p.kind \in {"ok", "prep"} \/ (p.kind = "row" /\ p.arg = 0)

(* mthd_stmt_flush_unbuffered: the packet of w that ends the result, as far  *)
(* as the function can tell.                                                 *)
EofsBefore(w, i) == {j \in 1..(i - 1) : w[j].kind \in EOFs}
FlushStops(w, h) ==
  LET inResultset(i) ==
        \/ Above(h, "EXECUTED") /\ Below(h, "FETCH_DONE")
        \/ MariaDB /\ EofsBefore(w, i) # {}
  IN {i \in 1..Len(w) :
        \/ w[i].kind \in {"err", "lost"}
        \/ ~inResultset(i) /\ LooksOK(w[i])
        \/ w[i].kind \in EOFs /\ (MariaDB => inResultset(i))}

(* It reads up to the n-th packet and takes its status over, which is        *)
(* arbitrary if the packet is a row.                                         *)
FlushedTo(c, s, w, n) ==
  LET eofs == EofsBefore(w, n)
      status == IF eofs = {} THEN c.server_status ELSE w[CHOOSE j \in eofs : TRUE].flags
      final(x) == IF n > Len(w) \/ w[n].kind \in {"err", "lost"} THEN {x.server_status}
                  ELSE IF w[n].kind = "row" THEN SUBSET {"MORE", "AUTO", "TRANS"}
                  ELSE {w[n].flags}
      taken(x) == {InState([x EXCEPT !.server_status = f], s, "FETCH_DONE") : f \in final(x)}
  IN taken(SafeRead([c EXCEPT !.wire = SubSeq(w, n, Len(w)), !.server_status = status],
                    NextPacket(c).of[1] = c.stmts[s].of[1]))
Flush(c, s) ==
  LET w == IF c.pvio THEN c.wire ELSE <<>>
  IN FlushedTo(c, s, w, Min(FlushStops(w, c.stmts[s]) \cup {Len(w) + 1}))

(* The loop "flush while there are more results".  When the connection is    *)
(* gone the flag that says so stays, and the loop does not end.              *)
FlushAll(c, s) ==
  LET rounds[n \in Nat] ==
        IF n = 0 THEN {c}
        ELSE UNION {IF n = 1 \/ "MORE" \in x.server_status THEN Flush(x, s) ELSE {x} :
                      x \in rounds[n - 1]}
  IN {[x EXCEPT !.spins = @ \/ "MORE" \in x.server_status] : x \in rounds[Len(c.wire) + 2]}

(* madb_reset_stmt with MADB_RESET_BUFFER: what is pending is flushed, if    *)
(* the statement has columns.                                                *)
ResetBuffer(c, s) ==
  LET u == IF c.stmts[s].state = "WAITING_USE_OR_STORE"
             THEN InState(UseRows(c, s), s, "USER_FETCHING") ELSE c
  IN IF c.stmts[s].stmt_id = 0 THEN {c}
     ELSE IF u.status # "READY" /\ u.stmts[s].fields THEN {Ready(x) : x \in Flush(u, s)}
     ELSE {u}

(* mysql_stmt_next_result with mysql_next_result.                            *)
NextOutcomes(c, s) ==
  LET h == c.stmts[s]
      reset == IF Above(h, "EXECUTED") /\ Below(h, "FETCH_DONE") THEN ResetBuffer(c, s) ELSE {c}
      waiting(x) == InState(x, s, "WAITING_USE_OR_STORE")
      failed(x) == Outcome(InState(x, s, "FETCH_DONE"), "error")
      taken(x) ==
        [x EXCEPT !.status = IF @ = "GET_RESULT" THEN "STMT_RESULT" ELSE @,
                  !.stmts[s].fields = (x.fields # NULL),
                  !.stmts[s].of = IF x.fields # NULL THEN x.fields ELSE @]
      read(x) == IF x.status # "READY" \/ "MORE" \notin x.server_status THEN {failed(x)}
                 ELSE {IF o.rc = "ok" THEN Outcome(taken(o.c), "ok") ELSE failed(o.c) :
                         o \in ReadQueryResult(x)}
  IN IF Below(h, "EXECUTED") THEN {Outcome(c, "error")}
     ELSE IF "MORE" \notin c.server_status THEN {Outcome(c, "none")}
     ELSE UNION {read(waiting(x)) : x \in reset}

(* The loop "while (mysql_stmt_next_result(stmt) == 0)".                     *)
NextAll(c, s) ==
  LET rounds[n \in Nat] ==
        IF n = 0 THEN {Outcome(c, "ok")}
        ELSE UNION {IF o.rc = "ok" THEN NextOutcomes(o.c, s) ELSE {o} : o \in rounds[n - 1]}
  IN {o.c : o \in rounds[Len(c.wire) + 2]}

---------------------------------------------------------------------------
(* Commands of a statement.                                                  *)

StmtSend(c, s, com) == SendCmd(c, StmtCommand(com, s, c.stmts[s].stmt_id))

(* mysql_stmt_internal_reset.                                                *)
InternalReset(c, s, isClose) ==
  LET pending(x) ==
        \/ Above(x.stmts[s], "EXECUTED") /\ x.status # "READY"
        \/ "MORE" \in x.server_status
      fetching(x) == IF x.stmts[s].state = "WAITING_USE_OR_STORE"
                       THEN InState(UseRows(x, s), s, "USER_FETCHING") ELSE x
      drained(x) == IF ~pending(x) THEN {x}
                    ELSE IF ~x.stmts[s].fields THEN {fetching(x)}
                    ELSE {Ready(y) : y \in NextAll(fetching(x), s)}
      answered(x) == IF x.multi THEN Outcome(x, "ok")
                     ELSE Outcome(SafeRead(x, NextPacket(x).of[1] = x.sent),
                                  IF NextPacket(x).kind \in {"err", "lost"} THEN "error" ELSE "ok")
      server(x) == IF isClose \/ x.status # "READY" \/ ~x.pvio THEN {Outcome(x, "ok")}
                   ELSE {IF o.rc = "ok" THEN answered(o.c) ELSE o : o \in StmtSend(x, s, "STMT_RESET")}
      end(x) == Ready(InState(x, s, IF x.stmts[s].stmt_id # 0 THEN "PREPARED" ELSE "INITTED"))
  IN IF c.stmts[s].stmt_id = 0 THEN {Outcome(end(c), "ok")}
     ELSE {Outcome(end(o.c), o.rc) :
             o \in UNION {server(y) : y \in UNION {drained(x) : x \in ResetBuffer(c, s)}}}

(* ma_multi_command(COM_MULTI_END): the batch is sent.  If that fails nobody *)
(* notices before the next read.                                             *)
SendBatch(c) ==
  LET off == [c EXCEPT !.multi = FALSE, !.batch = <<>>]
      served[n \in 0..Len(c.batch)] ==
        IF n = 0 THEN {off}
        ELSE UNION {IF Broken(x) THEN {x} ELSE Serve(x, c.batch[n]) : x \in served[n - 1]}
  IN served[Len(c.batch)] \cup {[off EXCEPT !.wire = <<Lost>>]}

(* mthd_stmt_read_prepare_response and the definitions of the parameters and *)
(* of the columns, for the q-th command.                                     *)
ReadPrepareResponse(c, s, q) ==
  LET p == NextPacket(c)
      e == SafeRead(c, p.of[1] = q)
      taken == [e EXCEPT !.stmts[s].stmt_id = p.arg, !.stmts[s].fields = ("COLS" \in p.flags)]
      definitions(part, os) ==
        UNION {IF o.rc = "ok" /\ part \in p.flags THEN ReadRows(o.c, p.of) ELSE {o} : o \in os}
  IN IF p.kind \in {"err", "lost"} THEN {Outcome(e, "error")}
     ELSE definitions("COLS", definitions("PARAMS", {Outcome(taken, "ok")}))

(* mysql_stmt_prepare.  A statement that is prepared is closed first, in the *)
(* same batch.                                                               *)
Then(os, Step(_)) == UNION {IF o.rc = "ok" THEN Step(o.c) ELSE {o} : o \in os}
PrepareOutcomes(c, s) ==
  LET wasMulti == c.multi
      batched(x) == IF Ob20 THEN x ELSE [x EXCEPT !.multi = TRUE]
      bare(x) == [x EXCEPT !.stmts[s].fields = FALSE]
      closed(x) == StmtSend(bare(x), s, "STMT_CLOSE")
      semiClosed == IF ~Above(c.stmts[s], "INITTED") THEN {Outcome(FreeOldQuery(c), "ok")}
                    ELSE Then(InternalReset(batched(FreeOldQuery(c)), s, TRUE), closed)
      prepare(x) == StmtSend(x, s, "STMT_PREPARE")
      flushed(x) == IF ~wasMulti /\ x.multi /\ ~Ob20 THEN SendBatch(x) ELSE {x}
      response(x) == IF x.multi THEN {Outcome(x, "batched")} ELSE ReadPrepareResponse(x, s, x.sent)
      responses(x) == UNION {response(y) : y \in flushed(x)}
      end(o) == IF o.rc = "batched" THEN Outcome(o.c, "ok")
                ELSE Outcome(InState(o.c, s, IF o.rc = "ok" THEN "PREPARED" ELSE "INITTED"), o.rc)
  IN {end(o) : o \in Then(Then(semiClosed, prepare), responses)}

(* stmt_read_execute_response.                                               *)
ReadExecuteResponse(c, s) ==
  LET executed(x) ==
        [x EXCEPT !.status = IF x.fields # NULL THEN "STMT_RESULT" ELSE @,
                  !.stmts[s].state = IF x.fields # NULL THEN "WAITING_USE_OR_STORE" ELSE "EXECUTED",
                  !.stmts[s].fields = @ \/ x.fields # NULL,
                  !.stmts[s].of = <<x.sent, 1>>]
  IN {IF o.rc = "ok" THEN Outcome(executed(o.c), "ok") ELSE Outcome(InState(o.c, s, "PREPARED"), "error") :
        o \in ReadQueryResult(c)}

(* Mutant: flushes also after the last row was read.                         *)
ExecuteOutcomes_Done(c, s) ==
  LET u == IF c.stmts[s].state = "WAITING_USE_OR_STORE" THEN UseRows(c, s) ELSE c
      unread == Above(u.stmts[s], "WAITING_USE_OR_STORE") /\ ~u.stmts[s].data
      flushed == IF unread THEN {Ready(InState(x, s, "PREPARED")) : x \in FlushAll(u, s)} ELSE {u}
  IN Then(UNION {StmtSend(x, s, "STMT_EXECUTE") : x \in flushed}, LAMBDA x : ReadExecuteResponse(x, s))

(* mysql_stmt_execute: an unbuffered result that is pending is flushed.      *)
ExecuteOutcomes(c, s) ==
  LET u == IF c.stmts[s].state = "WAITING_USE_OR_STORE" THEN UseRows(c, s) ELSE c
      h == u.stmts[s]
      unread == Above(h, "WAITING_USE_OR_STORE") /\ Below(h, "FETCH_DONE") /\ ~h.data
      flushed == IF unread THEN {Ready(InState(x, s, "PREPARED")) : x \in FlushAll(u, s)} ELSE {u}
      clear(x) == [x EXCEPT !.stmts[s].data = FALSE, !.stmts[s].left = IF h.data THEN 0 ELSE @]
      response(x) == IF x.multi THEN {Outcome(x, "ok")} ELSE ReadExecuteResponse(x, s)
  IN Then(UNION {StmtSend(clear(x), s, "STMT_EXECUTE") : x \in flushed}, response)

(* Mutant: the answer to the execution is not read if the preparation fails. *)
DirectFailed_Unread(c, s, requested) == {Outcome(InState(c, s, "INITTED"), "error")}

(* mariadb_stmt_execute_direct, "fail": once the execution is in the batch   *)
(* its answer has to be read, too.                                           *)
DirectFailed(c, s, requested) ==
  LET owner == [c EXCEPT !.stmts[s].of = <<c.sent, 1>>]
  IN {Outcome(InState(x, s, "INITTED"), "error") :
        x \in IF requested THEN FlushAll(owner, s) ELSE {c}}

(* mariadb_stmt_execute_direct.  A MariaDB server (of 10.2 or later, without *)
(* compression) gets COM_STMT_CLOSE, COM_STMT_PREPARE and the execution of   *)
(* the statement prepared last in one batch; any other one the two calls one *)
(* after the other.                                                          *)
DirectOutcomes(c, s) ==
  LET batch == [c EXCEPT !.multi = TRUE]
      closed(x) == StmtSend([x EXCEPT !.stmts[s].fields = FALSE], s, "STMT_CLOSE")
      semiClosed == IF ~Above(c.stmts[s], "INITTED") THEN {Outcome(batch, "ok")}
                    ELSE Then(InternalReset(batch, s, TRUE), closed)
      prepare(x) == StmtSend([x EXCEPT !.stmts[s].stmt_id = LastStmt], s, "STMT_PREPARE")
      execute(x) == {IF o.rc = "ok" THEN o ELSE Outcome(o.c, "requested") :
                       o \in ExecuteOutcomes(InState(x, s, "PREPARED"), s)}
      response(x, q) == {IF NextPacket(x).kind = "prep" THEN o ELSE Outcome(o.c, "requested") :
                           o \in ReadPrepareResponse(x, s, q)}
      responses(x) == UNION {response(y, x.sent + 1) : y \in SendBatch(x)}
      failed(os) == UNION {IF o.rc = "ok" THEN {o} ELSE DirectFailed(o.c, s, o.rc = "requested") : o \in os}
      answer(x) == ReadExecuteResponse(InState(x, s, "PREPARED"), s)
  IN IF ~MariaDB THEN Then(PrepareOutcomes(c, s), LAMBDA x : ExecuteOutcomes(x, s))
     ELSE IF c.multi THEN {Outcome(c, "error")}
     ELSE Then(failed(Then(Then(Then(semiClosed, prepare), execute), responses)), answer)

---------------------------------------------------------------------------
(* The calls of the application.                                             *)

(* A careful application calls a function of s only if no other handle has a *)
(* result pending.                                                           *)
MayCall(call, s) ==
  /\ call \in Calls /\ conn.stmts[s].live /\ ~conn.spins
  /\ Careful # "no" /\ conn.open /\ Busy(conn)
       => \/ Owner(conn, s)
          \/ Careful = "stored" /\ call = "stmt_fetch" /\ conn.stmts[s].fetch = "buffered"
MayUse(call, s) == MayCall(call, s) /\ conn.stmts[s].linked
Return(outcomes) ==
  /\ \E o \in outcomes : conn' = Told(o)
  /\ UNCHANGED res

(* mysql_stmt_init.                                                          *)
StmtInit(s) ==
  /\ May("stmt_init") /\ ~conn.stmts[s].live
  /\ conn' = [conn EXCEPT !.stmts[s] = [NoHandle EXCEPT !.live = TRUE, !.linked = TRUE]]
  /\ UNCHANGED res

StmtPrepare(s) ==
  /\ MayUse("stmt_prepare", s) /\ conn.sent < MaxCommands
  /\ Return(PrepareOutcomes(conn, s))

StmtExecute(s) ==
  /\ MayUse("stmt_execute", s) /\ conn.sent < MaxCommands
  /\ Above(conn.stmts[s], "INITTED")
  /\ Return(ExecuteOutcomes(conn, s))

StmtExecuteDirect(s) ==
  /\ MayUse("stmt_direct", s) /\ conn.sent + 1 < MaxCommands
  /\ Return(DirectOutcomes(conn, s))

(* mysql_stmt_store_result with mthd_stmt_read_all_rows.                     *)
StmtStoreResult(s) ==
  LET h == conn.stmts[s]
      own == NextPacket(conn).of = h.of
      at == AtStop(conn)
      p == NextPacket(at)
      n == Len(conn.wire) - Len(at.wire)
      e == Ready(SafeRead(at, own))
      stored == [e EXCEPT !.server_status = p.flags,
                          !.stmts[s].data = (n > 0), !.stmts[s].left = n, !.stmts[s].fetch = "buffered",
                          !.stmts[s].state = IF n > 0 THEN "USE_OR_STORE_CALLED" ELSE "FETCH_DONE"]
      failed == [e EXCEPT !.stmts[s].data = FALSE, !.stmts[s].left = 0]
  IN /\ MayUse("stmt_store", s)
     /\ h.fields /\ ~Below(h, "EXECUTED") /\ conn.status = "STMT_RESULT"
     /\ Return({IF p.kind \in EOFs THEN Outcome(stored, "ok") ELSE Outcome(failed, "error")})

(* mysql_stmt_fetch.  After any end of the rows the connection counts as     *)
(* ready.                                                                    *)
StmtFetch(s) ==
  LET u == IF conn.stmts[s].state = "WAITING_USE_OR_STORE" THEN UseRows(conn, s) ELSE conn
      h == u.stmts[s]
      p == NextPacket(u)
      e == SafeRead(u, p.of = h.of)
      done(x) == Ready(InState(x, s, "FETCH_DONE"))
      row(x) == InState(x, s, "USER_FETCHING")
      unbuffered ==
        IF p.kind \in {"err", "lost"} THEN Outcome(done([e EXCEPT !.stmts[s].fetch = "eof"]), "error")
        ELSE IF p.kind \in EOFs
          THEN Outcome(done([e EXCEPT !.stmts[s].fetch = "eof", !.server_status = p.flags]), "ok")
        ELSE Outcome(row(e), "ok")
      buffered == IF h.left = 0 THEN Outcome(done(u), "ok")
                  ELSE Outcome(row([u EXCEPT !.stmts[s].left = @ - 1]), "ok")
      fetched == [unbuffered |-> unbuffered, eof |-> Outcome(done(u), "ok"), buffered |-> buffered]
  IN /\ MayUse("stmt_fetch", s)
     /\ h.fields /\ Above(h, "EXECUTED") /\ h.state # "FETCH_DONE"
     /\ h.state # "WAITING_USE_OR_STORE" /\ h.fetch # "none"   \* the application had no error before
     /\ Return({fetched[h.fetch]})

(* mysql_stmt_free_result: madb_reset_stmt with MADB_RESET_STORED and        *)
(* MADB_RESET_BUFFER.                                                        *)
StmtFreeResult(s) ==
  LET h == conn.stmts[s]
      c == IF h.stmt_id = 0 \/ h.left = 0 THEN conn
           ELSE Ready([conn EXCEPT !.stmts[s].data = FALSE, !.stmts[s].left = 0,
                                   !.stmts[s].state = "FETCH_DONE"])
  IN /\ MayUse("stmt_free", s)
     /\ Return({Outcome(x, "ok") : x \in ResetBuffer(c, s)})

(* mysql_stmt_next_result.                                                   *)
StmtNextResult(s) ==
  /\ MayUse("stmt_next", s) /\ ~Below(conn.stmts[s], "EXECUTED") /\ "MORE" \in conn.server_status
  /\ Return(NextOutcomes(conn, s))

(* mysql_stmt_reset.                                                         *)
StmtReset(s) ==
  /\ MayUse("stmt_reset", s) /\ conn.sent < MaxCommands
  /\ conn.stmts[s].stmt_id # 0
  /\ Return(InternalReset(conn, s, FALSE))

(* mysql_stmt_close with net_stmt_close.                                     *)
StmtClose(s) ==
  LET h == conn.stmts[s]
      reset == IF conn.pvio THEN {o.c : o \in InternalReset(conn, s, TRUE)} ELSE {conn}
      drained(x) == IF x.status = "READY" THEN {x} ELSE {Ready(y) : y \in FlushAll(x, s)}
      close(x) == IF Above(x.stmts[s], "INITTED") THEN StmtSend(x, s, "STMT_CLOSE") ELSE {Outcome(x, "ok")}
      freed(o) == Outcome([o.c EXCEPT !.stmts[s] = NoHandle], o.rc)
  IN /\ MayCall("stmt_close", s)
     /\ IF h.linked
          THEN Return({freed(o) : o \in UNION {close(y) : y \in UNION {drained(x) : x \in reset}}})
          ELSE Return({freed(Outcome(conn, "ok"))})

StmtNext ==
  \E s \in Stmts :
    \/ StmtInit(s) \/ StmtPrepare(s) \/ StmtExecute(s) \/ StmtExecuteDirect(s)
    \/ StmtStoreResult(s) \/ StmtFetch(s) \/ StmtFreeResult(s) \/ StmtNextResult(s)
    \/ StmtReset(s) \/ StmtClose(s)

(* A careful application does not ask the connection for a result that a     *)
(* statement reads.                                                          *)
TextNext ==
  \/ Others
  \/ NextResult /\ (Careful # "no" => \A s \in Stmts : ~Owner(conn, s))

StmtSpec == Init /\ [][StmtNext \/ TextNext]_vars

---------------------------------------------------------------------------
(* Properties, besides InSync, OwnAnswers and NoHang of Session.             *)

(* What the library takes for a prepared statement is one on the server, and *)
(* the one that this handle prepared (stmt->state, stmt->stmt_id).           *)
PreparedIsKnown ==
  \A s \in Stmts :
    LET h == conn.stmts[s] IN
    h.linked /\ Above(h, "INITTED") /\ conn.pvio /\ ~Broken(conn)
      => Prepared(conn, h.stmt_id) /\ conn.ids[h.stmt_id] = s

(* No command of a statement reaches a statement of another handle.          *)
RightStatement == ~conn.misrouted

(* The loop that flushes the results of a statement ends (mysql_stmt_execute *)
(* and net_stmt_close, "while(mysql_stmt_more_results(stmt))").              *)
FlushEnds == ~conn.spins

(* A statement that was cut off from its connection is not prepared on the   *)
(* server any more (ma_invalidate_stmts in mysql_change_user).               *)
UnlinkedIsReleased ==
  \A s \in Stmts :
    LET h == conn.stmts[s] IN
    h.live /\ ~h.linked /\ conn.pvio => \A i \in 1..Len(conn.ids) : conn.ids[i] # s
=============================================================================
