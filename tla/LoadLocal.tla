------------------------------ MODULE LoadLocal ------------------------------
(***************************************************************************)
(* LOAD DATA LOCAL INFILE (ma_loaddata.c): the server answers a query by   *)
(* asking for a file, the client sends it in packets and an empty one at   *)
(* its end, the server then gives its answer.  With the heuristics on      *)
(* (auto_local_infile) a file is only sent right after a query that starts *)
(* with "load".                                                            *)
(***************************************************************************)
EXTENDS Integers, Sequences

CONSTANTS LdPieces     \* bound: packets a file makes

VARIABLES ld
(* allowed, ext, mode: CLIENT_LOCAL_FILES, options.extension,              *)
(*   auto_local_infile.  custom: the application has callbacks of its own. *)
(* query: what was asked last.  can: can_local_infile.  file: packets left.*)
(* info: the handler's state.  err: the local error.  upd: the 2.0 protocol*)
(*   counts its requests.  flag: SERVER_MORE_RESULTS_EXIST as the client   *)
(*   knows it.                                                             *)
(* srv: the server waits for a query, waits for the file, or owes an       *)
(*   answer; more: results behind it; unread: answers nobody read.         *)
(* stale: a query that starts with "load" failed before its answer.        *)
(* cut: a write failed.  skipped: an answer was read but not looked at.    *)

LdInit ==
  ld = [pc |-> "start", allowed |-> FALSE, ext |-> FALSE, mode |-> "always", custom |-> FALSE,
        query |-> "none", can |-> FALSE, file |-> 0, info |-> "null", err |-> "none", upd |-> TRUE,
        flag |-> FALSE, conn |-> TRUE, srv |-> "query", more |-> FALSE, unread |-> 0, got |-> 0,
        stale |-> FALSE, cut |-> FALSE, skipped |-> FALSE]

(* mysql_init, mysql_options(MYSQL_OPT_LOCAL_INFILE) and                   *)
(* mysql_set_local_infile_handler                                          *)
LdOptions ==
  /\ ld.pc = "start"
  /\ \E a, x, c \in BOOLEAN, mo \in {"always", "wait"} :
       ld' = [ld EXCEPT !.pc = "idle", !.allowed = a, !.ext = x, !.mode = mo, !.custom = c]

(* ma_simple_command: the heuristics look at the query before it is sent;  *)
(* it may be refused (results are pending) or fail to be written.  A       *)
(* connection that is out of step is not followed further.                 *)
Expecting(l, q) ==
  IF l.allowed /\ l.ext /\ l.mode = "wait" /\ q = "load" THEN "accept" ELSE l.mode
LdQuery ==
  /\ ld.pc = "idle" /\ ld.conn /\ ~ld.skipped
  /\ \E q \in {"load", "other"} :
       LET l == [ld EXCEPT !.mode = Expecting(ld, q), !.query = q, !.err = "none"]
       IN IF ld.flag THEN ld' = [l EXCEPT !.stale = @ \/ l.mode = "accept"]
          ELSE \/ ld' = [l EXCEPT !.stale = @ \/ l.mode = "accept", !.conn = FALSE]
               \/ \E s \in {"file", "answer"}, mo \in BOOLEAN :
                    ld' = [l EXCEPT !.pc = "read", !.srv = s, !.more = mo, !.got = 0]

(* A connection that was lost is made again with the next query.           *)
LdReconnect ==
  /\ ld.pc = "idle" /\ ~ld.conn
  /\ ld' = [ld EXCEPT !.conn = TRUE, !.srv = "query", !.unread = 0, !.more = FALSE, !.flag = FALSE,
                      !.cut = FALSE, !.skipped = FALSE]

(* The empty packet; the result of this write is not looked at everywhere. *)
Emptied(l) == {[l EXCEPT !.srv = "answer"], [l EXCEPT !.conn = FALSE]}

(* mthd_my_read_query_result and the start of mysql_handle_local_infile    *)
ReadAnswer(l) == [l EXCEPT !.can = l.ext /\ l.mode # "wait", !.mode = IF l.ext /\ @ = "accept" THEN "wait" ELSE @]
RefuseFile_Silent(l) == {[l EXCEPT !.err = "forbidden", !.pc = "end"]}
RefuseFile(l) == Emptied([l EXCEPT !.err = "forbidden", !.pc = "end"])
LdRead ==
  /\ ld.pc = "read"
  /\ LET l == ReadAnswer(ld)
         h == [l EXCEPT !.upd = FALSE]
     IN CASE ld.srv = "answer" -> ld' = [l EXCEPT !.pc = "answer"]
          [] ld.srv = "file" /\ ~(l.allowed /\ l.can) -> ld' \in RefuseFile(h)
          [] OTHER -> \E n \in 0..LdPieces : ld' = [h EXCEPT !.pc = "init", !.file = n]

(* local_infile_init and, when it fails, local_infile_error, which gives   *)
(* back what init noted                                                    *)
OpenFile(l) == {[l EXCEPT !.info = "open"], [l EXCEPT !.info = "failed", !.err = "open"]}
LdInitFile ==
  /\ ld.pc = "init"
  /\ \E l \in OpenFile(ld) :
       IF l.err = "none" THEN ld' = [l EXCEPT !.pc = "data"]
       ELSE ld' \in Emptied([l EXCEPT !.pc = "end"])

(* local_infile_read: the callback of the library takes an error of a local*)
(* file for its end, those of an application report it.                    *)
ReadPiece(l) ==
  (IF l.file > 0 THEN {"piece"} ELSE {"end"}) \cup (IF l.custom THEN {"error"} ELSE {"end"})
(* The packet for what was read.  An error of the file is looked at once   *)
(* the server has its empty packet.                                        *)
LdData ==
  /\ ld.pc = "data"
  /\ \/ \E r \in ReadPiece(ld) :
          ld' = IF r = "piece" THEN [ld EXCEPT !.file = @ - 1, !.got = @ + 1]
                ELSE [ld EXCEPT !.pc = "end", !.srv = "answer", !.err = IF r = "error" THEN "read" ELSE "none"]
     \/ \E up \in BOOLEAN : ld' = [ld EXCEPT !.pc = "end", !.err = "lost", !.cut = TRUE, !.conn = up]

(* local_infile_end; infile_error: the end of mysql_handle_local_infile    *)
CloseFile(l) == [l EXCEPT !.info = "null"]
EndFile(l) == CloseFile([l EXCEPT !.upd = TRUE])
LdEnd ==
  /\ ld.pc = "end"
  /\ ld' = [EndFile(ld) EXCEPT !.pc = "answer"]

(* The answer.  After a local error it is read and its status is not taken *)
(* over.  A client that waits for an answer to a file the server is still  *)
(* waiting for loses the connection when its read times out.               *)
TakeAnswer(l, s) ==
  CASE ~l.conn \/ l.srv = "file" -> [l EXCEPT !.conn = FALSE]
    [] s = "error" -> [l EXCEPT !.flag = FALSE, !.srv = "query"]
    [] l.err # "none" -> [l EXCEPT !.unread = IF l.more THEN 1 ELSE 0, !.skipped = l.more, !.srv = "query"]
    [] OTHER -> [l EXCEPT !.flag = l.more, !.unread = IF l.more THEN 1 ELSE 0, !.srv = "query"]
LdAnswer ==
  /\ ld.pc = "answer"
  /\ \E s \in {"ok", "error"} : ld' = [TakeAnswer(ld, s) EXCEPT !.pc = "idle", !.stale = FALSE]

(* mysql_next_result                                                       *)
LdNextResult ==
  /\ ld.pc = "idle" /\ ld.conn /\ ld.flag
  /\ ld' = [ReadAnswer(ld) EXCEPT !.unread = 0, !.flag = FALSE]

LdNext == LdOptions \/ LdQuery \/ LdReconnect \/ LdRead \/ LdInitFile \/ LdData \/ LdEnd \/ LdAnswer \/ LdNextResult
LdSpec == LdInit /\ [][LdNext]_ld

(***************************************************************************)
(* Properties                                                              *)
(***************************************************************************)
(* Client and server never wait for each other: when the client waits for  *)
(* the answer the server has got the empty packet, also when the file was  *)
(* refused or could not be read - unless a packet could not be written.    *)
NobodyWaits == ld.pc = "answer" /\ ld.conn /\ ~ld.cut => ld.srv = "answer"

(* Parts of a file leave the client only if the application allowed it and,*)
(* with the heuristics on, if the query just sent starts with "load".  (The*)
(* permission of a query that was refused or could not be written goes over*)
(* to the next one: mariadb_lib.c:553 sets it before the query is sent.)   *)
FileOnlyOnRequest ==
  ld.got > 0 /\ ld.pc \in {"data", "end"} =>
    ld.allowed /\ ld.ext /\ (ld.mode = "always" \/ ld.query = "load" \/ ld.stale)

(* Whatever happened to the file, its handler is released and the requests *)
(* of the 2.0 protocol are counted again before the answer is read.        *)
HandlerReleased == ld.pc \in {"answer", "idle"} => ld.upd /\ ld.info = "null"

(* Between two calls no answer lies on a connection that the client does   *)
(* not know of.  (After a local error the answer's status is not read, and *)
(* with it that more results follow: mariadb_lib.c:3702.)                  *)
LocalInSync == ld.pc = "idle" /\ ld.conn /\ ld.unread > 0 => ld.flag \/ ld.skipped

(* LOAD DATA LOCAL ends in step with the server however the file fails:    *)
(* nobody waits for the other, a file is sent only on request, its handler *)
(* is released, and no answer stays unread (mysql_handle_local_infile).    *)
LocalSettles ==
  /\ NobodyWaits
  /\ FileOnlyOnRequest
  /\ HandlerReleased
  /\ LocalInSync
=============================================================================
