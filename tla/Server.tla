------------------------------- MODULE Server -------------------------------
(* The server at the other end of a connection, as the client library uses   *)
(* it: which packets answer which command.  The server is not part of the    *)
(* repository.                                                               *)
EXTENDS Integers, Sequences

CONSTANTS
  Stmts,             \* the statement handles of the client
  QueryReplies(_),   \* the answers to the q-th command, a query
  ExecuteReplies(_), \* ... the execution of a prepared statement
  ServerFlags,       \* the sets of status flags a command may leave behind
  Definitions,       \* which definitions a statement has: sets of "PARAMS", "COLS"
  MaxCommands        \* bound: commands sent to the server

(* SERVER_MORE_RESULTS_EXIST, SERVER_STATUS_IN_TRANS, SERVER_STATUS_AUTOCOMMIT; *)
(* the other two are not status flags but what a statement has.              *)
Flags == {"MORE", "TRANS", "AUTO"}
Parts == {"PARAMS", "COLS"}

(* "ok", "err", the column count "cols", the EOF "meta" behind the column    *)
(* definitions, "row", the EOF "eof" behind the rows, the first packet of    *)
(* the answer to COM_STMT_PREPARE "prep" and the EOFs "defs" behind its      *)
(* definitions.  To the client all EOFs are the same.  "lost" stands for the *)
(* end of the stream.                                                        *)
Kinds == {"ok", "err", "cols", "meta", "row", "eof", "prep", "defs", "lost"}
EOFs == {"meta", "eof", "defs"}

(* A packet belongs to a result of a command.  A row has no status on the    *)
(* wire: the flags here are those of its result set.  arg is the statement's *)
(* id in "prep", in "defs" the number of "defs" that follow, and in a row    *)
(* the first byte, which in the binary protocol is 0 as in an OK packet.     *)
Tags == Nat \X Nat
Packets == [kind : Kinds, flags : SUBSET (Flags \cup Parts), of : Tags, arg : Nat]
Packet(kind, flags, of, arg) == [kind |-> kind, flags |-> flags, of |-> of, arg |-> arg]
Lost == Packet("lost", {}, <<0, 0>>, 0)

(* The order of packets: a result is OK, an error, or a result set that ends *)
(* in an EOF or an error.  The next result follows if the status has MORE,   *)
(* which both EOFs of a result set agree on.  The stream may end anywhere.   *)
Heads == {"ok", "err", "cols", "prep", "lost"}
Continues(p) ==
  \/ p.kind \in {"cols", "meta", "row"}
  \/ p.kind \in {"ok", "eof"} /\ "MORE" \in p.flags
  \/ p.kind = "prep" /\ p.flags # {}
  \/ p.kind = "defs" /\ p.arg # 0
Follows(p, n) ==
  \/ n.kind = "lost"
  \/ p.kind = "cols" /\ n.kind = "meta" /\ n.of = p.of
  \/ p.kind \in {"meta", "row"} /\ n.kind \in {"row", "eof"} /\ n.of = p.of /\ n.flags = p.flags
  \/ p.kind \in {"meta", "row"} /\ n.kind = "err" /\ n.of = p.of
  \/ p.kind \in {"ok", "eof"} /\ "MORE" \in p.flags /\ n.kind \in Heads /\ n.of[1] = p.of[1]
  \/ p.kind = "prep" /\ p.flags # {} /\ n.kind = "defs" /\ n.arg = (IF p.flags = Parts THEN 1 ELSE 0)
  \/ p.kind = "defs" /\ p.arg # 0 /\ n.kind = "defs" /\ n.arg = 0
Ordered(w) ==
  /\ w \in Seq(Packets)
  /\ \A i \in 1..(Len(w) - 1) : Follows(w[i], w[i + 1])
  /\ w # <<>> => ~Continues(w[Len(w)])
Response(w, q) ==
  /\ Ordered(w) /\ w # <<>> /\ w[1].kind \in Heads
  /\ w[1].kind # "lost" => w[1].of[1] = q

ASSUME ServerAssumption ==
  /\ ServerFlags \subseteq SUBSET {"TRANS", "AUTO"} /\ ServerFlags # {}
  /\ Definitions \subseteq SUBSET Parts /\ Definitions # {}
  /\ MaxCommands \in Nat
  /\ \A q \in 1..MaxCommands : \A r \in QueryReplies(q) \cup ExecuteReplies(q) :
       Response(r, q) /\ \A i \in 1..Len(r) : r[i].kind \notin {"prep", "defs", "lost"}

(* A command of the client: com, and for a prepared statement its id and the *)
(* handle that sent it.  The id LastStmt, -1 in the code, names the statement *)
(* that the last COM_STMT_PREPARE of the session prepared, if it still is.   *)
NoStmt == "none"
LastStmt == MaxCommands + 1
Command(com) == [com |-> com, id |-> 0, by |-> NoStmt]
StmtCommand(com, s, id) == [com |-> com, id |-> id, by |-> s]

(* The answers to a command that is answered by OK or an error.              *)
SimpleReplies(q) ==
  {<<Packet("ok", f, <<q, 1>>, 0)>> : f \in ServerFlags} \cup {<<Packet("err", {}, <<q, 1>>, 0)>>}

(* The answers to COM_STMT_PREPARE for a statement that gets this id.        *)
PrepareReplies(q, id) ==
  LET prep(d) == Packet("prep", d, <<q, 1>>, id)
      defs(f, left) == Packet("defs", f, <<q, 1>>, left)
      whole(d, f) ==
        IF d = {} THEN <<prep(d)>>
        ELSE IF d = Parts THEN <<prep(d), defs(f, 1), defs(f, 0)>>
        ELSE <<prep(d), defs(f, 0)>>
  IN {whole(d, f) : d \in Definitions, f \in ServerFlags}

(* The session of the server: wire holds the packets that the client has not *)
(* read yet, sent counts the commands, ids[i] is the handle that prepared    *)
(* statement i, or NoStmt when it is closed, last is what LastStmt names,    *)
(* misrouted becomes TRUE when a handle's command reaches a statement that   *)
(* another handle prepared.  The server may go away in the middle of an      *)
(* answer.                                                                   *)
Cuts(r) == {r} \cup {Append(SubSeq(r, 1, n), Lost) : n \in 0..(Len(r) - 1)}
Answer(x, replies) ==
  {[x EXCEPT !.wire = @ \o r, !.sent = @ + 1] : r \in UNION {Cuts(w) : w \in replies}}
Prepared(x, id) == id \in 1..Len(x.ids) /\ x.ids[id] # NoStmt
Named(x, cmd) == IF cmd.id = LastStmt THEN x.last ELSE cmd.id
Routed(x, cmd) ==
  LET id == Named(x, cmd)
  IN [x EXCEPT !.misrouted = @ \/ (Prepared(x, id) /\ x.ids[id] # cmd.by)]
Forget(x) == [x EXCEPT !.ids = [i \in 1..Len(@) |-> NoStmt], !.last = 0]
Closed(x, id) ==
  [x EXCEPT !.ids[id] = NoStmt, !.last = IF @ = id THEN 0 ELSE @]

Serve(x, cmd) ==
  LET q == x.sent + 1
      err == {<<Packet("err", {}, <<q, 1>>, 0)>>}
      id == Named(x, cmd)
      known == Prepared(x, id)
      r == Routed(x, cmd)
  IN CASE cmd.com = "QUERY" -> Answer(x, QueryReplies(q))
       [] cmd.com = "SIMPLE" -> Answer(x, SimpleReplies(q))
       [] cmd.com = "RESET_CONNECTION" -> Answer(Forget(x), SimpleReplies(q) \ err) \cup Answer(x, err)
       [] cmd.com = "CHANGE_USER" -> Answer(Forget(x), SimpleReplies(q))
       [] cmd.com = "STMT_PREPARE" ->
            Answer([x EXCEPT !.ids = Append(@, cmd.by), !.last = Len(x.ids) + 1],
                   PrepareReplies(q, Len(x.ids) + 1))
              \cup Answer([x EXCEPT !.last = 0], err)
       [] cmd.com = "STMT_EXECUTE" -> Answer(r, IF known THEN ExecuteReplies(q) ELSE err)
       [] cmd.com = "STMT_RESET" -> Answer(r, IF known THEN SimpleReplies(q) ELSE err)
       [] cmd.com = "STMT_CLOSE" ->
            {IF known THEN Closed(r, id) ELSE r}
=============================================================================
