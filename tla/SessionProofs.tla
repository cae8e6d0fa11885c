--------------------------- MODULE SessionProofs ---------------------------
(* Proofs for Session: client and server stay in step, a call reads what     *)
(* answers it, and a lost transaction is told of, whatever the server        *)
(* answers and wherever the connection is lost.                              *)
EXTENDS Session, SequenceTheorems, WellFoundedInduction, TLAPS

(* A connection as a record, whatever its values.                            *)
Fields == {"open", "pvio", "status", "server_status", "fields", "multi", "batch", "stmts", "wire",
           "sent", "ids", "last", "misrouted", "ses", "hung", "spins", "mixed", "owed"}
Handle(c) == c = [f \in Fields |-> c[f]]

---------------------------------------------------------------------------
(* Where the client is in what the server has sent.                          *)

(* Between two results, inside one, and behind the last.                     *)
Wire(w) ==
  /\ Ordered(w)
  /\ \A i \in 1..Len(w) : /\ w[i].kind \notin {"prep", "defs"}
                          /\ w[i].kind = "lost" => i = Len(w) /\ w[i] = Lost
Drained(c) == c.wire \in {<<>>, <<Lost>>}
AtResult(c) ==
  /\ c.wire # <<>> /\ c.wire[1].kind \in {"ok", "err", "cols", "lost"}
  /\ c.wire[1].kind # "lost" => c.wire[1].of[1] = c.sent
AtRows(c) ==
  /\ c.wire # <<>> /\ c.wire[1].kind \in {"row", "eof", "err", "lost"}
  /\ c.wire[1].kind \in {"row", "eof"} => c.wire[1].flags = c.server_status
  /\ c.wire[1].kind # "lost" => c.wire[1].of[1] = c.sent
Reads(c, of) == c.wire[1].kind # "lost" => c.wire[1].of = of

(* The status and the flag for more results say where.                       *)
Synced(c) ==
  /\ Wire(c.wire)
  /\ c.status = "READY" /\ "MORE" \notin c.server_status => Drained(c)
  /\ c.status = "READY" /\ "MORE" \in c.server_status => AtResult(c)
  /\ c.status # "READY" => AtRows(c)
  /\ c.status = "GET_RESULT" /\ c.fields # NULL => Reads(c, c.fields)

Quiet(c) ==
  /\ Handle(c) /\ c.sent \in Nat /\ c.fields \in Tags
  /\ c.status \in {"READY", "GET_RESULT", "USE_RESULT"}
  /\ ~c.multi /\ ~c.hung /\ ~c.mixed
  /\ c.fields # NULL => c.pvio
SyncConn(c) == Quiet(c) /\ (c.pvio => Synced(c))

(* An unbuffered result that has its handle is the one that is being read.   *)
SyncRes ==
  /\ res \in [Results -> ResultHandles]
  /\ \A r \in Results : res[r].handle =>
       /\ res[r].kind = "use" /\ conn.status = "USE_RESULT" /\ conn.pvio
       /\ Reads(conn, res[r].of)
       /\ \A s \in Results : res[s].handle => s = r

SyncInv == SyncConn(conn) /\ SyncRes /\ (~conn.open => ~conn.pvio)

---------------------------------------------------------------------------
(* What a connection owes: a transaction that went down unnoticed keeps the  *)
(* next command from a new connection.                                       *)
OwesConn(c) ==
  /\ Handle(c)
  /\ c.owed # 0 => c.owed = c.ses /\ ~c.pvio /\ "TRANS" \in c.server_status
OwesInv ==
  /\ OwesConn(conn)
  /\ ~conn.open => conn.owed = 0 /\ ~conn.pvio

---------------------------------------------------------------------------
(* What the operators do to the fields of a connection.                      *)

(* The fields that neither a read nor a command touches.                     *)
SameSession(c, e) ==
  /\ Handle(e) /\ e.open = c.open /\ e.status = c.status /\ e.multi = c.multi /\ e.ses = c.ses

LEMMA NullTag == NULL \in Tags
BY Zenon DEF NULL, Tags

LEMMA EndServerShape ==
  ASSUME NEW c, Handle(c)
  PROVE  LET e == EndServer(c) IN
         /\ SameSession(c, e) /\ e.sent = c.sent /\ e.hung = c.hung /\ e.mixed = c.mixed
         /\ ~e.pvio /\ e.server_status = c.server_status /\ e.fields = NULL /\ e.wire = <<>>
         /\ e.owed = IF "TRANS" \in c.server_status THEN c.ses ELSE c.owed
BY ZenonT(40) DEF EndServer, SameSession, Handle, Fields

LEMMA FreshShape ==
  ASSUME NEW c, Handle(c)
  PROVE  LET e == Fresh(c) IN
         /\ Handle(e) /\ e.open = c.open /\ e.sent = c.sent /\ e.hung = c.hung /\ e.mixed = c.mixed
         /\ e.pvio /\ e.status = "READY" /\ e.server_status = {"AUTO"} /\ e.fields = NULL
         /\ ~e.multi /\ e.wire = <<>> /\ e.owed = c.owed
<1>1. PICK e : e = Fresh(c)
  BY Zenon
<1>2. PICK st, n : e = [c EXCEPT !.pvio = TRUE, !.status = "READY", !.server_status = {"AUTO"},
                                 !.fields = NULL, !.multi = FALSE, !.batch = <<>>, !.stmts = st,
                                 !.wire = <<>>, !.ids = <<>>, !.last = 0, !.ses = n]
  BY <1>1, Zenon DEF Fresh
<1>3. Handle(e) /\ e.open = c.open /\ e.sent = c.sent /\ e.hung = c.hung /\ e.mixed = c.mixed
  BY <1>2, ZenonT(40) DEF Handle, Fields
<1>4. /\ e.pvio /\ e.status = "READY" /\ e.server_status = {"AUTO"} /\ e.fields = NULL
      /\ ~e.multi /\ e.wire = <<>> /\ e.owed = c.owed
  BY <1>2, Zenon DEF Handle, Fields
<1> QED
  BY <1>1, <1>3, <1>4, Zenon

(* ma_net_safe_read: the connection is lost, or one packet was read.         *)
ReadLost(c, e) ==
  /\ SameSession(c, e) /\ e.sent = c.sent /\ e.mixed = c.mixed
  /\ ~c.hung /\ (c.pvio => c.wire # <<>>) => ~e.hung
  /\ ~e.pvio /\ e.server_status = c.server_status /\ e.fields = NULL /\ e.wire = <<>>
  /\ e.owed = IF "TRANS" \in c.server_status THEN c.ses ELSE c.owed
ReadOne(c, e) ==
  /\ SameSession(c, e) /\ e.sent = c.sent /\ e.hung = c.hung /\ e.owed = c.owed
  /\ e.pvio = c.pvio /\ e.fields = c.fields /\ e.wire = Tail(c.wire)
  /\ e.server_status = IF NextPacket(c).kind = "err" THEN c.server_status \ {"MORE"} ELSE c.server_status

LEMMA SafeReadLost ==
  ASSUME NEW c, Handle(c), NEW own, NextPacket(c).kind = "lost"
  PROVE  ReadLost(c, SafeRead(c, own))
<1>1. PICK h : h = (c.hung \/ (c.pvio /\ c.wire = <<>>))
  BY Zenon
<1>2. PICK d : d = EndServer(c)
  BY Zenon
<1>3. /\ SameSession(c, d) /\ d.sent = c.sent /\ d.hung = c.hung /\ d.mixed = c.mixed
      /\ ~d.pvio /\ d.server_status = c.server_status /\ d.fields = NULL /\ d.wire = <<>>
      /\ d.owed = IF "TRANS" \in c.server_status THEN c.ses ELSE c.owed
  BY <1>2, EndServerShape, Zenon
<1>4. SafeRead(c, own) = [d EXCEPT !.hung = h]
  BY <1>1, <1>2, <1>3, Zenon DEF SafeRead
<1>5. ~c.hung /\ (c.pvio => c.wire # <<>>) => ~h
  BY <1>1, Zenon
<1> QED
  BY <1>3, <1>4, <1>5, ZenonT(20) DEF ReadLost, SameSession, Handle, Fields

LEMMA SafeReadOne ==
  ASSUME NEW c, Handle(c), NEW own, NextPacket(c).kind # "lost"
  PROVE  /\ ReadOne(c, SafeRead(c, own))
         /\ own /\ ~c.mixed => ~SafeRead(c, own).mixed
<1>1. PICK h : h = (c.mixed \/ ~own)
  BY Zenon
<1>2. CASE NextPacket(c).kind = "err"
  <2>1. SafeRead(c, own) = [c EXCEPT !.wire = Tail(@), !.mixed = h, !.server_status = @ \ {"MORE"}]
    BY <1>1, <1>2, Zenon DEF SafeRead, Handle, Fields
  <2>2. ReadOne(c, SafeRead(c, own)) /\ SafeRead(c, own).mixed = h
    BY <1>2, <2>1, ZenonT(40) DEF ReadOne, SameSession, Handle, Fields
  <2> QED
    BY <1>1, <2>2, Zenon
<1>3. CASE NextPacket(c).kind # "err"
  <2>1. SafeRead(c, own) = [c EXCEPT !.wire = Tail(@), !.mixed = h]
    BY <1>1, <1>3, Zenon DEF SafeRead
  <2>2. ReadOne(c, SafeRead(c, own)) /\ SafeRead(c, own).mixed = h
    BY <1>3, <2>1, ZenonT(40) DEF ReadOne, SameSession, Handle, Fields
  <2> QED
    BY <1>1, <2>2, Zenon
<1> QED
  BY <1>2, <1>3, Zenon

(* AtStop and a result that is told of change one field each.                *)
OnlyWire(c, e) ==
  /\ SameSession(c, e) /\ e.sent = c.sent /\ e.hung = c.hung /\ e.mixed = c.mixed /\ e.owed = c.owed
  /\ e.pvio = c.pvio /\ e.fields = c.fields /\ e.server_status = c.server_status

LEMMA WireShape ==
  ASSUME NEW c, Handle(c), NEW w
  PROVE  LET e == [c EXCEPT !.wire = w] IN OnlyWire(c, e) /\ e.wire = w
BY Zenon DEF OnlyWire, SameSession, Handle, Fields

LEMMA AtStopShape ==
  ASSUME NEW c, Handle(c)
  PROVE  OnlyWire(c, AtStop(c))
<1>1. PICK w : w = IF Stops(c.wire) = {} THEN <<>> ELSE SubSeq(c.wire, FirstStop(c.wire), Len(c.wire))
  BY Zenon
<1>2. AtStop(c) = [c EXCEPT !.wire = w]
  BY <1>1, Zenon DEF AtStop, Handle, Fields
<1> QED
  BY <1>2, WireShape

(* Commands of the text protocol.  The server adds an answer to what it has  *)
(* sent.                                                                     *)
TextCommands == {"QUERY", "SIMPLE", "RESET_CONNECTION", "CHANGE_USER"}
Replies(com, q) == IF com = "QUERY" THEN QueryReplies(q) ELSE SimpleReplies(q)
Answered(c, com, e) ==
  /\ SameSession(c, e) /\ e.sent = c.sent + 1 /\ e.hung = c.hung /\ e.mixed = c.mixed /\ e.owed = c.owed
  /\ e.pvio = c.pvio /\ e.fields = c.fields /\ e.server_status = c.server_status
  /\ \E w \in Replies(com, c.sent + 1) : \E r \in Cuts(w) : e.wire = c.wire \o r

AnsweredBy(c, replies, e) ==
  /\ SameSession(c, e) /\ e.sent = c.sent + 1 /\ e.hung = c.hung /\ e.mixed = c.mixed
  /\ e.owed = c.owed /\ e.pvio = c.pvio /\ e.fields = c.fields
  /\ e.server_status = c.server_status
  /\ \E w \in replies : \E r \in Cuts(w) : e.wire = c.wire \o r

LEMMA AnswerShape ==
  ASSUME NEW c, Handle(c), NEW replies, NEW e \in Answer(c, replies)
  PROVE  AnsweredBy(c, replies, e)
<1>1. PICK r \in UNION {Cuts(w) : w \in replies} : e = [c EXCEPT !.wire = @ \o r, !.sent = @ + 1]
  BY Zenon DEF Answer
<1>2. PICK w \in replies : r \in Cuts(w)
  BY <1>1, Zenon
<1> QED
  BY <1>1, <1>2, Zenon DEF AnsweredBy, SameSession, Handle, Fields

LEMMA ForgetShape ==
  ASSUME NEW c, Handle(c)
  PROVE  OnlyWire(c, Forget(c)) /\ Forget(c).wire = c.wire
BY Zenon DEF Forget, OnlyWire, SameSession, Handle, Fields

LEMMA ServeShape ==
  ASSUME NEW c, Handle(c), NEW com \in TextCommands, NEW e \in Serve(c, Command(com))
  PROVE  Answered(c, com, e)
<1> DEFINE q == c.sent + 1
           err == {<<Packet("err", {}, <<q, 1>>, 0)>>}
<1>1. \/ com = "QUERY" /\ e \in Answer(c, QueryReplies(q))
      \/ com # "QUERY" /\ e \in Answer(c, SimpleReplies(q))
      \/ com # "QUERY" /\ e \in Answer(Forget(c), SimpleReplies(q) \ err)
      \/ com # "QUERY" /\ e \in Answer(c, err)
      \/ com # "QUERY" /\ e \in Answer(Forget(c), SimpleReplies(q))
  BY Zenon DEF Serve, Command, TextCommands
<1>2. err \subseteq SimpleReplies(q)
  BY Zenon DEF SimpleReplies
<1>3. PICK f : f = Forget(c)
  BY Zenon
<1>4. OnlyWire(c, f) /\ f.wire = c.wire
  BY <1>3, ForgetShape, Zenon DEF OnlyWire, SameSession
<1> HIDE DEF err
<1>5. CASE com = "QUERY" /\ e \in Answer(c, QueryReplies(q))
  <2>1. AnsweredBy(c, QueryReplies(q), e)
    BY <1>5, AnswerShape, Zenon
  <2>2. Replies(com, c.sent + 1) = QueryReplies(q)
    BY <1>5, Zenon DEF Replies
  <2> QED
    BY <2>1, <2>2, Zenon DEF AnsweredBy, Answered
<1>6. ASSUME com # "QUERY", NEW replies, replies \subseteq SimpleReplies(q), e \in Answer(c, replies)
      PROVE  Answered(c, com, e)
  <2>1. AnsweredBy(c, replies, e)
    BY <1>6, AnswerShape, Zenon
  <2>2. Replies(com, c.sent + 1) = SimpleReplies(q)
    BY <1>6, Zenon DEF Replies
  <2> QED
    BY <1>6, <2>1, <2>2, Zenon DEF AnsweredBy, Answered
<1>7. ASSUME com # "QUERY", NEW replies, replies \subseteq SimpleReplies(q), e \in Answer(f, replies)
      PROVE  Answered(c, com, e)
  <2>1. Handle(f)
    BY <1>4, Zenon DEF OnlyWire, SameSession
  <2>2. AnsweredBy(f, replies, e)
    BY <1>7, <2>1, AnswerShape, Zenon
  <2>3. \E w \in Replies(com, q) : \E r \in Cuts(w) : e.wire = c.wire \o r
    BY <1>4, <1>7, <2>2, Zenon DEF AnsweredBy, Replies
  <2> QED
    BY <1>4, <2>2, <2>3, Zenon DEF AnsweredBy, Answered, OnlyWire, SameSession
<1> QED
  BY <1>1, <1>2, <1>3, <1>5, <1>6, <1>7, Zenon

---------------------------------------------------------------------------
(* A lost transaction is told of.                                            *)

(* What an operator or an outcome does to a connection.  An outcome that is  *)
(* an error is told to the application, which settles what was owed.         *)
Keeps(c, e) == Handle(e) /\ e.open = c.open /\ (OwesConn(c) => OwesConn(e))
Lasts(c, s) ==
  /\ s.rc \in {"ok", "error"} /\ Handle(s.c) /\ s.c.open = c.open
  /\ OwesConn(c) /\ s.rc = "ok" => OwesConn(s.c)

LEMMA SafeReadKeeps ==
  ASSUME NEW c, Handle(c), NEW own
  PROVE  Keeps(c, SafeRead(c, own))
<1>1. CASE NextPacket(c).kind = "lost"
  <2>1. ReadLost(c, SafeRead(c, own))
    BY <1>1, SafeReadLost, Zenon
  <2> QED
    BY <2>1, Zenon DEF ReadLost, SameSession, Keeps, OwesConn
<1>2. CASE NextPacket(c).kind # "lost"
  <2>1. ReadOne(c, SafeRead(c, own))
    BY <1>2, SafeReadOne, Zenon
  <2> QED
    BY <2>1, Zenon DEF ReadOne, SameSession, Keeps, OwesConn
<1> QED
  BY <1>1, <1>2, Zenon

(* A packet of the server was read, so there is a connection: nothing is     *)
(* owed, whatever the new status is.                                         *)
LEMMA ReadOwesNothing ==
  ASSUME NEW c, OwesConn(c), NEW own, NextPacket(c).kind # "lost"
  PROVE  c.owed = 0 /\ SafeRead(c, own).owed = 0
<1>1. c.pvio
  BY Zenon DEF NextPacket, Lost, Packet
<1>2. ReadOne(c, SafeRead(c, own))
  BY SafeReadOne, Zenon DEF OwesConn
<1> QED
  BY <1>1, <1>2, Zenon DEF ReadOne, OwesConn

LEMMA StatusKeeps ==
  ASSUME NEW c, Handle(c), NEW flags
  PROVE  LET e == [c EXCEPT !.server_status = flags] IN
         /\ Handle(e) /\ e.open = c.open /\ e.owed = c.owed
         /\ c.owed = 0 => OwesConn(e)
BY Zenon DEF OwesConn, Handle, Fields

LEMMA ReconnectsLasts ==
  ASSUME NEW c, Handle(c), NEW s \in Reconnects(c)
  PROVE  Lasts(c, s)
<1>1. CASE s = Outcome([c EXCEPT !.server_status = @ \ {"TRANS"}], "error")
  BY <1>1, Zenon DEF Outcome, Lasts, Handle, Fields
<1>2. CASE s = Outcome(c, "error")
  BY <1>2, Zenon DEF Outcome, Lasts
<1>3. CASE s = Outcome(Fresh(c), "ok") /\ "TRANS" \notin c.server_status
  <2>1. PICK e : e = Fresh(c)
    BY Zenon
  <2>2. Handle(e) /\ e.open = c.open /\ e.owed = c.owed
    BY <2>1, FreshShape, Zenon
  <2>3. OwesConn(c) => OwesConn(e)
    BY <1>3, <2>2, Zenon DEF OwesConn
  <2>4. s.c = e /\ s.rc = "ok"
    BY <1>3, <2>1, Zenon DEF Outcome
  <2> QED
    BY <2>2, <2>3, <2>4, Zenon DEF Lasts
<1> QED
  BY <1>1, <1>2, <1>3, Zenon DEF Reconnects

LEMMA WrittenLasts ==
  ASSUME NEW c, Handle(c), NEW com \in TextCommands, NEW s \in Written(c, Command(com))
  PROVE  s.rc = "ok" /\ Keeps(c, s.c)
<1>1. s.rc = "ok" /\ (s.c = c \/ s.c \in Serve(c, Command(com)))
  BY DEF Written, Outcome
<1>2. CASE s.c = c
  BY <1>1, <1>2, Zenon DEF Keeps
<1>3. CASE s.c \in Serve(c, Command(com))
  <2>1. Answered(c, com, s.c)
    BY <1>3, ServeShape, Zenon
  <2> QED
    BY <1>1, <2>1, Zenon DEF Answered, SameSession, Keeps, OwesConn
<1> QED
  BY <1>1, <1>2, <1>3, Zenon

LEMMA SendCmdLasts ==
  ASSUME NEW c, Handle(c), NEW com \in TextCommands, NEW s \in SendCmd(c, Command(com))
  PROVE  Lasts(c, s)
<1> DEFINE cmd == Command(com)
           opened == IF c.pvio THEN {Outcome(c, "ok")} ELSE Reconnects(c)
           rewritten(x) == Written(x, cmd) \cup {Outcome([x EXCEPT !.wire = <<Lost>>], "error")}
           retried(x) == UNION {IF u.rc = "ok" THEN rewritten(u.c) ELSE {u} : u \in Reconnects(EndServer(x))}
<1>1. PICK t \in opened : s \in IF t.rc # "ok" THEN {t}
            ELSE IF Busy(t.c) THEN {Outcome(t.c, "error")}
            ELSE IF t.c.multi THEN {Outcome([t.c EXCEPT !.batch = Append(@, cmd)], "ok")}
            ELSE Written(t.c, cmd) \cup retried(t.c)
  BY ZenonT(20) DEF SendCmd
<1>2. Lasts(c, t)
  <2>1. CASE c.pvio
    BY <2>1 DEF Outcome, Lasts
  <2>2. CASE ~c.pvio
    BY <2>2, ReconnectsLasts, Zenon
  <2> QED
    BY <2>1, <2>2, Zenon
<1>3. PICK x : x = t.c
  BY Zenon
<1>4. Handle(x) /\ x.open = c.open /\ (OwesConn(c) /\ t.rc = "ok" => OwesConn(x))
  BY <1>2, <1>3, Zenon DEF Lasts
<1> HIDE DEF opened
<1>5. CASE t.rc # "ok"
  BY <1>1, <1>2, <1>5, Zenon
<1>6. CASE s = Outcome(x, "error")
  BY <1>4, <1>6, Zenon DEF Outcome, Lasts
<1>7. CASE t.rc = "ok" /\ s = Outcome([x EXCEPT !.batch = Append(@, cmd)], "ok")
  <2>1. PICK b : b = Append(x.batch, cmd)
    BY Zenon
  <2>2. s.rc = "ok" /\ s.c = [x EXCEPT !.batch = b]
    BY <1>4, <1>7, <2>1, Zenon DEF Outcome, Handle, Fields
  <2> QED
    BY <1>4, <1>7, <2>2, ZenonT(20) DEF Lasts, OwesConn, Handle, Fields
<1>8. CASE t.rc = "ok" /\ s \in Written(x, cmd)
  <2>1. s.rc = "ok" /\ Keeps(x, s.c)
    BY <1>4, <1>8, WrittenLasts, Zenon
  <2> QED
    BY <1>4, <1>8, <2>1, Zenon DEF Keeps, Lasts
<1>9. CASE t.rc = "ok" /\ s \in retried(x)
  <2>1. PICK u \in Reconnects(EndServer(x)) : s \in IF u.rc = "ok" THEN rewritten(u.c) ELSE {u}
    BY <1>9, Zenon
  <2>2. PICK e : e = EndServer(x)
    BY Zenon
  <2>3. Keeps(x, e)
    BY <1>4, <2>2, EndServerShape, ZenonT(20) DEF SameSession, Keeps, OwesConn
  <2>4. Lasts(e, u)
    BY <2>1, <2>2, <2>3, ReconnectsLasts, Zenon DEF Keeps
  <2>5. PICK y : y = u.c
    BY Zenon
  <2>6. Handle(y) /\ y.open = c.open /\ (OwesConn(c) /\ u.rc = "ok" => OwesConn(y))
    BY <1>4, <1>9, <2>3, <2>4, <2>5, Zenon DEF Keeps, Lasts
  <2>7. CASE u.rc # "ok"
    BY <1>4, <2>1, <2>3, <2>4, <2>7, Zenon DEF Keeps, Lasts
  <2>8. CASE u.rc = "ok" /\ s \in Written(y, cmd)
    <3>1. s.rc = "ok" /\ Keeps(y, s.c)
      BY <2>6, <2>8, WrittenLasts, Zenon
    <3> QED
      BY <2>6, <2>8, <3>1, Zenon DEF Keeps, Lasts
  <2>9. CASE s = Outcome([y EXCEPT !.wire = <<Lost>>], "error")
    BY <2>6, <2>9, Zenon DEF Outcome, Lasts, Handle, Fields
  <2> QED
    BY <2>1, <2>5, <2>7, <2>8, <2>9, Zenon
<1> HIDE DEF retried
<1> QED
  BY <1>1, <1>3, <1>5, <1>6, <1>7, <1>8, <1>9, Zenon

LEMMA AtStopKeeps ==
  ASSUME NEW c, Handle(c)
  PROVE  Keeps(c, AtStop(c))
BY AtStopShape, Zenon DEF OnlyWire, SameSession, Keeps, OwesConn

LEMMA ReadRowsLasts ==
  ASSUME NEW c, Handle(c), NEW of, NEW s \in ReadRows(c, of)
  PROVE  Lasts(c, s)
<1> DEFINE own == NextPacket(c).of = of
           x == AtStop(c)
           p == NextPacket(x)
           e == SafeRead(x, own)
           cut(k) == Outcome([c EXCEPT !.wire = SubSeq(@, k + 1, Len(@)), !.mixed = @ \/ ~own], "error")
<1>1. \/ s = Outcome([e EXCEPT !.server_status = p.flags], "ok") /\ p.kind \in EOFs
      \/ s = Outcome(e, "error")
      \/ \E k : s = cut(k)
  BY Zenon DEF ReadRows
<1>2. Keeps(c, x)
  BY AtStopKeeps, Zenon
<1>3. Keeps(x, e)
  BY <1>2, SafeReadKeeps, Zenon DEF Keeps
<1>4. p.kind \in EOFs /\ OwesConn(x) => e.owed = 0
  BY ReadOwesNothing, Zenon DEF EOFs
<1>5. ASSUME NEW k, s = cut(k)
      PROVE  Lasts(c, s)
  <2>1. PICK h : h = (c.mixed \/ ~own)
    BY Zenon
  <2>2. PICK w : w = SubSeq(c.wire, k + 1, Len(c.wire))
    BY Zenon
  <2>3. s.rc = "error" /\ s.c = [c EXCEPT !.wire = w, !.mixed = h]
    BY <1>5, <2>1, <2>2, Zenon DEF Outcome, Handle, Fields
  <2> QED
    BY <2>3, Zenon DEF Lasts, Handle, Fields
<1> HIDE DEF x, p, e, cut
<1>6. CASE s = Outcome([e EXCEPT !.server_status = p.flags], "ok") /\ p.kind \in EOFs
  <2>1. PICK y : y = [e EXCEPT !.server_status = p.flags]
    BY Zenon
  <2>2. Handle(e)
    BY <1>3, Zenon DEF Keeps
  <2>3. Handle(y) /\ y.open = e.open /\ (e.owed = 0 => OwesConn(y))
    BY <2>1, <2>2, StatusKeeps, Zenon
  <2>4. s.rc = "ok" /\ s.c = y
    BY <1>6, <2>1, Zenon DEF Outcome
  <2> QED
    BY <1>2, <1>3, <1>4, <1>6, <2>3, <2>4, Zenon DEF Keeps, Lasts
<1>7. CASE s = Outcome(e, "error")
  BY <1>2, <1>3, <1>7, Zenon DEF Outcome, Keeps, Lasts
<1> QED
  BY <1>1, <1>5, <1>6, <1>7, Zenon

LEMMA SkipResultKeeps ==
  ASSUME NEW c, Handle(c), NEW of
  PROVE  Keeps(c, SkipResult(c, of))
<1>1. Keeps(c, AtStop(c))
  BY AtStopKeeps, Zenon
<1>2. Keeps(AtStop(c), SkipResult(c, of))
  BY <1>1, SafeReadKeeps, Zenon DEF SkipResult, Keeps
<1> QED
  BY <1>1, <1>2, Zenon DEF Keeps

(* The fields that the calls set without looking.                            *)
LEMMA SettersKeep ==
  ASSUME NEW c, Handle(c), NEW of, NEW status
  PROVE  /\ Keeps(c, [c EXCEPT !.fields = of])
         /\ Keeps(c, [c EXCEPT !.status = status])
         /\ Keeps(c, [c EXCEPT !.fields = of, !.status = status])
         /\ Keeps(c, [c EXCEPT !.owed = 0])
         /\ Keeps(c, Unlinked(c))
BY ZenonT(40) DEF Unlinked, Keeps, OwesConn, Handle, Fields

LEMMA ReadQueryResultLasts ==
  ASSUME NEW c, Handle(c), NEW s \in ReadQueryResult(c)
  PROVE  Lasts(c, s)
<1> DEFINE p == NextPacket(c)
           e == SafeRead(c, p.of[1] = c.sent)
           f == [e EXCEPT !.fields = NULL]
           g == [f EXCEPT !.server_status = IF "AUTO" \in @ THEN @ ELSE @ \cup {"TRANS"}]
           defined(y) == [y EXCEPT !.fields = p.of, !.status = "GET_RESULT"]
<1>1. \/ s = Outcome(e, "error")
      \/ p.kind = "ok" /\ s = Outcome([f EXCEPT !.server_status = p.flags], "ok")
      \/ \E t \in ReadRows(g, p.of) :
           \/ t.rc = "error" /\ s = t
           \/ t.rc # "error" /\ s = Outcome(defined(t.c), "ok")
           \/ s = Outcome(t.c, "error")
  BY ZenonT(40) DEF ReadQueryResult
<1>2. Keeps(c, e)
  BY SafeReadKeeps, Zenon
<1>3. Keeps(e, f) /\ f.owed = e.owed
  BY <1>2, SettersKeep, ZenonT(20) DEF Keeps, Handle, Fields
<1>4. p.kind = "ok" /\ OwesConn(c) => e.owed = 0
  BY ReadOwesNothing, Zenon
<1> HIDE DEF p, e, f
<1>5. Keeps(f, g)
  <2>1. PICK a : a = IF "AUTO" \in f.server_status THEN f.server_status ELSE f.server_status \cup {"TRANS"}
    BY Zenon
  <2>2. "TRANS" \in f.server_status => "TRANS" \in a
    BY <2>1, Zenon
  <2>3. g = [f EXCEPT !.server_status = a]
    BY <1>3, <2>1, Zenon DEF Keeps, Handle, Fields
  <2> QED
    BY <1>3, <2>2, <2>3, ZenonT(20) DEF Keeps, OwesConn, Handle, Fields
<1> HIDE DEF g
<1>6. Keeps(c, g)
  BY <1>2, <1>3, <1>5, Zenon DEF Keeps
<1>7. CASE s = Outcome(e, "error")
  BY <1>2, <1>7, Zenon DEF Outcome, Keeps, Lasts
<1>8. CASE p.kind = "ok" /\ s = Outcome([f EXCEPT !.server_status = p.flags], "ok")
  <2>1. PICK y : y = [f EXCEPT !.server_status = p.flags]
    BY Zenon
  <2>2. Handle(y) /\ y.open = f.open /\ (f.owed = 0 => OwesConn(y))
    BY <1>3, <2>1, StatusKeeps, Zenon DEF Keeps
  <2>3. s.rc = "ok" /\ s.c = y
    BY <1>8, <2>1, Zenon DEF Outcome
  <2> QED
    BY <1>2, <1>3, <1>4, <1>8, <2>2, <2>3, Zenon DEF Keeps, Lasts
<1>9. ASSUME NEW t \in ReadRows(g, p.of)
      PROVE  /\ Lasts(c, t)
             /\ t.rc # "error" => Lasts(c, Outcome(defined(t.c), "ok"))
             /\ Lasts(c, Outcome(t.c, "error"))
  <2>1. Lasts(g, t)
    BY <1>6, ReadRowsLasts, Zenon DEF Keeps
  <2>2. Lasts(c, t)
    BY <1>6, <2>1, Zenon DEF Keeps, Lasts
  <2>3. PICK y : y = t.c
    BY Zenon
  <2>4. Handle(y) /\ y.open = c.open /\ (OwesConn(c) /\ t.rc = "ok" => OwesConn(y))
    BY <2>2, <2>3, Zenon DEF Lasts
  <2>5. PICK z : z = defined(y)
    BY Zenon
  <2>6. Keeps(y, z)
    BY <2>4, <2>5, SettersKeep, Zenon
  <2> HIDE DEF defined
  <2>7. t.rc # "error" => Lasts(c, Outcome(z, "ok"))
    BY <2>2, <2>4, <2>6, Zenon DEF Outcome, Keeps, Lasts
  <2>8. Lasts(c, Outcome(y, "error"))
    BY <2>4, Zenon DEF Outcome, Lasts
  <2> QED
    BY <2>2, <2>3, <2>5, <2>7, <2>8, Zenon
<1> HIDE DEF defined
<1> QED
  BY <1>1, <1>7, <1>8, <1>9, Zenon

LEMMA SimpleCommandLasts ==
  ASSUME NEW c, Handle(c), NEW com \in TextCommands, NEW s \in SimpleCommand(c, com)
  PROVE  Lasts(c, s)
<1> DEFINE answered(x) == Outcome(SafeRead(x, NextPacket(x).of[1] = x.sent),
                             IF NextPacket(x).kind \in {"err", "lost"} THEN "error" ELSE "ok")
<1>1. PICK t \in SendCmd(c, Command(com)) :
        s = t \/ (t.rc = "ok" /\ s = answered(t.c))
  BY Zenon DEF SimpleCommand
<1>2. Lasts(c, t)
  BY SendCmdLasts, Zenon
<1>3. CASE t.rc = "ok" /\ s = answered(t.c)
  <2>1. PICK x : x = t.c
    BY Zenon
  <2>2. Keeps(x, SafeRead(x, NextPacket(x).of[1] = x.sent))
    BY <1>2, <2>1, SafeReadKeeps, Zenon DEF Lasts
  <2>3. s.c = SafeRead(x, NextPacket(x).of[1] = x.sent) /\ s.rc \in {"ok", "error"}
    BY <1>3, <2>1, Zenon DEF Outcome
  <2> QED
    BY <1>2, <1>3, <2>1, <2>2, <2>3, Zenon DEF Keeps, Lasts
<1> QED
  BY <1>1, <1>2, <1>3, Zenon

LEMMA TwiceCommandShape ==
  ASSUME NEW c, Handle(c), NEW com \in TextCommands, NEW s \in TwiceCommand(c, com)
  PROVE  Handle(s.c) /\ s.c.open = c.open
<1>1. PICK t \in SimpleCommand(c, com) : s = t \/ s \in SimpleCommand(t.c, com)
  BY Zenon DEF TwiceCommand
<1>2. Handle(t.c) /\ t.c.open = c.open
  BY SimpleCommandLasts, Zenon DEF Lasts
<1>3. PICK x : x = t.c
  BY Zenon
<1>4. s \in SimpleCommand(x, com) => Handle(s.c) /\ s.c.open = x.open
  BY <1>2, <1>3, SimpleCommandLasts, Zenon DEF Lasts
<1> QED
  BY <1>1, <1>2, <1>3, <1>4, Zenon

LEMMA ChangeUserLasts ==
  ASSUME NEW c, Handle(c), NEW s \in ChangeUserOutcomes(c)
  PROVE  Lasts(c, s)
<1> DEFINE e(x) == SafeRead(x, NextPacket(x).of[1] = x.sent)
<1>1. PICK t \in SendCmd(c, Command("CHANGE_USER")) :
        \/ s = Outcome(t.c, "error")
        \/ s = Outcome(e(t.c), "error")
        \/ s = Outcome([e(t.c) EXCEPT !.server_status = NextPacket(t.c).flags, !.owed = 0], "ok")
  BY Zenon DEF ChangeUserOutcomes, Outcome
<1>2. Lasts(c, t)
  BY SendCmdLasts, Zenon DEF TextCommands
<1>3. PICK x : x = t.c
  BY Zenon
<1>4. Handle(x) /\ x.open = c.open
  BY <1>2, <1>3, Zenon DEF Lasts
<1>5. PICK y : y = e(x)
  BY Zenon
<1>6. Handle(y) /\ y.open = c.open
  BY <1>4, <1>5, SafeReadKeeps, Zenon DEF Keeps
<1> HIDE DEF e
<1>7. PICK flags : flags = NextPacket(x).flags
  BY Zenon
<1>8. CASE s = Outcome([y EXCEPT !.server_status = flags, !.owed = 0], "ok")
  BY <1>6, <1>8, Zenon DEF Outcome, Lasts, OwesConn, Handle, Fields
<1>9. CASE s = Outcome(x, "error") \/ s = Outcome(y, "error")
  BY <1>4, <1>6, <1>9 DEF Outcome, Lasts
<1> QED
  BY <1>1, <1>3, <1>5, <1>7, <1>8, <1>9, Zenon

(* What is told is not owed any more.                                        *)
LEMMA ToldKeeps ==
  ASSUME NEW c, NEW s, Lasts(c, s), OwesConn(c)
  PROVE  OwesConn(Told(s)) /\ Told(s).open = c.open
<1>1. PICK x : x = s.c
  BY Zenon
<1>2. CASE s.rc = "error"
  <2>1. Told(s) = [x EXCEPT !.owed = 0] /\ Handle(x) /\ x.open = c.open
    BY <1>1, <1>2, Zenon DEF Told, Lasts
  <2> QED
    BY <2>1, Zenon DEF OwesConn, Handle, Fields
<1>3. CASE s.rc = "ok"
  BY <1>3, Zenon DEF Told, Lasts
<1> QED
  BY <1>2, <1>3, Zenon DEF Lasts

(* A call of the application: the handle is open and stays open.             *)
Goes == conn.open /\ OwesConn(conn) /\ OwesConn(conn') /\ conn'.open = conn.open

LEMMA OwesQuery ==
  ASSUME OwesInv, RealQuery \/ NextResult
  PROVE  Goes
<1>1. conn.open /\ OwesConn(conn) /\ Handle(conn)
  BY Zenon DEF OwesInv, OwesConn, RealQuery, NextResult, MaySend, May
<1>2. CASE NextResult
  <2>1. PICK s \in ReadQueryResult(conn) : conn' = Told(s)
    BY <1>2, Zenon DEF NextResult
  <2>2. Lasts(conn, s)
    BY <1>1, ReadQueryResultLasts, Zenon
  <2> QED
    BY <1>1, <2>1, <2>2, ToldKeeps, Zenon DEF Goes
<1>3. CASE RealQuery
  <2>1. PICK c : c = FreeOldQuery(conn)
    BY Zenon
  <2>2. Keeps(conn, c)
    BY <1>1, <2>1, SettersKeep, Zenon DEF FreeOldQuery
  <2>3. PICK s \in QueryOutcomes(conn) : conn' = Told(s)
    BY <1>3, Zenon DEF RealQuery
  <2>4. PICK t \in SendCmd(c, Command("QUERY")) :
          s = t \/ (t.rc = "ok" /\ s \in ReadQueryResult(t.c))
    BY <2>1, <2>3, Zenon DEF QueryOutcomes
  <2>5. Lasts(c, t)
    BY <2>2, SendCmdLasts, Zenon DEF Keeps, TextCommands
  <2>6. PICK x : x = t.c
    BY Zenon
  <2>7. s \in ReadQueryResult(x) => Lasts(x, s)
    BY <2>5, <2>6, ReadQueryResultLasts, Zenon DEF Lasts
  <2>8. Lasts(c, s)
    BY <2>4, <2>5, <2>6, <2>7, Zenon DEF Lasts
  <2>9. OwesConn(Told(s)) /\ Told(s).open = c.open
    BY <1>1, <2>2, <2>8, ToldKeeps, Zenon DEF Keeps
  <2> QED
    BY <1>1, <2>2, <2>3, <2>9, Zenon DEF Keeps, Goes
<1> QED
  BY <1>2, <1>3, Zenon

LEMMA OwesStore ==
  ASSUME OwesInv, NEW r \in Results, StoreResult(r)
  PROVE  Goes
<1>1. conn.open /\ OwesConn(conn) /\ Handle(conn)
  BY Zenon DEF OwesInv, OwesConn, StoreResult, May
<1>2. PICK c : c = Ready(conn)
  BY Zenon
<1>3. Keeps(conn, c)
  BY <1>1, <1>2, SettersKeep, Zenon DEF Ready
<1>4. PICK s : /\ s \in ReadRows(c, c.fields) \/ s = Outcome(c, "error")
               /\ conn' = IF s.rc = "ok" THEN FreeOldQuery(s.c) ELSE Told(s)
  BY <1>2, Zenon DEF StoreResult
<1>5. Lasts(c, s)
  <2>1. CASE s \in ReadRows(c, c.fields)
    BY <1>3, <2>1, ReadRowsLasts, Zenon DEF Keeps
  <2>2. CASE s = Outcome(c, "error")
    BY <1>3, <2>2, Zenon DEF Outcome, Keeps, Lasts
  <2> QED
    BY <1>4, <2>1, <2>2, Zenon
<1>6. CASE s.rc = "ok"
  <2>1. PICK x : x = s.c
    BY Zenon
  <2>2. OwesConn(x) /\ Handle(x) /\ x.open = conn.open
    BY <1>1, <1>3, <1>5, <1>6, <2>1, Zenon DEF Keeps, Lasts, OwesConn
  <2>3. Keeps(x, [x EXCEPT !.fields = NULL])
    BY <2>2, SettersKeep, Zenon
  <2>4. conn' = [x EXCEPT !.fields = NULL]
    BY <1>4, <1>6, <2>1, Zenon DEF FreeOldQuery
  <2> QED
    BY <1>1, <2>2, <2>3, <2>4, Zenon DEF Keeps, Goes
<1>7. CASE s.rc # "ok"
  <2>1. OwesConn(Told(s)) /\ Told(s).open = c.open
    BY <1>1, <1>3, <1>5, ToldKeeps, Zenon DEF Keeps
  <2> QED
    BY <1>1, <1>3, <1>4, <1>7, <2>1, Zenon DEF Keeps, Goes
<1> QED
  BY <1>6, <1>7, Zenon

LEMMA OwesFetch ==
  ASSUME OwesInv, NEW r \in Results, FetchRow(r)
  PROVE  Goes
<1> DEFINE p == NextPacket(conn)
           e == SafeRead(conn, p.of = res[r].of)
<1>1. conn.open /\ OwesConn(conn) /\ Handle(conn)
  BY Zenon DEF OwesInv, OwesConn, FetchRow, May
<1>2. \/ conn' = e
      \/ p.kind \in EOFs /\ conn' = Ready([e EXCEPT !.server_status = p.flags])
      \/ conn' = Told(Outcome(Ready(e), "error"))
  BY Zenon DEF FetchRow
<1>3. Keeps(conn, e)
  BY <1>1, SafeReadKeeps, Zenon
<1>4. p.kind \in EOFs => e.owed = 0
  BY <1>1, ReadOwesNothing, ZenonT(20) DEF EOFs
<1> HIDE DEF p, e
<1>5. CASE conn' = e
  BY <1>1, <1>3, <1>5, Zenon DEF Keeps, Goes
<1>6. CASE p.kind \in EOFs /\ conn' = Ready([e EXCEPT !.server_status = p.flags])
  <2>1. PICK y : y = [e EXCEPT !.server_status = p.flags]
    BY Zenon
  <2>2. Handle(y) /\ y.open = e.open /\ OwesConn(y)
    BY <1>3, <1>4, <1>6, <2>1, StatusKeeps, Zenon DEF Keeps
  <2>3. Keeps(y, Ready(y))
    BY <2>2, SettersKeep, Zenon DEF Ready
  <2> QED
    BY <1>1, <1>3, <1>6, <2>1, <2>2, <2>3, Zenon DEF Keeps, Goes
<1>7. CASE conn' = Told(Outcome(Ready(e), "error"))
  <2>1. PICK y : y = Ready(e)
    BY Zenon
  <2>2. Keeps(e, y)
    BY <1>3, <2>1, SettersKeep, Zenon DEF Ready, Keeps
  <2>3. Lasts(conn, Outcome(y, "error"))
    BY <1>3, <2>2, Zenon DEF Outcome, Keeps, Lasts
  <2>4. OwesConn(Told(Outcome(y, "error"))) /\ Told(Outcome(y, "error")).open = conn.open
    BY <1>1, <2>3, ToldKeeps, Zenon
  <2> QED
    BY <1>1, <1>7, <2>1, <2>4, Zenon DEF Goes
<1> QED
  BY <1>2, <1>5, <1>6, <1>7, Zenon

LEMMA OwesUseFree ==
  ASSUME OwesInv, NEW r \in Results, UseResult(r) \/ FreeResult(r)
  PROVE  Goes
<1>1. conn.open /\ OwesConn(conn) /\ Handle(conn)
  BY Zenon DEF OwesInv, OwesConn, UseResult, FreeResult, May
<1>2. CASE conn' = [conn EXCEPT !.fields = NULL, !.status = "USE_RESULT"]
  <2>1. Keeps(conn, [conn EXCEPT !.fields = NULL, !.status = "USE_RESULT"])
    BY <1>1, SettersKeep, Zenon
  <2> QED
    BY <1>1, <1>2, <2>1, Zenon DEF Keeps, Goes
<1>3. CASE conn' = Ready(SkipResult(conn, res[r].of))
  <2>1. PICK x : x = SkipResult(conn, res[r].of)
    BY Zenon
  <2>2. Keeps(conn, x)
    BY <1>1, <2>1, SkipResultKeeps, Zenon
  <2>3. Keeps(x, Ready(x))
    BY <2>2, SettersKeep, Zenon DEF Ready, Keeps
  <2> QED
    BY <1>1, <1>3, <2>1, <2>2, <2>3, Zenon DEF Keeps, Goes
<1>4. CASE conn' = conn
  BY <1>1, <1>4, Zenon DEF Goes
<1> QED
  BY <1>2, <1>3, <1>4, Zenon DEF UseResult, FreeResult

LEMMA OwesSimple ==
  ASSUME OwesInv, Simple
  PROVE  Goes
<1>1. conn.open /\ OwesConn(conn) /\ Handle(conn)
  BY Zenon DEF OwesInv, OwesConn, Simple, MaySend, May
<1>2. PICK s \in SimpleCommand(conn, "SIMPLE") : conn' = Told(s)
  BY Zenon DEF Simple
<1>3. Lasts(conn, s)
  BY <1>1, SimpleCommandLasts, Zenon DEF TextCommands
<1> QED
  BY <1>1, <1>2, <1>3, ToldKeeps, Zenon DEF Goes

(* A reset that succeeds settles what was owed, as the application asked for *)
(* a session without transaction.                                            *)
LEMMA OwesReset ==
  ASSUME OwesInv, ResetConnection
  PROVE  Goes
<1>1. conn.open /\ OwesConn(conn) /\ Handle(conn)
  BY Zenon DEF OwesInv, OwesConn, ResetConnection, MaySend, May
<1>2. PICK c : c = SkipPending(conn)
  BY Zenon
<1>3. Keeps(conn, c)
  <2>1. CASE c = conn
    BY <1>1, <2>1, Zenon DEF Keeps
  <2>2. CASE c = Ready(SkipResult(conn, NextPacket(conn).of))
    <3>1. PICK x : x = SkipResult(conn, NextPacket(conn).of)
      BY Zenon
    <3>2. Keeps(conn, x)
      BY <1>1, <3>1, SkipResultKeeps, Zenon
    <3>3. Keeps(x, Ready(x))
      BY <3>2, SettersKeep, Zenon DEF Ready, Keeps
    <3> QED
      BY <2>2, <3>1, <3>2, <3>3, Zenon DEF Keeps
  <2> QED
    BY <1>2, <2>1, <2>2, Zenon DEF SkipPending
<1>4. PICK s \in TwiceCommand(c, "RESET_CONNECTION") :
        conn' = IF s.rc = "error" THEN Told(s)
                ELSE [Ready(FreeOldQuery(Unlinked(s.c))) EXCEPT !.owed = 0]
  BY <1>2, Zenon DEF ResetConnection
<1>5. PICK x : x = s.c
  BY Zenon
<1>6. Handle(x) /\ x.open = conn.open
  BY <1>3, <1>5, TwiceCommandShape, Zenon DEF Keeps, TextCommands
<1>7. PICK y : y = Unlinked(x)
  BY Zenon
<1>8. Handle(y) /\ y.open = conn.open
  BY <1>6, <1>7, SettersKeep, Zenon DEF Keeps
<1>9. CASE conn' = [x EXCEPT !.owed = 0]
  BY <1>1, <1>6, <1>9, Zenon DEF Goes, OwesConn, Handle, Fields
<1>10. CASE conn' = [Ready(FreeOldQuery(y)) EXCEPT !.owed = 0]
  BY <1>1, <1>8, <1>10, Zenon DEF Ready, FreeOldQuery, Goes, OwesConn, Handle, Fields
<1> QED
  BY <1>4, <1>5, <1>7, <1>9, <1>10, Zenon DEF Told

LEMMA OwesChangeUser ==
  ASSUME OwesInv, ChangeUser
  PROVE  Goes
<1>1. conn.open /\ OwesConn(conn) /\ Handle(conn)
  BY Zenon DEF OwesInv, OwesConn, ChangeUser, MaySend, May
<1>2. PICK s \in ChangeUserOutcomes(conn) : conn' = Unlinked(Told(s))
  BY Zenon DEF ChangeUser
<1>3. Lasts(conn, s)
  BY <1>1, ChangeUserLasts, Zenon
<1>4. PICK x : x = Told(s)
  BY Zenon
<1>5. OwesConn(x) /\ x.open = conn.open
  BY <1>1, <1>3, <1>4, ToldKeeps, Zenon
<1>6. Keeps(x, Unlinked(x))
  BY <1>5, SettersKeep, Zenon DEF OwesConn
<1> QED
  BY <1>1, <1>2, <1>4, <1>5, <1>6, Zenon DEF Keeps, Goes

LEMMA OwesDies ==
  ASSUME OwesInv, ServerDies
  PROVE  Goes
<1>1. PICK w : conn' = [conn EXCEPT !.wire = w]
  BY Zenon DEF ServerDies, OwesInv, OwesConn, Handle, Fields
<1>2. conn.open /\ OwesConn(conn) /\ conn.pvio
  BY Zenon DEF OwesInv, ServerDies
<1> QED
  BY <1>1, <1>2, Zenon DEF Goes, OwesConn, Handle, Fields

LEMMA OwesClose ==
  ASSUME OwesInv, Close \/ Connect
  PROVE  OwesInv'
<1>1. OwesConn(conn) /\ Handle(conn)
  BY Zenon DEF OwesInv, OwesConn
<1>2. CASE Close
  <2>1. PICK x : x = EndServer(Ready(conn))
    BY Zenon
  <2>2. Handle(Ready(conn))
    BY <1>1, Zenon DEF Ready, Handle, Fields
  <2>3. Handle(x) /\ ~x.pvio
    BY <2>1, <2>2, EndServerShape, Zenon DEF SameSession
  <2>4. PICK y : y = Unlinked(x)
    BY Zenon
  <2>5. Handle(y) /\ ~y.pvio
    BY <2>3, <2>4, Zenon DEF Unlinked, Handle, Fields
  <2>6. conn' = [y EXCEPT !.open = FALSE, !.owed = 0]
    BY <1>2, <2>1, <2>4, Zenon DEF Close
  <2> QED
    BY <2>5, <2>6, Zenon DEF OwesInv, OwesConn, Handle, Fields
<1>3. CASE Connect
  <2>1. PICK x : x = Fresh(conn)
    BY Zenon
  <2>2. Handle(x) /\ x.owed = 0
    BY <1>1, <1>3, <2>1, FreshShape, Zenon DEF Connect, OwesInv
  <2>3. conn' = [x EXCEPT !.open = TRUE]
    BY <1>3, <2>1, Zenon DEF Connect
  <2> QED
    BY <2>2, <2>3, Zenon DEF OwesInv, OwesConn, Handle, Fields
<1> QED
  BY <1>2, <1>3, Zenon

LEMMA OwesInit ==
  ASSUME Init
  PROVE  OwesInv
<1>1. PICK c : c = [open |-> TRUE, pvio |-> FALSE, status |-> "READY", server_status |-> {},
                   fields |-> NULL, multi |-> FALSE, batch |-> <<>>,
                   stmts |-> [s \in Stmts |-> NoHandle],
                   wire |-> <<>>, sent |-> 0, ids |-> <<>>, last |-> 0, misrouted |-> FALSE,
                   ses |-> 0, hung |-> FALSE, spins |-> FALSE, mixed |-> FALSE, owed |-> 0]
  BY Zenon
<1>2. Handle(c) /\ c.open /\ c.owed = 0
  BY <1>1, Zenon DEF Handle, Fields
<1>3. conn = Fresh(c)
  BY <1>1, Zenon DEF Init
<1>4. Handle(conn) /\ conn.open /\ conn.owed = 0
  BY <1>2, <1>3, FreshShape, Zenon
<1> QED
  BY <1>4, Zenon DEF OwesInv, OwesConn

(* When a connection is lost in a transaction the application gets an error  *)
(* before anything is sent on a new connection, whatever the server answers, *)
(* whichever allocation fails and however many connections are made, if the  *)
(* application does not call mysql_ping (mariadb_reconnect, end_server).     *)
THEOREM TransactionNotSplitHolds ==
  ASSUME "ping" \notin Calls
  PROVE  Spec => []TransactionNotSplit
<1>1. Init => OwesInv
  BY OwesInit, Zenon
<1>2. OwesInv /\ [Next]_vars => OwesInv'
  <2> SUFFICES ASSUME OwesInv, [Next]_vars
               PROVE  OwesInv'
    BY Zenon
  <2>1. CASE Close \/ Connect
    BY <2>1, OwesClose, Zenon
  <2>2. CASE Goes
    BY <2>2, Zenon DEF Goes, OwesInv
  <2>3. CASE UNCHANGED vars
    BY <2>3, Zenon DEF vars, OwesInv, OwesConn
  <2>4. ~Ping
    BY Zenon DEF Ping, MaySend, May
  <2>5. Next => Goes \/ Close \/ Connect
    BY <2>4, OwesQuery, OwesStore, OwesFetch, OwesUseFree, OwesSimple, OwesReset, OwesChangeUser,
       OwesDies, Zenon DEF Next, Others
  <2> QED
    BY <2>1, <2>2, <2>3, <2>5, Zenon
<1>3. OwesInv => TransactionNotSplit
  BY Zenon DEF OwesInv, OwesConn, TransactionNotSplit
<1> QED
  BY <1>1, <1>2, <1>3, PTL DEF Spec

---------------------------------------------------------------------------
(* Packets on the wire.                                                      *)

LEMMA WireOf ==
  ASSUME NEW w, Wire(w)
  PROVE  /\ w \in Seq(Packets) /\ Len(w) \in Nat
         /\ \A i \in 1..Len(w) : w[i] \in Packets
         /\ w # <<>> => Len(w) > 0 /\ w[1] \in Packets
BY DEF Wire, Ordered

LEMMA WireTail ==
  ASSUME NEW w, Wire(w), w # <<>>
  PROVE  /\ Wire(Tail(w))
         /\ Tail(w) # <<>> => Follows(w[1], Tail(w)[1])
         /\ Tail(w) = <<>> => ~Continues(w[1])
<1>1. w \in Seq(Packets) /\ Len(w) \in Nat /\ Len(w) > 0
  BY WireOf, Zenon
<1>2. PICK n \in Nat : n = Len(w)
  BY <1>1, Zenon
<1>3. PICK v : v = Tail(w)
  BY Zenon
<1>4. v \in Seq(Packets) /\ Len(v) = n - 1 /\ \A i \in 1..(n - 1) : v[i] = w[i + 1]
  BY <1>1, <1>2, <1>3
<1>5. \A i \in 1..(n - 1) : Follows(w[i], w[i + 1])
  BY <1>2, Zenon DEF Wire, Ordered
<1>6. \A i \in 1..(Len(v) - 1) : Follows(v[i], v[i + 1])
  <2> SUFFICES ASSUME NEW i \in 1..(Len(v) - 1)
               PROVE  Follows(v[i], v[i + 1])
    BY Zenon
  <2>1. i \in 1..(n - 1) /\ i + 1 \in 1..(n - 1) /\ (i + 1) + 1 \in Nat
    BY <1>4
  <2> QED
    BY <1>4, <1>5, <2>1, Zenon
<1>7. v # <<>> => ~Continues(v[Len(v)])
  <2> SUFFICES ASSUME v # <<>>
               PROVE  ~Continues(v[Len(v)])
    BY Zenon
  <2>1. n - 1 \in 1..(n - 1) /\ (n - 1) + 1 = n
    BY <1>4
  <2>2. v[n - 1] = w[n]
    BY <1>4, <2>1, Zenon
  <2> QED
    BY <1>1, <1>2, <1>4, <2>2, Zenon DEF Wire, Ordered
<1>8. \A i \in 1..Len(v) : /\ v[i].kind \notin {"prep", "defs"}
                           /\ v[i].kind = "lost" => i = Len(v) /\ v[i] = Lost
  <2> SUFFICES ASSUME NEW i \in 1..(n - 1)
               PROVE  /\ w[i + 1].kind \notin {"prep", "defs"}
                      /\ w[i + 1].kind = "lost" => i + 1 = n /\ w[i + 1] = Lost
    BY <1>4
  <2>1. i + 1 \in 1..n
    OBVIOUS
  <2> QED
    BY <1>2, <2>1, Zenon DEF Wire
<1>9. Wire(v)
  BY <1>4, <1>6, <1>7, <1>8, Zenon DEF Wire, Ordered
<1>10. v # <<>> => Follows(w[1], v[1])
  <2> SUFFICES ASSUME v # <<>>
               PROVE  Follows(w[1], v[1])
    BY Zenon
  <2>1. 1 \in 1..(n - 1)
    BY <1>4
  <2> QED
    BY <1>4, <1>5, <2>1, Zenon
<1>11. v = <<>> => ~Continues(w[1])
  <2>1. v = <<>> => n = 1
    BY <1>4
  <2> QED
    BY <1>1, <1>2, <2>1, Zenon DEF Wire, Ordered
<1> QED
  BY <1>3, <1>9, <1>10, <1>11, Zenon

(* Nothing but the loss of the connection comes behind a packet that does    *)
(* not continue.                                                             *)
LEMMA WireEnds ==
  ASSUME NEW w, Wire(w), w # <<>>, ~Continues(w[1]), w[1].kind \notin {"prep", "defs"}
  PROVE  Tail(w) \in {<<>>, <<Lost>>}
<1>1. PICK v : v = Tail(w)
  BY Zenon
<1>2. Wire(v) /\ (v # <<>> => Follows(w[1], v[1]))
  BY <1>1, WireTail, Zenon
<1>3. CASE v # <<>>
  <2>1. v[1].kind = "lost"
    BY <1>2, <1>3, Zenon DEF Follows, Continues
  <2>2. v \in Seq(Packets) /\ Len(v) > 0 /\ Len(v) \in Nat
    BY <1>2, <1>3, WireOf, Zenon
  <2>3. Len(v) = 1 /\ v[1] = Lost
    <3>1. 1 \in 1..Len(v)
      BY <2>2
    <3> QED
      BY <1>2, <2>1, <3>1, Zenon DEF Wire
  <2>4. v = <<Lost>>
    BY <2>2, <2>3
  <2> QED
    BY <1>1, <2>4, Zenon
<1> QED
  BY <1>1, <1>3, Zenon

(* What follows a packet that continues.                                     *)
LEMMA WireGoesOn ==
  ASSUME NEW w, Wire(w), w # <<>>, Continues(w[1])
  PROVE  /\ Tail(w) # <<>> /\ Wire(Tail(w)) /\ Follows(w[1], Tail(w)[1])
         /\ Tail(w)[1].kind \notin {"prep", "defs"}
<1>1. PICK v : v = Tail(w)
  BY Zenon
<1>2. v # <<>> /\ Wire(v) /\ Follows(w[1], v[1])
  BY <1>1, WireTail, Zenon
<1>3. Len(v) \in Nat /\ Len(v) > 0
  BY <1>2, WireOf, Zenon
<1>4. v[1].kind \notin {"prep", "defs"}
  BY <1>2, <1>3 DEF Wire
<1> QED
  BY <1>1, <1>2, <1>4, Zenon

LEMMA Smallest ==
  ASSUME NEW S, S \subseteq Nat, S # {}
  PROVE  \E x \in S : \A y \in S : x <= y
<1> DEFINE R == OpToRel(<, Nat)
<1>1. IsWellFoundedOn(R, Nat)
  BY NatLessThanWellFounded, Zenon
<1> HIDE DEF R
<1>2. PICK x \in S : \A y \in S : <<y, x>> \notin R
  BY <1>1, WFMin, Zenon
<1>3. ASSUME NEW y \in S
      PROVE  x <= y
  <2>1. x \in Nat /\ y \in Nat
    BY Zenon
  <2>2. y < x => <<y, x>> \in R
    BY <2>1, Zenon DEF R, OpToRel
  <2> QED
    BY <1>2, <2>1, <2>2
<1> QED
  BY <1>3, Zenon

LEMMA WireFrom ==
  ASSUME NEW w, Wire(w), NEW j \in 1..Len(w)
  PROVE  LET v == SubSeq(w, j, Len(w)) IN Wire(v) /\ v # <<>> /\ v[1] = w[j]
<1>1. w \in Seq(Packets) /\ Len(w) \in Nat
  BY WireOf, Zenon
<1>2. PICK n \in Nat : n = Len(w)
  BY <1>1, Zenon
<1>3. PICK v : v = SubSeq(w, j, n)
  BY Zenon
<1>4. j \in 1..n /\ \A i \in j..n : w[i] \in Packets
  BY <1>1, <1>2
<1>5. /\ v \in Seq(Packets) /\ Len(v) = n - j + 1
      /\ \A i \in 1..(n - j + 1) : v[i] = w[j + i - 1]
  BY <1>3, <1>4, SubSeqProperties
<1>6. \A i \in 1..(n - 1) : Follows(w[i], w[i + 1])
  BY <1>2, Zenon DEF Wire, Ordered
<1>7. \A i \in 1..(Len(v) - 1) : Follows(v[i], v[i + 1])
  <2> SUFFICES ASSUME NEW i \in 1..(n - j)
               PROVE  Follows(v[i], v[i + 1])
    BY <1>4, <1>5
  <2>1. /\ i \in 1..(n - j + 1) /\ i + 1 \in 1..(n - j + 1) /\ j + i - 1 \in 1..(n - 1)
        /\ j + (i + 1) - 1 = (j + i - 1) + 1
    BY <1>4
  <2> QED
    BY <1>5, <1>6, <2>1, Zenon
<1>8. ~Continues(v[Len(v)])
  <2>1. n - j + 1 \in 1..(n - j + 1) /\ j + (n - j + 1) - 1 = n
    BY <1>4
  <2>2. v[Len(v)] = w[n]
    BY <1>5, <2>1, Zenon
  <2>3. w # <<>>
    BY <1>2, <1>4
  <2> QED
    BY <1>2, <2>2, <2>3, Zenon DEF Wire, Ordered
<1>9. \A i \in 1..Len(v) : /\ v[i].kind \notin {"prep", "defs"}
                           /\ v[i].kind = "lost" => i = Len(v) /\ v[i] = Lost
  <2> SUFFICES ASSUME NEW i \in 1..(n - j + 1)
               PROVE  /\ v[i].kind \notin {"prep", "defs"}
                      /\ v[i].kind = "lost" => i = n - j + 1 /\ v[i] = Lost
    BY <1>5, Zenon
  <2>1. j + i - 1 \in 1..n /\ (j + i - 1 = n => i = n - j + 1)
    BY <1>4
  <2>2. v[i] = w[j + i - 1]
    BY <1>5, Zenon
  <2> QED
    BY <1>2, <2>1, <2>2, Zenon DEF Wire
<1>10. Wire(v)
  BY <1>5, <1>7, <1>8, <1>9, Zenon DEF Wire, Ordered
<1>11. v # <<>> /\ v[1] = w[j]
  <2>1. 1 \in 1..(n - j + 1) /\ j + 1 - 1 = j
    BY <1>4
  <2> QED
    BY <1>5, <2>1
<1> QED
  BY <1>2, <1>3, <1>10, <1>11, Zenon

(* The loop over the packets of a result stops at its EOF, at an error, or   *)
(* where the connection was lost; what it has seen belongs to one result.    *)
RowKinds == {"row", "eof", "err", "lost"}
LastOf(p, s) ==
  /\ s.kind \in {"eof", "err", "lost"}
  /\ s.kind = "eof" => p.kind \in {"row", "eof"} /\ s.flags = p.flags
  /\ s.kind # "lost" => p.kind # "lost" /\ s.of = p.of

LEMMA RowsStop ==
  ASSUME NEW w, Wire(w), w # <<>>, w[1].kind \in RowKinds
  PROVE  \E j \in Stops(w) : (\A i \in Stops(w) : j <= i) /\ LastOf(w[1], w[j])
<1>1. w \in Seq(Packets) /\ Len(w) \in Nat /\ Len(w) > 0
  BY WireOf, Zenon
<1>2. PICK n \in Nat : n = Len(w) /\ n > 0
  BY <1>1, Zenon
<1>3. \A i \in 1..(n - 1) : Follows(w[i], w[i + 1])
  BY <1>2, Zenon DEF Wire, Ordered
<1> DEFINE S == {i \in 1..n : w[i].kind # "row"}
<1>4. n \in S
  BY <1>1, <1>2 DEF Wire, Ordered, Continues
<1>5. PICK j \in S : \A i \in S : j <= i
  <2>1. S \subseteq Nat /\ S # {}
    BY <1>4
  <2> HIDE DEF S
  <2> QED
    BY <2>1, Smallest, Zenon
<1>6. j \in 1..n /\ w[j].kind # "row" /\ \A i \in 1..n : i < j => w[i].kind = "row"
  BY <1>5
<1> HIDE DEF S
<1> DEFINE Same(i) == LastOf(w[1], w[i]) \/ (w[i].kind = "row" /\ w[1].kind = "row"
                                             /\ w[i].flags = w[1].flags /\ w[i].of = w[1].of)
           T == {i \in 1..j : ~Same(i)}
<1>7. Same(1)
  BY Zenon DEF RowKinds, LastOf
<1>8. ASSUME NEW k \in 1..n, k > 1, k <= j, Same(k - 1)
      PROVE  Same(k)
  <2>1. k - 1 \in 1..(n - 1) /\ (k - 1) + 1 = k /\ k - 1 < j /\ k - 1 \in 1..n
    BY <1>6, <1>8
  <2>2. w[k - 1].kind = "row"
    BY <1>6, <2>1, Zenon
  <2>3. w[1].kind = "row" /\ w[k - 1].flags = w[1].flags /\ w[k - 1].of = w[1].of
    BY <1>8, <2>2, Zenon DEF LastOf
  <2>4. Follows(w[k - 1], w[k])
    BY <1>3, <2>1, Zenon
  <2> QED
    BY <2>2, <2>3, <2>4, Zenon DEF Follows, LastOf
<1>9. T = {}
  <2> SUFFICES ASSUME T # {}
               PROVE  FALSE
    BY Zenon
  <2>1. T \subseteq Nat
    BY <1>6
  <2>2. \A i : i \in T <=> i \in 1..j /\ ~Same(i)
    BY Zenon
  <2> HIDE DEF T
  <2>3. PICK k \in T : \A i \in T : k <= i
    BY <2>1, Smallest, Zenon
  <2> HIDE DEF Same
  <2>4. k \in 1..j /\ ~Same(k) /\ k # 1
    BY <1>7, <2>2, <2>3, Zenon
  <2>5. k \in 1..n /\ k > 1 /\ k <= j /\ k - 1 \in 1..j /\ ~(k <= k - 1)
    BY <1>6, <2>4
  <2>6. Same(k - 1)
    BY <2>2, <2>3, <2>5, Zenon
  <2> QED
    BY <1>8, <2>4, <2>5, <2>6, Zenon
<1>10. LastOf(w[1], w[j])
  <2>1. Same(j)
    BY <1>6, <1>9
  <2> QED
    BY <1>6, <2>1, Zenon
<1>11. j \in Stops(w)
  BY <1>2, <1>6, <1>10, Zenon DEF Stops, EOFs, LastOf
<1>12. \A i \in Stops(w) : j <= i
  <2> SUFFICES ASSUME NEW i \in 1..n, w[i].kind \in EOFs \cup {"err", "lost"}
               PROVE  ~(i < j)
    BY <1>2, <1>6 DEF Stops
  <2> QED
    BY <1>6, Zenon DEF EOFs
<1> QED
  BY <1>10, <1>11, <1>12, Zenon

LEMMA FirstStopIs ==
  ASSUME NEW w, Len(w) \in Nat, NEW j \in Stops(w), \A i \in Stops(w) : j <= i
  PROVE  FirstStop(w) = j
<1>1. \E i \in Stops(w) : \A k \in Stops(w) : i <= k
  BY Zenon
<1>2. FirstStop(w) \in Stops(w) /\ \A k \in Stops(w) : FirstStop(w) <= k
  BY <1>1, Zenon DEF FirstStop
<1>3. FirstStop(w) \in 1..Len(w) /\ j \in 1..Len(w)
  BY <1>2, Zenon DEF Stops
<1> QED
  BY <1>2, <1>3

LEMMA AtStopWire ==
  ASSUME NEW c, Handle(c), Wire(c.wire), NEW j \in Stops(c.wire), \A i \in Stops(c.wire) : j <= i
  PROVE  LET v == AtStop(c).wire IN Wire(v) /\ v # <<>> /\ v[1] = c.wire[j]
<1>1. PICK w : w = c.wire
  BY Zenon
<1>2. Wire(w) /\ j \in Stops(w) /\ (\A i \in Stops(w) : j <= i)
  BY <1>1, Zenon
<1>3. FirstStop(w) = j
  BY <1>2, FirstStopIs, WireOf, Zenon
<1>4. AtStop(c) = [c EXCEPT !.wire = SubSeq(w, j, Len(w))]
  BY <1>1, <1>2, <1>3, Zenon DEF AtStop, Handle, Fields
<1>5. j \in 1..Len(w)
  BY <1>2, Zenon DEF Stops
<1>6. PICK v : v = SubSeq(w, j, Len(w))
  BY Zenon
<1>7. AtStop(c).wire = v
  BY <1>4, <1>6, WireShape, Zenon
<1>8. Wire(v) /\ v # <<>> /\ v[1] = w[j]
  BY <1>2, <1>5, <1>6, WireFrom, Zenon
<1> QED
  BY <1>1, <1>7, <1>8, Zenon

(* The stream may be cut anywhere.                                           *)
LEMMA WireCut ==
  ASSUME NEW w, Wire(w), \A i \in 1..Len(w) : w[i].kind # "lost", NEW k \in 0..Len(w)
  PROVE  LET v == Append(SubSeq(w, 1, k), Lost)
         IN Wire(v) /\ v # <<>> /\ v[1] = IF k = 0 THEN Lost ELSE w[1]
<1>1. w \in Seq(Packets) /\ Len(w) \in Nat
  BY WireOf, Zenon
<1>2. PICK n \in Nat : n = Len(w)
  BY <1>1, Zenon
<1>3. k \in 0..n /\ \A i \in 1..k : w[i] \in Packets
  BY <1>1, <1>2
<1>4. PICK u : u = SubSeq(w, 1, k)
  BY Zenon
<1>5. u \in Seq(Packets) /\ Len(u) = k /\ \A i \in 1..k : u[i] = w[i]
  <2>1. /\ u \in Seq(Packets) /\ Len(u) = IF 1 <= k THEN k - 1 + 1 ELSE 0
        /\ \A i \in 1..(k - 1 + 1) : u[i] = w[1 + i - 1]
    BY <1>3, <1>4, SubSeqProperties
  <2>2. k - 1 + 1 = k /\ (IF 1 <= k THEN k - 1 + 1 ELSE 0) = k
    BY <1>3
  <2>3. \A i \in 1..k : 1 + i - 1 = i
    BY <1>3
  <2> QED
    BY <2>1, <2>2, <2>3, Zenon
<1>6. PICK v : v = Append(u, Lost)
  BY Zenon
<1>7. Lost \in Packets
  BY Zenon DEF Lost, Packet, Packets, Kinds, Tags
<1>8. v \in Seq(Packets) /\ Len(v) = k + 1 /\ v[k + 1] = Lost /\ \A i \in 1..k : v[i] = w[i]
  BY <1>3, <1>5, <1>6, <1>7
<1>9. Lost.kind = "lost"
  BY Zenon DEF Lost, Packet
<1>10. \A i \in 1..(Len(v) - 1) : Follows(v[i], v[i + 1])
  <2> SUFFICES ASSUME NEW i \in 1..k
               PROVE  Follows(v[i], v[i + 1])
    BY <1>3, <1>8
  <2>1. CASE i = k
    BY <1>8, <1>9, <2>1, Zenon DEF Follows
  <2>2. CASE i # k
    <3>1. i \in 1..(n - 1) /\ i + 1 \in 1..k
      BY <1>3, <2>2
    <3>2. Follows(w[i], w[i + 1])
      BY <1>2, <3>1, Zenon DEF Wire, Ordered
    <3> QED
      BY <1>8, <3>1, <3>2, Zenon
  <2> QED
    BY <2>1, <2>2, Zenon
<1>11. ~Continues(v[Len(v)])
  BY <1>8, <1>9, Zenon DEF Continues
<1>12. \A i \in 1..Len(v) : /\ v[i].kind \notin {"prep", "defs"}
                            /\ v[i].kind = "lost" => i = Len(v) /\ v[i] = Lost
  <2> SUFFICES ASSUME NEW i \in 1..(k + 1)
               PROVE  /\ v[i].kind \notin {"prep", "defs"}
                      /\ v[i].kind = "lost" => i = k + 1 /\ v[i] = Lost
    BY <1>8, Zenon
  <2>1. CASE i = k + 1
    BY <1>8, <1>9, <2>1, Zenon
  <2>2. CASE i # k + 1
    <3>1. i \in 1..k /\ i \in 1..n
      BY <1>3, <2>2
    <3> QED
      BY <1>2, <1>8, <3>1, Zenon DEF Wire
  <2> QED
    BY <2>1, <2>2, Zenon
<1>13. Wire(v)
  BY <1>8, <1>10, <1>11, <1>12, Zenon DEF Wire, Ordered
<1>14. v # <<>> /\ v[1] = IF k = 0 THEN Lost ELSE w[1]
  <2>1. k # 0 => 1 \in 1..k
    BY <1>3
  <2> QED
    BY <1>3, <1>8, <2>1
<1> QED
  BY <1>4, <1>6, <1>13, <1>14, Zenon

(* The answers to a command.                                                 *)
Begins(r, com, q) ==
  /\ Wire(r) /\ r # <<>> /\ r[1].kind \in {"ok", "err", "cols", "lost"}
  /\ r[1].kind # "lost" => r[1].of[1] = q
  /\ com # "QUERY" => ~Continues(r[1])

LEMMA WholeReply ==
  ASSUME NEW com \in TextCommands, NEW q \in Nat, com = "QUERY" => q \in 1..MaxCommands,
         NEW w \in Replies(com, q)
  PROVE  Begins(w, com, q) /\ \A i \in 1..Len(w) : w[i].kind # "lost"
<1>1. CASE com = "QUERY"
  <2>1. Response(w, q) /\ \A i \in 1..Len(w) : w[i].kind \notin {"prep", "defs", "lost"}
    BY <1>1, ServerAssumption, Zenon DEF Replies
  <2>2. Wire(w) /\ w # <<>>
    BY <2>1, Zenon DEF Response, Wire
  <2>3. 1 \in 1..Len(w)
    BY <2>2, WireOf
  <2> QED
    BY <1>1, <2>1, <2>2, <2>3, Zenon DEF Response, Begins, Heads
<1>2. CASE com # "QUERY"
  <2>1. PICK p : /\ w = <<p>> /\ p \in Packets /\ p.kind \in {"ok", "err"} /\ p.of[1] = q
                 /\ "MORE" \notin p.flags
    <3>1. CASE w = <<Packet("err", {}, <<q, 1>>, 0)>>
      BY <3>1 DEF Packet, Packets, Kinds, Tags
    <3>2. ASSUME NEW f \in ServerFlags, w = <<Packet("ok", f, <<q, 1>>, 0)>>
          PROVE  \E p : /\ w = <<p>> /\ p \in Packets /\ p.kind \in {"ok", "err"} /\ p.of[1] = q
                        /\ "MORE" \notin p.flags
      <4>1. f \in SUBSET (Flags \cup Parts) /\ "MORE" \notin f
        BY ServerAssumption, ZenonT(20) DEF Flags, Parts
      <4>2. PICK p : p = Packet("ok", f, <<q, 1>>, 0)
        BY Zenon
      <4>3. p \in Packets /\ p.kind = "ok" /\ p.of[1] = q /\ p.flags = f
        BY <4>1, <4>2, Zenon DEF Packet, Packets, Kinds, Tags
      <4> QED
        BY <3>2, <4>1, <4>2, <4>3, Zenon
    <3> QED
      BY <1>2, <3>1, <3>2, Zenon DEF Replies, SimpleReplies
  <2>2. w \in Seq(Packets) /\ Len(w) = 1 /\ w[1] = p /\ w # <<>>
    BY <2>1
  <2>3. ~Continues(p)
    BY <2>1, Zenon DEF Continues
  <2>4. Wire(w)
    BY <2>1, <2>2, <2>3 DEF Wire, Ordered
  <2> QED
    BY <1>2, <2>1, <2>2, <2>3, <2>4 DEF Begins
<1> QED
  BY <1>1, <1>2, Zenon

LEMMA CutReply ==
  ASSUME NEW com \in TextCommands, NEW q \in Nat, com = "QUERY" => q \in 1..MaxCommands,
         NEW w \in Replies(com, q), NEW r \in Cuts(w)
  PROVE  Begins(r, com, q)
<1>1. Begins(w, com, q) /\ \A i \in 1..Len(w) : w[i].kind # "lost"
  BY WholeReply, Zenon
<1>2. CASE r = w
  BY <1>1, <1>2, Zenon
<1>3. CASE r # w
  <2>1. PICK n \in 0..(Len(w) - 1) : r = Append(SubSeq(w, 1, n), Lost)
    BY <1>3, Zenon DEF Cuts
  <2>2. n \in 0..Len(w)
    BY <1>1, <2>1, WireOf DEF Begins
  <2>3. Wire(r) /\ r # <<>> /\ r[1] = IF n = 0 THEN Lost ELSE w[1]
    BY <1>1, <2>1, <2>2, WireCut, ZenonT(20) DEF Begins
  <2>4. Lost.kind = "lost" /\ ~Continues(Lost)
    BY Zenon DEF Lost, Packet, Continues
  <2> QED
    BY <1>1, <2>3, <2>4, Zenon DEF Begins
<1> QED
  BY <1>2, <1>3, Zenon

---------------------------------------------------------------------------
(* Reading keeps client and server in step.                                  *)

(* A result has been read, whatever the status says.                         *)
Finished(c) ==
  /\ Quiet(c)
  /\ c.pvio => /\ Wire(c.wire)
               /\ "MORE" \notin c.server_status => Drained(c)
               /\ "MORE" \in c.server_status => AtResult(c)

LEMMA FinishedSync ==
  ASSUME NEW c, Finished(c)
  PROVE  /\ SyncConn(Ready(c)) /\ Ready(c).open = c.open
         /\ c.status = "READY" => SyncConn(c)
<1>1. PICK d : d = Ready(c)
  BY Zenon
<1>2. /\ Quiet(d) /\ d.status = "READY" /\ d.pvio = c.pvio /\ d.wire = c.wire /\ d.sent = c.sent
      /\ d.server_status = c.server_status /\ d.open = c.open
  BY <1>1, Zenon DEF Ready, Finished, Quiet, Handle, Fields
<1>3. SyncConn(d)
  BY <1>2, Zenon DEF Finished, SyncConn, Synced, Drained, AtResult
<1>4. c.status = "READY" => SyncConn(c)
  BY Zenon DEF Finished, SyncConn, Synced
<1> QED
  BY <1>1, <1>2, <1>3, <1>4, ZenonT(20)

LEMMA NextIs ==
  ASSUME NEW c
  PROVE  /\ ~c.pvio => NextPacket(c).kind = "lost"
         /\ c.pvio /\ c.wire # <<>> => NextPacket(c) = c.wire[1]
BY Zenon DEF NextPacket, Lost, Packet

(* The connection is gone.                                                   *)
LEMMA LostFinished ==
  ASSUME NEW c, Quiet(c), NextPacket(c).kind = "lost", c.pvio => c.wire # <<>>, NEW own
  PROVE  LET e == SafeRead(c, own) IN
         Finished(e) /\ SyncConn(e) /\ ~e.pvio /\ e.open = c.open /\ e.status = c.status
<1>1. PICK e : e = SafeRead(c, own)
  BY Zenon
<1>2. ReadLost(c, e)
  BY <1>1, SafeReadLost, Zenon DEF Quiet
<1>3. Quiet(e) /\ ~e.pvio /\ e.open = c.open /\ e.status = c.status
  BY <1>2 DEF ReadLost, SameSession, Quiet, NULL, Tags
<1> QED
  BY <1>1, <1>3, Zenon DEF Finished, SyncConn

(* The last packet of a result was read.                                     *)
LEMMA PacketEnds ==
  ASSUME NEW c, Quiet(c), c.pvio, Wire(c.wire), c.wire # <<>>,
         c.wire[1].kind \in {"ok", "eof", "err"}, c.wire[1].of[1] = c.sent, NEW own, own
  PROVE  LET e == SafeRead(c, own)
             p == c.wire[1]
         IN /\ Quiet(e) /\ e.pvio /\ Wire(e.wire) /\ e.open = c.open /\ e.status = c.status
            /\ e.sent = c.sent
            /\ p.kind = "err" => Finished(e)
            /\ p.kind # "err" => /\ e.server_status = c.server_status
                                 /\ "MORE" \notin p.flags => Drained(e)
                                 /\ "MORE" \in p.flags => AtResult(e)
<1>1. PICK e : e = SafeRead(c, own)
  BY Zenon
<1>2. PICK p : p = c.wire[1]
  BY Zenon
<1>3. NextPacket(c) = p
  BY <1>2, NextIs, Zenon
<1>4. ReadOne(c, e) /\ ~e.mixed
  BY <1>1, <1>2, <1>3, SafeReadOne, Zenon DEF Quiet
<1>5. /\ Quiet(e) /\ e.pvio /\ e.open = c.open /\ e.status = c.status /\ e.sent = c.sent
      /\ e.wire = Tail(c.wire)
      /\ e.server_status = IF p.kind = "err" THEN c.server_status \ {"MORE"} ELSE c.server_status
  BY <1>3, <1>4, Zenon DEF ReadOne, SameSession, Quiet
<1>6. Wire(e.wire)
  BY <1>5, WireTail, Zenon
<1>7. CASE Continues(p)
  <2>1. /\ e.wire # <<>> /\ Follows(p, e.wire[1]) /\ e.wire[1].kind \notin {"prep", "defs"}
    BY <1>2, <1>5, <1>7, WireGoesOn, Zenon
  <2>2. p.kind # "err" /\ "MORE" \in p.flags
    BY <1>2, <1>7, Zenon DEF Continues
  <2>3. AtResult(e)
    BY <1>2, <1>5, <2>1, <2>2, Zenon DEF AtResult, Follows, Heads
  <2> QED
    BY <1>1, <1>2, <1>5, <1>6, <2>2, <2>3, Zenon
<1>8. CASE ~Continues(p)
  <2>1. Drained(e)
    BY <1>2, <1>5, <1>8, WireEnds, Zenon DEF Drained
  <2>2. p.kind # "err" => "MORE" \notin p.flags
    BY <1>2, <1>8, Zenon DEF Continues
  <2>3. p.kind = "err" => Finished(e)
    BY <1>5, <1>6, <2>1, Zenon DEF Finished
  <2> QED
    BY <1>1, <1>2, <1>5, <1>6, <2>1, <2>2, <2>3, Zenon
<1> QED
  BY <1>7, <1>8, Zenon

(* The status that comes with the last packet is the one to go by.           *)
LEMMA StatusTaken ==
  ASSUME NEW e, Quiet(e), Wire(e.wire), NEW flags,
         "MORE" \notin flags => Drained(e), "MORE" \in flags => AtResult(e)
  PROVE  LET f == [e EXCEPT !.server_status = flags] IN
         Finished(f) /\ f.open = e.open /\ f.status = e.status
<1>1. PICK f : f = [e EXCEPT !.server_status = flags]
  BY Zenon
<1>2. /\ Quiet(f) /\ f.pvio = e.pvio /\ f.wire = e.wire /\ f.sent = e.sent
      /\ f.server_status = flags /\ f.open = e.open /\ f.status = e.status
  BY <1>1, Zenon DEF Quiet, Handle, Fields
<1> QED
  BY <1>1, <1>2, Zenon DEF Finished, Drained, AtResult

(* mthd_my_read_rows and mthd_my_skip_result: from anywhere in the rows to   *)
(* the end of the result.                                                    *)
LEMMA RowsEnd ==
  ASSUME NEW c, Quiet(c), c.pvio => Wire(c.wire) /\ AtRows(c),
         NEW own, NextPacket(c).kind # "lost" => own
  PROVE  LET p == NextPacket(AtStop(c))
             e == SafeRead(AtStop(c), own)
         IN /\ Finished(e) /\ e.open = c.open /\ e.status = c.status
            /\ p.kind \in {"eof", "err", "lost"}
            /\ p.kind = "eof" => Finished([e EXCEPT !.server_status = p.flags])
<1>1. PICK x : x = AtStop(c)
  BY Zenon
<1>2. OnlyWire(c, x)
  BY <1>1, AtStopShape, Zenon DEF Quiet
<1>3. Quiet(x) /\ x.pvio = c.pvio /\ x.open = c.open /\ x.status = c.status /\ x.sent = c.sent
      /\ x.server_status = c.server_status
  BY <1>2, Zenon DEF OnlyWire, SameSession, Quiet
<1>4. PICK e : e = SafeRead(x, own)
  BY Zenon
<1>5. PICK p : p = NextPacket(x)
  BY Zenon
<1>6. CASE ~c.pvio
  <2>1. p.kind = "lost"
    BY <1>3, <1>5, <1>6, NextIs, Zenon
  <2>2. Finished(e) /\ e.open = c.open /\ e.status = c.status
    BY <1>3, <1>4, <1>5, <1>6, <2>1, LostFinished, Zenon
  <2> QED
    BY <1>1, <1>4, <1>5, <2>1, <2>2, Zenon
<1>7. CASE c.pvio
  <2>1. Wire(c.wire) /\ c.wire # <<>> /\ c.wire[1].kind \in RowKinds
    BY <1>7, Zenon DEF AtRows, RowKinds
  <2>2. PICK j \in Stops(c.wire) : (\A i \in Stops(c.wire) : j <= i) /\ LastOf(c.wire[1], c.wire[j])
    BY <2>1, RowsStop, Zenon
  <2>3. Wire(x.wire) /\ x.wire # <<>> /\ x.wire[1] = c.wire[j]
    BY <1>1, <2>1, <2>2, AtStopWire, Zenon DEF Quiet
  <2>4. p = x.wire[1] /\ LastOf(c.wire[1], p)
    BY <1>3, <1>5, <1>7, <2>2, <2>3, NextIs, ZenonT(20)
  <2>5. CASE p.kind = "lost"
    <3>1. Finished(e) /\ e.open = c.open /\ e.status = c.status
      BY <1>3, <1>4, <1>5, <2>3, <2>5, LostFinished, ZenonT(20)
    <3> QED
      BY <1>1, <1>4, <1>5, <2>5, <3>1, ZenonT(20)
  <2>6. CASE p.kind # "lost"
    <3>1. c.wire[1].kind # "lost" /\ p.of[1] = x.sent /\ p.kind \in {"eof", "err"}
          /\ (p.kind = "eof" => p.flags = c.server_status)
      BY <1>3, <1>7, <2>4, <2>6, Zenon DEF LastOf, AtRows
    <3>2. own
      BY <1>7, <2>1, <3>1, NextIs, Zenon
    <3>3. /\ Quiet(e) /\ e.pvio /\ Wire(e.wire) /\ e.open = x.open /\ e.status = x.status
          /\ p.kind = "err" => Finished(e)
          /\ p.kind # "err" => /\ e.server_status = x.server_status
                               /\ "MORE" \notin p.flags => Drained(e)
                               /\ "MORE" \in p.flags => AtResult(e)
      BY <1>3, <1>4, <1>7, <2>3, <2>4, <3>1, <3>2, PacketEnds, Zenon
    <3>4. p.kind = "eof" => Finished([e EXCEPT !.server_status = p.flags])
      BY <3>1, <3>3, StatusTaken, Zenon
    <3>5. Finished(e)
      BY <1>3, <3>1, <3>3, Zenon DEF Finished
    <3> QED
      BY <1>1, <1>3, <1>4, <1>5, <3>1, <3>3, <3>4, <3>5, ZenonT(20)
  <2> QED
    BY <2>5, <2>6, Zenon
<1> QED
  BY <1>6, <1>7, Zenon

---------------------------------------------------------------------------
(* Sending.                                                                  *)

(* A command was written, and its answer is all there is to read.            *)
Awaits(c, com) ==
  /\ Quiet(c) /\ c.pvio /\ c.status = "READY" /\ "MORE" \notin c.server_status
  /\ Begins(c.wire, com, c.sent)
MayBeSent(c, com) == com = "QUERY" => c.sent < MaxCommands
Sends(c, s, com) ==
  /\ s.rc \in {"ok", "error"} /\ s.c.open = c.open
  /\ s.rc = "ok" => Awaits(s.c, com)
  /\ s.rc = "error" => SyncConn(s.c)
(* A connection on which nothing is pending.                                 *)
Clear(c) == SyncConn(c) /\ c.pvio /\ ~Busy(c)

LEMMA WrittenSync ==
  ASSUME NEW c, Clear(c), NEW com \in TextCommands, MayBeSent(c, com),
         NEW s \in Written(c, Command(com))
  PROVE  s.rc = "ok" /\ s.c.open = c.open /\ Awaits(s.c, com)
<1>1. /\ s.rc = "ok"
      /\ \/ s.c = c /\ Broken(c)
         \/ s.c \in Serve(c, Command(com)) /\ ~Broken(c)
  BY DEF Written, Outcome
<1>2. /\ Quiet(c) /\ c.pvio /\ c.status = "READY" /\ "MORE" \notin c.server_status
      /\ Wire(c.wire) /\ c.wire \in {<<>>, <<Lost>>}
  BY Zenon DEF Clear, Busy, SyncConn, Synced, Drained
<1>3. Lost.kind = "lost" /\ ~Continues(Lost)
  BY Zenon DEF Lost, Packet, Continues
<1>4. CASE s.c = c /\ Broken(c)
  <2>1. c.wire # <<>> /\ c.wire = <<Lost>> /\ c.wire[1] = Lost
    BY <1>2, <1>4 DEF Broken
  <2>2. Begins(c.wire, com, c.sent)
    BY <1>2, <1>3, <2>1, Zenon DEF Begins
  <2> QED
    BY <1>1, <1>2, <1>4, <2>2, Zenon DEF Awaits
<1>5. CASE s.c \in Serve(c, Command(com)) /\ ~Broken(c)
  <2>1. c.wire = <<>>
    BY <1>2, <1>3, <1>5 DEF Broken
  <2>2. PICK e : e = s.c
    BY Zenon
  <2>3. Answered(c, com, e)
    BY <1>2, <1>5, <2>2, ServeShape, Zenon DEF Quiet
  <2>4. /\ Quiet(e) /\ e.pvio /\ e.status = "READY" /\ "MORE" \notin e.server_status
        /\ e.open = c.open /\ e.sent = c.sent + 1
    BY <1>2, <2>3, SMTT(20) DEF Answered, SameSession, Quiet
  <2>5. PICK w \in Replies(com, c.sent + 1) : \E r \in Cuts(w) : e.wire = c.wire \o r
    BY <2>3, Zenon DEF Answered
  <2>6. PICK r \in Cuts(w) : e.wire = <<>> \o r
    BY <2>1, <2>5, Zenon
  <2>7. c.sent + 1 \in Nat /\ (com = "QUERY" => c.sent + 1 \in 1..MaxCommands)
    BY <1>2, ServerAssumption, SMTT(20) DEF Quiet, MayBeSent
  <2>8. Begins(r, com, c.sent + 1)
    BY <2>7, CutReply, Zenon
  <2>9. e.wire = r
    BY <2>6, <2>8, WireOf, SMTT(20) DEF Begins
  <2> QED
    BY <1>1, <2>2, <2>4, <2>8, <2>9, Zenon DEF Awaits
<1> QED
  BY <1>1, <1>4, <1>5, Zenon

LEMMA ReconnectsSync ==
  ASSUME NEW c, Quiet(c), ~c.pvio, NEW s \in Reconnects(c)
  PROVE  /\ s.rc \in {"ok", "error"} /\ SyncConn(s.c) /\ s.c.open = c.open /\ s.c.sent = c.sent
         /\ s.rc = "ok" => Clear(s.c)
<1>1. CASE s = Outcome([c EXCEPT !.server_status = @ \ {"TRANS"}], "error")
  BY <1>1, Zenon DEF Outcome, SyncConn, Quiet, Handle, Fields
<1>2. CASE s = Outcome(c, "error")
  BY <1>2, Zenon DEF Outcome, SyncConn
<1>3. CASE s = Outcome(Fresh(c), "ok")
  <2>1. PICK e : e = Fresh(c)
    BY Zenon
  <2>2. /\ Handle(e) /\ e.open = c.open /\ e.sent = c.sent /\ e.hung = c.hung /\ e.mixed = c.mixed
        /\ e.pvio /\ e.status = "READY" /\ e.server_status = {"AUTO"} /\ e.fields = NULL
        /\ ~e.multi /\ e.wire = <<>>
    BY <2>1, FreshShape, Zenon DEF Quiet
  <2>3. Quiet(e)
    BY <2>2, Zenon DEF Quiet, NULL, Tags
  <2>4. Wire(e.wire)
    BY <2>2 DEF Wire, Ordered
  <2>5. SyncConn(e) /\ Clear(e)
    BY <2>2, <2>3, <2>4, Zenon DEF SyncConn, Synced, Drained, Clear, Busy
  <2> QED
    BY <1>3, <2>1, <2>2, <2>5, Zenon DEF Outcome
<1> QED
  BY <1>1, <1>2, <1>3, Zenon DEF Reconnects

LEMMA SendCmdSync ==
  ASSUME NEW c, SyncConn(c), NEW com \in TextCommands, MayBeSent(c, com),
         NEW s \in SendCmd(c, Command(com))
  PROVE  Sends(c, s, com)
<1> DEFINE cmd == Command(com)
           opened == IF c.pvio THEN {Outcome(c, "ok")} ELSE Reconnects(c)
           rewritten(x) == Written(x, cmd) \cup {Outcome([x EXCEPT !.wire = <<Lost>>], "error")}
           retried(x) == UNION {IF u.rc = "ok" THEN rewritten(u.c) ELSE {u} : u \in Reconnects(EndServer(x))}
<1>1. PICK t \in opened : s \in IF t.rc # "ok" THEN {t}
            ELSE IF Busy(t.c) THEN {Outcome(t.c, "error")}
            ELSE IF t.c.multi THEN {Outcome([t.c EXCEPT !.batch = Append(@, cmd)], "ok")}
            ELSE Written(t.c, cmd) \cup retried(t.c)
  BY ZenonT(20) DEF SendCmd
<1>2. /\ t.rc \in {"ok", "error"} /\ SyncConn(t.c) /\ t.c.open = c.open /\ t.c.sent = c.sent
      /\ t.rc = "ok" => t.c.pvio
  <2>1. CASE c.pvio
    BY <2>1 DEF Outcome
  <2>2. CASE ~c.pvio
    BY <2>2, ReconnectsSync, Zenon DEF SyncConn, Clear
  <2> QED
    BY <2>1, <2>2, Zenon
<1>3. PICK x : x = t.c
  BY Zenon
<1>4. SyncConn(x) /\ x.open = c.open /\ x.sent = c.sent /\ (t.rc = "ok" => x.pvio) /\ ~x.multi
      /\ Quiet(x)
  BY <1>2, <1>3, Zenon DEF SyncConn, Quiet
<1> HIDE DEF opened
<1>5. CASE t.rc # "ok"
  BY <1>1, <1>2, <1>5, Zenon DEF Sends
<1>6. CASE s = Outcome(x, "error")
  BY <1>4, <1>6, Zenon DEF Outcome, Sends
<1>7. CASE t.rc = "ok" /\ ~Busy(x) /\ s \in Written(x, cmd)
  <2>1. Clear(x) /\ MayBeSent(x, com)
    BY <1>4, <1>7, Zenon DEF Clear, MayBeSent
  <2>2. s.rc = "ok" /\ s.c.open = x.open /\ Awaits(s.c, com)
    BY <1>7, <2>1, WrittenSync, Zenon
  <2> QED
    BY <1>4, <2>2, Zenon DEF Sends
<1>8. CASE t.rc = "ok" /\ s \in retried(x)
  <2>1. PICK u \in Reconnects(EndServer(x)) : s \in IF u.rc = "ok" THEN rewritten(u.c) ELSE {u}
    BY <1>8, Zenon
  <2>2. PICK e : e = EndServer(x)
    BY Zenon
  <2>3. Quiet(e) /\ ~e.pvio /\ e.open = c.open /\ e.sent = c.sent
    BY <1>4, <2>2, EndServerShape, NullTag, ZenonT(20) DEF SameSession, Quiet
  <2>4. /\ u.rc \in {"ok", "error"} /\ SyncConn(u.c) /\ u.c.open = e.open /\ u.c.sent = e.sent
        /\ u.rc = "ok" => Clear(u.c)
    BY <2>1, <2>2, <2>3, ReconnectsSync, ZenonT(20)
  <2>5. PICK y : y = u.c
    BY Zenon
  <2>6. CASE u.rc # "ok"
    BY <2>1, <2>3, <2>4, <2>6, Zenon DEF Sends
  <2>7. CASE u.rc = "ok" /\ s \in Written(y, cmd)
    <3>1. Clear(y) /\ MayBeSent(y, com)
      BY <2>3, <2>4, <2>5, <2>7, ZenonT(20) DEF MayBeSent
    <3>2. s.rc = "ok" /\ s.c.open = y.open /\ Awaits(s.c, com)
      BY <2>7, <3>1, WrittenSync, Zenon
    <3> QED
      BY <2>3, <2>4, <2>5, <3>2, Zenon DEF Sends
  <2>8. CASE u.rc = "ok" /\ s = Outcome([y EXCEPT !.wire = <<Lost>>], "error")
    <3>1. Clear(y) /\ y.open = c.open
      BY <2>3, <2>4, <2>5, <2>8, Zenon
    <3>2. PICK z : z = [y EXCEPT !.wire = <<Lost>>]
      BY Zenon
    <3>3. /\ Quiet(z) /\ z.pvio /\ z.status = "READY" /\ "MORE" \notin z.server_status
          /\ z.open = c.open /\ z.wire = <<Lost>>
      BY <3>1, <3>2, Zenon DEF Clear, SyncConn, Busy, Quiet, Handle, Fields
    <3>4. Wire(<<Lost>>)
      BY SMTT(20) DEF Wire, Ordered, Lost, Packet, Packets, Kinds, Tags, Continues
    <3>5. SyncConn(z)
      BY <3>3, <3>4, Zenon DEF SyncConn, Synced, Drained
    <3> QED
      BY <2>8, <3>2, <3>3, <3>5, Zenon DEF Outcome, Sends
  <2> QED
    BY <2>1, <2>5, <2>6, <2>7, <2>8, Zenon
<1> HIDE DEF retried
<1> QED
  BY <1>1, <1>3, <1>4, <1>5, <1>6, <1>7, <1>8, Zenon

(* A command is refused while a result is pending.                           *)
LEMMA BusyRefuses ==
  ASSUME NEW c, c.pvio, c.status # "READY", NEW cmd, NEW s \in SendCmd(c, cmd)
  PROVE  s = Outcome(c, "error")
<1>1. Busy(c)
  BY Zenon DEF Busy
<1>2. Outcome(c, "ok").rc = "ok" /\ Outcome(c, "ok").c = c
  BY Zenon DEF Outcome
<1>3. SendCmd(c, cmd) = {Outcome(c, "error")}
  BY <1>1, <1>2 DEF SendCmd
<1> QED
  BY <1>3, Zenon

---------------------------------------------------------------------------
(* Calls.                                                                    *)

(* What a call leaves: a connection in step.                                 *)
Leaves(c, s) == s.rc \in {"ok", "error"} /\ SyncConn(s.c) /\ s.c.open = c.open

(* The rest of the column definitions has been read.                         *)
LEMMA DefinitionsRead ==
  ASSUME MallocFails = {}, NEW c, Quiet(c), c.pvio, Wire(c.wire), c.wire # <<>>, NEW of \in Tags,
         c.wire[1].kind \in {"meta", "lost"}, c.wire[1].kind # "lost" => c.wire[1].of = of,
         of[1] = c.sent, NEW s \in ReadRows(c, of)
  PROVE  /\ s.rc \in {"ok", "error"} /\ s.c.open = c.open
         /\ s.rc = "error" => SyncConn(s.c)
         /\ s.rc = "ok" => SyncConn([s.c EXCEPT !.fields = of, !.status = "GET_RESULT"])
<1> DEFINE own == NextPacket(c).of = of
<1>1. PICK x : x = AtStop(c)
  BY Zenon
<1>2. PICK p : p = NextPacket(x)
  BY Zenon
<1>3. PICK e : e = SafeRead(x, own)
  BY Zenon
<1>4. s = IF p.kind \in EOFs THEN Outcome([e EXCEPT !.server_status = p.flags], "ok")
                             ELSE Outcome(e, "error")
  BY <1>1, <1>2, <1>3, Zenon DEF ReadRows
<1>5. /\ Quiet(x) /\ x.pvio /\ x.open = c.open /\ x.sent = c.sent
  BY <1>1, AtStopShape, Zenon DEF OnlyWire, SameSession, Quiet
<1>6. Wire(x.wire) /\ x.wire # <<>> /\ x.wire[1] = c.wire[1]
  <2>1. 1 \in Stops(c.wire) /\ \A i \in Stops(c.wire) : 1 <= i
    BY WireOf DEF Stops, EOFs
  <2> QED
    BY <1>1, <2>1, AtStopWire, Zenon DEF Quiet
<1>7. p = c.wire[1] /\ NextPacket(c) = c.wire[1]
  BY <1>2, <1>5, <1>6, NextIs, Zenon
<1>8. CASE p.kind = "lost"
  <2>1. SyncConn(e) /\ e.open = x.open
    BY <1>2, <1>3, <1>5, <1>6, <1>8, LostFinished, Zenon
  <2> QED
    BY <1>4, <1>5, <1>8, <2>1, Zenon DEF EOFs, Outcome
<1>9. CASE p.kind # "lost"
  <2>1. own /\ p.kind = "meta" /\ p.of = of
    BY <1>7, <1>9, Zenon
  <2>2. ReadOne(x, e) /\ ~e.mixed
    BY <1>2, <1>3, <1>5, <1>9, <2>1, SafeReadOne, ZenonT(20) DEF Quiet
  <2>3. Quiet(e) /\ e.pvio /\ e.open = c.open /\ e.wire = Tail(x.wire) /\ e.sent = c.sent
    BY <1>5, <2>2, ZenonT(20) DEF ReadOne, SameSession, Quiet
  <2>4. /\ e.wire # <<>> /\ Wire(e.wire) /\ Follows(p, e.wire[1])
    BY <1>6, <1>7, <2>1, <2>3, WireGoesOn, ZenonT(20) DEF Continues
  <2>5. PICK d : d = [e EXCEPT !.server_status = p.flags]
    BY Zenon
  <2>6. PICK f : f = [d EXCEPT !.fields = of, !.status = "GET_RESULT"]
    BY Zenon
  <2>7. /\ Quiet(f) /\ f.pvio /\ f.open = c.open /\ f.wire = e.wire /\ f.sent = c.sent
        /\ f.server_status = p.flags /\ f.fields = of /\ f.status = "GET_RESULT"
    BY <2>3, <2>5, <2>6, ZenonT(20) DEF Quiet, Handle, Fields
  <2>8. AtRows(f) /\ Reads(f, of)
    BY <2>1, <2>4, <2>7, Zenon DEF Follows, AtRows, Reads
  <2>9. SyncConn(f)
    BY <2>4, <2>7, <2>8, Zenon DEF SyncConn, Synced
  <2>10. s.rc = "ok" /\ s.c = d /\ d.open = c.open
    BY <1>4, <2>1, <2>3, <2>5, Zenon DEF EOFs, Outcome, Quiet, Handle, Fields
  <2> QED
    BY <2>6, <2>9, <2>10, Zenon
<1> QED
  BY <1>8, <1>9, Zenon

LEMMA ReadQueryResultSync ==
  ASSUME MallocFails = {}, NEW c, Quiet(c), c.status = "READY",
         c.pvio => Wire(c.wire) /\ AtResult(c), NEW s \in ReadQueryResult(c)
  PROVE  Leaves(c, s)
<1> DEFINE own == NextPacket(c).of[1] = c.sent
           p == NextPacket(c)
           e == SafeRead(c, own)
           f == [e EXCEPT !.fields = NULL]
           g == [f EXCEPT !.server_status = IF "AUTO" \in @ THEN @ ELSE @ \cup {"TRANS"}]
           defined(y) == [y EXCEPT !.fields = p.of, !.status = "GET_RESULT"]
<1>1. p = NextPacket(c)
  BY Zenon
<1>2. e = SafeRead(c, own)
  BY Zenon
<1>3. \/ p.kind \in {"err", "lost"} /\ s = Outcome(e, "error")
      \/ p.kind = "ok" /\ s = Outcome([f EXCEPT !.server_status = p.flags], "ok")
      \/ /\ p.kind \notin {"err", "lost", "ok"}
         /\ \E t \in ReadRows(g, p.of) :
              s = IF t.rc = "error" THEN t ELSE Outcome(defined(t.c), "ok")
  <2>1. CASE p.kind \in {"err", "lost"}
    BY <2>1, Zenon DEF ReadQueryResult
  <2>2. CASE p.kind = "ok"
    BY <2>2, Zenon DEF ReadQueryResult
  <2>3. CASE p.kind \notin {"err", "lost", "ok"}
    <3>1. s \in UNION {IF t.rc = "error" THEN {t}
                        ELSE {Outcome(defined(t.c), "ok")}
                               \cup (IF "fields" \in MallocFails THEN {Outcome(t.c, "error")} ELSE {}) :
                        t \in ReadRows(g, p.of)}
      BY <2>3, Zenon DEF ReadQueryResult
    <3>2. PICK t \in ReadRows(g, p.of) :
            s \in IF t.rc = "error" THEN {t}
                  ELSE {Outcome(defined(t.c), "ok")}
                         \cup (IF "fields" \in MallocFails THEN {Outcome(t.c, "error")} ELSE {})
      BY <3>1, ZenonT(20)
    <3>3. s = IF t.rc = "error" THEN t ELSE Outcome(defined(t.c), "ok")
      BY <3>2, Zenon
    <3> QED
      BY <2>3, <3>3, Zenon
  <2> QED
    BY <2>1, <2>2, <2>3, Zenon
<1> HIDE DEF p, e
<1>4. CASE p.kind = "lost"
  <2>1. SyncConn(e) /\ e.open = c.open
    BY <1>1, <1>2, <1>4, LostFinished, ZenonT(20) DEF AtResult
  <2> QED
    BY <1>3, <1>4, <2>1 DEF Outcome, Leaves
<1>5. CASE p.kind # "lost"
  <2>1. c.pvio
    BY <1>1, <1>5, NextIs, Zenon
  <2>2. Wire(c.wire) /\ AtResult(c) /\ c.wire # <<>> /\ p = c.wire[1]
    BY <1>1, <2>1, NextIs, Zenon DEF AtResult
  <2>3. p.kind \in {"ok", "err", "cols"} /\ p.of[1] = c.sent /\ own
    BY <1>1, <1>5, <2>2, ZenonT(20) DEF AtResult
  <2>4. CASE p.kind \in {"ok", "err"}
    <3>1. /\ Quiet(e) /\ e.pvio /\ Wire(e.wire) /\ e.open = c.open /\ e.status = c.status
          /\ p.kind = "err" => Finished(e)
          /\ p.kind # "err" => /\ "MORE" \notin p.flags => Drained(e)
                               /\ "MORE" \in p.flags => AtResult(e)
      BY <1>2, <2>1, <2>2, <2>3, <2>4, PacketEnds, ZenonT(20)
    <3>2. CASE p.kind = "err"
      <4>1. SyncConn(e)
        BY <3>1, <3>2, FinishedSync, Zenon
      <4> QED
        BY <1>3, <3>1, <3>2, <4>1 DEF Outcome, Leaves
    <3>3. CASE p.kind = "ok"
      <4>1. PICK d : d = f
        BY Zenon
      <4>2. /\ Quiet(d) /\ d.wire = e.wire /\ d.sent = e.sent /\ d.open = c.open
            /\ d.status = "READY"
        BY <3>1, <4>1, Zenon DEF Quiet, Handle, Fields, NULL, Tags
      <4>3. PICK h : h = [d EXCEPT !.server_status = p.flags]
        BY Zenon
      <4>4. Finished(h) /\ h.open = d.open /\ h.status = d.status
        BY <3>1, <3>3, <4>2, <4>3, StatusTaken DEF Drained, AtResult
      <4>5. SyncConn(h)
        BY <4>2, <4>4, FinishedSync, Zenon
      <4>6. s = Outcome(h, "ok")
        BY <1>3, <3>3, <4>1, <4>3, Zenon
      <4> QED
        BY <4>2, <4>4, <4>5, <4>6, Zenon DEF Outcome, Leaves
    <3> QED
      BY <2>4, <3>2, <3>3, Zenon
  <2>5. CASE p.kind = "cols"
    <3>1. ReadOne(c, e) /\ ~e.mixed
      BY <1>1, <1>2, <1>5, <2>3, SafeReadOne, Zenon DEF Quiet
    <3>2. Quiet(e) /\ e.pvio /\ e.open = c.open /\ e.wire = Tail(c.wire) /\ e.sent = c.sent
      BY <2>1, <3>1, Zenon DEF ReadOne, SameSession, Quiet
    <3>3. e.wire # <<>> /\ Wire(e.wire) /\ Follows(p, e.wire[1])
      BY <2>2, <2>5, <3>2, WireGoesOn, Zenon DEF Continues
    <3>4. PICK d : d = f
      BY Zenon
    <3>5. PICK a : a = IF "AUTO" \in d.server_status THEN d.server_status
                       ELSE d.server_status \cup {"TRANS"}
      BY Zenon
    <3>6. Quiet(d) /\ d.pvio /\ d.wire = e.wire /\ d.sent = e.sent /\ d.open = c.open
      BY <3>2, <3>4, Zenon DEF Quiet, Handle, Fields, NULL, Tags
    <3>7. PICK y : y = [d EXCEPT !.server_status = a]
      BY Zenon
    <3>8. y = g
      BY <3>4, <3>5, <3>7, Zenon
    <3>9. Quiet(y) /\ y.pvio /\ y.wire = e.wire /\ y.sent = c.sent /\ y.open = c.open
      BY <3>2, <3>6, <3>7, Zenon DEF Quiet, Handle, Fields
    <3>10. /\ y.wire[1].kind \in {"meta", "lost"}
           /\ y.wire[1].kind # "lost" => y.wire[1].of = p.of
      BY <2>5, <3>3, <3>9, Zenon DEF Follows
    <3>11. p.of \in Tags
      <4>1. p \in Packets
        BY <2>2, WireOf, Zenon
      <4> QED
        BY <4>1, Zenon DEF Packets
    <3> HIDE DEF f, g
    <3>12. PICK t \in ReadRows(y, p.of) :
             s = IF t.rc = "error" THEN t ELSE Outcome(defined(t.c), "ok")
      BY <1>3, <2>5, <3>8, Zenon
    <3>a. Wire(y.wire) /\ y.wire # <<>> /\ p.of[1] = y.sent
      BY <2>3, <3>3, <3>9, Zenon
    <3>13. /\ t.rc \in {"ok", "error"} /\ t.c.open = y.open
           /\ t.rc = "error" => SyncConn(t.c)
           /\ t.rc = "ok" => SyncConn(defined(t.c))
      BY <3>a, <3>9, <3>10, <3>11, <3>12, DefinitionsRead, ZenonT(20)
    <3>14. PICK z : z = defined(t.c)
      BY Zenon
    <3>15. t.rc = "ok" => SyncConn(z) /\ z.open = t.c.open
      <4> SUFFICES ASSUME t.rc = "ok"
                   PROVE  SyncConn(z) /\ z.open = t.c.open
        BY Zenon
      <4>1. SyncConn(z)
        BY <3>13, <3>14, Zenon
      <4>2. "open" \in DOMAIN z
        BY <4>1, Zenon DEF SyncConn, Quiet, Handle, Fields
      <4>3. "open" \in DOMAIN t.c
        BY <3>14, <4>2, Zenon
      <4> QED
        BY <3>14, <4>1, <4>3, ZenonT(20)
    <3> HIDE DEF defined
    <3> QED
      BY <3>9, <3>12, <3>13, <3>14, <3>15, Zenon DEF Outcome, Leaves
  <2> QED
    BY <2>3, <2>4, <2>5, Zenon
<1> QED
  BY <1>4, <1>5, Zenon

(* The answer of a command that has one packet.                              *)
LEMMA AnswerRead ==
  ASSUME NEW c, NEW com \in TextCommands \ {"QUERY"}, Awaits(c, com)
  PROVE  LET p == NextPacket(c)
             e == SafeRead(c, p.of[1] = c.sent)
         IN /\ SyncConn(e) /\ e.open = c.open /\ e.status = "READY"
            /\ p.kind = "ok" => SyncConn([e EXCEPT !.server_status = p.flags, !.owed = 0])
<1> DEFINE own == NextPacket(c).of[1] = c.sent
<1>1. PICK p : p = NextPacket(c)
  BY Zenon
<1>2. PICK e : e = SafeRead(c, own)
  BY Zenon
<1>3. /\ Quiet(c) /\ c.pvio /\ c.status = "READY" /\ "MORE" \notin c.server_status
      /\ Wire(c.wire) /\ c.wire # <<>> /\ p = c.wire[1] /\ p.kind \in {"ok", "err", "cols", "lost"}
      /\ p.kind # "lost" => p.of[1] = c.sent
      /\ ~Continues(p)
  BY <1>1, NextIs, Zenon DEF Awaits, Begins
<1>4. CASE p.kind = "lost"
  <2>1. SyncConn(e) /\ e.open = c.open /\ e.status = c.status
    BY <1>1, <1>2, <1>3, <1>4, LostFinished
  <2> QED
    BY <1>1, <1>2, <1>3, <1>4, <2>1, Zenon
<1>5. CASE p.kind # "lost"
  <2>1. p.kind \in {"ok", "err"} /\ own /\ (p.kind = "ok" => "MORE" \notin p.flags)
    BY <1>1, <1>3, <1>5, Zenon DEF Continues
  <2>2. /\ Quiet(e) /\ e.pvio /\ Wire(e.wire) /\ e.open = c.open /\ e.status = c.status
        /\ p.kind = "err" => Finished(e)
        /\ p.kind # "err" => e.server_status = c.server_status /\ Drained(e)
    BY <1>2, <1>3, <2>1, PacketEnds, ZenonT(20)
  <2>3. Finished(e)
    BY <1>3, <2>1, <2>2, Zenon DEF Finished
  <2>4. SyncConn(e)
    BY <1>3, <2>2, <2>3, FinishedSync, Zenon
  <2>5. ASSUME p.kind = "ok"
        PROVE  SyncConn([e EXCEPT !.server_status = p.flags, !.owed = 0])
    <3>1. PICK d : d = [e EXCEPT !.server_status = p.flags, !.owed = 0]
      BY Zenon
    <3>2. /\ Quiet(d) /\ d.wire = e.wire /\ d.status = "READY" /\ d.server_status = p.flags
      BY <1>3, <2>2, <3>1, ZenonT(20) DEF Quiet, Handle, Fields
    <3>3. SyncConn(d)
      BY <2>1, <2>2, <2>5, <3>2, Zenon DEF SyncConn, Synced, Drained
    <3> QED
      BY <3>1, <3>3, Zenon
  <2> QED
    BY <1>1, <1>2, <1>3, <2>2, <2>4, <2>5, Zenon
<1> QED
  BY <1>4, <1>5, Zenon

LEMMA SimpleCommandSync ==
  ASSUME NEW c, SyncConn(c), NEW com \in TextCommands \ {"QUERY"}, NEW s \in SimpleCommand(c, com)
  PROVE  Leaves(c, s) /\ (s.rc = "ok" => s.c.status = "READY")
<1> DEFINE e(x) == SafeRead(x, NextPacket(x).of[1] = x.sent)
           rc(x) == IF NextPacket(x).kind \in {"err", "lost"} THEN "error" ELSE "ok"
<1>1. PICK t \in SendCmd(c, Command(com)) :
        s = IF t.rc = "ok" /\ ~t.c.multi THEN Outcome(e(t.c), rc(t.c)) ELSE t
  BY Zenon DEF SimpleCommand
<1>2. Sends(c, t, com)
  BY SendCmdSync, Zenon DEF MayBeSent
<1>3. CASE t.rc = "error"
  BY <1>1, <1>2, <1>3, Zenon DEF Sends, Leaves
<1>4. CASE t.rc = "ok"
  <2>1. PICK x : x = t.c
    BY Zenon
  <2>2. Awaits(x, com) /\ ~x.multi /\ x.open = c.open
    BY <1>2, <1>4, <2>1, Zenon DEF Sends, Awaits, Quiet
  <2>3. SyncConn(e(x)) /\ e(x).open = x.open /\ e(x).status = "READY"
    BY <2>2, AnswerRead, Zenon
  <2>4. s = Outcome(e(x), rc(x)) /\ rc(x) \in {"ok", "error"}
    BY <1>1, <1>4, <2>1, <2>2, Zenon
  <2> HIDE DEF e, rc
  <2> QED
    BY <2>2, <2>3, <2>4, Zenon DEF Outcome, Leaves
<1> QED
  BY <1>2, <1>3, <1>4, Zenon DEF Sends

LEMMA TwiceCommandSync ==
  ASSUME NEW c, SyncConn(c), NEW com \in TextCommands \ {"QUERY"}, NEW s \in TwiceCommand(c, com)
  PROVE  Leaves(c, s) /\ (s.rc = "ok" => s.c.status = "READY")
<1>1. PICK t \in SimpleCommand(c, com) : s = t \/ s \in SimpleCommand(t.c, com)
  BY DEF TwiceCommand
<1>2. Leaves(c, t) /\ (t.rc = "ok" => t.c.status = "READY")
  BY SimpleCommandSync, Zenon
<1>3. PICK x : x = t.c
  BY Zenon
<1>4. s \in SimpleCommand(x, com) => Leaves(x, s) /\ (s.rc = "ok" => s.c.status = "READY")
  BY <1>2, <1>3, SimpleCommandSync, ZenonT(20) DEF Leaves
<1> QED
  BY <1>1, <1>2, <1>3, <1>4, Zenon DEF Leaves

LEMMA ChangeUserSync ==
  ASSUME NEW c, SyncConn(c), NEW s \in ChangeUserOutcomes(c)
  PROVE  Leaves(c, s)
<1> DEFINE e(x) == SafeRead(x, NextPacket(x).of[1] = x.sent)
           good(x) == [e(x) EXCEPT !.server_status = NextPacket(x).flags, !.owed = 0]
<1>1. PICK t \in SendCmd(c, Command("CHANGE_USER")) :
        s = IF t.rc = "error" \/ NextPacket(t.c).kind # "ok"
              THEN Outcome(IF t.rc = "error" THEN t.c ELSE e(t.c), "error")
              ELSE Outcome(good(t.c), "ok")
  BY Zenon DEF ChangeUserOutcomes, Outcome
<1>2. Sends(c, t, "CHANGE_USER")
  BY SendCmdSync, Zenon DEF MayBeSent, TextCommands
<1>3. CASE t.rc = "error"
  BY <1>1, <1>2, <1>3, Zenon DEF Sends, Leaves, Outcome
<1>4. CASE t.rc = "ok"
  <2>1. PICK x : x = t.c
    BY Zenon
  <2>2. Awaits(x, "CHANGE_USER") /\ x.open = c.open
    BY <1>2, <1>4, <2>1, Zenon DEF Sends
  <2>3. /\ SyncConn(e(x)) /\ e(x).open = x.open
        /\ NextPacket(x).kind = "ok" => SyncConn(good(x))
    BY <2>2, AnswerRead, Zenon DEF TextCommands
  <2>4. PICK y : y = e(x)
    BY Zenon
  <2>5. PICK z : z = good(x)
    BY Zenon
  <2>6. z.open = y.open
    <3>1. z = [y EXCEPT !.server_status = NextPacket(x).flags, !.owed = 0] /\ SyncConn(y)
      BY <2>3, <2>4, <2>5, Zenon
    <3> QED
      BY <3>1, Zenon DEF SyncConn, Quiet, Handle, Fields
  <2>7. s = IF NextPacket(x).kind # "ok" THEN Outcome(y, "error") ELSE Outcome(z, "ok")
    BY <1>1, <1>4, <2>1, <2>4, <2>5, ZenonT(20)
  <2>8. SyncConn(y) /\ y.open = c.open /\ z.open = c.open /\ (NextPacket(x).kind = "ok" => SyncConn(z))
    BY <2>2, <2>3, <2>4, <2>5, <2>6, Zenon
  <2> QED
    BY <2>7, <2>8, Zenon DEF Outcome, Leaves
<1> QED
  BY <1>2, <1>3, <1>4, Zenon DEF Sends

---------------------------------------------------------------------------
(* The calls of the application keep the connection in step.                 *)

(* The same place in what the server has sent.                               *)
Alike(c, d) ==
  SyncConn(d) /\ d.open = c.open /\ d.pvio = c.pvio /\ d.status = c.status /\ d.wire = c.wire

LEMMA SettersAlike ==
  ASSUME NEW c, SyncConn(c)
  PROVE  Alike(c, [c EXCEPT !.owed = 0]) /\ Alike(c, Unlinked(c)) /\ Alike(c, FreeOldQuery(c))
<1>1. ASSUME NEW d, Handle(d), d.fields \in {c.fields, NULL},
             \A f \in Fields \ {"owed", "stmts", "fields"} : d[f] = c[f]
      PROVE  Alike(c, d)
  <2>1. /\ d.open = c.open /\ d.pvio = c.pvio /\ d.status = c.status /\ d.wire = c.wire
        /\ d.sent = c.sent /\ d.server_status = c.server_status
        /\ d.multi = c.multi /\ d.hung = c.hung /\ d.mixed = c.mixed
    BY <1>1, Zenon DEF Fields
  <2>2. Quiet(d)
    BY <1>1, <2>1, NullTag, Zenon DEF SyncConn, Quiet
  <2>3. c.pvio => Synced(d)
    BY <1>1, <2>1, Zenon DEF SyncConn, Synced, Drained, AtResult, AtRows, Reads
  <2> QED
    BY <2>1, <2>2, <2>3, Zenon DEF SyncConn, Alike
<1>2. Handle(c)
  BY Zenon DEF SyncConn, Quiet
<1>3. PICK o : o = [c EXCEPT !.owed = 0]
  BY Zenon
<1>4. PICK u : u = Unlinked(c)
  BY Zenon
<1>5. PICK q : q = FreeOldQuery(c)
  BY Zenon
<1>6. Handle(o) /\ o.fields = c.fields /\ \A f \in Fields \ {"owed", "stmts", "fields"} : o[f] = c[f]
  BY <1>2, <1>3, Zenon DEF Handle, Fields
<1>7. Handle(u) /\ u.fields = c.fields /\ \A f \in Fields \ {"owed", "stmts", "fields"} : u[f] = c[f]
  BY <1>2, <1>4, Zenon DEF Handle, Fields, Unlinked
<1>8. Handle(q) /\ q.fields = NULL /\ \A f \in Fields \ {"owed", "stmts", "fields"} : q[f] = c[f]
  BY <1>2, <1>5, Zenon DEF Handle, Fields, FreeOldQuery
<1> QED
  BY <1>1, <1>3, <1>4, <1>5, <1>6, <1>7, <1>8, ZenonT(20)

LEMMA ToldSync ==
  ASSUME NEW c, NEW s, Leaves(c, s)
  PROVE  SyncConn(Told(s)) /\ Told(s).open = c.open
<1>1. PICK x : x = s.c
  BY Zenon
<1>2. Alike(x, [x EXCEPT !.owed = 0])
  BY <1>1, SettersAlike, Zenon DEF Leaves
<1>3. Told(s) = IF s.rc = "error" THEN [x EXCEPT !.owed = 0] ELSE x
  BY <1>1, Zenon DEF Told
<1> QED
  BY <1>1, <1>2, <1>3, Zenon DEF Leaves, Alike

(* A call that the pending result refuses.                                   *)
LEMMA ToldRefused ==
  ASSUME NEW c, SyncConn(c)
  PROVE  Alike(c, Told(Outcome(c, "error")))
BY SettersAlike, Zenon DEF Told, Outcome

(* A call with a result in use changes nothing that matters; without, it     *)
(* has to leave a connection in step.                                        *)
Settles ==
  /\ SyncConn(conn') /\ conn'.open
  /\ ~NoneInUse => Alike(conn, conn')
  /\ UNCHANGED res

LEMMA SettlesSync ==
  ASSUME SyncInv, Settles
  PROVE  SyncInv'
<1>1. CASE NoneInUse
  BY <1>1, Zenon DEF SyncInv, SyncRes, Settles, NoneInUse
<1>2. CASE ~NoneInUse
  <2>1. \A r \in Results : Reads(conn', res[r].of) <=> Reads(conn, res[r].of)
    BY <1>2, Zenon DEF Settles, Alike, Reads
  <2> QED
    BY <1>2, <2>1, Zenon DEF SyncInv, SyncRes, Settles, Alike
<1> QED
  BY <1>1, <1>2, Zenon

LEMMA InUse ==
  ASSUME SyncInv, ~NoneInUse
  PROVE  conn.pvio /\ conn.status = "USE_RESULT"
BY Zenon DEF SyncInv, SyncRes, NoneInUse

LEMMA SyncQuery ==
  ASSUME MallocFails = {}, SyncInv, RealQuery
  PROVE  Settles
<1>1. SyncConn(conn) /\ conn.open /\ conn.sent < MaxCommands /\ UNCHANGED res
  BY Zenon DEF SyncInv, RealQuery, MaySend, May
<1>2. PICK c : c = FreeOldQuery(conn)
  BY Zenon
<1>3. Alike(conn, c)
  BY <1>1, <1>2, SettersAlike, Zenon
<1>4. c.sent = conn.sent
  BY <1>1, <1>2, Zenon DEF FreeOldQuery, SyncConn, Quiet, Handle, Fields
<1>5. PICK s \in QueryOutcomes(conn) : conn' = Told(s)
  BY Zenon DEF RealQuery
<1>6. PICK t \in SendCmd(c, Command("QUERY")) :
        (t.rc # "ok" /\ s = t) \/ (t.rc = "ok" /\ s \in ReadQueryResult(t.c))
  BY <1>2, <1>5, Zenon DEF QueryOutcomes
<1>7. Sends(c, t, "QUERY")
  BY <1>1, <1>3, <1>4, SendCmdSync, Zenon DEF MayBeSent, TextCommands, Alike
<1>8. PICK x : x = t.c
  BY Zenon
<1>9. Leaves(c, s)
  <2>1. CASE t.rc = "ok"
    <3>1. Awaits(x, "QUERY") /\ s \in ReadQueryResult(x) /\ x.open = c.open
      BY <1>6, <1>7, <1>8, <2>1, Zenon DEF Sends
    <3>2. Quiet(x) /\ x.status = "READY" /\ Wire(x.wire) /\ AtResult(x)
      BY <3>1, Zenon DEF Awaits, Begins, AtResult
    <3>3. Leaves(x, s)
      BY <3>1, <3>2, ReadQueryResultSync, Zenon
    <3> QED
      BY <3>1, <3>3, Zenon DEF Leaves
  <2>2. CASE t.rc # "ok"
    BY <1>6, <1>7, <2>2, Zenon DEF Sends, Leaves
  <2> QED
    BY <2>1, <2>2, Zenon
<1>10. ASSUME ~NoneInUse
       PROVE  Alike(conn, conn')
  <2>1. c.pvio /\ c.status # "READY"
    BY <1>3, <1>10, InUse, Zenon DEF Alike
  <2>2. t = Outcome(c, "error")
    BY <2>1, BusyRefuses, Zenon
  <2>3. s = Outcome(c, "error")
    BY <1>6, <2>2, Zenon DEF Outcome
  <2>4. Alike(c, conn')
    BY <1>3, <1>5, <2>3, ToldRefused, Zenon DEF Alike
  <2> QED
    BY <1>3, <2>4, Zenon DEF Alike
<1> QED
  BY <1>1, <1>3, <1>5, <1>9, <1>10, ToldSync, ZenonT(20) DEF Settles, Alike

LEMMA SyncNextResult ==
  ASSUME MallocFails = {}, SyncInv, NextResult
  PROVE  Settles
<1>1. /\ SyncConn(conn) /\ conn.open /\ UNCHANGED res
      /\ conn.status = "READY" /\ "MORE" \in conn.server_status
  BY Zenon DEF SyncInv, NextResult, May
<1>2. PICK s \in ReadQueryResult(conn) : conn' = Told(s)
  BY Zenon DEF NextResult
<1>3. Leaves(conn, s)
  BY <1>1, ReadQueryResultSync, Zenon DEF SyncConn, Synced
<1>4. NoneInUse
  BY <1>1, InUse, Zenon
<1> QED
  BY <1>1, <1>2, <1>3, <1>4, ToldSync, ZenonT(20) DEF Settles

LEMMA RefusesSimple ==
  ASSUME NEW c, c.pvio, c.status # "READY", NEW com, NEW s \in SimpleCommand(c, com)
  PROVE  s = Outcome(c, "error")
<1>1. PICK t \in SendCmd(c, Command(com)) : t.rc # "ok" => s = t
  BY Zenon DEF SimpleCommand
<1>2. t = Outcome(c, "error")
  BY BusyRefuses, Zenon
<1> QED
  BY <1>1, <1>2, Zenon DEF Outcome

LEMMA SyncSimple ==
  ASSUME SyncInv, Simple \/ Ping
  PROVE  Settles
<1>1. SyncConn(conn) /\ conn.open /\ UNCHANGED res
  BY Zenon DEF SyncInv, Simple, Ping, MaySend, May
<1>2. "SIMPLE" \in TextCommands \ {"QUERY"}
  BY Zenon DEF TextCommands
<1>3. PICK s : s \in SimpleCommand(conn, "SIMPLE") \cup TwiceCommand(conn, "SIMPLE") /\ conn' = Told(s)
  BY Zenon DEF Simple, Ping
<1>4. Leaves(conn, s)
  BY <1>1, <1>2, <1>3, SimpleCommandSync, TwiceCommandSync, ZenonT(20)
<1>5. ASSUME ~NoneInUse
      PROVE  Alike(conn, conn')
  <2>1. conn.pvio /\ conn.status # "READY"
    BY <1>5, InUse, Zenon
  <2>2. \A t \in SimpleCommand(conn, "SIMPLE") : t = Outcome(conn, "error")
    BY <2>1, RefusesSimple, Zenon
  <2>3. s \in SimpleCommand(conn, "SIMPLE")
    <3>1. CASE s \in TwiceCommand(conn, "SIMPLE")
      <4>1. PICK t \in SimpleCommand(conn, "SIMPLE") : s = t \/ s \in SimpleCommand(t.c, "SIMPLE")
        BY <3>1, Zenon DEF TwiceCommand
      <4>2. t.c = conn
        BY <2>2 DEF Outcome
      <4> QED
        BY <4>1, <4>2, Zenon
    <3> QED
      BY <1>3, <3>1, Zenon
  <2> QED
    BY <1>1, <1>3, <2>2, <2>3, ToldRefused, Zenon
<1> QED
  BY <1>1, <1>3, <1>4, <1>5, ToldSync, ZenonT(20) DEF Settles

LEMMA SyncChangeUser ==
  ASSUME SyncInv, ChangeUser
  PROVE  Settles
<1>1. SyncConn(conn) /\ conn.open /\ UNCHANGED res
  BY Zenon DEF SyncInv, ChangeUser, MaySend, May
<1>2. PICK s \in ChangeUserOutcomes(conn) : conn' = Unlinked(Told(s))
  BY Zenon DEF ChangeUser
<1>3. PICK x : x = Told(s)
  BY Zenon
<1>4. SyncConn(x) /\ x.open
  BY <1>1, <1>3, ChangeUserSync, ToldSync, Zenon
<1>5. Alike(x, conn')
  BY <1>2, <1>3, <1>4, SettersAlike, Zenon
<1>6. ASSUME ~NoneInUse
      PROVE  Alike(conn, conn')
  <2>1. conn.pvio /\ conn.status # "READY"
    BY <1>6, InUse, Zenon
  <2>2. PICK t \in SendCmd(conn, Command("CHANGE_USER")) : t.rc = "error" => s = Outcome(t.c, "error")
    BY Zenon DEF ChangeUserOutcomes
  <2>3. t = Outcome(conn, "error")
    BY <2>1, BusyRefuses, Zenon
  <2>4. s = Outcome(conn, "error")
    BY <2>2, <2>3, Zenon DEF Outcome
  <2>5. Alike(conn, x)
    BY <1>1, <1>3, <2>4, ToldRefused, Zenon
  <2> QED
    BY <1>5, <2>5, Zenon DEF Alike
<1> QED
  BY <1>1, <1>4, <1>5, <1>6, Zenon DEF Settles, Alike

(* Skipping the rest of a result.                                            *)
LEMMA SkipSync ==
  ASSUME NEW c, SyncConn(c), c.status # "READY", NEW of,
         c.pvio /\ NextPacket(c).kind # "lost" => NextPacket(c).of = of
  PROVE  SyncConn(Ready(SkipResult(c, of))) /\ Ready(SkipResult(c, of)).open = c.open
<1> DEFINE own == NextPacket(c).of = of
<1>1. PICK e : e = SafeRead(AtStop(c), own)
  BY Zenon
<1>2. Quiet(c) /\ (c.pvio => Wire(c.wire) /\ AtRows(c))
  BY Zenon DEF SyncConn, Synced
<1>3. NextPacket(c).kind # "lost" => own
  BY NextIs, Zenon
<1> HIDE DEF own
<1>4. Finished(e) /\ e.open = c.open
  BY <1>1, <1>2, <1>3, RowsEnd, ZenonT(20)
<1>5. SkipResult(c, of) = e
  BY <1>1, Zenon DEF SkipResult, own
<1> QED
  BY <1>4, <1>5, FinishedSync, Zenon

LEMMA SyncReset ==
  ASSUME SyncInv, ResetConnection
  PROVE  Settles
<1>1. SyncConn(conn) /\ conn.open /\ NoneInUse /\ UNCHANGED res
  BY Zenon DEF SyncInv, ResetConnection, MaySend, May
<1>2. PICK c : c = SkipPending(conn)
  BY Zenon
<1>3. SyncConn(c) /\ c.open
  <2>1. conn.status # "READY" => SyncConn(Ready(SkipResult(conn, NextPacket(conn).of)))
                                 /\ Ready(SkipResult(conn, NextPacket(conn).of)).open = conn.open
    BY <1>1, SkipSync, Zenon
  <2> QED
    BY <1>1, <1>2, <2>1, Zenon DEF SkipPending
<1>4. PICK s \in TwiceCommand(c, "RESET_CONNECTION") :
        conn' = IF s.rc = "error" THEN Told(s)
                ELSE [Ready(FreeOldQuery(Unlinked(s.c))) EXCEPT !.owed = 0]
  BY <1>2, Zenon DEF ResetConnection
<1>5. Leaves(c, s) /\ (s.rc = "ok" => s.c.status = "READY")
  BY <1>3, TwiceCommandSync, Zenon DEF TextCommands
<1>6. CASE s.rc = "error"
  BY <1>1, <1>3, <1>4, <1>5, <1>6, ToldSync, ZenonT(20) DEF Settles
<1>7. CASE s.rc = "ok"
  <2>1. PICK x : x = s.c
    BY Zenon
  <2>2. PICK u : u = Unlinked(x)
    BY Zenon
  <2>3. PICK f : f = FreeOldQuery(u)
    BY Zenon
  <2>4. PICK g : g = Ready(f)
    BY Zenon
  <2>5. SyncConn(x) /\ x.open /\ x.status = "READY"
    BY <1>3, <1>5, <1>7, <2>1, Zenon DEF Leaves
  <2>6. SyncConn(u) /\ u.open /\ u.status = "READY"
    BY <2>2, <2>5, SettersAlike, Zenon DEF Alike
  <2>7. SyncConn(f) /\ f.open /\ f.status = "READY"
    BY <2>3, <2>6, SettersAlike, Zenon DEF Alike
  <2>8. g = f
    BY <2>4, <2>7, Zenon DEF Ready, SyncConn, Quiet, Handle, Fields
  <2>9. Alike(g, [g EXCEPT !.owed = 0])
    BY <2>7, <2>8, SettersAlike, ZenonT(20)
  <2>10. conn' = [g EXCEPT !.owed = 0]
    BY <1>4, <1>7, <2>1, <2>2, <2>3, <2>4, ZenonT(20)
  <2> QED
    BY <1>1, <2>7, <2>8, <2>9, <2>10, ZenonT(20) DEF Settles, Alike
<1> QED
  BY <1>5, <1>6, <1>7, Zenon DEF Leaves

(* The results of the application.                                           *)
LEMMA ResultGone ==
  ASSUME SyncInv, NEW r \in Results, NEW h \in ResultHandles, ~h.handle,
         res' = [res EXCEPT ![r] = h], SyncConn(conn'), conn'.open,
         ~res[r].handle => conn' = conn \/ NoneInUse
  PROVE  SyncInv'
<1>1. res \in [Results -> ResultHandles] /\ res' \in [Results -> ResultHandles]
  BY Zenon DEF SyncInv, SyncRes
<1>2. \A x \in Results : res'[x].handle => res'[x] = res[x] /\ x # r
  BY <1>1, Zenon
<1>3. ASSUME NEW x \in Results, res'[x].handle
      PROVE  conn' = conn /\ res[x].handle
  <2>1. res[x].handle /\ x # r
    BY <1>2, <1>3, Zenon
  <2>2. ~res[r].handle
    BY <2>1, Zenon DEF SyncInv, SyncRes
  <2> QED
    BY <2>1, <2>2, Zenon DEF NoneInUse
<1>4. SyncRes'
  <2> SUFFICES ASSUME NEW x \in Results, res'[x].handle
               PROVE  /\ res'[x].kind = "use" /\ conn'.status = "USE_RESULT" /\ conn'.pvio
                      /\ Reads(conn', res'[x].of)
                      /\ \A s \in Results : res'[s].handle => s = x
    BY <1>1, Zenon DEF SyncRes
  <2>1. conn' = conn /\ res'[x] = res[x]
    BY <1>2, <1>3, Zenon
  <2> QED
    BY <1>3, <2>1, Zenon DEF SyncInv, SyncRes
<1> QED
  BY <1>4, Zenon DEF SyncInv

LEMMA SyncStore ==
  ASSUME MallocFails = {}, SyncInv, NEW r \in Results, StoreResult(r)
  PROVE  SyncInv'
<1>1. /\ SyncConn(conn) /\ conn.open /\ conn.fields # NULL /\ conn.status = "GET_RESULT"
  BY Zenon DEF SyncInv, StoreResult, May
<1>2. PICK c : c = Ready(conn)
  BY Zenon
<1>3. PICK s \in ReadRows(c, c.fields) :
        /\ conn' = IF s.rc = "ok" THEN FreeOldQuery(s.c) ELSE Told(s)
        /\ res' = [res EXCEPT ![r] = IF s.rc = "ok"
                                       THEN [kind |-> "stored", handle |-> FALSE, of |-> conn.fields]
                                       ELSE NoResult]
  BY <1>2, Zenon DEF StoreResult
<1>4. /\ Quiet(c) /\ c.status = "READY" /\ c.fields = conn.fields /\ c.open = conn.open
      /\ c.pvio = conn.pvio /\ c.wire = conn.wire
      /\ c.server_status = conn.server_status /\ c.sent = conn.sent
  BY <1>1, <1>2, Zenon DEF SyncConn, Quiet, Ready, Handle, Fields
<1>5. c.pvio => Wire(c.wire) /\ AtRows(c) /\ Reads(c, c.fields)
  BY <1>1, <1>4, ZenonT(20) DEF SyncConn, Synced, AtRows, Reads
<1>6. Leaves(c, s)
  <2> DEFINE own == NextPacket(c).of = c.fields
  <2>1. PICK e : e = SafeRead(AtStop(c), own)
    BY Zenon
  <2>2. PICK p : p = NextPacket(AtStop(c))
    BY Zenon
  <2>3. NextPacket(c).kind # "lost" => own
    BY <1>5, NextIs, Zenon DEF Reads, AtRows
  <2>4. s = IF p.kind \in EOFs THEN Outcome([e EXCEPT !.server_status = p.flags], "ok")
                               ELSE Outcome(e, "error")
    BY <2>1, <2>2, Zenon DEF ReadRows
  <2> HIDE DEF own
  <2>5. /\ Finished(e) /\ e.open = c.open /\ e.status = c.status
        /\ p.kind \in {"eof", "err", "lost"}
        /\ p.kind = "eof" => Finished([e EXCEPT !.server_status = p.flags])
    BY <1>4, <1>5, <2>1, <2>2, <2>3, RowsEnd, ZenonT(20)
  <2>6. CASE p.kind = "eof"
    <3>1. PICK f : f = [e EXCEPT !.server_status = p.flags]
      BY Zenon
    <3>2. f.open = e.open /\ f.status = e.status
      BY <2>5, <3>1, Zenon DEF Finished, Quiet, Handle, Fields
    <3>3. SyncConn(f)
      BY <1>4, <2>5, <2>6, <3>1, <3>2, FinishedSync, ZenonT(20)
    <3> QED
      BY <2>4, <2>5, <2>6, <3>1, <3>2, <3>3, ZenonT(20) DEF EOFs, Outcome, Leaves
  <2>7. CASE p.kind # "eof"
    <3>1. SyncConn(e)
      BY <1>4, <2>5, FinishedSync, ZenonT(20)
    <3> QED
      BY <2>4, <2>5, <2>7, <3>1, ZenonT(20) DEF EOFs, Outcome, Leaves
  <2> QED
    BY <2>6, <2>7, Zenon
<1>7. SyncConn(conn') /\ conn'.open
  <2>1. PICK x : x = s.c
    BY Zenon
  <2>2. SyncConn(x) /\ x.open
    BY <1>1, <1>4, <1>6, <2>1, Zenon DEF Leaves
  <2>3. Alike(x, FreeOldQuery(x))
    BY <2>2, SettersAlike, Zenon
  <2>4. SyncConn(Told(s)) /\ Told(s).open
    BY <1>1, <1>4, <1>6, ToldSync, Zenon
  <2> QED
    BY <1>3, <2>1, <2>2, <2>3, <2>4, ZenonT(20) DEF Alike
<1>8. NoneInUse
  BY <1>1, InUse, Zenon
<1>9. PICK h : h = IF s.rc = "ok" THEN [kind |-> "stored", handle |-> FALSE, of |-> conn.fields]
                                  ELSE NoResult
  BY Zenon
<1>10. h \in ResultHandles /\ ~h.handle
  BY <1>1, <1>9, Zenon DEF ResultHandles, NoResult, NULL, Tags, SyncConn, Quiet
<1> QED
  BY <1>3, <1>7, <1>8, <1>9, <1>10, ResultGone, ZenonT(20)

LEMMA SyncUse ==
  ASSUME SyncInv, NEW r \in Results, UseResult(r)
  PROVE  SyncInv'
<1>1. /\ SyncConn(conn) /\ conn.open /\ conn.fields # NULL /\ conn.status = "GET_RESULT" /\ conn.pvio
      /\ conn' = [conn EXCEPT !.fields = NULL, !.status = "USE_RESULT"]
      /\ res' = [res EXCEPT ![r] = [kind |-> "use", handle |-> TRUE, of |-> conn.fields]]
      /\ res \in [Results -> ResultHandles]
  BY Zenon DEF SyncInv, SyncConn, Quiet, SyncRes, UseResult, May
<1>2. PICK d : d = conn'
  BY Zenon
<1>3. /\ Quiet(d) /\ d.status = "USE_RESULT" /\ d.open = conn.open
      /\ d.pvio = conn.pvio /\ d.wire = conn.wire
      /\ d.server_status = conn.server_status /\ d.sent = conn.sent
  BY <1>1, <1>2, Zenon DEF SyncConn, Quiet, Handle, Fields, NULL, Tags
<1>4. Wire(d.wire) /\ AtRows(d) /\ Reads(d, conn.fields)
  BY <1>1, <1>3, ZenonT(20) DEF SyncConn, Synced, AtRows, Reads
<1>5. SyncConn(d)
  BY <1>3, <1>4, Zenon DEF SyncConn, Synced
<1>6. \A x \in Results : ~res[x].handle
  BY <1>1, InUse, Zenon DEF NoneInUse
<1>7. PICK h : h = [kind |-> "use", handle |-> TRUE, of |-> conn.fields]
  BY Zenon
<1>8. h \in ResultHandles /\ h.handle /\ h.kind = "use" /\ h.of = conn.fields
  BY <1>1, <1>7, Zenon DEF ResultHandles, SyncConn, Quiet
<1>9. res' \in [Results -> ResultHandles] /\ \A x \in Results : res'[x] = IF x = r THEN h ELSE res[x]
  BY <1>1, <1>7, <1>8, ZenonT(20)
<1>10. SyncRes'
  BY <1>1, <1>2, <1>3, <1>4, <1>6, <1>8, <1>9, ZenonT(20) DEF SyncRes
<1> QED
  BY <1>1, <1>2, <1>3, <1>5, <1>10, ZenonT(20) DEF SyncInv

LEMMA SyncFetch ==
  ASSUME SyncInv, NEW r \in Results, FetchRow(r)
  PROVE  SyncInv'
<1>1. /\ SyncConn(conn) /\ conn.open /\ res \in [Results -> ResultHandles] /\ res[r].handle
      /\ conn.status = "USE_RESULT" /\ conn.pvio /\ Reads(conn, res[r].of)
  BY Zenon DEF SyncInv, SyncRes, FetchRow, May
<1> DEFINE own == NextPacket(conn).of = res[r].of
<1>2. PICK p : p = NextPacket(conn)
  BY Zenon
<1>3. PICK e : e = SafeRead(conn, own)
  BY Zenon
<1>4. Quiet(conn) /\ Wire(conn.wire) /\ AtRows(conn) /\ conn.wire # <<>> /\ p = conn.wire[1]
  BY <1>1, <1>2, NextIs, ZenonT(20) DEF SyncConn, Synced, AtRows
<1>5. \/ p.kind \notin EOFs \cup {"err", "lost"} /\ conn' = e /\ UNCHANGED res
      \/ /\ p.kind \in EOFs /\ conn' = Ready([e EXCEPT !.server_status = p.flags])
         /\ res' = [res EXCEPT ![r].handle = FALSE]
      \/ /\ p.kind \in {"err", "lost"} /\ conn' = Told(Outcome(Ready(e), "error"))
         /\ res' = [res EXCEPT ![r].handle = FALSE]
  BY <1>2, <1>3, Zenon DEF FetchRow
<1>6. p.kind # "lost" => own
  BY <1>1, <1>2, <1>4, Zenon DEF Reads
<1> HIDE DEF own
<1>7. CASE p.kind = "row"
  <2>1. conn' = e /\ UNCHANGED res
    BY <1>5, <1>7, ZenonT(20) DEF EOFs
  <2>2. ReadOne(conn, e) /\ ~e.mixed
    BY <1>2, <1>3, <1>4, <1>6, <1>7, SafeReadOne, ZenonT(20) DEF Quiet
  <2>3. /\ Quiet(e) /\ e.pvio /\ e.open = conn.open /\ e.wire = Tail(conn.wire)
        /\ e.sent = conn.sent /\ e.status = "USE_RESULT" /\ e.server_status = conn.server_status
    BY <1>1, <1>2, <1>4, <1>7, <2>2, ZenonT(20) DEF ReadOne, SameSession, Quiet
  <2>4. e.wire # <<>> /\ Wire(e.wire) /\ Follows(p, e.wire[1])
    BY <1>4, <1>7, <2>3, WireGoesOn, ZenonT(20) DEF Continues
  <2>5. AtRows(e) /\ Reads(e, res[r].of)
    BY <1>1, <1>4, <1>7, <2>3, <2>4, ZenonT(20) DEF Follows, AtRows, Reads
  <2>6. SyncConn(e)
    BY <2>3, <2>4, <2>5, ZenonT(20) DEF SyncConn, Synced
  <2>7. \A x \in Results : res[x].handle => x = r /\ res[x].kind = "use"
    BY <1>1, Zenon DEF SyncInv, SyncRes
  <2>8. SyncRes'
    BY <1>1, <2>1, <2>3, <2>5, <2>7, ZenonT(20) DEF SyncRes
  <2> QED
    BY <1>1, <2>1, <2>3, <2>6, <2>8, ZenonT(20) DEF SyncInv
<1>8. CASE p.kind \in {"eof", "err", "lost"}
  <2>1. PICK h : h = [res[r] EXCEPT !.handle = FALSE]
    BY Zenon
  <2>2. h \in ResultHandles /\ ~h.handle
    BY <1>1, <2>1, Zenon DEF ResultHandles
  <2>3. res' = [res EXCEPT ![r] = h]
    BY <1>1, <1>5, <1>8, <2>1, ZenonT(20) DEF EOFs
  <2>4. CASE p.kind = "eof"
    <3>1. /\ Quiet(e) /\ e.pvio /\ Wire(e.wire) /\ e.open = conn.open /\ e.status = conn.status
          /\ "MORE" \notin p.flags => Drained(e)
          /\ "MORE" \in p.flags => AtResult(e)
      BY <1>1, <1>3, <1>4, <1>6, <2>4, PacketEnds, ZenonT(20) DEF AtRows
    <3>2. PICK f : f = [e EXCEPT !.server_status = p.flags]
      BY Zenon
    <3>3. Finished(f) /\ f.open = e.open
      BY <3>1, <3>2, StatusTaken, Zenon
    <3>4. conn' = Ready(f)
      BY <1>5, <2>4, <3>2, Zenon DEF EOFs
    <3>5. SyncConn(conn') /\ conn'.open
      BY <1>1, <3>1, <3>3, <3>4, FinishedSync, ZenonT(20)
    <3> QED
      BY <1>1, <2>2, <2>3, <3>5, ResultGone, ZenonT(20)
  <2>5. CASE p.kind \in {"err", "lost"}
    <3>1. Finished(e) /\ e.open = conn.open
      <4>1. CASE p.kind = "err"
        BY <1>1, <1>3, <1>4, <1>6, <4>1, PacketEnds, ZenonT(20) DEF AtRows
      <4>2. CASE p.kind = "lost"
        BY <1>2, <1>3, <1>4, <4>2, LostFinished, ZenonT(20)
      <4> QED
        BY <2>5, <4>1, <4>2, Zenon
    <3>2. PICK f : f = Ready(e)
      BY Zenon
    <3>3. SyncConn(f) /\ f.open
      BY <1>1, <3>1, <3>2, FinishedSync, ZenonT(20)
    <3>4. conn' = Told(Outcome(f, "error"))
      BY <1>5, <2>5, <3>2, ZenonT(20) DEF EOFs
    <3>5. SyncConn(conn') /\ conn'.open
      BY <3>3, <3>4, ToldRefused, Zenon DEF Alike
    <3> QED
      BY <1>1, <2>2, <2>3, <3>5, ResultGone, Zenon
  <2> QED
    BY <1>8, <2>4, <2>5, Zenon
<1> QED
  BY <1>4, <1>7, <1>8, Zenon DEF AtRows

LEMMA SyncFree ==
  ASSUME SyncInv, NEW r \in Results, FreeResult(r)
  PROVE  SyncInv'
<1>1. /\ SyncConn(conn) /\ conn.open
      /\ res' = [res EXCEPT ![r] = NoResult]
  BY Zenon DEF SyncInv, FreeResult, May
<1>2. NoResult \in ResultHandles /\ ~NoResult.handle
  BY Zenon DEF NoResult, ResultHandles, NULL, Tags
<1>3. CASE res[r].handle
  <2>1. conn.status = "USE_RESULT" /\ conn.pvio /\ Reads(conn, res[r].of)
    BY <1>3, Zenon DEF SyncInv, SyncRes
  <2>2. conn' = Ready(SkipResult(conn, res[r].of))
    BY <1>3, <2>1, Zenon DEF FreeResult
  <2>3. NextPacket(conn).kind # "lost" => NextPacket(conn).of = res[r].of
    BY <1>1, <2>1, NextIs, Zenon DEF Reads, SyncConn, Synced, AtRows
  <2>4. SyncConn(conn') /\ conn'.open
    BY <1>1, <2>1, <2>2, <2>3, SkipSync, ZenonT(20)
  <2> QED
    BY <1>1, <1>2, <1>3, <2>4, ResultGone, ZenonT(20)
<1>4. CASE ~res[r].handle
  <2>1. conn' = conn
    BY <1>4, Zenon DEF FreeResult
  <2> QED
    BY <1>1, <1>2, <2>1, ResultGone, Zenon
<1> QED
  BY <1>3, <1>4, Zenon

LEMMA SyncClose ==
  ASSUME SyncInv, Close \/ Connect
  PROVE  SyncInv'
<1>1. SyncConn(conn) /\ Quiet(conn) /\ UNCHANGED res
  BY Zenon DEF SyncInv, SyncConn, Close, Connect
<1>2. NoneInUse
  BY Zenon DEF Close, Connect, SyncInv, SyncRes, NoneInUse
<1>3. SyncConn(conn') /\ (~conn'.open => ~conn'.pvio)
  <2>1. CASE Close
    <3>1. PICK a : a = Ready(conn)
      BY Zenon
    <3>2. PICK e : e = EndServer(a)
      BY Zenon
    <3>3. PICK u : u = Unlinked(e)
      BY Zenon
    <3>4. conn' = [u EXCEPT !.open = FALSE, !.owed = 0]
      BY <2>1, <3>1, <3>2, <3>3, ZenonT(20) DEF Close
    <3>5. Quiet(a) /\ Handle(a)
      BY <1>1, <3>1, ZenonT(20) DEF Ready, Quiet, Handle, Fields
    <3>6. Quiet(e) /\ ~e.pvio
      BY <3>2, <3>5, EndServerShape, NullTag, ZenonT(20) DEF Quiet, SameSession
    <3>7. Quiet(u) /\ ~u.pvio
      BY <3>3, <3>6, Zenon DEF Unlinked, Quiet, Handle, Fields
    <3>8. Quiet(conn') /\ ~conn'.pvio
      BY <3>4, <3>7, Zenon DEF Quiet, Handle, Fields
    <3> QED
      BY <3>8, Zenon DEF SyncConn
  <2>2. CASE Connect
    <3>1. PICK e : e = Fresh(conn)
      BY Zenon
    <3>2. /\ Handle(e) /\ e.sent = conn.sent /\ e.hung = conn.hung /\ e.mixed = conn.mixed
          /\ e.pvio /\ e.status = "READY" /\ e.server_status = {"AUTO"} /\ e.fields = NULL
          /\ ~e.multi /\ e.wire = <<>>
      BY <1>1, <3>1, FreshShape, ZenonT(20) DEF Quiet
    <3>3. conn' = [e EXCEPT !.open = TRUE]
      BY <2>2, <3>1, Zenon DEF Connect
    <3>4. PICK d : d = conn'
      BY Zenon
    <3>a. Quiet(e)
      BY <1>1, <3>2, NullTag, ZenonT(20) DEF Quiet
    <3>5. Quiet(d) /\ d.open /\ d.status = "READY" /\ d.server_status = {"AUTO"} /\ d.wire = <<>>
      BY <3>a, <3>2, <3>3, <3>4, ZenonT(20) DEF Quiet, Handle, Fields
    <3>6. Wire(d.wire)
      BY <3>5 DEF Wire, Ordered
    <3>7. SyncConn(d)
      BY <3>5, <3>6, Zenon DEF SyncConn, Synced, Drained
    <3> QED
      BY <3>4, <3>5, <3>7, ZenonT(20)
  <2> QED
    BY <2>1, <2>2, Zenon
<1> QED
  BY <1>1, <1>2, <1>3, Zenon DEF SyncInv, SyncRes, NoneInUse

LEMMA SyncDies ==
  ASSUME SyncInv, ServerDies
  PROVE  SyncInv'
<1>1. SyncConn(conn) /\ Quiet(conn) /\ conn.pvio /\ Synced(conn) /\ ~Broken(conn) /\ UNCHANGED res
  BY Zenon DEF SyncInv, SyncConn, ServerDies
<1>2. PICK w : w = conn.wire
  BY Zenon
<1>3. Wire(w) /\ \A i \in 1..Len(w) : w[i].kind # "lost"
  <2>1. Wire(w) /\ w \in Seq(Packets)
    BY <1>1, <1>2, WireOf, Zenon DEF Synced
  <2>2. ASSUME NEW i \in 1..Len(w), w[i].kind = "lost"
        PROVE  FALSE
    <3>1. i = Len(w) /\ w # <<>>
      BY <2>1, <2>2 DEF Wire
    <3> QED
      BY <1>1, <1>2, <2>2, <3>1, ZenonT(20) DEF Broken
  <2> QED
    BY <2>1, <2>2, Zenon
<1>4. PICK k \in 0..Len(w) : conn' = [conn EXCEPT !.wire = Append(SubSeq(w, 1, k), Lost)]
  BY <1>1, <1>2, Zenon DEF ServerDies, Quiet, Handle, Fields
<1>5. PICK v : v = Append(SubSeq(w, 1, k), Lost)
  BY Zenon
<1>6. Wire(v) /\ v # <<>> /\ v[1] = IF k = 0 THEN Lost ELSE w[1]
  BY <1>3, <1>5, WireCut, Zenon
<1>7. PICK d : d = conn'
  BY Zenon
<1>8. /\ Quiet(d) /\ d.wire = v /\ d.pvio /\ d.open = conn.open /\ d.status = conn.status
      /\ d.fields = conn.fields /\ d.server_status = conn.server_status /\ d.sent = conn.sent
  BY <1>1, <1>4, <1>5, <1>7, ZenonT(20) DEF Quiet, Handle, Fields
<1>9. Lost.kind = "lost"
  BY Zenon DEF Lost, Packet
<1>10. w = <<>> => v = <<Lost>>
  <2> SUFFICES ASSUME w = <<>>
               PROVE  v = <<Lost>>
    BY Zenon
  <2>1. k = 0
    BY <1>4
  <2>2. SubSeq(w, 1, 0) = <<>>
    OBVIOUS
  <2>3. v = Append(<<>>, Lost)
    BY <1>5, <2>1, <2>2, Zenon
  <2> QED
    BY <2>3
<1>11. w # <<Lost>>
  BY <1>3, <1>9
<1>12. k # 0 => w # <<>>
  BY <1>4
<1>13. Synced(d)
  <2>1. conn.status = "READY" /\ "MORE" \notin conn.server_status => Drained(d)
    BY <1>1, <1>2, <1>8, <1>10, <1>11, ZenonT(20) DEF Synced, Drained
  <2>2. AtResult(conn) => AtResult(d)
    BY <1>2, <1>6, <1>8, <1>9, Zenon DEF AtResult
  <2>3. AtRows(conn) => AtRows(d)
    BY <1>2, <1>6, <1>8, <1>9, Zenon DEF AtRows
  <2>4. \A of : Reads(conn, of) => Reads(d, of)
    BY <1>2, <1>6, <1>8, <1>9, Zenon DEF Reads
  <2> QED
    BY <1>1, <1>6, <1>8, <2>1, <2>2, <2>3, <2>4, ZenonT(20) DEF Synced
<1>14. \A of : Reads(conn, of) => Reads(d, of)
  BY <1>2, <1>6, <1>8, <1>9, Zenon DEF Reads
<1>15. SyncRes'
  BY <1>1, <1>7, <1>8, <1>14, Zenon DEF SyncInv, SyncRes
<1> QED
  BY <1>1, <1>7, <1>8, <1>13, <1>15, Zenon DEF SyncInv, SyncConn

LEMMA SyncInit ==
  ASSUME Init
  PROVE  SyncInv
<1>1. PICK c : /\ Handle(c) /\ c.open /\ ~c.pvio /\ c.sent = 0 /\ ~c.hung /\ ~c.mixed
               /\ conn = Fresh(c)
  <2>1. PICK c : c = [open |-> TRUE, pvio |-> FALSE, status |-> "READY", server_status |-> {},
                      fields |-> NULL, multi |-> FALSE, batch |-> <<>>,
                      stmts |-> [s \in Stmts |-> NoHandle],
                      wire |-> <<>>, sent |-> 0, ids |-> <<>>, last |-> 0, misrouted |-> FALSE,
                      ses |-> 0, hung |-> FALSE, spins |-> FALSE, mixed |-> FALSE, owed |-> 0]
    BY Zenon
  <2>2. Handle(c) /\ c.open /\ ~c.pvio /\ c.sent = 0 /\ ~c.hung /\ ~c.mixed
    BY <2>1, Zenon DEF Handle, Fields
  <2>3. conn = Fresh(c)
    BY <2>1, Zenon DEF Init
  <2> QED
    BY <2>2, <2>3, Zenon
<1>2. PICK e : e = conn
  BY Zenon
<1>3. /\ Handle(e) /\ e.open /\ e.sent = 0 /\ ~e.hung /\ ~e.mixed
      /\ e.pvio /\ e.status = "READY" /\ e.server_status = {"AUTO"} /\ e.fields = NULL
      /\ ~e.multi /\ e.wire = <<>>
  BY <1>1, <1>2, FreshShape, Zenon
<1>4. Quiet(e) /\ Wire(e.wire)
  BY <1>3, NullTag DEF Quiet, Wire, Ordered
<1>5. SyncConn(e)
  BY <1>3, <1>4, Zenon DEF SyncConn, Synced, Drained
<1>6. SyncRes
  BY Zenon DEF Init, SyncRes, NoResult, ResultHandles, NULL, Tags
<1> QED
  BY <1>2, <1>3, <1>5, <1>6, ZenonT(20) DEF SyncInv

LEMMA SyncInvInductive ==
  ASSUME MallocFails = {}
  PROVE  (Init => SyncInv) /\ (SyncInv /\ [Next]_vars => SyncInv')
<1>1. Init => SyncInv
  BY SyncInit, Zenon
<1>2. SyncInv /\ [Next]_vars => SyncInv'
  <2> SUFFICES ASSUME SyncInv, [Next]_vars
               PROVE  SyncInv'
    BY Zenon
  <2>1. CASE RealQuery \/ NextResult
    BY <2>1, SyncQuery, SyncNextResult, SettlesSync, ZenonT(20)
  <2>2. CASE Simple \/ Ping \/ ChangeUser \/ ResetConnection
    BY <2>2, SyncSimple, SyncChangeUser, SyncReset, SettlesSync, ZenonT(20)
  <2>3. ASSUME NEW r \in Results, StoreResult(r) \/ UseResult(r) \/ FetchRow(r) \/ FreeResult(r)
        PROVE  SyncInv'
    BY <2>3, SyncStore, SyncUse, SyncFetch, SyncFree, ZenonT(20)
  <2>4. CASE Close \/ Connect \/ ServerDies
    BY <2>4, SyncClose, SyncDies, Zenon
  <2>5. CASE UNCHANGED vars
    BY <2>5, Zenon DEF vars, SyncInv, SyncRes
  <2> QED
    BY <2>1, <2>2, <2>3, <2>4, <2>5, ZenonT(20) DEF Next, Others
<1> QED
  BY <1>1, <1>2, Zenon

(* While no allocation fails, the handle and the server stay in step,        *)
(* whatever the calls, the lost connections and the reconnects: when no      *)
(* result is pending, nothing that the server has sent is unread, and no     *)
(* call waits for a packet that does not come (mthd_my_read_query_result,    *)
(* mthd_my_read_rows, mysql_next_result, mysql_fetch_row, mysql_free_result).*)
THEOREM InStepHolds ==
  ASSUME MallocFails = {}
  PROVE  Spec => []InStep
<1>1. Init => SyncInv
  BY SyncInvInductive, Zenon
<1>2. SyncInv /\ [Next]_vars => SyncInv'
  BY SyncInvInductive, Zenon
<1>3. SyncInv => InStep
  BY ZenonT(20) DEF SyncInv, SyncConn, Synced, Drained, Quiet, InStep, InSync, NoHang, Busy
<1> QED
  BY <1>1, <1>2, <1>3, PTL DEF Spec

(* While no allocation fails, no call reads an answer to another command or  *)
(* a row of another result: mthd_my_send_cmd sends nothing while a result is *)
(* pending, and every call reads its result to the end.                      *)
THEOREM OwnAnswersHolds ==
  ASSUME MallocFails = {}
  PROVE  Spec => []OwnAnswers
<1>1. Init => SyncInv
  BY SyncInvInductive, Zenon
<1>2. SyncInv /\ [Next]_vars => SyncInv'
  BY SyncInvInductive, Zenon
<1>3. SyncInv => OwnAnswers
  BY Zenon DEF SyncInv, SyncConn, Quiet, OwnAnswers
<1> QED
  BY <1>1, <1>2, <1>3, PTL DEF Spec
=============================================================================
