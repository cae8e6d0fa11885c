----------------------------- MODULE ParamCodec -----------------------------
(***************************************************************************)
(* The requests that execute a prepared statement (mariadb_stmt.c): one set*)
(* of parameters, several (bulk), or statement and parameters together     *)
(* (prepare_execute).  A request grows a buffer by what the parameter is   *)
(* expected to need, then the parameter is written behind what is there.   *)
(* Column types and the reading functions are those of RowCodec.           *)
(*                                                                         *)
(* What prepare_execute reads out of the text of the statement: the number *)
(* of its placeholders, which is counted locally, and whether it is an     *)
(* insert, update or delete.  A text is a sequence of characters: "q" and  *)
(* "d" stand for the two quotes, "n" for a new line, "I" for the word      *)
(* insert.                                                                 *)
(***************************************************************************)
EXTENDS RowCodec, FiniteSets, FiniteSetsExt

CONSTANTS Prealloc   \* bytes allocated at first (1024)
Slack == 20          \* bytes kept free beyond what a parameter needs

(***************************************************************************)
(* A parameter is [type, uns, v, null, long, ind]: ind is the indicator of *)
(* a bulk row (-1 terminated by zero, 0 a value, 1 NULL, 2 default, 3      *)
(* ignore, 4 skip the row), long that its data went ahead of the request.  *)
(***************************************************************************)
(* the TIME and DATETIME cases of store_param                              *)
StoreTime(t) ==
  LET all == <<IF t.neg THEN 1 ELSE 0>> \o Bytes(4, t.day) \o <<t.hour, t.minute, t.second>>
      n == IF t.part # 0 THEN 12
           ELSE IF t.day # 0 \/ t.hour # 0 \/ t.minute # 0 \/ t.second # 0 THEN 8 ELSE 0
  IN <<n>> \o SubSeq(all \o Bytes(4, t.part), 1, n)
StoreDatetime(t) ==
  LET all == Bytes(2, t.year) \o <<t.month, t.day, t.hour, t.minute, t.second>> \o Bytes(4, t.part)
      n == IF t.part # 0 THEN 11
           ELSE IF t.hour # 0 \/ t.minute # 0 \/ t.second # 0 THEN 7
           ELSE IF t.year # 0 \/ t.month # 0 \/ t.day # 0 THEN 4 ELSE 0
  IN <<n>> \o SubSeq(all, 1, n)

(* store_param_oracle_timestamp_tz: the length byte of the timestamp is    *)
(* written again once the names are behind it                              *)
StoreZoned(v) ==
  LET s == <<12>> \o v.core \o <<0, 0>> \o StoreLength(Len(v.name)) \o v.name
             \o StoreLength(Len(v.abbr)) \o v.abbr
      length == 16 + Len(v.name) + Len(v.abbr)
  IN [s EXCEPT ![Len(s) - length] = length]

StoreParam(p) ==
  CASE p.type \in IntTypes -> Bytes(IntWidth[p.type], p.v)
    [] p.type = "double" -> [i \in 1..8 |-> IF i = 1 THEN p.v ELSE 0]
    [] p.type = "time" -> StoreTime(p.v)
    [] p.type \in {"date", "datetime"} -> StoreDatetime(p.v)
    [] p.type = "stamp" -> <<12>> \o p.v
    [] p.type = "zoned" -> StoreZoned(p.v)
    [] p.type \in {"ds", "ym"} -> <<Len(p.v)>> \o p.v
    [] OTHER -> StoreLength(Len(p.v)) \o p.v

(* What the request keeps room for: ma_get_length of a time is the length  *)
(* mysql_stmt_bind_param gave it, that of an interval the application's.   *)
BindLength == [time |-> 13, datetime |-> 12, date |-> 5, stamp |-> 13, ds |-> 0, ym |-> 0]
Foreseen(p) ==
  CASE p.type \in IntTypes -> IntWidth[p.type]
    [] p.type = "double" -> 8
    [] p.type \in {"time", "date", "datetime", "stamp"} -> 5 + BindLength[p.type]
    [] p.type \in {"ds", "ym"} -> BindLength[p.type]
    [] p.type = "zoned" -> 17 + Len(p.v.name) + Len(p.v.abbr)
    [] p.type = "lob" -> Len(p.v) + Len(StoreLength(Len(p.v)))
    [] OTHER -> 5 + Len(p.v)
(* of a bulk row: types without a fixed length count -1                    *)
ForeseenBulk(p) ==
  CASE p.type \in IntTypes -> IntWidth[p.type]
    [] p.type = "double" -> 8
    [] p.type \in {"time", "date", "datetime"} -> -1
    [] OTHER -> 5 + Len(p.v)

(***************************************************************************)
(* The buffer: [buf, cap, ok], ok while nothing was written behind cap     *)
(***************************************************************************)
MaxOf(a, b) == IF a > b THEN a ELSE b
Grow(r, size) ==
  IF r.cap - Len(r.buf) < size + Slack
  THEN [r EXCEPT !.cap = MaxOf(2 * r.cap, Len(r.buf) + size + Slack)] ELSE r
Put(r, bytes) ==
  [r EXCEPT !.buf = @ \o bytes, !.ok = @ /\ Len(r.buf) + Len(bytes) <= r.cap]
NewRequest(head) == Put([buf |-> <<>>, cap |-> Prealloc, ok |-> TRUE], head)

TypeCode == [tiny |-> 1, short |-> 2, long |-> 3, longlong |-> 4, double |-> 5, time |-> 6,
             date |-> 7, datetime |-> 8, string |-> 9, stamp |-> 10, zoned |-> 11,
             ds |-> 12, ym |-> 13, lob |-> 14]
TypeName(c) == CHOOSE t \in DOMAIN TypeCode : TypeCode[t] = c
StoreType(p) == <<TypeCode[p.type], IF p.uns THEN 128 ELSE 0>>
Types(ps) == FlattenSeq([i \in 1..Len(ps) |-> StoreType(ps[i])])

HasData(p) == ~p.null /\ ~p.long
RECURSIVE PutParams(_, _, _)
PutParams(r, ps, i) ==
  IF i > Len(ps) THEN r
  ELSE LET g == Grow(r, IF HasData(ps[i]) THEN Foreseen(ps[i]) ELSE 0)
       IN PutParams(IF HasData(ps[i]) THEN Put(g, StoreParam(ps[i])) ELSE g, ps, i + 1)

(* The null bitmap, whether types follow, and the types                    *)
PutTypes(r, ps, send) ==
  LET nulls == NullBytes([i \in 1..Len(ps) |-> ps[i].null], 0)
      r1 == IF Len(nulls) + 20 > r.cap - Len(r.buf)
            THEN [r EXCEPT !.cap = @ + Len(r.buf) + Len(nulls) + 20] ELSE r
      r2 == Put(r1, nulls \o <<IF send THEN 1 ELSE 0>>)
      r3 == IF r2.cap - Len(r2.buf) < 2 * Len(ps) + 20
            THEN [r2 EXCEPT !.cap = Len(r2.buf) + 2 * Len(ps) + 20] ELSE r2
  IN IF send THEN Put(r3, Types(ps)) ELSE r2

(* mysql_stmt_execute_generate_simple_request: statement id, flags and an  *)
(* iteration count of 1 come first                                         *)
SimpleRequest(ps, send) ==
  PutParams(PutTypes(NewRequest([i \in 1..9 |-> 0]), ps, send), ps, 1)

(* mysql_stmt_prepare_execute_generate_request: the query, the number of   *)
(* parameters, the parameters and 16 bytes of modes and check sum          *)
PrepareExecuteRequest(query, ps, send) ==
  LET r == NewRequest([i \in 1..9 |-> 0] \o StoreLength(Len(query)))
      r1 == IF r.cap - Len(r.buf) < Len(query) + 4 + 20
            THEN [r EXCEPT !.cap = @ + Len(r.buf) + Len(query)] ELSE r
      r2 == PutParams(PutTypes(Put(r1, query \o Bytes(4, Len(ps))), ps, send), ps, 1)
      r3 == IF r2.cap - Len(r2.buf) < 16 THEN [r2 EXCEPT !.cap = Len(r2.buf) + 16] ELSE r2
  IN Put(r3, [i \in 1..16 |-> 0])

(* mysql_stmt_execute_generate_bulk_request: an indicator, then the data.  *)
SkipParamset(ps) == \E i \in 1..Len(ps) : ps[i].ind = 4
RECURSIVE PutRow(_, _, _)
PutRow(r, ps, i) ==
  IF i > Len(ps) THEN r
  ELSE LET p == ps[i]
           g == Grow(r, IF p.ind > 0 THEN 1 ELSE 1 + ForeseenBulk(p))
           q == Put(g, <<IF p.ind > 0 THEN p.ind ELSE 0>>)
       IN PutRow(IF p.ind > 0 THEN q ELSE Put(q, StoreParam(p)), ps, i + 1)
RECURSIVE PutRows(_, _)
PutRows(r, rows) ==
  IF rows = <<>> THEN r
  ELSE PutRows(IF SkipParamset(Head(rows)) THEN r ELSE PutRow(r, Head(rows), 1), Tail(rows))
BulkRequest(rows, send) ==
  LET r == NewRequest([i \in 1..4 |-> 0] \o <<IF send THEN 1 ELSE 0, 0>>)
      r1 == IF r.cap - Len(r.buf) < 2 * Len(rows[1]) + 20
            THEN [r EXCEPT !.cap = Len(r.buf) + 2 * Len(rows[1]) + 20] ELSE r
  IN PutRows(IF send THEN Put(r1, Types(rows[1])) ELSE r, rows)

(***************************************************************************)
(* The server's side: it keeps the types until new ones come.              *)
(***************************************************************************)
ServerValue(t, uns, buf, p) ==
  LET l == FieldLength(buf, p)
      s == SubSeq(buf, l.next, l.next + l.len - 1)
      u == Number(buf, p, IntWidth[t])
  IN CASE t \in IntTypes -> [v |-> IF uns THEN u ELSE Signed(IntWidth[t], u), next |-> p + IntWidth[t]]
       [] t = "double" -> [v |-> buf[p], next |-> p + 8]
       [] t \in TimeTypes -> [v |-> ToDatetime(buf, l.next, l.len, t), next |-> l.next + l.len]
       [] OTHER -> [v |-> s, next |-> l.next + l.len]
ParamMeans(p) ==
  CASE p.type = "time" ->
         [p.v EXCEPT !.type = IF p.v = [TimeZero EXCEPT !.neg = p.v.neg] THEN "error" ELSE "time",
                     !.hour = @ + 24 * p.v.day,
                     !.neg = @ /\ p.v # [TimeZero EXCEPT !.neg = p.v.neg]]
    [] p.type = "date" ->
         IF p.v = TimeZero THEN TimeZero
         ELSE [p.v EXCEPT !.type = "date", !.hour = 0, !.minute = 0, !.second = 0, !.part = 0]
    [] p.type = "datetime" ->
         IF p.v = TimeZero THEN TimeZero
         ELSE [p.v EXCEPT !.type = IF [p.v EXCEPT !.year = 0, !.month = 0, !.day = 0] = TimeZero
                                   THEN "date" ELSE "datetime"]
    [] p.type = "zoned" ->
         p.v.core \o <<0, 0, Len(p.v.name)>> \o p.v.name \o <<Len(p.v.abbr)>> \o p.v.abbr
    [] OTHER -> p.v

ReadTypes(buf, p, n) ==
  [i \in 1..n |-> [type |-> TypeName(buf[p + 2 * i - 2]), uns |-> buf[p + 2 * i - 1] = 128]]
Absent == [k |-> "absent"]
Sent(v) == [k |-> "value", v |-> v]
RECURSIVE ReadValues(_, _, _, _, _)
ReadValues(types, has, buf, i, p) ==
  IF i > Len(types) THEN <<>>
  ELSE IF ~has[i] THEN <<Absent>> \o ReadValues(types, has, buf, i + 1, p)
  ELSE LET x == ServerValue(types[i].type, types[i].uns, buf, p)
       IN <<Sent(x.v)>> \o ReadValues(types, has, buf, i + 1, x.next)
(* of a simple request that begins at p + 1, long data known to the server *)
ServerReads(buf, p, n, known, long) ==
  LET m == (n + 7) \div 8
      types == IF buf[p + m + 1] = 1 THEN ReadTypes(buf, p + m + 2, n) ELSE known
      has == [i \in 1..n |-> ~long[i] /\ (buf[p + 1 + (i - 1) \div 8] \div 2 ^ ((i - 1) % 8)) % 2 = 0]
  IN [types |-> types,
      vals |-> ReadValues(types, has, buf, 1, p + m + 2 + (IF buf[p + m + 1] = 1 THEN 2 * n ELSE 0))]
RECURSIVE ReadRows(_, _, _)
ReadRows(types, buf, p) ==
  IF p > Len(buf) THEN <<>>
  ELSE LET row[i \in 0..Len(types)] ==
             IF i = 0 THEN [vals |-> <<>>, p |-> p]
             ELSE LET q == row[i - 1]
                      x == ServerValue(types[i].type, types[i].uns, buf, q.p + 1)
                  IN IF buf[q.p] > 0 THEN [vals |-> Append(q.vals, Absent), p |-> q.p + 1]
                     ELSE [vals |-> Append(q.vals, Sent(x.v)), p |-> x.next]
       IN <<row[Len(types)].vals>> \o ReadRows(types, buf, row[Len(types)].p)

(***************************************************************************)
(* The statement: what is bound, what the server knows, the last request   *)
(***************************************************************************)
CONSTANTS ParamChoices,   \* parameters an application may bind
          SecondAfter,    \* types of a first parameter that others follow
          ParamQuery      \* the text of a statement sent with its parameters

VARIABLES prows,    \* the rows of parameters, one when not bulk
          psend,    \* stmt->send_types_to_server
          pknown,   \* the types the server keeps
          preq      \* the last request: did it fit, did the server read what was bound

ParamInit == prows = <<>> /\ psend = FALSE /\ pknown = <<>> /\ preq = [fits |-> TRUE, same |-> TRUE]

(* mysql_stmt_bind_param                                                   *)
BindParam_KeepsTypes(ps) ==
  /\ prows' = <<ps>> /\ psend' = (psend \/ prows = <<>>)
  /\ UNCHANGED <<pknown, preq>>
BindParam(ps) ==
  /\ prows' = <<ps>> /\ psend' = TRUE
  /\ UNCHANGED <<pknown, preq>>
(* The application fills its buffers again, or adds a row of the same types*)
SetValue(i, p) ==
  /\ i \in 1..Len(prows[1]) /\ p.type = prows[1][i].type /\ p.uns = prows[1][i].uns
  /\ prows' \in {[prows EXCEPT ![1][i] = p], Append(prows, [prows[1] EXCEPT ![i] = p])}
  /\ UNCHANGED <<psend, pknown, preq>>

Expected(ps) == [i \in 1..Len(ps) |-> IF HasData(ps[i]) THEN Sent(ParamMeans(ps[i])) ELSE Absent]
ExpectedRow(ps) == [i \in 1..Len(ps) |-> IF ps[i].ind > 0 THEN Absent ELSE Sent(ParamMeans(ps[i]))]
(* long data goes with one execution                                       *)
Spent(ps) == [i \in 1..Len(ps) |-> [ps[i] EXCEPT !.long = FALSE]]
Longs(ps) == [i \in 1..Len(ps) |-> ps[i].long]

Answered(r, got, expect) ==
  /\ preq' = [fits |-> r.ok, same |-> got.vals = expect]
  /\ pknown' = got.types
  /\ psend' = FALSE
ExecuteSimple ==
  /\ Len(prows) = 1
  /\ LET ps == prows[1]
         r == SimpleRequest(ps, psend)
     IN Answered(r, ServerReads(r.buf, 9, Len(ps), pknown, Longs(ps)), Expected(ps))
  /\ prows' = <<Spent(prows[1])>>
ExecutePrepared ==
  /\ Len(prows) = 1
  /\ LET ps == prows[1]
         r == PrepareExecuteRequest(ParamQuery, ps, psend)
         p == 9 + Len(StoreLength(Len(ParamQuery))) + Len(ParamQuery) + 4
     IN Answered(r, ServerReads(r.buf, p, Len(ps), pknown, Longs(ps)), Expected(ps))
  /\ prows' = <<Spent(prows[1])>>
ExecuteBulk ==
  /\ Len(prows) > 1
  /\ \A j \in 1..Len(prows), i \in 1..Len(prows[1]) :
       ~prows[j][i].long /\ prows[j][i].type \notin {"stamp", "zoned", "ds", "ym", "lob"}
  /\ LET r == BulkRequest(prows, psend)
         n == Len(prows[1])
         types == IF r.buf[5] = 1 THEN ReadTypes(r.buf, 7, n) ELSE pknown
         rows == SelectSeq(prows, LAMBDA ps : ~SkipParamset(ps))
     IN Answered(r,
          [types |-> types, vals |-> ReadRows(types, r.buf, IF r.buf[5] = 1 THEN 7 + 2 * n ELSE 7)],
          [j \in 1..Len(rows) |-> ExpectedRow(rows[j])])
  /\ UNCHANGED prows

MaxRows == 2
ParamNext ==
  \/ \E p \in ParamChoices : BindParam(<<p>>)
  \/ \E p \in ParamChoices :
       /\ Len(prows) = 1 /\ Len(prows[1]) = 1 /\ psend /\ prows[1][1].type \in SecondAfter
       /\ BindParam(Append(prows[1], p))
  \/ \E p \in ParamChoices : prows # <<>> /\ Len(prows) < MaxRows /\ SetValue(Len(prows[1]), p)
  \/ ExecuteSimple \/ ExecutePrepared \/ ExecuteBulk

(* The server reads from every request the values that were bound when it  *)
(* was made, and NULLs and long data where they were, also when the types  *)
(* are not sent again (send_types_to_server).                              *)
ServerReadsBound == preq.same

(* No parameter is written behind the memory that was kept for it: the     *)
(* lengths counted beforehand and the slack of 20 bytes cover what         *)
(* store_param writes.                                                     *)
RequestFits == preq.fits

(***************************************************************************)
(* The text of the statement                                               *)
(***************************************************************************)
SqlAt(s, i) == IF i \in 1..Len(s) THEN s[i] ELSE "end"
SqlPair(s, i, a, b) == SqlAt(s, i) = a /\ SqlAt(s, i + 1) = b

(***************************************************************************)
(* find_sql_param_count: one step of its loop at i, in a state, at the     *)
(* first character of a line or not                                        *)
(***************************************************************************)
CharStep(s, i, state, first) ==
  CASE state = "NORMAL" /\ s[i] = "q" -> <<"SINGLE_QUOTE", i>>
    [] state = "NORMAL" /\ s[i] = "d" -> <<"DOUBLE_QUOTE", i>>
    [] state = "NORMAL" /\ first /\ SqlPair(s, i, "-", "-") -> <<"SINGLE_LINE_COMMENT", i + 1>>
    [] state = "NORMAL" /\ SqlPair(s, i, "/", "*") -> <<"MULTI_LINE_COMMENT", i + 1>>
    [] state = "SINGLE_QUOTE" /\ s[i] = "q" -> <<"NORMAL", i>>
    [] state = "DOUBLE_QUOTE" /\ s[i] = "d" -> <<"NORMAL", i>>
    [] state = "SINGLE_LINE_COMMENT" /\ s[i] = "n" -> <<"NORMAL", i>>
    [] state = "MULTI_LINE_COMMENT" /\ SqlPair(s, i, "*", "/") -> <<"NORMAL", i + 1>>
    [] OTHER -> <<state, i>>
RECURSIVE CountFrom(_, _, _, _)
CountFrom(s, i, state, first) ==
  IF i > Len(s) THEN 0
  ELSE LET next == CharStep(s, i, state, first)
       IN (IF state = "NORMAL" /\ s[i] = "?" THEN 1 ELSE 0)
          + CountFrom(s, next[2] + 1, next[1], s[next[2]] = "n")
FindSqlParamCount(s) == CountFrom(s, 1, "NORMAL", TRUE)

(***************************************************************************)
(* skipcomment and get_stmt_type                                           *)
(***************************************************************************)
SkipStep(status, ch) ==
  CASE status = "BLACK" -> IF ch \in {"n", " "} THEN "BLACK" ELSE IF ch = "-" THEN "LINE_BEGIN"
                           ELSE IF ch = "/" THEN "BLOCK_BEGIN" ELSE "STATEMENT"
    [] status = "LINE_BEGIN" -> IF ch = "-" THEN "LINE_IN" ELSE "STATEMENT"
    [] status = "LINE_IN" -> IF ch = "n" THEN "BLACK" ELSE status
    [] status = "BLOCK_BEGIN" -> IF ch = "*" THEN "BLOCK_IN" ELSE "SQLERROR"
    [] status = "BLOCK_IN" -> IF ch = "*" THEN "BLOCK_END" ELSE status
    [] status = "BLOCK_END" -> IF ch = "/" THEN "BLACK" ELSE "BLOCK_IN"
    [] OTHER -> status
(* The position skipcomment returns *)
RECURSIVE SkipFrom(_, _, _)
SkipFrom(s, i, status) ==
  IF i > Len(s) THEN i
  ELSE IF status = "SQLERROR" THEN 1
  ELSE LET next == SkipStep(status, s[i])
       IN IF next = "STATEMENT" THEN i ELSE SkipFrom(s, i + 1, next)
SkipComment(s) == SkipFrom(s, 1, "BLACK")
(* get_stmt_type, for a text whose only word is insert                     *)
GetStmtType(s) ==
  LET p == SkipComment(s)
      words == {i \in p..Len(s) : s[i] \notin {"n", " "}}
  IN IF words # {} /\ s[Min(words)] = "I" THEN 1 ELSE -1

(***************************************************************************)
(* A reference: a text is cut into tokens, each from where the last ended  *)
(***************************************************************************)
SqlAfter(s, found, width) == IF found = {} THEN Len(s) + 1 ELSE Min(found) + width
TokenEnd(s, i) ==
  LET later(k) == {p \in (i + k)..Len(s) : TRUE}
  IN CASE s[i] \in {"q", "d"} -> SqlAfter(s, {p \in later(1) : s[p] = s[i]}, 1)
       [] SqlPair(s, i, "-", "-") -> SqlAfter(s, {p \in later(2) : s[p] = "n"}, 1)
       [] SqlPair(s, i, "/", "*") -> SqlAfter(s, {p \in later(2) : SqlPair(s, p, "*", "/")}, 2)
       [] OTHER -> i + 1
RECURSIVE TokensFrom(_, _)
TokensFrom(s, i) == IF i > Len(s) THEN {} ELSE {i} \cup TokensFrom(s, TokenEnd(s, i))
SqlTokens(s) == TokensFrom(s, 1)

(***************************************************************************)
(* Texts grow by a character                                               *)
(***************************************************************************)
CONSTANTS SqlChars, SqlLength
VARIABLES sqltext

SqlInit == sqltext = <<>>
SqlNext == \E ch \in SqlChars : Len(sqltext) < SqlLength /\ sqltext' = Append(sqltext, ch)

(* find_sql_param_count finds the placeholders outside quotes and comments,*)
(* in every text whose comments with -- start at the beginning of a line.  *)
(* A count that the server does not share costs the connection.            *)
ParamsCounted ==
  LET tokens == SqlTokens(sqltext)
      atLine == \A i \in tokens : SqlPair(sqltext, i, "-", "-") => i = 1 \/ sqltext[i - 1] = "n"
  IN atLine => FindSqlParamCount(sqltext) = Cardinality({i \in tokens : sqltext[i] = "?"})

(* get_stmt_type sees an insert behind blanks and comments and nowhere     *)
(* else, in every text that does not begin with a single minus and whose   *)
(* comments do not end with two stars.                                     *)
TypeRecognised ==
  LET s == Append(sqltext, "I")
      skipped(i) == s[i] = "n" \/ SqlPair(s, i, "-", "-") \/ SqlPair(s, i, "/", "*")
      words == {i \in SqlTokens(s) : ~skipped(i)}
      plain == \A i \in 1..Len(s) : ~(SqlPair(s, i, "*", "*") /\ SqlAt(s, i + 2) = "/")
      first == IF words = {} THEN "end" ELSE s[Min(words)]
  IN plain /\ first # "-" => (GetStmtType(s) = 1 <=> first = "I")
=============================================================================
