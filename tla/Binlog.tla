------------------------------- MODULE Binlog -------------------------------
(***************************************************************************)
(* Reading the binary log of a server (libmariadb/mariadb_rpl.c): the      *)
(* options, the request, and the events as mariadb_rpl_fetch takes them    *)
(* apart.  How an event is read depends on the last format description:    *)
(* whether events carry a checksum and how long their header is.  Every    *)
(* field of an event is a sequence of numbers: a number alone, or the      *)
(* characters of a text.                                                   *)
(***************************************************************************)
EXTENDS Integers, Sequences, SequencesExt

CONSTANTS
  BlEvents,      \* the events of the log, [type, body] with body the fields
  BlFiles,       \* names of log files
  BlFlags,       \* values of MARIADB_RPL_FLAGS
  BlStarts,      \* positions to start from
  BlMaxWire      \* bound: events sent and not fetched yet, of which only the
                 \* last may be other than a heartbeat

VARIABLES binlog

IgnoreHeartbeat == 131072    \* MARIADB_RPL_IGNORE_HEARTBEAT, 1 << 17
EventTypes ==
  [query |-> 2, stop |-> 3, rotate |-> 4, intvar |-> 5, rand |-> 13, uservar |-> 14, format |-> 15,
   xid |-> 16, table_map |-> 19, write |-> 23, update |-> 24, delete |-> 25, incident |-> 26,
   heartbeat |-> 27, annotate |-> 160, checkpoint |-> 161, gtid |-> 162, gtid_list |-> 163,
   encryption |-> 164]

(***************************************************************************)
(* The server's side: the layout of the packets.                           *)
(***************************************************************************)
(* A number in w bytes, the lowest first.                                  *)
BlNum(w, f) == [i \in 1..w |-> IF i > 3 THEN 0 ELSE (f[1] \div 256 ^ (i - 1)) % 256]
BlZeros(n) == [i \in 1..n |-> 0]
BlCounted(w, f) == BlNum(w, <<Len(f)>>) \o f
BlHeader == 19

BodyBytes(e) ==
  LET f == e.body IN
  CASE e.type = "query" ->
         BlNum(4, f[1]) \o BlNum(4, f[2]) \o <<Len(f[5])>> \o BlNum(2, f[3]) \o BlNum(2, <<Len(f[4])>>)
           \o f[4] \o f[5] \o <<0>> \o f[6]
    [] e.type = "rotate" -> BlNum(8, f[1]) \o f[2]
    [] e.type = "intvar" -> f[1] \o BlNum(8, f[2])
    [] e.type = "rand" -> BlNum(8, f[1]) \o BlNum(8, f[2])
    [] e.type = "uservar" ->
         BlCounted(4, f[1]) \o f[2]
           \o (IF f[2] = <<1>> THEN <<>> ELSE f[3] \o BlNum(4, f[4]) \o BlCounted(4, f[5]))
    [] e.type = "format" ->
         BlNum(2, f[1]) \o f[2] \o BlZeros(50 - Len(f[2])) \o BlNum(4, f[3]) \o <<BlHeader>>
           \o BlZeros(3) \o f[4]
    [] e.type = "xid" -> BlNum(8, f[1])
    [] e.type = "table_map" ->
         BlNum(6, f[1]) \o BlZeros(2) \o BlCounted(1, f[2]) \o <<0>> \o BlCounted(1, f[3]) \o <<0>>
           \o BlCounted(1, f[4]) \o BlCounted(1, f[5]) \o BlZeros((Len(f[4]) + 7) \div 8)
    [] e.type \in {"write", "update", "delete"} ->
         BlNum(6, f[1]) \o BlNum(2, f[2]) \o f[3] \o f[4] \o f[5] \o f[6]
    [] e.type = "gtid" ->
         BlNum(8, f[1]) \o BlNum(4, f[2]) \o f[3]
           \o (IF (f[3][1] \div 2) % 2 = 1 THEN BlNum(8, f[4]) ELSE BlZeros(6))
    [] e.type = "gtid_list" ->
         BlNum(4, <<Len(f) \div 3>>)
           \o FlattenSeq([i \in 1..Len(f) |-> BlNum(IF i % 3 = 0 THEN 8 ELSE 4, f[i])])
    [] e.type = "encryption" -> f[1] \o BlNum(4, f[2]) \o f[3]
    [] e.type = "checkpoint" -> BlCounted(4, f[1])
    [] OTHER -> IF f = <<>> THEN <<>> ELSE f[1]

(* The status byte, the header, the body and the checksum, which a format  *)
(* description always has.                                                 *)
EventBytes(e, checksum) ==
  LET body == BodyBytes(e)
      crc == IF checksum \/ e.type = "format" THEN <<7, 7, 7, 7>> ELSE <<>>
      length == BlHeader + Len(body) + Len(crc)
  IN <<0>> \o BlNum(4, <<1>>) \o <<EventTypes[e.type]>> \o BlNum(4, <<1>>) \o BlNum(4, <<length>>)
       \o BlNum(4, <<0>>) \o BlNum(2, <<0>>) \o body \o crc

(***************************************************************************)
(* mariadb_rpl_fetch.  b is the packet, r the handle, ev an offset in b as *)
(* in the code.                                                            *)
(***************************************************************************)
EVENT_HEADER_OFS == 20
BlByte(b, ev) == IF ev + 1 \in 1..Len(b) THEN b[ev + 1] ELSE 0
BlUint(b, ev, w) ==
  <<BlByte(b, ev) + (IF w > 1 THEN 256 * BlByte(b, ev + 1) ELSE 0)
                  + (IF w > 2 THEN 65536 * BlByte(b, ev + 2) ELSE 0)>>
(* rpl_alloc_string *)
BlText(b, ev, len) == [i \in 1..len |-> BlByte(b, ev + i - 1)]

(* The event's length without its checksum.                                *)
EventLength(r, b) == BlUint(b, 10, 4)[1] - (IF r.use_checksum # 0 THEN 4 ELSE 0)

ReadQuery(b) ==
  LET ev == EVENT_HEADER_OFS
      db_len == BlByte(b, ev + 8)
      status_len == BlUint(b, ev + 11, 2)[1]
      db == ev + 13 + status_len
      statement == db + db_len + 1
  IN <<BlUint(b, ev, 4), BlUint(b, ev + 4, 4), BlUint(b, ev + 9, 2),
       BlText(b, ev + 13, status_len), BlText(b, db, db_len),
       BlText(b, statement, Len(b) - statement - 4)>>

ReadTableMap(b) ==
  LET ev == EVENT_HEADER_OFS + 8
      db_len == BlByte(b, ev)
      table == ev + 1 + db_len + 1
      table_len == BlByte(b, table)
      columns == table + 1 + table_len + 1
      count == BlByte(b, columns)
      metadata == columns + 1 + count
  IN <<BlUint(b, EVENT_HEADER_OFS, 6), BlText(b, ev + 1, db_len), BlText(b, table + 1, table_len),
       BlText(b, columns + 1, count), BlText(b, metadata + 1, BlByte(b, metadata))>>

(* flags, the last field of the code's, is taken from behind the value.    *)
ReadUserVar(b) ==
  LET ev == EVENT_HEADER_OFS
      len == BlUint(b, ev, 4)[1]
      null == ev + 4 + len
      name == <<BlText(b, ev + 4, len), <<BlByte(b, null)>>>>
  IN IF BlByte(b, null) # 0 THEN name
     ELSE name \o <<<<BlByte(b, null + 1)>>, BlUint(b, null + 2, 4),
                    BlText(b, null + 10, BlUint(b, null + 6, 4)[1])>>

ReadRowsEvent(r, b, update) ==
  LET ev == EVENT_HEADER_OFS
      id_len == IF r.fd_header_len = 6 THEN 4 ELSE 6
      count == BlByte(b, ev + id_len + 2)
      bitmap == ev + id_len + 3
      bytes == (count + 7) \div 8
      data == bitmap + (IF update THEN 2 * bytes ELSE bytes)
      len == EventLength(r, b) + EVENT_HEADER_OFS - r.fd_header_len - data
      head == <<BlUint(b, ev, id_len), BlUint(b, ev + id_len, 2), <<count>>>>
  IN IF count = 0 THEN head \o <<<<>>, <<>>, <<>>>>
     ELSE head \o <<BlText(b, bitmap, bytes), IF update THEN BlText(b, bitmap + bytes, bytes) ELSE <<>>,
                    BlText(b, data, len)>>

ReadGtid(b) ==
  LET ev == EVENT_HEADER_OFS
      flags == BlByte(b, ev + 12)
  IN <<BlUint(b, ev, 8), BlUint(b, ev + 8, 4), <<flags>>,
       IF (flags \div 2) % 2 = 1 THEN BlUint(b, ev + 13, 8) ELSE <<0>>>>

(* One byte is skipped for the count of four.                              *)
ReadGtidList(b) ==
  LET ev(i) == EVENT_HEADER_OFS + 1 + 16 * ((i - 1) \div 3) + 4 * ((i - 1) % 3)
  IN [i \in 1..(3 * BlUint(b, EVENT_HEADER_OFS, 4)[1]) |-> BlUint(b, ev(i), 4)]

EventType(b) == LET n == BlByte(b, 5) IN CHOOSE t \in DOMAIN EventTypes : EventTypes[t] = n

(* The switch: the fields of an event.                                     *)
ReadBody(r, b) ==
  LET ev == EVENT_HEADER_OFS
      t == EventType(b) IN
  CASE t = "query" -> ReadQuery(b)
    [] t = "table_map" -> ReadTableMap(b)
    [] t = "uservar" -> ReadUserVar(b)
    [] t = "gtid" -> ReadGtid(b)
    [] t = "gtid_list" -> ReadGtidList(b)
    [] t \in {"write", "update", "delete"} -> ReadRowsEvent(r, b, t = "update")
    [] t = "heartbeat" -> <<BlUint(b, ev, 4), BlUint(b, ev + 4, 4), <<BlByte(b, ev + 8)>>, BlUint(b, ev + 9, 2)>>
    [] t = "checkpoint" -> <<BlText(b, ev + 4, BlUint(b, ev, 4)[1])>>
    [] t = "format" -> <<BlUint(b, ev, 2), BlText(b, ev + 2, 50), BlUint(b, ev + 52, 4), <<BlByte(b, Len(b) - 5)>>>>
    [] t \in {"rand", "intvar"} ->
         LET w == IF t = "rand" THEN 8 ELSE 1 IN <<BlUint(b, ev, w), BlUint(b, ev + w, 8)>>
    [] t = "encryption" -> <<<<BlByte(b, ev)>>, BlUint(b, ev + 1, 4), BlText(b, ev + 5, 12)>>
    [] t = "annotate" -> <<BlText(b, ev, Len(b) - ev - 4)>>
    [] t = "rotate" -> <<BlUint(b, ev, 8), BlText(b, ev + 8, EventLength(r, b) - r.fd_header_len - 8)>>
    [] t = "xid" -> <<BlUint(b, ev, 8)>>
    [] OTHER -> <<>>

(* After a format description the handle knows the header's length and     *)
(* whether checksums follow.                                               *)
AfterEvent(r, b) ==
  IF EventType(b) # "format" THEN r
  ELSE [r EXCEPT !.fd_header_len = BlByte(b, EVENT_HEADER_OFS + 56), !.use_checksum = BlByte(b, Len(b) - 5)]

(***************************************************************************)
(* The handle r, the server's wire with the events not fetched, whether    *)
(* the log has checksums, the events due to the application, and the last  *)
(* one fetched with the one that was due.                                  *)
(***************************************************************************)
NoEvent == [type |-> "none", body |-> <<>>]
NullEvent == [type |-> "null", body |-> <<>>]   \* the application gets NULL
UnknownTypes == {"incident"}
NoBinlogFile == <<>>
(* mariadb_rpl_init_ex *)
NewRpl == [filename |-> NoBinlogFile, flags |-> 0, start |-> 0, server_id |-> 0,
           fd_header_len |-> 0, use_checksum |-> 0]
BlInit ==
  binlog = [r |-> NewRpl, asked |-> <<>>, wire |-> <<>>, checksum |-> FALSE, due |-> <<>>,
            got |-> NoEvent, want |-> NoEvent]

(* mariadb_rpl_optionsv.  A length of 0 stands for a name that ends in 0.  *)
(* The position and the server's number are set together.                  *)
UpToZero(f) == LET zeros == {i \in 1..Len(f) : f[i] = 0}
               IN IF zeros = {} THEN f ELSE SubSeq(f, 1, (CHOOSE i \in zeros : \A k \in zeros : i <= k) - 1)
SetBinlogOption ==
  /\ binlog.asked = <<>>
  /\ \/ \E f \in BlFiles, counted \in BOOLEAN :
          binlog' = [binlog EXCEPT !.r.filename = IF counted THEN f ELSE UpToZero(f)]
     \/ \E n \in BlFlags : binlog' = [binlog EXCEPT !.r.flags = n]
     \/ \E n \in BlStarts : binlog' = [binlog EXCEPT !.r.start = n, !.r.server_id = n + 1]

(* mariadb_rpl_open: COM_BINLOG_DUMP                                       *)
DumpCommand(r) ==
  BlNum(4, <<r.start>>) \o BlNum(2, <<r.flags>>) \o BlNum(4, <<r.server_id>>) \o r.filename
RplOpen ==
  /\ binlog.asked = <<>>
  /\ binlog' = [binlog EXCEPT !.asked = DumpCommand(binlog.r)]

(* The server sends the next event.  A format description tells whether    *)
(* the events behind it have checksums.                                    *)
Heartbeat(e) == e.type = "heartbeat"
Ignored(r, e) == r.flags >= IgnoreHeartbeat /\ Heartbeat(e)
SendEvent(e) ==
  /\ binlog.asked # <<>> /\ Len(binlog.wire) < BlMaxWire
  /\ \A i \in 1..Len(binlog.wire) : EventType(binlog.wire[i]) = "heartbeat"
  /\ binlog' = [binlog EXCEPT !.wire = Append(@, EventBytes(e, binlog.checksum)),
                              !.got = NoEvent, !.want = NoEvent,
                              !.checksum = IF e.type = "format" THEN e.body[4] = <<1>> ELSE @,
                              !.due = IF Ignored(binlog.r, e) THEN @ ELSE Append(@, e)]

(* The loop of mariadb_rpl_fetch: the packet to read is the first that is  *)
(* not a heartbeat, when those are ignored.                                *)
FirstToRead(r, wire) ==
  LET wanted == {i \in 1..Len(wire) : r.flags >= IgnoreHeartbeat => EventType(wire[i]) # "heartbeat"}
  IN IF wanted = {} THEN Len(wire) + 1 ELSE CHOOSE i \in wanted : \A k \in wanted : i <= k

(* A call that finds no event waits for the server.                        *)
RplFetch ==
  LET i == FirstToRead(binlog.r, binlog.wire)
      b == binlog.wire[i]
      e == IF EventType(b) \in UnknownTypes THEN NullEvent
           ELSE [type |-> EventType(b), body |-> ReadBody(binlog.r, b)]
  IN /\ binlog.wire # <<>>
     /\ IF i > Len(binlog.wire) THEN binlog' = [binlog EXCEPT !.wire = <<>>]
        ELSE binlog' = [binlog EXCEPT !.wire = SubSeq(@, i + 1, Len(@)), !.r = AfterEvent(@, b),
                                      !.got = e, !.due = IF @ = <<>> THEN @ ELSE Tail(@),
                                      !.want = IF binlog.due = <<>> THEN NoEvent ELSE Head(binlog.due)]

BlNext == SetBinlogOption \/ RplOpen \/ (\E e \in BlEvents : SendEvent(e)) \/ RplFetch

(* Every event comes to the application with the fields the server wrote,  *)
(* also after the log's checksums were turned on or off by a new format    *)
(* description: the ends of texts and rows depend on what the handle has   *)
(* kept of it (event_length, fd_header_len and use_checksum in             *)
(* mariadb_rpl_fetch).  Not so a heartbeat, the list of GTIDs, what comes  *)
(* before the first format description, and a statement in a log without   *)
(* checksums.                                                              *)
EventReadBack ==
  LET e == binlog.want
      known == binlog.r.fd_header_len # 0
      statement == e.type \in {"query", "annotate"} /\ binlog.r.use_checksum = 0
  IN known /\ e.type \notin {"none", "heartbeat", "gtid_list", "format", "incident"} /\ ~statement
       => binlog.got.type = e.type /\ binlog.got.body = e.body

(* With MARIADB_RPL_IGNORE_HEARTBEAT the application gets all the other    *)
(* events, in order, and no heartbeat, however many come between two       *)
(* events; without it the heartbeats, too.  For a type that the library    *)
(* does not know it gets NULL.                                             *)
HeartbeatsSkipped ==
  binlog.got.type = IF binlog.want.type \in UnknownTypes THEN "null" ELSE binlog.want.type

(* The server is asked for what the options say, and is not told the flag  *)
(* that only the client knows (mariadb_rpl_open).                          *)
DumpRequested ==
  LET a == binlog.asked
      r == binlog.r
  IN a # <<>> => /\ BlUint(a, 0, 4) = <<r.start>> /\ BlUint(a, 4, 2) = <<r.flags % 65536>>
                 /\ BlUint(a, 6, 4) = <<r.server_id>> /\ SubSeq(a, 11, Len(a)) = r.filename
=============================================================================
