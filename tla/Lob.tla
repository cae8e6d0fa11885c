--------------------------------- MODULE Lob ---------------------------------
(***************************************************************************)
(* Large objects of Oracle mode (mariadb_stmt.c, ma_stmt_codec.c): the     *)
(* locator of a LOB is fetched as a column value and sent back as a        *)
(* parameter; the data of a LOB that does not lie in its row is read in    *)
(* pieces with DBMS_LOB.read.                                              *)
(*                                                                         *)
(* A LOB is a sequence of characters, each the sequence of its bytes; those*)
(* of a BLOB have one byte.                                                *)
(***************************************************************************)
EXTENDS Integers, Sequences, SequencesExt, FiniteSetsExt

CONSTANTS LobMax,        \* DBMS_LOB_MAX_LENGTH
          LobContents,   \* LOBs: [clob, chars]
          LobLengths,    \* lengths the application asks for, and of its buffer
          LobBits        \* values of the wider fields of a locator

VARIABLES lob

(***************************************************************************)
(* The locator.  Its flags share one word of 32 and one of 16 bits.        *)
(***************************************************************************)
Shift(acc, v, n) == acc * 2 ^ n + v
(* ob_client_mem_lob_common_to_buff                                        *)
CommonWord(c) ==
  LET t == Shift(Shift(Shift(Shift(Shift(c.reserved, c.extern, 1), c.simple, 1), c.open, 1), c.inrow, 1),
                 c.readonly, 1)
  IN Shift(Shift(t, c.type, 4), c.version, 8)
(* fill_ob_client_mem_lob_common                                           *)
FillCommon(w) ==
  [version |-> w % 256, type |-> (w \div 2 ^ 8) % 16, readonly |-> (w \div 2 ^ 12) % 2,
   inrow |-> (w \div 2 ^ 13) % 2, open |-> (w \div 2 ^ 14) % 2, simple |-> (w \div 2 ^ 15) % 2,
   extern |-> (w \div 2 ^ 16) % 2, reserved |-> (w \div 2 ^ 17) % 2 ^ 15]
(* ob_client_mem_lob_extern_header_to_buff: the numbers and the flags      *)
ExternWords(h) ==
  <<h.column, Shift(Shift(Shift(h.flags, h.view, 1), h.cid, 1), h.tx, 1), h.rowkey, h.offset, h.size>>
(* fill_ob_client_mem_lob_extern_header                                    *)
FillExtern(w) ==
  [column |-> w[1], tx |-> w[2] % 2, cid |-> (w[2] \div 2) % 2, view |-> (w[2] \div 4) % 2,
   flags |-> (w[2] \div 8) % 2 ^ 13, rowkey |-> w[3], offset |-> w[4], size |-> w[5]]

(* The bytes of a locator: store_param_ob_lob_complex announces a length,  *)
(* calculate_param_ob_lob_len reserves as much, store_ob_lob_locator_v2    *)
(* writes the header                                                       *)
LobHeaderLength == 40         \* MAX_OB_LOB_LOCATOR_HEADER_LENGTH
AnnouncedLength(h) == LobHeaderLength + h.size + h.offset
WrittenLength(c, h) == (IF c.extern = 1 THEN 8 + 32 ELSE 8) + h.size + h.offset

(***************************************************************************)
(* get_ob_lob_payload_data_len of a LOB outside its row: the length is the *)
(* last number of a structure behind the row key; -1 when the payload ends *)
(* before it                                                               *)
(***************************************************************************)
PayloadDataLen(c, h, exsize, bytes) ==
  LET offset == 2 + exsize + h.rowkey + 4 + 24
  IN CASE c.inrow = 1 -> h.size
       [] h.offset + h.size > offset -> bytes
       [] OTHER -> -1

(***************************************************************************)
(* Reading                                                                 *)
(***************************************************************************)
BytesOf(chars) == FlattenSeq(chars)
SizeOf(chars) == Len(BytesOf(chars))
(* DBMS_LOB.read (external): n characters from position at, 1 being the    *)
(* first, as many as there are and as fit into LobMax bytes                *)
ServerRead(chars, at, n) ==
  LET rest == SubSeq(chars, at, Min({Len(chars), at + n - 1}))
      fits == {k \in 0..Len(rest) : SizeOf(SubSeq(rest, 1, k)) <= LobMax}
  IN SubSeq(rest, 1, Max(fits))

LobCommon == [version |-> 2, type |-> 0, readonly |-> 0, inrow |-> 0, open |-> 0, simple |-> 0,
              extern |-> 1, reserved |-> 0]
LobExtern == [column |-> 0, tx |-> 0, cid |-> 0, view |-> 0, flags |-> 0, rowkey |-> 0, offset |-> 0, size |-> 0]
LobInit == lob = [pc |-> "idle"]

(* stmt_get_data_from_lobv2 with a locator in a buffer of its own; actLen  *)
(* is what get_ob_lob_payload_data_len found                               *)
GetDataFromLobv2 ==
  /\ lob.pc = "idle"
  /\ \E content \in LobContents, want, room \in LobLengths, at \in 1..2, known, inrow \in BOOLEAN :
       LET size == SizeOf(content.chars)
           n == Min({want, room, size})
           c == [LobCommon EXCEPT !.inrow = IF inrow THEN 1 ELSE 0]
           h == [LobExtern EXCEPT !.size = IF inrow THEN size ELSE IF known THEN 31 ELSE 20]
       IN /\ room > 0 /\ at <= Len(content.chars)
          /\ lob' = [pc |-> IF inrow THEN "done" ELSE "loop", content |-> content, want |-> want,
                     room |-> room, from |-> IF inrow THEN 1 ELSE at, at |-> at, amtp |-> 0, use |-> 0,
                     buf |-> IF inrow THEN SubSeq(BytesOf(content.chars), 1, n) ELSE <<>>,
                     dataLen |-> IF inrow THEN n ELSE 0,
                     actLen |-> PayloadDataLen(c, h, 0, size), ret |-> IF inrow THEN 0 ELSE -1]

(* get_lob_data: one call of DBMS_LOB.read.  A piece longer than the buffer*)
(* is cut, its length is reported whole.                                   *)
GetLobData(readLen) ==
  LET piece == ServerRead(lob.content.chars, lob.at, readLen)
      b == BytesOf(piece)
  IN [chars |-> Len(piece), len |-> Len(b), copied |-> SubSeq(b, 1, Min({Len(b), lob.room - lob.use}))]

(* The loop.  A piece may fail.  A piece that is not full ends the loop    *)
(* with the result it started with, -1, unless the buffer or the LOB is at *)
(* its end.                                                                *)
ReadLen == Min({lob.want - lob.amtp, LobMax})
NextPosition(l, piece) == [l EXCEPT !.at = @ + IF l.content.clob THEN piece.chars ELSE piece.len]
Enough(l) == l.room - l.use <= 0 \/ l.use >= l.actLen
LobLoop ==
  /\ lob.pc = "loop"
  /\ IF lob.want - lob.amtp <= 0 THEN lob' = [lob EXCEPT !.pc = "done", !.ret = 0]
     ELSE \/ lob' = [lob EXCEPT !.pc = "done", !.ret = -1]
          \/ LET p == GetLobData(ReadLen)
                 l == [NextPosition(lob, p) EXCEPT
                         !.amtp = @ + p.chars, !.use = @ + p.len, !.dataLen = @ + p.len,
                         !.buf = @ \o p.copied]
             IN lob' = [l EXCEPT !.pc = IF Enough(l) \/ p.len < LobMax THEN "done" ELSE "loop",
                                 !.ret = IF Enough(l) THEN 0 ELSE @]

(* A locator with these fields is fetched and sent                         *)
Locator ==
  \/ lob.pc = "idle" /\ lob' = [pc |-> "locator", c |-> LobCommon, h |-> LobExtern]
  \/ /\ lob.pc = "locator"
     /\ \/ \E k \in {"readonly", "inrow", "open", "simple", "reserved"} : lob' = [lob EXCEPT !.c[k] = 1]
        \/ \E k \in {"tx", "cid", "view"} : lob' = [lob EXCEPT !.h[k] = 1]
        \/ \E v \in LobBits : lob' \in {[lob EXCEPT !.h.flags = v, !.h.rowkey = v, !.h.size = v],
                                        [lob EXCEPT !.c.type = v % 16, !.h.offset = v, !.h.column = v]}

LobNext == GetDataFromLobv2 \/ LobLoop \/ Locator

(***************************************************************************)
(* Properties                                                              *)
(***************************************************************************)
(* What the buffer holds at the end is the LOB from the position that was  *)
(* asked for: no gap and no overlap between two pieces, also where one     *)
(* counts characters and the other bytes, and never more than the buffer   *)
(* holds.                                                                  *)
PiecesContiguous ==
  lob.pc = "done" =>
    /\ IsPrefix(lob.buf, BytesOf(SubSeq(lob.content.chars, lob.from, Len(lob.content.chars))))
    /\ Len(lob.buf) <= lob.room

(* When the call reports success nothing is missing: the buffer is full, or*)
(* the LOB is at its end, or as much was read as was asked for.  (Where the*)
(* locator does not tell the length, the first piece counts as all.)       *)
SuccessIsWhole ==
  lob.pc = "done" /\ lob.ret = 0 /\ lob.actLen >= 0 =>
    LET rest == SubSeq(lob.content.chars, lob.from, Len(lob.content.chars))
        asked == IF lob.use = 0 THEN Min({lob.want, SizeOf(rest)})
                 ELSE SizeOf(SubSeq(rest, 1, Min({lob.want, Len(rest)})))
    IN Len(lob.buf) = Min({lob.room, asked})

(* A locator that was fetched is sent back as it came: every flag in its   *)
(* own bit although reader and writer shift in opposite directions, and as *)
(* many bytes as the length before it says.                                *)
LocatorSentBack ==
  lob.pc = "locator" =>
    /\ FillCommon(CommonWord(lob.c)) = lob.c
    /\ FillExtern(ExternWords(lob.h)) = lob.h
    /\ WrittenLength(lob.c, lob.h) = AnnouncedLength(lob.h)
=============================================================================
