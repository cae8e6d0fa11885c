------------------------------ MODULE RowCodec ------------------------------
(***************************************************************************)
(* Rows of prepared statements (ma_stmt_codec.c, mthd_stmt_fetch_to_bind): *)
(* one function per column type reads a field of the row, converts it to   *)
(* the type the application bound, says whether something was lost, and    *)
(* moves on to the next field.  A row is a sequence of cells: bytes of a   *)
(* number, below Radix, lengths, characters of a text, or, for a float, its*)
(* value in halves.                                                        *)
(***************************************************************************)
EXTENDS TextNum, TLC

CONSTANTS LenLimit,         \* lengths below it take one byte (251)
          OracleTimeSize,   \* sizeof(ORACLE_TIME), before the zone names
          LobHeader,        \* MAX_OB_LOB_LOCATOR_HEADER_LENGTH
          DoubleBits        \* bits of a double's mantissa

(***************************************************************************)
(* Integers and lengths on the wire                                        *)
(***************************************************************************)
IntWidth == [tiny |-> 1, short |-> 2, year |-> 2, long |-> 4, longlong |-> 8]
IntTypes == DOMAIN IntWidth
TimeTypes == {"date", "time", "datetime"}
TextTypes == {"string", "blob"}

Bytes(w, v) == [i \in 1..w |-> ((v % Radix ^ w) \div Radix ^ (i - 1)) % Radix]
RECURSIVE Number(_, _, _)
Number(row, p, w) == IF w = 0 THEN 0 ELSE row[p] + Radix * Number(row, p + 1, w - 1)
Signed(w, u) == IF u > (Radix ^ w) \div 2 - 1 THEN u - Radix ^ w ELSE u
RangeOf(t, uns) ==
  LET n == Radix ^ IntWidth[t] IN IF uns THEN 0..n - 1 ELSE -(n \div 2)..(n \div 2) - 1
(* the low bytes of v, as the application reads them                       *)
Stored(b, v) ==
  LET u == v % Radix ^ IntWidth[b.type] IN IF b.uns THEN u ELSE Signed(IntWidth[b.type], u)

(* mysql_net_store_length: 251 is NULL; 252, 253 and 254 precede 2, 3 or 8 *)
(* bytes                                                                   *)
StoreLength(n) ==
  IF n < LenLimit THEN <<n>>
  ELSE IF n < Radix ^ 2 THEN <<LenLimit + 1>> \o Bytes(2, n)
  ELSE IF n < Radix ^ 3 THEN <<LenLimit + 2>> \o Bytes(3, n)
  ELSE <<LenLimit + 3>> \o Bytes(8, n)
(* net_field_length                                                        *)
FieldLength(row, p) ==
  CASE row[p] < LenLimit -> [len |-> row[p], next |-> p + 1]
    [] row[p] = LenLimit + 1 -> [len |-> Number(row, p + 1, 2), next |-> p + 3]
    [] row[p] = LenLimit + 2 -> [len |-> Number(row, p + 1, 3), next |-> p + 4]
    [] OTHER -> [len |-> Number(row, p + 1, 4), next |-> p + 9]

(***************************************************************************)
(* Conversions.  A bind is [type, uns, len, off, err]: the error flag holds*)
(* what the last fetch left.  A result is [err, len, val].                 *)
(***************************************************************************)
Integer(n) == [k |-> "int", v |-> n]
Floating(h) == [k |-> "float", v |-> h]
Str(s) == [k |-> "text", v |-> s]
Timed(tm) == [k |-> "time", v |-> tm]
Nothing == [k |-> "none", v |-> 0]
Give(b, err, len, val) == [err |-> err, len |-> len, val |-> val]

MinOf(a, b) == IF a < b THEN a ELSE b
(* the default case of convert_froma_string: a piece from the offset on,   *)
(* the length is that of the whole                                         *)
TextCopy(b, s) ==
  IF Len(s) < b.off THEN Give(b, b.err, Len(s), Nothing)
  ELSE LET piece == SubSeq(s, b.off + 1, Len(s))
       IN Give(b, Len(piece) > b.len, Len(s), Str(SubSeq(piece, 1, MinOf(Len(piece), b.len))))

(* convert_froma_string; strtod is left out, and a text that is no date    *)
(* leaves the error flag alone                                             *)
FromString(b, s) ==
  CASE b.type \in IntTypes \ {"longlong"} ->
         LET a == Atoll(s)
         IN Give(b, a.err \/ a.v \notin RangeOf(b.type, b.uns), b.len, Integer(Stored(b, a.v)))
    [] b.type = "longlong" ->
         LET a == IF b.uns THEN Atoull(s) ELSE Atoll(s)
         IN Give(b, a.err, b.len, Integer(Stored(b, a.v)))
    [] b.type \in TimeTypes -> Give(b, b.err, b.len, Timed(StrToTime(s)))
    [] OTHER -> TextCopy(b, s)

(* (double)n: the bits beyond the mantissa are lost                        *)
Abs(n) == IF n < 0 THEN -n ELSE n
DoubleValue(n) ==
  LET ulp == CHOOSE u \in {2 ^ k : k \in 0..24} :
               /\ Abs(n) < 2 ^ DoubleBits * u
               /\ u > 1 => Abs(n) >= 2 ^ DoubleBits * (u \div 2)
  IN IF n < 0 THEN -((-n \div ulp) * ulp) ELSE (n \div ulp) * ulp

(* convert_from_long: v is the value as a longlong, also of an unsigned    *)
(* column                                                                  *)
ZeroFilled(f, b, s) ==
  LET width == IF f.width < Len(s) THEN Len(s) ELSE f.width
  IN IF f.width > 0 /\ width < b.len THEN PadLeft(s, width) ELSE s
ZeroFillCut(f, b, s) ==
  f.width > 0 /\ ~((IF f.width < Len(s) THEN Len(s) ELSE f.width) < b.len)
FromLong_Narrow(f, b, v) ==
  LET own == IF f.uns THEN v % Radix ^ 8 ELSE v
      s == DecText(own)
      r == FromString(b, ZeroFilled(f, b, s))
  IN CASE b.type \in IntTypes \ {"longlong"} ->
            Give(b, v \notin RangeOf(b.type, TRUE) \cup RangeOf(b.type, FALSE), b.len, Integer(Stored(b, v)))
       [] b.type = "longlong" -> Give(b, v < 0 /\ b.uns # f.uns, b.len, Integer(Stored(b, v)))
       [] b.type = "double" ->
            Give(b, DoubleValue(own) # own, b.len, Floating(2 * DoubleValue(own)))
       [] OTHER -> [r EXCEPT !.err = @ \/ ZeroFillCut(f, b, s)]
FromLong(f, b, v) ==
  LET own == IF f.uns THEN v % Radix ^ 8 ELSE v
      s == DecText(own)
      r == FromString(b, ZeroFilled(f, b, s))
  IN CASE b.type \in IntTypes \ {"longlong"} ->
            Give(b, v \notin RangeOf(b.type, b.uns), b.len, Integer(Stored(b, v)))
       [] b.type = "longlong" -> Give(b, v < 0 /\ b.uns # f.uns, b.len, Integer(Stored(b, v)))
       [] b.type = "double" ->
            Give(b, DoubleValue(own) # own, b.len, Floating(2 * DoubleValue(own)))
       [] OTHER -> [r EXCEPT !.err = @ \/ ZeroFillCut(f, b, s)]

(* ps_fetch_from_1_to_8_bytes: the same width on both sides                *)
SameWidth(f, b, u) ==
  Give(b, f.uns # b.uns /\ u > (Radix ^ IntWidth[b.type]) \div 2 - 1, b.len, Integer(Stored(b, u)))

(* convert_from_double: an integer out of range is stored as the compiler  *)
(* likes; either way it differs from the truncated value                   *)
Trunc(h) == IF h < 0 THEN -(-h \div 2) ELSE h \div 2
FromDouble(f, b, h) ==
  IF b.type \in IntTypes
  THEN LET ok == Trunc(h) \in RangeOf(b.type, b.uns)
       IN Give(b, ~ok, b.len, IF ok THEN Integer(Trunc(h)) ELSE Nothing)
  ELSE Give(b, b.err, b.len, Floating(h))

(* convert_to_datetime: lengths 0, 4, 7 and 11, and 0, 8 and 12 of a TIME, *)
(* whose days become hours                                                 *)
ToDatetime(row, p, len, type) ==
  LET q == IF type = "time" THEN p + 1 ELSE p
      days == Number(row, p + 1, 4)
      date == [TimeZero EXCEPT !.type = "date", !.year = Number(row, p, 2),
                               !.month = row[p + 2], !.day = row[p + 3]]
      base == IF type = "time" THEN [TimeZero EXCEPT !.type = "time", !.neg = row[p] # 0, !.day = days]
              ELSE date
      clock == IF len <= 4 THEN base
               ELSE [base EXCEPT !.type = IF type = "time" THEN "time" ELSE "datetime",
                       !.hour = row[q + 4] + (IF type = "time" THEN 24 * days ELSE 0),
                       !.minute = row[q + 5], !.second = row[q + 6]]
  IN IF len = 0 THEN TimeZero
     ELSE IF type = "date" THEN date
     ELSE IF len > (IF type = "time" THEN 8 ELSE 7)
          THEN [clock EXCEPT !.part = Number(row, q + 7, 4)] ELSE clock

(* what ps_fetch_datetime makes of it                                      *)
FromDatetime(f, b, tm) ==
  CASE b.type = "time" -> Give(b, b.err, b.len, Timed([tm EXCEPT !.year = 0, !.month = 0, !.day = 0]))
    [] b.type \in {"date", "datetime"} -> Give(b, b.err, b.len, Timed(tm))
    [] b.type = "year" -> Give(b, b.err, b.len, Integer(tm.year))
    [] OTHER -> FromString(b, TimeText(f.type, tm, f.dec))

(***************************************************************************)
(* One function per column type.  A field is [type, uns, width, dec, bin]; *)
(* a fetch gives the result and the position after the field.              *)
(***************************************************************************)
At(r, pos) == r @@ [pos |-> pos]

(* ps_fetch_int8 ... ps_fetch_int64                                        *)
FetchInt(f, b, row, p) ==
  LET w == IntWidth[f.type]
      u == Number(row, p, w)
      same == b.type \in IntTypes /\ IntWidth[b.type] = w
  IN At(IF same THEN SameWidth(f, b, u) ELSE FromLong(f, b, IF f.uns /\ w < 8 THEN u ELSE Signed(w, u)),
        p + w)

(* ps_fetch_double                                                         *)
FetchDouble(f, b, row, p) == At(FromDouble(f, b, row[p]), p + 8)

FetchDatetime(f, b, row, p) ==
  LET l == FieldLength(row, p)
  IN At(FromDatetime(f, b, ToDatetime(row, l.next, l.len, f.type)), l.next + l.len)

(* ps_fetch_string; ps_fetch_bin and ps_fetch_mysql_lob when the column is *)
(* binary                                                                  *)
BinCopy(b, s) ==
  LET n == IF b.off < Len(s) THEN Len(s) - b.off ELSE 0
  IN Give(b, n > b.len, Len(s), Str(SubSeq(s, b.off + 1, b.off + MinOf(n, b.len))))
FetchString(f, b, row, p) ==
  LET l == FieldLength(row, p)
      s == SubSeq(row, l.next, l.next + l.len - 1)
  IN At(IF f.bin THEN BinCopy(b, s) ELSE FromString(b, s), l.next + l.len)

(* ps_fetch_oracle_raw: two hexadecimal digits a byte in a string          *)
Hex(n) == IF n < 10 THEN 48 + n ELSE 55 + n
HexText(s) ==
  [i \in 1..2 * Len(s) |-> LET c == s[(i + 1) \div 2] IN Hex(IF i % 2 = 1 THEN c \div 16 ELSE c % 16)]
FetchRaw(f, b, row, p) ==
  LET l == FieldLength(row, p)
      s == SubSeq(row, l.next, l.next + l.len - 1)
  IN At(IF b.type # "string" THEN FromString(b, s)
        ELSE Give(b, IF b.len < 2 * l.len THEN TRUE ELSE b.err, 2 * l.len,
                  IF b.len < 2 * l.len THEN Nothing ELSE Str(HexText(s))),
        l.next + l.len)

(* ps_fetch_oracle_timestamp: 12 bytes, or 16 and the names of the zone,   *)
(* which follow the structure in the buffer                                *)
FetchTimestamp(f, b, row, p) ==
  LET l == FieldLength(row, p)
      need == IF l.len > 16 THEN l.len - 16 + OracleTimeSize + 2 ELSE OracleTimeSize
      n1 == IF l.len > 12 THEN row[l.next + 14] ELSE 0
      n2 == IF l.len > 12 THEN row[l.next + 15 + n1] ELSE 0
      keep1 == n1 > 0 /\ OracleTimeSize + n1 + 1 < b.len
      off == OracleTimeSize + (IF keep1 THEN n1 + 1 ELSE 0)
      keep2 == n2 > 0 /\ off + n2 + 1 < b.len
      total == OracleTimeSize + (IF l.len > 12 THEN n1 + n2 + 2 ELSE 0)
  IN IF b.len < need THEN At(Give(b, TRUE, need, Nothing), l.next + l.len)
     ELSE At(Give(b, b.len < total, total,
                  [k |-> "stamp", v |-> SubSeq(row, l.next, l.next + 11),
                   name |-> IF keep1 THEN SubSeq(row, l.next + 15, l.next + 14 + n1) ELSE <<>>,
                   abbr |-> IF keep2 THEN SubSeq(row, l.next + 16 + n1, l.next + 15 + n1 + n2) ELSE <<>>]),
             l.next + (IF l.len > 12 THEN 16 + n1 + n2 ELSE 12))

(* ps_fetch_oracle_interval: 14 bytes of a day to second interval, 7 of a  *)
(* year to month one                                                       *)
FetchInterval(f, b, row, p) ==
  LET l == FieldLength(row, p)
      ok == l.len = (IF b.type = "ds" THEN 14 ELSE 7) /\ b.len >= OracleTimeSize
  IN At(IF b.type \notin {"ds", "ym"} THEN FromString(b, SubSeq(row, l.next, l.next + l.len - 1))
        ELSE Give(b, IF ok THEN b.err ELSE TRUE, OracleTimeSize,
                  IF ok THEN Str(SubSeq(row, l.next, l.next + l.len - 1)) ELSE Nothing),
        l.next + l.len)

(* fetch_result_ob_lob: the locator of version 1 or 2 and as much of the   *)
(* payload as fits                                                         *)
FetchLob(f, b, row, p) ==
  LET l == FieldLength(row, p)
      n == MinOf(b.len, l.len)
      known == row[l.next] \in {1, 2}
  IN At(IF b.len < LobHeader \/ l.len < LobHeader THEN Give(b, TRUE, l.len, Nothing)
        ELSE IF known THEN Give(b, n < l.len, l.len, Str(SubSeq(row, l.next, l.next + n - 1)))
        ELSE Give(b, b.err, l.len, Nothing),
        l.next + l.len)

(* mysql_ps_fetch_functions                                                *)
Fetch(f, b, row, p) ==
  CASE f.type \in IntTypes -> FetchInt(f, b, row, p)
    [] f.type = "double" -> FetchDouble(f, b, row, p)
    [] f.type \in TimeTypes -> FetchDatetime(f, b, row, p)
    [] f.type = "raw" -> FetchRaw(f, b, row, p)
    [] f.type = "stamp" -> FetchTimestamp(f, b, row, p)
    [] f.type \in {"ds", "ym"} -> FetchInterval(f, b, row, p)
    [] f.type = "lob" -> FetchLob(f, b, row, p)
    [] OTHER -> FetchString(f, b, row, p)
PackLen(f) ==
  IF f.type \in IntTypes THEN IntWidth[f.type] ELSE IF f.type = "double" THEN 8 ELSE -1

(***************************************************************************)
(* Rows                                                                    *)
(***************************************************************************)
(* The bit of column i in the bitmap of a result row: two bits are reserved*)
NullBit(row, i) == (row[2 + (i + 1) \div 8] \div 2 ^ ((i + 1) % 8)) % 2 = 1

(* mthd_stmt_fetch_to_bind: what column i at position p got and where it   *)
(* began.  A dummy bind is a column not asked for.                         *)
ToBind(f, b, row, i, p) ==
  LET l == IF PackLen(f) >= 0 THEN [len |-> PackLen(f), next |-> p] ELSE FieldLength(row, p)
  IN IF NullBit(row, i) THEN [null |-> TRUE, start |-> 0, pos |-> p]
     ELSE IF b.type = "dummy"
       THEN [null |-> FALSE, start |-> p, len |-> l.len, err |-> FALSE, pos |-> l.next + l.len]
     ELSE Fetch(f, b, row, p) @@ [null |-> FALSE, start |-> p]
FirstCell(cols) == 2 + (Len(cols) + 9) \div 8
FetchToBind(cols, binds, row) ==
  FoldLeft(LAMBDA rs, i : Append(rs, ToBind(cols[i].f, binds[i], row, i,
                                            IF rs = <<>> THEN FirstCell(cols) ELSE Last(rs).pos)),
           <<>>, [i \in 1..Len(cols) |-> i])

(* mysql_stmt_fetch_column on a column that begins at p                    *)
FetchColumn(f, b, row, p, off) == Fetch(f, [b EXCEPT !.off = off, !.err = FALSE], row, p)

(* The server's side of the protocol: a column is [f, null, v].            *)
EncodeColumn(c) ==
  LET t == c.f.type
      tm == c.v
      clock == <<tm.hour % 24, tm.minute, tm.second>>
      dated == IF t = "time" THEN <<IF tm.neg THEN 1 ELSE 0>> \o Bytes(4, tm.hour \div 24)
               ELSE Bytes(2, tm.year) \o <<tm.month, tm.day>>
      d == IF t = "date" THEN dated
           ELSE IF tm.part > 0 THEN dated \o clock \o Bytes(4, tm.part) ELSE dated \o clock
  IN CASE t \in IntTypes -> Bytes(IntWidth[t], c.v)
       [] t = "double" -> [i \in 1..8 |-> IF i = 1 THEN c.v ELSE 0]
       [] t \in TimeTypes -> StoreLength(Len(d)) \o d
       [] OTHER -> StoreLength(Len(c.v)) \o c.v
NullBytes(nulls, first) ==
  LET n == Len(nulls)
  IN [k \in 1..(n + first + 7) \div 8 |->
        LET bits == {j \in 0..7 : LET i == 8 * (k - 1) + j - first + 1 IN i \in 1..n /\ nulls[i]}
        IN FoldSet(LAMBDA j, t : t + 2 ^ j, 0, bits)]
ServerRow(cols) ==
  <<0>> \o NullBytes([i \in 1..Len(cols) |-> cols[i].null], 2)
    \o FlattenSeq([i \in 1..Len(cols) |-> IF cols[i].null THEN <<>> ELSE EncodeColumn(cols[i])])

(***************************************************************************)
(* Rows are built column by column: the first from every type and bind, the*)
(* others only to show where the next field begins.                        *)
(***************************************************************************)
CONSTANTS RowPairs,     \* the first column and its bind
          MaxWide       \* columns of a row of small integers

VARIABLES rcols, rbinds

Marker == [f |-> [type |-> "tiny", uns |-> TRUE, width |-> 0, dec |-> 0, bin |-> FALSE],
           null |-> FALSE, v |-> 5]
MarkerBind == [type |-> "tiny", uns |-> TRUE, len |-> 1, off |-> 0, err |-> FALSE]

RowInit == rcols = <<>> /\ rbinds = <<>>
RowNext ==
  \/ /\ rcols = <<>>
     /\ \E q \in RowPairs : rcols' = <<q[1]>> /\ rbinds' = <<q[2]>>
  \/ /\ \/ Len(rcols) = 1
        \/ Len(rcols) \in 2..MaxWide - 1 /\ rcols[1].f = Marker.f /\ rbinds[1] = MarkerBind
     /\ \E null \in BOOLEAN, t \in {"tiny", "dummy"} :
          /\ Len(rcols) > 1 => t = "tiny"
          /\ rcols' = Append(rcols, [Marker EXCEPT !.null = null])
          /\ rbinds' = Append(rbinds, [MarkerBind EXCEPT !.type = t])

RowResult == FetchToBind(rcols, rbinds, ServerRow(rcols))

(* The columns begin one behind the other.                                 *)
Aligned(r) ==
  LET size(k) == IF rcols[k].null THEN 0 ELSE Len(EncodeColumn(rcols[k]))
      begin[i \in 1..Len(rcols)] ==
        IF i = 1 THEN FirstCell(rcols) ELSE begin[i - 1] + size(i - 1)
  IN \A i \in 1..Len(rcols) :
       /\ r[i].null = rcols[i].null
       /\ ~r[i].null => r[i].start = begin[i] /\ r[i].pos = begin[i] + size(i)

(* Whatever is bound, too small a buffer and failed conversions included,  *)
(* every column is read where it begins and the row is used up: a fetch    *)
(* function that forgets to move on would garble the columns behind it.    *)
RowAligned == Aligned(RowResult)

(* What the application gets for the first column says what the column     *)
(* holds, or the error flag says that it does not.                         *)
FieldValue(c, b, v) ==
  CASE v.k = "int" -> CASE c.f.type \in IntTypes -> v.v = c.v
                        [] c.f.type = "double" -> v.v = Trunc(c.v)
                        [] c.f.type \in TimeTypes -> v.v = c.v.year
                        [] OTHER -> v.v = (IF b.uns THEN Atoull(c.v).v ELSE Atoll(c.v).v)
    [] v.k = "float" -> v.v = (IF c.f.type = "double" THEN c.v ELSE 2 * c.v)
    [] v.k = "stamp" -> /\ v.v = SubSeq(c.v, 1, 12)
                        /\ Len(c.v) > 12 => Len(v.name) = c.v[15] /\ Len(v.abbr) = c.v[16 + c.v[15]]
    [] v.k = "none" -> FALSE
    [] v.k = "time" ->
         LET clock(x) == <<x.hour, x.minute, x.second, x.part>>
         IN IF b.type = "time" THEN clock(v.v) = clock(c.v)
            ELSE c.f.type = "time"
                 \/ <<v.v.year, v.v.month, v.v.day>> \o clock(v.v)
                      = <<c.v.year, c.v.month, c.v.day>> \o clock(c.v)
    [] v.k = "text" ->
         CASE c.f.type \in IntTypes ->
                [v |-> c.v, err |-> FALSE] = (IF c.f.uns THEN Atoull(v.v) ELSE Atoll(v.v))
           [] c.f.type \in TimeTypes -> v.v = TimeText(c.f.type, c.v, c.f.dec)
           [] c.f.type = "raw" -> v.v = (IF b.type = "string" THEN HexText(c.v) ELSE c.v)
           [] OTHER -> v.v = c.v

(* Three cases are left out of the next property, see README: an unsigned  *)
(* BIGINT beyond the signed range in a narrower signed buffer, the zone    *)
(* abbreviation in a buffer of exactly the announced size, and what is no  *)
(* date in the buffer of one.                                              *)
SilentCut(c, b) ==
  \/ c.f = [c.f EXCEPT !.type = "longlong", !.uns = TRUE] /\ c.v > LongLongMax
     /\ b.type \in IntTypes \ {"longlong"}
  \/ c.f.type = "stamp" /\ Len(c.v) > 12 /\ b.len = Len(c.v) - 16 + OracleTimeSize + 2
  \/ c.f.type \notin TimeTypes /\ b.type \in TimeTypes

(* A fetch that does not set the error flag delivered the column's value:  *)
(* nothing is cut, wrapped or dropped in silence (mysql_stmt_fetch's       *)
(* MYSQL_DATA_TRUNCATED rests on these flags).                             *)
LossReported ==
  rcols # <<>> =>
    \A r \in {RowResult[1]} :
      LET c == rcols[1]
          b == rbinds[1]
      IN c.null \/ b.type = "dummy" \/ SilentCut(c, b) \/ r.err \/ FieldValue(c, b, r.val)

(* A text or binary column read piece by piece with mysql_stmt_fetch_column*)
(* comes out whole, each piece as long as the buffer but the last, and only*)
(* the last without the error flag.                                        *)
PiecesWhole ==
  rcols # <<>> /\ rcols[1].f.type \in TextTypes /\ ~rcols[1].null
    /\ rbinds[1].type \in TextTypes /\ rbinds[1].len > 0 =>
    LET c == rcols[1]
        b == rbinds[1]
        row == ServerRow(rcols)
        n == (Len(c.v) + b.len - 1) \div b.len
        pieces == [k \in 1..n |-> FetchColumn(c.f, b, row, FirstCell(rcols), (k - 1) * b.len)]
    IN \A ps \in {pieces} :
         /\ FlattenSeq([k \in 1..n |-> ps[k].val.v]) = c.v
         /\ \A k \in 1..n : ps[k].len = Len(c.v) /\ (ps[k].err <=> k < n)
=============================================================================
