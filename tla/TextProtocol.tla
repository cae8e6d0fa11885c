---------------------------- MODULE TextProtocol -----------------------------
(***************************************************************************)
(* What the text protocol reads of a result set (mariadb_lib.c).           *)
(*                                                                         *)
(* The description of a column (unpack_fields): twelve fixed bytes, the    *)
(* attributes of the extended type info, and for a column of an object     *)
(* type the names of the type and of its elements.  A description is built *)
(* field by field, written as a server does it (external), perhaps cut     *)
(* off, and read.  Bytes are 0..255; behind the data of a row lies one     *)
(* more byte, 0.                                                           *)
(*                                                                         *)
(* Rows in Oracle mode: dates, times, raw bytes and intervals arrive       *)
(* packed and are rewritten as text into a buffer that is sized before.  A *)
(* buffer is the number of bytes it has; a column is [kind, len, ...] with *)
(* the length it has in the packet.                                        *)
(***************************************************************************)
EXTENDS DateFormat

CONSTANTS FuNames,       \* names of types and owners, byte sequences
          FuVersions, FuAttrs, FuFlags

VARIABLES fu     \* the description, and the stage of its making

ObjectType == 160
NumFlag == 32768
AttrLast == 1          \* MARIADB_FIELD_ATTR_LAST: type name, format name
NoBytes == <<>>

(***************************************************************************)
(* Numbers and lengths                                                     *)
(***************************************************************************)
Korr(b, at, n) ==      \* uint2korr, uint3korr, uint4korr
  FoldLeft(LAMBDA acc, k : acc * 256 + b[at + n - k], 0, [k \in 1..n |-> k])
LittleEnd(v, n) == [k \in 1..n |-> (v \div 256 ^ (k - 1)) % 256]
(* The bytes of the packet, and what is behind it                          *)
ByteAt(b, p) == IF p <= Len(b) THEN b[p] ELSE 0
(* net_field_length at p: [val, pos]                                       *)
NullLength == -1
LengthAt(b, p) ==
  LET first == ByteAt(b, p)
      num(n) == Korr([k \in 1..n |-> ByteAt(b, p + k)], 1, n)
  IN CASE first < 251 -> [val |-> first, pos |-> p + 1]
       [] first = 251 -> [val |-> NullLength, pos |-> p + 1]
       [] first = 252 -> [val |-> num(2), pos |-> p + 3]
       [] first = 253 -> [val |-> num(3), pos |-> p + 4]
       [] OTHER -> [val |-> num(4), pos |-> p + 9]
(* mysql_net_store_length                                                  *)
NetStoreLength(v) ==
  CASE v < 251 -> <<v>>
    [] v < 65536 -> <<252>> \o LittleEnd(v, 2)
    [] v < 16777216 -> <<253>> \o LittleEnd(v, 3)
    [] OTHER -> <<254>> \o LittleEnd(v, 4) \o <<0, 0, 0, 0>>

(***************************************************************************)
(* The fixed part                                                          *)
(***************************************************************************)
FixedBytes(f) ==       \* external
  LittleEnd(f.charsetnr, 2) \o LittleEnd(f.length, 4) \o <<f.type>> \o LittleEnd(f.flags, 2)
  \o <<f.decimals, f.precision, f.inout + (IF f.rowid THEN 4 ELSE 0)>>
(* INTERNAL_NUM_FIELD: DECIMAL up to INT24 (9) but for a TIMESTAMP (7) of  *)
(* unusual length, YEAR, NEWDECIMAL and NUMBER_FLOAT                       *)
NumField(t, length) == (t <= 9 /\ (t # 7 \/ length \in {8, 14})) \/ t \in {13, 246, 205}
WithNum(flags, t, length) ==
  IF NumField(t, length) /\ (flags \div NumFlag) % 2 = 0 THEN flags + NumFlag ELSE flags
ReadFixed(b) ==
  LET t == b[7] length == Korr(b, 3, 4)
  IN [charsetnr |-> Korr(b, 1, 2), length |-> length, type |-> t,
      flags |-> WithNum(Korr(b, 8, 2), t, length), decimals |-> b[10], precision |-> b[11],
      inout |-> b[12] % 4, rowid |-> (b[12] \div 4) % 2 = 1]

(***************************************************************************)
(* Extended type info: attributes [a, s], each its type, its length and its*)
(* bytes                                                                   *)
(***************************************************************************)
AttrInfo(attrs) == FlattenSeq([i \in 1..Len(attrs) |-> <<attrs[i].a, Len(attrs[i].s)>> \o attrs[i].s])
NoAttrs == [a \in 0..AttrLast |-> NoBytes]
(* ma_field_extension_init_type_info from position p on                    *)
RECURSIVE InitTypeInfo(_, _, _)
InitTypeInfo(b, p, ext) ==
  IF p > Len(b) THEN ext
  ELSE LET a == ByteAt(b, p)
           n == ByteAt(b, p + 1)
           e == p + 1 + n
       IN IF e > Len(b) \/ n > 127 THEN ext
          ELSE InitTypeInfo(b, e + 1, IF a <= AttrLast THEN [ext EXCEPT ![a] = SubSeq(b, p + 2, e)] ELSE ext)
(* ma_field_extension_deep_dup: the last attribute is left out             *)
DeepDup(ext) == [a \in 0..AttrLast |-> IF a < AttrLast THEN ext[a] ELSE NoBytes]

(***************************************************************************)
(* The names of an object type                                             *)
(***************************************************************************)
(* A description o: owner, name and version; without a name the type of the*)
(* elements, which may be an object type again (external)                  *)
StoreName(s) == NetStoreLength(Len(s)) \o s
ObjectBytes(o) ==
  StoreName(o.owner) \o StoreName(o.name) \o NetStoreLength(o.version) \o
  (IF o.name # NoBytes THEN <<>>
   ELSE <<o.etype>> \o
        (IF o.etype = ObjectType
         THEN StoreName(o.eowner) \o StoreName(o.ename) \o NetStoreLength(o.eversion) ELSE <<>>))

(* The reading: position, error, what was read and the furthest byte of a  *)
(* name                                                                    *)
Unread == [pos |-> 1, err |-> FALSE, far |-> 0, last |-> NoBytes]
(* CHECK_PKT_LENGTH_END and net_field_length                               *)
TakeLength(r, l) == [r EXCEPT !.pos = l.pos, !.last = l.val]
ReadNum(b, r) ==
  IF r.err \/ r.pos > Len(b) THEN [r EXCEPT !.err = TRUE, !.last = 0]
  ELSE TakeLength(r, LengthAt(b, r.pos))
(* a length, CHECK_PKT_LENGTH and the name of that length                  *)
NameBehind(b, l) ==
  IF l.err \/ l.last > Len(b) - (l.pos - 1) THEN [l EXCEPT !.err = TRUE, !.last = NoBytes]
  ELSE [l EXCEPT !.pos = @ + l.last, !.far = IF l.last > 0 THEN l.pos + l.last - 1 ELSE @,
                 !.last = SubSeq(b, l.pos, l.pos + l.last - 1)]
ReadName(b, r) == NameBehind(b, ReadNum(b, r))

(* Owner, name and version: x.end is where the reading is, x.o what it has *)
ReadInto(x, field, r) == [o |-> [x.o EXCEPT ![field] = r.last], end |-> r]
ReadIntoName(b, x, field) == ReadInto(x, field, ReadName(b, x.end))
ReadIntoNum(b, x, field) == ReadInto(x, field, ReadNum(b, x.end))
ReadTypeNames(b, x, owner, name, version) ==
  ReadIntoNum(b, ReadIntoName(b, ReadIntoName(b, x, owner), name), version)
(* Without a name the type of the elements follows                         *)
ReadElements(b, x) ==
  LET et == ByteAt(b, x.end.pos)
      elem == [x EXCEPT !.o.etype = et, !.end.pos = @ + 1]
  IN CASE x.o.name # NoBytes \/ x.end.err -> x
       [] et # ObjectType -> elem
       [] OTHER -> ReadTypeNames(b, elem, "eowner", "ename", "eversion")
NoObject == [owner |-> NoBytes, name |-> NoBytes, version |-> 0,
             etype |-> 0, eowner |-> NoBytes, ename |-> NoBytes, eversion |-> 0]
ReadObject(b) ==
  ReadElements(b, ReadTypeNames(b, [o |-> NoObject, end |-> Unread], "owner", "name", "version"))

(* The default value behind the description of another column              *)
ReadDefault(b) ==
  IF b = <<>> THEN NoBytes
  ELSE LET l == LengthAt(b, 1)
       IN IF l.val > 0 THEN SubSeq(b, l.pos, Len(b)) ELSE NoBytes

(* unpack_fields of a column                                               *)
UnpackedAs(f, info, last, x) ==
  LET object == f.type = ObjectType
  IN [f |-> f, ext |-> InitTypeInfo(info, 1, NoAttrs), obj |-> x.o, err |-> object /\ x.end.err,
      def |-> IF object THEN NoBytes ELSE ReadDefault(last)]
UnpackField(f, info, last) ==
  UnpackedAs(f, info, last, ReadObject(IF f.type = ObjectType THEN last ELSE <<>>))

(***************************************************************************)
(* Descriptions are built step by step.                                    *)
(***************************************************************************)
PlainObject == [owner |-> NoBytes, name |-> NoBytes, version |-> 0, etype |-> 3,
                eowner |-> NoBytes, ename |-> NoBytes, eversion |-> 0]
FuPlain == [charsetnr |-> 63, length |-> 0, type |-> 253, flags |-> 0, decimals |-> 0,
            precision |-> 0, inout |-> 0, rowid |-> FALSE]
FuInit == fu = [stage |-> "fixed", attrs |-> <<>>, o |-> PlainObject, cut |-> 0,
                f |-> FuPlain]
FuFixed ==
  /\ fu.stage = "fixed"
  /\ \E t \in {3, 7, 253, ObjectType}, l \in {0, 14, 65536}, g \in FuFlags, io \in 0..3, r \in BOOLEAN :
       fu' = [fu EXCEPT !.stage = "info", !.f.type = t, !.f.length = l, !.f.flags = g,
                        !.f.inout = io, !.f.rowid = r, !.f.decimals = l % 256, !.f.precision = 2 * io]
FuAttr ==
  /\ fu.stage = "info" /\ Len(fu.attrs) < 3 /\ fu.f = [FuPlain EXCEPT !.inout = 1, !.precision = 2]
  /\ \E a \in FuAttrs, s \in FuNames : fu' = [fu EXCEPT !.attrs = Append(@, [a |-> a, s |-> s])]
FuObject ==
  /\ fu.stage = "info" /\ fu.f.type = ObjectType /\ fu.f = [FuPlain EXCEPT !.type = ObjectType]
  /\ \E n, w \in {x \in FuNames : Len(x) < 128}, v \in FuVersions :
       fu' = [fu EXCEPT !.stage = "object", !.o.owner = w, !.o.name = n, !.o.version = v,
                        !.o.etype = IF n = NoBytes THEN @ ELSE 0]
FuElement ==
  /\ fu.stage = "object" /\ fu.o.name = NoBytes /\ fu.o.etype # ObjectType
  /\ \E n, w \in {x \in FuNames : Len(x) < 128}, v \in FuVersions :
       fu' = [fu EXCEPT !.o.etype = ObjectType, !.o.eowner = w, !.o.ename = n, !.o.eversion = v]
FuCut ==
  /\ fu.stage = "object" /\ fu.cut < Len(ObjectBytes(fu.o))
  /\ fu' = [fu EXCEPT !.cut = @ + 1]
FuNext == FuFixed \/ FuAttr \/ FuObject \/ FuElement \/ FuCut

FuLast == LET b == ObjectBytes(fu.o) IN SubSeq(b, 1, Len(b) - fu.cut)
Unpacked == UnpackField(ReadFixed(FixedBytes(fu.f)), AttrInfo(fu.attrs), FuLast)

(* The fixed bytes give back every field, the direction of a routine's     *)
(* parameter and the mark of an implicit rowid apart although they share a *)
(* byte; only the flag of a numeric column is added.                       *)
FixedReadBack ==
  Unpacked.f = [fu.f EXCEPT !.flags = WithNum(@, fu.f.type, fu.f.length)]

(* An attribute has the last value that was sent for it, attributes that   *)
(* are not known are skipped, and one whose length does not fit ends the   *)
(* reading without harm to those before it; a copy for a prepared statement*)
(* has the type name.                                                      *)
AttrsRead ==
  LET bad == {i \in 1..Len(fu.attrs) : Len(fu.attrs[i].s) > 127}
      good == IF bad = {} THEN Len(fu.attrs) ELSE (CHOOSE i \in bad : \A k \in bad : i <= k) - 1
      given(a) == {i \in 1..good : fu.attrs[i].a = a}
      ext == Unpacked.ext
  IN /\ \A a \in 0..AttrLast :
          ext[a] = IF given(a) = {} THEN NoBytes
                   ELSE fu.attrs[CHOOSE i \in given(a) : \A k \in given(a) : k <= i].s
     /\ DeepDup(ext)[0] = ext[0]

(* The names and versions of an object type are read back, with every form *)
(* of length, and the reading ends where the description ends: "there      *)
(* should be no data behind" (unpack_fields).                              *)
ObjectReadBack ==
  fu.stage = "object" /\ fu.cut = 0 =>
    /\ ~Unpacked.err /\ Unpacked.obj = fu.o
    /\ ReadObject(FuLast).end.pos = Len(FuLast) + 1

(* No name is taken from behind the end of a description that was cut, as  *)
(* long as the names are short enough for a length of one byte.            *)
NamesInside ==
  fu.stage = "object" =>
    ReadObject(FuLast).end.far <= Len(FuLast)

(***************************************************************************)
(* Intervals: [n, scale, frac, fscale], n the years or the days            *)
(***************************************************************************)
FastDigits10(v) == Len(Decimal(v))
Larger(a, b) == IF a > b THEN a ELSE b
IntervalRoom(kind, x) ==                                 \* calculate_interval_length
  LET lead == Larger(FastDigits10(x.n), x.scale)
      fraction == IF x.fscale > 0 THEN 1 + Larger(FastDigits10(x.frac), x.fscale) ELSE 0
  IN IF kind = "ym" THEN Larger(7, 4 + lead) ELSE Larger(14, 10 + lead + fraction)
(* rewrite_interval: a sign, the years or days in scale digits or more,    *)
(* then two digits for each further field and the first digits of the      *)
(* nanoseconds                                                             *)
IntervalText(kind, x) ==
  LET lead == <<"+">> \o Num(x.n, x.scale)
      two == <<"0", "1">>
      digits == IF x.fscale > 9 THEN 9 ELSE x.fscale
  IN IF kind = "ym" THEN lead \o <<"-">> \o two
     ELSE lead \o <<Blank>> \o two \o <<":">> \o two \o <<":">> \o two
          \o (IF x.fscale > 0 THEN <<".">> \o SubSeq(Num(x.frac, 9), 1, digits) ELSE <<>>)

(***************************************************************************)
(* Times                                                                   *)
(***************************************************************************)
(* oracle_date_to_ob_time: as many fields as the text has; the days of the *)
(* week and of the year are left 0                                         *)
DateFields == <<"year", "mon", "mday", "hour", "min", "sec">>
DateColumn(x) ==
  [k \in DOMAIN NoParts |->
     LET i == SelectInSeq(DateFields, LAMBDA f : f = k)
     IN IF i = 0 THEN NoParts[k] ELSE IF i <= Len(x) THEN x[i] ELSE 0]
(* oracle_timestamp_to_ob_time: a negative century or year makes the year  *)
(* negative, a negative hour or minute the zone                            *)
TimestampColumn(x) ==
  LET sign(a, b) == IF a < 0 \/ b < 0 THEN -1 ELSE 1
      t == [NoParts EXCEPT !.year = sign(x.cent, x.year) * (100 * AbsInt(x.cent) + AbsInt(x.year)),
              !.mon = x.mon, !.mday = x.mday, !.hour = x.hour, !.min = x.min, !.sec = x.sec,
              !.nano = x.nano, !.off = sign(x.tzh, x.tzm) * (60 * AbsInt(x.tzh) + AbsInt(x.tzm)), !.tz = x.tz, !.tzd = x.tzd]
  IN ObTimeToDate(t)
ColumnTime(c) == IF c.kind = "date" THEN DateColumn(c.x) ELSE TimestampColumn(c.x)
ColumnScale(c) == IF c.kind = "date" THEN 0 ELSE IF c.x.scale > 9 THEN 9 ELSE c.x.scale
IsTime(c) == c.kind \in {"date", "timestamp"}

(***************************************************************************)
(* A row                                                                   *)
(***************************************************************************)
ConvertLen(c, fmt) ==
  CASE IsTime(c) -> DfmLength(ColumnTime(c), fmt, ColumnScale(c))
    [] c.kind = "raw" -> 2 * c.len
    [] c.kind \in {"ym", "ds"} -> IntervalRoom(c.kind, c.x)
    [] OTHER -> c.len
(* the text a column has when there is room for it                         *)
WholeText(c, fmt) ==
  CASE IsTime(c) -> TimeToStr(ColumnTime(c), fmt, ColumnScale(c), 1000).text
    [] c.kind = "raw" -> Repeat("x", 2 * c.len)
    [] c.kind \in {"ym", "ds"} -> IntervalText(c.kind, c.x)
    [] OTHER -> Repeat("x", c.len)
(* every column has a length byte in the packet, a null has nothing else   *)
RowRoom(cols, fmt) ==
  Len(cols) + FoldLeft(LAMBDA n, c : n + 1 + (IF c.kind = "null" THEN 0 ELSE ConvertLen(c, fmt)), 0, cols)

(* One column.  strict: mthd_my_read_rows also refuses raw columns and     *)
(* intervals whose packed length has no room, and any column that begins   *)
(* behind the end; mthd_my_read_one_row (not strict) compares unsigned.    *)
PutColumn(s, c, fmt, room, strict) ==
  LET left == room - 1 - s.to                                       \* end_to - to
      tight == c.len > left /\ (left >= 0 \/ strict)
      refused == tight /\ ~IsTime(c) /\ (strict \/ c.kind = "text")
      text == IF IsTime(c) THEN TimeToStr(ColumnTime(c), fmt, ColumnScale(c), left + 1).text
              ELSE WholeText(c, fmt)
  IN IF ~s.ok \/ c.kind = "null" THEN s
     ELSE IF refused THEN [s EXCEPT !.ok = FALSE]
     ELSE [s EXCEPT !.to = @ + Len(text) + 1, !.texts = Append(@, text)]
ReadRowText(cols, fmt, strict) ==
  LET room == RowRoom(cols, fmt)
  IN FoldLeft(LAMBDA s, c : PutColumn(s, c, fmt, room, strict), [ok |-> TRUE, to |-> 0, texts |-> <<>>], cols)

(* A time fetched into a string buffer (ps_fetch_oracle_timestamp)         *)
FetchTimeText(c, fmt, size) ==
  LET len == ConvertLen(c, fmt)
  IN IF size < len THEN [error |-> TRUE, text |-> <<>>, len |-> len]
     ELSE [error |-> FALSE, text |-> TimeToStr(ColumnTime(c), fmt, ColumnScale(c), size).text, len |-> len]

CONSTANTS RowColumns, RowFormats, MaxColumns
VARIABLES trow            \* [fmt, cols]
RowTextInit == trow = [fmt |-> <<>>, cols |-> <<>>]
RowTextNext ==
  \/ trow.fmt = <<>> /\ \E f \in RowFormats : trow' = [trow EXCEPT !.fmt = <<f>>]
  \/ /\ trow.fmt # <<>> /\ Len(trow.cols) < MaxColumns
     /\ \E i \in DOMAIN RowColumns : trow' = [trow EXCEPT !.cols = Append(@, RowColumns[i])]

TrowFmt == trow.fmt[1]
Honest(c) == IsTime(c) => \A f \in FlagsOf(TrowFmt) : ~Underrated(f, ColumnTime(c))
(* A row of the text protocol is accepted with all its columns whole and   *)
(* inside the buffer that was sized for it, whether it is stored or used.  *)
RowWhole ==
  trow.fmt # <<>> /\ (\A i \in DOMAIN trow.cols : Honest(trow.cols[i])) =>
    \A strict \in BOOLEAN :
      LET s == ReadRowText(trow.cols, TrowFmt, strict)
          here == SelectSeq(trow.cols, LAMBDA c : c.kind # "null")
      IN /\ s.ok /\ s.to <= RowRoom(trow.cols, TrowFmt)
         /\ s.texts = [i \in DOMAIN here |-> WholeText(here[i], TrowFmt)]

(* A time fetched into a string buffer is whole when the buffer is longer  *)
(* than the length reported, and an error is set when it is shorter.       *)
FetchedWhole ==
  trow.fmt # <<>> /\ trow.cols # <<>> =>
    LET c == trow.cols[1]
    IN IsTime(c) /\ Honest(c) =>
         LET len == ConvertLen(c, TrowFmt)
         IN /\ FetchTimeText(c, TrowFmt, len + 1).text = WholeText(c, TrowFmt)
            /\ len > 0 => FetchTimeText(c, TrowFmt, len - 1).error
=============================================================================
