------------------------------- MODULE Dyncol -------------------------------
(***************************************************************************)
(* Dynamic columns (mariadb_dyncol.c): a packed record of columns with     *)
(* numbers or names, created, updated and read by binary search.  A record *)
(* is its fixed header (format, size of an offset, size of the name pool), *)
(* its sorted directory of [k |-> key, to |-> combined offset and type]    *)
(* and its data.  A column number is kept as a number, a column name as    *)
(* the sequence of its characters.                                         *)
(***************************************************************************)
EXTENDS Integers, Sequences, SequencesExt, Functions, FiniteSets

(***************************************************************************)
(* The values of dynamic columns (mariadb_dyncol.c): how each type is      *)
(* packed into bytes, how long it says it will be, how it is read back and *)
(* how it is converted to a number.  A value is [t |-> type, x |-> ...].   *)
(***************************************************************************)
DynTypes == [null |-> 0, int |-> 1, uint |-> 2, double |-> 3, string |-> 4,
             datetime |-> 6, date |-> 7, time |-> 8, dyncol |-> 9]
DynNull == [t |-> "null", x |-> <<>>]

(***************************************************************************)
(* Integers                                                                *)
(***************************************************************************)
(* dynamic_column_uint_store: least significant byte first, 0 in no byte   *)
RECURSIVE UintBytes(_)
UintBytes(v) == IF v = 0 THEN <<>> ELSE <<v % 256>> \o UintBytes(v \div 256)
(* dynamic_column_uint_bytes *)
RECURSIVE UintLen(_)
UintLen(v) == IF v = 0 THEN 0 ELSE 1 + UintLen(v \div 256)
RECURSIVE UintRead(_)
UintRead(b) == IF b = <<>> THEN 0 ELSE b[1] + 256 * UintRead(Tail(b))

(* dynamic_column_sint_store: (val << 1) ^ sign, so 0, -1, 1, -2 ...       *)
SintCode(v) == IF v < 0 THEN 2 * (-v) - 1 ELSE 2 * v
SintRead(b) == LET u == UintRead(b) IN IF u % 2 = 1 THEN -(u \div 2) - 1 ELSE u \div 2

(* dynamic_column_var_uint_store: seven bits a byte, the eighth says more  *)
RECURSIVE VarUintBytes(_)
VarUintBytes(v) ==
  IF v < 128 THEN <<v>> ELSE <<128 + (v % 128)>> \o VarUintBytes(v \div 128)
RECURSIVE VarUintLen(_)
VarUintLen(v) == IF v < 128 THEN 1 ELSE 1 + VarUintLen(v \div 128)
(* dynamic_column_var_uint_get: length 0 when the last byte still says more*)
VarUintGet(b) ==
  LET ends == {i \in 1..Len(b) : b[i] < 128}
      n == CHOOSE i \in ends : \A k \in ends : i <= k
      bits[i \in 0..Len(b)] == IF i = 0 THEN 0 ELSE bits[i - 1] + (b[i] % 128) * 128 ^ (i - 1)
  IN IF ends = {} THEN [val |-> 0, len |-> 0] ELSE [val |-> bits[n], len |-> n]

(***************************************************************************)
(* Dates and times, x = [year, month, day, hour, minute, second, part, neg]*)
(***************************************************************************)
Bit(b, n) == IF b THEN n ELSE 0
NoTime == [year |-> 0, month |-> 0, day |-> 0,
           hour |-> 0, minute |-> 0, second |-> 0, part |-> 0, neg |-> FALSE]

DateBytes(x) ==
  <<x.day + 32 * (x.month % 8), x.month \div 8 + 2 * (x.year % 128), x.year \div 128>>
DateRead(b) ==
  [day |-> b[1] % 32, month |-> 8 * (b[2] % 2) + b[1] \div 32,
   year |-> 128 * b[3] + b[2] \div 2]
DateLegal(d) == d.day <= 31 /\ d.month <= 12 /\ d.year <= 9999

(* dynamic_column_time_store: six bytes, or three in the format with names *)
(* when there are no microseconds                                          *)
TimeLong(fmt, x) == fmt = "num" \/ x.part # 0
TimeBytes(fmt, x) ==
  IF TimeLong(fmt, x)
  THEN <<x.part % 256, (x.part \div 256) % 256,
         16 * (x.second % 16) + x.part \div 65536,
         4 * x.minute + x.second \div 16, x.hour % 256, Bit(x.neg, 4) + x.hour \div 256>>
  ELSE <<x.second + 64 * (x.minute % 4), x.minute \div 4 + 16 * (x.hour % 16),
         x.hour \div 16 + Bit(x.neg, 128)>>
TimeRead(b) ==
  IF Len(b) = 6
  THEN [part |-> b[1] + 256 * b[2] + 65536 * (b[3] % 16),
        second |-> b[3] \div 16 + 16 * (b[4] % 4), minute |-> b[4] \div 4,
        hour |-> 256 * (b[6] % 4) + b[5], neg |-> (b[6] \div 4) % 2 = 1]
  ELSE [part |-> 0, second |-> b[1] % 64, minute |-> b[1] \div 64 + 4 * (b[2] % 16),
        hour |-> b[2] \div 16 + 16 * (b[3] % 64), neg |-> b[3] >= 128]
TimeLegal(d) == d.second <= 59 /\ d.minute <= 59 /\ d.hour <= 838 /\ d.part <= 999999

(***************************************************************************)
(* Values                                                                  *)
(***************************************************************************)
(* data_store.  A double is eight opaque bytes; a string is its character  *)
(* set's number and its bytes; a nested record is its bytes.               *)
DataStore(fmt, v) ==
  CASE v.t = "int" -> UintBytes(SintCode(v.x))
    [] v.t = "uint" -> UintBytes(v.x)
    [] v.t = "string" -> VarUintBytes(v.x.cs) \o v.x.s
    [] v.t = "datetime" -> DateBytes(v.x) \o TimeBytes(fmt, v.x)
    [] v.t = "date" -> DateBytes(v.x)
    [] v.t = "time" -> TimeBytes(fmt, v.x)
    [] OTHER -> v.x

(* dynamic_column_value_len, which sizes the record before it is written   *)
ValueLen_ShortTime(fmt, v) ==
  CASE v.t = "int" -> UintLen(SintCode(v.x))
    [] v.t = "uint" -> UintLen(v.x)
    [] v.t = "string" -> VarUintLen(v.x.cs) + Len(v.x.s)
    [] v.t = "datetime" -> IF TimeLong(fmt, v.x) THEN 9 ELSE 6
    [] v.t = "date" -> 3
    [] v.t = "time" -> IF fmt = "num" THEN 6 ELSE 3
    [] OTHER -> Len(v.x)
ValueLen(fmt, v) ==
  CASE v.t = "int" -> UintLen(SintCode(v.x))
    [] v.t = "uint" -> UintLen(v.x)
    [] v.t = "string" -> VarUintLen(v.x.cs) + Len(v.x.s)
    [] v.t = "datetime" -> IF TimeLong(fmt, v.x) THEN 9 ELSE 6
    [] v.t = "date" -> 3
    [] v.t = "time" -> IF TimeLong(fmt, v.x) THEN 6 ELSE 3
    [] OTHER -> Len(v.x)

DynBad == [t |-> "bad", x |-> <<>>]
DynTimed(t, d) == [t |-> t, x |-> [k \in DOMAIN NoTime |-> IF k \in DOMAIN d THEN d[k] ELSE NoTime[k]]]
ReadDate(b) == IF Len(b) = 3 /\ DateLegal(DateRead(b)) THEN DynTimed("date", DateRead(b)) ELSE DynBad
ReadTime(b) ==
  IF Len(b) \in {3, 6} /\ TimeLegal(TimeRead(b)) THEN DynTimed("time", TimeRead(b)) ELSE DynBad

(* dynamic_column_get_value; charset nr is taken to be a known one         *)
GetValue(t, b) ==
  CASE t = "int" -> [t |-> t, x |-> SintRead(b)]
    [] t = "uint" -> [t |-> t, x |-> UintRead(b)]
    [] t = "double" -> IF Len(b) = 8 THEN [t |-> t, x |-> b] ELSE DynBad
    [] t = "string" ->
         LET c == VarUintGet(b)
         IN IF c.len = 0 THEN DynBad
            ELSE [t |-> t, x |-> [cs |-> c.val, s |-> SubSeq(b, c.len + 1, Len(b))]]
    [] t = "datetime" ->
         IF Len(b) \notin {6, 9} THEN DynBad
         ELSE LET d == DateRead(SubSeq(b, 1, 3))
                  h == TimeRead(SubSeq(b, 4, Len(b)))
              IN IF DateLegal(d) /\ TimeLegal(h) THEN DynTimed(t, d @@ h) ELSE DynBad
    [] t = "date" -> ReadDate(b)
    [] t = "time" -> ReadTime(b)
    [] t = "null" -> DynNull
    [] t = "decimal" -> DynBad
    [] OTHER -> [t |-> t, x |-> b]

(***************************************************************************)
(* Values are built field by field.                                        *)
(***************************************************************************)
CONSTANTS DynYears, DynMonths, DynHours, DynSixties, DynParts, DynInts
VARIABLES dval     \* the value under test

DynValInit == dval = [t |-> "uint", x |-> 0]
(* The date first, then one field of the clock at a time.                  *)
DynValNext ==
  \/ \E n \in DynInts : dval.t = "uint" /\
       dval' \in {[t |-> "int", x |-> n], [t |-> "int", x |-> -n], [t |-> "uint", x |-> n],
                 [t |-> "string", x |-> [cs |-> n, s |-> <<65>>]]}
  \/ \E y \in DynYears, m \in DynMonths, d \in {0, 31} :
       /\ dval = [t |-> "uint", x |-> 0]
       /\ dval' = [t |-> "date", x |-> [NoTime EXCEPT !.year = y, !.month = m, !.day = d]]
  \/ dval.t = "date" /\ dval' \in {[dval EXCEPT !.t = "datetime"], [t |-> "time", x |-> NoTime]}
  \/ /\ dval.t \in {"datetime", "time"}
     /\ \/ \E h \in DynHours : dval' = [dval EXCEPT !.x.hour = h]
        \/ \E m \in DynSixties : dval' \in {[dval EXCEPT !.x.minute = m], [dval EXCEPT !.x.second = m]}
        \/ \E p \in DynParts : dval' = [dval EXCEPT !.x.part = p]
        \/ dval' = [dval EXCEPT !.x.neg = TRUE]

(* A value read back from its packed bytes is the value stored, in both    *)
(* formats, whatever bits its fields share (dynamic_column_get_value).     *)
ValueRoundTrip ==
  \A fmt \in {"num", "str"} : GetValue(dval.t, DataStore(fmt, dval)) = dval

(* The length counted before the record is written is the number of bytes  *)
(* data_store then writes: the offsets in the header rest on it.           *)
LengthForeseen ==
  \A fmt \in {"num", "str"} : ValueLen(fmt, dval) = Len(DataStore(fmt, dval))

(* Every packed field is a byte: no field overflows into its neighbour.    *)
BytesOnly ==
  \A fmt \in {"num", "str"} : Range(DataStore(fmt, dval)) \subseteq 0..255

(***************************************************************************)
(* Records                                                                 *)
(***************************************************************************)
CONSTANTS NumKeys, NameKeys,   \* keys of the columns
          DynValues,           \* values stored
          NumLimits,           \* data lengths from which an offset takes one byte more
          MaxNumKey            \* UINT_MAX16

VARIABLES drec,    \* the packed record
          dref,    \* the columns it is meant to hold: name -> value
          dres,    \* result of the last call
          dclean   \* no call has met what the README lists under departures

NoRecord == [fmt |-> "num", osz |-> 0, nm |-> 0, ents |-> <<>>, data |-> <<>>]

(* backwritenum, numlen: the digits of a number *)
RECURSIVE Digits(_)
Digits(n) == IF n < 10 THEN <<48 + n>> ELSE Digits(n \div 10) \o <<48 + (n % 10)>>
NameOf(fmt, k) == IF fmt = "num" THEN Digits(k) ELSE k
NameSize(fmt, k) == IF fmt = "num" THEN 0 ELSE Len(k)

(* column_sort_num; mariadb_dyncol_column_cmp_named: the length first      *)
CmpNum(a, b) == a - b
CmpNamed(a, b) ==
  LET d == {i \in 1..Len(a) : a[i] # b[i]}
  IN IF Len(a) # Len(b) THEN Len(a) - Len(b)
     ELSE IF d = {} THEN 0 ELSE LET i == CHOOSE j \in d : \A l \in d : j <= l IN a[i] - b[i]
Cmp(fmt, a, b) == IF fmt = "num" THEN CmpNum(a, b) ELSE CmpNamed(a, b)

(* dynamic_column_offset_bytes_num, _named (at least two bytes).  Results  *)
(* from MAX_OFFSET_LENGTH on are refused by the callers' >=.               *)
OffsetBytes(fmt, len) ==
  LET over == Cardinality({i \in 1..Len(NumLimits) : len >= NumLimits[i]})
  IN IF fmt = "num" THEN 1 + over ELSE 2
MaxOffset(fmt) == IF fmt = "num" THEN 4 ELSE 5

(* type_and_offset_store and _read: three bits for the type, or four.  The *)
(* type is or-ed in, so 8 (a nested record) meets the offset's lowest bit. *)
TypeBits(fmt) == IF fmt = "num" THEN 8 ELSE 16
StoreTypeOffset(fmt, t, off) ==
  LET c == DynTypes[t] - 1
  IN off * TypeBits(fmt) + (IF c < TypeBits(fmt) THEN c ELSE IF off % 2 = 1 THEN c - 8 ELSE c)
ReadType(fmt, to) ==
  LET n == (to % TypeBits(fmt)) + 1
  IN CHOOSE t \in DOMAIN DynTypes \cup {"decimal"} :
       IF t = "decimal" THEN n = 5 ELSE DynTypes[t] = n
ReadOffset(fmt, to) == to \div TypeBits(fmt)

(***************************************************************************)
(* Creating                                                                *)
(***************************************************************************)
SortedBy(fmt, seq) == SortSeq(seq, LAMBDA a, b : Cmp(fmt, a.k, b.k) < 0)
OverLimit(fmt, k) == fmt = "num" /\ k > MaxNumKey
Duplicate(fmt, s) == \E i \in 1..(Len(s) - 1) : Cmp(fmt, s[i].k, s[i + 1].k) = 0

(* calc_var_sizes over the values that are not NULL                        *)
SumOver(s, f(_)) == FoldLeft(LAMBDA n, c : n + f(c), 0, s)
NotNull(cols) == SelectSeq(cols, LAMBDA c : c.v.t # "null")

(* dynamic_new_column_store: in the order of the keys, entry then data     *)
AddColumn(r, c) ==
  [r EXCEPT !.ents = Append(@, [k |-> c.k, to |-> StoreTypeOffset(r.fmt, c.v.t, Len(r.data))]),
            !.data = @ \o DataStore(r.fmt, c.v)]

(* dynamic_column_create_many_internal_fmt: the sizes, then the columns.   *)
Create(fmt, cols) ==
  LET size == SumOver(NotNull(cols), LAMBDA c : ValueLen(fmt, c.v))
      osz == OffsetBytes(fmt, size)
      s == SortedBy(fmt, cols)
      new == [fmt |-> fmt, osz |-> osz, ents |-> <<>>, data |-> <<>>,
              nm |-> SumOver(NotNull(cols), LAMBDA c : NameSize(fmt, c.k))]
  IN IF osz >= MaxOffset(fmt) THEN [rc |-> "limit", rec |-> NoRecord]
     ELSE IF Duplicate(fmt, s) \/ \E i \in 1..Len(s) : OverLimit(fmt, s[i].k)
     THEN [rc |-> "data", rec |-> NoRecord]
     ELSE [rc |-> "ok", rec |-> FoldLeft(AddColumn, new, NotNull(s))]

(***************************************************************************)
(* Reading                                                                 *)
(***************************************************************************)
(* hdr_interval_length of entry i                                          *)
DynOffset(r, i) == ReadOffset(r.fmt, r.ents[i].to)
IntervalLength(r, i) ==
  (IF i = Len(r.ents) THEN Len(r.data) ELSE DynOffset(r, i + 1)) - DynOffset(r, i)

(* find_entry_num, find_entry_named: binary search; 0 when absent          *)
RECURSIVE BinSearch(_, _, _, _)
BinSearch(r, k, lo, hi) ==
  IF lo > hi THEN 0
  ELSE LET mid == (lo + hi) \div 2
           c == Cmp(r.fmt, r.ents[mid].k, k)
       IN IF c < 0 THEN BinSearch(r, k, mid + 1, hi)
          ELSE IF c > 0 THEN BinSearch(r, k, lo, mid - 1) ELSE mid

(* find_column by a name: strtoul on a numeric record, which accepts the   *)
(* whole name or finds nothing                                             *)
IsNumber(name) == name # <<>> /\ \A i \in 1..Len(name) : name[i] \in 48..57
RECURSIVE NumberOf(_)
NumberOf(name) ==
  IF name = <<>> THEN 0 ELSE 10 * NumberOf(Front(name)) + Last(name) - 48
FindEntry(r, name) ==
  CASE r.fmt = "str" -> BinSearch(r, name, 1, Len(r.ents))
    [] r.fmt = "num" /\ IsNumber(name) -> BinSearch(r, NumberOf(name), 1, Len(r.ents))
    [] OTHER -> 0

(* dynamic_column_get_internal *)
GetColumn(r, name) ==
  LET i == FindEntry(r, name)
      off == DynOffset(r, i)
      len == IntervalLength(r, i)
  IN IF i = 0 THEN DynNull
     ELSE IF len < 0 \/ off > Len(r.data) THEN DynBad
     ELSE GetValue(ReadType(r.fmt, r.ents[i].to), SubSeq(r.data, off + 1, off + len))

(* mariadb_dyncol_check: offsets strictly increase, keys too, data reads   *)
Check(r) ==
  /\ \A i \in 1..Len(r.ents) :
       /\ DynOffset(r, i) <= Len(r.data)
       /\ i > 1 => /\ DynOffset(r, i - 1) < DynOffset(r, i)
                   /\ Cmp(r.fmt, r.ents[i - 1].k, r.ents[i].k) < 0
       /\ IntervalLength(r, i) >= 0
       /\ GetValue(ReadType(r.fmt, r.ents[i].to),
                   SubSeq(r.data, DynOffset(r, i) + 1, DynOffset(r, i) + IntervalLength(r, i))) # DynBad

(* mariadb_dyncol_list_named, mariadb_dyncol_unpack: names in the          *)
(* directory's order, numbers printed                                      *)
ListNames(r) == [i \in 1..Len(r.ents) |-> NameOf(r.fmt, r.ents[i].k)]

(***************************************************************************)
(* Updating                                                                *)
(***************************************************************************)
EntryKey(r, fmt, i) == IF fmt = "str" THEN NameOf(r.fmt, r.ents[i].k) ELSE r.ents[i].k

(* find_place: the number of entries before the key; its binary search     *)
(* keeps the last comparison, made at mid.                                 *)
RECURSIVE PlaceLoop(_, _, _, _, _, _, _)
PlaceLoop(r, fmt, k, start, end, mid, flag) ==
  LET m == (start + end) \div 2
      f == Cmp(fmt, k, EntryKey(r, fmt, m + 1))
      last == IF start # mid THEN Cmp(fmt, k, EntryKey(r, fmt, start + 1)) ELSE flag
  IN IF start # end
     THEN IF f <= 0 THEN PlaceLoop(r, fmt, k, start, m, m, f)
          ELSE PlaceLoop(r, fmt, k, m + 1, end, m, f)
     ELSE [found |-> last = 0, place |-> IF last > 0 THEN start + 1 ELSE start]
FindPlace(r, fmt, k) == PlaceLoop(r, fmt, k, 0, Len(r.ents) - 1, 1, 0)

(* One change of dynamic_column_update_many_fmt's plan: what it does and   *)
(* by how much the changes before it move header, data and names           *)
PlanStep(r, fmt, acc, c) ==
  LET p == FindPlace(r, fmt, c.k)
      gone == c.v.t = "null"
      act == IF p.found THEN IF gone THEN "delete" ELSE "replace" ELSE IF gone THEN "nop" ELSE "add"
      oldlen == IF p.found THEN IntervalLength(r, p.place + 1) ELSE 0
      oldname == IF p.found /\ fmt = "str" THEN Len(EntryKey(r, fmt, p.place + 1)) ELSE 0
      newlen == IF gone THEN 0 ELSE ValueLen(fmt, c.v)
      newname == IF gone THEN 0 ELSE NameSize(fmt, c.k)
  IN [plan |-> Append(acc.plan, [k |-> c.k, v |-> c.v, act |-> act, place |-> p.place,
                                 hd |-> acc.hd, dd |-> acc.dd, len |-> newlen]),
      hd |-> acc.hd + (IF act = "add" THEN 1 ELSE IF act = "delete" THEN -1 ELSE 0),
      dd |-> acc.dd + newlen - oldlen,
      nd |-> acc.nd + newname - oldname]

MakePlan(r, fmt, changes) ==
  FoldLeft(LAMBDA acc, c : PlanStep(r, fmt, acc, c),
           [plan |-> <<>>, hd |-> 0, dd |-> 0, nd |-> 0], SortedBy(fmt, changes))

(* plan[add_column_count], the end of the plan                             *)
PlanEnd(r, p) == [k |-> <<>>, v |-> DynNull, act |-> "nop", place |-> Len(r.ents),
                  hd |-> p.hd, dd |-> p.dd, len |-> 0]
Acting(plan) == SelectSeq(plan, LAMBDA e : e.act # "nop")

(* The entries j+1..end of the old record, moved by delta, and their data  *)
Moved(r, fmt, j, end, delta) ==
  [i \in 1..(end - j) |->
     [k |-> EntryKey(r, fmt, j + i),
      to |-> StoreTypeOffset(fmt, ReadType(r.fmt, r.ents[j + i].to), DynOffset(r, j + i) + delta)]]
Segment(r, j, end) ==
  IF j = end THEN <<>>
  ELSE SubSeq(r.data, DynOffset(r, j + 1) + 1,
              IF end = Len(r.ents) THEN Len(r.data) ELSE DynOffset(r, end + 1))
Skips(e) == IF e.act \in {"replace", "delete"} THEN 1 ELSE 0
Stores(e) == e.act \in {"add", "replace"}

(* dynamic_column_update_copy: a new record, old columns and changes merged*)
CopyStep(r, acc, e) ==
  LET fmt == acc.rec.fmt
      kept == [acc.rec EXCEPT !.ents = @ \o Moved(r, fmt, acc.j, e.place, e.dd),
                              !.data = @ \o Segment(r, acc.j, e.place)]
  IN [j |-> e.place + Skips(e), rec |-> IF Stores(e) THEN AddColumn(kept, e) ELSE kept]
UpdateCopy(r, p, new) ==
  FoldLeft(LAMBDA acc, e : CopyStep(r, acc, e), [j |-> 0, rec |-> new],
           Append(Acting(p.plan), PlanEnd(r, p))).rec

(* dynamic_column_update_move_left: the directory is rewritten in place,   *)
(* from entry w on; entries whose offset stays are taken to be in place.   *)
LeftStep(r, osz, acc, e) ==
  LET kept == Moved(r, "num", acc.j, e.place, e.dd)
      dir == IF e.dd = 0 /\ osz = r.osz /\ e.act # "delete" THEN acc.dir
             ELSE [i \in 1..Len(acc.dir) |->
                     IF i \in (acc.w + 1)..(acc.w + Len(kept)) THEN kept[i - acc.w] ELSE acc.dir[i]]
      w == acc.w + Len(kept)
      data == acc.data \o Segment(r, acc.j, e.place)
      stored == IF Stores(e)
                THEN [dir EXCEPT ![w + 1] = [k |-> e.k, to |-> StoreTypeOffset("num", e.v.t, Len(data))]]
                ELSE dir
  IN [j |-> e.place + Skips(e), w |-> IF Stores(e) THEN w + 1 ELSE w, dir |-> stored,
      data |-> IF Stores(e) THEN data \o DataStore("num", e.v) ELSE data]
MoveLeft(r, p, new) ==
  LET end == FoldLeft(LAMBDA acc, e : LeftStep(r, new.osz, acc, e),
                      [j |-> 0, w |-> 0, dir |-> r.ents, data |-> <<>>],
                      Append(Acting(p.plan), PlanEnd(r, p)))
  IN [new EXCEPT !.ents = SubSeq(end.dir, 1, Len(r.ents) + p.hd), !.data = end.data]

(* An iteration of the first loop that starts after the last entry reads   *)
(* an offset from the data behind the directory.                           *)
ReadsBehind(r, p) ==
  LET acts == Acting(p.plan)
      n == Len(acts)
      j == [i \in 1..n |-> acts[i].place + Skips(acts[i])]
  IN \/ \E i \in 2..n : j[i - 1] = Len(r.ents)
     \/ n > 0 /\ j[n] = Len(r.ents) /\ Last(p.plan).act = "nop"
(* That offset's bytes: all ones, of which it makes a format error; past   *)
(* the end of the string they can be anything.                             *)
BehindFails(r) ==
  IF Len(r.data) < 2 + r.osz THEN BOOLEAN
  ELSE {UintRead(SubSeq(r.data, 3, 2 + r.osz)) \div 8 >= 2 ^ (8 * r.osz - 3) - 1}

(* DELTA_CHECK: the directions in which header and data move               *)
Sign(n) == IF n < 0 THEN -1 ELSE IF n > 0 THEN 1 ELSE 0
DeltaCheck(acc, h, d) ==
  [h |-> IF acc.h = 0 THEN Sign(h) ELSE acc.h, d |-> IF acc.d = 0 THEN Sign(d) ELSE acc.d,
   copy |-> acc.copy \/ acc.h * Sign(h) < 0 \/ acc.d * Sign(d) < 0]
GoesLeft(r, p, fmt, osz) ==
  LET c == FoldLeft(LAMBDA acc, e : DeltaCheck(acc, e.hd, e.dd),
                    [h |-> Sign(osz - r.osz), d |-> 0, copy |-> FALSE],
                    Append(p.plan, PlanEnd(r, p)))
  IN fmt = "num" /\ ~c.copy /\ c.h < 0 /\ c.d <= 0

(* dynamic_column_update_many_fmt; "clean" is FALSE where move_left relies *)
(* on an offset that stays while the directory moves, or reads behind it,  *)
(* and where a nested record's type does not fit the numeric format.       *)
Nests(fmt, changes) == fmt = "num" /\ \E i \in 1..Len(changes) : changes[i].v.t = "dyncol"
Out(rc, rec, clean) == {[rc |-> rc, rec |-> rec, clean |-> clean]}
Planned(r, fmt, p, osz, clean) ==
  LET base == IF fmt = "str" /\ r.fmt = "num"
              THEN SumOver(r.ents, LAMBDA e : Len(Digits(e.k))) ELSE r.nm
      new == [fmt |-> fmt, osz |-> osz, nm |-> base + p.nd, ents |-> <<>>, data |-> <<>>]
      ends == Append(p.plan, PlanEnd(r, p))
      stays == \E i \in 1..Len(ends) : ends[i].dd = 0 /\ ends[i].hd # 0
  IN IF osz >= MaxOffset(fmt) THEN Out("limit", r, TRUE)
     ELSE IF ~GoesLeft(r, p, fmt, osz) THEN Out("ok", UpdateCopy(r, p, new), clean)
     ELSE UNION {IF ReadsBehind(r, p) /\ fails THEN Out("format", NoRecord, FALSE)
                 ELSE Out("ok", MoveLeft(r, p, new), clean /\ ~stays) : fails \in BehindFails(r)}
Sized(r, fmt, p, clean) == Planned(r, fmt, p, OffsetBytes(fmt, Len(r.data) + p.dd), clean)
Update(r, fmt, changes) ==
  LET made == Create(fmt, changes)
      clean == ~Nests(fmt, changes)
  IN IF \E i \in 1..Len(changes) : OverLimit(fmt, changes[i].k) THEN Out("data", r, TRUE)
     ELSE IF r.ents = <<>>
     THEN IF NotNull(changes) = <<>> THEN Out("ok", r, TRUE)
          ELSE Out(made.rc, made.rec, clean)
     ELSE IF Duplicate(fmt, SortedBy(fmt, changes)) THEN Out("data", r, TRUE)
     ELSE Sized(r, fmt, MakePlan(r, fmt, changes), clean)

(***************************************************************************)
(* The calls                                                               *)
(***************************************************************************)
Changes(keys) ==
  {<<[k |-> k, v |-> v]>> : k \in keys, v \in DynValues}
    \cup {<<[k |-> k, v |-> v], [k |-> l, v |-> w]>> : k \in keys, l \in keys, v \in DynValues, w \in DynValues}
NumChanges == Changes(NumKeys)
NameChanges == Changes(NameKeys)
Applied(ref, fmt, changes) ==
  LET new == [n \in {NameOf(fmt, changes[i].k) : i \in 1..Len(changes)} |->
                changes[CHOOSE i \in 1..Len(changes) : NameOf(fmt, changes[i].k) = n].v]
      all == new @@ ref
  IN Restrict(all, {n \in DOMAIN all : all[n].t # "null"})

DynInit == drec = NoRecord /\ dref = <<>> /\ dres = "ok" /\ dclean = TRUE

DynCreate(fmt, cols) ==
  LET made == Create(fmt, cols)
  IN /\ dclean /\ drec.ents = <<>>
     /\ drec' = made.rec /\ dres' = made.rc
     /\ dref' = IF made.rc = "ok" THEN Applied(<<>>, fmt, cols) ELSE <<>>
     /\ dclean' = ~Nests(fmt, cols)

(* "new format can't be numeric if the old one is names" (an assertion)    *)
DynUpdate(fmt, changes) ==
  /\ dclean /\ (drec.fmt = "str" => fmt = "str")
  /\ \E o \in Update(drec, fmt, changes) :
       /\ drec' = o.rec /\ dres' = o.rc /\ dclean' = o.clean
       /\ dref' = IF o.rc = "ok" THEN Applied(dref, fmt, changes) ELSE dref

DynNext ==
  \/ \E c \in NumChanges : DynCreate("num", c) \/ DynUpdate("num", c)
  \/ \E c \in NameChanges : DynCreate("str", c) \/ DynUpdate("str", c)

(***************************************************************************)
(* Properties                                                              *)
(***************************************************************************)
DynNames == {NameOf("num", k) : k \in NumKeys} \cup NameKeys
RefValue(n) == IF n \in DOMAIN dref THEN dref[n] ELSE DynNull

(* The directory is sorted, each key once, each column's bytes one behind  *)
(* the other: what the binary searches and interval lengths rely on.       *)
DirectorySorted ==
  dclean => \A i \in 1..Len(drec.ents) :
              /\ i > 1 => Cmp(drec.fmt, drec.ents[i - 1].k, drec.ents[i].k) < 0
              /\ IntervalLength(drec, i) >= 0

(* Every column reads back, by number or by name, as the last value that   *)
(* was stored in it, and as NULL when it was deleted or never stored       *)
(* (mariadb_dyncol_get_named, _get_num), across conversions to names.      *)
ContentExact ==
  dclean => /\ \A n \in DynNames : GetColumn(drec, n) = RefValue(n)
            /\ Range(ListNames(drec)) = DOMAIN dref

(* The sizes in the header, computed from deltas, are those of the record. *)
HeaderSizes ==
  (dclean /\ drec.ents # <<>>) =>
    /\ drec.nm = SumOver(drec.ents, LAMBDA e : NameSize(drec.fmt, e.k))
    /\ drec.osz = OffsetBytes(drec.fmt, Len(drec.data))

(* A record made by these calls passes mariadb_dyncol_check, if each of    *)
(* its columns but the last takes some data.                               *)
CheckAccepts ==
  (dclean /\ \A i \in 1..(Len(drec.ents) - 1) : IntervalLength(drec, i) > 0) => Check(drec)

(* "Inserting a NULL means delete the old data" (mariadb_dyncol.c:3475),   *)
(* and only it: an update that succeeds leaves exactly the columns that    *)
(* the changes ask for, whatever their values.                             *)
DeleteExact == dres = "ok" => Range(ListNames(drec)) = DOMAIN dref
=============================================================================
