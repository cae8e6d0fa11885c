---------------------------- MODULE ComplexCodec ----------------------------
(***************************************************************************)
(* Objects, arrays and XML values of the OceanBase types, as columns of a  *)
(* row and as parameters.  A type is a tree: [k |-> "object", c |-> types],*)
(* [k |-> "array", c |-> <<type>>], [k |-> "xml", c |-> <<type>>] or a     *)
(* scalar [k |-> type].  A value is NullValue, Leaf(v) or Node(values).    *)
(***************************************************************************)
EXTENDS ParamCodec

NullValue == [k |-> "null"]
Leaf(v) == [k |-> "leaf", v |-> v]
Node(s) == [k |-> "node", c |-> s]
Scalar(t) == t.k \notin {"object", "array", "xml"}

CONSTANTS SizeObject,   \* sizes of the MYSQL_COMPLEX_BIND_ structures
          SizeString,
          SizeBasic,
          SizeTime      \* and of MYSQL_TIME

(* get_complex_header_length                                               *)
HeaderLength(t) ==
  CASE t.k \in {"object", "array", "xml"} -> SizeObject
    [] t.k = "string" -> SizeString
    [] OTHER -> SizeBasic

(***************************************************************************)
(* Fetching.  The values of a column are laid out in the bound buffer one  *)
(* behind the other; once one does not fit the rest goes to memory that is *)
(* freed at the end of the fetch, and the flag says so.  s = [off, len,    *)
(* err, pos]: the offset, the bytes asked for, the flag, the row position. *)
(***************************************************************************)
AllocSpace(s, cap, n) ==
  [s EXCEPT !.len = @ + n, !.err = @ \/ s.off + n > cap, !.off = @ + n]

(* fetch_result_complex for a value that is not NULL: [s, val]             *)
FetchScalar(t, cap, row, s) ==
  LET l == FieldLength(row, s.pos)
      text == SubSeq(row, l.next, l.next + l.len - 1)
      to(n, pos, v) == [s |-> [AllocSpace(s, cap, n) EXCEPT !.pos = pos], val |-> Leaf(v)]
  IN CASE t.k \in IntTypes ->
            to(IntWidth[t.k], s.pos + IntWidth[t.k], Signed(IntWidth[t.k], Number(row, s.pos, IntWidth[t.k])))
       [] t.k = "string" -> to(l.len + 1, l.next + l.len, text)
       [] t.k = "datetime" ->
            to(SizeTime, l.next + l.len,
               [ToDatetime(row, l.next, l.len, "datetime") EXCEPT !.type = "datetime"])
       [] t.k = "zoned" -> to(OracleTimeSize + l.len, l.next + l.len, text)
       [] t.k \in {"ds", "ym"} -> to(OracleTimeSize, l.next + l.len, text)

(* the bit of element i in the bitmap that begins at p: two are reserved   *)
ElementNull(row, p, i) == (row[p + (i + 1) \div 8] \div 2 ^ ((i + 1) % 8)) % 2 = 1

RECURSIVE FetchComplex(_, _, _, _)
(* fetch_result_object_complex and fetch_result_array_complex, whose       *)
(* headers are allocated together; an XML value has no bitmap              *)
FetchNode(t, cap, row, s) ==
  LET l == FieldLength(row, s.pos)
      n == CASE t.k = "object" -> Len(t.c) [] t.k = "array" -> l.len [] OTHER -> 1
      p == IF t.k = "array" THEN l.next ELSE s.pos
      child(i) == IF t.k = "object" THEN t.c[i] ELSE t.c[1]
      total[i \in 0..n] == IF i = 0 THEN 0 ELSE total[i - 1] + HeaderLength(child(i))
      begin == [AllocSpace(s, cap, total[n]) EXCEPT
                  !.pos = IF t.k = "xml" THEN p ELSE p + (n + 9) \div 8]
      step[i \in 0..n] ==
        IF i = 0 THEN [s |-> begin, vals |-> <<>>]
        ELSE LET q == step[i - 1]
                 f == FetchComplex(child(i), cap, row, q.s)
             IN IF t.k # "xml" /\ ElementNull(row, p, i)
                THEN [q EXCEPT !.vals = Append(@, NullValue)]
                ELSE [s |-> f.s, vals |-> Append(q.vals, f.val)]
  IN [s |-> step[n].s, val |-> Node(step[n].vals)]
FetchComplex(t, cap, row, s) ==
  IF Scalar(t) THEN FetchScalar(t, cap, row, s) ELSE FetchNode(t, cap, row, s)

(* ps_fetch_result_type and fetch_result_type_complex: the error flag is   *)
(* the bind's, as the last row left it                                     *)
FetchResultType(t, cap, row, pos, err) ==
  LET s == [off |-> 0, len |-> 0, err |-> err, pos |-> pos]
  IN FetchComplex(t, cap, row, AllocSpace(s, cap, SizeObject))

(* The server's encoding of a value in a row; first is the number of bits  *)
(* reserved in a bitmap                                                    *)
IsNull(v) == v.k = "null"
LeafBytes(t, v) ==
  CASE t.k = "zoned" -> LET b == StoreZoned(v) IN b
    [] OTHER -> StoreParam([type |-> t.k, v |-> v])
RECURSIVE EncodeComplex(_, _, _)
EncodeComplex(t, v, first) ==
  IF Scalar(t) THEN LeafBytes(t, v.v)
  ELSE LET n == Len(v.c)
           child(i) == IF t.k = "object" THEN t.c[i] ELSE t.c[1]
           nulls == NullBytes([i \in 1..n |-> IsNull(v.c[i])], first)
       IN (IF t.k = "array" THEN StoreLength(n) ELSE <<>>)
            \o (IF t.k = "xml" THEN <<>> ELSE nulls)
            \o FlattenSeq([i \in 1..n |-> IF IsNull(v.c[i]) THEN <<>>
                                          ELSE EncodeComplex(child(i), v.c[i], first)])

(* What the application should see, and the room it takes                  *)
RECURSIVE Seen(_, _)
Seen(t, v) ==
  IF IsNull(v) THEN v
  ELSE IF ~Scalar(t)
  THEN Node([i \in 1..Len(v.c) |-> Seen(IF t.k = "object" THEN t.c[i] ELSE t.c[1], v.c[i])])
  ELSE CASE t.k = "zoned" -> Leaf(ParamMeans([type |-> "zoned", v |-> v.v]))
         [] t.k = "datetime" -> Leaf([v.v EXCEPT !.type = "datetime"])
         [] OTHER -> v
RECURSIVE Room(_, _)
Room(t, v) ==
  IF IsNull(v) THEN 0
  ELSE IF ~Scalar(t)
  THEN LET child(i) == IF t.k = "object" THEN t.c[i] ELSE t.c[1]
           sum[i \in 0..Len(v.c)] ==
             IF i = 0 THEN 0 ELSE sum[i - 1] + HeaderLength(child(i)) + Room(child(i), v.c[i])
       IN sum[Len(v.c)]
  ELSE CASE t.k \in IntTypes -> IntWidth[t.k]
         [] t.k = "string" -> Len(v.v) + 1
         [] t.k = "datetime" -> SizeTime
         [] t.k = "zoned" -> OracleTimeSize + 16 + Len(v.v.name) + Len(v.v.abbr)
         [] OTHER -> OracleTimeSize

(***************************************************************************)
(* Parameters.  The headers of an element follow one another in memory;    *)
(* skip_param_complex steps over one, but stays at an interval.            *)
(***************************************************************************)
Stays(t) == t.k \in {"ds", "ym"}
Child(t, i) == IF t.k = "object" THEN t.c[i] ELSE t.c[1]
Element(t, v, i) == IF Stays(t.c[1]) THEN v.c[1] ELSE v.c[i]
(* an object is counted by walking its headers to the end                  *)
RECURSIVE Endless(_, _)
Endless(t, v) ==
  /\ ~Scalar(t) /\ ~IsNull(v)
  /\ \/ t.k = "object" /\ \E i \in 1..Len(t.c) : Stays(t.c[i])
     \/ \E i \in 1..Len(v.c) : Endless(Child(t, i), v.c[i])

(* store_param_object: plmax is the capacity of a PL/SQL array, sent with  *)
(* its length when both differ and the server understands it; -1 otherwise *)
PlArray(n, max) == <<LenLimit + 3>> \o Bytes(4, n) \o Bytes(4, max)
RECURSIVE StoreComplex(_, _, _)
StoreElements(t, v) ==
  LET n == Len(v.c)
  IN NullBytes([i \in 1..n |-> IsNull(Element(t, v, i))], 0)
       \o FlattenSeq([i \in 1..n |-> IF IsNull(Element(t, v, i)) THEN <<>>
                                     ELSE StoreComplex(Child(t, i), Element(t, v, i), -1)])
StoreComplex(t, v, plmax) ==
  IF Scalar(t)
  THEN StoreParam([type |-> t.k, v |-> IF t.k # "date" THEN v.v
                                       ELSE [v.v EXCEPT !.hour = 0, !.minute = 0, !.second = 0, !.part = 0]])
  ELSE (IF t.k = "object" THEN <<>>
        ELSE IF plmax \notin {-1, Len(v.c)} THEN PlArray(Len(v.c), plmax)
        ELSE StoreLength(Len(v.c))) \o StoreElements(t, v)

(* calculate_param_complex_len, calculate_param_plarray_len                *)
RECURSIVE ComplexLen(_, _)
LenElements(t, v) ==
  LET sum[i \in 0..Len(v.c)] ==
        IF i = 0 THEN (Len(v.c) + 7) \div 8
        ELSE sum[i - 1] + (IF IsNull(Element(t, v, i)) THEN 0 ELSE ComplexLen(Child(t, i), Element(t, v, i)))
  IN sum[Len(v.c)]
ComplexLen(t, v) ==
  CASE t.k = "object" -> LenElements(t, v)
    [] t.k = "array" -> Len(StoreLength(Len(v.c))) + LenElements(t, v)
    [] t.k \in IntTypes -> IntWidth[t.k]
    [] t.k = "datetime" -> BindLength.datetime
    [] t.k = "zoned" -> Foreseen([type |-> "zoned", v |-> v.v])
    [] t.k = "string" -> Len(v.v) + Len(StoreLength(Len(v.v)))
    [] OTHER -> 0
ParamLen(t, v, plmax) ==
  IF plmax \in {-1, Len(v.c)} THEN ComplexLen(t, v) ELSE 9 + LenElements(t, v)

(* The server's reading of a parameter of type t at p: [v, next]           *)
RECURSIVE ServerComplex(_, _, _)
ServerNode(t, buf, p) ==
  LET wide == t.k = "array" /\ buf[p] = LenLimit + 3
      l == FieldLength(buf, p)
      n == IF t.k = "object" THEN Len(t.c) ELSE IF wide THEN Number(buf, p + 1, 4) ELSE l.len
      q == IF t.k = "object" THEN p ELSE IF wide THEN p + 9 ELSE l.next
      null(i) == (buf[q + (i - 1) \div 8] \div 2 ^ ((i - 1) % 8)) % 2 = 1
      step[i \in 0..n] ==
        IF i = 0 THEN [vals |-> <<>>, next |-> q + (n + 7) \div 8]
        ELSE LET r == step[i - 1] 
                 x == ServerComplex(Child(t, i), buf, r.next)
             IN IF null(i) THEN [r EXCEPT !.vals = Append(@, NullValue)]
                ELSE [vals |-> Append(r.vals, x.v), next |-> x.next]
  IN [v |-> Node(step[n].vals), next |-> step[n].next]
ServerComplex(t, buf, p) ==
  IF ~Scalar(t) THEN ServerNode(t, buf, p)
  ELSE LET x == ServerValue(t.k, FALSE, buf, p)
       IN [v |-> Leaf(IF t.k = "datetime" THEN [x.v EXCEPT !.type = "datetime"] ELSE x.v), next |-> x.next]

(***************************************************************************)
(* One column fetched row by row into one buffer, and the same value sent  *)
(* back as a parameter                                                     *)
(***************************************************************************)
CONSTANTS ComplexPairs,   \* pairs of a type and a value of it
          ComplexCaps     \* sizes of the bound buffer, as a difference to the room needed
VARIABLES ctype, cvalue,  \* the column's type, the row's value
          ccap,           \* the size of the bound buffer
          cerr            \* *bind->error before and after the last fetch

ComplexInit == ctype = [k |-> "tiny"] /\ cvalue = Leaf(0) /\ ccap = 0 /\ cerr = <<FALSE, FALSE>>

RowTail == <<7, 7>>       \* the columns behind it
Fetched(t, v, cap, err) == FetchResultType(t, cap, EncodeComplex(t, v, 2) \o RowTail, 1, err)

BindComplex ==
  /\ Scalar(ctype)
  /\ \E pair \in ComplexPairs, d \in ComplexCaps :
       /\ ctype' = pair[1] /\ cvalue' = pair[2]
       /\ ccap' = SizeObject + Room(pair[1], pair[2]) + d
       /\ cerr' = <<FALSE, Fetched(pair[1], pair[2], ccap', FALSE).s.err>>
(* the next row of the column, with the flag as it is or cleared           *)
NextRow ==
  /\ ~Scalar(ctype)
  /\ \E pair \in ComplexPairs, e \in {FALSE, cerr[2]} :
       /\ pair[1] = ctype /\ cvalue' = pair[2]
       /\ cerr' = <<e, Fetched(ctype, pair[2], ccap, e).s.err>>
  /\ UNCHANGED <<ctype, ccap>>
ComplexNext == BindComplex \/ NextRow

(* Whatever the size of the bound buffer, the length reported for an object*)
(* is the room its whole tree takes, and the fetch ends at the next column.*)
ComplexSkipped ==
  ~Scalar(ctype) =>
    LET f == Fetched(ctype, cvalue, ccap, cerr[1])
    IN /\ f.s.len = SizeObject + Room(ctype, cvalue)
       /\ f.s.pos = Len(EncodeComplex(ctype, cvalue, 2)) + 1

(* When the tree fits the buffer and the flag was clear, the flag stays    *)
(* clear and the application sees the server's value, NULLs included; when *)
(* it does not fit the flag is set (fetch_result_complex_alloc_space).     *)
ComplexWhole ==
  ~Scalar(ctype) =>
    LET f == Fetched(ctype, cvalue, ccap, cerr[1])
        fits == SizeObject + Room(ctype, cvalue) <= ccap
    IN /\ f.s.err = (~fits \/ cerr[1])
       /\ ~f.s.err => f.val = Seen(ctype, cvalue)

NoInterval(t) == ~Stays(t) /\ (Scalar(t) \/ \A i \in 1..Len(t.c) : ~Stays(t.c[i]) /\
                               (Scalar(t.c[i]) \/ \A j \in 1..Len(t.c[i].c) : ~Stays(t.c[i].c[j])))
AsParam == ~Scalar(ctype) /\ ctype.k # "xml" /\ NoInterval(ctype)
Capacities == {-1, Len(cvalue.c), Len(cvalue.c) + 3}

(* The server reads from a parameter of an object or array type the tree   *)
(* that was bound (store_param_object); intervals are left out.            *)
ComplexSent ==
  AsParam => \A max \in Capacities :
    LET b == StoreComplex(ctype, cvalue, IF ctype.k = "array" THEN max ELSE -1)
    IN ~Endless(ctype, cvalue)
       /\ ServerComplex(ctype, b \o RowTail, 1) = [v |-> Seen(ctype, cvalue), next |-> Len(b) + 1]

(* The length counted beforehand covers what is written.                   *)
ComplexForeseen ==
  AsParam => \A max \in Capacities :
    LET m == IF ctype.k = "array" THEN max ELSE -1
    IN Len(StoreComplex(ctype, cvalue, m)) <= ParamLen(ctype, cvalue, m)
=============================================================================
