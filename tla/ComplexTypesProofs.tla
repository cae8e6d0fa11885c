------------------------- MODULE ComplexTypesProofs -------------------------
(* The types that threads share are sound for any number of threads, keys    *)
(* and types, as long as the types do not change on the server.              *)
EXTENDS ComplexTypes, TLAPS

(* The server describes each type always in the same way.                    *)
SteadyTypes == \E kind, width : Steady(kind, width)

sig == CHOOSE s : Steady(s[1], s[2])
kind == sig[1]
width == sig[2]

IsObject(n) == kind[n] = "object"

(* A record of the table.  What an object has counted is set in child, and   *)
(* its array has been made for all of its attributes.                        *)
Tables == UNION {[S -> TypeRecords] : S \in SUBSET Names}
KnownIn(types) == DOMAIN types \cup {"scalar"}
FilledObject(type, n, known) ==
  /\ type.attr_no <= width[n]
  /\ \/ type.child = <<>> /\ type.init_attr_no = 0
     \/ /\ DOMAIN type.child = 1..width[n] /\ type.child # <<>> /\ type.init_attr_no > 0
        /\ \A i \in 1..width[n] : i <= type.init_attr_no => type.child[i] \in known
Filled(type, n, known) ==
  /\ type.kind = kind[n]
  /\ type.kind = "object" => FilledObject(type, n, known)
  /\ type.kind # "object" => \A i \in DOMAIN type.child : type.child[i] \in known

(* A record from which nothing is missing, and stays so.                     *)
Done(type, n) ==
  /\ type.kind # "xmltype" => type.child # <<>>
  /\ type.kind = "object" => type.init_attr_no >= width[n]

SoundTable(types) ==
  /\ DOMAIN types \subseteq Names /\ types \in [DOMAIN types -> TypeRecords]
  /\ \A n \in DOMAIN types :
       Filled(types[n], n, KnownIn(types)) /\ (types[n].is_valid => Done(types[n], n))

(* No object is half described.                                              *)
Whole(type, n) == type.init_attr_no = 0 \/ type.init_attr_no >= width[n]
Settled(types) == \A n \in DOMAIN types : IsObject(n) => Whole(types[n], n)

(* The object whose attribute the next row gives has seen the attributes     *)
(* before it; every other is not half described.                             *)
AtRow(types, d, i) ==
  \A n \in DOMAIN types : IsObject(n) =>
    IF i <= Len(d) /\ AttrOf(d[i], n, kind)
      THEN types[n].init_attr_no = d[i].attr_no - 1 \/ types[n].init_attr_no >= width[n]
      ELSE Whole(types[n], n)

(* What the first pass has done with the rows before the i-th: the types     *)
(* they name are known, and an object whose last attribute was seen after    *)
(* the last mention of it has been counted.                                  *)
Declared(types, d, i) ==
  \A j \in 1..(i - 1) :
    /\ d[j].kind # "scalar" => d[j].child \in DOMAIN types
    /\ ~d[j].top => d[j].parent \in DOMAIN types
Counted(types, d, i) ==
  \A n \in DOMAIN types : \A j \in 1..(i - 1) :
    /\ AttrOf(d[j], n, kind) /\ d[j].attr_no = width[n]
    /\ \A k \in (j + 1)..(i - 1) : d[k].kind = "scalar" \/ d[k].child # n
    => types[n].attr_no = width[n]
CountedAll(types, d) ==
  \A n \in DOMAIN types : \A j \in 1..Len(d) : AttrOf(d[j], n, kind) => types[n].attr_no = width[n]

Rows(d) == d \in Seq(RowType) /\ SteadyRows(d, kind, width)
FirstPass(types, d, i) ==
  Rows(d) /\ i \in 1..(Len(d) + 1) /\ Declared(types, d, i) /\ Counted(types, d, i)
SecondPass(types, d, i) ==
  /\ Rows(d) /\ i \in 1..(Len(d) + 1) /\ Declared(types, d, Len(d) + 1)
  /\ CountedAll(types, d) /\ AtRow(types, d, i)

EntryRecords ==
  [key : {KeyOf[t] : t \in Threads}, writer : Threads \cup {NoThread}, types : Tables]
HasEntry == {"tsearch", "check", "query", "parse", "pass1", "pass2", "again"}
Parsing == {"pass1", "pass2"}
Early == {"ginit", "hashinit", "gsearch", "gmake"}

CacheType ==
  /\ entries \in Seq(EntryRecords)
  /\ pc \in [Threads -> PCs]
  /\ ent \in [Threads -> Nat]
  /\ ptr \in [Threads -> BOOLEAN]
  /\ at \in [Threads -> Nat]
  /\ rows = [t \in Threads |-> rows[t]]
  /\ req = [t \in Threads |-> req[t]]
  /\ held = [t \in Threads |-> held[t]]

(* Where thread t is.                                                        *)
ThreadInv(t) ==
  /\ pc[t] \in HasEntry => ent[t] \in DOMAIN entries
  /\ ptr[t] => ent[t] \in DOMAIN entries /\ req[t].name \in DOMAIN Table(t)
  /\ pc[t] \in Early => ~ptr[t]
  /\ pc[t] # "idle" => req[t].name \in DOMAIN Descriptions
  /\ pc[t] \in {"parse"} \cup Parsing => Rows(rows[t])
  /\ pc[t] \in Parsing => entries[ent[t]].writer = t
  /\ pc[t] = "pass1" => FirstPass(Table(t), rows[t], at[t])
  /\ pc[t] = "pass2" => SecondPass(Table(t), rows[t], at[t])
  /\ held[t] # None =>
       /\ held[t].ent \in DOMAIN entries /\ held[t].name \in DOMAIN entries[held[t].ent].types
       /\ Done(entries[held[t].ent].types[held[t].name], held[t].name)

EntryInv(e) ==
  /\ SoundTable(entries[e].types)
  /\ \/ Settled(entries[e].types)
     \/ \E t \in Threads : pc[t] = "pass2" /\ ent[t] = e

CacheInv ==
  /\ CacheType /\ ~overrun
  /\ \A t \in Threads : ThreadInv(t)
  /\ \A e \in DOMAIN entries : EntryInv(e)

---------------------------------------------------------------------------
(* The operators of the parser.                                              *)

LEMMA SigSteady ==
  ASSUME SteadyTypes
  PROVE  Steady(kind, width)
<1>1. PICK k, w : Steady(k, w)
  BY Zenon DEF SteadyTypes
<1>2. Steady(<<k, w>>[1], <<k, w>>[2])
  BY <1>1, Zenon
<1>3. \E s : Steady(s[1], s[2])
  BY <1>2, Zenon
<1> QED
  BY <1>3, Zenon DEF sig, kind, width

(* Nothing is lost from a table, and what is done stays done.                *)
Grows(types, new) ==
  /\ DOMAIN types \subseteq DOMAIN new
  /\ \A n \in DOMAIN types : Done(types[n], n) => Done(new[n], n)

(* The record of n is replaced by type.                                      *)
Replaces(types, n, type, new) ==
  /\ DOMAIN new = DOMAIN types \cup {n}
  /\ new[n] = type
  /\ \A m \in DOMAIN types : m # n => new[m] = types[m]
  /\ new \in [DOMAIN new -> TypeRecords]

LEMMA ReplacedSound ==
  ASSUME NEW types, NEW n \in Names, NEW type \in TypeRecords, NEW new,
         SoundTable(types), Replaces(types, n, type, new),
         Filled(type, n, KnownIn(new)),
         type.is_valid => Done(type, n),
         n \in DOMAIN types /\ Done(types[n], n) => Done(type, n)
  PROVE  SoundTable(new) /\ Grows(types, new)
<1>1. DOMAIN types \subseteq DOMAIN new /\ DOMAIN new \subseteq Names
  BY Zenon DEF SoundTable, Replaces
<1>2. Grows(types, new)
  BY <1>1, Zenon DEF Replaces, Grows
<1>3. ASSUME NEW m \in DOMAIN new
      PROVE  Filled(new[m], m, KnownIn(new)) /\ (new[m].is_valid => Done(new[m], m))
  <2>1. CASE m = n
    BY <2>1, Zenon DEF Replaces
  <2>2. CASE m # n
    <3>1. m \in DOMAIN types /\ new[m] = types[m]
      BY <2>2, Zenon DEF Replaces
    <3>2. Filled(types[m], m, KnownIn(types)) /\ (types[m].is_valid => Done(types[m], m))
      BY <3>1, Zenon DEF SoundTable
    <3>3. KnownIn(types) \subseteq KnownIn(new)
      BY <1>1, Zenon DEF KnownIn
    <3>4. Filled(types[m], m, KnownIn(new))
      BY <3>2, <3>3, Zenon DEF Filled, FilledObject
    <3> QED
      BY <3>1, <3>2, <3>4, Zenon
  <2> QED
    BY <2>1, <2>2, Zenon
<1> QED
  BY <1>1, <1>2, <1>3, Zenon DEF SoundTable, Replaces

(* A type that a row names starts again.                                     *)
Restarted(type) == [type EXCEPT !.attr_no = 0, !.is_valid = type.kind = "xmltype"]
NewType(k) ==
  [kind |-> k, attr_no |-> 0, init_attr_no |-> 0, child |-> <<>>, is_valid |-> FALSE]

LEMMA RestartedRecord ==
  ASSUME NEW type \in TypeRecords
  PROVE  /\ Restarted(type) \in TypeRecords
         /\ Restarted(type).kind = type.kind
         /\ Restarted(type).attr_no = 0
         /\ Restarted(type).init_attr_no = type.init_attr_no
         /\ Restarted(type).child = type.child
         /\ Restarted(type).is_valid <=> type.kind = "xmltype"
BY Zenon DEF Restarted, TypeRecords, Complex

LEMMA NewRecord ==
  ASSUME NEW k \in Complex
  PROVE  /\ NewType(k) \in TypeRecords
         /\ NewType(k).kind = k /\ NewType(k).attr_no = 0 /\ NewType(k).init_attr_no = 0
         /\ NewType(k).child = <<>> /\ ~NewType(k).is_valid
BY DEF NewType, TypeRecords, Complex

RowSteady(row) ==
  /\ row \in RowType
  /\ IF row.kind = "scalar" THEN row.child = "scalar"
     ELSE row.child \in Names /\ kind[row.child] = row.kind
  /\ ~row.top => row.parent \in Names
  /\ \A n \in Names : AttrOf(row, n, kind) => row.attr_no \in 1..width[n]

LEMMA DeclareSound ==
  ASSUME Steady(kind, width), NEW types, NEW row, SoundTable(types), RowSteady(row)
  PROVE  LET new == Declare(types, row) IN
         /\ SoundTable(new) /\ Grows(types, new)
         /\ Settled(types) => Settled(new)
         /\ row.kind # "scalar" => row.child \in DOMAIN new
         /\ \A n \in DOMAIN new : row.kind = "scalar" \/ row.child # n =>
              n \in DOMAIN types /\ new[n] = types[n]
<1> DEFINE new == Declare(types, row)
           n == row.child
           type == IF n \in DOMAIN types THEN types[n] ELSE NewType(row.kind)
<1>1. CASE row.kind = "scalar"
  BY <1>1, Zenon DEF Declare, Grows
<1>2. CASE row.kind # "scalar"
  <2>1. n \in Names /\ kind[n] = row.kind /\ row.kind \in Complex /\ width[n] \in Nat
    BY <1>2, Zenon DEF RowSteady, RowType, Kinds, Complex, Steady
  <2>2. new = Put(types, n, Restarted(type))
    BY <1>2, Zenon DEF Declare, Restarted, NewType
  <2>3. type \in TypeRecords
    BY <2>1, NewRecord, Zenon DEF SoundTable
  <2>4. Replaces(types, n, Restarted(type), new)
    BY <2>2, <2>3, RestartedRecord DEF Put, Replaces, SoundTable
  <2>5. Filled(type, n, KnownIn(new))
    <3>1. CASE n \in DOMAIN types
      <4>1. Filled(types[n], n, KnownIn(types))
        BY <3>1, Zenon DEF SoundTable
      <4>2. KnownIn(types) \subseteq KnownIn(new)
        BY <2>4, Zenon DEF Replaces, KnownIn
      <4> QED
        BY <3>1, <4>1, <4>2, Zenon DEF Filled, FilledObject
    <3>2. CASE n \notin DOMAIN types
      BY <3>2, <2>1, NewRecord DEF Filled, FilledObject
    <3> QED
      BY <3>1, <3>2, Zenon
  <2>6. Filled(Restarted(type), n, KnownIn(new))
    BY <2>1, <2>3, <2>5, RestartedRecord DEF Filled, FilledObject
  <2>7. Restarted(type).is_valid => Done(Restarted(type), n)
    BY <2>3, RestartedRecord, Zenon DEF Done
  <2>8. n \in DOMAIN types /\ Done(types[n], n) => Done(Restarted(type), n)
    BY <2>3, RestartedRecord, Zenon DEF Done
  <2>9. SoundTable(new) /\ Grows(types, new)
    <3> HIDE DEF new, type, n
    <3>1. Restarted(type) \in TypeRecords
      BY <2>3, RestartedRecord, Zenon
    <3> QED
      BY <2>1, <2>4, <2>6, <2>7, <2>8, <3>1, ReplacedSound, Zenon
  <2>10. Settled(types) => Settled(new)
    <3>1. Whole(NewType(row.kind), n)
      BY <2>1, NewRecord, Zenon DEF Whole
    <3>2. Settled(types) /\ IsObject(n) => Whole(type, n)
      BY <3>1, Zenon DEF Settled
    <3>3. Settled(types) /\ IsObject(n) => Whole(Restarted(type), n)
      BY <2>3, <3>2, RestartedRecord, Zenon DEF Whole
    <3> QED
      BY <2>4, <3>3, Zenon DEF Settled, Replaces
  <2> QED
    BY <1>2, <2>4, <2>9, <2>10, Zenon DEF Replaces
<1> QED
  BY <1>1, <1>2, Zenon

LEMMA CountedRecord ==
  ASSUME NEW type \in TypeRecords, NEW k \in Nat
  PROVE  LET new == [type EXCEPT !.attr_no = k] IN
         /\ new \in TypeRecords /\ new.kind = type.kind /\ new.attr_no = k
         /\ new.init_attr_no = type.init_attr_no /\ new.child = type.child
         /\ new.is_valid = type.is_valid
BY Zenon DEF TypeRecords

(* What counting a row's attribute leaves: a sound table that lost nothing,   *)
(* in which an object whose last attribute was seen is counted in full.       *)
AttrCounted(types, row, new) ==
  /\ SoundTable(new) /\ Grows(types, new)
  /\ Settled(types) => Settled(new)
  /\ DOMAIN new = DOMAIN types
  /\ \A n \in DOMAIN types :
       IF AttrOf(row, n, kind) /\ row.attr_no = width[n] THEN new[n].attr_no = width[n]
       ELSE types[n].attr_no = width[n] => new[n].attr_no = width[n]

LEMMA CountAttrSound ==
  ASSUME Steady(kind, width), NEW types, NEW row, SoundTable(types), RowSteady(row),
         ~row.top => row.parent \in DOMAIN types
  PROVE  AttrCounted(types, row, CountAttr(types, row))
<1> USE DEF AttrCounted
<1> DEFINE n == row.parent
           new == CountAttr(types, row)
           type == [types[n] EXCEPT !.attr_no = row.attr_no]
<1>1. \A m \in DOMAIN types :
        /\ types[m] \in TypeRecords /\ types[m].kind = kind[m] /\ m \in Names /\ width[m] \in Nat
        /\ kind[m] = "object" => types[m].attr_no <= width[m]
  BY Zenon DEF SoundTable, Filled, FilledObject, Steady
<1>2. CASE new = types
  <2>1. \A m \in DOMAIN types :
          AttrOf(row, m, kind) /\ row.attr_no = width[m] => types[m].attr_no = width[m]
    <3> SUFFICES ASSUME NEW m \in DOMAIN types, AttrOf(row, m, kind), row.attr_no = width[m]
                 PROVE  types[m].attr_no = width[m]
      BY Zenon
    <3>1. m = n /\ ~row.top /\ types[m].kind = "object"
      BY <1>1, Zenon DEF AttrOf
    <3>2. types[m].attr_no \in Nat /\ row.attr_no \in Nat
      BY <1>1, Zenon DEF TypeRecords
    <3>3. ~(types[n].attr_no < row.attr_no)
      <4> SUFFICES ASSUME types[n].attr_no < row.attr_no
                   PROVE  FALSE
        BY Zenon
      <4>1. new = [types EXCEPT ![n].attr_no = row.attr_no]
        BY <3>1, Zenon DEF CountAttr
      <4>2. new[n].attr_no = row.attr_no
        BY <4>1, <1>1, <3>1, Zenon DEF SoundTable, TypeRecords
      <4> QED
        BY <4>2, <1>2, <3>2, <3>1
    <3> QED
      BY <1>1, <3>1, <3>2, <3>3 DEF AttrOf
  <2> QED
    BY <1>2, <2>1, Zenon DEF Grows
<1>3. CASE new # types
  <2>1. /\ ~row.top /\ n \in DOMAIN types /\ types[n].kind = "object"
        /\ types[n].attr_no < row.attr_no
        /\ new = [types EXCEPT ![n].attr_no = row.attr_no]
    BY <1>3, Zenon DEF CountAttr
  <2>2. n \in Names /\ kind[n] = "object" /\ AttrOf(row, n, kind) /\ row.attr_no \in 1..width[n]
    BY <2>1, <1>1, Zenon DEF RowSteady, AttrOf
  <2>3. /\ type \in TypeRecords /\ type.kind = types[n].kind /\ type.attr_no = row.attr_no
        /\ type.init_attr_no = types[n].init_attr_no /\ type.child = types[n].child
        /\ type.is_valid = types[n].is_valid
    <3>1. row.attr_no \in Nat /\ types[n] \in TypeRecords
      BY <1>1, <2>1, <2>2
    <3> QED
      BY <3>1, CountedRecord, Zenon
  <2>4. Replaces(types, n, type, new)
    BY <2>1, <2>3, Zenon DEF Replaces, SoundTable
  <2>5. Filled(types[n], n, KnownIn(types)) /\ (types[n].is_valid => Done(types[n], n))
    BY <2>1, Zenon DEF SoundTable
  <2>6. KnownIn(new) = KnownIn(types)
    BY <2>1, <2>4, Zenon DEF Replaces, KnownIn
  <2>7. Filled(type, n, KnownIn(new))
    BY <2>2, <2>3, <2>5, <2>6, <1>1 DEF Filled, FilledObject
  <2>8. Done(types[n], n) => Done(type, n)
    BY <2>3, Zenon DEF Done
  <2>9. SoundTable(new) /\ Grows(types, new)
    <3> HIDE DEF new, type, n
    <3> QED
      BY <2>2, <2>3, <2>4, <2>5, <2>7, <2>8, ReplacedSound, Zenon
  <2>10. Settled(types) => Settled(new)
    BY <2>1, <2>3, <2>4, ZenonT(20) DEF Settled, Replaces, Whole
  <2>11. DOMAIN new = DOMAIN types
    BY <2>1, <2>4, Zenon DEF Replaces
  <2>12. ASSUME NEW m \in DOMAIN types
         PROVE IF AttrOf(row, m, kind) /\ row.attr_no = width[m] THEN new[m].attr_no = width[m]
               ELSE types[m].attr_no = width[m] => new[m].attr_no = width[m]
    <3>1. CASE m = n
      BY <3>1, <1>1, <2>1, <2>2, <2>3, <2>4 DEF Replaces, TypeRecords
    <3>2. CASE m # n
      BY <3>2, <2>4, Zenon DEF Replaces, AttrOf
    <3> QED
      BY <3>1, <3>2, Zenon
  <2> QED
    BY <2>9, <2>10, <2>11, <2>12, Zenon
<1> QED
  BY <1>2, <1>3, Zenon

(* An object's attribute is written: the array is there, or is made for all  *)
(* of the attributes.                                                        *)
LEMMA FillObjectRecord ==
  ASSUME NEW type \in TypeRecords, NEW row \in RowType
  PROVE  LET child == IF type.child = <<>> THEN [i \in 1..type.attr_no |-> Unset] ELSE type.child
             new == FillObject(type, row)
         IN /\ new \in TypeRecords
            /\ new.kind = type.kind /\ new.attr_no = type.attr_no
            /\ new.init_attr_no = type.init_attr_no + 1
            /\ new.child = [i \in DOMAIN child |-> IF i = row.attr_no THEN row.child ELSE child[i]]
            /\ new.is_valid => type.is_valid \/ type.init_attr_no + 1 = type.attr_no
<1> DEFINE child == IF type.child = <<>> THEN [i \in 1..type.attr_no |-> Unset] ELSE type.child
           filled == [i \in DOMAIN child |-> IF i = row.attr_no THEN row.child ELSE child[i]]
           valid == type.is_valid \/ type.init_attr_no + 1 = type.attr_no
           Elts == Names \cup {"scalar", Unset}
<1>1. type = [kind |-> type.kind, is_valid |-> type.is_valid, attr_no |-> type.attr_no,
              init_attr_no |-> type.init_attr_no, child |-> type.child]
      /\ type.kind \in Complex /\ type.is_valid \in BOOLEAN /\ type.attr_no \in Nat
      /\ type.init_attr_no \in Nat /\ type.child \in Seq(Elts)
  BY Zenon DEF TypeRecords
<1>2. filled \in Seq(Elts)
  <2>1. CASE type.child = <<>>
    <3>1. child = [i \in 1..type.attr_no |-> Unset]
      BY <2>1, Zenon
    <3>2. filled = [i \in 1..type.attr_no |-> IF i = row.attr_no THEN row.child ELSE Unset]
      BY <3>1, Zenon
    <3>3. row.child \in Elts /\ Unset \in Elts
      BY Zenon DEF RowType
    <3> HIDE DEF filled, Elts
    <3> QED
      BY <1>1, <3>2, <3>3
  <2>2. CASE type.child # <<>>
    <3>1. DOMAIN type.child = 1..Len(type.child) /\ Len(type.child) \in Nat
      BY <1>1
    <3>2. filled = [i \in 1..Len(type.child) |-> IF i = row.attr_no THEN row.child ELSE type.child[i]]
      BY <2>2, <3>1, Zenon
    <3>3. \A i \in 1..Len(type.child) : type.child[i] \in Elts
      BY <1>1
    <3> QED
      BY <3>1, <3>2, <3>3 DEF RowType
  <2> QED
    BY <2>1, <2>2, Zenon
<1>3. FillObject(type, row) =
        [kind |-> type.kind, is_valid |-> valid, attr_no |-> type.attr_no,
         init_attr_no |-> type.init_attr_no + 1, child |-> filled]
  <2>1. FillObject(type, row) =
          [type EXCEPT !.child = filled, !.init_attr_no = type.init_attr_no + 1, !.is_valid = valid]
    BY <1>1, Zenon DEF FillObject
  <2> HIDE DEF filled, valid
  <2> QED
    BY <1>1, <2>1, Zenon
<1>4. valid \in BOOLEAN
  BY <1>1, Zenon
<1> HIDE DEF filled, valid
<1>5. FillObject(type, row) \in TypeRecords
  BY <1>1, <1>2, <1>3, <1>4 DEF TypeRecords
<1>6. /\ FillObject(type, row).kind = type.kind /\ FillObject(type, row).attr_no = type.attr_no
      /\ FillObject(type, row).init_attr_no = type.init_attr_no + 1
      /\ FillObject(type, row).child = filled /\ FillObject(type, row).is_valid = valid
  BY <1>3
<1> QED
  BY <1>5, <1>6, Zenon DEF filled, valid

LEMMA RowOf ==
  ASSUME NEW d, Rows(d), NEW i \in 1..Len(d)
  PROVE  RowSteady(d[i])
BY DEF Rows, RowSteady, SteadyRows

(* The second pass goes on to the next row.                                  *)
SeesRow(types, new, row) ==
  /\ DOMAIN new = DOMAIN types
  /\ \A n \in DOMAIN types : IsObject(n) =>
       new[n].init_attr_no = types[n].init_attr_no + (IF AttrOf(row, n, kind) THEN 1 ELSE 0)

LEMMA AtNextRow ==
  ASSUME Steady(kind, width), NEW types, NEW new, NEW d, NEW i \in 1..Len(d),
         SoundTable(types), Rows(d), AtRow(types, d, i), SeesRow(types, new, d[i])
  PROVE  AtRow(new, d, i + 1)
<1> DEFINE After(n) ==
      IF i + 1 <= Len(d) /\ AttrOf(d[i + 1], n, kind)
        THEN new[n].init_attr_no = d[i + 1].attr_no - 1 \/ new[n].init_attr_no >= width[n]
        ELSE Whole(new[n], n)
<1> SUFFICES ASSUME NEW n \in DOMAIN types, IsObject(n)
             PROVE  After(n)
  BY Zenon DEF AtRow, SeesRow
<1>1. /\ n \in Names /\ width[n] \in Nat /\ types[n].init_attr_no \in Nat
      /\ Len(d) \in Nat /\ \A j \in 1..Len(d) : d[j].attr_no \in Nat
  <2>1. n \in Names /\ types[n] \in TypeRecords /\ width[n] \in Nat
    BY Zenon DEF SoundTable, Steady
  <2>2. Len(d) \in Nat /\ \A j \in 1..Len(d) : d[j] \in RowType
    BY DEF Rows
  <2> QED
    BY <2>1, <2>2, Zenon DEF TypeRecords, RowType
<1>2. CASE AttrOf(d[i], n, kind)
  <2>1. d[i].attr_no \in 1..width[n]
    BY <1>1, <1>2, Zenon DEF Rows, SteadyRows
  <2>2. new[n].init_attr_no = types[n].init_attr_no + 1
    BY <1>2, Zenon DEF SeesRow
  <2>3. types[n].init_attr_no = d[i].attr_no - 1 \/ types[n].init_attr_no >= width[n]
    BY <1>1, <1>2 DEF AtRow
  <2>4. CASE new[n].init_attr_no >= width[n]
    BY <2>4, Zenon DEF Whole
  <2>5. CASE ~(new[n].init_attr_no >= width[n])
    <3>1. new[n].init_attr_no = d[i].attr_no /\ d[i].attr_no < width[n]
      BY <1>1, <2>1, <2>2, <2>3, <2>5
    <3>2. i < Len(d) /\ AttrOf(d[i + 1], n, kind) /\ d[i + 1].attr_no = d[i].attr_no + 1
      BY <1>1, <1>2, <3>1, Zenon DEF Rows, SteadyRows
    <3> QED
      BY <1>1, <3>1, <3>2
  <2> QED
    BY <2>4, <2>5, Zenon
<1>3. CASE ~AttrOf(d[i], n, kind)
  <2>1. new[n].init_attr_no = types[n].init_attr_no
    BY <1>1, <1>3 DEF SeesRow
  <2>2. Whole(new[n], n)
    BY <1>1, <1>3, <2>1, Zenon DEF AtRow, Whole
  <2>3. CASE i + 1 <= Len(d) /\ AttrOf(d[i + 1], n, kind)
    <3>1. d[i + 1].attr_no \in 1..width[n] /\ ~(d[i + 1].attr_no > 1)
      <4>1. i + 1 \in 1..Len(d) /\ (i + 1) - 1 = i
        BY <1>1, <2>3
      <4> QED
        BY <4>1, <1>1, <1>3, <2>3, Zenon DEF Rows, SteadyRows
    <3> QED
      BY <2>2, <2>3, <3>1, <1>1 DEF Whole
  <2> QED
    BY <2>2, <2>3, Zenon
<1> QED
  BY <1>2, <1>3, Zenon

LEMMA FilledObjectSound ==
  ASSUME Steady(kind, width), NEW types, NEW d, NEW i \in 1..Len(d),
         SoundTable(types), SecondPass(types, d, i), ~d[i].top,
         types[d[i].parent].kind = "object"
  PROVE  LET p == d[i].parent
             type == FillObject(types[p], d[i])
         IN /\ type \in TypeRecords /\ Filled(type, p, KnownIn(types))
            /\ type.is_valid => Done(type, p)
            /\ Done(types[p], p) => Done(type, p)
            /\ type.init_attr_no = types[p].init_attr_no + 1
            /\ type.attr_no = types[p].attr_no
            /\ d[i].attr_no \in DOMAIN type.child
<1> DEFINE p == d[i].parent
           old == types[p]
           a == d[i].attr_no
           known == KnownIn(types)
           child == IF old.child = <<>> THEN [k \in 1..old.attr_no |-> Unset] ELSE old.child
           filled == [k \in DOMAIN child |-> IF k = a THEN d[i].child ELSE child[k]]
           type == FillObject(old, d[i])
<1>1. RowSteady(d[i]) /\ Len(d) \in Nat
  BY RowOf DEF SecondPass, Rows
<1>2. p \in DOMAIN types /\ d[i].child \in known
  <2>1. i \in 1..((Len(d) + 1) - 1)
    BY <1>1
  <2> QED
    BY <1>1, <2>1, Zenon DEF SecondPass, Declared, KnownIn, RowSteady
<1>3. /\ old \in TypeRecords /\ Filled(old, p, known) /\ (old.is_valid => Done(old, p))
      /\ p \in Names /\ width[p] \in Nat
  BY <1>2, Zenon DEF SoundTable, Steady
<1>4. IsObject(p) /\ AttrOf(d[i], p, kind)
  BY <1>3, Zenon DEF Filled, IsObject, AttrOf
<1>5. a \in 1..width[p] /\ old.attr_no = width[p] /\ old.init_attr_no \in Nat
  BY <1>1, <1>2, <1>3, <1>4, Zenon DEF RowSteady, SecondPass, CountedAll, TypeRecords
<1>6. old.init_attr_no = a - 1 \/ old.init_attr_no >= width[p]
  BY <1>1, <1>2, <1>4 DEF SecondPass, AtRow
<1>7. FilledObject(old, p, known)
  BY <1>3, Zenon DEF Filled
<1>8. /\ type \in TypeRecords /\ type.kind = old.kind /\ type.attr_no = old.attr_no
      /\ type.init_attr_no = old.init_attr_no + 1 /\ type.child = filled
      /\ type.is_valid => old.is_valid \/ old.init_attr_no + 1 = old.attr_no
  BY <1>1, <1>3, FillObjectRecord, Zenon DEF RowSteady
<1> HIDE DEF p, old, a, known, type
<1>9. DOMAIN child = 1..width[p]
  BY <1>5, <1>7, Zenon DEF FilledObject
<1>10. DOMAIN filled = 1..width[p] /\ filled # <<>>
  <2>1. DOMAIN filled = 1..width[p]
    BY <1>9, Zenon
  <2> HIDE DEF filled
  <2>2. a \in DOMAIN filled
    BY <1>5, <2>1, Zenon
  <2>3. filled # <<>>
    BY <2>2
  <2> QED
    BY <2>1, <2>3, Zenon
<1>11. ASSUME NEW k \in 1..width[p], k <= old.init_attr_no + 1
       PROVE  filled[k] \in known
  <2>1. CASE k = a
    BY <2>1, <1>2, <1>9, Zenon
  <2>2. CASE k # a
    <3>1. k <= old.init_attr_no
      <4>1. PICK w \in Nat : w = width[p]
        BY <1>3, Zenon
      <4>2. PICK c \in Nat : c = old.init_attr_no
        BY <1>5, Zenon
      <4>3. k \in 1..w /\ a \in 1..w /\ k <= c + 1 /\ (c = a - 1 \/ c >= w)
        BY <1>5, <1>6, <1>11, <4>1, <4>2, Zenon
      <4>4. k <= c
        BY <2>2, <4>3
      <4> QED
        BY <4>2, <4>4, Zenon
    <3>2. old.init_attr_no # 0
      BY <3>1
    <3>3. old.child # <<>> /\ old.child[k] \in known
      BY <1>7, <3>1, <3>2, Zenon DEF FilledObject
    <3> QED
      BY <1>9, <2>2, <3>3, Zenon
  <2> QED
    BY <2>1, <2>2, Zenon
<1> HIDE DEF filled, child
<1>12. FilledObject(type, p, known)
  <2>1. type.attr_no <= width[p] /\ type.init_attr_no > 0
    BY <1>3, <1>5, <1>8
  <2>2. DOMAIN type.child = 1..width[p] /\ type.child # <<>>
    BY <1>8, <1>10, Zenon
  <2>3. \A k \in 1..width[p] : k <= type.init_attr_no => type.child[k] \in known
    BY <1>8, <1>11, Zenon
  <2> QED
    BY <2>1, <2>2, <2>3, Zenon DEF FilledObject
<1>13. Filled(type, p, known)
  <2>1. type.kind = kind[p]
    BY <1>3, <1>8, Zenon DEF Filled
  <2>2. type.kind = "object"
    BY <1>8, Zenon DEF old, p
  <2> QED
    BY <1>12, <2>1, <2>2, Zenon DEF Filled
<1>14. type.is_valid \/ Done(old, p) => Done(type, p)
  <2>1. type.child # <<>>
    BY <1>8, <1>10, Zenon
  <2>2. old.kind = "object"
    BY Zenon DEF old, p
  <2>3. type.is_valid \/ Done(old, p) => old.init_attr_no >= width[p] \/ old.init_attr_no + 1 = width[p]
    BY <1>3, <1>5, <1>8, <2>2, Zenon DEF Done
  <2>4. type.is_valid \/ Done(old, p) => type.init_attr_no >= width[p]
    BY <1>3, <1>5, <1>8, <2>3
  <2> QED
    BY <2>1, <2>4, Zenon DEF Done
<1>15. a \in DOMAIN type.child
  BY <1>5, <1>8, <1>10, Zenon
<1> QED
  BY <1>8, <1>13, <1>14, <1>15, Zenon DEF type, known, p, old, a

LEMMA CollectionRecord ==
  ASSUME NEW type \in TypeRecords, NEW c \in Names \cup {"scalar"}
  PROVE  LET new == [type EXCEPT !.child = <<c>>, !.is_valid = TRUE] IN
         /\ new \in TypeRecords /\ new.kind = type.kind /\ new.child = <<c>>
         /\ new.attr_no = type.attr_no
<1>1. <<c>> \in Seq(Names \cup {"scalar", Unset})
  OBVIOUS
<1>2. PICK s : s = <<c>>
  BY Zenon
<1>3. LET new == [type EXCEPT !.child = s, !.is_valid = TRUE] IN
      /\ new \in TypeRecords /\ new.kind = type.kind /\ new.child = s
      /\ new.attr_no = type.attr_no
  BY <1>1, <1>2, Zenon DEF TypeRecords
<1> QED
  BY <1>2, <1>3, Zenon

LEMMA FillSound ==
  ASSUME Steady(kind, width), NEW types, NEW d, NEW i \in 1..Len(d),
         SoundTable(types), SecondPass(types, d, i), ~d[i].top
  PROVE  LET p == d[i].parent
             new == [types EXCEPT ![p] = Fill(@, d[i])]
         IN /\ p \in DOMAIN types
            /\ SoundTable(new) /\ Grows(types, new) /\ SecondPass(new, d, i + 1)
            /\ new[p].kind = "object" => d[i].attr_no \in DOMAIN new[p].child
<1> DEFINE p == d[i].parent
           type == Fill(types[p], d[i])
           new == [types EXCEPT ![p] = type]
           known == KnownIn(types)
<1>1. RowSteady(d[i]) /\ Len(d) \in Nat
  BY RowOf DEF SecondPass, Rows
<1>2. p \in DOMAIN types /\ d[i].child \in known
  <2>1. i \in 1..((Len(d) + 1) - 1)
    BY <1>1
  <2> QED
    BY <1>1, <2>1, Zenon DEF SecondPass, Declared, KnownIn, RowSteady
<1>3. /\ types[p] \in TypeRecords /\ Filled(types[p], p, known)
      /\ types[p].is_valid => Done(types[p], p)
      /\ p \in Names
  BY <1>2, Zenon DEF SoundTable
<1>4. /\ type \in TypeRecords /\ Filled(type, p, known)
      /\ type.is_valid => Done(type, p)
      /\ Done(types[p], p) => Done(type, p)
      /\ type.attr_no = types[p].attr_no
      /\ IsObject(p) => type.init_attr_no = types[p].init_attr_no + 1
      /\ type.kind = "object" => d[i].attr_no \in DOMAIN type.child
  <2>1. CASE types[p].kind = "object"
    <3>1. type = FillObject(types[p], d[i])
      BY <2>1, Zenon DEF Fill
    <3>2. LET obj == FillObject(types[p], d[i])
          IN /\ obj \in TypeRecords /\ Filled(obj, p, known)
             /\ obj.is_valid => Done(obj, p)
             /\ Done(types[p], p) => Done(obj, p)
             /\ obj.init_attr_no = types[p].init_attr_no + 1
             /\ obj.attr_no = types[p].attr_no
             /\ d[i].attr_no \in DOMAIN obj.child
      BY <2>1, FilledObjectSound, Zenon
    <3> HIDE DEF type
    <3> QED
      BY <3>1, <3>2, Zenon
  <2>2. CASE types[p].kind = "collection"
    <3>1. type = [types[p] EXCEPT !.child = <<d[i].child>>, !.is_valid = TRUE]
      BY <2>2, Zenon DEF Fill
    <3>2. /\ type \in TypeRecords /\ type.kind = "collection" /\ type.child = <<d[i].child>>
          /\ type.attr_no = types[p].attr_no
      <4>1. d[i].child \in Names \cup {"scalar"}
        BY <1>1, Zenon DEF RowSteady, RowType
      <4> HIDE DEF type, p
      <4>2. types[p] \in TypeRecords
        BY <1>3, Zenon
      <4> QED
        BY <2>2, <3>1, <4>1, <4>2, CollectionRecord, Zenon
    <3>3. <<d[i].child>> # <<>> /\ \A k \in DOMAIN <<d[i].child>> : <<d[i].child>>[k] \in known
      BY <1>2
    <3>4. kind[p] = "collection"
      BY <1>3, <2>2, Zenon DEF Filled
    <3> HIDE DEF type, known
    <3> QED
      BY <3>2, <3>3, <3>4, Zenon DEF Filled, Done, IsObject
  <2>3. CASE types[p].kind \notin {"object", "collection"}
    <3>1. type = types[p]
      BY <2>3, Zenon DEF Fill
    <3> QED
      BY <1>3, <2>3, <3>1, Zenon DEF Filled, IsObject
  <2> QED
    BY <2>1, <2>2, <2>3, Zenon
<1> HIDE DEF type
<1>5. Replaces(types, p, type, new) /\ DOMAIN new = DOMAIN types /\ KnownIn(new) = known
  BY <1>2, <1>4, Zenon DEF Replaces, SoundTable, KnownIn
<1>6. SoundTable(new) /\ Grows(types, new)
  <2> HIDE DEF new, p, known
  <2> QED
    BY <1>3, <1>4, <1>5, ReplacedSound, Zenon
<1>7. SeesRow(types, new, d[i])
  <2> SUFFICES ASSUME NEW n \in DOMAIN types, IsObject(n)
               PROVE  new[n].init_attr_no
                        = types[n].init_attr_no + (IF AttrOf(d[i], n, kind) THEN 1 ELSE 0)
    BY <1>5, Zenon DEF SeesRow
  <2>1. CASE n = p
    BY <2>1, <1>4, <1>5, Zenon DEF Replaces, AttrOf, IsObject
  <2>2. CASE n # p
    <3>1. new[n] = types[n] /\ types[n].init_attr_no \in Nat
      BY <2>2, <1>5, Zenon DEF Replaces, SoundTable, TypeRecords
    <3>2. ~AttrOf(d[i], n, kind)
      BY <2>2, Zenon DEF AttrOf
    <3> HIDE DEF new
    <3> QED
      BY <3>1, <3>2
  <2> QED
    BY <2>1, <2>2, Zenon
<1>8. AtRow(new, d, i + 1)
  <2> HIDE DEF new
  <2> QED
    BY <1>7, AtNextRow, Zenon DEF SecondPass
<1>9. CountedAll(new, d)
  <2>1. \A n \in DOMAIN types : new[n].attr_no = types[n].attr_no
    BY <1>4, <1>5, Zenon DEF Replaces
  <2> QED
    BY <1>5, <2>1, Zenon DEF SecondPass, CountedAll
<1>10. Declared(new, d, Len(d) + 1)
  BY <1>5, Zenon DEF SecondPass, Declared
<1>11. SecondPass(new, d, i + 1)
  <2>1. i + 1 \in 1..(Len(d) + 1)
    BY <1>1
  <2> QED
    BY <1>8, <1>9, <1>10, <2>1, Zenon DEF SecondPass
<1>12. new[p] = type
  BY <1>2, Zenon
<1> QED
  BY <1>2, <1>4, <1>6, <1>11, <1>12, Zenon DEF type

LEMMA SkipTop ==
  ASSUME Steady(kind, width), NEW types, NEW d, NEW i \in 1..Len(d),
         SoundTable(types), SecondPass(types, d, i), d[i].top
  PROVE  SecondPass(types, d, i + 1)
<1>1. SeesRow(types, types, d[i])
  BY DEF SeesRow, AttrOf, SoundTable, TypeRecords
<1>2. AtRow(types, d, i + 1)
  BY <1>1, AtNextRow, Zenon DEF SecondPass
<1>3. i + 1 \in 1..(Len(d) + 1)
  BY DEF SecondPass, Rows
<1> QED
  BY <1>2, <1>3, Zenon DEF SecondPass

(* Both passes leave no object half described, wherever they end.            *)
LEMMA EndsSettled ==
  ASSUME Steady(kind, width), NEW types, NEW d, NEW i, SoundTable(types), SecondPass(types, d, i),
         \/ i > Len(d)
         \/ ~d[i].top /\ types[d[i].parent].kind = "object" /\ types[d[i].parent].child = <<>>
  PROVE  Settled(types)
<1> SUFFICES ASSUME NEW n \in DOMAIN types, IsObject(n)
             PROVE  Whole(types[n], n)
  BY Zenon DEF Settled
<1>1. Len(d) \in Nat /\ i \in Nat
  BY DEF SecondPass, Rows
<1>2. CASE i <= Len(d) /\ AttrOf(d[i], n, kind)
  <2>1. types[n].child = <<>> /\ types[n].kind = "object"
    BY <1>1, <1>2 DEF AttrOf
  <2>2. FilledObject(types[n], n, KnownIn(types))
    BY <2>1, Zenon DEF SoundTable, Filled
  <2> QED
    BY <2>1, <2>2, Zenon DEF FilledObject, Whole
<1>3. CASE ~(i <= Len(d) /\ AttrOf(d[i], n, kind))
  BY <1>3, Zenon DEF SecondPass, AtRow
<1> QED
  BY <1>2, <1>3, Zenon

LEMMA FirstToSecond ==
  ASSUME Steady(kind, width), NEW types, NEW d, NEW i, SoundTable(types), Settled(types),
         FirstPass(types, d, i), i > Len(d)
  PROVE  SecondPass(types, d, 1)
<1>1. Len(d) \in Nat /\ i = Len(d) + 1 /\ i - 1 = Len(d) /\ 1 \in 1..(Len(d) + 1)
  BY DEF FirstPass, Rows
<1>2. CountedAll(types, d)
  <2> SUFFICES ASSUME NEW n \in DOMAIN types, NEW j \in 1..Len(d), AttrOf(d[j], n, kind)
               PROVE  types[n].attr_no = width[n]
    BY Zenon DEF CountedAll
  <2>1. n \in Names
    BY Zenon DEF SoundTable
  <2>2. PICK k \in 1..Len(d) :
          /\ AttrOf(d[k], n, kind) /\ d[k].attr_no = width[n]
          /\ \A l \in (k + 1)..Len(d) : d[l].kind = "scalar" \/ d[l].child # n
    BY <2>1, Zenon DEF FirstPass, Rows, SteadyRows
  <2> QED
    BY <1>1, <2>2, Zenon DEF FirstPass, Counted
<1>3. AtRow(types, d, 1)
  <2> SUFFICES ASSUME NEW n \in DOMAIN types, IsObject(n), 1 <= Len(d), AttrOf(d[1], n, kind)
               PROVE  types[n].init_attr_no = d[1].attr_no - 1 \/ types[n].init_attr_no >= width[n]
    BY Zenon DEF AtRow, Settled
  <2>1. n \in Names /\ width[n] \in Nat /\ 1 \in 1..Len(d)
    BY <1>1 DEF SoundTable, Steady
  <2>2. d[1].attr_no \in 1..width[n] /\ (d[1].attr_no > 1 => 1 > 1)
    BY <2>1, Zenon DEF FirstPass, Rows, SteadyRows
  <2> QED
    BY <2>1, <2>2 DEF Settled, Whole
<1> QED
  BY <1>1, <1>2, <1>3, Zenon DEF FirstPass, SecondPass

LEMMA DeclareRow ==
  ASSUME Steady(kind, width), NEW types, NEW d, NEW i \in 1..Len(d), SoundTable(types),
         FirstPass(types, d, i)
  PROVE  LET mid == Declare(types, d[i])
             new == CountAttr(mid, d[i])
         IN /\ SoundTable(mid) /\ Grows(types, mid)
            /\ Settled(types) => Settled(mid)
            /\ d[i].top \/ d[i].parent \in DOMAIN mid =>
                 /\ SoundTable(new) /\ Grows(types, new)
                 /\ Settled(types) => Settled(new)
                 /\ FirstPass(new, d, i + 1)
<1> DEFINE mid == Declare(types, d[i])
           new == CountAttr(mid, d[i])
<1>1. RowSteady(d[i]) /\ Len(d) \in Nat /\ i + 1 \in 1..(Len(d) + 1) /\ (i + 1) - 1 = i
  BY RowOf DEF FirstPass, Rows
<1>2. /\ SoundTable(mid) /\ Grows(types, mid)
      /\ Settled(types) => Settled(mid)
      /\ d[i].kind # "scalar" => d[i].child \in DOMAIN mid
      /\ \A n \in DOMAIN mid : d[i].kind = "scalar" \/ d[i].child # n =>
           n \in DOMAIN types /\ mid[n] = types[n]
  BY <1>1, DeclareSound, Zenon
<1> HIDE DEF mid
<1>3. ASSUME d[i].top \/ d[i].parent \in DOMAIN mid
      PROVE  /\ SoundTable(new) /\ Grows(types, new)
             /\ Settled(types) => Settled(new)
             /\ FirstPass(new, d, i + 1)
  <2>1. /\ SoundTable(new) /\ Grows(mid, new)
        /\ Settled(mid) => Settled(new)
        /\ DOMAIN new = DOMAIN mid
        /\ \A n \in DOMAIN mid :
             IF AttrOf(d[i], n, kind) /\ d[i].attr_no = width[n] THEN new[n].attr_no = width[n]
             ELSE mid[n].attr_no = width[n] => new[n].attr_no = width[n]
    <3>1. ~d[i].top => d[i].parent \in DOMAIN mid
      BY <1>3, Zenon
    <3>2. AttrCounted(mid, d[i], new)
      BY <1>1, <1>2, <3>1, CountAttrSound, Zenon
    <3> HIDE DEF new
    <3> QED
      BY <3>2, Zenon DEF AttrCounted
  <2> HIDE DEF new
  <2>2. Grows(types, new)
    BY <1>2, <2>1, Zenon DEF Grows
  <2>3. Declared(new, d, i + 1)
    <3> SUFFICES ASSUME NEW j \in 1..i
                 PROVE  /\ d[j].kind # "scalar" => d[j].child \in DOMAIN new
                        /\ ~d[j].top => d[j].parent \in DOMAIN new
      BY <1>1, Zenon DEF Declared
    <3>1. CASE j = i
      BY <3>1, <1>2, <1>3, <2>1, Zenon
    <3>2. CASE j # i
      <4>1. j \in 1..(i - 1)
        BY <3>2
      <4> QED
        BY <4>1, <2>2, Zenon DEF FirstPass, Declared, Grows
    <3> QED
      BY <3>1, <3>2, Zenon
  <2>4. Counted(new, d, i + 1)
    <3> SUFFICES ASSUME NEW n \in DOMAIN new, NEW j \in 1..i,
                        AttrOf(d[j], n, kind), d[j].attr_no = width[n],
                        \A k \in (j + 1)..i : d[k].kind = "scalar" \/ d[k].child # n
                 PROVE  new[n].attr_no = width[n]
      BY <1>1, Zenon DEF Counted
    <3>1. CASE j = i
      BY <3>1, <2>1, Zenon
    <3>2. CASE j # i
      <4>1. j \in 1..(i - 1) /\ i \in (j + 1)..i /\ \A k \in (j + 1)..(i - 1) : k \in (j + 1)..i
        BY <3>2
      <4>2. n \in DOMAIN types /\ mid[n] = types[n] /\ n \in DOMAIN mid
        BY <4>1, <1>2, <2>1, Zenon
      <4>3. types[n].attr_no = width[n]
        BY <4>1, <4>2, Zenon DEF FirstPass, Counted
      <4> QED
        BY <4>2, <4>3, <2>1, Zenon
    <3> QED
      BY <3>1, <3>2, Zenon
  <2> QED
    BY <1>1, <1>2, <2>1, <2>2, <2>3, <2>4, Zenon DEF FirstPass
<1> QED
  BY <1>2, <1>3, Zenon DEF mid

---------------------------------------------------------------------------
(* One step of thread t and the others.                                      *)

Acts(t) ==
  \A u \in Threads : u # t =>
    /\ pc'[u] = pc[u] /\ ent'[u] = ent[u] /\ ptr'[u] = ptr[u] /\ req'[u] = req[u]
    /\ rows'[u] = rows[u] /\ at'[u] = at[u] /\ held'[u] = held[u]

(* Entries stay, their tables grow, and only the one that nobody else parses *)
(* into may change.                                                          *)
Later(t) ==
  \A e \in DOMAIN entries :
    /\ e \in DOMAIN entries'
    /\ Grows(entries[e].types, entries'[e].types)
    /\ \A u \in Threads : u # t /\ pc[u] \in Parsing /\ ent[u] = e => entries'[e] = entries[e]

LEMMA OthersKeep ==
  ASSUME CacheInv, NEW t \in Threads, Acts(t), Later(t), NEW u \in Threads, u # t
  PROVE  ThreadInv(u)'
<1>1. ThreadInv(u)
  BY Zenon DEF CacheInv
<1>2. /\ pc'[u] = pc[u] /\ ent'[u] = ent[u] /\ ptr'[u] = ptr[u] /\ req'[u] = req[u]
      /\ rows'[u] = rows[u] /\ at'[u] = at[u] /\ held'[u] = held[u]
  BY Zenon DEF Acts
<1>3. pc[u] \in HasEntry => ent[u] \in DOMAIN entries'
  BY <1>1, Zenon DEF ThreadInv, Later
<1>4. ptr[u] => ent[u] \in DOMAIN entries' /\ req[u].name \in DOMAIN entries'[ent[u]].types
  BY <1>1, Zenon DEF ThreadInv, Later, Grows, Table
<1>5. pc[u] \in Parsing => entries'[ent[u]] = entries[ent[u]]
  BY <1>1, Zenon DEF ThreadInv, Later, Parsing, HasEntry
<1>6. held[u] # None =>
       /\ held[u].ent \in DOMAIN entries' /\ held[u].name \in DOMAIN entries'[held[u].ent].types
       /\ Done(entries'[held[u].ent].types[held[u].name], held[u].name)
  BY <1>1, Zenon DEF ThreadInv, Later, Grows
<1>7. (pc[u] \in Parsing => entries'[ent[u]].writer = u)
      /\ (pc[u] = "pass1" => FirstPass(entries'[ent[u]].types, rows[u], at[u]))
      /\ (pc[u] = "pass2" => SecondPass(entries'[ent[u]].types, rows[u], at[u]))
  BY <1>1, <1>5, Zenon DEF ThreadInv, Parsing, Table
<1> QED
  BY <1>1, <1>2, <1>3, <1>4, <1>6, <1>7, Zenon DEF ThreadInv, Table

LEMMA NothingWritten ==
  ASSUME CacheInv, NEW t \in Threads, Acts(t), entries' = entries, pc[t] # "pass2"
  PROVE  Later(t) /\ \A e \in DOMAIN entries' : EntryInv(e)'
<1>1. Later(t)
  BY Zenon DEF Later, Grows
<1>2. ASSUME NEW e \in DOMAIN entries
      PROVE  EntryInv(e)'
  <2>1. EntryInv(e)
    BY Zenon DEF CacheInv
  <2> QED
    BY <2>1, Zenon DEF EntryInv, Acts
<1> QED
  BY <1>1, <1>2, Zenon

(* t, which parses or begins to, leaves entry ent[t] with these types.       *)
Writes(t, new, w) ==
  /\ ent[t] \in DOMAIN entries /\ entries[ent[t]].writer \in {t, NoThread}
  /\ entries' = [entries EXCEPT ![ent[t]].types = new, ![ent[t]].writer = w]
  /\ w \in {t, NoThread}
  /\ SoundTable(new) /\ Grows(Table(t), new)
  /\ Settled(new) \/ (pc'[t] = "pass2" /\ ent'[t] = ent[t])

LEMMA EntryWritten ==
  ASSUME CacheInv, NEW t \in Threads, NEW new, NEW w, Acts(t), Writes(t, new, w)
  PROVE  /\ entries' \in Seq(EntryRecords) /\ DOMAIN entries' = DOMAIN entries
         /\ entries'[ent[t]].types = new /\ entries'[ent[t]].writer = w
         /\ Later(t)
         /\ \A e \in DOMAIN entries' : EntryInv(e)'
<1> DEFINE x == ent[t]
<1>1. /\ entries \in Seq(EntryRecords) /\ x \in DOMAIN entries /\ entries[x] \in EntryRecords
      /\ Len(entries) \in Nat /\ DOMAIN entries = 1..Len(entries)
  BY DEF CacheInv, CacheType, Writes
<1>2. new \in Tables /\ w \in Threads \cup {NoThread}
  BY Zenon DEF Writes, SoundTable, Tables
<1>3. PICK k, v, ts : entries[x] = [key |-> k, writer |-> v, types |-> ts]
                       /\ k \in {KeyOf[u] : u \in Threads}
  BY <1>1, Zenon DEF EntryRecords
<1>4. DOMAIN entries' = DOMAIN entries /\ \A e \in DOMAIN entries : e # x => entries'[e] = entries[e]
  BY <1>1, Zenon DEF Writes
<1>5. entries'[x] = [key |-> k, writer |-> w, types |-> new]
  <2>1. entries'[x] = [[entries[x] EXCEPT !.types = new] EXCEPT !.writer = w]
    BY <1>1, Zenon DEF Writes
  <2>2. [entries[x] EXCEPT !.types = new] = [key |-> k, writer |-> v, types |-> new]
    BY <1>3
  <2> QED
    BY <2>1, <2>2, Zenon
<1>6. entries'[x] \in EntryRecords /\ entries'[x].types = new /\ entries'[x].writer = w
  BY <1>2, <1>3, <1>5 DEF EntryRecords
<1>7. entries' \in Seq(EntryRecords)
  <2>1. \A e \in 1..Len(entries) : entries'[e] \in EntryRecords
    BY <1>1, <1>4, <1>6
  <2>2. entries' = [e \in 1..Len(entries) |-> entries'[e]]
    BY <1>1, Zenon DEF Writes
  <2> QED
    BY <1>1, <2>1, <2>2
<1>8. Later(t)
  <2> SUFFICES ASSUME NEW e \in DOMAIN entries
               PROVE  /\ Grows(entries[e].types, entries'[e].types)
                      /\ \A u \in Threads : u # t /\ pc[u] \in Parsing /\ ent[u] = e
                           => entries'[e] = entries[e]
    BY <1>4, Zenon DEF Later
  <2>1. CASE e = x
    <3>1. Grows(entries[e].types, entries'[e].types)
      BY <2>1, <1>6, Zenon DEF Writes, Table
    <3>2. ASSUME NEW u \in Threads, u # t, pc[u] \in Parsing, ent[u] = e
          PROVE  FALSE
      <4>1. entries[x].writer = u
        BY <2>1, <3>2, Zenon DEF CacheInv, ThreadInv
      <4> QED
        BY <3>2, <4>1, ComplexTypesAssumption, Zenon DEF Writes
    <3> QED
      BY <3>1, <3>2, Zenon
  <2>2. CASE e # x
    BY <2>2, <1>4, Zenon DEF Grows
  <2> QED
    BY <2>1, <2>2, Zenon
<1>9. ASSUME NEW e \in DOMAIN entries
      PROVE  EntryInv(e)'
  <2>1. CASE e = x
    BY <2>1, <1>6, Zenon DEF EntryInv, Writes
  <2>2. CASE e # x
    <3>1. EntryInv(e) /\ entries'[e] = entries[e]
      BY <2>2, <1>4, Zenon DEF CacheInv
    <3> QED
      BY <2>2, <3>1, Zenon DEF EntryInv, Acts
  <2> QED
    BY <2>1, <2>2, Zenon
<1> QED
  BY <1>4, <1>6, <1>7, <1>8, <1>9, Zenon

LEMMA StepKeeps ==
  ASSUME CacheInv, NEW t \in Threads, Acts(t), Later(t), CacheType', ~overrun', ThreadInv(t)',
         \A e \in DOMAIN entries' : EntryInv(e)'
  PROVE  CacheInv'
<1>1. \A u \in Threads : ThreadInv(u)'
  BY OthersKeep, Zenon
<1> QED
  BY <1>1, Zenon DEF CacheInv

LEMMA InitInv ==
  ASSUME Init
  PROVE  CacheInv
<1>1. entries \in Seq(EntryRecords) /\ DOMAIN entries = {}
  BY DEF Init
<1>2. CacheType
  BY <1>1, Zenon DEF Init, CacheType, PCs
<1>3. \A t \in Threads : ThreadInv(t)
  BY Zenon DEF Init, ThreadInv, HasEntry, Parsing
<1> QED
  BY <1>1, <1>2, <1>3, Zenon DEF Init, CacheInv

LEMMA EnterInv ==
  ASSUME CacheInv, NEW t \in Threads, Enter(t)
  PROVE  CacheInv'
<1>1. PICK op \in Ops, n \in DOMAIN Descriptions : req' = [req EXCEPT ![t] = [op |-> op, name |-> n]]
  BY Zenon DEF Enter
<1>2. PICK l \in {"ginit", "return", "gsearch"} : pc' = [pc EXCEPT ![t] = l]
  BY Zenon DEF Enter, Goto
<1>3. CacheType'
  BY <1>1, <1>2, Zenon DEF CacheInv, CacheType, Enter, shared, PCs
<1>4. Acts(t)
  BY <1>1, <1>2, Zenon DEF CacheInv, CacheType, Enter, Acts
<1>5. Later(t) /\ \A e \in DOMAIN entries' : EntryInv(e)'
  <2>1. entries' = entries /\ pc[t] # "pass2"
    BY Zenon DEF Enter, shared
  <2> QED
    BY <1>4, <2>1, NothingWritten, Zenon
<1>6. ThreadInv(t)'
  <2>1. /\ pc'[t] = l /\ ~ptr'[t] /\ held'[t] = None /\ req'[t].name = n
    BY <1>1, <1>2, Zenon DEF CacheInv, CacheType, Enter
  <2> QED
    BY <2>1, Zenon DEF ThreadInv, HasEntry, Parsing
<1>7. ~overrun'
  BY Zenon DEF CacheInv, Enter
<1> QED
  BY <1>3, <1>4, <1>5, <1>6, <1>7, StepKeeps, Zenon

(* Steps that only choose the entry or move on to another label.             *)
Moves(t, l, e) ==
  /\ pc' = [pc EXCEPT ![t] = l] /\ ent' = [ent EXCEPT ![t] = e]
  /\ UNCHANGED <<entries, req, ptr, rows, at, held, overrun>>
  /\ l \in PCs /\ e \in Nat /\ pc[t] \notin {"idle", "pass2"} /\ l \notin {"parse"} \cup Parsing
  /\ l \in HasEntry => e \in DOMAIN entries
  /\ l \in Early => pc[t] \in Early
  /\ ptr[t] => e = ent[t]

LEMMA MovesInv ==
  ASSUME CacheInv, NEW t \in Threads, NEW l, NEW e, Moves(t, l, e)
  PROVE  CacheInv'
<1>1. CacheType'
  BY Zenon DEF CacheInv, CacheType, Moves
<1>2. Acts(t)
  BY Zenon DEF CacheInv, CacheType, Moves, Acts
<1>3. Later(t) /\ \A x \in DOMAIN entries' : EntryInv(x)'
  BY <1>2, NothingWritten, Zenon DEF Moves
<1>4. ThreadInv(t)'
  <2>1. pc'[t] = l /\ ent'[t] = e
    BY Zenon DEF CacheInv, CacheType, Moves
  <2>2. ThreadInv(t)
    BY Zenon DEF CacheInv
  <2> QED
    BY <2>1, <2>2, Zenon DEF ThreadInv, Moves, Table, HasEntry, Parsing
<1> QED
  BY <1>1, <1>2, <1>3, <1>4, StepKeeps, Zenon DEF CacheInv, Moves

LEMMA GlobalInv ==
  ASSUME CacheInv, NEW t \in Threads, GlobalInit(t) \/ HashInit(t) \/ Check(t)
  PROVE  CacheInv'
<1>1. PICK l \in {"return", "gsearch", "hashinit", "query"} :
        /\ pc' = [pc EXCEPT ![t] = l]
        /\ l = "query" => pc[t] = "check"
        /\ l \in Early => pc[t] \in Early
  BY Zenon DEF GlobalInit, HashInit, Check, Goto, Early
<1>2. ThreadInv(t)
  BY Zenon DEF CacheInv
<1>3. Moves(t, l, ent[t])
  <2>1. ent' = [ent EXCEPT ![t] = ent[t]] /\ ent[t] \in Nat
    BY Zenon DEF CacheInv, CacheType, GlobalInit, HashInit, Check
  <2>2. UNCHANGED <<entries, req, ptr, rows, at, held, overrun>>
    BY Zenon DEF GlobalInit, HashInit, Check, shared
  <2>3. pc[t] \notin {"idle", "pass2"}
    BY Zenon DEF GlobalInit, HashInit, Check
  <2> QED
    BY <1>1, <1>2, <2>1, <2>2, <2>3, Zenon DEF Moves, ThreadInv, HasEntry, PCs, Parsing
<1> QED
  BY <1>3, MovesInv, Zenon

LEMMA SearchEntryInv ==
  ASSUME CacheInv, NEW t \in Threads, SearchEntry(t)
  PROVE  CacheInv'
<1>1. PICK l \in {"tsearch", "gmake"}, e \in Nat :
        /\ pc' = [pc EXCEPT ![t] = l] /\ ent' = [ent EXCEPT ![t] = e]
        /\ l = "tsearch" => e \in DOMAIN entries
        /\ l = "gmake" => e = ent[t]
  <2>1. CASE \E e \in EntriesOf(KeyOf[t]) : ent' = [ent EXCEPT ![t] = e] /\ Goto(t, "tsearch")
    <3>1. PICK e \in EntriesOf(KeyOf[t]) : ent' = [ent EXCEPT ![t] = e] /\ Goto(t, "tsearch")
      BY <2>1, Zenon
    <3>2. e \in DOMAIN entries /\ e \in Nat
      BY DEF EntriesOf, CacheInv, CacheType
    <3> QED
      BY <3>1, <3>2, Zenon DEF Goto
  <2>2. CASE Goto(t, "gmake") /\ UNCHANGED ent
    <3>1. ent' = [ent EXCEPT ![t] = ent[t]] /\ ent[t] \in Nat
      BY <2>2, Zenon DEF CacheInv, CacheType
    <3> QED
      BY <2>2, <3>1, Zenon DEF Goto
  <2> QED
    BY <2>1, <2>2, Zenon DEF SearchEntry
<1>2. pc[t] \in Early /\ pc[t] \notin {"idle", "pass2"} /\ ~ptr[t]
  BY Zenon DEF SearchEntry, Early, CacheInv, ThreadInv
<1>3. UNCHANGED <<entries, req, ptr, rows, at, held, overrun>>
  BY Zenon DEF SearchEntry, shared
<1>4. Moves(t, l, e)
  BY <1>1, <1>2, <1>3, Zenon DEF Moves, HasEntry, PCs, Parsing
<1> QED
  BY <1>4, MovesInv, Zenon

LEMMA MakeEntryInv ==
  ASSUME CacheInv, NEW t \in Threads, MakeEntry(t)
  PROVE  CacheInv'
<1>1. /\ pc[t] \in Early /\ pc[t] \notin {"idle", "pass2"} /\ ~ptr[t] /\ ThreadInv(t)
      /\ UNCHANGED <<req, ptr, rows, at, held, overrun>>
  BY Zenon DEF MakeEntry, Early, CacheInv, ThreadInv
<1>2. CASE Goto(t, "return") /\ UNCHANGED <<entries, ent>>
  <2>1. ent' = [ent EXCEPT ![t] = ent[t]] /\ ent[t] \in Nat
    BY <1>2, Zenon DEF CacheInv, CacheType
  <2>2. Moves(t, "return", ent[t])
    BY <1>1, <1>2, <2>1, Zenon DEF Moves, Goto, HasEntry, PCs, Parsing, Early
  <2> QED
    BY <2>2, MovesInv, Zenon
<1>3. CASE /\ entries' = Append(entries, [key |-> KeyOf[t], writer |-> NoThread, types |-> <<>>])
           /\ ent' = [ent EXCEPT ![t] = Len(entries) + 1]
           /\ Goto(t, "tsearch")
  <2> DEFINE new == [key |-> KeyOf[t], writer |-> NoThread, types |-> <<>>]
  <2>1. SoundTable(<<>>) /\ Settled(<<>>)
    <3>1. DOMAIN <<>> = {} /\ <<>> \in [{} -> TypeRecords]
      OBVIOUS
    <3> QED
      BY <3>1, Zenon DEF SoundTable, Settled
  <2>2. new \in EntryRecords
    <3>1. <<>> \in Tables
      BY <2>1, Zenon DEF SoundTable, Tables
    <3> QED
      BY <3>1, Zenon DEF EntryRecords
  <2>3. entries \in Seq(EntryRecords) /\ Len(entries) \in Nat
    BY DEF CacheInv, CacheType
  <2> HIDE DEF new
  <2>4. /\ entries' \in Seq(EntryRecords) /\ DOMAIN entries' = DOMAIN entries \cup {Len(entries) + 1}
        /\ \A e \in DOMAIN entries : entries'[e] = entries[e]
        /\ entries'[Len(entries) + 1] = new
    BY <1>3, <2>2, <2>3 DEF new
  <2>5. CacheType'
    BY <1>1, <1>3, <2>3, <2>4 DEF CacheInv, CacheType, Goto, PCs
  <2>6. Acts(t)
    BY <1>1, <1>3, Zenon DEF CacheInv, CacheType, Acts, Goto
  <2>7. Later(t)
    BY <2>4, Zenon DEF Later, Grows
  <2>8. ASSUME NEW e \in DOMAIN entries'
        PROVE  EntryInv(e)'
    <3>1. CASE e \in DOMAIN entries
      <4>1. EntryInv(e) /\ entries'[e] = entries[e]
        BY <3>1, <2>4, Zenon DEF CacheInv
      <4> QED
        BY <4>1, <1>1, <2>6, Zenon DEF EntryInv, Acts
    <3>2. CASE e \notin DOMAIN entries
      <4>1. entries'[e] = new
        BY <3>2, <2>4, Zenon
      <4>2. entries'[e].types = <<>>
        BY <4>1 DEF new
      <4> QED
        BY <2>1, <4>2, Zenon DEF EntryInv
    <3> QED
      BY <3>1, <3>2, Zenon
  <2>9. ThreadInv(t)'
    <3>1. pc'[t] = "tsearch" /\ ent'[t] = Len(entries) + 1 /\ held'[t] = held[t] /\ ~ptr'[t]
          /\ req'[t] = req[t]
      BY <1>1, <1>3, Zenon DEF CacheInv, CacheType, Goto
    <3>2. held[t] # None =>
            /\ held[t].ent \in DOMAIN entries'
            /\ held[t].name \in DOMAIN entries'[held[t].ent].types
            /\ Done(entries'[held[t].ent].types[held[t].name], held[t].name)
      BY <1>1, <2>4, Zenon DEF ThreadInv
    <3> QED
      BY <1>1, <2>4, <3>1, <3>2, Zenon DEF ThreadInv, HasEntry, Parsing, Early
  <2> QED
    BY <1>1, <2>5, <2>6, <2>7, <2>8, <2>9, StepKeeps, Zenon DEF CacheInv
<1> QED
  BY <1>2, <1>3, Zenon DEF MakeEntry

LEMMA SearchTypeInv ==
  ASSUME CacheInv, NEW t \in Threads, SearchType(t)
  PROVE  CacheInv'
<1>1. PICK l \in {"check", "return"} : pc' = [pc EXCEPT ![t] = l]
  BY Zenon DEF SearchType, Goto
<1>2. PICK b \in BOOLEAN : ptr' = [ptr EXCEPT ![t] = b] /\ (b => req[t].name \in DOMAIN Table(t))
  <2>1. Known(t, req[t].name) \in BOOLEAN
    BY DEF Known
  <2> QED
    BY <2>1, Zenon DEF SearchType, Known
<1>3. UNCHANGED <<entries, ent, req, rows, at, held, overrun>> /\ pc[t] \in HasEntry
      /\ pc[t] \notin {"idle", "pass2"}
  BY Zenon DEF SearchType, shared, HasEntry
<1>4. CacheType'
  BY <1>1, <1>2, <1>3, Zenon DEF CacheInv, CacheType, PCs
<1>5. Acts(t)
  BY <1>1, <1>2, <1>3, Zenon DEF CacheInv, CacheType, Acts
<1>6. Later(t) /\ \A e \in DOMAIN entries' : EntryInv(e)'
  BY <1>3, <1>5, NothingWritten, Zenon
<1>7. ThreadInv(t)'
  <2>1. pc'[t] = l /\ (ptr'[t] = b)
    BY <1>1, <1>2, Zenon DEF CacheInv, CacheType
  <2>2. ThreadInv(t)
    BY Zenon DEF CacheInv
  <2> QED
    BY <1>2, <1>3, <2>1, <2>2, Zenon DEF ThreadInv, HasEntry, Parsing, Early, Table
<1> QED
  BY <1>3, <1>4, <1>5, <1>6, <1>7, StepKeeps, Zenon DEF CacheInv

LEMMA QueryInv ==
  ASSUME SteadyTypes, CacheInv, NEW t \in Threads, Query(t)
  PROVE  CacheInv'
<1>1. /\ UNCHANGED <<entries, ent, req, ptr, at, held, overrun>> /\ pc[t] \in HasEntry
      /\ pc[t] \notin {"idle", "pass2"} /\ ThreadInv(t)
  BY Zenon DEF Query, shared, HasEntry, CacheInv
<1>2. PICK l \in {"parse", "return"} : \E d :
        /\ pc' = [pc EXCEPT ![t] = l] /\ rows' = [rows EXCEPT ![t] = d]
        /\ l = "parse" => d \in Descriptions[req[t].name]
  <2>1. CASE Goto(t, "return") /\ UNCHANGED rows
    <3>1. rows' = [rows EXCEPT ![t] = rows[t]]
      BY <2>1, Zenon DEF CacheInv, CacheType
    <3> QED
      BY <2>1, <3>1, Zenon DEF Goto
  <2>2. CASE (\E d \in Descriptions[req[t].name] : rows' = [rows EXCEPT ![t] = d]) /\ Goto(t, "parse")
    BY <2>2, Zenon DEF Goto
  <2> QED
    BY <2>1, <2>2, Zenon DEF Query
<1>3. PICK d : /\ pc' = [pc EXCEPT ![t] = l] /\ rows' = [rows EXCEPT ![t] = d]
               /\ l = "parse" => d \in Descriptions[req[t].name]
  BY <1>2, Zenon
<1>4. l = "parse" => Rows(d)
  <2>1. req[t].name \in DOMAIN Descriptions
    BY <1>1, Zenon DEF ThreadInv
  <2> QED
    BY <1>3, <2>1, SigSteady, ComplexTypesAssumption, Zenon DEF Steady, Rows
<1>5. CacheType'
  BY <1>1, <1>3, Zenon DEF CacheInv, CacheType, PCs
<1>6. Acts(t)
  BY <1>1, <1>3, Zenon DEF CacheInv, CacheType, Acts
<1>7. Later(t) /\ \A e \in DOMAIN entries' : EntryInv(e)'
  BY <1>1, <1>6, NothingWritten, Zenon
<1>8. ThreadInv(t)'
  <2>1. pc'[t] = l /\ rows'[t] = d
    BY <1>3, Zenon DEF CacheInv, CacheType
  <2> QED
    BY <1>1, <1>4, <2>1, Zenon DEF ThreadInv, HasEntry, Parsing, Early, Table
<1> QED
  BY <1>1, <1>5, <1>6, <1>7, <1>8, StepKeeps, Zenon DEF CacheInv

LEMMA ReturnInv ==
  ASSUME CacheInv, NEW t \in Threads, Return(t)
  PROVE  CacheInv'
<1>1. /\ UNCHANGED <<entries, at, overrun>> /\ pc[t] \notin {"idle", "pass2"} /\ ThreadInv(t)
  BY Zenon DEF Return, shared, CacheInv
<1>2. PICK h : /\ held' = [held EXCEPT ![t] = h]
               /\ h = None \/ (Valid(t) /\ h = [ent |-> ent[t], name |-> req[t].name])
  BY Zenon DEF Return
<1>3. CacheType'
  BY <1>1, <1>2, Zenon DEF CacheInv, CacheType, PCs, Return, Goto
<1>4. Acts(t)
  BY <1>1, <1>2, Zenon DEF CacheInv, CacheType, Acts, Return, Goto
<1>5. Later(t) /\ \A e \in DOMAIN entries' : EntryInv(e)'
  BY <1>1, <1>4, NothingWritten, Zenon
<1>6. ASSUME Valid(t)
      PROVE  /\ ent[t] \in DOMAIN entries /\ req[t].name \in DOMAIN entries[ent[t]].types
             /\ Done(entries[ent[t]].types[req[t].name], req[t].name)
  <2>1. ent[t] \in DOMAIN entries /\ req[t].name \in DOMAIN Table(t)
    BY <1>1, <1>6, Zenon DEF Valid, ThreadInv
  <2>2. SoundTable(Table(t))
    BY <2>1, Zenon DEF CacheInv, EntryInv, Table
  <2> QED
    BY <1>6, <2>1, <2>2, Zenon DEF Valid, Table, SoundTable
<1>7. ThreadInv(t)'
  <2>1. pc'[t] = "idle" /\ ~ptr'[t] /\ held'[t] = h
    BY <1>2, Zenon DEF CacheInv, CacheType, Return, Goto
  <2>2. h # None => /\ h.ent \in DOMAIN entries /\ h.name \in DOMAIN entries[h.ent].types
                    /\ Done(entries[h.ent].types[h.name], h.name)
    <3> SUFFICES ASSUME h # None
                 PROVE  /\ h.ent \in DOMAIN entries /\ h.name \in DOMAIN entries[h.ent].types
                        /\ Done(entries[h.ent].types[h.name], h.name)
      BY Zenon
    <3>1. Valid(t) /\ h.ent = ent[t] /\ h.name = req[t].name
      BY <1>2
    <3> QED
      BY <1>6, <3>1, Zenon
  <2> QED
    BY <1>1, <2>1, <2>2, Zenon DEF ThreadInv, HasEntry, Parsing, Early
<1> QED
  BY <1>1, <1>3, <1>4, <1>5, <1>7, StepKeeps, Zenon DEF CacheInv

(* A step of the parser: it writes the table, and goes on or ends.           *)
Parses(t, new, w, l, i, d) ==
  /\ pc[t] \in {"parse"} \cup Parsing
  /\ pc' = [pc EXCEPT ![t] = l] /\ at' = [at EXCEPT ![t] = i] /\ rows' = [rows EXCEPT ![t] = d]
  /\ UNCHANGED <<req, ent, ptr, held>> /\ ~overrun'
  /\ Writes(t, new, w)
  /\ l \in {"again", "return"} \cup Parsing /\ i \in Nat
  /\ l \in Parsing => w = t /\ Rows(d)
  /\ l = "pass1" => FirstPass(new, d, i)
  /\ l = "pass2" => SecondPass(new, d, i)

LEMMA ParsesInv ==
  ASSUME CacheInv, NEW t \in Threads, NEW new, NEW w, NEW l, NEW i, NEW d,
         Parses(t, new, w, l, i, d)
  PROVE  CacheInv'
<1>1. Acts(t)
  BY Zenon DEF CacheInv, CacheType, Acts, Parses
<1>2. /\ entries' \in Seq(EntryRecords) /\ DOMAIN entries' = DOMAIN entries
      /\ entries'[ent[t]].types = new /\ entries'[ent[t]].writer = w
      /\ Later(t)
      /\ \A e \in DOMAIN entries' : EntryInv(e)'
  BY <1>1, EntryWritten, Zenon DEF Parses
<1>3. CacheType'
  <2>1. l \in PCs
    BY Zenon DEF Parses, Parsing, PCs
  <2> QED
    BY <1>2, <2>1, Zenon DEF CacheInv, CacheType, Parses
<1>4. ThreadInv(t)'
  <2>1. pc'[t] = l /\ at'[t] = i /\ rows'[t] = d /\ ent'[t] = ent[t] /\ req'[t] = req[t]
        /\ (ptr'[t] = ptr[t]) /\ held'[t] = held[t]
    BY Zenon DEF CacheInv, CacheType, Parses
  <2>2. ThreadInv(t) /\ pc[t] \in HasEntry /\ pc[t] # "idle"
    BY Zenon DEF CacheInv, Parses, Parsing, HasEntry
  <2>3. ptr[t] => ent[t] \in DOMAIN entries' /\ req[t].name \in DOMAIN entries'[ent[t]].types
    BY <1>2, <2>2, Zenon DEF ThreadInv, Later, Grows, Table
  <2>4. held[t] # None =>
          /\ held[t].ent \in DOMAIN entries' /\ held[t].name \in DOMAIN entries'[held[t].ent].types
          /\ Done(entries'[held[t].ent].types[held[t].name], held[t].name)
    BY <1>2, <2>2, Zenon DEF ThreadInv, Later, Grows
  <2>5. l \notin Early /\ l # "parse"
    BY Zenon DEF Parses, Early, Parsing
  <2>6. ent[t] \in DOMAIN entries' /\ req[t].name \in DOMAIN Descriptions
    BY <1>2, <2>2, Zenon DEF ThreadInv
  <2>7. /\ l \in Parsing => entries'[ent[t]].writer = t /\ Rows(d)
        /\ l = "pass1" => FirstPass(entries'[ent[t]].types, d, i)
        /\ l = "pass2" => SecondPass(entries'[ent[t]].types, d, i)
    BY <1>2, Zenon DEF Parses
  <2> QED
    BY <2>1, <2>3, <2>4, <2>5, <2>6, <2>7, Zenon DEF ThreadInv, Table
<1> QED
  BY <1>1, <1>2, <1>3, <1>4, StepKeeps, Zenon DEF Parses

LEMMA OneField ==
  ASSUME CacheInv, NEW e \in DOMAIN entries, NEW x
  PROVE  /\ [entries EXCEPT ![e].types = x]
              = [entries EXCEPT ![e].types = x, ![e].writer = entries[e].writer]
         /\ [entries EXCEPT ![e].writer = x]
              = [entries EXCEPT ![e].types = entries[e].types, ![e].writer = x]
<1>1. entries \in Seq(EntryRecords) /\ entries[e] \in EntryRecords
  BY DEF CacheInv, CacheType
<1>2. PICK k, v, ts : entries[e] = [key |-> k, writer |-> v, types |-> ts]
  BY <1>1, Zenon DEF EntryRecords
<1>3. entries[e].writer = v /\ entries[e].types = ts
  BY <1>2
<1>4. [entries[e] EXCEPT !.types = x] = [[entries[e] EXCEPT !.types = x] EXCEPT !.writer = v]
  <2>1. [entries[e] EXCEPT !.types = x] = [key |-> k, writer |-> v, types |-> x]
    BY <1>2
  <2>2. [[key |-> k, writer |-> v, types |-> x] EXCEPT !.writer = v]
          = [key |-> k, writer |-> v, types |-> x]
    OBVIOUS
  <2> QED
    BY <2>1, <2>2, Zenon
<1>5. [entries[e] EXCEPT !.writer = x] = [[entries[e] EXCEPT !.types = ts] EXCEPT !.writer = x]
  <2>1. [entries[e] EXCEPT !.types = ts] = entries[e]
    BY <1>2
  <2> QED
    BY <2>1, Zenon
<1> QED
  BY <1>1, <1>3, <1>4, <1>5, Zenon

LEMMA BeginParseInv ==
  ASSUME SteadyTypes, CacheInv, NEW t \in Threads, BeginParse(t)
  PROVE  CacheInv'
<1> DEFINE e == ent[t]
           ts == Table(t)
<1>1. ThreadInv(t) /\ pc[t] = "parse" /\ e \in DOMAIN entries /\ entries[e].writer = NoThread
  BY Zenon DEF CacheInv, BeginParse, ThreadInv, HasEntry
<1>2. EntryInv(e)
  BY <1>1, Zenon DEF CacheInv
<1>3. Settled(ts) /\ SoundTable(ts)
  <2>1. ASSUME NEW u \in Threads, pc[u] = "pass2", ent[u] = e
        PROVE  FALSE
    BY <1>1, <2>1, ComplexTypesAssumption, Zenon DEF CacheInv, ThreadInv, Parsing
  <2> QED
    BY <1>2, <2>1, Zenon DEF EntryInv, Table
<1>4. entries' = [entries EXCEPT ![e].types = ts, ![e].writer = t]
  BY <1>1, OneField, Zenon DEF BeginParse, Table
<1>5. Writes(t, ts, t)
  BY <1>1, <1>3, <1>4, Zenon DEF Writes, Grows
<1>6. Rows(rows[t])
  BY <1>1, Zenon DEF ThreadInv
<1>7. FirstPass(ts, rows[t], 1)
  <2>1. Len(rows[t]) \in Nat /\ 1 \in 1..(Len(rows[t]) + 1) /\ 1..(1 - 1) = {}
    BY <1>6 DEF Rows
  <2> QED
    BY <1>6, <2>1, Zenon DEF FirstPass, Declared, Counted
<1>8. rows' = [rows EXCEPT ![t] = rows[t]]
  BY Zenon DEF CacheInv, CacheType, BeginParse
<1>9. Parses(t, ts, t, "pass1", 1, rows[t])
  BY <1>1, <1>5, <1>6, <1>7, <1>8, Zenon DEF Parses, BeginParse, Goto, CacheInv, Parsing
<1> QED
  BY <1>9, ParsesInv, Zenon

(* What holds when t parses a row.                                           *)
LEMMA AtParse ==
  ASSUME CacheInv, NEW t \in Threads, pc[t] \in Parsing
  PROVE  /\ ent[t] \in DOMAIN entries /\ entries[ent[t]].writer = t
         /\ SoundTable(Table(t)) /\ Rows(rows[t]) /\ rows[t] \in Seq(RowType)
         /\ pc[t] = "pass1" => Settled(Table(t)) /\ FirstPass(Table(t), rows[t], at[t])
         /\ pc[t] = "pass2" => SecondPass(Table(t), rows[t], at[t])
         /\ at[t] \in 1..(Len(rows[t]) + 1)
<1>1. ThreadInv(t)
  BY Zenon DEF CacheInv
<1>2. ent[t] \in DOMAIN entries /\ entries[ent[t]].writer = t /\ Rows(rows[t])
      /\ (pc[t] = "pass1" => FirstPass(Table(t), rows[t], at[t]))
      /\ (pc[t] = "pass2" => SecondPass(Table(t), rows[t], at[t]))
  BY <1>1, Zenon DEF ThreadInv, Parsing, HasEntry
<1>3. EntryInv(ent[t])
  BY <1>2, Zenon DEF CacheInv
<1>4. ASSUME pc[t] = "pass1"
      PROVE  Settled(Table(t))
  <2>1. ASSUME NEW u \in Threads, pc[u] = "pass2", ent[u] = ent[t]
        PROVE  FALSE
    BY <1>2, <1>4, <2>1, Zenon DEF CacheInv, ThreadInv, Parsing
  <2> QED
    BY <1>3, <2>1, Zenon DEF EntryInv, Table
<1>5. at[t] \in 1..(Len(rows[t]) + 1)
  BY <1>2, Zenon DEF FirstPass, SecondPass, Parsing
<1> QED
  BY <1>2, <1>3, <1>4, <1>5, Zenon DEF EntryInv, Table, Rows

Ends(t, new, l) ==
  /\ pc[t] \in Parsing /\ l \in {"again", "return"} /\ EndParse(t, new, l)
  /\ UNCHANGED <<req, ent, ptr, held>>
  /\ SoundTable(new) /\ Grows(Table(t), new) /\ Settled(new)

LEMMA EndsInv ==
  ASSUME CacheInv, NEW t \in Threads, NEW new, NEW l, Ends(t, new, l)
  PROVE  CacheInv'
<1>1. Writes(t, new, NoThread)
  BY AtParse, Zenon DEF Ends, Writes, EndParse
<1>2. l \notin Parsing
  BY Zenon DEF Ends, Parsing
<1>3. Parses(t, new, NoThread, l, 0, <<>>)
  BY <1>1, <1>2, Zenon DEF Ends, Parses, EndParse, Goto, CacheInv, Parsing
<1> QED
  BY <1>3, ParsesInv, Zenon

Goes(t, new) ==
  /\ pc[t] \in Parsing /\ NextRow(t, new) /\ ~overrun'
  /\ UNCHANGED <<req, ent, ptr, held>>
  /\ SoundTable(new) /\ Grows(Table(t), new)
  /\ pc[t] = "pass1" => Settled(new) /\ FirstPass(new, rows[t], at[t] + 1)
  /\ pc[t] = "pass2" => SecondPass(new, rows[t], at[t] + 1)

LEMMA GoesOn ==
  ASSUME CacheInv, NEW t \in Threads, NEW new, Goes(t, new)
  PROVE  CacheInv'
<1>1. /\ ent[t] \in DOMAIN entries /\ entries[ent[t]].writer = t /\ Rows(rows[t])
      /\ at[t] \in Nat
  BY AtParse, Zenon DEF Goes, CacheInv, CacheType
<1>2. entries' = [entries EXCEPT ![ent[t]].types = new, ![ent[t]].writer = t]
  <2>1. [entries EXCEPT ![ent[t]].types = new]
          = [entries EXCEPT ![ent[t]].types = new, ![ent[t]].writer = entries[ent[t]].writer]
    BY <1>1, OneField, Zenon
  <2> QED
    BY <1>1, <2>1, Zenon DEF Goes, NextRow
<1>3. pc' = [pc EXCEPT ![t] = pc[t]] /\ rows' = [rows EXCEPT ![t] = rows[t]]
      /\ at' = [at EXCEPT ![t] = at[t] + 1] /\ pc'[t] = pc[t]
  BY Zenon DEF Goes, NextRow, CacheInv, CacheType
<1>4. Writes(t, new, t)
  BY <1>1, <1>2, <1>3, Zenon DEF Goes, Writes, Parsing
<1>5. Parses(t, new, t, pc[t], at[t] + 1, rows[t])
  <2>1. at[t] + 1 \in Nat
    BY <1>1
  <2>2. pc[t] \in Parsing
    BY Zenon DEF Goes
  <2> QED
    BY <1>1, <1>3, <1>4, <2>1, <2>2, Zenon DEF Goes, Parses
<1> QED
  BY <1>5, ParsesInv, Zenon

LEMMA Pass1Inv ==
  ASSUME SteadyTypes, CacheInv, NEW t \in Threads, Pass1(t)
  PROVE  CacheInv'
<1> DEFINE ts == Table(t)
           d == rows[t]
           i == at[t]
           mid == Declare(ts, d[i])
<1>1. /\ pc[t] = "pass1" /\ pc[t] \in Parsing /\ UNCHANGED <<req, ent, ptr, held>>
      /\ Steady(kind, width)
  BY SigSteady, Zenon DEF Pass1, Parsing
<1>2. /\ ent[t] \in DOMAIN entries /\ entries[ent[t]].writer = t
      /\ SoundTable(ts) /\ Rows(d) /\ d \in Seq(RowType)
      /\ Settled(ts) /\ FirstPass(ts, d, i) /\ i \in 1..(Len(d) + 1)
  BY <1>1, AtParse, Zenon
<1>3. Grows(ts, ts)
  BY Zenon DEF Grows
<1>4. CASE /\ i > Len(d) /\ at' = [at EXCEPT ![t] = 1] /\ Goto(t, "pass2")
           /\ UNCHANGED <<entries, rows, overrun>>
  <2>1. SecondPass(ts, d, 1)
    BY <1>1, <1>2, <1>4, FirstToSecond, Zenon
  <2>2. entries' = [entries EXCEPT ![ent[t]].types = ts, ![ent[t]].writer = t]
    <3>1. [entries EXCEPT ![ent[t]].writer = t]
            = [entries EXCEPT ![ent[t]].types = ts, ![ent[t]].writer = t]
      BY <1>2, OneField, Zenon DEF Table
    <3>2. entries[ent[t]] \in EntryRecords /\ entries \in Seq(EntryRecords)
      BY <1>2 DEF CacheInv, CacheType
    <3>3. [entries[ent[t]] EXCEPT !.writer = t] = entries[ent[t]]
      BY <1>2, <3>2, Zenon DEF EntryRecords
    <3>4. [entries EXCEPT ![ent[t]].writer = t] = entries
      BY <1>2, <3>2, <3>3
    <3> QED
      BY <1>4, <3>1, <3>4, Zenon
  <2>3. Writes(t, ts, t)
    BY <1>2, <1>3, <2>2, Zenon DEF Writes
  <2>4. rows' = [rows EXCEPT ![t] = d]
    BY <1>4, Zenon DEF CacheInv, CacheType
  <2>5. Parses(t, ts, t, "pass2", 1, d)
    BY <1>1, <1>2, <1>4, <2>1, <2>3, <2>4, Zenon DEF Parses, Goto, CacheInv, Parsing
  <2> QED
    BY <2>5, ParsesInv, Zenon
<1>5. CASE i <= Len(d)
  <2>1. i \in 1..Len(d) /\ Row(t) = d[i]
    <3>1. Row(t) = d[i]
      BY Zenon DEF Row
    <3> HIDE DEF d, i
    <3> QED
      BY <1>2, <1>5, <3>1
  <2>2. /\ SoundTable(mid) /\ Grows(ts, mid) /\ Settled(mid)
        /\ d[i].top \/ d[i].parent \in DOMAIN mid =>
             LET new == CountAttr(mid, d[i]) IN
             SoundTable(new) /\ Grows(ts, new) /\ Settled(new) /\ FirstPass(new, d, i + 1)
    BY <1>1, <1>2, <2>1, DeclareRow, Zenon
  <2> HIDE DEF mid
  <2>3. CASE EndParse(t, ts, "return")
    <3>1. Ends(t, ts, "return")
      BY <1>1, <1>2, <1>3, <2>3, Zenon DEF Ends
    <3> QED
      BY <3>1, EndsInv, Zenon
  <2>4. CASE EndParse(t, mid, "return")
    <3>1. Ends(t, mid, "return")
      BY <1>1, <2>2, <2>4, Zenon DEF Ends
    <3> QED
      BY <3>1, EndsInv, Zenon
  <2>5. CASE /\ d[i].top \/ d[i].parent \in DOMAIN mid
             /\ NextRow(t, CountAttr(mid, d[i])) /\ UNCHANGED overrun
    <3> DEFINE new == CountAttr(mid, d[i])
    <3>1. SoundTable(new) /\ Grows(ts, new) /\ Settled(new) /\ FirstPass(new, d, i + 1)
      BY <2>2, <2>5, Zenon
    <3>2. ~overrun' /\ pc[t] # "pass2" /\ NextRow(t, new)
      BY <1>1, <2>5, Zenon DEF CacheInv
    <3> HIDE DEF new
    <3>3. Goes(t, new)
      BY <1>1, <3>1, <3>2, Zenon DEF Goes
    <3> QED
      BY <3>3, GoesOn, Zenon
  <2>6. \/ EndParse(t, ts, "return")
        \/ EndParse(t, mid, "return")
        \/ /\ d[i].top \/ d[i].parent \in DOMAIN mid
           /\ NextRow(t, CountAttr(mid, d[i])) /\ UNCHANGED overrun
    <3>1. ~(i > Len(d))
      <4> HIDE DEF d, i
      <4> QED
        BY <1>5, <2>1
    <3> QED
      BY <2>1, <3>1, Zenon DEF Pass1, mid
  <2> QED
    BY <2>3, <2>4, <2>5, <2>6, Zenon
<1> QED
  BY <1>2, <1>4, <1>5, Zenon DEF Pass1

LEMMA Pass2Inv ==
  ASSUME SteadyTypes, CacheInv, NEW t \in Threads, Pass2(t)
  PROVE  CacheInv'
<1> DEFINE ts == Table(t)
           d == rows[t]
           i == at[t]
           p == d[i].parent
           new == [ts EXCEPT ![p] = Fill(@, d[i])]
<1>1. /\ pc[t] = "pass2" /\ pc[t] \in Parsing /\ UNCHANGED <<req, ent, ptr, held>>
      /\ Steady(kind, width)
  BY SigSteady, Zenon DEF Pass2, Parsing
<1>2. /\ SoundTable(ts) /\ Rows(d) /\ d \in Seq(RowType)
      /\ SecondPass(ts, d, i) /\ i \in 1..(Len(d) + 1)
  BY <1>1, AtParse, Zenon
<1>3. Grows(ts, ts)
  BY Zenon DEF Grows
<1>4. CASE i > Len(d) /\ EndParse(t, ts, "again")
  <2>1. Settled(ts)
    BY <1>1, <1>2, <1>4, EndsSettled, Zenon
  <2>2. Ends(t, ts, "again")
    BY <1>1, <1>2, <1>3, <1>4, <2>1, Zenon DEF Ends
  <2> QED
    BY <2>2, EndsInv, Zenon
<1>5. CASE i <= Len(d) /\ d[i].top /\ NextRow(t, ts) /\ UNCHANGED overrun
  <2>1. SecondPass(ts, d, i + 1)
    <3> HIDE DEF ts, d, i
    <3>1. i \in 1..Len(d) /\ d[i].top
      BY <1>2, <1>5
    <3> QED
      BY <1>1, <1>2, <3>1, SkipTop, Zenon
  <2>2. ~overrun' /\ pc[t] # "pass1"
    BY <1>1, <1>5, Zenon DEF CacheInv
  <2>3. Goes(t, ts)
    BY <1>1, <1>2, <1>3, <1>5, <2>1, <2>2, Zenon DEF Goes
  <2> QED
    BY <2>3, GoesOn, Zenon
<1>6. CASE /\ i <= Len(d) /\ ~d[i].top
           /\ Table(t)[p].kind = "object" /\ Table(t)[p].child = <<>>
           /\ EndParse(t, ts, "return")
  <2>1. Settled(ts)
    BY <1>1, <1>2, <1>6, EndsSettled, Zenon
  <2>2. Ends(t, ts, "return")
    BY <1>1, <1>2, <1>3, <1>6, <2>1, Zenon DEF Ends
  <2> QED
    BY <2>2, EndsInv, Zenon
<1>7. CASE /\ i <= Len(d) /\ ~d[i].top
           /\ IF Linked(t, d[i])
              THEN /\ NextRow(t, new)
                   /\ overrun' = (overrun \/ (new[p].kind = "object"
                                               /\ d[i].attr_no \notin DOMAIN new[p].child))
              ELSE EndParse(t, ts, "return")
  <2>1. i \in 1..Len(d)
    <3>1. i <= Len(d)
      BY <1>7, Zenon
    <3> HIDE DEF d, i
    <3> QED
      BY <1>2, <3>1
  <2>2. /\ p \in DOMAIN ts
        /\ SoundTable(new) /\ Grows(ts, new) /\ SecondPass(new, d, i + 1)
        /\ new[p].kind = "object" => d[i].attr_no \in DOMAIN new[p].child
    BY <1>1, <1>2, <1>7, <2>1, FillSound, Zenon
  <2>3. Linked(t, d[i])
    <3>1. i \in 1..((Len(d) + 1) - 1)
      <4> HIDE DEF d, i
      <4>1. Len(d) \in Nat
        BY <1>2
      <4> QED
        BY <2>1, <4>1
    <3> QED
      BY <1>2, <2>2, <3>1, Zenon DEF Linked, Known, SecondPass, Declared
  <2>4. NextRow(t, new) /\ ~overrun' /\ pc[t] # "pass1"
    BY <1>1, <1>7, <2>2, <2>3, Zenon DEF CacheInv
  <2> HIDE DEF new
  <2>5. Goes(t, new)
    BY <1>1, <2>2, <2>4, Zenon DEF Goes
  <2> QED
    BY <2>5, GoesOn, Zenon
<1> QED
  BY <1>4, <1>5, <1>6, <1>7, Zenon DEF Pass2, Row

---------------------------------------------------------------------------
LEMMA NextInv ==
  ASSUME SteadyTypes, CacheInv, [Next]_vars
  PROVE  CacheInv'
<1>1. CASE Next
  <2>1. PICK t \in Threads : Enter(t) \/ Step(t)
    BY <1>1, Zenon DEF Next
  <2> QED
    BY <2>1, EnterInv, GlobalInv, SearchEntryInv, MakeEntryInv, SearchTypeInv, QueryInv,
       BeginParseInv, Pass1Inv, Pass2Inv, ReturnInv, Zenon DEF Step
<1>2. CASE UNCHANGED vars
  BY <1>2, Zenon DEF vars, CacheInv, CacheType, ThreadInv, EntryInv, Table
<1> QED
  BY <1>1, <1>2, Zenon

LEMMA InvImplies ==
  ASSUME SteadyTypes, CacheInv
  PROVE  TypesSound
<1> SUFFICES ASSUME NEW t \in Threads, held[t] # None
             PROVE  Complete(held[t].ent, held[t].name)
  BY Zenon DEF TypesSound, ChildInBounds, HeldIsComplete, CacheInv
<1> DEFINE e == held[t].ent
           n == held[t].name
           ts == entries[e].types
<1>1. e \in DOMAIN entries /\ n \in DOMAIN ts /\ Done(ts[n], n)
  BY Zenon DEF CacheInv, ThreadInv
<1>2. SoundTable(ts)
  BY <1>1, Zenon DEF CacheInv, EntryInv
<1>3. Filled(ts[n], n, KnownIn(ts)) /\ ts[n] \in TypeRecords
  BY <1>1, <1>2, Zenon DEF SoundTable
<1>4. \A i \in DOMAIN ts[n].child : ts[n].child[i] \in KnownIn(ts)
  <2>1. CASE ts[n].kind = "object"
    <3>1. FilledObject(ts[n], n, KnownIn(ts)) /\ ts[n].child # <<>> /\ ts[n].init_attr_no >= width[n]
      BY <1>1, <1>3, <2>1, Zenon DEF Filled, Done
    <3>2. DOMAIN ts[n].child = 1..width[n]
      BY <3>1, Zenon DEF FilledObject
    <3> SUFFICES ASSUME NEW i \in 1..width[n]
                 PROVE  ts[n].child[i] \in KnownIn(ts)
      BY <3>2, Zenon
    <3>3. ts[n].init_attr_no \in Nat /\ width[n] \in Nat
      BY <1>1, <1>2, <1>3, SigSteady, Zenon DEF TypeRecords, SoundTable, Steady
    <3>4. i <= ts[n].init_attr_no
      <4> HIDE DEF ts, n
      <4>1. i \in Nat /\ i <= width[n]
        BY <3>3
      <4>2. ts[n].init_attr_no >= width[n]
        BY <3>1, Zenon
      <4> QED
        BY <3>3, <4>1, <4>2
    <3> QED
      BY <3>1, <3>4, Zenon DEF FilledObject
  <2>2. CASE ts[n].kind # "object"
    BY <1>3, <2>2, Zenon DEF Filled
  <2> QED
    BY <2>1, <2>2, Zenon
<1> QED
  BY <1>1, <1>4, Zenon DEF Complete, Done, KnownIn

(* When what the types are does not change on the server, every attribute is *)
(* written inside its array and every type that a caller uses is complete,   *)
(* for any number of threads that describe types at the same time and        *)
(* whichever allocation fails on the way (parser_complex, get_complex_type). *)
THEOREM TypesSoundHolds ==
  ASSUME SteadyTypes
  PROVE  Spec => []TypesSound
<1>1. Init => CacheInv
  BY InitInv, Zenon
<1>2. CacheInv /\ [Next]_vars => CacheInv'
  BY NextInv, Zenon
<1>3. CacheInv => TypesSound
  BY InvImplies, Zenon
<1> QED
  BY <1>1, <1>2, <1>3, PTL DEF Spec
=============================================================================
