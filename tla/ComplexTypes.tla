---------------------------- MODULE ComplexTypes ----------------------------
(* The process-wide cache of object and collection types (ob_complex.c).     *)
(* global_hash has one entry per connection identity; an entry has its own   *)
(* lock and the types that its connections have asked the server about.      *)
(* Lookups hold a read lock for one search.  A description is parsed row by  *)
(* row under the write lock of the entry, while is_valid is read without it. *)
EXTENDS Integers, Sequences

CONSTANTS
  Threads,
  KeyOf,         \* host, port, user and db of each thread's connection, joined
  TooLong,       \* a key that does not fit into hash_key[200]
  Names,         \* type names
  Descriptions,  \* the answers the server may give about each name: sequences of rows
  Ops,           \* the entry points used: "get" and "local"
  MallocFails,   \* the allocations that may fail
  NoThread,
  MaxCalls       \* bound on the calls of a thread

Kinds == {"object", "collection", "xmltype", "scalar"}
Complex == {"object", "collection", "xmltype"}

(* A row of the answer: the type itself (top), or attribute attr_no of       *)
(* parent, whose type is child.                                              *)
RowType ==
  [top : BOOLEAN, parent : Names \cup {"none"}, child : Names \cup {"scalar"},
   kind : Kinds, attr_no : Nat]

ASSUME ComplexTypesAssumption ==
  /\ DOMAIN Descriptions \subseteq Names
  /\ \A n \in DOMAIN Descriptions : Descriptions[n] \subseteq Seq(RowType)
  /\ Ops \subseteq {"get", "local"}
  /\ MallocFails \subseteq {"global", "init", "entry", "type", "child"}
  /\ NoThread \notin Threads

(* What the types are does not change on the server: every description of a  *)
(* type gives it the same kind, and an object the same attributes, width of  *)
(* them.  The rows of an object's attributes come one after the other        *)
(* (ORDER BY ATTR_NO), and at least once after the last row that mentions    *)
(* the object as the type of something.                                      *)
AttrOf(r, n, kind) == ~r.top /\ r.parent = n /\ kind[n] = "object"
SteadyRows(d, kind, width) ==
  \A i \in 1..Len(d) :
    /\ IF d[i].kind = "scalar" THEN d[i].child = "scalar"
       ELSE d[i].child \in Names /\ kind[d[i].child] = d[i].kind
    /\ ~d[i].top => d[i].parent \in Names
    /\ \A n \in Names : AttrOf(d[i], n, kind) =>
         /\ d[i].attr_no \in 1..width[n]
         /\ d[i].attr_no > 1 =>
              i > 1 /\ AttrOf(d[i - 1], n, kind) /\ d[i - 1].attr_no = d[i].attr_no - 1
         /\ d[i].attr_no < width[n] =>
              i < Len(d) /\ AttrOf(d[i + 1], n, kind) /\ d[i + 1].attr_no = d[i].attr_no + 1
         /\ \E j \in 1..Len(d) :
              /\ AttrOf(d[j], n, kind) /\ d[j].attr_no = width[n]
              /\ \A k \in (j + 1)..Len(d) : d[k].kind = "scalar" \/ d[k].child # n
Steady(kind, width) ==
  /\ kind \in [Names -> Complex] /\ width \in [Names -> Nat]
  /\ \A n \in DOMAIN Descriptions : \A d \in Descriptions[n] : SteadyRows(d, kind, width)

VARIABLES
  ghash,    \* global_hash: "null", allocated ("raw"), "ready", or "freed"
  glock,    \* the thread that holds global_rwlock for writing
  entries,  \* the COMPLEX_HASH records
  pc,
  req,      \* operation and type name of the call
  ent,      \* complex_hash of the call
  ptr,      \* the call's type pointer is not NULL
  rows,     \* the result of the query
  at,       \* the row that is parsed
  held,     \* what the last call returned: a type the caller uses, or none
  overrun,  \* an attribute was written outside its array
  calls

vars == <<ghash, glock, entries, pc, req, ent, ptr, rows, at, held, overrun, calls>>
shared == <<ghash, glock, entries>>

PCs == {"idle", "ginit", "hashinit", "gsearch", "gmake", "tsearch", "check", "query",
        "parse", "pass1", "pass2", "again", "return"}

None == [ent |-> 0, name |-> "none"]
NoReq == [op |-> "none", name |-> "none"]
Unset == "unset"

Init ==
  /\ ghash = "null" /\ glock = NoThread /\ entries = <<>>
  /\ pc = [t \in Threads |-> "idle"]
  /\ req = [t \in Threads |-> NoReq]
  /\ ent = [t \in Threads |-> 0]
  /\ ptr = [t \in Threads |-> FALSE]
  /\ rows = [t \in Threads |-> <<>>]
  /\ at = [t \in Threads |-> 0]
  /\ held = [t \in Threads |-> None]
  /\ overrun = FALSE
  /\ calls = [t \in Threads |-> 0]

Goto(t, label) == pc' = [pc EXCEPT ![t] = label]

(* get_complex_type or get_complex_type_with_local is called; get_complex_   *)
(* hash looks at global_hash without the lock.                               *)
Enter(t) ==
  /\ pc[t] = "idle" /\ calls[t] < MaxCalls
  /\ \E op \in Ops, n \in DOMAIN Descriptions : req' = [req EXCEPT ![t] = [op |-> op, name |-> n]]
  /\ Goto(t, IF ghash = "null" THEN "ginit"
             ELSE IF KeyOf[t] = TooLong THEN "return" ELSE "gsearch")
  /\ ent' = [ent EXCEPT ![t] = 0]
  /\ ptr' = [ptr EXCEPT ![t] = FALSE]
  /\ held' = [held EXCEPT ![t] = None]
  /\ calls' = [calls EXCEPT ![t] = @ + 1]
  /\ UNCHANGED <<shared, rows, at, overrun>>

(* The second look, with the write lock; the pointer is set before the table *)
(* behind it is.                                                             *)
GlobalInit(t) ==
  /\ pc[t] = "ginit" /\ glock = NoThread
  /\ \/ /\ ghash # "null"
        /\ Goto(t, IF KeyOf[t] = TooLong THEN "return" ELSE "gsearch")
        /\ UNCHANGED <<ghash, glock>>
     \/ /\ ghash = "null"
        /\ ghash' = "raw" /\ glock' = t
        /\ Goto(t, "hashinit")
     \/ /\ ghash = "null" /\ "global" \in MallocFails
        /\ Goto(t, "return")
        /\ UNCHANGED <<ghash, glock>>
  /\ UNCHANGED <<entries, req, ent, ptr, rows, at, held, overrun, calls>>

(* hash_init; when it fails the table is freed and the pointer stays.        *)
HashInit(t) ==
  /\ pc[t] = "hashinit"
  /\ \/ /\ ghash' = "ready"
        /\ Goto(t, IF KeyOf[t] = TooLong THEN "return" ELSE "gsearch")
     \/ /\ "init" \in MallocFails
        /\ ghash' = "freed"
        /\ Goto(t, "return")
  /\ glock' = NoThread
  /\ UNCHANGED <<entries, req, ent, ptr, rows, at, held, overrun, calls>>

(* The search for the connection's entry.  When two threads have made one    *)
(* for the same key, the search may find either.                             *)
EntriesOf(key) == {e \in DOMAIN entries : entries[e].key = key}

SearchEntry(t) ==
  /\ pc[t] = "gsearch" /\ glock = NoThread
  /\ \/ /\ \E e \in EntriesOf(KeyOf[t]) : ent' = [ent EXCEPT ![t] = e]
        /\ Goto(t, "tsearch")
     \/ /\ EntriesOf(KeyOf[t]) = {}
        /\ Goto(t, "gmake")
        /\ UNCHANGED ent
  /\ UNCHANGED <<shared, req, ptr, rows, at, held, overrun, calls>>

(* The entry is made under the write lock, without a second search.          *)
MakeEntry(t) ==
  /\ pc[t] = "gmake" /\ glock = NoThread
  /\ \/ /\ entries' = Append(entries, [key |-> KeyOf[t], writer |-> NoThread, types |-> <<>>])
        /\ ent' = [ent EXCEPT ![t] = Len(entries) + 1]
        /\ Goto(t, "tsearch")
     \/ /\ "entry" \in MallocFails
        /\ Goto(t, "return")
        /\ UNCHANGED <<entries, ent>>
  /\ UNCHANGED <<ghash, glock, req, ptr, rows, at, held, overrun, calls>>

Table(t) == entries[ent[t]].types
Known(t, n) == n \in DOMAIN Table(t)
Valid(t) == ptr[t] /\ Table(t)[req[t].name].is_valid

(* The search for the type in the entry.                                     *)
SearchType(t) ==
  /\ pc[t] \in {"tsearch", "again"} /\ entries[ent[t]].writer = NoThread
  /\ ptr' = [ptr EXCEPT ![t] = Known(t, req[t].name)]
  /\ Goto(t, IF pc[t] = "tsearch" /\ req[t].op = "get" THEN "check" ELSE "return")
  /\ UNCHANGED <<shared, req, ent, rows, at, held, overrun, calls>>

(* is_valid, read without the lock.                                          *)
Check(t) ==
  /\ pc[t] = "check"
  /\ Goto(t, IF Valid(t) THEN "return" ELSE "query")
  /\ UNCHANGED <<shared, req, ent, ptr, rows, at, held, overrun, calls>>

(* complex_mysql_init and the queries of get_type_from_server.               *)
Query(t) ==
  /\ pc[t] = "query"
  /\ \/ /\ \E d \in Descriptions[req[t].name] : rows' = [rows EXCEPT ![t] = d]
        /\ Goto(t, "parse")
     \/ /\ Goto(t, "return")
        /\ UNCHANGED rows
  /\ UNCHANGED <<shared, req, ent, ptr, at, held, overrun, calls>>

BeginParse(t) ==
  /\ pc[t] = "parse" /\ entries[ent[t]].writer = NoThread
  /\ entries' = [entries EXCEPT ![ent[t]].writer = t]
  /\ at' = [at EXCEPT ![t] = 1]
  /\ Goto(t, "pass1")
  /\ UNCHANGED <<ghash, glock, req, ent, ptr, rows, held, overrun, calls>>

EndParse_KeepsLock(t, types, label) ==
  /\ entries' = [entries EXCEPT ![ent[t]].types = types,
                               ![ent[t]].writer = IF label = "return" THEN @ ELSE NoThread]
  /\ at' = [at EXCEPT ![t] = 0]
  /\ rows' = [rows EXCEPT ![t] = <<>>]
  /\ Goto(t, label)
  /\ UNCHANGED overrun
EndParse(t, types, label) ==
  /\ entries' = [entries EXCEPT ![ent[t]].types = types, ![ent[t]].writer = NoThread]
  /\ at' = [at EXCEPT ![t] = 0]
  /\ rows' = [rows EXCEPT ![t] = <<>>]
  /\ Goto(t, label)
  /\ UNCHANGED overrun

NextRow(t, types) ==
  /\ entries' = [entries EXCEPT ![ent[t]].types = types]
  /\ at' = [at EXCEPT ![t] = @ + 1]
  /\ UNCHANGED <<pc, rows>>

Row(t) == rows[t][at[t]]
Put(types, n, type) == [m \in DOMAIN types \cup {n} |-> IF m = n THEN type ELSE types[m]]

(* First pass: a type that is new gets a record, a known one starts again,   *)
(* except for init_attr_no and child.                                        *)
Declare(types, row) ==
  IF row.kind = "scalar" THEN types
  ELSE LET n == row.child
           type == IF n \in DOMAIN types THEN types[n]
                   ELSE [kind |-> row.kind, attr_no |-> 0, init_attr_no |-> 0, child |-> <<>>,
                         is_valid |-> FALSE]
       IN Put(types, n, [type EXCEPT !.attr_no = 0, !.is_valid = type.kind = "xmltype"])

CountAttr(types, row) ==
  IF ~row.top /\ types[row.parent].kind = "object" /\ types[row.parent].attr_no < row.attr_no
  THEN [types EXCEPT ![row.parent].attr_no = row.attr_no]
  ELSE types

Pass1(t) ==
  /\ pc[t] = "pass1"
  /\ \/ /\ at[t] > Len(rows[t])
        /\ at' = [at EXCEPT ![t] = 1]
        /\ Goto(t, "pass2")
        /\ UNCHANGED <<entries, rows, overrun>>
     \/ /\ at[t] <= Len(rows[t])
        /\ LET types == Declare(Table(t), Row(t))
           IN IF Row(t).top \/ Row(t).parent \in DOMAIN types
              THEN NextRow(t, CountAttr(types, Row(t))) /\ UNCHANGED overrun
              ELSE EndParse(t, types, "return")
     \/ /\ at[t] <= Len(rows[t]) /\ "type" \in MallocFails
        /\ Row(t).kind \in Complex /\ ~Known(t, Row(t).child)
        /\ EndParse(t, Table(t), "return")
  /\ UNCHANGED <<ghash, glock, req, ent, ptr, held, calls>>

(* Second pass: the attributes.  An object counts the rows it has seen and   *)
(* is valid when it has seen attr_no of them.                                *)
FillObject_ValidFirst(type, row) ==
  LET child == IF type.child = <<>> THEN [i \in 1..type.attr_no |-> Unset] ELSE type.child
  IN [type EXCEPT !.child = [i \in DOMAIN child |-> IF i = row.attr_no THEN row.child ELSE child[i]],
                  !.init_attr_no = @ + 1,
                  !.is_valid = TRUE]
FillObject(type, row) ==
  LET child == IF type.child = <<>> THEN [i \in 1..type.attr_no |-> Unset] ELSE type.child
  IN [type EXCEPT !.child = [i \in DOMAIN child |-> IF i = row.attr_no THEN row.child ELSE child[i]],
                  !.init_attr_no = @ + 1,
                  !.is_valid = @ \/ type.init_attr_no + 1 = type.attr_no]

Fill(type, row) ==
  CASE type.kind = "object" -> FillObject(type, row)
    [] type.kind = "collection" -> [type EXCEPT !.child = <<row.child>>, !.is_valid = TRUE]
    [] OTHER -> type

(* The parent and a child of an object or collection type are in the table.  *)
Linked(t, row) ==
  Known(t, row.parent) /\ (row.kind \in {"object", "collection"} => Known(t, row.child))

Pass2(t) ==
  /\ pc[t] = "pass2"
  /\ \/ /\ at[t] > Len(rows[t])
        /\ EndParse(t, Table(t), "again")
     \/ /\ at[t] <= Len(rows[t]) /\ Row(t).top
        /\ NextRow(t, Table(t))
        /\ UNCHANGED overrun
     \/ /\ at[t] <= Len(rows[t]) /\ ~Row(t).top
        /\ LET types == [Table(t) EXCEPT ![Row(t).parent] = Fill(@, Row(t))]
               parent == types[Row(t).parent]
           IN IF Linked(t, Row(t))
              THEN /\ NextRow(t, types)
                   /\ overrun' = (overrun \/ (parent.kind = "object"
                                               /\ Row(t).attr_no \notin DOMAIN parent.child))
              ELSE EndParse(t, Table(t), "return")
     \/ /\ at[t] <= Len(rows[t]) /\ ~Row(t).top /\ "child" \in MallocFails
        /\ Table(t)[Row(t).parent].kind = "object" /\ Table(t)[Row(t).parent].child = <<>>
        /\ EndParse(t, Table(t), "return")
  /\ UNCHANGED <<ghash, glock, req, ent, ptr, held, calls>>

(* A type that is not valid is not returned; is_valid is read without the    *)
(* lock once more.                                                           *)
Return(t) ==
  /\ pc[t] = "return"
  /\ held' = [held EXCEPT ![t] = IF Valid(t) THEN [ent |-> ent[t], name |-> req[t].name] ELSE None]
  /\ req' = [req EXCEPT ![t] = NoReq]
  /\ ent' = [ent EXCEPT ![t] = 0]
  /\ ptr' = [ptr EXCEPT ![t] = FALSE]
  /\ rows' = [rows EXCEPT ![t] = <<>>]
  /\ Goto(t, "idle")
  /\ UNCHANGED <<shared, at, overrun, calls>>

Step(t) ==
  \/ GlobalInit(t) \/ HashInit(t) \/ SearchEntry(t) \/ MakeEntry(t) \/ SearchType(t)
  \/ Check(t) \/ Query(t) \/ BeginParse(t) \/ Pass1(t) \/ Pass2(t) \/ Return(t)

Next == \E t \in Threads : Enter(t) \/ Step(t)

Spec == Init /\ [][Next]_vars

(* The scheduler runs every thread that can take a step, and queries end.    *)
FairSpec == Spec /\ \A t \in Threads : WF_vars(Step(t))

---------------------------------------------------------------------------
(* Properties.                                                               *)

TypeRecords ==
  [kind : Complex, is_valid : BOOLEAN, attr_no : Nat, init_attr_no : Nat,
   child : Seq(Names \cup {"scalar", Unset})]

(* The cache, its two levels of locks and every thread's place in          *)
(* get_type and get_complex_type are well formed.                          *)
TypeOK ==
  /\ ghash \in {"null", "raw", "ready", "freed"}
  /\ glock \in Threads \cup {NoThread}
  /\ \A e \in DOMAIN entries :
       /\ entries[e].writer \in Threads \cup {NoThread}
       /\ \A n \in DOMAIN entries[e].types : n \in Names /\ entries[e].types[n] \in TypeRecords
  /\ pc \in [Threads -> PCs]
  /\ \A t \in Threads : ent[t] \in 0..Len(entries) /\ (ptr[t] => Known(t, req[t].name))

(* The first look at global_hash takes no lock and may see a table that is   *)
(* not initialised yet; still no thread searches or extends it before it is, *)
(* because the lock is taken for the search.                                 *)
SearchesReady ==
  [][\A t \in Threads :
       pc[t] \in {"gsearch", "gmake"} /\ pc'[t] # pc[t] => ghash = "ready"]_vars

(* No attribute is written outside the array that was allocated for attr_no  *)
(* attributes, although attr_no is counted anew by each description.         *)
ChildInBounds == ~overrun

Complete(e, n) ==
  LET type == entries[e].types[n]
  IN /\ type.kind # "xmltype" => type.child # <<>>
     /\ \A i \in DOMAIN type.child :
          type.child[i] \in DOMAIN entries[e].types \cup {"scalar"}

(* A type that a call has returned, and that its caller now uses without any *)
(* lock, has an entry for every attribute in child, each of a known type,    *)
(* even while another thread parses a new description of it.                 *)
HeldIsComplete ==
  \A t \in Threads : held[t] # None => Complete(held[t].ent, held[t].name)

(* A call returns: no path keeps a lock, and no thread waits for itself.     *)
CallReturns == \A t \in Threads : (pc[t] # "idle") ~> (pc[t] = "idle")

(* A type stays as it was returned: attr_no is the number of its attributes. *)
HeldIsStable ==
  \A t \in Threads :
    held[t] # None => LET type == entries[held[t].ent].types[held[t].name]
                      IN type.kind = "object" => type.attr_no = Len(type.child)

(* The types inside a returned type are complete as well.                    *)
HeldIsDeep ==
  \A t \in Threads :
    held[t] # None =>
      LET types == entries[held[t].ent].types
      IN \A i \in DOMAIN types[held[t].name].child :
           types[held[t].name].child[i] \in DOMAIN types
             => Complete(held[t].ent, types[held[t].name].child[i])

(* A connection finds what an earlier one with the same identity has stored: *)
(* there is one entry per key.                                               *)
OneEntryPerKey ==
  \A e, f \in DOMAIN entries : entries[e].key = entries[f].key => e = f

(* "ReInit node's info in the query": once a description has been parsed to  *)
(* its end, the type it describes is valid.                                  *)
DescribedIsValid ==
  \A t \in Threads :
    pc[t] = "again" /\ entries[ent[t]].writer = NoThread /\ Known(t, req[t].name)
      => Table(t)[req[t].name].is_valid

(* The types that threads share are sound, although a description is       *)
(* parsed again into an entry that other threads hold: every attribute is  *)
(* written inside its array, and what a caller uses without a lock is      *)
(* complete (parser_complex, get_complex_type).                            *)
TypesSound ==
  /\ ChildInBounds
  /\ HeldIsComplete
=============================================================================
