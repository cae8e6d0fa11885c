--------------------------- MODULE BlacklistSpec ---------------------------
(* What the process-wide blacklist of ob_load_balance.c promises its callers: *)
(* a table from "host:port" keys to black times on which append, remove and   *)
(* find take effect at one moment between their call and their return.       *)
(* LoadBalance uses the table in this form; Blacklist implements it.         *)
EXTENDS Integers

CONSTANTS
  Threads,      \* threads that use the blacklist
  Keys,         \* "host:port" strings
  Times,        \* black times
  Ops,          \* the operations used: "append", "remove", "find"
  MallocFails   \* TRUE if calloc and realloc may return NULL

Absent == -1
Requests == [op : Ops, key : Keys, time : Times]
NoRequest == [op |-> "none"]

VARIABLES
  table,        \* Keys -> black time or Absent
  phase,        \* "idle", "pending" before the effect, "done" after it
  req,          \* the operation each thread is in
  ret           \* what find returned last: a black time or Absent

vars == <<table, phase, req, ret>>

Init ==
  /\ table = [k \in Keys |-> Absent]
  /\ phase = [t \in Threads |-> "idle"]
  /\ req = [t \in Threads |-> NoRequest]
  /\ ret = [t \in Threads |-> Absent]

Invoke(t) ==
  /\ phase[t] = "idle"
  /\ \E r \in Requests : req' = [req EXCEPT ![t] = r]
  /\ phase' = [phase EXCEPT ![t] = "pending"]
  /\ UNCHANGED <<table, ret>>

Pending(t, op) == phase[t] = "pending" /\ req[t].op = op
Finish(t) == phase' = [phase EXCEPT ![t] = "done"] /\ UNCHANGED req

(* append_blacklist keeps an entry that is already there.                    *)
AppendKey(t) ==
  /\ Pending(t, "append")
  /\ table' = [table EXCEPT ![req[t].key] = IF @ = Absent THEN req[t].time ELSE @]
  /\ Finish(t)
  /\ UNCHANGED ret

(* append_blacklist without memory loses the whole table.                    *)
LoseTable(t) ==
  /\ MallocFails
  /\ Pending(t, "append")
  /\ table' = [k \in Keys |-> Absent]
  /\ Finish(t)
  /\ UNCHANGED ret

RemoveKey(t) ==
  /\ Pending(t, "remove")
  /\ table' = [table EXCEPT ![req[t].key] = Absent]
  /\ Finish(t)
  /\ UNCHANGED ret

FindKey(t) ==
  /\ Pending(t, "find")
  /\ ret' = [ret EXCEPT ![t] = table[req[t].key]]
  /\ Finish(t)
  /\ UNCHANGED table

Respond(t) ==
  /\ phase[t] = "done"
  /\ phase' = [phase EXCEPT ![t] = "idle"]
  /\ req' = [req EXCEPT ![t] = NoRequest]
  /\ UNCHANGED <<table, ret>>

Next ==
  \E t \in Threads :
    Invoke(t) \/ AppendKey(t) \/ LoseTable(t) \/ RemoveKey(t) \/ FindKey(t) \/ Respond(t)

Spec == Init /\ [][Next]_vars
=============================================================================
