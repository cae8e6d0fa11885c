----------------------------- MODULE Blacklist -----------------------------
(* The process-wide blacklist of libmariadb/ob_load_balance.c: a growing array *)
(* behind a mutex that the first caller initialises.                         *)
EXTENDS Integers

CONSTANTS
  Threads,           \* threads that use the blacklist
  Keys,              \* "host:port" strings
  Times,             \* black times
  Ops,               \* the operations used: "append", "remove", "find"
  NoKey,             \* the key of a zeroed slot: the empty string
  CONNECT_CNT_INIT,  \* first capacity of the array (32 in the code)
  MallocFails,       \* TRUE if calloc and realloc may return NULL
  Cold               \* TRUE: the first calls may be made at the same time

ASSUME BlacklistAssumption ==
  /\ Times \subseteq Nat
  /\ Ops \subseteq {"append", "remove", "find"}
  /\ NoKey \notin Keys
  /\ CONNECT_CNT_INIT \in Nat /\ CONNECT_CNT_INIT > 1
  /\ MallocFails \in BOOLEAN /\ Cold \in BOOLEAN

Absent == -1
Requests == [op : Ops, key : Keys, time : Times]
NoRequest == [op |-> "none"]
Slots == [key : Keys \cup {NoKey}, time : Nat]
EmptySlot == [key |-> NoKey, time |-> 0]
NULL == <<>>

VARIABLES
  inited,   \* the flag of init_blacklist
  locked,   \* blacklist_mtx
  list,     \* blacklist.list: NULL or max slots
  count,    \* blacklist.count
  max,      \* blacklist.max
  pc,       \* where each thread is
  req,      \* the operation each thread is in
  at,       \* idx of remove_blacklist
  ret       \* what is_at_blacklist returned last: a black time or Absent

vars == <<inited, locked, list, count, max, pc, req, at, ret>>
data == <<list, count, max>>

PCs == {"idle", "init", "mutex", "lock", "prepare", "scan", "write", "bump",
        "shift", "drop", "unlock"}
CriticalPCs == {"prepare", "scan", "write", "bump", "shift", "drop", "unlock"}

Init ==
  /\ inited = FALSE
  /\ locked = FALSE
  /\ list = NULL /\ count = 0 /\ max = 0
  /\ pc = [t \in Threads |-> "idle"]
  /\ req = [t \in Threads |-> NoRequest]
  /\ at = [t \in Threads |-> 1]
  /\ ret = [t \in Threads |-> Absent]

Goto(t, label) == pc' = [pc EXCEPT ![t] = label]

(* A call that initialises the mutex, or is about to.                        *)
Starting(t) == pc[t] = "mutex" \/ (pc[t] = "init" /\ ~inited)

(* append_blacklist, remove_blacklist or is_at_blacklist is called; unless   *)
(* Cold, not before the application's first call has initialised the mutex.  *)
Enter(t) ==
  /\ pc[t] = "idle"
  /\ Cold \/ \A u \in Threads : ~Starting(u)
  /\ \E r \in Requests : req' = [req EXCEPT ![t] = r]
  /\ Goto(t, "init")
  /\ UNCHANGED <<inited, locked, data, at, ret>>

(* ATOMIC_CAS_LONG: only the caller that finds 0 initialises the mutex, and  *)
(* the others do not wait for it.                                            *)
InitBlacklist_NoCas(t) ==
  /\ pc[t] = "init"
  /\ inited' = TRUE
  /\ Goto(t, "mutex")
  /\ UNCHANGED <<locked, data, req, at, ret>>
InitBlacklist(t) ==
  /\ pc[t] = "init"
  /\ inited' = TRUE
  /\ Goto(t, IF inited THEN "lock" ELSE "mutex")
  /\ UNCHANGED <<locked, data, req, at, ret>>

(* pthread_mutex_init stores an unlocked mutex.  A static mutex is all zeros *)
(* before that, which pthread_mutex_lock takes for an unlocked one.          *)
MutexInit(t) ==
  /\ pc[t] = "mutex"
  /\ locked' = FALSE
  /\ Goto(t, "lock")
  /\ UNCHANGED <<inited, data, req, at, ret>>

Lock(t) ==
  /\ pc[t] = "lock"
  /\ ~locked
  /\ locked' = TRUE
  /\ Goto(t, IF req[t].op = "append" THEN "prepare" ELSE "scan")
  /\ UNCHANGED <<inited, data, req, at, ret>>

(* append_blacklist: allocate the array, or double it when one slot is left. *)
(* A failed realloc leaves list NULL and the next append starts afresh.      *)
Prepare_NoGrowth(t) ==
  /\ pc[t] = "prepare"
  /\ IF list = NULL
       THEN /\ list' = [i \in 1..CONNECT_CNT_INIT |-> EmptySlot]
            /\ count' = 0
            /\ max' = CONNECT_CNT_INIT
       ELSE UNCHANGED data
  /\ Goto(t, "scan")
  /\ UNCHANGED <<inited, locked, req, at, ret>>
Prepare(t) ==
  /\ pc[t] = "prepare"
  /\ \/ /\ list = NULL
        /\ list' = [i \in 1..CONNECT_CNT_INIT |-> EmptySlot]
        /\ count' = 0
        /\ max' = CONNECT_CNT_INIT
     \/ /\ list = NULL /\ MallocFails
        /\ count' = 0
        /\ UNCHANGED <<list, max>>
     \/ /\ list # NULL /\ count >= max - 1
        /\ list' = [i \in 1..(2 * max) |-> IF i <= max THEN list[i] ELSE EmptySlot]
        /\ max' = 2 * max
        /\ UNCHANGED count
     \/ /\ list # NULL /\ count >= max - 1 /\ MallocFails
        /\ list' = NULL
        /\ UNCHANGED <<count, max>>
     \/ /\ list # NULL /\ count < max - 1
        /\ UNCHANGED data
  /\ Goto(t, IF list' = NULL THEN "unlock" ELSE "scan")
  /\ UNCHANGED <<inited, locked, req, at, ret>>

(* The slots of array l that hold key k, among the first n.                  *)
Hits(l, n, k) == IF l = NULL THEN {} ELSE {i \in 1..n : l[i].key = k}
First(S) == CHOOSE i \in S : \A j \in S : i <= j

(* The loop over the array, the same in all three operations.                *)
Scan_Stuck(t) ==
  LET hits == Hits(list, count, req[t].key)
      op == req[t].op
      stuck == op = "find" /\ hits = {} /\ count > 0
  IN /\ pc[t] = "scan"
     /\ at' = [at EXCEPT ![t] = IF op = "remove" /\ hits # {} THEN First(hits) ELSE @]
     /\ ret' = [ret EXCEPT ![t] =
                  IF op # "find" \/ stuck THEN @
                  ELSE IF hits = {} THEN Absent ELSE list[First(hits)].time]
     /\ Goto(t, IF stuck THEN "scan"
                ELSE IF op = "append" /\ hits = {} THEN "write"
                ELSE IF op = "remove" /\ hits # {} THEN "shift" ELSE "unlock")
     /\ UNCHANGED <<inited, locked, data, req>>
Scan(t) ==
  LET hits == Hits(list, count, req[t].key)
      op == req[t].op
  IN /\ pc[t] = "scan"
     /\ at' = [at EXCEPT ![t] = IF op = "remove" /\ hits # {} THEN First(hits) ELSE @]
     /\ ret' = [ret EXCEPT ![t] =
                  IF op # "find" THEN @
                  ELSE IF hits = {} THEN Absent ELSE list[First(hits)].time]
     /\ Goto(t, IF op = "append" /\ hits = {} THEN "write"
                ELSE IF op = "remove" /\ hits # {} THEN "shift" ELSE "unlock")
     /\ UNCHANGED <<inited, locked, data, req>>

(* append_blacklist: fill the next slot, then count it.                      *)
Write(t) ==
  /\ pc[t] = "write"
  /\ list' = [list EXCEPT ![count + 1] = [key |-> req[t].key, time |-> req[t].time]]
  /\ Goto(t, "bump")
  /\ UNCHANGED <<inited, locked, count, max, req, at, ret>>

Bump(t) ==
  /\ pc[t] = "bump"
  /\ count' = count + 1
  /\ Goto(t, "unlock")
  /\ UNCHANGED <<inited, locked, list, max, req, at, ret>>

(* remove_blacklist: move the entries behind idx down and zero the last one, *)
(* then count it off.                                                        *)
Shift_KeepsLast(t) ==
  /\ pc[t] = "shift"
  /\ list' = [list EXCEPT ![at[t]] = EmptySlot]
  /\ Goto(t, "drop")
  /\ UNCHANGED <<inited, locked, count, max, req, at, ret>>
Shift(t) ==
  /\ pc[t] = "shift"
  /\ list' = [i \in DOMAIN list |->
                IF i = count THEN EmptySlot
                ELSE IF at[t] <= i /\ i < count THEN list[i + 1] ELSE list[i]]
  /\ Goto(t, "drop")
  /\ UNCHANGED <<inited, locked, count, max, req, at, ret>>

Drop(t) ==
  /\ pc[t] = "drop"
  /\ count' = count - 1
  /\ Goto(t, "unlock")
  /\ UNCHANGED <<inited, locked, list, max, req, at, ret>>

Unlock(t) ==
  /\ pc[t] = "unlock"
  /\ locked' = FALSE
  /\ Goto(t, "idle")
  /\ req' = [req EXCEPT ![t] = NoRequest]
  /\ at' = [at EXCEPT ![t] = 1]
  /\ UNCHANGED <<inited, data, ret>>

Step(t) ==
  \/ InitBlacklist(t) \/ MutexInit(t) \/ Lock(t) \/ Prepare(t) \/ Scan(t)
  \/ Write(t) \/ Bump(t) \/ Shift(t) \/ Drop(t) \/ Unlock(t)

Next == \E t \in Threads : Enter(t) \/ Step(t)

Spec == Init /\ [][Next]_vars

(* The scheduler runs every thread that can take a step.                     *)
FairSpec == Spec /\ \A t \in Threads : WF_vars(Step(t))

---------------------------------------------------------------------------
(* Properties.                                                               *)

(* The array, its count and size, the mutex and what each thread carries   *)
(* from one step of an operation to the next are well formed.              *)
TypeOK ==
  /\ inited \in BOOLEAN /\ locked \in BOOLEAN
  /\ count \in Nat /\ max \in Nat
  /\ list = NULL \/ list \in [1..max -> Slots]
  /\ pc \in [Threads -> PCs]
  /\ req \in [Threads -> Requests \cup {NoRequest}]
  /\ \A t \in Threads : pc[t] # "idle" => req[t] \in Requests
  /\ at \in [Threads -> Nat \ {0}]
  /\ ret \in [Threads -> Nat \cup {Absent}]

Critical(t) == pc[t] \in CriticalPCs

(* Two threads are never inside the lock at the same time: re-entry through  *)
(* init_blacklist never resets a mutex that is in use.                       *)
MutualExclusion ==
  \A t, u \in Threads : Critical(t) /\ Critical(u) => t = u

(* The array is sound whatever the operations before: append_blacklist       *)
(* writes inside the allocation, remove_blacklist works on an entry that is  *)
(* there, and no key is stored twice.                                        *)
ArrayOK ==
  /\ list # NULL =>
       /\ count < max
       /\ \A i, j \in 1..count : list[i].key = list[j].key /\ i # j => list[i].key = NoKey
  /\ \A t \in Threads :
       /\ pc[t] \in {"write", "bump", "shift", "drop"} => list # NULL
       /\ pc[t] = "write" => count + 1 < max
       /\ pc[t] = "shift" => at[t] <= count /\ list[at[t]].key = req[t].key

(* Every path through the three operations unlocks blacklist_mtx.            *)
LockReleased == locked ~> ~locked

(* The mutex is initialised and nobody holds it.                             *)
Settled ==
  inited /\ ~locked /\ \A t \in Threads : pc[t] # "mutex" /\ ~Critical(t)

(* Whoever loses the race of the first calls may lock blacklist_mtx before   *)
(* its initialisation and share it with another thread.  The damage does not *)
(* outlive the start: once the mutex is initialised and nobody holds it, no  *)
(* two threads are ever inside together again.                               *)
RaceConfined == [](Settled => []MutualExclusion)

(* The table an array stands for, and how far each operation has got.        *)
TableOf(l, n) ==
  [k \in Keys |-> IF Hits(l, n, k) = {} THEN Absent ELSE l[First(Hits(l, n, k))].time]
PhaseOf(label) ==
  IF label = "idle" THEN "idle"
  ELSE IF label \in {"unlock", "drop"} THEN "done" ELSE "pending"

Table == TableOf(list, count)
Phase == [t \in Threads |-> PhaseOf(pc[t])]

Abstract ==
  INSTANCE BlacklistSpec WITH table <- Table, phase <- Phase

(* The three operations act on the array as if each took effect at once.     *)
Refines == Abstract!Spec
=============================================================================
