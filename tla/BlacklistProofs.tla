-------------------------- MODULE BlacklistProofs ---------------------------
(* Proofs about Blacklist for any number of threads, keys and times.  They    *)
(* assume that the first call is made alone (~Cold); RaceConfined says what   *)
(* happens otherwise.                                                         *)
EXTENDS Blacklist, TLAPS

(* Only the first call initialises the mutex, and it is alone.               *)
StartInv ==
  /\ ~inited => \A t \in Threads : pc[t] \in {"idle", "init"}
  /\ \A t, u \in Threads : Starting(t) /\ u # t => pc[u] = "idle"

(* The lock: whoever is inside holds it, alone, and nobody will reset it.    *)
LockInv ==
  /\ StartInv
  /\ \A t \in Threads : Critical(t) => locked
  /\ MutualExclusion

(* What each position in the three operations knows about the array.         *)
PlaceInv(t) ==
  /\ pc[t] \in {"prepare", "write", "bump"} => req[t].op = "append"
  /\ pc[t] \in {"shift", "drop"} => req[t].op = "remove" /\ list # NULL
  /\ pc[t] = "scan" /\ req[t].op = "append" => list # NULL /\ count + 1 < max
  /\ pc[t] = "write" =>
       list # NULL /\ count + 1 < max /\ Hits(list, count, req[t].key) = {}
  /\ pc[t] = "bump" =>
       /\ list # NULL /\ count + 1 < max /\ Hits(list, count, req[t].key) = {}
       /\ list[count + 1] = [key |-> req[t].key, time |-> req[t].time]
  /\ pc[t] = "shift" => at[t] \in 1..count /\ list[at[t]].key = req[t].key
  /\ pc[t] = "drop" => count > 0 /\ list[count].key = NoKey

(* The array: room for one more, and only the slot that remove_blacklist is  *)
(* about to count off is empty.                                              *)
ListInv ==
  list # NULL =>
    /\ count < max /\ max > 1
    /\ \A i \in 1..count :
         list[i].key = NoKey => i = count /\ \E t \in Threads : pc[t] = "drop"
    /\ \A i, j \in 1..count : list[i].key = list[j].key => i = j

IInv ==
  TypeOK /\ LockInv /\ ListInv /\ \A t \in Threads : PlaceInv(t)
---------------------------------------------------------------------------
(* A thread outside the lock knows nothing about the array.                  *)
LEMMA OutsideInv ==
  ASSUME NEW t \in Threads, ~Critical(t)
  PROVE  PlaceInv(t)
BY Zenon DEF PlaceInv, Critical, CriticalPCs

LEMMA InitInv ==
  ASSUME ~Cold, Init
  PROVE  IInv
<1>1. TypeOK
  <2>1. inited \in BOOLEAN /\ locked \in BOOLEAN
    BY BlacklistAssumption, Zenon DEF Init
  <2>2. pc \in [Threads -> PCs] /\ req \in [Threads -> Requests \cup {NoRequest}]
    BY Zenon DEF Init, PCs
  <2>3. at \in [Threads -> Nat \ {0}] /\ ret \in [Threads -> Nat \cup {Absent}]
    BY DEF Init
  <2> QED
    BY <2>1, <2>2, <2>3, Zenon DEF Init, TypeOK
<1>2. \A t \in Threads : pc[t] = "idle"
  BY Zenon DEF Init
<1>3. LockInv /\ \A t \in Threads : PlaceInv(t)
  BY <1>2, Zenon DEF Init, LockInv, StartInv, Starting, MutualExclusion, Critical, CriticalPCs, PlaceInv
<1>4. ListInv
  BY Zenon DEF Init, ListInv
<1> QED
  BY <1>1, <1>3, <1>4, Zenon DEF IInv

(* No key is stored twice, so the loops find the only entry of a key.        *)
LEMMA FirstHit ==
  ASSUME count \in Nat, ListInv, NEW k, NEW i \in Hits(list, count, k)
  PROVE  /\ list # NULL /\ i \in 1..count /\ list[i].key = k
         /\ First(Hits(list, count, k)) = i
<1>1. list # NULL /\ Hits(list, count, k) = {j \in 1..count : list[j].key = k}
  BY Zenon DEF Hits
<1>2. \A j \in Hits(list, count, k) : i = j
  BY <1>1, Zenon DEF ListInv
<1>3. i <= i
  BY <1>1
<1> QED
  BY <1>1, <1>2, <1>3, Zenon DEF First

(* Typing.                                                                   *)
LEMMA TypeStep ==
  ASSUME IInv, NEW t \in Threads, Enter(t) \/ Step(t)
  PROVE  TypeOK'
<1> USE BlacklistAssumption DEF TypeOK, PCs, Goto, data
<1>0. TypeOK /\ PlaceInv(t) /\ ListInv
  BY Zenon DEF IInv
<1>1. CASE Enter(t)
  BY <1>0, <1>1 DEF Enter
<1>2. CASE InitBlacklist(t)
  BY <1>0, <1>2, Zenon DEF InitBlacklist
<1>3. CASE MutexInit(t)
  BY <1>0, <1>3, Zenon DEF MutexInit
<1>4. CASE Lock(t)
  BY <1>0, <1>4, Zenon DEF Lock
<1>5. CASE Prepare(t)
  <2>1. EmptySlot \in Slots
    BY Zenon DEF EmptySlot, Slots
  <2>2. list' = NULL \/ list' \in [1..max' -> Slots]
    BY <1>0, <1>5, <2>1 DEF Prepare
  <2>3. count' \in Nat /\ max' \in Nat
    BY <1>0, <1>5 DEF Prepare
  <2> QED
    BY <1>0, <1>5, <2>2, <2>3, Zenon DEF Prepare
<1>6. CASE Scan(t)
  <2> DEFINE hits == Hits(list, count, req[t].key)
  <2>1. ASSUME hits # {}
        PROVE  First(hits) \in Nat \ {0} /\ list[First(hits)].time \in Nat
    <3>1. PICK i \in hits : TRUE
      BY <2>1, Zenon
    <3>2. list # NULL /\ i \in 1..count /\ First(hits) = i
      BY <1>0, <3>1, FirstHit, Zenon
    <3>3. count < max
      BY <1>0, <3>2, Zenon DEF ListInv
    <3> QED
      BY <1>0, <3>2, <3>3 DEF Slots
  <2>2. at' \in [Threads -> Nat \ {0}] /\ ret' \in [Threads -> Nat \cup {Absent}]
    BY <1>0, <1>6, <2>1, Zenon DEF Scan
  <2> QED
    BY <1>0, <1>6, <2>2, Zenon DEF Scan
<1>7. CASE Write(t)
  BY <1>0, <1>7, Zenon DEF Write, Slots, Requests, PlaceInv
<1>8. CASE Bump(t)
  BY <1>0, <1>8 DEF Bump
<1>9. CASE Shift(t)
  <2>1. EmptySlot \in Slots
    BY Zenon DEF EmptySlot, Slots
  <2>2. list \in [1..max -> Slots] /\ count < max
    BY <1>0, <1>9, Zenon DEF Shift, PlaceInv, ListInv
  <2>3. list' \in [1..max -> Slots]
    BY <1>0, <1>9, <2>1, <2>2 DEF Shift
  <2> QED
    BY <1>0, <1>9, <2>3, Zenon DEF Shift
<1>10. CASE Drop(t)
  BY <1>0, <1>10 DEF Drop, PlaceInv
<1>11. CASE Unlock(t)
  <2>1. req' \in [Threads -> Requests \cup {NoRequest}] /\ at' \in [Threads -> Nat \ {0}]
    BY <1>0, <1>11 DEF Unlock
  <2>2. \A u \in Threads : pc'[u] # "idle" => req'[u] \in Requests
    BY <1>0, <1>11, Zenon DEF Unlock
  <2> QED
    BY <1>0, <1>11, <2>1, <2>2, Zenon DEF Unlock
<1> QED
  BY <1>1, <1>2, <1>3, <1>4, <1>5, <1>6, <1>7, <1>8, <1>9, <1>10, <1>11, Zenon DEF Step

(* The first call stays alone until the mutex is initialised.                *)
LEMMA StartStep ==
  ASSUME ~Cold, IInv, NEW t \in Threads, Enter(t) \/ Step(t)
  PROVE  StartInv'
<1> USE DEF StartInv, Starting, TypeOK, Goto
<1>0. TypeOK /\ StartInv
  BY Zenon DEF IInv, LockInv
<1>1. CASE Enter(t)
  BY <1>0, <1>1, Zenon DEF Enter
<1>2. CASE InitBlacklist(t)
  BY <1>0, <1>2, Zenon DEF InitBlacklist
<1>3. CASE MutexInit(t)
  BY <1>0, <1>3, Zenon DEF MutexInit
<1>4. CASE Lock(t) \/ Prepare(t) \/ Scan(t) \/ Write(t) \/ Bump(t) \/ Shift(t) \/ Drop(t) \/ Unlock(t)
  <2>1. pc[t] \notin {"idle", "init", "mutex"} /\ inited' = inited
    BY <1>4, Zenon DEF Lock, Prepare, Scan, Write, Bump, Shift, Drop, Unlock
  <2>2. PICK label \in PCs \ {"init", "mutex"} : pc' = [pc EXCEPT ![t] = label]
    BY <1>4, Zenon DEF Lock, Prepare, Scan, Write, Bump, Shift, Drop, Unlock, PCs
  <2>3. inited /\ \A u \in Threads : ~Starting(u)
    BY <1>0, <2>1, Zenon
  <2> QED
    BY <1>0, <2>1, <2>2, <2>3, Zenon
<1> QED
  BY <1>1, <1>2, <1>3, <1>4, Zenon DEF Step

(* The lock.                                                                 *)
LEMMA LockStep ==
  ASSUME ~Cold, IInv, NEW t \in Threads, Enter(t) \/ Step(t)
  PROVE  LockInv'
<1> USE DEF MutualExclusion, Critical, CriticalPCs, TypeOK, Goto
<1> DEFINE Held == (\A u \in Threads : Critical(u) => locked) /\ MutualExclusion
<1> SUFFICES Held'
  BY StartStep, Zenon DEF LockInv
<1>0. TypeOK /\ Held
  BY Zenon DEF IInv, LockInv
<1>1. CASE Enter(t)
  BY <1>0, <1>1, Zenon DEF Enter
<1>2. CASE InitBlacklist(t)
  BY <1>0, <1>2, Zenon DEF InitBlacklist
<1>3. CASE MutexInit(t)
  <2>1. \A u \in Threads : ~Critical(u)
    BY <1>3, Zenon DEF MutexInit, IInv, LockInv, StartInv, Starting
  <2> QED
    BY <1>0, <1>3, <2>1, Zenon DEF MutexInit
<1>4. CASE Lock(t)
  BY <1>0, <1>4 DEF Lock
<1>5. CASE Prepare(t)
  BY <1>0, <1>5, Zenon DEF Prepare
<1>6. CASE Scan(t)
  BY <1>0, <1>6, Zenon DEF Scan
<1>7. CASE Write(t)
  BY <1>0, <1>7, Zenon DEF Write
<1>8. CASE Bump(t)
  BY <1>0, <1>8, Zenon DEF Bump
<1>9. CASE Shift(t)
  BY <1>0, <1>9, Zenon DEF Shift
<1>10. CASE Drop(t)
  BY <1>0, <1>10, Zenon DEF Drop
<1>11. CASE Unlock(t)
  BY <1>0, <1>11, Zenon DEF Unlock
<1> QED
  BY <1>1, <1>2, <1>3, <1>4, <1>5, <1>6, <1>7, <1>8, <1>9, <1>10, <1>11, Zenon DEF Step

(* The array.  Steps outside the lock leave it and the thread that may be    *)
(* counting a slot off alone.                                                *)
LEMMA ListStep ==
  ASSUME IInv, NEW t \in Threads, Enter(t) \/ Step(t)
  PROVE  ListInv'
<1> USE DEF Goto, data
<1>0. /\ TypeOK /\ LockInv /\ ListInv /\ PlaceInv(t)
      /\ \A u \in Threads : u # t /\ Critical(t) => pc[u] # "drop"
  BY Zenon DEF IInv, LockInv, MutualExclusion, Critical, CriticalPCs
<1>1. ASSUME UNCHANGED data, pc[t] # "drop", \A u \in Threads : u # t => pc'[u] = pc[u]
      PROVE  ListInv'
  BY <1>0, <1>1, Zenon DEF ListInv
<1>2. CASE Enter(t) \/ InitBlacklist(t) \/ MutexInit(t) \/ Lock(t) \/ Scan(t) \/ Unlock(t)
  BY <1>0, <1>1, <1>2, Zenon DEF Enter, InitBlacklist, MutexInit, Lock, Scan, Unlock, TypeOK
<1>3. CASE Prepare(t)
  <2>1. pc[t] = "prepare" /\ \A u \in Threads : pc[u] # "drop"
    BY <1>0, <1>3, Zenon DEF Prepare, Critical, CriticalPCs
  <2>2. CASE list = NULL
    BY <1>0, <1>3, <2>1, <2>2, BlacklistAssumption DEF Prepare, ListInv, TypeOK
  <2>3. CASE list # NULL /\ list' # NULL
    <3>1. count' = count /\ max' \in Nat /\ count' < max' /\ max' > 1
      <4>1. count \in Nat /\ max \in Nat /\ count < max /\ max > 1
        BY <1>0, <2>3, Zenon DEF ListInv, TypeOK
      <4>2. count' = count /\ (max' = max \/ max' = 2 * max)
        BY <1>3, <2>3, Zenon DEF Prepare
      <4> QED
        BY <4>1, <4>2
    <3>2. ASSUME NEW i \in 1..count PROVE list'[i] = list[i]
      <4>1. i \in 1..(2 * max) /\ i <= max
        BY <1>0, <2>3 DEF ListInv, TypeOK
      <4> QED
        BY <1>3, <2>3, <4>1, Zenon DEF Prepare
    <3> QED
      BY <1>0, <2>1, <2>3, <3>1, <3>2, ZenonT(40) DEF ListInv, TypeOK
  <2> QED
    BY <2>2, <2>3, Zenon DEF ListInv
<1>4. CASE Write(t)
  <2>1. count' = count /\ max' = max /\ \A i \in 1..count : list'[i] = list[i]
    BY <1>0, <1>4 DEF Write, TypeOK, PlaceInv, ListInv
  <2>2. list # NULL /\ \A u \in Threads : pc[u] # "drop"
    BY <1>0, <1>4, Zenon DEF Write, PlaceInv, Critical, CriticalPCs
  <2> QED
    BY <1>0, <2>1, <2>2, Zenon DEF ListInv, TypeOK
<1>5. CASE Bump(t)
  <2>1. /\ list # NULL /\ list' = list /\ count' = count + 1 /\ max' = max
        /\ count + 1 < max /\ list[count + 1].key = req[t].key
        /\ \A i \in 1..count : list[i].key # req[t].key
    BY <1>0, <1>5 DEF Bump, PlaceInv, Hits
  <2>2. req[t].key \in Keys /\ req[t].key # NoKey
    BY <1>0, <1>5, BlacklistAssumption, Zenon DEF TypeOK, Bump, Requests
  <2>3. \A u \in Threads : pc[u] # "drop"
    BY <1>0, <1>5, Zenon DEF Bump, Critical, CriticalPCs
  <2>4. \A i \in 1..count : list[i].key # NoKey
    BY <1>0, <2>1, <2>3, Zenon DEF ListInv
  <2>5. \A i \in 1..count' : i \in 1..count \/ i = count + 1
    BY <1>0, <2>1 DEF TypeOK
  <2>6. \A i \in 1..count' : list'[i].key # NoKey
    BY <2>1, <2>2, <2>4, <2>5, Zenon
  <2>7. \A i, j \in 1..count' : list'[i].key = list'[j].key => i = j
    BY <1>0, <2>1, <2>5 DEF ListInv
  <2> QED
    BY <1>0, <2>1, <2>6, <2>7, Zenon DEF ListInv, TypeOK
<1>6. CASE Shift(t)
  <2>1. list # NULL /\ count' = count /\ max' = max /\ pc'[t] = "drop" /\ at[t] \in 1..count
    BY <1>0, <1>6, Zenon DEF Shift, PlaceInv, TypeOK
  <2>2. \A i \in 1..count : list[i].key # NoKey
    <3>1. \A u \in Threads : pc[u] # "drop"
      BY <1>0, <1>6, Zenon DEF Shift, Critical, CriticalPCs
    <3> QED
      BY <1>0, <2>1, <3>1, Zenon DEF ListInv
  <2>3. /\ list'[count] = EmptySlot
        /\ \A i \in 1..(count - 1) :
             list'[i] = IF i < at[t] THEN list[i] ELSE list[i + 1]
    BY <1>0, <1>6, <2>1 DEF Shift, ListInv, TypeOK
  <2>4. \A i \in 1..count : list'[i].key = NoKey => i = count
    <3> SUFFICES ASSUME NEW i \in 1..count, i # count
                 PROVE  list'[i].key # NoKey
      BY Zenon
    <3>1. i \in 1..(count - 1) /\ i + 1 \in 1..count
      BY <1>0 DEF TypeOK
    <3>2. list'[i] = list[i] \/ list'[i] = list[i + 1]
      BY <2>3, <3>1, Zenon
    <3> QED
      BY <2>2, <3>1, <3>2, Zenon
  <2>5. \A i, j \in 1..count : list'[i].key = list'[j].key => i = j
    <3> SUFFICES ASSUME NEW i \in 1..count, NEW j \in 1..count, i < j,
                        list'[i].key = list'[j].key
                 PROVE  FALSE
      BY <1>0 DEF TypeOK
    <3>1. list'[i].key # NoKey
      BY <1>0, <2>4 DEF TypeOK
    <3>2. i \in 1..(count - 1) /\ j \in 1..(count - 1)
      BY <1>0, <2>3, <3>1 DEF TypeOK, EmptySlot
    <3>3. \A a, b \in 1..count : list[a].key = list[b].key => a = b
      BY <1>0, <2>1, Zenon DEF ListInv
    <3> DEFINE from(n) == IF n < at[t] THEN n ELSE n + 1
    <3>4. from(i) \in 1..count /\ from(j) \in 1..count /\ from(i) # from(j)
      BY <1>0, <2>1, <3>2 DEF TypeOK
    <3>5. list'[i] = list[from(i)] /\ list'[j] = list[from(j)]
      BY <2>3, <3>2, Zenon
    <3> QED
      BY <3>3, <3>4, <3>5, Zenon
  <2> QED
    BY <1>0, <2>1, <2>4, <2>5, Zenon DEF ListInv, TypeOK
<1>7. CASE Drop(t)
  <2>1. list # NULL /\ list' = list /\ count > 0 /\ count' = count - 1 /\ max' = max
    BY <1>0, <1>7, Zenon DEF Drop, PlaceInv
  <2>2. \A i \in 1..(count - 1) : list[i].key # NoKey
    BY <1>0, <2>1 DEF ListInv, TypeOK
  <2> QED
    BY <1>0, <2>1, <2>2 DEF ListInv, TypeOK
<1> QED
  BY <1>2, <1>3, <1>4, <1>5, <1>6, <1>7, Zenon DEF Step

(* What the thread that moves knows afterwards.                              *)
LEMMA PlaceStep ==
  ASSUME IInv, NEW t \in Threads, Enter(t) \/ Step(t)
  PROVE  PlaceInv(t)'
<1> USE DEF Goto, data
<1>0. TypeOK /\ ListInv /\ PlaceInv(t)
  BY Zenon DEF IInv
<1>1. CASE Enter(t) \/ InitBlacklist(t) \/ MutexInit(t) \/ Unlock(t)
  <2>1. pc'[t] \in {"init", "lock", "mutex", "idle"}
    BY <1>0, <1>1, Zenon DEF Enter, InitBlacklist, MutexInit, Unlock, TypeOK
  <2> QED
    BY <2>1, Zenon DEF PlaceInv
<1>2. CASE Lock(t)
  <2>1. /\ pc'[t] = IF req[t].op = "append" THEN "prepare" ELSE "scan"
        /\ req' = req
    BY <1>0, <1>2, Zenon DEF Lock, TypeOK
  <2> QED
    BY <2>1, Zenon DEF PlaceInv
<1>3. CASE Prepare(t)
  <2>1. pc'[t] \in {"unlock", "scan"} /\ (pc'[t] = "scan" => list' # NULL)
    BY <1>0, <1>3, Zenon DEF Prepare, TypeOK
  <2>2. list' # NULL => count' + 1 < max'
    BY <1>0, <1>3, BlacklistAssumption DEF Prepare, TypeOK, ListInv
  <2> QED
    BY <2>1, <2>2, Zenon DEF PlaceInv
<1>4. CASE Scan(t)
  <2> DEFINE hits == Hits(list, count, req[t].key)
  <2>1. UNCHANGED <<list, count, max, req>> /\ Hits(list, count, req[t].key)' = hits
    BY <1>4, Zenon DEF Scan, Hits
  <2>2. CASE req[t].op = "append" /\ hits = {}
    <3>1. pc'[t] = "write" /\ list # NULL /\ count + 1 < max
      BY <1>0, <1>4, <2>2, Zenon DEF Scan, TypeOK, PlaceInv
    <3> QED
      BY <2>1, <2>2, <3>1, Zenon DEF PlaceInv
  <2>3. CASE req[t].op = "remove" /\ hits # {}
    <3>1. pc'[t] = "shift" /\ at'[t] = First(hits)
      BY <1>0, <1>4, <2>3, Zenon DEF Scan, TypeOK
    <3>2. PICK i \in hits : TRUE
      BY <2>3, Zenon
    <3>3. list # NULL /\ First(hits) \in 1..count /\ list[First(hits)].key = req[t].key
      BY <1>0, <3>2, FirstHit DEF TypeOK
    <3> QED
      BY <2>1, <2>3, <3>1, <3>3, Zenon DEF PlaceInv
  <2>4. CASE /\ ~(req[t].op = "append" /\ hits = {})
             /\ ~(req[t].op = "remove" /\ hits # {})
    <3>1. pc'[t] = "unlock"
      BY <1>0, <1>4, <2>4, Zenon DEF Scan, TypeOK
    <3> QED
      BY <3>1, Zenon DEF PlaceInv
  <2> QED
    BY <2>2, <2>3, <2>4, Zenon
<1>5. CASE Write(t)
  <2>1. /\ pc'[t] = "bump" /\ UNCHANGED <<count, max, req>>
        /\ list # NULL /\ list \in [1..max -> Slots] /\ count + 1 < max
        /\ count + 1 \in 1..max /\ Hits(list, count, req[t].key) = {} /\ req[t].op = "append"
    BY <1>0, <1>5 DEF Write, PlaceInv, TypeOK
  <2>2. /\ list'[count + 1] = [key |-> req[t].key, time |-> req[t].time]
        /\ \A i \in 1..count : list'[i] = list[i]
    BY <1>0, <1>5, <2>1 DEF Write, TypeOK
  <2>3. list' # NULL
    BY <1>5, <2>1 DEF Write, NULL
  <2>4. Hits(list, count, req[t].key)' = {}
    BY <1>0, <2>1, <2>2, <2>3, ZenonT(20) DEF Hits, TypeOK
  <2> QED
    BY <2>1, <2>2, <2>3, <2>4, Zenon DEF PlaceInv
<1>6. CASE Bump(t) \/ Drop(t)
  <2>1. pc'[t] = "unlock"
    BY <1>0, <1>6, Zenon DEF Bump, Drop, TypeOK
  <2> QED
    BY <2>1, Zenon DEF PlaceInv
<1>7. CASE Shift(t)
  <2>1. /\ pc'[t] = "drop" /\ UNCHANGED <<count, max, req>> /\ req[t].op = "remove"
        /\ list # NULL /\ list \in [1..max -> Slots] /\ count \in 1..max /\ count > 0
    BY <1>0, <1>7 DEF Shift, PlaceInv, TypeOK, ListInv
  <2>2. list' # NULL /\ list'[count] = EmptySlot
    BY <1>7, <2>1 DEF Shift, NULL
  <2> QED
    BY <2>1, <2>2 DEF PlaceInv, EmptySlot
<1> QED
  BY <1>1, <1>2, <1>3, <1>4, <1>5, <1>6, <1>7, Zenon DEF Step

(* The others: outside the lock when the step touches the array.             *)
LEMMA OthersStep ==
  ASSUME IInv, NEW t \in Threads, Enter(t) \/ Step(t),
         NEW u \in Threads, u # t
  PROVE  PlaceInv(u)'
<1> USE DEF Goto, data
<1>0. TypeOK /\ LockInv /\ PlaceInv(u)
  BY Zenon DEF IInv
<1>1. pc'[u] = pc[u] /\ req'[u] = req[u] /\ at'[u] = at[u]
  BY <1>0, Zenon DEF TypeOK, Step, Enter, InitBlacklist, MutexInit, Lock, Prepare, Scan,
              Write, Bump, Shift, Drop, Unlock
<1>2. CASE Critical(t)
  <2>1. ~Critical(u)'
    BY <1>0, <1>1, <1>2, Zenon DEF LockInv, MutualExclusion, Critical
  <2> QED
    BY <2>1, Zenon DEF PlaceInv, Critical, CriticalPCs
<1>3. CASE ~Critical(t)
  <2>1. UNCHANGED data
    BY <1>3, Zenon DEF Critical, CriticalPCs, Step, Enter, InitBlacklist, MutexInit, Lock,
                Prepare, Scan, Write, Bump, Shift, Drop, Unlock
  <2>2. Hits(list, count, req[u].key)' = Hits(list, count, req[u].key)
    BY <1>1, <2>1, Zenon DEF Hits
  <2> QED
    BY <1>0, <1>1, <2>1, <2>2, Zenon DEF PlaceInv
<1> QED
  BY <1>2, <1>3, Zenon

LEMMA StepInv ==
  ASSUME ~Cold, IInv, [Next]_vars
  PROVE  IInv'
<1>1. CASE UNCHANGED vars
  BY <1>1 DEF IInv, vars, TypeOK, LockInv, StartInv, Starting, MutualExclusion,
              Critical, ListInv, PlaceInv, Hits
<1>2. ASSUME NEW t \in Threads, Enter(t) \/ Step(t)
      PROVE  IInv'
  <2>1. \A u \in Threads : PlaceInv(u)'
    BY <1>2, PlaceStep, OthersStep, Zenon
  <2> QED
    BY <1>2, <2>1, TypeStep, LockStep, ListStep, Zenon DEF IInv
<1> QED
  BY <1>1, <1>2, Zenon DEF Next

THEOREM Invariance ==
  ASSUME ~Cold
  PROVE  Spec => []IInv
<1>1. Init => IInv
  BY InitInv, Zenon
<1>2. IInv /\ [Next]_vars => IInv'
  BY StepInv, Zenon
<1> QED
  BY <1>1, <1>2, PTL DEF Spec

(* Blacklist's variables keep their types when the first call is made alone. *)
THEOREM TypeCorrect ==
  ASSUME ~Cold
  PROVE  Spec => []TypeOK
BY Invariance, PTL DEF IInv

(* No two threads are inside append_, remove_ and is_at_blacklist's lock at   *)
(* the same time, for any number of threads.                                 *)
THEOREM MutualExclusionHolds ==
  ASSUME ~Cold
  PROVE  Spec => []MutualExclusion
<1>1. IInv => MutualExclusion
  BY Zenon DEF IInv, LockInv
<1> QED
  BY <1>1, Invariance, PTL

(* The array never overflows, never holds a key twice, and remove_blacklist  *)
(* only shifts out an entry that is there, for any capacity and keys.        *)
THEOREM ArrayOKHolds ==
  ASSUME ~Cold
  PROVE  Spec => []ArrayOK
<1>1. IInv => ArrayOK
  <2> SUFFICES ASSUME IInv PROVE ArrayOK
    BY Zenon
  <2>1. TypeOK /\ ListInv /\ \A t \in Threads : PlaceInv(t)
    BY Zenon DEF IInv
  <2>2. ASSUME NEW t \in Threads
        PROVE  /\ pc[t] \in {"write", "bump", "shift", "drop"} => list # NULL
               /\ pc[t] = "write" => count + 1 < max
               /\ pc[t] = "shift" => at[t] <= count /\ list[at[t]].key = req[t].key
    <3>1. PlaceInv(t) /\ count \in Nat
      BY <2>1, Zenon DEF TypeOK
    <3> QED
      BY <3>1 DEF PlaceInv
  <2> QED
    BY <2>1, <2>2, Zenon DEF ListInv, ArrayOK
<1> QED
  BY <1>1, Invariance, PTL

---------------------------------------------------------------------------
(* Blacklist implements BlacklistSpec: the proof, for any number of threads, *)
(* keys and times, from the invariant of BlacklistProofs.                    *)
Unique(l, n) == \A i, j \in 1..n : l[i].key = l[j].key => i = j

(* With unique keys the table reads off the only slot of a key.              *)
LEMMA TableHit ==
  ASSUME NEW l, NEW n \in Nat, l # NULL, Unique(l, n),
         NEW k \in Keys, NEW i \in 1..n, l[i].key = k
  PROVE  TableOf(l, n)[k] = l[i].time
<1>1. i \in Hits(l, n, k) /\ \A j \in Hits(l, n, k) : j = i
  BY Zenon DEF Hits, Unique
<1>2. First(Hits(l, n, k)) = i
  <2>1. i <= i
    OBVIOUS
  <2> QED
    BY <1>1, <2>1, Zenon DEF First
<1> QED
  BY <1>1, <1>2, Zenon DEF TableOf

LEMMA TableMiss ==
  ASSUME NEW l, NEW n, NEW k \in Keys, l = NULL \/ \A i \in 1..n : l[i].key # k
  PROVE  TableOf(l, n)[k] = Absent
BY Zenon DEF TableOf, Hits

(* Moving the slots behind position p one down and emptying the last one     *)
(* leaves no slot with the key that was at p.                                *)
LEMMA ShiftMiss ==
  ASSUME NEW l, NEW m, NEW n \in Nat, NEW p \in 1..n, NEW k \in Keys,
         Unique(l, n), l[p].key = k, m[n] = EmptySlot,
         \A i \in 1..(n - 1) : m[i] = IF i < p THEN l[i] ELSE l[i + 1]
  PROVE  TableOf(m, n)[k] = Absent
<1>1. ASSUME NEW i \in 1..n PROVE m[i].key # k
  <2>1. CASE i = n
    BY <2>1, BlacklistAssumption DEF EmptySlot
  <2>2. CASE i # n /\ i < p
    <3>1. i \in 1..(n - 1) /\ i # p
      BY <2>2
    <3>2. m[i] = l[i]
      BY <2>2, <3>1, Zenon
    <3> QED
      BY <3>1, <3>2, Zenon DEF Unique
  <2>3. CASE i # n /\ ~(i < p)
    <3>1. i \in 1..(n - 1) /\ i + 1 \in 1..n /\ i + 1 # p
      BY <2>3
    <3>2. m[i] = l[i + 1]
      BY <2>3, <3>1, Zenon
    <3> QED
      BY <3>1, <3>2, Zenon DEF Unique
  <2> QED
    BY <2>1, <2>2, <2>3, Zenon
<1> QED
  BY <1>1, TableMiss

LEMMA TableReads ==
  ASSUME NEW l, NEW n, NEW k \in Keys
  PROVE  TableOf(l, n)[k] =
           IF Hits(l, n, k) = {} THEN Absent ELSE l[First(Hits(l, n, k))].time
BY Zenon DEF TableOf

LEMMA TableFcn ==
  ASSUME NEW l, NEW n
  PROVE  TableOf(l, n) = [k \in Keys |-> TableOf(l, n)[k]]
BY Zenon DEF TableOf

(* Arrays that agree on their first n slots stand for the same table.        *)
LEMMA TableSame ==
  ASSUME NEW l, NEW m, NEW n \in Nat, l # NULL, m # NULL,
         Unique(l, n), \A i \in 1..n : m[i] = l[i]
  PROVE  TableOf(m, n) = TableOf(l, n)
<1>1. Unique(m, n)
  BY Zenon DEF Unique
<1>2. ASSUME NEW k \in Keys
      PROVE  TableOf(m, n)[k] = TableOf(l, n)[k]
  <2>1. CASE \E i \in 1..n : l[i].key = k
    BY <1>1, <2>1, TableHit
  <2>2. CASE \A i \in 1..n : l[i].key # k
    BY <2>2, TableMiss
  <2> QED
    BY <2>1, <2>2, Zenon
<1> QED
  BY <1>2, TableFcn, Zenon

LEMMA PhaseStep ==
  ASSUME TypeOK, NEW t \in Threads, NEW label, Goto(t, label)
  PROVE  /\ Phase' = [Phase EXCEPT ![t] = PhaseOf(label)]
         /\ PhaseOf(label) = Phase[t] => Phase' = Phase
BY Zenon DEF TypeOK, Goto, Phase

LEMMA InitRefines ==
  ASSUME Init
  PROVE  Abstract!Init
<1>1. Table = [k \in Keys |-> Absent]
  BY Zenon DEF Init, Table, TableOf, Hits
<1>2. Phase = [t \in Threads |-> "idle"]
  BY Zenon DEF Init, Phase, PhaseOf
<1> QED
  BY <1>1, <1>2, Zenon DEF Init, Abstract!Init, Abstract!NoRequest, NoRequest,
                    Abstract!Absent, Absent

(* Every step is a step of BlacklistSpec or leaves its variables unchanged.  *)
(* An append takes effect when it counts its slot, finds the key or fails to *)
(* allocate, a remove when it shifts, a find when it scans.                  *)
LEMMA StepRefines ==
  ASSUME IInv, IInv', NEW t \in Threads, Enter(t) \/ Step(t)
  PROVE  [Abstract!Next]_(Abstract!vars)
<1> DEFINE k == req[t].key
<1>0. /\ TypeOK /\ ListInv /\ PlaceInv(t) /\ count \in Nat
      /\ pc[t] # "idle" => req[t] \in Requests
      /\ list # NULL => list \in [1..max -> Slots] /\ count < max /\ Unique(list, count)
  BY Zenon DEF IInv, TypeOK, ListInv, Unique
<1>1. ASSUME Table' = Table, Phase' = Phase, req' = req, ret' = ret
      PROVE  [Abstract!Next]_(Abstract!vars)
  BY <1>1, Zenon DEF Abstract!vars
<1>2. ASSUME UNCHANGED data PROVE Table' = Table
  BY <1>2, Zenon DEF data, Table
<1>3. CASE Enter(t)
  <2>1. /\ UNCHANGED <<data, ret>> /\ Goto(t, "init")
        /\ \E r \in Requests : req' = [req EXCEPT ![t] = r]
    BY <1>3, Zenon DEF Enter
  <2>2. Phase[t] = "idle" /\ Phase' = [Phase EXCEPT ![t] = "pending"]
    BY <1>0, <1>3, <2>1, PhaseStep DEF Enter, Phase, PhaseOf
  <2>3. Abstract!Invoke(t)
    BY <1>2, <2>1, <2>2, Zenon DEF Abstract!Invoke, Requests, Abstract!Requests
  <2> QED
    BY <2>3, Zenon DEF Abstract!Next
<1>4. CASE InitBlacklist(t) \/ MutexInit(t) \/ Lock(t)
  <2>1. UNCHANGED <<data, req, ret>>
    BY <1>4, Zenon DEF InitBlacklist, MutexInit, Lock
  <2>2. Phase[t] = "pending"
    BY <1>4, Zenon DEF InitBlacklist, MutexInit, Lock, Phase, PhaseOf
  <2>3. PICK label \in {"lock", "mutex", "prepare", "scan"} : Goto(t, label)
    BY <1>4, Zenon DEF InitBlacklist, MutexInit, Lock
  <2>4. Phase' = Phase
    BY <1>0, <2>2, <2>3, PhaseStep, Zenon DEF PhaseOf
  <2> QED
    BY <1>1, <1>2, <2>1, <2>4, Zenon
<1>5. CASE Unlock(t)
  <2>1. Abstract!Respond(t)
    BY <1>0, <1>2, <1>5, PhaseStep, Zenon DEF Unlock, Abstract!Respond, Phase, PhaseOf, NoRequest, Abstract!NoRequest
  <2> QED
    BY <2>1, Zenon DEF Abstract!Next
<1>6. ASSUME req[t].op = "append", MallocFails, Phase[t] = "pending", list' = NULL,
             Goto(t, "unlock"), UNCHANGED <<req, ret>>
      PROVE  [Abstract!Next]_(Abstract!vars)
  <2>1. Table' = [x \in Keys |-> Absent]
    BY <1>6, TableMiss, TableFcn DEF Table
  <2>2. Phase' = [Phase EXCEPT ![t] = "done"]
    BY <1>0, <1>6, PhaseStep, Zenon DEF PhaseOf
  <2>3. Abstract!LoseTable(t)
    BY <1>6, <2>1, <2>2, Zenon DEF Abstract!LoseTable, Abstract!Pending, Abstract!Finish, Abstract!Absent, Absent
  <2> QED
    BY <2>3, Zenon DEF Abstract!Next
<1>7. CASE Prepare(t)
  <2>1. req[t].op = "append" /\ Phase[t] = "pending" /\ UNCHANGED <<req, ret>>
    BY <1>0, <1>7, Zenon DEF Prepare, PlaceInv, Phase, PhaseOf
  <2>2. CASE list' = NULL
    <3> DEFINE fresh == [i \in 1..CONNECT_CNT_INIT |-> EmptySlot]
               grown == [i \in 1..(2 * max) |-> IF i <= max THEN list[i] ELSE EmptySlot]
    <3>1. 1 \in DOMAIN fresh /\ (list # NULL => 1 \in DOMAIN grown)
      BY <1>0, BlacklistAssumption DEF TypeOK, ListInv
    <3>2. fresh # NULL /\ (list # NULL => grown # NULL)
      BY <3>1 DEF NULL
    <3> HIDE DEF fresh, grown
    <3>3. (list' = fresh \/ (list # NULL /\ (list' = grown \/ list' = list))) \/ MallocFails
      BY <1>7, Zenon DEF Prepare, data, fresh, grown
    <3>4. MallocFails /\ Goto(t, "unlock")
      BY <1>7, <2>2, <3>2, <3>3, Zenon DEF Prepare
    <3> QED
      BY <1>6, <2>1, <2>2, <3>4, Zenon
  <2>3. CASE list' # NULL
    <3>1. Goto(t, "scan")
      BY <1>7, <2>3, Zenon DEF Prepare
    <3>2. Phase' = Phase
      BY <1>0, <2>1, <3>1, PhaseStep DEF PhaseOf
    <3>3. CASE list = NULL
      <4>1. count' = 0
        BY <1>7, <3>3, Zenon DEF Prepare
      <4>2. \A x \in Keys : TableOf(list', 0)[x] = Absent /\ TableOf(list, count)[x] = Absent
        BY <3>3, TableMiss
      <4>3. Table' = Table
        BY <4>1, <4>2, TableFcn DEF Table
      <4> QED
        BY <1>1, <2>1, <3>2, <4>3, Zenon
    <3>4. CASE list # NULL
      <4>1. count' = count /\ \A i \in 1..count : list'[i] = list[i]
        BY <1>0, <1>7, <2>3, <3>4 DEF Prepare, TypeOK, data
      <4>2. Table' = Table
        BY <1>0, <2>3, <3>4, <4>1, TableSame, Zenon DEF Table
      <4> QED
        BY <1>1, <2>1, <3>2, <4>2, Zenon
    <3> QED
      BY <3>3, <3>4, Zenon
  <2> QED
    BY <2>2, <2>3, Zenon
<1>8. CASE Write(t)
  <2>1. UNCHANGED <<count, req, ret>> /\ Goto(t, "bump") /\ list # NULL /\ count + 1 < max
    BY <1>0, <1>8, Zenon DEF Write, PlaceInv
  <2>2. list' # NULL /\ \A i \in 1..count : list'[i] = list[i]
    BY <1>0, <1>8, <2>1 DEF Write, TypeOK, NULL
  <2>3. Table' = Table
    BY <1>0, <2>1, <2>2, TableSame, Zenon DEF Table
  <2>4. Phase[t] = "pending"
    BY <1>8, Zenon DEF Write, Phase, PhaseOf
  <2>5. Phase' = Phase
    BY <1>0, <2>1, <2>4, PhaseStep DEF PhaseOf
  <2> QED
    BY <1>1, <2>1, <2>3, <2>5, Zenon
<1>9. CASE Bump(t)
  <2>1. /\ list # NULL /\ list' = list /\ count' = count + 1 /\ UNCHANGED <<req, ret>>
        /\ Goto(t, "unlock") /\ req[t].op = "append" /\ Phase[t] = "pending"
        /\ list[count + 1].key = k /\ list[count + 1].time = req[t].time
        /\ \A i \in 1..count : list[i].key # k
    <3>1. pc[t] = "bump" /\ list' = list /\ count' = count + 1 /\ UNCHANGED <<req, ret>>
          /\ Goto(t, "unlock")
      BY <1>9, Zenon DEF Bump
    <3>2. /\ list # NULL /\ req[t].op = "append" /\ Hits(list, count, k) = {}
          /\ list[count + 1] = [key |-> k, time |-> req[t].time]
      BY <1>0, <3>1, Zenon DEF PlaceInv
    <3>3. \A i \in 1..count : list[i].key # k
      BY <3>2, Zenon DEF Hits
    <3>4. Phase[t] = "pending"
      BY <3>1, Zenon DEF Phase, PhaseOf
    <3> QED
      BY <3>1, <3>2, <3>3, <3>4
  <2>2. k \in Keys /\ Unique(list, count + 1)
    <3>1. k \in Keys
      BY <1>0, <1>9, Zenon DEF Bump, Requests
    <3>2. Unique(list, count)
      BY <1>0, <2>1, Zenon
    <3>3. ASSUME NEW i \in 1..(count + 1), NEW j \in 1..(count + 1), list[i].key = list[j].key
          PROVE  i = j
      <4>1. (i \in 1..count \/ i = count + 1) /\ (j \in 1..count \/ j = count + 1)
        BY <1>0
      <4> QED
        BY <2>1, <3>2, <3>3, <4>1, Zenon DEF Unique
    <3> QED
      BY <3>1, <3>3, Zenon DEF Unique
  <2>3. TableOf(list, count)[k] = Absent /\ TableOf(list, count + 1)[k] = req[t].time
    <3>1. count + 1 \in Nat /\ count + 1 \in 1..(count + 1)
      BY <1>0
    <3> HIDE DEF k
    <3>2. TableOf(list, count + 1)[k] = list[count + 1].time
      BY <2>1, <2>2, <3>1, TableHit, Zenon
    <3>3. TableOf(list, count)[k] = Absent
      BY <2>1, <2>2, TableMiss, Zenon
    <3> QED
      BY <2>1, <3>2, <3>3, Zenon
  <2>4. ASSUME NEW x \in Keys, x # k
        PROVE  TableOf(list, count + 1)[x] = TableOf(list, count)[x]
    <3>1. CASE \E i \in 1..count : list[i].key = x
      <4>1. PICK i \in 1..count : list[i].key = x
        BY <3>1, Zenon
      <4>2. count + 1 \in Nat /\ i \in 1..(count + 1)
        BY <1>0
      <4>3. TableOf(list, count + 1)[x] = list[i].time
        BY <2>1, <2>2, <4>1, <4>2, TableHit, Zenon
      <4>4. TableOf(list, count)[x] = list[i].time
        BY <1>0, <2>1, <4>1, TableHit, Zenon
      <4> QED
        BY <4>3, <4>4, Zenon
    <3>2. CASE \A i \in 1..count : list[i].key # x
      <4>1. \A i \in 1..(count + 1) : list[i].key # x
        BY <1>0, <2>1, <2>4, <3>2
      <4> QED
        BY <3>2, <4>1, TableMiss, Zenon
    <3> QED
      BY <3>1, <3>2, Zenon
  <2>5. Table' = [Table EXCEPT ![k] = req[t].time] /\ Table[k] = Absent
    BY <2>1, <2>2, <2>3, <2>4, TableFcn DEF Table
  <2>6. Phase' = [Phase EXCEPT ![t] = "done"]
    BY <1>0, <2>1, PhaseStep, Zenon DEF PhaseOf
  <2>7. Abstract!AppendKey(t)
    BY <2>1, <2>5, <2>6, Zenon DEF Abstract!AppendKey, Abstract!Pending, Abstract!Finish, Abstract!Absent, Absent
  <2> QED
    BY <2>7, Zenon DEF Abstract!Next
<1>10. CASE Drop(t)
  <2>1. /\ list # NULL /\ list' = list /\ count' = count - 1 /\ UNCHANGED <<req, ret>>
        /\ count > 0 /\ list[count].key = NoKey /\ Goto(t, "unlock") /\ Phase[t] = "done"
    BY <1>0, <1>10, Zenon DEF Drop, PlaceInv, Phase, PhaseOf
  <2>2. Unique(list, count - 1) /\ count - 1 \in Nat
    <3>1. count \in Nat /\ count > 0 /\ Unique(list, count)
      BY <1>0, <2>1, Zenon
    <3>2. count - 1 \in Nat /\ \A i \in 1..(count - 1) : i \in 1..count
      BY <3>1
    <3> QED
      BY <3>1, <3>2, Zenon DEF Unique
  <2>3. ASSUME NEW x \in Keys
        PROVE  TableOf(list, count - 1)[x] = TableOf(list, count)[x]
    <3>1. CASE \E i \in 1..(count - 1) : list[i].key = x
      <4>1. PICK i \in 1..(count - 1) : list[i].key = x
        BY <3>1, Zenon
      <4>2. i \in 1..count
        <5>1. count \in Nat
          BY <1>0, Zenon
        <5> QED
          BY <5>1
      <4>3. TableOf(list, count - 1)[x] = list[i].time
        BY <2>1, <2>2, <4>1, TableHit, Zenon
      <4>4. TableOf(list, count)[x] = list[i].time
        BY <1>0, <2>1, <4>1, <4>2, TableHit, Zenon
      <4> QED
        BY <4>3, <4>4, Zenon
    <3>2. CASE \A i \in 1..(count - 1) : list[i].key # x
      <4>1. \A i \in 1..count : list[i].key # x
        <5>1. \A i \in 1..count : i = count \/ i \in 1..(count - 1)
          BY <1>0, <2>1
        <5> QED
          BY <2>1, <2>3, <3>2, <5>1, BlacklistAssumption, Zenon
      <4> QED
        BY <3>2, <4>1, TableMiss, Zenon
    <3> QED
      BY <3>1, <3>2, Zenon
  <2>4. Table' = Table
    BY <2>1, <2>3, TableFcn, Zenon DEF Table
  <2>5. Phase' = Phase
    BY <1>0, <2>1, PhaseStep, Zenon DEF PhaseOf
  <2> QED
    BY <1>1, <2>1, <2>4, <2>5, Zenon
<1>11. CASE Shift(t)
  <2>1. /\ list # NULL /\ UNCHANGED <<count, req, ret>> /\ Goto(t, "drop")
        /\ req[t].op = "remove" /\ Phase[t] = "pending"
        /\ at[t] \in 1..count /\ list[at[t]].key = k /\ k \in Keys
    BY <1>0, <1>11, Zenon DEF Shift, PlaceInv, Phase, PhaseOf, Requests
  <2>2. /\ list' # NULL /\ list'[count] = EmptySlot
        /\ \A i \in 1..(count - 1) : list'[i] = IF i < at[t] THEN list[i] ELSE list[i + 1]
    <3>0. count \in Nat /\ max \in Nat /\ count < max /\ at[t] \in 1..count
      BY <1>0, <2>1, Zenon DEF TypeOK
    <3>1. count \in 1..max /\ \A i \in 1..(count - 1) : i \in 1..max
      BY <3>0
    <3>2. /\ DOMAIN list' = 1..max /\ list'[count] = EmptySlot
          /\ \A i \in 1..(count - 1) : list'[i] = IF i < at[t] THEN list[i] ELSE list[i + 1]
      BY <1>0, <1>11, <2>1, <3>1 DEF Shift
    <3>3. count \notin DOMAIN NULL
      BY <1>0, <2>1 DEF NULL
    <3> QED
      BY <3>1, <3>2, <3>3, Zenon
  <2>3. Unique(list', count)
    BY <1>0, <2>1, <2>2, Zenon DEF IInv, ListInv, Unique
  <2>4. TableOf(list', count)[k] = Absent
    <3>1. count \in Nat /\ Unique(list, count)
      BY <1>0, <2>1, Zenon
    <3> HIDE DEF k
    <3> QED
      BY <2>1, <2>2, <3>1, ShiftMiss
  <2>5. ASSUME NEW x \in Keys, x # k
        PROVE  TableOf(list', count)[x] = TableOf(list, count)[x]
    <3>1. CASE \E i \in 1..count : list[i].key = x
      <4>1. PICK i \in 1..count : list[i].key = x
        BY <3>1, Zenon
      <4>2. i # at[t]
        BY <2>1, <2>5, <4>1, Zenon
      <4> DEFINE j == IF i < at[t] THEN i ELSE i - 1
      <4>3. j \in 1..(count - 1) /\ j \in 1..count /\ i = IF j < at[t] THEN j ELSE j + 1
        BY <1>0, <2>1, <4>2
      <4>4. list'[j] = list[i]
        BY <2>2, <4>3, Zenon
      <4>5. TableOf(list', count)[x] = list'[j].time
        BY <1>0, <2>2, <2>3, <4>1, <4>3, <4>4, TableHit, Zenon
      <4>6. TableOf(list, count)[x] = list[i].time
        BY <1>0, <2>1, <4>1, TableHit, Zenon
      <4> QED
        BY <4>4, <4>5, <4>6, Zenon
    <3>2. CASE \A i \in 1..count : list[i].key # x
      <4>1. ASSUME NEW i \in 1..count PROVE list'[i].key # x
        <5>1. CASE i = count
          BY <2>2, <2>5, <5>1, BlacklistAssumption DEF EmptySlot
        <5>2. CASE i # count
          <6>1. i \in 1..(count - 1) /\ i + 1 \in 1..count
            BY <1>0, <5>2
          <6> QED
            BY <2>2, <3>2, <6>1, Zenon
        <5> QED
          BY <5>1, <5>2, Zenon
      <4> QED
        BY <3>2, <4>1, TableMiss, Zenon
    <3> QED
      BY <3>1, <3>2, Zenon
  <2>6. Table' = [Table EXCEPT ![k] = Absent]
    BY <2>1, <2>4, <2>5, TableFcn DEF Table
  <2>7. Phase' = [Phase EXCEPT ![t] = "done"]
    BY <1>0, <2>1, PhaseStep, Zenon DEF PhaseOf
  <2>8. Abstract!RemoveKey(t)
    BY <2>1, <2>6, <2>7, Zenon DEF Abstract!RemoveKey, Abstract!Pending, Abstract!Finish, Abstract!Absent, Absent
  <2> QED
    BY <2>8, Zenon DEF Abstract!Next
<1>12. CASE Scan(t)
  <2> DEFINE hits == Hits(list, count, k)
             op == req[t].op
             label == IF op = "append" /\ hits = {} THEN "write"
                      ELSE IF op = "remove" /\ hits # {} THEN "shift" ELSE "unlock"
  <2>1. /\ UNCHANGED <<list, count, max, req>> /\ Goto(t, label)
        /\ Phase[t] = "pending" /\ k \in Keys /\ op \in {"append", "remove", "find"}
        /\ Table' = Table
    BY <1>0, <1>12, BlacklistAssumption, Zenon DEF Scan, data, Phase, PhaseOf, Requests, Table
  <2>2. hits = {} => Table[k] = Absent
    BY <2>1, TableReads, Zenon DEF Table
  <2>3. hits # {} => Table[k] = list[First(hits)].time /\ Table[k] # Absent
    <3> SUFFICES ASSUME hits # {}
                 PROVE  Table[k] = list[First(hits)].time /\ Table[k] # Absent
      BY Zenon
    <3>1. PICK i \in hits : TRUE
      BY Zenon
    <3>2. list # NULL /\ i \in 1..count /\ First(hits) = i
      BY <1>0, <3>1, FirstHit, Zenon
    <3>3. list[i].time \in Nat
      BY <1>0, <3>2 DEF Slots, TypeOK
    <3>4. Table[k] = list[First(hits)].time
      BY <2>1, TableReads, Zenon DEF Table
    <3>5. list[First(hits)].time # Absent
      BY <3>2, <3>3 DEF Absent
    <3> QED
      BY <3>4, <3>5, Zenon
  <2>4. /\ label = "unlock" => Phase' = [Phase EXCEPT ![t] = "done"]
        /\ label # "unlock" => Phase' = Phase
    <3>1. label \in {"write", "shift", "unlock"}
      BY Zenon
    <3> HIDE DEF label
    <3>2. Phase' = [Phase EXCEPT ![t] = PhaseOf(label)]
      BY <1>0, <2>1, PhaseStep, Zenon
    <3>3. PhaseOf(label) = Phase[t] => Phase' = Phase
      BY <1>0, <2>1, PhaseStep, Zenon
    <3> QED
      BY <2>1, <3>1, <3>2, <3>3, Zenon DEF PhaseOf
  <2>6. op # "find" => ret' = ret
    BY <1>0, <1>12, Zenon DEF Scan, TypeOK
  <2>7. CASE label # "unlock"
    BY <1>1, <2>1, <2>4, <2>6, <2>7, Zenon
  <2>8. CASE op = "append" /\ hits # {}
    <3>1. Table' = [Table EXCEPT ![k] = IF @ = Absent THEN req[t].time ELSE @]
      BY <2>1, <2>3, <2>8, TableFcn, Zenon DEF Table
    <3>2. Abstract!AppendKey(t)
      BY <2>1, <2>4, <2>6, <2>8, <3>1, Zenon DEF Abstract!AppendKey, Abstract!Pending, Abstract!Finish, Abstract!Absent, Absent
    <3> QED
      BY <3>2, Zenon DEF Abstract!Next
  <2>9. CASE op = "remove" /\ hits = {}
    <3>1. Table' = [Table EXCEPT ![k] = Absent]
      BY <2>1, <2>2, <2>9, TableFcn, Zenon DEF Table
    <3>2. Abstract!RemoveKey(t)
      BY <2>1, <2>4, <2>6, <2>9, <3>1, Zenon DEF Abstract!RemoveKey, Abstract!Pending, Abstract!Finish, Abstract!Absent, Absent
    <3> QED
      BY <3>2, Zenon DEF Abstract!Next
  <2>10. CASE op = "find"
    <3>1. ret' = [ret EXCEPT ![t] = Table[k]]
      BY <1>12, <2>2, <2>3, <2>10, Zenon DEF Scan
    <3>2. Abstract!FindKey(t)
      BY <2>1, <2>4, <2>10, <3>1, Zenon DEF Abstract!FindKey, Abstract!Pending, Abstract!Finish
    <3> QED
      BY <3>2, Zenon DEF Abstract!Next
  <2> QED
    BY <2>1, <2>7, <2>8, <2>9, <2>10, Zenon
<1> QED
  BY <1>3, <1>4, <1>5, <1>7, <1>8, <1>9, <1>10, <1>11, <1>12, Zenon DEF Step

(* The array behind the mutex implements BlacklistSpec: append_, remove_ and  *)
(* is_at_blacklist act as if each took effect at one moment, for any number  *)
(* of threads, keys and times and any first capacity.                        *)
THEOREM Refinement ==
  ASSUME ~Cold
  PROVE  Spec => Refines
<1>1. Init => Abstract!Init
  BY InitRefines, Zenon
<1>2. IInv /\ IInv' /\ [Next]_vars => [Abstract!Next]_(Abstract!vars)
  <2> SUFFICES ASSUME IInv, IInv', [Next]_vars
               PROVE  [Abstract!Next]_(Abstract!vars)
    BY Zenon
  <2>1. CASE UNCHANGED vars
    BY <2>1, Zenon DEF vars, Abstract!vars, Table, Phase
  <2>2. CASE Next
    BY <2>2, StepRefines, Zenon DEF Next
  <2> QED
    BY <2>1, <2>2, Zenon
<1> QED
  BY <1>1, <1>2, Invariance, PTL DEF Spec, Refines, Abstract!Spec
=============================================================================
