---------------------------- MODULE LoadBalance ----------------------------
(* Client-side load balancing: ob_mysql_real_connect and                     *)
(* ob_mysql_real_connect2 of libmariadb/ob_load_balance.c.                    *)
(*                                                                           *)
(* Any number of threads connect at the same time, each with its own address *)
(* lists and configuration, over one process-wide blacklist.  append_, is_at_*)
(* and remove_blacklist are atomic here; module Blacklist models the mutex   *)
(* and the array behind them and refines BlacklistSpec, which has the same   *)
(* three operations.                                                         *)
EXTENDS Integers, Sequences, FiniteSets, FiniteSetsExt

CONSTANTS
  Threads,          \* threads that call ob_mysql_real_connect
  Keys,             \* "host:port" strings, the keys of the blacklist
  Lists,            \* the address lists of a call: a sequence of sequences of Keys
  Configs,          \* the configurations a caller or a TNS description may give
  CONNECT_CNT_INIT, \* first capacity of connect_list (32 in the code)
  UsPerMs,          \* microseconds per millisecond (1000 in the code)
  UINT_RANGE,       \* number of values of an unsigned int (2^32 in the code)
  WordBytes,        \* bytes of an int64_t (8 in the code)
  ByteRange,        \* number of values of a byte (256 in the code)
  MallocFails,      \* TRUE if malloc, calloc and realloc may return NULL
  MaxTime,          \* bound: the clock stops here
  MaxCalls          \* bound: calls per thread

Modes == {"list", "tns"}
Options == {"RANDOM", "SERVERAFFINITY", "ROTATION"}
Strategies == {"NORMAL", "RETRY_DERUATION"}

(* The load-balancing fields of ObClientLbConfig (unsigned ints), with the   *)
(* entry point that is used and the strategy of the address lists.           *)
ConfigType ==
  [mode : Modes, option : Options, append_strategy : Strategies,
   append_duration : Nat, append_retrytimes : Nat, remove_timeout : Nat,
   retry_timeout : Nat, retry_all_downs : Nat]

ASSUME LoadBalanceAssumption ==
  /\ Lists \in Seq(Seq(Keys)) /\ Lists # <<>>
  /\ \A l \in 1..Len(Lists) : Lists[l] # <<>>
  /\ Configs \subseteq ConfigType /\ Configs # {}
  /\ \A c \in Configs : c.retry_all_downs < UINT_RANGE
  /\ CONNECT_CNT_INIT \in Nat /\ CONNECT_CNT_INIT > 1
  /\ UsPerMs \in Nat /\ UsPerMs > 0
  /\ UINT_RANGE \in Nat /\ \A l \in 1..Len(Lists) : Len(Lists[l]) < UINT_RANGE
  /\ WordBytes \in Nat /\ WordBytes > 0 /\ ByteRange \in Nat /\ ByteRange > 1
  /\ MallocFails \in BOOLEAN
  /\ MaxTime \in Nat /\ MaxCalls \in Nat

Absent == -1        \* the black_time of a key that is not on the blacklist

VARIABLES
  now,        \* get_current_time_us()
  blacklist,  \* the global blacklist: Keys -> black_time or Absent
  pc,         \* where each thread is in the call
  calls,      \* calls started by each thread
  cfg,        \* the caller's configuration
  downs,      \* config->retry_all_downs, counted down in the caller's object
  li,         \* the address list being tried
  arr,        \* addr_list->add_arr of the list being tried
  rot,        \* addr_list->rotation_flag
  idx,        \* index of the loops over add_arr
  cur,        \* curtime of check_ob_address_white
  addr,       \* the address chosen by get_ob_address_by_address_list
  start,      \* lb_starttime
  result,     \* how the last call ended
  \* history variables
  budget,     \* retry_all_downs when the call began
  fails,      \* failed connection attempts of the call
  hist,       \* with RETRY_DERUATION: times of the attempts on each address
  barred      \* time each address was last found blacklisted or down, or Absent

vars == <<now, blacklist, pc, calls, cfg, downs, li, arr, rot, idx, cur, addr,
          start, result, budget, fails, hist, barred>>
local == <<calls, cfg, downs, li, arr, rot, idx, cur, addr, start, result,
           budget, fails, hist, barred>>

PCs == {"idle", "load", "white", "get", "connect", "black", "append", "retry",
        "next"}
Results == {"none", "ok", "denied", "empty", "timeout", "downs"}

(* ObLbAddress with its ConnectInfo: "null" without one, "nolist" when its    *)
(* connect_list is NULL, "ok" when both are there (check_connect_info).      *)
Infos == {"null", "nolist", "ok"}
AddressType ==
  [state : {"BLACK", "WHITE"}, black_time : Nat, info : Infos,
   connect_max : Nat, connect_list : Seq(Nat)]

---------------------------------------------------------------------------
(* Helpers.                                                                  *)

(* Unsigned 32-bit product: the ms -> us conversions of the configuration.   *)
ToUs(ms) == (ms * UsPerMs) % UINT_RANGE

(* config->retry_all_downs-- on an unsigned int.                             *)
DecU(n) == (n + UINT_RANGE - 1) % UINT_RANGE

List(t) == Lists[li[t]]
Indices(t) == 1..Len(List(t))
Whites(t) == {i \in Indices(t) : arr[t][i].state = "WHITE"}

(* What malloc and realloc may do to a ConnectInfo.                          *)
AllocOutcomes == IF MallocFails THEN BOOLEAN ELSE {TRUE}
InfoOutcomes == IF MallocFails THEN Infos ELSE {"ok"}

(* connect_by_addresslist sets every address WHITE and allocates its         *)
(* ConnectInfo.                                                              *)
FreshAddress(info) ==
  [state |-> "WHITE", black_time |-> 0, info |-> info,
   connect_max |-> CONNECT_CNT_INIT, connect_list |-> <<>>]

(* init_connect_info: allocate a missing ConnectInfo, else grow connect_list *)
(* when only one slot is left.                                               *)
Grown_OneLate(a, info) ==
  IF Len(a.connect_list) > a.connect_max
    THEN [a EXCEPT !.connect_max = 2 * a.connect_max] ELSE a
Grown(a, info) ==
  IF a.info = "null" THEN [a EXCEPT !.info = info]
  ELSE IF Len(a.connect_list) >= a.connect_max - 1
    THEN [a EXCEPT !.connect_max = 2 * a.connect_max,
                   !.info = IF info = "ok" THEN "ok" ELSE "nolist"]
    ELSE a

(* append_ob_address_connect_info: record the time of the attempt, or make   *)
(* the address BLACK when there is no connect_list to record it in.          *)
Attempted(a, info) ==
  LET g == Grown(a, info)
  IN IF g.info = "ok" THEN [g EXCEPT !.connect_list = Append(@, now)]
       ELSE [g EXCEPT !.state = "BLACK", !.black_time = now]

(* memmove(list, list + k, n): n BYTES are copied to the front, so entry j   *)
(* receives the low bytes of entry j + k (little endian).                    *)
MoveBytes(list, k, n) ==
  LET bytes(j) == Min({WordBytes, Max({0, n - WordBytes * (j - 1)})})
      mix(j) == LET p == ByteRange ^ bytes(j)
                IN (list[j] \div p) * p + (list[j + k] % p)
  IN [j \in 1..Len(list) |-> IF bytes(j) = 0 THEN list[j] ELSE mix(j)]

(* The attempts kept by check_ob_address_black: those from the first one     *)
(* that is not older than the duration on.                                   *)
Recent(list, duration) ==
  LET old == {k \in 0..Len(list) : \A j \in 1..k : now - list[j] > duration}
      k == Max(old)
      n == Len(list) - k
  IN SubSeq(IF k = 0 THEN list ELSE MoveBytes(list, k, n), 1, n)

(* check_ob_address_black on the address that could not be reached.          *)
Judged(a, c) ==
  IF a.info # "ok" THEN [a EXCEPT !.state = "BLACK", !.black_time = now]
  ELSE IF a.state # "WHITE" THEN a
  ELSE IF c.append_strategy = "NORMAL"
    THEN [a EXCEPT !.state = "BLACK", !.black_time = now]
  ELSE LET kept == Recent(a.connect_list, ToUs(c.append_duration))
           b == [a EXCEPT !.connect_list = kept]
       IN IF Len(kept) >= c.append_retrytimes
            THEN [b EXCEPT !.state = "BLACK", !.black_time = now]
            ELSE b

(* The defaults that the address-list entry points fill in.                  *)
Defaulted(c) ==
  IF c.mode = "tns" THEN c
  ELSE [c EXCEPT !.option = "ROTATION",
          !.append_duration = IF @ = 0 THEN 10000 ELSE @,
          !.append_retrytimes = IF @ = 0 THEN 1 ELSE @,
          !.remove_timeout = IF @ = 0 THEN 60000 ELSE @]

---------------------------------------------------------------------------
(* Actions.                                                                  *)

Init ==
  /\ now = 0
  /\ blacklist = [k \in Keys |-> Absent]
  /\ pc = [t \in Threads |-> "idle"]
  /\ calls = [t \in Threads |-> 0]
  /\ cfg \in [Threads -> Configs]
  /\ downs = [t \in Threads |-> cfg[t].retry_all_downs]
  /\ li = [t \in Threads |-> 1]
  /\ arr = [t \in Threads |-> [i \in 1..Len(Lists[1]) |-> FreshAddress("ok")]]
  /\ rot = [t \in Threads |-> 0]
  /\ idx = [t \in Threads |-> 1]
  /\ cur = [t \in Threads |-> 0]
  /\ addr = [t \in Threads |-> 1]
  /\ start = [t \in Threads |-> 0]
  /\ result = [t \in Threads |-> "none"]
  /\ budget = [t \in Threads |-> cfg[t].retry_all_downs]
  /\ fails = [t \in Threads |-> 0]
  /\ hist = [t \in Threads |-> [i \in 1..Len(Lists[1]) |-> <<>>]]
  /\ barred = [t \in Threads |-> [i \in 1..Len(Lists[1]) |-> Absent]]

(* Time passes between any two steps of the threads.                         *)
Tick ==
  /\ now < MaxTime
  /\ now' = now + 1
  /\ UNCHANGED <<blacklist, pc, local>>

(* The part of connect_by_addresslist before its loop that concerns list l:  *)
(* copy and reset the addresses; the blacklist is looked up next, address by *)
(* address.  Without memory for the copy the list is given up.               *)
EnterList(t, l) ==
  \E ready \in AllocOutcomes, infos \in [1..Len(Lists[l]) -> InfoOutcomes] :
    /\ li' = [li EXCEPT ![t] = l]
    /\ arr' = [arr EXCEPT ![t] = [i \in 1..Len(Lists[l]) |-> FreshAddress(infos[i])]]
    /\ rot' = [rot EXCEPT ![t] = 0]
    /\ idx' = [idx EXCEPT ![t] = 1]
    /\ hist' = [hist EXCEPT ![t] = [i \in 1..Len(Lists[l]) |-> <<>>]]
    /\ barred' = [barred EXCEPT ![t] = [i \in 1..Len(Lists[l]) |-> Absent]]
    /\ pc' = [pc EXCEPT ![t] = IF ready THEN "load" ELSE "next"]

(* A call of ob_mysql_real_connect(2).  In list mode the caller's object is  *)
(* used as the last call left it; a TNS description overwrites it.           *)
Call(t) ==
  LET c == Defaulted(cfg[t])
      d == IF c.mode = "tns" THEN c.retry_all_downs
           ELSE IF downs[t] = 0 THEN Len(Lists[1]) ELSE downs[t]
  IN /\ pc[t] = "idle" /\ calls[t] < MaxCalls
     /\ calls' = [calls EXCEPT ![t] = @ + 1]
     /\ cfg' = [cfg EXCEPT ![t] = c]
     /\ downs' = [downs EXCEPT ![t] = d]
     /\ budget' = [budget EXCEPT ![t] = d]
     /\ fails' = [fails EXCEPT ![t] = 0]
     /\ start' = [start EXCEPT ![t] = now]
     /\ result' = [result EXCEPT ![t] = "none"]
     /\ EnterList(t, 1)
     /\ UNCHANGED <<now, blacklist, cur, addr>>

(* LoadBlacklist without the copy of the time: the entry looks very old.     *)
LoadBlacklist_NoTime(t) ==
  LET i == idx[t]
      b == blacklist[List(t)[i]]
      last == i = Len(List(t))
  IN /\ pc[t] = "load"
     /\ arr' = [arr EXCEPT ![t][i].state = IF b = Absent THEN @ ELSE "BLACK"]
     /\ barred' = [barred EXCEPT ![t][i] = b]
     /\ idx' = [idx EXCEPT ![t] = IF last THEN 1 ELSE i + 1]
     /\ cur' = [cur EXCEPT ![t] = IF last THEN now ELSE @]
     /\ pc' = [pc EXCEPT ![t] = IF last THEN "white" ELSE @]
     /\ UNCHANGED <<now, blacklist, calls, cfg, downs, li, rot, addr, start,
                    result, budget, fails, hist>>

(* One iteration of the loop that takes over the blacklist's entries.        *)
LoadBlacklist(t) ==
  LET i == idx[t]
      b == blacklist[List(t)[i]]
  IN /\ pc[t] = "load"
     /\ arr' = [arr EXCEPT ![t][i] =
                  IF b = Absent THEN @
                  ELSE [@ EXCEPT !.state = "BLACK", !.black_time = b]]
     /\ barred' = [barred EXCEPT ![t][i] = b]
     /\ IF i < Len(List(t))
          THEN idx' = [idx EXCEPT ![t] = i + 1] /\ UNCHANGED <<pc, cur>>
          ELSE /\ idx' = [idx EXCEPT ![t] = 1]
               /\ cur' = [cur EXCEPT ![t] = now]
               /\ pc' = [pc EXCEPT ![t] = "white"]
     /\ UNCHANGED <<now, blacklist, calls, cfg, downs, li, rot, addr, start,
                    result, budget, fails, hist>>

(* One iteration of check_ob_address_white: an address that has been BLACK   *)
(* for remove_timeout becomes WHITE and is removed from the blacklist.       *)
CheckWhite(t) ==
  LET i == idx[t]
      a == arr[t][i]
      timeout == ToUs(cfg[t].remove_timeout)
      due == timeout > 0 /\ a.state = "BLACK" /\ cur[t] - a.black_time >= timeout
  IN /\ pc[t] = "white"
     /\ arr' = [arr EXCEPT ![t][i].state = IF due THEN "WHITE" ELSE @]
     /\ blacklist' = [blacklist EXCEPT ![List(t)[i]] = IF due THEN Absent ELSE @]
     /\ IF i < Len(List(t))
          THEN idx' = [idx EXCEPT ![t] = i + 1] /\ UNCHANGED pc
          ELSE idx' = [idx EXCEPT ![t] = 1] /\ pc' = [pc EXCEPT ![t] = "get"]
     /\ UNCHANGED <<now, calls, cfg, downs, li, rot, cur, addr, start, result,
                    budget, fails, hist, barred>>

(* get_ob_address_by_address_list found nothing: "address list is empty".    *)
NoAddress(t) ==
  /\ result' = [result EXCEPT ![t] = "empty"]
  /\ pc' = [pc EXCEPT ![t] = "next"]
  /\ UNCHANGED <<arr, addr, cur, hist>>

(* Choose that starts over without making the address BLACK.                 *)
Choose_StaysWhite(t, i) ==
  \E info \in InfoOutcomes :
    LET a == Attempted(arr[t][i], info)
    IN /\ addr' = [addr EXCEPT ![t] = i]
       /\ UNCHANGED <<result, hist>>
       /\ IF a.state = "WHITE"
            THEN /\ pc' = [pc EXCEPT ![t] = "connect"]
                 /\ arr' = [arr EXCEPT ![t][i] = a]
                 /\ UNCHANGED cur
            ELSE /\ pc' = [pc EXCEPT ![t] = "white"]
                 /\ cur' = [cur EXCEPT ![t] = now]
                 /\ UNCHANGED arr

(* Address i is chosen and the attempt recorded.  Without memory for that    *)
(* the address is BLACK and the loop starts over.                            *)
Choose(t, i) ==
  \E info \in InfoOutcomes :
    LET a == Attempted(arr[t][i], info)
    IN /\ addr' = [addr EXCEPT ![t] = i]
       /\ arr' = [arr EXCEPT ![t][i] = a]
       /\ UNCHANGED result
       /\ IF a.state = "WHITE"
            THEN /\ pc' = [pc EXCEPT ![t] = "connect"]
                 /\ hist' = [hist EXCEPT ![t][i] =
                      IF cfg[t].append_strategy = "NORMAL" THEN @ ELSE Append(@, now)]
                 /\ UNCHANGED cur
            ELSE /\ pc' = [pc EXCEPT ![t] = "white"]
                 /\ cur' = [cur EXCEPT ![t] = now]
                 /\ UNCHANGED hist

(* ROTATION scans from rotation_flag % count to the end of the list, and     *)
(* counts rotation_flag up for every address it looks at.                    *)
Rotate(t) ==
  LET n == Len(List(t))
      first == (rot[t] % n) + 1
      ahead == {i \in Whites(t) : i >= first}
  IN IF ahead = {}
       THEN /\ rot' = [rot EXCEPT ![t] = @ + n - first + 1]
            /\ NoAddress(t)
       ELSE /\ rot' = [rot EXCEPT ![t] = @ + Min(ahead) - first + 1]
            /\ Choose(t, Min(ahead))

(* get_ob_address_by_address_list.  Weights are at least 1, so RANDOM and    *)
(* SERVERAFFINITY may both return any WHITE address.                         *)
GetAddress(t) ==
  /\ pc[t] = "get"
  /\ \/ /\ MallocFails \/ Whites(t) = {}
        /\ NoAddress(t)
        /\ UNCHANGED rot
     \/ /\ \/ Cardinality(Whites(t)) = 1
           \/ cfg[t].option # "ROTATION"
        /\ \E i \in Whites(t) : Choose(t, i)
        /\ UNCHANGED rot
     \/ /\ Cardinality(Whites(t)) > 1
        /\ cfg[t].option = "ROTATION"
        /\ Rotate(t)
  /\ UNCHANGED <<now, blacklist, calls, cfg, downs, li, idx, start, budget,
                 fails, barred>>

(* mysql_real_connect succeeds, is refused by the server (error 1045), or    *)
(* fails.  Only the last one continues in the loop.                          *)
Connect(t) ==
  /\ pc[t] = "connect"
  /\ \E r \in {"ok", "denied", "fail"} :
       IF r = "fail"
         THEN /\ pc' = [pc EXCEPT ![t] = "black"]
              /\ fails' = [fails EXCEPT ![t] = @ + 1]
              /\ UNCHANGED result
         ELSE /\ pc' = [pc EXCEPT ![t] = "next"]
              /\ result' = [result EXCEPT ![t] = r]
              /\ UNCHANGED fails
  /\ UNCHANGED <<now, blacklist, calls, cfg, downs, li, arr, rot, idx, cur,
                 addr, start, budget, hist, barred>>

(* check_ob_address_black up to the call of append_blacklist.                *)
CheckBlack(t) ==
  LET i == addr[t]
      a == Judged(arr[t][i], cfg[t])
  IN /\ pc[t] = "black"
     /\ arr' = [arr EXCEPT ![t][i] = a]
     /\ barred' = [barred EXCEPT ![t][i] =
                     IF a.state = "BLACK" \/ cfg[t].append_strategy = "NORMAL"
                       THEN now ELSE @]
     /\ pc' = [pc EXCEPT ![t] =
                 IF arr[t][i].info = "ok" /\ arr[t][i].state = "WHITE" /\ a.state = "BLACK"
                   THEN "append" ELSE "retry"]
     /\ UNCHANGED <<now, blacklist, calls, cfg, downs, li, rot, idx, cur, addr,
                    start, result, budget, fails, hist>>

(* append_blacklist: an entry that is already there is kept as it is.        *)
AppendBlacklist(t) ==
  /\ pc[t] = "append"
  /\ blacklist' = [blacklist EXCEPT ![List(t)[addr[t]]] =
                     IF @ = Absent THEN arr[t][addr[t]].black_time ELSE @]
  /\ pc' = [pc EXCEPT ![t] = "retry"]
  /\ UNCHANGED <<now, local>>

TimedOut(t) ==
  cfg[t].retry_timeout > 0 /\ now > start[t] + ToUs(cfg[t].retry_timeout)

(* Retry that tests retry_all_downs before it counts it down.                *)
Retry_TestsFirst(t) ==
  /\ pc[t] = "retry"
  /\ downs' = [downs EXCEPT ![t] = IF @ = 0 THEN 0 ELSE @ - 1]
  /\ IF downs[t] = 0
       THEN /\ result' = [result EXCEPT ![t] = "downs"]
            /\ pc' = [pc EXCEPT ![t] = "next"]
            /\ UNCHANGED cur
       ELSE /\ cur' = [cur EXCEPT ![t] = now]
            /\ pc' = [pc EXCEPT ![t] = "white"]
            /\ UNCHANGED result
  /\ UNCHANGED <<now, blacklist, calls, cfg, li, arr, rot, idx, addr, start,
                 budget, fails, hist, barred>>

(* The end of an iteration: give up on retry_timeout, else count             *)
(* retry_all_downs down and give up when it reaches zero.                    *)
Retry(t) ==
  /\ pc[t] = "retry"
  /\ \/ /\ TimedOut(t)
        /\ result' = [result EXCEPT ![t] = "timeout"]
        /\ pc' = [pc EXCEPT ![t] = "next"]
        /\ UNCHANGED <<downs, cur>>
     \/ /\ ~TimedOut(t)
        /\ downs' = [downs EXCEPT ![t] = DecU(@)]
        /\ IF downs'[t] = 0
             THEN /\ result' = [result EXCEPT ![t] = "downs"]
                  /\ pc' = [pc EXCEPT ![t] = "next"]
                  /\ UNCHANGED cur
             ELSE /\ cur' = [cur EXCEPT ![t] = now]
                  /\ pc' = [pc EXCEPT ![t] = "white"]
                  /\ UNCHANGED result
  /\ UNCHANGED <<now, blacklist, calls, cfg, li, arr, rot, idx, addr, start,
                 budget, fails, hist, barred>>

(* The call is over: the address list and the call's locals are released.    *)
Return(t, r) ==
  /\ result' = [result EXCEPT ![t] = r]
  /\ pc' = [pc EXCEPT ![t] = "idle"]
  /\ li' = [li EXCEPT ![t] = 1]
  /\ arr' = [arr EXCEPT ![t] = [i \in 1..Len(Lists[1]) |-> FreshAddress("ok")]]
  /\ hist' = [hist EXCEPT ![t] = [i \in 1..Len(Lists[1]) |-> <<>>]]
  /\ barred' = [barred EXCEPT ![t] = [i \in 1..Len(Lists[1]) |-> Absent]]
  /\ rot' = [rot EXCEPT ![t] = 0]
  /\ idx' = [idx EXCEPT ![t] = 1]
  /\ cur' = [cur EXCEPT ![t] = 0]
  /\ addr' = [addr EXCEPT ![t] = 1]
  /\ start' = [start EXCEPT ![t] = 0]

(* connect_by_addresslist has returned.  connect_by_tnsname goes on with the *)
(* next address list unless it is connected, out of downs or out of time.    *)
NextList(t) ==
  LET done == result[t] = "ok" \/ cfg[t].mode = "list"
      more == ~done /\ downs[t] > 0 /\ ~TimedOut(t)
  IN /\ pc[t] = "next"
     /\ \/ done /\ Return(t, result[t])
        \/ ~done /\ downs[t] = 0 /\ Return(t, "downs")
        \/ ~done /\ downs[t] > 0 /\ TimedOut(t) /\ Return(t, "timeout")
        \/ more /\ li[t] = Len(Lists) /\ Return(t, result[t])
        \/ /\ more /\ li[t] < Len(Lists)
           /\ EnterList(t, li[t] + 1)
           /\ UNCHANGED <<result, cur, addr, start>>
     /\ UNCHANGED <<now, blacklist, calls, cfg, downs, budget, fails>>

Step(t) ==
  \/ LoadBlacklist(t) \/ CheckWhite(t) \/ GetAddress(t) \/ Connect(t)
  \/ CheckBlack(t) \/ AppendBlacklist(t) \/ Retry(t) \/ NextList(t)

Next == Tick \/ \E t \in Threads : Call(t) \/ Step(t)

Spec == Init /\ [][Next]_vars

(* A thread inside a call keeps running: mysql_real_connect returns after at *)
(* most its connect timeout, and nothing else blocks for long.               *)
FairSpec == Spec /\ \A t \in Threads : WF_vars(Step(t))

---------------------------------------------------------------------------
(* Properties.                                                               *)

(* The blacklist and each call's lists, counters and times are well formed; *)
(* the place in the address list is always one of its places.              *)
TypeOK ==
  /\ now \in Nat
  /\ blacklist \in [Keys -> Nat \cup {Absent}]
  /\ pc \in [Threads -> PCs]
  /\ calls \in [Threads -> Nat]
  /\ cfg \in [Threads -> ConfigType]
  /\ downs \in [Threads -> Nat]
  /\ li \in [Threads -> 1..Len(Lists)]
  /\ \A t \in Threads :
       /\ arr[t] \in [Indices(t) -> AddressType]
       /\ hist[t] \in [Indices(t) -> Seq(Nat)]
       /\ barred[t] \in [Indices(t) -> Nat \cup {Absent}]
       /\ idx[t] \in Indices(t)
       /\ pc[t] \in {"connect", "black", "append"} => addr[t] \in Indices(t)
  /\ rot \in [Threads -> Nat]
  /\ cur \in [Threads -> Nat]
  /\ start \in [Threads -> Nat]
  /\ result \in [Threads -> Results]
  /\ budget \in [Threads -> Nat]
  /\ fails \in [Threads -> Nat]

(* retry_all_downs, "the total number of times" of ob_load_balance.h, bounds *)
(* the failed attempts of a call over all its address lists, and a call that *)
(* gives up because "retry_all_downs is zero." has used exactly that many.   *)
BudgetRespected ==
  \A t \in Threads : budget[t] > 0 =>
    /\ fails[t] <= budget[t]
    /\ result[t] = "downs" => fails[t] = budget[t]

(* A call connects to an address it found on the blacklist, or found down    *)
(* and put there, only when the last check_ob_address_white saw that         *)
(* black_remove_timeout had passed since.                                    *)
BarredUntilTimeout ==
  \A t \in Threads : pc[t] = "connect" =>
    LET b == barred[t][addr[t]]
        timeout == ToUs(cfg[t].remove_timeout)
    IN b # Absent => timeout > 0 /\ cur[t] - b >= timeout

(* append_ob_address_connect_info never writes past the end of connect_list, *)
(* however the list was filled, cut down and filled again.                   *)
ConnectListInBounds ==
  \A t \in Threads : \A i \in Indices(t) :
    Len(arr[t][i].connect_list) <= arr[t][i].connect_max

(* Every call of ob_mysql_real_connect returns.                              *)
CallReturns == \A t \in Threads : pc[t] # "idle" ~> pc[t] = "idle"

(* The error "address list is empty(all in black)." is only reported when    *)
(* every address of the list is on the black side.                           *)
EmptyMeansAllBlack ==
  \A t \in Threads :
    pc[t] = "next" /\ result[t] = "empty" => Whites(t) = {}

(* "within duration (ms), executed >= retrytimes times: black"               *)
(* (ob_load_balance.h): once check_ob_address_black has looked at an address *)
(* with that many attempts inside the duration, the address is black.        *)
DurationRule ==
  \A t \in Threads :
    pc[t] = "retry" /\ cfg[t].append_strategy = "RETRY_DERUATION" =>
      LET i == addr[t]
          inside == {j \in 1..Len(hist[t][i]) :
                       now - hist[t][i][j] <= ToUs(cfg[t].append_duration)}
      IN Cardinality(inside) >= cfg[t].append_retrytimes
           => arr[t][i].state = "BLACK"

(* An entry leaves the global blacklist no earlier than black_remove_timeout *)
(* ("time to be removed from the blacklist (ms)") after it was put there.    *)
RemovalsAreDue ==
  [][\A k \in Keys :
       blacklist[k] # Absent /\ blacklist'[k] = Absent =>
         \E t \in Threads : now - blacklist[k] >= ToUs(cfg[t].remove_timeout)]_vars
=============================================================================
