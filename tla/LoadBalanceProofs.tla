------------------------- MODULE LoadBalanceProofs --------------------------
(* Theorems about LoadBalance for any threads, address lists and             *)
(* configurations: first what the steps do to the count of attempts, then    *)
(* what they do to each address and to what a call knows of it.              *)
EXTENDS LoadBalance, WellFoundedInduction, TLAPS

Trying == {"load", "white", "get", "connect"}
Failed == {"black", "append", "retry"}

(* The part of TypeOK that the count of attempts needs.                      *)
CountType ==
  /\ now \in Nat
  /\ pc \in [Threads -> PCs]
  /\ cfg \in [Threads -> ConfigType]
  /\ start \in [Threads -> Nat]
  /\ result \in [Threads -> Results]
  /\ fails \in [Threads -> Nat]
  /\ downs \in [Threads -> 0..(UINT_RANGE - 1)]
  /\ budget \in [Threads -> 0..(UINT_RANGE - 1)]
  /\ \A t \in Threads : cfg[t].retry_all_downs < UINT_RANGE

(* Where a call stands: an attempt is paid for between its failure and the   *)
(* end of Retry, and a call that ran out of time or downs does not go on.    *)
Paid(t) == fails[t] + downs[t] = budget[t] /\ downs[t] > 0
Owed(t) == fails[t] + downs[t] = budget[t] + 1 /\ downs[t] > 0
Spent(t) == downs[t] = 0 /\ fails[t] = budget[t]
Over(t) == result[t] \in {"downs", "timeout"}
Ended(t) == fails[t] <= budget[t] /\ (result[t] = "downs" => fails[t] = budget[t])

Counted(t) ==
  /\ pc[t] \in Trying => Paid(t) /\ ~Over(t)
  /\ pc[t] \in Failed => Owed(t) /\ ~Over(t)
  /\ pc[t] = "next" =>
       \/ result[t] = "timeout" /\ TimedOut(t) /\ Owed(t)
       \/ result[t] = "downs" /\ Spent(t)
       \/ ~Over(t) /\ Paid(t)
  /\ pc[t] = "idle" => Ended(t)

CountInv == CountType /\ \A t \in Threads : budget[t] > 0 => Counted(t)

---------------------------------------------------------------------------
LEMMA UintPositive == UINT_RANGE \in Nat /\ UINT_RANGE > 0 /\ Len(Lists[1]) \in 1..(UINT_RANGE - 1)
<1>1. Lists \in Seq(Seq(Keys)) /\ Lists # <<>> /\ UINT_RANGE \in Nat
  BY LoadBalanceAssumption, Zenon
<1>2. Len(Lists) \in Nat /\ 1 \in 1..Len(Lists)
  BY <1>1
<1>3. Lists[1] \in Seq(Keys) /\ Lists[1] # <<>> /\ Len(Lists[1]) < UINT_RANGE
  BY <1>1, <1>2, LoadBalanceAssumption
<1>4. Len(Lists[1]) \in Nat /\ Len(Lists[1]) > 0
  BY <1>3
<1> QED
  BY <1>1, <1>3, <1>4

(* The unsigned decrement is the plain one above zero, and stays in range.   *)
LEMMA DecUProperties ==
  ASSUME NEW n \in 0..(UINT_RANGE - 1)
  PROVE  /\ DecU(n) \in 0..(UINT_RANGE - 1)
         /\ n > 0 => DecU(n) = n - 1
BY UintPositive DEF DecU

LEMMA ToUsType ==
  ASSUME NEW n \in Nat
  PROVE  ToUs(n) \in Nat
<1>1. n * UsPerMs \in Nat
  BY LoadBalanceAssumption
<1> QED
  BY <1>1, UintPositive DEF ToUs

LEMMA DefaultedType ==
  ASSUME NEW c \in ConfigType
  PROVE  Defaulted(c) \in ConfigType /\ Defaulted(c).retry_all_downs = c.retry_all_downs
<1>1. CASE c.mode = "tns"
  BY <1>1 DEF Defaulted
<1>2. CASE c.mode # "tns"
  <2> DEFINE duration == IF c.append_duration = 0 THEN 10000 ELSE c.append_duration
             times == IF c.append_retrytimes = 0 THEN 1 ELSE c.append_retrytimes
             remove == IF c.remove_timeout = 0 THEN 60000 ELSE c.remove_timeout
  <2>1. duration \in Nat /\ times \in Nat /\ remove \in Nat
    BY DEF ConfigType
  <2>2. Defaulted(c) = [c EXCEPT !.option = "ROTATION", !.append_duration = duration,
                                 !.append_retrytimes = times, !.remove_timeout = remove]
    BY <1>2 DEF Defaulted
  <2> HIDE DEF duration, times, remove
  <2> QED
    BY <2>1, <2>2, ZenonT(40) DEF ConfigType, Options
<1> QED
  BY <1>1, <1>2

LEMMA InitCount ==
  ASSUME Init
  PROVE  CountInv
<1>1. \A t \in Threads : cfg[t] \in ConfigType /\ cfg[t].retry_all_downs < UINT_RANGE
  BY LoadBalanceAssumption, Zenon DEF Init
<1>2. \A t \in Threads : cfg[t].retry_all_downs \in 0..(UINT_RANGE - 1)
  BY <1>1, UintPositive DEF ConfigType
<1>3. CountType
  BY <1>1, <1>2, Zenon DEF Init, CountType, PCs, Results
<1>4. \A t \in Threads : Counted(t)
  BY <1>2, UintPositive DEF Init, Counted, Paid, Owed, Spent, Over, Ended, Trying, Failed
<1> QED
  BY <1>3, <1>4, Zenon DEF CountInv

(* What a step does to the counters and the control of the thread it moves.  *)
Settles(t) ==
  \/ /\ pc[t] \in {"load", "white"} /\ pc'[t] \in {"load", "white", "get"}
     /\ UNCHANGED <<cfg, downs, budget, fails, start, result>>
  \/ /\ pc[t] = "get" /\ pc'[t] \in {"connect", "white"}
     /\ UNCHANGED <<cfg, downs, budget, fails, start, result>>
  \/ /\ pc[t] = "get" /\ pc'[t] = "next" /\ result'[t] = "empty"
     /\ UNCHANGED <<cfg, downs, budget, fails, start>>
  \/ /\ pc[t] = "connect" /\ pc'[t] = "black" /\ fails'[t] = fails[t] + 1
     /\ UNCHANGED <<cfg, downs, budget, start, result>>
  \/ /\ pc[t] = "connect" /\ pc'[t] = "next" /\ result'[t] \in {"ok", "denied"}
     /\ UNCHANGED <<cfg, downs, budget, fails, start>>
  \/ /\ pc[t] \in {"black", "append"} /\ pc'[t] \in {"append", "retry"}
     /\ UNCHANGED <<cfg, downs, budget, fails, start, result>>
  \/ /\ pc[t] = "retry" /\ TimedOut(t) /\ pc'[t] = "next" /\ result'[t] = "timeout"
     /\ UNCHANGED <<cfg, downs, budget, fails, start>>
  \/ /\ pc[t] = "retry" /\ downs'[t] = DecU(downs[t]) /\ downs'[t] = 0
     /\ pc'[t] = "next" /\ result'[t] = "downs"
     /\ UNCHANGED <<cfg, budget, fails, start>>
  \/ /\ pc[t] = "retry" /\ downs'[t] = DecU(downs[t]) /\ downs'[t] # 0
     /\ pc'[t] = "white"
     /\ UNCHANGED <<cfg, budget, fails, start, result>>
  \/ /\ pc[t] = "next" /\ pc'[t] = "idle"
     /\ \/ result'[t] = result[t]
        \/ downs[t] = 0 /\ result'[t] = "downs"
        \/ downs[t] > 0 /\ TimedOut(t) /\ result'[t] = "timeout"
     /\ UNCHANGED <<cfg, downs, budget, fails>>
  \/ /\ pc[t] = "next" /\ pc'[t] \in {"load", "next"}
     /\ downs[t] > 0 /\ ~TimedOut(t) /\ result[t] # "ok"
     /\ UNCHANGED <<cfg, downs, budget, fails, start, result>>

LEMMA StepSettles ==
  ASSUME CountType, NEW t \in Threads, Step(t)
  PROVE  Settles(t)
<1> USE DEF Settles, CountType
<1>1. CASE LoadBlacklist(t)
  BY <1>1, Zenon DEF LoadBlacklist
<1>2. CASE CheckWhite(t)
  BY <1>2, Zenon DEF CheckWhite
<1>3. CASE GetAddress(t)
  <2>1. pc[t] = "get" /\ UNCHANGED <<cfg, downs, budget, fails, start>>
    BY <1>3, Zenon DEF GetAddress
  <2>2. ASSUME NoAddress(t)
        PROVE  pc'[t] = "next" /\ result'[t] = "empty"
    BY <2>2, Zenon DEF NoAddress
  <2>3. ASSUME NEW i, Choose(t, i)
        PROVE  pc'[t] \in {"connect", "white"} /\ result' = result
    BY <2>3, Zenon DEF Choose
  <2>4. NoAddress(t) \/ \E i : Choose(t, i)
    BY <1>3, Zenon DEF GetAddress, Rotate
  <2> QED
    BY <2>1, <2>2, <2>3, <2>4, Zenon
<1>4. CASE Connect(t)
  BY <1>4, Zenon DEF Connect
<1>5. CASE CheckBlack(t)
  BY <1>5, Zenon DEF CheckBlack
<1>6. CASE AppendBlacklist(t)
  BY <1>6, Zenon DEF AppendBlacklist, local
<1>7. CASE Retry(t)
  BY <1>7, Zenon DEF Retry
<1>8. CASE NextList(t)
  <2>1. pc[t] = "next" /\ UNCHANGED <<cfg, downs, budget, fails>>
    BY <1>8, Zenon DEF NextList
  <2>2. ASSUME NEW r, Return(t, r) PROVE pc'[t] = "idle" /\ result'[t] = r
    BY <2>2, Zenon DEF Return
  <2>3. ASSUME EnterList(t, li[t] + 1) PROVE pc'[t] \in {"load", "next"}
    BY <2>3, Zenon DEF EnterList
  <2> QED
    BY <1>8, <2>1, <2>2, <2>3, Zenon DEF NextList
<1> QED
  BY <1>1, <1>2, <1>3, <1>4, <1>5, <1>6, <1>7, <1>8, Zenon DEF Step

(* A step leaves the other threads' calls alone.                             *)
Frame(t) ==
  \A u \in Threads \ {t} :
    /\ pc'[u] = pc[u] /\ cfg'[u] = cfg[u] /\ start'[u] = start[u]
    /\ result'[u] = result[u] /\ fails'[u] = fails[u]
    /\ downs'[u] = downs[u] /\ budget'[u] = budget[u]

LEMMA StepFrame ==
  ASSUME CountType, NEW t \in Threads, Call(t) \/ Step(t)
  PROVE  Frame(t) /\ CountType' /\ now' = now
<1> USE DEF Frame, CountType, PCs, Results
<1>1. CASE LoadBlacklist(t)
  BY <1>1, Zenon DEF LoadBlacklist
<1>2. CASE CheckWhite(t)
  BY <1>2, Zenon DEF CheckWhite
<1>3. CASE GetAddress(t)
  <2>1. UNCHANGED <<now, cfg, downs, budget, fails, start>>
    BY <1>3, Zenon DEF GetAddress
  <2>2. ASSUME NoAddress(t)
        PROVE  /\ pc' = [pc EXCEPT ![t] = "next"]
               /\ result' = [result EXCEPT ![t] = "empty"]
    BY <2>2, Zenon DEF NoAddress
  <2>3. ASSUME NEW i, Choose(t, i)
        PROVE  /\ \E l \in {"connect", "white"} : pc' = [pc EXCEPT ![t] = l]
               /\ result' = result
    BY <2>3, Zenon DEF Choose
  <2>4. NoAddress(t) \/ \E i : Choose(t, i)
    BY <1>3, Zenon DEF GetAddress, Rotate
  <2>5. CASE NoAddress(t)
    BY <2>1, <2>2, <2>5, Zenon
  <2>6. ASSUME NEW i, Choose(t, i)
        PROVE  Frame(t) /\ CountType' /\ now' = now
    BY <2>1, <2>3, <2>6, Zenon
  <2> QED
    BY <2>4, <2>5, <2>6, Zenon
<1>4. CASE Connect(t)
  <2>1. UNCHANGED <<now, cfg, downs, budget, start>>
    BY <1>4, Zenon DEF Connect
  <2>2. CASE /\ pc' = [pc EXCEPT ![t] = "black"]
             /\ fails' = [fails EXCEPT ![t] = @ + 1] /\ result' = result
    BY <2>1, <2>2
  <2>3. ASSUME NEW r \in {"ok", "denied"}, pc' = [pc EXCEPT ![t] = "next"],
               result' = [result EXCEPT ![t] = r], fails' = fails
        PROVE  Frame(t) /\ CountType' /\ now' = now
    BY <2>1, <2>3, Zenon
  <2> QED
    BY <1>4, <2>2, <2>3, Zenon DEF Connect
<1>5. CASE CheckBlack(t)
  BY <1>5, Zenon DEF CheckBlack
<1>6. CASE AppendBlacklist(t)
  BY <1>6, Zenon DEF AppendBlacklist, local
<1>7. CASE Retry(t)
  <2>1. UNCHANGED <<now, cfg, budget, fails, start>>
    BY <1>7, Zenon DEF Retry
  <2>2. \E l \in {"next", "white"} : pc' = [pc EXCEPT ![t] = l]
    BY <1>7, Zenon DEF Retry
  <2>3. result' = result \/ \E r \in {"timeout", "downs"} : result' = [result EXCEPT ![t] = r]
    BY <1>7, Zenon DEF Retry
  <2>4. downs' = downs \/ downs' = [downs EXCEPT ![t] = DecU(downs[t])]
    BY <1>7, Zenon DEF Retry
  <2>5. DecU(downs[t]) \in 0..(UINT_RANGE - 1)
    BY DecUProperties, Zenon
  <2> QED
    BY <2>1, <2>2, <2>3, <2>4, <2>5
<1>8. CASE NextList(t)
  <2>1. UNCHANGED <<now, cfg, downs, budget, fails>>
    BY <1>8, Zenon DEF NextList
  <2>2. ASSUME NEW r \in Results, Return(t, r)
        PROVE  Frame(t) /\ CountType' /\ now' = now
    BY <2>1, <2>2, Zenon DEF Return
  <2>3. CASE EnterList(t, li[t] + 1) /\ UNCHANGED <<result, cur, addr, start>>
    <3>1. \E l \in {"load", "next"} : pc' = [pc EXCEPT ![t] = l]
      BY <2>3, Zenon DEF EnterList
    <3> QED
      BY <2>1, <2>3, <3>1, Zenon
  <2> QED
    BY <1>8, <2>2, <2>3, Zenon DEF NextList
<1>9. CASE Call(t)
  <2>1. PICK l \in {"load", "next"} : pc' = [pc EXCEPT ![t] = l]
    BY <1>9, Zenon DEF Call, EnterList
  <2> DEFINE c == Defaulted(cfg[t])
             d == IF c.mode = "tns" THEN c.retry_all_downs
                  ELSE IF downs[t] = 0 THEN Len(Lists[1]) ELSE downs[t]
  <2>2. cfg[t] \in ConfigType /\ cfg[t].retry_all_downs < UINT_RANGE
    BY Zenon
  <2>3. c \in ConfigType /\ c.retry_all_downs = cfg[t].retry_all_downs
    BY <2>2, DefaultedType, Zenon
  <2>4. c.retry_all_downs \in 0..(UINT_RANGE - 1)
    BY <2>2, <2>3, UintPositive DEF ConfigType
  <2>5. downs[t] \in 0..(UINT_RANGE - 1) /\ Len(Lists[1]) \in 0..(UINT_RANGE - 1)
    BY UintPositive
  <2>6. d \in 0..(UINT_RANGE - 1)
    BY <2>4, <2>5, Zenon
  <2>7. /\ cfg' = [cfg EXCEPT ![t] = c] /\ downs' = [downs EXCEPT ![t] = d]
        /\ budget' = [budget EXCEPT ![t] = d] /\ fails' = [fails EXCEPT ![t] = 0]
        /\ start' = [start EXCEPT ![t] = now] /\ result' = [result EXCEPT ![t] = "none"]
        /\ now' = now
    BY <1>9, Zenon DEF Call
  <2> HIDE DEF c, d
  <2>8. CountType'
    BY <2>1, <2>2, <2>3, <2>4, <2>6, <2>7, Zenon
  <2>9. Frame(t)
    BY <2>1, <2>7, Zenon
  <2> QED
    BY <2>7, <2>8, <2>9, Zenon
<1> QED
  BY <1>1, <1>2, <1>3, <1>4, <1>5, <1>6, <1>7, <1>8, <1>9, Zenon DEF Step

---------------------------------------------------------------------------
(* CountInv is inductive.                                                    *)
LEMMA CountStep ==
  ASSUME CountInv, [Next]_vars
  PROVE  CountInv'
<1>0. CountType /\ \A t \in Threads : budget[t] > 0 => Counted(t)
  BY Zenon DEF CountInv
<1>1. CASE UNCHANGED vars
  BY <1>0, <1>1 DEF vars, CountInv, CountType, TimedOut, Counted, Paid, Owed, Spent, Over, Ended
<1>2. CASE Tick
  <2>1. UNCHANGED <<pc, local>> /\ now' = now + 1
    BY <1>2, Zenon DEF Tick
  <2>2. CountType'
    BY <1>0, <2>1 DEF CountType, local
  <2>3. ASSUME NEW t \in Threads, TimedOut(t) PROVE TimedOut(t)'
    <3>1. ToUs(cfg[t].retry_timeout) \in Nat
      BY <1>0, ToUsType, Zenon DEF CountType, ConfigType
    <3> QED
      BY <1>0, <2>1, <2>3, <3>1 DEF CountType, TimedOut, local
  <2> QED
    <3>1. ASSUME NEW t \in Threads, Counted(t) PROVE Counted(t)'
      BY <2>1, <2>3, <3>1, Zenon DEF local, Counted, Paid, Owed, Spent, Over, Ended
    <3> QED
      BY <1>0, <2>1, <2>2, <3>1, Zenon DEF CountInv, local
<1>3. ASSUME NEW t \in Threads, Call(t) \/ Step(t)
      PROVE  CountInv'
  <2>1. Frame(t) /\ CountType' /\ now' = now
    BY <1>0, <1>3, StepFrame, Zenon
  <2>2. ASSUME NEW u \in Threads \ {t}, budget'[u] > 0 PROVE Counted(u)'
    BY <1>0, <2>1, <2>2 DEF Frame, TimedOut, Counted, Paid, Owed, Spent, Over, Ended
  <2>3. ASSUME Call(t), budget'[t] > 0 PROVE Counted(t)'
    <3>1. pc'[t] \in {"load", "next"}
      BY <1>0, <2>3, Zenon DEF Call, EnterList, CountType
    <3>2. fails'[t] = 0 /\ downs'[t] = budget'[t] /\ result'[t] = "none"
      BY <1>0, <2>3, Zenon DEF Call, CountType
    <3> QED
      BY <2>1, <2>3, <3>1, <3>2 DEF CountType, Trying, Failed, Counted, Paid, Owed, Spent, Over, Ended
  <2>4. ASSUME Step(t), budget'[t] > 0 PROVE Counted(t)'
    <3>1. Settles(t)
      BY <1>0, <2>4, StepSettles, Zenon
    <3>2. budget' = budget /\ Counted(t)
      BY <1>0, <2>4, <3>1, Zenon DEF Settles
    <3>3. downs[t] \in 0..(UINT_RANGE - 1) /\ fails[t] \in Nat /\ budget[t] \in Nat
      BY <1>0, UintPositive DEF CountType
    <3>4. downs[t] > 0 => DecU(downs[t]) = downs[t] - 1
      BY <3>3, DecUProperties, Zenon
    <3>5. UNCHANGED <<cfg, start>> => (TimedOut(t)' <=> TimedOut(t))
      BY <2>1, Zenon DEF TimedOut
    <3>6. UNCHANGED <<downs, budget, fails>> =>
            (Paid(t)' <=> Paid(t)) /\ (Owed(t)' <=> Owed(t)) /\ (Spent(t)' <=> Spent(t))
      BY Zenon DEF Paid, Owed, Spent
    <3>7. UNCHANGED result => (Over(t)' <=> Over(t))
      BY Zenon DEF Over
    <3>8. CASE pc[t] \in {"load", "white"}
      BY <3>1, <3>2, <3>6, <3>7, <3>8, Zenon DEF Settles, Counted, Trying, Failed
    <3>9. CASE pc[t] = "get"
      <4>1. Paid(t) /\ ~Over(t)
        BY <3>2, <3>9, Zenon DEF Counted, Trying
      <4>2. Paid(t)' /\ ~Over(t)' /\ pc'[t] \in {"connect", "white", "next"}
        BY <3>1, <3>6, <3>7, <3>9, <4>1, Zenon DEF Settles, Over
      <4> QED
        BY <4>2, Zenon DEF Counted, Trying, Failed
    <3>10. CASE pc[t] = "connect"
      <4>1. Paid(t) /\ ~Over(t)
        BY <3>2, <3>10, Zenon DEF Counted, Trying
      <4>2. CASE pc'[t] = "black"
        <5>1. fails'[t] = fails[t] + 1 /\ UNCHANGED <<downs, budget, result>>
          BY <3>1, <3>10, <4>2, Zenon DEF Settles
        <5>2. Owed(t)' /\ ~Over(t)'
          BY <3>3, <3>7, <4>1, <5>1 DEF Paid, Owed
        <5> QED
          BY <4>2, <5>2, Zenon DEF Counted, Trying, Failed
      <4>3. CASE pc'[t] # "black"
        <5>1. pc'[t] = "next" /\ result'[t] \in {"ok", "denied"} /\ UNCHANGED <<downs, budget, fails>>
          BY <3>1, <3>10, <4>3, Zenon DEF Settles
        <5>2. Paid(t)' /\ ~Over(t)'
          BY <3>6, <4>1, <5>1, Zenon DEF Over
        <5> QED
          BY <5>1, <5>2, Zenon DEF Counted, Trying, Failed
      <4> QED
        BY <4>2, <4>3, Zenon
    <3>11. CASE pc[t] \in {"black", "append"}
      BY <3>1, <3>2, <3>6, <3>7, <3>11, Zenon DEF Settles, Counted, Trying, Failed
    <3>12. CASE pc[t] = "retry"
      <4>1. Owed(t) /\ ~Over(t)
        BY <3>2, <3>12, Zenon DEF Counted, Failed
      <4>2. CASE pc'[t] = "white"
        <5>1. downs'[t] = downs[t] - 1 /\ downs'[t] # 0 /\ UNCHANGED <<budget, fails, result>>
          BY <3>1, <3>4, <3>12, <4>1, <4>2, Zenon DEF Settles, Owed
        <5>2. Paid(t)' /\ ~Over(t)'
          BY <3>3, <3>7, <4>1, <5>1 DEF Paid, Owed
        <5> QED
          BY <4>2, <5>2, Zenon DEF Counted, Trying, Failed
      <4>3. CASE pc'[t] # "white" /\ result'[t] = "timeout"
        <5>1. pc'[t] = "next" /\ TimedOut(t) /\ UNCHANGED <<cfg, start, downs, budget, fails>>
          BY <3>1, <3>12, <4>3, Zenon DEF Settles
        <5> QED
          BY <3>5, <3>6, <4>1, <4>3, <5>1, Zenon DEF Counted, Trying, Failed
      <4>4. CASE pc'[t] # "white" /\ result'[t] # "timeout"
        <5>1. /\ pc'[t] = "next" /\ result'[t] = "downs" /\ downs'[t] = downs[t] - 1
              /\ downs'[t] = 0 /\ UNCHANGED <<budget, fails>>
          BY <3>1, <3>4, <3>12, <4>1, <4>4, Zenon DEF Settles, Owed
        <5>2. Spent(t)'
          BY <3>3, <4>1, <5>1 DEF Owed, Spent
        <5> QED
          BY <5>1, <5>2, Zenon DEF Counted, Trying, Failed
      <4> QED
        BY <4>2, <4>3, <4>4, Zenon
    <3>13. CASE pc[t] = "next" /\ pc'[t] = "idle"
      <4>1. /\ UNCHANGED <<downs, budget, fails>>
            /\ \/ result'[t] = result[t]
               \/ downs[t] = 0 /\ result'[t] = "downs"
               \/ downs[t] > 0 /\ result'[t] = "timeout"
        BY <3>1, <3>13, Zenon DEF Settles
      <4>2. \/ result[t] = "timeout" /\ Owed(t)
            \/ result[t] = "downs" /\ Spent(t)
            \/ ~Over(t) /\ Paid(t)
        BY <3>2, <3>13, Zenon DEF Counted
      <4>3. Ended(t)'
        BY <3>3, <4>1, <4>2 DEF Owed, Spent, Paid, Over, Ended
      <4> QED
        BY <3>13, <4>3, Zenon DEF Counted, Trying, Failed
    <3>14. CASE pc[t] = "next" /\ pc'[t] # "idle"
      <4>1. /\ pc'[t] \in {"load", "next"} /\ downs[t] > 0 /\ ~TimedOut(t)
            /\ UNCHANGED <<downs, budget, fails, result>>
        BY <3>1, <3>14, Zenon DEF Settles
      <4>2. \/ TimedOut(t)
            \/ Spent(t)
            \/ ~Over(t) /\ Paid(t)
        BY <3>2, <3>14, Zenon DEF Counted
      <4>3. ~Spent(t)
        BY <3>3, <4>1 DEF Spent
      <4> QED
        BY <3>6, <3>7, <4>1, <4>2, <4>3, Zenon DEF Counted, Trying, Failed
    <3>15. pc[t] \in {"load", "white", "get", "connect", "black", "append", "retry", "next"}
      BY <3>1, Zenon DEF Settles
    <3> QED
      BY <3>8, <3>9, <3>10, <3>11, <3>12, <3>13, <3>14, <3>15, Zenon
  <2> QED
    BY <1>3, <2>1, <2>2, <2>3, <2>4, Zenon DEF CountInv
<1> QED
  BY <1>1, <1>2, <1>3, Zenon DEF Next

(* retry_all_downs bounds the failed attempts of a call over all its address *)
(* lists, whatever the lists, the configuration, the clock and the other     *)
(* threads.                                                                  *)
THEOREM BudgetRespectedHolds == Spec => []BudgetRespected
<1>1. Init => CountInv
  BY InitCount, Zenon
<1>2. CountInv /\ [Next]_vars => CountInv'
  BY CountStep, Zenon
<1>3. CountInv => BudgetRespected
  <2> SUFFICES ASSUME CountInv, NEW t \in Threads, budget[t] > 0
               PROVE  fails[t] <= budget[t] /\ (result[t] = "downs" => fails[t] = budget[t])
    BY Zenon DEF BudgetRespected
  <2>1. Counted(t) /\ pc[t] \in PCs
    BY Zenon DEF CountInv, CountType
  <2>2. downs[t] \in Nat /\ fails[t] \in Nat /\ budget[t] \in Nat
    BY UintPositive DEF CountInv, CountType
  <2> QED
    <3>1. CASE pc[t] \in Trying
      BY <2>1, <2>2, <3>1 DEF Counted, Paid, Over
    <3>2. CASE pc[t] \in Failed
      BY <2>1, <2>2, <3>2 DEF Counted, Owed, Over
    <3>3. CASE pc[t] = "next"
      BY <2>1, <2>2, <3>3 DEF Counted, Owed, Spent, Paid, Over
    <3>4. CASE pc[t] = "idle"
      BY <2>1, <3>4, Zenon DEF Counted, Ended
    <3> QED
      BY <2>1, <3>1, <3>2, <3>3, <3>4, Zenon DEF PCs, Trying, Failed
<1> QED
  BY <1>1, <1>2, <1>3, PTL DEF Spec

---------------------------------------------------------------------------
(* A nonempty set of naturals has a least element; a bounded one, a greatest. *)
LEMMA NatLeast ==
  ASSUME NEW S, S \subseteq Nat, S # {}
  PROVE  \E x \in S : \A y \in S : x <= y
<1> DEFINE R == OpToRel(<, Nat)
<1>1. IsWellFoundedOn(R, Nat)
  BY NatLessThanWellFounded, Zenon
<1> HIDE DEF R
<1>2. PICK x \in S : \A y \in S : <<y, x>> \notin R
  BY <1>1, WFMin, Zenon
<1>3. ASSUME NEW y \in S PROVE x <= y
  <2>1. x \in Nat /\ y \in Nat
    BY Zenon
  <2>2. y < x => <<y, x>> \in R
    BY <2>1, Zenon DEF R, OpToRel
  <2> QED
    BY <1>2, <2>1, <2>2
<1> QED
  BY <1>3, Zenon

LEMMA MinIsLeast ==
  ASSUME NEW S, S \subseteq Nat, S # {}
  PROVE  Min(S) \in S
BY NatLeast, Zenon DEF Min

LEMMA MaxIsGreatest ==
  ASSUME NEW n \in Nat, NEW S, S \subseteq 0..n, S # {}
  PROVE  Max(S) \in S
<1> DEFINE T == {n - x : x \in S}
<1>1. T \subseteq Nat
  OBVIOUS
<1>2. T # {}
  BY Zenon
<1>3. PICK m \in T : \A y \in T : m <= y
  BY <1>1, <1>2, NatLeast, Zenon
<1>4. PICK x \in S : m = n - x
  BY <1>3, Zenon
<1>5. ASSUME NEW y \in S PROVE x >= y
  <2>1. m <= n - y
    BY <1>3, Zenon
  <2> QED
    BY <1>4, <2>1
<1> QED
  BY <1>5, Zenon DEF Max

---------------------------------------------------------------------------
(* The connect_list of an address.  MoveBytes leaves some sequence of        *)
(* numbers behind; what matters here is how many there are.                  *)
IsList(s) == \E S : s \in Seq(S)

(* An address has room for its connect_list, and without a ConnectInfo it    *)
(* has recorded nothing.                                                     *)
RoomInv(a) ==
  /\ a = [state |-> a.state, black_time |-> a.black_time, info |-> a.info,
          connect_max |-> a.connect_max, connect_list |-> a.connect_list]
  /\ a.state \in {"BLACK", "WHITE"} /\ a.black_time \in Nat /\ a.info \in Infos
  /\ a.connect_max \in Nat /\ a.connect_max > 1
  /\ IsList(a.connect_list) /\ Len(a.connect_list) <= a.connect_max
  /\ a.info = "null" => a.connect_list = <<>>

LEMMA EmptyIsList == IsList(<<>>) /\ Len(<<>>) = 0
<1>1. <<>> \in Seq({})
  OBVIOUS
<1> QED
  BY <1>1, Zenon DEF IsList

LEMMA FreshRoom ==
  ASSUME NEW info \in Infos
  PROVE  RoomInv(FreshAddress(info)) /\ FreshAddress(info).state = "WHITE"
         /\ FreshAddress(info).black_time = 0
BY LoadBalanceAssumption, EmptyIsList DEF FreshAddress, RoomInv

(* An attempt is recorded in a slot that exists, or the address is BLACK.    *)
LEMMA AttemptedRoom ==
  ASSUME now \in Nat, NEW a, RoomInv(a), NEW info \in Infos
  PROVE  LET b == Attempted(a, info)
         IN /\ RoomInv(b)
            /\ \/ b.state = a.state /\ b.black_time = a.black_time /\ b.info = "ok"
               \/ b.state = "BLACK" /\ b.black_time = now
<1> DEFINE g == Grown(a, info)
           b == Attempted(a, info)
<1>1. PICK S : a.connect_list \in Seq(S)
  BY Zenon DEF RoomInv, IsList
<1>2. Len(a.connect_list) \in Nat
  BY <1>1
<1>3. /\ g = [state |-> a.state, black_time |-> a.black_time, info |-> g.info,
              connect_max |-> g.connect_max, connect_list |-> a.connect_list]
      /\ g.info \in Infos /\ g.connect_max \in Nat /\ g.connect_max > 1
      /\ Len(a.connect_list) < g.connect_max
      /\ g.info = "null" => a.connect_list = <<>>
  <2>1. CASE a.info = "null"
    <3>1. g = [a EXCEPT !.info = info]
      BY <2>1, Zenon DEF Grown
    <3> QED
      BY <2>1, <3>1, EmptyIsList DEF RoomInv, Infos
  <2>2. CASE a.info # "null" /\ Len(a.connect_list) >= a.connect_max - 1
    <3>1. PICK i \in {"ok", "nolist"} : g = [a EXCEPT !.connect_max = 2 * a.connect_max, !.info = i]
      BY <2>2, Zenon DEF Grown
    <3>2. g = [state |-> a.state, black_time |-> a.black_time, info |-> i,
               connect_max |-> 2 * a.connect_max, connect_list |-> a.connect_list]
      BY <3>1, Zenon DEF RoomInv
    <3>3. a.connect_max \in Nat /\ a.connect_max > 1 /\ Len(a.connect_list) <= a.connect_max
      BY Zenon DEF RoomInv
    <3>4. 2 * a.connect_max \in Nat /\ 2 * a.connect_max > a.connect_max
      BY <3>3
    <3> QED
      BY <1>2, <3>2, <3>3, <3>4 DEF Infos
  <2>3. CASE a.info # "null" /\ ~(Len(a.connect_list) >= a.connect_max - 1)
    <3>1. g = a
      BY <2>3, Zenon DEF Grown
    <3> QED
      BY <1>2, <2>3, <3>1 DEF RoomInv, Infos
  <2> QED
    BY <2>1, <2>2, <2>3, Zenon
<1> HIDE DEF g
<1>4. CASE g.info = "ok"
  <2>1. b = [g EXCEPT !.connect_list = Append(@, now)]
    BY <1>4, Zenon DEF Attempted, g
  <2>2. a.connect_list \in Seq(S \cup {now})
    BY <1>1
  <2>3. /\ Append(a.connect_list, now) \in Seq(S \cup {now})
        /\ Len(Append(a.connect_list, now)) = Len(a.connect_list) + 1
    BY <2>2
  <2> HIDE DEF b
  <2>4. b = [state |-> a.state, black_time |-> a.black_time, info |-> "ok",
             connect_max |-> g.connect_max, connect_list |-> Append(a.connect_list, now)]
    <3>1. PICK m : g = [state |-> a.state, black_time |-> a.black_time, info |-> "ok",
                        connect_max |-> m, connect_list |-> a.connect_list]
      BY <1>3, <1>4, Zenon
    <3> QED
      BY <2>1, <3>1, Zenon
  <2> QED
    BY <1>2, <1>3, <2>3, <2>4 DEF RoomInv, IsList, Infos, b
<1>5. CASE g.info # "ok"
  <2>1. b = [g EXCEPT !.state = "BLACK", !.black_time = now]
    BY <1>5, Zenon DEF Attempted, g
  <2> HIDE DEF b
  <2>2. b = [state |-> "BLACK", black_time |-> now, info |-> g.info,
             connect_max |-> g.connect_max, connect_list |-> a.connect_list]
    <3>1. PICK m, i : g = [state |-> a.state, black_time |-> a.black_time, info |-> i,
                           connect_max |-> m, connect_list |-> a.connect_list]
      BY <1>3, Zenon
    <3> QED
      BY <2>1, <3>1, Zenon
  <2> QED
    BY <1>1, <1>2, <1>3, <2>2 DEF RoomInv, IsList, b
<1> QED
  BY <1>4, <1>5, Zenon

(* check_ob_address_black never makes connect_list longer.                   *)
LEMMA RecentShorter ==
  ASSUME NEW list, IsList(list), NEW duration
  PROVE  IsList(Recent(list, duration)) /\ Len(Recent(list, duration)) <= Len(list)
<1>1. PICK S : list \in Seq(S)
  BY Zenon DEF IsList
<1> DEFINE old == {k \in 0..Len(list) : \A j \in 1..k : now - list[j] > duration}
           k == Max(old)
           n == Len(list) - k
           moved == IF k = 0 THEN list ELSE MoveBytes(list, k, n)
           T == {moved[j] : j \in 1..Len(list)}
<1>2. Len(list) \in Nat
  BY <1>1
<1>3. k \in 0..Len(list)
  <2>1. 0 \in old
    BY <1>2
  <2>2. old \subseteq 0..Len(list) /\ old # {}
    BY <2>1, Zenon
  <2> HIDE DEF old
  <2> QED
    BY <1>2, <2>2, MaxIsGreatest, Zenon
<1>4. moved = [j \in 1..Len(list) |-> moved[j]]
  <2>1. CASE k = 0
    BY <1>1, <2>1
  <2>2. CASE k # 0
    BY <2>2, Zenon DEF MoveBytes
  <2> QED
    BY <2>1, <2>2, Zenon
<1>5. Recent(list, duration) = SubSeq(moved, 1, n)
  BY Zenon DEF Recent
<1> HIDE DEF k, moved
<1>6. moved \in [1..Len(list) -> T]
  BY <1>4, Zenon
<1>7. moved \in Seq(T) /\ Len(moved) = Len(list)
  BY <1>2, <1>6
<1>8. n \in 0..Len(list)
  BY <1>2, <1>3
<1> HIDE DEF n, T
<1>9. SubSeq(moved, 1, n) \in Seq(T) /\ Len(SubSeq(moved, 1, n)) = n
  BY <1>2, <1>7, <1>8
<1>10. IsList(SubSeq(moved, 1, n))
  BY <1>9, Zenon DEF IsList
<1> QED
  BY <1>2, <1>5, <1>8, <1>9, <1>10

(* Making an address BLACK leaves its connect_list alone.                    *)
LEMMA BlackenedRoom ==
  ASSUME NEW x, RoomInv(x), NEW w \in Nat
  PROVE  RoomInv([x EXCEPT !.state = "BLACK", !.black_time = w])
<1> DEFINE y == [x EXCEPT !.state = "BLACK"]
           z == [y EXCEPT !.black_time = w]
<1>1. PICK s, t, i, m, l :
        x = [state |-> s, black_time |-> t, info |-> i, connect_max |-> m, connect_list |-> l]
  BY Zenon DEF RoomInv
<1>2. y = [state |-> "BLACK", black_time |-> t, info |-> i, connect_max |-> m, connect_list |-> l]
  BY <1>1
<1> HIDE DEF y
<1>3. z = [state |-> "BLACK", black_time |-> w, info |-> i, connect_max |-> m, connect_list |-> l]
  BY <1>2
<1>4. z = [x EXCEPT !.state = "BLACK", !.black_time = w]
  BY Zenon DEF y
<1> HIDE DEF z
<1> QED
  BY <1>1, <1>3, <1>4, Zenon DEF RoomInv

LEMMA JudgedRoom ==
  ASSUME now \in Nat, NEW a, RoomInv(a), NEW c
  PROVE  LET b == Judged(a, c)
         IN /\ RoomInv(b)
            /\ a.info = "ok" /\ a.state = "WHITE" =>
                 \/ b.state = "BLACK" /\ b.black_time = now
                 \/ /\ b.state = "WHITE" /\ b.black_time = a.black_time /\ b.info = "ok"
                    /\ c.append_strategy # "NORMAL"
<1> DEFINE b == Judged(a, c)
           kept == Recent(a.connect_list, ToUs(c.append_duration))
           cut == [a EXCEPT !.connect_list = kept]
<1>1. IsList(kept) /\ Len(kept) <= Len(a.connect_list) /\ Len(a.connect_list) \in Nat
  <2>1. IsList(a.connect_list)
    BY Zenon DEF RoomInv
  <2> QED
    BY <2>1, RecentShorter DEF IsList
<1>2. ASSUME NEW x, RoomInv(x)
      PROVE  RoomInv([x EXCEPT !.state = "BLACK", !.black_time = now])
  BY <1>2, BlackenedRoom, Zenon
<1>3. a.info # "null" => RoomInv(cut)
  <2> HIDE DEF kept
  <2>1. Len(kept) \in Nat
    BY <1>1 DEF IsList
  <2> QED
    BY <1>1, <2>1 DEF RoomInv
<1>4. CASE a.info # "ok" \/ (a.state = "WHITE" /\ c.append_strategy = "NORMAL")
  <2>1. b = [a EXCEPT !.state = "BLACK", !.black_time = now]
        \/ (a.info = "ok" /\ a.state # "WHITE" /\ b = a)
    BY <1>4, Zenon DEF Judged
  <2> QED
    BY <1>2, <1>4, <2>1, Zenon DEF RoomInv
<1>5. CASE a.info = "ok" /\ a.state # "WHITE"
  BY <1>5, Zenon DEF Judged
<1>6. CASE a.info = "ok" /\ a.state = "WHITE" /\ c.append_strategy # "NORMAL"
  <2> HIDE DEF kept
  <2>1. b = cut \/ b = [cut EXCEPT !.state = "BLACK", !.black_time = now]
    BY <1>6, Zenon DEF Judged, kept
  <2>2. RoomInv(cut) /\ cut.state = "WHITE" /\ cut.black_time = a.black_time /\ cut.info = "ok"
    BY <1>3, <1>6, Zenon DEF RoomInv
  <2> HIDE DEF cut
  <2>3. RoomInv([cut EXCEPT !.state = "BLACK", !.black_time = now])
    BY <1>2, <2>2, Zenon
  <2> QED
    BY <1>6, <2>1, <2>2, <2>3, ZenonT(20) DEF RoomInv
<1> QED
  BY <1>4, <1>5, <1>6, Zenon

---------------------------------------------------------------------------
(* What a call knows of an address a: b is when it last found it blacklisted *)
(* or down, cu the curtime of its last check_ob_address_white, n the time.   *)
(* A BLACK address is not older than b says, and one that became WHITE again *)
(* did so remove_timeout after b; while the blacklist is loaded none does.   *)
AddrInv(a, b, place, timeout, cu, n) ==
  /\ RoomInv(a) /\ a.black_time <= n
  /\ b \in Nat \cup {Absent} /\ b <= n
  /\ b # Absent /\ a.state = "BLACK" => a.black_time >= b
  /\ b # Absent /\ a.state = "WHITE" => place # "load" /\ timeout > 0 /\ cu - b >= timeout

Timeout(t) == ToUs(cfg[t].remove_timeout)

CallInv(t) ==
  /\ arr[t] = [i \in Indices(t) |-> arr[t][i]]
  /\ barred[t] = [i \in Indices(t) |-> barred[t][i]]
  /\ idx[t] \in Indices(t)
  /\ cur[t] <= now
  /\ \A i \in Indices(t) :
       AddrInv(arr[t][i], barred[t][i], pc[t], Timeout(t), cur[t], now)
  /\ pc[t] \in {"connect", "black", "append"} => addr[t] \in Indices(t)
  /\ pc[t] \in {"connect", "black"} =>
       arr[t][addr[t]].state = "WHITE" /\ arr[t][addr[t]].info = "ok"

CallType ==
  /\ now \in Nat
  /\ pc \in [Threads -> PCs]
  /\ cfg \in [Threads -> ConfigType]
  /\ li \in [Threads -> 1..Len(Lists)]
  /\ cur \in [Threads -> Nat]
  /\ idx = [t \in Threads |-> idx[t]] /\ addr = [t \in Threads |-> addr[t]]
  /\ arr = [t \in Threads |-> arr[t]] /\ barred = [t \in Threads |-> barred[t]]

(* The blacklist knows nothing of the future.                                *)
BlackInv == blacklist \in [Keys -> Nat \cup {Absent}] /\ \A k \in Keys : blacklist[k] <= now

AddressInv == CallType /\ BlackInv /\ \A t \in Threads : CallInv(t)

LEMMA ListFacts ==
  ASSUME NEW l \in 1..Len(Lists)
  PROVE  /\ Lists[l] \in Seq(Keys) /\ Len(Lists[l]) \in Nat /\ Len(Lists[l]) > 0
         /\ 1 \in 1..Len(Lists[l])
         /\ \A i \in 1..Len(Lists[l]) : Lists[l][i] \in Keys
<1>1. Lists \in Seq(Seq(Keys)) /\ Lists[l] # <<>>
  BY LoadBalanceAssumption, Zenon
<1>2. Lists[l] \in Seq(Keys)
  BY <1>1
<1>3. Len(Lists[l]) \in Nat /\ Len(Lists[l]) > 0
  BY <1>1, <1>2
<1> QED
  BY <1>2, <1>3

LEMMA FirstList == 1 \in 1..Len(Lists)
<1>1. Lists \in Seq(Seq(Keys)) /\ Lists # <<>>
  BY LoadBalanceAssumption, Zenon
<1> QED
  BY <1>1

(* A list that was just entered: every address is WHITE and nothing is       *)
(* known against it.                                                         *)
LEMMA FreshInv ==
  ASSUME NEW info \in Infos, NEW place, NEW timeout, NEW cu, NEW n \in Nat
  PROVE  AddrInv(FreshAddress(info), Absent, place, timeout, cu, n)
BY FreshRoom DEF AddrInv, Absent

LEMMA EnteredInv ==
  ASSUME NEW t \in Threads, NEW infos, NEW l \in 1..Len(Lists), now' \in Nat, cur'[t] <= now',
         \A i \in 1..Len(Lists[l]) : infos[i] \in Infos,
         li'[t] = l, idx'[t] = 1, pc'[t] \notin {"connect", "black", "append"},
         arr'[t] = [i \in 1..Len(Lists[l]) |-> FreshAddress(infos[i])],
         barred'[t] = [i \in 1..Len(Lists[l]) |-> Absent]
  PROVE  CallInv(t)'
<1>1. Indices(t)' = 1..Len(Lists[l])
  BY Zenon DEF Indices, List
<1>2. 1 \in 1..Len(Lists[l])
  BY ListFacts, Zenon
<1>3. ASSUME NEW i \in 1..Len(Lists[l])
      PROVE  AddrInv(arr'[t][i], barred'[t][i], pc'[t], Timeout(t)', cur'[t], now')
  <2>1. arr'[t][i] = FreshAddress(infos[i]) /\ barred'[t][i] = Absent /\ infos[i] \in Infos
    BY Zenon
  <2> QED
    BY <2>1, FreshInv
<1> QED
  BY <1>1, <1>2, <1>3, Zenon DEF CallInv

(* Later, after the blacklist is loaded and with a later curtime, the same   *)
(* still holds.                                                              *)
LEMMA AddrInvLater ==
  ASSUME NEW a, NEW b, NEW place, NEW timeout \in Nat, NEW cu \in Nat, NEW n \in Nat,
         AddrInv(a, b, place, timeout, cu, n),
         NEW place2, place2 = "load" => place = "load", NEW cu2 \in Nat, cu2 >= cu,
         NEW n2 \in Nat, n2 >= n
  PROVE  AddrInv(a, b, place2, timeout, cu2, n2)
<1>1. PICK bt \in Nat : bt = a.black_time
  BY Zenon DEF AddrInv, RoomInv
<1>2. bt <= n /\ b \in Nat \cup {Absent} /\ b <= n
  BY <1>1, Zenon DEF AddrInv
<1>3. bt <= n2 /\ b <= n2 /\ (cu - b >= timeout => cu2 - b >= timeout)
  BY <1>2 DEF Absent
<1> QED
  BY <1>1, <1>2, <1>3, Zenon DEF AddrInv

(* An address that is WHITE again after its timeout.                         *)
LEMMA AddrInvWhite ==
  ASSUME NEW a, NEW o, NEW b, NEW place, NEW place2, NEW timeout \in Nat, NEW cu \in Nat, NEW n \in Nat,
         AddrInv(o, b, place, timeout, cu, n), o.state = "BLACK", timeout > 0, cu - o.black_time >= timeout,
         RoomInv(a), a.black_time = o.black_time, a.state = "WHITE", place2 # "load"
  PROVE  AddrInv(a, b, place2, timeout, cu, n)
<1>1. o.black_time \in Nat
  BY Zenon DEF AddrInv, RoomInv
<1> QED
  BY <1>1, SMTT(30) DEF AddrInv, Absent

(* An address that was WHITE and is tried: it stays so, or is BLACK now.     *)
LEMMA AddrInvTried ==
  ASSUME NEW a, NEW o, NEW b, NEW place, NEW place2, NEW timeout, NEW cu \in Nat, NEW cu2, NEW n \in Nat,
         AddrInv(o, b, place, timeout, cu, n), o.state = "WHITE", RoomInv(a), place2 # "load",
         \/ a.state = "WHITE" /\ a.black_time = o.black_time /\ cu2 = cu
         \/ a.state = "BLACK" /\ a.black_time = n
  PROVE  AddrInv(a, b, place2, timeout, cu2, n)
BY SMTT(30) DEF AddrInv, Absent

LEMMA NotLater ==
  ASSUME NEW c \in Nat, NEW n \in Nat, c <= n, NEW d \in {c, n}
  PROVE  d \in Nat /\ d >= c /\ d <= n /\ n >= n
OBVIOUS

LEMMA LaterThan ==
  ASSUME NEW c \in Nat, NEW n \in Nat, c <= n, NEW n2 \in Nat, n2 >= n
  PROVE  c <= n2 /\ c >= c
OBVIOUS

LEMMA SameDomain ==
  ASSUME NEW f, NEW S, f = [j \in S |-> f[j]], NEW R, R = S
  PROVE  f = [j \in R |-> f[j]]
BY Zenon

(* A step of a call that stays in its list and changes what it knows of one  *)
(* address i, to a and b, or of none.                                        *)
Stays(t) ==
  /\ now' = now /\ li'[t] = li[t] /\ cfg'[t] = cfg[t] /\ cur'[t] \in {cur[t], now}
  /\ idx'[t] \in Indices(t)
  /\ pc'[t] = "load" => pc[t] = "load"
  /\ pc'[t] \in {"connect", "black", "append"} => addr'[t] \in Indices(t)
  /\ pc'[t] \in {"connect", "black"} =>
       arr'[t][addr'[t]].state = "WHITE" /\ arr'[t][addr'[t]].info = "ok"

Learns(t, i, a, b) ==
  /\ arr'[t] = [arr[t] EXCEPT ![i] = a] /\ barred'[t] = [barred[t] EXCEPT ![i] = b]
  /\ AddrInv(a, b, pc'[t], Timeout(t), cur'[t], now)

LEMMA OneAddress ==
  ASSUME CallType, NEW t \in Threads, CallInv(t), Stays(t),
         NEW i \in Indices(t), NEW a, NEW b, Learns(t, i, a, b)
  PROVE  CallInv(t)'
<1> USE DEF Stays, Learns
<1>1. Indices(t)' = Indices(t) /\ Timeout(t)' = Timeout(t)
  BY Zenon DEF Indices, List, Timeout
<1>2. Timeout(t) \in Nat /\ cur[t] \in Nat /\ now \in Nat /\ cur[t] <= now
  BY ToUsType, Zenon DEF CallType, CallInv, ConfigType, Timeout
<1>3. cur'[t] \in Nat /\ cur'[t] >= cur[t] /\ cur'[t] <= now' /\ now >= now
  BY <1>2, NotLater, Zenon
<1>4. ASSUME NEW j \in Indices(t)
      PROVE  AddrInv(arr'[t][j], barred'[t][j], pc'[t], Timeout(t), cur'[t], now)
  <2>1. CASE j = i
    BY <2>1, Zenon DEF CallInv
  <2>2. CASE j # i
    <3>1. arr'[t][j] = arr[t][j] /\ barred'[t][j] = barred[t][j]
      BY <2>2, Zenon DEF CallInv
    <3>2. AddrInv(arr[t][j], barred[t][j], pc[t], Timeout(t), cur[t], now)
      BY Zenon DEF CallInv
    <3> QED
      BY <1>2, <1>3, <3>1, <3>2, AddrInvLater, Zenon
  <2> QED
    BY <2>1, <2>2, Zenon
<1>5. arr'[t] = [j \in Indices(t) |-> arr'[t][j]] /\ barred'[t] = [j \in Indices(t) |-> barred'[t][j]]
  BY Zenon DEF CallInv
<1>6. /\ arr'[t] = [j \in Indices(t)' |-> arr'[t][j]]
      /\ barred'[t] = [j \in Indices(t)' |-> barred'[t][j]]
  BY <1>1, <1>5, SameDomain, Zenon
<1>7. \A j \in Indices(t)' : AddrInv(arr'[t][j], barred'[t][j], pc'[t], Timeout(t)', cur'[t], now')
  BY <1>1, <1>4, Zenon
<1> QED
  <2>1. /\ idx'[t] \in Indices(t)'
        /\ pc'[t] \in {"connect", "black", "append"} => addr'[t] \in Indices(t)'
        /\ pc'[t] \in {"connect", "black"} =>
             arr'[t][addr'[t]].state = "WHITE" /\ arr'[t][addr'[t]].info = "ok"
    BY <1>1, Zenon
  <2> QED
    BY <1>3, <1>6, <1>7, <2>1, Zenon DEF CallInv

LEMMA NoneChanged ==
  ASSUME CallType, NEW t \in Threads, CallInv(t), Stays(t), arr'[t] = arr[t], barred'[t] = barred[t]
  PROVE  CallInv(t)'
<1> DEFINE i == idx[t]
<1>1. i \in Indices(t) /\ AddrInv(arr[t][i], barred[t][i], pc[t], Timeout(t), cur[t], now)
  BY Zenon DEF CallInv
<1>2. Timeout(t) \in Nat /\ cur[t] \in Nat /\ now \in Nat /\ cur[t] <= now
  BY ToUsType, Zenon DEF CallType, CallInv, ConfigType, Timeout
<1>3. AddrInv(arr[t][i], barred[t][i], pc'[t], Timeout(t), cur'[t], now)
  <2>1. cur'[t] \in Nat /\ cur'[t] >= cur[t] /\ now >= now
    BY <1>2, NotLater, Zenon DEF Stays
  <2> QED
    BY <1>1, <1>2, <2>1, AddrInvLater, Zenon DEF Stays
<1>4. arr'[t] = [arr[t] EXCEPT ![i] = arr[t][i]] /\ barred'[t] = [barred[t] EXCEPT ![i] = barred[t][i]]
  BY Zenon DEF CallInv
<1>5. Learns(t, i, arr[t][i], barred[t][i])
  BY <1>3, <1>4, Zenon DEF Learns
<1> HIDE DEF i
<1> QED
  BY <1>1, <1>5, OneAddress, Zenon

---------------------------------------------------------------------------
(* What each step of a thread does to what its call knows.                   *)
LEMMA LoadBlacklistCall ==
  ASSUME CallType, BlackInv, NEW t \in Threads, CallInv(t), LoadBlacklist(t)
  PROVE  CallInv(t)'
<1> DEFINE i == idx[t]
           b == blacklist[List(t)[i]]
           a == IF b = Absent THEN arr[t][i]
                ELSE [arr[t][i] EXCEPT !.state = "BLACK", !.black_time = b]
<1>1. i \in Indices(t) /\ i \in Nat /\ Len(List(t)) \in Nat /\ 1 \in Indices(t) /\ List(t)[i] \in Keys
  BY ListFacts DEF CallType, CallInv, Indices, List
<1>2. b \in Nat \cup {Absent} /\ b <= now /\ now \in Nat
  BY <1>1, Zenon DEF BlackInv, CallType
<1>3. Stays(t)
  BY <1>1 DEF LoadBlacklist, CallType, Stays, Indices
<1>4. AddrInv(arr[t][i], barred[t][i], pc[t], Timeout(t), cur[t], now) /\ pc[t] = "load"
  BY <1>1, Zenon DEF CallInv, LoadBlacklist
<1>5. AddrInv(a, b, pc'[t], Timeout(t), cur'[t], now)
  <2>1. CASE b = Absent
    BY <1>2, <1>4, <2>1, Zenon DEF AddrInv
  <2>2. CASE b # Absent
    <3> HIDE DEF b
    <3>1. RoomInv(arr[t][i]) /\ b \in Nat
      BY <1>2, <1>4, <2>2, Zenon DEF AddrInv
    <3>2. RoomInv(a)
      BY <2>2, <3>1, BlackenedRoom, Zenon
    <3>3. a.state = "BLACK" /\ a.black_time = b
      BY <2>2, <3>1, Zenon DEF RoomInv
    <3> HIDE DEF a
    <3> QED
      BY <1>2, <3>1, <3>2, <3>3 DEF AddrInv
  <2> QED
    BY <2>1, <2>2, Zenon
<1>6. arr'[t] = [arr[t] EXCEPT ![i] = a] /\ barred'[t] = [barred[t] EXCEPT ![i] = b]
  BY Zenon DEF LoadBlacklist, CallType
<1> HIDE DEF a, b, i
<1> QED
  BY <1>1, <1>3, <1>5, <1>6, OneAddress, Zenon DEF Learns

LEMMA CheckWhiteCall ==
  ASSUME CallType, BlackInv, NEW t \in Threads, CallInv(t), CheckWhite(t)
  PROVE  CallInv(t)' /\ BlackInv'
<1> DEFINE i == idx[t]
           timeout == ToUs(cfg[t].remove_timeout)
           due == timeout > 0 /\ arr[t][i].state = "BLACK" /\ cur[t] - arr[t][i].black_time >= timeout
           a == [arr[t][i] EXCEPT !.state = IF due THEN "WHITE" ELSE @]
<1>1. i \in Indices(t) /\ i \in Nat /\ Len(List(t)) \in Nat /\ 1 \in Indices(t) /\ List(t)[i] \in Keys
  BY ListFacts DEF CallType, CallInv, Indices, List
<1>2. timeout \in Nat /\ timeout = Timeout(t) /\ cur[t] \in Nat /\ now \in Nat
  BY ToUsType, Zenon DEF CallType, ConfigType, Timeout
<1>3. Stays(t)
  BY <1>1 DEF CheckWhite, CallType, Stays, Indices
<1>4. AddrInv(arr[t][i], barred[t][i], pc[t], timeout, cur[t], now) /\ pc[t] = "white" /\ cur' = cur
  BY <1>1, <1>2, Zenon DEF CallInv, CheckWhite
<1>5. pc'[t] # "load"
  BY <1>4, Zenon DEF CheckWhite, CallType
<1>6. AddrInv(a, barred[t][i], pc'[t], timeout, cur'[t], now)
  <2>1. /\ RoomInv(a) /\ a.black_time = arr[t][i].black_time
        /\ a.state = IF due THEN "WHITE" ELSE arr[t][i].state
    <3>1. RoomInv(arr[t][i])
      BY <1>4, Zenon DEF AddrInv
    <3> HIDE DEF due, i
    <3> QED
      BY <3>1, SMTT(30) DEF RoomInv
  <2> HIDE DEF a
  <2>2. CASE due
    <3>1. a.state = "WHITE" /\ arr[t][i].state = "BLACK" /\ arr[t][i].black_time \in Nat
      BY <1>4, <2>1, <2>2, Zenon DEF AddrInv, RoomInv
    <3> QED
      BY <1>2, <1>4, <1>5, <2>1, <2>2, <3>1, AddrInvWhite, Zenon
  <2>3. CASE ~due
    <3>1. a.state = arr[t][i].state
      BY <2>1, <2>3, Zenon
    <3> QED
      BY <1>4, <1>5, <2>1, <3>1, Zenon DEF AddrInv
  <2> QED
    BY <2>2, <2>3, Zenon
<1>7. arr'[t] = [arr[t] EXCEPT ![i] = a] /\ barred'[t] = [barred[t] EXCEPT ![i] = barred[t][i]]
  BY <1>1, Zenon DEF CheckWhite, CallType, CallInv
<1>8. BlackInv'
  BY <1>1, <1>2 DEF BlackInv, CheckWhite, Absent
<1> HIDE DEF a, i, timeout
<1> QED
  BY <1>1, <1>2, <1>3, <1>6, <1>7, <1>8, OneAddress, ZenonT(40) DEF Learns

LEMMA ChooseCall ==
  ASSUME CallType, NEW t \in Threads, CallInv(t), pc[t] = "get",
         UNCHANGED <<now, li, cfg, idx, barred>>, NEW i \in Whites(t), Choose(t, i)
  PROVE  CallInv(t)'
<1>1. PICK info \in InfoOutcomes :
        LET a == Attempted(arr[t][i], info)
        IN /\ addr' = [addr EXCEPT ![t] = i]
           /\ arr' = [arr EXCEPT ![t][i] = a]
           /\ IF a.state = "WHITE" THEN pc' = [pc EXCEPT ![t] = "connect"] /\ UNCHANGED cur
              ELSE pc' = [pc EXCEPT ![t] = "white"] /\ cur' = [cur EXCEPT ![t] = now]
  BY Zenon DEF Choose
<1> DEFINE a == Attempted(arr[t][i], info)
<1>2. i \in Indices(t) /\ arr[t][i].state = "WHITE" /\ info \in Infos
  BY Zenon DEF Whites, InfoOutcomes, Infos
<1>3. AddrInv(arr[t][i], barred[t][i], pc[t], Timeout(t), cur[t], now)
  BY <1>2, Zenon DEF CallInv
<1>4. now \in Nat /\ cur[t] \in Nat /\ cur[t] <= now /\ RoomInv(arr[t][i])
  BY <1>3, Zenon DEF CallType, CallInv, AddrInv
<1>5. /\ RoomInv(a)
      /\ \/ a.state = "WHITE" /\ a.black_time = arr[t][i].black_time /\ a.info = "ok"
         \/ a.state = "BLACK" /\ a.black_time = now
  BY <1>2, <1>4, AttemptedRoom, Zenon
<1>6. /\ a.state = "WHITE" => pc'[t] = "connect" /\ cur'[t] = cur[t]
      /\ a.state # "WHITE" => pc'[t] = "white" /\ cur'[t] = now
      /\ addr'[t] = i /\ arr'[t] = [arr[t] EXCEPT ![i] = a]
  BY <1>1, Zenon DEF CallType
<1> HIDE DEF a
<1>7. arr'[t][i] = a
  BY <1>2, <1>6, Zenon DEF CallInv
<1>8. Stays(t)
  BY <1>2, <1>5, <1>6, <1>7, Zenon DEF Stays, CallInv
<1>9. AddrInv(a, barred[t][i], pc'[t], Timeout(t), cur'[t], now)
  <2>1. /\ pc'[t] # "load"
        /\ \/ a.state = "WHITE" /\ a.black_time = arr[t][i].black_time /\ cur'[t] = cur[t]
           \/ a.state = "BLACK" /\ a.black_time = now
    BY <1>5, <1>6, Zenon
  <2> QED
    BY <1>2, <1>3, <1>4, <1>5, <2>1, AddrInvTried, Zenon
<1>10. barred'[t] = [barred[t] EXCEPT ![i] = barred[t][i]]
  BY Zenon DEF CallInv
<1> QED
  BY <1>2, <1>6, <1>8, <1>9, <1>10, OneAddress, Zenon DEF Learns

LEMMA GetAddressCall ==
  ASSUME CallType, NEW t \in Threads, CallInv(t), GetAddress(t)
  PROVE  CallInv(t)'
<1>1. UNCHANGED <<now, li, cfg, idx, barred>> /\ pc[t] = "get"
  BY Zenon DEF GetAddress
<1>2. ASSUME NoAddress(t) PROVE CallInv(t)'
  <2>1. arr' = arr /\ cur' = cur /\ pc'[t] = "next"
    BY <1>2, Zenon DEF NoAddress, CallType
  <2>2. Stays(t)
    BY <1>1, <2>1, Zenon DEF Stays, CallInv
  <2> QED
    BY <1>1, <2>1, <2>2, NoneChanged, Zenon
<1>3. NoAddress(t) \/ \E i \in Whites(t) : Choose(t, i)
  <2>1. ASSUME Rotate(t) PROVE NoAddress(t) \/ \E i \in Whites(t) : Choose(t, i)
    <3> DEFINE ahead == {i \in Whites(t) : i >= (rot[t] % Len(List(t))) + 1}
    <3>1. CASE ahead = {}
      BY <2>1, <3>1, Zenon DEF Rotate
    <3>2. CASE ahead # {}
      <4>1. ahead \subseteq Nat
        BY ListFacts DEF Whites, Indices, List, CallType
      <4>2. Min(ahead) \in ahead
        BY <3>2, <4>1, MinIsLeast, ZenonT(40)
      <4> QED
        BY <2>1, <3>2, <4>2, Zenon DEF Rotate
    <3> QED
      BY <3>1, <3>2, Zenon
  <2> QED
    BY <2>1, Zenon DEF GetAddress
<1> QED
  BY <1>1, <1>2, <1>3, ChooseCall, Zenon

LEMMA CheckBlackCall ==
  ASSUME CallType, NEW t \in Threads, CallInv(t), CheckBlack(t)
  PROVE  CallInv(t)'
<1> DEFINE i == addr[t]
           a == Judged(arr[t][i], cfg[t])
           b == IF a.state = "BLACK" \/ cfg[t].append_strategy = "NORMAL" THEN now ELSE barred[t][i]
<1>1. i \in Indices(t) /\ arr[t][i].state = "WHITE" /\ arr[t][i].info = "ok" /\ pc[t] = "black"
  BY Zenon DEF CallInv, CheckBlack
<1>2. AddrInv(arr[t][i], barred[t][i], pc[t], Timeout(t), cur[t], now)
  BY <1>1, Zenon DEF CallInv
<1>3. now \in Nat /\ RoomInv(arr[t][i])
  BY <1>2, Zenon DEF CallType, AddrInv
<1>4. /\ RoomInv(a)
      /\ \/ a.state = "BLACK" /\ a.black_time = now
         \/ /\ a.state = "WHITE" /\ a.black_time = arr[t][i].black_time /\ a.info = "ok"
            /\ cfg[t].append_strategy # "NORMAL"
  BY <1>1, <1>3, JudgedRoom, Zenon
<1>5. /\ pc'[t] \in {"append", "retry"} /\ addr' = addr /\ cur' = cur
      /\ arr'[t] = [arr[t] EXCEPT ![i] = a] /\ barred'[t] = [barred[t] EXCEPT ![i] = b]
      /\ UNCHANGED <<now, li, cfg, idx>>
  BY Zenon DEF CheckBlack, CallType
<1> HIDE DEF a
<1>6. AddrInv(a, b, pc'[t], Timeout(t), cur'[t], now)
  <2>1. CASE a.state = "BLACK"
    BY <1>3, <1>4, <2>1 DEF AddrInv
  <2>2. CASE a.state # "BLACK"
    <3>1. b = barred[t][i] /\ a.state = "WHITE" /\ a.black_time = arr[t][i].black_time
      BY <1>4, <2>2, Zenon
    <3> QED
      BY <1>1, <1>2, <1>4, <1>5, <3>1, Zenon DEF AddrInv
  <2> QED
    BY <2>1, <2>2, Zenon
<1>7. Stays(t)
  BY <1>1, <1>5, Zenon DEF Stays, CallInv
<1> HIDE DEF b, i
<1> QED
  BY <1>1, <1>5, <1>6, <1>7, OneAddress, ZenonT(40) DEF Learns

(* connect, append and retry change nothing of what the call knows.          *)
LEMMA OtherCall ==
  ASSUME CallType, NEW t \in Threads, CallInv(t), Connect(t) \/ AppendBlacklist(t) \/ Retry(t)
  PROVE  CallInv(t)'
<1>1. UNCHANGED <<now, li, cfg, idx, addr, arr, barred>>
  BY Zenon DEF Connect, AppendBlacklist, Retry, local
<1>2. cur'[t] \in {cur[t], now}
  BY Zenon DEF Connect, AppendBlacklist, Retry, local, CallType
<1>3. /\ pc'[t] \in {"black", "next", "retry", "white"}
      /\ pc'[t] = "black" => pc[t] = "connect"
  BY Zenon DEF Connect, AppendBlacklist, Retry, CallType
<1>4. Stays(t)
  BY <1>1, <1>2, <1>3, Zenon DEF Stays, CallInv
<1> QED
  BY <1>1, <1>4, NoneChanged, Zenon

LEMMA AppendBlackInv ==
  ASSUME CallType, BlackInv, NEW t \in Threads, CallInv(t), AppendBlacklist(t)
  PROVE  BlackInv'
<1>1. addr[t] \in Indices(t)
  BY Zenon DEF CallInv, AppendBlacklist
<1>2. arr[t][addr[t]].black_time \in Nat /\ arr[t][addr[t]].black_time <= now
  BY <1>1, Zenon DEF CallInv, AddrInv, RoomInv
<1> QED
  BY <1>2, Zenon DEF BlackInv, AppendBlacklist

(* A call begins, goes on to its next list or ends: everything is fresh.     *)
LEMMA EnterListCall ==
  ASSUME CallType, NEW t \in Threads, NEW l \in 1..Len(Lists), EnterList(t, l), now' = now,
         cur'[t] <= now
  PROVE  CallInv(t)'
<1>1. PICK ready \in AllocOutcomes, infos \in [1..Len(Lists[l]) -> InfoOutcomes] :
        /\ li' = [li EXCEPT ![t] = l]
        /\ arr' = [arr EXCEPT ![t] = [i \in 1..Len(Lists[l]) |-> FreshAddress(infos[i])]]
        /\ idx' = [idx EXCEPT ![t] = 1]
        /\ barred' = [barred EXCEPT ![t] = [i \in 1..Len(Lists[l]) |-> Absent]]
        /\ pc' = [pc EXCEPT ![t] = IF ready THEN "load" ELSE "next"]
  BY Zenon DEF EnterList
<1>2. \A i \in 1..Len(Lists[l]) : infos[i] \in Infos
  BY Zenon DEF InfoOutcomes, Infos
<1>3. /\ li'[t] = l /\ idx'[t] = 1 /\ pc'[t] \notin {"connect", "black", "append"}
      /\ arr'[t] = [i \in 1..Len(Lists[l]) |-> FreshAddress(infos[i])]
      /\ barred'[t] = [i \in 1..Len(Lists[l]) |-> Absent]
  BY <1>1, Zenon DEF CallType
<1> QED
  BY <1>2, <1>3, EnteredInv, Zenon DEF CallType

LEMMA ReturnCall ==
  ASSUME CallType, NEW t \in Threads, NEW r, Return(t, r), now' = now
  PROVE  CallInv(t)'
<1> DEFINE infos == [i \in 1..Len(Lists[1]) |-> "ok"]
<1>1. \A i \in 1..Len(Lists[1]) : infos[i] \in Infos
  BY Zenon DEF Infos
<1>2. /\ li'[t] = 1 /\ idx'[t] = 1 /\ pc'[t] \notin {"connect", "black", "append"}
      /\ arr'[t] = [i \in 1..Len(Lists[1]) |-> FreshAddress(infos[i])]
      /\ barred'[t] = [i \in 1..Len(Lists[1]) |-> Absent]
      /\ cur'[t] = 0 /\ now' \in Nat
  BY Zenon DEF CallType, Return
<1>3. ASSUME NEW c, NEW n \in Nat, c = 0 PROVE c <= n
  BY <1>3
<1>4. cur'[t] <= now'
  BY <1>2, <1>3, Zenon
<1> HIDE DEF infos
<1> QED
  BY <1>1, <1>2, <1>4, FirstList, EnteredInv, Zenon

(* The next list, while there is one.                                        *)
LEMMA NextIndex ==
  ASSUME NEW l \in 1..Len(Lists), l < Len(Lists)
  PROVE  l + 1 \in 1..Len(Lists)
<1>1. Len(Lists) \in Nat
  BY LoadBalanceAssumption
<1> QED
  BY <1>1

---------------------------------------------------------------------------
(* A step leaves what the other calls know alone.                            *)
OtherCalls(t) ==
  \A u \in Threads \ {t} :
    /\ pc'[u] = pc[u] /\ cfg'[u] = cfg[u] /\ li'[u] = li[u] /\ arr'[u] = arr[u]
    /\ idx'[u] = idx[u] /\ cur'[u] = cur[u] /\ addr'[u] = addr[u] /\ barred'[u] = barred[u]

LEMMA CallFrame ==
  ASSUME AddressInv, NEW t \in Threads, Call(t) \/ Step(t)
  PROVE  OtherCalls(t) /\ CallType' /\ now' = now
<1> USE DEF OtherCalls, CallType, PCs
<1>0. CallType
  BY Zenon DEF AddressInv
<1>1. CASE LoadBlacklist(t)
  BY <1>0, <1>1, ZenonT(40) DEF LoadBlacklist
<1>2. CASE CheckWhite(t)
  BY <1>0, <1>2, Zenon DEF CheckWhite
<1>3. CASE GetAddress(t)
  <2>1. UNCHANGED <<now, cfg, li, idx, barred>>
    BY <1>3, Zenon DEF GetAddress
  <2>2. ASSUME NoAddress(t)
        PROVE  pc' = [pc EXCEPT ![t] = "next"] /\ UNCHANGED <<arr, addr, cur>>
    BY <2>2, Zenon DEF NoAddress
  <2>3. ASSUME NEW i, Choose(t, i)
        PROVE  /\ \E l \in {"connect", "white"} : pc' = [pc EXCEPT ![t] = l]
               /\ cur' \in {cur, [cur EXCEPT ![t] = now]}
               /\ addr' = [addr EXCEPT ![t] = i]
               /\ \E a : arr' = [arr EXCEPT ![t][i] = a]
    BY <2>3, Zenon DEF Choose
  <2>4. NoAddress(t) \/ \E i : Choose(t, i)
    BY <1>3, Zenon DEF GetAddress, Rotate
  <2>5. CASE NoAddress(t)
    BY <1>0, <2>1, <2>2, <2>5, Zenon
  <2>6. ASSUME NEW i, Choose(t, i)
        PROVE  OtherCalls(t) /\ CallType' /\ now' = now
    BY <1>0, <2>1, <2>3, <2>6, ZenonT(40)
  <2> QED
    BY <2>4, <2>5, <2>6, Zenon
<1>4. CASE Connect(t)
  BY <1>0, <1>4, Zenon DEF Connect
<1>5. CASE CheckBlack(t)
  BY <1>0, <1>5, Zenon DEF CheckBlack
<1>6. CASE AppendBlacklist(t)
  BY <1>0, <1>6, Zenon DEF AppendBlacklist, local
<1>7. CASE Retry(t)
  <2>1. UNCHANGED <<now, cfg, li, arr, idx, addr, barred>>
    BY <1>7, Zenon DEF Retry
  <2>2. \E l \in {"next", "white"} : pc' = [pc EXCEPT ![t] = l]
    BY <1>7, Zenon DEF Retry
  <2>3. cur' \in {cur, [cur EXCEPT ![t] = now]}
    BY <1>7, Zenon DEF Retry
  <2> QED
    BY <1>0, <2>1, <2>2, <2>3
<1>8. ASSUME NEW l \in 1..Len(Lists), EnterList(t, l)
      PROVE  /\ \E p \in {"load", "next"} : pc' = [pc EXCEPT ![t] = p]
             /\ li' = [li EXCEPT ![t] = l] /\ idx' = [idx EXCEPT ![t] = 1]
             /\ \E a : arr' = [arr EXCEPT ![t] = a]
             /\ \E b : barred' = [barred EXCEPT ![t] = b]
  BY <1>8, Zenon DEF EnterList
<1>9. CASE NextList(t)
  <2>1. UNCHANGED <<now, cfg>>
    BY <1>9, Zenon DEF NextList
  <2>2. ASSUME NEW r, Return(t, r)
        PROVE  OtherCalls(t) /\ CallType' /\ now' = now
    BY <1>0, <2>1, <2>2, FirstList, Zenon DEF Return
  <2>3. CASE li[t] < Len(Lists) /\ EnterList(t, li[t] + 1) /\ UNCHANGED <<cur, addr>>
    <3>1. li[t] + 1 \in 1..Len(Lists)
      BY <1>0, <2>3, NextIndex, Zenon
    <3> QED
      BY <1>0, <1>8, <2>1, <2>3, <3>1, ZenonT(40)
  <2> QED
    BY <1>9, <2>2, <2>3, Zenon DEF NextList
<1>10. CASE Call(t)
  <2>1. /\ cfg' = [cfg EXCEPT ![t] = Defaulted(cfg[t])] /\ EnterList(t, 1)
        /\ UNCHANGED <<now, cur, addr>>
    BY <1>10, Zenon DEF Call
  <2>2. Defaulted(cfg[t]) \in ConfigType
    BY <1>0, DefaultedType, Zenon
  <2> QED
    BY <1>0, <1>8, <2>1, <2>2, FirstList, Zenon
<1> QED
  BY <1>1, <1>2, <1>3, <1>4, <1>5, <1>6, <1>7, <1>9, <1>10, Zenon DEF Step

(* Only CheckWhite and AppendBlacklist touch the blacklist.                  *)
LEMMA BlackFrame ==
  ASSUME BlackInv, UNCHANGED <<now, blacklist>>
  PROVE  BlackInv'
BY Zenon DEF BlackInv

LEMMA AddressInit ==
  ASSUME Init
  PROVE  AddressInv
<1> DEFINE infos == [i \in 1..Len(Lists[1]) |-> "ok"]
<1>1. CallType
  BY FirstList, LoadBalanceAssumption, Zenon DEF Init, CallType, PCs
<1>2. BlackInv
  BY DEF Init, BlackInv, Absent
<1>3. ASSUME NEW t \in Threads PROVE CallInv(t)
  <2>1. Indices(t) = 1..Len(Lists[1]) /\ 1 \in 1..Len(Lists[1])
    BY FirstList, ListFacts, Zenon DEF Init, Indices, List
  <2>2. ASSUME NEW i \in 1..Len(Lists[1])
        PROVE  AddrInv(arr[t][i], barred[t][i], pc[t], Timeout(t), cur[t], now)
    <3>1. arr[t][i] = FreshAddress("ok") /\ barred[t][i] = Absent /\ now = 0
      BY Zenon DEF Init
    <3>2. "ok" \in Infos
      BY Zenon DEF Infos
    <3> QED
      BY <3>1, <3>2, FreshInv, Zenon
  <2> QED
    BY <2>1, <2>2 DEF Init, CallInv
<1> QED
  BY <1>1, <1>2, <1>3, Zenon DEF AddressInv

(* AddressInv is inductive.                                                  *)
LEMMA AddressStep ==
  ASSUME AddressInv, [Next]_vars
  PROVE  AddressInv'
<1>0. CallType /\ BlackInv /\ \A t \in Threads : CallInv(t)
  BY Zenon DEF AddressInv
<1>1. ASSUME NEW u \in Threads, now' \in Nat, now' >= now, pc'[u] = pc[u], cfg'[u] = cfg[u], li'[u] = li[u],
             arr'[u] = arr[u], idx'[u] = idx[u], cur'[u] = cur[u], addr'[u] = addr[u],
             barred'[u] = barred[u]
      PROVE  CallInv(u)'
  <2>1. Indices(u)' = Indices(u) /\ Timeout(u)' = Timeout(u)
    BY <1>1, Zenon DEF Indices, List, Timeout
  <2>2. Timeout(u) \in Nat /\ cur[u] \in Nat /\ now \in Nat /\ cur[u] <= now
    BY <1>0, ToUsType, Zenon DEF CallType, CallInv, ConfigType, Timeout
  <2>3. cur[u] <= now' /\ cur[u] >= cur[u]
    BY <1>1, <2>2, LaterThan, Zenon
  <2>4. ASSUME NEW i \in Indices(u)'
        PROVE  AddrInv(arr'[u][i], barred'[u][i], pc'[u], Timeout(u)', cur'[u], now')
    <3>1. AddrInv(arr[u][i], barred[u][i], pc[u], Timeout(u), cur[u], now)
      BY <1>0, <2>1, <2>4, Zenon DEF CallInv
    <3>2. AddrInv(arr[u][i], barred[u][i], pc[u], Timeout(u), cur[u], now')
      BY <1>1, <2>2, <2>3, <3>1, AddrInvLater, Zenon
    <3> QED
      BY <1>1, <2>1, <3>2, Zenon
  <2> QED
    <3>1. CallInv(u)
      BY <1>0, Zenon
    <3>2. /\ arr[u] = [i \in Indices(u)' |-> arr[u][i]]
          /\ barred[u] = [i \in Indices(u)' |-> barred[u][i]]
      BY <2>1, <3>1, SameDomain, Zenon DEF CallInv
    <3>3. /\ arr'[u] = [i \in Indices(u)' |-> arr'[u][i]]
          /\ barred'[u] = [i \in Indices(u)' |-> barred'[u][i]]
      BY <1>1, <3>2, Zenon
    <3> QED
      BY <1>1, <2>1, <2>3, <2>4, <3>1, <3>3, ZenonT(40) DEF CallInv
<1>2. CASE UNCHANGED vars
  <2>1. CallType' /\ BlackInv'
    BY <1>0, <1>2, Zenon DEF vars, CallType, BlackInv
  <2> QED
    BY <1>0, <1>1, <1>2, <2>1 DEF vars, AddressInv, CallType
<1>3. CASE Tick
  <2>1. now' = now + 1 /\ UNCHANGED <<blacklist, pc, local>>
    BY <1>3, Zenon DEF Tick
  <2>2. CallType' /\ BlackInv' /\ now' >= now
    <3>1. now \in Nat /\ now' \in Nat /\ now' >= now
      BY <1>0, <2>1 DEF CallType
    <3>2. CallType'
      BY <1>0, <2>1, <3>1, Zenon DEF CallType, local
    <3>3. BlackInv'
      BY <1>0, <2>1, <3>1 DEF BlackInv, Absent
    <3> QED
      BY <3>1, <3>2, <3>3, Zenon
  <2> QED
    BY <1>0, <1>1, <2>1, <2>2, Zenon DEF local, AddressInv, CallType
<1>4. ASSUME NEW t \in Threads, Call(t) \/ Step(t)
      PROVE  AddressInv'
  <2>1. OtherCalls(t) /\ CallType' /\ now' = now /\ now \in Nat
    BY <1>0, <1>4, CallFrame, Zenon DEF AddressInv, CallType
  <2>2. ASSUME NEW u \in Threads \ {t} PROVE CallInv(u)'
    BY <1>1, <2>1 DEF OtherCalls
  <2>3. CallInv(t)'
    <3>1. CallInv(t)
      BY <1>0, Zenon
    <3>2. CASE Call(t)
      <4>1. EnterList(t, 1) /\ cur' = cur /\ cur[t] <= now
        BY <3>1, <3>2, Zenon DEF Call, CallInv
      <4> QED
        BY <1>0, <2>1, <4>1, FirstList, EnterListCall, Zenon
    <3>3. CASE NextList(t)
      <4>1. ASSUME NEW r, Return(t, r) PROVE CallInv(t)'
        BY <1>0, <2>1, <4>1, ReturnCall, Zenon
      <4>2. CASE li[t] < Len(Lists) /\ EnterList(t, li[t] + 1) /\ UNCHANGED cur
        <5>1. li[t] + 1 \in 1..Len(Lists) /\ cur'[t] <= now
          BY <1>0, <3>1, <4>2, NextIndex, Zenon DEF CallType, CallInv
        <5> QED
          BY <1>0, <2>1, <4>2, <5>1, EnterListCall, Zenon
      <4> QED
        BY <3>3, <4>1, <4>2, Zenon DEF NextList
    <3> QED
      BY <1>0, <1>4, <3>1, <3>2, <3>3, LoadBlacklistCall, CheckWhiteCall, GetAddressCall,
         CheckBlackCall, OtherCall, Zenon DEF Step
  <2>4. BlackInv'
    <3>1. CASE CheckWhite(t)
      BY <1>0, <3>1, CheckWhiteCall, Zenon
    <3>2. CASE AppendBlacklist(t)
      BY <1>0, <3>2, AppendBlackInv, Zenon
    <3>3. CASE ~CheckWhite(t) /\ ~AppendBlacklist(t)
      <4>1. blacklist' = blacklist
        BY <1>4, <3>3, ZenonT(40) DEF Step, Call, LoadBlacklist, GetAddress, Connect, CheckBlack, Retry, NextList
      <4> QED
        BY <1>0, <2>1, <4>1, BlackFrame, Zenon
    <3> QED
      BY <3>1, <3>2, <3>3, Zenon
  <2> QED
    BY <2>1, <2>2, <2>3, <2>4, Zenon DEF AddressInv
<1> QED
  BY <1>2, <1>3, <1>4, Zenon DEF Next

(* A call connects to an address that was blacklisted, or that it found down *)
(* itself, only after check_ob_address_white saw remove_timeout pass, for    *)
(* any lists, configurations, clock and threads on the shared blacklist.     *)
THEOREM BarredUntilTimeoutHolds == Spec => []BarredUntilTimeout
<1>1. Init => AddressInv
  BY AddressInit, Zenon
<1>2. AddressInv /\ [Next]_vars => AddressInv'
  BY AddressStep, Zenon
<1>3. AddressInv => BarredUntilTimeout
  <2> SUFFICES ASSUME AddressInv, NEW t \in Threads, pc[t] = "connect", barred[t][addr[t]] # Absent
               PROVE  Timeout(t) > 0 /\ cur[t] - barred[t][addr[t]] >= Timeout(t)
    BY Zenon DEF BarredUntilTimeout, Timeout
  <2>1. CallInv(t)
    BY Zenon DEF AddressInv
  <2>2. addr[t] \in Indices(t) /\ arr[t][addr[t]].state = "WHITE"
    BY <2>1, Zenon DEF CallInv
  <2> QED
    BY <2>1, <2>2, Zenon DEF CallInv, AddrInv
<1> QED
  BY <1>1, <1>2, <1>3, PTL DEF Spec

(* append_ob_address_connect_info and init_connect_info never leave more     *)
(* attempts in connect_list than it has slots, whatever the initial size,    *)
(* the failures of malloc and the cuts of check_ob_address_black.            *)
THEOREM ConnectListInBoundsHolds == Spec => []ConnectListInBounds
<1>1. Init => AddressInv
  BY AddressInit, Zenon
<1>2. AddressInv /\ [Next]_vars => AddressInv'
  BY AddressStep, Zenon
<1>3. AddressInv => ConnectListInBounds
  BY Zenon DEF AddressInv, CallInv, AddrInv, RoomInv, ConnectListInBounds
<1> QED
  BY <1>1, <1>2, <1>3, PTL DEF Spec
=============================================================================
