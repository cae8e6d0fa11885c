--------------------------- MODULE MCLoadBalance ---------------------------
(* Small instances of LoadBalance for TLC.                                   *)
EXTENDS LoadBalance, TLC

CONSTANTS k1, k2, k3

OneList == <<<<k1, k2>>>>
ThreeAddresses == <<<<k1, k2, k3>>>>
TwoLists == <<<<k1, k2>>, <<k2>>>>
OneAddress == <<<<k1>>>>

Config(mode, option, strategy, duration, times, remove, timeout, all) ==
  [mode |-> mode, option |-> option, append_strategy |-> strategy,
   append_duration |-> duration, append_retrytimes |-> times,
   remove_timeout |-> remove, retry_timeout |-> timeout,
   retry_all_downs |-> all]

(* The address-list entry points: rotation, black after one failure.         *)
ListConfigs ==
  {Config("list", "ROTATION", "NORMAL", 0, 0, 1, 0, all) : all \in {0}}

(* TNS descriptions: every strategy, two address lists, with and without a   *)
(* total time limit.                                                         *)
TnsConfigs ==
  {Config("tns", o, s, 1, 2, 1, timeout, all) :
     o \in Options, s \in Strategies, timeout \in {0, 1}, all \in {0, 2}}

(* Instances in which the code departs from its own rules (see README).      *)
RotationConfigs == {Config("list", "ROTATION", "NORMAL", 9, 1, 1, 0, 5)}
DurationConfigs ==
  {Config("tns", "ROTATION", "RETRY_DERUATION", 2, 2, 20, 0, 4)}
RemovalConfigs == {Config("list", "ROTATION", "NORMAL", 0, 0, 2, 0, 2)}

ThreadSymmetry == Permutations(Threads)
=============================================================================
