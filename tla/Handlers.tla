------------------------------ MODULE Handlers ------------------------------
(***************************************************************************)
(* The two connection handler plugins, which keep two connections behind   *)
(* the application's one handle (plugins/connection/aurora.c,              *)
(* plugins/connection/replication.c).                                      *)
(***************************************************************************)
EXTENDS Integers, FiniteSets

(***************************************************************************)
(* The connection handler plugin for Aurora clusters                       *)
(* (plugins/connection/aurora.c).  It keeps one connection to the primary  *)
(* and one to a replica, finds out which instance is which by asking, and  *)
(* copies one of the two into the application's handle before a command.   *)
(* Between two attempts the cluster may promote, stop or start instances.  *)
(***************************************************************************)
CONSTANTS Instances,    \* of the URL, 1..n
          MaxOpened     \* attempts to connect
NoConn == [id |-> 0, srv |-> 0, role |-> "none"]

VARIABLES cluster,   \* the role of every instance: primary, replica or down
          au,        \* the AURORA structure: types, my, pid
          acall,     \* the call that is under way
          acur,      \* the connection the application's handle is a copy of
          aopen,     \* connections that are open
          acount     \* attempts so far

auvars == <<au, acall, acur, aopen, acount>>
Idle == [pc |-> "idle"]

(* calloc and aurora_parse_url                                             *)
FreshAurora == [live |-> "none", type |-> [i \in Instances |-> "unknown"], pid |-> 0,
                primary |-> NoConn, replica |-> NoConn]
AuroraInit ==
  /\ cluster = [i \in Instances |-> IF i = 1 THEN "primary" ELSE "replica"]
  /\ au = FreshAurora /\ acall = Idle /\ acur = NoConn /\ aopen = {} /\ acount = 0

(* aurora_get_instance_type and aurora_get_primary_id: what the queries may*)
(* answer; they may fail                                                   *)
GetInstanceType(i) == {cluster[i], "unavailable"}
GetPrimaryId == {0} \cup {p \in Instances : cluster[p] = "primary"}

(* One attempt of aurora_connect_instance at instance i, with what it      *)
(* learns: [au, conn], conn = NoConn when the connection is to be closed,  *)
(* as that of a replica is that named the primary.                         *)
Learnt(i, t, p) ==
  LET c == [id |-> acount + 1, srv |-> i, role |-> cluster[i]]
      seen == [au EXCEPT !.type[i] = t]
  IN CASE t = "unavailable" -> [au |-> seen, conn |-> NoConn]
       [] t = "replica" /\ au.pid = 0 /\ p # 0 -> [au |-> [seen EXCEPT !.pid = p], conn |-> NoConn]
       [] OTHER -> [au |-> seen, conn |-> c]
ConnectInstance(i) ==
  IF cluster[i] = "down" THEN {Learnt(i, "unavailable", 0)}
  ELSE {Learnt(i, t, p) : t \in GetInstanceType(i), p \in GetPrimaryId}

(* aurora_get_valid_instances                                              *)
ValidInstances(a) ==
  {i \in Instances : /\ a.type[i] # "unavailable"
                     /\ ~(a.type[i] = "primary" /\ a.primary # NoConn)}

(* aurora_connect: from mysql_real_connect, or from aurora_reconnect, which*)
(* closed both connections                                                 *)
BeginFind(a, keep) ==
  acall' = IF a.replica = NoConn /\ Cardinality(Instances) >= 2
           THEN [pc |-> "replica", list |-> ValidInstances(a), cur |-> keep]
           ELSE [pc |-> "primary", i |-> 1, check |-> TRUE, cur |-> keep]
Connect ==
  /\ acall = Idle /\ au.live = "none"
  /\ au' = [FreshAurora EXCEPT !.live = "live"]
  /\ BeginFind(FreshAurora, NoConn)
  /\ UNCHANGED <<cluster, acur, aopen, acount>>

(* aurora_find_replica, one round of its loop.  The list of candidates is  *)
(* not made again after a primary was met.                                 *)
FindReplica ==
  /\ acall.pc = "replica" /\ acall.list # {} /\ acount < MaxOpened
  /\ acount' = acount + 1
  /\ \E i \in acall.list : \E r \in ConnectInstance(i) :
       LET role == IF r.conn = NoConn THEN "none" ELSE r.au.type[i]
           take == role = "primary" /\ au.primary = NoConn
           a == CASE role = "replica" -> [r.au EXCEPT !.replica = r.conn]
                  [] role = "primary" /\ take -> [r.au EXCEPT !.primary = r.conn]
                  [] OTHER -> r.au
       IN /\ au' = a
          /\ aopen' = IF role = "replica" \/ take THEN aopen \cup {r.conn} ELSE aopen
          /\ acall' = IF role = "replica"
                      THEN [pc |-> "primary", i |-> 1, check |-> TRUE, cur |-> acall.cur]
                      ELSE IF role = "primary" THEN acall
                      ELSE [acall EXCEPT !.list = ValidInstances(a)]
  /\ UNCHANGED <<cluster, acur>>
NoReplica ==
  /\ acall.pc = "replica" /\ acall.list = {}
  /\ acall' = [pc |-> "primary", i |-> 1, check |-> TRUE, cur |-> acall.cur]
  /\ UNCHANGED <<cluster, au, acur, aopen, acount>>

(* aurora_find_primary, one round: the instance a replica named comes      *)
(* first, and takes the turn of the instance it is tried instead of        *)
FindPrimary ==
  /\ acall.pc = "primary" /\ au.primary = NoConn /\ acall.i \in Instances /\ acount < MaxOpened
  /\ LET named == acall.check /\ au.pid # 0
         i == IF named THEN au.pid ELSE acall.i
         next == [acall EXCEPT !.i = @ + 1, !.check = @ /\ ~named]
     IN IF ~named /\ au.type[i] = "unavailable"
        THEN acall' = next /\ UNCHANGED <<au, aopen, acount>>
        ELSE \E r \in ConnectInstance(i) :
               LET found == r.conn # NoConn /\ r.au.type[i] = "primary"
                   a == [r.au EXCEPT !.pid = IF named THEN 0 ELSE @]
               IN /\ au' = IF found THEN [a EXCEPT !.primary = r.conn] ELSE a
                  /\ aopen' = IF found THEN aopen \cup {r.conn} ELSE aopen
                  /\ acall' = next /\ acount' = acount + 1
  /\ UNCHANGED <<cluster, acur>>

(* The end of aurora_connect: aurora_switch_connection, or the error path, *)
(* which frees the structure.  mysql_real_connect then drops the handler;  *)
(* aurora_reconnect goes on reading it, and nothing is said of what follows*)
Connected ==
  /\ acall.pc = "primary" /\ (au.primary # NoConn \/ acall.i \notin Instances)
  /\ acall' = Idle
  /\ IF au.primary = NoConn /\ au.replica = NoConn
     THEN acur' = acall.cur /\ au' = [au EXCEPT !.live = IF acall.cur = NoConn THEN "none" ELSE "freed"]
     ELSE /\ acur' = IF au.primary # NoConn THEN au.primary ELSE au.replica
          /\ UNCHANGED au
  /\ UNCHANGED <<cluster, aopen, acount>>

(* aurora_reconnect: the line of the current connection dropped            *)
Reconnect_KeepsOther ==
  /\ acall = Idle /\ au.live = "live" /\ au.primary # NoConn
  /\ LET a == [au EXCEPT !.type = [i \in Instances |-> "unknown"],
                         !.primary = NoConn, !.replica = NoConn]
     IN au' = a /\ BeginFind(a, acur)
  /\ aopen' = aopen \ {acur}
  /\ UNCHANGED <<cluster, acur, acount>>
Reconnect ==
  /\ acall = Idle /\ au.live = "live" /\ au.primary # NoConn
  /\ LET a == [au EXCEPT !.type = [i \in Instances |-> "unknown"],
                         !.primary = NoConn, !.replica = NoConn]
     IN au' = a /\ BeginFind(a, acur)
  /\ aopen' = aopen \ {au.primary, au.replica}
  /\ UNCHANGED <<cluster, acur, acount>>

(* aurora_close                                                            *)
Close ==
  /\ acall = Idle /\ au.live = "live"
  /\ aopen' = aopen \ {au.primary, au.replica}
  /\ au' = FreshAurora /\ acur' = NoConn
  /\ UNCHANGED <<cluster, acall, acount>>

(* aurora_command; a statement is known to the replica only if the copy of *)
(* its handle was taken after it was prepared, which never happens         *)
Switch(a, cur, to) == IF a[to] # NoConn THEN a[to] ELSE cur
Command(cmd, ro) ==
  IF (au.replica = NoConn \/ ~ro) /\ cmd # "init_db" THEN Switch(au, acur, "primary")
  ELSE CASE cmd = "init_db" -> acur
         [] cmd \in {"query", "prepare"} -> Switch(au, acur, "replica")
         [] OTHER -> Switch(au, acur, "primary")
SendTo(cmd, ro) ==
  /\ acall = Idle /\ au.live = "live"
  /\ cmd = "init_db" => au.primary # NoConn
  /\ acur' = Command(cmd, ro)
  /\ UNCHANGED <<cluster, au, acall, aopen, acount>>

(* The cluster: another instance becomes primary, one stops or comes back  *)
Failover ==
  /\ \/ \E i \in Instances :
          cluster' = [j \in Instances |-> IF j = i THEN "primary"
                                          ELSE IF cluster[j] = "primary" THEN "replica" ELSE cluster[j]]
     \/ \E i \in Instances : cluster' = [cluster EXCEPT ![i] = "down"]
  /\ acount < MaxOpened
  /\ UNCHANGED auvars

AuroraCommands == {"query", "prepare", "execute", "init_db"}
AuroraNext ==
  \/ Connect \/ FindReplica \/ NoReplica \/ FindPrimary \/ Connected
  \/ Reconnect \/ Close \/ Failover
  \/ \E cmd \in AuroraCommands, ro \in BOOLEAN : SendTo(cmd, ro)

(* No connection is lost: every one that is open is the handler's primary  *)
(* or replica, through every round of the searches, reconnects and         *)
(* failovers (aurora_find_replica, aurora_find_primary, aurora_reconnect). *)
NoConnectionLost == aopen = {au.primary, au.replica} \ {NoConn}

(* Between calls the application's handle is a copy of a connection that   *)
(* is open: a reconnect or close leaves no copy of a closed one.           *)
HandleOpen == acall = Idle /\ au.live = "live" => acur \in aopen

(* What the handler believes of its two connections is what each instance  *)
(* said when it was connected.                                             *)
RolesSeen ==
  /\ au.primary # NoConn => au.primary.role = "primary"
  /\ au.replica # NoConn => au.replica.role = "replica"

(***************************************************************************)
(* The connection handler plugin for replication                           *)
(* (plugins/connection/replication.c).  The application's handle has the   *)
(* master's line; a second handle, with the slave's, is kept aside, and a  *)
(* command is sent on one line or the other by swapping net.pvio.          *)
(***************************************************************************)
CONSTANTS MaxLines    \* lines opened
ASSUME HandlersAssumption == Instances \subseteq Nat \ {0} /\ MaxLines \in Nat
NoLine == 0
Lines == 1..MaxLines

VARIABLES rhdl,    \* REPL_DATA: [live, master, slave, ro], lines or NoLine
          rcur,    \* mysql->net.pvio
          rstmt,   \* where the application's prepared statement was prepared
          ropen,   \* open lines
          rdone    \* lines closed, and how often

NoRepl == [live |-> FALSE, master |-> NoLine, slave |-> NoLine, ro |-> FALSE]
ReplInit ==
  /\ rhdl = NoRepl /\ rcur = NoLine /\ rstmt = NoLine /\ ropen = {}
  /\ rdone = [l \in Lines |-> 0]

Unused == {l \in Lines : l \notin ropen /\ rdone[l] = 0}
CloseLines(ls) ==
  /\ ropen' = ropen \ ls
  /\ rdone' = [l \in Lines |-> rdone[l] + (IF l \in ls THEN 1 ELSE 0)]

(* repl_connect: an existing pair of lines is closed first; the master must*)
(* answer, a slave that does not is done without.  Line numbers are given  *)
(* in order.                                                               *)
ReplConnect ==
  /\ Cardinality(Unused) >= 2
  /\ LET a == CHOOSE l \in Unused : \A k \in Unused : l <= k
         old == {rhdl.master, rhdl.slave} \ {NoLine}
     IN \/ /\ rhdl' = NoRepl /\ rcur' = NoLine /\ CloseLines(old)
        \/ \E s \in {NoLine, a + 1} :
             /\ rhdl' = [NoRepl EXCEPT !.live = TRUE, !.master = a, !.slave = s]
             /\ rcur' = a
             /\ ropen' = (ropen \ old) \cup ({a, s} \ {NoLine})
             /\ rdone' = [l \in Lines |-> rdone[l] + (IF l \in old THEN 1 ELSE 0)]
  /\ UNCHANGED rstmt

(* repl_close restores the master's line, closes the slave's; mysql_close  *)
(* goes on with the master's.                                              *)
ReplClose ==
  /\ rhdl.live
  /\ CloseLines({rhdl.master, rhdl.slave} \ {NoLine})
  /\ rhdl' = NoRepl /\ rcur' = NoLine /\ UNCHANGED rstmt

(* repl_command: reads says that the text begins with an s.  The slave's   *)
(* line points to the application's handle, so every statement of it is    *)
(* taken for one the slave prepared.                                       *)
ForSlave(cmd, reads) ==
  \/ cmd \in {"query", "prepare"} /\ reads
  \/ cmd = "execute" /\ rstmt # NoLine
ReplRoute(cmd, reads) ==
  IF rhdl.slave # NoLine /\ rhdl.ro /\ ForSlave(cmd, reads) THEN rhdl.slave ELSE rhdl.master
ReplCommand(cmd, reads) ==
  /\ rhdl.live /\ rcur' = ReplRoute(cmd, reads)
  /\ rstmt' = IF cmd = "prepare" THEN rcur' ELSE rstmt
  /\ UNCHANGED <<rhdl, ropen, rdone>>
(* repl_set_optionsv with MARIADB_OPT_CONNECTION_READ_ONLY                 *)
ReplReadOnly(b) ==
  /\ rhdl.live /\ rhdl' = [rhdl EXCEPT !.ro = b]
  /\ UNCHANGED <<rcur, rstmt, ropen, rdone>>

ReplNext ==
  \/ ReplConnect \/ ReplClose \/ \E b \in BOOLEAN : ReplReadOnly(b)
  \/ \E cmd \in {"query", "prepare", "execute", "other"}, reads \in BOOLEAN : ReplCommand(cmd, reads)

(* The two plugins beside each other.                                      *)
replvars == <<rhdl, rcur, rstmt, ropen, rdone>>
HandlersSpec ==
  /\ AuroraInit /\ ReplInit
  /\ [][\/ AuroraNext /\ UNCHANGED replvars
        \/ ReplNext /\ UNCHANGED <<cluster, auvars>>]_<<cluster, auvars, replvars>>

(* Every line that was opened is held or was closed exactly once, whichever*)
(* line was current when the handler connected again or was closed         *)
(* (repl_connect, repl_close).                                             *)
LinesClosedOnce ==
  /\ ropen = {rhdl.master, rhdl.slave} \ {NoLine}
  /\ \A l \in Lines : rdone[l] <= 1 /\ (rdone[l] = 1 => l \notin ropen)

(* The line in the application's handle is open, and is the master's when  *)
(* there is no slave.                                                      *)
LineOpen == rhdl.live => rcur \in ropen /\ (rhdl.slave = NoLine => rcur = rhdl.master)

(* A handler loses none of its two connections and leaves the application  *)
(* no handle on a closed one, through failovers, searches, swaps and new   *)
(* connects, and believes of each the role that it has (aurora.c,          *)
(* replication.c).                                                         *)
TwoConnectionsKept ==
  /\ NoConnectionLost
  /\ HandleOpen
  /\ RolesSeen
  /\ LinesClosedOnce
  /\ LineOpen
=============================================================================
