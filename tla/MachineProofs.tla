--------------------------- MODULE MachineProofs ---------------------------
(* Proofs for the smaller machines of the library: LOAD DATA LOCAL, and the  *)
(* two connection handlers, for files of any length, any cluster and any     *)
(* number of connections.                                                    *)
EXTENDS LoadLocal, Handlers, Auth, FiniteSetTheorems, WellFoundedInduction, TLAPS

---------------------------------------------------------------------------
(* LOAD DATA LOCAL.                                                          *)

LdFields == {"pc", "allowed", "ext", "mode", "custom", "query", "can", "file", "info", "err", "upd",
             "flag", "conn", "srv", "more", "unread", "got", "stale", "cut", "skipped"}
LdShape(l) ==
  /\ l = [f \in LdFields |-> l[f]]
  /\ l.pc \in {"start", "idle", "read", "init", "data", "end", "answer"}
  /\ l.mode \in {"always", "wait", "accept"} /\ l.unread \in {0, 1}

(* What allows a file to be sent.                                            *)
LdGranted(l) == l.allowed /\ l.ext /\ (l.mode = "always" \/ l.query = "load" \/ l.stale)

(* From the query on: what the server waits for, and where the permission    *)
(* of the query is kept until the answer takes it back.                      *)
LdSteps(l) ==
  /\ l.pc = "read" => l.srv \in {"file", "answer"} /\ l.got = 0
  /\ l.pc \in {"end", "answer"} /\ l.conn /\ ~l.cut => l.srv = "answer"
  /\ l.pc \in {"init", "data"} => LdGranted(l)
  /\ l.pc = "end" /\ l.got > 0 => LdGranted(l)
LdPermission(l) ==
  /\ l.mode = "accept" => l.ext
  /\ l.mode = "accept" => l.pc \in {"idle", "read"}
  /\ l.pc = "idle" /\ l.mode = "accept" => l.stale
  /\ l.pc = "read" /\ l.mode = "accept" => l.query = "load" \/ l.stale
LdRest(l) ==
  /\ l.pc \in {"start", "idle", "read", "answer"} => l.upd /\ l.info = "null"
  /\ l.pc # "idle" => l.unread = 0
  /\ l.pc = "idle" /\ l.conn /\ l.unread > 0 => l.flag \/ l.skipped
LdGood(l) == LdShape(l) /\ LdSteps(l) /\ LdPermission(l) /\ LdRest(l)
LdInv == LdGood(ld)

LEMMA LdInitGood == LdInit => LdInv
BY DEF LdInit, LdInv, LdGood, LdShape, LdFields, LdSteps, LdPermission, LdRest, LdGranted

(* The empty packet for a file that is not sent.                             *)
LEMMA LdEmptied ==
  ASSUME NEW l, LdShape(l), l.pc = "end", l.mode # "accept", l.unread = 0,
         l.got > 0 => LdGranted(l), NEW k \in Emptied(l)
  PROVE  LdGood(k)
<1>1. CASE k = [l EXCEPT !.srv = "answer"]
  BY <1>1, Zenon DEF LdGood, LdShape, LdFields, LdSteps, LdPermission, LdRest, LdGranted
<1>2. CASE k = [l EXCEPT !.conn = FALSE]
  BY <1>2, ZenonT(20) DEF LdGood, LdShape, LdFields, LdSteps, LdPermission, LdRest, LdGranted
<1> QED
  BY <1>1, <1>2, Zenon DEF Emptied

LEMMA LdQueryGood ==
  ASSUME LdInv, LdQuery
  PROVE  LdInv'
<1>1. LdGood(ld) /\ ld.pc = "idle" /\ ld.conn /\ ~ld.skipped
  BY Zenon DEF LdInv, LdQuery
<1> DEFINE asked(q) == [ld EXCEPT !.mode = Expecting(ld, q), !.query = q, !.err = "none"]
<1>2. PICK q \in {"load", "other"} :
        IF ld.flag THEN ld' = [asked(q) EXCEPT !.stale = @ \/ asked(q).mode = "accept"]
        ELSE \/ ld' = [asked(q) EXCEPT !.stale = @ \/ asked(q).mode = "accept", !.conn = FALSE]
             \/ \E s \in {"file", "answer"}, mo \in BOOLEAN :
                  ld' = [asked(q) EXCEPT !.pc = "read", !.srv = s, !.more = mo, !.got = 0]
  BY Zenon DEF LdQuery
<1>3. PICK m : m = Expecting(ld, q)
  BY Zenon
<1>4. PICK l : l = asked(q)
  BY Zenon
<1>5. /\ m \in {"always", "wait", "accept"} /\ (m = "accept" => ld.ext)
      /\ m = "accept" => q = "load" \/ ld.stale
  BY <1>1, <1>3, Zenon DEF Expecting, LdGood, LdShape, LdPermission
<1>6. /\ LdShape(l) /\ l.mode = m /\ l.query = q /\ l.pc = "idle" /\ l.stale = ld.stale
      /\ l.ext = ld.ext /\ l.upd /\ l.info = "null" /\ l.conn /\ l.unread = ld.unread
      /\ l.flag = ld.flag /\ ~l.skipped
      /\ (l.unread > 0 => l.flag)
  BY <1>1, <1>3, <1>4, <1>5, ZenonT(40) DEF LdGood, LdShape, LdFields, LdRest
<1> HIDE DEF asked
<1>7. ASSUME NEW st, st <=> (l.stale \/ l.mode = "accept")
      PROVE  LdGood([l EXCEPT !.stale = st]) /\ LdGood([l EXCEPT !.stale = st, !.conn = FALSE])
  BY <1>5, <1>6, <1>7, ZenonT(60) DEF LdGood, LdShape, LdFields, LdSteps, LdPermission, LdRest, LdGranted
<1>8. PICK st : st = (l.stale \/ l.mode = "accept")
  BY Zenon
<1>9. CASE ld' = [l EXCEPT !.stale = st] \/ ld' = [l EXCEPT !.stale = st, !.conn = FALSE]
  <2>1. LdGood([l EXCEPT !.stale = st]) /\ LdGood([l EXCEPT !.stale = st, !.conn = FALSE])
    BY <1>7, <1>8, Zenon
  <2> QED
    BY <1>9, <2>1, Zenon DEF LdInv
<1>10. ASSUME NEW s \in {"file", "answer"}, NEW mo \in BOOLEAN, ~ld.flag,
              ld' = [l EXCEPT !.pc = "read", !.srv = s, !.more = mo, !.got = 0]
       PROVE  LdInv'
  <2>1. l.unread = 0
    BY <1>1, <1>6, <1>10 DEF LdShape
  <2> QED
    BY <1>5, <1>6, <1>10, <2>1, ZenonT(40)
    DEF LdInv, LdGood, LdShape, LdFields, LdSteps, LdPermission, LdRest, LdGranted
<1>11. \/ ld' = [l EXCEPT !.stale = st] \/ ld' = [l EXCEPT !.stale = st, !.conn = FALSE]
       \/ /\ ~ld.flag
          /\ \E s \in {"file", "answer"}, mo \in BOOLEAN :
               ld' = [l EXCEPT !.pc = "read", !.srv = s, !.more = mo, !.got = 0]
  <2>1. /\ [l EXCEPT !.stale = @ \/ l.mode = "accept"] = [l EXCEPT !.stale = st]
        /\ [l EXCEPT !.stale = @ \/ l.mode = "accept", !.conn = FALSE]
             = [l EXCEPT !.stale = st, !.conn = FALSE]
    BY <1>6, <1>8, Zenon DEF LdShape, LdFields
  <2> QED
    BY <1>2, <1>4, <2>1, Zenon
<1> QED
  BY <1>9, <1>10, <1>11, Zenon

LEMMA LdIdleGood ==
  ASSUME LdInv, LdOptions \/ LdReconnect \/ LdNextResult
  PROVE  LdInv'
<1>1. LdGood(ld)
  BY Zenon DEF LdInv
<1>2. CASE LdOptions
  <2>1. PICK a, x, c \in BOOLEAN, mo \in {"always", "wait"} :
          ld.pc = "start" /\ ld' = [ld EXCEPT !.pc = "idle", !.allowed = a, !.ext = x, !.mode = mo, !.custom = c]
    BY <1>2, ZenonT(20) DEF LdOptions
  <2>2. PICK k : k = ld'
    BY Zenon
  <2>3. LdShape(k) /\ k.pc = "idle" /\ k.mode = mo /\ k.upd /\ k.info = "null" /\ k.unread = 0
    BY <1>1, <2>1, <2>2, ZenonT(40) DEF LdGood, LdShape, LdFields, LdRest
  <2> QED
    BY <2>2, <2>3 DEF LdInv, LdGood, LdSteps, LdPermission, LdRest
<1>3. CASE LdReconnect
  <2>1. PICK k : k = ld'
    BY Zenon
  <2>2. /\ LdShape(k) /\ k.pc = "idle" /\ k.mode = ld.mode /\ k.upd /\ k.info = "null"
        /\ k.unread = 0 /\ k.stale = ld.stale /\ k.ext = ld.ext /\ ld.pc = "idle"
    BY <1>1, <1>3, <2>1, ZenonT(40) DEF LdReconnect, LdGood, LdShape, LdFields, LdRest
  <2> QED
    BY <1>1, <2>1, <2>2 DEF LdInv, LdGood, LdSteps, LdPermission, LdRest
<1>4. CASE LdNextResult
  <2>1. PICK m : m = IF ld.ext /\ ld.mode = "accept" THEN "wait" ELSE ld.mode
    BY Zenon
  <2>2. PICK c : c = (ld.ext /\ ld.mode # "wait")
    BY Zenon
  <2>3. ld.pc = "idle" /\ ld' = [ld EXCEPT !.can = c, !.mode = m, !.unread = 0, !.flag = FALSE]
    BY <1>1, <1>4, <2>1, <2>2, Zenon DEF LdNextResult, ReadAnswer, LdGood, LdShape, LdFields
  <2>4. m \in {"always", "wait"}
    BY <1>1, <2>1, Zenon DEF LdGood, LdShape, LdPermission
  <2>5. PICK k : k = ld'
    BY Zenon
  <2>6. LdShape(k) /\ k.pc = "idle" /\ k.mode = m /\ k.upd /\ k.info = "null" /\ k.unread = 0
    BY <1>1, <2>3, <2>4, <2>5, Zenon DEF LdGood, LdShape, LdFields, LdRest
  <2> QED
    BY <2>4, <2>5, <2>6 DEF LdInv, LdGood, LdSteps, LdPermission, LdRest
<1> QED
  BY <1>2, <1>3, <1>4, Zenon

LEMMA LdReadGood ==
  ASSUME LdInv, LdRead
  PROVE  LdInv'
<1>1. LdGood(ld) /\ ld.pc = "read"
  BY Zenon DEF LdInv, LdRead
<1>2. PICK m : m = IF ld.ext /\ ld.mode = "accept" THEN "wait" ELSE ld.mode
  BY Zenon
<1>3. PICK c : c = (ld.ext /\ ld.mode # "wait")
  BY Zenon
<1>4. PICK l : l = ReadAnswer(ld)
  BY Zenon
<1>5. m \in {"always", "wait"}
  BY <1>1, <1>2, Zenon DEF LdGood, LdShape, LdPermission
<1>6. /\ LdShape(l) /\ l.pc = "read" /\ l.mode = m /\ l.can = c /\ l.upd /\ l.info = "null"
      /\ l.srv = ld.srv /\ l.unread = 0 /\ l.got = 0
      /\ l.allowed = ld.allowed /\ l.ext = ld.ext /\ l.query = ld.query /\ l.stale = ld.stale
  BY <1>1, <1>2, <1>3, <1>4, <1>5, ZenonT(40) DEF ReadAnswer, LdGood, LdShape, LdFields, LdSteps, LdRest
<1>7. PICK h : h = [l EXCEPT !.upd = FALSE]
  BY Zenon
<1>8. /\ LdShape(h) /\ h.pc = "read" /\ h.mode = m /\ h.unread = 0 /\ h.got = 0 /\ h.can = c
      /\ h.allowed = ld.allowed /\ h.ext = ld.ext /\ h.query = ld.query /\ h.stale = ld.stale
  BY <1>6, <1>7, Zenon DEF LdShape, LdFields
<1>9. \/ ld.srv = "answer" /\ ld' = [l EXCEPT !.pc = "answer"]
      \/ ld' \in RefuseFile(h)
      \/ l.allowed /\ l.can /\ \E n \in 0..LdPieces : ld' = [h EXCEPT !.pc = "init", !.file = n]
  <2>1. ld.srv \in {"file", "answer"}
    BY <1>1, Zenon DEF LdGood, LdSteps
  <2> QED
    BY <1>4, <1>7, <2>1, Zenon DEF LdRead
<1>10. CASE ld.srv = "answer" /\ ld' = [l EXCEPT !.pc = "answer"]
  BY <1>5, <1>6, <1>10, ZenonT(20) DEF LdInv, LdGood, LdShape, LdFields, LdSteps, LdPermission, LdRest
<1>11. CASE ld' \in RefuseFile(h)
  <2>1. PICK e : e = [h EXCEPT !.err = "forbidden", !.pc = "end"]
    BY Zenon
  <2>2. LdShape(e) /\ e.pc = "end" /\ e.mode = m /\ e.unread = 0 /\ e.got = 0
    BY <1>8, <2>1, ZenonT(20) DEF LdShape, LdFields
  <2>3. ld' \in Emptied(e)
    BY <1>11, <2>1, Zenon DEF RefuseFile
  <2> QED
    BY <1>5, <2>2, <2>3, LdEmptied DEF LdInv
<1>12. ASSUME l.allowed, l.can, NEW n, ld' = [h EXCEPT !.pc = "init", !.file = n]
       PROVE  LdInv'
  <2>1. ld.allowed /\ ld.ext /\ (ld.mode = "always" \/ ld.query = "load" \/ ld.stale) /\ ld.mode # "wait"
    BY <1>1, <1>3, <1>6, <1>12, Zenon DEF LdGood, LdShape, LdPermission
  <2>2. m = "always" \/ ld.query = "load" \/ ld.stale
    BY <1>2, <2>1, Zenon
  <2> QED
    BY <1>5, <1>8, <1>12, <2>1, <2>2, ZenonT(40)
    DEF LdInv, LdGood, LdShape, LdFields, LdSteps, LdPermission, LdRest, LdGranted
<1> QED
  BY <1>9, <1>10, <1>11, <1>12, Zenon

LEMMA LdFileGood ==
  ASSUME LdInv, LdInitFile \/ LdData \/ LdEnd
  PROVE  LdInv'
<1>1. LdGood(ld)
  BY Zenon DEF LdInv
<1>2. CASE LdInitFile
  <2>1. PICK l \in OpenFile(ld) : IF l.err = "none" THEN ld' = [l EXCEPT !.pc = "data"]
                                  ELSE ld' \in Emptied([l EXCEPT !.pc = "end"])
    BY <1>2, Zenon DEF LdInitFile
  <2>2. /\ LdShape(l) /\ l.mode # "accept" /\ l.unread = 0 /\ LdGranted(l)
    <3>1. LdShape(ld) /\ ld.mode # "accept" /\ ld.unread = 0 /\ LdGranted(ld)
      BY <1>1, <1>2, Zenon DEF LdInitFile, LdGood, LdSteps, LdPermission, LdRest
    <3>2. l = [ld EXCEPT !.info = "open"] \/ l = [ld EXCEPT !.info = "failed", !.err = "open"]
      BY <2>1, Zenon DEF OpenFile
    <3> QED
      BY <3>1, <3>2, ZenonT(40) DEF LdShape, LdFields, LdGranted
  <2>3. CASE ld' = [l EXCEPT !.pc = "data"]
    BY <2>2, <2>3, Zenon DEF LdInv, LdGood, LdShape, LdFields, LdSteps, LdPermission, LdRest, LdGranted
  <2>4. CASE ld' \in Emptied([l EXCEPT !.pc = "end"])
    <3>1. PICK e : e = [l EXCEPT !.pc = "end"]
      BY Zenon
    <3>2. LdShape(e) /\ e.pc = "end" /\ e.mode # "accept" /\ e.unread = 0 /\ LdGranted(e)
      BY <2>2, <3>1, Zenon DEF LdShape, LdFields, LdGranted
    <3> QED
      BY <2>4, <3>1, <3>2, LdEmptied, Zenon DEF LdInv
  <2> QED
    BY <2>1, <2>3, <2>4, Zenon
<1>3. CASE LdData
  <2>1. ld.pc = "data" /\ ld.mode # "accept" /\ ld.unread = 0 /\ LdGranted(ld)
    BY <1>1, <1>3, Zenon DEF LdData, LdGood, LdSteps, LdPermission, LdRest
  <2>2. CASE ld' = [ld EXCEPT !.file = @ - 1, !.got = @ + 1]
    BY <1>1, <2>1, <2>2, Zenon DEF LdInv, LdGood, LdShape, LdFields, LdSteps, LdPermission, LdRest, LdGranted
  <2>3. ASSUME NEW e, ld' = [ld EXCEPT !.pc = "end", !.srv = "answer", !.err = e]
        PROVE  LdInv'
    BY <1>1, <2>1, <2>3, ZenonT(20) DEF LdInv, LdGood, LdShape, LdFields, LdSteps, LdPermission, LdRest, LdGranted
  <2>4. ASSUME NEW up, ld' = [ld EXCEPT !.pc = "end", !.err = "lost", !.cut = TRUE, !.conn = up]
        PROVE  LdInv'
    BY <1>1, <2>1, <2>4, ZenonT(20) DEF LdInv, LdGood, LdShape, LdFields, LdSteps, LdPermission, LdRest, LdGranted
  <2> QED
    BY <1>3, <2>2, <2>3, <2>4, Zenon DEF LdData
<1>4. CASE LdEnd
  <2>1. ld.pc = "end" /\ ld' = [ld EXCEPT !.upd = TRUE, !.info = "null", !.pc = "answer"]
    BY <1>1, <1>4, Zenon DEF LdEnd, EndFile, CloseFile, LdGood, LdShape, LdFields
  <2> QED
    BY <1>1, <2>1, ZenonT(20) DEF LdInv, LdGood, LdShape, LdFields, LdSteps, LdPermission, LdRest, LdGranted
<1> QED
  BY <1>2, <1>3, <1>4, Zenon

LEMMA LdAnswerGood ==
  ASSUME LdInv, LdAnswer
  PROVE  LdInv'
<1>1. LdGood(ld) /\ ld.pc = "answer" /\ ld.unread = 0 /\ ld.mode # "accept"
  BY Zenon DEF LdInv, LdAnswer, LdGood, LdRest, LdPermission
<1>2. PICK s \in {"ok", "error"} : ld' = [TakeAnswer(ld, s) EXCEPT !.pc = "idle", !.stale = FALSE]
  BY Zenon DEF LdAnswer
<1>3. PICK l : l = TakeAnswer(ld, s)
  BY Zenon
<1>4. PICK b \in {0, 1} : b = IF ld.more THEN 1 ELSE 0
  BY Zenon
<1>5. \/ l = [ld EXCEPT !.conn = FALSE]
      \/ l = [ld EXCEPT !.flag = FALSE, !.srv = "query"]
      \/ l = [ld EXCEPT !.unread = b, !.skipped = ld.more, !.srv = "query"]
      \/ l = [ld EXCEPT !.flag = ld.more, !.unread = b, !.srv = "query"]
  BY <1>3, <1>4 DEF TakeAnswer
<1>6. /\ LdShape(l) /\ l.mode = ld.mode /\ l.upd /\ l.info = "null"
      /\ l.conn /\ l.unread > 0 => l.flag \/ l.skipped
  <2>1. LdShape(ld) /\ ld.upd /\ ld.info = "null"
    BY <1>1, Zenon DEF LdGood, LdRest
  <2>2. CASE l = [ld EXCEPT !.conn = FALSE]
    BY <2>1, <2>2, Zenon DEF LdShape, LdFields
  <2>3. CASE l = [ld EXCEPT !.flag = FALSE, !.srv = "query"]
    <3>1. LdShape(l) /\ l.mode = ld.mode /\ l.upd /\ l.info = "null" /\ l.unread = 0
      BY <1>1, <2>1, <2>3, ZenonT(20) DEF LdShape, LdFields
    <3> QED
      BY <3>1
  <2>4. CASE l = [ld EXCEPT !.unread = b, !.skipped = ld.more, !.srv = "query"]
    <3>1. LdShape(l) /\ l.mode = ld.mode /\ l.upd /\ l.info = "null" /\ l.unread = b /\ l.skipped = ld.more
      BY <2>1, <2>4, ZenonT(20) DEF LdShape, LdFields
    <3> QED
      BY <1>4, <3>1
  <2>5. CASE l = [ld EXCEPT !.flag = ld.more, !.unread = b, !.srv = "query"]
    <3>1. LdShape(l) /\ l.mode = ld.mode /\ l.upd /\ l.info = "null" /\ l.unread = b /\ l.flag = ld.more
      BY <2>1, <2>5, ZenonT(20) DEF LdShape, LdFields
    <3> QED
      BY <1>4, <3>1
  <2> QED
    BY <1>5, <2>2, <2>3, <2>4, <2>5, Zenon
<1>7. ld' = [l EXCEPT !.pc = "idle", !.stale = FALSE]
  BY <1>2, <1>3, Zenon
<1> QED
  BY <1>1, <1>6, <1>7, ZenonT(20) DEF LdInv, LdGood, LdShape, LdFields, LdSteps, LdPermission, LdRest

(* LOAD DATA LOCAL ends in step with the server for files of any length and  *)
(* however the file, the options or the line fail: nobody waits for the      *)
(* other, a file is sent only on request, its handler is released and no     *)
(* answer stays unread (mysql_handle_local_infile).                          *)
THEOREM LocalSettlesHolds == LdSpec => []LocalSettles
<1>1. LdInit => LdInv
  BY LdInitGood, Zenon
<1>2. LdInv /\ [LdNext]_ld => LdInv'
  <2> SUFFICES ASSUME LdInv, [LdNext]_ld
               PROVE  LdInv'
    BY Zenon
  <2>1. CASE UNCHANGED ld
    BY <2>1, Zenon DEF LdInv
  <2> QED
    BY <2>1, LdQueryGood, LdIdleGood, LdReadGood, LdFileGood, LdAnswerGood, Zenon DEF LdNext
<1>3. LdInv => LocalSettles
  BY Zenon DEF LdInv, LdGood, LdSteps, LdRest, LdGranted, LocalSettles, NobodyWaits, FileOnlyOnRequest,
         HandlerReleased, LocalInSync
<1> QED
  BY <1>1, <1>2, <1>3, PTL DEF LdSpec

(***************************************************************************)
(* The connection handlers                                                 *)
(***************************************************************************)
(* The AURORA structure, and what the searches rely on: a search runs only *)
(* on a live structure, that for a replica only while there is none, and a *)
(* structure that is not in use holds no connection.                       *)
AuShape(a) ==
  /\ a = [live |-> a.live, type |-> a.type, pid |-> a.pid, primary |-> a.primary, replica |-> a.replica]
  /\ a.type = [i \in Instances |-> a.type[i]]
  /\ a.pid \in {0} \cup Instances
Searching(a, call) ==
  \/ call = Idle
  \/ /\ call.pc = "replica" /\ call = [pc |-> "replica", list |-> call.list, cur |-> call.cur]
     /\ call.list \subseteq Instances /\ a.live = "live" /\ a.replica = NoConn
  \/ /\ call.pc = "primary" /\ call = [pc |-> "primary", i |-> call.i, check |-> call.check, cur |-> call.cur]
     /\ a.live = "live"
AuroraInv ==
  /\ cluster = [i \in Instances |-> cluster[i]] /\ acount \in Nat
  /\ AuShape(au) /\ Searching(au, acall)
  /\ au.live = "none" => au.primary = NoConn /\ au.replica = NoConn
  /\ NoConnectionLost /\ HandleOpen /\ RolesSeen

(* The lines are opened in order, so the next two are free when two are    *)
(* left; a live pair has a master.                                         *)
ReplInv ==
  /\ rhdl = [live |-> rhdl.live, master |-> rhdl.master, slave |-> rhdl.slave, ro |-> rhdl.ro]
  /\ rhdl.live => rhdl.master # NoLine
  /\ ropen \subseteq Lines /\ rdone \in [Lines -> {0, 1}]
  /\ \A l \in Unused, k \in Lines : k >= l => k \in Unused
  /\ LinesClosedOnce /\ LineOpen

(* What one attempt brings: what was learnt is written down, and a          *)
(* connection that is kept has the role the instance had.                   *)
LEMMA Attempt ==
  ASSUME AuroraInv, NEW i \in Instances, NEW r \in ConnectInstance(i)
  PROVE  /\ AuShape(r.au) /\ r.au.live = au.live
         /\ r.au.primary = au.primary /\ r.au.replica = au.replica
         /\ r.conn # NoConn => r.conn.role = r.au.type[i]
<1>1. AuShape(au) /\ cluster = [j \in Instances |-> cluster[j]]
  BY Zenon DEF AuroraInv
<1>2. PICK t \in GetInstanceType(i), p \in GetPrimaryId : r = Learnt(i, t, p)
  BY DEF ConnectInstance, GetInstanceType, GetPrimaryId
<1>3. PICK c : c = [id |-> acount + 1, srv |-> i, role |-> cluster[i]]
  BY Zenon
<1>4. PICK s : s = [au EXCEPT !.type[i] = t]
  BY Zenon
<1>5. AuShape(s) /\ s.live = au.live /\ s.primary = au.primary /\ s.replica = au.replica /\ s.type[i] = t
  <2>1. au.type[i] = au.type[i] /\ s = [au EXCEPT !.type = [au.type EXCEPT ![i] = t]]
    BY <1>4, Zenon
  <2>2. PICK ty : ty = [au.type EXCEPT ![i] = t]
    BY Zenon
  <2>3. ty = [j \in Instances |-> ty[j]] /\ ty[i] = t
    BY <1>1, <2>2, Zenon DEF AuShape
  <2>4. s = [live |-> au.live, type |-> ty, pid |-> au.pid, primary |-> au.primary, replica |-> au.replica]
    BY <1>1, <2>1, <2>2, Zenon DEF AuShape
  <2> QED
    BY <1>1, <2>3, <2>4, Zenon DEF AuShape
<1>6. CASE t = "unavailable"
  BY <1>2, <1>4, <1>5, <1>6, Zenon DEF Learnt
<1>7. CASE t # "unavailable" /\ t = "replica" /\ au.pid = 0 /\ p # 0
  <2>1. PICK k : k = [s EXCEPT !.pid = p]
    BY Zenon
  <2>2. r = [au |-> k, conn |-> NoConn]
    BY <1>2, <1>4, <1>7, <2>1, Zenon DEF Learnt
  <2>3. p \in {0} \cup Instances
    BY Zenon DEF GetPrimaryId
  <2>4. k = [live |-> s.live, type |-> s.type, pid |-> p, primary |-> s.primary, replica |-> s.replica]
    BY <1>5, <2>1, Zenon DEF AuShape
  <2>5. AuShape(k) /\ k.live = s.live /\ k.primary = s.primary /\ k.replica = s.replica
    BY <1>5, <2>3, <2>4, Zenon DEF AuShape
  <2> QED
    BY <1>5, <2>2, <2>5, Zenon
<1>8. CASE t # "unavailable" /\ ~(t = "replica" /\ au.pid = 0 /\ p # 0)
  <2>1. r = [au |-> s, conn |-> c]
    BY <1>2, <1>3, <1>4, <1>8, Zenon DEF Learnt
  <2>2. t = cluster[i]
    BY <1>8, Zenon DEF GetInstanceType
  <2> QED
    BY <1>3, <1>5, <2>1, <2>2, Zenon
<1> QED
  BY <1>6, <1>7, <1>8, Zenon

(* A connection that is taken for the primary or the replica.              *)
LEMMA TakenPrimary ==
  ASSUME NEW a, AuShape(a), NEW c, NEW k, k = [a EXCEPT !.primary = c]
  PROVE  AuShape(k) /\ k.live = a.live /\ k.primary = c /\ k.replica = a.replica
<1>1. k = [live |-> a.live, type |-> a.type, pid |-> a.pid, primary |-> c, replica |-> a.replica]
  BY Zenon DEF AuShape
<1> QED
  BY <1>1, Zenon DEF AuShape

LEMMA TakenReplica ==
  ASSUME NEW a, AuShape(a), NEW c, NEW k, k = [a EXCEPT !.replica = c]
  PROVE  AuShape(k) /\ k.live = a.live /\ k.primary = a.primary /\ k.replica = c
<1>1. k = [live |-> a.live, type |-> a.type, pid |-> a.pid, primary |-> a.primary, replica |-> c]
  BY Zenon DEF AuShape
<1> QED
  BY <1>1, Zenon DEF AuShape

LEMMA FreshShape ==
  /\ AuShape(FreshAurora) /\ FreshAurora.live = "none"
  /\ FreshAurora.primary = NoConn /\ FreshAurora.replica = NoConn
BY Zenon DEF FreshAurora, AuShape

(* The start of a search: it is under way.                                 *)
LEMMA Searches ==
  ASSUME NEW a, AuShape(a), NEW b, b.live = "live", b.replica = a.replica, NEW keep, BeginFind(a, keep)
  PROVE  Searching(b, acall') /\ acall' # Idle
<1>1. ValidInstances(a) \subseteq Instances
  BY Zenon DEF ValidInstances
<1>2. CASE a.replica = NoConn /\ Cardinality(Instances) >= 2
  <2>1. PICK v : v = ValidInstances(a)
    BY Zenon
  <2>2. acall' = [pc |-> "replica", list |-> v, cur |-> keep]
    BY <1>2, <2>1, Zenon DEF BeginFind
  <2> QED
    BY <1>1, <1>2, <2>1, <2>2, Zenon DEF Searching, Idle
<1>3. CASE ~(a.replica = NoConn /\ Cardinality(Instances) >= 2)
  <2>1. acall' = [pc |-> "primary", i |-> 1, check |-> TRUE, cur |-> keep]
    BY <1>3, Zenon DEF BeginFind
  <2> QED
    BY <2>1, Zenon DEF Searching, Idle
<1> QED
  BY <1>2, <1>3, Zenon

LEMMA FindReplicaGood ==
  ASSUME AuroraInv, FindReplica
  PROVE  AuroraInv'
<1> USE HandlersAssumption
<1>1. /\ acall.pc = "replica" /\ acount \in Nat /\ acount' = acount + 1
      /\ cluster' = cluster /\ acur' = acur /\ cluster = [j \in Instances |-> cluster[j]]
  BY Zenon DEF FindReplica, AuroraInv
<1>2. /\ acall = [pc |-> "replica", list |-> acall.list, cur |-> acall.cur]
      /\ acall.list \subseteq Instances /\ au.live = "live" /\ au.replica = NoConn
  BY <1>1 DEF AuroraInv, Searching, Idle
<1>3. NoConnectionLost /\ RolesSeen
  BY Zenon DEF AuroraInv
<1> DEFINE Role(i, r) == IF r.conn = NoConn THEN "none" ELSE r.au.type[i]
           Take(i, r) == Role(i, r) = "primary" /\ au.primary = NoConn
           After(i, r) == CASE Role(i, r) = "replica" -> [r.au EXCEPT !.replica = r.conn]
                            [] Role(i, r) = "primary" /\ Take(i, r) -> [r.au EXCEPT !.primary = r.conn]
                            [] OTHER -> r.au
<1>4. \E i \in acall.list : \E r \in ConnectInstance(i) :
        /\ au' = After(i, r)
        /\ aopen' = IF Role(i, r) = "replica" \/ Take(i, r) THEN aopen \cup {r.conn} ELSE aopen
        /\ acall' = IF Role(i, r) = "replica"
                    THEN [pc |-> "primary", i |-> 1, check |-> TRUE, cur |-> acall.cur]
                    ELSE IF Role(i, r) = "primary" THEN acall
                    ELSE [acall EXCEPT !.list = ValidInstances(After(i, r))]
  BY Zenon DEF FindReplica
<1> HIDE DEF After
<1>5. PICK i \in acall.list : \E r \in ConnectInstance(i) :
        /\ au' = After(i, r)
        /\ aopen' = IF Role(i, r) = "replica" \/ Take(i, r) THEN aopen \cup {r.conn} ELSE aopen
        /\ acall' = IF Role(i, r) = "replica"
                    THEN [pc |-> "primary", i |-> 1, check |-> TRUE, cur |-> acall.cur]
                    ELSE IF Role(i, r) = "primary" THEN acall
                    ELSE [acall EXCEPT !.list = ValidInstances(After(i, r))]
  BY <1>4, Zenon
<1>6. PICK r \in ConnectInstance(i) :
        /\ au' = After(i, r)
        /\ aopen' = IF Role(i, r) = "replica" \/ Take(i, r) THEN aopen \cup {r.conn} ELSE aopen
        /\ acall' = IF Role(i, r) = "replica"
                    THEN [pc |-> "primary", i |-> 1, check |-> TRUE, cur |-> acall.cur]
                    ELSE IF Role(i, r) = "primary" THEN acall
                    ELSE [acall EXCEPT !.list = ValidInstances(After(i, r))]
  BY <1>5, Zenon
<1>7. i \in Instances
  BY <1>2, Zenon
<1>8. /\ AuShape(r.au) /\ r.au.live = "live"
      /\ r.au.primary = au.primary /\ r.au.replica = NoConn
      /\ r.conn # NoConn => r.conn.role = r.au.type[i]
  BY <1>2, <1>7, Attempt, Zenon
<1>9. CASE Role(i, r) = "replica"
  <2>1. au' = [r.au EXCEPT !.replica = r.conn] /\ r.conn # NoConn /\ r.conn.role = "replica"
    BY <1>6, <1>8, <1>9, Zenon DEF After
  <2>2. AuShape(au') /\ au'.live = "live" /\ au'.primary = au.primary /\ au'.replica = r.conn
    BY <1>8, <2>1, TakenReplica
  <2>3. aopen' = aopen \cup {r.conn} /\ acall' = [pc |-> "primary", i |-> 1, check |-> TRUE, cur |-> acall.cur]
    BY <1>6, <1>9, Zenon
  <2>4. Searching(au', acall') /\ acall' # Idle
    BY <2>2, <2>3, Zenon DEF Searching, Idle
  <2>5. aopen' = {au'.primary, au'.replica} \ {NoConn}
    BY <1>2, <1>3, <2>1, <2>2, <2>3, Zenon DEF NoConnectionLost
  <2> QED
    BY <1>1, <1>3, <2>1, <2>2, <2>4, <2>5 DEF AuroraInv, NoConnectionLost, RolesSeen, HandleOpen
<1>10. CASE Role(i, r) # "replica" /\ Take(i, r)
  <2>1. au' = [r.au EXCEPT !.primary = r.conn] /\ r.conn # NoConn /\ r.conn.role = "primary"
    BY <1>6, <1>8, <1>10, Zenon DEF After
  <2>2. AuShape(au') /\ au'.live = "live" /\ au'.primary = r.conn /\ au'.replica = NoConn
    BY <1>8, <2>1, TakenPrimary
  <2>3. aopen' = aopen \cup {r.conn} /\ acall' = acall
    BY <1>6, <1>10, Zenon
  <2>4. Searching(au', acall') /\ acall' # Idle
    BY <1>1, <1>2, <2>2, <2>3 DEF Searching, Idle
  <2>5. aopen' = {au'.primary, au'.replica} \ {NoConn}
    BY <1>2, <1>3, <1>10, <2>1, <2>2, <2>3, Zenon DEF NoConnectionLost
  <2> QED
    BY <1>1, <1>3, <2>1, <2>2, <2>4, <2>5 DEF AuroraInv, NoConnectionLost, RolesSeen, HandleOpen
<1>11. CASE Role(i, r) # "replica" /\ ~Take(i, r)
  <2>1. au' = r.au /\ aopen' = aopen
    BY <1>6, <1>11, Zenon DEF After
  <2>2. acall' = acall \/ acall' = [acall EXCEPT !.list = ValidInstances(After(i, r))]
    BY <1>6, <1>11, Zenon
  <2>3. PICK v : v = ValidInstances(After(i, r)) /\ v \subseteq Instances
    BY Zenon DEF ValidInstances
  <2>4. acall' = acall \/ acall' = [pc |-> "replica", list |-> v, cur |-> acall.cur]
    BY <1>2, <2>2, <2>3
  <2>5. Searching(au', acall') /\ acall' # Idle
    BY <1>1, <1>2, <1>8, <2>1, <2>3, <2>4 DEF Searching, Idle
  <2> QED
    BY <1>1, <1>2, <1>3, <1>8, <2>1, <2>5 DEF AuroraInv, NoConnectionLost, RolesSeen, HandleOpen
<1> QED
  BY <1>9, <1>10, <1>11, Zenon

LEMMA FindPrimaryGood ==
  ASSUME AuroraInv, FindPrimary
  PROVE  AuroraInv'
<1>1. /\ acall.pc = "primary" /\ acount \in Nat /\ au.primary = NoConn /\ acall.i \in Instances
      /\ cluster' = cluster /\ acur' = acur /\ cluster = [j \in Instances |-> cluster[j]]
  BY Zenon DEF FindPrimary, AuroraInv
<1>2. /\ acall = [pc |-> "primary", i |-> acall.i, check |-> acall.check, cur |-> acall.cur]
      /\ au.live = "live" /\ AuShape(au)
  BY <1>1 DEF AuroraInv, Searching, Idle
<1>3. NoConnectionLost /\ RolesSeen
  BY Zenon DEF AuroraInv
<1> DEFINE named == acall.check /\ au.pid # 0
           i == IF named THEN au.pid ELSE acall.i
           next == [acall EXCEPT !.i = @ + 1, !.check = @ /\ ~named]
           found(r) == r.conn # NoConn /\ r.au.type[i] = "primary"
           after(r) == [r.au EXCEPT !.pid = IF named THEN 0 ELSE @]
<1>4. IF ~named /\ au.type[i] = "unavailable"
      THEN acall' = next /\ UNCHANGED <<au, aopen, acount>>
      ELSE \E r \in ConnectInstance(i) :
             /\ au' = IF found(r) THEN [after(r) EXCEPT !.primary = r.conn] ELSE after(r)
             /\ aopen' = IF found(r) THEN aopen \cup {r.conn} ELSE aopen
             /\ acall' = next /\ acount' = acount + 1
  BY Zenon DEF FindPrimary
<1>5. acall' = next
  BY <1>4, Zenon
<1>6. PICK n, ck : acall' = [pc |-> "primary", i |-> n, check |-> ck, cur |-> acall.cur]
  <2>1. PICK n, ck : n = acall.i + 1 /\ ck = (acall.check /\ ~named)
    BY Zenon
  <2>2. acall' = [acall EXCEPT !.i = n, !.check = ck]
    BY <1>5, <2>1, Zenon
  <2>3. PICK mid : mid = [acall EXCEPT !.i = n]
    BY Zenon
  <2>4. mid = [pc |-> "primary", i |-> n, check |-> acall.check, cur |-> acall.cur]
    BY <1>2, <2>3
  <2>5. acall' = [mid EXCEPT !.check = ck]
    BY <2>2, <2>3, Zenon
  <2>6. acall' = [pc |-> "primary", i |-> n, check |-> ck, cur |-> acall.cur]
    BY <2>4, <2>5, Zenon
  <2> QED
    BY <2>6, Zenon
<1>7. acall' # Idle /\ \A a : a.live = "live" => Searching(a, acall')
  BY <1>6, Zenon DEF Searching, Idle
<1>8. i \in Instances
  BY <1>1, <1>2, Zenon DEF AuShape
<1> HIDE DEF next, i
<1>9. CASE UNCHANGED <<au, aopen, acount>>
  BY <1>1, <1>2, <1>3, <1>7, <1>9, ZenonT(20) DEF AuroraInv, NoConnectionLost, RolesSeen, HandleOpen
<1>10. ASSUME NEW r \in ConnectInstance(i),
              au' = IF found(r) THEN [after(r) EXCEPT !.primary = r.conn] ELSE after(r),
              aopen' = IF found(r) THEN aopen \cup {r.conn} ELSE aopen,
              acount' = acount + 1
       PROVE  AuroraInv'
  <2>1. /\ AuShape(r.au) /\ r.au.live = "live"
        /\ r.au.primary = NoConn /\ r.au.replica = au.replica
        /\ r.conn # NoConn => r.conn.role = r.au.type[i]
    BY <1>1, <1>2, <1>8, Attempt, Zenon
  <2>2. PICK b : b = after(r)
    BY Zenon
  <2>3. PICK p \in {0, r.au.pid} : b = [r.au EXCEPT !.pid = p]
    BY <2>2, Zenon
  <2>4. b = [live |-> r.au.live, type |-> r.au.type, pid |-> p,
             primary |-> r.au.primary, replica |-> r.au.replica]
    BY <2>1, <2>3, Zenon DEF AuShape
  <2>5. AuShape(b) /\ b.live = "live" /\ b.primary = NoConn /\ b.replica = au.replica
    BY <2>1, <2>3, <2>4, Zenon DEF AuShape
  <2>6. acount' \in Nat
    BY <1>1, <1>10
  <2>7. CASE found(r)
    <3>1. au' = [b EXCEPT !.primary = r.conn] /\ aopen' = aopen \cup {r.conn}
          /\ r.conn # NoConn /\ r.conn.role = "primary"
      BY <1>10, <2>1, <2>2, <2>7, Zenon
    <3>2. AuShape(au') /\ au'.live = "live" /\ au'.primary = r.conn /\ au'.replica = au.replica
      BY <2>5, <3>1, TakenPrimary
    <3>3. Searching(au', acall')
      BY <1>7, <3>2, Zenon
    <3>4. aopen' = {au'.primary, au'.replica} \ {NoConn}
      BY <1>1, <1>3, <3>1, <3>2, Zenon DEF NoConnectionLost
    <3> QED
      BY <1>1, <1>3, <1>7, <2>6, <3>1, <3>2, <3>3, <3>4, ZenonT(20) DEF AuroraInv, NoConnectionLost, RolesSeen, HandleOpen
  <2>8. CASE ~found(r)
    <3>1. au' = b /\ aopen' = aopen
      BY <1>10, <2>2, <2>8, Zenon
    <3>2. Searching(au', acall')
      BY <1>7, <2>5, <3>1, Zenon
    <3> QED
      BY <1>1, <1>3, <1>7, <2>5, <2>6, <3>1, <3>2, ZenonT(20) DEF AuroraInv, NoConnectionLost, RolesSeen, HandleOpen
  <2> QED
    BY <2>7, <2>8, Zenon
<1> QED
  BY <1>4, <1>9, <1>10, Zenon

LEMMA AuroraCallGood ==
  ASSUME AuroraInv, Connect \/ NoReplica \/ Connected \/ Reconnect \/ Close
  PROVE  AuroraInv'
<1>1. /\ AuShape(au) /\ Searching(au, acall) /\ NoConnectionLost /\ HandleOpen /\ RolesSeen
      /\ cluster = [i \in Instances |-> cluster[i]] /\ acount \in Nat
      /\ au.live = "none" => au.primary = NoConn /\ au.replica = NoConn
  BY Zenon DEF AuroraInv
<1>2. CASE Connect
  <2>1. PICK a : a = [FreshAurora EXCEPT !.live = "live"]
    BY Zenon
  <2>2. /\ au' = a /\ BeginFind(FreshAurora, NoConn) /\ au.live = "none"
        /\ UNCHANGED <<cluster, acur, aopen, acount>>
    BY <1>2, <2>1, Zenon DEF Connect
  <2>3. AuShape(a) /\ a.live = "live" /\ a.primary = NoConn /\ a.replica = NoConn
    BY <2>1, Zenon DEF FreshAurora, AuShape
  <2>4. Searching(a, acall') /\ acall' # Idle
    BY <2>2, <2>3, FreshShape, Searches, Zenon
  <2>5. aopen = {}
    BY <1>1, <2>2, Zenon DEF NoConnectionLost
  <2> QED
    BY <1>1, <2>2, <2>3, <2>4, <2>5, Zenon DEF AuroraInv, NoConnectionLost, HandleOpen, RolesSeen
<1>3. CASE NoReplica
  <2>1. /\ acall' = [pc |-> "primary", i |-> 1, check |-> TRUE, cur |-> acall.cur]
        /\ UNCHANGED <<cluster, au, acur, aopen, acount>> /\ acall.pc = "replica"
    BY <1>3, Zenon DEF NoReplica
  <2>2. au.live = "live"
    BY <1>1, <2>1 DEF Searching, Idle
  <2>3. Searching(au, acall') /\ acall' # Idle
    BY <2>1, <2>2, Zenon DEF Searching, Idle
  <2> QED
    BY <1>1, <2>1, <2>3, Zenon DEF AuroraInv, NoConnectionLost, HandleOpen, RolesSeen
<1>4. CASE Connected
  <2>1. acall' = Idle /\ UNCHANGED <<cluster, aopen, acount>>
    BY <1>4, Zenon DEF Connected
  <2>2. CASE au.primary = NoConn /\ au.replica = NoConn
    <3>1. PICK v \in {"none", "freed"} : au' = [au EXCEPT !.live = v]
      BY <1>4, <2>2, Zenon DEF Connected
    <3>2. au' = [live |-> v, type |-> au.type, pid |-> au.pid, primary |-> au.primary, replica |-> au.replica]
      BY <1>1, <3>1, Zenon DEF AuShape
    <3>3. AuShape(au') /\ au'.live = v /\ au'.primary = NoConn /\ au'.replica = NoConn
      BY <1>1, <2>2, <3>2, Zenon DEF AuShape
    <3> QED
      BY <1>1, <2>1, <2>2, <3>1, <3>3, ZenonT(20) DEF AuroraInv, NoConnectionLost, HandleOpen, RolesSeen, Searching
  <2>3. CASE ~(au.primary = NoConn /\ au.replica = NoConn)
    <3>1. au' = au /\ acur' = IF au.primary # NoConn THEN au.primary ELSE au.replica
      BY <1>4, <2>3, Zenon DEF Connected
    <3>2. acur' \in aopen
      BY <1>1, <2>3, <3>1, Zenon DEF NoConnectionLost
    <3> QED
      BY <1>1, <2>1, <3>1, <3>2, ZenonT(20) DEF AuroraInv, NoConnectionLost, HandleOpen, RolesSeen, Searching
  <2> QED
    BY <2>2, <2>3, Zenon
<1>5. CASE Reconnect
  <2>1. PICK a : a = [au EXCEPT !.type = [i \in Instances |-> "unknown"],
                                !.primary = NoConn, !.replica = NoConn]
    BY Zenon
  <2>2. /\ au' = a /\ BeginFind(a, acur) /\ au.live = "live"
        /\ aopen' = aopen \ {au.primary, au.replica}
        /\ UNCHANGED <<cluster, acur, acount>>
    BY <1>5, <2>1, Zenon DEF Reconnect
  <2>3. a = [live |-> au.live, type |-> [i \in Instances |-> "unknown"], pid |-> au.pid,
             primary |-> NoConn, replica |-> NoConn]
    BY <1>1, <2>1, Zenon DEF AuShape
  <2>4. AuShape(a) /\ a.live = "live" /\ a.primary = NoConn /\ a.replica = NoConn
    BY <1>1, <2>2, <2>3, Zenon DEF AuShape
  <2>5. Searching(a, acall') /\ acall' # Idle
    BY <2>2, <2>4, Searches, Zenon
  <2>6. aopen' = {}
    BY <1>1, <2>2, Zenon DEF NoConnectionLost
  <2> QED
    BY <1>1, <2>2, <2>4, <2>5, <2>6, ZenonT(20) DEF AuroraInv, NoConnectionLost, HandleOpen, RolesSeen
<1>6. CASE Close
  <2>1. /\ aopen' = aopen \ {au.primary, au.replica} /\ au' = FreshAurora
        /\ acall' = Idle /\ UNCHANGED <<cluster, acount>>
    BY <1>6, Zenon DEF Close
  <2>2. aopen' = {}
    BY <1>1, <2>1, Zenon DEF NoConnectionLost
  <2> QED
    BY <1>1, <2>1, <2>2, FreshShape, Zenon DEF AuroraInv, NoConnectionLost, HandleOpen, RolesSeen, Searching
<1> QED
  BY <1>2, <1>3, <1>4, <1>5, <1>6, Zenon

LEMMA AuroraStep ==
  ASSUME AuroraInv, AuroraNext
  PROVE  AuroraInv'
<1>1. /\ NoConnectionLost /\ HandleOpen /\ AuShape(au) /\ cluster = [i \in Instances |-> cluster[i]]
  BY Zenon DEF AuroraInv
<1>2. ASSUME NEW cmd, NEW ro, SendTo(cmd, ro)
      PROVE  AuroraInv'
  <2>1. acall = Idle /\ au.live = "live" /\ UNCHANGED <<cluster, au, acall, aopen, acount>>
    BY <1>2, Zenon DEF SendTo
  <2>2. acur' \in {acur} \cup ({au.primary, au.replica} \ {NoConn})
    BY <1>1, <1>2, Zenon DEF SendTo, Command, Switch, AuShape
  <2>3. acur' \in aopen
    BY <1>1, <2>1, <2>2, Zenon DEF NoConnectionLost, HandleOpen
  <2> QED
    BY <2>1, <2>3, Zenon DEF AuroraInv, NoConnectionLost, HandleOpen, RolesSeen
<1>3. CASE Failover
  <2>1. UNCHANGED auvars /\ cluster' = [i \in Instances |-> cluster'[i]]
    BY <1>1, <1>3, Zenon DEF Failover
  <2> QED
    BY <2>1, Zenon DEF auvars, AuroraInv, NoConnectionLost, HandleOpen, RolesSeen
<1> QED
  BY <1>2, <1>3, FindReplicaGood, FindPrimaryGood, AuroraCallGood, Zenon DEF AuroraNext

LEMMA Least ==
  ASSUME NEW S, S \subseteq Nat, S # {}
  PROVE  \E x \in S : \A y \in S : x <= y
<1> DEFINE R == OpToRel(<, Nat)
<1>1. IsWellFoundedOn(R, Nat)
  BY NatLessThanWellFounded, Zenon
<1> HIDE DEF R
<1>2. PICK x \in S : \A y \in S : <<y, x>> \notin R
  BY <1>1, WFMin, Zenon
<1>3. ASSUME NEW y \in S
      PROVE  x <= y
  <2>1. x \in Nat /\ y \in Nat
    BY Zenon
  <2>2. y < x => <<y, x>> \in R
    BY <2>1, Zenon DEF R, OpToRel
  <2> QED
    BY <1>2, <2>1, <2>2
<1> QED
  BY <1>3, Zenon

(* The next two lines: the least free one and the one after it.            *)
LEMMA NextLines ==
  ASSUME ReplInv, Cardinality(Unused) >= 2, NEW a, a = CHOOSE l \in Unused : \A k \in Unused : l <= k
  PROVE  a \in Unused /\ a + 1 \in Unused /\ \A k \in Unused : a <= k
<1> USE HandlersAssumption
<1>1. Unused \subseteq Nat
  BY DEF Unused, Lines
<1>2. Unused # {}
  BY FS_EmptySet
<1>3. \E l \in Unused : \A k \in Unused : l <= k
  BY <1>1, <1>2, Least, Zenon
<1>4. a \in Unused /\ \A k \in Unused : a <= k
  BY <1>3, Zenon
<1>5. Unused # {a}
  <2>1. Cardinality({a}) = 1
    BY FS_Singleton, Zenon
  <2> QED
    BY <2>1
<1>6. PICK k \in Unused : k # a
  BY <1>4, <1>5, Zenon
<1>7. a + 1 \in Lines
  BY <1>1, <1>4, <1>6 DEF Unused, Lines
<1> QED
  BY <1>1, <1>4, <1>7 DEF ReplInv

(* The lines that were closed were open: each is closed once, and no line   *)
(* is free again.                                                           *)
LEMMA ClosedOnce ==
  ASSUME ReplInv, NEW done, done = [l \in Lines |-> rdone[l] + (IF l \in ropen THEN 1 ELSE 0)]
  PROVE  /\ done \in [Lines -> {0, 1}]
         /\ \A l \in Lines : done[l] = 0 <=> l \in Unused
<1>1. /\ rdone \in [Lines -> {0, 1}]
      /\ \A l \in Lines : rdone[l] = 1 => l \notin ropen
  BY Zenon DEF ReplInv, LinesClosedOnce
<1>2. ASSUME NEW l \in Lines
      PROVE  done[l] \in {0, 1} /\ (done[l] = 0 <=> l \in Unused)
  BY <1>1, <1>2 DEF Unused
<1> QED
  BY <1>2, Zenon

LEMMA ReplCloses ==
  ASSUME ReplInv, rhdl' = NoRepl, CloseLines({rhdl.master, rhdl.slave} \ {NoLine})
  PROVE  ReplInv'
<1>1. ropen = {rhdl.master, rhdl.slave} \ {NoLine}
  BY Zenon DEF ReplInv, LinesClosedOnce
<1>2. ropen' = {} /\ rdone' = [l \in Lines |-> rdone[l] + (IF l \in ropen THEN 1 ELSE 0)]
  BY <1>1, Zenon DEF CloseLines
<1>3. /\ rdone' \in [Lines -> {0, 1}]
      /\ \A l \in Lines : rdone'[l] = 0 <=> l \in Unused
  BY <1>2, ClosedOnce, Zenon
<1>4. Unused' = Unused
  BY <1>2, <1>3, Zenon DEF Unused
<1>5. \A l \in Unused', k \in Lines : k >= l => k \in Unused'
  BY <1>4, Zenon DEF ReplInv
<1>6. LinesClosedOnce' /\ LineOpen'
  BY <1>2, <1>3 DEF LinesClosedOnce, LineOpen, NoRepl
<1> QED
  BY <1>2, <1>3, <1>5, <1>6, Zenon DEF ReplInv, NoRepl

LEMMA ReplOpens ==
  ASSUME ReplInv, Cardinality(Unused) >= 2,
         NEW a, a = CHOOSE l \in Unused : \A k \in Unused : l <= k,
         NEW s \in {NoLine, a + 1},
         rhdl' = [NoRepl EXCEPT !.live = TRUE, !.master = a, !.slave = s], rcur' = a,
         ropen' = (ropen \ ({rhdl.master, rhdl.slave} \ {NoLine})) \cup ({a, s} \ {NoLine}),
         rdone' = [l \in Lines |-> rdone[l] + (IF l \in {rhdl.master, rhdl.slave} \ {NoLine} THEN 1 ELSE 0)]
  PROVE  ReplInv'
<1> USE HandlersAssumption
<1>1. ropen = {rhdl.master, rhdl.slave} \ {NoLine}
  BY Zenon DEF ReplInv, LinesClosedOnce
<1>2. a \in Unused /\ a + 1 \in Unused /\ \A k \in Unused : a <= k
  BY NextLines, Zenon
<1>3. a \in Lines /\ a + 1 \in Lines /\ a # NoLine /\ a \in Nat
  BY <1>2 DEF Unused, Lines, NoLine
<1>4. rhdl' = [live |-> TRUE, master |-> a, slave |-> s, ro |-> FALSE]
  BY Zenon DEF NoRepl
<1>5. ropen' = {a, s} \ {NoLine} /\ ropen' \subseteq Lines /\ a \in ropen'
  <2>1. ropen \ ({rhdl.master, rhdl.slave} \ {NoLine}) = {}
    BY <1>1, Zenon
  <2>2. ropen' = {a, s} \ {NoLine}
    BY <2>1, Zenon
  <2> QED
    BY <1>3, <2>2, Zenon
<1>6. rdone' = [l \in Lines |-> rdone[l] + (IF l \in ropen THEN 1 ELSE 0)]
  BY <1>1, Zenon
<1>7. /\ rdone' \in [Lines -> {0, 1}]
      /\ \A l \in Lines : rdone'[l] = 0 <=> l \in Unused
  BY <1>6, ClosedOnce, Zenon
<1>8. \A l \in ropen' : rdone'[l] = 0
  BY <1>2, <1>3, <1>5, <1>7, ZenonT(20)
<1>9. \A l \in Unused', k \in Lines : k >= l => k \in Unused'
  <2> SUFFICES ASSUME NEW l \in Unused', NEW k \in Lines, k >= l
               PROVE  k \in Unused'
    BY Zenon
  <2>1. l \in Lines /\ l \notin ropen' /\ l \in Unused
    BY <1>7, Zenon DEF Unused
  <2>2. k \in Unused
    BY <2>1, Zenon DEF ReplInv
  <2>3. k \in Nat /\ l \in Nat /\ a <= l /\ l # a
    BY <1>2, <1>5, <2>1 DEF Lines
  <2>4. k # a
    BY <1>3, <2>3
  <2>5. k # s
    BY <1>3, <1>5, <2>1, <2>3 DEF NoLine, Lines
  <2> QED
    BY <1>5, <1>7, <2>2, <2>4, <2>5, Zenon DEF Unused
<1>10. LinesClosedOnce'
  <2>1. ASSUME NEW l \in Lines
        PROVE  rdone'[l] <= 1 /\ (rdone'[l] = 1 => l \notin ropen')
    <3>1. rdone'[l] \in {0, 1}
      BY <1>7, Zenon
    <3> QED
      BY <1>8, <3>1
  <2>2. ropen' = {rhdl'.master, rhdl'.slave} \ {NoLine}
    BY <1>4, <1>5, Zenon
  <2> QED
    BY <2>1, <2>2, Zenon DEF LinesClosedOnce
<1>11. LineOpen'
  BY <1>4, <1>5, Zenon DEF LineOpen
<1> QED
  BY <1>3, <1>4, <1>5, <1>7, <1>9, <1>10, <1>11, ZenonT(20) DEF ReplInv

LEMMA ReplStep ==
  ASSUME ReplInv, ReplNext
  PROVE  ReplInv'
<1>1. CASE ReplConnect
  <2>1. PICK a : a = CHOOSE l \in Unused : \A k \in Unused : l <= k
    BY Zenon
  <2>2. CASE rhdl' = NoRepl /\ CloseLines({rhdl.master, rhdl.slave} \ {NoLine})
    BY <2>2, ReplCloses, Zenon
  <2>3. ASSUME NEW s \in {NoLine, a + 1},
               rhdl' = [NoRepl EXCEPT !.live = TRUE, !.master = a, !.slave = s], rcur' = a,
               ropen' = (ropen \ ({rhdl.master, rhdl.slave} \ {NoLine})) \cup ({a, s} \ {NoLine}),
               rdone' = [l \in Lines |-> rdone[l] + (IF l \in {rhdl.master, rhdl.slave} \ {NoLine} THEN 1 ELSE 0)]
        PROVE  ReplInv'
    <3>1. Cardinality(Unused) >= 2
      BY <1>1, Zenon DEF ReplConnect
    <3> QED
      BY <2>1, <2>3, <3>1, ReplOpens, Zenon
  <2> QED
    BY <1>1, <2>1, <2>2, <2>3, Zenon DEF ReplConnect
<1>2. CASE ReplClose
  BY <1>2, ReplCloses, Zenon DEF ReplClose
<1>3. ASSUME NEW b, ReplReadOnly(b)
      PROVE  ReplInv'
  <2>1. rhdl' = [live |-> rhdl.live, master |-> rhdl.master, slave |-> rhdl.slave, ro |-> b]
        /\ UNCHANGED <<rcur, rstmt, ropen, rdone>>
    BY <1>3, Zenon DEF ReplReadOnly, ReplInv
  <2>2. Unused' = Unused
    BY <2>1, Zenon DEF Unused
  <2> QED
    BY <2>1, <2>2, Zenon DEF ReplInv, LinesClosedOnce, LineOpen
<1>4. ASSUME NEW cmd, NEW reads, ReplCommand(cmd, reads)
      PROVE  ReplInv'
  <2>1. rhdl.live /\ rcur' = ReplRoute(cmd, reads) /\ UNCHANGED <<rhdl, ropen, rdone>>
    BY <1>4, Zenon DEF ReplCommand
  <2>2. rcur' \in ropen /\ (rhdl.slave = NoLine => rcur' = rhdl.master)
    BY <2>1, Zenon DEF ReplRoute, ReplInv, LinesClosedOnce
  <2>3. Unused' = Unused
    BY <2>1, Zenon DEF Unused
  <2> QED
    BY <2>1, <2>2, <2>3, Zenon DEF ReplInv, LinesClosedOnce, LineOpen
<1> QED
  BY <1>1, <1>2, <1>3, <1>4, Zenon DEF ReplNext

LEMMA HandlersInit ==
  ASSUME AuroraInit, ReplInit
  PROVE  AuroraInv /\ ReplInv
<1> USE HandlersAssumption
<1>1. AuroraInv
  BY FreshShape, Zenon DEF AuroraInit, AuroraInv, Searching, NoConnectionLost, HandleOpen, RolesSeen
<1>2. Unused = Lines
  BY Zenon DEF ReplInit, Unused
<1>3. ReplInv
  BY <1>2 DEF ReplInit, NoRepl, ReplInv, LinesClosedOnce, LineOpen
<1> QED
  BY <1>1, <1>3, Zenon

(* However many instances the cluster has and however often it fails over,  *)
(* and however many lines are opened: neither handler loses one of its two  *)
(* connections, leaves the application a closed one, closes a line twice or *)
(* takes a connection for one of the other role (aurora.c, replication.c).  *)
THEOREM TwoConnectionsKeptHolds == HandlersSpec => []TwoConnectionsKept
<1> DEFINE Both == AuroraInv /\ ReplInv
           Moves == \/ AuroraNext /\ UNCHANGED replvars
                    \/ ReplNext /\ UNCHANGED <<cluster, auvars>>
<1>1. AuroraInit /\ ReplInit => Both
  BY HandlersInit, Zenon
<1>2. Both /\ [Moves]_<<cluster, auvars, replvars>> => Both'
  <2>1. ASSUME ReplInv, UNCHANGED replvars
        PROVE  ReplInv'
    <3>1. Unused' = Unused
      BY <2>1, Zenon DEF replvars, Unused
    <3> QED
      BY <2>1, <3>1, Zenon DEF replvars, ReplInv, LinesClosedOnce, LineOpen
  <2>2. ASSUME AuroraInv, UNCHANGED <<cluster, auvars>>
        PROVE  AuroraInv'
    BY <2>2, Zenon DEF auvars, AuroraInv, NoConnectionLost, HandleOpen, RolesSeen
  <2> QED
    BY <2>1, <2>2, AuroraStep, ReplStep, Zenon
<1>3. Both => TwoConnectionsKept
  BY Zenon DEF AuroraInv, ReplInv, TwoConnectionsKept
<1> QED
  BY <1>1, <1>2, <1>3, PTL DEF HandlersSpec

(***************************************************************************)
(* Authentication                                                          *)
(***************************************************************************)
LoginFields == {"at", "plugin", "stage", "change", "line", "pw", "cached", "buff", "reads", "writes",
                "rp", "ssl", "msg", "issued", "asked", "reply", "err", "res"}
SecretPlugins == {"sha256", "caching", "sm3"}
LastIssued(a) == a.issued[Len(a.issued)]
Digested(a) == a.reply.form \in {"hash", "rsa"} /\ ~a.change

(* At every moment of a login.                                             *)
LoginBase(a) ==
  /\ a = [f \in LoginFields |-> a[f]]
  /\ a.stage \in Nat /\ a.plugin \in AuthPlugins /\ a.issued \in Seq(AuthPlugins) /\ a.issued # <<>>
  /\ a.ssl => a.line = "tls"
  /\ a.reply.form = "clear" /\ a.reply.plugin \in SecretPlugins => a.line # "plain"
  /\ Digested(a) => a.reply.gen = a.reply.latest

(* The last digest is of a challenge for the plugin that sent it.  Once the *)
(* server has asked for the short scramble the challenge is that of the old *)
(* plugin, which has not answered yet.                                      *)
Stood(a) ==
  Digested(a) => a.reply.gen \in 1..Len(a.issued) /\ a.issued[a.reply.gen] = a.reply.plugin
Short(a) == ~a.change /\ a.plugin = "old" /\ a.reply.plugin = "native"
Closed(a) == Stood(a) \/ Short(a)

(* A challenge that was given to a plugin is the last one and its own; so   *)
(* is, in a plugin that goes on, the one it keeps in scramble_buff.         *)
OwnPacket(a, p) ==
  ~a.change /\ p.k \in {"scramble", "nonce"} => p.gen = Len(a.issued) /\ LastIssued(a) = a.plugin
OwnBuffer(a) ==
  a.stage >= 2 /\ a.plugin \in SecretPlugins =>
    a.reply.form # "start" /\ (~a.change => a.buff = Len(a.issued) /\ LastIssued(a) = a.plugin)

(* What the request for the short scramble relies on: only the native       *)
(* plugin can have answered, with the scramble of the handshake.            *)
ForNative(a) == ~a.change /\ a.issued = <<"native">>
FirstOwn(a) == ForNative(a) => a.reply.plugin \in {NoPlugin, a.plugin}

(* The server asked for another plugin.                                     *)
Asked(a) ==
  \/ /\ a.msg.k = "switch" /\ Stood(a) /\ Len(a.issued) >= 2
     /\ a.msg.data = FirstData(a.msg.plugin, Len(a.issued)) /\ LastIssued(a) = a.msg.plugin
  \/ /\ a.msg.k = "short" /\ a.msg.plugin = "old" /\ a.issued = <<"old">> /\ a.buff = 1
     /\ ~a.change /\ a.reply.plugin = "native"

Asks(a, m) == Asked([a EXCEPT !.msg = m])

Entering(a) ==
  /\ a.res = -1 /\ Closed(a) /\ FirstOwn(a) /\ OwnPacket(a, a.cached)
  /\ ForNative(a) /\ a.plugin = "native" => a.cached = FirstData("native", 1)
  /\ Stood(a) \/ a.cached.k = "scramble"
  /\ a.cached.k # "ok"
StageOf(a) == a.stage >= 1 /\ (a.plugin \in SecretPlugins => a.stage <= 3)
Wanting(a) ==
  /\ a.rp \in {0, 1} /\ OwnBuffer(a) /\ StageOf(a)
  /\ a.stage >= 2 => a.reads = 1 /\ a.cached = NoPkt
Awaiting(a) ==
  /\ a.res = -1 /\ a.rp \in {0, 1} /\ Stood(a) /\ FirstOwn(a)
  /\ ForNative(a) /\ a.plugin = "native" => a.buff = 1
LoginGood(a) ==
  /\ LoginBase(a) /\ a.at \in {"enter", "want", "wait", "final", "done"}
  /\ a.at = "enter" => Entering(a)
  /\ a.at = "want" => Entering(a) /\ Wanting(a)
  /\ a.at = "wait" => Awaiting(a) /\ OwnBuffer(a) /\ StageOf(a) /\ a.cached = NoPkt
  /\ a.at = "final" => Awaiting(a)
  /\ a.at = "done" => Closed(a) /\ a.res \in {0, 1}
                      /\ (a.res = 0 => a.msg.k = "ok" \/ a.plugin = "gssapi")
                      /\ (a.res = 1 => a.err # "none")
AuthInv == AuthInit \/ LoginGood(auth)

(* What a turn of a plugin leaves alone.                                    *)
SameLogin(a, x) ==
  /\ x.change = a.change /\ x.line = a.line /\ x.issued = a.issued /\ x.msg = a.msg /\ x.rp = a.rp
  /\ x.plugin = a.plugin /\ x.stage = a.stage /\ x.buff = a.buff /\ x.cached = a.cached
  /\ x.reads = a.reads /\ x.res = a.res

(* A plugin is at work: nothing of it is decided yet.                       *)
Works(a) ==
  /\ LoginBase(a) /\ a.res = -1
  /\ a.rp = 254 => Asked(a)
  /\ a.rp # 254 => Closed(a)

LEMMA JustOne ==
  ASSUME NEW S, NEW e \in S
  PROVE  <<e>> \in Seq(S) /\ <<e>> # <<>> /\ Len(<<e>>) = 1 /\ <<e>>[1] = e
<1>1. <<e>> \in Seq(S)
  OBVIOUS
<1>2. Len(<<e>>) = 1 /\ <<e>>[1] = e
  BY Zenon
<1>3. <<e>> # <<>>
  BY Zenon
<1> QED
  BY <1>1, <1>2, <1>3, Zenon

LEMMA TwoAreNotOne ==
  ASSUME NEW q \in Seq(AuthPlugins), Len(q) >= 2
  PROVE  q # <<"native">>
<1> SUFFICES ASSUME q = <<"native">>
             PROVE  FALSE
  BY Zenon
<1>1. PICK r : r = <<"native">> /\ Len(r) = 1
  OBVIOUS
<1>2. Len(q) = 1
  BY <1>1, Zenon
<1> QED
  BY <1>2

(* The server asked for another plugin: that one is entered with what the   *)
(* server sent for it.                                                      *)
LEMMA Switched ==
  ASSUME NEW a, LoginBase(a), a.res = -1, Asked(a)
  PROVE  LoginGood(SwitchPlugin(a))
<1>1. PICK x : x = SwitchPlugin(a)
  BY Zenon
<1>2. PICK er, ca : /\ x = [a EXCEPT !.at = "enter", !.plugin = a.msg.plugin, !.err = er, !.cached = ca]
                    /\ ca = IF a.msg.k = "short" THEN [k |-> "scramble", gen |-> a.buff] ELSE a.msg.data
  BY <1>1, Zenon DEF SwitchPlugin
<1>3. /\ x = [f \in LoginFields |-> x[f]] /\ x.at = "enter" /\ x.plugin = a.msg.plugin /\ x.cached = ca
      /\ x.change = a.change /\ x.line = a.line /\ x.issued = a.issued /\ x.ssl = a.ssl
      /\ x.stage = a.stage /\ x.reply = a.reply /\ x.res = a.res
  BY <1>2, Zenon DEF LoginBase, LoginFields
<1>4. LoginBase(x) /\ x.at = "enter"
  <2>1. Len(a.issued) \in 1..Len(a.issued) /\ LastIssued(a) \in AuthPlugins
    BY DEF LoginBase, LastIssued
  <2>2. a.msg.plugin \in AuthPlugins
    BY <2>1, Zenon DEF Asked, AuthPlugins, Hashing
  <2> QED
    BY <1>3, <2>2 DEF LoginBase, Digested
<1>5. CASE a.msg.k = "switch"
  <2>1. /\ Stood(a) /\ Len(a.issued) >= 2 /\ ca = FirstData(x.plugin, Len(a.issued))
        /\ LastIssued(a) = x.plugin
    BY <1>2, <1>3, <1>5, ZenonT(20) DEF Asked
  <2>2. Stood(x) /\ ca.gen = Len(x.issued) /\ LastIssued(x) = x.plugin /\ ca.k # "ok"
    BY <1>3, <2>1 DEF Stood, Digested, FirstData, LastIssued
  <2>3. ~ForNative(x)
    <3>1. x.issued \in Seq(AuthPlugins) /\ Len(x.issued) >= 2
      BY <1>3, <2>1, Zenon DEF LoginBase
    <3> QED
      BY <3>1, TwoAreNotOne, Zenon DEF ForNative
  <2>4. Entering(x)
    BY <1>3, <2>2, <2>3, Zenon DEF Entering, Closed, FirstOwn, OwnPacket
  <2> QED
    BY <1>1, <1>4, <2>4, Zenon DEF LoginGood
<1>6. CASE a.msg.k = "short"
  <2>1. /\ x.plugin = "old" /\ x.issued = <<"old">> /\ ca = [k |-> "scramble", gen |-> 1]
        /\ ~x.change /\ x.reply.plugin = "native"
    BY <1>2, <1>3, <1>6, Zenon DEF Asked
  <2>2. Short(x) /\ ~ForNative(x) /\ Len(x.issued) = 1 /\ LastIssued(x) = "old"
    BY <2>1 DEF Short, ForNative, LastIssued
  <2>3. ca.k = "scramble" /\ ca.gen = 1
    BY <2>1, Zenon
  <2>4. Entering(x)
    BY <1>3, <2>1, <2>2, <2>3, ZenonT(20) DEF Entering, Closed, FirstOwn, OwnPacket
  <2> QED
    BY <1>1, <1>4, <2>4, Zenon DEF LoginGood
<1> QED
  BY <1>1, <1>5, <1>6, Zenon DEF Asked

(* The login is over, with an error code or by the server's OK.             *)
LEMMA Failed ==
  ASSUME NEW a, LoginBase(a), Closed(a), NEW code, code # "none"
  PROVE  LoginGood(FailWith(a, code)) /\ LoginGood(Fail(a))
<1>1. PICK e : e # "none" /\ Fail(a) = [a EXCEPT !.at = "done", !.res = 1, !.err = e]
  <2>1. PICK e : e = IF a.err = "none" THEN "unknown" ELSE a.err
    BY Zenon
  <2>2. e # "none" /\ Fail(a) = [a EXCEPT !.at = "done", !.res = 1, !.err = e]
    BY <2>1, Zenon DEF Fail
  <2> QED
    BY <2>2, Zenon
<1>2. ASSUME NEW c, c # "none", NEW x, x = [a EXCEPT !.at = "done", !.res = 1, !.err = c]
      PROVE  LoginGood(x)
  <2>1. /\ x = [f \in LoginFields |-> x[f]] /\ x.at = "done" /\ x.res = 1 /\ x.err = c
        /\ x.plugin = a.plugin /\ x.change = a.change /\ x.line = a.line /\ x.issued = a.issued
        /\ x.ssl = a.ssl /\ x.stage = a.stage /\ x.reply = a.reply
    BY <1>2, ZenonT(20) DEF LoginBase, LoginFields
  <2>2. LoginBase(x) /\ Closed(x)
    BY <2>1, Zenon DEF LoginBase, Closed, Stood, Short, Digested
  <2> QED
    BY <1>2, <2>1, <2>2 DEF LoginGood
<1> QED
  BY <1>1, <1>2, Zenon DEF FailWith

LEMMA Succeeded ==
  ASSUME NEW a, LoginBase(a), Closed(a), a.msg.k = "ok" \/ a.plugin = "gssapi"
  PROVE  LoginGood(Success(a))
<1>1. PICK x : x = Success(a)
  BY Zenon
<1>2. /\ x = [f \in LoginFields |-> x[f]] /\ x.at = "done" /\ x.res = 0 /\ x.msg = a.msg
      /\ x.plugin = a.plugin /\ x.change = a.change /\ x.line = a.line /\ x.issued = a.issued
      /\ x.ssl = a.ssl /\ x.stage = a.stage /\ x.reply = a.reply
  BY <1>1, Zenon DEF Success, LoginBase, LoginFields
<1>3. LoginBase(x) /\ Closed(x)
  BY <1>2, Zenon DEF LoginBase, Closed, Stood, Short, Digested
<1> QED
  BY <1>1, <1>2, <1>3 DEF LoginGood

(* What run_plugin_auth makes of a plugin's result.                         *)
LEMMA Concludes ==
  ASSUME NEW a, Works(a), a.rp = 0 => a.msg.k = "ok" \/ a.plugin = "gssapi"
  PROVE  LoginGood(Conclude(a))
<1>1. CASE a.rp = 254
  BY <1>1, Switched, Zenon DEF Works, Conclude
<1>2. CASE a.rp = 0
  BY <1>2, Succeeded DEF Works, Conclude
<1>3. CASE a.rp \notin {0, 254}
  BY <1>3, Failed, ZenonT(20) DEF Works, Conclude
<1> QED
  BY <1>1, <1>2, <1>3, ZenonT(20)

LEMMA ReturnsError ==
  ASSUME NEW a, Works(a), NEW result \in {"error", "handshake"}, NEW x \in AuthReturn(a, result)
  PROVE  LoginGood(x)
<1>1. CASE a.rp = 254
  <2>1. x = SwitchPlugin(a)
    BY <1>1, Zenon DEF AuthReturn
  <2> QED
    BY <1>1, <2>1, Switched, Zenon DEF Works
<1>2. CASE a.rp # 254
  <2>1. x \in {Fail(a), FailWith(a, "handshake")}
    BY <1>2, Zenon DEF AuthReturn
  <2> QED
    BY <1>2, <2>1, Failed, ZenonT(20) DEF Works
<1> QED
  BY <1>1, <1>2, Zenon

LEMMA ReturnsComplete ==
  ASSUME NEW a, Works(a), a.rp \in {0, -1} => a.msg.k = "ok" \/ a.plugin = "gssapi",
         NEW x \in AuthReturn(a, "complete")
  PROVE  LoginGood(x)
<1>1. CASE a.rp = -1
  <2>1. x \in {Success(a), FailWith(a, "malformed")}
    BY <1>1, Zenon DEF AuthReturn
  <2> QED
    BY <1>1, <2>1, Failed, Succeeded DEF Works
<1>2. CASE a.rp # -1
  <2>1. x = Conclude(a)
    BY <1>2, Zenon DEF AuthReturn
  <2> QED
    BY <1>2, <2>1, Concludes, Zenon
<1> QED
  BY <1>1, <1>2, Zenon

LEMMA ReturnsOk ==
  ASSUME NEW a, LoginBase(a), Awaiting(a), NEW x \in AuthReturn(a, "ok")
  PROVE  LoginGood(x)
<1>1. x = [a EXCEPT !.at = "final"]
  BY Zenon DEF AuthReturn
<1>2. x = [f \in LoginFields |-> x[f]] /\ x.at = "final" /\ \A f \in LoginFields \ {"at"} : x[f] = a[f]
  BY <1>1, Zenon DEF LoginBase, LoginFields
<1>3. /\ x.change = a.change /\ x.line = a.line /\ x.issued = a.issued /\ x.rp = a.rp
      /\ x.plugin = a.plugin /\ x.stage = a.stage /\ x.buff = a.buff
      /\ x.res = a.res /\ x.ssl = a.ssl /\ x.reply = a.reply
  BY <1>2, Zenon DEF LoginFields
<1>4. LoginBase(x) /\ Awaiting(x)
  BY <1>2, <1>3, ZenonT(20) DEF LoginBase, Awaiting, Stood, Digested, FirstOwn, ForNative
<1> QED
  BY <1>2, <1>4, Zenon DEF LoginGood

(***************************************************************************)
(* write_packet                                                            *)
(***************************************************************************)
(* What may be sent: a digest of the plugin's own challenge, the last one,  *)
(* and the password itself only over a line that is safe.                   *)
MaySend(a, form, gen) ==
  /\ form \in {"hash", "rsa"} /\ ~a.change => gen = Len(a.issued) /\ LastIssued(a) = a.plugin
  /\ form = "clear" /\ a.plugin \in SecretPlugins => a.line # "plain"

LEMMA SentShape ==
  ASSUME NEW a, LoginBase(a), NEW form, NEW gen, MaySend(a, form, gen), NEW x, x = Sent(a, form, gen)
  PROVE  /\ LoginBase(x) /\ SameLogin(a, x) /\ Stood(x) /\ FirstOwn(x)
         /\ x.reply.form = form
<1>1. PICK h, r : /\ x = [a EXCEPT !.writes = 1, !.ssl = h, !.reply = r]
                  /\ h = IF a.writes = 0 /\ ~a.change THEN a.line = "tls" ELSE a.ssl
                  /\ r = [plugin |-> a.plugin, form |-> form, gen |-> gen, latest |-> Len(a.issued)]
  BY Zenon DEF Sent
<1>2. x = [f \in LoginFields |-> x[f]] /\ x.ssl = h /\ x.reply = r
  BY <1>1, Zenon DEF LoginBase, LoginFields
<1>3. SameLogin(a, x)
  BY <1>1, ZenonT(20) DEF LoginBase, LoginFields, SameLogin
<1>4. h => a.line = "tls"
  BY <1>1, Zenon DEF LoginBase
<1>5. Len(a.issued) \in Nat \ {0}
  BY DEF LoginBase
<1>6. LoginBase(x)
  <2>1. x.ssl => x.line = "tls"
    BY <1>2, <1>3, <1>4, Zenon DEF SameLogin
  <2>2. x.reply.form = "clear" /\ x.reply.plugin \in SecretPlugins => x.line # "plain"
    BY <1>1, <1>2, <1>3 DEF SameLogin, MaySend
  <2>3. Digested(x) => x.reply.gen = x.reply.latest
    BY <1>1, <1>2, <1>3 DEF SameLogin, MaySend, Digested
  <2> QED
    BY <1>2, <1>3, <2>1, <2>2, <2>3, Zenon DEF LoginBase, SameLogin
<1>7. Stood(x)
  BY <1>1, <1>2, <1>3, <1>5 DEF Stood, Digested, SameLogin, MaySend, LastIssued
<1>8. FirstOwn(x)
  BY <1>1, <1>2, <1>3 DEF FirstOwn, SameLogin
<1> QED
  BY <1>1, <1>2, <1>3, <1>6, <1>7, <1>8

(* A step that changes neither the server's nor the plugin's state.         *)
LEMMA SameWorks ==
  ASSUME NEW a, Works(a), NEW x, SameLogin(a, x), x = [f \in LoginFields |-> x[f]],
         x.reply = a.reply, x.ssl = a.ssl
  PROVE  Works(x)
<1>1. LoginBase(x)
  BY Zenon DEF Works, LoginBase, SameLogin, Digested
<1>2. Stood(a) <=> Stood(x)
  BY Zenon DEF SameLogin, Stood, Digested
<1>3. Closed(a) <=> Closed(x)
  BY <1>2, Zenon DEF SameLogin, Closed, Short
<1>4. Asked(a) <=> Asked(x)
  BY <1>2, Zenon DEF SameLogin, Asked, LastIssued
<1> QED
  BY <1>1, <1>3, <1>4 DEF Works, SameLogin

LEMMA ErrWorks ==
  ASSUME NEW a, Works(a), NEW e, NEW x,
         x = [a EXCEPT !.writes = 1, !.err = e] \/ x = [a EXCEPT !.err = e]
  PROVE  Works(x) /\ SameLogin(a, x)
<1>1. SameLogin(a, x) /\ x = [f \in LoginFields |-> x[f]] /\ x.reply = a.reply /\ x.ssl = a.ssl
  BY ZenonT(40) DEF Works, LoginBase, LoginFields, SameLogin
<1> QED
  BY <1>1, SameWorks, Zenon

LEMMA NotSentWorks ==
  ASSUME NEW a, Works(a)
  PROVE  Works(NotSent(a)) /\ SameLogin(a, NotSent(a))
<1>1. PICK e : e = IF a.err = "none" THEN "lost" ELSE a.err
  BY Zenon
<1>2. NotSent(a) = [a EXCEPT !.writes = 1, !.err = e]
  BY <1>1, Zenon DEF NotSent
<1> QED
  BY <1>2, ErrWorks, Zenon

(* A plugin may end its turn or go on with what it has.                     *)
MayEnd(a) == a.rp \in {0, 1} /\ (ForNative(a) /\ a.plugin = "native" => a.buff = 1)

LEMMA SentMay ==
  ASSUME NEW a, NEW x, SameLogin(a, x), MayEnd(a)
  PROVE  MayEnd(x)
BY Zenon DEF SameLogin, MayEnd, ForNative

LEMMA WritesLast ==
  ASSUME NEW a, Works(a), MayEnd(a), NEW form, NEW gen, MaySend(a, form, gen),
         NEW x \in WriteLast(a, form, gen)
  PROVE  LoginGood(x)
<1>1. x \in AuthReturn(Sent(a, form, gen), "ok") \/ x \in AuthReturn(NotSent(a), "error")
  BY Zenon DEF WriteLast, WriteOr, AuthWrite
<1>2. PICK y : y = Sent(a, form, gen)
  BY Zenon
<1>3. LoginBase(y) /\ SameLogin(a, y) /\ Stood(y) /\ FirstOwn(y)
  BY <1>2, SentShape, Zenon DEF Works
<1>4. Awaiting(y)
  BY <1>3, SentMay, Zenon DEF Works, SameLogin, Awaiting, MayEnd
<1> QED
  BY <1>1, <1>2, <1>3, <1>4, ReturnsOk, ReturnsError, NotSentWorks, Zenon

LEMMA Wants ==
  ASSUME NEW a, LoginBase(a), a.res = -1, Stood(a), FirstOwn(a), a.rp \in {0, 1}, a.cached = NoPkt,
         ~(ForNative(a) /\ a.plugin = "native"), NEW stage \in Nat, stage >= 1,
         stage >= 2 => a.reads = 1,
         a.plugin \in SecretPlugins => stage <= 3,
         stage >= 2 /\ a.plugin \in SecretPlugins =>
           a.reply.form # "start" /\ (~a.change => a.buff = Len(a.issued) /\ LastIssued(a) = a.plugin),
         NEW x \in Want(a, stage)
  PROVE  LoginGood(x)
<1>1. x = [a EXCEPT !.at = "want", !.stage = stage]
  BY Zenon DEF Want
<1>2. /\ x = [f \in LoginFields |-> x[f]] /\ x.at = "want" /\ x.stage = stage
      /\ x.change = a.change /\ x.line = a.line /\ x.issued = a.issued /\ x.rp = a.rp
      /\ x.plugin = a.plugin /\ x.buff = a.buff /\ x.cached = a.cached /\ x.reads = a.reads
      /\ x.res = a.res /\ x.ssl = a.ssl /\ x.reply = a.reply
  BY <1>1, Zenon DEF LoginBase, LoginFields
<1>3. LoginBase(x)
  BY <1>2, ZenonT(20) DEF LoginBase, Digested
<1>4. Stood(x) /\ FirstOwn(x) /\ ~(ForNative(x) /\ x.plugin = "native")
  BY <1>2, Zenon DEF Stood, Digested, FirstOwn, ForNative
<1>5. OwnPacket(x, x.cached)
  BY <1>2 DEF OwnPacket, NoPkt
<1>6. Entering(x)
  BY <1>2, <1>4, <1>5 DEF Entering, Closed, NoPkt
<1>7. Wanting(x)
  BY <1>2, Zenon DEF Wanting, OwnBuffer, StageOf, LastIssued
<1> QED
  BY <1>2, <1>3, <1>6, <1>7, ZenonT(20) DEF LoginGood

(***************************************************************************)
(* The plugins                                                             *)
(***************************************************************************)
(* The plugin has read packet p.                                            *)
Ready(a, p) ==
  /\ Works(a) /\ StageOf(a) /\ OwnPacket(a, p)
  /\ p.k # "error" => a.rp \in {0, 1} /\ a.reads = 1 /\ a.cached = NoPkt /\ FirstOwn(a) /\ OwnBuffer(a)
  /\ p.k \notin {"error", "scramble"} => Stood(a)
  /\ p.k = "ok" => a.msg.k = "ok"

LEMMA WritesMore ==
  ASSUME NEW a, NEW p, Ready(a, p), p.k # "error", a.plugin # "native", NEW form, NEW gen, MaySend(a, form, gen),
         NEW stage \in Nat, stage >= 1, a.plugin \in SecretPlugins => stage <= 3,
         stage >= 2 /\ a.plugin \in SecretPlugins =>
           form # "start" /\ (~a.change => a.buff = Len(a.issued) /\ LastIssued(a) = a.plugin),
         NEW x \in Want(Sent(a, form, gen), stage)
  PROVE  LoginGood(x)
<1>1. PICK y : y = Sent(a, form, gen)
  BY Zenon
<1>2. LoginBase(y) /\ SameLogin(a, y) /\ Stood(y) /\ FirstOwn(y) /\ y.reply.form = form
  BY <1>1, SentShape, SMTT(30) DEF Ready, Works
<1>3. /\ y.res = -1 /\ y.rp \in {0, 1} /\ y.cached = NoPkt /\ y.reads = 1 /\ y.plugin = a.plugin
      /\ y.change = a.change /\ y.buff = a.buff /\ y.issued = a.issued
  BY <1>2, Zenon DEF Ready, Works, SameLogin
<1> QED
  BY <1>1, <1>2, <1>3, Wants, ZenonT(20) DEF LastIssued

(* The challenge that was read is kept.                                     *)
LEMMA Buffered ==
  ASSUME NEW a, NEW p, Ready(a, p), p.k = "scramble", NEW b, b = [a EXCEPT !.buff = p.gen]
  PROVE  /\ Ready(b, p) /\ MayEnd(b) /\ b.buff = p.gen /\ MaySend(b, "hash", p.gen)
         /\ b.plugin = a.plugin /\ b.ssl = a.ssl /\ b.line = a.line /\ b.pw = a.pw
         /\ b.change = a.change /\ b.issued = a.issued /\ b.stage = a.stage /\ LoginBase(b)
<1>1. /\ b = [f \in LoginFields |-> b[f]] /\ b.buff = p.gen
      /\ \A f \in LoginFields \ {"buff"} : b[f] = a[f]
  BY Zenon DEF Ready, Works, LoginBase, LoginFields
<1>2. /\ b.change = a.change /\ b.line = a.line /\ b.issued = a.issued /\ b.msg = a.msg /\ b.rp = a.rp
      /\ b.plugin = a.plugin /\ b.stage = a.stage /\ b.cached = a.cached /\ b.reads = a.reads
      /\ b.res = a.res /\ b.reply = a.reply /\ b.ssl = a.ssl /\ b.pw = a.pw
  BY <1>1, ZenonT(20) DEF LoginFields
<1>3. LoginBase(b)
  BY <1>1, <1>2, ZenonT(20) DEF Ready, Works, LoginBase, Digested
<1>4. Closed(b) /\ FirstOwn(b) /\ b.rp \in {0, 1} /\ b.reads = 1 /\ b.cached = NoPkt
  BY <1>2 DEF Ready, Works, Closed, Stood, Short, Digested, FirstOwn, ForNative
<1>5. OwnPacket(b, p) /\ StageOf(b)
  BY <1>2, Zenon DEF Ready, OwnPacket, LastIssued, StageOf
<1>6. OwnBuffer(b)
  BY <1>1, <1>2, <1>5, Zenon DEF Ready, OwnBuffer, OwnPacket, LastIssued
<1>7. Ready(b, p)
  BY <1>2, <1>3, <1>4, <1>5, <1>6 DEF Ready, Works
<1>8. MaySend(b, "hash", p.gen)
  BY <1>5, Zenon DEF MaySend, OwnPacket
<1>9. MayEnd(b)
  BY <1>1, <1>4, <1>5, Zenon DEF MayEnd, ForNative, OwnPacket
<1> QED
  BY <1>1, <1>2, <1>3, <1>7, <1>8, <1>9, ZenonT(20)

LEMMA HashGood ==
  ASSUME NEW a, Works(a), MayEnd(a), NEW gen, MaySend(a, "hash", gen), NEW x \in Hash(a, gen)
  PROVE  LoginGood(x)
<1>1. MaySend(a, "empty", gen)
  BY Zenon DEF MaySend
<1> QED
  BY <1>1, WritesLast, Zenon DEF Hash

LEMMA NativeGood ==
  ASSUME NEW a, NEW p, Ready(a, p), NEW x \in NativeStep(a, p) \cup OldPasswordStep(a, p)
  PROVE  LoginGood(x)
<1>1. CASE p.k = "scramble"
  <2>1. PICK b : b = [a EXCEPT !.buff = p.gen]
    BY Zenon
  <2>2. x \in Hash(b, p.gen)
    BY <1>1, <2>1, Zenon DEF NativeStep, OldPasswordStep
  <2>3. Works(b) /\ MayEnd(b) /\ MaySend(b, "hash", p.gen)
    BY <1>1, <2>1, Buffered, ZenonT(20) DEF Ready
  <2> QED
    BY <2>2, <2>3, HashGood, Zenon
<1>2. CASE p.k # "scramble"
  <2>1. x \in AuthReturn(a, "error") \/ x \in AuthReturn(a, "handshake")
    BY <1>2, Zenon DEF NativeStep, OldPasswordStep
  <2> QED
    BY <2>1, ReturnsError, Zenon DEF Ready
<1> QED
  BY <1>1, <1>2, Zenon

LEMMA EncryptedGood ==
  ASSUME NEW a, NEW p, Ready(a, p), p.k # "error", a.plugin \in SecretPlugins, a.stage >= 2,
         NEW x \in SendEncrypted(a, p)
  PROVE  LoginGood(x)
<1>1. MaySend(a, "rsa", a.buff) /\ MayEnd(a)
  BY Zenon DEF Ready, OwnBuffer, MaySend, MayEnd, SecretPlugins
<1>2. CASE p.k = "key"
  BY <1>1, <1>2, WritesLast, Zenon DEF SendEncrypted, Ready
<1>3. CASE p.k # "key"
  BY <1>3, ReturnsError, Zenon DEF SendEncrypted, Ready
<1> QED
  BY <1>2, <1>3, Zenon

LEMMA Sha256Good ==
  ASSUME NEW a, NEW p, Ready(a, p), a.plugin = "sha256", NEW x \in Sha256Step(a, p)
  PROVE  LoginGood(x)
<1>1. a.stage \in Nat /\ a.stage >= 1
  BY Zenon DEF Ready, Works, LoginBase, StageOf
<1>2. CASE p.k = "error" \/ (a.stage = 1 /\ p.k # "scramble")
  <2>1. x \in AuthReturn(a, "error") \/ x \in AuthReturn(a, "handshake")
    BY <1>2, Zenon DEF Sha256Step
  <2> QED
    BY <2>1, ReturnsError, Zenon DEF Ready
<1>3. CASE a.stage = 1 /\ p.k = "scramble"
  <2>1. PICK b : b = [a EXCEPT !.buff = p.gen]
    BY Zenon
  <2>2. /\ Ready(b, p) /\ Works(b) /\ MayEnd(b) /\ MaySend(b, "hash", p.gen) /\ b.plugin = "sha256"
        /\ b.buff = p.gen /\ LoginBase(b)
    BY <1>3, <2>1, Buffered DEF Ready
  <2>3. x \in IF b.ssl THEN WriteLast(b, "clear", p.gen)
              ELSE IF ~b.pw THEN WriteLast(b, "empty", p.gen)
              ELSE Want(Sent(b, "askkey", p.gen), 2) \cup AuthReturn(NotSent(b), "error")
    BY <1>3, <2>1, Zenon DEF Sha256Step, WriteOr, AuthWrite
  <2>4. CASE b.ssl /\ x \in WriteLast(b, "clear", p.gen)
    <3>1. MaySend(b, "clear", p.gen)
      BY <2>2, <2>4, Zenon DEF MaySend, LoginBase
    <3> QED
      BY <2>2, <2>4, <3>1, WritesLast, Zenon
  <2>5. CASE x \in WriteLast(b, "empty", p.gen)
    <3>1. MaySend(b, "empty", p.gen)
      BY Zenon DEF MaySend
    <3> QED
      BY <2>2, <2>5, <3>1, WritesLast, ZenonT(20)
  <2>6. CASE x \in Want(Sent(b, "askkey", p.gen), 2)
    <3>1. MaySend(b, "askkey", p.gen) /\ (~b.change => b.buff = Len(b.issued) /\ LastIssued(b) = b.plugin)
      BY <2>2, Zenon DEF MaySend
    <3> QED
      BY <1>3, <2>2, <2>6, <3>1, WritesMore, SMTT(30)
  <2>7. CASE x \in AuthReturn(NotSent(b), "error")
    BY <2>2, <2>7, ReturnsError, NotSentWorks, Zenon
  <2> QED
    BY <2>3, <2>4, <2>5, <2>6, <2>7, ZenonT(20)
<1>4. CASE p.k # "error" /\ a.stage # 1
  <2>1. x \in SendEncrypted(a, p)
    BY <1>4, Zenon DEF Sha256Step
  <2> QED
    BY <1>1, <1>4, <2>1, EncryptedGood DEF SecretPlugins
<1> QED
  BY <1>2, <1>3, <1>4, Zenon

LEMMA KeyErrorGood ==
  ASSUME NEW a, Works(a), NEW x \in KeyError(a)
  PROVE  LoginGood(x)
BY ErrWorks, ReturnsError, ZenonT(20) DEF KeyError

LEMMA FullLoginGood ==
  ASSUME NEW a, NEW p, Ready(a, p), p.k # "error", a.plugin \in SecretPlugins, a.stage >= 2,
         NEW x \in FullLogin(a)
  PROVE  LoginGood(x)
<1>1. MayEnd(a) /\ Works(a)
  BY Zenon DEF Ready, MayEnd, SecretPlugins
<1>2. CASE IsConnectionSecure(a)
  <2>1. MaySend(a, "clear", a.buff)
    BY <1>2, Zenon DEF MaySend, IsConnectionSecure
  <2> QED
    BY <1>1, <1>2, <2>1, WritesLast, ZenonT(20) DEF FullLogin
<1>3. CASE ~IsConnectionSecure(a)
  <2>1. x \in Want(Sent(a, "askkey", a.buff), 3) \/ x \in KeyError(NotSent(a))
    BY <1>3, Zenon DEF FullLogin, AuthWrite
  <2>2. CASE x \in Want(Sent(a, "askkey", a.buff), 3)
    <3>1. MaySend(a, "askkey", a.buff) /\ (~a.change => a.buff = Len(a.issued) /\ LastIssued(a) = a.plugin)
      BY Zenon DEF MaySend, Ready, OwnBuffer
    <3>2. a.plugin # "native"
      BY Zenon DEF SecretPlugins
    <3> QED
      BY <2>2, <3>1, <3>2, WritesMore
  <2>3. CASE x \in KeyError(NotSent(a))
    BY <1>1, <2>3, KeyErrorGood, NotSentWorks, ZenonT(20)
  <2> QED
    BY <2>1, <2>2, <2>3, ZenonT(20)
<1> QED
  BY <1>2, <1>3, ZenonT(20)

LEMMA CachingGood ==
  ASSUME NEW a, NEW p, Ready(a, p), a.plugin \in {"caching", "sm3"}, NEW x \in CachingSha2Step(a, p)
  PROVE  LoginGood(x)
<1>1. a.stage \in {1, 2, 3} /\ a.plugin \in SecretPlugins /\ Works(a)
  BY DEF Ready, Works, LoginBase, StageOf, SecretPlugins
<1>2. CASE a.stage = 3
  <2>1. x \in IF p.k = "error" THEN KeyError(a) ELSE SendEncrypted(a, p)
    BY <1>2 DEF CachingSha2Step
  <2> QED
    BY <1>1, <1>2, <2>1, KeyErrorGood, EncryptedGood
<1>3. CASE a.stage # 3 /\ (p.k = "error" \/ (a.stage = 1 /\ p.k # "scramble"))
  <2>1. x \in AuthReturn(a, "error") \/ x \in AuthReturn(a, "handshake")
    BY <1>1, <1>3 DEF CachingSha2Step
  <2> QED
    BY <1>1, <2>1, ReturnsError, ZenonT(20)
<1>4. CASE a.stage = 1 /\ p.k = "scramble"
  <2>1. PICK b : b = [a EXCEPT !.buff = p.gen]
    BY Zenon
  <2>2. /\ Ready(b, p) /\ Works(b) /\ MayEnd(b) /\ MaySend(b, "hash", p.gen) /\ b.plugin = a.plugin
        /\ b.buff = p.gen
    BY <1>4, <2>1, Buffered DEF Ready
  <2>3. x \in IF b.pw THEN Want(Sent(b, "hash", p.gen), 2) \cup AuthReturn(NotSent(b), "error")
              ELSE WriteLast(b, "empty", p.gen)
    BY <1>4, <2>1 DEF CachingSha2Step, WriteOr, AuthWrite
  <2>4. CASE x \in WriteLast(b, "empty", p.gen)
    <3>1. MaySend(b, "empty", p.gen)
      BY Zenon DEF MaySend
    <3> QED
      BY <2>2, <2>4, <3>1, WritesLast, Zenon
  <2>5. CASE x \in Want(Sent(b, "hash", p.gen), 2)
    <3>1. ~b.change => b.buff = Len(b.issued) /\ LastIssued(b) = b.plugin
      BY <2>2, Zenon DEF MaySend
    <3> QED
      BY <1>4, <2>2, <2>5, <3>1, WritesMore
  <2>6. CASE x \in AuthReturn(NotSent(b), "error")
    BY <2>2, <2>6, ReturnsError, NotSentWorks, Zenon
  <2> QED
    BY <2>3, <2>4, <2>5, <2>6, Zenon
<1>5. CASE a.stage = 2 /\ p.k = "succeeded"
  <2>1. x \in AuthReturn(a, "ok")
    BY <1>5 DEF CachingSha2Step
  <2>2. LoginBase(a) /\ Awaiting(a)
    BY <1>1, <1>5, ZenonT(20) DEF Ready, Works, Awaiting
  <2> QED
    BY <2>1, <2>2, ReturnsOk, Zenon
<1>6. CASE a.stage = 2 /\ p.k \notin {"error", "succeeded"}
  <2>1. x \in FullLogin(a)
    BY <1>6 DEF CachingSha2Step
  <2> QED
    BY <1>1, <1>6, <2>1, FullLoginGood
<1> QED
  BY <1>1, <1>2, <1>3, <1>4, <1>5, <1>6, ZenonT(20)

LEMMA OtherGood ==
  ASSUME NEW a, NEW p, Ready(a, p), a.plugin \notin SecretPlugins \cup {"native"},
         NEW x \in Ed25519Step(a, p) \cup DialogStep(a, p) \cup DummyStep(a, p)
  PROVE  LoginGood(x)
<1>1. Works(a) /\ a.stage \in Nat /\ a.stage >= 1
  BY Zenon DEF Ready, Works, LoginBase, StageOf
<1>2. p.k # "error" => MayEnd(a)
  BY Zenon DEF Ready, MayEnd
<1>3. MaySend(a, "answer", 0) /\ MaySend(a, "empty", 0)
  BY Zenon DEF MaySend
<1>4. CASE x \in AuthReturn(a, "error") \/ x \in AuthReturn(a, "handshake")
  BY <1>1, <1>4, ReturnsError, Zenon
<1>5. CASE p.k # "error" /\ x \in AuthReturn(NotSent(a), "error")
  BY <1>1, <1>5, ReturnsError, NotSentWorks, ZenonT(20)
<1>6. CASE x \in Ed25519Step(a, p)
  <2>1. CASE p.k = "nonce"
    <3>1. MaySend(a, "hash", p.gen)
      BY <2>1, Zenon DEF Ready, OwnPacket, MaySend
    <3> QED
      BY <1>1, <1>2, <1>6, <2>1, <3>1, WritesLast, ZenonT(20) DEF Ed25519Step
  <2>2. CASE p.k # "nonce"
    BY <1>4, <1>6, <2>2, Zenon DEF Ed25519Step
  <2> QED
    BY <2>1, <2>2, Zenon
<1>7. CASE x \in DialogStep(a, p)
  <2>1. CASE p.k = "error"
    BY <1>4, <1>7, <2>1, Zenon DEF DialogStep
  <2>2. CASE p.k = "ok"
    <3>1. x \in AuthReturn(a, "complete") /\ a.msg.k = "ok"
      BY <1>7, <2>2, Zenon DEF DialogStep, Ready
    <3> QED
      BY <1>1, <3>1, ReturnsComplete, Zenon
  <2>3. CASE p.k = "asklast"
    BY <1>1, <1>2, <1>3, <1>7, <2>3, WritesLast, ZenonT(20) DEF DialogStep
  <2>4. CASE p.k \notin {"error", "ok", "asklast"}
    <3>1. x \in Want(Sent(a, "answer", 0), 1) \/ x \in AuthReturn(NotSent(a), "error")
      BY <1>7, <2>4, Zenon DEF DialogStep, WriteOr, AuthWrite
    <3>2. x \in Want(Sent(a, "answer", 0), 1) => LoginGood(x)
      BY <1>3, <2>4, WritesMore
    <3> QED
      BY <1>5, <2>4, <3>1, <3>2, ZenonT(20)
  <2> QED
    BY <2>1, <2>2, <2>3, <2>4, ZenonT(20)
<1>8. CASE x \in DummyStep(a, p)
  <2>1. CASE p.k = "error"
    BY <1>4, <1>8, <2>1, Zenon DEF DummyStep
  <2>2. CASE p.k # "error"
    <3>1. PICK y : y = Sent(a, "empty", 0)
      BY Zenon
    <3>2. \/ x \in AuthReturn(y, "error")
          \/ x \in Want(y, y.stage + 1)
          \/ x \in AuthReturn(NotSent(a), "error")
      BY <1>8, <2>2, <3>1, Zenon DEF DummyStep, WriteOr, AuthWrite
    <3>3. LoginBase(y) /\ SameLogin(a, y) /\ Stood(y)
      BY <1>1, <1>3, <3>1, SentShape, ZenonT(20) DEF Works
    <3>4. Works(y) /\ y.stage = a.stage
      <4>1. a.rp \in {0, 1} /\ a.res = -1
        BY <1>1, <2>2, Zenon DEF Ready, Works
      <4>2. a.rp # 254
        BY <4>1
      <4> QED
        BY <3>3, <4>1, <4>2, ZenonT(40) DEF Works, SameLogin, Closed
    <3>5. x \in Want(y, a.stage + 1) => LoginGood(x)
      BY <1>1, <1>3, <2>2, <3>1, WritesMore
    <3>6. x \in AuthReturn(y, "error") => LoginGood(x)
      BY <3>4, ReturnsError, Zenon
    <3> QED
      BY <1>5, <2>2, <3>2, <3>4, <3>5, <3>6, ZenonT(20)
  <2> QED
    BY <2>1, <2>2, Zenon
<1> QED
  BY <1>6, <1>7, <1>8, Zenon

LEMMA GssapiGood ==
  ASSUME NEW a, NEW p, Ready(a, p), a.plugin = "gssapi", NEW x \in GssapiStep(a, p)
  PROVE  LoginGood(x)
<1>1. Works(a)
  BY Zenon DEF Ready
<1>2. CASE p.k = "error"
  <2>1. x \in AuthReturn(a, "error") \/ x \in AuthReturn(a, "complete")
    BY <1>2, Zenon DEF GssapiStep
  <2> QED
    BY <1>1, <2>1, ReturnsError, ReturnsComplete, ZenonT(20)
<1>3. CASE p.k # "error"
  <2>1. x \in SecContext(a)
    BY <1>3, Zenon DEF GssapiStep
  <2>2. \/ x \in AuthReturn([a EXCEPT !.err = "gss"], "error")
        \/ x \in AuthReturn(Sent(a, "token", 0), "ok")
        \/ x \in AuthReturn(NotSent(a), "complete")
        \/ x \in Want(Sent(a, "token", 0), 2)
    BY <2>1, Zenon DEF SecContext, AuthWrite
  <2>3. MaySend(a, "token", 0) /\ MayEnd(a)
    BY <1>3, Zenon DEF MaySend, MayEnd, Ready
  <2>4. CASE x \in AuthReturn([a EXCEPT !.err = "gss"], "error")
    BY <1>1, <2>4, ErrWorks, ReturnsError, ZenonT(20)
  <2>5. CASE x \in AuthReturn(Sent(a, "token", 0), "ok")
    BY <1>1, <2>3, <2>5, WritesLast, ZenonT(20) DEF WriteLast, WriteOr, AuthWrite
  <2>6. CASE x \in AuthReturn(NotSent(a), "complete")
    <3>1. Works(NotSent(a)) /\ NotSent(a).plugin = "gssapi"
      BY <1>1, NotSentWorks, Zenon DEF SameLogin
    <3> QED
      BY <2>6, <3>1, ReturnsComplete, ZenonT(20)
  <2>7. CASE x \in Want(Sent(a, "token", 0), 2)
    BY <1>3, <2>3, <2>7, WritesMore DEF SecretPlugins
  <2> QED
    BY <2>2, <2>4, <2>5, <2>6, <2>7, ZenonT(20)
<1> QED
  BY <1>2, <1>3, Zenon

LEMMA StepGood ==
  ASSUME NEW a, NEW p, Ready(a, p), NEW x \in Step(a, p)
  PROVE  LoginGood(x)
<1>1. CASE a.plugin \in {"native", "old"}
  BY <1>1, NativeGood, Zenon DEF Step
<1>2. CASE a.plugin = "sha256"
  BY <1>2, Sha256Good, Zenon DEF Step
<1>3. CASE a.plugin \in {"caching", "sm3"}
  BY <1>3, CachingGood, Zenon DEF Step, ObSm3Step
<1>4. CASE a.plugin = "gssapi"
  BY <1>4, GssapiGood, Zenon DEF Step
<1>5. CASE a.plugin \notin {"native", "old", "sha256", "caching", "sm3", "gssapi"}
  BY <1>5, OtherGood, Zenon DEF Step, SecretPlugins
<1> QED
  BY <1>1, <1>2, <1>3, <1>4, <1>5, ZenonT(20)

(***************************************************************************)
(* The client and the server                                               *)
(***************************************************************************)
LEMMA RunGood ==
  ASSUME AuthInv, auth.at = "idle", NEW change \in BOOLEAN, NEW server \in AuthPlugins,
         NEW default \in AuthPlugins \cup {NoPlugin}, NEW line, NEW pw,
         RunPluginAuth(change, server, default, line, pw)
  PROVE  AuthInv'
<1>1. /\ auth = [f \in LoginFields |-> auth[f]] /\ auth.stage = 0 /\ auth.res = -1
      /\ auth.reply = NoAuthReply
  <2>1. AuthInit
    BY Zenon DEF AuthInv, LoginGood
  <2> QED
    BY <2>1, ZenonT(40) DEF AuthInit, LoginFields
<1>2. PICK pl, ca, bu, ss :
        /\ auth' = [auth EXCEPT !.at = "enter", !.change = change, !.line = line, !.pw = pw, !.plugin = pl,
                                !.cached = ca, !.issued = <<server>>, !.buff = bu, !.ssl = ss]
        /\ pl = IF default # NoPlugin THEN default ELSE IF change THEN "native" ELSE server
        /\ ca = IF change \/ default \notin {NoPlugin, server} THEN NoPkt ELSE FirstData(server, 1)
        /\ ss = (change /\ line = "tls")
  BY ZenonT(40) DEF RunPluginAuth
<1>3. PICK x : x = auth'
  BY Zenon
<1>4. /\ x = [f \in LoginFields |-> x[f]] /\ x.at = "enter" /\ x.change = change /\ x.line = line
      /\ x.plugin = pl /\ x.cached = ca /\ x.issued = <<server>> /\ x.ssl = ss
      /\ x.stage = 0 /\ x.res = -1 /\ x.reply = NoAuthReply
  BY <1>1, <1>2, <1>3, ZenonT(40) DEF LoginFields
<1>5. x.reply.form = "none" /\ x.reply.plugin = NoPlugin
  BY <1>4 DEF NoAuthReply
<1>6. LoginBase(x)
  <2>1. x.issued \in Seq(AuthPlugins) /\ x.issued # <<>>
    BY <1>4, JustOne, Zenon
  <2>2. x.plugin \in AuthPlugins
    BY <1>2, <1>4, ZenonT(20) DEF AuthPlugins, Hashing
  <2>3. x.ssl => x.line = "tls"
    BY <1>2, <1>4, Zenon
  <2> QED
    BY <1>4, <1>5, <2>1, <2>2, <2>3 DEF LoginBase, Digested
<1>7. Stood(x) /\ FirstOwn(x)
  BY <1>5, Zenon DEF Stood, Digested, FirstOwn
<1>8. Len(x.issued) = 1 /\ LastIssued(x) = server
  <2>1. PICK q : q = <<server>> /\ Len(q) = 1 /\ q[1] = server
    BY JustOne, Zenon
  <2> QED
    BY <1>4, <2>1, Zenon DEF LastIssued
<1>9. OwnPacket(x, x.cached)
  <2>1. CASE ca = NoPkt
    BY <1>4, <2>1 DEF OwnPacket, NoPkt
  <2>2. CASE ca # NoPkt
    <3>1. ca = FirstData(server, 1) /\ pl = server
      BY <1>2, <2>2, Zenon
    <3>2. ca.gen = 1
      BY <3>1, Zenon DEF FirstData
    <3> QED
      BY <1>4, <1>8, <3>1, <3>2, Zenon DEF OwnPacket
  <2> QED
    BY <2>1, <2>2, Zenon
<1>10. ForNative(x) /\ x.plugin = "native" => x.cached = FirstData("native", 1)
  <2> SUFFICES ASSUME ForNative(x), x.plugin = "native"
               PROVE  x.cached = FirstData("native", 1)
    BY Zenon
  <2>1. ~change /\ server = "native"
    BY <1>4 DEF ForNative
  <2> QED
    BY <1>2, <1>4, <2>1, Zenon
<1>11. x.cached.k # "ok"
  BY <1>2, <1>4 DEF NoPkt, FirstData
<1>12. Entering(x)
  BY <1>4, <1>7, <1>9, <1>10, <1>11, Zenon DEF Entering, Closed
<1> QED
  BY <1>3, <1>4, <1>6, <1>12, ZenonT(20) DEF AuthInv, LoginGood

LEMMA AuthenticateGood ==
  ASSUME AuthInv, Authenticate
  PROVE  AuthInv'
<1>1. auth.at = "enter" /\ LoginBase(auth) /\ Entering(auth)
  BY DEF Authenticate, AuthInv, AuthInit, LoginGood
<1>2. PICK a : a = [auth EXCEPT !.rp = 0]
  BY Zenon
<1>3. auth' \in (CASE a.plugin \in {"native", "old"} /\ a.change -> Hash(a, a.buff)
                   [] a.plugin = "clear" -> WriteLast(a, "clear", 0)
                   [] OTHER -> Want(a, 1))
  BY <1>2, Zenon DEF Authenticate
<1>4. /\ a = [f \in LoginFields |-> a[f]] /\ a.rp = 0
      /\ a.change = auth.change /\ a.line = auth.line /\ a.issued = auth.issued
      /\ a.plugin = auth.plugin /\ a.stage = auth.stage /\ a.cached = auth.cached
      /\ a.res = auth.res /\ a.reply = auth.reply /\ a.ssl = auth.ssl
  BY <1>1, <1>2, Zenon DEF LoginBase, LoginFields
<1>5. LoginBase(a)
  BY <1>1, <1>4, Zenon DEF LoginBase, Digested
<1>6. Entering(a)
  BY <1>1, <1>4, Zenon DEF Entering, Closed, Stood, Short, Digested, FirstOwn, ForNative, OwnPacket, LastIssued
<1>7. Works(a)
  BY <1>4, <1>5, <1>6 DEF Works, Entering
<1>8. CASE a.change /\ auth' \in Hash(a, a.buff)
  <2>1. MayEnd(a) /\ MaySend(a, "hash", a.buff)
    BY <1>4, <1>8, Zenon DEF MayEnd, MaySend, ForNative
  <2> QED
    BY <1>7, <1>8, <2>1, HashGood, Zenon DEF AuthInv
<1>9. CASE a.plugin = "clear" /\ auth' \in WriteLast(a, "clear", 0)
  <2>1. MayEnd(a) /\ MaySend(a, "clear", 0)
    BY <1>4, <1>9, Zenon DEF MayEnd, MaySend, SecretPlugins
  <2> QED
    BY <1>7, <1>9, <2>1, WritesLast, Zenon DEF AuthInv
<1>10. CASE auth' \in Want(a, 1)
  <2>1. PICK x : x = auth'
    BY Zenon
  <2>2. /\ x = [f \in LoginFields |-> x[f]] /\ x.at = "want" /\ x.stage = 1 /\ x.rp = 0
        /\ x.change = a.change /\ x.line = a.line /\ x.issued = a.issued
        /\ x.plugin = a.plugin /\ x.cached = a.cached
        /\ x.res = a.res /\ x.reply = a.reply /\ x.ssl = a.ssl
    BY <1>4, <1>10, <2>1, ZenonT(40) DEF Want, LoginFields
  <2>3. LoginBase(x)
    BY <1>5, <2>2 DEF LoginBase, Digested
  <2>4. Entering(x)
    BY <1>6, <2>2, Zenon DEF Entering, Closed, Stood, Short, Digested, FirstOwn, ForNative, OwnPacket, LastIssued
  <2>5. Wanting(x)
    BY <2>2 DEF Wanting, OwnBuffer, StageOf
  <2> QED
    BY <2>1, <2>2, <2>3, <2>4, <2>5, ZenonT(20) DEF AuthInv, LoginGood
<1> QED
  BY <1>3, <1>8, <1>9, <1>10, ZenonT(20)

LEMMA ReadPacketGood ==
  ASSUME AuthInv, ReadPacket
  PROVE  AuthInv'
<1>1. auth.at = "want" /\ LoginBase(auth) /\ Entering(auth) /\ Wanting(auth)
  <2>1. auth.at = "want"
    BY Zenon DEF ReadPacket
  <2>2. LoginGood(auth)
    BY <2>1 DEF AuthInv, AuthInit
  <2> QED
    BY <2>1, <2>2, Zenon DEF LoginGood
<1>2. CASE auth.cached # NoPkt
  <2>1. PICK a : a = [auth EXCEPT !.cached = NoPkt, !.reads = 1]
    BY Zenon
  <2>2. auth' \in Step(a, auth.cached)
    BY <1>2, <2>1, Zenon DEF ReadPacket
  <2>3. /\ a = [f \in LoginFields |-> a[f]] /\ a.cached = NoPkt /\ a.reads = 1
        /\ a.change = auth.change /\ a.line = auth.line /\ a.issued = auth.issued /\ a.rp = auth.rp
        /\ a.plugin = auth.plugin /\ a.stage = auth.stage /\ a.buff = auth.buff /\ a.msg = auth.msg
        /\ a.res = auth.res /\ a.reply = auth.reply /\ a.ssl = auth.ssl
    BY <1>1, <2>1, Zenon DEF LoginBase, LoginFields
  <2>4. LoginBase(a)
    BY <1>1, <2>3, Zenon DEF LoginBase, Digested
  <2>5. Closed(a) /\ FirstOwn(a) /\ OwnPacket(a, auth.cached) /\ (Stood(a) \/ auth.cached.k = "scramble")
    BY <1>1, <2>3, Zenon DEF Entering, Closed, Stood, Short, Digested, FirstOwn, ForNative, OwnPacket, LastIssued
  <2>6. a.rp \in {0, 1} /\ OwnBuffer(a) /\ StageOf(a)
    BY <1>1, <2>3, Zenon DEF Wanting, OwnBuffer, StageOf, LastIssued
  <2>7. auth.cached.k # "ok"
    BY <1>1, Zenon DEF Entering
  <2>8. Ready(a, auth.cached)
    BY <1>1, <2>3, <2>4, <2>5, <2>6, <2>7 DEF Ready, Works, Entering
  <2> QED
    BY <2>2, <2>8, StepGood, Zenon DEF AuthInv
<1>3. CASE auth.cached = NoPkt
  <2>1. /\ Stood(auth) /\ FirstOwn(auth) /\ auth.res = -1
        /\ ~(ForNative(auth) /\ auth.plugin = "native")
    BY <1>1, <1>3 DEF Entering, NoPkt, FirstData
  <2>2. Works(auth)
    BY <1>1, <2>1 DEF Works, Wanting, Closed
  <2>3. ASSUME NEW y, LoginBase(y), y.rp = auth.rp, y.res = -1, Stood(y), FirstOwn(y), OwnBuffer(y), StageOf(y),
               y.cached = NoPkt, ~(ForNative(y) /\ y.plugin = "native"),
               auth' = [y EXCEPT !.at = "wait"]
        PROVE  AuthInv'
    <3>1. PICK x : x = auth'
      BY Zenon
    <3>2. /\ x = [f \in LoginFields |-> x[f]] /\ x.at = "wait" /\ x.rp = y.rp
          /\ x.change = y.change /\ x.line = y.line /\ x.issued = y.issued /\ x.stage = y.stage
          /\ x.plugin = y.plugin /\ x.cached = y.cached /\ x.buff = y.buff
          /\ x.res = y.res /\ x.reply = y.reply /\ x.ssl = y.ssl
      BY <2>3, <3>1, Zenon DEF LoginBase, LoginFields
    <3>3. LoginBase(x)
      BY <2>3, <3>2, Zenon DEF LoginBase, Digested
    <3>4. Awaiting(x)
      BY <1>1, <2>3, <3>2, ZenonT(20) DEF Awaiting, Wanting, Stood, Digested, FirstOwn, ForNative
    <3>5. OwnBuffer(x) /\ StageOf(x)
      BY <2>3, <3>2, Zenon DEF OwnBuffer, StageOf, LastIssued
    <3> QED
      BY <2>3, <3>1, <3>2, <3>3, <3>4, <3>5, Zenon DEF AuthInv, LoginGood
  <2>4. CASE auth.reads # 0
    <3>1. auth' = [auth EXCEPT !.at = "wait"]
      BY <1>3, <2>4, Zenon DEF ReadPacket
    <3> QED
      BY <1>1, <1>3, <2>1, <2>3, <3>1, ZenonT(20) DEF Wanting
  <2>5. CASE auth.reads = 0
    <3>1. \/ auth' = [Sent(auth, "start", 0) EXCEPT !.at = "wait"]
          \/ auth' \in Step(NotSent(auth), [k |-> "error", gen |-> 0])
      BY <1>3, <2>5, Zenon DEF ReadPacket, AuthWrite
    <3>2. CASE auth' = [Sent(auth, "start", 0) EXCEPT !.at = "wait"]
      <4>1. PICK y : y = Sent(auth, "start", 0)
        BY Zenon
      <4>2. MaySend(auth, "start", 0)
        BY Zenon DEF MaySend
      <4>3. LoginBase(y) /\ SameLogin(auth, y) /\ Stood(y) /\ FirstOwn(y)
        BY <1>1, <4>1, <4>2, SentShape, ZenonT(20)
      <4>4. auth.stage = 1
        BY <1>1, <2>5 DEF Wanting, StageOf, LoginBase
      <4>5. OwnBuffer(y) /\ StageOf(y)
        BY <4>3, <4>4 DEF OwnBuffer, StageOf, SameLogin
      <4>6. /\ y.rp = auth.rp /\ y.res = -1 /\ y.cached = NoPkt
            /\ ~(ForNative(y) /\ y.plugin = "native")
        BY <1>3, <2>1, <4>3, Zenon DEF SameLogin, ForNative
      <4> QED
        BY <2>3, <3>2, <4>1, <4>3, <4>5, <4>6, ZenonT(20)
    <3>3. CASE auth' \in Step(NotSent(auth), [k |-> "error", gen |-> 0])
      <4>1. PICK p : p = [k |-> "error", gen |-> 0]
        BY Zenon
      <4>2. PICK y : y = NotSent(auth)
        BY Zenon
      <4>3. Works(y) /\ SameLogin(auth, y)
        BY <2>2, <4>2, NotSentWorks, Zenon
      <4>4. StageOf(y)
        BY <1>1, <4>3, Zenon DEF Wanting, StageOf, SameLogin
      <4>5. p.k = "error"
        BY <4>1, Zenon
      <4>6. Ready(y, p)
        BY <4>3, <4>4, <4>5, Zenon DEF Ready, OwnPacket
      <4> QED
        BY <3>3, <4>1, <4>2, <4>6, StepGood, ZenonT(20) DEF AuthInv
    <3> QED
      BY <3>1, <3>2, <3>3, Zenon
  <2> QED
    BY <2>4, <2>5, Zenon
<1> QED
  BY <1>2, <1>3, Zenon

(* What holds when the packet m of the server arrives.                      *)
Arrives(s, m) ==
  /\ LoginBase(s) /\ s.at \in {"wait", "final"} /\ s.res = -1 /\ (s.at = "wait" => StageOf(s))
  /\ m.k \in {"ok", "error", "lost", "switch", "short", "data"}
  /\ m.k \in {"switch", "short"} => Asks(s, m)
  /\ m.k \notin {"switch", "short"} => Stood(s) /\ FirstOwn(s)
  /\ s.at = "wait" /\ m.k \in {"ok", "data"} => OwnBuffer(s) /\ s.cached = NoPkt
  /\ m.k = "data" => OwnPacket(s, m.data) /\ m.data.k # "ok"

LEMMA ReceiveGood ==
  ASSUME NEW s, NEW m, Arrives(s, m), NEW x \in Receive(s, m)
  PROVE  LoginGood(x)
<1> SUFFICES ASSUME LoginBase(s), s.at \in {"wait", "final"}, s.res = -1, s.at = "wait" => StageOf(s),
                    m.k \in {"ok", "error", "lost", "switch", "short", "data"},
                    m.k \in {"switch", "short"} => Asks(s, m),
                    m.k \notin {"switch", "short"} => Stood(s) /\ FirstOwn(s),
                    s.at = "wait" /\ m.k \in {"ok", "data"} => OwnBuffer(s) /\ s.cached = NoPkt,
                    m.k = "data" => OwnPacket(s, m.data) /\ m.data.k # "ok"
             PROVE  LoginGood(x)
  BY Zenon DEF Arrives
<1>1. PICK code : code = CASE m.k = "ok" -> 0 [] m.k = "error" -> 255 [] m.k = "lost" -> -1
                           [] m.k \in {"switch", "short"} -> 254 [] OTHER -> 1
  OBVIOUS
<1>2. PICK rd : rd = IF m.k \in {"ok", "data"} THEN 1 ELSE s.reads
  BY Zenon
<1>3. PICK er : er = CASE m.k = "error" -> "server" [] m.k = "lost" -> "lost" [] OTHER -> s.err
  BY Zenon
<1>4. PICK a : a = [s EXCEPT !.rp = code, !.msg = m, !.reads = rd, !.err = er]
  BY Zenon
<1>5. x \in IF s.at = "final"
            THEN IF m.k \in {"error", "lost"} THEN {Fail(a)} ELSE {Conclude(a)}
            ELSE Step(a, CASE m.k = "data" -> m.data [] m.k = "ok" -> [k |-> "ok", gen |-> 0]
                           [] OTHER -> [k |-> "error", gen |-> 0])
  BY <1>1, <1>2, <1>3, <1>4 DEF Receive
<1>6. /\ a = [f \in LoginFields |-> a[f]] /\ a.rp = code /\ a.msg = m /\ a.reads = rd
      /\ a.change = s.change /\ a.line = s.line /\ a.issued = s.issued /\ a.stage = s.stage
      /\ a.plugin = s.plugin /\ a.cached = s.cached /\ a.buff = s.buff
      /\ a.res = s.res /\ a.reply = s.reply /\ a.ssl = s.ssl
  BY <1>4, Zenon DEF LoginBase, LoginFields
<1>7. LoginBase(a)
  BY <1>6, Zenon DEF LoginBase, Digested
<1>8. /\ code = 254 <=> m.k \in {"switch", "short"}
      /\ code = 0 <=> m.k = "ok"
      /\ m.k = "data" => code = 1
  BY <1>1
<1>9. m.k \notin {"switch", "short"} => Stood(a) /\ FirstOwn(a)
  BY <1>6, Zenon DEF Stood, Digested, FirstOwn, ForNative
<1>10. m.k \in {"switch", "short"} => Asked(a)
  <2>1. PICK b : b = [s EXCEPT !.msg = m]
    BY Zenon
  <2>2. /\ b.msg = m /\ b.change = s.change /\ b.issued = s.issued /\ b.buff = s.buff /\ b.reply = s.reply
    BY <2>1, Zenon DEF LoginBase, LoginFields
  <2>3. Asked(b) => Asked(a)
    BY <1>6, <2>2, ZenonT(20) DEF Asked, Stood, Digested, LastIssued
  <2> QED
    BY <2>1, <2>3, Zenon DEF Asks
<1>11. Works(a)
  BY <1>6, <1>7, <1>8, <1>9, <1>10, ZenonT(20) DEF Works, Closed
<1>12. CASE s.at = "final"
  <2>1. CASE m.k \in {"error", "lost"}
    <3>1. x = Fail(a)
      BY <1>5, <1>12, <2>1, Zenon
    <3>2. Closed(a)
      BY <1>9, <2>1, Zenon DEF Closed
    <3> QED
      BY <1>7, <3>1, <3>2, Failed, ZenonT(20)
  <2>2. CASE m.k \notin {"error", "lost"}
    <3>1. x = Conclude(a)
      BY <1>5, <1>12, <2>2, Zenon
    <3> QED
      BY <1>6, <1>8, <1>11, <3>1, Concludes, ZenonT(20)
  <2> QED
    BY <2>1, <2>2, Zenon
<1>13. CASE s.at = "wait"
  <2>1. PICK p : p = CASE m.k = "data" -> m.data [] m.k = "ok" -> [k |-> "ok", gen |-> 0]
                       [] OTHER -> [k |-> "error", gen |-> 0]
    BY Zenon
  <2>2. x \in Step(a, p)
    BY <1>5, <1>13, <2>1, Zenon
  <2>3. StageOf(a)
    BY <1>6, <1>13, Zenon DEF StageOf
  <2>4. OwnPacket(a, p) /\ (m.k \notin {"data", "ok"} => p.k = "error") /\ (p.k = "ok" => m.k = "ok")
    BY <1>6, <2>1, ZenonT(20) DEF OwnPacket, LastIssued
  <2>5. m.k \in {"data", "ok"} => a.rp \in {0, 1} /\ a.reads = 1 /\ a.cached = NoPkt /\ OwnBuffer(a)
    BY <1>2, <1>6, <1>8, <1>13, SMTT(30) DEF OwnBuffer, LastIssued
  <2>6. Ready(a, p)
    BY <1>6, <1>9, <1>11, <2>3, <2>4, <2>5, ZenonT(20) DEF Ready
  <2> QED
    BY <2>2, <2>6, StepGood, ZenonT(20)
<1> QED
  BY <1>12, <1>13, Zenon

(* One more challenge.                                                      *)
LEMMA Issued ==
  ASSUME NEW a, LoginBase(a), Stood(a), NEW p \in AuthPlugins,
         NEW s, s = [f \in LoginFields |-> s[f]], s.issued = Append(a.issued, p),
         s.stage = a.stage, s.plugin = a.plugin, s.reply = a.reply, s.change = a.change,
         s.line = a.line, s.ssl = a.ssl
  PROVE  /\ LoginBase(s) /\ Stood(s) /\ ~ForNative(s) /\ Len(s.issued) = Len(a.issued) + 1
         /\ Len(s.issued) >= 2 /\ LastIssued(s) = p
<1>1. PICK q : q = Append(a.issued, p)
  BY Zenon
<1>2. /\ q \in Seq(AuthPlugins) /\ Len(q) = Len(a.issued) + 1 /\ q[Len(q)] = p
      /\ \A i \in 1..Len(a.issued) : q[i] = a.issued[i] /\ i \in 1..Len(q)
      /\ Len(a.issued) \in Nat \ {0}
  BY <1>1 DEF LoginBase
<1>4. s.issued = q
  BY <1>1, Zenon
<1>5. LoginBase(s)
  BY <1>2, <1>4 DEF LoginBase, Digested
<1>6. Stood(s)
  BY <1>2, <1>4, Zenon DEF Stood, Digested
<1>7. Len(s.issued) >= 2 /\ ~ForNative(s)
  <2>1. Len(q) >= 2
    BY <1>2
  <2> QED
    BY <1>2, <1>4, <2>1, TwoAreNotOne, ZenonT(20) DEF ForNative
<1> QED
  BY <1>2, <1>4, <1>5, <1>6, <1>7, ZenonT(20) DEF LastIssued

LEMMA ServerGood ==
  ASSUME AuthInv, ServerEnds \/ ServerSwitches \/ ServerAsksShort \/ ServerSends
  PROVE  AuthInv'
<1>1. /\ auth.at \in {"wait", "final"} /\ LoginBase(auth) /\ Awaiting(auth)
      /\ auth.at = "wait" => OwnBuffer(auth) /\ StageOf(auth) /\ auth.cached = NoPkt
  BY DEF ServerEnds, ServerSwitches, ServerAsksShort, ServerSends, Waiting, AuthInv, AuthInit, LoginGood
<1>2. auth.res = -1 /\ Stood(auth) /\ FirstOwn(auth)
  BY <1>1, Zenon DEF Awaiting
<1>3. CASE ServerEnds
  <2>1. PICK k \in {"ok", "error", "lost"} : auth' \in Receive(auth, Msg(k, NoPlugin, NoPkt))
    BY <1>3, Zenon DEF ServerEnds
  <2>2. PICK m : m = Msg(k, NoPlugin, NoPkt)
    BY Zenon
  <2>3. m.k \in {"ok", "error", "lost"} /\ m.k \notin {"switch", "short", "data"}
    BY <2>2, Zenon DEF Msg
  <2>4. auth' \in Receive(auth, m)
    BY <2>1, <2>2, ZenonT(20)
  <2>5. Arrives(auth, m)
    BY <1>1, <1>2, <2>3, ZenonT(20) DEF Arrives
  <2> QED
    BY <2>4, <2>5, ReceiveGood, Zenon DEF AuthInv
<1>4. CASE ServerSwitches
  <2>1. PICK p \in AuthPlugins :
          auth' \in Receive([auth EXCEPT !.issued = Append(@, p)],
                            Msg("switch", p, FirstData(p, Len(auth.issued) + 1)))
    BY <1>4, Zenon DEF ServerSwitches
  <2>2. PICK s : s = [auth EXCEPT !.issued = Append(@, p)]
    BY Zenon
  <2>3. PICK m : m = Msg("switch", p, FirstData(p, Len(auth.issued) + 1))
    BY Zenon
  <2>4. /\ LoginBase(s) /\ Stood(s) /\ Len(s.issued) = Len(auth.issued) + 1
        /\ Len(s.issued) >= 2 /\ LastIssued(s) = p
        /\ s.at = auth.at /\ s.res = -1 /\ s.stage = auth.stage /\ s.plugin = auth.plugin
    <3>1. /\ s = [f \in LoginFields |-> s[f]] /\ s.issued = Append(auth.issued, p)
          /\ s.at = auth.at /\ s.res = -1 /\ s.stage = auth.stage /\ s.plugin = auth.plugin
          /\ s.reply = auth.reply /\ s.change = auth.change /\ s.line = auth.line /\ s.ssl = auth.ssl
      BY <1>1, <1>2, <2>2, Zenon DEF LoginBase, LoginFields
    <3> QED
      BY <1>1, <1>2, <3>1, Issued, ZenonT(20)
  <2>5. m.k = "switch" /\ m.plugin = p /\ m.data = FirstData(p, Len(s.issued))
    BY <2>3, <2>4, Zenon DEF Msg
  <2>6. PICK b : b = [s EXCEPT !.msg = m]
    BY Zenon
  <2>7. b.msg = m /\ b.issued = s.issued /\ b.reply = s.reply /\ b.change = s.change
    BY <2>4, <2>6, Zenon DEF LoginBase, LoginFields
  <2>8. Asks(s, m)
    <3>1. Asked(b)
      BY <2>4, <2>5, <2>7, ZenonT(20) DEF Asked, Stood, Digested, LastIssued
    <3> QED
      BY <2>6, <3>1, ZenonT(20) DEF Asks
  <2>9. s.at = "wait" => StageOf(s)
    BY <1>1, <2>4, Zenon DEF StageOf
  <2>10. auth' \in Receive(s, m)
    BY <2>1, <2>2, <2>3, Zenon
  <2>11. Arrives(s, m)
    BY <1>1, <2>4, <2>5, <2>8, <2>9, ZenonT(20) DEF Arrives
  <2> QED
    BY <2>10, <2>11, ReceiveGood, ZenonT(20) DEF AuthInv
<1>5. CASE ServerAsksShort
  <2>1. /\ ~auth.change /\ auth.issued = <<"native">> /\ auth.reply.plugin = "native"
        /\ auth' \in Receive([auth EXCEPT !.issued = <<"old">>], Msg("short", "old", NoPkt))
    BY <1>5, Zenon DEF ServerAsksShort
  <2>2. auth.plugin = "native" /\ auth.buff = 1
    BY <1>1, <2>1, Zenon DEF Awaiting, FirstOwn, ForNative, NoPlugin
  <2>3. PICK s : s = [auth EXCEPT !.issued = <<"old">>]
    BY Zenon
  <2>4. PICK m : m = Msg("short", "old", NoPkt)
    BY Zenon
  <2>5. /\ s = [f \in LoginFields |-> s[f]] /\ s.issued = <<"old">> /\ s.buff = 1 /\ ~s.change
        /\ s.at = auth.at /\ s.res = -1 /\ s.stage = auth.stage /\ s.plugin = auth.plugin
        /\ s.reply = auth.reply /\ s.line = auth.line /\ s.ssl = auth.ssl /\ s.change = auth.change
    BY <1>1, <1>2, <2>1, <2>2, <2>3, ZenonT(20) DEF LoginBase, LoginFields
  <2>6. <<"old">> \in Seq(AuthPlugins) /\ <<"old">> # <<>>
    BY DEF AuthPlugins, Hashing
  <2>7. LoginBase(s)
    BY <1>1, <2>5, <2>6, Zenon DEF LoginBase, Digested
  <2>8. m.k = "short" /\ m.plugin = "old"
    BY <2>4, Zenon DEF Msg
  <2>9. PICK b : b = [s EXCEPT !.msg = m]
    BY Zenon
  <2>10. b.msg = m /\ b.issued = s.issued /\ b.reply = s.reply /\ b.change = s.change /\ b.buff = s.buff
    BY <2>5, <2>9, Zenon DEF LoginFields
  <2>11. Asks(s, m)
    <3>1. Asked(b)
      BY <2>1, <2>5, <2>8, <2>10, Zenon DEF Asked
    <3> QED
      BY <2>9, <3>1, Zenon DEF Asks
  <2>12. s.at = "wait" => StageOf(s)
    BY <1>1, <2>5, Zenon DEF StageOf
  <2>13. auth' \in Receive(s, m)
    BY <2>1, <2>3, <2>4, Zenon
  <2>14. Arrives(s, m)
    BY <1>1, <2>5, <2>7, <2>8, <2>11, <2>12, ZenonT(20) DEF Arrives
  <2> QED
    BY <2>13, <2>14, ReceiveGood, Zenon DEF AuthInv
<1>6. CASE ServerSends
  <2>1. CASE /\ auth.reply.form = "start"
             /\ auth' \in Receive([auth EXCEPT !.issued = Append(@, auth.plugin), !.asked = @ + 1],
                                  Msg("data", NoPlugin, FirstData(auth.plugin, Len(auth.issued) + 1)))
    <3>1. PICK s : s = [auth EXCEPT !.issued = Append(@, auth.plugin), !.asked = @ + 1]
      BY Zenon
    <3>2. PICK m : m = Msg("data", NoPlugin, FirstData(auth.plugin, Len(auth.issued) + 1))
      BY Zenon
    <3>3. /\ LoginBase(s) /\ Stood(s) /\ ~ForNative(s) /\ Len(s.issued) = Len(auth.issued) + 1
          /\ LastIssued(s) = auth.plugin
          /\ s.at = auth.at /\ s.res = -1 /\ s.stage = auth.stage /\ s.plugin = auth.plugin
          /\ s.reply = auth.reply /\ s.cached = auth.cached
      <4>1. /\ s = [f \in LoginFields |-> s[f]] /\ s.issued = Append(auth.issued, auth.plugin)
            /\ s.at = auth.at /\ s.res = -1 /\ s.stage = auth.stage /\ s.plugin = auth.plugin
            /\ s.reply = auth.reply /\ s.change = auth.change /\ s.line = auth.line
            /\ s.ssl = auth.ssl /\ s.cached = auth.cached
        BY <1>1, <1>2, <3>1, Zenon DEF LoginBase, LoginFields
      <4>2. PICK p \in AuthPlugins : p = auth.plugin
        BY <1>1, Zenon DEF LoginBase
      <4>3. s.issued = Append(auth.issued, p)
        BY <4>1, <4>2, Zenon
      <4>4. /\ LoginBase(s) /\ Stood(s) /\ ~ForNative(s) /\ Len(s.issued) = Len(auth.issued) + 1
            /\ LastIssued(s) = p
        BY <1>1, <1>2, <4>1, <4>3, Issued, ZenonT(20)
      <4> QED
        BY <4>1, <4>2, <4>4, Zenon
    <3>4. m.k = "data" /\ m.data.gen = Len(s.issued) /\ m.data.k # "ok"
      BY <3>2, <3>3, Zenon DEF Msg, FirstData
    <3>5. OwnPacket(s, m.data) /\ FirstOwn(s)
      BY <3>3, <3>4, Zenon DEF OwnPacket, FirstOwn
    <3>6. s.at = "wait" => OwnBuffer(s) /\ StageOf(s) /\ s.cached = NoPkt
      BY <1>1, <2>1, <3>3, Zenon DEF OwnBuffer, StageOf
    <3>7. auth' \in Receive(s, m)
      BY <2>1, <3>1, <3>2, Zenon
    <3>8. Arrives(s, m)
      BY <1>1, <3>3, <3>4, <3>5, <3>6, ZenonT(20) DEF Arrives
    <3> QED
      BY <3>7, <3>8, ReceiveGood, Zenon DEF AuthInv
  <2>2. ASSUME NEW k \in ServerData(auth.plugin),
               auth' \in Receive([auth EXCEPT !.asked = @ + 1], Msg("data", NoPlugin, [k |-> k, gen |-> 0]))
        PROVE  AuthInv'
    <3>1. PICK n : n = auth.asked + 1
      BY Zenon
    <3>2. PICK s : s = [auth EXCEPT !.asked = n]
      BY Zenon
    <3>3. PICK m : m = Msg("data", NoPlugin, [k |-> k, gen |-> 0])
      BY Zenon
    <3>4. /\ s = [f \in LoginFields |-> s[f]] /\ s.issued = auth.issued /\ s.buff = auth.buff
          /\ s.at = auth.at /\ s.res = -1 /\ s.stage = auth.stage /\ s.plugin = auth.plugin
          /\ s.reply = auth.reply /\ s.line = auth.line /\ s.ssl = auth.ssl /\ s.change = auth.change
          /\ s.cached = auth.cached
      BY <1>1, <1>2, <3>2, Zenon DEF LoginBase, LoginFields
    <3>5. LoginBase(s)
      BY <1>1, <3>4, Zenon DEF LoginBase, Digested
    <3>6. Stood(s) /\ FirstOwn(s)
      BY <1>2, <3>4, Zenon DEF Stood, Digested, FirstOwn, ForNative
    <3>7. s.at = "wait" => OwnBuffer(s) /\ StageOf(s) /\ s.cached = NoPkt
      BY <1>1, <3>4, Zenon DEF OwnBuffer, StageOf, LastIssued
    <3>8. m.k = "data" /\ m.data.k = k
      BY <3>3, Zenon DEF Msg
    <3>9. k \notin {"ok", "scramble", "nonce"}
      BY <2>2, Zenon DEF ServerData
    <3>10. OwnPacket(s, m.data) /\ m.data.k # "ok"
      BY <3>8, <3>9, Zenon DEF OwnPacket
    <3>11. auth' \in Receive(s, m)
      BY <2>2, <3>1, <3>2, <3>3, ZenonT(20)
    <3>12. Arrives(s, m)
      BY <1>1, <3>4, <3>5, <3>6, <3>7, <3>8, <3>10, ZenonT(20) DEF Arrives
    <3> QED
      BY <3>11, <3>12, ReceiveGood, Zenon DEF AuthInv
  <2> QED
    BY <1>6, <2>1, <2>2, ZenonT(20) DEF ServerSends
<1> QED
  BY <1>3, <1>4, <1>5, <1>6, ZenonT(20)

(* Whatever plugins the server asks for, in whatever order and however      *)
(* often, and whatever write or read fails: a digest answers the plugin's   *)
(* own last challenge, no plugin that can encrypt sends the bare password   *)
(* on an open line, only the server's OK ends in success and a failure has  *)
(* its error (run_plugin_auth and the plugins).                             *)
THEOREM LoginHonestHolds == AuthSpec => []LoginHonest
<1>1. AuthInit => AuthInv
  BY Zenon DEF AuthInv
<1>2. AuthInv /\ [AuthNext]_auth => AuthInv'
  <2> SUFFICES ASSUME AuthInv, [AuthNext]_auth
               PROVE  AuthInv'
    BY Zenon
  <2>1. CASE UNCHANGED auth
    BY <2>1, Zenon DEF AuthInv, AuthInit
  <2>2. CASE auth.at = "idle" /\
             \E change \in BOOLEAN, server \in AuthPlugins, default \in {NoPlugin, "native", "sha256"},
                line \in {"plain", "tls", "local"}, pw \in BOOLEAN :
               RunPluginAuth(change, server, default, line, pw)
    <3>1. {NoPlugin, "native", "sha256"} \subseteq AuthPlugins \cup {NoPlugin}
      BY Zenon DEF AuthPlugins, Hashing
    <3> QED
      BY <2>2, <3>1, RunGood, ZenonT(20)
  <2>3. CASE AuthNext /\ ~(auth.at = "idle" /\
             \E change \in BOOLEAN, server \in AuthPlugins, default \in {NoPlugin, "native", "sha256"},
                line \in {"plain", "tls", "local"}, pw \in BOOLEAN :
               RunPluginAuth(change, server, default, line, pw))
    BY <2>3, AuthenticateGood, ReadPacketGood, ServerGood, ZenonT(20) DEF AuthNext
  <2> QED
    BY <2>1, <2>2, <2>3, ZenonT(20)
<1>3. AuthInv => LoginHonest
  <2>1. ASSUME AuthInit
        PROVE  LoginHonest
    <3>1. auth.res = -1 /\ auth.reply.form = "none"
      BY <2>1, SMTT(30) DEF AuthInit, NoAuthReply
    <3> QED
      BY <3>1 DEF LoginHonest, AnswersOwnChallenge, ClearOnlySecure, OkOnlyFromServer, FailureNamed
  <2>2. ASSUME LoginGood(auth)
        PROVE  LoginHonest
    <3>1. LoginBase(auth) /\ Closed(auth)
      BY <2>2, Zenon DEF LoginGood, Entering, Awaiting, Closed
    <3>2. AnswersOwnChallenge
      BY <3>1, Zenon DEF AnswersOwnChallenge, LoginBase, Digested, Closed, Stood, Short
    <3>3. ClearOnlySecure
      BY <3>1, Zenon DEF ClearOnlySecure, LoginBase, SecretPlugins
    <3>4. OkOnlyFromServer /\ FailureNamed
      <4>1. CASE auth.at = "done"
        BY <2>2, <4>1, Zenon DEF LoginGood, OkOnlyFromServer, FailureNamed
      <4>2. CASE auth.at # "done"
        <5>1. auth.res = -1
          BY <2>2, <4>2, Zenon DEF LoginGood, Entering, Awaiting
        <5> QED
          BY <5>1 DEF OkOnlyFromServer, FailureNamed
      <4> QED
        BY <4>1, <4>2, Zenon
    <3> QED
      BY <3>2, <3>3, <3>4, ZenonT(20) DEF LoginHonest
  <2> QED
    BY <2>1, <2>2, Zenon DEF AuthInv
<1> QED
  BY <1>1, <1>2, <1>3, PTL DEF AuthSpec
=============================================================================
