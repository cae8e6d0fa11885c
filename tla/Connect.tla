------------------------------- MODULE Connect -------------------------------
(***************************************************************************)
(* mysql_real_connect (mariadb_lib.c) from the socket to the last init     *)
(* command, with the negotiation of the OceanBase features.                *)
(*                                                                         *)
(* After the login the call asks for the server's version, sets the NLS    *)
(* formats and the wait timeout and runs the init commands.  The former    *)
(* are ordinary queries: they may find the connection gone and reconnect,  *)
(* which is a mysql_real_connect on a second handle inside the first one.  *)
(* The calls under way are the stack frames; each has the fields of its    *)
(* handle and the local variables of mthd_my_real_connect.                 *)
(***************************************************************************)
EXTENDS Integers, Sequences, SequencesExt, FiniteSets

CONSTANTS CxServers,     \* records [ver, ora]: the servers an address may lead to
          CxEnvs,        \* environments: [knob, nls, wait]
          CxSince,       \* the version from which a server knows a feature
          CxInits,       \* the init commands, a sequence
          CxWithheld,    \* sets of capabilities: what a server may not grant
          MaxNested      \* handles under way at a time

EarlyFeatures == {"ob20", "flt", "show", "lob", "infiles"}
LateFeatures == {"pe", "rarr", "byname"}

VARIABLES cx      \* [env, frames, result, handle, freed, leaked, promoted]

(***************************************************************************)
(* Features                                                                *)
(***************************************************************************)
ForceClose == 0
AutoOpen == 1
ForceOpen == 2
(* The text of the variable: a number in the range, anything else is AUTO  *)
Knob(env, f) == IF env.knob[f] \in ForceClose..ForceOpen THEN env.knob[f] ELSE AutoOpen

(* determine_protocol_ob20 and the four like it                            *)
DetermineEarly(env) == {f \in EarlyFeatures : Knob(env, f) # ForceClose}
ByVersion(env, h, f) ==
  \/ Knob(env, f) = ForceOpen
  \/ Knob(env, f) = AutoOpen /\ h.ora /\ h.ver >= CxSince[f]
(* determine_use_prepare_execute, _send_plarray_maxrarr_len,               *)
(* _plarray_bindbyname                                                     *)
DetermineLate(env, h) ==
  {f \in LateFeatures : ByVersion(env, h, f)}

(* ma_set_ob_connect_attrs: the bits of the capability flag.  All four are *)
(* set at first; without full link trace the bit of SHOW TRACE stays.      *)
Offered(can) ==
  {f \in {"ob20", "extra"} : "ob20" \in can} \cup
  {f \in {"flt"} : {"ob20", "flt"} \subseteq can} \cup
  {f \in {"show"} : "ob20" \in can /\ ("flt" \in can => "show" \in can)} \cup
  (can \cap {"infiles"})
(* get_use_protocol_ob20, get_use_full_link_trace, get_use_flt_show_trace  *)
UseOb20(h) == "ob20" \in h.cap
UseTrace(h) == {"flt", "extra"} \subseteq h.cap
UseShow(h) == {"flt", "extra", "show"} \subseteq h.cap

(***************************************************************************)
(* Handles and frames                                                      *)
(***************************************************************************)
(* sess is the session of the connection in net.pvio: its server and the   *)
(* init commands it ran; live says that net.pvio is set.                   *)
NoSession == [ver |-> 0, ora |-> FALSE, ran |-> <<>>]
(* mysql_init                                                              *)
NewHandle(reconnect) ==
  [live |-> FALSE, hdlr |-> FALSE, sess |-> NoSession, strings |-> FALSE, can |-> {}, cap |-> {}, ob20 |-> FALSE,
   ora |-> FALSE, ver |-> 0, reconnect |-> reconnect]
ProxyMode == -1
NewFrame(h, remember) ==
  [h |-> h, pc |-> "open", remember |-> remember, retry |-> FALSE, nls |-> 0, at |-> 1,
   save |-> h.reconnect]

Top == Last(cx.frames)
CxInner == Len(cx.frames) > 1
WithTop(f) == [cx EXCEPT !.frames = Front(@) \o <<f>>]
At(pc) == cx.frames # <<>> /\ Top.pc = pc
Goto(f, pc) == [f EXCEPT !.pc = pc, !.retry = FALSE]

CxInit == cx = [env |-> CHOOSE e \in CxEnvs : TRUE, frames |-> <<>>, result |-> "none",
                handle |-> NewHandle(FALSE), freed |-> FALSE, leaked |-> {}, promoted |-> TRUE,
                app |-> [remember |-> FALSE, reconnect |-> FALSE]]

(* mysql_real_connect by the application, after mysql_init.  Proxy mode is *)
(* set by the load balancer.  The name of a connection handler leads to a  *)
(* plugin, which connects on its part and reconnects in its own way.       *)
CxCall ==
  /\ cx.frames = <<>> /\ cx.result = "none"
  /\ \E e \in CxEnvs, remember \in BOOLEAN, how \in {"plain", "reconnect", "proxy", "handler"} :
       LET h == [NewHandle(how = "reconnect") EXCEPT
                   !.ver = IF how = "proxy" THEN ProxyMode ELSE 0, !.hdlr = (how = "handler")]
       IN cx' = [cx EXCEPT !.env = e, !.frames = <<NewFrame(h, remember)>>,
                           !.app = [remember |-> remember, reconnect |-> h.reconnect]]

(* The call returns to the application; without success the connection     *)
(* handler is freed                                                        *)
CxGiveBack(c, h, result) ==
  [c EXCEPT !.frames = <<>>, !.result = result, !.handle = [h EXCEPT !.hdlr = @ /\ result = "ok"]]

(***************************************************************************)
(* Failure: "goto error" in mthd_my_real_connect, and in mariadb_reconnect *)
(* the end of the inner handle.  The query of the outer call that wanted to*)
(* reconnect has failed then.                                              *)
(***************************************************************************)
(* mysql_close_memory                                                      *)
CloseMemory(h) == [h EXCEPT !.live = FALSE, !.sess = NoSession, !.strings = FALSE]

(* What a call does after a query that failed: only the choice of the      *)
(* default database and an init command are taken seriously.               *)
AfterFailure(f) ==
  CASE f.pc = "version" -> Goto(f, "nls")
    [] f.pc \in {"nls", "wait"} -> Goto(f, IF f.pc = "nls" THEN "wait" ELSE "late")
    [] OTHER -> Goto(f, "error")
QueryFailed(c) == [c EXCEPT !.frames = Front(@) \o <<AfterFailure(Last(@))>>]

CxError ==
  /\ At("error")
  /\ LET c == [cx EXCEPT !.freed = @ \/ ~Top.remember]
     IN cx' = IF CxInner THEN QueryFailed([c EXCEPT !.frames = Front(@)])
              ELSE CxGiveBack(c, CloseMemory(Top.h), "fail")

(***************************************************************************)
(* Socket and greeting                                                     *)
(***************************************************************************)
(* A protocol that is none: returned at once, nothing is released          *)
CxProtocol ==
  /\ At("open") /\ ~CxInner
  /\ cx' = CxGiveBack(cx, Top.h, "refused")
(* ma_pvio_init, /dev/null, ma_pvio_connect, the SOCKS5 login, the proxy   *)
(* header, ma_net_init.  Two of the error paths do not close the pvio.     *)
CxOpen ==
  /\ At("open")
  /\ \/ \E why \in {"plugin", "redirection", "connect", "socks5", "header", "net"} :
          cx' = [WithTop(Goto(Top, "error")) EXCEPT
                   !.leaked = @ \cup ({why} \cap {"redirection", "socks5"})]
     \/ \E s \in CxServers :
          cx' = WithTop(Goto([Top EXCEPT !.h.live = TRUE,
                                         !.h.sess = [ver |-> s.ver, ora |-> s.ora, ran |-> <<>>]],
                             "greeting"))
(* The first packet: lost, an error, an old version; then the strings of   *)
(* the handle are set and the rest of it is read: a scramble that is too   *)
(* long, no second scramble with secure_auth, an unknown character set.    *)
CxGreeting ==
  /\ At("greeting")
  /\ \/ \E read \in BOOLEAN : cx' = WithTop(Goto([Top EXCEPT !.h.strings = read], "error"))
     \/ cx' = WithTop(Goto([Top EXCEPT !.h.strings = TRUE, !.h.can = DetermineEarly(cx.env)], "login"))

(* run_plugin_auth; the OK packet names the granted capabilities and the   *)
(* mode.  A server grants what it was offered, or less.                    *)
CxLogin ==
  /\ At("login")
  /\ \/ cx' = WithTop(Goto(Top, "error"))
     \/ \E less \in CxWithheld :
          LET cap == Offered(Top.h.can) \ less
              h == [Top.h EXCEPT !.cap = cap, !.ora = Top.h.sess.ora]
          IN cx' = WithTop(Goto([Top EXCEPT !.h = [h EXCEPT !.ob20 = UseOb20(h)]], "db"))

(***************************************************************************)
(* Queries on the new connection                                           *)
(***************************************************************************)
(* mariadb_reconnect: a new handle with the same options                   *)
InnerFrame_Forgets(f) == NewFrame(NewHandle(f.h.reconnect), FALSE)
InnerFrame(f) == NewFrame(NewHandle(f.h.reconnect), TRUE)

(* mthd_my_send_cmd and the reading of the answer.  done(f) is the frame   *)
(* after the query has been answered.  A query may be refused, its answer  *)
(* or its sending may fail; a write that fails is tried once more on a new *)
(* connection.                                                             *)
Reconnecting(c, f) ==
  IF f.h.reconnect THEN [c EXCEPT !.frames = Front(@) \o <<f, InnerFrame(f)>>]
  ELSE QueryFailed([c EXCEPT !.frames = Front(@) \o <<f>>])
(* end_server                                                              *)
Gone(f) == [f EXCEPT !.h.live = FALSE, !.h.sess = NoSession]
CxQuery(done(_)) ==
  LET gone == Gone(Top)
  IN IF ~Top.h.live
     THEN /\ Top.h.reconnect => Len(cx.frames) < MaxNested
          /\ cx' = Reconnecting(cx, Top)
     ELSE \/ cx' = WithTop(done(Top))
          \/ cx' = QueryFailed(cx)
          \/ cx' = QueryFailed(WithTop(gone))
          \/ /\ ~Top.retry
             /\ Top.h.reconnect => Len(cx.frames) < MaxNested
             /\ cx' = Reconnecting(WithTop(gone), [gone EXCEPT !.retry = TRUE])

(* The default database, for a server that took none with the login        *)
CxDb ==
  /\ At("db")
  /\ \/ cx' = WithTop(Goto(Top, "version"))
     \/ CxQuery(LAMBDA f : Goto(f, "version"))

(* get_ob_server_version: the row may name an OceanBase server             *)
CxVersion ==
  /\ At("version")
  /\ IF Top.h.ver = ProxyMode THEN cx' = WithTop(Goto(Top, "nls"))
     ELSE CxQuery(LAMBDA f : Goto([f EXCEPT !.h.ver = f.h.sess.ver], "nls"))

(* set_nls_format, one ALTER SESSION after the other, and set_wait_timeout *)
CxNls ==
  /\ At("nls")
  /\ IF ~Top.h.ora \/ Top.nls >= cx.env.nls THEN cx' = WithTop(Goto(Top, "wait"))
     ELSE CxQuery(LAMBDA f : Goto([f EXCEPT !.nls = @ + 1], "nls"))
CxWait ==
  /\ At("wait")
  /\ IF ~cx.env.wait THEN cx' = WithTop(Goto(Top, "late"))
     ELSE CxQuery(LAMBDA f : Goto(f, "late"))

(* The features that depend on the version, then reconnect is switched off *)
CxLate ==
  /\ At("late")
  /\ cx' = WithTop(Goto([Top EXCEPT !.h.can = (@ \ LateFeatures) \cup DetermineLate(cx.env, Top.h),
                                   !.save = Top.h.reconnect,
                                   !.h.reconnect = @ /\ CxInits = <<>>], "init"))

(* The init commands.  An answer with several results may break off while  *)
(* they are read, which only the next command notices.                     *)
RanInit(f) == Goto([f EXCEPT !.at = @ + 1, !.h.sess.ran = Append(@, CxInits[f.at])], "init")
CxInitCommand ==
  /\ At("init") /\ Top.at <= Len(CxInits)
  /\ \/ CxQuery(RanInit)
     \/ Top.h.live /\ cx' = WithTop(Gone(RanInit(Top)))

(* return(mysql), to the application or to mariadb_reconnect               *)
CxReturn ==
  /\ At("init") /\ Top.at > Len(CxInits)
  /\ LET f == [Top EXCEPT !.h.reconnect = Top.save]
     IN cx' = IF CxInner THEN WithTop(Goto(f, "names")) ELSE CxGiveBack(cx, f.h, "ok")

(* SET NAMES on the inner handle, then it becomes the outer one            *)
Promoted(outer, inner) == [outer EXCEPT !.h = inner]
CxNames ==
  \/ At("names") /\ CxQuery(LAMBDA f : Goto(f, "promote"))
  \/ /\ At("promote")
     /\ cx' = [cx EXCEPT !.frames = SubSeq(@, 1, Len(@) - 2) \o <<Promoted(@[Len(@) - 1], Top.h)>>,
                         !.promoted = Top.h.live]

CxNext == CxCall \/ CxError \/ CxProtocol \/ CxOpen \/ CxGreeting \/ CxLogin \/ CxDb \/ CxVersion
          \/ CxNls \/ CxWait \/ CxLate \/ CxInitCommand \/ CxReturn \/ CxNames

(***************************************************************************)
(* Properties                                                              *)
(***************************************************************************)
(* The options are freed by the one call that owns them and never under a  *)
(* call that still uses them: not by the reconnection inside a connection, *)
(* which works on a copy of the structure with the same pointers           *)
(* (CLIENT_REMEMBER_OPTIONS in mariadb_reconnect).                         *)
OptionsOwner ==
  /\ cx.freed => cx.frames = <<>> /\ cx.result = "fail" /\ ~cx.app.remember
  /\ cx.result = "fail" => (cx.freed <=> ~cx.app.remember)

(* A call that failed leaves the handle without connection and without the *)
(* strings of a login, as mysql_init made it; what it may leave behind is  *)
(* the socket of a refused SOCKS5 login and an unused pvio.                *)
FailureReleases ==
  cx.result = "fail" => /\ ~cx.handle.live /\ ~cx.handle.strings /\ ~cx.handle.hdlr
                        /\ cx.leaked \subseteq {"redirection", "socks5"}

(* A feature that its environment variable closes stays out of use, and so *)
(* does everything that rests on it: without protocol 2.0 no full link     *)
(* trace, without the trace no SHOW TRACE, whatever a server grants of what*)
(* it is offered.                                                          *)
ClosedStaysClosed ==
  LET h == cx.handle
      closed(f) == Knob(cx.env, f) = ForceClose
  IN cx.result = "ok" =>
       /\ closed("ob20") => ~UseOb20(h) /\ ~UseTrace(h) /\ ~UseShow(h) /\ ~h.ob20
       /\ closed("flt") => ~UseTrace(h) /\ ~UseShow(h)
       /\ closed("show") /\ ~closed("flt") => ~UseShow(h)
       /\ \A f \in LateFeatures : closed(f) => f \notin h.can

(* A feature that depends on the version is used only on a session whose   *)
(* own server has it, also when the call reconnected to another server     *)
(* after it had asked the first one for its version.                       *)
SupportedHere ==
  cx.result = "ok" /\ cx.handle.live =>
    \A f \in LateFeatures \cap cx.handle.can :
      Knob(cx.env, f) = ForceOpen \/ (cx.handle.sess.ora /\ cx.handle.sess.ver >= CxSince[f])

(* The session a successful call returns has last run the whole list of    *)
(* init commands in order, and the application's reconnect option is as it *)
(* was ("Avoid reconnect in mysql_real_connect").                          *)
InitCommandsRan ==
  cx.result = "ok" =>
    /\ cx.handle.live => IsSuffix(CxInits, cx.handle.sess.ran)
    /\ cx.handle.reconnect = cx.app.reconnect

(* mariadb_reconnect uses net.pvio of the handle it takes over: that call  *)
(* to mysql_real_connect may have returned a handle whose connection is    *)
(* gone, but SET NAMES after it brings it back or fails.                   *)
PromotedLive == cx.promoted

(* What a connect leaves behind fits its result, reconnections inside it   *)
(* included: after a failure nothing of the login and the options freed by *)
(* their one owner; after a success a live session that has run the init   *)
(* commands, with no feature that is closed or that its server lacks       *)
(* (mysql_real_connect, mariadb_reconnect).                                *)
ConnectSettles ==
  /\ OptionsOwner
  /\ FailureReleases
  /\ ClosedStaysClosed
  /\ SupportedHere
  /\ InitCommandsRan
  /\ PromotedLive
=============================================================================
