-------------------------------- MODULE Auth --------------------------------
(***************************************************************************)
(* Authentication (plugins/auth/my_auth.c): run_plugin_auth lets a plugin  *)
(* talk to the server through read_packet and write_packet, until the      *)
(* server accepts, refuses, or asks for another plugin.  The plugins are   *)
(* the ones under plugins/auth.  Passwords and digests are left out: what  *)
(* is kept of an answer is its form and the challenge it answers.          *)
(***************************************************************************)
EXTENDS Integers, Sequences, FiniteSets

CONSTANTS MaxIssued,      \* challenges the server issues in one authentication
          DummyRounds,    \* round trips of the dummy plugin (10 in the code)
          MaxAsked        \* packets of data the server sends

Hashing == {"native", "old", "sha256", "caching", "sm3"}
AuthPlugins == Hashing \cup {"ed25519", "clear", "dialog", "gssapi", "missing"}
NoPlugin == "none"
NoPkt == [k |-> "none", gen |-> 0]

VARIABLES auth
(* at      where the client is: "idle", "enter" a plugin, "want" a packet, *)
(*         "wait" for one, "final": run_plugin_auth waits for OK, "done"   *)
(* plugin, stage    the plugin running and the packet it is at             *)
(* change, line, pw the call: change user?, "plain", "tls" or "local",     *)
(*                  is there a password                                    *)
(* cached, buff     mpvio.cached_server_reply, the challenge in            *)
(*                  mysql->scramble_buff (0: none)                         *)
(* reads, writes    packets_read and packets_written, 0 or more            *)
(* rp               net.read_pos[0]: 0, 254, 255, 1 for data, -1 freed     *)
(* ssl              CLIENT_SSL in client_flag                              *)
(* msg              the last packet of the server                          *)
(* issued, asked    for which plugin the server issued each challenge,     *)
(*                  and how many packets of data it sent                   *)
(* reply            the last answer sent, with the last challenge then     *)
(* err, res         net.last_errno, and the result of run_plugin_auth      *)
NoAuthReply == [plugin |-> NoPlugin, form |-> "none", gen |-> 0, latest |-> 0]
AuthInit == auth =
  [at |-> "idle", plugin |-> NoPlugin, stage |-> 0, change |-> FALSE, line |-> "plain",
   pw |-> FALSE, cached |-> NoPkt, buff |-> 0, reads |-> 0, writes |-> 0, rp |-> 0,
   ssl |-> FALSE, msg |-> [k |-> "hello", plugin |-> NoPlugin, data |-> NoPkt],
   issued |-> <<>>, asked |-> 0, reply |-> NoAuthReply, err |-> "none", res |-> -1]

(***************************************************************************)
(* The end of a plugin's turn                                              *)
(***************************************************************************)
Fail(a) == [a EXCEPT !.at = "done", !.res = 1, !.err = IF @ = "none" THEN "unknown" ELSE @]
FailWith(a, code) == [a EXCEPT !.at = "done", !.res = 1, !.err = code]
Success(a) == [a EXCEPT !.at = "done", !.res = 0]

(* The server asked for another plugin: what follows the name is fed to it;*)
(* the old request for a short scramble uses the one there is.             *)
SwitchPlugin(a) ==
  [a EXCEPT !.at = "enter", !.plugin = a.msg.plugin,
            !.err = IF a.msg.plugin = "missing" THEN "noplugin" ELSE @,
            !.cached = IF a.msg.k = "short" THEN [k |-> "scramble", gen |-> a.buff]
                       ELSE a.msg.data]

(* read_pos[0] decides: 254 another plugin, 0 the OK packet, else malformed*)
Conclude(a) ==
  IF a.rp = 254 THEN SwitchPlugin(a)
  ELSE IF a.rp = 0 THEN Success(a)
  ELSE FailWith(a, "malformed")

(* What authenticate_user returned: CR_ERROR, an error code of the plugin, *)
(* CR_OK, or CR_OK_HANDSHAKE_COMPLETE (the packet has been read already).  *)
(* A read_pos into a freed buffer may show anything.                       *)
AuthReturn(a, result) ==
  CASE result = "ok" -> {[a EXCEPT !.at = "final"]}
    [] result = "complete" -> IF a.rp = -1 THEN {Success(a), FailWith(a, "malformed")} ELSE {Conclude(a)}
    [] result = "error" -> IF a.rp = 254 THEN {SwitchPlugin(a)} ELSE {Fail(a)}
    [] OTHER -> IF a.rp = 254 THEN {SwitchPlugin(a)} ELSE {FailWith(a, result)}

(***************************************************************************)
(* write_packet.  The first packet is wrapped in the handshake response    *)
(* (which settles CLIENT_SSL) or in COM_CHANGE_USER.  A write may fail.    *)
(***************************************************************************)
Sent(a, form, gen) ==
  [a EXCEPT !.writes = 1,
            !.ssl = IF a.writes = 0 /\ ~a.change THEN a.line = "tls" ELSE @,
            !.reply = [plugin |-> a.plugin, form |-> form, gen |-> gen, latest |-> Len(a.issued)]]
NotSent(a) == [a EXCEPT !.writes = 1, !.err = IF @ = "none" THEN "lost" ELSE @]
AuthWrite(a, form, gen, Then(_), Otherwise(_)) == Then(Sent(a, form, gen)) \cup Otherwise(NotSent(a))
WriteOr(a, form, gen, Then(_)) == AuthWrite(a, form, gen, Then, LAMBDA x : AuthReturn(x, "error"))
WriteLast(a, form, gen) == WriteOr(a, form, gen, LAMBDA x : AuthReturn(x, "ok"))
Want(a, stage) == {[a EXCEPT !.at = "want", !.stage = stage]}

(***************************************************************************)
(* The plugins.  Step(a, p): the plugin, at a.stage, has read packet p;    *)
(* "error" stands for packet_error.                                        *)
(***************************************************************************)
Hash(a, gen) == WriteLast(a, IF a.pw THEN "hash" ELSE "empty", gen)
NativeStep(a, p) ==
  CASE p.k = "error" -> AuthReturn(a, "error")
    [] p.k = "scramble" -> Hash([a EXCEPT !.buff = p.gen], p.gen)
    [] OTHER -> AuthReturn(a, "handshake")
OldPasswordStep(a, p) ==
  CASE p.k = "error" -> AuthReturn(a, "error")
    [] p.k = "scramble" -> Hash([a EXCEPT !.buff = p.gen], p.gen)
    [] OTHER -> AuthReturn(a, "handshake")

(* The server's key encrypts the password together with the challenge.     *)
(* load_pub_key_file compares the number of items fread returns, one, with *)
(* the size of the file: no key comes from there.                          *)
SendEncrypted(a, p) ==
  IF p.k = "key" THEN WriteLast(a, "rsa", a.buff) ELSE AuthReturn(a, "error")

Sha256Step(a, p) ==
  CASE p.k = "error" -> AuthReturn(a, "error")
    [] a.stage = 1 /\ p.k # "scramble" -> AuthReturn(a, "handshake")
    [] a.stage = 1 /\ p.k = "scramble" ->
         LET b == [a EXCEPT !.buff = p.gen]
         IN IF b.ssl THEN WriteLast(b, "clear", p.gen)
            ELSE IF ~b.pw THEN WriteLast(b, "empty", p.gen)
            ELSE WriteOr(b, "askkey", p.gen, LAMBDA x : Want(x, 2))
    [] OTHER -> SendEncrypted(a, p)

IsConnectionSecure(a) == a.line # "plain"
KeyError(a) == AuthReturn([a EXCEPT !.err = "plugin"], "error")
(* The full authentication of the two plugins with a cache on the server   *)
FullLogin(a) ==
  IF IsConnectionSecure(a) THEN WriteLast(a, "clear", a.buff)
  ELSE AuthWrite(a, "askkey", a.buff, LAMBDA x : Want(x, 3), KeyError)
CachingSha2Step(a, p) ==
  CASE a.stage = 3 -> IF p.k = "error" THEN KeyError(a) ELSE SendEncrypted(a, p)
    [] a.stage < 3 /\ p.k = "error" -> AuthReturn(a, "error")
    [] a.stage = 1 /\ p.k \notin {"error", "scramble"} -> AuthReturn(a, "handshake")
    [] a.stage = 1 /\ p.k = "scramble" ->
         LET b == [a EXCEPT !.buff = p.gen]
         IN IF b.pw THEN WriteOr(b, "hash", p.gen, LAMBDA x : Want(x, 2))
            ELSE WriteLast(b, "empty", p.gen)
    [] a.stage = 2 /\ p.k = "succeeded" -> AuthReturn(a, "ok")
    [] OTHER -> FullLogin(a)
ObSm3Step(a, p) == CachingSha2Step(a, p)

Ed25519Step(a, p) ==
  IF p.k = "nonce" THEN WriteLast(a, "hash", p.gen) ELSE AuthReturn(a, "handshake")

(* A question whose type is odd is the last one.                           *)
DialogStep(a, p) ==
  CASE p.k = "error" -> AuthReturn(a, "error")
    [] p.k = "ok" -> AuthReturn(a, "complete")
    [] p.k = "asklast" -> WriteLast(a, "answer", 0)
    [] OTHER -> WriteOr(a, "answer", 0, LAMBDA x : Want(x, 1))

(* gss_init_sec_context (or SSPI's): an error, done, or one more round.    *)
SecContext(a) ==
  UNION {AuthReturn([a EXCEPT !.err = "gss"], "error"),
         AuthWrite(a, "token", 0, LAMBDA x : AuthReturn(x, "ok"), LAMBDA x : AuthReturn(x, "complete")),
         AuthWrite(a, "token", 0, LAMBDA x : Want(x, 2), LAMBDA x : AuthReturn(x, "complete"))}
GssapiStep(a, p) ==
  CASE p.k = "error" -> AuthReturn(a, IF a.stage = 1 THEN "error" ELSE "complete")
    [] OTHER -> SecContext(a)

DummyStep(a, p) ==
  IF p.k = "error" THEN AuthReturn(a, "error")
  ELSE WriteOr(a, "empty", 0, LAMBDA x : IF x.stage = DummyRounds THEN AuthReturn(x, "error")
                                         ELSE Want(x, x.stage + 1))

Step(a, p) ==
  CASE a.plugin = "native" -> NativeStep(a, p)
    [] a.plugin = "old" -> OldPasswordStep(a, p)
    [] a.plugin = "sha256" -> Sha256Step(a, p)
    [] a.plugin = "caching" -> CachingSha2Step(a, p)
    [] a.plugin = "sm3" -> ObSm3Step(a, p)
    [] a.plugin = "ed25519" -> Ed25519Step(a, p)
    [] a.plugin = "dialog" -> DialogStep(a, p)
    [] a.plugin = "gssapi" -> GssapiStep(a, p)
    [] OTHER -> DummyStep(a, p)

(***************************************************************************)
(* The client's actions                                                    *)
(***************************************************************************)
(* run_plugin_auth, called by the connect with the challenge and plugin of *)
(* the handshake, or by mysql_change_user with neither.  A default plugin  *)
(* of the application goes before the server's; what was prepared for      *)
(* another plugin is dropped.                                              *)
FirstData(p, gen) ==
  [k |-> CASE p \in Hashing \cup {"missing"} -> "scramble" [] p = "ed25519" -> "nonce"
           [] p = "dialog" -> "ask" [] p = "gssapi" -> "name" [] OTHER -> "empty",
   gen |-> gen]
RunPluginAuth_KeepsData(change, server, default, line, pw) ==
  auth' = [auth EXCEPT !.at = "enter", !.change = change, !.line = line, !.pw = pw,
      !.plugin = IF default # NoPlugin THEN default ELSE IF change THEN "native" ELSE server,
      !.cached = IF change THEN NoPkt ELSE FirstData(server, 1),
      !.issued = <<server>>, !.buff = IF change THEN 1 ELSE 0,
      !.ssl = change /\ line = "tls"]
RunPluginAuth(change, server, default, line, pw) ==
  auth' = [auth EXCEPT !.at = "enter", !.change = change, !.line = line, !.pw = pw,
      !.plugin = IF default # NoPlugin THEN default ELSE IF change THEN "native" ELSE server,
      !.cached = IF change \/ default \notin {NoPlugin, server} THEN NoPkt ELSE FirstData(server, 1),
      !.issued = <<server>>, !.buff = IF change THEN 1 ELSE 0,
      !.ssl = change /\ line = "tls"]

Authenticate ==
  /\ auth.at = "enter"
  /\ LET a == [auth EXCEPT !.rp = 0]
     IN auth' \in
          (CASE a.plugin \in {"native", "old"} /\ a.change -> Hash(a, a.buff)
             [] a.plugin = "clear" -> WriteLast(a, "clear", 0)
             [] OTHER -> Want(a, 1))

(* read_packet: a cached reply first; when nothing was read yet, a packet  *)
(* without data starts the conversation.                                   *)
ReadPacket ==
  /\ auth.at = "want"
  /\ LET cached == auth.cached
     IN auth' \in
          (IF cached # NoPkt THEN Step([auth EXCEPT !.cached = NoPkt, !.reads = 1], cached)
           ELSE IF auth.reads = 0
           THEN AuthWrite(auth, "start", 0, LAMBDA x : {[x EXCEPT !.at = "wait"]},
                      LAMBDA x : Step(x, [k |-> "error", gen |-> 0]))
           ELSE {[auth EXCEPT !.at = "wait"]})

(* A packet arrives, for the plugin or for run_plugin_auth.                *)
Receive(s, m) ==
  LET code == CASE m.k = "ok" -> 0 [] m.k = "error" -> 255 [] m.k = "lost" -> -1
                [] m.k \in {"switch", "short"} -> 254 [] OTHER -> 1
      a == [s EXCEPT !.rp = code, !.msg = m, !.reads = IF m.k \in {"ok", "data"} THEN 1 ELSE @,
              !.err = CASE m.k = "error" -> "server" [] m.k = "lost" -> "lost" [] OTHER -> @]
  IN IF s.at = "final"
     THEN IF m.k \in {"error", "lost"} THEN {Fail(a)} ELSE {Conclude(a)}
     ELSE Step(a, CASE m.k = "data" -> m.data [] m.k = "ok" -> [k |-> "ok", gen |-> 0]
                    [] OTHER -> [k |-> "error", gen |-> 0])

(***************************************************************************)
(* The server                                                              *)
(***************************************************************************)
Waiting == auth.at \in {"wait", "final"}
Msg(k, p, data) == [k |-> k, plugin |-> p, data |-> data]
ServerEnds ==
  Waiting /\ \E k \in {"ok", "error", "lost"} : auth' \in Receive(auth, Msg(k, NoPlugin, NoPkt))
(* It asks for another plugin, with a new challenge.                       *)
ServerSwitches ==
  /\ Waiting /\ Len(auth.issued) < MaxIssued
  /\ \E p \in AuthPlugins :
       auth' \in Receive([auth EXCEPT !.issued = Append(@, p)],
                         Msg("switch", p, FirstData(p, Len(auth.issued) + 1)))
(* Before plugins were known: the short scramble of the same challenge     *)
ServerAsksShort ==
  /\ Waiting /\ ~auth.change /\ auth.issued = <<"native">> /\ auth.reply.plugin = "native"
  /\ auth' \in Receive([auth EXCEPT !.issued = <<"old">>], Msg("short", "old", NoPkt))
(* It answers a conversation started without data, or goes on with one.    *)
ServerData(p) ==
  CASE p \in {"caching", "sm3"} -> {"succeeded", "full", "key"} [] p = "sha256" -> {"key"}
    [] p = "dialog" -> {"ask", "asklast"} [] p = "gssapi" -> {"token"} [] OTHER -> {}
ServerSends ==
  /\ Waiting /\ auth.asked < MaxAsked
  /\ \/ /\ auth.reply.form = "start" /\ Len(auth.issued) < MaxIssued
        /\ auth' \in Receive([auth EXCEPT !.issued = Append(@, auth.plugin), !.asked = @ + 1],
                             Msg("data", NoPlugin, FirstData(auth.plugin, Len(auth.issued) + 1)))
     \/ \E k \in ServerData(auth.plugin) :
          auth' \in Receive([auth EXCEPT !.asked = @ + 1], Msg("data", NoPlugin, [k |-> k, gen |-> 0]))

AuthNext ==
  \/ /\ auth.at = "idle"
     /\ \E change \in BOOLEAN, server \in AuthPlugins, default \in {NoPlugin, "native", "sha256"},
           line \in {"plain", "tls", "local"}, pw \in BOOLEAN :
          RunPluginAuth(change, server, default, line, pw)
  \/ Authenticate \/ ReadPacket \/ ServerEnds \/ ServerSwitches \/ ServerAsksShort \/ ServerSends
AuthSpec == AuthInit /\ [][AuthNext]_auth

(***************************************************************************)
(* A digest or an encrypted password sent in a connect answers the last    *)
(* challenge the server issued, and that one was issued for the plugin     *)
(* that answers (run_plugin_auth's "data was prepared for a different      *)
(* plugin, so we don't send any data").                                    *)
AnswersOwnChallenge ==
  auth.reply.form \in {"hash", "rsa"} /\ ~auth.change =>
    /\ auth.reply.gen = auth.reply.latest
    /\ auth.plugin = auth.reply.plugin => auth.issued[auth.reply.gen] = auth.reply.plugin

(* Whatever plugins were tried, a connection is authenticated only by an   *)
(* OK packet of the server, the last packet read.  (The GSSAPI plugin is   *)
(* excepted: after a failed write it reports a finished handshake.)        *)
OkOnlyFromServer == auth.res = 0 => auth.msg.k = "ok" \/ auth.plugin = "gssapi"

(* A failed authentication leaves an error code, also when the plugin did  *)
(* not set one.                                                            *)
FailureNamed == auth.res = 1 => auth.err # "none"

(* The plugins that can encrypt send the password itself only over a line  *)
(* that is encrypted or does not leave the machine.                        *)
ClearOnlySecure ==
  auth.reply.form = "clear" /\ auth.reply.plugin \in {"sha256", "caching", "sm3"} => auth.line # "plain"

(* However the server switches between plugins and whatever fails, a login *)
(* is answered with a digest of its own challenge, never with a bare       *)
(* password on an open line where the plugin can encrypt, it succeeds only *)
(* by the server's OK, and its failure has an error (run_plugin_auth and   *)
(* the plugins).                                                           *)
LoginHonest ==
  /\ AnswersOwnChallenge
  /\ ClearOnlySecure
  /\ OkOnlyFromServer
  /\ FailureNamed
=============================================================================
