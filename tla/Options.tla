------------------------------ MODULE Options -------------------------------
(***************************************************************************)
(* The connection options (mariadb_lib.c): setting one by call or from an  *)
(* option file, reading one back, releasing them all.                      *)
(* A value is a small number; 0 is a null pointer, FALSE or zero.          *)
(***************************************************************************)
EXTENDS Integers, Sequences, FiniteSets, SequencesExt, Functions, BagsExt

CONSTANTS OptValues, OptCalls           \* values tried, calls in a behaviour
VARIABLES opts     \* val: the fields, flag: client_flag, init: the commands, last: the
                   \* option last set, calls, leaked: strings no one can free any more

(***************************************************************************)
(* mysql_optionsv                                                          *)
(***************************************************************************)
(* Options whose argument is stored as it is, in st_mysql_options          *)
NumOption ==
  [MYSQL_OPT_CONNECT_TIMEOUT |-> "connect_timeout", MYSQL_OPT_RECONNECT |-> "reconnect",
   MYSQL_OPT_PROTOCOL |-> "protocol", MYSQL_OPT_READ_TIMEOUT |-> "read_timeout",
   MYSQL_OPT_WRITE_TIMEOUT |-> "write_timeout", MYSQL_REPORT_DATA_TRUNCATION |-> "report_data_truncation",
   MYSQL_OPT_MAX_ALLOWED_PACKET |-> "max_allowed_packet", MYSQL_OPT_NET_BUFFER_LENGTH |-> "net_buffer_length",
   MYSQL_OPT_SSL_ENFORCE |-> "use_ssl", MARIADB_OPT_PORT |-> "port", MYSQL_SECURE_AUTH |-> "secure_auth",
   OB_OPT_CLOSE_ATTR_OBCLIENT_NAME |-> "close_attr_obclient_name",
   OB_OPT_CLOSE_ATTR_OBCLIENT_IP |-> "close_attr_obclient_ip"]
(* ... strings there, which are copied                                     *)
StrOption ==
  [MYSQL_READ_DEFAULT_FILE |-> "my_cnf_file", MYSQL_READ_DEFAULT_GROUP |-> "my_cnf_group",
   MYSQL_SET_CHARSET_DIR |-> "charset_dir", MYSQL_SET_CHARSET_NAME |-> "charset_name",
   MYSQL_OPT_SSL_KEY |-> "ssl_key", MYSQL_OPT_SSL_CERT |-> "ssl_cert", MYSQL_OPT_SSL_CA |-> "ssl_ca",
   MYSQL_OPT_SSL_CAPATH |-> "ssl_capath", MYSQL_OPT_SSL_CIPHER |-> "ssl_cipher",
   MARIADB_OPT_UNIXSOCKET |-> "unix_socket", MARIADB_OPT_USER |-> "user", OB_OPT_PROXY_USER |-> "proxy_user",
   MARIADB_OPT_HOST |-> "host", MARIADB_OPT_SCHEMA |-> "db", MARIADB_OPT_PASSWORD |-> "password",
   MYSQL_OPT_BIND |-> "bind_address"]
(* ... strings and values of the extension, which is allocated at need     *)
ExtStrOption ==
  [MYSQL_SERVER_PUBLIC_KEY |-> "server_public_key", MYSQL_PLUGIN_DIR |-> "plugin_dir",
   MYSQL_DEFAULT_AUTH |-> "default_auth", MYSQL_OPT_SSL_CRL |-> "ssl_crl",
   MYSQL_OPT_SSL_CRLPATH |-> "ssl_crlpath", MARIADB_OPT_CONNECTION_HANDLER |-> "connection_handler",
   MARIADB_OPT_TLS_PASSPHRASE |-> "tls_pw", MARIADB_OPT_TLS_VERSION |-> "tls_version"]
Fingerprint ==
  [MARIADB_OPT_SSL_FP |-> "tls_fp", MARIADB_OPT_TLS_PEER_FP |-> "tls_fp",
   MARIADB_OPT_SSL_FP_LIST |-> "tls_fp_list", MARIADB_OPT_TLS_PEER_FP_LIST |-> "tls_fp_list"]
ExtNumOption ==
  [MYSQL_PROGRESS_CALLBACK |-> "report_progress", MARIADB_OPT_TLS_CIPHER_STRENGTH |-> "tls_cipher_strength",
   MARIADB_OPT_CONNECTION_READ_ONLY |-> "read_only", MARIADB_OPT_IO_WAIT |-> "io_wait"]
(* Bits of client_flag that follow the argument, and ones only raised      *)
SwitchFlag ==
  [MYSQL_OPT_LOCAL_INFILE |-> "LOCAL_FILES", MYSQL_OPT_CAN_HANDLE_EXPIRED_PASSWORDS |-> "EXPIRED_PASSWORDS",
   MYSQL_OPT_SSL_VERIFY_SERVER_CERT |-> "SSL_VERIFY_SERVER_CERT"]
RaisedFlag ==
  [MARIADB_OPT_FOUND_ROWS |-> {"FOUND_ROWS"}, MARIADB_OPT_INTERACTIVE |-> {"INTERACTIVE"},
   MARIADB_OPT_MULTI_RESULTS |-> {"MULTI_RESULTS"},
   MARIADB_OPT_MULTI_STATEMENTS |-> {"MULTI_STATEMENTS", "MULTI_RESULTS"}]
OptField == NumOption @@ StrOption @@ ExtStrOption @@ Fingerprint @@ ExtNumOption

(* LOCAL_INFILE also says whether a file is accepted at any time or only   *)
(* while a LOAD DATA query waits for it (LOCAL_INFILE_MODE_AUTO is 2).     *)
(* One key of the user data stands for all.                                *)
OptionSet_ClearAll(o, option, v) ==
  CASE option \in DOMAIN Fingerprint -> [o EXCEPT !.val[Fingerprint[option]] = v, !.val["use_ssl"] = 1]
    [] option \in DOMAIN OptField \ DOMAIN Fingerprint -> [o EXCEPT !.val[OptField[option]] = v]
    [] option \in DOMAIN SwitchFlag -> [o EXCEPT !.flag = IF v # 0 THEN @ \cup {SwitchFlag[option]} ELSE {}]
    [] OTHER -> o
OptionSet(o, option, v) ==
  CASE option \in DOMAIN Fingerprint -> [o EXCEPT !.val[Fingerprint[option]] = v, !.val["use_ssl"] = 1]
    [] option \in DOMAIN OptField \ DOMAIN Fingerprint -> [o EXCEPT !.val[OptField[option]] = v]
    [] option \in DOMAIN SwitchFlag ->
         [o EXCEPT !.flag = IF v # 0 THEN @ \cup {SwitchFlag[option]} ELSE @ \ {SwitchFlag[option]},
                   !.val["auto_local_infile"] =
                      IF option # "MYSQL_OPT_LOCAL_INFILE" THEN @ ELSE IF v = 2 THEN "wait_for_query" ELSE "always"]
    [] option \in DOMAIN RaisedFlag -> [o EXCEPT !.flag = @ \cup RaisedFlag[option]]
    [] option = "MYSQL_OPT_COMPRESS" -> [o EXCEPT !.val["compress"] = 1, !.flag = @ \cup {"COMPRESS"}]
    [] option = "MYSQL_OPT_NAMED_PIPE" -> [o EXCEPT !.val["named_pipe"] = 1]
    [] option = "MYSQL_INIT_COMMAND" -> [o EXCEPT !.init = Append(@, v)]
    [] option = "MARIADB_OPT_USERDATA" -> IF v = 0 THEN o ELSE [o EXCEPT !.val["userdata"] = v]
    [] OTHER -> o

(***************************************************************************)
(* mysql_get_optionv: the fields it looks in                               *)
(***************************************************************************)
(* The options it knows are those above less the ones without a case of    *)
(* their own; MYSQL_OPT_SSL_CRL reads ssl_cipher, MYSQL_SET_CHARSET_DIR    *)
(* reads nothing.                                                          *)
NotReadable ==
  {"MARIADB_OPT_PORT", "MARIADB_OPT_UNIXSOCKET", "MARIADB_OPT_USER", "OB_OPT_PROXY_USER", "MARIADB_OPT_HOST",
   "MARIADB_OPT_SCHEMA", "MARIADB_OPT_PASSWORD", "OB_OPT_CLOSE_ATTR_OBCLIENT_NAME",
   "OB_OPT_CLOSE_ATTR_OBCLIENT_IP", "MARIADB_OPT_TLS_VERSION"}
ReadFrom ==
  [option \in DOMAIN OptField \ NotReadable |->
     IF option = "MYSQL_OPT_SSL_CRL" THEN "ssl_cipher" ELSE OptField[option]]
OptionGet(o, option) ==
  CASE option = "MYSQL_SET_CHARSET_DIR" -> 0
    [] option \in DOMAIN ReadFrom /\ option # "MYSQL_SET_CHARSET_DIR" -> o.val[ReadFrom[option]]
    [] option \in DOMAIN SwitchFlag -> IF SwitchFlag[option] \in o.flag THEN 1 ELSE 0
    [] option = "MYSQL_OPT_COMPRESS" -> o.val["compress"]
    [] option = "MYSQL_OPT_NAMED_PIPE" -> o.val["named_pipe"]
    [] option = "MYSQL_INIT_COMMAND" -> Len(o.init)
    [] option = "MARIADB_OPT_USERDATA" -> o.val["userdata"]
    [] OTHER -> "not implemented"

(***************************************************************************)
(* mysql_close_options                                                     *)
(***************************************************************************)
OwnedStrings == Range(StrOption) \cup Range(ExtStrOption) \cup Range(Fingerprint)
(* server_public_key is not among the pointers it frees                    *)
FreedStrings == OwnedStrings \ {"server_public_key"}
OptFields == Range(OptField) \cup {"compress", "named_pipe", "userdata"}
NoOptions == [val |-> [f \in OptFields |-> 0] @@ [auto_local_infile |-> "never"], flag |-> {}, init |-> <<>>,
              last |-> <<"none", 0>>, calls |-> 0, leaked |-> {}]
OptionsClosed(o) ==
  [NoOptions EXCEPT !.calls = o.calls, !.leaked = {f \in OwnedStrings \ FreedStrings : o.val[f] # 0}]

(***************************************************************************)
(* _mariadb_set_conf_option: mariadb_defaults gives each key of an option  *)
(* file its option and the type its text is turned into.  The key          *)
(* disable-local-infile, and an init-command without text, pass a null     *)
(* pointer that is followed: they are left out.                            *)
(***************************************************************************)
NoText == -1
ConfKey ==
  [compress |-> <<"MYSQL_OPT_COMPRESS", "bool">>, pipe |-> <<"MYSQL_OPT_NAMED_PIPE", "bool">>,
   reconnect |-> <<"MYSQL_OPT_RECONNECT", "bool">>, secure_auth |-> <<"MYSQL_SECURE_AUTH", "bool">>,
   local_infile |-> <<"MYSQL_OPT_LOCAL_INFILE", "bool">>, timeout |-> <<"MYSQL_OPT_CONNECT_TIMEOUT", "int">>,
   ssl_verify_server_cert |-> <<"MYSQL_OPT_SSL_VERIFY_SERVER_CERT", "bool">>,
   ssl_enforce |-> <<"MYSQL_OPT_SSL_ENFORCE", "bool">>, ssl_fp |-> <<"MARIADB_OPT_SSL_FP", "str">>,
   port |-> <<"MARIADB_OPT_PORT", "int">>, user |-> <<"MARIADB_OPT_USER", "str">>,
   ssl_crl |-> <<"MYSQL_OPT_SSL_CRL", "str">>, max_allowed_packet |-> <<"MYSQL_OPT_MAX_ALLOWED_PACKET", "sizet">>,
   return_found_rows |-> <<"MARIADB_OPT_FOUND_ROWS", "none">>, multi_results |-> <<"MARIADB_OPT_MULTI_RESULTS", "none">>,
   multi_queries |-> <<"MARIADB_OPT_MULTI_STATEMENTS", "str">>]
(* A missing text is zero or a null pointer.  MYSQL_OPT_LOCAL_INFILE reads *)
(* four bytes where the table's type gives one: the others are what the    *)
(* stack holds, and any of them but zero makes another number.             *)
ConfValues(key, text) ==
  LET v == IF text = NoText THEN 0 ELSE text
  IN IF ConfKey[key][1] = "MYSQL_OPT_LOCAL_INFILE" THEN {v, 3} ELSE {v}

OptSet(option, v) ==
  /\ opts.calls < OptCalls
  /\ opts' = [OptionSet(opts, option, v) EXCEPT !.last = <<option, v>>, !.calls = @ + 1]
OptConf(key, text) == \E v \in ConfValues(key, text) : OptSet(ConfKey[key][1], v)
(* mysql_ssl_set, as is_force_use_ssl makes mysql_real_connect call it     *)
OptSslSet(key, ca) ==
  LET enforced == OptionSet(opts, "MYSQL_OPT_SSL_ENFORCE", 1)
      keyed == OptionSet(OptionSet(enforced, "MYSQL_OPT_SSL_KEY", key), "MYSQL_OPT_SSL_CA", ca)
      done == FoldFunction(LAMBDA option, o : OptionSet(o, option, 0), keyed,
                           <<"MYSQL_OPT_SSL_CERT", "MYSQL_OPT_SSL_CAPATH", "MYSQL_OPT_SSL_CIPHER">>)
  IN opts.calls < OptCalls /\ opts' = [done EXCEPT !.last = <<"ssl", key>>, !.calls = @ + 1]
OptClose == opts.last[1] # "none" /\ opts' = OptionsClosed(opts)

OptInit == opts = NoOptions
OptNext ==
  \/ \E option \in DOMAIN OptField \cup DOMAIN SwitchFlag, v \in OptValues : OptSet(option, v)
  \/ \E option \in DOMAIN RaisedFlag \cup {"MYSQL_OPT_COMPRESS", "MYSQL_OPT_NAMED_PIPE"} : OptSet(option, 0)
  \/ \E option \in {"MYSQL_INIT_COMMAND", "MARIADB_OPT_USERDATA"}, v \in OptValues \ {0} : OptSet(option, v)
  \/ \E key \in DOMAIN ConfKey, text \in OptValues \cup {NoText} : OptConf(key, text)
  \/ \E key \in OptValues, ca \in OptValues : OptSslSet(key, ca)
  \/ OptClose

(* The options mysql_get_optionv can read back, and those set together.    *)
Readable == (DOMAIN ReadFrom \cup DOMAIN SwitchFlag \cup {"MYSQL_OPT_COMPRESS", "MYSQL_OPT_NAMED_PIPE",
                                                              "MYSQL_INIT_COMMAND", "MARIADB_OPT_USERDATA"})
            \ {"MYSQL_OPT_SSL_CRL", "MYSQL_SET_CHARSET_DIR"}
Tied(option) ==
  {option} \cup (IF option \in DOMAIN Fingerprint
                 THEN {p \in DOMAIN Fingerprint : Fingerprint[p] = Fingerprint[option]} \cup {"MYSQL_OPT_SSL_ENFORCE"} ELSE {})
(* What mysql_get_optionv reads is what was set last, and setting an       *)
(* option leaves every other one as it was, but for the pairs the code     *)
(* ties together: a fingerprint turns TLS on, and both names of a          *)
(* fingerprint are one option.  MYSQL_OPT_SSL_CRL reads another field.     *)
OptionReadBack ==
  [][opts'.calls = opts.calls + 1 /\ opts'.last[1] # "ssl" =>
       LET option == opts'.last[1]
           v == opts'.last[2]
       IN /\ \A p \in Readable \ Tied(option) : OptionGet(opts', p) = OptionGet(opts, p)
          /\ option \in Readable \ {"MYSQL_INIT_COMMAND"} =>
               OptionGet(opts', option) =
                 (IF option \in DOMAIN SwitchFlag THEN IF v = 0 THEN 0 ELSE 1
                  ELSE IF option \in DOMAIN ReadFrom \cup {"MARIADB_OPT_USERDATA"} THEN v ELSE 1)]_opts

(* mysql_close_options frees every string the options own, except the name *)
(* of the server's public key.                                             *)
CloseReleases == opts.leaked \subseteq {"server_public_key"}

(***************************************************************************)
(* The connection attributes (mariadb_lib.c): the application adds and     *)
(* deletes some, every login replaces the library's own, and the length    *)
(* that announces them to the server is kept beside them.  They belong to  *)
(* the options, so they outlive a connection and pass to the next one.     *)
(***************************************************************************)
CONSTANTS AttrKeys, AttrLens,   \* each key's length, the lengths of values tried
          AttrLimit, AttrMost   \* 0xFFFF in the code; attributes in a behaviour
VARIABLES attrs   \* hash: the bag of attributes, len: connect_attrs_len,
                  \* sent: what the last login announced and wrote

(* get_store_length: the bytes mysql_net_store_length needs for a length   *)
AttrStoreLength(n) == IF n < 251 THEN 1 ELSE IF n < 65536 THEN 3 ELSE 4
AttrStorage(key, vlen) == AttrKeys[key] + vlen + AttrStoreLength(AttrKeys[key]) + AttrStoreLength(vlen)
(* fresh: added since the last login began                                 *)
Attr(key, vlen) == [key |-> key, vlen |-> vlen, fresh |-> TRUE]

(* MYSQL_OPT_CONNECT_ATTR_ADD; the key may be there already                *)
AttrAdd(a, key, vlen) ==
  IF vlen = 0 \/ AttrStorage(key, vlen) + a.len > AttrLimit THEN a
  ELSE [a EXCEPT !.hash = BagAdd(@, Attr(key, vlen)), !.len = @ + AttrStorage(key, vlen)]
(* MYSQL_OPT_CONNECT_ATTR_DELETE takes one attribute of the key away.      *)
AttrDelete(a, key) ==
  LET at == {x \in DOMAIN a.hash : x.key = key}
  IN IF at = {} THEN {a}
     ELSE {[a EXCEPT !.hash = BagRemove(@, x), !.len = @ - AttrStorage(key, x.vlen)] : x \in at}
(* MYSQL_OPT_CONNECT_ATTR_RESET                                            *)
AttrReset(a) == [a EXCEPT !.hash = EmptyBag, !.len = 0]
AttrDeleteAll(a, keys) == FoldSeq(LAMBDA key, as : UNION {AttrDelete(b, key) : b \in as}, {a}, keys)
AttrAddAll(a, pairs) == FoldLeft(LAMBDA b, p : AttrAdd(b, p[1], p[2]), a, pairs)

(* ma_set_connect_attrs, when the connection is asked for; the names are a *)
(* choice of those in the code, _server_host only when there is a host     *)
SetConnectAttrs(a, host) ==
  {AttrAddAll(b, (IF host = 0 THEN <<>> ELSE <<<<"_server_host", host>>>>) \o <<<<"_pid", 5>>>>) :
     b \in AttrDeleteAll(a, <<"_server_host", "_pid">>)}
(* ma_set_ob_connect_attrs adds without deleting.                          *)
SetObConnectAttrs(a, proxyUser) ==
  AttrAddAll(a, <<<<"__ob_capability_flag", 8>>>> \o (IF proxyUser = 0 THEN <<>> ELSE <<<<"__proxy_user", proxyUser>>>>))
(* ma_set_connect_attrs_extend, once the socket has an address             *)
SetConnectAttrsExtend(a, port, closeIp, proxyUser) ==
  {SetObConnectAttrs(IF closeIp THEN b ELSE AttrAddAll(b, <<<<"__client_port", port>>>>), proxyUser) :
     b \in AttrDeleteAll(a, <<"__client_port">>)}
(* ma_send_connect_attr: the announced length, then each key and value     *)
(* after its own length                                                    *)
AttrBytes(a) == FoldFunction(+, 0, [x \in DOMAIN a.hash |-> a.hash[x] * AttrStorage(x.key, x.vlen)])
SendConnectAttr(a) == [a EXCEPT !.sent = [announced |-> a.len, written |-> AttrBytes(a)]]

Stale(a) ==
  LET old(x) == [x EXCEPT !.fresh = FALSE]
  IN [a EXCEPT !.hash = [x \in {old(y) : y \in DOMAIN a.hash} |->
                           FoldFunctionOnSet(+, 0, a.hash, {y \in DOMAIN a.hash : old(y) = x})]]
AttrLogin(host, port, closeIp, proxyUser) ==
  \E a \in SetConnectAttrs(Stale(attrs), host) :
    \E b \in SetConnectAttrsExtend(a, port, closeIp, proxyUser) : attrs' = SendConnectAttr(b)

AttrInit == attrs = [hash |-> EmptyBag, len |-> 0, sent |-> [announced |-> 0, written |-> 0]]
AttrRoom == BagCardinality(attrs.hash) < AttrMost
AttrNext ==
  \/ \E key \in {"app", "_pid"}, vlen \in AttrLens : AttrRoom /\ attrs' = AttrAdd(attrs, key, vlen)
  \/ \E key \in {"app", "_pid"} : attrs' \in AttrDelete(attrs, key) \ {attrs}
  \/ attrs.hash # EmptyBag /\ attrs' = AttrReset(attrs)
  \/ \E host \in {0, 9}, port \in {4, 5}, closeIp \in BOOLEAN, proxyUser \in {0, 250} :
       AttrRoom /\ AttrLogin(host, port, closeIp, proxyUser)

(* connect_attrs_len is the length of the attributes as they are written,  *)
(* through additions of a key that is already there, deletions and resets, *)
(* and never passes its limit: the login announces exactly what follows.   *)
AttrsAnnounced ==
  /\ attrs.len = AttrBytes(attrs) /\ attrs.len <= AttrLimit
  /\ attrs.sent.announced = attrs.sent.written

(* A login sends the port of its own connection and never one of an        *)
(* earlier connection, although the attributes outlive them.               *)
AttrsFresh == \A x \in DOMAIN attrs.hash : x.key = "__client_port" => x.fresh
=============================================================================
