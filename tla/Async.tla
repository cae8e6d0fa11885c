------------------------------- MODULE Async -------------------------------
(* Input and output of one handle (ma_pvio.c, pvio_socket.c, ma_tls.c), and  *)
(* the non-blocking calls built on it (mariadb_async.c, ma_context.c): a     *)
(* call runs as a coroutine that is suspended where it would wait, and the   *)
(* application polls the socket and continues it.  The steps of the library, *)
(* of the application, of the network and of the server interleave.          *)
EXTENDS Integers, Sequences, SequencesExt, FiniteSets

CONSTANTS
  Addresses,    \* number of addresses the host name resolves to
  Options,      \* option sets: [limit, tls, reconnect |-> timeouts are set, TLS, MYSQL_OPT_RECONNECT]
  MessageSize,  \* bytes of a message of the client
  PacketSizes,  \* bytes of the body of a packet of the server
  CacheSize,    \* PVIO_READ_AHEAD_CACHE_SIZE
  CacheMin,     \* PVIO_READ_AHEAD_CACHE_MIN_SIZE
  Room,         \* bytes the kernel takes before send would block
  Styles,       \* "async" and "block": which kind of calls are used
  MaxCalls      \* bound on the calls of the application

(* Objects in memory: at most one is open, async_context may name another.   *)
Pvios == 1..3

ASSUME AsyncAssumption ==
  {Addresses, MessageSize, CacheSize, CacheMin, Room, MaxCalls} \cup PacketSizes \subseteq Nat \ {0}

VARIABLES
  m,      \* MYSQL: its pvio, the async context and its hook
  pv,     \* the MARIADB_PVIO objects, each with its socket and what is behind it
  op,     \* the call that runs, and where it is
  got,    \* the packet that was read last, and what it should be
  calls

vars == <<m, pv, op, got, calls>>

NoOp == [kind |-> "none", async |-> FALSE, todo |-> <<>>, wait |-> "none", p |-> 0, tmp |-> 0,
         addr |-> 0, left |-> 0, need |-> 0, acc |-> <<>>, retried |-> FALSE, recon |-> FALSE,
         kernel |-> FALSE]

NoPvio == [st |-> "freed", mode |-> TRUE, sock |-> "none", blocking |-> TRUE, tls |-> FALSE,
           cache |-> <<>>, in |-> <<>>, eof |-> FALSE, req |-> 0, idx |-> 0, more |-> FALSE,
           flight |-> <<>>, room |-> Room, taken |-> 0, reqs |-> 0]

NoPacket == [read |-> <<>>, want |-> <<>>]

Init ==
  /\ \E o \in Options :
       m = [pvio |-> 0, ctxpvio |-> 0, context |-> FALSE, hook |-> FALSE, active |-> FALSE,
            suspended |-> FALSE, wait |-> {}, reconnect |-> o.reconnect, limit |-> o.limit, tls |-> o.tls,
            open |-> TRUE, host |-> FALSE]
  /\ pv = [p \in Pvios |-> NoPvio]
  /\ op = NoOp
  /\ got = NoPacket /\ calls = 0

---------------------------------------------------------------------------
(* The library.  An operator takes and gives the state l = [m, pv, op].      *)

Lib == [m |-> m, pv |-> pv, op |-> op]
Becomes(l) == m' = l.m /\ pv' = l.pv /\ op' = l.op

(* ma_pvio_close.                                                            *)
Freed(l, p) == IF p = 0 THEN l ELSE [l EXCEPT !.pv[p] = NoPvio]

EndServer(l) == [Freed(l, l.m.pvio) EXCEPT !.m.pvio = 0]

(* The call returns, and with it the coroutine: b->active and b->suspended.  *)
Return(l) ==
  LET done == [l EXCEPT !.op = NoOp, !.m.active = FALSE, !.m.suspended = FALSE, !.m.wait = {}]
  IN IF l.op.kind = "close" THEN [done EXCEPT !.m.open = FALSE, !.m.context = FALSE, !.m.ctxpvio = 0]
     ELSE done

(* A connection: greeting, TLS, authentication; mariadb_reconnect also sets  *)
(* the character set.                                                        *)
Handshake == <<"connect", "read">> \o (IF m.tls THEN <<"tls">> ELSE <<>>) \o <<"write", "read">>
Reconnection == Handshake \o <<"write", "read", "promote">>

(* The script of a call.                                                     *)
Script(kind) ==
  CASE kind = "connect" -> Append(Handshake, "promote")
    [] kind = "query" -> <<"write", "read">>
    [] kind = "send" -> <<"write">>
    [] kind = "fetch" -> <<"read">>
    [] kind = "store" -> <<"drain">>
    [] kind = "close" -> <<"write">>

Connecting(l) == Contains(l.op.todo, "promote")

(* mariadb_reconnect installs a hook that shows the new pvio to the          *)
(* application while the call is suspended.                                  *)
TryReconnect(l, rest) ==
  IF ~l.m.reconnect \/ ~l.m.host \/ l.op.kind = "close" THEN Return(l)
  ELSE [l EXCEPT !.op.todo = Reconnection \o rest, !.op.recon = TRUE, !.op.addr = 0,
                 !.m.hook = l.op.async]

(* What a failed read or write does to the call.                             *)
Failed_Open(l, item) ==
  IF item = "read" /\ ~Connecting(l) THEN Return(l)
  ELSE Return([EndServer(Freed(l, l.op.p)) EXCEPT !.m.hook = FALSE])
Failed_NotFreed(l, item) ==
  IF item = "read" \/ Connecting(l) THEN Return([l EXCEPT !.m.pvio = 0, !.m.hook = FALSE])
  ELSE Return(EndServer(l))
Failed(l0, item) ==
  LET l == [l0 EXCEPT !.op.wait = "none", !.op.kernel = FALSE]
  IN CASE Connecting(l) -> Return([Freed(l, l.op.p) EXCEPT !.m.hook = FALSE, !.op.tmp = 0,
                                     !.m.pvio = IF l.op.recon THEN @ ELSE 0])
       [] ~Connecting(l) /\ item = "write" /\ l.op.kind = "close" -> Return(EndServer(l))
       [] ~Connecting(l) /\ item = "write" /\ l.op.kind # "close" ->
            IF l.op.retried THEN Return(l)
            ELSE TryReconnect([EndServer(l) EXCEPT !.op.retried = TRUE], Script(l.op.kind))
       [] ~Connecting(l) /\ item = "read" -> Return(EndServer(l))

(* Where a call would wait: a non-blocking one gives control back to the     *)
(* application, with the hook if there is one; a blocking one polls.  TLS    *)
(* does not ask for a timeout.                                               *)
Events_Read(l, wait) == {"READ"} \cup (IF l.m.limit THEN {"TIMEOUT"} ELSE {})
Events(l, wait) ==
  (IF wait = "read" THEN {"READ"} ELSE {"WRITE"})
    \cup (IF l.m.limit /\ (wait = "connect" \/ ~l.pv[l.op.p].tls) THEN {"TIMEOUT"} ELSE {})

HookOn(l) == IF l.m.hook THEN [l EXCEPT !.m.pvio = l.op.tmp] ELSE l
HookOff(l) == IF l.m.hook THEN [l EXCEPT !.m.pvio = 0] ELSE l

Wait(l0, wait) ==
  LET l == [l0 EXCEPT !.op.wait = wait]
  IN IF l.op.async
     THEN HookOn([l EXCEPT !.m.active = FALSE, !.m.suspended = TRUE, !.m.wait = Events(l, wait)])
     ELSE l

(* pvio_socket_blocking: fcntl is called when the remembered mode differs.   *)
Blocking_Inverted(l, p, block) ==
  IF l.pv[p].mode # block THEN l ELSE [l EXCEPT !.pv[p].mode = block, !.pv[p].blocking = block]
Blocking(l, p, block) ==
  IF l.pv[p].mode = block THEN l ELSE [l EXCEPT !.pv[p].mode = block, !.pv[p].blocking = block]

(* After connect: the socket blocks again, and ma_net_init.                  *)
Connected(l) ==
  LET set == [Blocking(l, l.op.p, TRUE) EXCEPT !.op.todo = Tail(@)]
  IN IF l.op.recon THEN [set EXCEPT !.op.tmp = l.op.p] ELSE [set EXCEPT !.m.pvio = l.op.p]

---------------------------------------------------------------------------
(* Calls of the application.                                                 *)

Idle == op.kind = "none" /\ m.open /\ calls < MaxCalls

(* A call starts: FOO_start with a coroutine, or FOO itself.  A command      *)
(* without a connection begins with mariadb_reconnect.                       *)
Start(kind, async) ==
  LET begun == [Lib EXCEPT !.op = [NoOp EXCEPT !.kind = kind, !.async = async, !.p = m.pvio,
                                               !.todo = Script(kind)],
                           !.m.active = async]
  IN /\ (IF async THEN "async" ELSE "block") \in Styles
     /\ async => m.context
     /\ Becomes(IF kind \in {"query", "send"} /\ m.pvio = 0 THEN TryReconnect(begun, Script(kind))
                ELSE begun)
     /\ calls' = calls + 1
     /\ UNCHANGED got

StartConnect(async) == m.pvio = 0 /\ ~m.host /\ Start("connect", async)

(* The commands: a message and its answer, or, mysql_send_query, the message.*)
AdminCalls == {"mysql_change_user", "mysql_query", "mysql_shutdown", "mysql_dump_debug_info"}
ServerCalls == {"mysql_refresh", "mysql_kill", "mysql_set_server_option", "mysql_ping"}
ListCalls == {"mysql_reset_connection", "mysql_stat", "mysql_list_dbs", "mysql_list_tables",
              "mysql_list_processes", "mysql_list_fields"}
TransactionCalls == {"mysql_commit", "mysql_rollback", "mysql_autocommit"}
StmtCalls == {"mysql_stmt_prepare", "mysql_stmt_execute", "mysql_stmt_reset"}
QueryCalls == {"mysql_real_query", "mysql_set_character_set", "mysql_select_db"}
                \cup AdminCalls \cup ServerCalls \cup ListCalls \cup TransactionCalls \cup StmtCalls

(* The calls that read: the next packet of a result, or all that is left.    *)
FetchCalls == {"mysql_fetch_row", "mysql_read_query_result", "mysql_next_result", "mysql_stmt_fetch",
               "mysql_stmt_next_result"}
StoreCalls == {"mysql_store_result", "mysql_free_result", "mysql_stmt_store_result",
               "mysql_stmt_free_result"}

Kind(call) ==
  CASE call \in QueryCalls -> "query"
    [] call = "mysql_send_query" -> "send"
    [] call \in FetchCalls -> "fetch"
    [] call \in StoreCalls -> "store"

StartCommand(call, async) ==
  /\ m.host /\ (m.pvio # 0 => ~pv[m.pvio].more)
  /\ Start(Kind(call), async)

(* mysql_fetch_row and the statement calls: without a connection behind the  *)
(* result they cannot wait, and FOO_start calls FOO directly.                *)
StartRead(call, async) ==
  /\ m.pvio # 0 /\ pv[m.pvio].more
  /\ Start(Kind(call), async)

(* mysql_close_start runs mysql_close_slow_part as a coroutine if there is a *)
(* connection; the rest of mysql_close follows in Return.                    *)
StartClose(async) == m.pvio # 0 /\ Start("close", async)

CloseDirect ==
  /\ Idle /\ m.pvio = 0
  /\ m' = [m EXCEPT !.open = FALSE, !.context = FALSE, !.ctxpvio = 0]
  /\ UNCHANGED <<pv, op, got, calls>>

(* mysql_options(MYSQL_OPT_NONBLOCK): refused while a call is suspended.     *)
SetNonblock ==
  /\ "async" \in Styles /\ m.open /\ ~m.suspended /\ op.kind = "none"
  /\ m' = [m EXCEPT !.context = TRUE, !.ctxpvio = 0]
  /\ UNCHANGED <<pv, op, got, calls>>

(* mysql_get_socket: the connection of the pvio it gives.                    *)
GetSocket == IF m.pvio # 0 THEN m.pvio ELSE IF m.context THEN m.ctxpvio ELSE 0

Ready(p) ==
  (IF pv[p].in # <<>> \/ pv[p].eof THEN {"READ"} ELSE {})
    \cup (IF pv[p].sock \in {"connected", "refused"} /\ pv[p].room > 0 THEN {"WRITE"} ELSE {})

(* The call goes on after a wait: with a timeout the operation fails.        *)
Resume(l, timeout) ==
  LET wait == l.op.wait
      on == [l EXCEPT !.op.wait = "none", !.op.kernel = FALSE]
      p == l.op.p
  IN CASE wait = "connect" /\ (timeout \/ l.pv[p].sock # "connected") -> on
       [] wait = "connect" /\ ~timeout /\ l.pv[p].sock = "connected" -> Connected(on)
       [] wait = "tls" -> IF timeout THEN Failed(on, "tls")
                          ELSE [on EXCEPT !.op.todo = Tail(@), !.pv[p].tls = TRUE]
       [] wait \in {"read", "write"} -> IF timeout THEN Failed(on, wait) ELSE on

(* The application continues a suspended call with the events that poll has  *)
(* reported; b->events_occured with a timeout counts as a timeout.           *)
Cont ==
  /\ m.suspended /\ ~m.active
  /\ LET socket == GetSocket
         possible == (IF socket = 0 THEN {} ELSE Ready(socket)) \cup {"TIMEOUT"}
     IN \E occured \in SUBSET (possible \cap m.wait) :
          /\ occured # {}
          /\ Becomes(Resume(HookOff([Lib EXCEPT !.m.active = TRUE, !.m.wait = {}]),
                            "TIMEOUT" \in occured))
  /\ UNCHANGED <<got, calls>>

(* poll in a blocking call: pvio_socket_wait_io_or_timeout.                  *)
Poll ==
  /\ ~op.async /\ op.wait # "none" /\ ~op.kernel
  /\ \E timeout \in BOOLEAN :
       /\ IF timeout THEN m.limit
          ELSE Ready(op.p) \cap (IF op.wait = "read" THEN {"READ"} ELSE {"WRITE"}) # {}
       /\ Becomes(Resume(Lib, timeout))
  /\ UNCHANGED <<got, calls>>

(* A system call on a socket that the kernel has in blocking mode returns.   *)
KernelReturns ==
  /\ op.kernel
  /\ \E timeout \in BOOLEAN :
       /\ CASE op.wait = "connect" -> pv[op.p].sock # "connecting" /\ ~timeout
            [] op.wait = "tls" -> TRUE
            [] op.wait = "read" -> "READ" \in Ready(op.p) /\ ~timeout
            [] op.wait = "write" -> "WRITE" \in Ready(op.p) /\ ~timeout
       /\ Becomes(Resume(Lib, timeout))
  /\ UNCHANGED <<got, calls>>

---------------------------------------------------------------------------
(* The steps of a running call.                                              *)

Running(item) == op.kind # "none" /\ op.wait = "none" /\ op.todo # <<>> /\ Head(op.todo) = item

(* pvio_socket_connect: ma_pvio_init and a socket for the next address; when *)
(* there is none left, the call fails.  The new socket is in blocking mode.  *)
NextAddress(l, p) ==
  [l EXCEPT !.op.addr = @ + 1, !.op.p = p,
            !.pv[p] = [NoPvio EXCEPT !.st = "live", !.sock = "connecting",
                                     !.mode = IF l.op.addr = 0 THEN TRUE ELSE l.pv[p].mode]]

NewPvio == CHOOSE p \in Pvios : pv[p].st = "freed" /\ p # m.ctxpvio

(* The application finds the pvio through async_context before the handle    *)
(* has it.                                                                   *)
ShowPvio(l, p) == IF l.op.async THEN [l EXCEPT !.m.ctxpvio = p] ELSE l

Connect ==
  /\ Running("connect")
  /\ LET p == IF op.addr = 0 THEN NewPvio ELSE op.p
         next == NextAddress(Lib, p)
         set == Blocking(ShowPvio(next, p), p, FALSE)
     IN IF op.addr = Addresses THEN Becomes(Failed(Lib, "connect"))
        ELSE IF set.pv[p].blocking
        THEN Becomes([set EXCEPT !.op.wait = "connect", !.op.kernel = TRUE])
        ELSE \/ Becomes(Wait(set, "connect"))
             \/ Becomes([set EXCEPT !.pv[p].sock = "refused"])
  /\ UNCHANGED <<got, calls>>

First(s, n) == SubSeq(s, 1, IF n < Len(s) THEN n ELSE Len(s))

(* ma_pvio_cache_read: bytes from the cache, or directly, or through it.     *)
CacheRead(p, length) ==
  LET rest == pv[p].cache
      n == IF length >= CacheMin THEN length ELSE CacheSize
      r == First(pv[p].in, n)
  IN IF rest # <<>>
     THEN [r |-> First(rest, length), cache |-> SubSeq(rest, length + 1, Len(rest)), in |-> pv[p].in]
     ELSE [r |-> First(r, length), cache |-> SubSeq(r, length + 1, Len(r)),
           in |-> SubSeq(pv[p].in, n + 1, Len(pv[p].in))]

(* A read finds nothing: it waits, in the kernel if TLS reads from a socket  *)
(* that blocks.                                                              *)
WouldBlock(l, wait) ==
  IF l.pv[l.op.p].tls /\ l.pv[l.op.p].blocking
  THEN [l EXCEPT !.op.wait = wait, !.op.kernel = TRUE]
  ELSE Wait(l, wait)

(* ma_net_read: the header of a packet, then its body.                       *)
Want(p) == <<pv[p].req, pv[p].idx + 1>>

PacketRead(l, packet) ==
  [l EXCEPT !.op.todo = IF Head(@) = "drain" /\ packet[1].more THEN @ ELSE Tail(@),
            !.op.acc = <<>>, !.op.need = 0,
            !.pv[l.op.p].idx = @ + 1, !.pv[l.op.p].more = packet[1].more]

Read ==
  /\ Running("read") \/ Running("drain")
  /\ LET p == op.p
         length == IF op.acc = <<>> THEN 1 ELSE op.need
         c == CacheRead(p, length)
         acc == op.acc \o c.r
         need == IF op.acc = <<>> /\ c.r # <<>> THEN acc[1].size ELSE length - Len(c.r)
         read == [Lib EXCEPT !.pv[p].cache = c.cache, !.pv[p].in = c.in,
                             !.op.acc = acc, !.op.need = need]
     IN IF c.r = <<>>
        THEN Becomes(IF pv[p].eof THEN Failed(Lib, "read") ELSE WouldBlock(Lib, "read")) /\ UNCHANGED got
        ELSE IF need = 0
        THEN /\ Becomes(PacketRead(read, acc))
             /\ got' = [read |-> acc, want |-> Want(p)]
        ELSE Becomes(read) /\ UNCHANGED got
  /\ UNCHANGED calls

(* ma_net_real_write: send takes some bytes until all are written.           *)
Written(l) ==
  [l EXCEPT !.op.left = 0, !.op.todo = Tail(@), !.pv[l.op.p].req = @ + 1, !.pv[l.op.p].idx = 0,
            !.pv[l.op.p].more = l.op.kind = "send" /\ ~Connecting(l)]

Write ==
  /\ Running("write")
  /\ LET p == op.p
         left == IF op.left = 0 THEN MessageSize ELSE op.left
         Sent(n) == [Lib EXCEPT !.op.left = left - n, !.pv[p].room = @ - n, !.pv[p].taken = @ + n]
     IN IF pv[p].eof THEN Becomes(Failed([Lib EXCEPT !.op.left = 0], "write"))
        ELSE IF pv[p].room = 0 THEN Becomes(WouldBlock([Lib EXCEPT !.op.left = left], "write"))
        ELSE \E n \in 1..pv[p].room :
               n <= left /\ Becomes(IF n = left THEN Written(Sent(n)) ELSE Sent(n))
  /\ UNCHANGED <<got, calls>>

(* The request for TLS and ma_tls_connect: the handshake waits in the kernel *)
(* or polls the socket itself, also in a coroutine.                          *)
Tls ==
  /\ Running("tls")
  /\ Becomes([Lib EXCEPT !.op.wait = "tls", !.op.kernel = TRUE])
  /\ UNCHANGED <<got, calls>>

(* mysql_real_connect, or mariadb_reconnect, is done.                        *)
Promote ==
  /\ Running("promote")
  /\ Becomes([Lib EXCEPT !.op.todo = Tail(@), !.op.recon = FALSE, !.op.tmp = 0, !.op.addr = 0,
                         !.m.pvio = op.p, !.m.hook = FALSE, !.m.host = TRUE])
  /\ UNCHANGED <<got, calls>>

Done ==
  /\ op.kind # "none" /\ op.wait = "none" /\ op.todo = <<>>
  /\ Becomes(Return(IF op.kind = "close" THEN EndServer(Lib) ELSE Lib))
  /\ got' = NoPacket /\ UNCHANGED calls
---------------------------------------------------------------------------
(* The network and the server (external).                                    *)

Packet(tag, size, more) ==
  [k \in 1..(size + 1) |-> [tag |-> tag, k |-> k - 1, size |-> size, more |-> more]]

NetConnects ==
  \E p \in Pvios, size \in PacketSizes :
    /\ pv[p].sock = "connecting"
    /\ \/ pv' = [pv EXCEPT ![p].sock = "connected", ![p].flight = Packet(<<0, 1>>, size, FALSE)]
       \/ pv' = [pv EXCEPT ![p].sock = "refused"]
    /\ UNCHANGED <<m, op, got, calls>>

Arrives ==
  \E p \in Pvios :
    /\ pv[p].flight # <<>>
    /\ \E n \in {1, Len(pv[p].flight)} :
         pv' = [pv EXCEPT ![p].in = @ \o First(pv[p].flight, n),
                          ![p].flight = SubSeq(@, n + 1, Len(@))]
    /\ UNCHANGED <<m, op, got, calls>>

(* The server takes bytes; when it has a whole message it answers, a query   *)
(* with one packet or with two.                                              *)
Answers(req, many) ==
  {FlattenSeq([i \in 1..n |-> Packet(<<req, i>>, size, i < n)]) :
     n \in IF many THEN {1, 2} ELSE {1}, size \in PacketSizes}

ServerTakes ==
  \E p \in Pvios :
    /\ pv[p].sock = "connected" /\ pv[p].room < Room
    /\ IF pv[p].taken < MessageSize THEN pv' = [pv EXCEPT ![p].room = Room]
       ELSE \E answer \in Answers(pv[p].reqs + 1, ~Connecting(Lib)) :
              pv' = [pv EXCEPT ![p].flight = @ \o answer, ![p].room = Room, ![p].taken = 0,
                               ![p].reqs = @ + 1]
    /\ UNCHANGED <<m, op, got, calls>>

ServerCloses ==
  \E p \in Pvios :
    /\ pv[p].sock = "connected" /\ ~pv[p].eof
    /\ pv' = [pv EXCEPT ![p].eof = TRUE, ![p].flight = <<>>]
    /\ UNCHANGED <<m, op, got, calls>>

---------------------------------------------------------------------------
Step == Connect \/ Read \/ Write \/ Tls \/ Promote \/ Done
External == NetConnects \/ Arrives \/ ServerTakes

Calls(async) ==
  \/ StartConnect(async) \/ StartClose(async)
  \/ \E call \in QueryCalls \cup {"mysql_send_query"} : StartCommand(call, async)
  \/ \E call \in FetchCalls \cup StoreCalls : StartRead(call, async)

Next ==
  \/ Idle /\ \E async \in BOOLEAN : Calls(async)
  \/ CloseDirect \/ SetNonblock
  \/ Step \/ Cont \/ Poll \/ KernelReturns
  \/ External \/ ServerCloses

Spec == Init /\ [][Next]_vars

(* The library runs until it waits, poll and the application report what has *)
(* happened, and the server answers unless it closes the connection.         *)
FairSpec ==
  Spec /\ WF_vars(Step \/ Cont \/ Poll \/ KernelReturns) /\ WF_vars(External)

---------------------------------------------------------------------------
(* The handle, its virtual I/O and the suspended call are well formed.     *)
TypeOK ==
  /\ m.pvio \in {0} \cup Pvios /\ m.ctxpvio \in {0} \cup Pvios
  /\ m.wait \subseteq {"READ", "WRITE", "TIMEOUT"}
  /\ \A p \in Pvios : pv[p].st \in {"live", "freed"} /\ Len(pv[p].cache) < CacheSize
  /\ op.left \in 0..MessageSize

(* A packet that a call reads is the answer it waits for, whole: bytes are   *)
(* neither lost nor doubled between ma_pvio_cache_read, direct reads and     *)
(* suspensions, and an answer that comes after a timeout is given to no one. *)
OwnAnswer ==
  got.read # <<>> =>
    /\ Len(got.read) = got.read[1].size + 1
    /\ \A k \in DOMAIN got.read : got.read[k].tag = got.want /\ got.read[k].k = k - 1

(* While a call is suspended mysql_get_socket gives the socket it waits for, *)
(* also inside an automatic reconnection.                                    *)
PollsItsSocket == m.suspended /\ ~m.active => GetSocket = op.p /\ pv[op.p].st = "live"

(* A non-blocking call never waits inside a system call, except in TLS and,  *)
(* because of the mode pvio_socket_blocking remembers, when it connects to   *)
(* the second address of a host.                                             *)
NeverBlocks == op.async /\ op.kernel => m.tls \/ (op.wait = "connect" /\ op.addr > 1)

(* Whatever fails, a connection that is open belongs to the handle or to the *)
(* running call, and the handle's own one is open.                           *)
NoneLeaked ==
  /\ \A p \in Pvios : pv[p].st = "live" => p \in {m.pvio, op.p, op.tmp}
  /\ m.pvio # 0 => pv[m.pvio].st = "live"

(* A call that has started returns, whether events or timeouts continue it.  *)
CallReturns == op.kind # "none" ~> op.kind = "none"

(* mysql_get_socket never looks at a pvio that has been closed.              *)
SocketIsCurrent == m.open /\ GetSocket # 0 => pv[GetSocket].st = "live"

(* Whatever is interrupted, fails or is made again, every open connection  *)
(* has one owner, and the application polls the socket that its suspended  *)
(* call waits for.                                                         *)
ConnectionHeld ==
  /\ NoneLeaked
  /\ PollsItsSocket
=============================================================================
