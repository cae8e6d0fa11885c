-------------------------------- MODULE Net --------------------------------
(* Packets on a connection (ma_net.c, ob_protocol20.c): how a command is cut *)
(* into packets and collected in net->buff, how the buffer is written, plain *)
(* or in the frames of the compressed and of the OceanBase 2.0 protocol, and *)
(* how ma_net_read puts packets together again.  A header field is one digit *)
(* here: a length is at most MaxPacket, a number is modulo Numbers.          *)
EXTENDS Integers, Sequences, SequencesExt, FiniteSetsExt

CONSTANTS
  Modes,         \* the protocols used: "plain", "compress", "ob20"
  MaxPacket,     \* MAX_PACKET_LENGTH
  Numbers,       \* pkt_nr, compress_pkt_nr and pkt_seq are written modulo Numbers
  Requests,      \* request ids of the 2.0 protocol are modulo Requests
  BufferLength,  \* net_buffer_length
  MaxSizes,      \* max_packet_size of a connection is one of them
  IoSize,        \* IO_SIZE
  Head20,        \* OB20_HEADER_SIZE + OB20_TAILER_SIZE
  ExtraLength,   \* OB20_EXTRAINFO_LENGTH_SIZE
  Lengths,       \* lengths of commands and packets that are written
  CloseLength,   \* length of COM_STMT_CLOSE, which is sent with the next command
  TraceLengths,  \* lengths of commands that are sent with extra info
  Replies,       \* answers of the server for each mode: sequences of lengths
  FrameSizes,    \* bytes the server puts into one frame
  ExtraSizes,    \* sizes of the extra info of a frame
  Faults,        \* "write" and "read": the connection is lost there
  MaxWrites      \* bound on what the client writes

NetHeader == 2
MaxPacket20 == MaxPacket - Head20 - ExtraLength

ASSUME NetAssumption ==
  /\ Modes \subseteq {"plain", "compress", "ob20"}
  /\ {MaxPacket20, Numbers, Requests, BufferLength, IoSize} \cup MaxSizes \subseteq Nat \ {0}
  /\ Numbers <= MaxPacket + 1
  /\ \A s \in MaxSizes : BufferLength <= s

VARIABLES
  mode,
  net,     \* the NET, without what a read remembers
  rd,      \* ma_net_read: its variables, and the buffer it leaves behind
  phase,   \* whose turn it is
  calls,   \* what has been given to the write functions since the last answer
  inbox,   \* bytes of the answer that have not been read
  due,     \* packets of the answer that have not been read
  srv,     \* the server: number of its next frame, and the request it answers
  got,     \* the packet that was read last and what it should be
  writes

vars == <<mode, net, rd, phase, calls, inbox, due, srv, got, writes>>

Idle ==
  [pc |-> "idle", buf |-> <<>>, remain |-> 0, save |-> 0, cur |-> 0, start |-> 0, multi |-> FALSE]

Init ==
  /\ mode \in Modes
  /\ \E size \in MaxSizes, req \in 0..(Requests - 1) :
       net = [buff |-> <<>>, cap |-> BufferLength, max |-> size, nr |-> 0, cnr |-> 0,
              req |-> req, seq |-> 0, extra |-> 0, out |-> <<>>, left |-> 0, err |-> "none"]
  /\ rd = Idle
  /\ phase = "client" /\ calls = <<>> /\ inbox = <<>> /\ due = <<>> /\ srv = [nr |-> 0, req |-> 0]
  /\ got = [read |-> <<>>, want |-> <<>>] /\ writes = 0

---------------------------------------------------------------------------
(* Writing.  An operator takes a NET and gives the NET afterwards.  err is   *)
(* "large" for ER_NET_PACKET_TOO_LARGE and "lost" for every other failure.   *)

Fail(n, err) == [n EXCEPT !.err = err]
Ok(n) == n.err = "none"

Round(size) == ((size + IoSize - 1) \div IoSize) * IoSize

Realloc(n, size) == IF size >= n.max THEN Fail(n, "large") ELSE [n EXCEPT !.cap = Round(size)]

(* The length that is stored in the header of a 2.0 frame.                   *)
Size20(n, bytes) ==
  Len(bytes) + Head20 + (IF n.extra > 0 THEN n.extra + ExtraLength ELSE 0)

(* fill_protocol20_header: what a header says, and the bytes behind it.      *)
Frame(n, bytes) ==
  LET size == IF mode = "ob20" THEN Size20(n, bytes) ELSE Len(bytes)
  IN [len |-> size % (MaxPacket + 1), size |-> size, nr |-> n.cnr, req |-> n.req, bytes |-> bytes]

ClearExtraInfo(n) == [n EXCEPT !.extra = 0]

RealWrite(n, bytes) ==
  LET frame == Frame(n, bytes)
      framed == IF mode = "plain" THEN n
                ELSE [ClearExtraInfo(n) EXCEPT !.cnr = (@ + 1) % Numbers, !.seq = n.cnr]
  IN IF ~Ok(n) THEN n
     ELSE IF n.left = 0 THEN Fail(framed, "lost")
     ELSE [framed EXCEPT !.out = Append(@, frame), !.left = @ - 1]

(* What net->buff takes before it is written.                                *)
LeftLength(n) ==
  (CASE mode = "ob20" /\ n.cap > MaxPacket20 -> MaxPacket20
     [] mode = "compress" /\ n.cap > MaxPacket -> MaxPacket
     [] OTHER -> n.cap) - Len(n.buff)

(* The 2.0 protocol sends extra info that does not fit beside the buffer in  *)
(* a frame of its own, and makes the buffer larger.                          *)
Prepare20_FlushFirst(n, p) ==
  LET sent == IF n.buff = <<>> THEN n ELSE [RealWrite(n, n.buff) EXCEPT !.buff = <<>>]
  IN IF Ok(sent) /\ Len(p) > sent.cap THEN Realloc(sent, Min({Len(p), MaxPacket20})) ELSE sent
Enlarged20(n, size) ==
  IF Ok(n) /\ size > n.cap /\ n.cap <= MaxPacket20
  THEN Realloc(n, IF size >= MaxPacket20 THEN MaxPacket20 ELSE size)
  ELSE n
Prepare20(n, p) ==
  IF n.extra > MaxPacket20 THEN Fail(n, "lost")
  ELSE Enlarged20(IF n.extra + Len(n.buff) > MaxPacket20 THEN RealWrite(n, <<>>) ELSE n,
                  Len(p) + Len(n.buff))

(* Compressed frames take a limited number of bytes.                         *)
WriteFrames(n, p, full, limit) ==
  FoldLeft(LAMBDA m, i : RealWrite(m, SubSeq(p, (i - 1) * limit + 1, i * limit)),
           n, [i \in 1..full |-> i])

(* The rest of what is given stays in the buffer, if it fits into it.        *)
Kept(n, rest) == IF Len(rest) > n.cap THEN RealWrite(n, rest) ELSE [n EXCEPT !.buff = @ \o rest]

WriteRest(n, rest) ==
  IF mode = "plain" THEN Kept(n, rest)
  ELSE \* in frames
    LET limit == IF mode = "compress" THEN MaxPacket ELSE MaxPacket20
        full == (Len(rest) - 1) \div limit
    IN Kept(WriteFrames(n, rest, full, limit), SubSeq(rest, full * limit + 1, Len(rest)))

(* A buffer that is begun is filled and written first.                       *)
Overflow(n, p, left) ==
  IF n.buff = <<>> THEN WriteRest(n, p)
  ELSE WriteRest([RealWrite(n, n.buff \o SubSeq(p, 1, left)) EXCEPT !.buff = <<>>],
                 SubSeq(p, left + 1, Len(p)))

Buffered(n, p) ==
  IF ~Ok(n) THEN n
  ELSE IF Len(p) <= LeftLength(n) THEN [n EXCEPT !.buff = @ \o p]
  ELSE Overflow(n, p, LeftLength(n))

WriteBuff(n, p) ==
  IF ~Ok(n) \/ p = <<>> THEN n
  ELSE Buffered(IF mode = "ob20" THEN Prepare20(n, p) ELSE n, p)

(* One packet: its header, with the command if there is one, then its bytes. *)
Number(n, command) == IF command # <<>> /\ mode = "compress" THEN 0 ELSE n.nr

WritePacket(n, command, first, bytes) ==
  LET next == IF command # <<>> /\ mode = "compress" THEN n
              ELSE [n EXCEPT !.nr = (@ + 1) % Numbers]
      head == <<Len(bytes) + Len(first), Number(n, command)>> \o first
  IN WriteBuff(WriteBuff(next, head), bytes)

(* ma_net_write and ma_net_write_command: packets of MaxPacket bytes, and a  *)
(* last one that is shorter and may be empty.                                *)
Write(n, command, packet) ==
  LET full == (Len(packet) + Len(command)) \div MaxPacket
      Begin(i) == IF i = 0 THEN 1 ELSE i * MaxPacket - Len(command) + 1
      End(i) == IF i = full THEN Len(packet) ELSE (i + 1) * MaxPacket - Len(command)
  IN FoldLeft(LAMBDA m, i : WritePacket(m, command, IF i = 0 THEN command ELSE <<>>,
                                        SubSeq(packet, Begin(i), End(i))),
              n, [i \in 1..(full + 1) |-> i - 1])

Flush(n) ==
  LET written == IF n.buff = <<>> THEN n ELSE [RealWrite(n, n.buff) EXCEPT !.buff = <<>>]
  IN IF mode = "plain" \/ ~Ok(n) THEN written ELSE [written EXCEPT !.nr = written.cnr]

Clear(n) == [n EXCEPT !.nr = 0, !.cnr = 0, !.buff = <<>>]

NextRequest(n) == IF mode = "ob20" THEN [n EXCEPT !.req = (@ + 1) % Requests] ELSE n

---------------------------------------------------------------------------
(* What the client writes.                                                   *)

Command == <<99>>
Body(length) == [i \in 1..length |-> 100 + i]

(* The number of writes to the connection that succeed.                      *)
Writable == IF "write" \in Faults THEN {0, 1, 99} ELSE {99}

Given(command, length) == [command |-> command, bytes |-> command \o Body(length)]

Sent(n, given) ==
  /\ net' = [n EXCEPT !.left = 0]
  /\ calls' = given
  /\ writes' = writes + 1
  /\ UNCHANGED <<mode, rd, inbox, due, srv, got>>

(* A command that is too large leaves the connection as it is; after another *)
(* failure it is closed (and Session says how it is opened again).           *)
After(n, phase1) ==
  CASE n.err = "none" -> phase1
    [] n.err = "large" -> "client"
    [] n.err = "lost" -> "closed"

(* What a command begins with: ma_net_clear, and a new request id.           *)
Begin(left, extra) ==
  [NextRequest(Clear(net)) EXCEPT !.out = <<>>, !.err = "none", !.left = left, !.extra = extra]

(* mthd_my_send_cmd, with the trace information of the application.          *)
SendCommand ==
  /\ phase = "client" /\ calls = <<>> /\ writes < MaxWrites
  /\ \E l \in Lengths \cup TraceLengths, left \in Writable, e \in {0} \cup ExtraSizes :
       /\ IF e = 0 THEN l \in Lengths ELSE mode = "ob20" /\ l \in TraceLengths
       /\ \E n \in {Flush(Write(Begin(left, e), Command, Body(l)))} :
            /\ Sent(n, IF n.err = "large" THEN <<>> ELSE <<Given(Command, l)>>)
            /\ phase' = After(n, "server")

(* COM_STMT_CLOSE is collected while COM_MULTI_ENABLED (mysql_stmt_prepare,  *)
(* mariadb_stmt_execute_direct; not with the 2.0 protocol) ...               *)
CollectClose ==
  /\ phase = "client" /\ calls = <<>> /\ writes < MaxWrites - 1 /\ mode # "ob20"
  /\ LET n == Write(Begin(99, 0), Command, Body(CloseLength))
     IN Sent(n, <<Given(Command, CloseLength)>>)
  /\ phase' = "batch"

(* ... and COM_STMT_PREPARE is written behind it: net_add_multi_command      *)
(* begins with new numbers, COM_MULTI_END flushes.                           *)
SendBatch ==
  /\ phase = "batch"
  /\ \E l \in Lengths, left \in Writable :
       \E n \in {Flush(Write([net EXCEPT !.left = left, !.nr = 0, !.cnr = 0], Command, Body(l)))} :
          /\ Sent(n, Append(calls, Given(Command, l)))
          /\ phase' = After(n, "server")

(* ma_net_write and ma_net_flush inside a conversation: the number goes on.  *)
(* LOAD DATA LOCAL keeps the request id, authentication takes a new one.     *)
SendPacket ==
  /\ phase = "client" /\ Ok(net) /\ writes \in 1..(MaxWrites - 1)
  /\ \E l \in Lengths \cup {0}, left \in Writable, same \in BOOLEAN :
       LET begun == [net EXCEPT !.left = left, !.out = <<>>, !.err = "none"] IN
       \E n \in {Flush(Write(IF same THEN begun ELSE NextRequest(begun), <<>>, Body(l)))} :
          /\ Sent(n, IF n.err = "large" THEN <<>> ELSE <<Given(<<>>, l)>>)
          /\ phase' = After(n, "server")

---------------------------------------------------------------------------
(* The packets of a logical packet, by definition: all but the last one are  *)
(* full, the last one is not.                                                *)
Packets(bytes, nr, step) ==
  FlattenSeq([i \in 1..(Len(bytes) \div MaxPacket + 1) |->
    LET part == SubSeq(bytes, (i - 1) * MaxPacket + 1, Min({i * MaxPacket, Len(bytes)}))
    IN <<Len(part), (nr + step * (i - 1)) % Numbers>> \o part])

(* Packets of the answers before the j-th one.                               *)
SumLengths(lengths, j) ==
  FoldLeft(LAMBDA sum, l : sum + l \div MaxPacket + 1, 0, SubSeq(lengths, 1, j - 1))

(* The server (external): its answer to what it has got.                     *)
ServerReply ==
  /\ phase = "server"
  /\ \E lengths \in Replies[mode] :
       LET packets == [j \in DOMAIN lengths |-> [i \in 1..lengths[j] |-> 10 * j + i]]
       IN /\ due' = packets
          /\ inbox' = FoldLeft(LAMBDA stream, j : stream \o
                                 Packets(packets[j], net.nr + SumLengths(lengths, j), 1),
                               <<>>, [j \in DOMAIN packets |-> j])
  /\ srv' = [nr |-> net.cnr, req |-> Last(net.out).req]
  /\ phase' = "read" /\ calls' = <<>>
  /\ net' = [net EXCEPT !.out = <<>>]
  /\ UNCHANGED <<mode, rd, got, writes>>

---------------------------------------------------------------------------
(* Reading.                                                                  *)

Replace(s, i, x) == IF i \in DOMAIN s THEN [s EXCEPT ![i] = x] ELSE s

(* The packet ends at rd.cur; the byte behind it is saved and overwritten.   *)
Finish(r, bytes) ==
  /\ got' = [read |-> bytes, want |-> Head(due)]
  /\ due' = Tail(due)
  /\ rd' = [r EXCEPT !.pc = "idle"]
  /\ phase' = IF Len(due) = 1 THEN "client" ELSE "read"

FinishFramed_KeepsHeader(r) ==
  LET len == r.cur - r.start - NetHeader
      end == r.start + NetHeader + len
  IN Finish([r EXCEPT !.remain = Len(r.buf) - r.cur,
                      !.save = IF end + 1 \in DOMAIN r.buf THEN r.buf[end + 1] ELSE 0,
                      !.buf = Replace(@, end + 1, 0)],
            SubSeq(r.buf, r.start + NetHeader + 1, end))
FinishFramed(r) ==
  LET len == r.cur - r.start - NetHeader - (IF r.multi THEN NetHeader ELSE 0)
      end == r.start + NetHeader + len
  IN Finish([r EXCEPT !.remain = Len(r.buf) - r.cur,
                      !.save = IF end + 1 \in DOMAIN r.buf THEN r.buf[end + 1] ELSE 0,
                      !.buf = Replace(@, end + 1, 0)],
            SubSeq(r.buf, r.start + NetHeader + 1, end))

(* ma_net_read begins; what the last read left in the buffer is restored.    *)
ReadBegin ==
  /\ phase = "read" /\ rd.pc = "idle"
  /\ rd' = IF mode = "plain" THEN [Idle EXCEPT !.pc = "plain"]
           ELSE IF rd.remain = 0 THEN [Idle EXCEPT !.pc = "scan"]
           ELSE LET at == Len(rd.buf) - rd.remain
                IN [rd EXCEPT !.pc = "scan", !.buf = Replace(@, at + 1, rd.save),
                              !.cur = at, !.start = at, !.multi = FALSE]
  /\ UNCHANGED <<mode, net, phase, calls, inbox, due, srv, got, writes>>

(* One turn of the loop over the packets in the buffer.                      *)
Dropped(r) == [r EXCEPT !.buf = SubSeq(@, r.start + 1, Len(@)), !.start = 0]

ScanPacket_Stays(length) ==
  IF length # MaxPacket
  THEN FinishFramed([rd EXCEPT !.cur = @ + length + NetHeader])
  ELSE UNCHANGED <<rd, got, due, phase>>
ScanPacket(length) ==
  LET past == IF rd.multi
              THEN [rd EXCEPT !.buf = SubSeq(@, 1, rd.cur)
                                        \o SubSeq(@, rd.cur + NetHeader + 1, Len(@)),
                              !.cur = @ + length]
              ELSE [rd EXCEPT !.cur = @ + length + NetHeader]
  IN IF length # MaxPacket
     THEN FinishFramed([past EXCEPT !.multi = FALSE])
     ELSE /\ rd' = IF rd.start > 0 THEN [Dropped(past) EXCEPT !.multi = TRUE]
                   ELSE [past EXCEPT !.multi = TRUE]
          /\ UNCHANGED <<got, due, phase>>

(* A packet of that length is in the buffer as a whole.                      *)
Complete(length) == length + NetHeader <= Len(rd.buf) - rd.cur

Scan ==
  /\ rd.pc = "scan"
  /\ LET left == Len(rd.buf) - rd.cur
         length == IF left > 0 THEN rd.buf[rd.cur + 1] ELSE 0
     IN IF left >= NetHeader /\ length = 0
        THEN FinishFramed([rd EXCEPT !.cur = @ + NetHeader])
        ELSE IF left >= NetHeader /\ Complete(length)
        THEN ScanPacket(length)
        ELSE /\ rd' = [(IF rd.start > 0 THEN [Dropped(rd) EXCEPT !.cur = rd.cur - rd.start] ELSE rd)
                         EXCEPT !.pc = "fetch"]
             /\ UNCHANGED <<got, due, phase>>
  /\ UNCHANGED <<mode, net, calls, inbox, srv, writes>>

(* ma_real_read has a header: number and size of the buffer follow from it.  *)
Received(nr, need) ==
  LET n == [net EXCEPT !.nr = (nr + 1) % Numbers, !.cnr = (nr + 1) % Numbers]
  IN IF need >= n.cap THEN Realloc(n, need) ELSE n

(* decode_protocol20_header: request id and number are the expected ones.    *)
Accepts(frame) == mode = "ob20" => frame.req = net.req /\ frame.nr = (net.seq + 1) % Numbers

Refuse(n) == net' = n /\ phase' = "refused" /\ UNCHANGED <<rd, inbox, srv, got, due>>

(* A frame is read behind the bytes that are there, and unpacked.            *)
Fetch ==
  /\ rd.pc = "fetch" /\ inbox # <<>>
  /\ \E k \in {k \in FrameSizes : k <= Len(inbox)},
        e \in {0} \cup (IF mode = "ob20" THEN {s + ExtraLength : s \in ExtraSizes} ELSE {}) :
       LET size == k + e + (IF mode = "ob20" THEN Head20 ELSE 0)
           n == Received(srv.nr, size + Len(rd.buf))
       IN /\ size <= MaxPacket
          /\ IF ~Ok(n) THEN Refuse(n)
             ELSE IF ~Accepts(srv) THEN Refuse(Fail(n, "lost"))
             ELSE /\ net' = IF mode = "ob20" THEN [ClearExtraInfo(n) EXCEPT !.seq = srv.nr] ELSE n
                  /\ rd' = [rd EXCEPT !.pc = "scan", !.buf = @ \o SubSeq(inbox, 1, k)]
                  /\ inbox' = SubSeq(inbox, k + 1, Len(inbox))
                  /\ srv' = [srv EXCEPT !.nr = (@ + 1) % Numbers]
                  /\ UNCHANGED <<phase, due, got>>
  /\ UNCHANGED <<mode, calls, writes>>

(* Without frames: one packet after the other behind where_b, until one is   *)
(* not full.                                                                 *)
ReadPlain ==
  /\ rd.pc = "plain" /\ inbox # <<>>
  /\ LET length == inbox[1]
         n == IF length = 0 THEN Received(inbox[2], 0)
              ELSE Received(inbox[2], length + Len(rd.buf))
         buf == rd.buf \o SubSeq(inbox, NetHeader + 1, NetHeader + length)
     IN IF ~Ok(n) THEN Refuse(n)
        ELSE /\ net' = n
             /\ inbox' = SubSeq(inbox, NetHeader + length + 1, Len(inbox))
             /\ IF length = MaxPacket
                THEN rd' = [rd EXCEPT !.buf = buf] /\ UNCHANGED <<got, due, phase>>
                ELSE Finish([rd EXCEPT !.buf = <<>>], buf)
             /\ srv' = [srv EXCEPT !.nr = (inbox[2] + 1) % Numbers]
  /\ UNCHANGED <<mode, calls, writes>>

(* The connection is lost while a read waits.                                *)
ReadFails ==
  /\ rd.pc \in {"fetch", "plain"} /\ phase = "read" /\ "read" \in Faults
  /\ phase' = "closed"
  /\ UNCHANGED <<mode, net, rd, calls, inbox, due, srv, got, writes>>

ReadStep == phase = "read" /\ (Scan \/ Fetch \/ ReadPlain)

Next ==
  \/ SendCommand \/ CollectClose \/ SendBatch \/ SendPacket
  \/ ServerReply
  \/ ReadBegin \/ ReadStep \/ ReadFails

(* A read that has begun goes on; the server answers and its bytes arrive.   *)
Spec == Init /\ [][Next]_vars
FairSpec == Spec /\ WF_vars(ReadStep)

---------------------------------------------------------------------------
(* Buffers, positions and numbers of both directions are well formed; the  *)
(* sequence number and the request id stay inside their width.             *)
TypeOK ==
  /\ net.cap \in Nat /\ net.max \in MaxSizes /\ net.err \in {"none", "large", "lost"}
  /\ {net.nr, net.cnr, net.seq, srv.nr} \subseteq 0..(Numbers - 1)
  /\ net.req \in 0..(Requests - 1)
  /\ rd.pc \in {"idle", "plain", "scan", "fetch"}
  /\ phase \in {"client", "batch", "server", "read", "refused", "closed"}

(* The number a packet of the client should have: a command begins with 0,   *)
(* what follows an answer goes on from it.                                   *)
First(call) == IF call.command # <<>> THEN 0 ELSE srv.nr
Step(call) == IF call.command # <<>> /\ mode = "compress" THEN 0 ELSE 1

(* Once the client waits, the connection has carried exactly the packets of  *)
(* what it was given: whole, in order, cut at MaxPacket and numbered without *)
(* a gap, whatever ma_net_write_buff kept, flushed early or sent directly.   *)
WireIsWritten ==
  phase = "server" =>
    FlattenSeq([i \in DOMAIN net.out |-> net.out[i].bytes]) =
      FlattenSeq([i \in DOMAIN calls |-> Packets(calls[i].bytes, First(calls[i]), Step(calls[i]))])

(* ma_net_real_write stores the true length of a frame in its header (it     *)
(* never exceeds three bytes), numbers the frames of a command one after the *)
(* other modulo 256, and gives all of them the same request id.              *)
FramesFit ==
  phase = "server" /\ mode # "plain" =>
    \A i \in DOMAIN net.out :
      /\ net.out[i].len = net.out[i].size
      /\ net.out[i].nr = (First(calls[1]) + i - 1) % Numbers
      /\ net.out[i].req = net.out[1].req

(* mthd_my_send_cmd keeps the connection after ER_NET_PACKET_TOO_LARGE: then *)
(* no byte of the refused command may have been written.                     *)
TooLargeSendsNothing == net.err = "large" /\ phase = "client" => net.out = <<>>

(* ma_net_read gives the packets the server has sent, each once, whole and   *)
(* in order, however they were cut into packets and frames.                  *)
ReadIsSent == got.read = got.want

(* ma_net_read waits for bytes only while the server owes some.              *)
NeverStarves == rd.pc \in {"fetch", "plain"} /\ phase = "read" => inbox # <<>>

(* The loop of ma_net_read computes buffer_length - current without a sign:  *)
(* current stays within the buffer, and where_b, behind which the next       *)
(* header is read, within the memory that net_realloc has got.               *)
InsideBuffer == rd.cur <= Len(rd.buf) /\ Len(rd.buf) <= net.cap

(* An answer to the request that was sent last is refused only when it does  *)
(* not fit into max_packet_size: the request ids and numbers of client and   *)
(* server agree after any sequence of commands, also when they wrap.         *)
RefusesOnlyTooLarge == phase = "refused" => net.err = "large" /\ Len(rd.buf) + MaxPacket >= net.max

(* A read that has begun returns a packet or an error.                       *)
ReadReturns == rd.pc # "idle" ~> (rd.pc = "idle" \/ phase \in {"refused", "closed"})

(* What ma_net_write, ma_net_write_command and ma_net_real_write put on    *)
(* the connection is exactly what they were given: whole packets, in       *)
(* frames whose lengths and numbers are true, and nothing at all of a      *)
(* command that is refused as too large.                                   *)
SentExactly ==
  /\ WireIsWritten
  /\ FramesFit
  /\ TooLargeSendsNothing

(* What ma_net_read gives is exactly what the server has sent, from inside *)
(* its buffer, without waiting for bytes that nobody owes and without      *)
(* refusing an answer that fits.                                           *)
ReadExactly ==
  /\ ReadIsSent
  /\ InsideBuffer
  /\ NeverStarves
  /\ RefusesOnlyTooLarge
=============================================================================
