------------------------------- MODULE Trace -------------------------------
(***************************************************************************)
(* Full link trace on one connection (ob_full_link_trace.c): the macros    *)
(* FLT_BEFORE_COMMAND and FLT_AFTER_COMMAND that bracket a traced command, *)
(* the fixed pools of spans and tags they take from, the log and the       *)
(* show-trace buffers, and the extra information of the OceanBase 2.0      *)
(* protocol that carries them to the server (ob_protocol20.c).             *)
(*                                                                         *)
(* A command is a number, a trace is named by the command that began it.   *)
(* Text is counted in records: one span's JSON text is one record, and the *)
(* piece snprintf leaves when a record does not fit is `cut'.              *)
(***************************************************************************)
EXTENDS Integers, Sequences, FiniteSets, SequencesExt

CONSTANTS
  SpanCount,      \* SPAN_CACHE_COUNT, 4 in the code
  TagCount,       \* TAG_CACHE_COUNT, 16 in the code
  LogRecords,     \* records that fit in MAX_TRACE_LOG_SIZE bytes
  RequestRoom,    \* what fits in MAX_FLT_SERIALIZE_SIZE, in records
  InitCommands,   \* how many init commands the application has set
  MaxTraced       \* bound: commands of a behaviour

VARIABLES
  flt,     \* FLTInfo, its ObTrace and the extra_info_list of the connection
  trans,   \* SERVER_STATUS_IN_TRANS in mysql->server_status
  tcall,   \* the traced command in progress
  wire,    \* the full link trace items of the last request written
  clean    \* no command was refused, none untraced ended a transaction

Controls == [valid : BOOLEAN, rp : {"all", "slow", "sample"}, show : BOOLEAN]
NoBuffer == [recs |-> <<>>, cut |-> FALSE]
NoSpan == [cmd |-> 0, trace |-> 0, ended |-> FALSE, source |-> 0, tags |-> <<>>]
Request == [cmd |-> 0, span |-> 0, log |-> NoBuffer, show |-> NoBuffer, app |-> FALSE]

(* flt_init and trace_init: every span and tag is free, no control info.   *)
FltInit(gen) ==
  [gen |-> gen, control |-> [valid |-> FALSE, rp |-> "all", show |-> FALSE],
   app |-> FALSE, id |-> 0, enable |-> FALSE, show |-> FALSE, force |-> FALSE,
   slow |-> FALSE, span |-> [s \in 1..SpanCount |-> NoSpan],
   free |-> Reverse([s \in 1..SpanCount |-> s]), current |-> <<>>, last |-> 0,
   tags |-> Reverse([t \in 1..TagCount |-> t]), log |-> NoBuffer,
   shown |-> NoBuffer, extra |-> 0, built |-> Request]

(***************************************************************************)
(* Traces and spans                                                        *)
(***************************************************************************)
(* begin_trace: hit and print are the two draws of flt_get_pct.            *)
BeginTrace(f, cmd, hit, print) ==
  LET on == f.control.valid /\ (f.control.show \/ hit)
  IN [f EXCEPT !.enable = on, !.show = on /\ f.control.show,
               !.id = IF on THEN cmd ELSE 0,
               !.force = /\ on
                         /\ \/ f.control.show
                            \/ f.control.rp = "all"
                            \/ f.control.rp = "sample" /\ print]

(* Every listed span goes back to the free list, the head first.           *)
Recycle(f) == [f EXCEPT !.free = Reverse(f.current) \o f.free, !.current = <<>>]

(* end_trace: the spans are recycled; their tags are not returned.         *)
EndTrace_Keeps(f) == [f EXCEPT !.last = 0]
EndTrace(f) == [Recycle(f) EXCEPT !.last = 0]

(* reset_span: nothing without a trace id; the tags are dropped, not freed *)
ResetSpan(f) ==
  IF f.id = 0 THEN f
  ELSE [Recycle(f) EXCEPT
          !.span = [s \in 1..SpanCount |->
                      IF \E i \in 1..Len(f.current) : f.current[i] = s
                      THEN [f.span[s] EXCEPT !.tags = <<>>] ELSE f.span[s]]]

(* The span at the head of the list is done with: its tags (reset_tag) and *)
(* its element go to the free lists.                                       *)
ReleaseHead(f) ==
  LET s == Head(f.current)
  IN [f EXCEPT !.span[s].tags = <<>>, !.tags = Reverse(f.span[s].tags) \o @,
               !.current = Tail(@), !.free = <<s>> \o @]

Room(b) == Len(b.recs) < LogRecords
Add(b, r) == IF Room(b) THEN [b EXCEPT !.recs = Append(@, r)] ELSE [b EXCEPT !.cut = TRUE]
Record(f, s) == [cmd |-> f.span[s].cmd, began |-> f.span[s].trace,
                 trace |-> f.id, ended |-> f.span[s].ended]

(* flush_first_span, for a slow query: the head span is logged, and        *)
(* released when it has ended.                                             *)
FlushFirstSpan(f) ==
  IF f.id = 0 \/ f.current = <<>> THEN f
  ELSE LET s == Head(f.current)
           g == [f EXCEPT !.log = Add(@, Record(f, s))]
       IN IF Room(f.log) /\ f.span[s].ended THEN ReleaseHead(g) ELSE g

(* The loop of flush_trace.  An ended span is logged, copied to the show   *)
(* buffer and released; one that has not ended stays at the head and is    *)
(* logged again until the log is full.                                     *)
RECURSIVE FlushLoop(_)
FlushLoop(f) ==
  IF f.current = <<>> THEN f
  ELSE LET s == Head(f.current)
           r == Record(f, s)
           g == [f EXCEPT !.log = Add(@, r)]
           h == [g EXCEPT !.shown = Add(@, r)]
       IN IF ~Room(f.log) THEN g
          ELSE IF ~f.span[s].ended THEN FlushLoop(g)
          ELSE IF ~Room(f.shown) THEN h
          ELSE FlushLoop(ReleaseHead(h))

FlushTrace(f) == IF f.id = 0 THEN f ELSE FlushLoop(f)

(* begin_span: no trace id, no span; a flush when none is free.            *)
BeginSpan(f, cmd) ==
  LET g == IF f.id # 0 /\ f.free = <<>> THEN FlushTrace(f) ELSE f
      s == Head(g.free)
  IN IF f.id = 0 \/ g.free = <<>> THEN [f |-> g, span |-> 0]
     ELSE [f |-> [g EXCEPT !.span[s] = [NoSpan EXCEPT !.cmd = cmd, !.trace = g.id,
                                                      !.source = g.last],
                           !.last = s, !.free = Tail(@), !.current = <<s>> \o @],
           span |-> s]

(* end_span, of a span of this trace; `slow': it took the threshold.       *)
EndSpan(f, s, slow) ==
  IF s = 0 \/ f.id = 0 THEN f
  ELSE [f EXCEPT !.span[s].ended = TRUE, !.last = f.span[s].source,
                 !.slow = @ \/ (slow /\ f.control.rp # "all")]

(* SET_TAG and append_tag: the last active span takes a tag if one is free *)
AppendTag(f) ==
  IF f.last = 0 \/ f.tags = <<>> THEN f
  ELSE [f EXCEPT !.tags = Tail(@), !.span[f.last].tags = <<Head(f.tags)>> \o @]

(***************************************************************************)
(* The request                                                             *)
(***************************************************************************)
(* Bytes of a buffer: offset 0 is not sent, what was cut off is.           *)
TextSize(b) == IF b.recs = <<>> THEN 0 ELSE Len(b.recs) + (IF b.cut THEN 1 ELSE 0)

(* flt_build_request and ob20_set_extra_info: a forced trace is flushed,   *)
(* then span, log, show-trace and application information are serialized   *)
(* when they fit, the buffers emptied and an item put on the list.         *)
BuildRequest(f, cmd) ==
  LET traced == f.enable /\ f.last # 0
      g == IF traced /\ f.force THEN FlushTrace(f) ELSE f
      show == IF g.show THEN g.shown ELSE NoBuffer
      size == (IF traced THEN 1 ELSE 0) + TextSize(g.log) + TextSize(show)
              + (IF g.app THEN 1 ELSE 0)
  IN IF size = 0 \/ size > RequestRoom THEN g
     ELSE [g EXCEPT !.app = FALSE, !.log = NoBuffer, !.shown = NoBuffer,
                    !.extra = @ + 1,
                    !.built = [cmd |-> cmd, log |-> g.log, show |-> show, app |-> g.app,
                               span |-> IF traced THEN g.span[g.last].cmd ELSE 0]]

(* FLT_BEFORE_COMMAND                                                      *)
Before(f, cmd, hit, print, host) ==
  LET b == IF f.control.show \/ ~trans THEN BeginTrace(f, cmd, hit, print)
           ELSE ResetSpan(f)
      n == BeginSpan(b, cmd)
      t == AppendTag(n.f)
  IN [f |-> BuildRequest(IF host THEN AppendTag(t) ELSE t, cmd), span |-> n.span]

(* FLT_AFTER_COMMAND, the connection being in a transaction or not         *)
After(f, intrans, s, slow) ==
  LET e == EndSpan(f, s, slow)
      p == IF e.force THEN FlushTrace(e)
           ELSE IF e.slow THEN FlushFirstSpan([e EXCEPT !.slow = FALSE]) ELSE e
  IN IF f.control.show \/ ~intrans THEN EndTrace(p) ELSE p

(***************************************************************************)
(* Actions                                                                 *)
(***************************************************************************)
NoCall == [pc |-> "idle", cmd |-> 0, span |-> 0, gen |-> 0]

TraceInit ==
  /\ flt = FltInit(1)
  /\ trans = FALSE
  /\ tcall = NoCall
  /\ wire = <<>>
  /\ clean = TRUE

(* The first half of mysql_real_query, mysql_send_query, mysql_stmt_prepare, *)
(* mysql_stmt_execute, mysql_stmt_execute_v2 or ..._describe_only            *)
FltBeforeCommand ==
  /\ tcall.pc = "idle" /\ tcall.cmd < MaxTraced
  /\ \E hit, print, host \in BOOLEAN :
       LET b == Before(flt, tcall.cmd + 1, hit, print, host)
       IN /\ flt' = b.f
          /\ tcall' = [pc |-> "send", cmd |-> tcall.cmd + 1, span |-> b.span, gen |-> flt.gen]
  /\ wire' = <<>>
  /\ UNCHANGED <<trans, clean>>

(* ma_net_real_write: the items of the list go out in the frame's extra    *)
(* information; all of them point to flt_value_data_.                      *)
Write(f) == [i \in 1..f.extra |-> f.built]

SendCommand ==
  /\ tcall.pc = "send"
  /\ wire' = Write(flt)
  /\ flt' = [flt EXCEPT !.extra = 0]
  /\ tcall' = [tcall EXCEPT !.pc = "reply"]
  /\ UNCHANGED <<trans, clean>>

(* mthd_my_send_cmd refuses the command: commands out of sync.             *)
RefuseCommand ==
  /\ tcall.pc = "send"
  /\ tcall' = [tcall EXCEPT !.pc = "after"]
  /\ clean' = FALSE
  /\ UNCHANGED <<flt, trans, wire>>

(* A command sent while the connection is made again: SET NAMES, or an     *)
(* init command; the server may send control information with its answer. *)
Nested(f, cmd, control, hit, print) ==
  LET b == Before(f, cmd, hit, print, TRUE)
  IN After([b.f EXCEPT !.extra = 0, !.control = control], FALSE, b.span, FALSE)

RECURSIVE NestedAll(_, _, _, _, _, _)
NestedAll(f, cmd, control, hit, print, n) ==
  IF n = 0 THEN f
  ELSE NestedAll(Nested(f, cmd, control, hit, print), cmd, control, hit, print, n - 1)

(* mariadb_reconnect inside mthd_my_send_cmd: a new ob20protocol with a    *)
(* new trace, the old one freed; then the command is written again.        *)
ReconnectCommand ==
  /\ tcall.pc = "send" /\ flt.gen = 1 /\ ~trans
  /\ \E control \in Controls, hit, print \in BOOLEAN :
       flt' = NestedAll(FltInit(2), tcall.cmd, control, hit, print, InitCommands + 1)
  /\ wire' = <<>>
  /\ trans' = FALSE
  /\ clean' = (clean /\ InitCommands = 0)
  /\ tcall' = [tcall EXCEPT !.pc = "reply"]

(* The answer: extrainfo_deserialize_flt may replace the control info, the *)
(* OK packet sets the status.  mysql_send_query reads no answer.           *)
ServerReply ==
  /\ tcall.pc = "reply"
  /\ \E control \in Controls \cup {flt.control}, t \in BOOLEAN :
       /\ flt' = [flt EXCEPT !.control = control]
       /\ trans' = t
  /\ tcall' = [tcall EXCEPT !.pc = "after"]
  /\ UNCHANGED <<wire, clean>>

NoReply ==
  /\ tcall.pc = "reply"
  /\ tcall' = [tcall EXCEPT !.pc = "after"]
  /\ UNCHANGED <<flt, trans, wire, clean>>

(* end_span on the span of a trace that reconnecting has freed: the memory *)
(* is not this trace's.                                                    *)
SpanFreed == tcall.span # 0 /\ tcall.gen # flt.gen /\ flt.id # 0

FltAfterCommand ==
  /\ tcall.pc = "after"
  /\ \E slow \in BOOLEAN :
       flt' = After(flt, trans, IF tcall.gen = flt.gen THEN tcall.span ELSE 0, slow)
  /\ tcall' = [NoCall EXCEPT !.cmd = tcall.cmd]
  /\ wire' = <<>>
  /\ UNCHANGED <<trans, clean>>

(* flt_set_module, flt_set_action, flt_set_client_info, flt_set_identifier *)
SetApp ==
  /\ tcall.pc = "idle" /\ ~flt.app
  /\ flt' = [flt EXCEPT !.app = TRUE]
  /\ UNCHANGED <<trans, tcall, wire, clean>>

(* A command without the macros (mysql_change_user, mysql_reset_connection, *)
(* mysql_ping, a fetch): what is on the list goes out with it; the status   *)
(* it brings may end a transaction.                                         *)
UntracedCommand ==
  /\ tcall.pc = "idle" /\ (trans \/ flt.extra > 0)
  /\ flt' = [flt EXCEPT !.extra = 0]
  /\ trans' = FALSE
  /\ clean' = FALSE
  /\ wire' = Write(flt)
  /\ UNCHANGED tcall

TraceNext ==
  \/ FltBeforeCommand \/ SendCommand \/ RefuseCommand \/ ReconnectCommand
  \/ ServerReply \/ NoReply \/ FltAfterCommand \/ SetApp \/ UntracedCommand

(***************************************************************************)
(* Properties                                                              *)
(***************************************************************************)
ListsOf(f) == f.free \o f.current

(* The SPAN_CACHE_COUNT spans are always on exactly one of the two lists,  *)
(* whatever begin_span, flush_trace, flush_first_span, reset_span and      *)
(* end_trace do, and across refused commands and reconnections.            *)
SpansConserved ==
  /\ Len(ListsOf(flt)) = SpanCount
  /\ Range(ListsOf(flt)) = 1..SpanCount

(* append_tag never hands out a tag that a listed span still carries: the  *)
(* free tags and the tags of the listed spans are all different.           *)
TagsApart ==
  LET listed == FlattenSeq([i \in 1..Len(flt.current) |-> flt.span[flt.current[i]].tags])
  IN IsInjective(flt.tags \o listed)

(* last_active_span_, which begin_span makes the parent and SET_TAG writes *)
(* to, is null or a span on the current list that has not ended.           *)
LastActiveListed ==
  flt.last # 0 => /\ \E i \in 1..Len(flt.current) : flt.current[i] = flt.last
                  /\ ~flt.span[flt.last].ended

(* FLT_AFTER_COMMAND never ends a span of a trace that mariadb_reconnect   *)
(* has freed, as long as no init command is traced on the new connection.  *)
SpanLive == (clean /\ tcall.pc = "after") => ~SpanFreed

(* The information written with a request is that command's own, and once. *)
OwnInfo ==
  clean => /\ Len(wire) <= 1
           /\ \A i \in 1..Len(wire) : wire[i].cmd = tcall.cmd /\ wire[i].span \in {0, tcall.cmd}

(* A record is logged under the trace its span began in: without untraced  *)
(* commands in a transaction no span outlives its trace.                   *)
RecordOfOwnTrace ==
  clean => \A b \in {flt.log, flt.shown, flt.built.log} :
             \A i \in 1..Len(b.recs) : b.recs[i].began = b.recs[i].trace

(* flush_trace puts a span into the show-trace buffer once, when it ended. *)
ShowOnce ==
  /\ IsInjective([i \in 1..Len(flt.shown.recs) |-> flt.shown.recs[i].cmd])
  /\ \A i \in 1..Len(flt.shown.recs) : flt.shown.recs[i].ended

(* The trace keeps account of its spans, tags and records across commands, *)
(* transactions, refusals and reconnections: the two lists hold the whole  *)
(* pool, no tag is handed out twice, the active span is one that lives,    *)
(* and what is logged, shown or sent belongs to the command and the trace  *)
(* it names (FLT_BEFORE_COMMAND, FLT_AFTER_COMMAND).                       *)
SpansAccounted ==
  /\ SpansConserved
  /\ TagsApart
  /\ LastActiveListed
  /\ SpanLive
  /\ OwnInfo
  /\ RecordOfOwnTrace
  /\ ShowOnce
=============================================================================
