----------------------------- MODULE SessionTrack ----------------------------
(***************************************************************************)
(* OK packets and session tracking (ma_read_ok_packet and                  *)
(* mysql_session_track_get_*, mariadb_lib.c).  A server reports the changes*)
(* of its session since the last OK packet as a list of items; the client  *)
(* keeps them for the application and follows some of them itself: the     *)
(* default database, the character set, the OceanBase capabilities and the *)
(* three NLS formats.                                                      *)
(*                                                                         *)
(* The names of variables and character sets are sequences of words: the   *)
(* code compares them with strncmp and the length of what arrived, so a    *)
(* name that is the beginning of another one matches it.                   *)
(***************************************************************************)
EXTENDS Integers, Sequences, SequencesExt

CONSTANTS StItems,        \* the changes a server may report: [t, name, val]
          StCharsets,     \* the character sets the client knows
          StFirst,        \* the session after the login
          MaxItems,       \* changes in one packet
          MaxChanges      \* changes in all

TrackTypes == {"sysvar", "schema", "state", "gtids", "trxchar", "trxstate"}
Charset == <<"character_set_client">>
Capability == <<"ob_capability_flag">>
NlsDate == <<"nls", "date_format">>
NlsTimestamp == <<"nls", "timestamp", "format">>
NlsTimestampTz == <<"nls", "timestamp", "tz_format">>

VARIABLES ssrv,     \* the session at the server
          sitems,   \* its changes since the last OK packet
          scli,     \* the handle: what it follows, list, current
          slast,    \* the items of the last packet, by type
          sseen,    \* what the application has read since mysql_session_track_get_first
          schanges  \* changes so far

NoLists == [t \in TrackTypes |-> <<>>]
NoRead == [t |-> "schema", got |-> <<>>]
StInit ==
  /\ ssrv = StFirst /\ sitems = <<>> /\ schanges = 0 /\ slast = NoLists /\ sseen = NoRead
  /\ scli = [st |-> StFirst, list |-> NoLists, current |-> NoLists, err |-> FALSE]

(***************************************************************************)
(* The server (external)                                                   *)
(***************************************************************************)
Follow(st, it) ==
  CASE it.t = "schema" -> [st EXCEPT !.db = it.val]
    [] it.t = "sysvar" /\ it.name = Charset -> [st EXCEPT !.cs = it.val]
    [] it.t = "sysvar" /\ it.name = Capability -> [st EXCEPT !.cap = it.val]
    [] it.t = "sysvar" /\ it.name = NlsDate -> [st EXCEPT !.date = it.val]
    [] it.t = "sysvar" /\ it.name = NlsTimestamp -> [st EXCEPT !.ts = it.val]
    [] it.t = "sysvar" /\ it.name = NlsTimestampTz -> [st EXCEPT !.tz = it.val]
    [] OTHER -> st
SessionChange ==
  /\ Len(sitems) < MaxItems /\ schanges < MaxChanges /\ ~scli.err /\ schanges' = schanges + 1
  /\ \E it \in StItems : sitems' = Append(sitems, it) /\ ssrv' = Follow(ssrv, it)
  /\ UNCHANGED <<scli, slast, sseen>>

(***************************************************************************)
(* The client                                                              *)
(***************************************************************************)
(* strncmp(str->str, constant, str->length) == 0                           *)
Matches(name, constant) == IsPrefix(name, constant)

(* One system variable: all comparisons are made                           *)
TakeCharset(st, it) ==
  IF Matches(it.name, Charset) /\ ~IsPrefix(it.val, st.cs) /\ it.val \in StCharsets
  THEN [st EXCEPT !.cs = it.val] ELSE st
TakeNls(st, it) ==
  CASE Matches(it.name, NlsDate) -> [st EXCEPT !.date = it.val]
    [] Matches(it.name, NlsTimestamp) -> [st EXCEPT !.ts = it.val]
    [] Matches(it.name, NlsTimestampTz) -> [st EXCEPT !.tz = it.val]
    [] OTHER -> st
(* A capability flag that is no number of at most 31 digits                *)
BadNumber(it) == it.t = "sysvar" /\ Matches(it.name, Capability) /\ it.val = <<"junk">>
TakeVariable(st, it) ==
  LET s == TakeNls(TakeCharset(st, it), it)
  IN IF Matches(it.name, Capability) THEN [s EXCEPT !.cap = it.val] ELSE s

(* What an item adds to the list of its type: a variable adds two strings  *)
Strings(it) == IF it.t = "sysvar" THEN <<it.name, it.val>> ELSE <<it.val>>
(* list_add puts in front; a type that is not supported is skipped         *)
TakeItem(c, it) ==
  IF it.t \notin TrackTypes THEN c
  ELSE [c EXCEPT !.list[it.t] = Reverse(Strings(it)) \o @,
                 !.st = CASE it.t = "schema" -> [@ EXCEPT !.db = it.val]
                          [] it.t = "sysvar" -> TakeVariable(@, it)
                          [] OTHER -> @]

(* ma_clear_session_state                                                  *)
ClearSessionState(c) == [c EXCEPT !.list = NoLists, !.current = NoLists]
Corrupted_KeepsList(c) == [c EXCEPT !.err = TRUE]
Corrupted(c) == [ClearSessionState(c) EXCEPT !.err = TRUE]

(* The end of the loop: the lists are turned round                         *)
ListsDone(c) ==
  LET l == [t \in TrackTypes |-> Reverse(c.list[t])] IN [c EXCEPT !.list = l, !.current = l]

(* ma_read_ok_packet of a packet with these items, of which the one at cut *)
(* is longer than the packet (0: none is)                                  *)
ReadItems(c, items, cut) ==
  LET bad == {i \in 1..Len(items) : i = cut \/ BadNumber(items[i])}
      upto == IF bad = {} THEN Len(items) ELSE CHOOSE i \in bad : \A k \in bad : i <= k
      whole == FoldLeft(TakeItem, ClearSessionState(c),
                        SubSeq(items, 1, IF bad = {} THEN upto ELSE upto - 1))
  IN IF bad = {} THEN ListsDone(whole) ELSE Corrupted(whole)

PerType(items) ==
  [t \in TrackTypes |-> FlattenSeq([i \in 1..Len(items) |->
                          IF items[i].t = t THEN Strings(items[i]) ELSE <<>>])]
(* mthd_my_read_query_result on an OK packet.  Without changes the packet  *)
(* says so in its status, or is shorter.                                   *)
OkPacket ==
  /\ ~scli.err
  /\ \E cut \in 0..Len(sitems) :
       /\ scli' = ReadItems(scli, sitems, cut)
       /\ slast' = IF scli'.err THEN NoLists ELSE PerType(sitems)
  /\ sitems' = <<>> /\ sseen' = NoRead /\ UNCHANGED <<ssrv, schanges>>

(* mysql_session_track_get_first and _get_next                             *)
TrackGet(t, from) ==
  /\ from # <<>>
  /\ scli' = [scli EXCEPT !.current[t] = Tail(from)]
TrackGetFirst(t) ==
  /\ TrackGet(t, scli.list[t])
  /\ sseen' = [t |-> t, got |-> <<Head(scli.list[t])>>]
  /\ UNCHANGED <<ssrv, sitems, slast, schanges>>
TrackGetNext(t) ==
  /\ TrackGet(t, scli.current[t]) /\ t = sseen.t
  /\ sseen' = [sseen EXCEPT !.got = Append(@, Head(scli.current[t]))]
  /\ UNCHANGED <<ssrv, sitems, slast, schanges>>

StNext == SessionChange \/ OkPacket \/ \E t \in TrackTypes : TrackGetFirst(t) \/ TrackGetNext(t)

(***************************************************************************)
(* Properties                                                              *)
(***************************************************************************)
(* After an OK packet that was read the handle has the database, the       *)
(* capabilities and the NLS formats of the session, whatever the order and *)
(* the number of the changes, and nothing else changes them.  The character*)
(* set is the session's too, unless the client does not know it or its name*)
(* is the beginning of the one the handle has (utf8 after utf8mb4).        *)
FollowsSession ==
  ~scli.err /\ sitems = <<>> =>
    /\ [scli.st EXCEPT !.cs = ssrv.cs] = ssrv
    /\ scli.st.cs = ssrv.cs \/ ssrv.cs \notin StCharsets \/ IsPrefix(ssrv.cs, scli.st.cs)

(* The application is given the items of the last packet in the order in   *)
(* which the server sent them, each once, although the list was built from *)
(* its end.                                                                *)
TrackedInOrder == IsPrefix(sseen.got, slast[sseen.t])

(* A packet that cannot be read leaves nothing to the application: neither *)
(* its own first items nor those of an earlier packet.                     *)
NothingOfBadPacket == scli.err => scli.list = NoLists /\ scli.current = NoLists

(* The state changes in an OK packet reach handle and application as the   *)
(* server meant them, or not at all: the handle follows the session, the   *)
(* items come in order and once, and a packet that cannot be read leaves   *)
(* none (ma_read_ok_packet, mysql_session_track_get_next).                 *)
SessionTracked ==
  /\ FollowsSession
  /\ TrackedInOrder
  /\ NothingOfBadPacket
=============================================================================
