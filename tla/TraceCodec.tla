----------------------------- MODULE TraceCodec -----------------------------
(***************************************************************************)
(* The extra information of the OceanBase 2.0 protocol: the keys of        *)
(* ob_protocol20.c, the trace information types inside them and their      *)
(* fields (ob_full_link_trace.c), each a two byte type, a four byte length *)
(* and a value, and the variable length integers of ob_serialize.c.  One   *)
(* cell is one byte; a type or a length takes its first cell and pads the  *)
(* rest, which keeps every position the code computes.                     *)
(***************************************************************************)
EXTENDS Integers, Sequences, SequencesExt, FiniteSets

CONSTANTS
  MaxFields,   \* bound: fields of one message
  GroupMax,    \* OB_MAX_V1B: 127 in the code
  MaxValue     \* bound: largest integer encoded

VARIABLES
  msg,         \* a control information message of the server, field by field
  short,       \* bytes the message is cut short by
  val          \* an integer to encode, or the length of a string

TypeLength == 2
LenLength == 4
Null == <<-1>>   \* a string pointer that is not set
Pad(c, n) == <<c>> \o [i \in 1..(n - 1) |-> 0]

(***************************************************************************)
(* Encoding                                                                *)
(***************************************************************************)
(* flt_store_type_and_len                                                  *)
StoreTypeAndLen(id, len) == Pad(id, TypeLength) \o Pad(len, LenLength)

(* flt_store_int, flt_store_double, flt_store_str: header and value        *)
Store(buf, id, v) == buf \o StoreTypeAndLen(id, Len(v)) \o v

Int1(v) == <<v>>

StoreSize(n) == TypeLength + LenLength + n

(* One information type: the fields behind a header filled in at the end   *)
Info(type, fields) ==
  LET body == FoldLeft(LAMBDA b, f : Store(b, f[1], f[2]), <<>>, fields)
  IN StoreTypeAndLen(type, Len(body)) \o body

(* flt_serialize_spaninfo and flt_get_serialize_size_spaninfo              *)
SpanInfo(trace_id, span_id, force) ==
  Info("span", << <<"enable", Int1(1)>>, <<"force", Int1(force)>>, <<"trace_id", trace_id>>,
                  <<"ref", Int1(0)>>, <<"span_id", span_id>> >>)
SpanInfoSize(n) == StoreSize(0) + 3 * StoreSize(1) + 2 * StoreSize(n)

(* flt_serialize_appinfo: the strings that are set, in this order          *)
AppFields(app) ==
  SelectSeq(<< <<"identifier", app.identifier>>, <<"module", app.module>>,
               <<"action", app.action>>, <<"client", app.client>> >>,
            LAMBDA f : f[2] # Null)
AppInfo(app) == Info("app", AppFields(app))
AppInfoSize(app) ==
  IF AppFields(app) = <<>> THEN 0
  ELSE FoldLeft(LAMBDA n, f : n + StoreSize(Len(f[2])), StoreSize(0), AppFields(app))

(* flt_serialize_driverspaninfo and ..._showtracespan: the text with its   *)
(* terminating zero                                                        *)
TextInfo(type, text) == Info(type, << <<type, Append(text, 0)>> >>)
TextInfoSize(text) == StoreSize(0) + StoreSize(Len(text) + 1)

(***************************************************************************)
(* Decoding                                                                *)
(***************************************************************************)
Failed == [ok |-> FALSE, pos |-> 0, info |-> <<>>]

(* flt_resolve_type_and_len, at pos of the first len bytes of buf          *)
Resolves(len, pos) == pos + TypeLength + LenLength <= len
TypeAt(buf, pos) == buf[pos + 1]
LenAt(buf, pos) == buf[pos + TypeLength + 1]

(* flt_get_int1, flt_get_int8, flt_get_double: a field of the wrong width  *)
(* or one that ends after the buffer is an error.                          *)
Get(len, pos, vlen, width) == vlen = width /\ pos + vlen <= len

Width(id) == [level |-> 1, sample |-> 8, policy |-> 1, print |-> 8, slow |-> 8, show |-> 1][id]
ControlIds == {"level", "sample", "policy", "print", "slow", "show"}

(* flt_deserialize_field_controlinfo: an unknown field moves pos by pos    *)
(* and its length.                                                         *)
FieldControl(buf, len, pos, id, vlen, info) ==
  IF id \notin ControlIds THEN [ok |-> TRUE, pos |-> pos + pos + vlen, info |-> info]
  ELSE IF Get(len, pos, vlen, Width(id))
  THEN [ok |-> TRUE, pos |-> pos + vlen, info |-> [info EXCEPT ![id] = buf[pos + 1]]]
  ELSE Failed

(* flt_deserialize_extra_info: the fields up to len, or the first error    *)
RECURSIVE DecodeControl(_, _, _, _)
DecodeControl(buf, len, pos, info) ==
  IF pos >= len THEN [ok |-> TRUE, pos |-> pos, info |-> info]
  ELSE IF ~Resolves(len, pos) THEN Failed
  ELSE LET f == FieldControl(buf, len, pos + TypeLength + LenLength, TypeAt(buf, pos),
                             LenAt(buf, pos), info)
       IN IF f.ok THEN DecodeControl(buf, len, f.pos, f.info) ELSE Failed

(* extrainfo_deserialize_flt: the information types up to len; span info   *)
(* is read into the control info, an unknown type is skipped.              *)
RECURSIVE DecodeInfos(_, _, _, _)
DecodeInfos(buf, len, pos, control) ==
  IF pos >= len THEN [ok |-> TRUE, pos |-> pos, info |-> control]
  ELSE IF ~Resolves(len, pos) THEN Failed
  ELSE LET start == pos + TypeLength + LenLength
           vlen == LenAt(buf, pos)
           body == SubSeq(buf, start + 1, Len(buf))
           d == IF TypeAt(buf, pos) = "control" THEN DecodeControl(body, vlen, 0, control)
                ELSE [ok |-> TRUE, pos |-> 0, info |-> control]
       IN IF d.ok THEN DecodeInfos(buf, len, start + vlen, d.info) ELSE Failed

(* decode_protocol20_extra_info: for the one key that has a function its   *)
(* value must end where the information types in it do.                    *)
RECURSIVE DecodeExtra(_, _, _)
DecodeExtra(buf, pos, control) ==
  IF pos >= Len(buf) THEN [ok |-> TRUE, pos |-> pos, info |-> control]
  ELSE LET vlen == LenAt(buf, pos)
           start == pos + TypeLength + LenLength
           d == DecodeInfos(buf, Len(buf), start, control)
       IN IF TypeAt(buf, pos) # "FULL_TRC" THEN DecodeExtra(buf, start + vlen, control)
          ELSE IF d.ok /\ d.pos = start + vlen THEN DecodeExtra(buf, d.pos, d.info)
          ELSE Failed

(***************************************************************************)
(* Variable length integers, in groups of GroupMax + 1                     *)
(***************************************************************************)
Base == GroupMax + 1

(* encoded_length_vi64: thresholds OB_MAX_V1B, OB_MAX_V2B, ...             *)
EncodedLength(v) == CHOOSE n \in 1..10 : v < Base^n /\ (n = 1 \/ v >= Base^(n - 1))

(* encode_vi64 without its test of the room: low group first, the top bit  *)
(* of a byte says that another follows                                     *)
RECURSIVE Groups(_)
Groups(v) ==
  IF v <= GroupMax THEN << [more |-> FALSE, v |-> v] >>
  ELSE << [more |-> TRUE, v |-> v % Base] >> \o Groups(v \div Base)

EncodeVi64(room, v) == IF room >= EncodedLength(v) THEN Groups(v) ELSE <<>>

(* decode_vi64: [ok, v, n bytes read]                                      *)
RECURSIVE DecodeVi64(_, _, _, _)
DecodeVi64(bytes, i, shift, v) ==
  IF i > Len(bytes) THEN [ok |-> FALSE, v |-> 0, n |-> 0]
  ELSE LET w == v + bytes[i].v * shift
       IN IF bytes[i].more THEN DecodeVi64(bytes, i + 1, shift * Base, w)
          ELSE [ok |-> TRUE, v |-> w, n |-> i]

(* encode_vstr_with_len: the length, the bytes and a zero                  *)
EncodeVstr(s) == Groups(Len(s)) \o [i \in 1..Len(s) |-> [more |-> FALSE, v |-> s[i]]]
                 \o << [more |-> FALSE, v |-> 0] >>
VstrLength(n) == EncodedLength(n) + n + 1

(* decode_vstr_nocopy: the string and the position after its zero          *)
DecodeVstr(bytes) ==
  LET d == DecodeVi64(bytes, 1, 1, 0)
  IN IF ~d.ok \/ Len(bytes) - d.n < d.v THEN [ok |-> FALSE, s |-> <<>>, n |-> 0]
     ELSE [ok |-> TRUE, s |-> [i \in 1..d.v |-> bytes[d.n + i].v], n |-> d.n + d.v + 1]

(***************************************************************************)
(* Inputs: the server's control information, possibly with a field this    *)
(* version does not know, possibly cut short.                              *)
(***************************************************************************)
ServerFields == {<<id, v>> : id \in {"level", "sample", "slow", "unknown"}, v \in 1..2}
NoControl == [id \in ControlIds |-> 0]

CodecInit == msg = <<>> /\ short = 0 /\ val = 0
AddField == /\ short = 0 /\ val = 0 /\ Len(msg) < MaxFields
            /\ \E f \in ServerFields : msg' = Append(msg, f)
            /\ UNCHANGED <<short, val>>
CutShort == short = 0 /\ msg # <<>> /\ short' \in 1..14 /\ UNCHANGED <<msg, val>>
NextValue == msg = <<>> /\ val < MaxValue /\ val' = val + 1 /\ UNCHANGED <<msg, short>>
CodecNext == AddField \/ CutShort \/ NextValue

FieldOf(f) == <<f[1], IF f[1] = "unknown" THEN <<0, 0>> ELSE Pad(f[2], Width(f[1]))>>
ControlBody(fields) == FoldLeft(LAMBDA b, f : Store(b, f[1], f[2]), <<>>,
                                [i \in 1..Len(fields) |-> FieldOf(fields[i])])
(* What the fields say, the last value of each counting                    *)
Said(fields) == FoldLeft(LAMBDA c, f : IF f[1] \in ControlIds THEN [c EXCEPT ![f[1]] = f[2]] ELSE c,
                         NoControl, fields)
Known(fields) == \A i \in 1..(Len(fields) - 1) : fields[i][1] # "unknown"

(***************************************************************************)
(* Properties                                                              *)
(***************************************************************************)
(* decode_protocol20_extra_info takes from the server's control info       *)
(* exactly what its fields say, when no field but the last is unknown to   *)
(* this version, and finds its end.                                        *)
ControlDecoded ==
  LET body == ControlBody(msg)
      flt == StoreTypeAndLen("control", Len(body)) \o body
      d == DecodeExtra(StoreTypeAndLen("FULL_TRC", Len(flt)) \o flt, 0, NoControl)
  IN (short = 0 /\ Known(msg)) => d.ok /\ d.info = Said(msg)

(* A message that ends inside a field is refused: the field functions      *)
(* compare its length with what is left before they read it.               *)
CutRefused ==
  LET body == ControlBody(msg)
      cut == Len(body) - short
      whole(k) == Len(ControlBody(SubSeq(msg, 1, k))) = cut
  IN (short > 0 /\ cut > 0 /\ Known(Append(msg, msg[1])) /\ ~\E k \in 1..Len(msg) : whole(k))
       => ~DecodeControl(body, cut, 0, NoControl).ok

(* The size functions give the bytes that the serialize functions write,   *)
(* which flt_build_request compares after each: span info, application     *)
(* info and the two texts of a request.                                    *)
SizesAgree ==
  LET s == [i \in 1..val |-> 1]
      app == [identifier |-> s, module |-> IF val % 2 = 1 THEN Null ELSE s,
              action |-> Null, client |-> s]
  IN /\ Len(SpanInfo(s, s, 1)) = SpanInfoSize(val)
     /\ Len(AppInfo(app)) = AppInfoSize(app)
     /\ Len(TextInfo("log", s)) = TextInfoSize(s)

(* encode_vi64 and decode_vi64 are inverse, and encoded_length_vi64 is     *)
(* what encode_vi64 writes, at the boundaries of every group.              *)
VarintRoundTrip ==
  /\ Len(Groups(val)) = EncodedLength(val)
  /\ EncodeVi64(EncodedLength(val) - 1, val) = <<>>
  /\ DecodeVi64(Groups(val), 1, 1, 0) = [ok |-> TRUE, v |-> val, n |-> EncodedLength(val)]

(* A string encoded by encode_vstr_with_len is read back by decode_vstr,   *)
(* which ends where it does.                                               *)
VstrRoundTrip ==
  LET s == [i \in 1..val |-> i % 2]
  IN DecodeVstr(EncodeVstr(s)) = [ok |-> TRUE, s |-> s, n |-> VstrLength(val)]
=============================================================================
