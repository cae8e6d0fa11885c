------------------------------ MODULE TnsNames ------------------------------
(***************************************************************************)
(* The parser of connect descriptors (ob_tnsname.c).  A service is looked  *)
(* up in a tnsnames.ora file, or its description is given as it is.  The   *)
(* text is read through a buffer of fixed size; a symbol stands for a run  *)
(* of characters.  Each step of the machine handles one pair               *)
(* "(key = ...)" of the list being read, the top of the stack.             *)
(***************************************************************************)
EXTENDS Integers, Sequences, FiniteSets, SequencesExt

CONSTANTS TnsBases,      \* texts, as sequences of tokens
          TnsJunk,       \* tokens a text is spoiled with
          TnsBuffers,    \* buffer sizes
          TnsKeySize     \* symbols a key may have

VARIABLES tns

(* The lists: what they may hold.  "sub" opens another list; a number, a   *)
(* text, or one of some words.  The five timeouts of a description are one.*)
DescriptionOptions ==
  [oblb |-> "onoff", retry_timeout |-> "int", oblb_strategy |-> "strategy", oblb_blacklist |-> "sub",
   address_list |-> "sub", connect_data |-> "sub", address |-> "sub"]
BlacklistOptions == [remove_strategy |-> "sub", append_strategy |-> "sub"]
RemoveOptions == [name |-> "remove", timeout |-> "int"]
AppendOptions == [name |-> "append", retry_times |-> "int", duration |-> "int"]
AddressListOptions == [address |-> "sub", oblb_strategy |-> "strategy", oblb |-> "onoff"]
AddressOptions == [protocol |-> "protocol", host |-> "str", port |-> "int", weight |-> "int"]
ConnectDataOptions == [service_name |-> "str", sid |-> "str", ob_mode |-> "int", use_default_sid |-> "int"]
TnsOptions ==
  [service |-> [description |-> "sub"], description |-> DescriptionOptions,
   oblb_blacklist |-> BlacklistOptions, remove_strategy |-> RemoveOptions,
   append_strategy |-> AppendOptions, address_list |-> AddressListOptions,
   address |-> AddressOptions, connect_data |-> ConnectDataOptions]
TnsKeys == UNION {DOMAIN TnsOptions[l] : l \in DOMAIN TnsOptions}
(* ObClientTnsGetKeyType: a key may come in two symbols                    *)
KeyType(k) ==
  IF Len(k) = 1 /\ k[1] \in TnsKeys THEN k[1]
  ELSE IF k = <<"addr", "ess">> THEN "address" ELSE "none"
Numbers == {<<"1">>, <<"5">>, <<"22">>}
(* Words are compared over the length of what is given.                    *)
TnsWords == [onoff |-> {"on", "off", "o"}, strategy |-> {"random", "rotation", "serveraffinity", "r"},
             remove |-> {"timeout"}, append |-> {"normal", "retryduration"}, protocol |-> {"tcp", "tcps"}]
ValueOk(kind, k) ==
  CASE kind = "int" -> k \in Numbers
    [] kind = "str" -> TRUE
    [] OTHER -> Len(k) = 1 /\ k[1] \in TnsWords[kind]

(***************************************************************************)
(* The lexer.  in: [text, pos, lim, eof, comment, key, ktype, tok, size]:  *)
(* the next symbol, the end of what is buffered, the last token accepted   *)
(***************************************************************************)
(* ObClientTnsCheckBuffer *)
TnsHas(in) == in.pos < in.lim
TnsFill(in) ==
  IF TnsHas(in) \/ in.eof THEN in
  ELSE LET lim == IF in.lim + in.size > Len(in.text) THEN Len(in.text) ELSE in.lim + in.size
       IN [in EXCEPT !.lim = lim, !.eof = (lim = in.lim)]
TnsChar(in) == in.text[in.pos + 1]
TnsBlanks == {" ", "\n"}

(* ObClientTnsParseBlank: blanks, and comments up to the end of the line   *)
RECURSIVE TnsParseBlank(_)
TnsParseBlank(i0) ==
  LET in == TnsFill(i0)
  IN IF ~TnsHas(in) THEN in
     ELSE IF in.comment
     THEN TnsParseBlank(IF TnsChar(in) = "\n" THEN [in EXCEPT !.comment = FALSE] ELSE [in EXCEPT !.pos = @ + 1])
     ELSE IF TnsChar(in) \in TnsBlanks THEN TnsParseBlank([in EXCEPT !.pos = @ + 1])
     ELSE IF TnsChar(in) = "#" THEN TnsParseBlank([in EXCEPT !.comment = TRUE])
     ELSE in

(* ObClientTnsParseKey: ends before a blank or a structural character that *)
(* is not quoted; the end of the text is no end of a key                   *)
RECURSIVE TnsParseKey(_, _, _)
TnsParseKey(i0, key, quoted) ==
  LET in == TnsFill(i0)
  IN IF ~TnsHas(in) THEN [ret |-> 100, in |-> in]
     ELSE IF Len(key) = TnsKeySize THEN [ret |-> 0, in |-> [in EXCEPT !.key = key]]
     ELSE IF TnsChar(in) = "\"" THEN TnsParseKey([in EXCEPT !.pos = @ + 1], key, ~quoted)
     ELSE IF quoted \/ TnsChar(in) \notin TnsBlanks \cup {"=", "(", ")"}
     THEN IF Len(key) + 1 = TnsKeySize /\ in.pos + 1 = in.lim THEN [ret |-> -1, in |-> in]
          ELSE TnsParseKey([in EXCEPT !.pos = @ + 1], Append(key, TnsChar(in)), quoted)
     ELSE [ret |-> 0, in |-> [in EXCEPT !.key = key]]

(* ObClientTnsParse: a token that is not the expected one stays unread.    *)
Result(s, r) == [s EXCEPT !.ret = r.ret, !.in = r.in]
TnsToken(s, in, type) ==
  LET got == IF TnsHas(in) /\ TnsChar(in) \in {"=", "(", ")"} THEN TnsChar(in) ELSE "key"
      b == [in EXCEPT !.tok = type]
  IN IF ~TnsHas(in) THEN [s EXCEPT !.ret = 100, !.in = in]
     ELSE IF got # type THEN [s EXCEPT !.ret = -1, !.in = in]
     ELSE IF type # "key" THEN [s EXCEPT !.in = [b EXCEPT !.pos = @ + 1]]
     ELSE Result(s, TnsParseKey(b, <<>>, FALSE))
Expect(s, type) == IF s.ret # 0 THEN s ELSE TnsToken(s, TnsParseBlank(s.in), type)
GetKeyType(s) ==
  IF s.ret # 0 THEN s
  ELSE LET t == KeyType(s.in.key)
       IN [s EXCEPT !.in.ktype = t, !.ret = IF t = "none" THEN -1 ELSE 0]

(***************************************************************************)
(* The lists: a node has a level, the values read and the lists completed  *)
(***************************************************************************)
TnsNode(level) == [level |-> level, vals |-> <<>>, kids |-> <<>>]
Top(s) == s.stack[Len(s.stack)]
Pop(s) == SubSeq(s.stack, 1, Len(s.stack) - 1)
OnTop(s, n) == Append(Pop(s), n)

(* Every loop reads "(", a key, its type and "=", then what the key asks   *)
(* for, then ")".                                                          *)
PairHead(s) == Expect(GetKeyType(Expect(Expect(s, "("), "key")), "=")
KindOf(level, key) == IF key \in DOMAIN TnsOptions[level] THEN TnsOptions[level][key] ELSE "none"
TnsValue(a, kind) ==
  IF a.ret # 0 THEN a
  ELSE IF ~ValueOk(kind, a.in.key) THEN [a EXCEPT !.ret = -1]
  ELSE [a EXCEPT !.stack = OnTop(a, [Top(a) EXCEPT !.vals = Append(@, <<a.in.ktype, a.in.key>>)])]
LoopOrEnd(s) == [s EXCEPT !.at = IF s.ret = 0 THEN "loop" ELSE "end"]
PairBody(h) ==
  LET kind == KindOf(Top(h).level, h.in.ktype)
  IN IF h.ret # 0 THEN LoopOrEnd(h)
     ELSE IF kind = "none" THEN LoopOrEnd([h EXCEPT !.ret = -1])
     ELSE IF kind = "sub" THEN [h EXCEPT !.stack = Append(@, TnsNode(h.in.ktype)), !.at = "loop"]
     ELSE LoopOrEnd(Expect(TnsValue(Expect(h, "key"), kind), ")"))
TnsPair(s) == PairBody(PairHead(s))

(* A loop always ends with an error; it was the normal end when the last   *)
(* token accepted is ")".  The list then belongs to the list above, which  *)
(* expects its own ")".  The connect data reports no error, and a second   *)
(* one is dropped.                                                         *)
(* A description given as it is stands alone.                              *)
Closed(s) ==
  LET d == Len(s.stack) = 1
      t == [s EXCEPT !.parsed = @ \/ (d /\ s.ret = 0)]
  IN IF d /\ s.mode = "alone" THEN [t EXCEPT !.at = "end"] ELSE LoopOrEnd(t)
TnsEnd(s) ==
  LET n == Top(s)
      ok == s.in.tok = ")"
      p == [s EXCEPT !.stack = Pop(s)]
      up == Top(p)
      second == n.level = "connect_data" /\ \E i \in 1..Len(up.kids) : up.kids[i].level = n.level
      q == IF ok /\ ~second THEN [p EXCEPT !.ret = 0, !.stack = OnTop(p, [up EXCEPT !.kids = Append(@, n)])]
           ELSE [p EXCEPT !.ret = IF n.level = "connect_data" THEN 0 ELSE -1]
  IN Closed(Expect(q, ")"))

(* The service itself: at least one description was read to its end, and  *)
(* nothing follows one that is given as it is.                             *)
ServiceEnd(s) ==
  LET found == s.parsed /\ s.in.tok = ")" /\ (s.mode = "file" \/ ~TnsHas(TnsParseBlank(s.in)))
  IN [s EXCEPT !.at = "done", !.find = found, !.out = IF found THEN Top(s) ELSE @]

(* ObClientTnsServiceSkip: over one pair of parentheses, whatever is inside*)
RECURSIVE SkipTo(_, _)
SkipTo(i0, open) ==
  LET in == TnsFill(i0)
  IN IF open = 0 THEN [ret |-> 0, in |-> i0]
     ELSE IF ~TnsHas(in) THEN [ret |-> 100, in |-> in]
     ELSE SkipTo([in EXCEPT !.pos = @ + 1],
                 CASE TnsChar(in) = "(" -> open + 1 [] TnsChar(in) = ")" -> open - 1 [] OTHER -> open)
SkipParens(a) == IF a.ret # 0 THEN a ELSE Result(a, SkipTo(a.in, 1))
ServiceSkip(s) == SkipParens(Expect(s, "("))

(* ObClientTnsBuild: service after service, until the one wanted.  The     *)
(* name of the system variables, or the beginning of it, ends the search.  *)
ScanOrDone(b) == [b EXCEPT !.at = IF b.ret = 0 THEN "scan" ELSE "done"]
ServiceNamed(a) ==
  IF a.ret # 0 THEN [a EXCEPT !.at = "done"]
  ELSE IF a.in.key = <<"db">> THEN [a EXCEPT !.at = "loop", !.stack = <<TnsNode("service")>>]
  ELSE IF a.in.key \in {<<"obcisystemvariables">>, <<"obci">>} THEN [a EXCEPT !.at = "done"]
  ELSE ScanOrDone(ServiceSkip(a))
TnsScan(s) == ServiceNamed(Expect(Expect(s, "key"), "="))

(***************************************************************************)
(* Texts: a base, perhaps with one token dropped or replaced, laid out     *)
(***************************************************************************)
Structure == {<<"(">>, <<")">>, <<"=">>}
Quote(t) == IF t \notin Structure /\ \E i \in 1..Len(t) : t[i] \in TnsBlanks
            THEN <<"\"">> \o t \o <<"\"">> ELSE t
Layout(ts, i, lay) ==
  CASE lay = "tight" -> IF i < Len(ts) /\ ts[i] \notin Structure /\ ts[i + 1] \notin Structure
                        THEN <<" ">> ELSE <<>>
    [] lay = "spaced" -> <<"\n", " ">>
    [] OTHER -> <<" ", "#", "(", "\n">>
RECURSIVE Laid(_, _, _, _)
Laid(ts, a, b, lay) ==
  IF a = b THEN Quote(ts[a]) \o Layout(ts, a, lay)
  ELSE LET mid == (a + b) \div 2 IN Laid(ts, a, mid, lay) \o Laid(ts, mid + 1, b, lay)
TnsText(ts, lay) == Laid(ts, 1, Len(ts), lay)
OtherService == <<<<"o2">>, <<"=">>, <<"(">>, <<"x">>, <<"=">>, <<"(">>, <<")">>, <<")">>>>

TnsInit == tns = [at |-> "idle"]
TnsStart(mode, ts, lay, size) ==
  LET before == IF lay = "tight" THEN <<>> ELSE TnsText(OtherService, "tight")
      text == IF mode = "file" THEN before \o TnsText(<<<<"db">>, <<"=">>>> \o ts, lay) ELSE TnsText(ts, lay)
      in == [text |-> text, pos |-> 0, lim |-> 0, eof |-> FALSE, comment |-> FALSE,
             key |-> <<>>, ktype |-> "none", tok |-> "none", size |-> size]
  IN tns' = [at |-> IF mode = "file" THEN "scan" ELSE "loop", mode |-> mode, ts |-> ts, in |-> in,
             stack |-> <<TnsNode("service")>>, ret |-> 0, parsed |-> FALSE, find |-> FALSE, out |-> TnsNode("none")]

TnsNext ==
  \/ /\ tns.at = "idle"
     /\ \E mode \in {"file", "alone"}, b \in TnsBases :
          \/ \E lay \in {"tight", "spaced", "comment"}, size \in TnsBuffers : TnsStart(mode, b, lay, size)
          \/ \E i \in 1..Len(b) : TnsStart(mode, RemoveAt(b, i), "tight", 64)
          \/ \E i \in 1..Len(b), t \in TnsJunk : TnsStart(mode, ReplaceAt(b, i, t), "tight", 64)
  \/ tns.at = "scan" /\ tns' = TnsScan(tns)
  \/ tns.at = "loop" /\ tns' = TnsPair(tns)
  \/ tns.at = "end" /\ tns' = (IF Len(tns.stack) = 1 THEN ServiceEnd(tns) ELSE TnsEnd(tns))

(***************************************************************************)
(* What a text means, told from the parentheses alone                      *)
(***************************************************************************)
Count(ts, i, t) == Cardinality({k \in 1..i : ts[k] = t})
Depth(ts, i) == Count(ts, i, <<"(">>) - Count(ts, i, <<")">>)
CloseOf(ts, i) == CHOOSE j \in i..Len(ts) : Depth(ts, j) = Depth(ts, i) - 1 /\ \A k \in i..(j - 1) : Depth(ts, k) >= Depth(ts, i)
Opens(ts) == {i \in 1..Len(ts) : ts[i] = <<"(">>}
Around(ts, i) ==
  LET out == {j \in Opens(ts) : j < i /\ i < CloseOf(ts, j)}
  IN IF out = {} THEN "service" ELSE KeyType(ts[(CHOOSE j \in out : \A k \in out : k <= j) + 1])
Balanced(ts) == Depth(ts, Len(ts)) = 0 /\ \A i \in 1..Len(ts) : Depth(ts, i) >= 0
IsKey(t) == t \notin Structure
PairOk(ts, i) ==
  /\ i + 3 <= Len(ts) /\ IsKey(ts[i + 1]) /\ ts[i + 2] = <<"=">>
  /\ Around(ts, i) \in DOMAIN TnsOptions
  /\ LET kind == KindOf(Around(ts, i), KeyType(ts[i + 1]))
     IN /\ kind # "none"
        /\ IF kind = "sub" THEN ts[i + 3] = <<"(">>
           ELSE IsKey(ts[i + 3]) /\ CloseOf(ts, i) = i + 4 /\ ValueOk(kind, ts[i + 3])
WellFormed(ts) ==
  /\ Balanced(ts) /\ Len(ts) > 0 /\ ts[1] = <<"(">>
  /\ \A i \in Opens(ts) : PairOk(ts, i)
  /\ \A i \in 2..Len(ts) :
       /\ ts[i] = <<"=">> => i > 2 /\ ts[i - 2] = <<"(">>
       /\ ts[i] = <<"(">> => ts[i - 1] \in {<<"=">>, <<")">>}
       /\ IsKey(ts[i]) => ts[i - 1] \in {<<"(">>, <<"=">>}
Pairs(ts) ==
  {<<Around(ts, i), KeyType(ts[i + 1]), ts[i + 3]>> : i \in {k \in Opens(ts) : IsKey(ts[k + 3])}}
RECURSIVE PairsOf(_)
PairsOf(n) ==
  {<<n.level, n.vals[i][1], n.vals[i][2]>> : i \in 1..Len(n.vals)}
    \cup UNION {PairsOf(n.kids[i]) : i \in 1..Len(n.kids)}
BadNumberInConnectData(ts) ==
  \E i \in Opens(ts) : i + 3 <= Len(ts) /\ KeyType(ts[i + 1]) \in {"ob_mode", "use_default_sid"} /\ ts[i + 3] \notin Numbers
Alone(ts) == Cardinality({i \in Opens(ts) : Depth(ts, i) = 1}) = 1

(* A descriptor is accepted only when its parentheses match and every list *)
(* in it holds only what may be there (in a file, up to where the next     *)
(* service may begin): a loop that ends on an error passes for a normal    *)
(* end only before its own ")".  (The connect data is excepted: its parser *)
(* loses the error of a bad number.)                                       *)
AcceptedWellFormed ==
  tns.at = "done" /\ tns.find =>
    \/ WellFormed(tns.ts) \/ BadNumberInConnectData(tns.ts)
    \/ tns.mode = "file" /\ \E n \in 1..Len(tns.ts) : WellFormed(SubSeq(tns.ts, 1, n))

(* A well formed descriptor is accepted, whatever the blanks, the comments *)
(* and the services before it, and all it says has been read: wherever the *)
(* buffer of ObClientTnsCheckBuffer ends within a token or a comment.      *)
WellFormedRead ==
  tns.at = "done" /\ WellFormed(tns.ts) /\ (tns.mode = "file" \/ Alone(tns.ts)) =>
    tns.find /\ PairsOf(tns.out) = Pairs(tns.ts)
=============================================================================
