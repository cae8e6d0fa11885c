------------------------------ MODULE TextNum -------------------------------
(***************************************************************************)
(* Text that a prepared statement returns into a number or a MYSQL_TIME,   *)
(* and dates and times that it returns into text (ma_stmt_codec.c).  A     *)
(* text is a sequence of ASCII codes; positions count from 1.              *)
(***************************************************************************)
EXTENDS Integers, Sequences, SequencesExt, Functions

CONSTANTS Radix        \* values of a byte (256 in the code)

ULongLongMax == Radix ^ 8 - 1
LongLongMax == (Radix ^ 8) \div 2 - 1

Minus == 45
Dot == 46
Colon == 58
Space == 32
IsDigit(c) == c \in 48..57
RECURSIVE SkipSpaces(_, _)
SkipSpaces(s, i) == IF i <= Len(s) /\ s[i] = Space THEN SkipSpaces(s, i + 1) ELSE i

RECURSIVE DecDigits(_)
DecDigits(n) == IF n < 10 THEN <<48 + n>> ELSE DecDigits(n \div 10) \o <<48 + (n % 10)>>
DecText(n) == IF n < 0 THEN <<Minus>> \o DecDigits(-n) ELSE DecDigits(n)
PadLeft(s, w) == [i \in 1..(IF Len(s) < w THEN w - Len(s) ELSE 0) |-> 48] \o s

(***************************************************************************)
(* Numbers                                                                 *)
(***************************************************************************)
(* The loop of my_strtoull: [v, end, err], end the first character not read*)
RECURSIVE DigitLoop(_, _, _)
DigitLoop(s, i, v) ==
  IF i > Len(s) \/ ~IsDigit(s[i]) THEN [v |-> v, end |-> i, err |-> FALSE]
  ELSE IF v > ULongLongMax \div 10 \/ v * 10 > ULongLongMax - (s[i] - 48)
       THEN [v |-> v, end |-> i, err |-> TRUE]
       ELSE DigitLoop(s, i + 1, v * 10 + (s[i] - 48))
Strtoull(s, i) == LET r == DigitLoop(s, i, 0) IN [r EXCEPT !.err = @ \/ r.end = i]

(* my_strtoll: the error flag comes with the end of what was understood    *)
WithSign(neg, u) ==
  IF u.err THEN u
  ELSE IF neg /\ u.v = LongLongMax + 1 THEN [u EXCEPT !.v = -u.v]
  ELSE IF u.v > LongLongMax
       THEN [v |-> IF neg THEN -LongLongMax - 1 ELSE LongLongMax, end |-> u.end - 1, err |-> TRUE]
       ELSE [u EXCEPT !.v = IF neg THEN -u.v ELSE u.v]
Strtoll(s, i) ==
  LET p == SkipSpaces(s, i)
      neg == p <= Len(s) /\ s[p] = Minus
  IN IF p > Len(s) THEN [v |-> 0, end |-> p, err |-> TRUE]
     ELSE WithSign(neg, Strtoull(s, IF neg THEN p + 1 ELSE p))

(* my_atoll and my_atoull: spaces around the number, anything else is an   *)
(* error, and the value is what was read so far                            *)
Whole(s, r) == [v |-> r.v, err |-> r.err \/ SkipSpaces(s, r.end) # Len(s) + 1]
Atoll(s) == Whole(s, Strtoll(s, SkipSpaces(s, 1)))
Atoull(s) == Whole(s, Strtoull(s, SkipSpaces(s, 1)))

(***************************************************************************)
(* Dates and times                                                         *)
(***************************************************************************)
TimeZero == [type |-> "error", year |-> 0, month |-> 0, day |-> 0, hour |-> 0,
             minute |-> 0, second |-> 0, part |-> 0, neg |-> FALSE]
(* a number of at most max, followed by the delimiter unless it is 0       *)
Part(s, i, max, delim) ==
  LET r == Strtoull(s, i)
  IN [v |-> r.v, next |-> r.end + 1,
      ok |-> ~r.err /\ r.v <= max
             /\ (delim # 0 => r.end <= Len(s) /\ s[r.end] = delim)]

(* The fraction: at most six digits, scaled by the number of characters    *)
(* left, not of digits read                                                *)
Fraction(s, i) ==
  LET len == IF Len(s) - i + 1 < 6 THEN Len(s) - i + 1 ELSE 6
      r == Strtoull(SubSeq(s, 1, i + len - 1), i)
  IN IF r.err THEN r.v ELSE r.v * 10 ^ (6 - len)

(* parts one after the other, each given by its maximum and delimiter      *)
Parts(s, i, limits) ==
  FoldLeft(LAMBDA ps, l : Append(ps, Part(s, IF ps = <<>> THEN i ELSE Last(ps).next, l[1], l[2])),
           <<>>, limits)
AllOk(ps) == \A k \in 1..Len(ps) : ps[k].ok

(* parse_time                                                              *)
TimeOfParts(s, tm, ps) ==
  LET end == ps[3].next - 1
      dot == end <= Len(s) /\ s[end] = Dot
  IN IF AllOk(ps)
     THEN [ok |-> TRUE,
           tm |-> [tm EXCEPT !.hour = ps[1].v, !.minute = ps[2].v, !.second = ps[3].v,
                             !.part = IF dot THEN Fraction(s, end + 1) ELSE 0]]
     ELSE [ok |-> FALSE, tm |-> tm]
ParseTime(s, i, tm) == TimeOfParts(s, tm, Parts(s, i, <<<<838, Colon>>, <<59, Colon>>, <<59, 0>>>>))

(* parse_date: a year of two digits is in 1970..2069                       *)
DateOfParts(i, ps) ==
  LET century == IF ps[1].next - 1 - i # 2 THEN 0 ELSE IF ps[1].v >= 70 THEN 1900 ELSE 2000
  IN IF AllOk(ps)
     THEN [ok |-> TRUE, next |-> ps[3].next - 1,
           tm |-> [TimeZero EXCEPT !.year = ps[1].v + century, !.month = ps[2].v, !.day = ps[3].v]]
     ELSE [ok |-> FALSE, next |-> i, tm |-> TimeZero]
ParseDate(s, i) == DateOfParts(i, Parts(s, i, <<<<9999, Minus>>, <<12, Minus>>, <<31, 0>>>>))

(* str_to_TIME: the first delimiter after the first character decides what *)
(* the text is, a sign makes it a time                                     *)
RECURSIVE TrimEnd(_)
TrimEnd(s) == IF s # <<>> /\ Last(s) = Space THEN TrimEnd(Front(s)) ELSE s
Timely(t, type, maxHour) == IF t.ok /\ t.tm.hour <= maxHour THEN [t.tm EXCEPT !.type = type] ELSE TimeZero
Dated(s, d) ==
  IF ~d.ok THEN TimeZero
  ELSE IF d.next > Len(s) \/ s[d.next] # Space THEN [d.tm EXCEPT !.type = "date"]
  ELSE Timely(ParseTime(s, d.next + 1, d.tm), "datetime", 23)
StrToTime(text) ==
  LET p == SkipSpaces(text, 1)
      s == TrimEnd(text)
      neg == s[p] = Minus
      delims == {i \in p + 1..Len(s) : s[i] \in {Minus, Colon}}
      isTime == neg \/ (delims # {} /\ s[CHOOSE i \in delims : \A k \in delims : i <= k] = Colon)
  IN IF Len(s) - p + 1 < 5 THEN TimeZero
     ELSE IF isTime
       THEN Timely(ParseTime(s, IF neg THEN p + 1 ELSE p, [TimeZero EXCEPT !.neg = neg]), "time", 838)
     ELSE Dated(s, ParseDate(s, p))

(* The text ps_fetch_datetime makes of a column of that type and decimals  *)
TextFraction(tm, dec) ==
  IF dec \in 1..6 THEN <<Dot>> \o SubSeq(PadLeft(DecDigits(tm.part), 6), 1, dec) ELSE <<>>
Clock(tm) ==
  PadLeft(DecDigits(tm.hour), 2) \o <<Colon>> \o PadLeft(DecDigits(tm.minute), 2)
    \o <<Colon>> \o PadLeft(DecDigits(tm.second), 2)
Calendar(tm) ==
  PadLeft(DecDigits(tm.year), 4) \o <<Minus>> \o PadLeft(DecDigits(tm.month), 2)
    \o <<Minus>> \o PadLeft(DecDigits(tm.day), 2)
TimeText(type, tm, dec) ==
  CASE type = "date" -> Calendar(tm)
    [] type = "time" -> (IF tm.neg THEN <<Minus>> ELSE <<>>) \o Clock(tm) \o TextFraction(tm, dec)
    [] type = "datetime" -> Calendar(tm) \o <<Space>> \o Clock(tm) \o TextFraction(tm, dec)

(***************************************************************************)
(* Inputs: numbers with something before and after them, and times         *)
(***************************************************************************)
CONSTANTS TextNumbers, TextYears, TextHours, TextParts

VARIABLES ttext,   \* [n, s]: a text and the number it was made from
          ttime    \* [tm, dec]: a time and the decimals of its column

TextInit ==
  /\ ttext = [n |-> 0, s |-> <<48>>, junk |-> FALSE]
  /\ ttime = [tm |-> [TimeZero EXCEPT !.type = "time"], dec |-> 0]

TakeNumber ==
  /\ ttext.s = <<48>> /\ ttime.tm = [TimeZero EXCEPT !.type = "time"]
  /\ \E n \in TextNumbers, pre \in {<<>>, <<Space>>, <<48>>}, suf \in {<<>>, <<Space>>, <<Dot>>} :
       /\ n < 0 => pre # <<48>>
       /\ ttext' = [n |-> n, s |-> pre \o DecText(n) \o suf, junk |-> suf = <<Dot>>]
  /\ UNCHANGED ttime

TakeTime ==
  /\ \/ \E y \in TextYears, m \in {1, 12}, d \in {1, 31}, t \in {"date", "datetime"} :
          /\ ttime.tm = [TimeZero EXCEPT !.type = "time"]
          /\ ttime' = [tm |-> [TimeZero EXCEPT !.type = t, !.year = y, !.month = m, !.day = d],
                       dec |-> 0]
     \/ \E h \in TextHours, m \in {0, 59}, neg \in BOOLEAN :
          /\ ttime.tm.type \in {"time", "datetime"} /\ ttime.dec = 0
          /\ ttime.tm.type = "datetime" => h <= 23 /\ ~neg
          /\ ttime' = [ttime EXCEPT !.tm.hour = h, !.tm.minute = m, !.tm.second = 59 - m,
                                    !.tm.neg = neg]
     \/ \E p \in TextParts, k \in 1..6 :
          /\ ttime.tm.type \in {"time", "datetime"}
          /\ ttime' = [ttime EXCEPT !.tm.part = p, !.dec = k]
  /\ UNCHANGED ttext

TextNext == TakeNumber \/ (ttext.s = <<48>> /\ TakeTime)

(* A text column read into an integer either gives the number the text     *)
(* stands for or an error: at the limits of the type, with spaces, leading *)
(* zeros and trailing junk (my_atoll, my_atoull).                          *)
AtollExact ==
  LET r == Atoll(ttext.s)
      u == Atoull(ttext.s)
  IN /\ r.err <=> ttext.junk \/ ttext.n \notin -LongLongMax - 1..LongLongMax
     /\ ~r.err => r.v = ttext.n
     /\ u.err <=> ttext.junk \/ ttext.n \notin 0..ULongLongMax
     /\ ~u.err => u.v = ttext.n

(* A date or time printed for a text buffer and parsed again is the same,  *)
(* its fraction cut to the decimals of the column: what is fetched as text *)
(* and what is fetched from text agree (ps_fetch_datetime, str_to_TIME).   *)
TimeTextRoundTrip ==
  LET tm == ttime.tm
      unit == 10 ^ (6 - ttime.dec)
      cut == IF ttime.dec = 0 THEN 0 ELSE tm.part - (tm.part % unit)
  IN StrToTime(TimeText(tm.type, tm, ttime.dec)) = [tm EXCEPT !.part = cut]
=============================================================================
