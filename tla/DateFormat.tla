----------------------------- MODULE DateFormat -----------------------------
(***************************************************************************)
(* Oracle date format models (ob_oracle_format_models.c): the calendar, a  *)
(* time printed under a format, the length foreseen for that text, and the *)
(* text read back.                                                         *)
(*                                                                         *)
(* A format is what parse_datetime_format_string makes of its text: a      *)
(* sequence of [sep, flag], the separators before an element and the       *)
(* element, and the separators behind the last one.  A text is a sequence  *)
(* of characters; a name (of a month, a day, AM, BC) is one symbol and a   *)
(* filler for each of its further letters, so that widths are the code's.  *)
(***************************************************************************)
EXTENDS Integers, Sequences, FiniteSets, SequencesExt, Functions, TLC

(***************************************************************************)
(* The calendar                                                            *)
(***************************************************************************)
(* C's division                                                            *)
Quot(a, b) == IF a < 0 THEN -((-a) \div b) ELSE a \div b
Rem(a, b) == a - b * Quot(a, b)
AbsInt(n) == IF n < 0 THEN -n ELSE n

LeapYears(y) == Quot(y, 4) - Quot(y, 100) + Quot(y, 400)     \* LEAP_YEAR_COUNT
IsLeap(y) == y % 4 = 0 /\ (y % 100 # 0 \/ y % 400 = 0)
DaysUntil(y) ==
  LET feb == IF IsLeap(y) THEN 1 ELSE 0
      common == <<0, 31, 59, 90, 120, 151, 181, 212, 243, 273, 304, 334, 365>>
  IN [m \in 0..12 |-> common[m + 1] + (IF m >= 2 THEN feb ELSE 0)]
DaysPerMon(y, m) == DaysUntil(y)[m] - DaysUntil(y)[m - 1]
DaysPerYear(y) == IF IsLeap(y) THEN 366 ELSE 365

EpochWday == 4
(* WDAY_OFFSET, for offsets between -6 and 6                               *)
WdayOffset(n, wday) == ((wday - 1 + n) % 7) + 1

(* ob_time_to_date sets the day of the year and of the week on its way     *)
ObTimeToDate(t) ==
  LET yday == DaysUntil(t.year)[t.mon - 1] + t.mday
      date == (t.year - 1970) * 365 + LeapYears(t.year - 1) - LeapYears(1969) + yday - 1
  IN [t EXCEPT !.yday = yday, !.date = date, !.wday = WdayOffset(Rem(date, 7), EpochWday)]

(* date_to_ob_time: the year by repeated correction, then the month        *)
RECURSIVE YearOf(_, _)
YearOf(year, days) ==
  IF days >= 0 /\ days < DaysPerYear(year) THEN <<year, days>>
  ELSE LET next == year + Quot(days, 365) - (IF days < 0 THEN 1 ELSE 0)
       IN YearOf(next, days - ((next - year) * 365 + LeapYears(next - 1) - LeapYears(year - 1)))
MonthOf(year, yday) ==                            \* get_day_and_month_from_year_day
  CHOOSE m \in 1..12 : DaysUntil(year)[m - 1] < yday /\ yday <= DaysUntil(year)[m]
DateToObTime(date) ==
  LET y == YearOf(1970, date)
      m == MonthOf(y[1], y[2] + 1)
  IN [year |-> y[1], mon |-> m, mday |-> y[2] + 1 - DaysUntil(y[1])[m - 1],
      date |-> date, yday |-> y[2] + 1, wday |-> WdayOffset(Rem(date, 7), EpochWday)]

(* ob_time_to_week in the mode of IW: weeks begin on Monday, the first has *)
(* four days or more.  YDAY_WEEK1: the day of the year week 1 begins on.   *)
YdayWeek1 == <<1, 0, -1, -2, 4, 3, 2>>
ThisOrPrevWeek(t) ==
  LET week1 == YdayWeek1[WdayOffset(Rem(1 - t.yday, 7), t.wday)]
      prev == DaysPerYear(t.year - 1)
      prev1 == YdayWeek1[WdayOffset(Rem(1 - prev - t.yday, 7), t.wday)]
  IN IF t.yday < week1 THEN (prev + t.yday - prev1 + 7) \div 7
     ELSE (t.yday - week1 + 7) \div 7
IsoWeek(t) ==
  LET days == DaysPerYear(t.year)
      next1 == YdayWeek1[WdayOffset(days - t.yday + 1, t.wday)]
  IN IF t.yday > 362 /\ t.yday >= days + next1 THEN 1 ELSE ThisOrPrevWeek(t)

(***************************************************************************)
(* Printing                                                                *)
(***************************************************************************)
Repeat(g, n) == [i \in 1..n |-> g]
Blank == " "
Digit == <<"0", "1", "2", "3", "4", "5", "6", "7", "8", "9">>
RECURSIVE Decimal(_)
Decimal(n) == IF n < 10 THEN <<Digit[n + 1]>> ELSE Decimal(n \div 10) \o <<Digit[(n % 10) + 1]>>
(* "%0wd": the sign counts in the width                                    *)
Num(n, w) ==
  LET d == Decimal(AbsInt(n))
      s == IF n < 0 THEN <<"-">> ELSE <<>>
      zeros == w - Len(d) - Len(s)
  IN s \o (IF zeros > 0 THEN Repeat("0", zeros) ELSE <<>>) \o d

Name(symbol, len) == <<symbol>> \o Repeat("~", len - 1)
WdayLen == <<6, 7, 9, 8, 6, 8, 6>>
MonLen == <<7, 8, 5, 5, 3, 4, 4, 6, 9, 7, 8, 8>>
NullWord == Name("null", 4)                                    \* index 0 of the tables
WdayName(d) == IF d = 0 THEN NullWord ELSE Name("wday" \o ToString(d), WdayLen[d])
WdayAbbr(d) == IF d = 0 THEN NullWord ELSE Name("wday" \o ToString(d), 3)
MonName(m) == IF m = 0 THEN NullWord ELSE Name("mon" \o ToString(m), MonLen[m])
MonAbbr(m) == IF m = 0 THEN NullWord ELSE Name("mon" \o ToString(m), 3)
Padded(name) == name \o Repeat(Blank, 9 - Len(name))

Era == {"AD", "BC"}
Era2 == {"AD2", "BC2"}
Meridian == {"AM", "PM"}
Meridian2 == {"AM2", "PM2"}
Fractions == [FF1 |-> 1, FF2 |-> 2, FF3 |-> 3, FF6 |-> 6, FF9 |-> 9]
(* what printf prints for the elements that are numbers: the zone, the     *)
(* year and the smaller parts                                              *)
NumberZone(flag, t) ==
  CASE flag = "TZD" -> t.tzd
    [] flag = "TZR" /\ t.tz # <<>> -> t.tz
    [] flag = "TZR" -> <<IF t.off < 0 THEN "-" ELSE "+">> \o Num(AbsInt(t.off) \div 60, 2)
                       \o <<":">> \o Num(AbsInt(t.off) % 60, 2)
    [] flag = "TZH" -> <<IF t.off < 0 THEN "-" ELSE "+">> \o Num(AbsInt(t.off) \div 60, 2)
    [] flag = "TZM" -> Num(AbsInt(t.off) % 60, 2)
    [] flag = "X" -> <<".">>
    [] OTHER -> <<>>
NumberYear(flag, t) ==
  CASE flag = "Q" -> Num((t.mon + 2) \div 3, 1)
    [] flag = "RR" -> Num(Rem(t.year, 100), 2)
    [] flag = "RRRR" -> Num(t.year, 4)
    [] flag = "SS" -> Num(t.sec, 2)
    [] flag = "SSSSS" -> Num(t.hour * 3600 + t.min * 60 + t.sec, 5)
    [] flag = "WW" -> Num(Quot(t.yday - 1, 7) + 1, 2)
    [] flag = "W" -> Num(Quot(t.mday - 1, 7) + 1, 1)
    [] flag = "YGYYY" -> Num(AbsInt(t.year) \div 1000, 1) \o <<",">> \o Num(AbsInt(t.year) % 1000, 3)
    [] flag = "SYYYY" -> <<IF t.year < 0 THEN "-" ELSE Blank>> \o Num(AbsInt(t.year), 4)
    [] flag \in {"YYYY", "IYYY"} -> Num(AbsInt(t.year), 4)
    [] flag \in {"YYY", "IYY"} -> Num(AbsInt(t.year) % 1000, 3)
    [] flag \in {"YY", "IY"} -> Num(AbsInt(t.year) % 100, 2)
    [] flag \in {"Y", "I"} -> Num(AbsInt(t.year) % 10, 1)
    [] OTHER -> NumberZone(flag, t)
NumberText(flag, t) ==
  CASE flag = "CC" -> Num((AbsInt(t.year) + 99) \div 100, 2)
    [] flag = "SCC" -> <<IF t.year > 0 THEN Blank ELSE "-">> \o Num((AbsInt(t.year) + 99) \div 100, 2)
    [] flag = "D" -> Num((t.wday % 7) + 1, 1)
    [] flag = "DD" -> Num(t.mday, 2)
    [] flag = "DDD" -> Num(t.yday, 3)
    [] flag = "DS" -> Num(t.mon, 2) \o <<"/">> \o Num(t.mday, 2) \o <<"/">> \o Num(t.year, 1)
    [] flag = "DL" -> WdayName(t.wday) \o <<",", Blank>> \o MonName(t.mon) \o <<Blank>>
                      \o Num(t.mday, 2) \o <<",", Blank>> \o Num(t.year, 1)
    [] flag \in {"HH", "HH12"} -> Num(IF t.hour % 12 = 0 THEN 12 ELSE t.hour % 12, 2)
    [] flag = "HH24" -> Num(t.hour, 2)
    [] flag = "IW" -> Num(IsoWeek(t), 2)
    [] flag = "MI" -> Num(t.min, 2)
    [] flag = "MM" -> Num(t.mon, 2)
    [] OTHER -> NumberYear(flag, t)
(* special_mode_sprintf's part: names                                      *)
Word(flag, t) ==
  CASE flag \in Era -> Name(IF t.year > 0 THEN "AD" ELSE "BC", 2)
    [] flag \in Era2 -> Name(IF t.year > 0 THEN "A.D." ELSE "B.C.", 4)
    [] flag \in Meridian -> Name(IF t.hour >= 12 THEN "PM" ELSE "AM", 2)
    [] flag \in Meridian2 -> Name(IF t.hour >= 12 THEN "P.M." ELSE "A.M.", 4)
    [] flag = "DAY" -> Padded(WdayName(t.wday))
    [] flag = "DY" -> WdayAbbr(t.wday)
    [] flag = "MONTH" -> Padded(MonName(t.mon))
    [] flag = "MON" -> MonAbbr(t.mon)
    [] OTHER -> <<>>
Words == Era \cup Era2 \cup Meridian \cup Meridian2 \cup {"DAY", "DY", "MONTH", "MON"}
(* data_fmt_nd's part: the first n digits of the nanoseconds               *)
NanoDigits(t, n) == Num(t.nano \div 10 ^ (9 - n), n)
Scale(flag, scale) == IF flag = "FF" THEN scale ELSE Fractions[flag]
IsFraction(flag) == flag = "FF" \/ flag \in DOMAIN Fractions

(* Elements that parse_one_elem finds and no printer prints, and one that  *)
(* has a number, a group and no pattern, which it never finds              *)
Unprinted == {"YEAR", "SYEAR"}
Unknown == {"J"}

(* databuff_printf keeps what fits and a 0; special_mode_sprintf and       *)
(* data_fmt_nd print all or nothing, the second without room for a 0       *)
Printf(o, w) ==
  LET room == o.room - Len(o.text)
  IN IF room <= 0 THEN [o EXCEPT !.ok = FALSE]
     ELSE IF Len(w) < room THEN [o EXCEPT !.text = @ \o w]
     ELSE [o EXCEPT !.text = @ \o SubSeq(w, 1, room - 1), !.ok = FALSE]
Sprintf(o, w) ==
  IF Len(o.text) + Len(w) >= o.room THEN [o EXCEPT !.ok = FALSE] ELSE [o EXCEPT !.text = @ \o w]
FmtNd(o, w) ==
  IF Len(w) > o.room - Len(o.text) THEN [o EXCEPT !.ok = FALSE] ELSE [o EXCEPT !.text = @ \o w]

PrintElem(o, flag, t, scale) ==
  CASE flag \in Unprinted -> [o EXCEPT !.ok = FALSE]
    [] flag \in Words -> Sprintf(o, Word(flag, t))
    [] IsFraction(flag) -> IF Scale(flag, scale) = 0 THEN o
                           ELSE FmtNd(o, NanoDigits(t, Scale(flag, scale)))
    [] flag = "TZD" /\ t.tz = <<>> -> o
    [] OTHER -> Printf(o, NumberText(flag, t))
Separators(o, sep) == IF sep = <<>> \/ ~o.ok THEN o ELSE Printf(o, sep)

(* parse_datetime_format_string fails on the first pattern it does not know*)
Parsed(fmt) == \A i \in 1..Len(fmt.elems) : fmt.elems[i].flag \notin Unknown

(* ob_time_to_str_oracle_dfm into a buffer of the given room               *)
TimeToStr(t, fmt, scale, room) ==
  LET step(o, e) == LET s == Separators(o, e.sep)
                    IN IF s.ok THEN PrintElem(s, e.flag, t, scale) ELSE s
  IN IF room <= 0 \/ ~Parsed(fmt) THEN [text |-> <<>>, ok |-> FALSE, room |-> room]
     ELSE Separators(FoldLeft(step, [text |-> <<>>, ok |-> TRUE, room |-> room], fmt.elems), fmt.tail)

(***************************************************************************)
(* The length foreseen: calculate_str_oracle_dfm_length                    *)
(***************************************************************************)
TwoWide == Era \cup Meridian \cup
  {"CC", "SCC", "DD", "HH", "HH12", "HH24", "IW", "MI", "MM", "RR", "SS", "WW", "YY", "IY", "TZM"}
ThreeWide == {"DDD", "YYY", "IYY", "TZH"}
FourWide == Era2 \cup Meridian2 \cup {"RRRR", "YYYY", "IYYY"}
FiveWide == {"SSSSS", "YGYYY", "SYYYY"}
WidthOf(flag, t, scale) ==
  CASE flag \in TwoWide -> 2 [] flag \in ThreeWide -> 3
    [] flag \in FourWide -> 4 [] flag \in FiveWide -> 5
    [] flag \in {"DAY", "MONTH"} -> 9
    [] flag = "DY" -> Len(WdayAbbr(t.wday)) [] flag = "MON" -> Len(MonAbbr(t.mon))
    [] flag = "DS" -> 7
    [] flag = "DL" -> Len(WdayName(t.wday)) + 2 + Len(MonName(t.mon)) + 6
    [] IsFraction(flag) -> Scale(flag, scale)
    [] flag = "TZD" -> IF t.tz = <<>> THEN 0 ELSE Len(t.tzd)
    [] flag = "TZR" -> IF t.tz = <<>> THEN 6 ELSE Len(t.tz)
    [] OTHER -> 1
(* An element it cannot measure ends the count, which stands as it is.     *)
DfmLength(t, fmt, scale) ==
  LET step(a, e) == IF ~a.ok THEN a
                    ELSE IF e.flag \in Unprinted THEN [len |-> a.len + Len(e.sep), ok |-> FALSE]
                    ELSE [a EXCEPT !.len = @ + Len(e.sep) + WidthOf(e.flag, t, scale)]
      all == FoldLeft(step, [len |-> 0, ok |-> TRUE], fmt.elems)
  IN IF ~Parsed(fmt) THEN 0 ELSE all.len + (IF all.ok THEN Len(fmt.tail) ELSE 0)

(* The elements whose text can be longer than the length foreseen for them:*)
(* SCC, DS and DL in every year, CC in the hundredth century, RR and RRRR  *)
(* in years before Christ                                                  *)
Underrated(flag, t) ==
  \/ flag \in {"SCC", "DS", "DL"}
  \/ flag = "CC" /\ AbsInt(t.year) > 9900
  \/ flag \in {"RR", "RRRR"} /\ t.year < 0

(***************************************************************************)
(* str_to_ob_time_oracle_dfm: a text read under an Oracle date format, and *)
(* the state machine that walks through days and formats.                  *)
(***************************************************************************)
(***************************************************************************)
(* Characters                                                              *)
(***************************************************************************)
DfmDigits == Range(Digit)
ValueOf(c) == (CHOOSE i \in 1..10 : Digit[i] = c) - 1
SplitChars == {Blank, "-", "/", ":", ".", ",", "+"}                \* is_split_char
SignChars == {"-", "+"}
(* how many of the first (at most limit) characters are in the set         *)
RunOf(text, set, limit) ==
  LET max == IF Len(text) < limit THEN Len(text) ELSE limit
  IN CHOOSE n \in 0..max : /\ \A i \in 1..n : text[i] \in set
                           /\ n = max \/ text[n + 1] \notin set
DigitsValue(w) == FoldLeft(LAMBDA a, c : 10 * a + ValueOf(c), 0, w)
Drop(text, n) == SubSeq(text, n + 1, Len(text))
StartsWith(text, w) == Len(text) >= Len(w) /\ SubSeq(text, 1, Len(w)) = w
NoLimit == 1000000

(***************************************************************************)
(* Formats: check_semantic and the tables                                  *)
(***************************************************************************)
YearGroup == {"YGYYY", "YYYY", "SYYYY", "YYY", "YY", "Y", "RR", "RRRR"}
WeekdayGroup == {"D", "DAY", "DY"}
MonthGroup == {"MM", "MONTH", "MON"}
HourGroup == {"HH", "HH12", "HH24"}
NeverGroup == {"CC", "SCC", "IW", "I", "IY", "IYY", "IYYY", "WW", "W", "YEAR", "SYEAR"}
MeridianGroup == Meridian \cup Meridian2
ConflictGroups == {YearGroup, WeekdayGroup, MonthGroup, HourGroup, NeverGroup, MeridianGroup,
                   Era \cup Era2, {"DDD"}}
FlagsOf(fmt) == {fmt.elems[i].flag : i \in DOMAIN fmt.elems}
CheckSemantic(fmt) ==
  LET flag(i) == fmt.elems[i].flag
  IN /\ \A i, k \in DOMAIN fmt.elems : i # k =>
          flag(i) # flag(k) /\ ~\E g \in ConflictGroups : {flag(i), flag(k)} \subseteq g
     /\ "TZM" \in FlagsOf(fmt) => "TZH" \in FlagsOf(fmt)
CanOmit(flag) ==                                                   \* is_element_can_omit
  flag \notin YearGroup \cup WeekdayGroup \cup MonthGroup \cup {"DD", "DS", "DL"}
ExpectedLength(flag) ==
  CASE flag \in {"D", "Y", "FF1"} -> 1
    [] flag \in {"DD", "FF2", "MI", "MM", "SS", "YY", "TZH", "TZM"} \cup HourGroup -> 2
    [] flag \in {"DDD", "FF3", "YYY"} -> 3
    [] flag \in {"YYYY", "SYYYY"} -> 4
    [] flag \in {"SSSSS", "YGYYY"} -> 5
    [] flag = "FF6" -> 6 [] flag \in {"FF", "FF9"} -> 9 [] OTHER -> 0

(***************************************************************************)
(* The reader's state: the rest of the text and the character before it,   *)
(* the parts read and which of them are set, and the values that wait for  *)
(* the end (day of year and week, twelve hour clock, zone)                 *)
(***************************************************************************)
NoParts == [year |-> 0, mon |-> 0, mday |-> 0, hour |-> 0, min |-> 0, sec |-> 0, nano |-> 0,
            date |-> 0, yday |-> 0, wday |-> 0, off |-> 0, tz |-> <<>>, tzd |-> <<>>]
NoValue == -1
Reader(text) ==
  [in |-> text, prev |-> "", ok |-> TRUE, over |-> FALSE, omitted |-> {},
   p |-> NoParts, set |-> {}, yday |-> NoValue, wday |-> NoValue, hh12 |-> 0,
   pm |-> FALSE, bc |-> FALSE, nofraction |-> FALSE, digitzone |-> FALSE,
   tzh |-> NoValue, tzm |-> NoValue, sign |-> 0]
Refuse(r) == [r EXCEPT !.ok = FALSE]
Advance(r, n) ==
  IF n = 0 THEN r ELSE [r EXCEPT !.in = Drop(r.in, n), !.prev = r.in[n]]

SetDirectly(r, part, v) == [r EXCEPT !.p[part] = v, !.set = @ \cup {part}]
SetMayConflict(r, part, v) ==
  IF part \in r.set THEN (IF r.p[part] = v THEN r ELSE Refuse(r)) ELSE SetDirectly(r, part, v)

(* match_int_value and check_int_value_length: when the text leaves out the*)
(* separators of the format, a number must have its full width             *)
MatchInt(text, width, flag, fixed) ==
  LET n == RunOf(text, DfmDigits, width)
      legal == CASE ~fixed -> TRUE
                 [] fixed /\ flag \in {"RR", "RRRR"} -> n \in {2, 4}
                 [] OTHER -> width = 0 \/ n = width
  IN [ok |-> text # <<>> /\ text[1] \in DfmDigits /\ legal, len |-> n,
      v |-> DigitsValue(SubSeq(text, 1, n))]
(* match_int_value_with_comma: commas between digits do not count          *)
RECURSIVE CommaRun(_, _, _, _)
CommaRun(text, width, commas, m) ==
  IF m.len >= Len(text) \/ m.digits >= width THEN m
  ELSE LET c == text[m.len + 1]
       IN CASE c = "," -> IF commas = 1 THEN [m EXCEPT !.len = @ - 1]
                          ELSE CommaRun(text, width, 1, [m EXCEPT !.len = @ + 1])
            [] c \in SplitChars -> m
            [] c \in DfmDigits -> CommaRun(text, width, 0,
                 [m EXCEPT !.len = @ + 1, !.digits = @ + 1, !.v = 10 * @ + ValueOf(c)])
            [] OTHER -> [m EXCEPT !.ok = FALSE]
MatchComma(text, width, fixed) ==
  LET m == CommaRun(text, width, 0, [ok |-> text # <<>>, len |-> 0, digits |-> 0, v |-> 0])
  IN [m EXCEPT !.ok = @ /\ (fixed => m.len = width)]
(* match_chars_until_space                                                 *)
UntilSpace(text) == SelectInSeq(Append(text, Blank), LAMBDA c : c = Blank) - 1

(***************************************************************************)
(* The elements.  c: the separators skipped before this one and what they  *)
(* mean for it.                                                            *)
(***************************************************************************)
(* a number in its limits, given to the reader by set(r, v)                *)
Numeric(r, flag, c, limits, set(_, _)) ==
  LET m == MatchInt(r.in, ExpectedLength(flag), flag, c.fixed)
  IN IF m.ok /\ m.v \in limits THEN set(Advance(r, m.len), m.v) ELSE Refuse(r)
(* one of two words                                                        *)
EitherWord(r, first, second, len, set(_, _)) ==
  LET a == StartsWith(r.in, Name(first, len))
      b == StartsWith(r.in, Name(second, len))
  IN IF a \/ b THEN set(Advance(r, len), b) ELSE Refuse(r)
(* the first name of a table that the text begins with                     *)
OneName(r, last, name(_), set(_, _)) ==
  LET hits == {n \in 1..last : StartsWith(r.in, name(n))}
      n == CHOOSE n \in hits : \A k \in hits : n <= k
  IN IF hits = {} THEN Refuse(r) ELSE set(Advance(r, Len(name(n))), n)

ReadHour(r, flag, c, flags) ==
  LET meridian == flags \cap MeridianGroup # {}
  IN CASE flag = "HH24" /\ meridian -> Refuse(r)
       [] flag = "HH24" -> Numeric(r, flag, c, 0..23, LAMBDA q, v : SetMayConflict(q, "hour", v))
       [] meridian -> Numeric(r, flag, c, 1..12, LAMBDA q, v : [q EXCEPT !.hh12 = v])
       [] OTHER -> Numeric(r, flag, c, 1..12, LAMBDA q, v : SetMayConflict(q, "hour", v))
ReadSssss(q, v) ==
  SetMayConflict(SetMayConflict(SetMayConflict(q, "sec", v % 60), "min", (v \div 60) % 60),
                 "hour", v \div 3600)

(* A year of fewer digits keeps the current year's first digits, and the   *)
(* current year is 0: nobody sets it before.                               *)
ReadYear(r, flag, c) ==
  LET signed == flag = "SYYYY" /\ r.in[1] \in SignChars
      behind == flag = "SYYYY" /\ ~signed /\ c.b1 + c.sep > c.fsep /\ r.prev \in SignChars
      q == IF signed THEN Advance(r, 1) ELSE r
      minus == (signed /\ r.in[1] = "-") \/ (behind /\ r.prev = "-")
      m == CASE q.in = <<>> -> [ok |-> TRUE, len |-> 0, v |-> 0]
             [] flag = "YGYYY" -> MatchComma(q.in, 5, c.fixed)
             [] flag \in {"RR", "RRRR"} -> MatchInt(q.in, 4, flag, c.fixed)
             [] OTHER -> MatchInt(q.in, ExpectedLength(flag), flag, c.fixed)
      year == CASE minus -> -m.v
                [] flag \in {"RR", "RRRR"} /\ m.len <= 2 /\ m.v >= 50 -> m.v - 100
                [] OTHER -> m.v
  IN IF m.ok /\ year \in 1..9999 THEN [Advance(q, m.len) EXCEPT !.p.year = year] ELSE Refuse(q)

(* The fraction is left out when its dot is: the separators go back.       *)
Back(r, c, n) == [r EXCEPT !.in = Drop(c.text, n), !.prev = IF n = 0 THEN c.prev ELSE c.text[n]]
ReadFraction(r, flag, c) ==
  LET m == MatchInt(r.in, ExpectedLength(flag), flag, c.fixed)
  IN CASE r.nofraction -> Back(r, c, 0)
       [] ~r.nofraction /\ c.dot /\ c.first # "." -> Back(r, c, c.b1)
       [] OTHER -> IF m.ok THEN [Advance(r, m.len) EXCEPT !.p.nano = m.v * 10 ^ (9 - m.len)]
                   ELSE Refuse(r)

ReadZonePart(r, flag, c) ==
  LET signed == flag = "TZH" /\ r.in[1] \in SignChars
      minus == IF signed THEN r.in[1] = "-"
               ELSE r.prev = "-" /\ c.b1 + c.sep + c.b2 > c.fsep
      q == IF flag = "TZH" THEN [(IF signed THEN Advance(r, 1) ELSE r) EXCEPT !.sign = IF minus THEN -1 ELSE 1] ELSE r
      m == MatchInt(q.in, 2, flag, c.fixed)
  IN CASE q.in = <<>> -> q
       [] q.in # <<>> /\ flag = "TZH" ->
            IF m.ok /\ m.v <= 15 THEN [Advance(q, m.len) EXCEPT !.tzh = m.v] ELSE Refuse(q)
       [] OTHER -> IF m.ok /\ m.v <= 59 THEN [Advance(q, m.len) EXCEPT !.tzm = m.v] ELSE Refuse(q)

(* TZR: hours and minutes, or a name.  The limits of the hours and minutes *)
(* are those of their absolute values, the value tested has its sign.      *)
ReadZone(r, c) ==
  LET signed == r.in[1] \in SignChars
      minus == IF signed THEN r.in[1] = "-"
               ELSE c.b1 + c.sep > c.fsep /\ r.prev = "-"
      q == IF signed THEN Advance(r, 1) ELSE r
      n == UntilSpace(q.in)
      word == SubSeq(q.in, 1, n)
      at == SelectInSeq(word, LAMBDA ch : ch \in SplitChars)
      rest == Drop(word, at)
      h == MatchInt(word, at - 1, "none", FALSE)
      m == IF rest = <<>> THEN [ok |-> TRUE, len |-> 0, v |-> 0] ELSE MatchInt(rest, Len(rest), "none", FALSE)
      fits(v, max) == v <= max /\ (minus => v = 0)
      sign == IF minus THEN -1 ELSE 1
  IN CASE ~(signed \/ r.in[1] \in DfmDigits) -> [Advance(r, UntilSpace(r.in)) EXCEPT !.p.tz = SubSeq(r.in, 1, UntilSpace(r.in))]
       [] q.in = <<>> -> q
       [] q.in # <<>> /\ at = 0 -> Advance(q, n)
       [] OTHER -> IF h.ok /\ h.len = at - 1 /\ fits(h.v, 15) /\ m.ok /\ m.len = Len(rest) /\ fits(m.v, 59)
                   THEN [Advance(q, n) EXCEPT !.digitzone = TRUE, !.p.off = sign * (60 * h.v + m.v)]
                   ELSE Refuse(q)
(* the eras, the meridians and the days of the week                        *)
ReadWord(r, flag, c) ==
  CASE flag \in Era -> EitherWord(r, "AD", "BC", 2, LAMBDA q, b : [q EXCEPT !.bc = b])
    [] flag \in Era2 -> EitherWord(r, "A.D.", "B.C.", 4, LAMBDA q, b : [q EXCEPT !.bc = b])
    [] flag \in Meridian -> EitherWord(r, "AM", "PM", 2, LAMBDA q, b : [q EXCEPT !.pm = b])
    [] flag \in Meridian2 -> EitherWord(r, "A.M.", "P.M.", 4, LAMBDA q, b : [q EXCEPT !.pm = b])
    [] flag = "D" -> Numeric(r, flag, c, 1..7, LAMBDA q, v : [q EXCEPT !.wday = ((v + 5) % 7) + 1])
    [] flag = "DAY" -> OneName(r, 7, WdayName, LAMBDA q, n : [q EXCEPT !.wday = n])
    [] flag = "DY" -> OneName(r, 7, WdayAbbr, LAMBDA q, n : [q EXCEPT !.wday = n])
ReadElem(r, flag, c, flags) ==
  CASE flag \in Era \cup Era2 \cup Meridian \cup Meridian2 \cup {"D", "DAY", "DY"} -> ReadWord(r, flag, c)
    [] flag = "DD" -> Numeric(r, flag, c, 1..31, LAMBDA q, v : SetDirectly(q, "mday", v))
    [] flag = "DDD" -> Numeric(r, flag, c, 1..366, LAMBDA q, v : [q EXCEPT !.yday = v])
    [] flag \in HourGroup -> ReadHour(r, flag, c, flags)
    [] flag = "MI" -> Numeric(r, flag, c, 0..59, LAMBDA q, v : SetMayConflict(q, "min", v))
    [] flag = "SS" -> Numeric(r, flag, c, 0..59, LAMBDA q, v : SetMayConflict(q, "sec", v))
    [] flag = "SSSSS" -> Numeric(r, flag, c, 0..86399, ReadSssss)
    [] flag = "MM" -> Numeric(r, flag, c, 1..31, LAMBDA q, v : SetDirectly(q, "mon", v))
    [] flag = "MONTH" -> OneName(r, 12, MonName, LAMBDA q, n : SetDirectly(q, "mon", n))
    [] flag = "MON" -> OneName(r, 12, MonAbbr, LAMBDA q, n : SetDirectly(q, "mon", n))
    [] flag \in YearGroup -> ReadYear(r, flag, c)
    [] IsFraction(flag) -> ReadFraction(r, flag, c)
    [] flag \in {"TZH", "TZM"} -> IF flags \cap {"TZR", "TZD"} # {} THEN Refuse(r) ELSE ReadZonePart(r, flag, c)
    [] flag = "TZR" -> IF flags \cap {"TZH", "TZM"} # {} THEN Refuse(r) ELSE ReadZone(r, c)
    [] flag = "TZD" -> IF flags \cap {"TZH", "TZM"} # {} \/ r.digitzone THEN Refuse(r)
                       ELSE [Advance(r, UntilSpace(r.in)) EXCEPT !.p.tzd = SubSeq(r.in, 1, UntilSpace(r.in))]
    [] flag = "X" -> IF r.in[1] = "." THEN Advance(r, 1) ELSE [Back(r, c, 0) EXCEPT !.nofraction = TRUE]
    [] OTHER -> Refuse(r)

(* One element: blanks, at most as many separators as the format has,      *)
(* blanks.  The end of the text ends the loop.                             *)
ReadStep(r, e, flags) ==
  LET b1 == RunOf(r.in, {Blank}, NoLimit)
      sep == IF e.flag = "X" THEN 0 ELSE RunOf(Drop(r.in, b1), SplitChars, Len(e.sep))
      b2 == RunOf(Drop(r.in, b1 + sep), {Blank}, NoLimit)
      q == Advance(r, b1 + sep + b2)
      c == [b1 |-> b1, sep |-> sep, b2 |-> b2, fsep |-> Len(e.sep), text |-> r.in, prev |-> r.prev,
            first |-> IF Len(r.in) > b1 THEN r.in[b1 + 1] ELSE "", dot |-> e.sep = <<".">>,
            fixed |-> e.sep # <<>> /\ b1 + sep + b2 = 0]
  IN CASE ~r.ok -> r
       [] r.ok /\ (r.over \/ q.in = <<>>) -> [q EXCEPT !.over = TRUE, !.omitted = @ \cup {e.flag}]
       [] OTHER -> ReadElem(q, e.flag, c, flags)

ValidDate(p) ==                                                  \* validate_oracle_date
  /\ p.year \in 1..9999 /\ p.mon \in 1..12 /\ p.mday \in 1..31
  /\ p.hour \in 0..23 /\ p.min \in 0..59 /\ p.sec \in 0..59
  /\ p.mday <= DaysPerMon(p.year, p.mon)

(* What is checked and set once all elements are read                      *)
Noon(r) ==
  IF r.hh12 = 0 THEN r ELSE SetMayConflict(r, "hour", (r.hh12 % 12) + (IF r.pm THEN 12 ELSE 0))
DayOfYear(r) ==
  CASE r.yday = NoValue -> r
    [] r.yday # NoValue /\ r.yday > DaysPerYear(r.p.year) -> Refuse(r)
    [] OTHER -> LET m == MonthOf(r.p.year, r.yday)
                IN SetMayConflict(SetMayConflict(r, "mon", m), "mday", r.yday - DaysUntil(r.p.year)[m - 1])
FixDate(r) ==
  IF ~r.ok \/ ~ValidDate(r.p) THEN Refuse(r)
  ELSE LET t == ObTimeToDate(r.p)
       IN IF (r.yday # NoValue /\ r.yday # t.yday) \/ (r.wday # NoValue /\ r.wday # t.wday) THEN Refuse(r)
          ELSE [r EXCEPT !.p = t]
Zone(r, flags) ==
  IF r.p.tz # <<>> \/ "TZH" \notin flags \/ r.tzh = NoValue
  THEN (IF r.p.tz = <<>> /\ "TZH" \in flags /\ r.tzm # NoValue THEN Refuse(r) ELSE r)
  ELSE [r EXCEPT !.p.off = r.sign * (60 * r.tzh + (IF r.tzm = NoValue THEN 0 ELSE r.tzm))]
Settle(r, legal, flags) ==
  LET rest == Drop(r.in, RunOf(r.in, SplitChars, NoLimit))
      whole == r.ok /\ (\A f \in r.omitted : CanOmit(f)) /\ rest = <<>> /\ ~r.bc
  IN IF ~legal \/ ~whole THEN Refuse(r) ELSE Zone(FixDate(DayOfYear(Noon(r))), flags)
StrToObTime(text, fmt) ==
  LET flags == FlagsOf(fmt)
  IN Settle(FoldLeft(LAMBDA a, e : ReadStep(a, e, flags), Reader(text), fmt.elems),
            text # <<>> /\ Parsed(fmt) /\ CheckSemantic(fmt), flags)

(***************************************************************************)
(* A walk through days, and times printed and read under formats           *)
(***************************************************************************)
CONSTANTS CalYears,        \* the years whose days are walked through
          CalDays,         \* how many days are walked from the first of January
          DfmTimes,        \* times to print, each with its scale
          DfmFormats
VARIABLES cal,             \* the day the walk is at, or none
          dfm              \* what is printed: [t, scale, fmt]
DfmIdle == [step |-> 0]
DfmInit == cal = [step |-> 0] /\ dfm = DfmIdle

FirstDay == cal.step = 0 /\ dfm = DfmIdle /\ UNCHANGED dfm /\ \E y \in CalYears :
  cal' = [step |-> 1, year |-> y, mon |-> 1, mday |-> 1]
NextDay ==
  /\ cal.step \in 1..(CalDays - 1) /\ UNCHANGED dfm
  /\ cal' = IF cal.mday < DaysPerMon(cal.year, cal.mon) THEN [cal EXCEPT !.step = @ + 1, !.mday = @ + 1]
            ELSE IF cal.mon < 12 THEN [cal EXCEPT !.step = @ + 1, !.mon = @ + 1, !.mday = 1]
            ELSE [step |-> cal.step + 1, year |-> cal.year + 1, mon |-> 1, mday |-> 1]
PickTime == dfm = DfmIdle /\ cal.step = 0 /\ UNCHANGED cal /\ \E x \in DfmTimes :
  dfm' = [step |-> 1, t |-> x.t, scale |-> x.scale]
PickFormat == dfm.step = 1 /\ UNCHANGED cal /\ \E f \in DfmFormats :
  dfm' = [step |-> 2, t |-> dfm.t, scale |-> dfm.scale, fmt |-> f]
DfmNext == FirstDay \/ NextDay \/ PickTime \/ PickFormat

CalTime == [NoParts EXCEPT !.year = cal.year, !.mon = cal.mon, !.mday = cal.mday]
(* Day by day, ob_time_to_date counts one day more and the next day of the *)
(* week, and date_to_ob_time finds the day again.                          *)
DaysCounted ==
  cal.step > 0 =>
    LET t == ObTimeToDate(CalTime)
        first == ObTimeToDate([CalTime EXCEPT !.mon = 1, !.mday = 1])
        d == DateToObTime(t.date)
        before == ObTimeToDate([CalTime EXCEPT !.year = @ - 1, !.mon = 12, !.mday = 31])
    IN /\ \A k \in DOMAIN d : d[k] = t[k]
       /\ t.date = first.date + t.yday - 1
       /\ cal.year > 1 => first.date = before.date + 1 /\ first.wday = (before.wday % 7) + 1

(* The week printed for IW is the week of the year its Thursday is in.     *)
WeekOfThursday ==
  cal.step > 0 =>
    LET t == ObTimeToDate(CalTime)
        thursday == DateToObTime(t.date + 4 - t.wday)
    IN IsoWeek(t) = (thursday.yday - 1) \div 7 + 1

(* The length foreseen for a text is the length it then has, so that a row *)
(* whose columns are sized with it has room for them, unless the format has*)
(* an element whose length is taken too small.  An element that cannot be  *)
(* printed ends both at the same place.                                    *)
LengthForeseenDfm ==
  dfm.step = 2 /\ (\A f \in FlagsOf(dfm.fmt) : ~Underrated(f, dfm.t)) =>
    LET len == DfmLength(dfm.t, dfm.fmt, dfm.scale)
        out == TimeToStr(dfm.t, dfm.fmt, dfm.scale, len + 1)
    IN /\ Len(out.text) = len
       /\ out.ok <=> (Parsed(dfm.fmt) /\ FlagsOf(dfm.fmt) \cap Unprinted = {})

(* A format that names every part: the time of day, the day of the year and*)
(* the year, the fraction and the zone                                     *)
Complete(fmt, t) ==
  LET flags == FlagsOf(fmt)
      some(s) == flags \cap s # {}
  IN /\ CheckSemantic(fmt) /\ some({"YYYY", "SYYYY", "YGYYY", "RRRR"})
     /\ (some(MonthGroup) /\ "DD" \in flags) \/ ("DDD" \in flags /\ ValidDate(t))
     /\ t.yday # 0 /\ (t.year > 0 \/ some(Era \cup Era2 \cup {"SYYYY"}))
     /\ "SSSSS" \in flags \/ ({"MI", "SS"} \subseteq flags
          /\ ("HH24" \in flags \/ (some({"HH", "HH12"}) /\ some(MeridianGroup))))
     /\ ~("HH24" \in flags /\ some(MeridianGroup))
     /\ t.nano = 0 \/ "FF9" \in flags
     /\ IF t.tz = <<>> THEN t.off = 0 \/ {"TZH", "TZM"} \subseteq flags \/ (t.off > 0 /\ "TZR" \in flags)
        ELSE "TZR" \in flags
     /\ ~some(NeverGroup \cup {"Q", "DS", "DL"})
(* A time printed under a format that names all its parts is read back as  *)
(* it was, and a day that no calendar has is refused.                      *)
ReadBack ==
  dfm.step = 2 /\ Complete(dfm.fmt, dfm.t) =>
    \A r \in {StrToObTime(TimeToStr(dfm.t, dfm.fmt, dfm.scale, 100).text, dfm.fmt)} :
      /\ r.ok <=> ValidDate(dfm.t)
      /\ r.ok => r.p = [dfm.t EXCEPT !.tzd = r.p.tzd, !.off = r.p.off]
                 /\ (dfm.t.tz = <<>> => r.p.off = dfm.t.off)

(* The same text without the format's separators is read as the same time: *)
(* every number then has its full width.  Formats with a dot before the    *)
(* fraction, which the text may not leave out, and with zone names, which  *)
(* end at a blank, are not meant, nor Y,YYY, which takes five digits.      *)
SeparatorsOptional ==
  /\ dfm.step = 2 /\ Complete(dfm.fmt, dfm.t) /\ ValidDate(dfm.t)
  /\ FlagsOf(dfm.fmt) \cap {"TZR", "YGYYY"} = {}
  /\ \A i \in DOMAIN dfm.fmt.elems : IsFraction(dfm.fmt.elems[i].flag) => dfm.fmt.elems[i].sep = <<>>
  =>
    LET bare == [elems |-> [i \in DOMAIN dfm.fmt.elems |-> [dfm.fmt.elems[i] EXCEPT !.sep = <<>>]], tail |-> <<>>]
    IN \A r \in {StrToObTime(TimeToStr(dfm.t, bare, dfm.scale, 100).text, dfm.fmt)} :
         r.ok /\ [r.p EXCEPT !.off = 0] = [dfm.t EXCEPT !.off = 0, !.tzd = r.p.tzd]
=============================================================================
