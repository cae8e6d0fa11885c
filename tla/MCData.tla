------------------------------- MODULE MCData -------------------------------
(***************************************************************************)
(* Encodings, parsers and containers, each fed with inputs that are built  *)
(* step by step. A behaviour is about one of them.                         *)
(***************************************************************************)
EXTENDS TraceCodec, Dyncol, ComplexCodec, TnsNames, TextProtocol, ParamCodec, HashTable, Options, Lob, ConfFile, Binlog

VARIABLE unit   \* the part of the library a behaviour is about

(* Columns 1, 2, 10 and one over the limit, names "2" and "b"; values that *)
(* take no byte, one byte and nearly all that a one byte offset reaches    *)
DynText(n) == [t |-> "string", x |-> [cs |-> 8, s |-> [i \in 1..n |-> 255]]]
MCNumKeys == {1, 2, 10, 65536}
MCNameKeys == {<<50>>, <<98>>}
MCDynValues == {DynNull, [t |-> "int", x |-> 0], [t |-> "uint", x |-> 200], DynText(28),
                [t |-> "dyncol", x |-> <<7>>]}
MCNumLimits == <<31, 50, 70>>

(* Numbers at and beyond the edges of the 64 bit types                     *)
MCTextNumbers == {0, -1, -LongLongMax - 1, -LongLongMax - 2, LongLongMax, LongLongMax + 1,
                  ULongLongMax, ULongLongMax + 1, ULongLongMax * 10}

(* Columns with the edge values of every type, and the buffers they may be *)
(* bound to                                                                *)
RField(t) == [type |-> t, uns |-> FALSE, width |-> 0, dec |-> 0, bin |-> FALSE]
Edges(t, uns) == LET n == Radix ^ IntWidth[t] IN
  {x \in {0, 3, 4, n - 1, n \div 2, n \div 2 - 1, -(n \div 2), -1} : x \in RangeOf(t, uns)}
RCol(f, v) == [f |-> f, null |-> FALSE, v |-> v]
IntCols == UNION {{RCol([RField(t) EXCEPT !.uns = uns, !.width = IF uns THEN w ELSE 0], v) : v \in Edges(t, uns)} :
                   t \in {"tiny", "short", "long", "longlong"}, uns \in BOOLEAN, w \in {0, 3}}
TimeVal == {TimeZero} \cup {[TimeZero EXCEPT !.year = 60, !.month = 7, !.day = 7, !.part = p, !.hour = h] : p \in {0, 7}, h \in {0, 7}}
TimeCols == {RCol([RField("datetime") EXCEPT !.dec = 6], v) : v \in TimeVal}
   \cup {RCol(RField("date"), [v EXCEPT !.hour = 0, !.part = 0]) : v \in TimeVal}
   \cup {RCol([RField("time") EXCEPT !.dec = 6], [TimeZero EXCEPT !.hour = h, !.part = p, !.neg = h > 0]) : h \in {0, 7, 200}, p \in {0, 7}}
TextCols == {RCol([RField(t) EXCEPT !.bin = (t = "blob")], s) : t \in {"string", "blob", "raw"},
    s \in {<<>>, <<49>>, <<45, 56>>, <<51, 32>>, [i \in 1..5 |-> 49], [i \in 1..9 |-> 57],[i \in 1..25 |-> 65], <<49, 58, 50, 58, 51>>}}
Stamp(a, b) == [i \in 1..12 |-> 1] \o <<2, 2, a>> \o [i \in 1..a |-> 3] \o <<b>> \o [i \in 1..b |-> 4]
OtherCols == {RCol(RField("double"), h) : h \in {0, 1, -1, 7, 9, -9, 600, 2^23}}
  \cup {RCol(RField("stamp"), s) : s \in {[i \in 1..12 |-> 1], Stamp(0,0), Stamp(2,0), Stamp(2,2)}}
  \cup {RCol(RField("ds"), [i \in 1..14 |-> 1]), RCol(RField("ym"), [i \in 1..7 |-> 1])}
  \cup {RCol(RField("lob"), <<v>> \o [i \in 1..n-1 |-> 7]) : v \in {1,2}, n \in {3, 4, 6}}
Cols == IntCols \cup TimeCols \cup TextCols \cup OtherCols \cup {[Marker EXCEPT !.null = TRUE], [RCol(RField("string"), <<>>) EXCEPT !.null = TRUE]}
Binds == {[type |-> t, uns |-> uns, len |-> l, off |-> 0, err |-> FALSE] : 
   t \in {"tiny", "short", "long", "longlong"}, uns \in BOOLEAN, l \in {0}}
 \cup {[type |-> t, uns |-> FALSE, len |-> l, off |-> 0, err |-> FALSE] : 
   t \in {"string", "blob"}, l \in {0, 2, 5, 70}}
 \cup {[type |-> t, uns |-> FALSE, len |-> 3, off |-> 0, err |-> FALSE] : 
   t \in {"time", "date", "datetime", "year", "dummy"}}
 \cup {[type |-> t, uns |-> FALSE, len |-> l, off |-> 0, err |-> FALSE] : 
   t \in {"stamp", "ds", "ym", "lob"}, l \in {3,4, 5, 7, 8, 9}}
MCRowPairs == (Cols \X {b \in Binds : b.type \in IntTypes \cup TimeTypes \cup TextTypes \cup {"dummy"}})
  \cup (OtherCols \X Binds) \cup ({Marker, [Marker EXCEPT !.null = TRUE]} \X {MarkerBind})

(* Parameters of every type, NULL, sent ahead, skipped or by default       *)
Param(t, v) == [type |-> t, uns |-> FALSE, v |-> v, null |-> FALSE, long |-> FALSE, ind |-> 0]
MCParams == {Param("tiny", -1), [Param("tiny", 7) EXCEPT !.uns = TRUE], Param("longlong", -5), Param("double", 3),
  Param("time", [TimeZero EXCEPT !.day = 2]), Param("time", [TimeZero EXCEPT !.part = 5, !.neg = TRUE]),
  Param("date", [TimeZero EXCEPT !.year = 20, !.hour = 3]), Param("datetime", [TimeZero EXCEPT !.part = 5, !.year = 20]),
  Param("datetime", TimeZero),
  [Param("string", <<>>) EXCEPT !.null = TRUE, !.ind = 1], [Param("string", <<>>) EXCEPT !.ind = 4], [Param("tiny", 3) EXCEPT !.ind = 2],
  Param("string", [i \in 1..30 |-> 65]), Param("string", <<65>>), [Param("string", <<65>>) EXCEPT !.long = TRUE],
  Param("stamp", [i \in 1..12 |-> 1]), Param("zoned", [core |-> [i \in 1..12 |-> 1], name |-> <<66, 67>>, abbr |-> <<68>>]),
  Param("ds", [i \in 1..14 |-> 1]), Param("ym", [i \in 1..7 |-> 1]), Param("lob", [i \in 1..28 |-> 1])}
MCQuery == [i \in 1..22 |-> 81]

(* Objects, arrays with NULLs at the edges of a bitmap byte, nested ones   *)
T(k) == [k |-> k]
TObj == [k |-> "object", c |-> <<T("tiny"), T("string"), T("datetime")>>]
TArr(t) == [k |-> "array", c |-> <<t>>]
TXml == [k |-> "xml", c |-> <<T("string")>>]
TMix == [k |-> "object", c |-> <<TArr(T("short")), T("zoned"), TObj>>]
VDate == Leaf([TimeZero EXCEPT !.type = "datetime", !.year = 20, !.month = 3, !.hour = 4])
VObj(a, b) == Node(<<a, b, VDate>>)
VText == Leaf(<<65, 66>>)
VZoned == Leaf([core |-> [i \in 1..12 |-> 1], name |-> <<66>>, abbr |-> <<68>>])
Ints(n, nulls) == Node([i \in 1..n |-> IF i \in nulls THEN NullValue ELSE Leaf(i % 3)])
MCComplex ==
  {<<TObj, VObj(a, b)>> : a \in {NullValue, Leaf(3)}, b \in {NullValue, VText}}
  \cup {<<TArr(T("short")), Ints(n, s)>> : n \in {0, 1, 6, 9}, s \in {{}, {1}, {6, 7, 8}}}
  \cup {<<TArr(TObj), Node(<<NullValue, VObj(Leaf(1), NullValue)>>)>>, <<TArr(TObj), Node(<<>>)>>}
  \cup {<<TArr(T("ds")), Node(<<Leaf([i \in 1..14 |-> 1]), Leaf([i \in 1..14 |-> 2])>>)>>}
  \cup {<<TXml, Node(<<VText>>)>>}
  \cup {<<TMix, Node(<<a, z, VObj(Leaf(2), VText)>>)>> : a \in {NullValue, Ints(2, {2})}, z \in {NullValue, VZoned}}
MCComplexCaps == {-100, -5, -1, 0, 9}

(* Descriptors that use every kind of list                                 *)
Opt(k, v) == <<<<"(">>, k, <<"=">>, v, <<")">>>>
Sub(k, body) == <<<<"(">>, k, <<"=">>>> \o body \o <<<<")">>>>
Addr(h) == Sub(<<"addr", "ess">>, Opt(<<"host">>, h) \o Opt(<<"port">>, <<"1">>))
MCTnsBases == {
  Sub(<<"description">>,
      Opt(<<"oblb">>, <<"on">>) \o Sub(<<"address_list">>, Addr(<<"h1", " ", "x">>) \o Opt(<<"oblb">>, <<"off">>))
      \o Sub(<<"connect_data">>, Opt(<<"sid">>, <<"s">>) \o Opt(<<"ob_mode">>, <<"5">>))),
  Sub(<<"description">>,
      Sub(<<"oblb_blacklist">>, Sub(<<"remove_strategy">>, Opt(<<"name">>, <<"timeout">>) \o Opt(<<"timeout">>, <<"22">>))
                                \o Sub(<<"append_strategy">>, Opt(<<"duration">>, <<"5">>)))
      \o Addr(<<"h2">>)),
  Sub(<<"description">>, Addr(<<"h1">>)) \o Sub(<<"description">>, Opt(<<"oblb_strategy">>, <<"random">>) \o Addr(<<"h2">>))}
MCTnsJunk == {<<"(">>, <<")">>, <<"=">>, <<"host">>, <<"x", "y">>}

(* Times at the edges of the day, the year and the calendar, two that no   *)
(* calendar has, one before Christ, and the date of a DATE column, whose   *)
(* day of the week and of the year are not set                             *)
DTime(y, m, d, h, nano, off) == ObTimeToDate([NoParts EXCEPT !.year = y, !.mon = m, !.mday = d, !.hour = h,
                                 !.min = 59, !.sec = 7, !.nano = nano, !.off = off])
MCDfmTimes == {[t |-> DTime(2024, 2, 29, 0, 0, 0), scale |-> 0], [t |-> DTime(1, 1, 1, 12, 123456789, 330), scale |-> 9],
               [t |-> DTime(9999, 12, 31, 23, 1000, -210), scale |-> 6], [t |-> DTime(1900, 2, 29, 11, 0, 0), scale |-> 3],
               [t |-> [DTime(2021, 5, 10, 13, 0, 0) EXCEPT !.tz = Name("zone", 6), !.tzd = Name("abbr", 3)], scale |-> 3],
               [t |-> DTime(-4712, 1, 1, 1, 0, 0), scale |-> 0],
               [t |-> [DTime(2021, 9, 30, 5, 0, 0) EXCEPT !.wday = 0, !.yday = 0, !.date = 0], scale |-> 0]}
DElem(sep, flag) == [sep |-> sep, flag |-> flag]
DFormat(date, sep, time, rest) == [elems |-> [i \in DOMAIN date |-> DElem(IF i = 1 THEN <<>> ELSE <<sep>>, date[i])]
                                    \o [i \in DOMAIN time |-> DElem(<<IF i = 1 THEN Blank ELSE ":">>, time[i])] \o rest, tail |-> <<>>]
DDates == {<<"YYYY", "MM", "DD">>, <<"DD", "MON", "RRRR">>, <<"DAY", "MONTH", "DD", "YGYYY">>, <<"SYYYY", "DDD">>, <<"YYYY", "DDD", "DD", "MM", "D">>}
DClocks == {<<"HH24", "MI", "SS">>, <<"HH", "MI", "SS", "AM">>, <<"SSSSS">>, <<"HH12", "MI", "SS", "SSSSS", "PM2">>}
DRests == {<<>>, <<DElem(<<".">>, "FF9")>>, <<DElem(<<>>, "X"), DElem(<<>>, "FF9"), DElem(<<Blank>>, "TZH"), DElem(<<":">>, "TZM")>>, <<DElem(<<Blank>>, "TZR"), DElem(<<Blank>>, "TZD")>>}
DAllFlags == TwoWide \cup ThreeWide \cup FourWide \cup FiveWide \cup Words \cup DOMAIN Fractions \cup
             {"D", "Q", "W", "Y", "I", "X", "FF", "TZD", "TZR", "DS", "DL", "YEAR", "SYEAR", "J"}
MCDfmFormats == {DFormat(d, s, c, r) : d \in DDates, s \in {"-", "."}, c \in DClocks, r \in DRests}
                \cup {[elems |-> <<DElem(<<>>, f), DElem(s, g)>>, tail |-> <<".">>] : f \in DAllFlags, g \in {"DY", "FF", "TZR", "SYEAR"}, s \in {<<>>, <<"-", Blank>>}}

(* Columns of every kind, packed lengths and scales at their edges         *)
TCol(kind, len, x) == [kind |-> kind, len |-> len, x |-> x]
TInterval(n, scale, frac, fscale) == [n |-> n, scale |-> scale, frac |-> frac, fscale |-> fscale]
TStamp(cent, scale) == [cent |-> cent, year |-> 21, mon |-> 5, mday |-> 3, hour |-> 12, min |-> 0, sec |-> 9, nano |-> 120000000,
                        tzh |-> -3, tzm |-> -30, tz |-> <<>>, tzd |-> <<>>, scale |-> scale]
MCRowColumns == <<TCol("null", 0, <<>>), TCol("text", 0, <<>>), TCol("text", 9, <<>>), TCol("raw", 5, <<>>),
                 TCol("ym", 7, TInterval(3, 9, 0, 0)), TCol("ym", 7, TInterval(12345, 2, 0, 0)), TCol("ds", 14, TInterval(3, 0, 5, 9)),
                 TCol("ds", 14, TInterval(400, 2, 123456789, 0)), TCol("date", 19, <<2021, 5, 3, 1, 2, 3>>), TCol("date", 10, <<9999, 12, 31>>),
                 TCol("timestamp", 12, TStamp(20, 3)), TCol("timestamp", 14, TStamp(-20, 9))>>
RElems(fs) == [i \in DOMAIN fs |-> DElem(IF i = 1 THEN <<>> ELSE <<"-">>, fs[i])]
MCRowFormats == {[elems |-> RElems(fs), tail |-> <<>>] :
                   fs \in {<<"YYYY">>, <<"DY", "DD", "MON", "RR">>, <<"SYYYY", "MM", "DD", "HH24", "FF">>, <<"MI", "TZR", "DS">>, <<"Q", "YEAR">>, <<"J">>}}

(* Two records of one key, and keys that share their low bits              *)
MCHashKeys == [a |-> 0, b |-> 4, c |-> 1, d |-> 3, e |-> 7, f |-> 2, g |-> 12]
MCHashRecords == <<"a", "a", "b", "c", "d", "e", "f", "g", "e">>

(* The length of each attribute's key; the limit is small                  *)
MCAttrKeys == [app |-> 3, _pid |-> 4, _server_host |-> 12, __client_port |-> 13,
               __ob_capability_flag |-> 20, __proxy_user |-> 12]

(* No name, a short one and one that the attributes do not allow           *)
MCFuNames == {<<>>, <<65, 160>>, [i \in 1..130 |-> 66]}

(* LOBs of several pieces, one with characters of one and two bytes        *)
MCLobContents == {[clob |-> FALSE, chars |-> [i \in 1..7 |-> <<i>>]],
                  [clob |-> TRUE, chars |-> <<<<1>>, <<2, 3>>, <<4, 5>>, <<6>>, <<7>>, <<8, 9>>, <<10>>>>]}

(* Files that include each other, switch groups, break off and start lines *)
(* with quotes and backslashes                                             *)
Ln(k, arg) == [k |-> k, lead |-> "none", arg |-> arg]
MCCfFiles ==
  ("/etc" :> <<Ln("comment", ""), Ln("group", "client"), Ln("option", "a"), Ln("include", "extra"), Ln("option", "b"),
               Ln("group", "mysqld"), Ln("option", "c"), Ln("includedir", "/etc/mysql"), Ln("option", "d")>>)
  @@ ("/etc/mysql" :> <<Ln("include", "none"), Ln("group", "client-mariadb"),
               [k |-> "option", lead |-> "backslash", arg |-> "e"], Ln("comment", ""),
               [k |-> "option", lead |-> "quote", arg |-> "f"], [k |-> "option", lead |-> "quote", arg |-> "g"],
               Ln("option", "h"), Ln("nogroup", ""), Ln("option", "i")>>)
  @@ ("extra" :> <<Ln("group", "mysqld"), Ln("option", "k"), Ln("include", "/etc"), Ln("option", "m"),
               Ln("group", "mine"), Ln("option", "n")>>)
  @@ ("headless" :> <<[k |-> "option", lead |-> "quote", arg |-> "o"], Ln("include", "extra"), Ln("option", "p"),
               Ln("group", "client"), Ln("option", "q")>>)
  @@ ("~/.my.cnf" :> <<Ln("group", "client-server"), Ln("include", "headless"), Ln("option", "r")>>)
MCCfChars == {"a", "n", " ", "'", "\"", "\\", "\t"}

(* One event of each type, two of those that come in two forms             *)
BlEv(t, body) == [type |-> t, body |-> body]
MCBlEvents ==
  {BlEv("query", <<<<300>>, <<1>>, <<2>>, <<7, 0>>, <<100>>, <<1, 2, 3, 4, 5>>>>),
   BlEv("rotate", <<<<4>>, <<98, 105, 110>>>>), BlEv("intvar", <<<<2>>, <<70000>>>>),
   BlEv("rand", <<<<5>>, <<256>>>>), BlEv("uservar", <<<<120>>, <<0>>, <<4>>, <<33>>, <<1, 2, 3>>>>),
   BlEv("uservar", <<<<120, 121>>, <<1>>>>), BlEv("stop", <<>>), BlEv("incident", <<<<1, 0>>>>),
   BlEv("format", <<<<4>>, <<49, 48>>, <<9>>, <<1>>>>), BlEv("format", <<<<4>>, <<49, 48>>, <<9>>, <<0>>>>),
   BlEv("xid", <<<<65537>>>>), BlEv("table_map", <<<<258>>, <<100>>, <<116, 50>>, <<3, 15, 8>>, <<40, 0>>>>),
   BlEv("write", <<<<258>>, <<1>>, <<9>>, <<255, 1>>, <<>>, <<11, 12, 13>>>>),
   BlEv("update", <<<<258>>, <<1>>, <<3>>, <<7>>, <<5>>, <<21, 22>>>>),
   BlEv("delete", <<<<258>>, <<1>>, <<0>>, <<>>, <<>>, <<>>>>),
   BlEv("gtid", <<<<12>>, <<1>>, <<3>>, <<77>>>>), BlEv("gtid", <<<<13>>, <<1>>, <<1>>, <<0>>>>),
   BlEv("gtid_list", <<<<1>>, <<2>>, <<30>>>>),
   BlEv("encryption", <<<<1>>, <<2>>, [i \in 1..12 |-> i]>>), BlEv("checkpoint", <<<<98, 105, 110>>>>),
   BlEv("annotate", <<<<1, 2, 3, 4, 5, 6>>>>), BlEv("heartbeat", <<<<98, 105, 110, 46, 49>>>>)}
MCBlFiles == {<<97, 0, 98>>}

Units == {"codec", "dynval", "dyncol", "text", "row", "param", "complex", "tns", "dfm", "rowtext", "sqltext", "hash", "opts", "attrs", "fields", "lob", "conf", "binlog"}

Init == /\ unit \in Units
        /\ CodecInit
        /\ DynValInit
        /\ DynInit
        /\ TextInit
        /\ RowInit
        /\ ParamInit
        /\ ComplexInit
        /\ TnsInit
        /\ DfmInit
        /\ RowTextInit
        /\ SqlInit
        /\ HashInit
        /\ OptInit
        /\ AttrInit
        /\ FuInit
        /\ LobInit
        /\ CfInit
        /\ BlInit

Next == /\ UNCHANGED unit
        /\ \/ unit = "codec" /\ CodecNext
              /\ UNCHANGED <<dval, drec, dref, dres, dclean, ttext, ttime, rcols, rbinds,
                             prows, psend, pknown, preq, ctype, cvalue, ccap, cerr, tns,
                             cal, dfm, trow, sqltext, hash, hashed, opts, attrs, fu, lob,
                             cf, binlog>>
           \/ unit = "dynval" /\ DynValNext
              /\ UNCHANGED <<msg, short, val, drec, dref, dres, dclean, ttext, ttime,
                             rcols, rbinds, prows, psend, pknown, preq, ctype, cvalue,
                             ccap, cerr, tns, cal, dfm, trow, sqltext, hash, hashed,
                             opts, attrs, fu, lob, cf, binlog>>
           \/ unit = "dyncol" /\ DynNext
              /\ UNCHANGED <<msg, short, val, dval, ttext, ttime, rcols, rbinds, prows,
                             psend, pknown, preq, ctype, cvalue, ccap, cerr, tns, cal,
                             dfm, trow, sqltext, hash, hashed, opts, attrs, fu, lob, cf,
                             binlog>>
           \/ unit = "text" /\ TextNext
              /\ UNCHANGED <<msg, short, val, dval, drec, dref, dres, dclean, rcols,
                             rbinds, prows, psend, pknown, preq, ctype, cvalue, ccap,
                             cerr, tns, cal, dfm, trow, sqltext, hash, hashed, opts,
                             attrs, fu, lob, cf, binlog>>
           \/ unit = "row" /\ RowNext
              /\ UNCHANGED <<msg, short, val, dval, drec, dref, dres, dclean, ttext,
                             ttime, prows, psend, pknown, preq, ctype, cvalue, ccap,
                             cerr, tns, cal, dfm, trow, sqltext, hash, hashed, opts,
                             attrs, fu, lob, cf, binlog>>
           \/ unit = "param" /\ ParamNext
              /\ UNCHANGED <<msg, short, val, dval, drec, dref, dres, dclean, ttext,
                             ttime, rcols, rbinds, ctype, cvalue, ccap, cerr, tns, cal,
                             dfm, trow, sqltext, hash, hashed, opts, attrs, fu, lob, cf,
                             binlog>>
           \/ unit = "complex" /\ ComplexNext
              /\ UNCHANGED <<msg, short, val, dval, drec, dref, dres, dclean, ttext,
                             ttime, rcols, rbinds, prows, psend, pknown, preq, tns, cal,
                             dfm, trow, sqltext, hash, hashed, opts, attrs, fu, lob, cf,
                             binlog>>
           \/ unit = "tns" /\ TnsNext
              /\ UNCHANGED <<msg, short, val, dval, drec, dref, dres, dclean, ttext,
                             ttime, rcols, rbinds, prows, psend, pknown, preq, ctype,
                             cvalue, ccap, cerr, cal, dfm, trow, sqltext, hash, hashed,
                             opts, attrs, fu, lob, cf, binlog>>
           \/ unit = "dfm" /\ DfmNext
              /\ UNCHANGED <<msg, short, val, dval, drec, dref, dres, dclean, ttext,
                             ttime, rcols, rbinds, prows, psend, pknown, preq, ctype,
                             cvalue, ccap, cerr, tns, trow, sqltext, hash, hashed, opts,
                             attrs, fu, lob, cf, binlog>>
           \/ unit = "rowtext" /\ RowTextNext
              /\ UNCHANGED <<msg, short, val, dval, drec, dref, dres, dclean, ttext,
                             ttime, rcols, rbinds, prows, psend, pknown, preq, ctype,
                             cvalue, ccap, cerr, tns, cal, dfm, sqltext, hash, hashed,
                             opts, attrs, fu, lob, cf, binlog>>
           \/ unit = "sqltext" /\ SqlNext
              /\ UNCHANGED <<msg, short, val, dval, drec, dref, dres, dclean, ttext,
                             ttime, rcols, rbinds, prows, psend, pknown, preq, ctype,
                             cvalue, ccap, cerr, tns, cal, dfm, trow, hash, hashed, opts,
                             attrs, fu, lob, cf, binlog>>
           \/ unit = "hash" /\ HashNext
              /\ UNCHANGED <<msg, short, val, dval, drec, dref, dres, dclean, ttext,
                             ttime, rcols, rbinds, prows, psend, pknown, preq, ctype,
                             cvalue, ccap, cerr, tns, cal, dfm, trow, sqltext, opts,
                             attrs, fu, lob, cf, binlog>>
           \/ unit = "opts" /\ OptNext
              /\ UNCHANGED <<msg, short, val, dval, drec, dref, dres, dclean, ttext,
                             ttime, rcols, rbinds, prows, psend, pknown, preq, ctype,
                             cvalue, ccap, cerr, tns, cal, dfm, trow, sqltext, hash,
                             hashed, attrs, fu, lob, cf, binlog>>
           \/ unit = "attrs" /\ AttrNext
              /\ UNCHANGED <<msg, short, val, dval, drec, dref, dres, dclean, ttext,
                             ttime, rcols, rbinds, prows, psend, pknown, preq, ctype,
                             cvalue, ccap, cerr, tns, cal, dfm, trow, sqltext, hash,
                             hashed, opts, fu, lob, cf, binlog>>
           \/ unit = "fields" /\ FuNext
              /\ UNCHANGED <<msg, short, val, dval, drec, dref, dres, dclean, ttext,
                             ttime, rcols, rbinds, prows, psend, pknown, preq, ctype,
                             cvalue, ccap, cerr, tns, cal, dfm, trow, sqltext, hash,
                             hashed, opts, attrs, lob, cf, binlog>>
           \/ unit = "lob" /\ LobNext
              /\ UNCHANGED <<msg, short, val, dval, drec, dref, dres, dclean, ttext,
                             ttime, rcols, rbinds, prows, psend, pknown, preq, ctype,
                             cvalue, ccap, cerr, tns, cal, dfm, trow, sqltext, hash,
                             hashed, opts, attrs, fu, cf, binlog>>
           \/ unit = "conf" /\ CfNext
              /\ UNCHANGED <<msg, short, val, dval, drec, dref, dres, dclean, ttext,
                             ttime, rcols, rbinds, prows, psend, pknown, preq, ctype,
                             cvalue, ccap, cerr, tns, cal, dfm, trow, sqltext, hash,
                             hashed, opts, attrs, fu, lob, binlog>>
           \/ unit = "binlog" /\ BlNext
              /\ UNCHANGED <<msg, short, val, dval, drec, dref, dres, dclean, ttext,
                             ttime, rcols, rbinds, prows, psend, pknown, preq, ctype,
                             cvalue, ccap, cerr, tns, cal, dfm, trow, sqltext, hash,
                             hashed, opts, attrs, fu, lob, cf>>

(* What one end encodes the other reads as it was meant, at every boundary *)
(* of a length, a group or a field, also when what was sent before is      *)
(* relied on (parameter types, checksums, locators): trace infos, dynamic  *)
(* column values, parameters and objects, field definitions, LOB locators, *)
(* binlog events and requests, times and file values in text.              *)
EncodedIsDecoded ==
  /\ VarintRoundTrip /\ VstrRoundTrip /\ ControlDecoded /\ ValueRoundTrip
  /\ ServerReadsBound /\ ComplexSent /\ FixedReadBack /\ AttrsRead
  /\ ObjectReadBack /\ LocatorSentBack /\ EventReadBack /\ DumpRequested
  /\ TimeTextRoundTrip /\ ReadBack /\ ValueReadBack

(* Memory and headers are sized by one pass and filled by another: the     *)
(* length foreseen covers what is then written, byte for byte where an     *)
(* offset or an announced length rests on it (flt_get_serialize_size_*,    *)
(* dynamic_column_value_len, the parameter and object lengths, the row of  *)
(* the text protocol, connect_attrs_len).                                  *)
LengthsForeseen ==
  /\ SizesAgree /\ BytesOnly /\ LengthForeseen /\ HeaderSizes /\ RequestFits
  /\ ComplexForeseen /\ LengthForeseenDfm /\ RowWhole /\ AttrsAnnounced

(* Nothing of a value is lost without a word: whatever buffer is bound,    *)
(* the next column is read where it begins, a value that was cut or        *)
(* changed sets the error flag, pieces of a column or a LOB join without   *)
(* gap or overlap, and no event is skipped but the heartbeats              *)
(* (mysql_stmt_fetch, mysql_stmt_fetch_column, stmt_get_data_from_lobv2,   *)
(* mariadb_rpl_fetch).                                                     *)
NothingLostSilently ==
  /\ RowAligned /\ LossReported /\ PiecesWhole /\ ComplexSkipped
  /\ ComplexWhole /\ FetchedWhole /\ PiecesContiguous /\ SuccessIsWhole
  /\ HeartbeatsSkipped

(* Text and packets are taken for what they say and nothing else: the      *)
(* parsers agree with the grammar, the calendar or the number, wherever a  *)
(* buffer ends, an include nests or a packet is cut, and what is malformed *)
(* is refused.                                                             *)
ParsedAsMeant ==
  /\ CutRefused /\ NamesInside /\ AtollExact /\ AcceptedWellFormed
  /\ WellFormedRead /\ ParamsCounted /\ TypeRecognised /\ DaysCounted
  /\ WeekOfThursday /\ SeparatorsOptional /\ AppliedAsWritten
  /\ IncludesBounded /\ DefaultsOnce

(* The containers hold what was put in and not taken out, each element     *)
(* once and where their searches look, after any sequence of operations:   *)
(* the dynamic column record, the linear hash, the connection attributes   *)
(* and the option strings.                                                 *)
ContainersExact ==
  /\ DirectorySorted /\ ContentExact /\ CheckAccepts /\ HashElements
  /\ HashFinds /\ AttrsFresh /\ CloseReleases

=============================================================================
