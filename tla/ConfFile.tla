------------------------------ MODULE ConfFile ------------------------------
(***************************************************************************)
(* Configuration files (ma_default.c): which files are read, in which      *)
(* order, which of their lines become options, and what text a value has.  *)
(*                                                                         *)
(* A line is [k, lead, arg]: k is "group" (arg its name), "nogroup" (a [   *)
(* without ]), "comment", "include" (arg the file), "includedir" (arg the  *)
(* directory) or "option"; lead is the first character where it is a       *)
(* "quote" or a "backslash".  A directory stands for the my.cnf in it.     *)
(***************************************************************************)
EXTENDS Integers, Sequences, SequencesExt, FiniteSetsExt

CONSTANTS CfFiles,        \* the readable files: name -> sequence of lines
          CfGiven,        \* files the application names (MYSQL_READ_DEFAULT_FILE)
          CfGroup,        \* the group the application named
          CfHomes,        \* values of MYSQL_HOME and MARIADB_HOME, "unset" included
          CfLimit,        \* recursion_stop, 64
          CfDirLimit,     \* MAX_CONFIG_DIRS, 6
          CfChars,        \* characters of values
          CfMaxText       \* bound: the longest value built

VARIABLES cf

(***************************************************************************)
(* The text of a value, in place: the line is a sequence of characters     *)
(***************************************************************************)
CfBlank == {" ", "\t", "\n"}
Quotes == {"'", "\""}
Unescape == [c \in {"n", "t", "r", "b", "s", "\"", "'", "\\"} |->
               CASE c = "n" -> "\n" [] c = "t" -> "\t" [] c = "r" -> "CR" [] c = "b" -> "BS"
                 [] c = "s" -> " " [] OTHER -> c]
RECURSIVE CopyValue(_)
CopyValue(s) ==
  CASE s = <<>> -> <<>>
    [] s[1] = "\\" /\ Len(s) > 1 ->
         (IF s[2] \in DOMAIN Unescape THEN <<Unescape[s[2]]>> ELSE <<"\\", s[2]>>)
           \o CopyValue(SubSeq(s, 3, Len(s)))
    [] OTHER -> <<s[1]>> \o CopyValue(Tail(s))
TrimLeft(s) == LET on == {i \in 1..Len(s) : s[i] \notin CfBlank}
               IN IF on = {} THEN <<>> ELSE SubSeq(s, Min(on), Len(s))
TrimRight(s) == SubSeq(s, 1, Max({0} \cup {i \in 1..Len(s) : s[i] \notin CfBlank}))
(* One quote in front and, when there is one in front, one at the end; a   *)
(* single quote is an empty text                                           *)
Unquoted(s) ==
  CASE s = <<>> \/ s[1] \notin Quotes -> s
    [] Len(s) > 1 /\ Last(s) \in Quotes -> SubSeq(s, 2, Len(s) - 1)
    [] OTHER -> Tail(s)
ConfValue(s) == CopyValue(Unquoted(TrimRight(TrimLeft(s))))

(***************************************************************************)
(* Files                                                                   *)
(***************************************************************************)
(* add_cfg_dir *)
AddCfgDir(dirs, d) ==
  IF d \in Range(dirs) \/ Len(dirs) >= CfDirLimit THEN dirs ELSE Append(dirs, d)
(* get_default_configuration_dirs, MYSQL_HOME and MARIADB_HOME             *)
DefaultDirs(mysqlHome, mariadbHome) ==
  FoldLeft(LAMBDA dirs, d : IF d = "unset" THEN dirs ELSE AddCfgDir(dirs, d), <<>>,
           <<"/etc", "/etc/mysql", mysqlHome, mariadbHome>>)

CfGroups == {"client", "client-server", "client-mariadb", CfGroup}

CfInit == cf = [pc |-> "idle"]
Frame(f) == [file |-> f, line |-> 1, read |-> FALSE, found |-> FALSE, escaped |-> FALSE]

(* _mariadb_read_options of mysql_real_connect: the file the application   *)
(* named, or those of the directories and then .my.cnf of HOME             *)
ReadOptions ==
  /\ cf.pc = "idle"
  /\ \E top \in {<<f>> : f \in CfGiven} \cup
                {DefaultDirs(a, b) \o <<"~/.my.cnf">> : a, b \in CfHomes} :
       cf' = [pc |-> "read", top |-> top, all |-> top, stack |-> <<>>, applied |-> <<>>]

(* The next file at the outer level; one that cannot be read is passed over*)
NextFile ==
  /\ cf.pc = "read" /\ cf.stack = <<>>
  /\ cf' = CASE cf.top = <<>> -> [cf EXCEPT !.pc = "done"]
             [] cf.top[1] \notin DOMAIN CfFiles -> [cf EXCEPT !.top = Tail(@)]
             [] OTHER -> [cf EXCEPT !.top = Tail(@), !.stack = <<Frame(cf.top[1])>>]

(* _mariadb_read_options of an include: nothing beyond the limit, nothing  *)
(* of a file that cannot be opened                                         *)
Include(stack, f) ==
  IF Len(stack) >= CfLimit \/ f \notin DOMAIN CfFiles THEN stack ELSE Append(stack, Frame(f))

Fr == Last(cf.stack)
(* What a line does to the frame of its file: the group it opens, what it  *)
(* says of a quote in front of the next line                               *)
ReadLine_Sticky(fr, l) ==
  [fr EXCEPT !.line = @ + 1, !.found = @ \/ l.k = "group",
             !.read = IF l.k = "group" THEN @ \/ l.arg \in CfGroups ELSE @,
             !.escaped = IF l.k \in {"group", "option"} THEN l.lead = "backslash" ELSE @]
ReadLine(fr, l) ==
  [fr EXCEPT !.line = @ + 1, !.found = @ \/ l.k = "group",
             !.read = IF l.k = "group" THEN l.arg \in CfGroups ELSE @,
             !.escaped = IF l.k \in {"group", "option"} THEN l.lead = "backslash" ELSE @]

(* _mariadb_read_options_from_file, one line.  A line that starts with a   *)
(* quote is passed over unless the line before it starts with a backslash. *)
(* An option ahead of every group, or a group without end, ends the file;  *)
(* the file that includes it goes on.                                      *)
FileLine ==
  /\ cf.pc = "read" /\ cf.stack # <<>>
  /\ LET up == Front(cf.stack)
         set(fr) == [cf EXCEPT !.stack = Append(up, fr)]
     IN IF Fr.line > Len(CfFiles[Fr.file]) THEN cf' = [cf EXCEPT !.stack = up]
        ELSE LET l == CfFiles[Fr.file][Fr.line]
                 fr == ReadLine(Fr, l)
             IN cf' = CASE l.lead = "quote" /\ ~Fr.escaped -> set([Fr EXCEPT !.line = @ + 1])
                        [] l.k \in {"include", "includedir"} ->
                             [cf EXCEPT !.stack = Include(Append(up, fr), l.arg)]
                        [] l.k = "nogroup" \/ (l.k = "option" /\ ~Fr.found) -> [cf EXCEPT !.stack = up]
                        [] l.k = "option" /\ Fr.read ->
                             [set(fr) EXCEPT !.applied = Append(@, <<Fr.file, Fr.line>>)]
                        [] OTHER -> set(fr)

(* A value under test, character by character                              *)
ValueText ==
  \/ cf.pc = "idle" /\ cf' = [pc |-> "value", v |-> <<>>]
  \/ cf.pc = "value" /\ Len(cf.v) < CfMaxText /\ \E c \in CfChars : cf' = [cf EXCEPT !.v = Append(@, c)]

CfNext == ReadOptions \/ NextFile \/ FileLine \/ ValueText

(***************************************************************************)
(* Properties                                                              *)
(***************************************************************************)
(* Every text can be written in a file and is read back: in quotes, with a *)
(* backslash before quotes and backslashes and with \n and \t for the      *)
(* characters that end a line or could be trimmed.  The value is unquoted  *)
(* and unescaped in the place it is read from.                             *)
ValueReadBack ==
  cf.pc = "value" =>
    LET esc(c) == CASE c \in Quotes \cup {"\\"} -> <<"\\", c>>
                    [] c = "\n" -> <<"\\", "n">> [] c = "\t" -> <<"\\", "t">> [] OTHER -> <<c>>
        written == FlattenSeq([i \in 1..Len(cf.v) |-> esc(cf.v[i])])
    IN ConfValue(<<" ", "\"">> \o written \o <<"\"", " ", "\n">>) = cf.v

(* The options of a file, one after the other: those of the lines whose    *)
(* group - the last header before them in their own file - is one of the   *)
(* client's, up to the first line that ends the file, with the options of  *)
(* an included file in the place of its include                            *)
RECURSIVE Expand(_, _)
Expand(f, depth) ==
  IF depth > CfLimit \/ f \notin DOMAIN CfFiles THEN <<>>
  ELSE LET ls == CfFiles[f]
           before(i, ks) == {h \in 1..(i - 1) : ls[h].k \in ks}
           skipped(i) == /\ ls[i].lead = "quote"
                         /\ \/ before(i, {"group", "option"}) = {}
                            \/ ls[Max(before(i, {"group", "option"}))].lead # "backslash"
           ends(i) == ~skipped(i) /\ \/ ls[i].k = "nogroup"
                                     \/ ls[i].k = "option" /\ before(i, {"group"}) = {}
           last == Min({Len(ls) + 1} \cup {i \in 1..Len(ls) : ends(i)}) - 1
       IN FlattenSeq([i \in 1..last |->
            CASE skipped(i) -> <<>>
              [] ls[i].k \in {"include", "includedir"} -> Expand(ls[i].arg, depth + 1)
              [] ls[i].k = "option" /\ ls[Max(before(i, {"group"}))].arg \in CfGroups -> <<<<f, i>>>>
              [] OTHER -> <<>>])

(* Options are set in the order of that expansion, so that of two settings *)
(* the later one wins, and no line of another program's group is applied,  *)
(* whatever groups the included files switch to and wherever one of them   *)
(* breaks off.                                                             *)
AppliedAsWritten ==
  cf.pc = "done" => cf.applied = FlattenSeq([i \in 1..Len(cf.all) |-> Expand(cf.all[i], 1)])

(* Files that include each other come to an end: never more than           *)
(* recursion_stop of them are open at a time.                              *)
IncludesBounded == cf.pc = "read" => Len(cf.stack) <= CfLimit

(* No default file is read twice, although MYSQL_HOME and MARIADB_HOME may *)
(* name a standard directory or each other.                                *)
DefaultsOnce == cf.pc = "read" => \A i, k \in 1..Len(cf.all) : cf.all[i] = cf.all[k] => i = k
=============================================================================
