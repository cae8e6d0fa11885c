----------------------------- MODULE MCSession ------------------------------
(* Session with small sets of answers.                                       *)
EXTENDS Session

CONSTANTS
  MoreThanOne,   \* whether an answer may have several results
  RowErrors,     \* whether an error may follow the columns of a result set
  Rows           \* the numbers of rows of a result set

(* The k-th result of command q: OK, an error, a result set, or one that     *)
(* ends in an error.                                                         *)
ResultSet(of, f, n, byte) ==
  <<Packet("cols", {}, of, 0), Packet("meta", f, of, 0)>>
    \o [i \in 1..n |-> Packet("row", f, of, byte)]
OKs(q, k, f) == {<<Packet("ok", f, <<q, k>>, 0)>>}
ResultSets(q, k, f, byte) ==
  {ResultSet(<<q, k>>, f, n, byte) \o <<Packet("eof", f, <<q, k>>, 0)>> : n \in Rows}
Errors(q, k, f, byte) ==
  {<<Packet("err", {}, <<q, k>>, 0)>>}
    \cup {ResultSet(<<q, k>>, f, n, byte) \o <<Packet("err", {}, <<q, k>>, 0)>> :
             n \in {m \in Rows : RowErrors}}
More(f) == f \cup {"MORE"}

MCReplies(q) ==
  LET results(k, f) == OKs(q, k, f) \cup ResultSets(q, k, f, 1)
      last(k) == UNION {results(k, f) : f \in ServerFlags} \cup Errors(q, k, {}, 1)
  IN last(1) \cup (IF MoreThanOne
                     THEN {a \o b : a \in UNION {results(1, More(f)) : f \in ServerFlags}, b \in last(2)}
                     ELSE {})

(* Only a procedure call has several results.  Its last one is OK or an      *)
(* error, and every result set in it has MORE.                               *)
MCExecuteReplies(q) ==
  LET one == UNION {OKs(q, 1, f) \cup ResultSets(q, 1, f, 0) : f \in ServerFlags} \cup Errors(q, 1, {}, 0)
      sets(k) == UNION {ResultSets(q, k, More(f), 0) : f \in ServerFlags}
      last(k) == UNION {OKs(q, k, f) : f \in ServerFlags} \cup Errors(q, k, {"MORE"}, 0)
  IN one \cup (IF MoreThanOne
                 THEN {a \o b : a \in sets(1), b \in last(2)}
                        \cup {a \o b \o c : a \in sets(1), b \in sets(2), c \in last(3)}
                 ELSE {})

SomeFlags == {{"AUTO"}, {"TRANS"}}
NoDefinitions == {{}}
OneFlag == {{"AUTO"}}
AllDefinitions == {{}, {"COLS"}, {"PARAMS", "COLS"}}
=============================================================================
