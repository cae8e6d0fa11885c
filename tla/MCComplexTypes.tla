-------------------------- MODULE MCComplexTypes --------------------------
(* Small instances of ComplexTypes for TLC.                                  *)
EXTENDS ComplexTypes, TLC

Top(n, kind) == [top |-> TRUE, parent |-> "none", child |-> n, kind |-> kind, attr_no |-> 0]
Attr(p, i, n, kind) == [top |-> FALSE, parent |-> p, child |-> n, kind |-> kind, attr_no |-> i]

(* a is an object with two attributes, b a collection of a.  The server may  *)
(* also not know b.                                                          *)
A == <<Attr("a", 1, "scalar", "scalar"), Attr("a", 2, "scalar", "scalar")>>
Nested ==
  [n \in {"a", "b"} |->
     IF n = "a" THEN {<<Top("a", "object")>> \o A}
     ELSE {<<>>, <<Top("b", "collection"), Attr("b", 0, "a", "object")>> \o A}]

(* What the server says of a type stays the same: a has two attributes.      *)
ASSUME NestedIsSteady ==
  Descriptions = Nested => Steady([n \in Names |-> IF n = "a" THEN "object" ELSE "collection"],
                                  [n \in Names |-> IF n = "a" THEN 2 ELSE 0])

(* a may have got a third attribute since it was described.                  *)
Altered ==
  [Nested EXCEPT !["a"] = @ \cup {<<Top("a", "object")>> \o A \o <<Attr("a", 3, "scalar", "scalar")>>}]

SameKey == [t \in Threads |-> "k"]
===========================================================================
