------------------------------ MODULE MCAsync ------------------------------
(* Instances of Async.                                                       *)
EXTENDS Async

MCOptions ==
  {[limit |-> TRUE, tls |-> FALSE, reconnect |-> TRUE],
   [limit |-> FALSE, tls |-> FALSE, reconnect |-> FALSE],
   [limit |-> TRUE, tls |-> TRUE, reconnect |-> TRUE]}
=============================================================================
