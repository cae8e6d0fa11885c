------------------------------- MODULE MCNet -------------------------------
(* Small instances of Net for TLC.                                           *)
EXTENDS Net

MCModes == {"plain", "compress", "ob20"}

(* Empty, short, full and longer packets, and answers of several of them.    *)
Answers == {<<1>>, <<3, 0, 2>>, <<8, 1>>, <<14>>, <<1, 15, 2>>}

(* A packet of exactly MaxPacket bytes with another one behind it.           *)
Exact == <<7, 2>>

RepliesPlain == [m \in MCModes |-> IF m = "plain" THEN Answers \cup {Exact} ELSE Answers]
RepliesExact == [m \in MCModes |-> {Exact}]
=============================================================================
