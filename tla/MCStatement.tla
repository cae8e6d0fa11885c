---------------------------- MODULE MCStatement ----------------------------
(* Statement with small sets of answers.                                     *)
EXTENDS Statement, MCSession, TLC

StmtSymmetry == Permutations(Stmts)
=============================================================================
