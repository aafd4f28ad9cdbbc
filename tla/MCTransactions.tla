--------------------------- MODULE MCTransactions ---------------------------
(***************************************************************************)
(* Instances of Transactions for TLC.                                      *)
(***************************************************************************)
EXTENDS Transactions

CONSTANTS r1, d1, d2
=============================================================================
