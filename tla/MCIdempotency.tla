--------------------------- MODULE MCIdempotency ---------------------------
(***************************************************************************)
(* Instances of Idempotency for TLC: three requests with one key, the last *)
(* with another body.                                                      *)
(***************************************************************************)
EXTENDS Idempotency

CONSTANTS q1, q2, q3

OneKey    == [r \in Requests |-> "k"]
TwoBodies == [r \in Requests |-> IF r = q3 THEN "other" ELSE "body"]
=============================================================================
