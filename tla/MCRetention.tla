----------------------------- MODULE MCRetention -----------------------------
(* Retention with two replicas, one of them ahead of the database's clock. *)
EXTENDS Retention

CONSTANTS r1, r2

SkewOf == [r \in Replicas |-> IF r = r1 THEN 1 ELSE 0]
=============================================================================
