-------------------------- MODULE MCFireDispatch --------------------------
(* FireDispatch on small instances.  A request may be at both replicas, so  *)
(* one of its kind is enough.                                              *)
EXTENDS FireDispatch, TLC

CONSTANTS a, b, q1, q2

Pairs == {(q1 :> "accept") @@ (q2 :> k) : k \in {"decline", "cancel"}}
=============================================================================
