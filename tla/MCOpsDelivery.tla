--------------------------- MODULE MCOpsDelivery ---------------------------
(* The telemetry queue with two publishers; no symmetry: liveness is checked. *)
EXTENDS OpsDelivery

CONSTANTS p1, p2, e1, e2
=============================================================================
