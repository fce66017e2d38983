---------------------------- MODULE MCAdmission ----------------------------
(* Admission on small instances: two callers of one key, one scan.         *)
EXTENDS Admission

CONSTANTS c1, c2, r1
=============================================================================
