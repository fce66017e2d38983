-------------------------- MODULE MCTaskLifecycle --------------------------
(* TaskLifecycle on small instances: two workers that are interchangeable. *)
EXTENDS TaskDocuments, TLC

CONSTANTS w1, w2

WorkerSymmetry == Permutations(Workers)
=============================================================================
