--------------------------- MODULE MCCommandLane ---------------------------
(* CommandLane on small instances.  Two handlers, of two workers or, when  *)
(* SharedOwner, of one: a tick whose Promise.all rejected goes on beside   *)
(* the next tick of the same worker.                                       *)
EXTENDS LaneDocuments, TLC

CONSTANTS d1, d2, k1, k2, a1, a2, w1, w2, SharedOwner

OwnerOf == [d \in Dispatchers |-> IF d = d1 \/ SharedOwner THEN w1 ELSE w2]

(* The answers are interchangeable, and so are the handlers of one worker. *)
LaneSymmetry == Permutations(Answers) \cup Permutations(Dispatchers)
=============================================================================
