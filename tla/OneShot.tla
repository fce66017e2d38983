------------------------------ MODULE OneShot ------------------------------
(***************************************************************************)
(* What the NPC tank's fire control promises of one execution: it is       *)
(* decided once whether the weapon fires or not, and what callers are told *)
(* for certain is that decision.  FireDispatch is shown to implement it.   *)
(***************************************************************************)

VARIABLES
    phase,   \* of the decision
    told     \* certain answers callers were given

Init == phase = "open" /\ told = {}

Fire     == phase = "open" /\ phase' = "fired" /\ UNCHANGED told
Withhold == phase = "open" /\ phase' = "withheld" /\ UNCHANGED told

\* What may be told in a phase.
Truths == CASE phase = "fired"    -> {"accepted"}
            [] phase = "withheld" -> {"cancelled", "aborted", "rejected"}
            [] OTHER              -> {}

Tell(answer) == answer \in Truths /\ told' = told \cup {answer} /\ UNCHANGED phase

Next ==
    \/ Fire
    \/ Withhold
    \/ \E answer \in {"accepted", "cancelled", "aborted", "rejected"} : Tell(answer)

Spec == Init /\ [][Next]_<<phase, told>>
=============================================================================
