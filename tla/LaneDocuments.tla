--------------------------- MODULE LaneDocuments ---------------------------
(* What comments and documents say of commands and input, and the code does *)
(* not keep.                                                               *)
EXTENDS CommandLane

\* acknowledgeUpdateAndCompleteInputAnswers publishes RUNNING with the last
\* answer "so tasks/get never exposes an input_required Task with no open input
\* requests while recovery polls" (tasks.ts).
WaitingHasOpenRequest == Waiting => \E k \in Keys : request[k] = "OPEN"

\* UGV_TASK_BUSINESS_INTERACTIONS.md: the dispatcher "retries uncertain
\* delivery, and blocks later new changes for reconciliation if delivery is
\* exhausted": while the Adapter may have carried out an intervention that was
\* given up, no other is admitted.
UnknownChangeIsFenced ==
    [][BeginIntervention => ~\E i \in applied : /\ commands[i].type = "INTERVENTION"
                                                /\ commands[i].state = "EXHAUSTED"]_vars
=============================================================================
