---------------------------- MODULE PmsDocuments ----------------------------
(***************************************************************************)
(* What the operations guide says of reconciliation: it "is revision-      *)
(* fenced and converges desired versus observed state".  The code does not *)
(* do so in the four ways below.                                           *)
(***************************************************************************)
EXTENDS PmsReconcile

Quiet == (\A e \in Slots : ~Busy(e)) /\ (\A j \in JobIds : job[j].status = "absent")

\* Desired and observed agree once nothing is left to do: a deployment that was
\* stopped has no process.  reconcileStopped moves FAILED and REQUESTED to
\* STOPPED without lifecycle.stop, and a stale execution may start the process
\* after the stop.
StoppedHasNoProcess ==
    Quiet /\ desired = "draining" /\ status = "STOPPED" => process = "stopped"

\* Only the moves of AllowedTransitions are ever written.  recordFailure of the
\* database preparation writes FAILED over a revision another execution made,
\* STOPPED included.
OnlyAllowedMoves == [][status' # status => status' \in Allowed[status]]_vars

\* A stop ends in STOPPED.  It does not when FAILED was written over STOPPED by
\* an execution that had lost its lease: nobody holds a job any more.
StopConverges == desired = "draining" ~> (status = "STOPPED" \/ desired = "running")

\* A start ends in ACTIVE.  It does not when it finds the row in DRAINING (the
\* reconciler returns there), and two jobs of one deployment may mark each
\* other's work FAILED for ever.
StartConverges == desired = "running" ~> (status = "ACTIVE" \/ desired = "draining")

=============================================================================
