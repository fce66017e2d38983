-------------------------- MODULE TaskDocuments --------------------------
(***************************************************************************)
(* What the documents say of the life of a Task and the code does not      *)
(* keep.  Those with a Doc*.cfg are kept as runs that TLC refutes; the     *)
(* others were refuted with the same constants (README, Disagreements).    *)
(***************************************************************************)
EXTENDS TaskLifecycle

\* ADR-004: "A deadline stop is mandatory and may not return to normal running
\* after rejection."
DeadlineStopIsMandatory ==
    [][row.stop = "DEADLINE_REACHED"
          => row'.state \in {"STOPPING"} \cup TerminalStates]_vars

\* ADR-005: queued, accepted, scheduled and waiting-for-input states "do not
\* imply actual start".
StartedMeansRan ==
    row.started => exec.ran \/ exec.state = "TECHNICAL_FAILED"

\* ADR-005: "Only a later CANCELLED Snapshot publishes the completed
\* start_window_missed result".
WindowMissedMeansCancelled ==
    row.outcome = "start_window_missed" => exec.state \in {"none", "CANCELLED"}

\* ADR-007: after an identity mismatch "the operation remains
\* retryable/recoverable according to its existing durable state": a Task that
\* is being stopped still has a stop command to retry.
MismatchKeepsStop ==
    (SupportsCancel /\ ~Terminal /\ row.stop # "none") => Active(cmd)

\* ADR-005: a retryable negative response "returns the Task to SCHEDULED with
\* bounded exponential backoff": a Task that waits for its next start attempt
\* is not failed for having no execution.
ScheduledIsNotFailed ==
    [][row.state = "SCHEDULED" => row'.state # "TERMINAL_FAILED"]_vars

\* ADR-005: "FOUND binds the execution without another side effect."
FoundBinds == row.rev > 0 => row.ext

\* state-reason-mapping.md: "equal, lower or post-terminal revisions cannot
\* change current state": a working row at the execution's own revision shows
\* the state the Adapter reported with it.
RowShowsItsRevision ==
    (row.rev = exec.rev /\ row.state \in {"QUEUED", "RUNNING", "INPUT_REQUIRED"})
        => row.state = MapAdapterSnapshot(exec.state).state

\* ADR-005: "A snapshot at RUNNING or later records actualStartedAt" when the
\* watchdog confirms it.
ConfirmationIsRecorded ==
    [][\A w \in Workers : ConfirmBoundStarted(w) => row'.started]_vars

\* ADR-005: "Transient reconciliation releases the claim with bounded
\* backoff": no confirmation is claimed while that backoff runs.
ConfirmationBacksOff ==
    [][\A w \in Workers : ClaimBoundStart(w) => row.lease # "held"]_vars

\* mcp-runtime.md: deadline workers "wait for a later Adapter Snapshot before
\* publishing the deadline_reached completed result": a Task stopped by its
\* deadline does not end as an ordinary cancellation.
DeadlineResultPublished ==
    [][(row.stop = "DEADLINE_REACHED" /\ ~Terminal)
          => row'.outcome # "cancelled"]_vars

\* mcp-runtime.md: "Deadline and user cancellation share this journal,
\* preserving the first stop reason".
FirstStopReasonKept ==
    [][(row.stop # "none" /\ row'.stop # "none") => row'.stop = row.stop]_vars
=============================================================================
