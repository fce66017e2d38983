------------------------------ MODULE TaskRow ------------------------------
(***************************************************************************)
(* The pure functions the Task Authority applies to a provider_task row:   *)
(* the mapping of an Adapter snapshot, the start-evidence predicates, the  *)
(* stop-aware terminal mapping, and what transitionTask, mergeStopState    *)
(* and applySnapshot make of them.                                         *)
(*                                                                         *)
(* PAUSED and RESUMING behave like RUNNING, ACCEPTED and SCHEDULED like    *)
(* QUEUED, BUSINESS_FAILED and PARTIALLY_COMPLETED like SUCCEEDED in every *)
(* function below, so one state stands for each group.                     *)
(***************************************************************************)
EXTENDS Integers

ExecTerminal == {"SUCCEEDED", "TECHNICAL_FAILED", "CANCELLED"}
ExecLive == {"QUEUED", "RUNNING", "WAITING_INPUT", "STOPPING"}
ExecStates == {"none"} \cup ExecLive \cup ExecTerminal

TerminalStates ==
    {"TERMINAL_COMPLETED", "TERMINAL_FAILED", "TERMINAL_CANCELLED"}
TaskStates == {"SCHEDULED", "STARTING", "WAITING_START_CONFIRMATION", "QUEUED",
               "RUNNING", "INPUT_REQUIRED", "STOPPING"} \cup TerminalStates

IsTerminalState(s) == s \in TerminalStates

StopReasons == {"none", "USER_REQUESTED", "DEADLINE_REACHED",
                "START_WINDOW_MISSED"}

Outcomes == {"none", "success", "technical_failure", "cancelled",
             "deadline_reached", "start_window_missed", "admission_rejected",
             "EXECUTION_NOT_FOUND", "SAFE_STOP_UNCONFIRMED"}

Transition == [state : TaskStates, outcome : Outcomes]

\* Operators whose names end in a bug (Unmapped, AckIsProof, ...) are mutants:
\* what the definition after them would be with that bug.  No specification
\* uses them; they show that a property notices the difference.

MapAdapterSnapshotUnmapped(s) ==
    CASE s = "SUCCEEDED"        -> [state |-> "TERMINAL_COMPLETED", outcome |-> "success"]
      [] s = "TECHNICAL_FAILED" -> [state |-> "TERMINAL_FAILED", outcome |-> "technical_failure"]
      [] s = "CANCELLED"        -> [state |-> "TERMINAL_CANCELLED", outcome |-> "cancelled"]
      [] OTHER                  -> [state |-> s, outcome |-> "none"]

\* mapAdapterSnapshot: the internal state and the outcome of a snapshot.
MapAdapterSnapshot(s) ==
    CASE s = "RUNNING"          -> [state |-> "RUNNING", outcome |-> "none"]
      [] s = "WAITING_INPUT"    -> [state |-> "INPUT_REQUIRED", outcome |-> "none"]
      [] s = "STOPPING"         -> [state |-> "STOPPING", outcome |-> "none"]
      [] s = "SUCCEEDED"        -> [state |-> "TERMINAL_COMPLETED", outcome |-> "success"]
      [] s = "TECHNICAL_FAILED" -> [state |-> "TERMINAL_FAILED", outcome |-> "technical_failure"]
      [] s = "CANCELLED"        -> [state |-> "TERMINAL_CANCELLED", outcome |-> "cancelled"]
      [] OTHER                  -> [state |-> "QUEUED", outcome |-> "none"]

\* snapshotHasStarted of the engine and of the scheduler: WAITING_INPUT counts.
SnapshotHasStarted(s) ==
    s \in {"RUNNING", "WAITING_INPUT", "SUCCEEDED", "TECHNICAL_FAILED"}

\* snapshotHasStarted of the watchdog: WAITING_INPUT does not count.
ConfirmsStart(s) == s \in {"RUNNING", "SUCCEEDED", "TECHNICAL_FAILED"}

\* transitionHasStarted of the repository.
TransitionHasStarted(t) ==
    t.state \in {"RUNNING", "TERMINAL_COMPLETED", "TERMINAL_FAILED"}

\* stopTransition: the terminal mapping when the reader believes the Task is
\* being stopped for the given reason.
StopTransition(stop, s) ==
    IF s = "CANCELLED" /\ stop = "DEADLINE_REACHED"
    THEN [state |-> "TERMINAL_COMPLETED", outcome |-> "deadline_reached"]
    ELSE IF s \in ExecTerminal /\ stop = "START_WINDOW_MISSED"
    THEN [state |-> "TERMINAL_COMPLETED", outcome |-> "start_window_missed"]
    ELSE MapAdapterSnapshot(s)

\* mergeStopState: a stop that was requested hides every working snapshot.
MergeStopState(r, t) ==
    IF (r.cancel \/ r.stop # "none") /\ ~IsTerminalState(t.state)
    THEN [state |-> r.state, outcome |-> r.outcome]
    ELSE t

TransitionTaskOverTerminal(r, new) == new

\* transitionTask without an Adapter revision: only a terminal row refuses.
TransitionTask(r, new) == IF IsTerminalState(r.state) THEN r ELSE new

TransitionAtSynthesized(r, rev, new) ==
    IF IsTerminalState(r.state) \/ rev <= r.rev THEN r
    ELSE [new EXCEPT !.rev = rev + 1]

\* transitionTask with one: a revision that is not greater is ignored too.
TransitionAt(r, rev, new) ==
    IF IsTerminalState(r.state) \/ rev <= r.rev THEN r
    ELSE [new EXCEPT !.rev = rev]

\* applySnapshot on the row; the transition was computed by the caller.
ApplySnapshot(r, rev, t) ==
    LET m == MergeStopState(r, t) IN
    TransitionAt(r, rev,
        [r EXCEPT !.state = m.state, !.outcome = m.outcome,
                  !.started = @ \/ TransitionHasStarted(t)])

\* The row after a missed start window that needs no Adapter call.
Missed(r) == [r EXCEPT !.state = "TERMINAL_COMPLETED",
                       !.outcome = "start_window_missed", !.due = FALSE]
=============================================================================
