--------------------------- MODULE TaskLifecycle ---------------------------
(***************************************************************************)
(* The life of one Task after its admission: the provider_task row, its    *)
(* CANCEL command, the workers of any number of Runtime instances          *)
(* (scheduler, bound-execution watchdog, command dispatcher, recovery scan *)
(* and tasks/get readers) and the Adapter that runs the execution.         *)
(*                                                                         *)
(* Every repository method is one PostgreSQL transaction that locks the    *)
(* row, so it is one atomic step.  Every await of an Adapter call splits a *)
(* handler: what the worker read before the call is kept in its job and    *)
(* may be stale when the answer is used.  Rows are independent, so one     *)
(* Task is enough.                                                         *)
(*                                                                         *)
(* Time is a small clock for the anchors of validateTiming; a lease or a   *)
(* backoff is a timer that is running ("held") and runs out ("over").      *)
(***************************************************************************)
EXTENDS Integers, TaskRow

CONSTANTS
    Workers,          \* worker identities of all Runtime instances
    NoWorker,         \* claim_owner IS NULL
    NotBefore,        \* provider_task.not_before
    LatestStart,      \* provider_task.latest_start_at
    Deadline,         \* provider_task.deadline_at
    Horizon,          \* bound: the clock stops here, past every anchor
    MaxRev,           \* bound: Adapter revisions of the execution
    MaxStopAttempts,  \* maxSafeStopAttempts of the dispatcher (5 in the code)
    MaxCancelSeq,     \* bound: a user cancels only below this many commands
    MaxFaults,        \* bound: crashes, lost leases and bad answers together
    Modes,            \* the kinds of admission explored in Init
    Activities,       \* the kinds of job explored
    SupportsCancel    \* operation.capabilities.cancel

Kinds == {"idle", "start", "uncertain", "confirm", "cancel", "recheck",
          "read", "recover"}

ASSUME ConstantsAssumption ==
    /\ NoWorker \notin Workers
    /\ NotBefore \in Nat /\ LatestStart \in Nat /\ Deadline \in Nat
    /\ Horizon \in Nat
    /\ NotBefore <= LatestStart /\ LatestStart < Horizon
    /\ NotBefore < Deadline /\ Deadline <= Horizon
    /\ MaxRev \in Nat \ {0}
    /\ MaxStopAttempts \in Nat \ {0}
    /\ MaxCancelSeq \in Nat /\ MaxFaults \in Nat
    /\ Modes \subseteq {"scheduled", "immediate", "late"}
    /\ Activities \subseteq Kinds
    /\ SupportsCancel \in BOOLEAN

VARIABLES
    row,       \* the provider_task row
    cmd,       \* the CANCEL command with the highest sequence
    outbox,    \* the event keys that make a transition happen once
    exec,      \* the Adapter's execution (external)
    job,       \* what each worker is doing, with what it read before its call
    now,       \* the clock
    faults,    \* faults that may still happen
    conflict   \* a task.identity_conflict event is in the outbox

vars == <<row, cmd, outbox, exec, job, now, faults, conflict>>

----------------------------------------------------------------------------
(* State.                                                                  *)

Owners == Workers \cup {NoWorker}

Row == [state   : TaskStates,   \* internal_state
        ext     : BOOLEAN,      \* external_execution_id IS NOT NULL
        rev     : Nat,          \* adapter_revision
        started : BOOLEAN,      \* actual_started_at IS NOT NULL
        cancel  : BOOLEAN,      \* cancel_requested
        stop    : StopReasons,  \* stop_reason
        outcome : Outcomes,     \* what result / error report
        owner   : Owners,       \* schedule_claim_owner
        lease   : {"free", "held", "over"},  \* schedule_claim_until
        due     : BOOLEAN]      \* next_start_attempt_at has passed

CommandStates == {"none", "PENDING", "CLAIMED", "RETRY_WAIT", "ACKNOWLEDGED",
                  "REJECTED", "EXHAUSTED"}

Command == [seq    : Nat,
            state  : CommandStates,
            reason : StopReasons,
            owner  : Owners,
            timer  : {"held", "over"},   \* next_attempt_at or claim_until
            tries  : 0..MaxStopAttempts] \* attempt_count, saturating

ActiveStop == {"PENDING", "CLAIMED", "RETRY_WAIT", "ACKNOWLEDGED"}

\* Event keys that can recur: a stop of one command sequence, the cooperative
\* intent, and a start-uncertain event whose reconcileAt was capped at
\* latest_start_at in the current invocation attempt.
EventKinds == {"deadline-stop", "start-window-stop", "cancel-intent",
               "start-uncertain"}
EventKey(kind, seq) == [kind |-> kind, seq |-> seq]
EventKeys == [kind : EventKinds, seq : Nat]

\* The RPC deadline of a caller does not withdraw its request: "sent" is a
\* StartOperation nobody waits for, which may still arrive, and "began" an
\* execution that such a request, or one of a lost claim, has begun.
Execution == [state : ExecStates, rev : Nat, ran : BOOLEAN, acked : BOOLEAN,
              late : {"no", "sent", "began"}]
NoExecution == [state |-> "none", rev |-> 0, ran |-> FALSE, acked |-> FALSE,
                late |-> "no"]

Statuses == {"none", "unavailable", "conflict", "mismatch", "notfound",
             "found", "accepted", "retryable", "rejected"}
Answer == [status : Statuses, state : ExecStates, rev : Nat]
NoAnswer == [status |-> "none", state |-> "none", rev |-> 0]

Job == [kind  : Kinds,
        phase : {"none", "claimed", "sent", "answered"},
        stop  : StopReasons,          \* the stop reason read before the call
        seq   : Nat,                  \* the command sequence it holds
        tries : 0..MaxStopAttempts,   \* the attempt_count it read
        answer : Answer]
NoJob == [kind |-> "idle", phase |-> "none", stop |-> "none", seq |-> 0,
          tries |-> 0, answer |-> NoAnswer]

TypeOK ==
    /\ row \in Row
    /\ cmd \in Command
    /\ outbox \in SUBSET EventKeys
    /\ exec \in Execution
    /\ job \in [Workers -> Job]
    /\ now \in 0..Horizon
    /\ faults \in 0..MaxFaults
    /\ conflict \in BOOLEAN

Terminal == IsTerminalState(row.state)
OwnsStart(w) == row.state = "STARTING" /\ row.owner = w
OwnsConfirmation(w) == row.state = "WAITING_START_CONFIRMATION" /\ row.owner = w
OwnsCommand(w) == cmd.state = "CLAIMED" /\ cmd.owner = w /\ cmd.seq = job[w].seq

Begin(w, kind, phase, stop) ==
    /\ kind \in Activities
    /\ job[w] = NoJob
    /\ job' = [job EXCEPT ![w] = [NoJob EXCEPT !.kind = kind, !.phase = phase,
                                               !.stop = stop]]
In(w, kind, phase) == job[w].kind = kind /\ job[w].phase = phase
Send(w) == job' = [job EXCEPT ![w].phase = "sent"]
Done(w) == job' = [job EXCEPT ![w] = NoJob]
Fault == faults > 0 /\ faults' = faults - 1
NoFault == faults' = faults

\* What becomes of a call of w that is given up: a StartOperation that has not
\* arrived may be lost, or arrive later.
GivenUp(w) ==
    \/ UNCHANGED exec
    \/ /\ In(w, "start", "sent") /\ exec = NoExecution
       /\ exec' = [exec EXCEPT !.late = "sent"]

\* What every step of a worker on the row or the command leaves alone.
Calm == UNCHANGED <<exec, now, faults>>

----------------------------------------------------------------------------
(* What the repository's transactions make of a row r, a command c and the *)
(* recorded events o.                                                      *)

Unclaim(r) == [r EXCEPT !.owner = NoWorker, !.lease = "free"]
Claim(r, w) == [r EXCEPT !.owner = w, !.lease = "held"]

Active(c) == c.state \in ActiveStop
NewCommand(c, reason) ==
    [seq |-> c.seq + 1, state |-> "PENDING", reason |-> reason,
     owner |-> NoWorker, timer |-> "over", tries |-> 0]
Release(c, state) ==
    [c EXCEPT !.state = state, !.owner = NoWorker, !.timer = "held"]

\* A transition that stops the Task for a reason; its key makes it happen once.
Stopped(r, reason) ==
    [r EXCEPT !.state = "STOPPING", !.cancel = TRUE, !.stop = reason]

\* releaseScheduleRetry, completeScheduledRejection.
ReleaseScheduleRetry(r) == [Unclaim(r) EXCEPT !.state = "SCHEDULED"]
CompleteScheduledRejection(r) ==
    [Unclaim(r) EXCEPT !.state = "TERMINAL_COMPLETED",
                       !.outcome = "admission_rejected"]

\* acceptScheduled without its late-start compensation.
AcceptScheduled(r, a) ==
    LET t == MapAdapterSnapshot(a.state) IN
    TransitionAt(r, a.rev,
        [Unclaim(r) EXCEPT !.ext = TRUE, !.state = t.state,
                           !.outcome = t.outcome,
                           !.started = @ \/ SnapshotHasStarted(a.state)])

\* persistStartWindowStop: an active stop is upgraded unless it is a deadline.
WindowReason(c) ==
    IF Active(c) /\ c.reason = "DEADLINE_REACHED"
    THEN "DEADLINE_REACHED" ELSE "START_WINDOW_MISSED"
WindowCommand(r, c) ==
    IF IsTerminalState(r.state) THEN c
    ELSE IF ~Active(c) THEN NewCommand(c, "START_WINDOW_MISSED")
    ELSE IF c.reason = "USER_REQUESTED"
         THEN [c EXCEPT !.reason = "START_WINDOW_MISSED"] ELSE c
WindowKey(r, c) == EventKey("start-window-stop", WindowCommand(r, c).seq)
WindowRow(r, c, o) ==
    IF IsTerminalState(r.state) \/ WindowKey(r, c) \in o THEN r
    ELSE [Stopped(Unclaim(r), WindowReason(c)) EXCEPT !.due = FALSE]
WindowEvents(r, c, o) ==
    IF IsTerminalState(r.state) THEN o ELSE o \cup {WindowKey(r, c)}

PersistStartWindowStop(r) ==
    /\ row' = WindowRow(r, cmd, outbox)
    /\ cmd' = WindowCommand(r, cmd)
    /\ outbox' = WindowEvents(r, cmd, outbox)

\* confirmBoundExecutionStarted.
ConfirmStarted(r, a) ==
    LET t == MapAdapterSnapshot(a.state) IN
    TransitionAt(r, a.rev,
        [Unclaim(r) EXCEPT !.state = t.state, !.outcome = t.outcome,
                           !.started = TRUE])

\* rejectUserCancel: the row takes the snapshot whatever its revision.
RejectUserCancel(r, a) ==
    LET t == MapAdapterSnapshot(a.state) IN
    TransitionTask(r,
        [r EXCEPT !.state = t.state, !.outcome = t.outcome,
                  !.rev = IF a.rev > @ THEN a.rev ELSE @,
                  !.cancel = FALSE, !.stop = "none"])

\* failSafeStopUnconfirmed and failRecoveryNotFound.
FailTask(r, outcome) ==
    TransitionTask(r, [r EXCEPT !.state = "TERMINAL_FAILED",
                                !.outcome = outcome])

CloseCommandNotRetrying(c) ==
    IF c.state \in {"PENDING", "CLAIMED"} THEN Release(c, "EXHAUSTED") ELSE c

\* applySnapshot on the command: a terminal snapshot that is applied closes
\* an unfinished one; an acknowledged one stays.
CloseCommand(c) ==
    IF c.state \in {"PENDING", "CLAIMED", "RETRY_WAIT"}
    THEN Release(c, "EXHAUSTED") ELSE c
CommandAfter(r, c, rev, t) ==
    IF ~IsTerminalState(r.state) /\ rev > r.rev /\ IsTerminalState(t.state)
    THEN CloseCommand(c) ELSE c

----------------------------------------------------------------------------
(* Scheduler: claiming a due Task, starting it, and reconciling a start    *)
(* whose answer is uncertain.                                              *)

UncertainKey == EventKey("start-uncertain", 0)

\* claimDueScheduled.  The tick took its clock before it ran the watchdog, so
\* the time t it compares with may be long past.  The event keys carry the
\* attempt, so a new attempt starts without its start-uncertain key.
ClaimDueScheduled(w) ==
    /\ row.state = "SCHEDULED" /\ ~row.ext /\ row.due
    /\ \E t \in 0..now : NotBefore <= t /\ t < LatestStart
    /\ Begin(w, "start", "claimed", "none")
    /\ row' = [Claim(row, w) EXCEPT !.state = "STARTING", !.due = FALSE]
    /\ outbox' = outbox \ {UncertainKey}
    /\ UNCHANGED <<cmd, conflict>> /\ Calm

CompleteDueStartWindowMissesUnclaimed ==
    /\ row.state \in {"SCHEDULED", "STARTING"} /\ ~row.ext /\ now >= LatestStart
    /\ row' = Unclaim(Missed(row))
    /\ UNCHANGED <<cmd, outbox, job, conflict>> /\ Calm

\* completeDueStartWindowMisses.
CompleteDueStartWindowMisses ==
    /\ row.state = "SCHEDULED" /\ ~row.ext /\ now >= LatestStart
    /\ row' = Unclaim(Missed(row))
    /\ UNCHANGED <<cmd, outbox, job, conflict>> /\ Calm

\* startClaimedTask up to the call: the window is checked again, and an
\* operation snapshot that cannot be loaded releases the claim.
StartClaimed(w) ==
    /\ In(w, "start", "claimed") /\ OwnsStart(w) /\ now < LatestStart
    /\ row' = Claim(row, w)
    /\ Send(w)
    /\ UNCHANGED <<cmd, outbox, conflict>> /\ Calm

StartTooLate(w) ==
    /\ In(w, "start", "claimed") /\ OwnsStart(w) /\ now >= LatestStart
    /\ row' = Unclaim(Missed(row))
    /\ Done(w)
    /\ UNCHANGED <<cmd, outbox, conflict>> /\ Calm

StartNotLoaded(w) ==
    /\ In(w, "start", "claimed") /\ OwnsStart(w) /\ now < LatestStart
    /\ Fault
    /\ row' = ReleaseScheduleRetry(row)
    /\ Done(w)
    /\ UNCHANGED <<cmd, outbox, conflict, exec, now>>

\* claimExpiredScheduledStarts and the reconcile call that follows it.
ClaimExpiredStart(w) ==
    /\ row.state = "STARTING" /\ ~row.ext /\ row.lease = "over"
    /\ Begin(w, "uncertain", "sent", "none")
    /\ row' = Claim(row, w)
    /\ UNCHANGED <<cmd, outbox, conflict>> /\ Calm

Starting(w, statuses) ==
    /\ job[w].kind \in {"start", "uncertain"} /\ job[w].phase = "answered"
    /\ job[w].answer.status \in statuses
    /\ OwnsStart(w)
    /\ Done(w)

\* startClaimedTask and reconcileUncertainStart with an accepted or FOUND
\* snapshot: acceptStart, and the stop of a late start in the same transaction.
StartAccepted(w) ==
    /\ Starting(w, {"accepted", "found"})
    /\ LET r == AcceptScheduled(row, job[w].answer) IN
       IF now > LatestStart THEN PersistStartWindowStop(r)
       ELSE row' = r /\ UNCHANGED <<cmd, outbox>>
    /\ UNCHANGED conflict /\ Calm

StartAbsentWhenSilent(w) ==
    /\ Starting(w, {"retryable", "notfound", "unavailable"})
    /\ row' = IF now >= LatestStart THEN Unclaim(Missed(row))
              ELSE ReleaseScheduleRetry(row)
    /\ UNCHANGED <<cmd, outbox, conflict>> /\ Calm

\* A retryable rejection or a definitive NOT_FOUND.
StartAbsent(w) ==
    /\ Starting(w, {"retryable", "notfound"})
    /\ row' = IF now >= LatestStart THEN Unclaim(Missed(row))
              ELSE ReleaseScheduleRetry(row)
    /\ UNCHANGED <<cmd, outbox, conflict>> /\ Calm

StartRejected(w) ==
    /\ Starting(w, {"rejected", "conflict"})
    /\ row' = CompleteScheduledRejection(row)
    /\ UNCHANGED <<cmd, outbox, conflict>> /\ Calm

StartUncertainNoLease(w) ==
    /\ Starting(w, {"unavailable", "mismatch"})
    /\ row' = Unclaim(row)
    /\ UNCHANGED <<cmd, outbox, conflict>> /\ Calm

\* markScheduleResponseUncertain: reconcileAt is capped at latest_start_at, so
\* the second capped event of an attempt is a duplicate and changes nothing.
StartUncertain(w) ==
    /\ Starting(w, {"unavailable", "mismatch"})
    /\ conflict' = (conflict \/ job[w].answer.status = "mismatch")
    /\ \E capped \in BOOLEAN :
          /\ now >= LatestStart => capped
          /\ IF capped /\ UncertainKey \in outbox
             THEN UNCHANGED <<row, outbox>>
             ELSE /\ row' = [row EXCEPT !.owner = NoWorker, !.lease =
                               IF now >= LatestStart THEN "over" ELSE "held"]
                  /\ outbox' = outbox \cup (IF capped THEN {UncertainKey} ELSE {})
    /\ UNCHANGED cmd /\ Calm

----------------------------------------------------------------------------
(* Bound-execution watchdog.                                               *)

\* claimBoundStartConfirmations and the reconcile call that follows it.
ClaimBoundStart(w) ==
    /\ ~Terminal /\ ~row.started /\ row.ext /\ row.stop = "none"
    /\ now >= LatestStart
    /\ row.owner = NoWorker \/ row.lease = "over"
    /\ Begin(w, "confirm", "sent", "none")
    /\ row' = [Claim(row, w) EXCEPT !.state = "WAITING_START_CONFIRMATION"]
    /\ UNCHANGED <<cmd, outbox, conflict>> /\ Calm

Confirming(w) == In(w, "confirm", "answered") /\ OwnsConfirmation(w) /\ Done(w)
Confirmed(w) ==
    job[w].answer.status = "found" /\ ConfirmsStart(job[w].answer.state)

ConfirmBoundStarted(w) ==
    /\ Confirming(w) /\ Confirmed(w)
    /\ row' = ConfirmStarted(row, job[w].answer)
    /\ UNCHANGED <<cmd, outbox, conflict>> /\ Calm

\* deferStartConfirmation: the claim is dropped and its expiry is the backoff.
DeferStartConfirmation(w) ==
    /\ Confirming(w) /\ job[w].answer.status \in {"unavailable", "mismatch"}
    /\ row' = [row EXCEPT !.owner = NoWorker, !.lease = "held"]
    /\ UNCHANGED <<cmd, outbox, conflict>> /\ Calm

StopUnconfirmedBoundExecution(w) ==
    /\ Confirming(w) /\ ~Confirmed(w)
    /\ job[w].answer.status \in {"found", "notfound", "conflict"}
    /\ PersistStartWindowStop(row)
    /\ UNCHANGED conflict /\ Calm

----------------------------------------------------------------------------
(* Stops: the deadline scan, tasks/cancel and the cooperative intent.      *)

ClaimExpiredDeadlinesNotPromoted ==
    /\ now >= Deadline /\ row.stop # "DEADLINE_REACHED" /\ row.ext /\ ~Terminal
    /\ cmd' = IF Active(cmd) THEN cmd ELSE NewCommand(cmd, "DEADLINE_REACHED")
    /\ row' = Stopped(row, "DEADLINE_REACHED")
    /\ UNCHANGED <<outbox, job, conflict>> /\ Calm

ClaimExpiredDeadlines ==
    /\ now >= Deadline /\ row.stop # "DEADLINE_REACHED" /\ row.ext /\ ~Terminal
    /\ cmd' = IF Active(cmd) THEN [cmd EXCEPT !.reason = "DEADLINE_REACHED"]
              ELSE NewCommand(cmd, "DEADLINE_REACHED")
    /\ LET key == EventKey("deadline-stop", cmd'.seq) IN
       /\ row' = IF key \in outbox THEN row ELSE Stopped(row, "DEADLINE_REACHED")
       /\ outbox' = outbox \cup {key}
    /\ UNCHANGED <<job, conflict>> /\ Calm

\* cancelTask and cancelTaskCooperatively of an operation that can cancel;
\* beginCancel answers with the active command if there is one.
BeginCancel ==
    /\ SupportsCancel /\ ~Terminal /\ ~Active(cmd) /\ cmd.seq < MaxCancelSeq
    /\ cmd' = NewCommand(cmd, "USER_REQUESTED")
    /\ row' = Stopped(row, "USER_REQUESTED")
    /\ UNCHANGED <<outbox, job, conflict>> /\ Calm

RecordCooperativeIntent ==
    /\ ~SupportsCancel /\ ~Terminal
    /\ EventKey("cancel-intent", 0) \notin outbox
    /\ row' = [row EXCEPT !.cancel = TRUE, !.stop = "USER_REQUESTED"]
    /\ outbox' = outbox \cup {EventKey("cancel-intent", 0)}
    /\ UNCHANGED <<cmd, job, conflict>> /\ Calm

----------------------------------------------------------------------------
(* Command dispatcher.                                                     *)

ClaimCommandOnce(w) ==
    /\ cmd.state \in {"PENDING", "RETRY_WAIT"} /\ cmd.timer = "over"
    /\ "cancel" \in Activities /\ job[w] = NoJob
    /\ cmd' = [cmd EXCEPT !.state = "CLAIMED", !.owner = w, !.timer = "held"]
    /\ job' = [job EXCEPT ![w] = [NoJob EXCEPT !.kind = "cancel",
                 !.phase = "claimed", !.stop = cmd.reason, !.seq = cmd.seq]]
    /\ UNCHANGED <<row, outbox, conflict>> /\ Calm

\* claimDueCommands: the job keeps the stop reason the command has now.
ClaimCommand(w) ==
    /\ cmd.state \in {"PENDING", "RETRY_WAIT", "CLAIMED"} /\ cmd.timer = "over"
    /\ "cancel" \in Activities /\ job[w] = NoJob
    /\ LET tries == IF cmd.tries < MaxStopAttempts THEN cmd.tries + 1
                    ELSE MaxStopAttempts IN
       /\ cmd' = [cmd EXCEPT !.state = "CLAIMED", !.owner = w,
                             !.timer = "held", !.tries = tries]
       /\ job' = [job EXCEPT ![w] =
                     [NoJob EXCEPT !.kind = "cancel", !.phase = "claimed",
                                   !.stop = cmd.reason, !.seq = cmd.seq,
                                   !.tries = tries]]
    /\ UNCHANGED <<row, outbox, conflict>> /\ Calm

\* executeClaimed up to the call.
DispatchCancel(w) ==
    /\ In(w, "cancel", "claimed") /\ OwnsCommand(w) /\ ~Terminal
    /\ cmd' = [cmd EXCEPT !.timer = "held"]
    /\ Send(w)
    /\ UNCHANGED <<row, outbox, conflict>> /\ Calm

DispatchTerminal(w) ==
    /\ In(w, "cancel", "claimed") /\ OwnsCommand(w) /\ Terminal
    /\ cmd' = Release(cmd, "REJECTED")
    /\ Done(w)
    /\ UNCHANGED <<row, outbox, conflict>> /\ Calm

Stopping(w, kind, statuses) ==
    /\ In(w, kind, "answered") /\ job[w].answer.status \in statuses
    /\ OwnsCommand(w)
    /\ UNCHANGED outbox /\ Calm

Mandatory(w) == job[w].stop # "USER_REQUESTED"

AcknowledgeClaimedCommand(w) ==
    /\ Stopping(w, "cancel", {"accepted"})
    /\ cmd' = Release(cmd, "ACKNOWLEDGED")
    /\ Done(w)
    /\ UNCHANGED <<row, conflict>>

\* dispatchCancel: a permanent rejection of a user cancel is checked against
\* the Adapter before anything is undone.
RecheckRejectedCancel(w) ==
    /\ Stopping(w, "cancel", {"rejected"}) /\ ~Mandatory(w)
    /\ cmd' = [cmd EXCEPT !.timer = "held"]
    /\ job' = [job EXCEPT ![w].kind = "recheck", ![w].phase = "sent",
                          ![w].answer = NoAnswer]
    /\ UNCHANGED <<row, conflict>>

\* failSafeStopUnconfirmed: a mandatory stop was rejected, or its attempts are
\* used up.
FailSafeStop(w) ==
    /\ Stopping(w, "cancel", {"rejected", "unavailable"}) /\ Mandatory(w)
    /\ job[w].answer.status = "unavailable" => job[w].tries >= MaxStopAttempts
    /\ row' = FailTask(row, "SAFE_STOP_UNCONFIRMED")
    /\ cmd' = Release(cmd, "EXHAUSTED")
    /\ Done(w)
    /\ UNCHANGED conflict

\* retryClaimedCommand.
RetryClaimedCommand(w) ==
    /\ \/ Stopping(w, "cancel", {"retryable"})
       \/ /\ Stopping(w, "cancel", {"unavailable"})
          /\ ~Mandatory(w) \/ job[w].tries < MaxStopAttempts
       \/ Stopping(w, "recheck", {"unavailable", "notfound", "conflict"})
    /\ cmd' = Release(cmd, "RETRY_WAIT")
    /\ Done(w)
    /\ UNCHANGED <<row, conflict>>

\* An answer with another identity rejects the command for good.
RejectMismatched(w) ==
    /\ \E kind \in {"cancel", "recheck"} : Stopping(w, kind, {"mismatch"})
    /\ conflict' = TRUE
    /\ cmd' = Release(cmd, "REJECTED")
    /\ Done(w)
    /\ UNCHANGED row

RestoreAfterRejection(w) ==
    /\ Stopping(w, "recheck", {"found"})
    /\ row' = RejectUserCancel(row, job[w].answer)
    /\ cmd' = Release(cmd, IF Terminal THEN "EXHAUSTED" ELSE "REJECTED")
    /\ Done(w)
    /\ UNCHANGED conflict

----------------------------------------------------------------------------
(* tasks/get and the recovery scan.  The recovery lock is not modelled: it *)
(* is a 30 s lease without heartbeat, and getTask reconciles without it.   *)

ReadTask(w) ==
    /\ ~Terminal /\ row.state \notin {"SCHEDULED", "STARTING"} /\ row.ext
    /\ Begin(w, "read", "sent", row.stop)
    /\ UNCHANGED <<row, cmd, outbox, conflict>> /\ Calm

ListForRecovery(w) ==
    /\ ~Terminal /\ row.state # "SCHEDULED"
    /\ Begin(w, "recover", "claimed", "none")
    /\ UNCHANGED <<row, cmd, outbox, conflict>> /\ Calm

\* scan reads the listed Task again: only a terminal one, or one that is
\* starting, is left alone.
Recover(w) ==
    /\ In(w, "recover", "claimed")
    /\ IF Terminal \/ (row.state = "STARTING" /\ ~row.ext) THEN Done(w)
       ELSE job' = [job EXCEPT ![w].phase = "sent", ![w].stop = row.stop]
    /\ UNCHANGED <<row, cmd, outbox, conflict>> /\ Calm

Reading(w, statuses) ==
    /\ job[w].kind \in {"read", "recover"} /\ job[w].phase = "answered"
    /\ job[w].answer.status \in statuses
    /\ UNCHANGED outbox /\ Calm

\* getTask and reconcileTask with a valid snapshot: applySnapshot with the
\* transition computed from the stop reason read before the call.
ApplyFound(w) ==
    /\ Reading(w, {"found"})
    /\ LET a == job[w].answer
           t == StopTransition(job[w].stop, a.state) IN
       /\ row' = ApplySnapshot(row, a.rev, t)
       /\ cmd' = CommandAfter(row, cmd, a.rev, t)
    /\ Done(w)
    /\ UNCHANGED conflict

\* A transient failure of getTask starts reconcileTask in the background with
\* the Task as it was read; one of reconcileTask is left to the next scan.
ReadUnavailable(w) ==
    /\ Reading(w, {"unavailable"})
    /\ IF job[w].kind = "recover" THEN Done(w)
       ELSE job' = [job EXCEPT ![w].kind = "recover", ![w].phase = "sent",
                              ![w].answer = NoAnswer]
    /\ UNCHANGED <<row, cmd, conflict>>

ReadMismatched(w) ==
    /\ Reading(w, {"mismatch"})
    /\ conflict' = TRUE
    /\ Done(w)
    /\ UNCHANGED <<row, cmd>>

\* failRecoveryNotFound leaves an unfinished command as it is.
FailRecoveryNotFound(w) ==
    /\ Reading(w, {"notfound", "conflict"})
    /\ row' = FailTask(row, "EXECUTION_NOT_FOUND")
    /\ Done(w)
    /\ UNCHANGED <<cmd, conflict>>

----------------------------------------------------------------------------
(* A worker that finds its claim gone throws and changes nothing; a crash  *)
(* forgets the job, but not the request it had sent.                       *)

HoldsNothing(w) ==
    \/ job[w].kind \in {"start", "uncertain"} /\ ~OwnsStart(w)
    \/ job[w].kind = "confirm" /\ ~OwnsConfirmation(w)
    \/ job[w].kind \in {"cancel", "recheck"} /\ ~OwnsCommand(w)

ClaimLost(w) ==
    /\ job[w].phase \in {"claimed", "answered"} /\ HoldsNothing(w)
    /\ Done(w)
    /\ UNCHANGED <<row, cmd, outbox, conflict>> /\ Calm

Crash(w) ==
    /\ job[w] # NoJob
    /\ Fault
    /\ GivenUp(w)
    /\ Done(w)
    /\ UNCHANGED <<row, cmd, outbox, now, conflict>>

----------------------------------------------------------------------------
(* The Adapter (external): one execution per task id, a revision that      *)
(* grows with every change, answers that describe the execution when the   *)
(* call arrives.  A bad answer (no answer, another identity, a retryable   *)
(* refusal of a stop) is a fault.                                          *)

Reply(w, status) ==
    job' = [job EXCEPT ![w].phase = "answered",
                       ![w].answer = [NoAnswer EXCEPT !.status = status]]
ReplyWith(w, status, e) ==
    job' = [job EXCEPT ![w].phase = "answered",
                       ![w].answer = [status |-> status, state |-> e.state,
                                      rev |-> e.rev]]
Quiet == UNCHANGED <<row, cmd, outbox, now, conflict>>

FirstStates == {"QUEUED", "RUNNING", "WAITING_INPUT"}
Started(s) == [state |-> s, rev |-> 1, ran |-> s = "RUNNING", acked |-> FALSE,
               late |-> "no"]
StartedLate(s) == [Started(s) EXCEPT !.late = "began"]
Launched(w) ==
    IF exec.state # "none" THEN {exec}
    ELSE {IF row.owner = w THEN Started(s) ELSE StartedLate(s) : s \in FirstStates}

\* A StartOperation reaches the Adapter, whether or not its caller still has
\* the schedule claim.
AdapterStarts(w) ==
    /\ In(w, "start", "sent")
    /\ \E e \in Launched(w) :
          /\ exec' = e
          /\ \/ ReplyWith(w, "accepted", e) /\ NoFault
             \/ Reply(w, "unavailable") /\ Fault
             \/ Reply(w, "mismatch") /\ Fault
    /\ Quiet

AdapterRefusesStart(w) ==
    /\ In(w, "start", "sent") /\ exec.state = "none"
    /\ Reply(w, "retryable") \/ Reply(w, "rejected")
    /\ UNCHANGED <<exec, faults>> /\ Quiet

AdapterCancels(w) ==
    /\ In(w, "cancel", "sent") /\ exec.state # "none"
    /\ exec' = [exec EXCEPT !.acked = exec.state \in ExecLive]
    /\ \/ Reply(w, "accepted") /\ NoFault
       \/ Reply(w, "unavailable") /\ Fault
       \/ Reply(w, "mismatch") /\ Fault
    /\ Quiet

AdapterRefusesCancel(w) ==
    /\ In(w, "cancel", "sent")
    /\ \/ Reply(w, "rejected") /\ NoFault
       \/ Reply(w, "retryable") /\ Fault
    /\ UNCHANGED exec /\ Quiet

Asks(w) ==
    /\ job[w].kind \in {"uncertain", "confirm", "recheck", "read", "recover"}
    /\ job[w].phase = "sent"

AdapterReconciles(w) ==
    /\ Asks(w)
    /\ IF exec.state = "none" THEN Reply(w, "notfound")
       ELSE ReplyWith(w, "found", exec)
    /\ UNCHANGED <<exec, faults>> /\ Quiet

AdapterMisanswers(w) ==
    /\ Asks(w) /\ Fault
    /\ \/ Reply(w, "mismatch")
       \/ job[w].kind # "read" /\ Reply(w, "conflict")
    /\ UNCHANGED exec /\ Quiet

\* No answer in time, and no effect so far: every call has a deadline.
CallFails(w) ==
    /\ job[w].phase = "sent" /\ Fault
    /\ Reply(w, "unavailable")
    /\ GivenUp(w) /\ Quiet

\* A call whose caller lost the claim is given up without a fault.
CallAbandoned(w) ==
    /\ In(w, "start", "sent") /\ row.owner # w
    /\ Reply(w, "unavailable")
    /\ GivenUp(w) /\ UNCHANGED faults /\ Quiet

\* A StartOperation that was given up arrives; where there is an execution
\* already it finds that one and changes nothing.
LateStart ==
    /\ exec.state = "none" /\ exec.late = "sent"
    /\ \E s \in FirstStates : exec' = StartedLate(s)
    /\ UNCHANGED <<job, faults>> /\ Quiet

Moves(s) ==
    CASE s = "QUEUED"        -> {"RUNNING", "WAITING_INPUT", "TECHNICAL_FAILED"}
      [] s = "RUNNING"       -> {"WAITING_INPUT", "SUCCEEDED", "TECHNICAL_FAILED"}
      [] s = "WAITING_INPUT" -> {"RUNNING", "TECHNICAL_FAILED"}
      [] OTHER               -> {}

Advance(s) ==
    /\ exec.rev < (IF s \in ExecTerminal THEN MaxRev ELSE MaxRev - 1)
    /\ exec' = [exec EXCEPT !.state = s, !.rev = @ + 1,
                            !.ran = @ \/ s \in {"RUNNING", "SUCCEEDED"}]
    /\ UNCHANGED <<job, faults>> /\ Quiet

AdapterProgress == \E s \in Moves(exec.state) : Advance(s)

AdapterStops ==
    /\ exec.acked /\ exec.state \in ExecLive
    /\ \E s \in {"STOPPING", "CANCELLED"} \ {exec.state} : Advance(s)

----------------------------------------------------------------------------
(* Time.  A lease runs out by itself only when nobody renews it; that a    *)
(* living holder fails to renew in time is a fault.                        *)

LeaseHeld == \E w \in Workers :
    row.owner = w /\ job[w].kind \in {"start", "uncertain", "confirm"}
CommandHeld == \E w \in Workers :
    job[w].kind \in {"cancel", "recheck"} /\ OwnsCommand(w)

LeaseElapses ==
    /\ row.lease = "held"
    /\ IF LeaseHeld THEN Fault ELSE NoFault
    /\ row' = [row EXCEPT !.lease = "over"]
    /\ UNCHANGED <<cmd, outbox, exec, job, now, conflict>>

NextStartElapses ==
    /\ row.state = "SCHEDULED" /\ ~row.due
    /\ row' = [row EXCEPT !.due = TRUE]
    /\ UNCHANGED <<cmd, outbox, job, conflict>> /\ Calm

CommandTimerElapses ==
    /\ cmd.state \in {"RETRY_WAIT", "CLAIMED"} /\ cmd.timer = "held"
    /\ IF CommandHeld THEN Fault ELSE NoFault
    /\ cmd' = [cmd EXCEPT !.timer = "over"]
    /\ UNCHANGED <<row, outbox, exec, job, now, conflict>>

Tick ==
    /\ now < Horizon
    /\ now' = now + 1
    /\ UNCHANGED <<row, cmd, outbox, exec, job, faults, conflict>>

----------------------------------------------------------------------------
(* Specification.                                                          *)

NoCommand == [seq |-> 0, state |-> "none", reason |-> "none",
              owner |-> NoWorker, timer |-> "held", tries |-> 0]

\* publishScheduled.
ScheduledRow ==
    [state |-> "SCHEDULED", ext |-> FALSE, rev |-> 0, started |-> FALSE,
     cancel |-> FALSE, stop |-> "none", outcome |-> "none", owner |-> NoWorker,
     lease |-> "free", due |-> FALSE]

\* publishAccepted with the first snapshot of an immediate start.
AcceptedRow(e) ==
    [ScheduledRow EXCEPT !.state = MapAdapterSnapshot(e.state).state,
                         !.ext = TRUE, !.rev = e.rev,
                         !.started = SnapshotHasStarted(e.state)]

Init ==
    /\ job = [w \in Workers |-> NoJob]
    /\ faults = MaxFaults
    /\ conflict = FALSE
    /\ \E mode \in Modes :
        \/ /\ mode = "scheduled"
           /\ row = ScheduledRow /\ cmd = NoCommand /\ outbox = {}
           /\ exec = NoExecution /\ now = 0
        \/ /\ mode = "immediate"
           /\ \E s \in FirstStates : exec = Started(s)
           /\ row = AcceptedRow(exec) /\ cmd = NoCommand /\ outbox = {}
           /\ now = 0
        \/ /\ mode = "late"
           /\ \E s \in FirstStates : exec = Started(s)
           /\ now = LatestStart + 1
           /\ row = WindowRow(AcceptedRow(exec), NoCommand, {})
           /\ cmd = WindowCommand(AcceptedRow(exec), NoCommand)
           /\ outbox = WindowEvents(AcceptedRow(exec), NoCommand, {})

SchedulerStep(w) ==
    \/ ClaimDueScheduled(w) \/ StartClaimed(w) \/ StartTooLate(w)
    \/ StartNotLoaded(w) \/ ClaimExpiredStart(w) \/ StartAccepted(w)
    \/ StartAbsent(w) \/ StartRejected(w) \/ StartUncertain(w)
WatchdogStep(w) ==
    \/ ClaimBoundStart(w) \/ ConfirmBoundStarted(w)
    \/ DeferStartConfirmation(w) \/ StopUnconfirmedBoundExecution(w)
DispatcherStep(w) ==
    \/ ClaimCommand(w) \/ DispatchCancel(w) \/ DispatchTerminal(w)
    \/ AcknowledgeClaimedCommand(w) \/ RecheckRejectedCancel(w)
    \/ FailSafeStop(w) \/ RetryClaimedCommand(w) \/ RejectMismatched(w)
    \/ RestoreAfterRejection(w)
ReaderStep(w) ==
    \/ ReadTask(w) \/ ListForRecovery(w) \/ Recover(w) \/ ApplyFound(w)
    \/ ReadUnavailable(w) \/ ReadMismatched(w) \/ FailRecoveryNotFound(w)
AdapterStep(w) ==
    \/ AdapterStarts(w) \/ AdapterRefusesStart(w) \/ AdapterCancels(w)
    \/ AdapterRefusesCancel(w) \/ AdapterReconciles(w) \/ AdapterMisanswers(w)
    \/ CallFails(w) \/ CallAbandoned(w)
Sweep == CompleteDueStartWindowMisses \/ ClaimExpiredDeadlines
Client == BeginCancel \/ RecordCooperativeIntent
Timers == LeaseElapses \/ NextStartElapses \/ CommandTimerElapses \/ Tick

Next ==
    \/ \E w \in Workers :
          \/ SchedulerStep(w) \/ WatchdogStep(w) \/ DispatcherStep(w)
          \/ ReaderStep(w) \/ AdapterStep(w) \/ ClaimLost(w) \/ Crash(w)
    \/ Sweep \/ Client \/ Timers \/ LateStart \/ AdapterProgress \/ AdapterStops

Spec == Init /\ [][Next]_vars

\* Fairness.  The loops of runtime.ts are independent interval timers, so none
\* of them starves another: a worker of the model multiplexes them, hence the
\* strong fairness of the claims.  A handler that runs comes to its end, a call
\* is answered (every call has a deadline), and timers run out.  Of the Adapter
\* it is assumed that it carries out a stop it acknowledged.
Handle(w) ==
    \/ StartClaimed(w) \/ StartTooLate(w) \/ StartAccepted(w) \/ StartAbsent(w)
    \/ StartRejected(w) \/ StartUncertain(w) \/ ConfirmBoundStarted(w)
    \/ DeferStartConfirmation(w) \/ StopUnconfirmedBoundExecution(w)
    \/ DispatchCancel(w) \/ DispatchTerminal(w) \/ AcknowledgeClaimedCommand(w)
    \/ RecheckRejectedCancel(w) \/ FailSafeStop(w) \/ RetryClaimedCommand(w)
    \/ RejectMismatched(w) \/ RestoreAfterRejection(w) \/ Recover(w)
    \/ ApplyFound(w) \/ ReadUnavailable(w) \/ ReadMismatched(w)
    \/ FailRecoveryNotFound(w) \/ ClaimLost(w)

Fairness ==
    /\ \A w \in Workers :
          /\ SF_vars(ClaimDueScheduled(w)) /\ SF_vars(ClaimExpiredStart(w))
          /\ SF_vars(ClaimBoundStart(w)) /\ SF_vars(ClaimCommand(w))
          /\ SF_vars(ListForRecovery(w))
          /\ WF_vars(Handle(w)) /\ WF_vars(AdapterStep(w))
    /\ WF_vars(CompleteDueStartWindowMisses) /\ WF_vars(ClaimExpiredDeadlines)
    /\ WF_vars(LeaseElapses) /\ WF_vars(NextStartElapses)
    /\ WF_vars(CommandTimerElapses) /\ WF_vars(Tick)
    /\ WF_vars(AdapterStops)

FairSpec == Spec /\ Fairness

----------------------------------------------------------------------------
(* Safety.                                                                 *)

\* ADR-004: a Task that is being stopped always has one stop command that is
\* pending, in flight or acknowledged, for the reason the row shows, however
\* claims, upgrades and rejections interleave.  (An identity conflict rejects
\* the command for good, and an operation without cancel records no command:
\* both are excluded here.)
StopHasCommand ==
    (SupportsCancel /\ ~conflict /\ ~Terminal /\ row.stop # "none")
        => Active(cmd) /\ cmd.reason = row.stop

\* No execution, or one that was begun late: by a request that was given up, or
\* whose caller had lost the claim.
NoneOrLate(e) == e.state = "none" \/ e.late = "began"

\* The row never claims more than the Adapter said: its revision and every
\* answer still in flight are at most the execution's revision, and a bound
\* Task has an execution.
RevisionIsReal ==
    /\ row.rev <= exec.rev
    /\ row.ext => exec.state # "none"
    /\ \A w \in Workers : job[w].answer.rev <= exec.rev

\* state-reason-mapping.md: START_WINDOW_MISSED "is completed only when no
\* execution exists or a later Snapshot proves compensation stopped it safely".
\* The code does not keep this where a StartOperation arrives late, so no run
\* expects it: README.md, "Disagreements".
WindowMissedIsSafe ==
    row.outcome = "start_window_missed"
        => exec.state \in {"none"} \cup ExecTerminal

\* A published outcome was proved by the Adapter: each result that reports the
\* end of an execution is backed by that end, and the missed start window of a
\* bound Task too; of a Task that was never bound it says that there was none,
\* or one begun by a request that its caller had given up.  Only the outcomes
\* that say "unconfirmed" or "not found", and a rejected admission, may leave
\* another execution running.
OutcomeIsProven ==
    /\ row.outcome = "success" => exec.state = "SUCCEEDED"
    /\ row.outcome = "technical_failure" => exec.state = "TECHNICAL_FAILED"
    /\ row.outcome \in {"cancelled", "deadline_reached"}
          => exec.state = "CANCELLED"
    /\ row.outcome = "start_window_missed"
          => exec.state \in ExecTerminal \/ (~row.ext /\ NoneOrLate(exec))
    /\ row.outcome # "none" => Terminal

\* ADR-005: a Task goes back to SCHEDULED, where a new StartOperation is
\* allowed, only when none was begun: whatever was lost, the Runtime never
\* forgets a start it can still be told of.  An execution there is then was
\* begun late, which no question to the Adapter can rule out beforehand.
NoSecondSideEffect == row.state = "SCHEDULED" => NoneOrLate(exec)

\* ADR-004: a terminal snapshot that wins leaves no command to dispatch.
CompletionClosesCommand ==
    row.outcome \in {"success", "technical_failure", "cancelled",
                     "deadline_reached", "start_window_missed"}
        => cmd.state \notin {"PENDING", "CLAIMED", "RETRY_WAIT"}

\* task-state-machine.md: a stored terminal state and its outcome never change,
\* a recorded start is never forgotten and the revision never goes back.
Keeps(r, new) ==
    /\ IsTerminalState(r.state)
          => new.state = r.state /\ new.outcome = r.outcome /\ new.rev = r.rev
    /\ r.started => new.started
    /\ r.ext => new.ext
    /\ new.rev >= r.rev
RowNeverRegresses == [][Keeps(row, row')]_vars

----------------------------------------------------------------------------
(* Liveness under Fairness and finitely many faults.                       *)

\* A Task does not stay scheduled or starting: its execution is bound, its
\* window is missed, or it is rejected, cancelled or failed, also when the
\* worker that started it crashed or lost the answer.
StartResolves ==
    row.state \in {"SCHEDULED", "STARTING"}
        ~> row.state \notin {"SCHEDULED", "STARTING"}

\* ADR-004: a deadline stop ends the Task, with proof or as unconfirmed, unless
\* an identity conflict rejected its command.
DeadlineStopResolves ==
    row.stop = "DEADLINE_REACHED" ~> Terminal \/ conflict
=============================================================================
