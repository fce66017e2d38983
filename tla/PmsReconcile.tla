---------------------------- MODULE PmsReconcile ----------------------------
(***************************************************************************)
(* The PMS control plane around one platform-managed RuntimeDeployment:    *)
(* the row with its desired state and status, the job_lease table, the     *)
(* periodic scheduler, and the executions of the reconcile job, which may  *)
(* overlap (two jobs of one deployment, or a job taken over after its      *)
(* lease ran out while the first execution still works).                   *)
(*                                                                         *)
(* desired_revision and observed_revision are unbounded counters read only *)
(* for equality.  An execution therefore keeps, instead of the number it   *)
(* read, how far the row has moved since: "lag" (0, 1, or 2 for more) and  *)
(* "raced" (the desired state was changed).  A job is a slot of job_lease; *)
(* a succeeded job is history, so its slot is free again.                  *)
(***************************************************************************)
EXTENDS Naturals, FiniteSets

CONSTANTS
    Slots,         \* executions that may be in progress at one time
    JobIds,        \* rows of job_lease that may be open at one time
    NoSlot,        \* lease_owner IS NULL
    MaxFaults,     \* failed calls, unhealthy probes, lost leases and crashes
    MaxCommands    \* operator commands after the create

ASSUME PmsAssumption ==
    /\ NoSlot \notin Slots
    /\ JobIds # {}
    /\ MaxFaults \in Nat
    /\ MaxCommands \in Nat

VARIABLES
    desired,       \* runtime_deployment.desired_state
    status,        \* runtime_deployment.status
    process,       \* what PM2 was last told about the Runtime process
    published,     \* history: Catalog and Registry published in this stay in DISCOVERING
    job,           \* job_lease rows
    exec,          \* executions of executePmsJob
    faults,        \* faults so far, at most MaxFaults
    commands       \* operator commands so far, at most MaxCommands

vars == <<desired, status, process, published, job, exec, faults, commands>>
row == <<desired, status>>
budget == <<faults, commands>>

Statuses ==
    {"REQUESTED", "DATABASE_PROVISIONING", "MIGRATING", "CONFIG_PREPARING", "STARTING",
     "HEALTH_CHECKING", "DISCOVERING", "ACTIVE", "DEGRADED", "DRAINING", "STOPPED", "FAILED"}

\* AllowedTransitions of the RuntimeDeployment aggregate.
Allowed ==
    [s \in Statuses |->
        CASE s = "REQUESTED"             -> {"DATABASE_PROVISIONING", "DRAINING", "STOPPED", "FAILED"}
          [] s = "DATABASE_PROVISIONING" -> {"MIGRATING", "DRAINING", "FAILED"}
          [] s = "MIGRATING"             -> {"CONFIG_PREPARING", "DRAINING", "FAILED"}
          [] s = "CONFIG_PREPARING"      -> {"STARTING", "DRAINING", "FAILED"}
          [] s = "STARTING"              -> {"HEALTH_CHECKING", "DRAINING", "FAILED"}
          [] s = "HEALTH_CHECKING"       -> {"DISCOVERING", "DEGRADED", "DRAINING", "FAILED"}
          [] s = "DISCOVERING"           -> {"ACTIVE", "DEGRADED", "DRAINING", "FAILED"}
          [] s = "ACTIVE"                -> {"DEGRADED", "DRAINING", "FAILED"}
          [] s = "DEGRADED"              -> {"DISCOVERING", "DRAINING", "FAILED"}
          [] s = "DRAINING"              -> {"STOPPED", "FAILED"}
          [] s = "STOPPED"               -> {"CONFIG_PREPARING", "REQUESTED"}
          [] s = "FAILED"                -> {"REQUESTED", "STOPPED"}]

\* The statuses the periodic scheduler enqueues for: all but STOPPED and FAILED.
Scheduled == Statuses \ {"STOPPED", "FAILED"}

\* The statuses the database preparation owns.
Preparing == {"REQUESTED", "DATABASE_PROVISIONING", "MIGRATING"}

(***************************************************************************)
(* An execution stands before its next awaited call:                       *)
(*   load, reload   of the row, first and after the database preparation   *)
(*   work      the step the loaded status calls for                        *)
(*   database  inside the preparation, about to write the next status      *)
(*   started   lifecycle.start has returned                                *)
(*   stop, stopped   before and after lifecycle.stop                       *)
(*   publish, activate   Catalog and Registry, then the move to ACTIVE     *)
(*   error, failing  the catch block: load the row, mark it FAILED         *)
(*   complete, fail  settle the job                                        *)
(***************************************************************************)
Points ==
    {"idle", "load", "reload", "work", "database", "started", "stop", "stopped",
     "publish", "activate", "error", "failing", "complete", "fail"}

Idle == [at |-> "idle", job |-> CHOOSE j \in JobIds : TRUE, status |-> "REQUESTED",
         desired |-> "running", lag |-> 0, raced |-> FALSE, aborted |-> FALSE]

NoJob == [status |-> "absent", owner |-> NoSlot, live |-> FALSE]

TypeOK ==
    /\ desired \in {"running", "draining"}
    /\ status \in Statuses
    /\ process \in {"stopped", "online"}
    /\ published \in BOOLEAN
    /\ job \in [JobIds -> [status : {"absent", "pending", "leased", "failed"},
                           owner : Slots \cup {NoSlot}, live : BOOLEAN]]
    /\ \A j \in JobIds : (job[j].status = "leased") <=> (job[j].owner # NoSlot)
    /\ exec \in [Slots -> [at : Points, job : JobIds, status : Statuses,
                           desired : {"running", "draining"}, lag : 0..2,
                           raced : BOOLEAN, aborted : BOOLEAN]]
    /\ faults \in 0..MaxFaults
    /\ commands \in 0..MaxCommands

\* RuntimeDeploymentApplicationService.create: REQUESTED, desired running, one job.
Init ==
    /\ desired = "running"
    /\ status = "REQUESTED"
    /\ process = "stopped"
    /\ published = FALSE
    /\ \E j \in JobIds : job = [i \in JobIds |-> IF i = j THEN [NoJob EXCEPT !.status = "pending"]
                                                 ELSE NoJob]
    /\ exec = [e \in Slots |-> Idle]
    /\ faults = 0
    /\ commands = 0

-----------------------------------------------------------------------------
(* job_lease *)

Busy(e) == exec[e].at # "idle"

\* The fencing token and the lease token still name this execution.
Owns(e) == job[exec[e].job].owner = e

\* INSERT INTO job_lease: a pending row in a free slot.
Enqueue ==
    \E j \in JobIds :
        /\ job[j].status = "absent"
        /\ job' = [job EXCEPT ![j] = [NoJob EXCEPT !.status = "pending"]]

\* A slip of the claim: a lease that ran out is left to its owner.
ClaimableOnce(j) == job[j].status \in {"pending", "failed"}

\* claim: a pending or failed job whose time has come, or one whose lease ran
\* out.  A new owner is a new lease token and a higher fence.
Claimable(j) ==
    \/ job[j].status \in {"pending", "failed"}
    \/ job[j].status = "leased" /\ ~job[j].live

Claim(e, j) ==
    /\ ~Busy(e)
    /\ Claimable(j)
    /\ job' = [job EXCEPT ![j] = [status |-> "leased", owner |-> e, live |-> TRUE]]
    /\ exec' = [exec EXCEPT ![e] = [Idle EXCEPT !.at = "load", !.job = j]]
    /\ UNCHANGED <<row, process, published, budget>>

\* The lease of a working execution runs out only when its renewals do not get
\* through, a fault; that of a vanished one simply runs out.
LeaseExpires(j) ==
    /\ job[j].status = "leased"
    /\ job[j].live
    /\ \/ /\ Busy(job[j].owner)
          /\ exec[job[j].owner].job = j
          /\ faults < MaxFaults
          /\ faults' = faults + 1
       \/ /\ ~(Busy(job[j].owner) /\ exec[job[j].owner].job = j)
          /\ UNCHANGED faults
    /\ job' = [job EXCEPT ![j].live = FALSE]
    /\ UNCHANGED <<row, process, published, exec, commands>>

\* renewUntilSettled: a renewal that finds the lease expired or taken aborts the
\* execution.  The database preparation does not look at the signal, so it runs
\* on and the abort is seen when it returns.
RenewalFails(e) ==
    /\ Busy(e)
    /\ exec[e].at \notin {"complete", "fail"}
    /\ ~exec[e].aborted
    /\ ~(Owns(e) /\ job[exec[e].job].live)
    /\ exec' = [exec EXCEPT ![e] = IF exec[e].at = "database"
                                   THEN [exec[e] EXCEPT !.aborted = TRUE] ELSE Idle]
    /\ UNCHANGED <<row, process, published, job, budget>>

\* The worker process dies, or is stopped, which aborts its executions.
Crash(e) ==
    /\ Busy(e)
    /\ faults < MaxFaults
    /\ faults' = faults + 1
    /\ exec' = [exec EXCEPT ![e] = Idle]
    /\ UNCHANGED <<row, process, published, job, commands>>

\* A slip of fail: the row keeps the lease it had.
SettleKeepsLease(e) ==
    /\ exec[e].at \in {"complete", "fail"}
    /\ exec' = [exec EXCEPT ![e] = Idle]
    /\ job' = IF Owns(e)
              THEN [job EXCEPT ![exec[e].job] =
                        IF exec[e].at = "complete" THEN NoJob ELSE [@ EXCEPT !.status = "failed"]]
              ELSE job
    /\ UNCHANGED <<row, process, published, budget>>

\* A slip of the fence: a write-back that checks the job is leased and not by whom.
SettleAnyLease(e) ==
    /\ exec[e].at \in {"complete", "fail"}
    /\ exec' = [exec EXCEPT ![e] = Idle]
    /\ job' = IF job[exec[e].job].status = "leased"
              THEN [job EXCEPT ![exec[e].job] =
                        IF exec[e].at = "complete" THEN NoJob ELSE [NoJob EXCEPT !.status = "failed"]]
              ELSE job
    /\ UNCHANGED <<row, process, published, budget>>

\* complete or fail under the identity of the claim; a lease another execution
\* holds is LEASE_NOT_OWNED and the row stays.
Settle(e) ==
    /\ exec[e].at \in {"complete", "fail"}
    /\ exec' = [exec EXCEPT ![e] = Idle]
    /\ job' = IF Owns(e)
              THEN [job EXCEPT ![exec[e].job] =
                        IF exec[e].at = "complete" THEN NoJob ELSE [NoJob EXCEPT !.status = "failed"]]
              ELSE job
    /\ UNCHANGED <<row, process, published, budget>>

-----------------------------------------------------------------------------
(* The operator and the scheduler *)

\* start, stop or scale: the desired state changes, desired_revision moves, and
\* a job is enqueued in the same transaction.
ChangeDesired ==
    /\ commands < MaxCommands
    /\ commands' = commands + 1
    /\ desired' = IF desired = "running" THEN "draining" ELSE "running"
    /\ Enqueue
    /\ exec' = [e \in Slots |-> [exec[e] EXCEPT !.raced = Busy(e)]]
    /\ UNCHANGED <<status, process, published, faults>>

\* restart and reconcile change nothing in the row: they only enqueue a job.
RequestReconcile ==
    /\ commands < MaxCommands
    /\ commands' = commands + 1
    /\ Enqueue
    /\ UNCHANGED <<row, process, published, exec, faults>>

\* enqueueDue under the advisory lock: no second job beside a pending or leased one.
Tick ==
    /\ status \in Scheduled
    /\ \A j \in JobIds : job[j].status \notin {"pending", "leased"}
    /\ Enqueue
    /\ UNCHANGED <<row, process, published, exec, budget>>

-----------------------------------------------------------------------------
(* The row *)

\* The snapshot an execution takes when it reads the row or has written it.
Reads(e, to, at) ==
    [exec[e] EXCEPT !.at = at, !.status = to, !.desired = desired, !.lag = 0, !.raced = FALSE]

\* Every status change moves observed_revision, so every other snapshot is one
\* revision older.
Older(e, mine) ==
    [o \in Slots |-> IF o = e THEN mine
                     ELSE IF Busy(o) THEN [exec[o] EXCEPT !.lag = IF @ = 2 THEN 2 ELSE @ + 1]
                     ELSE exec[o]]

Write(e, to, mine) ==
    /\ status' = to
    /\ published' = (IF to = "DISCOVERING" THEN FALSE ELSE published)
    /\ exec' = Older(e, mine)
    /\ UNCHANGED <<desired, process, job>>

Continue(e, mine) ==
    /\ exec' = [exec EXCEPT ![e] = mine]
    /\ UNCHANGED <<row, process, published, job>>

Goto(e, at) == Continue(e, [exec[e] EXCEPT !.at = at])

\* expectedStatus and expectedRevision still describe the row.
Matches(e) == exec[e].status = status /\ exec[e].lag = 0

\* assertIdempotentTransition: somebody has just made the same move.
MadeAlready(e, to) == to = status /\ exec[e].lag = 1 /\ to \in Allowed[exec[e].status]

\* A slip of the store: the status is compared, the revision is not.
TransitionByStatus(e, to, at, otherwise) ==
    \/ exec[e].status = status /\ Write(e, to, Reads(e, to, at))
    \/ MadeAlready(e, to) /\ Continue(e, Reads(e, to, at))
    \/ (exec[e].raced \/ ~(exec[e].status = status \/ MadeAlready(e, to))) /\ Goto(e, otherwise)

\* store.transition: load, check the precondition, save under both revisions.
\* A desired state changed between load and save is a conflict, too.
Transition(e, to, at, otherwise) ==
    \/ Matches(e) /\ Write(e, to, Reads(e, to, at))
    \/ MadeAlready(e, to) /\ Continue(e, Reads(e, to, at))
    \/ (exec[e].raced \/ ~(Matches(e) \/ MadeAlready(e, to))) /\ Goto(e, otherwise)

\* A failed call, an unhealthy probe or an Adapter that does not prove its identity.
Fault == faults < MaxFaults /\ faults' = faults + 1 /\ UNCHANGED commands
NoFault == UNCHANGED budget

-----------------------------------------------------------------------------
(* Database preparation, run inside the reconcile job *)

AfterDatabase(e, at) == IF exec[e].aborted THEN Idle ELSE [exec[e] EXCEPT !.at = at]

NextPrepared ==
    [s \in Preparing \cup {"FAILED"} |->
        CASE s = "FAILED"                -> "REQUESTED"
          [] s = "REQUESTED"             -> "DATABASE_PROVISIONING"
          [] s = "DATABASE_PROVISIONING" -> "MIGRATING"
          [] s = "MIGRATING"             -> "CONFIG_PREPARING"]

\* execute loads the row anew; a status it does not own is a conflict.
Prepare(e) ==
    /\ exec[e].at = "work"
    /\ exec[e].desired = "running"
    /\ exec[e].status \in Preparing \cup {"FAILED"}
    /\ Continue(e, Reads(e, status,
                         CASE status = "CONFIG_PREPARING"              -> "reload"
                           [] status \in Preparing \cup {"FAILED"}     -> "database"
                           [] OTHER                                    -> "error"))
    /\ NoFault

\* The next status under the revisions loaded by execute, which it does not load again.
PrepareStep(e) ==
    LET to == NextPrepared[exec[e].status] IN
    /\ exec[e].at = "database"
    /\ exec[e].lag = 0
    /\ ~exec[e].raced
    /\ Write(e, to, IF to # "CONFIG_PREPARING" THEN Reads(e, to, "database")
                    ELSE IF exec[e].aborted THEN Idle ELSE Reads(e, to, "reload"))
    /\ NoFault

\* A provisioning or migration step fails, or its checkpoint was written by another
\* execution: recordFailure marks the row FAILED.
PrepareFails(e) ==
    /\ exec[e].at = "database"
    /\ exec[e].status # "FAILED"
    /\ Fault
    /\ IF exec[e].lag = 0 /\ ~exec[e].raced
       THEN Write(e, "FAILED", AfterDatabase(e, "error"))
       ELSE Continue(e, AfterDatabase(e, "error"))

\* The save finds another revision.  The aggregate in memory has moved already,
\* so recordFailure writes FAILED over the revision after the one it had loaded,
\* which is the row's when exactly one other move was made.
PrepareConflicts(e) ==
    /\ exec[e].at = "database"
    /\ exec[e].lag > 0 \/ exec[e].raced
    /\ IF exec[e].lag = 1 /\ ~exec[e].raced /\ NextPrepared[exec[e].status] # "CONFIG_PREPARING"
       THEN Write(e, "FAILED", AfterDatabase(e, "error"))
       ELSE Continue(e, AfterDatabase(e, "error"))
    /\ NoFault

-----------------------------------------------------------------------------
(* RuntimeDeploymentReconciler.reconcile *)

Load(e) ==
    /\ exec[e].at \in {"load", "reload"}
    /\ Continue(e, Reads(e, status, "work"))
    /\ NoFault

Running(e) == exec[e].at = "work" /\ exec[e].desired = "running"
Stopping(e) == exec[e].at = "work" /\ exec[e].desired = "draining"

\* The statuses that only pass the deployment on, and those with nothing to do.
Pass(e) ==
    /\ Running(e)
    /\ \/ exec[e].status = "CONFIG_PREPARING" /\ Transition(e, "STARTING", "work", "error")
       \/ exec[e].status = "STOPPED" /\ Transition(e, "REQUESTED", "work", "error")
       \/ exec[e].status = "DRAINING" /\ Goto(e, "complete")
    /\ NoFault

\* lifecycle.start, after the identity of the Adapter where the status asks for it.
StartProcess(e) ==
    /\ Running(e)
    /\ exec[e].status \in {"STARTING", "ACTIVE", "DEGRADED"}
    /\ process' = "online"
    /\ exec' = [exec EXCEPT ![e].at = "started"]
    /\ UNCHANGED <<row, published, job, budget>>

\* The process is up, healthy, and its Adapter is the expected one.
Healthy(e) ==
    /\ \/ exec[e].at = "started" /\ exec[e].status = "STARTING"
          /\ Transition(e, "HEALTH_CHECKING", "work", "error")
       \/ exec[e].at = "started" /\ exec[e].status = "ACTIVE" /\ Goto(e, "complete")
       \/ exec[e].at = "started" /\ exec[e].status = "DEGRADED"
          /\ Transition(e, "DISCOVERING", "publish", "error")
       \/ Running(e) /\ exec[e].status = "HEALTH_CHECKING"
          /\ Transition(e, "DISCOVERING", "publish", "error")
       \/ Running(e) /\ exec[e].status = "DISCOVERING" /\ Goto(e, "publish")
    /\ NoFault

\* Probed or asked for its identity before this status may be left.
Observed(e) ==
    \/ Running(e) /\ exec[e].status \in {"STARTING", "HEALTH_CHECKING", "DISCOVERING"}
    \/ exec[e].at = "started" /\ exec[e].status \in {"ACTIVE", "DEGRADED"}

\* The probe fails or the Adapter does not answer: DEGRADED, or stay and come back.
Unhealthy(e) ==
    /\ Observed(e)
    /\ Fault
    /\ IF exec[e].status \in {"STARTING", "DEGRADED"} THEN Goto(e, "complete")
       ELSE Transition(e, "DEGRADED", "complete", "error")

\* The Adapter is another Provider's: FAILED, and the job is done.
Mismatch(e) ==
    /\ Observed(e)
    /\ Fault
    /\ Transition(e, "FAILED", "complete", "error")

\* reconcileStopped, up to the stop itself.
Drain(e) ==
    /\ Stopping(e)
    /\ \/ exec[e].status = "STOPPED" /\ Goto(e, "complete")
       \/ exec[e].status \in {"REQUESTED", "FAILED"} /\ Transition(e, "STOPPED", "complete", "error")
       \/ exec[e].status \notin {"STOPPED", "REQUESTED", "FAILED", "DRAINING"}
          /\ Transition(e, "DRAINING", "stop", "error")
    /\ NoFault

\* lifecycle.stop of every instance of the deployment.
StopProcess(e) ==
    /\ exec[e].at = "stop" \/ (Stopping(e) /\ exec[e].status = "DRAINING")
    /\ process' = "stopped"
    /\ exec' = [exec EXCEPT ![e].at = "stopped"]
    /\ UNCHANGED <<row, published, job, budget>>

Stopped(e) ==
    /\ exec[e].at = "stopped"
    /\ Transition(e, "STOPPED", "complete", "error")
    /\ NoFault

\* CatalogRegistryPublicationPhase.close: discovery, Catalog and Registry.
Publish(e) ==
    /\ exec[e].at = "publish"
    /\ published' = (published \/ Matches(e))
    /\ exec' = [exec EXCEPT ![e].at = "activate"]
    /\ UNCHANGED <<row, process, job, budget>>

PublishFails(e) ==
    /\ exec[e].at = "publish"
    /\ Fault
    /\ Transition(e, "FAILED", "fail", "fail")

Activate(e) ==
    /\ exec[e].at = "activate"
    /\ Transition(e, "ACTIVE", "complete", "fail")
    /\ NoFault

\* Any other call of the reconciler throws; the first load is outside its try block.
CallFails(e) ==
    /\ exec[e].at \in {"load", "reload", "work", "started", "stop", "stopped", "activate"}
    /\ Fault
    /\ Goto(e, IF exec[e].at \in {"load", "activate"} THEN "fail" ELSE "error")

\* The catch block loads the row as it is now, whoever moved it ...
CatchError(e) ==
    /\ exec[e].at = "error"
    /\ Continue(e, Reads(e, status, IF status \in {"FAILED", "STOPPED"} THEN "fail" ELSE "failing"))
    /\ NoFault

\* ... and marks it FAILED; a conflict there is swallowed.
MarkFailed(e) ==
    /\ exec[e].at = "failing"
    /\ Transition(e, "FAILED", "fail", "fail")
    /\ NoFault

-----------------------------------------------------------------------------
(* The specification *)

Advance(e) ==
    \/ Load(e) \/ Prepare(e) \/ PrepareStep(e) \/ PrepareConflicts(e)
    \/ Pass(e) \/ StartProcess(e) \/ Healthy(e) \/ Drain(e) \/ StopProcess(e) \/ Stopped(e)
    \/ Publish(e) \/ Activate(e) \/ CatchError(e) \/ MarkFailed(e)
    \/ Settle(e) \/ RenewalFails(e)

Disturb(e) ==
    \/ PrepareFails(e) \/ Unhealthy(e) \/ Mismatch(e) \/ PublishFails(e)
    \/ CallFails(e) \/ Crash(e)

Next ==
    \/ \E e \in Slots : Advance(e) \/ Disturb(e)
    \/ \E e \in Slots, j \in JobIds : Claim(e, j)
    \/ \E j \in JobIds : LeaseExpires(j)
    \/ ChangeDesired \/ RequestReconcile \/ Tick

Spec == Init /\ [][Next]_vars

\* Executions go on, abandoned leases run out, jobs are claimed in the order
\* they became available, and the scheduler ticks.
Fairness ==
    /\ \A e \in Slots : WF_vars(Advance(e))
    /\ \A j \in JobIds : WF_vars(LeaseExpires(j)) /\ SF_vars(\E e \in Slots : Claim(e, j))
    /\ WF_vars(Tick)

FairSpec == Spec /\ Fairness

-----------------------------------------------------------------------------
(* Properties *)

\* A deployment is ACTIVE only on a Catalog and Registry publication made in
\* this very stay in DISCOVERING: an execution that published before the row was
\* degraded, drained or failed by another cannot activate it with the old one
\* (activate passes the revision it entered the phase with).
ActiveWasPublished == status = "ACTIVE" => published

\* A leased job is settled by the execution that holds the lease, never by the
\* one it was taken over from.
SettledByOwner ==
    [][\A j \in JobIds :
          job[j].status = "leased" /\ job'[j].status \in {"absent", "failed"} =>
              exec[job[j].owner].job = j /\ exec[job[j].owner].at \in {"complete", "fail"}
              /\ exec'[job[j].owner].at = "idle"]_vars

\* A stop comes to an end, STOPPED or FAILED, unless the operator changes their
\* mind: no job, lease or status is left that nobody would pick up again.
StopEnds == desired = "draining" ~> (status \in {"STOPPED", "FAILED"} \/ desired = "running")

=============================================================================
