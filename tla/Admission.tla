----------------------------- MODULE Admission -----------------------------
(***************************************************************************)
(* How one tools/call becomes a durable Task: the idempotency record of    *)
(* its key, the admission intent, the provider_task row, the Adapter's     *)
(* execution, the callers that share the key (a client that retries, or    *)
(* the same client at several Runtime instances) and the recovery scan     *)
(* that finishes the admissions callers left behind.                       *)
(*                                                                         *)
(* A call without a key behaves as one whose key nobody else uses and that *)
(* is not retried.  Every statement or transaction of the repository is    *)
(* one step; every await of an Adapter call splits a process, which keeps  *)
(* what it read before.  The audit rows that recordReconciliationResult    *)
(* appends carry no control and are left out.                              *)
(***************************************************************************)
EXTENDS Integers

CONSTANTS
    Callers,      \* concurrent tools/call requests with the same key
    Recoverers,   \* recovery scans
    NoProc,       \* lease_owner IS NULL, or a process that is gone
    Calls,        \* the kinds of call explored in Init
    Refuses,      \* the kinds of call the Adapter may refuse to start
    MaxFaults     \* bound: crashes, lost leases, bad answers together

Procs == Callers \cup Recoverers

ASSUME AdmissionAssumption ==
    /\ Callers \cap Recoverers = {}
    /\ NoProc \notin Procs
    /\ Calls \subseteq {"scheduled", "required", "capable"}
    /\ Refuses \subseteq Calls
    /\ MaxFaults \in Nat

VARIABLES
    call,       \* the kind of call: timing.start.mode = "scheduled", or an immediate
                \* one of a TASK_REQUIRED or a TASK_CAPABLE operation
    key,        \* the idempotency_record
    admission,  \* admission_intent.state; ACCEPTED never outlives publishAccepted
    task,       \* the provider_task row: none, SCHEDULED, or bound to exec
    exec,       \* the Adapter's execution of the task id (external)
    late,       \* a StartOperation whose caller gave up is still on its way
    proc,       \* what each process is doing
    answers,    \* every answer a caller was given
    crowded,    \* a whole page of other open admissions comes before this one
    faults      \* faults that may still happen

vars == <<call, key, admission, task, exec, late, proc, answers, crowded, faults>>

Answers == {"task", "result", "rejected"}
Executions == {"none", "live", "done", "failed"}
Steps == {"idle", "intent", "lookup", "read", "reconciling", "reconciled",
          "dispatch", "starting", "started", "return", "throw"}
Statuses == {"none", "accepted", "rejected", "error", "found", "notfound"}

Process == [step    : Steps,
            retry   : BOOLEAN,      \* the recovering argument
            seen    : {"none", "PENDING", "UNCERTAIN", "PUBLISHED", "REJECTED"},
            status  : Statuses,     \* the Adapter's answer ...
            state   : Executions,   \* ... and the snapshot in it
            outcome : Answers \cup {"none"}]
Idle == [step |-> "idle", retry |-> FALSE, seen |-> "none", status |-> "none",
         state |-> "none", outcome |-> "none"]

Key == [state  : {"none", "PENDING", "COMPLETE"},
        owner  : Procs \cup {NoProc},
        over   : BOOLEAN,           \* lease_expires_at has passed
        answer : Answers \cup {"none"}]

TypeOK ==
    /\ call \in Calls
    /\ key \in Key
    /\ admission \in {"none", "PENDING", "UNCERTAIN", "PUBLISHED", "REJECTED"}
    /\ task \in {"none", "scheduled", "bound"}
    /\ exec \in Executions
    /\ late \in BOOLEAN
    /\ proc \in [Procs -> Process]
    /\ answers \subseteq Answers
    /\ crowded \in BOOLEAN
    /\ faults \in 0..MaxFaults

At(p, step) == proc[p].step = step
\* A process goes on with nothing but the step it is at, and what the next
\* steps still read.
Goto(p, step) == proc' = [proc EXCEPT ![p] = [Idle EXCEPT !.step = step]]
Throw(p) == Goto(p, "throw")
Return(p, outcome) ==
    proc' = [proc EXCEPT ![p] = [Idle EXCEPT !.step = "return",
                                             !.outcome = outcome]]
Fault == faults > 0 /\ faults' = faults - 1

\* As in TaskRow, operators named for a bug (Unowned, UncertainOnly, ...) are
\* mutants of the definition after them and belong to no specification.

\* What a step of a process on the Runtime's own tables leaves alone.
Local == UNCHANGED <<call, exec, late, crowded, faults>>

----------------------------------------------------------------------------
(* The idempotency record around a call: execute.                          *)

Owned(p) == [state |-> "PENDING", owner |-> p, over |-> FALSE, answer |-> "none"]

\* A new key is claimed, and an expired claim is taken over.
ClaimKey(p) ==
    /\ At(p, "idle")
    /\ key.state = "none" \/ (key.state = "PENDING" /\ key.over)
    /\ key' = Owned(p)
    /\ proc' = [proc EXCEPT ![p].step = "intent",
                            ![p].retry = key.state = "PENDING"]
    /\ UNCHANGED <<admission, task, answers>> /\ Local

\* A completed key answers without touching anything.
AnswerFromKey(p) ==
    /\ At(p, "idle") /\ key.state = "COMPLETE"
    /\ answers' = answers \cup {key.answer}
    /\ UNCHANGED <<key, admission, task, proc>> /\ Local

CompleteKeyUnowned(p) ==
    /\ At(p, "return")
    /\ key' = [key EXCEPT !.state = "COMPLETE", !.owner = NoProc,
                          !.answer = proc[p].outcome]
    /\ answers' = answers \cup {proc[p].outcome}
    /\ proc' = [proc EXCEPT ![p] = Idle]
    /\ UNCHANGED <<admission, task>> /\ Local

\* #complete: the owner records its outcome; a call that lost the claim answers
\* with the recorded one, or throws when there is none.
CompleteKey(p) ==
    /\ At(p, "return")
    /\ IF key.state = "PENDING" /\ key.owner = p
       THEN /\ key' = [key EXCEPT !.state = "COMPLETE", !.owner = NoProc,
                                  !.answer = proc[p].outcome]
            /\ answers' = answers \cup {proc[p].outcome}
            /\ proc' = [proc EXCEPT ![p] = Idle]
       ELSE IF key.state = "COMPLETE"
       THEN /\ answers' = answers \cup {key.answer}
            /\ proc' = [proc EXCEPT ![p] = Idle]
            /\ UNCHANGED key
       ELSE Throw(p) /\ UNCHANGED <<key, answers>>
    /\ UNCHANGED <<admission, task>> /\ Local

\* #abandon: a call that throws expires its claim.
Abandon(p) ==
    /\ At(p, "throw") /\ p \in Callers
    /\ key' = IF key.state = "PENDING" /\ key.owner = p
              THEN [key EXCEPT !.owner = NoProc, !.over = TRUE] ELSE key
    /\ proc' = [proc EXCEPT ![p] = Idle]
    /\ UNCHANGED <<admission, task, answers>> /\ Local

\* The claim is not renewed while the call runs; that it runs out under a
\* living owner is a fault.
KeyLeaseElapses ==
    /\ key.state = "PENDING" /\ ~key.over
    /\ IF key.owner = NoProc THEN UNCHANGED faults ELSE Fault
    /\ key' = [key EXCEPT !.over = TRUE]
    /\ UNCHANGED <<call, admission, task, exec, late, proc, answers, crowded>>

----------------------------------------------------------------------------
(* Recovery scan: a page of pending or uncertain admissions, whatever their *)
(* age, in the order of their last update.                                 *)

\* Others come before this one, are settled, or are marked again and go to the
\* end.  One that only throws (UNCERTAIN and NOT_FOUND) keeps its place, so
\* nothing says that the page ever has room.
OthersMove ==
    /\ crowded' = ~crowded
    /\ UNCHANGED <<call, key, admission, task, exec, late, proc, answers, faults>>

ListAdmissionsUncertainOnly(r) ==
    /\ At(r, "idle") /\ ~crowded /\ admission \in {"UNCERTAIN"}
    /\ proc' = [proc EXCEPT ![r].step = "intent", ![r].retry = TRUE]
    /\ UNCHANGED <<key, admission, task, answers>> /\ Local

ListAdmissions(r) ==
    /\ At(r, "idle") /\ ~crowded /\ admission \in {"PENDING", "UNCERTAIN"}
    /\ proc' = [proc EXCEPT ![r].step = "intent", ![r].retry = TRUE]
    /\ UNCHANGED <<key, admission, task, answers>> /\ Local

EndRecovery(r) ==
    /\ At(r, "return") \/ At(r, "throw")
    /\ proc' = [proc EXCEPT ![r] = Idle]
    /\ UNCHANGED <<key, admission, task, answers>> /\ Local

----------------------------------------------------------------------------
(* #executeOperation of a Task operation, for a caller and for recovery.   *)

\* createAdmissionIntent: only its first inserter skips the reconcile.
CreateAdmissionIntent(p) ==
    /\ At(p, "intent")
    /\ admission' = IF admission = "none" THEN "PENDING" ELSE admission
    /\ IF admission = "none" /\ ~proc[p].retry THEN Goto(p, "dispatch")
       ELSE proc' = [proc EXCEPT ![p].step = "lookup"]
    /\ UNCHANGED <<key, task, answers>> /\ Local

LookupTask(p) ==
    /\ At(p, "lookup")
    /\ IF task # "none" THEN Return(p, "task") ELSE Goto(p, "read")
    /\ UNCHANGED <<key, admission, task, answers>> /\ Local

ReadAdmission(p) ==
    /\ At(p, "read")
    /\ proc' = [proc EXCEPT ![p] = [Idle EXCEPT !.step = "reconciling",
                                                !.seen = admission]]
    /\ UNCHANGED <<key, admission, task, answers>> /\ Local

ReconcileFails(p) ==
    /\ At(p, "reconciled") /\ proc[p].status = "error"
    /\ Throw(p)
    /\ UNCHANGED <<key, admission, task, answers>> /\ Local

\* NOT_FOUND is followed by a dispatch unless the admission was UNCERTAIN when
\* it was read, before the call.
ReconcileNotFound(p) ==
    /\ At(p, "reconciled") /\ proc[p].status = "notfound"
    /\ Goto(p, IF proc[p].seen = "UNCERTAIN" THEN "throw" ELSE "dispatch")
    /\ UNCHANGED <<key, admission, task, answers>> /\ Local

MarkUncertainAlways == admission' = "UNCERTAIN"

\* markAdmissionUncertain.
MarkUncertain ==
    admission' = IF admission \in {"PENDING", "UNCERTAIN"} THEN "UNCERTAIN"
                 ELSE admission

\* An inline result needs no Task, a failed one stays uncertain.
Inline(p) == call = "capable" /\ proc[p].state \in {"done", "failed"}

PublishInline(p) ==
    /\ Inline(p)
    /\ IF proc[p].state = "done"
       THEN admission' = "PUBLISHED" /\ Return(p, "result")
       ELSE MarkUncertain /\ Throw(p)
    /\ UNCHANGED <<key, task, answers>> /\ Local

PublishAcceptedNotAtomic(p) ==
    /\ ~Inline(p)
    /\ IF task = "none"
       THEN task' = "bound" /\ admission' = "ACCEPTED" /\ Return(p, "task")
       ELSE Return(p, "task") /\ UNCHANGED <<admission, task>>
    /\ UNCHANGED <<key, answers>> /\ Local

\* publishAccepted: a duplicate task id answers with the committed row, unless
\* that row, a scheduled one, is not bound to this execution.
PublishAccepted(p) ==
    /\ ~Inline(p)
    /\ IF task = "none"
       THEN task' = "bound" /\ admission' = "PUBLISHED" /\ Return(p, "task")
       ELSE /\ IF task = "bound" THEN Return(p, "task") ELSE Throw(p)
            /\ UNCHANGED <<admission, task>>
    /\ UNCHANGED <<key, answers>> /\ Local

\* The transaction fails, before or after its commit.
PublishAcceptedFails(p) ==
    /\ ~Inline(p) /\ Fault
    /\ Throw(p)
    /\ \/ /\ UNCHANGED task
          /\ IF At(p, "started") THEN MarkUncertain ELSE UNCHANGED admission
       \/ task = "none" /\ task' = "bound" /\ admission' = "PUBLISHED"
    /\ UNCHANGED <<call, key, answers, exec, late, crowded>>

Publishing(p) ==
    \/ At(p, "started") /\ proc[p].status = "accepted"
    \/ At(p, "reconciled") /\ proc[p].status = "found"
Publish(p) ==
    /\ Publishing(p)
    /\ PublishInline(p) \/ PublishAccepted(p) \/ PublishAcceptedFails(p)

\* publishScheduled: a duplicate task id throws.
PublishScheduled(p) ==
    /\ At(p, "dispatch") /\ call = "scheduled"
    /\ IF task = "none"
       THEN task' = "scheduled" /\ admission' = "PUBLISHED" /\ Return(p, "task")
       ELSE Throw(p) /\ UNCHANGED <<admission, task>>
    /\ UNCHANGED <<key, answers>> /\ Local

SendStart(p) ==
    /\ At(p, "dispatch") /\ call # "scheduled"
    /\ Goto(p, "starting")
    /\ UNCHANGED <<key, admission, task, answers>> /\ Local

StartLostRejects(p) ==
    /\ At(p, "started") /\ proc[p].status = "error"
    /\ admission' = "REJECTED"
    /\ Throw(p)
    /\ UNCHANGED <<key, task, answers>> /\ Local

\* A transport error, an empty answer or another identity.
StartLost(p) ==
    /\ At(p, "started") /\ proc[p].status = "error"
    /\ MarkUncertain
    /\ Throw(p)
    /\ UNCHANGED <<key, task, answers>> /\ Local

\* recordRejection, whatever the admission's state.
StartRefused(p) ==
    /\ At(p, "started") /\ proc[p].status = "rejected"
    /\ admission' = "REJECTED"
    /\ Return(p, "rejected")
    /\ UNCHANGED <<key, task, answers>> /\ Local

\* The process dies; its lease stays until it runs out.
Crash(p) ==
    /\ ~At(p, "idle") /\ Fault
    /\ proc' = [proc EXCEPT ![p] = Idle]
    /\ key' = IF key.owner = p THEN [key EXCEPT !.owner = NoProc] ELSE key
    /\ late' \in (IF At(p, "starting") THEN BOOLEAN ELSE {late})
    /\ UNCHANGED <<call, admission, task, exec, answers, crowded>>

----------------------------------------------------------------------------
(* The Adapter (external): one execution per task id; a refusal is not     *)
(* remembered.  ScheduledStart and ScheduledBind stand for the scheduler of *)
(* TaskLifecycle.                                                          *)

Reply(p, step, status, state) ==
    proc' = [proc EXCEPT ![p].step = step, ![p].status = status,
                         ![p].state = state]
Quiet == UNCHANGED <<call, key, admission, task, answers, crowded>>

Starting == IF exec = "none" THEN {"live", "done", "failed"} ELSE {exec}

AdapterStarts(p) ==
    /\ At(p, "starting")
    /\ \E e \in Starting :
          /\ exec' = e
          /\ \/ Reply(p, "started", "accepted", e) /\ UNCHANGED faults
             \/ Reply(p, "started", "error", "none") /\ Fault
    /\ UNCHANGED late /\ Quiet

AdapterRefuses(p) ==
    /\ At(p, "starting") /\ call \in Refuses /\ exec = "none"
    /\ Reply(p, "started", "rejected", "none")
    /\ UNCHANGED <<exec, late, faults>> /\ Quiet

\* The call times out; the request may still arrive later.
StartTimesOut(p) ==
    /\ At(p, "starting") /\ Fault
    /\ Reply(p, "started", "error", "none")
    /\ late' \in {late, TRUE}
    /\ UNCHANGED exec /\ Quiet

LateStart ==
    /\ late /\ late' = FALSE
    /\ exec' \in Starting
    /\ UNCHANGED <<proc, faults>> /\ Quiet

AdapterReconciles(p) ==
    /\ At(p, "reconciling")
    /\ \/ /\ IF exec = "none" THEN Reply(p, "reconciled", "notfound", "none")
             ELSE Reply(p, "reconciled", "found", exec)
          /\ UNCHANGED faults
       \/ Reply(p, "reconciled", "error", "none") /\ Fault
    /\ UNCHANGED <<exec, late>> /\ Quiet

AdapterProgress ==
    /\ exec = "live" /\ exec' \in {"done", "failed"}
    /\ UNCHANGED <<late, proc, faults>> /\ Quiet

ScheduledStart ==
    /\ task = "scheduled" /\ exec = "none"
    /\ exec' \in Starting
    /\ UNCHANGED <<late, proc, faults>> /\ Quiet

ScheduledBind ==
    /\ task = "scheduled" /\ exec # "none"
    /\ task' = "bound"
    /\ UNCHANGED <<call, key, admission, exec, late, proc, answers, crowded, faults>>

----------------------------------------------------------------------------
(* Specification.                                                          *)

Init ==
    /\ call \in Calls
    /\ key = [state |-> "none", owner |-> NoProc, over |-> FALSE,
              answer |-> "none"]
    /\ admission = "none" /\ task = "none" /\ exec = "none" /\ late = FALSE
    /\ proc = [p \in Procs |-> Idle]
    /\ answers = {}
    /\ crowded \in BOOLEAN
    /\ faults = MaxFaults

KeyStep(c) == ClaimKey(c) \/ AnswerFromKey(c) \/ CompleteKey(c) \/ Abandon(c)
RecoveryStep(r) == ListAdmissions(r) \/ EndRecovery(r)
Execute(p) ==
    \/ CreateAdmissionIntent(p) \/ LookupTask(p) \/ ReadAdmission(p)
    \/ ReconcileFails(p) \/ ReconcileNotFound(p) \/ Publish(p)
    \/ PublishScheduled(p) \/ SendStart(p) \/ StartLost(p) \/ StartRefused(p)
AdapterStep(p) ==
    \/ AdapterStarts(p) \/ AdapterRefuses(p) \/ StartTimesOut(p)
    \/ AdapterReconciles(p)

Next ==
    \/ \E c \in Callers : KeyStep(c)
    \/ \E r \in Recoverers : RecoveryStep(r)
    \/ \E p \in Procs : Execute(p) \/ AdapterStep(p) \/ Crash(p)
    \/ KeyLeaseElapses \/ LateStart \/ AdapterProgress
    \/ ScheduledStart \/ ScheduledBind \/ OthersMove

Spec == Init /\ [][Next]_vars

\* The recovery timer of runtime.ts never stops, a running scan comes to its
\* end, and calls are answered.  Nothing is assumed of the callers.
Fairness ==
    \A r \in Recoverers :
        WF_vars(RecoveryStep(r)) /\ WF_vars(Execute(r)) /\ WF_vars(AdapterStep(r))

FairSpec == Spec /\ Fairness

----------------------------------------------------------------------------
(* Properties.                                                             *)

\* mcp-runtime.md: "Duplicate synchronous calls return the stored Tool result;
\* duplicate task calls return the original immediately queryable taskId": every
\* caller of one key is given the same answer, also one that lost its claim to
\* another caller, and a caller that is answered with a Task can read it.
SameAnswer ==
    /\ \A a, b \in answers : a = b
    /\ "task" \in answers => task # "none"

\* An execution that runs is never forgotten: it has its Task, or the recovery
\* scan still finds the admission.  (An Adapter that refuses a call it started
\* before is left out here and below: see RejectedNeverCreatesTask.)  And the
\* admission of a published Task is settled, whoever was slower: it never holds
\* back the purge of the Task, which waits for open admissions (purgeDue).
ExecutionIsTracked ==
    /\ exec = "live" /\ call \notin Refuses =>
           task # "none" \/ admission \in {"PENDING", "UNCERTAIN"}
    /\ task # "none" => admission \in {"PUBLISHED", "REJECTED"}

\* An admission that was published stays published, whatever a slower caller or
\* an older scan learns afterwards.
PublishedIsFinal ==
    [][admission = "PUBLISHED" /\ call \notin Refuses =>
       admission' = "PUBLISHED"]_vars

\* An execution whose caller vanished gets its Task: the recovery scan finds the
\* admission, reconciles and publishes it, unless it may end inline.  It is found
\* once the page of listAdmissionsForRecovery has room for it for good: without
\* that see EveryAdmissionIsRecovered.
ExecutionGetsTask ==
    <>[]~crowded => ((exec # "none" /\ call # "capable") ~> task # "none")

\* markAdmissionUncertain records "redispatchAllowed: false", and a test demands
\* that recovery "fails UNCERTAIN + NOT_FOUND closed without a physical
\* redispatch".
UncertainNeverRedispatched ==
    [][admission = "UNCERTAIN" => \A p \in Procs : ~SendStart(p)]_vars

\* The hardening plan of the Runtime lists "Recovery starvation" among what must
\* not happen (H8), and migrations.md says of the scan of Tasks that "persistent
\* failures cannot starve newly recoverable Tasks".  The scan of admissions has
\* no such order: those that throw keep their place in its page.
EveryAdmissionIsRecovered ==
    (exec # "none" /\ call # "capable") ~> task # "none"

\* mcp-runtime.md: "Rejection becomes CallToolResult.isError=true with
\* admission_rejected and never creates a Task".
RejectedNeverCreatesTask == "rejected" \in answers => task = "none"
=============================================================================
