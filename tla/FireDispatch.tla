---------------------------- MODULE FireDispatch ----------------------------
(***************************************************************************)
(* One vehicle_fire_weapon execution of the NPC tank Provider Adapter: its *)
(* row, the ack record under the command fire_dispatch, which is the fence *)
(* around the physical call, and the replicas that share them.  Replicas   *)
(* confirm, decline, cancel, poll, crash and recover.                      *)
(*                                                                         *)
(* A replica works off one mutation at a time (#serializeMutation); every  *)
(* statement of the store and the call to the device is a step.  A row is  *)
(* written as a whole from the copy that the handler read before           *)
(* (putExecution).  Revisions, reason codes, progress and events are left  *)
(* out, as are the checks of identity and of what the caller sent.         *)
(***************************************************************************)
EXTENDS Naturals

CONSTANTS
    Replicas,    \* Adapter processes
    Home,        \* the replica that started the execution
    Requests,    \* commands of the Runtime, by type and commandSequence
    Kinds,       \* the assignments of kinds to the requests explored in Init
    NoRequest,   \* a replica that polls
    MaxFaults    \* bound: failed statements, lost calls and crashes together

ASSUME FireAssumption ==
    /\ Home \in Replicas
    /\ NoRequest \notin Requests
    /\ Kinds \subseteq [Requests -> {"accept", "decline", "cancel"}]
    /\ MaxFaults \in Nat

VARIABLES
    kind,      \* of each request: an update accepts or declines
    row,       \* the execution in the store
    fence,     \* reason of the fire_dispatch record; armed: UNCERTAIN_EXECUTION_STATE
    acks,      \* the command ack of each request
    tracks,    \* does the arbiter of a replica hold the tracks for the Task?
    proc,      \* what each replica is doing
    fired,     \* how often the device has fired (external)
    weapon,    \* state of the weapon's track for that mission (external)
    told,      \* certain answers given to callers
    faults     \* faults that may still happen

vars == <<kind, row, fence, acks, tracks, proc, fired, weapon, told, faults>>

\* SUCCEEDED stands for every end that the weapon's track reports, RUNNING also
\* for PAUSED.
Terminal == {"SUCCEEDED", "BUSINESS_FAILED", "CANCELLED", "TECHNICAL_FAILED"}
Execution == [state   : {"WAITING_INPUT", "STARTING", "RUNNING"} \cup Terminal,
              mission : BOOLEAN,    \* downstreamMissionIds is not empty
              active  : BOOLEAN]    \* observationCursors.trackActive
Withheld == {"cancelled", "aborted"}
Certain == Withheld \cup {"accepted", "rejected"}
Answers == Certain \cup {"unarmed", "armed", "unsupported", "refused"}
NoAnswer == "none"

Settling == {"cancelOwn", "cancelFound", "cancelOther", "settleAbort", "settlePoll"}
Steps == Settling \cup
    {"boot", "idle", "execution", "dispatch", "claimFire", "prepare", "arm", "fire",
     "recordMission", "recordAccepted", "complete", "reject", "completeRejected",
     "uncertain", "abort", "abortArmed", "abortRead", "claimCancel", "takeOver",
     "current", "answer", "fence", "put"}
Process == [at      : Steps,
            request : Requests \cup {NoRequest},
            copy    : Execution,                 \* of the row
            reply   : Answers \cup {NoAnswer},   \* how it was decided
            keep    : BOOLEAN,                   \* is the reply recorded as an ack?
            boot    : BOOLEAN]                   \* #recover of a starting process

Waiting == [state |-> "WAITING_INPUT", mission |-> FALSE, active |-> FALSE]
Idle == [at |-> "idle", request |-> NoRequest, copy |-> Waiting,
         reply |-> NoAnswer, keep |-> FALSE, boot |-> FALSE]
Boot == [Idle EXCEPT !.at = "boot"]

TypeOK ==
    /\ kind \in Kinds
    /\ row \in Execution
    /\ fence \in (Answers \ {"unsupported", "refused"}) \cup {NoAnswer}
    /\ acks \in [Requests -> Answers \cup {NoAnswer}]
    /\ tracks \in [Replicas -> BOOLEAN]
    /\ proc \in [Replicas -> Process]
    /\ fired \in {0, 1}
    /\ weapon \in {"none", "active", "ended"}
    /\ told \subseteq Certain
    /\ faults \in 0..MaxFaults

At(r, step) == proc[r].at = step
KindOf(r) == kind[proc[r].request]
IsCancel(r) == KindOf(r) = "cancel"
Goto(r, step) == proc' = [proc EXCEPT ![r].at = step]
Done(r) == proc' = [proc EXCEPT ![r] = Idle]
\* An answer that is neither certain nor recorded has no consequence.
Reply(r, answer, keep) ==
    proc' = [proc EXCEPT ![r] =
        IF keep \/ answer \in Certain
        THEN [@ EXCEPT !.at = "answer", !.copy = Waiting,
                       !.reply = answer, !.keep = keep]
        ELSE Idle]
Decided(r, step, answer) ==
    proc' = [proc EXCEPT ![r].at = step, ![r].reply = answer]
Fault == faults > 0 /\ faults' = faults - 1
External == UNCHANGED <<kind, fired, weapon>>

\* completeCommandAck with an expected reason, or an answer that got lost on the
\* way back; operators named for a bug are mutants of the definition after them.
SwapUnguarded(from, to) == fence' = to

Swap(from, to) == fence' = IF fence = from THEN to ELSE fence
SwapFails(from, to) == Fault /\ (UNCHANGED fence \/ Swap(from, to))

\* putExecution, or a failure of it before or after its commit.
Put(execution) == row' = execution
PutFails(execution) == Fault /\ row' \in {row, execution}

----------------------------------------------------------------------------
(* Requests: command and updateFire up to their decision.                  *)

\* A request that has its ack is answered with it.
Replay(r, q) ==
    /\ At(r, "idle") /\ acks[q] # NoAnswer
    /\ told' = told \cup ({acks[q]} \cap Certain)
    /\ UNCHANGED <<row, fence, acks, tracks, proc, faults>> /\ External

Take(r, q) ==
    /\ At(r, "idle") /\ acks[q] = NoAnswer
    /\ proc' = [proc EXCEPT ![r].at = "execution", ![r].request = q]
    /\ UNCHANGED <<row, fence, acks, tracks, told, faults>> /\ External

\* A cancel is for an execution that waits, an update looks at the fence first.
ReadExecution(r) ==
    /\ At(r, "execution")
    /\ IF IsCancel(r) /\ row.state # "WAITING_INPUT"
       THEN Reply(r, "unsupported", TRUE)
       ELSE proc' = [proc EXCEPT ![r].copy = row,
                ![r].at = IF IsCancel(r) THEN "claimCancel" ELSE "dispatch"]
    /\ UNCHANGED <<row, fence, acks, tracks, told, faults>> /\ External

\* #updateFire: a decided fence is replayed, and a cancellation whose row still
\* waits is written first; an accept may find the vehicle unavailable.
ReadDispatch(r) ==
    /\ At(r, "dispatch")
    /\ \/ /\ fence # NoAnswer
          /\ IF fence = "cancelled" /\ proc[r].copy.state = "WAITING_INPUT"
             THEN Decided(r, "cancelFound", fence)
             ELSE Reply(r, fence, FALSE)
       \/ /\ fence = NoAnswer
          /\ IF proc[r].copy.state # "WAITING_INPUT" THEN Reply(r, "refused", TRUE)
             ELSE \/ KindOf(r) = "decline" /\ Goto(r, "claimCancel")
                  \/ KindOf(r) = "accept" /\ Goto(r, "claimFire")
                  \/ KindOf(r) = "accept" /\ Reply(r, "refused", TRUE)
    /\ UNCHANGED <<row, fence, acks, tracks, told, faults>> /\ External

Answer(r) ==
    /\ At(r, "answer")
    /\ acks' = IF proc[r].keep /\ acks[proc[r].request] = NoAnswer
               THEN [acks EXCEPT ![proc[r].request] = proc[r].reply] ELSE acks
    /\ told' = told \cup ({proc[r].reply} \cap Certain)
    /\ Done(r)
    /\ UNCHANGED <<row, fence, tracks, faults>> /\ External

----------------------------------------------------------------------------
(* #updateFire: the confirmed dispatch.                                    *)

\* What the steps of a dispatch leave alone.
Dispatching == UNCHANGED <<kind, acks, told, weapon>>

ClaimFireAlways(r) ==
    /\ At(r, "claimFire")
    /\ fence' = "unarmed" /\ Goto(r, "prepare")
    /\ UNCHANGED <<row, tracks, fired, faults>> /\ Dispatching

\* claimCommandAck: the first of all replicas and requests dispatches.
ClaimFire(r) ==
    /\ At(r, "claimFire")
    /\ \/ /\ IF fence = NoAnswer
             THEN fence' = "unarmed" /\ Goto(r, "prepare")
             ELSE Reply(r, fence, FALSE) /\ UNCHANGED fence
          /\ UNCHANGED faults
       \/ SwapFails(NoAnswer, "unarmed") /\ Done(r)
    /\ UNCHANGED <<row, tracks, fired>> /\ Dispatching

\* The intent is written before the fence is armed; the new observation
\* baseline forgets an active track.
Prepare(r) ==
    LET intent == [proc[r].copy EXCEPT !.state = "STARTING", !.active = FALSE]
        With(step) == proc' = [proc EXCEPT ![r].at = step, ![r].copy = intent]
    IN
    /\ At(r, "prepare")
    /\ \/ Put(intent) /\ With("arm") /\ UNCHANGED faults
       \/ PutFails(intent) /\ With("abort")
    /\ UNCHANGED <<fence, tracks, fired>> /\ Dispatching

Arm(r) ==
    /\ At(r, "arm")
    /\ \/ /\ Swap("unarmed", "armed")
          /\ Goto(r, IF fence = "unarmed" THEN "fire" ELSE "abort")
          /\ UNCHANGED faults
       \/ SwapFails("unarmed", "armed") /\ Goto(r, "abort")
    /\ UNCHANGED <<row, tracks, fired>> /\ Dispatching

\* The device fires, refuses, or nobody knows.
Fire(r) ==
    /\ At(r, "fire")
    /\ \/ fired' = fired + 1 /\ Goto(r, "recordMission") /\ UNCHANGED faults
       \/ Goto(r, "reject") /\ UNCHANGED <<fired, faults>>
       \/ Fault /\ fired' \in {fired, fired + 1} /\ Goto(r, "uncertain")
    /\ UNCHANGED <<row, fence, tracks>> /\ Dispatching

RecordMission(r) ==
    LET known == [proc[r].copy EXCEPT !.mission = TRUE]
        With(step) == proc' = [proc EXCEPT ![r].at = step, ![r].copy = known]
    IN
    /\ At(r, "recordMission")
    /\ \/ Put(known) /\ With("recordAccepted") /\ UNCHANGED faults
       \/ PutFails(known) /\ With("uncertain")
    /\ UNCHANGED <<fence, tracks, fired>> /\ Dispatching

\* The copy goes to the store a second time, as accepted.
RecordAccepted(r) ==
    /\ At(r, "recordAccepted")
    /\ \/ Put(proc[r].copy) /\ Goto(r, "complete") /\ UNCHANGED faults
       \/ PutFails(proc[r].copy) /\ Goto(r, "uncertain")
    /\ UNCHANGED <<fence, tracks, fired>> /\ Dispatching

\* The business event and #completeFireClaim.
Complete(r) ==
    /\ At(r, "complete")
    /\ \/ /\ Swap("armed", "accepted") /\ Reply(r, fence', FALSE)
          /\ UNCHANGED faults
       \/ SwapFails("armed", "accepted") /\ Goto(r, "uncertain")
    /\ UNCHANGED <<row, tracks, fired>> /\ Dispatching

\* DeviceToolRejectedError.
Reject(r) ==
    LET failed == [proc[r].copy EXCEPT !.state = "BUSINESS_FAILED"] IN
    /\ At(r, "reject")
    /\ \/ /\ Put(failed) /\ tracks' = [tracks EXCEPT ![r] = FALSE]
          /\ Goto(r, "completeRejected") /\ UNCHANGED faults
       \/ PutFails(failed) /\ Done(r) /\ UNCHANGED tracks
    /\ UNCHANGED <<fence, fired>> /\ Dispatching

CompleteRejected(r) ==
    /\ At(r, "completeRejected")
    /\ \/ /\ Swap("armed", "rejected") /\ Reply(r, fence', FALSE)
          /\ UNCHANGED faults
       \/ SwapFails("armed", "rejected") /\ Done(r)
    /\ UNCHANGED <<row, tracks, fired>> /\ Dispatching

\* An ambiguous outcome keeps the fence armed.
RecordUncertain(r) ==
    /\ At(r, "uncertain")
    /\ \/ Put(proc[r].copy) /\ UNCHANGED faults
       \/ PutFails(proc[r].copy)
    /\ Done(r)
    /\ UNCHANGED <<fence, tracks, fired>> /\ Dispatching

----------------------------------------------------------------------------
(* #abortFireBeforeDispatch: the intent or the arming failed.              *)

Abort(r) ==
    /\ At(r, "abort")
    /\ \/ /\ Swap("unarmed", "aborted")
          /\ Decided(r, IF fence = "armed" THEN "abortArmed" ELSE "abortRead", fence')
          /\ UNCHANGED faults
       \/ /\ SwapFails("unarmed", "aborted")
          /\ \E winner \in {fence', NoAnswer} : Decided(r, "abortRead", winner)
    /\ UNCHANGED <<row, tracks, fired>> /\ Dispatching

\* The arming had been committed although its answer was lost.
AbortArmed(r) ==
    /\ At(r, "abortArmed")
    /\ \/ Swap("armed", "aborted") /\ Decided(r, "abortRead", fence') /\ UNCHANGED faults
       \/ /\ SwapFails("armed", "aborted")
          /\ \E winner \in {fence', NoAnswer} : Decided(r, "abortRead", winner)
    /\ UNCHANGED <<row, tracks, fired>> /\ Dispatching

\* The row is read again, or the copy is used if that fails.
AbortRead(r) ==
    /\ At(r, "abortRead")
    /\ \E current \in {row, proc[r].copy} :
        /\ IF current = row THEN UNCHANGED faults ELSE Fault
        /\ IF /\ current.state \notin Terminal
              /\ proc[r].reply \in Withheld \cup {"unarmed", "armed"}
           THEN proc' = [proc EXCEPT ![r].at = "settleAbort", ![r].copy = current]
           ELSE Reply(r, proc[r].reply, FALSE)
    /\ UNCHANGED <<row, fence, tracks, fired>> /\ Dispatching

----------------------------------------------------------------------------
(* #cancelUndispatchedFire, of a cancel or a declined confirmation.        *)

\* A fence that somebody else decided: an update replays it, a cancel comes too
\* late.
LostTo(r, winner) ==
    IF IsCancel(r) THEN Reply(r, "unsupported", TRUE) ELSE Reply(r, winner, FALSE)

Continue(r, answer, keep) ==
    proc' = [proc EXCEPT ![r] = [@ EXCEPT !.at = "current", !.copy = Waiting,
                                          !.reply = answer, !.keep = keep]]

ClaimCancel(r) ==
    /\ At(r, "claimCancel")
    /\ \/ /\ Swap(NoAnswer, "cancelled")
          /\ CASE fence = NoAnswer ->
                    proc' = [proc EXCEPT ![r].at = "cancelOwn",
                                         ![r].reply = "cancelled", ![r].keep = TRUE]
               [] fence = "cancelled" -> Continue(r, fence, IsCancel(r))
               [] fence = "unarmed" ->
                    proc' = [proc EXCEPT ![r].at = "takeOver", ![r].copy = Waiting]
               [] OTHER -> LostTo(r, fence)
          /\ UNCHANGED faults
       \/ SwapFails(NoAnswer, "cancelled") /\ Done(r)
    /\ UNCHANGED <<row, tracks, fired>> /\ Dispatching

\* The confirmation is prepared and not armed: the fence is taken from it.
TakeOver(r) ==
    /\ At(r, "takeOver")
    /\ \/ /\ Swap("unarmed", "cancelled")
          /\ CASE fence = "unarmed" -> Continue(r, "cancelled", TRUE)
               [] fence = "cancelled" -> Continue(r, fence, IsCancel(r))
               [] OTHER -> LostTo(r, fence)
          /\ UNCHANGED faults
       \/ SwapFails("unarmed", "cancelled") /\ Reply(r, "armed", TRUE)
    /\ UNCHANGED <<row, tracks, fired>> /\ Dispatching

ReadCurrent(r) ==
    /\ At(r, "current")
    /\ IF row.state \in Terminal THEN Reply(r, proc[r].reply, proc[r].keep)
       ELSE proc' = [proc EXCEPT ![r].at = "cancelOther", ![r].copy = row]
    /\ UNCHANGED <<row, fence, tracks, fired, faults>> /\ Dispatching

----------------------------------------------------------------------------
(* #persistLocalFireCancellation, #persistFireTechnicalFailure.            *)

Settled(r) == [proc[r].copy EXCEPT
    !.state = IF proc[r].reply = "cancelled" THEN "CANCELLED" ELSE "TECHNICAL_FAILED"]

Settle(r) ==
    /\ proc[r].at \in Settling
    /\ Put(Settled(r))
    /\ tracks' = [tracks EXCEPT ![r] = FALSE]
    /\ IF At(r, "settlePoll") THEN Done(r) ELSE Reply(r, proc[r].reply, proc[r].keep)
    /\ UNCHANGED <<fence, fired, faults>> /\ Dispatching

\* The winner of the fence answers that the outcome is uncertain, an abort
\* answers what was decided, and the others throw.
SettleFails(r) ==
    /\ proc[r].at \in Settling
    /\ PutFails(Settled(r))
    /\ CASE At(r, "cancelOwn")   -> Reply(r, "armed", TRUE)
         [] At(r, "settleAbort") -> Reply(r, proc[r].reply, FALSE)
         [] OTHER -> proc' = [proc EXCEPT ![r] = IF proc[r].boot THEN Boot ELSE Idle]
    /\ UNCHANGED <<fence, tracks, fired>> /\ Dispatching

----------------------------------------------------------------------------
(* #pollActive, get and reconcile, and #recover of a process that starts.  *)

ListActive(r) ==
    /\ At(r, "idle") \/ At(r, "boot")
    /\ IF row.state \in Terminal
       THEN At(r, "boot") /\ Done(r)
       ELSE proc' = [proc EXCEPT ![r] = [Idle EXCEPT !.at = "fence", !.copy = row,
                                                     !.boot = At(r, "boot")]]
    /\ UNCHANGED <<row, fence, tracks, fired, faults>> /\ Dispatching

\* applyTrack: an end counts only after activity was seen.
Observed(copy) ==
    CASE weapon = "active" -> [copy EXCEPT !.state = "RUNNING", !.active = TRUE]
      [] weapon = "ended" /\ copy.active -> [copy EXCEPT !.state = "SUCCEEDED"]
      [] OTHER -> copy

\* A copy whose reason or progress alone changes is written back too.
Refresh(r, copy) ==
    LET follows == copy.state # "WAITING_INPUT" /\ copy.mission IN
    \/ /\ follows
       /\ proc' = [proc EXCEPT ![r].at = "put", ![r].copy = Observed(copy)]
    \/ /\ follows => Observed(copy) = copy
       /\ Done(r)

PollFenceForgetful(r) ==
    /\ At(r, "fence")
    /\ UNCHANGED fence /\ Refresh(r, proc[r].copy)
    /\ tracks' = [tracks EXCEPT ![r] = @ \/ proc[r].boot]
    /\ UNCHANGED <<row, fired, faults>> /\ Dispatching

\* #recoverPreDispatchFireFence: a decision that the row does not show yet is
\* written, and a confirmation that is not armed is aborted.  A process that
\* starts then takes the tracks and goes on, or notes that it is offline.
PollFence(r) ==
    /\ At(r, "fence")
    /\ Swap("unarmed", "aborted")
    /\ IF fence' \in Withheld
       THEN Decided(r, "settlePoll", fence') /\ UNCHANGED tracks
       ELSE IF proc[r].boot
       THEN /\ tracks' = [tracks EXCEPT ![r] = TRUE]
            /\ \E step \in {"fence", "put"} :
                   proc' = [proc EXCEPT ![r].at = step, ![r].boot = FALSE]
       ELSE Refresh(r, proc[r].copy) /\ UNCHANGED tracks
    /\ UNCHANGED <<row, fired, faults>> /\ Dispatching

PutRefreshed(r) ==
    /\ At(r, "put")
    /\ Put(proc[r].copy)
    /\ tracks' = [tracks EXCEPT ![r] = @ /\ proc[r].copy.state \notin Terminal]
    /\ Done(r)
    /\ UNCHANGED <<fence, fired, faults>> /\ Dispatching

----------------------------------------------------------------------------
(* Faults and the weapon (external).                                       *)

\* A statement fails where nobody catches it: the handler ends.
Throw(r) ==
    /\ \/ proc[r].at \in {"execution", "dispatch", "current", "answer", "fence", "put"}
       \/ At(r, "takeOver") /\ fence # "unarmed"
    /\ Fault
    /\ proc' = [proc EXCEPT ![r] = IF proc[r].boot THEN Boot ELSE Idle]
    /\ UNCHANGED <<row, fence, tracks, fired>> /\ Dispatching

\* The process dies, maybe with a call under way, and starts again.
Crash(r) ==
    /\ Fault
    /\ proc' = [proc EXCEPT ![r] = Boot]
    /\ tracks' = [tracks EXCEPT ![r] = FALSE]
    /\ fired' \in (IF At(r, "fire") THEN {fired, fired + 1} ELSE {fired})
    /\ UNCHANGED <<row, fence>> /\ Dispatching

WeaponMoves ==
    /\ fired > 0
    /\ \/ weapon = "none" /\ weapon' = "active"
       \/ weapon = "active" /\ weapon' = "ended"
    /\ UNCHANGED <<kind, row, fence, acks, tracks, proc, fired, told, faults>>

----------------------------------------------------------------------------

\* After #start at Home: the row waits for its confirmation.
Init ==
    /\ kind \in Kinds
    /\ row = Waiting
    /\ fence = NoAnswer
    /\ acks = [q \in Requests |-> NoAnswer]
    /\ tracks = [r \in Replicas |-> r = Home]
    /\ proc = [r \in Replicas |-> Idle]
    /\ fired = 0 /\ weapon = "none" /\ told = {}
    /\ faults = MaxFaults

Work(r) ==
    \/ ReadExecution(r) \/ ReadDispatch(r) \/ Answer(r)
    \/ ClaimFire(r) \/ Prepare(r) \/ Arm(r) \/ Fire(r) \/ RecordMission(r)
    \/ RecordAccepted(r) \/ Complete(r) \/ Reject(r) \/ CompleteRejected(r)
    \/ RecordUncertain(r)
    \/ Abort(r) \/ AbortArmed(r) \/ AbortRead(r)
    \/ ClaimCancel(r) \/ TakeOver(r) \/ ReadCurrent(r)
    \/ Settle(r) \/ SettleFails(r) \/ PollFence(r) \/ PutRefreshed(r)

Next ==
    \/ \E r \in Replicas :
        \/ \E q \in Requests : Replay(r, q) \/ Take(r, q)
        \/ Work(r) \/ ListActive(r) \/ Throw(r) \/ Crash(r)
    \/ WeaponMoves

Spec == Init /\ [][Next]_vars

\* A mutation that runs comes to its end, and the poll that the interval timer
\* queues behind other mutations gets its turn (#mutationTail is a queue).
Fairness == \A r \in Replicas : WF_vars(Work(r)) /\ SF_vars(ListActive(r))

FairSpec == Spec /\ Fairness

----------------------------------------------------------------------------
(* Properties.                                                             *)

Phase ==
    LET withheld == fence \in Withheld \cup {"rejected"} IN
    CASE fired = 0 /\ withheld  -> "withheld"
      [] fired = 0 /\ ~withheld -> "open"
      [] fired = 1 /\ ~withheld -> "fired"
      [] OTHER                  -> "broken"

Promised == INSTANCE OneShot WITH phase <- Phase

\* The fence implements OneShot: whatever replicas confirm, decline, cancel, poll,
\* crash or lose an answer, the weapon fires at most once, never after a caller
\* could read that it was cancelled, aborted or refused, and who is told that it
\* was accepted can rely on it (claimCommandAck, completeCommandAck).
FiresOnceOrNever == Promised!Spec

\* What was decided before dispatch ends the execution for good, even when the
\* replica that decided dies and a slower one writes its older copy over the end
\* (#recoverPreDispatchFireFence in every poll).
WithheldSettles ==
    (fence \in Withheld) ~> [](row.state \in {"CANCELLED", "TECHNICAL_FAILED"})
=============================================================================
