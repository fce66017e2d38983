---------------------------- MODULE CommandLane ----------------------------
(***************************************************************************)
(* The control commands of one bound Task and the answers to its input     *)
(* requests: the task_command rows, the task_input_request rows, the       *)
(* task_input_response_inbox, the clients that write them, the stops that  *)
(* supersede them, the promotion sweep, the dispatchers that claim and     *)
(* deliver them, and the Adapter.                                          *)
(*                                                                         *)
(* A repository transaction is one step.  A dispatcher keeps what it read  *)
(* between its steps.  A snapshot is applied by a reader that may hold any *)
(* revision the Adapter ever produced.  Starting, binding and the start    *)
(* window are in TaskLifecycle; the Task here is bound and running.        *)
(*                                                                         *)
(* A RETRY_WAIT command may always be due: its backoff only delays it.     *)
(***************************************************************************)
EXTENDS Integers, Sequences, FiniteSets

CONSTANTS
    Keys,          \* input request keys the Adapter may use
    Business,      \* those whose request carries io.sdar/taskBusiness metadata
    Answers,       \* contents of an answer
    Dispatchers,   \* handlers (executeClaimed) of the command dispatchers
    Owner,         \* Owner[d]: the worker id handler d claims under
    Nobody,        \* claim_owner IS NULL
    CanCancel,     \* values operation.capabilities.cancel may have
    Legacy,        \* do clients also use the legacy tasks/update?
    Controls,      \* the controls clients ask for: PAUSE, RESUME, INTERVENTION
    Deadline,      \* has the Task a deadline?
    MaxControls,   \* bound: commands created by clients, without cancels
    MaxCancels,    \* bound: user cancels
    MaxAttempts,   \* maxInputResponseAttempts, maxInterventionAttempts, maxSafeStopAttempts
    MaxRevision,   \* bound: snapshots of the Adapter
    MaxFaults      \* bound: lost claims, crashes, failed calls together

Normal == {"UPDATE", "PAUSE", "RESUME", "INTERVENTION"}

ASSUME LaneAssumption ==
    /\ Business \subseteq Keys
    /\ Nobody \notin {Owner[d] : d \in Dispatchers}
    /\ CanCancel \subseteq BOOLEAN /\ Legacy \in BOOLEAN /\ Deadline \in BOOLEAN
    /\ Controls \subseteq Normal \ {"UPDATE"}
    /\ MaxControls \in Nat /\ MaxCancels \in Nat /\ MaxFaults \in Nat
    /\ MaxAttempts \in Nat \ {0} /\ MaxRevision \in Nat \ {0}

VARIABLES
    task,      \* the provider_task row: state, stop reason, adapter revision
    snapshots, \* every snapshot the Adapter produced, by revision (external)
    commands,  \* the task_command rows, by sequence
    request,   \* task_input_request.status
    answer,    \* task_input_request.response_json of an ANSWERED request
    inbox,     \* the task_input_response_inbox row of each key
    proc,      \* what each handler is doing
    applied,   \* sequences of the commands the Adapter carried out (external)
    refused,   \* sequences it rejected for good (external)
    faults     \* faults that may still happen

vars == <<task, snapshots, commands, request, answer, inbox, proc, applied, refused, faults>>

NoAnswer == "none"
Live == {"RUNNING", "INPUT_REQUIRED", "PAUSED"}
Ended == {"TERMINAL_COMPLETED", "TERMINAL_CANCELLED", "TERMINAL_FAILED"}
StopReasons == {"none", "USER_REQUESTED", "DEADLINE_REACHED"}
Unfinished == {"PENDING", "CLAIMED", "RETRY_WAIT"}
Finished == {"ACKNOWLEDGED", "REJECTED", "EXHAUSTED"}
Replies == {"none", "accepted", "rejected", "retryable", "mismatch", "error"}
Steps == {"idle", "claimed", "checked", "calling", "answered", "thrown",
          "caught", "supersede", "retry", "reconcile", "restore"}

Task == [state : Live \cup Ended \cup {"STOPPING"}, stop : StopReasons,
         revision : 0..MaxRevision, intent : BOOLEAN, cancellable : CanCancel]
Snapshot == [state : Live \cup Ended, asked : SUBSET Keys]
Command == [type     : Normal \cup {"CANCEL"},
            payload  : SUBSET (Keys \X Answers),
            hash     : SUBSET (Keys \X Answers),   \* request_hash
            inboxed  : BOOLEAN,    \* promoted from the inbox
            state    : Unfinished \cup Finished,
            owner    : {Owner[d] : d \in Dispatchers} \cup {Nobody},
            over     : BOOLEAN,    \* claim_until has passed
            attempts : 0..MaxAttempts,
            reason   : StopReasons,
            uncertain : BOOLEAN]   \* INTERVENTION_DELIVERY_EXHAUSTED
Response == [state  : {"none", "PENDING", "ASSIGNED", "ACKNOWLEDGED", "IGNORED", "FAILED"},
             answer : Answers \cup {NoAnswer}, seq : Nat]
Handler == [step : Steps, seq : Nat, reason : StopReasons, sawStop : BOOLEAN,
            reply : Replies, revision : 0..MaxRevision]
IdleHandler == [step |-> "idle", seq |-> 0, reason |-> "none", sawStop |-> FALSE,
                reply |-> "none", revision |-> 0]

(* Every variable has its type; a claim has an owner and only a claim has. *)
TypeOK ==
    /\ task \in Task
    /\ snapshots \in Seq(Snapshot) /\ Len(snapshots) <= MaxRevision
    /\ commands \in Seq(Command)
    /\ request \in [Keys -> {"none", "OPEN", "ANSWERED", "SUPERSEDED"}]
    /\ answer \in [Keys -> Answers \cup {NoAnswer}]
    /\ inbox \in [Keys -> Response]
    /\ proc \in [Dispatchers -> Handler]
    /\ applied \subseteq DOMAIN commands /\ refused \subseteq DOMAIN commands \ applied
    /\ faults \in 0..MaxFaults
    /\ \A i \in DOMAIN commands :
           (commands[i].owner # Nobody) = (commands[i].state = "CLAIMED")

Init ==
    /\ task \in [state : {"RUNNING"}, stop : {"none"}, revision : {0}, intent : {FALSE},
                 cancellable : CanCancel]
    /\ snapshots = << >>
    /\ commands = << >>
    /\ request = [k \in Keys |-> "none"]
    /\ answer = [k \in Keys |-> NoAnswer]
    /\ inbox = [k \in Keys |-> [state |-> "none", answer |-> NoAnswer, seq |-> 0]]
    /\ proc = [d \in Dispatchers |-> IdleHandler]
    /\ applied = {}
    /\ refused = {}
    /\ faults = MaxFaults

Seqs == DOMAIN commands
MaxSeq == MaxControls + MaxCancels + Cardinality(Keys) + (IF Deadline THEN 1 ELSE 0)
Terminal == task.state \in Ended
Stopping == task.stop # "none" \/ task.state = "STOPPING"
Waiting == task.state = "INPUT_REQUIRED"
KeysOf(c) == {p[1] : p \in c.payload}
BusinessKeys(c) == IF c.inboxed THEN KeysOf(c) \cap Business ELSE {}
Active(types) == {i \in Seqs : commands[i].type \in types /\ commands[i].state \in Unfinished}

New(type, payload, hash, inboxed, reason) ==
    [type |-> type, payload |-> payload, hash |-> hash, inboxed |-> inboxed,
     state |-> "PENDING", owner |-> Nobody, over |-> FALSE, attempts |-> 0, reason |-> reason,
     uncertain |-> FALSE]

(* A closed command that keeps the claim_owner. *)
ClosedButOwned(c, state) == [c EXCEPT !.state = state, !.over = FALSE]

Closed(c, state) == [c EXCEPT !.state = state, !.owner = Nobody, !.over = FALSE]
CloseAll(S, state) == [i \in Seqs |-> IF i \in S THEN Closed(commands[i], state) ELSE commands[i]]

(* UPDATE task_input_request SET status='SUPERSEDED' WHERE key = ANY(K) AND status='OPEN' *)
Withdraw(K) ==
    request' = [k \in Keys |-> IF k \in K /\ request[k] = "OPEN" THEN "SUPERSEDED" ELSE request[k]]

(* The update of the inbox without its command_sequence. *)
SettleAll(S, state) ==
    inbox' = [k \in Keys |-> IF inbox[k].state = "ASSIGNED" /\ S # {}
                             THEN [inbox[k] EXCEPT !.state = state] ELSE inbox[k]]

(* UPDATE task_input_response_inbox SET state WHERE command_sequence IN S AND state='ASSIGNED' *)
Settle(S, state) ==
    inbox' = [k \in Keys |-> IF inbox[k].state = "ASSIGNED" /\ inbox[k].seq \in S
                             THEN [inbox[k] EXCEPT !.state = state] ELSE inbox[k]]

-----------------------------------------------------------------------------
(* The clients.  A function A maps the keys of a call to their answers.    *)

(* The refusals of acceptMcpInputResponses; one refused key refuses the call. *)
RefusedKey(k, a) ==
    /\ k \in Business
    /\ \/ request[k] = "ANSWERED" /\ answer[k] # a
       \/ request[k] = "OPEN" /\ (Stopping \/ Terminal \/ ~Waiting)
       \/ request[k] = "OPEN" /\ inbox[k].state # "none" /\ inbox[k].answer # a

(* acceptMcpInputResponses that lets an answer be given again once a stop made
   the first one IGNORED.                                                  *)
AcceptResponsesAgain(A) ==
    /\ \A k \in DOMAIN A : ~RefusedKey(k, A[k])
    /\ inbox' = [k \in Keys |->
           IF k \in DOMAIN A /\ request[k] = "OPEN" /\ inbox[k].state \in {"none", "IGNORED"}
           THEN [state |-> "PENDING", answer |-> A[k], seq |-> 0] ELSE inbox[k]]
    /\ UNCHANGED <<task, snapshots, commands, request, answer, proc, applied, refused, faults>>

(* tasks/update of the frozen protocol: the first answer to an open request
   is stored; the primary key ignores another one.                         *)
AcceptResponses(A) ==
    /\ \A k \in DOMAIN A : ~RefusedKey(k, A[k])
    /\ inbox' = [k \in Keys |->
           IF k \in DOMAIN A /\ request[k] = "OPEN" /\ inbox[k].state = "none"
           THEN [state |-> "PENDING", answer |-> A[k], seq |-> 0] ELSE inbox[k]]
    /\ UNCHANGED <<task, snapshots, commands, request, answer, proc, applied, refused, faults>>

ClientCommands == {i \in Seqs : commands[i].type # "CANCEL" /\ ~commands[i].inboxed}

(* beginCommand: a command of the same request is returned, a stopping or busy
   Task refuses; PAUSE and RESUME of a Task always have the same request hash. *)
BeginCommand(type, payload, hash) ==
    /\ Cardinality(ClientCommands) < MaxControls
    /\ ~\E i \in ClientCommands : commands[i].type = type /\ commands[i].hash = hash
    /\ ~Terminal /\ ~Stopping
    /\ Active(Normal \cup {"CANCEL"}) = {}
    /\ commands' = Append(commands, New(type, payload, hash, FALSE, "none"))
    /\ UNCHANGED <<task, snapshots, request, answer, inbox, proc, applied, refused, faults>>

(* controlTask *)
ControlTask == \E type \in Controls \cap {"PAUSE", "RESUME"} : BeginCommand(type, {}, {})

(* updateTask of the legacy protocol: an unknown key or another answer to an
   answered request refuses the call, answered keys are not sent again.    *)
UpdateTask(A) ==
    LET pending == {k \in DOMAIN A : request[k] # "ANSWERED"}
    IN  /\ Legacy
        /\ \A k \in DOMAIN A : request[k] # "none"
        /\ \A k \in DOMAIN A \ pending : answer[k] = A[k]
        /\ pending # {}
        /\ BeginCommand("UPDATE", {<<k, A[k]>> : k \in pending}, {<<k, A[k]>> : k \in DOMAIN A})

(* enqueueBusinessIntervention with a new commandId. *)
BeginIntervention ==
    /\ "INTERVENTION" \in Controls
    /\ Cardinality(ClientCommands) < MaxControls
    /\ task.state = "RUNNING" /\ task.stop = "none"
    /\ ~\E i \in Seqs : commands[i].uncertain
    /\ Active(Normal \cup {"CANCEL"}) = {}
    /\ commands' = Append(commands, New("INTERVENTION", {}, {}, FALSE, "none"))
    /\ UNCHANGED <<task, snapshots, request, answer, inbox, proc, applied, refused, faults>>

StopCommands == {i \in Seqs : /\ commands[i].type = "CANCEL"
                              /\ commands[i].state \in Unfinished \cup {"ACKNOWLEDGED"}}

(* tasks/cancel of a cancellable operation: beginCancel supersedes the normal
   commands nobody holds and journals the stop.                            *)
BeginCancel ==
    /\ task.cancellable /\ ~Terminal /\ StopCommands = {}
    /\ Cardinality({i \in Seqs : commands[i].type = "CANCEL"}) < MaxCancels
    /\ commands' = Append(CloseAll({i \in Seqs : /\ commands[i].type \in Normal
                                                 /\ commands[i].state \in {"PENDING", "RETRY_WAIT"}},
                                   "EXHAUSTED"),
                          New("CANCEL", {}, {}, FALSE, "USER_REQUESTED"))
    /\ task' = [task EXCEPT !.state = "STOPPING", !.stop = "USER_REQUESTED"]
    /\ UNCHANGED <<snapshots, request, answer, inbox, proc, applied, refused, faults>>

(* tasks/cancel of another operation records the intent, once. *)
RecordCancellationIntent ==
    /\ ~task.cancellable /\ ~Terminal /\ ~task.intent
    /\ task' = [task EXCEPT !.stop = "USER_REQUESTED", !.intent = TRUE]
    /\ UNCHANGED <<snapshots, commands, request, answer, inbox, proc, applied, refused, faults>>

(* claimExpiredDeadlines: the active stop is promoted or a new one journalled;
   the event of a command promoted before is a duplicate and changes nothing. *)
ClaimExpiredDeadlines ==
    LET c == CHOOSE i \in StopCommands : \A j \in StopCommands : j <= i
    IN  /\ Deadline /\ ~Terminal /\ task.stop # "DEADLINE_REACHED"
        /\ \/ /\ StopCommands = {}
              /\ commands' = Append(commands, New("CANCEL", {}, {}, FALSE, "DEADLINE_REACHED"))
              /\ task' = [task EXCEPT !.state = "STOPPING", !.stop = "DEADLINE_REACHED"]
           \/ /\ StopCommands # {}
              /\ commands[c].reason # "DEADLINE_REACHED"
              /\ commands' = [commands EXCEPT ![c].reason = "DEADLINE_REACHED"]
              /\ task' = [task EXCEPT !.state = "STOPPING", !.stop = "DEADLINE_REACHED"]
        /\ UNCHANGED <<snapshots, request, answer, inbox, proc, applied, refused, faults>>

-----------------------------------------------------------------------------
(* The sweep that turns stored answers into commands.                      *)

(* promotePendingInputResponses: a stopping or ended Task ignores the answers,
   a business answer nobody waits for is ignored and its request withdrawn, the
   others become one UPDATE command.                                       *)
Promote ==
    LET pending == {k \in Keys : inbox[k].state = "PENDING"}
        stale == {k \in pending \cap Business : ~Waiting \/ request[k] # "OPEN"}
        ready == IF Stopping \/ Terminal THEN {} ELSE pending \ stale
        seq == Len(commands) + 1
        payload == {<<k, inbox[k].answer>> : k \in ready}
    IN  /\ pending # {}
        /\ IF Stopping \/ Terminal \/ Waiting THEN UNCHANGED request ELSE Withdraw(stale)
        /\ inbox' = [k \in Keys |->
               IF k \in ready THEN [inbox[k] EXCEPT !.state = "ASSIGNED", !.seq = seq]
               ELSE IF k \in pending THEN [inbox[k] EXCEPT !.state = "IGNORED"]
               ELSE inbox[k]]
        /\ commands' = IF ready = {} THEN commands
                       ELSE Append(commands, New("UPDATE", payload, payload, TRUE, "none"))
        /\ UNCHANGED <<task, snapshots, answer, proc, applied, refused, faults>>

-----------------------------------------------------------------------------
(* The dispatchers.  A handler whose claim was lost, or taken by another   *)
(* worker, finds that out at its next transaction and does nothing more.   *)

At(d, step) == proc[d].step = step
Mine(d) == proc[d].seq
Cmd(d) == commands[proc[d].seq]
Goto(d, step) == proc' = [proc EXCEPT ![d].step = step]
Done(d) == proc' = [proc EXCEPT ![d] = IdleHandler]

Owns(d) == Cmd(d).state = "CLAIMED" /\ Cmd(d).owner = Owner[d]

Close(d, state) == commands' = [commands EXCEPT ![Mine(d)] = Closed(Cmd(d), state)]

(* What claimDueCommands supersedes first: expired claims of normal commands of
   a Task that has a stop.  supersedeExpiredClaimedNormalCommandsForSafeStop,
   which the handler of a claimed cancel calls, then finds none.           *)
ExpiredUnderStop ==
    {i \in Seqs : /\ commands[i].type \in Normal /\ commands[i].state = "CLAIMED"
                  /\ commands[i].over /\ task.stop # "none"}

(* Candidates that include the claims of others before they run out. *)
DueIgnoringLease(c) == /\ c.state \in Unfinished
                       /\ c.type = "CANCEL" \/ task.stop = "none"

(* Candidates that do not look at cancel_requested. *)
DueDespiteStop(c) == c.state \in {"PENDING", "RETRY_WAIT"} \/ (c.state = "CLAIMED" /\ c.over)

(* Candidates without the claims of handlers that died. *)
DueUnclaimed(c) == /\ c.state \in {"PENDING", "RETRY_WAIT"}
                   /\ c.type = "CANCEL" \/ task.stop = "none"

Due(c) == /\ \/ c.state \in {"PENDING", "RETRY_WAIT"}
             \/ c.state = "CLAIMED" /\ c.over
          /\ c.type = "CANCEL" \/ task.stop = "none"

(* The first of the ranked candidates: a cancel before the others, an expired
   claim before the commands that became due after it.                     *)
FirstDue(cs, i) ==
    /\ Due(cs[i])
    /\ \A j \in Seqs : Due(cs[j]) =>
          /\ cs[j].type = "CANCEL" => cs[i].type = "CANCEL"
          /\ cs[j].type # "CANCEL" /\ cs[i].type # "CANCEL" /\ cs[j].state = "CLAIMED"
             => cs[i].state = "CLAIMED"

ClaimedBy(d, c) == [c EXCEPT !.state = "CLAIMED", !.owner = Owner[d], !.over = FALSE,
                             !.attempts = IF @ < MaxAttempts THEN @ + 1 ELSE @]

(* claimDueCommands that forgets the claims that ran out before the stop. *)
ClaimDueCommandsNotSuperseding(d, i) ==
    /\ At(d, "idle") /\ i \in Seqs
    /\ FirstDue(commands, i)
    /\ \A j \in Seqs \ {i} : commands[j].state # "CLAIMED"
    /\ commands' = [commands EXCEPT ![i] = ClaimedBy(d, @)]
    /\ proc' = [proc EXCEPT ![d] = [IdleHandler EXCEPT
           !.step = "claimed", !.seq = i, !.reason = commands[i].reason]]
    /\ UNCHANGED <<task, snapshots, request, answer, inbox, applied, refused, faults>>

(* claimDueCommands by handler d: command i is claimed; the whole transaction
   fails on the index task_command_one_claimed_per_task_idx.               *)
ClaimDueCommands(d, i) ==
    LET cs == CloseAll(ExpiredUnderStop, "EXHAUSTED")
    IN  /\ At(d, "idle") /\ i \in Seqs
        /\ FirstDue(cs, i)
        /\ \A j \in Seqs \ {i} : cs[j].state # "CLAIMED"
        /\ commands' = [cs EXCEPT ![i] = ClaimedBy(d, @)]
        /\ proc' = [proc EXCEPT ![d] = [IdleHandler EXCEPT
               !.step = "claimed", !.seq = i, !.reason = cs[i].reason]]
        /\ Settle({j \in ExpiredUnderStop : commands[j].type = "UPDATE"}, "IGNORED")
        /\ UNCHANGED <<task, snapshots, request, answer, applied, refused, faults>>

(* The same call when no command is due. *)
SupersedeExpired ==
    /\ ExpiredUnderStop # {}
    /\ ~\E i \in Seqs : Due(CloseAll(ExpiredUnderStop, "EXHAUSTED")[i])
    /\ commands' = CloseAll(ExpiredUnderStop, "EXHAUSTED")
    /\ Settle(ExpiredUnderStop, "IGNORED")
    /\ UNCHANGED <<task, snapshots, request, answer, proc, applied, refused, faults>>

(* The two rechecks under the Task lock at the start of executeClaimed:
   a business answer nobody waits for any more and an intervention into a Task
   that is not running are closed without a call.                          *)
Recheck(d) ==
    LET c == Cmd(d)
        accepting == Waiting /\ task.stop = "none"
        stale == \/ /\ BusinessKeys(c) # {}
                    /\ ~accepting \/ \E k \in BusinessKeys(c) : request[k] # "OPEN"
                 \/ c.type = "INTERVENTION" /\ ~(task.state = "RUNNING" /\ task.stop = "none")
    IN  /\ At(d, "claimed") /\ Owns(d)
        /\ \/ /\ ~stale
              /\ Goto(d, "checked")
              /\ UNCHANGED <<commands, request, inbox>>
           \/ /\ stale
              /\ Close(d, "EXHAUSTED")
              /\ IF accepting THEN UNCHANGED request ELSE Withdraw(KeysOf(c))
              /\ Settle({Mine(d)}, "IGNORED")
              /\ Done(d)
        /\ UNCHANGED <<task, snapshots, answer, applied, refused, faults>>

(* rejectClaimedCommand: an assigned answer FAILED, its request stays open. *)
Reject(d) ==
    /\ Owns(d)
    /\ Close(d, "REJECTED")
    /\ Settle({Mine(d)}, "FAILED")
    /\ Done(d)
    /\ UNCHANGED <<task, snapshots, request, answer, applied, refused, faults>>

(* getById finds the Task ended. *)
RejectOfEndedTask(d) == At(d, "checked") /\ Terminal /\ Reject(d)

(* getById finds it alive: recordCommandStarted, and the call leaves.      *)
Send(d) ==
    /\ At(d, "checked") /\ Owns(d) /\ ~Terminal
    /\ proc' = [proc EXCEPT ![d].step = "calling", ![d].sawStop = task.stop # "none"]
    /\ UNCHANGED <<task, snapshots, commands, request, answer, inbox, applied, refused, faults>>

(* The Adapter carries a command out at most once, or rejects it for good, and
   answers a repetition as before; the answer may be lost, be of another
   execution, or ask to retry what was not decided.                        *)
AdapterAnswers(d, reply) ==
    LET new == Mine(d) \notin applied \cup refused
        accepts == applied' = applied \cup {Mine(d)} /\ UNCHANGED refused
        rejects == refused' = refused \cup {Mine(d)} /\ UNCHANGED applied
    IN  /\ At(d, "calling")
        /\ \/ reply \in {"accepted", "error"} /\ Mine(d) \notin refused /\ accepts
           \/ reply \in {"rejected", "error"} /\ Mine(d) \notin applied /\ rejects
           \/ reply \in {"retryable", "error"} /\ new /\ UNCHANGED <<applied, refused>>
           \/ reply = "mismatch" /\ UNCHANGED <<applied, refused>>
        /\ faults' = IF reply \in {"accepted", "rejected"} THEN faults ELSE faults - 1
        /\ faults' >= 0
        /\ proc' = [proc EXCEPT ![d].reply = reply,
               ![d].step = IF reply \notin {"error", "mismatch"} THEN "answered"
                           ELSE IF Cmd(d).type \in {"UPDATE", "PAUSE", "RESUME"} THEN "thrown"
                           ELSE "caught"]
        /\ UNCHANGED <<task, snapshots, commands, request, answer, inbox>>

Answered(d, reply) == At(d, "answered") /\ proc[d].reply = reply

(* acknowledgeClaimedCommand *)
Acknowledge(d) ==
    /\ Answered(d, "accepted") /\ Cmd(d).type # "UPDATE" /\ Owns(d)
    /\ Close(d, "ACKNOWLEDGED")
    /\ Done(d)
    /\ UNCHANGED <<task, snapshots, request, answer, inbox, applied, refused, faults>>

(* A business answer whose wait or request is gone. *)
NobodyWaits(c) ==
    BusinessKeys(c) # {} /\ (~Waiting \/ \E k \in BusinessKeys(c) : request[k] # "OPEN")

(* acknowledgeUpdateAndCompleteInputAnswers of a Task that ended, stops, or left
   the wait its business answer was for.                                   *)
IgnoreUpdate(d) ==
    LET c == Cmd(d)
        over == Terminal \/ Stopping
    IN  /\ Answered(d, "accepted") /\ c.type = "UPDATE" /\ Owns(d)
        /\ over \/ NobodyWaits(c)
        /\ Close(d, "EXHAUSTED")
        /\ IF over THEN Withdraw(KeysOf(c))
           ELSE IF ~Waiting THEN Withdraw(BusinessKeys(c)) ELSE UNCHANGED request
        /\ Settle({Mine(d)}, "IGNORED")
        /\ Done(d)
        /\ UNCHANGED <<task, snapshots, answer, applied, refused, faults>>

(* ... and of a Task that takes the answers: every request must still be open,
   or the transaction throws INPUT_REQUEST_NOT_OPEN.  The last answer ends the
   wait.                                                                   *)
AcknowledgeUpdate(d) ==
    LET c == Cmd(d)
    IN  /\ Answered(d, "accepted") /\ c.type = "UPDATE" /\ Owns(d)
        /\ ~Terminal /\ ~Stopping /\ ~NobodyWaits(c)
        /\ \A k \in KeysOf(c) : request[k] = "OPEN"
        /\ request' = [k \in Keys |-> IF k \in KeysOf(c) THEN "ANSWERED" ELSE request[k]]
        /\ answer' = [k \in Keys |-> IF k \in KeysOf(c)
                                      THEN (CHOOSE p \in c.payload : p[1] = k)[2] ELSE answer[k]]
        /\ Settle({Mine(d)}, "ACKNOWLEDGED")
        /\ task' = IF Waiting /\ \A k \in Keys : request'[k] # "OPEN"
                   THEN [task EXCEPT !.state = "RUNNING"] ELSE task
        /\ Close(d, "ACKNOWLEDGED")
        /\ Done(d)
        /\ UNCHANGED <<snapshots, applied, refused, faults>>

InputRequestNotOpen(d) ==
    LET c == Cmd(d)
    IN  /\ Answered(d, "accepted") /\ c.type = "UPDATE" /\ Owns(d)
        /\ ~Terminal /\ ~Stopping /\ ~NobodyWaits(c)
        /\ \E k \in KeysOf(c) : request[k] # "OPEN"
        /\ Goto(d, "thrown")
        /\ UNCHANGED <<task, snapshots, commands, request, answer, inbox, applied, refused, faults>>

(* A permanent rejection of a pause, resume, intervention or business answer. *)
RejectCommand(d) ==
    /\ Answered(d, "rejected")
    /\ Cmd(d).type \in {"PAUSE", "RESUME", "INTERVENTION"} \/ BusinessKeys(Cmd(d)) # {}
    /\ Reject(d)

(* The end of an answer that cannot be delivered: in a Task that ended or stops
   it is superseded, else the Task fails with it.                          *)
FailInput(d, state) ==
    LET over == Terminal \/ Stopping
    IN  /\ Owns(d)
        /\ Close(d, IF over THEN "EXHAUSTED" ELSE state)
        /\ IF Terminal THEN UNCHANGED request ELSE Withdraw(KeysOf(Cmd(d)))
        /\ Settle({Mine(d)}, IF over THEN "IGNORED" ELSE "FAILED")
        /\ task' = IF over THEN task ELSE [task EXCEPT !.state = "TERMINAL_FAILED"]
        /\ Done(d)
        /\ UNCHANGED <<snapshots, answer, applied, refused, faults>>

(* rejectInputResponseAndFailTask *)
RejectInputResponse(d) ==
    /\ Answered(d, "rejected") /\ Cmd(d).type = "UPDATE" /\ BusinessKeys(Cmd(d)) = {}
    /\ FailInput(d, "REJECTED")

(* failInputResponseDelivery, after the last attempt. *)
FailInputResponseDelivery(d) ==
    /\ At(d, "caught") /\ proc[d].reply # "mismatch"
    /\ Cmd(d).type = "UPDATE" /\ Cmd(d).attempts = MaxAttempts
    /\ FailInput(d, "EXHAUSTED")

(* The error of another execution: the command is rejected. *)
RejectMismatch(d) == At(d, "caught") /\ proc[d].reply = "mismatch" /\ Reject(d)

Mandatory(d) == proc[d].reason # "USER_REQUESTED"

(* failSafeStopUnconfirmed: a mandatory stop was rejected for good, or its
   attempts are exhausted.                                                 *)
FailSafeStopUnconfirmed(d) ==
    /\ \/ Answered(d, "rejected")
       \/ At(d, "caught") /\ proc[d].reply = "error" /\ Cmd(d).attempts = MaxAttempts
    /\ Cmd(d).type = "CANCEL" /\ Mandatory(d) /\ Owns(d)
    /\ Close(d, "EXHAUSTED")
    /\ task' = IF Terminal THEN task ELSE [task EXCEPT !.state = "TERMINAL_FAILED"]
    /\ Done(d)
    /\ UNCHANGED <<snapshots, request, answer, inbox, applied, refused, faults>>

Current == IF snapshots = << >> THEN [state |-> "RUNNING", asked |-> {}]
           ELSE snapshots[Len(snapshots)]

(* A rejected user cancel is reconciled; the handler keeps the snapshot, retries
   when it gets none, or drops a command answered for another execution.   *)
ReconcileCancel(d) ==
    /\ Answered(d, "rejected") /\ Cmd(d).type = "CANCEL" /\ ~Mandatory(d)
    /\ \/ /\ proc' = [proc EXCEPT ![d].step = "restore", ![d].revision = Len(snapshots)]
          /\ UNCHANGED faults
       \/ /\ faults > 0 /\ faults' = faults - 1
          /\ proc' = [proc EXCEPT ![d].step = "retry"]
       \/ /\ faults > 0 /\ faults' = faults - 1
          /\ proc' = [proc EXCEPT ![d].step = "caught", ![d].reply = "mismatch"]
    /\ UNCHANGED <<task, snapshots, commands, request, answer, inbox, applied, refused>>

(* rejectUserCancel: the snapshot's state replaces STOPPING, the stop is gone;
   in an ended Task the command is closed whoever holds it.                *)
RejectUserCancel(d) ==
    LET r == proc[d].revision
        state == IF r = 0 THEN "RUNNING" ELSE snapshots[r].state
    IN  /\ At(d, "restore")
        /\ \/ /\ Terminal
              /\ Close(d, "EXHAUSTED")
              /\ UNCHANGED task
           \/ /\ ~Terminal /\ Owns(d)
              /\ Close(d, "REJECTED")
              /\ task' = [task EXCEPT !.state = state, !.stop = "none",
                                      !.revision = IF r > @ THEN r ELSE @]
        /\ Done(d)
        /\ UNCHANGED <<snapshots, request, answer, inbox, applied, refused, faults>>

(* trySupersedeClaimedCommandForSafeStop reads the Task before it decides. *)
Look(d) ==
    /\ \/ Answered(d, "retryable")
       \/ At(d, "thrown")
       \/ /\ At(d, "caught") /\ proc[d].reply # "mismatch" /\ proc[d].sawStop
          /\ ~(Cmd(d).type = "UPDATE" /\ Cmd(d).attempts = MaxAttempts)
    /\ Cmd(d).type \in Normal
    /\ Goto(d, IF Stopping THEN "supersede" ELSE IF At(d, "thrown") THEN "caught" ELSE "retry")
    /\ UNCHANGED <<task, snapshots, commands, request, answer, inbox, applied, refused, faults>>

(* supersedeClaimedCommandForSafeStop *)
SupersedeClaimed(d) ==
    /\ At(d, "supersede") /\ Owns(d)
    /\ Close(d, "EXHAUSTED")
    /\ Settle({Mine(d)}, "IGNORED")
    /\ Done(d)
    /\ UNCHANGED <<task, snapshots, request, answer, applied, refused, faults>>

(* retryClaimedCommand, or exhaustClaimedBusinessIntervention after the last
   attempt; a retryable rejection has no limit for the other types.        *)
Retry(d) ==
    LET c == Cmd(d)
        last == c.type = "INTERVENTION" /\ c.attempts = MaxAttempts
    IN  /\ \/ At(d, "retry")
           \/ Answered(d, "retryable") /\ c.type = "CANCEL"
           \/ /\ At(d, "caught") /\ proc[d].reply # "mismatch"
              /\ IF c.type = "CANCEL" THEN ~(Mandatory(d) /\ c.attempts = MaxAttempts)
                 ELSE ~proc[d].sawStop /\ ~(c.type = "UPDATE" /\ c.attempts = MaxAttempts)
        /\ Owns(d)
        /\ commands' = [commands EXCEPT ![Mine(d)] =
               IF last THEN [Closed(c, "EXHAUSTED") EXCEPT !.uncertain = TRUE]
               ELSE Closed(c, "RETRY_WAIT")]
        /\ Done(d)
        /\ UNCHANGED <<task, snapshots, request, answer, inbox, applied, refused, faults>>

(* COMMAND_CLAIM_LOST: the next transaction of the handler changes nothing. *)
ClaimLost(d) ==
    /\ proc[d].step \in {"claimed", "checked", "answered", "caught", "supersede", "retry", "restore"}
    /\ ~Owns(d)
    /\ Done(d)
    /\ UNCHANGED <<task, snapshots, commands, request, answer, inbox, applied, refused, faults>>

-----------------------------------------------------------------------------
(* The Adapter's snapshots, and what may go wrong.                         *)

(* Delivered(k, a): the Adapter took answer a to request k. *)
Delivered(k, a) == \E i \in applied : commands[i].type = "UPDATE" /\ <<k, a>> \in commands[i].payload

(* The Adapter shows a new snapshot: it asks for input it has not got, runs,
   pauses, ends, or reports progress in the same state.                    *)
NewSnapshot(state, K) ==
    /\ Len(snapshots) < MaxRevision /\ Current.state \notin Ended
    /\ K \subseteq Keys /\ (K # {} => state = "INPUT_REQUIRED")
    /\ state = "INPUT_REQUIRED" =>
           \E k \in K \cup Current.asked : \A a \in Answers : ~Delivered(k, a)
    /\ snapshots' = Append(snapshots, [state |-> state, asked |-> Current.asked \cup K])
    /\ UNCHANGED <<task, commands, request, answer, inbox, proc, applied, refused, faults>>

(* applySnapshot of the revision a reader holds, upsertInputRequests, and the
   end of every command when the execution ended.                          *)
ApplySnapshot(r) ==
    /\ r \in DOMAIN snapshots /\ r > task.revision /\ ~Terminal
    /\ LET s == snapshots[r]
       IN  /\ task' = [task EXCEPT !.revision = r,
                  !.state = IF s.state \in Ended \/ task.stop = "none" THEN s.state ELSE @]
           /\ request' = [k \in Keys |-> IF k \in s.asked /\ request[k] = "none"
                                          THEN "OPEN" ELSE request[k]]
           /\ commands' = IF s.state \in Ended
                          THEN CloseAll({i \in Seqs : commands[i].state \in Unfinished}, "EXHAUSTED")
                          ELSE commands
    /\ UNCHANGED <<snapshots, answer, inbox, proc, applied, refused, faults>>

(* A claim nobody renews runs out. *)
AbandonedClaimExpires(i) ==
    /\ i \in Seqs /\ commands[i].state = "CLAIMED" /\ ~commands[i].over
    /\ ~\E d \in Dispatchers : proc[d].seq = i /\ Owner[d] = commands[i].owner
    /\ commands' = [commands EXCEPT ![i].over = TRUE]
    /\ UNCHANGED <<task, snapshots, request, answer, inbox, proc, applied, refused, faults>>

(* The heartbeat of a living handler fails for the length of the lease.    *)
HeldClaimExpires(i) ==
    /\ faults > 0 /\ faults' = faults - 1
    /\ i \in Seqs /\ commands[i].state = "CLAIMED" /\ ~commands[i].over
    /\ \E d \in Dispatchers : proc[d].seq = i /\ Owner[d] = commands[i].owner
    /\ commands' = [commands EXCEPT ![i].over = TRUE]
    /\ UNCHANGED <<task, snapshots, request, answer, inbox, proc, applied, refused>>

(* A late heartbeat renews a claim that ran out and nobody took. *)
RenewCommandClaim(d) ==
    /\ proc[d].seq # 0 /\ Owns(d) /\ Cmd(d).over
    /\ commands' = [commands EXCEPT ![Mine(d)].over = FALSE]
    /\ UNCHANGED <<task, snapshots, request, answer, inbox, proc, applied, refused, faults>>

(* The process dies, or Promise.all of its tick rejected and it is gone. *)
Crash(d) ==
    /\ faults > 0 /\ faults' = faults - 1
    /\ ~At(d, "idle")
    /\ Done(d)
    /\ UNCHANGED <<task, snapshots, commands, request, answer, inbox, applied, refused>>

-----------------------------------------------------------------------------
Calls == UNION {[K -> Answers] : K \in (SUBSET Keys) \ {{}}}

Client ==
    \/ \E A \in Calls : AcceptResponses(A) \/ UpdateTask(A)
    \/ ControlTask \/ BeginIntervention
    \/ BeginCancel \/ RecordCancellationIntent

Finish(d) ==
    \/ Acknowledge(d) \/ IgnoreUpdate(d) \/ AcknowledgeUpdate(d) \/ InputRequestNotOpen(d)
    \/ RejectCommand(d) \/ RejectInputResponse(d) \/ FailInputResponseDelivery(d)
    \/ RejectMismatch(d) \/ FailSafeStopUnconfirmed(d) \/ ReconcileCancel(d)
    \/ RejectUserCancel(d) \/ Look(d) \/ SupersedeClaimed(d) \/ Retry(d) \/ ClaimLost(d)

Handle(d) ==
    \/ Recheck(d) \/ RejectOfEndedTask(d) \/ Send(d)
    \/ \E reply \in Replies \ {"none"} : AdapterAnswers(d, reply)
    \/ Finish(d)

Next ==
    \/ Client \/ ClaimExpiredDeadlines \/ Promote \/ SupersedeExpired
    \/ \E d \in Dispatchers :
          Handle(d) \/ RenewCommandClaim(d) \/ Crash(d) \/ \E i \in Seqs : ClaimDueCommands(d, i)
    \/ \E state \in Live \cup Ended, K \in SUBSET Keys : NewSnapshot(state, K)
    \/ \E r \in 1..MaxRevision : ApplySnapshot(r)
    \/ \E i \in Seqs : AbandonedClaimExpires(i) \/ HeldClaimExpires(i)

Spec == Init /\ [][Next]_vars

\* Fairness.  The dispatchers poll on interval timers and an awaited call
\* settles (the gateway has timeouts), so a handler that can go on does; the
\* promotion and recovery sweeps poll too, and an abandoned lease runs out by
\* the clock.  A command that becomes due again and again is claimed: its older
\* next_attempt_at ranks it before the ones that are retried.  Nothing is
\* assumed of the clients, of the deadline, of the Adapter's progress or of the
\* faults, which are finitely many.
Fairness ==
    /\ \A d \in Dispatchers : WF_vars(Handle(d))
    /\ WF_vars(Promote)
    /\ WF_vars(\E r \in 1..MaxRevision : ApplySnapshot(r))
    /\ \A i \in 1..MaxSeq :
          /\ SF_vars(\E d \in Dispatchers : ClaimDueCommands(d, i))
          /\ WF_vars(AbandonedClaimExpires(i))

FairSpec == Spec /\ Fairness

-----------------------------------------------------------------------------
(* What must hold.                                                         *)

(* The stored answer of a request, the command it was given to and the request
   agree however the handlers, stops and sweeps interleave: an answer is
   ACKNOWLEDGED only with its command and by the request showing that answer,
   one that is FAILED or still waits was not acknowledged behind its back, and
   a request is shown as ANSWERED only with what the Adapter really took.  *)
ResponseFollowsCommand ==
    \A k \in Keys : LET r == inbox[k] IN
        /\ request[k] = "ANSWERED" => Delivered(k, answer[k])
        /\ r.state = "ACKNOWLEDGED" => /\ commands[r.seq].state = "ACKNOWLEDGED"
                                       /\ request[k] = "ANSWERED" /\ answer[k] = r.answer
        /\ r.state = "ASSIGNED" => commands[r.seq].state \notin {"ACKNOWLEDGED", "REJECTED"}
        /\ r.state = "FAILED" => commands[r.seq].state \in {"REJECTED", "EXHAUSTED"}

(* The Adapter never takes two different answers to one request, whatever is
   retried, superseded or answered again: the promise of the inbox's primary
   key.  (Clients of the legacy tasks/update have no such promise.)        *)
AnsweredOnce ==
    ~Legacy => \A k \in Keys, a, b \in Answers : Delivered(k, a) /\ Delivered(k, b) => a = b

(* Only one call to the Adapter is under way for a Task as long as no lease was
   lost and no process died.                                               *)
CallsAreSerial ==
    faults = MaxFaults => \A d, e \in Dispatchers : At(d, "calling") /\ At(e, "calling") => d = e

(* Once the Adapter carried out a stop, no handler that holds its claim sends it
   a pause, a resume, an answer or an intervention.  Only a stop that was
   rejected does not bind them: its answer named another execution.        *)
StopIsLast ==
    \A d \in Dispatchers : (At(d, "calling") /\ Owns(d) /\ Cmd(d).type \in Normal)
        => \A i \in applied : commands[i].type = "CANCEL" => commands[i].state = "REJECTED"

(* Every stop that was journalled is delivered or given up: no claim of an
   earlier command keeps it waiting for ever.                              *)
StopIsDelivered ==
    \A i \in 1..MaxSeq :
        (i \in Seqs /\ commands[i].type = "CANCEL")
            ~> (i \in Seqs /\ commands[i].state \in Finished)

(* Every answer that was accepted stops waiting for its command to be made, and
   every command is finished, unless the Task got a stop.                  *)
CommandsResolve ==
    \A i \in 1..MaxSeq :
        (i \in Seqs) ~> (task.stop # "none" \/ (i \in Seqs /\ commands[i].state \in Finished))
=============================================================================
