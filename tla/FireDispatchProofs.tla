------------------------- MODULE FireDispatchProofs -------------------------
(***************************************************************************)
(* FireDispatch is well typed and implements OneShot, for every number of  *)
(* replicas, requests and faults.                                          *)
(***************************************************************************)
EXTENDS FireDispatch, TLAPS

(***************************************************************************)
(* Types.  An action leaves most of the state alone; what it makes of a    *)
(* process, a row or the fence is typed once here.                         *)
(***************************************************************************)

LEMMA ProcessType ==
    ASSUME NEW p \in Process, NEW step \in Steps, NEW q \in Requests \cup {NoRequest},
           NEW c \in Execution, NEW answer \in Answers \cup {NoAnswer},
           NEW keep \in BOOLEAN, NEW boot \in BOOLEAN
    PROVE  /\ [p EXCEPT !.at = step] \in Process
           /\ [p EXCEPT !.at = step, !.request = q] \in Process
           /\ [p EXCEPT !.at = step, !.copy = c] \in Process
           /\ [p EXCEPT !.at = step, !.reply = answer] \in Process
           /\ [p EXCEPT !.at = step, !.boot = boot] \in Process
           /\ [p EXCEPT !.at = step, !.reply = answer, !.keep = keep] \in Process
           /\ [p EXCEPT !.at = step, !.copy = c, !.reply = answer, !.keep = keep] \in Process
           /\ [p EXCEPT !.at = step, !.copy = c, !.boot = boot] \in Process
BY DEF Process

LEMMA IdleType == Waiting \in Execution /\ Idle \in Process /\ Boot \in Process
<1>1. Waiting \in Execution
  BY DEF Waiting, Execution
<1>2. "idle" \in Steps /\ "boot" \in Steps
  BY DEF Steps
<1>3. Idle \in Process
  BY <1>1, <1>2 DEF Idle, Process
<1>4. QED
  BY <1>1, <1>2, <1>3 DEF Boot, Process

LEMMA ReplyType ==
    ASSUME TypeOK, NEW r \in Replicas, NEW answer \in Answers \cup {NoAnswer},
           NEW keep \in BOOLEAN, Reply(r, answer, keep)
    PROVE  proc' \in [Replicas -> Process]
<1>1. "answer" \in Steps
  BY DEF Steps
<1>2. proc \in [Replicas -> Process]
  BY DEF TypeOK
<1>3. [proc[r] EXCEPT !.at = "answer", !.copy = Waiting, !.reply = answer, !.keep = keep]
         \in Process
  BY <1>1, <1>2, IdleType, ProcessType
<1>4. QED
  BY <1>2, <1>3, IdleType DEF Reply

LEMMA StepType ==
    ASSUME TypeOK, NEW r \in Replicas
    PROVE  /\ proc \in [Replicas -> Process] /\ proc[r] \in Process
           /\ proc[r].copy \in Execution /\ proc[r].reply \in Answers \cup {NoAnswer}
           /\ proc[r].keep \in BOOLEAN /\ proc[r].boot \in BOOLEAN
           /\ \A p \in Process : [proc EXCEPT ![r] = p] \in [Replicas -> Process]
           /\ \A step \in Steps : Goto(r, step) => proc' \in [Replicas -> Process]
           /\ \A step \in Steps, answer \in Answers \cup {NoAnswer} :
                Decided(r, step, answer) => proc' \in [Replicas -> Process]
           /\ Done(r) => proc' \in [Replicas -> Process]
<1>1. proc \in [Replicas -> Process] /\ proc[r] \in Process
  BY DEF TypeOK
<1>2. /\ proc[r].copy \in Execution /\ proc[r].reply \in Answers \cup {NoAnswer}
      /\ proc[r].keep \in BOOLEAN /\ proc[r].boot \in BOOLEAN
      /\ proc[r].request \in Requests \cup {NoRequest}
  BY <1>1 DEF Process
<1>3. \A p \in Process : [proc EXCEPT ![r] = p] \in [Replicas -> Process]
  BY <1>1
<1>4. ASSUME NEW step \in Steps, Goto(r, step) PROVE proc' \in [Replicas -> Process]
  <2>1. [proc[r] EXCEPT !.at = step] \in Process
    BY <1>1, <1>2, ProcessType
  <2>2. QED
    BY <1>3, <1>4, <2>1 DEF Goto
<1>5. ASSUME NEW step \in Steps, NEW answer \in Answers \cup {NoAnswer},
             Decided(r, step, answer)
      PROVE  proc' \in [Replicas -> Process]
  <2>1. [proc[r] EXCEPT !.at = step, !.reply = answer] \in Process
    BY <1>1, <1>2, ProcessType
  <2>2. proc' = [proc EXCEPT ![r] = [proc[r] EXCEPT !.at = step, !.reply = answer]]
    BY <1>5, <1>1 DEF Decided
  <2>3. QED
    BY <1>3, <2>1, <2>2
<1>6. Done(r) => proc' \in [Replicas -> Process]
  BY <1>3, IdleType DEF Done
<1>7. QED
  BY <1>1, <1>2, <1>3, <1>4, <1>5, <1>6

LEMMA Names ==
    /\ "boot" \in Steps /\ "idle" \in Steps /\ "execution" \in Steps /\ "dispatch" \in Steps
    /\ "claimFire" \in Steps /\ "prepare" \in Steps /\ "arm" \in Steps /\ "fire" \in Steps
    /\ "recordMission" \in Steps /\ "recordAccepted" \in Steps /\ "complete" \in Steps
    /\ "reject" \in Steps /\ "completeRejected" \in Steps /\ "uncertain" \in Steps
    /\ "abort" \in Steps /\ "abortArmed" \in Steps /\ "abortRead" \in Steps
    /\ "claimCancel" \in Steps /\ "takeOver" \in Steps /\ "current" \in Steps
    /\ "answer" \in Steps /\ "fence" \in Steps /\ "put" \in Steps
    /\ "cancelOwn" \in Steps /\ "cancelFound" \in Steps /\ "cancelOther" \in Steps
    /\ "settleAbort" \in Steps /\ "settlePoll" \in Steps
    /\ "unsupported" \in Answers /\ "refused" \in Answers /\ "armed" \in Answers
    /\ "unarmed" \in Answers /\ "cancelled" \in Answers /\ "aborted" \in Answers
    /\ "accepted" \in Answers /\ "rejected" \in Answers
BY DEF Steps, Settling, Answers, Certain, Withheld

LEMMA RequestsType ==
    ASSUME TypeOK, NEW r \in Replicas,
           \/ \E q \in Requests : Replay(r, q) \/ Take(r, q)
           \/ ReadExecution(r) \/ ReadDispatch(r) \/ Answer(r)
    PROVE  TypeOK'
<1>1. ASSUME NEW q \in Requests, Replay(r, q) PROVE TypeOK'
  BY <1>1 DEF Replay, TypeOK, External
<1>2. ASSUME NEW q \in Requests, Take(r, q) PROVE TypeOK'
  <2>1. [proc[r] EXCEPT !.at = "execution", !.request = q] \in Process
    BY <1>2, StepType, Names, ProcessType, IdleType
  <2>2. proc' = [proc EXCEPT ![r] = [proc[r] EXCEPT !.at = "execution", !.request = q]]
    BY <1>2, StepType DEF Take
  <2>3. proc' \in [Replicas -> Process]
    BY <2>1, <2>2, StepType
  <2>4. QED
    BY <1>2, <2>3 DEF Take, TypeOK, External
<1>3. CASE ReadExecution(r)
  <2>1. ASSUME NEW step \in Steps
        PROVE  [proc EXCEPT ![r].copy = row, ![r].at = step] \in [Replicas -> Process]
    <3>1. [proc[r] EXCEPT !.at = step, !.copy = row] \in Process
      BY StepType, ProcessType DEF TypeOK
    <3>2. [proc EXCEPT ![r].copy = row, ![r].at = step]
            = [proc EXCEPT ![r] = [proc[r] EXCEPT !.at = step, !.copy = row]]
      BY StepType DEF Process
    <3>3. QED
      BY <3>1, <3>2, StepType
  <2>2. proc' \in [Replicas -> Process]
    <3>1. CASE IsCancel(r) /\ row.state # "WAITING_INPUT"
      BY <1>3, <3>1, ReplyType, Names DEF ReadExecution
    <3>2. CASE ~ (IsCancel(r) /\ row.state # "WAITING_INPUT")
      <4>1. (IF IsCancel(r) THEN "claimCancel" ELSE "dispatch") \in Steps
        BY Names
      <4>2. QED
        BY <1>3, <2>1, <3>2, <4>1 DEF ReadExecution
    <3>3. QED
      BY <3>1, <3>2
  <2>3. QED
    BY <1>3, <2>2 DEF ReadExecution, TypeOK, External
<1>4. CASE ReadDispatch(r)
  <2>1. fence \in Answers \cup {NoAnswer}
    BY DEF TypeOK
  <2>2. proc' \in [Replicas -> Process]
    BY <1>4, <2>1, ReplyType, StepType, Names DEF ReadDispatch
  <2>3. QED
    BY <1>4, <2>2 DEF ReadDispatch, TypeOK, External
<1>5. CASE Answer(r)
  <2>1. proc' \in [Replicas -> Process]
    BY <1>5, StepType DEF Answer
  <2>2. QED
    BY <1>5, <2>1, StepType DEF Answer, TypeOK, External
<1>6. QED
  BY <1>1, <1>2, <1>3, <1>4, <1>5

LEMMA ExecutionType ==
    ASSUME NEW c \in Execution
    PROVE  /\ [c EXCEPT !.state = "STARTING", !.active = FALSE] \in Execution
           /\ [c EXCEPT !.mission = TRUE] \in Execution
           /\ [c EXCEPT !.state = "BUSINESS_FAILED"] \in Execution
           /\ [c EXCEPT !.state = "CANCELLED"] \in Execution
           /\ [c EXCEPT !.state = "TECHNICAL_FAILED"] \in Execution
           /\ [c EXCEPT !.state = "SUCCEEDED"] \in Execution
           /\ [c EXCEPT !.state = "RUNNING", !.active = TRUE] \in Execution
BY DEF Execution, Terminal

\* What the swap of the fence, a failed statement and a written row may leave.
LEMMA StoreType ==
    ASSUME TypeOK
    PROVE  /\ Fault => faults' \in 0..MaxFaults
           /\ \A from, to \in {"unarmed", "armed", "cancelled", "aborted", "accepted",
                               "rejected", NoAnswer} :
                Swap(from, to) \/ SwapFails(from, to)
                  => fence' \in (Answers \ {"unsupported", "refused"}) \cup {NoAnswer}
           /\ \A execution \in Execution :
                Put(execution) \/ PutFails(execution) => row' \in Execution
<1>1. Fault => faults' \in 0..MaxFaults
  BY FireAssumption DEF Fault, TypeOK
<1>2. ASSUME NEW from \in {"unarmed", "armed", "cancelled", "aborted", "accepted",
                           "rejected", NoAnswer},
             NEW to \in {"unarmed", "armed", "cancelled", "aborted", "accepted",
                         "rejected", NoAnswer},
             Swap(from, to) \/ SwapFails(from, to)
      PROVE  fence' \in (Answers \ {"unsupported", "refused"}) \cup {NoAnswer}
  <2>1. to \in (Answers \ {"unsupported", "refused"}) \cup {NoAnswer}
    BY Names
  <2>2. QED
    BY <1>2, <2>1 DEF Swap, SwapFails, TypeOK
<1>3. ASSUME NEW execution \in Execution, Put(execution) \/ PutFails(execution)
      PROVE  row' \in Execution
  BY <1>3 DEF Put, PutFails, TypeOK
<1>4. QED
  BY <1>1, <1>2, <1>3

LEMMA CopyType ==
    ASSUME TypeOK, NEW r \in Replicas, NEW step \in Steps, NEW c \in Execution,
           proc' = [proc EXCEPT ![r].at = step, ![r].copy = c]
    PROVE  proc' \in [Replicas -> Process]
<1>1. [proc[r] EXCEPT !.at = step, !.copy = c] \in Process
  BY StepType, ProcessType
<1>2. proc' = [proc EXCEPT ![r] = [proc[r] EXCEPT !.at = step, !.copy = c]]
  BY StepType DEF Process
<1>3. QED
  BY <1>1, <1>2, StepType

LEMMA DispatchType ==
    ASSUME TypeOK, NEW r \in Replicas, fired = 0 \/ ~ At(r, "fire"),
           \/ ClaimFire(r) \/ Prepare(r) \/ Arm(r) \/ Fire(r) \/ RecordMission(r)
           \/ RecordAccepted(r) \/ Complete(r) \/ Reject(r) \/ CompleteRejected(r)
           \/ RecordUncertain(r)
    PROVE  TypeOK'
<1>1. CASE ClaimFire(r)
  <2>1. fence' \in (Answers \ {"unsupported", "refused"}) \cup {NoAnswer}
    BY <1>1, StoreType, Names DEF ClaimFire, TypeOK
  <2>2. proc' \in [Replicas -> Process]
    BY <1>1, StepType, ReplyType, Names DEF ClaimFire, TypeOK
  <2>3. QED
    BY <1>1, <2>1, <2>2, StoreType DEF ClaimFire, TypeOK, Dispatching, SwapFails
<1>2. CASE Prepare(r)
  <2> DEFINE intent == [proc[r].copy EXCEPT !.state = "STARTING", !.active = FALSE]
  <2>1. intent \in Execution
    BY ExecutionType, StepType
  <2>2. /\ \/ Put(intent) /\ UNCHANGED faults
           \/ PutFails(intent)
        /\ \E step \in {"arm", "abort"} : proc' = [proc EXCEPT ![r].at = step, ![r].copy = intent]
    BY <1>2 DEF Prepare
  <2>3. proc' \in [Replicas -> Process]
    BY <2>1, <2>2, CopyType, Names
  <2>4. row' \in Execution /\ faults' \in 0..MaxFaults
    BY <2>1, <2>2, StoreType DEF PutFails, TypeOK
  <2>5. QED
    BY <1>2, <2>3, <2>4 DEF Prepare, TypeOK, Dispatching
<1>3. CASE Arm(r)
  <2>1. fence' \in (Answers \ {"unsupported", "refused"}) \cup {NoAnswer}
    BY <1>3, StoreType DEF Arm
  <2>2. proc' \in [Replicas -> Process]
    BY <1>3, StepType, Names DEF Arm
  <2>3. faults' \in 0..MaxFaults
    BY <1>3, StoreType DEF Arm, SwapFails, TypeOK
  <2>4. QED
    BY <1>3, <2>1, <2>2, <2>3 DEF Arm, TypeOK, Dispatching
<1>4. CASE Fire(r)
  <2>1. fired = 0 /\ fired' \in {0, 1}
    BY <1>4 DEF Fire
  <2>2. proc' \in [Replicas -> Process]
    BY <1>4, StepType, Names DEF Fire
  <2>3. faults' \in 0..MaxFaults
    BY <1>4, StoreType DEF Fire, TypeOK
  <2>4. QED
    BY <1>4, <2>1, <2>2, <2>3 DEF Fire, TypeOK, Dispatching
<1>5. CASE RecordMission(r)
  <2> DEFINE known == [proc[r].copy EXCEPT !.mission = TRUE]
  <2>1. known \in Execution
    BY ExecutionType, StepType
  <2>2. /\ \/ Put(known) /\ UNCHANGED faults
           \/ PutFails(known)
        /\ \E step \in {"recordAccepted", "uncertain"} :
              proc' = [proc EXCEPT ![r].at = step, ![r].copy = known]
    BY <1>5 DEF RecordMission
  <2>3. proc' \in [Replicas -> Process]
    BY <2>1, <2>2, CopyType, Names
  <2>4. row' \in Execution /\ faults' \in 0..MaxFaults
    BY <2>1, <2>2, StoreType DEF PutFails, TypeOK
  <2>5. QED
    BY <1>5, <2>3, <2>4 DEF RecordMission, TypeOK, Dispatching
<1>6. CASE RecordAccepted(r) \/ RecordUncertain(r)
  <2>1. row' \in Execution /\ faults' \in 0..MaxFaults
    BY <1>6, StepType, StoreType DEF RecordAccepted, RecordUncertain, PutFails, TypeOK
  <2>2. proc' \in [Replicas -> Process]
    BY <1>6, StepType, Names DEF RecordAccepted, RecordUncertain
  <2>3. QED
    BY <1>6, <2>1, <2>2 DEF RecordAccepted, RecordUncertain, TypeOK, Dispatching
<1>7. CASE Complete(r) \/ CompleteRejected(r)
  <2>1. fence' \in (Answers \ {"unsupported", "refused"}) \cup {NoAnswer}
    BY <1>7, StoreType DEF Complete, CompleteRejected
  <2>2. proc' \in [Replicas -> Process]
    BY <1>7, <2>1, StepType, ReplyType, Names DEF Complete, CompleteRejected
  <2>3. faults' \in 0..MaxFaults
    BY <1>7, StoreType DEF Complete, CompleteRejected, SwapFails, TypeOK
  <2>4. QED
    BY <1>7, <2>1, <2>2, <2>3 DEF Complete, CompleteRejected, TypeOK, Dispatching
<1>8. CASE Reject(r)
  <2>1. [proc[r].copy EXCEPT !.state = "BUSINESS_FAILED"] \in Execution
    BY ExecutionType, StepType
  <2>2. row' \in Execution /\ faults' \in 0..MaxFaults
    BY <1>8, <2>1, StoreType DEF Reject, PutFails, TypeOK
  <2>3. proc' \in [Replicas -> Process] /\ tracks' \in [Replicas -> BOOLEAN]
    BY <1>8, StepType, Names DEF Reject, TypeOK
  <2>4. QED
    BY <1>8, <2>2, <2>3 DEF Reject, TypeOK, Dispatching
<1>9. QED
  BY <1>1, <1>2, <1>3, <1>4, <1>5, <1>6, <1>7, <1>8

LEMMA AbortType ==
    ASSUME TypeOK, NEW r \in Replicas, Abort(r) \/ AbortArmed(r) \/ AbortRead(r)
    PROVE  TypeOK'
<1>1. CASE Abort(r) \/ AbortArmed(r)
  <2>1. fence' \in (Answers \ {"unsupported", "refused"}) \cup {NoAnswer}
    BY <1>1, StoreType DEF Abort, AbortArmed
  <2>2. PICK step \in {"abortArmed", "abortRead"}, answer \in {fence', NoAnswer} :
            Decided(r, step, answer)
    BY <1>1 DEF Abort, AbortArmed
  <2>3. proc' \in [Replicas -> Process]
    BY <2>1, <2>2, StepType, Names
  <2>4. faults' \in 0..MaxFaults
    BY <1>1, StoreType DEF Abort, AbortArmed, SwapFails, TypeOK
  <2>5. QED
    BY <1>1, <2>1, <2>3, <2>4 DEF Abort, AbortArmed, TypeOK, Dispatching
<1>2. CASE AbortRead(r)
  <2>1. PICK current \in {row, proc[r].copy} :
            /\ IF current = row THEN UNCHANGED faults ELSE Fault
            /\ IF /\ current.state \notin Terminal
                  /\ proc[r].reply \in Withheld \cup {"unarmed", "armed"}
               THEN proc' = [proc EXCEPT ![r].at = "settleAbort", ![r].copy = current]
               ELSE Reply(r, proc[r].reply, FALSE)
    BY <1>2 DEF AbortRead
  <2>2. current \in Execution
    BY <2>1, StepType DEF TypeOK
  <2>3. proc' \in [Replicas -> Process]
    BY <2>1, <2>2, StepType, ReplyType, CopyType, Names
  <2>4. faults' \in 0..MaxFaults
    BY <2>1, StoreType DEF TypeOK
  <2>5. QED
    BY <1>2, <2>3, <2>4 DEF AbortRead, TypeOK, Dispatching
<1>3. QED
  BY <1>1, <1>2

LEMMA WinnerType ==
    ASSUME TypeOK, NEW r \in Replicas, NEW answer \in Answers \cup {NoAnswer},
           NEW keep \in BOOLEAN, Continue(r, answer, keep) \/ LostTo(r, answer)
    PROVE  proc' \in [Replicas -> Process]
<1>1. [proc[r] EXCEPT !.at = "current", !.copy = Waiting, !.reply = answer, !.keep = keep]
         \in Process
  BY StepType, IdleType, ProcessType, Names
<1>2. CASE Continue(r, answer, keep)
  BY <1>1, <1>2, StepType DEF Continue
<1>3. CASE LostTo(r, answer)
  BY <1>3, ReplyType, Names DEF LostTo
<1>4. QED
  BY <1>2, <1>3

LEMMA CancelType ==
    ASSUME TypeOK, NEW r \in Replicas, ClaimCancel(r) \/ TakeOver(r) \/ ReadCurrent(r)
    PROVE  TypeOK'
<1>1. IsCancel(r) \in BOOLEAN /\ fence \in Answers \cup {NoAnswer}
  BY DEF IsCancel, TypeOK
<1>2. CASE ClaimCancel(r)
  <2>1. fence' \in (Answers \ {"unsupported", "refused"}) \cup {NoAnswer}
    BY <1>2, StoreType DEF ClaimCancel
  <2>2. [proc[r] EXCEPT !.at = "cancelOwn", !.reply = "cancelled", !.keep = TRUE] \in Process
    BY StepType, ProcessType, Names
  <2>3. [proc EXCEPT ![r].at = "cancelOwn", ![r].reply = "cancelled", ![r].keep = TRUE]
          \in [Replicas -> Process]
    <3>1. [proc EXCEPT ![r].at = "cancelOwn", ![r].reply = "cancelled", ![r].keep = TRUE]
            = [proc EXCEPT ![r] = [proc[r] EXCEPT !.at = "cancelOwn", !.reply = "cancelled",
                                                  !.keep = TRUE]]
      BY StepType DEF Process
    <3>2. QED
      BY <2>2, <3>1, StepType
  <2>4. \/ proc' = [proc EXCEPT ![r].at = "cancelOwn", ![r].reply = "cancelled", ![r].keep = TRUE]
        \/ Continue(r, fence, IsCancel(r))
        \/ proc' = [proc EXCEPT ![r].at = "takeOver", ![r].copy = Waiting]
        \/ LostTo(r, fence)
        \/ Done(r)
    BY <1>2 DEF ClaimCancel
  <2>5. proc' \in [Replicas -> Process]
    <3>1. CASE Continue(r, fence, IsCancel(r)) \/ LostTo(r, fence)
      BY <1>1, <3>1, WinnerType
    <3>2. CASE proc' = [proc EXCEPT ![r].at = "takeOver", ![r].copy = Waiting]
      BY <3>2, CopyType, IdleType, Names
    <3>3. CASE Done(r)
      BY <3>3, StepType
    <3>4. QED
      BY <2>3, <2>4, <3>1, <3>2, <3>3
  <2>6. faults' \in 0..MaxFaults
    BY <1>2, StoreType DEF ClaimCancel, SwapFails, TypeOK
  <2>7. QED
    BY <1>2, <2>1, <2>5, <2>6 DEF ClaimCancel, TypeOK, Dispatching
<1>3. CASE TakeOver(r)
  <2>1. fence' \in (Answers \ {"unsupported", "refused"}) \cup {NoAnswer}
    BY <1>3, StoreType DEF TakeOver
  <2>2. \/ Continue(r, "cancelled", TRUE)
        \/ Continue(r, fence, IsCancel(r))
        \/ LostTo(r, fence)
        \/ Reply(r, "armed", TRUE)
    BY <1>3 DEF TakeOver
  <2>3. proc' \in [Replicas -> Process]
    BY <1>1, <2>2, WinnerType, ReplyType, Names
  <2>4. faults' \in 0..MaxFaults
    BY <1>3, StoreType DEF TakeOver, SwapFails, TypeOK
  <2>5. QED
    BY <1>3, <2>1, <2>3, <2>4 DEF TakeOver, TypeOK, Dispatching
<1>4. CASE ReadCurrent(r)
  <2>1. row \in Execution
    BY DEF TypeOK
  <2>2. proc' \in [Replicas -> Process]
    <3>1. CASE Reply(r, proc[r].reply, proc[r].keep)
      BY <3>1, StepType, ReplyType
    <3>2. CASE proc' = [proc EXCEPT ![r].at = "cancelOther", ![r].copy = row]
      BY <2>1, <3>2, CopyType, Names
    <3>3. QED
      BY <1>4, <3>1, <3>2 DEF ReadCurrent
  <2>3. QED
    BY <1>4, <2>2 DEF ReadCurrent, TypeOK, Dispatching
<1>5. QED
  BY <1>2, <1>3, <1>4

LEMMA RestartType ==
    ASSUME TypeOK, NEW r \in Replicas,
           proc' = [proc EXCEPT ![r] = IF proc[r].boot THEN Boot ELSE Idle]
    PROVE  proc' \in [Replicas -> Process]
BY StepType, IdleType

LEMMA SettleType ==
    ASSUME TypeOK, NEW r \in Replicas, Settle(r) \/ SettleFails(r)
    PROVE  TypeOK'
<1>1. Settled(r) \in Execution
  <2>1. \/ Settled(r) = [proc[r].copy EXCEPT !.state = "CANCELLED"]
        \/ Settled(r) = [proc[r].copy EXCEPT !.state = "TECHNICAL_FAILED"]
    BY DEF Settled
  <2>2. QED
    BY <2>1, ExecutionType, StepType
<1>2. row' \in Execution
  BY <1>1, StoreType DEF Settle, SettleFails
<1>3. CASE Settle(r)
  <2>1. proc' \in [Replicas -> Process] /\ tracks' \in [Replicas -> BOOLEAN]
    BY <1>3, StepType, ReplyType DEF Settle, TypeOK
  <2>2. QED
    BY <1>2, <1>3, <2>1 DEF Settle, TypeOK, Dispatching
<1>4. CASE SettleFails(r)
  <2>1. \/ Reply(r, "armed", TRUE)
        \/ Reply(r, proc[r].reply, FALSE)
        \/ proc' = [proc EXCEPT ![r] = IF proc[r].boot THEN Boot ELSE Idle]
    BY <1>4 DEF SettleFails
  <2>2. proc' \in [Replicas -> Process]
    BY <2>1, StepType, ReplyType, RestartType, Names
  <2>3. faults' \in 0..MaxFaults
    BY <1>4, StoreType DEF SettleFails, PutFails
  <2>4. QED
    BY <1>2, <1>4, <2>2, <2>3 DEF SettleFails, TypeOK, Dispatching
<1>5. QED
  BY <1>3, <1>4

LEMMA RefreshType ==
    ASSUME TypeOK, NEW r \in Replicas, Refresh(r, proc[r].copy)
    PROVE  proc' \in [Replicas -> Process]
<1>1. Observed(proc[r].copy) \in Execution
  BY ExecutionType, StepType DEF Observed
<1>2. QED
  BY <1>1, StepType, CopyType, Names DEF Refresh

LEMMA PollType ==
    ASSUME TypeOK, NEW r \in Replicas, ListActive(r) \/ PollFence(r) \/ PutRefreshed(r)
    PROVE  TypeOK'
<1>1. CASE ListActive(r)
  <2> DEFINE listed == [Idle EXCEPT !.at = "fence", !.copy = row, !.boot = At(r, "boot")]
  <2>1. row \in Execution /\ At(r, "boot") \in BOOLEAN
    BY DEF TypeOK, At
  <2>2. listed \in Process
    BY <2>1, IdleType, ProcessType, Names
  <2>3. Done(r) \/ proc' = [proc EXCEPT ![r] = listed]
    BY <1>1 DEF ListActive
  <2>4. proc' \in [Replicas -> Process]
    BY <2>2, <2>3, StepType
  <2>5. QED
    BY <1>1, <2>4 DEF ListActive, TypeOK, Dispatching
<1>2. CASE PollFence(r)
  <2>1. fence' \in (Answers \ {"unsupported", "refused"}) \cup {NoAnswer}
    BY <1>2, StoreType DEF PollFence
  <2>2. ASSUME NEW step \in Steps, proc' = [proc EXCEPT ![r].at = step, ![r].boot = FALSE]
        PROVE  proc' \in [Replicas -> Process]
    <3>1. [proc[r] EXCEPT !.at = step, !.boot = FALSE] \in Process
      BY StepType, ProcessType
    <3>2. proc' = [proc EXCEPT ![r] = [proc[r] EXCEPT !.at = step, !.boot = FALSE]]
      BY <2>2, StepType DEF Process
    <3>3. QED
      BY <3>1, <3>2, StepType
  <2>3. \/ Decided(r, "settlePoll", fence')
        \/ \E step \in {"fence", "put"} :
              proc' = [proc EXCEPT ![r].at = step, ![r].boot = FALSE]
        \/ Refresh(r, proc[r].copy)
    BY <1>2 DEF PollFence
  <2>4. proc' \in [Replicas -> Process]
    BY <2>1, <2>2, <2>3, StepType, RefreshType, Names
  <2>5. tracks' \in [Replicas -> BOOLEAN]
    BY <1>2 DEF PollFence, TypeOK
  <2>6. QED
    BY <1>2, <2>1, <2>4, <2>5 DEF PollFence, TypeOK, Dispatching
<1>3. CASE PutRefreshed(r)
  <2>1. row' \in Execution
    BY <1>3, StepType DEF PutRefreshed, Put
  <2>2. proc' \in [Replicas -> Process]
    BY <1>3, StepType DEF PutRefreshed
  <2>3. tracks' \in [Replicas -> BOOLEAN]
    BY <1>3 DEF PutRefreshed, TypeOK
  <2>4. QED
    BY <1>3, <2>1, <2>2, <2>3 DEF PutRefreshed, TypeOK, Dispatching
<1>4. QED
  BY <1>1, <1>2, <1>3

LEMMA FaultType ==
    ASSUME TypeOK,
           \/ \E r \in Replicas : Throw(r)
           \/ \E r \in Replicas : Crash(r) /\ (fired = 0 \/ ~ At(r, "fire"))
           \/ WeaponMoves
    PROVE  TypeOK'
<1>1. ASSUME NEW r \in Replicas, Throw(r) PROVE TypeOK'
  <2>1. proc' \in [Replicas -> Process]
    BY <1>1, RestartType DEF Throw
  <2>2. faults' \in 0..MaxFaults
    BY <1>1, StoreType DEF Throw
  <2>3. QED
    BY <1>1, <2>1, <2>2 DEF Throw, TypeOK, Dispatching
<1>2. ASSUME NEW r \in Replicas, Crash(r), fired = 0 \/ ~ At(r, "fire") PROVE TypeOK'
  <2>1. proc' \in [Replicas -> Process] /\ tracks' \in [Replicas -> BOOLEAN]
    BY <1>2, StepType, IdleType DEF Crash, TypeOK
  <2>2. fired' \in {0, 1}
    BY <1>2 DEF Crash, TypeOK
  <2>3. faults' \in 0..MaxFaults
    BY <1>2, StoreType DEF Crash
  <2>4. QED
    BY <1>2, <2>1, <2>2, <2>3 DEF Crash, TypeOK, Dispatching
<1>3. CASE WeaponMoves
  BY <1>3 DEF WeaponMoves, TypeOK
<1>4. QED
  BY <1>1, <1>2, <1>3

(***************************************************************************)
(* The invariant.  The replica that won the fence dispatches alone, how    *)
(* far it came bounds what the fence and the weapon may show, and a        *)
(* certain answer, once somebody has it, is what the fence says for good.  *)
(***************************************************************************)

Dispatcher(r) == proc[r].at \in
    {"prepare", "arm", "fire", "recordMission", "recordAccepted", "complete", "reject",
     "completeRejected", "uncertain", "abort", "abortArmed"}

\* The steps of a replica that does not dispatch.
Aside ==
    {"idle", "boot", "answer", "execution", "dispatch", "claimFire", "abortRead",
     "claimCancel", "takeOver", "current", "fence", "put", "cancelOwn", "cancelFound",
     "cancelOther", "settleAbort", "settlePoll"}

OneDispatcher ==
    /\ \A r, s \in Replicas : Dispatcher(r) /\ Dispatcher(s) => r = s
    /\ fence = NoAnswer => \A r \in Replicas : ~ Dispatcher(r)

Stage(at) ==
    /\ at \in {"prepare", "arm"} => fence \notin {"armed", "accepted", "rejected"}
    /\ at = "abort" => fence \notin {"accepted", "rejected"} /\ fired = 0
    /\ at \in {"fire", "reject", "completeRejected", "abortArmed"} => fence = "armed" /\ fired = 0
    /\ at \in {"recordMission", "recordAccepted", "complete"} => fence = "armed" /\ fired = 1
    /\ at = "uncertain" => fence \in {"armed", "accepted"}

Custody == OneDispatcher /\ \A r \in Replicas : Stage(proc[r].at)

FenceMatchesShots ==
    /\ fence \notin {"armed", "accepted"} => fired = 0
    /\ fence = "accepted" => fired = 1

FenceIsTold ==
    /\ \A r \in Replicas : proc[r].reply \in Certain => proc[r].reply = fence
    /\ \A q \in Requests : acks[q] \in Certain => acks[q] = fence
    /\ \A answer \in told : answer = fence

Inv == TypeOK /\ Custody /\ FenceMatchesShots /\ FenceIsTold

\* What a step of r makes of the processes.
Moved(r, step, answer) ==
    /\ proc'[r].at = step /\ proc'[r].reply = answer
    /\ \A s \in Replicas \ {r} : proc'[s] = proc[s]

LEMMA Movement ==
    ASSUME TypeOK, NEW r \in Replicas, NEW step, NEW answer, NEW keep, NEW c
    PROVE  /\ Goto(r, step) => Moved(r, step, proc[r].reply)
           /\ Done(r) => Moved(r, "idle", NoAnswer)
           /\ Decided(r, step, answer) => Moved(r, step, answer)
           /\ proc' = [proc EXCEPT ![r].at = step, ![r].copy = c]
                => Moved(r, step, proc[r].reply)
           /\ Reply(r, answer, keep)
                => Moved(r, "idle", NoAnswer) \/ Moved(r, "answer", answer)
           /\ Continue(r, answer, keep) => Moved(r, "current", answer)
           /\ proc' = [proc EXCEPT ![r] = IF proc[r].boot THEN Boot ELSE Idle]
                => Moved(r, "idle", NoAnswer) \/ Moved(r, "boot", NoAnswer)
<1>1. proc \in [Replicas -> Process] /\ proc[r] \in Process
  BY StepType
<1>2. DOMAIN proc[r] = {"at", "request", "copy", "reply", "keep", "boot"}
  BY <1>1 DEF Process
<1>3. Goto(r, step) => Moved(r, step, proc[r].reply)
  BY <1>1, <1>2 DEF Goto, Moved
<1>4. Done(r) => Moved(r, "idle", NoAnswer)
  BY <1>1 DEF Done, Moved, Idle
<1>5. Decided(r, step, answer) => Moved(r, step, answer)
  BY <1>1, <1>2 DEF Decided, Moved
<1>6. proc' = [proc EXCEPT ![r].at = step, ![r].copy = c] => Moved(r, step, proc[r].reply)
  BY <1>1, <1>2 DEF Moved
<1>7. Reply(r, answer, keep) => Moved(r, "idle", NoAnswer) \/ Moved(r, "answer", answer)
  BY <1>1, <1>2 DEF Reply, Moved, Idle
<1>8. Continue(r, answer, keep) => Moved(r, "current", answer)
  BY <1>1, <1>2 DEF Continue, Moved
<1>9. proc' = [proc EXCEPT ![r] = IF proc[r].boot THEN Boot ELSE Idle]
        => Moved(r, "idle", NoAnswer) \/ Moved(r, "boot", NoAnswer)
  BY <1>1 DEF Moved, Idle, Boot
<1>10. QED
  BY <1>3, <1>4, <1>5, <1>6, <1>7, <1>8, <1>9

\* A replica that does not dispatch disturbs no custody, unless it takes a fence
\* that is not armed.
LEMMA BystanderStep ==
    ASSUME Inv, NEW r \in Replicas, NEW step, NEW answer, Moved(r, step, answer),
           step \in Aside, UNCHANGED fired,
           \/ UNCHANGED fence
           \/ fence \in {NoAnswer, "unarmed"} /\ fence' \in Withheld \cup {"unarmed"}
    PROVE  Custody' /\ FenceMatchesShots'
<1>1. ~ Dispatcher(r)'
  BY DEF Moved, Dispatcher, Aside
<1>2. \A s \in Replicas \ {r} : Dispatcher(s)' = Dispatcher(s) /\ proc'[s].at = proc[s].at
  BY DEF Moved, Dispatcher
<1>3. OneDispatcher'
  BY <1>1, <1>2 DEF Inv, Custody, OneDispatcher, Withheld, NoAnswer
<1>4. FenceMatchesShots'
  BY DEF Inv, FenceMatchesShots, Withheld, NoAnswer
<1>5. ASSUME NEW s \in Replicas PROVE Stage(proc[s].at)'
  <2>1. CASE s = r
    BY <1>1, <2>1 DEF Stage, Dispatcher
  <2>2. CASE s # r /\ UNCHANGED fence
    BY <1>2, <2>2 DEF Inv, Custody, Stage
  <2>3. CASE s # r /\ fence \in {NoAnswer, "unarmed"} /\ fence' \in Withheld \cup {"unarmed"}
    BY <1>2, <2>3 DEF Inv, Custody, Stage, Withheld, NoAnswer, FenceMatchesShots
  <2>4. QED
    BY <2>1, <2>2, <2>3
<1>6. QED
  BY <1>3, <1>4, <1>5 DEF Custody

\* The one that dispatches answers for custody alone.
LEMMA DispatcherStep ==
    ASSUME Inv, NEW r \in Replicas, NEW step, NEW answer, Moved(r, step, answer),
           Dispatcher(r), fence' # NoAnswer, Stage(step)'
    PROVE  Custody'
<1>1. \A s \in Replicas \ {r} : ~ Dispatcher(s)' /\ proc'[s].at = proc[s].at
  BY DEF Moved, Dispatcher, Inv, Custody, OneDispatcher
<1>2. OneDispatcher'
  BY <1>1 DEF OneDispatcher
<1>3. ASSUME NEW s \in Replicas PROVE Stage(proc[s].at)'
  <2>1. CASE s = r
    BY <2>1 DEF Moved, Stage
  <2>2. CASE s # r
    BY <1>1, <2>2 DEF Stage, Dispatcher
  <2>3. QED
    BY <2>1, <2>2
<1>4. QED
  BY <1>2, <1>3 DEF Custody

\* Nobody is told anything else once the fence is certain.
LEMMA TellingStep ==
    ASSUME Inv, NEW r \in Replicas, NEW step, NEW answer, Moved(r, step, answer),
           fence \in Certain => fence' = fence,
           answer \in Certain => answer = proc[r].reply \/ answer = fence',
           UNCHANGED <<acks, told>>
    PROVE  FenceIsTold'
<1>1. \A s \in Replicas : proc[s].reply \in Certain => proc[s].reply = fence
  BY DEF Inv, FenceIsTold
<1>2. \A s \in Replicas : proc'[s].reply \in Certain => proc'[s].reply = fence'
  BY <1>1 DEF Moved
<1>3. \A q \in Requests : acks'[q] \in Certain => acks'[q] = fence'
  BY DEF Inv, FenceIsTold
<1>4. \A t \in told' : t = fence'
  BY DEF Inv, FenceIsTold, TypeOK
<1>5. QED
  BY <1>2, <1>3, <1>4 DEF FenceIsTold

\* A step that dispatches nothing and tells nothing new.
Innocent(r) ==
    /\ \E step \in Aside,
          answer \in {proc[r].reply, fence', NoAnswer, "unsupported", "refused", "armed"} :
              Moved(r, step, answer)
    /\ UNCHANGED <<fired, acks, told>>
    /\ \/ UNCHANGED fence
       \/ fence \in {NoAnswer, "unarmed"} /\ fence' \in Withheld \cup {"unarmed"}

LEMMA InnocentStep ==
    ASSUME Inv, NEW r \in Replicas, Innocent(r)
    PROVE  Custody' /\ FenceMatchesShots' /\ FenceIsTold'
<1>1. PICK step \in Aside,
           answer \in {proc[r].reply, fence', NoAnswer, "unsupported", "refused", "armed"} :
              Moved(r, step, answer)
  BY DEF Innocent
<1>2. Custody' /\ FenceMatchesShots'
  BY <1>1, BystanderStep DEF Innocent
<1>3. /\ fence \in Certain => fence' = fence
      /\ answer \in Certain => answer = proc[r].reply \/ answer = fence'
  BY DEF Innocent, Certain, Withheld, NoAnswer
<1>4. FenceIsTold'
  BY <1>1, <1>3, TellingStep DEF Innocent
<1>5. QED
  BY <1>2, <1>4

LEMMA QuietStep ==
    ASSUME TypeOK, NEW r \in Replicas,
           \/ \E q \in Requests : Take(r, q)
           \/ ReadExecution(r) \/ ReadDispatch(r) \/ AbortRead(r) \/ ReadCurrent(r)
           \/ Settle(r) \/ SettleFails(r) \/ ListActive(r) \/ PutRefreshed(r) \/ Throw(r)
    PROVE  Innocent(r)
<1>1. ASSUME NEW q \in Requests, Take(r, q) PROVE Innocent(r)
  <2>1. Moved(r, "execution", proc[r].reply)
    BY <1>1, StepType DEF Take, Moved, Process
  <2>2. QED
    BY <1>1, <2>1 DEF Take, Innocent, External, Aside
<1>2. CASE ReadExecution(r)
  <2>1. CASE Reply(r, "unsupported", TRUE)
    BY <1>2, <2>1, Movement DEF ReadExecution, Innocent, External, Aside
  <2>2. CASE proc' = [proc EXCEPT ![r].copy = row,
                ![r].at = IF IsCancel(r) THEN "claimCancel" ELSE "dispatch"]
    <3>1. \E step \in {"claimCancel", "dispatch"} : Moved(r, step, proc[r].reply)
      BY <2>2, StepType DEF Moved, Process
    <3>2. QED
      BY <1>2, <3>1 DEF ReadExecution, Innocent, External, Aside
  <2>3. QED
    BY <1>2, <2>1, <2>2 DEF ReadExecution
<1>3. CASE ReadDispatch(r)
  <2>1. \/ Decided(r, "cancelFound", fence)
        \/ Reply(r, fence, FALSE)
        \/ Reply(r, "refused", TRUE)
        \/ Goto(r, "claimCancel")
        \/ Goto(r, "claimFire")
    BY <1>3 DEF ReadDispatch
  <2>2. \E step \in Aside, answer \in {proc[r].reply, fence, NoAnswer, "refused"} :
            Moved(r, step, answer)
    BY <2>1, Movement DEF Aside
  <2>3. QED
    BY <1>3, <2>2 DEF ReadDispatch, Innocent, External
<1>4. CASE AbortRead(r)
  <2>1. \/ \E c : proc' = [proc EXCEPT ![r].at = "settleAbort", ![r].copy = c]
        \/ Reply(r, proc[r].reply, FALSE)
    BY <1>4 DEF AbortRead
  <2>2. \E step \in Aside, answer \in {proc[r].reply, NoAnswer} : Moved(r, step, answer)
    BY <2>1, Movement DEF Aside
  <2>3. QED
    BY <1>4, <2>2 DEF AbortRead, Innocent, Dispatching
<1>5. CASE ReadCurrent(r)
  <2>1. \/ Reply(r, proc[r].reply, proc[r].keep)
        \/ proc' = [proc EXCEPT ![r].at = "cancelOther", ![r].copy = row]
    BY <1>5 DEF ReadCurrent
  <2>2. \E step \in Aside, answer \in {proc[r].reply, NoAnswer} : Moved(r, step, answer)
    BY <2>1, Movement DEF Aside
  <2>3. QED
    BY <1>5, <2>2 DEF ReadCurrent, Innocent, Dispatching
<1>6. CASE Settle(r)
  <2>1. \E step \in Aside, answer \in {proc[r].reply, NoAnswer} : Moved(r, step, answer)
    BY <1>6, Movement DEF Settle, Aside
  <2>2. QED
    BY <1>6, <2>1 DEF Settle, Innocent, Dispatching
<1>7. CASE SettleFails(r)
  <2>1. \/ Reply(r, "armed", TRUE)
        \/ Reply(r, proc[r].reply, FALSE)
        \/ proc' = [proc EXCEPT ![r] = IF proc[r].boot THEN Boot ELSE Idle]
    BY <1>7 DEF SettleFails
  <2>2. \E step \in Aside, answer \in {proc[r].reply, NoAnswer, "armed"} :
            Moved(r, step, answer)
    BY <2>1, Movement DEF Aside
  <2>3. QED
    BY <1>7, <2>2 DEF SettleFails, Innocent, Dispatching
<1>8. CASE ListActive(r)
  <2>1. \/ Done(r)
        \/ proc' = [proc EXCEPT ![r] = [Idle EXCEPT !.at = "fence", !.copy = row,
                                                    !.boot = At(r, "boot")]]
    BY <1>8 DEF ListActive
  <2>2. Moved(r, "idle", NoAnswer) \/ Moved(r, "fence", NoAnswer)
    <3>1. CASE Done(r)
      BY <3>1, Movement
    <3>2. CASE proc' = [proc EXCEPT ![r] = [Idle EXCEPT !.at = "fence", !.copy = row,
                                                        !.boot = At(r, "boot")]]
      BY <3>2, StepType DEF Moved, Idle
    <3>3. QED
      BY <2>1, <3>1, <3>2
  <2>3. QED
    BY <1>8, <2>2 DEF ListActive, Innocent, Dispatching, Aside
<1>9. CASE PutRefreshed(r)
  BY <1>9, Movement DEF PutRefreshed, Innocent, Dispatching, Aside
<1>10. CASE Throw(r)
  BY <1>10, Movement DEF Throw, Innocent, Dispatching, Aside
<1>11. QED
  BY <1>1, <1>2, <1>3, <1>4, <1>5, <1>6, <1>7, <1>8, <1>9, <1>10

\* A cancel or a poll takes a fence that is not armed.
LEMMA WithholdingStep ==
    ASSUME TypeOK, NEW r \in Replicas, ClaimCancel(r) \/ TakeOver(r) \/ PollFence(r)
    PROVE  Innocent(r)
<1>1. UNCHANGED <<fired, acks, told>>
  BY DEF ClaimCancel, TakeOver, PollFence, Dispatching
<1>2. \/ UNCHANGED fence
      \/ fence \in {NoAnswer, "unarmed"} /\ fence' \in Withheld \cup {"unarmed"}
  BY DEF ClaimCancel, TakeOver, PollFence, Swap, SwapFails, Withheld
<1>3. ASSUME NEW answer, LostTo(r, answer)
      PROVE  \E step \in Aside, a \in {answer, NoAnswer, "unsupported"} : Moved(r, step, a)
  BY <1>3, Movement DEF LostTo, Aside
<1>4. CASE ClaimCancel(r)
  <2>1. CASE SwapFails(NoAnswer, "cancelled") /\ Done(r)
    BY <1>1, <1>2, <2>1, Movement DEF Innocent, Aside
  <2>2. CASE /\ Swap(NoAnswer, "cancelled") /\ fence = NoAnswer
             /\ ~ (SwapFails(NoAnswer, "cancelled") /\ Done(r))
    <3>1. proc' = [proc EXCEPT ![r].at = "cancelOwn",
                               ![r].reply = "cancelled", ![r].keep = TRUE]
      BY <1>4, <2>2 DEF ClaimCancel, NoAnswer
    <3>2. Moved(r, "cancelOwn", fence')
      BY <2>2, <3>1, StepType DEF Moved, Process, Swap
    <3>3. QED
      BY <1>1, <1>2, <3>2 DEF Innocent, Aside
  <2>3. CASE Swap(NoAnswer, "cancelled") /\ fence # NoAnswer
    <3>1. fence' = fence
      BY <2>3 DEF Swap
    <3>2. \/ Continue(r, fence, IsCancel(r))
          \/ proc' = [proc EXCEPT ![r].at = "takeOver", ![r].copy = Waiting]
          \/ LostTo(r, fence)
          \/ Done(r)
      BY <1>4, <2>3 DEF ClaimCancel
    <3>3. QED
      BY <1>1, <1>2, <1>3, <3>1, <3>2, Movement DEF Innocent, Aside
  <2>4. QED
    BY <1>4, <2>1, <2>2, <2>3 DEF ClaimCancel
<1>5. CASE TakeOver(r)
  <2>1. \/ Continue(r, fence', TRUE)
        \/ Continue(r, fence', IsCancel(r))
        \/ LostTo(r, fence')
        \/ Reply(r, "armed", TRUE)
    BY <1>5 DEF TakeOver, Swap
  <2>2. \E step \in Aside, answer \in {fence', NoAnswer, "unsupported", "armed"} :
            Moved(r, step, answer)
    <3>1. CASE LostTo(r, fence')
      BY <1>3, <3>1
    <3>2. CASE Continue(r, fence', TRUE) \/ Continue(r, fence', IsCancel(r))
      BY <3>2, Movement DEF Aside
    <3>3. CASE Reply(r, "armed", TRUE)
      BY <3>3, Movement DEF Aside
    <3>4. QED
      BY <2>1, <3>1, <3>2, <3>3
  <2>3. QED
    BY <1>1, <1>2, <2>2 DEF Innocent
<1>6. CASE PollFence(r)
  <2>1. CASE Decided(r, "settlePoll", fence')
    BY <1>1, <1>2, <2>1, Movement DEF Innocent, Aside
  <2>2. CASE \E step \in {"fence", "put"} :
                proc' = [proc EXCEPT ![r].at = step, ![r].boot = FALSE]
    <3>1. \E step \in {"fence", "put"} : Moved(r, step, proc[r].reply)
      BY <2>2, StepType DEF Moved, Process
    <3>2. QED
      BY <1>1, <1>2, <3>1 DEF Innocent, Aside
  <2>3. CASE Refresh(r, proc[r].copy)
    <3>1. \/ \E c : proc' = [proc EXCEPT ![r].at = "put", ![r].copy = c]
          \/ Done(r)
      BY <2>3 DEF Refresh
    <3>2. QED
      BY <1>1, <1>2, <3>1, Movement DEF Innocent, Aside
  <2>4. QED
    BY <1>6, <2>1, <2>2, <2>3 DEF PollFence
<1>7. QED
  BY <1>4, <1>5, <1>6

\* A decided fence stays and a shot is not taken back.
Forward == (fence \in Certain => fence' = fence) /\ fired' \in {fired, fired + 1}

LEMMA ClaimFireStep ==
    ASSUME Inv, NEW r \in Replicas, ClaimFire(r)
    PROVE  Custody' /\ FenceMatchesShots' /\ FenceIsTold' /\ Forward
<1>1. UNCHANGED <<fired, acks, told>>
  BY DEF ClaimFire, Dispatching
<1>2. CASE fence = NoAnswer /\ fence' = "unarmed" /\ Goto(r, "prepare")
  <2>1. Moved(r, "prepare", proc[r].reply)
    BY <1>2, Movement DEF Inv
  <2>2. \A s \in Replicas \ {r} : ~ Dispatcher(s)' /\ proc'[s].at = proc[s].at
    BY <1>2, <2>1 DEF Inv, Custody, OneDispatcher, Dispatcher, Moved
  <2>3. OneDispatcher'
    BY <1>2, <2>2 DEF OneDispatcher, NoAnswer
  <2>4. ASSUME NEW s \in Replicas PROVE Stage(proc[s].at)'
    <3>1. CASE s = r
      BY <1>2, <2>1, <3>1 DEF Moved, Stage
    <3>2. CASE s # r
      BY <2>2, <3>2 DEF Stage, Dispatcher
    <3>3. QED
      BY <3>1, <3>2
  <2>5. FenceMatchesShots'
    BY <1>1, <1>2 DEF Inv, FenceMatchesShots, NoAnswer
  <2>6. fence \notin Certain
    BY <1>2 DEF Certain, Withheld, NoAnswer
  <2>7. FenceIsTold'
    BY <1>1, <2>1, <2>6, TellingStep
  <2>8. QED
    BY <1>1, <2>3, <2>4, <2>5, <2>6, <2>7 DEF Custody, Forward
<1>3. CASE Reply(r, fence, FALSE) /\ UNCHANGED fence
  <2>1. Moved(r, "idle", NoAnswer) \/ Moved(r, "answer", fence')
    BY <1>3, Movement DEF Inv
  <2>2. Innocent(r)
    BY <1>1, <1>3, <2>1 DEF Innocent, Aside
  <2>3. QED
    BY <1>1, <1>3, <2>2, InnocentStep DEF Forward
<1>4. CASE SwapFails(NoAnswer, "unarmed") /\ Done(r)
  <2>1. Moved(r, "idle", NoAnswer)
    BY <1>4, Movement DEF Inv
  <2>2. \/ UNCHANGED fence
        \/ fence = NoAnswer /\ fence' = "unarmed"
    BY <1>4 DEF SwapFails, Swap
  <2>3. Innocent(r)
    BY <1>1, <2>1, <2>2 DEF Innocent, Aside
  <2>4. QED
    BY <1>1, <2>2, <2>3, InnocentStep DEF Forward, NoAnswer, Certain, Withheld
<1>5. QED
  BY <1>2, <1>3, <1>4 DEF ClaimFire

\* From here on the fence was won.
LEMMA Dispatched ==
    ASSUME Inv, NEW r \in Replicas, NEW step, NEW answer, Moved(r, step, answer),
           Dispatcher(r), fence' # NoAnswer, Stage(step)', FenceMatchesShots', Forward,
           answer \in Certain => answer = proc[r].reply \/ answer = fence',
           UNCHANGED <<acks, told>>
    PROVE  Custody' /\ FenceMatchesShots' /\ FenceIsTold' /\ Forward
BY DispatcherStep, TellingStep DEF Forward

LEMMA IntentStep ==
    ASSUME Inv, NEW r \in Replicas, Prepare(r) \/ Arm(r)
    PROVE  Custody' /\ FenceMatchesShots' /\ FenceIsTold' /\ Forward
<1>1. UNCHANGED <<fired, acks, told>> /\ fired = 0
  BY DEF Prepare, Arm, Dispatching, At, Inv, Custody, Stage, FenceMatchesShots
<1>2. /\ Dispatcher(r) /\ fence # NoAnswer
      /\ fence \notin {"armed", "accepted", "rejected"}
  BY DEF Prepare, Arm, At, Dispatcher, Inv, Custody, OneDispatcher, Stage
<1>3. CASE Prepare(r)
  <2>1. UNCHANGED fence
    BY <1>3 DEF Prepare
  <2>2. Moved(r, "arm", proc[r].reply) \/ Moved(r, "abort", proc[r].reply)
    BY <1>3, Movement DEF Prepare, Inv
  <2>3. FenceMatchesShots' /\ Forward /\ fence' # NoAnswer
    BY <1>1, <1>2, <2>1 DEF FenceMatchesShots, Forward, Inv
  <2>4. Stage("arm")' /\ Stage("abort")'
    BY <1>1, <1>2, <2>1 DEF Stage
  <2>5. QED
    BY <1>1, <1>2, <2>2, <2>3, <2>4, Dispatched
<1>4. CASE Arm(r)
  <2>1. \/ fence = "unarmed" /\ fence' = "armed"
        \/ UNCHANGED fence
    BY <1>4 DEF Arm, Swap, SwapFails
  <2>2. FenceMatchesShots' /\ Forward /\ fence' # NoAnswer
    BY <1>1, <1>2, <2>1 DEF FenceMatchesShots, Forward, Certain, Withheld, NoAnswer
  <2>3. CASE fence = "unarmed" /\ fence' = "armed" /\ Goto(r, "fire")
    <3>1. Moved(r, "fire", proc[r].reply) /\ Stage("fire")'
      BY <1>1, <2>3, Movement DEF Stage, Inv
    <3>2. QED
      BY <1>1, <1>2, <2>2, <3>1, Dispatched
  <2>4. CASE Goto(r, "abort")
    <3>1. Moved(r, "abort", proc[r].reply) /\ Stage("abort")'
      BY <1>1, <1>2, <2>1, <2>4, Movement DEF Stage, Inv
    <3>2. QED
      BY <1>1, <1>2, <2>2, <3>1, Dispatched
  <2>5. QED
    BY <1>4, <2>3, <2>4 DEF Arm, Swap
<1>5. QED
  BY <1>3, <1>4

LEMMA FireStep ==
    ASSUME Inv, NEW r \in Replicas, Fire(r)
    PROVE  Custody' /\ FenceMatchesShots' /\ FenceIsTold' /\ Forward
<1>1. UNCHANGED <<fence, acks, told>>
  BY DEF Fire, Dispatching
<1>2. Dispatcher(r) /\ fence = "armed" /\ fired = 0
  BY DEF Fire, At, Dispatcher, Inv, Custody, Stage
<1>3. \/ fired' = 1 /\ Moved(r, "recordMission", proc[r].reply)
      \/ fired' = 0 /\ Moved(r, "reject", proc[r].reply)
      \/ fired' \in {0, 1} /\ Moved(r, "uncertain", proc[r].reply)
  <2>1. \/ fired' = 1 /\ Goto(r, "recordMission")
        \/ fired' = 0 /\ Goto(r, "reject")
        \/ fired' \in {0, 1} /\ Goto(r, "uncertain")
    BY <1>2 DEF Fire
  <2>2. QED
    BY <2>1, Movement DEF Inv
<1>4. FenceMatchesShots' /\ Forward /\ fence' # NoAnswer
  BY <1>1, <1>2, <1>3 DEF FenceMatchesShots, Forward, NoAnswer
<1>5. \E step : Moved(r, step, proc[r].reply) /\ Stage(step)'
  BY <1>1, <1>2, <1>3 DEF Stage
<1>6. QED
  BY <1>1, <1>2, <1>4, <1>5, Dispatched

LEMMA AcceptedStep ==
    ASSUME Inv, NEW r \in Replicas,
           RecordMission(r) \/ RecordAccepted(r) \/ Complete(r) \/ RecordUncertain(r)
    PROVE  Custody' /\ FenceMatchesShots' /\ FenceIsTold' /\ Forward
<1>1. UNCHANGED <<fired, acks, told>>
  BY DEF RecordMission, RecordAccepted, Complete, RecordUncertain, Dispatching
<1>2. CASE RecordMission(r) \/ RecordAccepted(r)
  <2>1. UNCHANGED fence /\ fence = "armed" /\ fired = 1 /\ Dispatcher(r)
    BY <1>2 DEF RecordMission, RecordAccepted, At, Dispatcher, Inv, Custody, Stage
  <2>2. \E step \in {"recordAccepted", "complete", "uncertain"} :
            Moved(r, step, proc[r].reply)
    BY <1>2, Movement DEF RecordMission, RecordAccepted, Inv
  <2>3. \A step \in {"recordAccepted", "complete", "uncertain"} : Stage(step)'
    BY <1>1, <2>1 DEF Stage
  <2>4. FenceMatchesShots' /\ Forward /\ fence' # NoAnswer
    BY <1>1, <2>1 DEF FenceMatchesShots, Forward, NoAnswer, Inv, TypeOK
  <2>5. QED
    BY <1>1, <2>1, <2>2, <2>3, <2>4, Dispatched
<1>3. CASE Complete(r)
  <2>1. fence = "armed" /\ fired = 1 /\ Dispatcher(r)
    BY <1>3 DEF Complete, At, Dispatcher, Inv, Custody, Stage
  <2>2. fence' \in {"armed", "accepted"}
    BY <1>3, <2>1 DEF Complete, Swap, SwapFails
  <2>3. FenceMatchesShots' /\ Forward /\ fence' # NoAnswer
    BY <1>1, <2>1, <2>2 DEF FenceMatchesShots, Forward, NoAnswer, Certain, Withheld
  <2>4. \/ Moved(r, "idle", NoAnswer)
        \/ Moved(r, "answer", fence')
        \/ Moved(r, "uncertain", proc[r].reply)
    BY <1>3, Movement DEF Complete, Inv
  <2>5. Stage("idle")' /\ Stage("answer")' /\ Stage("uncertain")'
    BY <2>2 DEF Stage
  <2>6. NoAnswer \notin Certain
    BY DEF NoAnswer, Certain, Withheld
  <2>7. QED
    BY <1>1, <2>1, <2>3, <2>4, <2>5, <2>6, Dispatched
<1>4. CASE RecordUncertain(r)
  <2>1. UNCHANGED fence /\ Moved(r, "idle", NoAnswer)
    BY <1>4, Movement DEF RecordUncertain, Inv
  <2>2. Innocent(r)
    BY <1>1, <2>1 DEF Innocent, Aside
  <2>3. QED
    BY <1>1, <2>1, <2>2, InnocentStep DEF Forward
<1>5. QED
  BY <1>2, <1>3, <1>4

LEMMA RejectedStep ==
    ASSUME Inv, NEW r \in Replicas, Reject(r) \/ CompleteRejected(r)
    PROVE  Custody' /\ FenceMatchesShots' /\ FenceIsTold' /\ Forward
<1>1. UNCHANGED <<fired, acks, told>>
  BY DEF Reject, CompleteRejected, Dispatching
<1>2. fence = "armed" /\ fired = 0 /\ Dispatcher(r)
  BY DEF Reject, CompleteRejected, At, Dispatcher, Inv, Custody, Stage
<1>3. fence' \in {"armed", "rejected"} /\ (Reject(r) => UNCHANGED fence)
  BY <1>2 DEF Reject, CompleteRejected, Swap, SwapFails
<1>4. FenceMatchesShots' /\ Forward /\ fence' # NoAnswer
  BY <1>1, <1>2, <1>3 DEF FenceMatchesShots, Forward, NoAnswer, Certain, Withheld
<1>5. \/ Reject(r) /\ Moved(r, "completeRejected", proc[r].reply)
      \/ Moved(r, "idle", NoAnswer)
      \/ Moved(r, "answer", fence')
  BY Movement DEF Reject, CompleteRejected, Inv
<1>6. Stage("idle")' /\ Stage("answer")' /\ (Reject(r) => Stage("completeRejected")')
  BY <1>1, <1>2, <1>3 DEF Stage
<1>7. NoAnswer \notin Certain
  BY DEF NoAnswer, Certain, Withheld
<1>8. QED
  BY <1>1, <1>2, <1>4, <1>5, <1>6, <1>7, Dispatched

LEMMA AbortStep ==
    ASSUME Inv, NEW r \in Replicas, Abort(r) \/ AbortArmed(r)
    PROVE  Custody' /\ FenceMatchesShots' /\ FenceIsTold' /\ Forward
<1>1. UNCHANGED <<fired, acks, told>>
  BY DEF Abort, AbortArmed, Dispatching
<1>2. fence # NoAnswer /\ fired = 0 /\ Dispatcher(r)
  BY DEF Abort, AbortArmed, At, Dispatcher, Inv, Custody, OneDispatcher, Stage
<1>3. UNCHANGED fence \/ (fence \in {"unarmed", "armed"} /\ fence' = "aborted")
  BY DEF Abort, AbortArmed, Swap, SwapFails
<1>4. FenceMatchesShots' /\ Forward /\ fence' # NoAnswer
  BY <1>1, <1>2, <1>3
     DEF FenceMatchesShots, Forward, NoAnswer, Certain, Withheld, Inv
<1>5. \/ Moved(r, "abortRead", fence')
      \/ Moved(r, "abortRead", NoAnswer)
      \/ fence = "armed" /\ fence' = fence /\ Moved(r, "abortArmed", fence')
  <2>1. \/ Decided(r, "abortRead", fence')
        \/ Decided(r, "abortRead", NoAnswer)
        \/ fence = "armed" /\ fence' = fence /\ Decided(r, "abortArmed", fence')
    BY DEF Abort, AbortArmed, Swap
  <2>2. QED
    BY <2>1, Movement DEF Inv
<1>6. Stage("abortRead")' /\ (fence = "armed" /\ fence' = fence => Stage("abortArmed")')
  BY <1>1, <1>2 DEF Stage
<1>7. NoAnswer \notin Certain
  BY DEF NoAnswer, Certain, Withheld
<1>8. QED
  BY <1>1, <1>2, <1>4, <1>5, <1>6, <1>7, Dispatched

\* A caller is told what the fence says.
LEMMA ToldStep ==
    ASSUME Inv, NEW r \in Replicas, Answer(r) \/ \E q \in Requests : Replay(r, q)
    PROVE  /\ Custody' /\ FenceMatchesShots' /\ FenceIsTold' /\ Forward
           /\ UNCHANGED <<fence, fired>>
           /\ told' = told \/ (fence \in Certain /\ told' = told \cup {fence})
<1>1. UNCHANGED <<fence, fired>> /\ Forward
  BY DEF Answer, Replay, External, Forward, Inv, TypeOK
<1>2. CASE Answer(r)
  <2>1. Moved(r, "idle", NoAnswer)
    BY <1>2, Movement DEF Answer, Inv
  <2>2. Custody' /\ FenceMatchesShots'
    BY <1>1, <2>1, BystanderStep DEF Aside
  <2>3. proc[r].reply \in Certain => proc[r].reply = fence
    BY DEF Inv, FenceIsTold
  <2>4. told' = told \/ (fence \in Certain /\ told' = told \cup {fence})
    BY <1>2, <2>3 DEF Answer
  <2>5. \A s \in Replicas : proc'[s].reply \in Certain => proc'[s].reply = fence'
    BY <1>1, <2>1 DEF Moved, Inv, FenceIsTold, NoAnswer, Certain, Withheld
  <2>6. \A q \in Requests : acks'[q] \in Certain => acks'[q] = fence'
    BY <1>1, <1>2, <2>3 DEF Answer, Inv, FenceIsTold, TypeOK
  <2>7. QED
    BY <1>1, <2>2, <2>4, <2>5, <2>6 DEF FenceIsTold, Inv
<1>3. ASSUME NEW q \in Requests, Replay(r, q)
      PROVE  /\ Custody' /\ FenceMatchesShots' /\ FenceIsTold'
             /\ told' = told \/ (fence \in Certain /\ told' = told \cup {fence})
  <2>1. UNCHANGED <<proc, acks>>
    BY <1>3 DEF Replay
  <2>2. told' = told \/ (fence \in Certain /\ told' = told \cup {fence})
    BY <1>3 DEF Replay, Inv, FenceIsTold
  <2>3. Custody' /\ FenceMatchesShots'
    BY <1>1, <2>1
       DEF Inv, Custody, OneDispatcher, Dispatcher, Stage, FenceMatchesShots
  <2>4. FenceIsTold'
    BY <1>1, <2>1, <2>2 DEF Inv, FenceIsTold
  <2>5. QED
    BY <2>2, <2>3, <2>4
<1>4. QED
  BY <1>1, <1>2, <1>3

\* The weapon may fire although the process that called it died.
LEMMA CrashStep ==
    ASSUME Inv, NEW r \in Replicas, Crash(r)
    PROVE  Custody' /\ FenceMatchesShots' /\ FenceIsTold' /\ Forward
<1>1. UNCHANGED <<fence, acks, told>>
  BY DEF Crash, Dispatching
<1>2. Moved(r, "boot", NoAnswer)
  BY DEF Crash, Inv, TypeOK, Moved, Boot, Idle
<1>3. FenceIsTold'
  BY <1>1, <1>2, TellingStep DEF NoAnswer, Certain, Withheld
<1>4. CASE UNCHANGED fired
  <2>1. Innocent(r)
    BY <1>1, <1>2, <1>4 DEF Innocent, Aside
  <2>2. QED
    BY <1>1, <1>4, <2>1, InnocentStep DEF Forward
<1>5. CASE At(r, "fire") /\ fired' = fired + 1
  <2>1. Dispatcher(r) /\ fence = "armed" /\ fired = 0
    BY <1>5 DEF At, Dispatcher, Inv, Custody, Stage
  <2>2. FenceMatchesShots' /\ Forward /\ fence' # NoAnswer
    BY <1>1, <1>5, <2>1 DEF FenceMatchesShots, Forward, NoAnswer
  <2>3. Stage("boot")' /\ NoAnswer \notin Certain
    BY DEF Stage, NoAnswer, Certain, Withheld
  <2>4. QED
    BY <1>1, <1>2, <2>1, <2>2, <2>3, Dispatched
<1>6. QED
  BY <1>4, <1>5 DEF Crash

(***************************************************************************)
(* The theorems.                                                           *)
(***************************************************************************)

LEMMA InvInit == Init => Inv
<1> SUFFICES ASSUME Init PROVE Inv
  OBVIOUS
<1>1. TypeOK
  BY IdleType, FireAssumption DEF Init, TypeOK
<1>2. Custody
  BY DEF Init, Custody, OneDispatcher, Dispatcher, Stage, Idle
<1>3. FenceMatchesShots /\ FenceIsTold
  BY DEF Init, FenceMatchesShots, FenceIsTold, Idle, NoAnswer, Certain, Withheld
<1>4. QED
  BY <1>1, <1>2, <1>3 DEF Inv

\* Every step keeps the invariant, and moves the decision forward or tells it.
LEMMA InvStep ==
    ASSUME Inv, [Next]_vars
    PROVE  /\ Inv' /\ Forward
           /\ \/ told' = told
              \/ UNCHANGED <<fence, fired>> /\ fence \in Certain /\ told' = told \cup {fence}
<1>1. fired \in {0, 1} /\ TypeOK
  BY DEF Inv, TypeOK
<1>2. \A r \in Replicas : At(r, "fire") => fired = 0
  BY DEF At, Inv, Custody, Stage
<1>3. ASSUME NEW r \in Replicas, NEW q \in Requests, Replay(r, q) \/ Take(r, q)
      PROVE  /\ Inv' /\ Forward
             /\ \/ told' = told
                \/ UNCHANGED <<fence, fired>> /\ fence \in Certain /\ told' = told \cup {fence}
  <2>1. TypeOK'
    BY <1>1, <1>3, RequestsType
  <2>2. CASE Replay(r, q)
    BY <2>1, <2>2, ToldStep DEF Inv
  <2>3. CASE Take(r, q)
    <3>1. UNCHANGED <<fence, fired, told>>
      BY <2>3 DEF Take, External
    <3>2. Custody' /\ FenceMatchesShots' /\ FenceIsTold'
      BY <1>1, <2>3, QuietStep, InnocentStep
    <3>3. QED
      BY <1>1, <2>1, <3>1, <3>2 DEF Inv, Forward
  <2>4. QED
    BY <1>3, <2>2, <2>3
<1>4. ASSUME NEW r \in Replicas,
             \/ ReadExecution(r) \/ ReadDispatch(r) \/ AbortRead(r) \/ ReadCurrent(r)
             \/ Settle(r) \/ SettleFails(r) \/ ListActive(r) \/ PutRefreshed(r) \/ Throw(r)
      PROVE  Inv' /\ Forward /\ told' = told
  <2>1. TypeOK'
    BY <1>1, <1>4, RequestsType, AbortType, CancelType, SettleType, PollType, FaultType
  <2>2. UNCHANGED <<fence, fired, told>>
    BY <1>4 DEF ReadExecution, ReadDispatch, AbortRead, ReadCurrent, Settle, SettleFails,
                ListActive, PutRefreshed, Throw, External, Dispatching
  <2>3. Custody' /\ FenceMatchesShots' /\ FenceIsTold'
    BY <1>1, <1>4, QuietStep, InnocentStep
  <2>4. QED
    BY <1>1, <2>1, <2>2, <2>3 DEF Inv, Forward
<1>5. ASSUME NEW r \in Replicas, ClaimCancel(r) \/ TakeOver(r) \/ PollFence(r)
      PROVE  Inv' /\ Forward /\ told' = told
  <2>1. TypeOK'
    BY <1>1, <1>5, CancelType, PollType
  <2>2. Innocent(r)
    BY <1>1, <1>5, WithholdingStep
  <2>3. Forward /\ told' = told
    BY <1>1, <2>2 DEF Innocent, Forward, NoAnswer, Certain, Withheld
  <2>4. QED
    BY <2>1, <2>2, <2>3, InnocentStep DEF Inv
<1>6. ASSUME NEW r \in Replicas,
             \/ ClaimFire(r) \/ Prepare(r) \/ Arm(r) \/ Fire(r) \/ RecordMission(r)
             \/ RecordAccepted(r) \/ Complete(r) \/ Reject(r) \/ CompleteRejected(r)
             \/ RecordUncertain(r) \/ Abort(r) \/ AbortArmed(r)
      PROVE  Inv' /\ Forward /\ told' = told
  <2>1. TypeOK'
    BY <1>1, <1>2, <1>6, DispatchType, AbortType
  <2>2. told' = told
    BY <1>6 DEF ClaimFire, Prepare, Arm, Fire, RecordMission, RecordAccepted, Complete,
                Reject, CompleteRejected, RecordUncertain, Abort, AbortArmed, Dispatching
  <2>3. QED
    BY <1>6, <2>1, <2>2, ClaimFireStep, IntentStep, FireStep, AcceptedStep, RejectedStep,
       AbortStep DEF Inv
<1>7. ASSUME NEW r \in Replicas, Answer(r)
      PROVE  /\ Inv' /\ Forward
             /\ \/ told' = told
                \/ UNCHANGED <<fence, fired>> /\ fence \in Certain /\ told' = told \cup {fence}
  BY <1>1, <1>7, RequestsType, ToldStep DEF Inv
<1>8. ASSUME NEW r \in Replicas, Crash(r) PROVE Inv' /\ Forward /\ told' = told
  <2>1. TypeOK'
    BY <1>1, <1>2, <1>8, FaultType
  <2>2. told' = told
    BY <1>8 DEF Crash, Dispatching
  <2>3. QED
    BY <1>8, <2>1, <2>2, CrashStep DEF Inv
<1>9. CASE WeaponMoves \/ UNCHANGED vars
  <2>1. UNCHANGED <<kind, row, fence, acks, tracks, proc, fired, told, faults>>
    BY <1>9 DEF WeaponMoves, vars
  <2>2. TypeOK'
    BY <1>1, <1>9, <2>1, FaultType DEF TypeOK, vars
  <2>3. Custody' /\ FenceMatchesShots' /\ FenceIsTold'
    BY <2>1 DEF Inv, Custody, OneDispatcher, Dispatcher, Stage, FenceMatchesShots,
                FenceIsTold
  <2>4. QED
    BY <1>1, <2>1, <2>2, <2>3 DEF Inv, Forward
<1>10. CASE Next
  BY <1>3, <1>4, <1>5, <1>6, <1>7, <1>8, <1>9, <1>10 DEF Next, Work
<1>11. QED
  BY <1>9, <1>10

\* Whatever replicas confirm, decline, cancel, poll, crash or lose, the state is
\* well typed; that the weapon has fired at most once is part of it
\* (#updateFire calls the device only behind an armed fence).
THEOREM FireTypeCorrect == Spec => []TypeOK
<1>1. Inv /\ [Next]_vars => Inv'
  BY InvStep
<1>2. Inv => TypeOK
  BY DEF Inv
<1>3. QED
  BY InvInit, <1>1, <1>2, PTL DEF Spec

\* At every moment one replica at most is between its claim of the fence and the
\* record of its outcome, and a certain answer that a caller, an ack or a
\* handler holds is what the fence says (claimCommandAck, completeCommandAck).
THEOREM FireCustody == Spec => [](Custody /\ FenceMatchesShots /\ FenceIsTold)
<1>1. Inv /\ [Next]_vars => Inv'
  BY InvStep
<1>2. Inv => Custody /\ FenceMatchesShots /\ FenceIsTold
  BY DEF Inv
<1>3. QED
  BY InvInit, <1>1, <1>2, PTL DEF Spec

LEMMA PromisedStep ==
    ASSUME Inv, [Next]_vars
    PROVE  [Promised!Next]_<<Phase, told>>
<1>1. Inv' /\ Forward
  BY InvStep
<1>2. /\ fired \in {0, 1} /\ fired' \in {0, 1}
      /\ FenceMatchesShots /\ FenceMatchesShots'
  BY <1>1 DEF Inv, TypeOK
<1>3. Certain = Withheld \cup {"accepted", "rejected"}
  BY DEF Certain
<1>4. CASE told' = told
  <2>1. CASE fired = 1
    <3>1. fired' = 1
      BY <1>1, <1>2, <2>1 DEF Forward
    <3>2. Phase = "fired" /\ Phase' = "fired"
      BY <1>2, <2>1, <3>1 DEF Phase, FenceMatchesShots, Withheld
    <3>3. QED
      BY <1>4, <3>2
  <2>2. CASE fired = 0 /\ fence \in Withheld \cup {"rejected"}
    <3>1. fence' = fence
      BY <1>1, <1>3, <2>2 DEF Forward
    <3>2. fired' = 0
      BY <1>2, <2>2, <3>1 DEF FenceMatchesShots, Withheld
    <3>3. Phase = "withheld" /\ Phase' = "withheld"
      BY <2>2, <3>1, <3>2 DEF Phase
    <3>4. QED
      BY <1>4, <3>3
  <2>3. CASE fired = 0 /\ fence \notin Withheld \cup {"rejected"}
    <3>1. Phase = "open"
      BY <2>3 DEF Phase
    <3>2. Phase' \in {"open", "withheld", "fired"}
      BY <1>2 DEF Phase, FenceMatchesShots, Withheld
    <3>3. QED
      BY <1>4, <3>1, <3>2 DEF Promised!Next, Promised!Fire, Promised!Withhold
  <2>4. QED
    BY <1>2, <2>1, <2>2, <2>3
<1>5. CASE UNCHANGED <<fence, fired>> /\ fence \in Certain /\ told' = told \cup {fence}
  <2>1. Phase' = Phase
    BY <1>5 DEF Phase
  <2>2. fence \in Promised!Truths
    BY <1>2, <1>5 DEF Promised!Truths, Phase, FenceMatchesShots, Certain, Withheld
  <2>3. fence \in {"accepted", "cancelled", "aborted", "rejected"}
    BY <1>5 DEF Certain, Withheld
  <2>4. Promised!Tell(fence)
    BY <1>5, <2>1, <2>2 DEF Promised!Tell
  <2>5. QED
    BY <2>3, <2>4 DEF Promised!Next
<1>6. QED
  BY <1>4, <1>5, InvStep

\* The fence implements OneShot: the weapon fires at most once, never after a
\* caller could read that the shot was cancelled, aborted or refused, and who is
\* told a certain answer is told what happened, for every number of replicas and
\* requests and whatever fails (claimCommandAck, completeCommandAck, #updateFire).
THEOREM FenceImplementsOneShot == Spec => FiresOnceOrNever
<1>1. Init => Promised!Init
  BY DEF Init, Promised!Init, Phase, Withheld, NoAnswer
<1>2. Inv /\ [Next]_vars => Inv'
  BY InvStep
<1>3. Inv /\ [Next]_vars => [Promised!Next]_<<Phase, told>>
  BY PromisedStep
<1>4. QED
  BY InvInit, <1>1, <1>2, <1>3, PTL DEF Spec, FiresOnceOrNever, Promised!Spec
=============================================================================
