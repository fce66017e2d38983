------------------------ MODULE TaskLifecycleProofs ------------------------
(***************************************************************************)
(* Theorems about TaskLifecycle for every set of workers, every timing and *)
(* every bound, in the order in which they rest on each other: the types,  *)
(* what a step never does, no start without need and no outcome without    *)
(* proof, the stop command of a Task that is being stopped, and the        *)
(* commands of a Task that ended.                                          *)
(***************************************************************************)
EXTENDS TaskLifecycle, TLAPS

(***************************************************************************)
(* The row, command and job operators stay within their types.             *)
(***************************************************************************)

\* mapAdapterSnapshot: a snapshot of any state gives a transition.
LEMMA MapType ==
    ASSUME NEW s \in ExecStates PROVE MapAdapterSnapshot(s) \in Transition
BY DEF MapAdapterSnapshot, Transition, TaskStates, TerminalStates, Outcomes,
       ExecStates, ExecLive, ExecTerminal

\* stopTransition does too, whatever stop reason the reader believes in.
LEMMA StopType ==
    ASSUME NEW s \in ExecStates, NEW stop \in StopReasons
    PROVE  StopTransition(stop, s) \in Transition
<1>1. MapAdapterSnapshot(s) \in Transition
  BY MapType
<1>2. QED
  BY <1>1 DEF StopTransition, Transition, TaskStates, TerminalStates, Outcomes

\* transitionTask, with and without a revision, yields a row.
LEMMA TransitionType ==
    ASSUME NEW r \in Row, NEW new \in Row, NEW rev \in Nat
    PROVE  TransitionTask(r, new) \in Row /\ TransitionAt(r, rev, new) \in Row
BY DEF TransitionTask, TransitionAt, Row

\* applySnapshot yields a row.
LEMMA ApplyType ==
    ASSUME NEW r \in Row, NEW rev \in Nat, NEW t \in Transition
    PROVE  ApplySnapshot(r, rev, t) \in Row
<1> DEFINE m == MergeStopState(r, t)
           new == [r EXCEPT !.state = m.state, !.outcome = m.outcome,
                            !.started = @ \/ TransitionHasStarted(t)]
<1>1. m.state \in TaskStates /\ m.outcome \in Outcomes
  BY DEF MergeStopState, Row, Transition
<1>2. TransitionHasStarted(t) \in BOOLEAN
  BY DEF TransitionHasStarted
<1>3. new \in Row
  BY <1>1, <1>2 DEF Row
<1>4. QED
  BY <1>3, TransitionType DEF ApplySnapshot

\* What the repository makes of a row: claims, stops, releases, rejections.
LEMMA RowType ==
    ASSUME NEW r \in Row, NEW w \in Owners, NEW reason \in StopReasons,
           NEW outcome \in Outcomes
    PROVE  /\ Unclaim(r) \in Row
           /\ Claim(r, w) \in Row
           /\ Missed(r) \in Row
           /\ Stopped(r, reason) \in Row
           /\ ReleaseScheduleRetry(r) \in Row
           /\ CompleteScheduledRejection(r) \in Row
           /\ FailTask(r, outcome) \in Row
<1>1. Unclaim(r) \in Row /\ Claim(r, w) \in Row
  BY DEF Unclaim, Claim, Row, Owners
<1>2. Missed(r) \in Row /\ Stopped(r, reason) \in Row
  BY DEF Missed, Stopped, Row, TaskStates, TerminalStates, Outcomes
<1>3. ReleaseScheduleRetry(r) \in Row /\ CompleteScheduledRejection(r) \in Row
  BY <1>1 DEF ReleaseScheduleRetry, CompleteScheduledRejection, Row, TaskStates,
              TerminalStates, Outcomes
<1>4. FailTask(r, outcome) \in Row
  BY DEF FailTask, TransitionTask, Row, TaskStates, TerminalStates
<1>5. QED
  BY <1>1, <1>2, <1>3, <1>4

\* What the repository makes of a row with an answer of the Adapter.
LEMMA AnswerType ==
    ASSUME NEW r \in Row, NEW a \in Answer
    PROVE  /\ AcceptScheduled(r, a) \in Row
           /\ ConfirmStarted(r, a) \in Row
           /\ RejectUserCancel(r, a) \in Row
<1> DEFINE t == MapAdapterSnapshot(a.state)
<1>1. a.state \in ExecStates /\ a.rev \in Nat
  BY DEF Answer
<1>2. t.state \in TaskStates /\ t.outcome \in Outcomes
  BY <1>1, MapType DEF Transition
<1>3. Unclaim(r) \in Row
  BY DEF Unclaim, Row, Owners
<1>4. SnapshotHasStarted(a.state) \in BOOLEAN
  BY DEF SnapshotHasStarted
<1>5. AcceptScheduled(r, a) \in Row
  <2>1. [Unclaim(r) EXCEPT !.ext = TRUE, !.state = t.state, !.outcome = t.outcome,
                           !.started = @ \/ SnapshotHasStarted(a.state)] \in Row
    BY <1>2, <1>3, <1>4 DEF Row
  <2>2. QED
    BY <1>1, <2>1, TransitionType DEF AcceptScheduled
<1>6. ConfirmStarted(r, a) \in Row
  <2>1. [Unclaim(r) EXCEPT !.state = t.state, !.outcome = t.outcome,
                           !.started = TRUE] \in Row
    BY <1>2, <1>3 DEF Row
  <2>2. QED
    BY <1>1, <2>1, TransitionType DEF ConfirmStarted
<1>7. RejectUserCancel(r, a) \in Row
  <2>1. [r EXCEPT !.state = t.state, !.outcome = t.outcome,
                  !.rev = IF a.rev > @ THEN a.rev ELSE @,
                  !.cancel = FALSE, !.stop = "none"] \in Row
    BY <1>1, <1>2 DEF Row, StopReasons
  <2>2. QED
    BY <1>1, <2>1, TransitionType DEF RejectUserCancel
<1>8. QED
  BY <1>5, <1>6, <1>7

\* New, released and closed commands.
LEMMA CommandType ==
    ASSUME NEW c \in Command, NEW reason \in StopReasons,
           NEW state \in CommandStates
    PROVE  /\ NewCommand(c, reason) \in Command
           /\ Release(c, state) \in Command
           /\ CloseCommand(c) \in Command
<1>1. NewCommand(c, reason) \in Command
  BY ConstantsAssumption DEF NewCommand, Command, CommandStates, Owners
<1>2. Release(c, state) \in Command
  BY DEF Release, Command, Owners
<1>3. CloseCommand(c) \in Command
  BY DEF CloseCommand, Release, Command, CommandStates, Owners
<1>4. QED
  BY <1>1, <1>2, <1>3

\* persistStartWindowStop on the row, the command and the event keys.
LEMMA WindowType ==
    ASSUME NEW r \in Row, NEW c \in Command, NEW o \in SUBSET EventKeys
    PROVE  /\ WindowRow(r, c, o) \in Row
           /\ WindowCommand(r, c) \in Command
           /\ WindowEvents(r, c, o) \in SUBSET EventKeys
<1>1. WindowCommand(r, c) \in Command
  BY CommandType DEF WindowCommand, Command, StopReasons
<1>2. WindowKey(r, c) \in EventKeys
  BY <1>1 DEF WindowKey, EventKey, EventKeys, EventKinds, Command
<1>3. Stopped(Unclaim(r), WindowReason(c)) \in Row
  BY RowType DEF WindowReason, StopReasons, Owners, Outcomes
<1>4. WindowRow(r, c, o) \in Row
  BY <1>3 DEF WindowRow, Row
<1>5. QED
  BY <1>1, <1>2, <1>4 DEF WindowEvents

\* One job is replaced by another.
LEMMA JobType ==
    ASSUME NEW w \in Workers, TypeOK, NEW j \in Job,
           job' = [job EXCEPT ![w] = j]
    PROVE  job' \in [Workers -> Job]
BY DEF TypeOK

(***************************************************************************)
(* Type correctness.                                                       *)
(***************************************************************************)

\* The jobs a step can leave behind.
LEMMA JobForms ==
    ASSUME NEW w \in Workers, TypeOK
    PROVE  /\ NoJob \in Job
           /\ NoAnswer \in Answer
           /\ job[w] \in Job
           /\ job[w].answer \in Answer
           /\ Done(w) => job' \in [Workers -> Job]
           /\ Send(w) => job' \in [Workers -> Job]
           /\ \A kind \in Kinds, phase \in {"claimed", "sent"},
                 stop \in StopReasons :
                 Begin(w, kind, phase, stop) => job' \in [Workers -> Job]
<1>1. NoAnswer \in Answer
  BY DEF NoAnswer, Answer, Statuses, ExecStates
<1>2. NoJob \in Job
  BY <1>1, ConstantsAssumption DEF NoJob, Job, Kinds, StopReasons
<1>3. job[w] \in Job /\ job[w].answer \in Answer
  BY DEF TypeOK, Job
<1>4. Done(w) => job' \in [Workers -> Job]
  BY <1>2 DEF Done, TypeOK
<1>5. Send(w) => job' \in [Workers -> Job]
  <2>1. [job[w] EXCEPT !.phase = "sent"] \in Job
    BY <1>3 DEF Job
  <2>2. QED
    BY <2>1 DEF Send, TypeOK
<1>6. ASSUME NEW kind \in Kinds, NEW phase \in {"claimed", "sent"},
             NEW stop \in StopReasons, Begin(w, kind, phase, stop)
      PROVE  job' \in [Workers -> Job]
  <2>1. [NoJob EXCEPT !.kind = kind, !.phase = phase, !.stop = stop] \in Job
    BY <1>2 DEF Job
  <2>2. QED
    BY <1>6, <2>1 DEF Begin, TypeOK
<1>7. QED
  BY <1>1, <1>2, <1>3, <1>4, <1>5, <1>6

\* A fault uses up one of the faults that may still happen.
LEMMA FaultType == ASSUME TypeOK, Fault PROVE faults' \in 0..MaxFaults
BY ConstantsAssumption DEF TypeOK, Fault

LEMMA SchedulerType ==
    ASSUME NEW w \in Workers, TypeOK, SchedulerStep(w) PROVE TypeOK'
<1> USE DEF Calm
<1>1. row \in Row /\ cmd \in Command /\ outbox \in SUBSET EventKeys
  BY DEF TypeOK
<1>2. w \in Owners /\ "none" \in StopReasons /\ "none" \in Outcomes
  BY DEF Owners, StopReasons, Outcomes
<1>3. job[w] \in Job /\ job[w].answer \in Answer
  BY JobForms
<1>4. UncertainKey \in EventKeys
  BY DEF UncertainKey, EventKey, EventKeys, EventKinds
<1>5. CASE ClaimDueScheduled(w)
  <2>1. [Claim(row, w) EXCEPT !.state = "STARTING", !.due = FALSE] \in Row
    <3>1. Claim(row, w) \in Row
      BY <1>1, <1>2, RowType
    <3>2. QED
      BY <3>1 DEF Row, TaskStates
  <2>2. job' \in [Workers -> Job]
    BY <1>2, <1>5, JobForms DEF ClaimDueScheduled, Kinds
  <2>3. QED
    BY <1>5, <2>1, <2>2 DEF ClaimDueScheduled, TypeOK
<1>6. CASE StartClaimed(w)
  BY <1>1, <1>2, <1>6, RowType, JobForms DEF StartClaimed, TypeOK
<1>7. CASE StartTooLate(w)
  BY <1>1, <1>2, <1>7, RowType, JobForms DEF StartTooLate, TypeOK
<1>8. CASE StartNotLoaded(w)
  <2>1. row' \in Row
    BY <1>1, <1>2, <1>8, RowType DEF StartNotLoaded
  <2>2. job' \in [Workers -> Job] /\ faults' \in 0..MaxFaults
    BY <1>8, JobForms, FaultType DEF StartNotLoaded
  <2>3. QED
    BY <1>8, <2>1, <2>2 DEF StartNotLoaded, TypeOK
<1>9. CASE ClaimExpiredStart(w)
  <2>1. job' \in [Workers -> Job]
    BY <1>2, <1>9, JobForms DEF ClaimExpiredStart, Kinds
  <2>2. QED
    BY <1>1, <1>2, <1>9, <2>1, RowType DEF ClaimExpiredStart, TypeOK
<1>10. CASE StartAccepted(w)
  <2>1. AcceptScheduled(row, job[w].answer) \in Row
    BY <1>1, <1>3, AnswerType
  <2>2. job' \in [Workers -> Job]
    BY <1>10, JobForms DEF StartAccepted, Starting
  <2>3. row' \in Row /\ cmd' \in Command /\ outbox' \in SUBSET EventKeys
    BY <1>1, <1>10, <2>1, WindowType DEF StartAccepted, PersistStartWindowStop
  <2>4. QED
    BY <1>10, <2>2, <2>3 DEF StartAccepted, TypeOK
<1>11. CASE StartAbsent(w)
  BY <1>1, <1>2, <1>11, RowType, JobForms DEF StartAbsent, Starting, TypeOK
<1>12. CASE StartRejected(w)
  BY <1>1, <1>2, <1>12, RowType, JobForms DEF StartRejected, Starting, TypeOK
<1>13. CASE StartUncertain(w)
  <2>1. job' \in [Workers -> Job]
    BY <1>13, JobForms DEF StartUncertain, Starting
  <2>2. row' \in Row
    BY <1>1, <1>13 DEF StartUncertain, Row, Owners
  <2>3. outbox' \in SUBSET EventKeys /\ conflict' \in BOOLEAN
    BY <1>1, <1>4, <1>13 DEF StartUncertain, TypeOK
  <2>4. QED
    BY <1>13, <2>1, <2>2, <2>3 DEF StartUncertain, TypeOK
<1>14. QED
  BY <1>5, <1>6, <1>7, <1>8, <1>9, <1>10, <1>11, <1>12, <1>13
     DEF SchedulerStep

LEMMA WatchdogType ==
    ASSUME NEW w \in Workers, TypeOK, WatchdogStep(w) PROVE TypeOK'
<1> USE DEF Calm
<1>1. row \in Row /\ cmd \in Command /\ outbox \in SUBSET EventKeys
  BY DEF TypeOK
<1>2. w \in Owners /\ "none" \in StopReasons /\ "none" \in Outcomes
  BY DEF Owners, StopReasons, Outcomes
<1>3. job[w] \in Job /\ job[w].answer \in Answer
  BY JobForms
<1>4. CASE ClaimBoundStart(w)
  <2>1. [Claim(row, w) EXCEPT !.state = "WAITING_START_CONFIRMATION"] \in Row
    BY <1>1, <1>2, RowType DEF Row, TaskStates
  <2>2. job' \in [Workers -> Job]
    BY <1>2, <1>4, JobForms DEF ClaimBoundStart, Kinds
  <2>3. QED
    BY <1>4, <2>1, <2>2 DEF ClaimBoundStart, TypeOK
<1>5. CASE ConfirmBoundStarted(w)
  BY <1>1, <1>3, <1>5, AnswerType, JobForms
     DEF ConfirmBoundStarted, Confirming, TypeOK
<1>6. CASE DeferStartConfirmation(w)
  <2>1. row' \in Row
    BY <1>1, <1>6 DEF DeferStartConfirmation, Row, Owners
  <2>2. QED
    BY <1>6, <2>1, JobForms DEF DeferStartConfirmation, Confirming, TypeOK
<1>7. CASE StopUnconfirmedBoundExecution(w)
  BY <1>1, <1>7, WindowType, JobForms
     DEF StopUnconfirmedBoundExecution, PersistStartWindowStop, Confirming,
         TypeOK
<1>8. QED
  BY <1>4, <1>5, <1>6, <1>7 DEF WatchdogStep

LEMMA StopsType ==
    ASSUME TypeOK, Sweep \/ Client PROVE TypeOK'
<1> USE DEF Calm
<1>1. row \in Row /\ cmd \in Command /\ outbox \in SUBSET EventKeys
  BY DEF TypeOK
<1>2. {"none", "USER_REQUESTED", "DEADLINE_REACHED"} \subseteq StopReasons
      /\ "none" \in Outcomes /\ NoWorker \in Owners
  BY DEF StopReasons, Outcomes, Owners
<1>3. CASE CompleteDueStartWindowMisses
  BY <1>1, <1>2, <1>3, RowType DEF CompleteDueStartWindowMisses, TypeOK
<1>4. CASE ClaimExpiredDeadlines
  <2>1. cmd' \in Command
    BY <1>1, <1>2, <1>4, CommandType DEF ClaimExpiredDeadlines, Command
  <2>2. EventKey("deadline-stop", cmd'.seq) \in EventKeys
    BY <2>1 DEF EventKey, EventKeys, EventKinds, Command
  <2>3. row' \in Row /\ outbox' \in SUBSET EventKeys
    BY <1>1, <1>2, <1>4, <2>2, RowType DEF ClaimExpiredDeadlines
  <2>4. QED
    BY <1>4, <2>1, <2>3 DEF ClaimExpiredDeadlines, TypeOK
<1>5. CASE BeginCancel
  <2>1. "PENDING" \in CommandStates
    BY DEF CommandStates
  <2>2. QED
    BY <1>1, <1>2, <1>5, <2>1, RowType, CommandType DEF BeginCancel, TypeOK
<1>6. CASE RecordCooperativeIntent
  <2>1. row' \in Row
    BY <1>1, <1>2, <1>6 DEF RecordCooperativeIntent, Row
  <2>2. EventKey("cancel-intent", 0) \in EventKeys
    BY DEF EventKey, EventKeys, EventKinds
  <2>3. QED
    BY <1>6, <2>1, <2>2 DEF RecordCooperativeIntent, TypeOK
<1>7. QED
  BY <1>3, <1>4, <1>5, <1>6 DEF Sweep, Client

LEMMA DispatcherType ==
    ASSUME NEW w \in Workers, TypeOK, DispatcherStep(w) PROVE TypeOK'
<1> USE DEF Calm
<1>1. row \in Row /\ cmd \in Command /\ outbox \in SUBSET EventKeys
  BY DEF TypeOK
<1>2. w \in Owners /\ "none" \in StopReasons /\ NoWorker \in Owners
      /\ "SAFE_STOP_UNCONFIRMED" \in Outcomes
  BY DEF Owners, StopReasons, Outcomes
<1>3. job[w] \in Job /\ job[w].answer \in Answer
  BY JobForms
<1>4. \A state \in CommandStates : Release(cmd, state) \in Command
  BY <1>1, <1>2, CommandType
<1>5. {"ACKNOWLEDGED", "REJECTED", "EXHAUSTED", "RETRY_WAIT"} \subseteq CommandStates
  BY DEF CommandStates
<1>6. CASE ClaimCommand(w)
  <2> DEFINE tries == IF cmd.tries < MaxStopAttempts THEN cmd.tries + 1
                      ELSE MaxStopAttempts
             j == [NoJob EXCEPT !.kind = "cancel", !.phase = "claimed",
                                !.stop = cmd.reason, !.seq = cmd.seq,
                                !.tries = tries]
  <2>1. tries \in 0..MaxStopAttempts
    BY <1>1, ConstantsAssumption DEF Command
  <2>2. cmd' \in Command
    BY <1>1, <1>2, <1>6, <2>1 DEF ClaimCommand, Command, CommandStates
  <2>3. j \in Job
    BY <1>1, <2>1, JobForms DEF Job, Command, Kinds
  <2>4. job' \in [Workers -> Job]
    BY <1>6, <2>3, JobType DEF ClaimCommand
  <2>5. QED
    BY <1>6, <2>2, <2>4 DEF ClaimCommand, TypeOK
<1>7. CASE DispatchCancel(w)
  <2>1. cmd' \in Command
    BY <1>1, <1>7 DEF DispatchCancel, Command
  <2>2. QED
    BY <1>7, <2>1, JobForms DEF DispatchCancel, TypeOK
<1>8. CASE DispatchTerminal(w)
  BY <1>4, <1>5, <1>8, JobForms DEF DispatchTerminal, TypeOK
<1>9. CASE AcknowledgeClaimedCommand(w)
  BY <1>4, <1>5, <1>9, JobForms DEF AcknowledgeClaimedCommand, Stopping, TypeOK
<1>10. CASE RecheckRejectedCancel(w)
  <2>1. cmd' \in Command
    BY <1>1, <1>10 DEF RecheckRejectedCancel, Command
  <2>2. [job[w] EXCEPT !.kind = "recheck", !.phase = "sent",
                       !.answer = NoAnswer] \in Job
    BY <1>3, JobForms DEF Job, Kinds
  <2>3. job' \in [Workers -> Job]
    BY <1>10, <2>2 DEF RecheckRejectedCancel, TypeOK
  <2>4. QED
    BY <1>10, <2>1, <2>3 DEF RecheckRejectedCancel, Stopping, TypeOK
<1>11. CASE FailSafeStop(w)
  <2>1. row' \in Row
    BY <1>1, <1>2, <1>11, RowType DEF FailSafeStop
  <2>2. QED
    BY <1>4, <1>5, <1>11, <2>1, JobForms DEF FailSafeStop, Stopping, TypeOK
<1>12. CASE RetryClaimedCommand(w)
  <2>1. cmd' \in Command /\ job' \in [Workers -> Job]
    BY <1>4, <1>5, <1>12, JobForms DEF RetryClaimedCommand
  <2>2. UNCHANGED <<row, outbox, conflict, exec, now, faults>>
    BY <1>12 DEF RetryClaimedCommand, Stopping
  <2>3. QED
    BY <2>1, <2>2 DEF TypeOK
<1>13. CASE RejectMismatched(w)
  BY <1>4, <1>5, <1>13, JobForms DEF RejectMismatched, Stopping, TypeOK
<1>14. CASE RestoreAfterRejection(w)
  <2>1. row' \in Row
    BY <1>1, <1>3, <1>14, AnswerType DEF RestoreAfterRejection
  <2>2. cmd' \in Command /\ job' \in [Workers -> Job]
    BY <1>4, <1>5, <1>14, JobForms DEF RestoreAfterRejection
  <2>3. QED
    BY <1>14, <2>1, <2>2 DEF RestoreAfterRejection, Stopping, TypeOK
<1>15. QED
  BY <1>6, <1>7, <1>8, <1>9, <1>10, <1>11, <1>12, <1>13, <1>14
     DEF DispatcherStep

LEMMA ReaderType ==
    ASSUME NEW w \in Workers, TypeOK, ReaderStep(w) PROVE TypeOK'
<1> USE DEF Calm
<1>1. row \in Row /\ cmd \in Command
  BY DEF TypeOK
<1>2. row.stop \in StopReasons /\ "none" \in StopReasons
      /\ "EXECUTION_NOT_FOUND" \in Outcomes /\ NoWorker \in Owners
  BY <1>1 DEF Row, StopReasons, Outcomes, Owners
<1>3. job[w] \in Job /\ job[w].answer \in Answer
  BY JobForms
<1>4. CASE ReadTask(w)
  <2>1. job' \in [Workers -> Job]
    BY <1>2, <1>4, JobForms DEF ReadTask, Kinds
  <2>2. QED
    BY <1>4, <2>1 DEF ReadTask, TypeOK
<1>5. CASE ListForRecovery(w)
  <2>1. job' \in [Workers -> Job]
    BY <1>2, <1>5, JobForms DEF ListForRecovery, Kinds
  <2>2. QED
    BY <1>5, <2>1 DEF ListForRecovery, TypeOK
<1>6. CASE Recover(w)
  <2>1. [job[w] EXCEPT !.phase = "sent", !.stop = row.stop] \in Job
    BY <1>2, <1>3 DEF Job
  <2>2. job' \in [Workers -> Job]
    BY <1>6, <2>1, JobForms DEF Recover, TypeOK
  <2>3. QED
    BY <1>6, <2>2 DEF Recover, TypeOK
<1>7. CASE ApplyFound(w)
  <2> DEFINE a == job[w].answer
             t == StopTransition(job[w].stop, a.state)
  <2>1. a.state \in ExecStates /\ a.rev \in Nat /\ job[w].stop \in StopReasons
    BY <1>3 DEF Answer, Job
  <2>2. t \in Transition
    BY <2>1, StopType
  <2>3. row' \in Row
    BY <1>1, <1>7, <2>1, <2>2, ApplyType DEF ApplyFound
  <2>4. CloseCommand(cmd) \in Command
    BY <1>1, <1>2, CommandType DEF CommandStates
  <2>5. cmd' \in Command
    BY <1>1, <1>7, <2>4 DEF ApplyFound, CommandAfter
  <2>6. QED
    BY <1>7, <2>3, <2>5, JobForms DEF ApplyFound, Reading, TypeOK
<1>8. CASE ReadUnavailable(w)
  <2>1. [job[w] EXCEPT !.kind = "recover", !.phase = "sent",
                       !.answer = NoAnswer] \in Job
    BY <1>3, JobForms DEF Job, Kinds
  <2>2. job' \in [Workers -> Job]
    BY <1>8, <2>1, JobForms DEF ReadUnavailable, TypeOK
  <2>3. QED
    BY <1>8, <2>2 DEF ReadUnavailable, Reading, TypeOK
<1>9. CASE ReadMismatched(w)
  BY <1>9, JobForms DEF ReadMismatched, Reading, TypeOK
<1>10. CASE FailRecoveryNotFound(w)
  <2>1. row' \in Row
    BY <1>1, <1>2, <1>10, RowType DEF FailRecoveryNotFound
  <2>2. QED
    BY <1>10, <2>1, JobForms DEF FailRecoveryNotFound, Reading, TypeOK
<1>11. QED
  BY <1>4, <1>5, <1>6, <1>7, <1>8, <1>9, <1>10 DEF ReaderStep

\* An answer of the Adapter is a job.
LEMMA ReplyType ==
    ASSUME NEW w \in Workers, TypeOK, NEW status \in Statuses,
           NEW e \in Execution
    PROVE  /\ Reply(w, status) => job' \in [Workers -> Job]
           /\ ReplyWith(w, status, e) => job' \in [Workers -> Job]
<1>1. job[w] \in Job
  BY JobForms
<1>2. ASSUME NEW a \in Answer
      PROVE  [job[w] EXCEPT !.phase = "answered", !.answer = a] \in Job
  BY <1>1 DEF Job
<1>3. [NoAnswer EXCEPT !.status = status] \in Answer
  BY JobForms DEF Answer
<1>4. [status |-> status, state |-> e.state, rev |-> e.rev] \in Answer
  BY DEF Answer, Execution
<1>5. QED
  BY <1>2, <1>3, <1>4 DEF Reply, ReplyWith, TypeOK

\* A started execution is one.
LEMMA LaunchType ==
    ASSUME NEW w, TypeOK
    PROVE  /\ Launched(w) \subseteq Execution
           /\ \A s \in FirstStates : StartedLate(s) \in Execution
<1>1. ASSUME NEW s \in FirstStates
      PROVE  Started(s) \in Execution /\ StartedLate(s) \in Execution
  <2>1. (s = "RUNNING") \in BOOLEAN
    OBVIOUS
  <2>2. s \in ExecStates
    BY DEF FirstStates, ExecStates, ExecLive
  <2>3. QED
    BY <2>1, <2>2 DEF Started, StartedLate, Execution
<1>2. QED
  BY <1>1 DEF TypeOK, Launched

\* The same execution, or the same absence of one.
SameExecution(e, new) ==
    /\ new.state = e.state /\ new.rev = e.rev
    /\ new.late = "began" <=> e.late = "began"

\* A call that is given up changes nothing but what may still arrive.
LEMMA GivenUpType ==
    ASSUME TypeOK, NEW w, GivenUp(w)
    PROVE  exec' \in Execution /\ SameExecution(exec, exec')
BY DEF TypeOK, GivenUp, SameExecution, Execution, NoExecution

LEMMA AdapterType ==
    ASSUME NEW w \in Workers, TypeOK, AdapterStep(w) PROVE TypeOK'
<1> USE DEF Quiet
<1>1. exec \in Execution
  BY DEF TypeOK
<1>2. {"unavailable", "mismatch", "accepted", "retryable", "rejected",
       "notfound", "found", "conflict"} \subseteq Statuses
  BY DEF Statuses
<1>3. \A s \in Statuses : Reply(w, s) => job' \in [Workers -> Job]
  BY <1>1, ReplyType
<1>4. \A s \in Statuses, e \in Execution :
        ReplyWith(w, s, e) => job' \in [Workers -> Job]
  BY ReplyType
<1>5. Fault \/ NoFault => faults' \in 0..MaxFaults
  BY FaultType DEF NoFault, TypeOK
<1>6. CASE AdapterStarts(w)
  <2>1. PICK e \in Launched(w) :
          /\ exec' = e
          /\ \/ ReplyWith(w, "accepted", e) /\ NoFault
             \/ Reply(w, "unavailable") /\ Fault
             \/ Reply(w, "mismatch") /\ Fault
    BY <1>6 DEF AdapterStarts
  <2>2. e \in Execution
    BY LaunchType
  <2>3. exec' \in Execution /\ job' \in [Workers -> Job]
    BY <1>2, <1>3, <1>4, <2>1, <2>2
  <2>4. faults' \in 0..MaxFaults
    BY <1>5, <2>1
  <2>5. QED
    BY <1>6, <2>3, <2>4 DEF AdapterStarts, TypeOK
<1>7. CASE AdapterRefusesStart(w)
  BY <1>2, <1>3, <1>7 DEF AdapterRefusesStart, TypeOK
<1>8. CASE AdapterCancels(w)
  <2>1. exec' \in Execution
    <3>1. (exec.state \in ExecLive) \in BOOLEAN
      OBVIOUS
    <3>2. [exec EXCEPT !.acked = exec.state \in ExecLive] \in Execution
      BY <1>1, <3>1 DEF Execution
    <3>3. QED
      BY <1>8, <3>2 DEF AdapterCancels
  <2>2. job' \in [Workers -> Job]
    BY <1>1, <1>2, <1>3, <1>4, <1>8 DEF AdapterCancels
  <2>3. faults' \in 0..MaxFaults
    BY <1>5, <1>8 DEF AdapterCancels
  <2>4. QED
    BY <1>8, <2>1, <2>2, <2>3 DEF AdapterCancels, TypeOK
<1>9. CASE AdapterRefusesCancel(w)
  <2>1. faults' \in 0..MaxFaults /\ job' \in [Workers -> Job]
    BY <1>2, <1>3, <1>5, <1>9 DEF AdapterRefusesCancel
  <2>2. QED
    BY <1>9, <2>1 DEF AdapterRefusesCancel, TypeOK
<1>10. CASE AdapterReconciles(w)
  BY <1>1, <1>2, <1>3, <1>4, <1>10 DEF AdapterReconciles, TypeOK
<1>11. CASE AdapterMisanswers(w)
  <2>1. faults' \in 0..MaxFaults /\ job' \in [Workers -> Job]
    BY <1>2, <1>3, <1>5, <1>11 DEF AdapterMisanswers
  <2>2. QED
    BY <1>11, <2>1 DEF AdapterMisanswers, TypeOK
<1>12. CASE CallFails(w)
  <2>1. faults' \in 0..MaxFaults /\ job' \in [Workers -> Job]
    BY <1>2, <1>3, <1>5, <1>12 DEF CallFails
  <2>2. exec' \in Execution
    BY <1>12, GivenUpType DEF CallFails
  <2>3. QED
    BY <1>12, <2>1, <2>2 DEF CallFails, TypeOK
<1>13. CASE CallAbandoned(w)
  <2>1. exec' \in Execution
    BY <1>13, GivenUpType DEF CallAbandoned
  <2>2. QED
    BY <1>2, <1>3, <1>13, <2>1 DEF CallAbandoned, TypeOK
<1>14. QED
  BY <1>6, <1>7, <1>8, <1>9, <1>10, <1>11, <1>12, <1>13 DEF AdapterStep

\* An execution that changes stays one.
LEMMA MoveType ==
    ASSUME NEW e \in Execution, NEW s \in ExecStates, NEW ran \in BOOLEAN
    PROVE  [e EXCEPT !.state = s, !.rev = @ + 1, !.ran = ran] \in Execution
<1>1. e.rev + 1 \in Nat
  BY DEF Execution
<1>2. ASSUME NEW rev \in Nat
      PROVE  [e EXCEPT !.state = s, !.rev = rev, !.ran = ran] \in Execution
  BY DEF Execution
<1>3. QED
  BY <1>1, <1>2

\* The steps of nobody in particular: the Adapter's own and time's.
LEMMA WorldType ==
    ASSUME TypeOK, Timers \/ LateStart \/ AdapterProgress \/ AdapterStops
    PROVE  TypeOK'
<1>1. Fault \/ NoFault => faults' \in 0..MaxFaults
  BY FaultType DEF NoFault, TypeOK
<1>2. CASE LeaseElapses
  <2>1. row' \in Row /\ faults' \in 0..MaxFaults
    BY <1>1, <1>2 DEF LeaseElapses, TypeOK, Row
  <2>2. QED
    BY <1>2, <2>1 DEF LeaseElapses, TypeOK
<1>3. CASE NextStartElapses
  BY <1>3 DEF NextStartElapses, TypeOK, Row, Calm
<1>4. CASE CommandTimerElapses
  <2>1. cmd' \in Command /\ faults' \in 0..MaxFaults
    BY <1>1, <1>4 DEF CommandTimerElapses, TypeOK, Command
  <2>2. QED
    BY <1>4, <2>1 DEF CommandTimerElapses, TypeOK
<1>5. CASE Tick
  BY <1>5, ConstantsAssumption DEF Tick, TypeOK
<1>6. ASSUME NEW s \in ExecStates, Advance(s) PROVE TypeOK'
  <2> DEFINE ran == exec.ran \/ s \in {"RUNNING", "SUCCEEDED"}
  <2>1. ran \in BOOLEAN /\ exec \in Execution
    BY DEF TypeOK
  <2>2. exec' = [exec EXCEPT !.state = s, !.rev = @ + 1, !.ran = ran]
    BY <1>6 DEF Advance
  <2> HIDE DEF ran
  <2>4. exec' \in Execution
    BY <2>1, <2>2, MoveType
  <2>5. QED
    BY <1>6, <2>4 DEF Advance, Quiet, TypeOK
<1>7. CASE AdapterProgress
  <2>1. PICK s \in Moves(exec.state) : Advance(s)
    BY <1>7 DEF AdapterProgress
  <2>2. s \in ExecStates
    BY DEF Moves, ExecStates, ExecLive, ExecTerminal
  <2>3. QED
    BY <1>6, <2>1, <2>2
<1>8. CASE AdapterStops
  BY <1>6, <1>8 DEF AdapterStops, ExecStates, ExecLive, ExecTerminal
<1>9. CASE LateStart
  <2>1. exec' \in Execution
    BY <1>9, LaunchType DEF LateStart
  <2>2. QED
    BY <1>9, <2>1 DEF LateStart, Quiet, TypeOK
<1>10. QED
  BY <1>2, <1>3, <1>4, <1>5, <1>7, <1>8, <1>9 DEF Timers

\* Rows that a start or an immediate admission publishes.
LEMMA PublishedType ==
    /\ ScheduledRow \in Row /\ NoCommand \in Command /\ NoExecution \in Execution
    /\ \A s \in FirstStates :
         Started(s) \in Execution /\ AcceptedRow(Started(s)) \in Row
<1>1. ScheduledRow \in Row
  BY DEF ScheduledRow, Row, TaskStates, StopReasons, Outcomes, Owners
<1>2. NoCommand \in Command
  BY ConstantsAssumption
     DEF NoCommand, Command, CommandStates, StopReasons, Owners
<1>3. NoExecution \in Execution
  BY DEF NoExecution, Execution, ExecStates
<1>4. ASSUME NEW s \in FirstStates
      PROVE  Started(s) \in Execution /\ AcceptedRow(Started(s)) \in Row
  <2>1. Started(s) \in Execution /\ s \in ExecStates
    BY DEF FirstStates, Started, Execution, ExecStates, ExecLive
  <2>2. MapAdapterSnapshot(s).state \in TaskStates
    BY <2>1, MapType DEF Transition
  <2>3. AcceptedRow(Started(s)) \in Row
    <3>1. Started(s).state = s /\ Started(s).rev = 1
      BY DEF Started
    <3>2. SnapshotHasStarted(s) \in BOOLEAN
      BY DEF SnapshotHasStarted
    <3>3. [ScheduledRow EXCEPT !.state = MapAdapterSnapshot(s).state,
                               !.ext = TRUE, !.rev = 1,
                               !.started = SnapshotHasStarted(s)] \in Row
      BY <1>1, <2>2, <3>2 DEF Row
    <3>4. QED
      BY <3>1, <3>3 DEF AcceptedRow
  <2>4. QED
    BY <2>1, <2>3
<1>5. QED
  BY <1>1, <1>2, <1>3, <1>4

LEMMA InitType == Init => TypeOK
<1> SUFFICES ASSUME Init PROVE TypeOK
  OBVIOUS
<1>1. job \in [Workers -> Job]
  <2>1. NoAnswer \in Answer
    BY DEF NoAnswer, Answer, Statuses, ExecStates
  <2>2. NoJob \in Job
    BY <2>1, ConstantsAssumption DEF NoJob, Job, Kinds, StopReasons
  <2>3. QED
    BY <2>2 DEF Init
<1>2. faults \in 0..MaxFaults /\ conflict \in BOOLEAN
  <2>1. conflict \in BOOLEAN
    BY DEF Init
  <2>2. faults \in 0..MaxFaults
    BY ConstantsAssumption DEF Init
  <2>3. QED
    BY <2>1, <2>2
<1>3. {} \in SUBSET EventKeys /\ 0 \in 0..Horizon /\ LatestStart + 1 \in 0..Horizon
  BY ConstantsAssumption
<1>4. /\ row \in Row /\ cmd \in Command /\ outbox \in SUBSET EventKeys
      /\ exec \in Execution /\ now \in 0..Horizon
  <2>1. CASE row = ScheduledRow /\ cmd = NoCommand /\ outbox = {}
             /\ exec = NoExecution /\ now = 0
    BY <1>3, <2>1, PublishedType
  <2>2. CASE /\ \E s \in FirstStates : exec = Started(s)
             /\ row = AcceptedRow(exec) /\ cmd = NoCommand /\ outbox = {}
             /\ now = 0
    BY <1>3, <2>2, PublishedType
  <2>3. CASE /\ \E s \in FirstStates : exec = Started(s)
             /\ now = LatestStart + 1
             /\ row = WindowRow(AcceptedRow(exec), NoCommand, {})
             /\ cmd = WindowCommand(AcceptedRow(exec), NoCommand)
             /\ outbox = WindowEvents(AcceptedRow(exec), NoCommand, {})
    <3>1. exec \in Execution /\ AcceptedRow(exec) \in Row
      BY <2>3, PublishedType
    <3>2. QED
      BY <1>3, <2>3, <3>1, PublishedType, WindowType
  <2>4. QED
    BY <2>1, <2>2, <2>3 DEF Init
<1>5. QED
  BY <1>1, <1>2, <1>4 DEF TypeOK

LEMMA StepType == TypeOK /\ [Next]_vars => TypeOK'
<1> SUFFICES ASSUME TypeOK, [Next]_vars PROVE TypeOK'
  OBVIOUS
<1>1. ASSUME NEW w \in Workers, ClaimLost(w) PROVE TypeOK'
  BY <1>1, JobForms DEF ClaimLost, Calm, TypeOK
<1>2. ASSUME NEW w \in Workers, Crash(w) PROVE TypeOK'
  <2>1. faults' \in 0..MaxFaults /\ job' \in [Workers -> Job]
    BY <1>2, FaultType, JobForms DEF Crash
  <2>2. exec' \in Execution
    BY <1>2, GivenUpType DEF Crash
  <2>3. QED
    BY <1>2, <2>1, <2>2 DEF Crash, TypeOK
<1>3. CASE UNCHANGED vars
  BY <1>3 DEF vars, TypeOK
<1>4. QED
  BY <1>1, <1>2, <1>3, SchedulerType, WatchdogType, DispatcherType, ReaderType,
     AdapterType, StopsType, WorldType DEF Next

\* The state keeps its shape, for every timing, worker set and bound.
THEOREM TypeCorrect == Spec => []TypeOK
BY InitType, StepType, PTL DEF Spec

----------------------------------------------------------------------------
(***************************************************************************)
(* What the steps of TaskLifecycle never do, and the invariants behind its *)
(* safety properties, proved for every timing, worker set and bound.       *)
(***************************************************************************)

(***************************************************************************)
(* The row never regresses.                                                *)
(***************************************************************************)

\* The operators that only claim, release or stop a row, or set its start and
\* its revision through transitionTask, keep what was recorded.
LEMMA OperatorsKeep ==
    ASSUME NEW r \in Row, NEW w, NEW outcome
    PROVE  /\ Keeps(r, r)
           /\ Keeps(r, Unclaim(r))
           /\ Keeps(r, Claim(r, w))
           /\ Keeps(r, FailTask(r, outcome))
           /\ ~IsTerminalState(r.state) =>
                 /\ Keeps(r, Unclaim(Missed(r)))
                 /\ Keeps(r, ReleaseScheduleRetry(r))
                 /\ Keeps(r, CompleteScheduledRejection(r))
                 /\ \A reason \in StopReasons : Keeps(r, Stopped(r, reason))
<1>1. Keeps(r, r) /\ Keeps(r, Unclaim(r)) /\ Keeps(r, Claim(r, w))
  BY DEF Keeps, Unclaim, Claim, Row
<1>2. Keeps(r, FailTask(r, outcome))
  BY DEF Keeps, FailTask, TransitionTask, Row
<1>3. ASSUME ~IsTerminalState(r.state)
      PROVE  /\ Keeps(r, Unclaim(Missed(r)))
             /\ Keeps(r, ReleaseScheduleRetry(r))
             /\ Keeps(r, CompleteScheduledRejection(r))
             /\ \A reason \in StopReasons : Keeps(r, Stopped(r, reason))
  BY <1>3 DEF Keeps, Unclaim, Missed, ReleaseScheduleRetry,
              CompleteScheduledRejection, Stopped, Row
<1>4. QED
  BY <1>1, <1>2, <1>3

\* So do the operators that take an answer of the Adapter.
LEMMA AnswersKeep ==
    ASSUME NEW r \in Row, NEW a \in Answer
    PROVE  /\ Keeps(r, AcceptScheduled(r, a))
           /\ Keeps(r, ConfirmStarted(r, a))
           /\ Keeps(r, RejectUserCancel(r, a))
           /\ \A t \in Transition : Keeps(r, ApplySnapshot(r, a.rev, t))
<1>1. a.rev \in Nat /\ r.rev \in Nat
  BY DEF Answer, Row
<1>2. Keeps(r, AcceptScheduled(r, a))
  BY <1>1 DEF Keeps, AcceptScheduled, TransitionAt, Unclaim, Row
<1>3. Keeps(r, ConfirmStarted(r, a))
  BY <1>1 DEF Keeps, ConfirmStarted, TransitionAt, Unclaim, Row
<1>4. Keeps(r, RejectUserCancel(r, a))
  BY <1>1 DEF Keeps, RejectUserCancel, TransitionTask, Row
<1>5. ASSUME NEW t \in Transition PROVE Keeps(r, ApplySnapshot(r, a.rev, t))
  BY <1>1 DEF Keeps, ApplySnapshot, TransitionAt, Row
<1>6. QED
  BY <1>2, <1>3, <1>4, <1>5

\* And the stop of a missed start window.
LEMMA WindowKeeps ==
    ASSUME NEW r \in Row, NEW c, NEW o PROVE Keeps(r, WindowRow(r, c, o))
BY DEF Keeps, WindowRow, Stopped, Unclaim, Row

\* Two steps that keep make one.
LEMMA KeepsTransitive ==
    ASSUME NEW r \in Row, NEW q \in Row, NEW p \in Row,
           Keeps(r, q), Keeps(q, p)
    PROVE  Keeps(r, p)
BY DEF Keeps, Row

LEMMA StepKeeps == TypeOK /\ [Next]_vars => Keeps(row, row')
<1> SUFFICES ASSUME TypeOK, [Next]_vars PROVE Keeps(row, row')
  OBVIOUS
<1>1. row \in Row
  BY DEF TypeOK
<1>2. Keeps(row, row)
  BY <1>1, OperatorsKeep
<1>3. ASSUME NEW w \in Workers, SchedulerStep(w) PROVE Keeps(row, row')
  <2>1. job[w].answer \in Answer
    BY JobForms
  <2>2. CASE ClaimDueScheduled(w)
    BY <1>1, <2>2 DEF ClaimDueScheduled, Claim, Keeps, Row, IsTerminalState,
                      TerminalStates
  <2>3. CASE StartClaimed(w) \/ ClaimExpiredStart(w)
    BY <1>1, <2>3, OperatorsKeep DEF StartClaimed, ClaimExpiredStart
  <2>4. CASE StartTooLate(w) \/ StartNotLoaded(w) \/ StartAbsent(w)
             \/ StartRejected(w)
    <3>1. ~IsTerminalState(row.state)
      BY <2>4 DEF StartTooLate, StartNotLoaded, StartAbsent, StartRejected,
                  Starting, OwnsStart, IsTerminalState, TerminalStates
    <3>2. QED
      BY <1>1, <2>4, <3>1, OperatorsKeep
         DEF StartTooLate, StartNotLoaded, StartAbsent, StartRejected
  <2>5. CASE StartAccepted(w)
    <3> DEFINE r == AcceptScheduled(row, job[w].answer)
    <3>1. r \in Row /\ Keeps(row, r)
      BY <1>1, <2>1, AnswerType, AnswersKeep
    <3>2. WindowRow(r, cmd, outbox) \in Row /\ Keeps(r, WindowRow(r, cmd, outbox))
      BY <3>1, WindowType, WindowKeeps DEF TypeOK
    <3>3. row' = r \/ row' = WindowRow(r, cmd, outbox)
      BY <2>5 DEF StartAccepted, PersistStartWindowStop
    <3>4. QED
      BY <1>1, <3>1, <3>2, <3>3, KeepsTransitive
  <2>6. CASE StartUncertain(w)
    <3>1. row' = row \/ \E lease \in {"over", "held"} :
                          row' = [row EXCEPT !.owner = NoWorker, !.lease = lease]
      BY <2>6 DEF StartUncertain
    <3>2. QED
      BY <1>1, <1>2, <3>1 DEF Keeps, Row
  <2>7. QED
    BY <1>3, <2>2, <2>3, <2>4, <2>5, <2>6 DEF SchedulerStep
<1>4. ASSUME NEW w \in Workers, WatchdogStep(w) PROVE Keeps(row, row')
  <2>1. CASE ClaimBoundStart(w)
    BY <1>1, <2>1 DEF ClaimBoundStart, Claim, Keeps, Row, Terminal
  <2>2. CASE ConfirmBoundStarted(w)
    <3>1. job[w].answer \in Answer
      BY JobForms
    <3>2. QED
      BY <1>1, <2>2, <3>1, AnswersKeep DEF ConfirmBoundStarted
  <2>3. CASE DeferStartConfirmation(w)
    BY <1>1, <2>3 DEF DeferStartConfirmation, Keeps, Row
  <2>4. CASE StopUnconfirmedBoundExecution(w)
    BY <1>1, <2>4, WindowKeeps
       DEF StopUnconfirmedBoundExecution, PersistStartWindowStop
  <2>5. QED
    BY <1>4, <2>1, <2>2, <2>3, <2>4 DEF WatchdogStep
<1>5. ASSUME NEW w \in Workers, DispatcherStep(w) PROVE Keeps(row, row')
  <2>1. CASE FailSafeStop(w)
    BY <1>1, <2>1, OperatorsKeep DEF FailSafeStop
  <2>2. CASE RestoreAfterRejection(w)
    <3>1. job[w].answer \in Answer
      BY JobForms
    <3>2. QED
      BY <1>1, <2>2, <3>1, AnswersKeep
         DEF RestoreAfterRejection, Answer
  <2>3. CASE row' = row
    BY <1>2, <2>3
  <2>4. QED
    BY <1>5, <2>1, <2>2, <2>3
       DEF DispatcherStep, ClaimCommand, DispatchCancel, DispatchTerminal,
           AcknowledgeClaimedCommand, RecheckRejectedCancel,
           RetryClaimedCommand, RejectMismatched
<1>6. ASSUME NEW w \in Workers, ReaderStep(w) PROVE Keeps(row, row')
  <2>1. CASE ApplyFound(w)
    <3>1. job[w].answer \in Answer /\ job[w].answer.state \in ExecStates
          /\ job[w].stop \in StopReasons
      BY JobForms DEF Job, Answer
    <3>2. StopTransition(job[w].stop, job[w].answer.state) \in Transition
      BY <3>1, StopType
    <3>3. QED
      BY <1>1, <2>1, <3>1, <3>2, AnswersKeep DEF ApplyFound
  <2>2. CASE FailRecoveryNotFound(w)
    BY <1>1, <2>2, OperatorsKeep DEF FailRecoveryNotFound
  <2>3. CASE row' = row
    BY <1>2, <2>3
  <2>4. QED
    BY <1>6, <2>1, <2>2, <2>3
       DEF ReaderStep, ReadTask, ListForRecovery, Recover, ReadUnavailable,
           ReadMismatched
<1>7. ASSUME Sweep \/ Client PROVE Keeps(row, row')
  <2>1. CASE CompleteDueStartWindowMisses
    BY <1>1, <2>1, OperatorsKeep
       DEF CompleteDueStartWindowMisses, IsTerminalState, TerminalStates
  <2>2. CASE ClaimExpiredDeadlines
    BY <1>1, <1>2, <2>2, OperatorsKeep
       DEF ClaimExpiredDeadlines, Terminal, StopReasons
  <2>3. CASE BeginCancel
    BY <1>1, <2>3, OperatorsKeep DEF BeginCancel, Terminal, StopReasons
  <2>4. CASE RecordCooperativeIntent
    BY <1>1, <2>4 DEF RecordCooperativeIntent, Terminal, Keeps, Row
  <2>5. QED
    BY <1>7, <2>1, <2>2, <2>3, <2>4 DEF Sweep, Client
<1>8. ASSUME Timers PROVE Keeps(row, row')
  BY <1>1, <1>2, <1>8 DEF Timers, LeaseElapses, NextStartElapses,
                          CommandTimerElapses, Tick, Keeps, Row
<1>9. ASSUME LateStart \/ AdapterProgress \/ AdapterStops PROVE row' = row
  BY <1>9 DEF LateStart, AdapterProgress, AdapterStops, Advance, Quiet
<1>10. ASSUME NEW w \in Workers, AdapterStep(w) \/ ClaimLost(w) \/ Crash(w)
       PROVE  row' = row
  BY <1>10 DEF AdapterStep, AdapterStarts, AdapterRefusesStart, AdapterCancels,
               AdapterRefusesCancel, AdapterReconciles, AdapterMisanswers,
               CallFails, CallAbandoned, Quiet, ClaimLost, Crash
<1>11. CASE UNCHANGED vars
  BY <1>2, <1>11 DEF vars
<1>12. QED
  BY <1>2, <1>3, <1>4, <1>5, <1>6, <1>7, <1>8, <1>9, <1>10, <1>11 DEF Next

\* Terminal rows are final, a recorded start is never forgotten, a bound row
\* stays bound and the revision never goes back.
THEOREM RowIsMonotone == Spec => RowNeverRegresses
<1>1. TypeOK /\ [Next]_vars => [Keeps(row, row')]_vars
  BY StepKeeps
<1>2. QED
  BY <1>1, TypeCorrect, PTL DEF Spec, RowNeverRegresses

(***************************************************************************)
(* The Adapter's answers stay true.  An execution only moves forward and   *)
(* its end is final, so an answer that is still in flight, however old,    *)
(* names a revision the execution has reached and an end it has come to.   *)
(***************************************************************************)

AnswersAreTrue ==
    /\ exec.state = "none" => exec.rev = 0 /\ exec.late # "began"
    /\ \A w \in Workers :
          /\ job[w].answer.rev <= exec.rev
          /\ job[w].answer.status \in {"accepted", "found"} => exec.state # "none"
          /\ job[w].answer.state \in ExecTerminal
                => exec.state = job[w].answer.state

Grows(e, new) ==
    /\ new.rev >= e.rev
    /\ e.state # "none" => new.state # "none"
    /\ e.state \in ExecTerminal => new.state = e.state
    /\ new.state = "none" => new.rev = 0 /\ new.late # "began"
    /\ e.late = "began" => new.late = "began"

LEMMA InitAnswers == Init => AnswersAreTrue
<1> SUFFICES ASSUME Init PROVE AnswersAreTrue
  OBVIOUS
<1>1. TypeOK
  BY InitType
<1>2. exec.state = "none" => exec.rev = 0 /\ exec.late # "began"
  BY DEF Init, NoExecution, Started, FirstStates
<1>3. ASSUME NEW w \in Workers
      PROVE  job[w].answer = [status |-> "none", state |-> "none", rev |-> 0]
  BY DEF Init, NoJob, NoAnswer
<1>4. exec.rev >= 0
  BY <1>1 DEF TypeOK, Execution
<1>5. QED
  BY <1>2, <1>3, <1>4 DEF AnswersAreTrue, ExecTerminal

LEMMA StepExecution ==
    TypeOK /\ AnswersAreTrue /\ [Next]_vars => Grows(exec, exec')
<1> SUFFICES ASSUME TypeOK, AnswersAreTrue, [Next]_vars
             PROVE  Grows(exec, exec')
  OBVIOUS
<1>1. exec \in Execution /\ Grows(exec, exec)
  BY DEF TypeOK, AnswersAreTrue, Grows, Execution
<1>2. ASSUME NEW w \in Workers, AdapterStep(w) PROVE Grows(exec, exec')
  <2>1. CASE AdapterStarts(w)
    <3>1. PICK e \in Launched(w) : exec' = e
      BY <2>1 DEF AdapterStarts
    <3>2. CASE exec.state = "none"
      BY <1>1, <3>1, <3>2 DEF Launched, Started, StartedLate, FirstStates,
                              Grows, Execution, ExecTerminal, AnswersAreTrue
    <3>3. CASE exec.state # "none"
      BY <1>1, <3>1, <3>3 DEF Launched
    <3>4. QED
      BY <3>2, <3>3
  <2>2. CASE AdapterCancels(w)
    <3>1. exec'.state = exec.state /\ exec'.rev = exec.rev
          /\ exec'.late = exec.late
      BY <1>1, <2>2 DEF AdapterCancels, Execution
    <3>2. QED
      BY <1>1, <3>1 DEF Grows
  <2>3. CASE exec' = exec
    BY <1>1, <2>3
  <2>4. CASE GivenUp(w)
    BY <1>1, <2>4, GivenUpType DEF SameExecution, Grows
  <2>5. QED
    BY <1>2, <2>1, <2>2, <2>3, <2>4
       DEF AdapterStep, AdapterRefusesStart, AdapterRefusesCancel,
           AdapterReconciles, AdapterMisanswers, CallFails, CallAbandoned
<1>3. ASSUME AdapterProgress \/ AdapterStops PROVE Grows(exec, exec')
  <2>1. PICK s \in ExecStates : Advance(s) /\ s # "none"
                              /\ exec.state \notin ExecTerminal
    BY <1>3 DEF AdapterProgress, AdapterStops, Moves, ExecStates, ExecLive,
                ExecTerminal
  <2>2. exec'.rev = exec.rev + 1 /\ exec'.state = s /\ exec'.late = exec.late
    BY <1>1, <2>1 DEF Advance, Execution
  <2>3. QED
    BY <1>1, <2>1, <2>2 DEF Grows, Execution
<1>4. ASSUME \/ \E w \in Workers : \/ SchedulerStep(w) \/ WatchdogStep(w)
                                   \/ DispatcherStep(w) \/ ReaderStep(w)
                                   \/ ClaimLost(w)
             \/ Sweep \/ Client \/ Timers \/ UNCHANGED vars
      PROVE  exec' = exec
  BY <1>4 DEF SchedulerStep, ClaimDueScheduled, StartClaimed, StartTooLate,
     StartNotLoaded, ClaimExpiredStart, StartAccepted, StartAbsent,
     StartRejected, StartUncertain, WatchdogStep, ClaimBoundStart,
     ConfirmBoundStarted, DeferStartConfirmation,
     StopUnconfirmedBoundExecution, DispatcherStep, ClaimCommand,
     DispatchCancel, DispatchTerminal, AcknowledgeClaimedCommand,
     RecheckRejectedCancel, FailSafeStop, RetryClaimedCommand,
     RejectMismatched, RestoreAfterRejection, Stopping, ReaderStep, ReadTask,
     ListForRecovery, Recover, ApplyFound, ReadUnavailable, ReadMismatched,
     FailRecoveryNotFound, Reading, ClaimLost, Sweep,
     CompleteDueStartWindowMisses, ClaimExpiredDeadlines, Client, BeginCancel,
     RecordCooperativeIntent, Timers, LeaseElapses, NextStartElapses,
     CommandTimerElapses, Tick, Calm, vars
<1>5. ASSUME NEW w \in Workers, Crash(w) PROVE Grows(exec, exec')
  BY <1>1, <1>5, GivenUpType DEF Crash, SameExecution, Grows
<1>6. CASE LateStart
  BY <1>1, <1>6 DEF LateStart, StartedLate, Started, FirstStates, Grows,
                    Execution, ExecTerminal, AnswersAreTrue
<1>7. QED
  BY <1>1, <1>2, <1>3, <1>4, <1>5, <1>6 DEF Next

\* A step of a worker on the row leaves every answer as it is, or forgets it.
LEMMA AnswersForgotten ==
    ASSUME TypeOK, [Next]_vars, NEW v \in Workers,
           \A w \in Workers : ~AdapterStep(w)
    PROVE  job'[v].answer = job[v].answer \/ job'[v].answer = NoAnswer
<1>1. job \in [Workers -> Job] /\ job[v] \in Job /\ NoJob.answer = NoAnswer
  BY JobForms DEF TypeOK, NoJob
<1>2. CASE job' = job
  BY <1>2
<1>3. ASSUME NEW w \in Workers, NEW j,
             job' = [job EXCEPT ![w] = j],
             j.answer = job[w].answer \/ j.answer = NoAnswer
      PROVE  job'[v].answer = job[v].answer \/ job'[v].answer = NoAnswer
  BY <1>1, <1>3
<1>4. ASSUME NEW w \in Workers, Done(w)
      PROVE  job'[v].answer = job[v].answer \/ job'[v].answer = NoAnswer
  BY <1>1, <1>3, <1>4 DEF Done
<1>5. ASSUME NEW w \in Workers, Send(w)
      PROVE  job'[v].answer = job[v].answer \/ job'[v].answer = NoAnswer
  BY <1>1, <1>5 DEF Send, Job
<1>6. ASSUME NEW w \in Workers, NEW kind, NEW phase, NEW stop,
             Begin(w, kind, phase, stop)
      PROVE  job'[v].answer = job[v].answer \/ job'[v].answer = NoAnswer
  BY <1>1, <1>6 DEF Begin, NoJob
<1>7. ASSUME NEW w \in Workers, SchedulerStep(w) \/ WatchdogStep(w)
      PROVE  job'[v].answer = job[v].answer \/ job'[v].answer = NoAnswer
  BY <1>4, <1>5, <1>6, <1>7
     DEF SchedulerStep, ClaimDueScheduled, StartClaimed, StartTooLate,
         StartNotLoaded, ClaimExpiredStart, StartAccepted, StartAbsent,
         StartRejected, StartUncertain, Starting, WatchdogStep,
         ClaimBoundStart, ConfirmBoundStarted, DeferStartConfirmation,
         StopUnconfirmedBoundExecution, Confirming
<1>8. ASSUME NEW w \in Workers, DispatcherStep(w)
      PROVE  job'[v].answer = job[v].answer \/ job'[v].answer = NoAnswer
  <2>1. CASE ClaimCommand(w)
    BY <1>1, <2>1 DEF ClaimCommand, NoJob
  <2>2. CASE RecheckRejectedCancel(w)
    BY <1>1, <2>2 DEF RecheckRejectedCancel, Job
  <2>3. QED
    BY <1>4, <1>5, <1>8, <2>1, <2>2
       DEF DispatcherStep, DispatchCancel, DispatchTerminal,
           AcknowledgeClaimedCommand, FailSafeStop, RetryClaimedCommand,
           RejectMismatched, RestoreAfterRejection
<1>9. ASSUME NEW w \in Workers, ReaderStep(w)
      PROVE  job'[v].answer = job[v].answer \/ job'[v].answer = NoAnswer
  <2>1. CASE Recover(w)
    <3>1. CASE Done(w)
      BY <1>4, <3>1
    <3>2. CASE job' = [job EXCEPT ![w].phase = "sent", ![w].stop = row.stop]
      BY <1>1, <3>2 DEF Job
    <3>3. QED
      BY <2>1, <3>1, <3>2 DEF Recover
  <2>2. CASE ReadUnavailable(w)
    <3>1. CASE Done(w)
      BY <1>4, <3>1
    <3>2. CASE job' = [job EXCEPT ![w].kind = "recover", ![w].phase = "sent",
                                  ![w].answer = NoAnswer]
      BY <1>1, <3>2 DEF Job
    <3>3. QED
      BY <2>2, <3>1, <3>2 DEF ReadUnavailable
  <2>3. QED
    BY <1>4, <1>6, <1>9, <2>1, <2>2
       DEF ReaderStep, ReadTask, ListForRecovery, ApplyFound, ReadMismatched,
           FailRecoveryNotFound
<1>10. ASSUME \/ Sweep \/ Client \/ Timers \/ LateStart \/ AdapterProgress
              \/ AdapterStops \/ UNCHANGED vars
       PROVE  job' = job
  BY <1>10 DEF Sweep, CompleteDueStartWindowMisses, ClaimExpiredDeadlines,
     Client, BeginCancel, RecordCooperativeIntent, Timers, LeaseElapses,
     NextStartElapses, CommandTimerElapses, Tick, LateStart, AdapterProgress,
     AdapterStops, Advance, vars
<1>11. QED
  BY <1>2, <1>4, <1>7, <1>8, <1>9, <1>10 DEF Next, ClaimLost, Crash

LEMMA StepAnswers ==
    TypeOK /\ AnswersAreTrue /\ [Next]_vars => AnswersAreTrue'
<1> SUFFICES ASSUME TypeOK, AnswersAreTrue, [Next]_vars
             PROVE  AnswersAreTrue'
  OBVIOUS
<1>1. Grows(exec, exec') /\ exec \in Execution /\ exec' \in Execution
  BY StepExecution, StepType DEF TypeOK
<1> DEFINE True(a, e) == /\ a.rev <= e.rev
                         /\ a.status \in {"accepted", "found"} => e.state # "none"
                         /\ a.state \in ExecTerminal => e.state = a.state
<1>2. \A v \in Workers : True(job[v].answer, exec) /\ job[v].answer \in Answer
  BY JobForms DEF AnswersAreTrue
<1>3. ASSUME NEW a \in Answer, True(a, exec) PROVE True(a, exec')
  BY <1>1, <1>3 DEF Grows, Execution, Answer
<1>4. NoAnswer \in Answer /\ True(NoAnswer, exec)
  <2>1. NoAnswer \in Answer
    BY DEF NoAnswer, Answer, Statuses, ExecStates
  <2>2. True(NoAnswer, exec)
    BY <1>1 DEF NoAnswer, ExecTerminal, Execution
  <2>3. QED
    BY <2>1, <2>2
<1>5. ASSUME NEW w \in Workers, AdapterStep(w), NEW v \in Workers
      PROVE  True(job'[v].answer, exec')
  <2>1. CASE job'[v].answer = job[v].answer
    BY <1>2, <1>3, <2>1
  <2>2. CASE v = w /\ job'[v].answer # job[v].answer
    <3>1. job \in [Workers -> Job] /\ job[w] \in Job
      BY JobForms DEF TypeOK
    <3>2. ASSUME NEW status \in Statuses \ {"accepted", "found"},
                 Reply(w, status)
          PROVE  True(job'[w].answer, exec')
      <4>1. job'[w].answer = [NoAnswer EXCEPT !.status = status]
        BY <3>1, <3>2 DEF Reply, Job
      <4>2. QED
        BY <1>1, <4>1 DEF NoAnswer, ExecTerminal, Execution
    <3>3. ASSUME NEW status \in Statuses, ReplyWith(w, status, exec'),
                 exec'.state # "none"
          PROVE  True(job'[w].answer, exec')
      <4>1. job'[w].answer = [status |-> status, state |-> exec'.state,
                              rev |-> exec'.rev]
        BY <3>1, <3>3 DEF ReplyWith, Job
      <4>2. QED
        BY <1>1, <3>3, <4>1 DEF Execution
    <3>4. {"unavailable", "mismatch", "retryable", "rejected", "notfound",
           "conflict"} \subseteq Statuses \ {"accepted", "found"}
          /\ {"accepted", "found"} \subseteq Statuses
      BY DEF Statuses
    <3>5. CASE AdapterStarts(w)
      <4>1. exec'.state # "none"
        <5>1. PICK e \in Launched(w) : exec' = e
          BY <3>5 DEF AdapterStarts
        <5>2. QED
          BY <5>1 DEF Launched, Started, StartedLate, FirstStates
      <4>2. \/ ReplyWith(w, "accepted", exec')
            \/ Reply(w, "unavailable") \/ Reply(w, "mismatch")
        BY <3>5 DEF AdapterStarts
      <4>3. QED
        BY <2>2, <3>2, <3>3, <3>4, <4>1, <4>2
    <3>6. CASE AdapterCancels(w)
      <4>1. Reply(w, "unavailable") \/ Reply(w, "mismatch") => True(job'[w].answer, exec')
        BY <3>2, <3>4
      <4>2. ASSUME Reply(w, "accepted") PROVE True(job'[w].answer, exec')
        <5>1. job'[w].answer = [NoAnswer EXCEPT !.status = "accepted"]
          BY <3>1, <4>2 DEF Reply, Job
        <5>2. exec'.state # "none"
          BY <1>1, <3>6 DEF AdapterCancels, Execution
        <5>3. QED
          BY <1>1, <5>1, <5>2 DEF NoAnswer, ExecTerminal, Execution
      <4>3. QED
        BY <2>2, <3>6, <4>1, <4>2 DEF AdapterCancels
    <3>7. CASE AdapterReconciles(w)
      <4>1. exec' = exec
        BY <3>7 DEF AdapterReconciles
      <4>2. Reply(w, "notfound")
            \/ (exec'.state # "none" /\ ReplyWith(w, "found", exec'))
        BY <3>7, <4>1 DEF AdapterReconciles
      <4>3. QED
        BY <2>2, <3>2, <3>3, <3>4, <4>2
    <3>8. CASE \E status \in Statuses \ {"accepted", "found"} : Reply(w, status)
      BY <2>2, <3>2, <3>8
    <3>9. QED
      BY <1>5, <3>4, <3>5, <3>6, <3>7, <3>8
         DEF AdapterStep, AdapterRefusesStart, AdapterRefusesCancel,
             AdapterMisanswers, CallFails, CallAbandoned
  <2>3. CASE v # w
    <3>1. job'[v] = job[v]
      BY <1>5, <2>3 DEF AdapterStep, AdapterStarts, AdapterRefusesStart,
         AdapterCancels, AdapterRefusesCancel, AdapterReconciles,
         AdapterMisanswers, CallFails, CallAbandoned, Reply, ReplyWith, TypeOK
    <3>2. QED
      BY <2>1, <3>1
  <2>4. QED
    BY <2>1, <2>2, <2>3
<1>6. ASSUME NEW v \in Workers PROVE True(job'[v].answer, exec')
  <2>1. CASE \E w \in Workers : AdapterStep(w)
    BY <1>5, <2>1
  <2>2. CASE \A w \in Workers : ~AdapterStep(w)
    <3>1. job'[v].answer = job[v].answer \/ job'[v].answer = NoAnswer
      BY <2>2, AnswersForgotten
    <3>2. QED
      BY <1>2, <1>3, <1>4, <3>1
  <2>3. QED
    BY <2>1, <2>2
<1>7. QED
  BY <1>1, <1>6 DEF AnswersAreTrue, Grows

(***************************************************************************)
(* The row never claims more than the Adapter said.                        *)
(***************************************************************************)

RowIsReal == row.rev <= exec.rev /\ (row.ext => exec.state # "none")

\* A row takes its revision from the old row or from an answer, and is bound
\* only if it was or the answer names an execution.
Sourced(r, a, new) ==
    /\ new.rev = r.rev \/ new.rev = a.rev
    /\ new.ext = r.ext \/ a.status \in {"accepted", "found"}
Same(r, new) == new.rev = r.rev /\ new.ext = r.ext

LEMMA OperatorsSame ==
    ASSUME NEW r \in Row, NEW w, NEW reason, NEW outcome, NEW c, NEW o
    PROVE  /\ Same(r, Unclaim(r)) /\ Same(r, Claim(r, w))
           /\ Same(r, Unclaim(Missed(r)))
           /\ Same(r, Stopped(r, reason))
           /\ Same(r, ReleaseScheduleRetry(r))
           /\ Same(r, CompleteScheduledRejection(r))
           /\ Same(r, FailTask(r, outcome))
           /\ Same(r, WindowRow(r, c, o))
<1>1. Same(r, Unclaim(r)) /\ Same(r, Claim(r, w)) /\ Same(r, Unclaim(Missed(r)))
      /\ Same(r, Stopped(r, reason))
  BY DEF Same, Unclaim, Claim, Missed, Stopped, Row
<1>2. Same(r, ReleaseScheduleRetry(r)) /\ Same(r, CompleteScheduledRejection(r))
  BY DEF Same, ReleaseScheduleRetry, CompleteScheduledRejection, Unclaim, Row
<1>3. Same(r, FailTask(r, outcome))
  BY DEF Same, FailTask, TransitionTask, Row
<1>4. Same(r, WindowRow(r, c, o))
  BY DEF Same, WindowRow, Stopped, Unclaim, Row
<1>5. QED
  BY <1>1, <1>2, <1>3, <1>4

LEMMA AnswersSource ==
    ASSUME NEW r \in Row, NEW a \in Answer
    PROVE  /\ a.status \in {"accepted", "found"}
                 => Sourced(r, a, AcceptScheduled(r, a))
           /\ Sourced(r, a, ConfirmStarted(r, a))
           /\ Sourced(r, a, RejectUserCancel(r, a))
           /\ \A t \in Transition : Sourced(r, a, ApplySnapshot(r, a.rev, t))
<1>1. a.status \in {"accepted", "found"} => Sourced(r, a, AcceptScheduled(r, a))
  BY DEF Sourced, AcceptScheduled, TransitionAt, Unclaim, Row
<1>2. Sourced(r, a, ConfirmStarted(r, a))
  BY DEF Sourced, ConfirmStarted, TransitionAt, Unclaim, Row
<1>3. Sourced(r, a, RejectUserCancel(r, a))
  BY DEF Sourced, RejectUserCancel, TransitionTask, Row
<1>4. ASSUME NEW t \in Transition PROVE Sourced(r, a, ApplySnapshot(r, a.rev, t))
  BY DEF Sourced, ApplySnapshot, TransitionAt, Row
<1>5. QED
  BY <1>1, <1>2, <1>3, <1>4

LEMMA InitReal == Init => RowIsReal
<1> SUFFICES ASSUME Init PROVE RowIsReal
  OBVIOUS
<1>1. CASE row = ScheduledRow /\ exec = NoExecution
  BY <1>1 DEF ScheduledRow, NoExecution, RowIsReal
<1>2. ASSUME NEW s \in FirstStates
      PROVE  /\ AcceptedRow(Started(s)) \in Row
             /\ AcceptedRow(Started(s)).rev = 1
             /\ Started(s).rev = 1 /\ Started(s).state # "none"
  BY PublishedType DEF AcceptedRow, Started, ScheduledRow, FirstStates
<1>3. CASE \E s \in FirstStates : exec = Started(s) /\ row = AcceptedRow(exec)
  BY <1>2, <1>3 DEF RowIsReal
<1>4. CASE \E s \in FirstStates :
             exec = Started(s)
             /\ row = WindowRow(AcceptedRow(exec), NoCommand, {})
  BY <1>2, <1>4, OperatorsSame DEF RowIsReal, Same
<1>5. QED
  BY <1>1, <1>3, <1>4 DEF Init

LEMMA StepReal ==
    TypeOK /\ AnswersAreTrue /\ RowIsReal /\ [Next]_vars => RowIsReal'
<1> SUFFICES ASSUME TypeOK, AnswersAreTrue, RowIsReal, [Next]_vars
             PROVE  RowIsReal'
  OBVIOUS
<1>1. row \in Row /\ row' \in Row /\ exec \in Execution /\ exec' \in Execution
      /\ Grows(exec, exec')
  BY StepType, StepExecution DEF TypeOK
<1>2. ASSUME Same(row, row') PROVE RowIsReal'
  BY <1>1, <1>2 DEF RowIsReal, Same, Grows, Row, Execution
<1>3. ASSUME NEW w \in Workers, Sourced(row, job[w].answer, row')
      PROVE  RowIsReal'
  <2>1. job[w].answer \in Answer
    BY JobForms
  <2>2. QED
    BY <1>1, <1>3, <2>1
       DEF RowIsReal, Sourced, AnswersAreTrue, Grows, Row, Execution, Answer
<1>4. ASSUME row' = row PROVE RowIsReal'
  BY <1>2, <1>4 DEF Same
<1>5. ASSUME NEW w \in Workers, SchedulerStep(w) PROVE RowIsReal'
  <2>1. CASE StartAccepted(w)
    <3> DEFINE r == AcceptScheduled(row, job[w].answer)
    <3>1. job[w].answer \in Answer
      BY JobForms
    <3>2. job[w].answer.status \in {"accepted", "found"}
      BY <2>1 DEF StartAccepted, Starting
    <3>3. r \in Row /\ Sourced(row, job[w].answer, r)
      BY <1>1, <3>1, <3>2, AnswerType, AnswersSource
    <3>4. row' = r \/ row' = WindowRow(r, cmd, outbox)
      BY <2>1 DEF StartAccepted, PersistStartWindowStop
    <3>5. Sourced(row, job[w].answer, row')
      BY <3>3, <3>4, OperatorsSame DEF Same, Sourced
    <3>6. QED
      BY <1>3, <3>5
  <2>2. CASE ClaimDueScheduled(w)
    BY <1>1, <1>2, <2>2 DEF ClaimDueScheduled, Claim, Same, Row
  <2>3. CASE StartUncertain(w)
    <3>1. row' = row \/ \E lease \in {"over", "held"} :
                          row' = [row EXCEPT !.owner = NoWorker, !.lease = lease]
      BY <2>3 DEF StartUncertain
    <3>2. QED
      BY <1>1, <1>2, <3>1 DEF Same, Row
  <2>4. QED
    BY <1>1, <1>2, <1>5, <2>1, <2>2, <2>3, OperatorsSame
       DEF SchedulerStep, StartClaimed, StartTooLate, StartNotLoaded,
           ClaimExpiredStart, StartAbsent, StartRejected
<1>6. ASSUME NEW w \in Workers, WatchdogStep(w) PROVE RowIsReal'
  <2>1. CASE ConfirmBoundStarted(w)
    <3>1. job[w].answer \in Answer
      BY JobForms
    <3>2. QED
      BY <1>1, <1>3, <2>1, <3>1, AnswersSource DEF ConfirmBoundStarted
  <2>2. CASE ClaimBoundStart(w) \/ DeferStartConfirmation(w)
    BY <1>1, <1>2, <2>2
       DEF ClaimBoundStart, Claim, DeferStartConfirmation, Same, Row
  <2>3. CASE StopUnconfirmedBoundExecution(w)
    BY <1>1, <1>2, <2>3, OperatorsSame
       DEF StopUnconfirmedBoundExecution, PersistStartWindowStop
  <2>4. QED
    BY <1>6, <2>1, <2>2, <2>3 DEF WatchdogStep
<1>7. ASSUME NEW w \in Workers, DispatcherStep(w) PROVE RowIsReal'
  <2>1. CASE FailSafeStop(w)
    BY <1>1, <1>2, <2>1, OperatorsSame DEF FailSafeStop
  <2>2. CASE RestoreAfterRejection(w)
    <3>1. job[w].answer \in Answer
      BY JobForms
    <3>2. QED
      BY <1>1, <1>3, <2>2, <3>1, AnswersSource DEF RestoreAfterRejection
  <2>3. QED
    BY <1>4, <1>7, <2>1, <2>2
       DEF DispatcherStep, ClaimCommand, DispatchCancel, DispatchTerminal,
           AcknowledgeClaimedCommand, RecheckRejectedCancel,
           RetryClaimedCommand, RejectMismatched
<1>8. ASSUME NEW w \in Workers, ReaderStep(w) PROVE RowIsReal'
  <2>1. CASE ApplyFound(w)
    <3>1. job[w].answer \in Answer /\ job[w].answer.state \in ExecStates
          /\ job[w].stop \in StopReasons
      BY JobForms DEF Job, Answer
    <3>2. StopTransition(job[w].stop, job[w].answer.state) \in Transition
      BY <3>1, StopType
    <3>3. QED
      BY <1>1, <1>3, <2>1, <3>1, <3>2, AnswersSource DEF ApplyFound
  <2>2. CASE FailRecoveryNotFound(w)
    BY <1>1, <1>2, <2>2, OperatorsSame DEF FailRecoveryNotFound
  <2>3. QED
    BY <1>4, <1>8, <2>1, <2>2
       DEF ReaderStep, ReadTask, ListForRecovery, Recover, ReadUnavailable,
           ReadMismatched
<1>9. ASSUME Sweep \/ Client PROVE RowIsReal'
  <2>1. CASE RecordCooperativeIntent
    BY <1>1, <1>2, <2>1 DEF RecordCooperativeIntent, Same, Row
  <2>2. QED
    BY <1>1, <1>2, <1>4, <1>9, <2>1, OperatorsSame
       DEF Sweep, CompleteDueStartWindowMisses, ClaimExpiredDeadlines, Client,
           BeginCancel
<1>10. ASSUME Timers PROVE RowIsReal'
  BY <1>1, <1>2, <1>4, <1>10 DEF Timers, LeaseElapses, NextStartElapses,
     CommandTimerElapses, Tick, Same, Row
<1>11. ASSUME LateStart \/ AdapterProgress \/ AdapterStops PROVE RowIsReal'
  BY <1>4, <1>11 DEF LateStart, AdapterProgress, AdapterStops, Advance, Quiet
<1>12. ASSUME NEW w \in Workers, AdapterStep(w) \/ ClaimLost(w) \/ Crash(w)
       PROVE  RowIsReal'
  BY <1>4, <1>12 DEF AdapterStep, AdapterStarts, AdapterRefusesStart,
     AdapterCancels, AdapterRefusesCancel, AdapterReconciles,
     AdapterMisanswers, CallFails, CallAbandoned, Quiet, ClaimLost, Crash
<1>13. CASE UNCHANGED vars
  BY <1>4, <1>13 DEF vars
<1>14. QED
  BY <1>5, <1>6, <1>7, <1>8, <1>9, <1>10, <1>11, <1>12, <1>13 DEF Next

\* No row and no answer is ahead of the execution, however old it is.
THEOREM RevisionsAreReal == Spec => []RevisionIsReal
<1> DEFINE Inv == TypeOK /\ AnswersAreTrue /\ RowIsReal
<1>1. Init => Inv
  BY InitType, InitAnswers, InitReal
<1>2. Inv /\ [Next]_vars => Inv'
  BY StepType, StepAnswers, StepReal
<1>3. Inv => RevisionIsReal
  BY DEF AnswersAreTrue, RowIsReal, RevisionIsReal
<1>4. QED
  BY <1>1, <1>2, <1>3, PTL DEF Spec

----------------------------------------------------------------------------
(***************************************************************************)
(* No start without need and no outcome without proof: the invariants that *)
(* make NoSecondSideEffect and OutcomeIsProven inductive.                  *)
(***************************************************************************)

(***************************************************************************)
(* A row that may be started is unbound and has no execution, or one begun *)
(* late.  The scheduler puts a row back only while it holds the claim and  *)
(* was told that there was none; whoever starts one in the meantime does   *)
(* not hold the claim, so that execution is marked as begun late.          *)
(***************************************************************************)

\* The holder of a start has not sent it, or was told that it did not happen.
NotStarted(w) ==
    \/ In(w, "start", "claimed")
    \/ /\ job[w].kind \in {"start", "uncertain"} /\ job[w].phase = "answered"
       /\ job[w].answer.status \in {"retryable", "notfound"}

StartIsFirst ==
    /\ row.state \in {"SCHEDULED", "STARTING"} => ~row.ext
    /\ row.state = "SCHEDULED" => row.owner = NoWorker /\ NoneOrLate(exec)
    /\ \A w \in Workers : OwnsStart(w) /\ NotStarted(w) => NoneOrLate(exec)

(***************************************************************************)
(* An outcome is backed by the execution; a start window missed without an *)
(* execution has no claim through which one could start in time.           *)
(***************************************************************************)

Backed(outcome, s) ==
    /\ outcome = "success" => s = "SUCCEEDED"
    /\ outcome = "technical_failure" => s = "TECHNICAL_FAILED"
    /\ outcome \in {"cancelled", "deadline_reached"} => s = "CANCELLED"

Proven(r, e) ==
    /\ Backed(r.outcome, e.state)
    /\ r.outcome = "start_window_missed"
          => \/ e.state \in ExecTerminal
             \/ ~r.ext /\ e.late = "began"
             \/ ~r.ext /\ e.state = "none" /\ r.owner = NoWorker
    /\ r.outcome # "none" => IsTerminalState(r.state)

OutcomeInvariant == StartIsFirst /\ Proven(row, exec)

(***************************************************************************)
(* Lemmas about the row.                                                   *)
(***************************************************************************)

\* A row that is waiting for its start, or starting, was so before, its claim
\* is the old one or none, and it was not bound.
NoNewStart(r, q) ==
    q.state \in {"SCHEDULED", "STARTING"}
        => /\ q.state = r.state /\ (q.owner = r.owner \/ q.owner = NoWorker)
           /\ q.ext = r.ext

\* No snapshot puts a Task back to where it may be started.
LEMMA SnapshotsStartNothing ==
    ASSUME NEW s, NEW stop
    PROVE  /\ MapAdapterSnapshot(s).state \notin {"SCHEDULED", "STARTING"}
           /\ StopTransition(stop, s).state \notin {"SCHEDULED", "STARTING"}
<1>1. MapAdapterSnapshot(s).state \notin {"SCHEDULED", "STARTING"}
  BY DEF MapAdapterSnapshot
<1>2. QED
  BY <1>1 DEF StopTransition

LEMMA OperatorsStartNothing ==
    ASSUME NEW r \in Row, NEW outcome, NEW reason, NEW c, NEW o
    PROVE  /\ NoNewStart(r, r)
           /\ NoNewStart(r, Unclaim(Missed(r)))
           /\ NoNewStart(r, CompleteScheduledRejection(r))
           /\ NoNewStart(r, FailTask(r, outcome))
           /\ NoNewStart(r, Stopped(r, reason))
           /\ NoNewStart(r, WindowRow(r, c, o))
<1>1. NoNewStart(r, r) /\ NoNewStart(r, Unclaim(Missed(r)))
      /\ NoNewStart(r, CompleteScheduledRejection(r))
  BY DEF NoNewStart, Unclaim, Missed, CompleteScheduledRejection, Row
<1>2. NoNewStart(r, FailTask(r, outcome)) /\ NoNewStart(r, Stopped(r, reason))
  BY DEF NoNewStart, FailTask, TransitionTask, Stopped, Row
<1>3. NoNewStart(r, WindowRow(r, c, o))
  BY DEF NoNewStart, WindowRow, Stopped, Unclaim, Row
<1>4. QED
  BY <1>1, <1>2, <1>3

LEMMA AnswersStartNothing ==
    ASSUME NEW r \in Row, NEW a \in Answer, NEW stop
    PROVE  /\ NoNewStart(r, AcceptScheduled(r, a))
           /\ NoNewStart(r, ConfirmStarted(r, a))
           /\ NoNewStart(r, RejectUserCancel(r, a))
           /\ NoNewStart(r, ApplySnapshot(r, a.rev, StopTransition(stop, a.state)))
<1>1. /\ MapAdapterSnapshot(a.state).state \notin {"SCHEDULED", "STARTING"}
      /\ StopTransition(stop, a.state).state \notin {"SCHEDULED", "STARTING"}
  BY SnapshotsStartNothing
<1>2. NoNewStart(r, AcceptScheduled(r, a))
  BY <1>1 DEF NoNewStart, AcceptScheduled, TransitionAt, Unclaim, Row
<1>3. NoNewStart(r, ConfirmStarted(r, a))
  BY <1>1 DEF NoNewStart, ConfirmStarted, TransitionAt, Unclaim, Row
<1>4. NoNewStart(r, RejectUserCancel(r, a))
  BY <1>1 DEF NoNewStart, RejectUserCancel, TransitionTask, Row
<1>5. NoNewStart(r, ApplySnapshot(r, a.rev, StopTransition(stop, a.state)))
  BY <1>1 DEF NoNewStart, ApplySnapshot, TransitionAt, MergeStopState, Row
<1>6. QED
  BY <1>2, <1>3, <1>4, <1>5

\* The operators that take no answer leave a proved row proved.
LEMMA OperatorsProve ==
    ASSUME NEW r \in Row, NEW e, NEW w, Proven(r, e)
    PROVE  /\ Proven(Unclaim(r), e)
           /\ Proven(FailTask(r, "SAFE_STOP_UNCONFIRMED"), e)
           /\ Proven(FailTask(r, "EXECUTION_NOT_FOUND"), e)
           /\ ~IsTerminalState(r.state) =>
                 /\ Proven(Claim(r, w), e)
                 /\ Proven(ReleaseScheduleRetry(r), e)
                 /\ Proven(CompleteScheduledRejection(r), e)
                 /\ \A reason \in StopReasons : Proven(Stopped(r, reason), e)
                 /\ NoneOrLate(e) /\ ~r.ext => Proven(Unclaim(Missed(r)), e)
<1> USE DEF Proven, Backed, NoneOrLate
<1>1. Proven(Unclaim(r), e)
  BY DEF Unclaim, Row
<1>2. Proven(FailTask(r, "SAFE_STOP_UNCONFIRMED"), e)
      /\ Proven(FailTask(r, "EXECUTION_NOT_FOUND"), e)
  BY DEF FailTask, TransitionTask, Row, IsTerminalState, TerminalStates
<1>3. ASSUME ~IsTerminalState(r.state)
      PROVE  /\ Proven(Claim(r, w), e)
             /\ Proven(ReleaseScheduleRetry(r), e)
             /\ Proven(CompleteScheduledRejection(r), e)
  BY <1>3 DEF Claim, ReleaseScheduleRetry, CompleteScheduledRejection, Unclaim,
              Row, IsTerminalState, TerminalStates
<1>4. ASSUME ~IsTerminalState(r.state), NEW reason \in StopReasons
      PROVE  Proven(Stopped(r, reason), e)
  BY <1>4 DEF Stopped, Row
<1>5. ASSUME ~IsTerminalState(r.state), NoneOrLate(e), ~r.ext
      PROVE  Proven(Unclaim(Missed(r)), e)
  BY <1>5 DEF Unclaim, Missed, Row, IsTerminalState, TerminalStates
<1>6. QED
  BY <1>1, <1>2, <1>3, <1>4, <1>5

LEMMA WindowProves ==
    ASSUME NEW r \in Row, NEW e, NEW c, NEW o, Proven(r, e)
    PROVE  Proven(WindowRow(r, c, o), e)
BY DEF Proven, Backed, WindowRow, Stopped, Unclaim, Row

\* A transition computed from a true answer is backed by the execution.
Justified(t, s) ==
    /\ Backed(t.outcome, s)
    /\ t.outcome = "start_window_missed" => s \in ExecTerminal
    /\ t.outcome # "none" => IsTerminalState(t.state)

LEMMA TransitionsAreJustified ==
    ASSUME NEW s, NEW a \in Answer, NEW stop,
           a.state \in ExecTerminal => s = a.state
    PROVE  /\ Justified(MapAdapterSnapshot(a.state), s)
           /\ Justified(StopTransition(stop, a.state), s)
<1>1. Justified(MapAdapterSnapshot(a.state), s)
  BY DEF Justified, Backed, MapAdapterSnapshot, IsTerminalState, TerminalStates,
         ExecTerminal
<1>2. QED
  BY <1>1 DEF Justified, Backed, StopTransition, IsTerminalState,
              TerminalStates, ExecTerminal

LEMMA AnswersProve ==
    ASSUME NEW r \in Row, NEW e, NEW a \in Answer, NEW stop, Proven(r, e),
           a.state \in ExecTerminal => e.state = a.state
    PROVE  /\ Proven(AcceptScheduled(r, a), e)
           /\ Proven(ConfirmStarted(r, a), e)
           /\ Proven(RejectUserCancel(r, a), e)
           /\ Proven(ApplySnapshot(r, a.rev, StopTransition(stop, a.state)), e)
<1>1. /\ Justified(MapAdapterSnapshot(a.state), e.state)
      /\ Justified(StopTransition(stop, a.state), e.state)
  BY TransitionsAreJustified
<1> USE DEF Justified, Proven, Backed
<1>2. Proven(AcceptScheduled(r, a), e)
  BY <1>1 DEF AcceptScheduled, TransitionAt, Unclaim, Row
<1>3. Proven(ConfirmStarted(r, a), e)
  BY <1>1 DEF ConfirmStarted, TransitionAt, Unclaim, Row
<1>4. Proven(RejectUserCancel(r, a), e)
  BY <1>1 DEF RejectUserCancel, TransitionTask, Row
<1>5. Proven(ApplySnapshot(r, a.rev, StopTransition(stop, a.state)), e)
  BY <1>1 DEF ApplySnapshot, TransitionAt, MergeStopState, Row
<1>6. QED
  BY <1>2, <1>3, <1>4, <1>5

(***************************************************************************)
(* Who may start an execution.                                             *)
(***************************************************************************)

LEMMA InitOutcome == Init => OutcomeInvariant
<1> SUFFICES ASSUME Init PROVE OutcomeInvariant
  OBVIOUS
<1>1. \A w \in Workers : job[w] = NoJob
  BY DEF Init
<1>2. \A w \in Workers : ~NotStarted(w)
  BY <1>1 DEF NotStarted, In, NoJob
<1>3. CASE row = ScheduledRow /\ exec = NoExecution
  BY <1>2, <1>3 DEF OutcomeInvariant, StartIsFirst, Proven, Backed,
                    ScheduledRow, NoExecution, NoneOrLate
<1>4. ASSUME NEW s \in FirstStates, NEW q
      PROVE  /\ AcceptedRow(Started(s)) \in Row
             /\ AcceptedRow(Started(s)).state \notin {"SCHEDULED", "STARTING"}
             /\ Proven(AcceptedRow(Started(s)), q)
  <2>1. MapAdapterSnapshot(s).state \notin {"SCHEDULED", "STARTING"}
    BY SnapshotsStartNothing
  <2>2. QED
    BY <2>1, PublishedType
       DEF AcceptedRow, Started, ScheduledRow, Proven, Backed
<1>5. CASE \E s \in FirstStates : exec = Started(s) /\ row = AcceptedRow(exec)
  BY <1>2, <1>4, <1>5 DEF OutcomeInvariant, StartIsFirst
<1>6. CASE \E s \in FirstStates :
             exec = Started(s)
             /\ row = WindowRow(AcceptedRow(exec), NoCommand, {})
  <2>1. PICK s \in FirstStates :
             exec = Started(s)
             /\ row = WindowRow(AcceptedRow(exec), NoCommand, {})
    BY <1>6
  <2>2. NoNewStart(AcceptedRow(exec), row) /\ Proven(row, exec)
    BY <1>4, <2>1, OperatorsStartNothing, WindowProves
  <2>3. QED
    BY <1>2, <1>4, <2>1, <2>2 DEF NoNewStart, OutcomeInvariant, StartIsFirst
<1>7. QED
  BY <1>3, <1>5, <1>6 DEF Init

\* Outside the Adapter only claimDueScheduled makes a start that is not sent.
LEMMA StartsAreClaimed ==
    ASSUME TypeOK, NEW v \in Workers,
           \/ \E w \in Workers :
                 \/ SchedulerStep(w) /\ ~ClaimDueScheduled(w)
                 \/ WatchdogStep(w) \/ DispatcherStep(w) \/ ReaderStep(w)
                 \/ ClaimLost(w) \/ Crash(w)
           \/ Sweep \/ Client \/ Timers \/ LateStart \/ AdapterProgress
           \/ AdapterStops \/ UNCHANGED vars
    PROVE  NotStarted(v)' => NotStarted(v)
<1>1. job \in [Workers -> Job] /\ job[v] \in Job
  BY JobForms DEF TypeOK
<1>2. CASE job'[v] = job[v]
  BY <1>2 DEF NotStarted, In
<1>3. CASE /\ job'[v].kind \notin {"start", "uncertain"}
                \/ job'[v].phase = "sent"
  BY <1>3 DEF NotStarted, In
<1>4. ASSUME NEW w \in Workers, Done(w)
      PROVE  NotStarted(v)' => NotStarted(v)
  BY <1>1, <1>2, <1>3, <1>4 DEF Done, NoJob
<1>5. ASSUME NEW w \in Workers, Send(w)
      PROVE  NotStarted(v)' => NotStarted(v)
  BY <1>1, <1>2, <1>3, <1>5 DEF Send, Job
<1>6. ASSUME NEW w \in Workers, NEW kind, NEW phase, NEW stop,
             Begin(w, kind, phase, stop),
             kind \notin {"start", "uncertain"} \/ phase = "sent"
      PROVE  NotStarted(v)' => NotStarted(v)
  BY <1>1, <1>2, <1>3, <1>6 DEF Begin, NoJob
<1>7. ASSUME NEW w \in Workers,
             (SchedulerStep(w) /\ ~ClaimDueScheduled(w)) \/ WatchdogStep(w)
      PROVE  NotStarted(v)' => NotStarted(v)
  <2>1. CASE ClaimExpiredStart(w) \/ ClaimBoundStart(w)
    BY <1>6, <2>1 DEF ClaimExpiredStart, ClaimBoundStart
  <2>2. CASE StartClaimed(w)
    BY <1>5, <2>2 DEF StartClaimed
  <2>3. QED
    BY <1>4, <1>7, <2>1, <2>2
       DEF SchedulerStep, StartTooLate, StartNotLoaded, StartAccepted,
           StartAbsent, StartRejected, StartUncertain, Starting, WatchdogStep,
           ConfirmBoundStarted, DeferStartConfirmation,
           StopUnconfirmedBoundExecution, Confirming
<1>8. ASSUME NEW w \in Workers, DispatcherStep(w)
      PROVE  NotStarted(v)' => NotStarted(v)
  <2>1. CASE ClaimCommand(w)
    BY <1>1, <1>2, <1>3, <2>1 DEF ClaimCommand, NoJob
  <2>2. CASE RecheckRejectedCancel(w)
    BY <1>1, <1>2, <1>3, <2>2 DEF RecheckRejectedCancel, Job
  <2>3. QED
    BY <1>4, <1>5, <1>8, <2>1, <2>2
       DEF DispatcherStep, DispatchCancel, DispatchTerminal,
           AcknowledgeClaimedCommand, FailSafeStop, RetryClaimedCommand,
           RejectMismatched, RestoreAfterRejection
<1>9. ASSUME NEW w \in Workers, ReaderStep(w)
      PROVE  NotStarted(v)' => NotStarted(v)
  <2>1. CASE Recover(w)
    <3>1. CASE Done(w)
      BY <1>4, <3>1
    <3>2. CASE job' = [job EXCEPT ![w].phase = "sent", ![w].stop = row.stop]
      BY <1>1, <1>2, <1>3, <3>2 DEF Job
    <3>3. QED
      BY <2>1, <3>1, <3>2 DEF Recover
  <2>2. CASE ReadUnavailable(w)
    <3>1. CASE Done(w)
      BY <1>4, <3>1
    <3>2. CASE job' = [job EXCEPT ![w].kind = "recover", ![w].phase = "sent",
                                  ![w].answer = NoAnswer]
      BY <1>1, <1>2, <1>3, <3>2 DEF Job
    <3>3. QED
      BY <2>2, <3>1, <3>2 DEF ReadUnavailable
  <2>3. QED
    BY <1>4, <1>6, <1>9, <2>1, <2>2
       DEF ReaderStep, ReadTask, ListForRecovery, ApplyFound, ReadMismatched,
           FailRecoveryNotFound
<1>10. ASSUME \/ Sweep \/ Client \/ Timers \/ LateStart \/ AdapterProgress
              \/ AdapterStops \/ UNCHANGED vars
       PROVE  job' = job
  BY <1>10 DEF Sweep, CompleteDueStartWindowMisses, ClaimExpiredDeadlines,
     Client, BeginCancel, RecordCooperativeIntent, Timers, LeaseElapses,
     NextStartElapses, CommandTimerElapses, Tick, LateStart, AdapterProgress,
     AdapterStops, Advance, vars
<1>11. QED
  BY <1>2, <1>4, <1>7, <1>8, <1>9, <1>10 DEF ClaimLost, Crash

\* A step of the Runtime that starts nothing keeps StartIsFirst.
LEMMA QuietStep ==
    ASSUME TypeOK, TypeOK', StartIsFirst, SameExecution(exec, exec'),
           NoNewStart(row, row'),
           \A v \in Workers : NotStarted(v)' => NotStarted(v)
    PROVE  StartIsFirst'
<1>1. NoWorker \notin Workers
  BY ConstantsAssumption
<1>2. ASSUME row'.state = "SCHEDULED"
      PROVE  row'.owner = NoWorker /\ NoneOrLate(exec')
  BY <1>2 DEF NoNewStart, StartIsFirst, SameExecution, NoneOrLate
<1>3. ASSUME NEW v \in Workers, OwnsStart(v)', NotStarted(v)'
      PROVE  NoneOrLate(exec')
  BY <1>1, <1>3 DEF NoNewStart, StartIsFirst, OwnsStart, SameExecution,
                    NoneOrLate
<1>4. row'.state \in {"SCHEDULED", "STARTING"} => ~row'.ext
  BY DEF NoNewStart, StartIsFirst
<1>5. QED
  BY <1>2, <1>3, <1>4 DEF StartIsFirst

\* The Adapter starts an execution in time only for the holder of the claim,
\* which has sent its request, and moves only an execution that exists.
LEMMA AdapterIsFirst ==
    ASSUME TypeOK, AnswersAreTrue, StartIsFirst, [Next]_vars,
           NEW w \in Workers, AdapterStep(w)
    PROVE  StartIsFirst'
<1>1. job \in [Workers -> Job] /\ job[w] \in Job /\ row' = row
      /\ NoWorker \notin Workers
  BY ConstantsAssumption, JobForms
     DEF TypeOK, AdapterStep, AdapterStarts, AdapterRefusesStart,
         AdapterCancels, AdapterRefusesCancel, AdapterReconciles,
         AdapterMisanswers, CallFails, CallAbandoned, Quiet
<1>2. ASSUME NEW a, job' = [job EXCEPT ![w].phase = "answered",
                                       ![w].answer = a],
             \/ job[w].kind \notin {"start", "uncertain"}
             \/ a.status \notin {"retryable", "notfound"},
             NEW v \in Workers
      PROVE  NotStarted(v)' => NotStarted(v) /\ v # w
  BY <1>1, <1>2 DEF NotStarted, In, Job
<1>3. CASE NoneOrLate(exec')
  BY <1>1, <1>3 DEF StartIsFirst
<1>4. CASE /\ NoneOrLate(exec) => NoneOrLate(exec')
           /\ \A v \in Workers : NotStarted(v)' => NotStarted(v)
  BY <1>1, <1>4 DEF StartIsFirst, OwnsStart
<1>5. NoneOrLate(exec) /\ SameExecution(exec, exec') => NoneOrLate(exec')
  BY DEF NoneOrLate, SameExecution
<1>6. CASE AdapterStarts(w)
  <2>1. PICK e \in Launched(w) :
               /\ exec' = e
               /\ ReplyWith(w, "accepted", e) \/ Reply(w, "unavailable")
                  \/ Reply(w, "mismatch")
    BY <1>6 DEF AdapterStarts
  <2>2. \A v \in Workers : NotStarted(v)' => NotStarted(v) /\ v # w
    BY <1>2, <2>1 DEF Reply, ReplyWith, NoAnswer
  <2>3. CASE exec.state # "none"
    <3>1. exec' = exec
      BY <2>1, <2>3 DEF Launched
    <3>2. QED
      BY <1>4, <2>2, <3>1
  <2>4. CASE exec.state = "none" /\ row.owner # w
    <3>1. exec'.late = "began"
      BY <2>1, <2>4 DEF Launched, StartedLate, Started
    <3>2. QED
      BY <1>3, <3>1 DEF NoneOrLate
  <2>5. CASE row.owner = w
    <3>1. row.state # "SCHEDULED" /\ row'.owner = w
      BY <1>1, <2>5 DEF StartIsFirst
    <3>2. \A v \in Workers : OwnsStart(v)' => v = w
      BY <3>1 DEF OwnsStart
    <3>3. QED
      BY <1>1, <2>2, <3>1, <3>2 DEF StartIsFirst
  <2>6. QED
    BY <2>3, <2>4, <2>5
<1>7. CASE AdapterCancels(w) \/ AdapterRefusesCancel(w)
  <2>1. job[w].kind = "cancel"
    BY <1>7 DEF AdapterCancels, AdapterRefusesCancel, In
  <2>2. \A v \in Workers : NotStarted(v)' => NotStarted(v)
    BY <1>2, <1>7, <2>1 DEF AdapterCancels, AdapterRefusesCancel, Reply
  <2>3. exec'.state = exec.state /\ exec'.late = exec.late
    BY <1>7 DEF AdapterCancels, AdapterRefusesCancel, TypeOK, Execution
  <2>4. QED
    BY <1>4, <2>2, <2>3 DEF NoneOrLate
<1>8. CASE /\ AdapterMisanswers(w) \/ CallFails(w) \/ CallAbandoned(w)
              \/ (AdapterReconciles(w) /\ exec.state # "none")
  <2>1. exec' = exec \/ GivenUp(w)
    BY <1>8 DEF AdapterReconciles, AdapterMisanswers, CallFails, CallAbandoned
  <2>2. NoneOrLate(exec) => NoneOrLate(exec')
    BY <1>5, <2>1, GivenUpType
  <2>3. ReplyWith(w, "found", exec) \/ Reply(w, "unavailable")
        \/ Reply(w, "mismatch") \/ Reply(w, "conflict")
    BY <1>8 DEF AdapterReconciles, AdapterMisanswers, CallFails, CallAbandoned
  <2>4. \A v \in Workers : NotStarted(v)' => NotStarted(v) /\ v # w
    BY <1>2, <2>3 DEF Reply, ReplyWith, NoAnswer
  <2>5. QED
    BY <1>4, <2>2, <2>4
<1>9. CASE AdapterRefusesStart(w) \/ (AdapterReconciles(w) /\ exec.state = "none")
  BY <1>3, <1>9 DEF AdapterRefusesStart, AdapterReconciles, NoneOrLate
<1>10. QED
  BY <1>6, <1>7, <1>8, <1>9 DEF AdapterStep

(***************************************************************************)
(* Every step keeps both.                                                  *)
(***************************************************************************)

\* A step of the Adapter keeps what was proved: ends are final, and where the
\* window was missed without an execution nobody holds a claim to start one in
\* time.
LEMMA AdapterProves ==
    ASSUME TypeOK, AnswersAreTrue, OutcomeInvariant, [Next]_vars,
           \/ LateStart \/ AdapterProgress \/ AdapterStops
           \/ \E w \in Workers : AdapterStep(w)
    PROVE  Proven(row', exec')
<1>1. row' = row /\ Grows(exec, exec') /\ NoWorker \notin Workers
  BY ConstantsAssumption, StepExecution
     DEF LateStart, AdapterProgress, AdapterStops, Advance, Quiet, AdapterStep,
         AdapterStarts, AdapterRefusesStart, AdapterCancels,
         AdapterRefusesCancel, AdapterReconciles, AdapterMisanswers,
         CallFails, CallAbandoned
<1>2. Backed(row.outcome, exec'.state)
  BY <1>1 DEF OutcomeInvariant, Proven, Backed, Grows, ExecTerminal
<1>3. ASSUME exec.state = "none", row.owner = NoWorker
      PROVE  exec'.state = "none" \/ exec'.late = "began"
  <2>1. CASE LateStart \/ AdapterProgress \/ AdapterStops
    BY <1>3, <2>1 DEF LateStart, StartedLate, Started, AdapterProgress,
                      AdapterStops, Moves, ExecLive
  <2>2. ASSUME NEW w \in Workers, AdapterStep(w)
        PROVE  exec'.state = "none" \/ exec'.late = "began"
    <3>1. CASE AdapterStarts(w)
      BY <1>1, <1>3, <3>1 DEF AdapterStarts, Launched, StartedLate, Started
    <3>2. CASE exec' = exec
      BY <1>3, <3>2
    <3>3. CASE GivenUp(w)
      BY <1>3, <3>3, GivenUpType DEF SameExecution
    <3>4. QED
      BY <1>3, <2>2, <3>1, <3>2, <3>3
         DEF AdapterStep, AdapterRefusesStart, AdapterCancels,
             AdapterRefusesCancel, AdapterReconciles, AdapterMisanswers,
             CallFails, CallAbandoned
  <2>3. QED
    BY <2>1, <2>2
<1>4. ASSUME row.outcome = "start_window_missed"
      PROVE  \/ exec'.state \in ExecTerminal
             \/ ~row.ext /\ exec'.late = "began"
             \/ ~row.ext /\ exec'.state = "none" /\ row.owner = NoWorker
  BY <1>1, <1>3, <1>4 DEF OutcomeInvariant, Proven, Grows
<1>5. QED
  BY <1>1, <1>2, <1>4 DEF OutcomeInvariant, Proven

\* A step of the Runtime that starts nothing and proves what it publishes.
LEMMA RuntimeOutcome ==
    ASSUME TypeOK, TypeOK', OutcomeInvariant, SameExecution(exec, exec'),
           Proven(row', exec), NoNewStart(row, row'),
           \A v \in Workers : NotStarted(v)' => NotStarted(v)
    PROVE  OutcomeInvariant'
<1>1. Proven(row', exec')
  BY DEF Proven, SameExecution
<1>2. QED
  BY <1>1, QuietStep DEF OutcomeInvariant

LEMMA SchedulerOutcome ==
    ASSUME TypeOK, TypeOK', AnswersAreTrue, OutcomeInvariant,
           NEW w \in Workers, SchedulerStep(w)
    PROVE  OutcomeInvariant'
<1>1. /\ row \in Row /\ Proven(row, exec) /\ exec' = exec
      /\ w # NoWorker /\ SameExecution(exec, exec')
  BY ConstantsAssumption
     DEF TypeOK, OutcomeInvariant, SchedulerStep, ClaimDueScheduled,
         StartClaimed, StartTooLate, StartNotLoaded, ClaimExpiredStart,
         StartAccepted, StartAbsent, StartRejected, StartUncertain, Calm,
         SameExecution
<1>2. job \in [Workers -> Job] /\ job[w].answer \in Answer
      /\ (job[w].answer.state \in ExecTerminal
             => exec.state = job[w].answer.state)
  BY JobForms DEF TypeOK, AnswersAreTrue
<1>3. ~ClaimDueScheduled(w) =>
         \A v \in Workers : NotStarted(v)' => NotStarted(v)
  BY StartsAreClaimed
<1>4. CASE ClaimDueScheduled(w)
  <2>1. NoneOrLate(exec) /\ row'.state = "STARTING" /\ row'.owner = w
        /\ ~IsTerminalState(row.state) /\ row'.outcome = row.outcome
        /\ ~row'.ext
    BY <1>1, <1>4 DEF ClaimDueScheduled, OutcomeInvariant, StartIsFirst,
                      Claim, Row, IsTerminalState, TerminalStates
  <2>2. Proven(row', exec')
    BY <1>1, <2>1 DEF Proven, Backed
  <2>3. QED
    BY <1>1, <2>1, <2>2 DEF OutcomeInvariant, StartIsFirst
<1>5. CASE StartClaimed(w)
  <2>1. row' = Claim(row, w) /\ row.owner = w /\ row.state = "STARTING"
    BY <1>5 DEF StartClaimed, OwnsStart
  <2>2. Proven(row', exec) /\ NoNewStart(row, row')
    BY <1>1, <2>1, OperatorsProve
       DEF NoNewStart, Claim, Row, IsTerminalState, TerminalStates
  <2>3. ~ClaimDueScheduled(w)
    BY <2>1 DEF ClaimDueScheduled
  <2>4. QED
    BY <1>1, <1>3, <2>2, <2>3, RuntimeOutcome
<1>6. CASE StartTooLate(w) \/ StartNotLoaded(w)
  <2>1. row.state = "STARTING" /\ NoneOrLate(exec) /\ ~row.ext
        /\ ~IsTerminalState(row.state)
    BY <1>6 DEF StartTooLate, StartNotLoaded, OwnsStart, NotStarted,
                OutcomeInvariant, StartIsFirst, IsTerminalState, TerminalStates
  <2>2. \A v \in Workers : NotStarted(v)' => NotStarted(v)
    BY <1>3, <2>1 DEF ClaimDueScheduled
  <2>3. CASE row' = Unclaim(Missed(row))
    BY <1>1, <2>1, <2>2, <2>3, OperatorsProve, OperatorsStartNothing,
       RuntimeOutcome
  <2>4. CASE row' = ReleaseScheduleRetry(row)
    <3>1. Proven(row', exec')
      BY <1>1, <2>1, <2>4, OperatorsProve
    <3>2. row'.owner = NoWorker /\ NoneOrLate(exec') /\ ~OwnsStart(w)'
          /\ row'.state = "SCHEDULED" /\ ~row'.ext
      BY <1>1, <2>1, <2>4 DEF ReleaseScheduleRetry, Unclaim, Row, OwnsStart
    <3>3. QED
      BY <3>1, <3>2 DEF OutcomeInvariant, StartIsFirst
  <2>5. QED
    BY <1>6, <2>3, <2>4 DEF StartTooLate, StartNotLoaded
<1>7. CASE ClaimExpiredStart(w)
  <2>1. row.state = "STARTING" /\ row' = Claim(row, w) /\ ~row.ext
        /\ ~IsTerminalState(row.state)
    BY <1>7 DEF ClaimExpiredStart, IsTerminalState, TerminalStates
  <2>2. Proven(row', exec')
    BY <1>1, <2>1, OperatorsProve
  <2>3. row'.state = "STARTING" /\ row'.owner = w /\ ~row'.ext
    BY <1>1, <2>1 DEF Claim, Row
  <2>4. ~NotStarted(w)'
    BY <1>2, <1>7 DEF ClaimExpiredStart, Begin, NotStarted, In, NoJob
  <2>5. QED
    BY <2>2, <2>3, <2>4 DEF OutcomeInvariant, StartIsFirst, OwnsStart
<1>8. CASE StartAccepted(w)
  <2> DEFINE r == AcceptScheduled(row, job[w].answer)
  <2>1. r \in Row /\ NoNewStart(row, r) /\ Proven(r, exec)
    BY <1>1, <1>2, AnswerType, AnswersStartNothing, AnswersProve
  <2>2. /\ NoNewStart(r, WindowRow(r, cmd, outbox))
        /\ Proven(WindowRow(r, cmd, outbox), exec)
    BY <2>1, OperatorsStartNothing, WindowProves
  <2>3. row' = r \/ row' = WindowRow(r, cmd, outbox)
    BY <1>8 DEF StartAccepted, PersistStartWindowStop
  <2>4. NoNewStart(row, row') /\ Proven(row', exec)
    BY <2>1, <2>2, <2>3 DEF NoNewStart
  <2>5. ~ClaimDueScheduled(w)
    BY <1>8 DEF StartAccepted, Starting, OwnsStart, ClaimDueScheduled
  <2>6. QED
    BY <1>1, <1>3, <2>4, <2>5, RuntimeOutcome
<1>9. CASE StartAbsent(w)
  <2>1. row.state = "STARTING" /\ NoneOrLate(exec) /\ ~row.ext
        /\ ~IsTerminalState(row.state)
    BY <1>9 DEF StartAbsent, Starting, OwnsStart, NotStarted,
                OutcomeInvariant, StartIsFirst, IsTerminalState, TerminalStates
  <2>2. \A v \in Workers : NotStarted(v)' => NotStarted(v)
    BY <1>3, <2>1 DEF ClaimDueScheduled
  <2>3. CASE row' = Unclaim(Missed(row))
    BY <1>1, <2>1, <2>2, <2>3, OperatorsProve, OperatorsStartNothing,
       RuntimeOutcome
  <2>4. CASE row' = ReleaseScheduleRetry(row)
    <3>1. Proven(row', exec')
      BY <1>1, <2>1, <2>4, OperatorsProve
    <3>2. row'.owner = NoWorker /\ NoneOrLate(exec')
          /\ row'.state = "SCHEDULED" /\ ~row'.ext
      BY <1>1, <2>1, <2>4 DEF ReleaseScheduleRetry, Unclaim, Row
    <3>3. QED
      BY <3>1, <3>2 DEF OutcomeInvariant, StartIsFirst, OwnsStart
  <2>5. QED
    BY <1>9, <2>3, <2>4 DEF StartAbsent
<1>10. CASE StartRejected(w)
  <2>1. row.state = "STARTING" /\ row' = CompleteScheduledRejection(row)
        /\ ~IsTerminalState(row.state)
    BY <1>10 DEF StartRejected, Starting, OwnsStart, IsTerminalState,
                 TerminalStates
  <2>2. Proven(row', exec) /\ NoNewStart(row, row')
    BY <1>1, <2>1, OperatorsProve, OperatorsStartNothing
  <2>3. ~ClaimDueScheduled(w)
    BY <2>1 DEF ClaimDueScheduled
  <2>4. QED
    BY <1>1, <1>3, <2>2, <2>3, RuntimeOutcome
<1>11. CASE StartUncertain(w)
  <2>1. row' = row \/ \E lease \in {"over", "held"} :
                        row' = [row EXCEPT !.owner = NoWorker, !.lease = lease]
    BY <1>11 DEF StartUncertain
  <2>2. Proven(row', exec) /\ NoNewStart(row, row')
    BY <1>1, <2>1 DEF Proven, Backed, NoNewStart, Row
  <2>3. ~ClaimDueScheduled(w)
    BY <1>11 DEF StartUncertain, Starting, OwnsStart, ClaimDueScheduled
  <2>4. QED
    BY <1>1, <1>3, <2>2, <2>3, RuntimeOutcome
<1>12. QED
  BY <1>4, <1>5, <1>6, <1>7, <1>8, <1>9, <1>10, <1>11 DEF SchedulerStep

LEMMA WorkerOutcome ==
    ASSUME TypeOK, TypeOK', AnswersAreTrue, OutcomeInvariant,
           NEW w \in Workers,
           \/ WatchdogStep(w) \/ DispatcherStep(w) \/ ReaderStep(w)
           \/ ClaimLost(w) \/ Crash(w)
    PROVE  OutcomeInvariant'
<1>1. row \in Row /\ Proven(row, exec)
  BY DEF TypeOK, OutcomeInvariant
<1>2. exec' = exec \/ GivenUp(w)
  BY DEF WatchdogStep, ClaimBoundStart, ConfirmBoundStarted,
     DeferStartConfirmation, StopUnconfirmedBoundExecution, DispatcherStep,
     ClaimCommand, DispatchCancel, DispatchTerminal, AcknowledgeClaimedCommand,
     RecheckRejectedCancel, FailSafeStop, RetryClaimedCommand,
     RejectMismatched, RestoreAfterRejection, Stopping, ReaderStep, ReadTask,
     ListForRecovery, Recover, ApplyFound, ReadUnavailable, ReadMismatched,
     FailRecoveryNotFound, Reading, ClaimLost, Crash, Calm
<1>3. job[w].answer \in Answer
      /\ (job[w].answer.state \in ExecTerminal
             => exec.state = job[w].answer.state)
  BY JobForms DEF TypeOK, AnswersAreTrue
<1>4. \A v \in Workers : NotStarted(v)' => NotStarted(v)
  BY StartsAreClaimed
<1>5. ASSUME Proven(row', exec), NoNewStart(row, row')
      PROVE  OutcomeInvariant'
  <2>1. SameExecution(exec, exec')
    BY <1>2, GivenUpType DEF SameExecution
  <2>2. QED
    BY <1>4, <1>5, <2>1, RuntimeOutcome
<1>6. CASE row' = row
  BY <1>1, <1>5, <1>6, OperatorsStartNothing
<1>7. CASE ClaimBoundStart(w)
  <2>1. row' = [Claim(row, w) EXCEPT !.state = "WAITING_START_CONFIRMATION"]
        /\ ~IsTerminalState(row.state)
    BY <1>7 DEF ClaimBoundStart, Terminal
  <2>2. Proven(row', exec) /\ NoNewStart(row, row')
    BY <1>1, <2>1 DEF Proven, Backed, NoNewStart, Claim, Row
  <2>3. QED
    BY <1>5, <2>2
<1>8. CASE ConfirmBoundStarted(w)
  BY <1>1, <1>3, <1>5, <1>8, AnswersProve, AnswersStartNothing
     DEF ConfirmBoundStarted
<1>9. CASE DeferStartConfirmation(w)
  <2>1. row' = [row EXCEPT !.owner = NoWorker, !.lease = "held"]
    BY <1>9 DEF DeferStartConfirmation
  <2>2. Proven(row', exec) /\ NoNewStart(row, row')
    BY <1>1, <2>1 DEF Proven, Backed, NoNewStart, Row
  <2>3. QED
    BY <1>5, <2>2
<1>10. CASE StopUnconfirmedBoundExecution(w)
  BY <1>1, <1>5, <1>10, WindowProves, OperatorsStartNothing
     DEF StopUnconfirmedBoundExecution, PersistStartWindowStop
<1>11. CASE FailSafeStop(w) \/ FailRecoveryNotFound(w)
  BY <1>1, <1>5, <1>11, OperatorsProve, OperatorsStartNothing
     DEF FailSafeStop, FailRecoveryNotFound
<1>12. CASE RestoreAfterRejection(w)
  BY <1>1, <1>3, <1>5, <1>12, AnswersProve, AnswersStartNothing
     DEF RestoreAfterRejection
<1>13. CASE ApplyFound(w)
  BY <1>1, <1>3, <1>5, <1>13, AnswersProve, AnswersStartNothing
     DEF ApplyFound
<1>14. QED
  BY <1>6, <1>7, <1>8, <1>9, <1>10, <1>11, <1>12, <1>13
     DEF WatchdogStep, DispatcherStep, ClaimCommand, DispatchCancel,
         DispatchTerminal, AcknowledgeClaimedCommand, RecheckRejectedCancel,
         RetryClaimedCommand, RejectMismatched, ReaderStep, ReadTask,
         ListForRecovery, Recover, ReadUnavailable, ReadMismatched, ClaimLost,
         Crash

LEMMA WorldOutcome ==
    ASSUME TypeOK, TypeOK', OutcomeInvariant,
           Sweep \/ Client \/ Timers \/ UNCHANGED vars
    PROVE  OutcomeInvariant'
<1>1. row \in Row /\ Proven(row, exec)
  BY DEF TypeOK, OutcomeInvariant
<1>2. exec' = exec
  BY DEF Sweep, CompleteDueStartWindowMisses, ClaimExpiredDeadlines, Client,
     BeginCancel, RecordCooperativeIntent, Timers, LeaseElapses,
     NextStartElapses, CommandTimerElapses, Tick, Calm, vars
<1>3. \A v \in Workers : NotStarted(v)' => NotStarted(v)
  BY StartsAreClaimed
<1>4. ASSUME Proven(row', exec), NoNewStart(row, row')
      PROVE  OutcomeInvariant'
  <2>1. SameExecution(exec, exec')
    BY <1>2 DEF SameExecution
  <2>2. QED
    BY <1>3, <1>4, <2>1, RuntimeOutcome
<1>5. CASE row' = row
  BY <1>1, <1>4, <1>5, OperatorsStartNothing
<1>6. CASE CompleteDueStartWindowMisses
  <2>1. NoneOrLate(exec) /\ ~row.ext /\ ~IsTerminalState(row.state)
        /\ row' = Unclaim(Missed(row))
    BY <1>6 DEF CompleteDueStartWindowMisses, OutcomeInvariant, StartIsFirst,
                IsTerminalState, TerminalStates
  <2>2. QED
    BY <1>1, <1>4, <2>1, OperatorsProve, OperatorsStartNothing
<1>7. ASSUME NEW reason \in StopReasons, row' = Stopped(row, reason),
             ~IsTerminalState(row.state)
      PROVE  OutcomeInvariant'
  BY <1>1, <1>4, <1>7, OperatorsProve, OperatorsStartNothing
<1>8. CASE ClaimExpiredDeadlines \/ BeginCancel
  BY <1>5, <1>7, <1>8
     DEF ClaimExpiredDeadlines, BeginCancel, Terminal, StopReasons
<1>9. CASE RecordCooperativeIntent
  <2>1. row' = [row EXCEPT !.cancel = TRUE, !.stop = "USER_REQUESTED"]
    BY <1>9 DEF RecordCooperativeIntent
  <2>2. Proven(row', exec) /\ NoNewStart(row, row')
    BY <1>1, <2>1 DEF Proven, Backed, NoNewStart, Row
  <2>3. QED
    BY <1>4, <2>2
<1>10. CASE LeaseElapses \/ NextStartElapses
  <2>1. row' = [row EXCEPT !.lease = "over"] \/ row' = [row EXCEPT !.due = TRUE]
    BY <1>10 DEF LeaseElapses, NextStartElapses
  <2>2. Proven(row', exec) /\ NoNewStart(row, row')
    BY <1>1, <2>1 DEF Proven, Backed, NoNewStart, Row
  <2>3. QED
    BY <1>4, <2>2
<1>11. QED
  BY <1>5, <1>6, <1>8, <1>9, <1>10
     DEF Sweep, Client, Timers, CommandTimerElapses, Tick, vars

LEMMA StepOutcome ==
    ASSUME TypeOK, AnswersAreTrue, OutcomeInvariant, [Next]_vars
    PROVE  OutcomeInvariant'
<1>1. TypeOK'
  BY StepType
<1>2. ASSUME NEW w \in Workers, AdapterStep(w) PROVE OutcomeInvariant'
  BY <1>2, AdapterIsFirst, AdapterProves DEF OutcomeInvariant
<1>3. CASE LateStart \/ AdapterProgress \/ AdapterStops
  <2>1. row' = row /\ job' = job /\ (NoneOrLate(exec) => NoneOrLate(exec'))
    <3>1. CASE LateStart
      BY <3>1 DEF LateStart, StartedLate, Started, Quiet, NoneOrLate
    <3>2. CASE AdapterProgress \/ AdapterStops
      BY <3>2, StepExecution
         DEF AdapterProgress, AdapterStops, Advance, Quiet, Moves, ExecLive,
             NoneOrLate, Grows
    <3>3. QED
      BY <1>3, <3>1, <3>2
  <2>2. StartIsFirst'
    BY <2>1 DEF OutcomeInvariant, StartIsFirst, OwnsStart, NotStarted, In
  <2>3. QED
    BY <1>3, <2>2, AdapterProves DEF OutcomeInvariant
<1>4. QED
  BY <1>1, <1>2, <1>3, SchedulerOutcome, WorkerOutcome, WorldOutcome DEF Next

\* ADR-005: a Task goes back to SCHEDULED, where the scheduler starts it again,
\* only while the Adapter has no execution for it, or one that a request which
\* was given up began behind the Runtime's back.
THEOREM StartsHappenOnce == Spec => []NoSecondSideEffect
<1> DEFINE Inv == TypeOK /\ AnswersAreTrue /\ OutcomeInvariant
<1>1. Init => Inv
  BY InitType, InitAnswers, InitOutcome
<1>2. Inv /\ [Next]_vars => Inv'
  BY StepType, StepAnswers, StepOutcome
<1>3. Inv => NoSecondSideEffect
  BY DEF OutcomeInvariant, StartIsFirst, NoSecondSideEffect
<1>4. QED
  BY <1>1, <1>2, <1>3, PTL DEF Spec

\* state-reason-mapping.md: every published result that reports the end of an
\* execution is backed by that end, and a missed start window by its end, or by
\* its absence where the Task was never bound, but for one begun late.
THEOREM OutcomesAreProven == Spec => []OutcomeIsProven
<1> DEFINE Inv == TypeOK /\ AnswersAreTrue /\ OutcomeInvariant
<1>1. Init => Inv
  BY InitType, InitAnswers, InitOutcome
<1>2. Inv /\ [Next]_vars => Inv'
  BY StepType, StepAnswers, StepOutcome
<1>3. Inv => OutcomeIsProven
  BY DEF OutcomeInvariant, Proven, Backed, OutcomeIsProven, NoneOrLate,
         Terminal
<1>4. QED
  BY <1>1, <1>2, <1>3, PTL DEF Spec

----------------------------------------------------------------------------
(***************************************************************************)
(* A Task that is being stopped has its stop command: the invariant that   *)
(* ties the row, the command and the recorded stop events together, proved *)
(* over every interleaving of claims, upgrades, rejections and snapshots.  *)
(***************************************************************************)

\* What the recorded events tell of the current command: none is of a later
\* sequence, and an active command that has one is no longer below its reason.
\* So a transition is skipped as a duplicate only if the row carries its stop.
Recorded(o, c) ==
    \A k \in o :
        /\ k.kind \in {"deadline-stop", "start-window-stop"} => k.seq <= c.seq
        /\ k.seq = c.seq /\ Active(c) =>
              /\ k.kind = "deadline-stop" => c.reason = "DEADLINE_REACHED"
              /\ k.kind = "start-window-stop" => c.reason # "USER_REQUESTED"

\* An active command is the row's stop, also after an identity conflict; and
\* without one, a row that is being stopped has an active command.
Carried(r, c, o, lost) ==
    /\ (~IsTerminalState(r.state) /\ Active(c)) => r.stop = c.reason
    /\ (~lost /\ ~IsTerminalState(r.state) /\ r.stop # "none") => Active(c)
    /\ Active(c) => c.reason # "none"
    /\ Recorded(o, c)

StopInvariant == SupportsCancel => Carried(row, cmd, outbox, conflict)

(***************************************************************************)
(* Lemmas about the operators.                                             *)
(***************************************************************************)

\* A row that still works worked before and is stopped for the same reason.
StopKept(r, q) ==
    ~IsTerminalState(q.state) => ~IsTerminalState(r.state) /\ q.stop = r.stop

LEMMA OperatorsKeepStop ==
    ASSUME NEW r \in Row, NEW w, NEW outcome
    PROVE  /\ StopKept(r, r) /\ StopKept(r, Unclaim(r)) /\ StopKept(r, Claim(r, w))
           /\ StopKept(r, Unclaim(Missed(r)))
           /\ StopKept(r, CompleteScheduledRejection(r))
           /\ StopKept(r, FailTask(r, outcome))
           /\ IsTerminalState(FailTask(r, outcome).state)
           /\ ~IsTerminalState(r.state) => StopKept(r, ReleaseScheduleRetry(r))
<1> USE DEF StopKept, IsTerminalState, TerminalStates
<1>1. StopKept(r, r) /\ StopKept(r, Unclaim(r)) /\ StopKept(r, Claim(r, w))
  BY DEF Unclaim, Claim, Row
<1>2. StopKept(r, Unclaim(Missed(r)))
      /\ StopKept(r, CompleteScheduledRejection(r))
  BY DEF Unclaim, Missed, CompleteScheduledRejection, Row
<1>3. StopKept(r, FailTask(r, outcome))
      /\ IsTerminalState(FailTask(r, outcome).state)
  BY DEF FailTask, TransitionTask, Row
<1>4. ~IsTerminalState(r.state) => StopKept(r, ReleaseScheduleRetry(r))
  BY DEF ReleaseScheduleRetry, Unclaim, Row
<1>5. QED
  BY <1>1, <1>2, <1>3, <1>4

LEMMA AnswersKeepStop ==
    ASSUME NEW r \in Row, NEW a \in Answer, NEW t
    PROVE  /\ StopKept(r, AcceptScheduled(r, a))
           /\ StopKept(r, ConfirmStarted(r, a))
           /\ StopKept(r, ApplySnapshot(r, a.rev, t))
<1>1. StopKept(r, AcceptScheduled(r, a))
  BY DEF StopKept, AcceptScheduled, TransitionAt, Unclaim, Row
<1>2. StopKept(r, ConfirmStarted(r, a))
  BY DEF StopKept, ConfirmStarted, TransitionAt, Unclaim, Row
<1>3. StopKept(r, ApplySnapshot(r, a.rev, t))
  BY DEF StopKept, ApplySnapshot, TransitionAt, Row
<1>4. QED
  BY <1>1, <1>2, <1>3

\* A step that keeps the row's stop, and the command or what makes it needless.
LEMMA CarriedOn ==
    ASSUME NEW r, NEW q, NEW c \in Command, NEW d \in Command, NEW o, NEW p,
           NEW lost, NEW lost2, Carried(r, c, o, lost), StopKept(r, q),
           lost => lost2, d.seq = c.seq,
           Active(d) => Active(c) /\ d.reason = c.reason,
           Active(c) => Active(d) \/ IsTerminalState(q.state) \/ lost2,
           \A k \in p : k \in o \/ k.kind \notin {"deadline-stop", "start-window-stop"}
    PROVE  Carried(q, d, p, lost2)
BY DEF Carried, StopKept, Recorded

LEMMA RowCarriedOn ==
    ASSUME NEW r, NEW q, NEW c, NEW o, NEW lost, Carried(r, c, o, lost),
           StopKept(r, q)
    PROVE  Carried(q, c, o, lost)
BY DEF Carried, StopKept

\* A new command is of a later sequence than every recorded event.
LEMMA NewCommandIsNew ==
    ASSUME NEW c \in Command, NEW o \in SUBSET EventKeys, Recorded(o, c),
           NEW reason \in StopReasons
    PROVE  /\ NewCommand(c, reason).seq = c.seq + 1
           /\ NewCommand(c, reason).reason = reason
           /\ Active(NewCommand(c, reason))
           /\ Recorded(o, NewCommand(c, reason))
           /\ \A kind \in {"deadline-stop", "start-window-stop"} :
                 EventKey(kind, c.seq + 1) \notin o
<1>1. c.seq \in Nat /\ \A k \in o : k.seq \in Nat
  BY DEF Command, EventKeys
<1>2. /\ NewCommand(c, reason).seq = c.seq + 1
      /\ NewCommand(c, reason).reason = reason
      /\ Active(NewCommand(c, reason))
  BY DEF NewCommand, Active, ActiveStop
<1>3. Recorded(o, NewCommand(c, reason))
  BY <1>1, <1>2 DEF Recorded
<1>4. ASSUME NEW kind \in {"deadline-stop", "start-window-stop"}
      PROVE  EventKey(kind, c.seq + 1) \notin o
  BY <1>1 DEF Recorded, EventKey
<1>5. QED
  BY <1>2, <1>3, <1>4

\* persistStartWindowStop creates or upgrades the command with the row.
LEMMA WindowCarries ==
    ASSUME NEW r \in Row, NEW c \in Command, NEW o \in SUBSET EventKeys,
           NEW lost, Carried(r, c, o, lost)
    PROVE  Carried(WindowRow(r, c, o), WindowCommand(r, c),
                   WindowEvents(r, c, o), lost)
<1> DEFINE d == WindowCommand(r, c)
           q == WindowRow(r, c, o)
           key == WindowKey(r, c)
<1>1. CASE IsTerminalState(r.state)
  BY <1>1 DEF WindowRow, WindowCommand, WindowEvents
<1>2. CASE ~IsTerminalState(r.state) /\ ~Active(c)
  <2>1. d = NewCommand(c, "START_WINDOW_MISSED") /\ Recorded(o, c)
        /\ "START_WINDOW_MISSED" \in StopReasons
    BY <1>2 DEF WindowCommand, Carried, StopReasons
  <2>2. d.seq = c.seq + 1 /\ d.reason = "START_WINDOW_MISSED" /\ Active(d)
        /\ Recorded(o, d) /\ key \notin o
    BY <2>1, NewCommandIsNew DEF WindowKey
  <2>3. q.stop = "START_WINDOW_MISSED"
    BY <1>2, <2>2 DEF WindowRow, WindowReason, Stopped, Unclaim, Row
  <2>4. Recorded(o \cup {key}, d)
    BY <2>2 DEF Recorded, WindowKey, EventKey, Command
  <2>5. QED
    BY <1>2, <2>2, <2>3, <2>4 DEF Carried, WindowEvents
<1>3. CASE ~IsTerminalState(r.state) /\ Active(c)
  <2>1. r.stop = c.reason /\ c.reason # "none" /\ c.reason \in StopReasons
        /\ c.seq \in Nat
    BY <1>3 DEF Carried, Command
  <2>2. d.seq = c.seq /\ Active(d) /\ d.reason = WindowReason(c)
        /\ d.reason \in {"START_WINDOW_MISSED", "DEADLINE_REACHED"}
    BY <1>3, <2>1 DEF WindowCommand, WindowReason, Active, Command, StopReasons
  <2>3. q.stop = d.reason
    <3>1. CASE key \in o
      <4>1. c.reason # "USER_REQUESTED" /\ q = r
        BY <1>3, <2>2, <3>1
           DEF Carried, Recorded, WindowKey, EventKey, WindowRow
      <4>2. QED
        BY <1>3, <2>1, <2>2, <4>1 DEF WindowReason, StopReasons
    <3>2. CASE key \notin o
      BY <1>3, <2>2, <3>2 DEF WindowRow, Stopped, Unclaim, Row
    <3>3. QED
      BY <3>1, <3>2
  <2>4. Recorded(o, d)
    <3>1. c.reason = "DEADLINE_REACHED" => d.reason = "DEADLINE_REACHED"
      BY <1>3, <2>2 DEF WindowReason
    <3>2. QED
      BY <1>3, <2>2, <3>1 DEF Carried, Recorded
  <2>5. Recorded(o \cup {key}, d)
    BY <2>1, <2>2, <2>4 DEF Recorded, WindowKey, EventKey
  <2>6. QED
    BY <1>3, <2>2, <2>3, <2>5 DEF Carried, WindowEvents
<1>4. QED
  BY <1>1, <1>2, <1>3

(***************************************************************************)
(* Every step.                                                             *)
(***************************************************************************)

LEMMA InitStops == Init => StopInvariant
<1> SUFFICES ASSUME Init PROVE Carried(row, cmd, outbox, FALSE) /\ conflict = FALSE
  BY DEF StopInvariant
<1>1. conflict = FALSE
  BY DEF Init
<1>2. ASSUME NEW r, r.stop = "none" PROVE Carried(r, NoCommand, {}, FALSE)
  BY <1>2 DEF Carried, NoCommand, Active, ActiveStop, Recorded
<1>3. ScheduledRow.stop = "none" /\ \A e : AcceptedRow(e).stop = "none"
  BY DEF ScheduledRow, AcceptedRow
<1>4. CASE row = ScheduledRow /\ cmd = NoCommand /\ outbox = {}
  BY <1>1, <1>2, <1>3, <1>4
<1>5. CASE row = AcceptedRow(exec) /\ cmd = NoCommand /\ outbox = {}
  BY <1>1, <1>2, <1>3, <1>5
<1>6. ASSUME NEW s \in FirstStates, exec = Started(s),
             row = WindowRow(AcceptedRow(exec), NoCommand, {}),
             cmd = WindowCommand(AcceptedRow(exec), NoCommand),
             outbox = WindowEvents(AcceptedRow(exec), NoCommand, {})
      PROVE  Carried(row, cmd, outbox, FALSE)
  <2>1. AcceptedRow(exec) \in Row /\ NoCommand \in Command
        /\ {} \in SUBSET EventKeys
    BY <1>6, PublishedType
  <2>2. Carried(AcceptedRow(exec), NoCommand, {}, FALSE)
    BY <1>2, <1>3
  <2>3. QED
    BY <1>6, <2>1, <2>2, WindowCarries
<1>7. QED
  BY <1>1, <1>4, <1>5, <1>6 DEF Init

\* The state before a step of an operation that can cancel, and after it.
LEMMA StopContext ==
    ASSUME TypeOK, TypeOK', StopInvariant, SupportsCancel
    PROVE  /\ row \in Row /\ row' \in Row /\ cmd \in Command /\ cmd' \in Command
           /\ outbox \in SUBSET EventKeys
           /\ Carried(row, cmd, outbox, conflict)
BY DEF TypeOK, StopInvariant

\* A step that leaves the command alone and keeps the row's stop.
LEMMA RowStep ==
    ASSUME TypeOK, TypeOK', StopInvariant, SupportsCancel, cmd' = cmd,
           StopKept(row, row'), conflict => conflict',
           \A k \in outbox' :
              k \in outbox \/ k.kind \notin {"deadline-stop", "start-window-stop"}
    PROVE  Carried(row', cmd', outbox', conflict')
BY StopContext, CarriedOn

\* A step that leaves the row alone and keeps the command as it was, but for
\* its progress.
LEMMA CommandStep ==
    ASSUME TypeOK, TypeOK', StopInvariant, SupportsCancel, row' = row,
           outbox' = outbox, conflict => conflict', cmd'.seq = cmd.seq,
           Active(cmd') => Active(cmd) /\ cmd'.reason = cmd.reason,
           Active(cmd) => Active(cmd') \/ Terminal \/ conflict'
    PROVE  Carried(row', cmd', outbox', conflict')
<1>1. StopKept(row, row')
  BY DEF StopKept
<1>2. QED
  BY <1>1, StopContext, CarriedOn DEF Terminal

LEMMA SchedulerStops ==
    ASSUME TypeOK, TypeOK', StopInvariant, SupportsCancel,
           NEW w \in Workers, SchedulerStep(w) \/ WatchdogStep(w)
    PROVE  Carried(row', cmd', outbox', conflict')
<1>1. row \in Row /\ cmd \in Command /\ outbox \in SUBSET EventKeys
      /\ Carried(row, cmd, outbox, conflict) /\ job[w].answer \in Answer
  BY StopContext, JobForms
<1>2. ASSUME cmd' = cmd, StopKept(row, row'), conflict => conflict',
             \A k \in outbox' : k \in outbox \/ k = UncertainKey
      PROVE  Carried(row', cmd', outbox', conflict')
  <2>1. UncertainKey.kind \notin {"deadline-stop", "start-window-stop"}
    BY DEF UncertainKey, EventKey
  <2>2. QED
    BY <1>2, <2>1, RowStep
<1>3. CASE ClaimDueScheduled(w)
  <2>1. StopKept(row, row')
    BY <1>1, <1>3 DEF ClaimDueScheduled, Claim, StopKept, Row, IsTerminalState,
                      TerminalStates
  <2>2. QED
    BY <1>2, <1>3, <2>1 DEF ClaimDueScheduled
<1>4. CASE StartClaimed(w) \/ StartTooLate(w) \/ ClaimExpiredStart(w)
           \/ StartRejected(w)
  BY <1>1, <1>2, <1>4, OperatorsKeepStop
     DEF StartClaimed, StartTooLate, ClaimExpiredStart, StartRejected
<1>5. CASE StartNotLoaded(w) \/ StartAbsent(w)
  <2>1. ~IsTerminalState(row.state)
    BY <1>5 DEF StartNotLoaded, StartAbsent, Starting, OwnsStart,
                IsTerminalState, TerminalStates
  <2>2. QED
    BY <1>1, <1>2, <1>5, <2>1, OperatorsKeepStop DEF StartNotLoaded, StartAbsent
<1>6. CASE StartAccepted(w)
  <2> DEFINE r == AcceptScheduled(row, job[w].answer)
  <2>1. r \in Row /\ StopKept(row, r)
    BY <1>1, AnswerType, AnswersKeepStop
  <2>2. Carried(r, cmd, outbox, conflict)
    BY <1>1, <2>1, RowCarriedOn
  <2>3. CASE row' = r /\ cmd' = cmd /\ outbox' = outbox
    BY <1>6, <2>2, <2>3 DEF StartAccepted
  <2>4. CASE PersistStartWindowStop(r)
    BY <1>1, <1>6, <2>1, <2>2, <2>4, WindowCarries
       DEF PersistStartWindowStop, StartAccepted
  <2>5. QED
    BY <1>6, <2>3, <2>4 DEF StartAccepted
<1>7. CASE StartUncertain(w)
  <2>1. row' = row \/ \E lease \in {"over", "held"} :
                        row' = [row EXCEPT !.owner = NoWorker, !.lease = lease]
    BY <1>7 DEF StartUncertain
  <2>2. StopKept(row, row')
    BY <1>1, <2>1 DEF StopKept, Row
  <2>3. cmd' = cmd /\ (conflict => conflict')
        /\ \A k \in outbox' : k \in outbox \/ k = UncertainKey
    BY <1>7 DEF StartUncertain
  <2>4. QED
    BY <1>2, <2>2, <2>3
<1>8. CASE ClaimBoundStart(w) \/ DeferStartConfirmation(w)
  <2>1. row' \in {[Claim(row, w) EXCEPT !.state = "WAITING_START_CONFIRMATION"],
                  [row EXCEPT !.owner = NoWorker, !.lease = "held"]}
        /\ ~IsTerminalState(row.state)
    BY <1>8 DEF ClaimBoundStart, DeferStartConfirmation, Terminal, Confirming,
                OwnsConfirmation, IsTerminalState, TerminalStates
  <2>2. StopKept(row, row')
    BY <1>1, <2>1 DEF StopKept, Claim, Row
  <2>3. QED
    BY <1>2, <1>8, <2>2 DEF ClaimBoundStart, DeferStartConfirmation
<1>9. CASE ConfirmBoundStarted(w)
  BY <1>1, <1>2, <1>9, AnswersKeepStop DEF ConfirmBoundStarted
<1>10. CASE StopUnconfirmedBoundExecution(w)
  BY <1>1, <1>10, WindowCarries
     DEF StopUnconfirmedBoundExecution, PersistStartWindowStop
<1>11. QED
  BY <1>3, <1>4, <1>5, <1>6, <1>7, <1>8, <1>9, <1>10
     DEF SchedulerStep, WatchdogStep

LEMMA DispatcherStops ==
    ASSUME TypeOK, TypeOK', StopInvariant, SupportsCancel,
           NEW w \in Workers, DispatcherStep(w)
    PROVE  Carried(row', cmd', outbox', conflict')
<1>1. row \in Row /\ cmd \in Command /\ cmd' \in Command
      /\ outbox \in SUBSET EventKeys
      /\ Carried(row, cmd, outbox, conflict) /\ job[w].answer \in Answer
  BY StopContext, JobForms
<1>2. \A state : /\ Release(cmd, state).seq = cmd.seq
                 /\ Release(cmd, state).reason = cmd.reason
                 /\ Release(cmd, state).state = state
  BY <1>1 DEF Release, Command
<1>3. CASE ClaimCommand(w) \/ DispatchCancel(w) \/ RecheckRejectedCancel(w)
  <2>1. cmd'.seq = cmd.seq /\ cmd'.reason = cmd.reason
        /\ Active(cmd) /\ Active(cmd')
    BY <1>1, <1>3 DEF ClaimCommand, DispatchCancel, RecheckRejectedCancel,
       Stopping, OwnsCommand, Active, ActiveStop, Command
  <2>2. QED
    BY <1>3, <2>1, CommandStep
       DEF ClaimCommand, DispatchCancel, RecheckRejectedCancel, Stopping
<1>4. CASE DispatchTerminal(w)
  BY <1>2, <1>4, CommandStep DEF DispatchTerminal, Active, ActiveStop
<1>5. CASE AcknowledgeClaimedCommand(w) \/ RetryClaimedCommand(w)
  <2>1. cmd'.seq = cmd.seq /\ cmd'.reason = cmd.reason
        /\ Active(cmd) /\ Active(cmd')
    BY <1>2, <1>5 DEF AcknowledgeClaimedCommand, RetryClaimedCommand, Stopping,
       OwnsCommand, Active, ActiveStop
  <2>2. QED
    BY <1>5, <2>1, CommandStep
       DEF AcknowledgeClaimedCommand, RetryClaimedCommand, Stopping
<1>6. CASE RejectMismatched(w)
  BY <1>2, <1>6, CommandStep
     DEF RejectMismatched, Stopping, Active, ActiveStop
<1>7. CASE FailSafeStop(w)
  <2>1. StopKept(row, row') /\ IsTerminalState(row'.state)
    BY <1>1, <1>7, OperatorsKeepStop DEF FailSafeStop
  <2>2. cmd'.seq = cmd.seq /\ ~Active(cmd')
    BY <1>2, <1>7 DEF FailSafeStop, Active, ActiveStop
  <2>3. outbox' = outbox /\ conflict' = conflict
    BY <1>7 DEF FailSafeStop, Stopping
  <2>4. QED
    BY <1>1, <2>1, <2>2, <2>3, CarriedOn
<1>8. CASE RestoreAfterRejection(w)
  <2>1. cmd'.seq = cmd.seq /\ ~Active(cmd')
    BY <1>2, <1>8 DEF RestoreAfterRejection, Active, ActiveStop
  <2>2. IsTerminalState(row'.state) \/ row'.stop = "none"
    BY <1>1, <1>8 DEF RestoreAfterRejection, RejectUserCancel, TransitionTask,
                      Row
  <2>3. outbox' = outbox
    BY <1>8 DEF RestoreAfterRejection, Stopping
  <2>4. QED
    BY <1>1, <2>1, <2>2, <2>3 DEF Carried, Recorded
<1>9. QED
  BY <1>3, <1>4, <1>5, <1>6, <1>7, <1>8 DEF DispatcherStep

LEMMA ReaderStops ==
    ASSUME TypeOK, TypeOK', StopInvariant, SupportsCancel,
           NEW w \in Workers, ReaderStep(w)
    PROVE  Carried(row', cmd', outbox', conflict')
<1>1. row \in Row /\ cmd \in Command /\ cmd' \in Command
      /\ outbox \in SUBSET EventKeys
      /\ Carried(row, cmd, outbox, conflict) /\ job[w].answer \in Answer
  BY StopContext, JobForms
<1>2. CASE ApplyFound(w)
  <2> DEFINE a == job[w].answer
             t == StopTransition(job[w].stop, a.state)
  <2>1. row' = ApplySnapshot(row, a.rev, t)
        /\ cmd' = CommandAfter(row, cmd, a.rev, t)
        /\ outbox' = outbox /\ conflict' = conflict
    BY <1>2 DEF ApplyFound, Reading
  <2>2. StopKept(row, row')
    BY <1>1, <2>1, AnswersKeepStop
  <2>3. CASE cmd' = cmd
    BY <1>1, <2>1, <2>2, <2>3, RowCarriedOn
  <2>4. CASE cmd' = CloseCommand(cmd) /\ ~IsTerminalState(row.state)
             /\ a.rev > row.rev /\ IsTerminalState(t.state)
    <3>1. cmd'.seq = cmd.seq
          /\ (Active(cmd') => Active(cmd) /\ cmd'.reason = cmd.reason)
      BY <1>1, <2>4 DEF CloseCommand, Release, Active, ActiveStop, Command
    <3>2. a.rev \in Nat /\ row.rev \in Nat
      BY <1>1 DEF Answer, Row
    <3>3. IsTerminalState(row'.state)
      BY <1>1, <2>1, <2>4, <3>2
         DEF ApplySnapshot, TransitionAt, MergeStopState, Row
    <3>4. QED
      BY <1>1, <2>1, <2>2, <3>1, <3>3, CarriedOn
  <2>5. QED
    BY <2>1, <2>3, <2>4 DEF CommandAfter
<1>3. CASE FailRecoveryNotFound(w)
  BY <1>1, <1>3, OperatorsKeepStop, RowStep DEF FailRecoveryNotFound, Reading
<1>4. CASE ReadTask(w) \/ ListForRecovery(w) \/ Recover(w)
           \/ ReadUnavailable(w) \/ ReadMismatched(w)
  BY <1>1, <1>4, OperatorsKeepStop, RowStep
     DEF ReadTask, ListForRecovery, Recover, ReadUnavailable, ReadMismatched,
         Reading
<1>5. QED
  BY <1>2, <1>3, <1>4 DEF ReaderStep

LEMMA ClientStops ==
    ASSUME TypeOK, TypeOK', StopInvariant, SupportsCancel, Sweep \/ Client
    PROVE  Carried(row', cmd', outbox', conflict')
<1>1. row \in Row /\ cmd \in Command /\ outbox \in SUBSET EventKeys
      /\ Carried(row, cmd, outbox, conflict) /\ Recorded(outbox, cmd)
      /\ {"USER_REQUESTED", "DEADLINE_REACHED"} \subseteq StopReasons
  BY StopContext DEF StopReasons, Carried
<1>2. \A reason : Stopped(row, reason).stop = reason
  BY <1>1 DEF Stopped, Row
<1>3. CASE CompleteDueStartWindowMisses
  BY <1>1, <1>3, OperatorsKeepStop, RowStep DEF CompleteDueStartWindowMisses
<1>4. CASE BeginCancel
  <2>1. cmd' = NewCommand(cmd, "USER_REQUESTED") /\ row'.stop = "USER_REQUESTED"
        /\ outbox' = outbox /\ conflict' = conflict
    BY <1>2, <1>4 DEF BeginCancel
  <2>2. Active(cmd') /\ cmd'.reason = "USER_REQUESTED" /\ Recorded(outbox', cmd')
    BY <1>1, <2>1, NewCommandIsNew
  <2>3. QED
    BY <2>1, <2>2 DEF Carried
<1>5. CASE ClaimExpiredDeadlines
  <2> DEFINE key == EventKey("deadline-stop", cmd'.seq)
  <2>1. /\ ~IsTerminalState(row.state) /\ row.stop # "DEADLINE_REACHED"
        /\ row' = IF key \in outbox THEN row ELSE Stopped(row, "DEADLINE_REACHED")
        /\ outbox' = outbox \cup {key} /\ conflict' = conflict
    BY <1>5 DEF ClaimExpiredDeadlines, Terminal
  <2>2. /\ key \notin outbox /\ Active(cmd')
        /\ cmd'.reason = "DEADLINE_REACHED" /\ Recorded(outbox, cmd')
    <3>1. CASE Active(cmd)
      <4>1. cmd' = [cmd EXCEPT !.reason = "DEADLINE_REACHED"]
        BY <1>5, <3>1 DEF ClaimExpiredDeadlines
      <4>2. cmd'.seq = cmd.seq /\ cmd'.reason = "DEADLINE_REACHED"
            /\ cmd'.state = cmd.state
        BY <1>1, <4>1 DEF Command
      <4>3. key \notin outbox
        BY <1>1, <2>1, <3>1, <4>2 DEF Carried, Recorded, EventKey
      <4>4. Active(cmd') /\ Recorded(outbox, cmd')
        BY <1>1, <3>1, <4>2 DEF Recorded, Active
      <4>5. QED
        BY <4>2, <4>3, <4>4
    <3>2. CASE ~Active(cmd)
      <4>1. cmd' = NewCommand(cmd, "DEADLINE_REACHED")
        BY <1>5, <3>2 DEF ClaimExpiredDeadlines
      <4>2. QED
        BY <1>1, <4>1, NewCommandIsNew
    <3>3. QED
      BY <3>1, <3>2
  <2>3. row'.stop = "DEADLINE_REACHED"
    BY <1>2, <2>1, <2>2
  <2>4. Recorded(outbox', cmd')
    <3>1. cmd'.seq \in Nat
      BY DEF TypeOK, Command
    <3>2. QED
      BY <2>1, <2>2, <3>1 DEF Recorded, EventKey
  <2>5. QED
    BY <2>2, <2>3, <2>4 DEF Carried
<1>6. CASE RecordCooperativeIntent
  BY <1>6 DEF RecordCooperativeIntent
<1>7. QED
  BY <1>3, <1>4, <1>5, <1>6 DEF Sweep, Client

LEMMA WorldStops ==
    ASSUME TypeOK, TypeOK', StopInvariant, SupportsCancel,
           \/ Timers \/ LateStart \/ AdapterProgress \/ AdapterStops
           \/ UNCHANGED vars
           \/ \E w \in Workers : AdapterStep(w) \/ ClaimLost(w) \/ Crash(w)
    PROVE  Carried(row', cmd', outbox', conflict')
<1>1. row \in Row /\ cmd \in Command
  BY DEF TypeOK
<1>2. CASE CommandTimerElapses
  <2>1. cmd'.seq = cmd.seq /\ cmd'.reason = cmd.reason /\ cmd'.state = cmd.state
    BY <1>1, <1>2 DEF CommandTimerElapses, Command
  <2>2. QED
    BY <1>2, <2>1, CommandStep DEF CommandTimerElapses, Active
<1>3. CASE LeaseElapses \/ NextStartElapses
  <2>1. row' = [row EXCEPT !.lease = "over"] \/ row' = [row EXCEPT !.due = TRUE]
    BY <1>3 DEF LeaseElapses, NextStartElapses
  <2>2. StopKept(row, row')
    BY <1>1, <2>1 DEF StopKept, Row
  <2>3. QED
    BY <1>3, <2>2, RowStep DEF LeaseElapses, NextStartElapses
<1>4. CASE row' = row /\ cmd' = cmd /\ outbox' = outbox /\ conflict' = conflict
  BY <1>4, StopContext
<1>5. QED
  BY <1>2, <1>3, <1>4
     DEF Timers, Tick, LateStart, AdapterProgress, AdapterStops, Advance,
         Quiet, AdapterStep, AdapterStarts, AdapterRefusesStart, AdapterCancels,
         AdapterRefusesCancel, AdapterReconciles, AdapterMisanswers,
         CallFails, CallAbandoned, ClaimLost, Crash, vars

LEMMA StepStops ==
    ASSUME TypeOK, StopInvariant, [Next]_vars PROVE StopInvariant'
<1> SUFFICES ASSUME SupportsCancel PROVE Carried(row', cmd', outbox', conflict')
  BY DEF StopInvariant
<1>1. TypeOK'
  BY StepType
<1>2. QED
  BY <1>1, SchedulerStops, DispatcherStops, ReaderStops, ClientStops,
     WorldStops DEF Next

\* ADR-004: a Task that is being stopped always has one active stop command, for
\* the reason the row shows, until an identity conflict rejects it.
THEOREM StopsAreCommanded == Spec => []StopHasCommand
<1> DEFINE Inv == TypeOK /\ StopInvariant
<1>1. Init => Inv
  BY InitType, InitStops
<1>2. Inv /\ [Next]_vars => Inv'
  BY StepType, StepStops
<1>3. Inv => StopHasCommand
  BY DEF StopInvariant, Carried, StopHasCommand, Terminal
<1>4. QED
  BY <1>1, <1>2, <1>3, PTL DEF Spec

----------------------------------------------------------------------------
(***************************************************************************)
(* A Task that ended by itself leaves no command to dispatch.              *)
(***************************************************************************)

Finished == {"success", "technical_failure", "cancelled", "deadline_reached",
             "start_window_missed"}
Unfinished == {"PENDING", "CLAIMED", "RETRY_WAIT"}

\* Recorded stop events are of the current command or of earlier ones.
Sequenced(o, c) ==
    \A k \in o :
        k.kind \in {"deadline-stop", "start-window-stop"} => k.seq <= c.seq

\* While a command is active the row shows the stop, so no handler of a start
\* or of a confirmation can end the Task behind it: only a snapshot that closes
\* the command, or its own dispatcher, does.
Settled(r, c, o) ==
    /\ (~IsTerminalState(r.state) /\ Active(c))
          => r.state = "STOPPING" /\ r.stop # "none"
    /\ r.outcome \in Finished => c.state \notin Unfinished
    /\ r.outcome # "none" => IsTerminalState(r.state)
    /\ Sequenced(o, c)

CompletionInvariant == Settled(row, cmd, outbox)

(***************************************************************************)
(* Lemmas about the operators.                                             *)
(***************************************************************************)

Shown(r) == r.outcome # "none" => IsTerminalState(r.state)

LEMMA MapShows ==
    ASSUME NEW s, NEW stop
    PROVE  Shown(MapAdapterSnapshot(s)) /\ Shown(StopTransition(stop, s))
<1>1. Shown(MapAdapterSnapshot(s))
  BY DEF Shown, MapAdapterSnapshot, IsTerminalState, TerminalStates
<1>2. QED
  BY <1>1 DEF Shown, StopTransition, IsTerminalState, TerminalStates

\* Every operator shows an outcome only on a terminal row.
LEMMA OperatorsShow ==
    ASSUME NEW r \in Row, NEW w, NEW outcome, NEW reason, NEW a, Shown(r)
    PROVE  /\ Shown(Unclaim(r)) /\ Shown(Claim(r, w))
           /\ Shown(Unclaim(Missed(r)))
           /\ Shown(CompleteScheduledRejection(r))
           /\ Shown(FailTask(r, outcome))
           /\ Shown(AcceptScheduled(r, a)) /\ Shown(ConfirmStarted(r, a))
           /\ Shown(RejectUserCancel(r, a))
           /\ ~IsTerminalState(r.state) =>
                 Shown(ReleaseScheduleRetry(r)) /\ Shown(Stopped(r, reason))
<1>1. Shown(Unclaim(r)) /\ Shown(Claim(r, w))
  BY DEF Shown, Unclaim, Claim, Row
<1>2. Shown(Unclaim(Missed(r))) /\ Shown(CompleteScheduledRejection(r))
      /\ Shown(FailTask(r, outcome))
  BY DEF Shown, Unclaim, Missed, CompleteScheduledRejection, FailTask,
         TransitionTask, Row, IsTerminalState, TerminalStates
<1>3. Shown(MapAdapterSnapshot(a.state))
  BY MapShows
<1>4. Shown(AcceptScheduled(r, a))
  BY <1>3 DEF Shown, AcceptScheduled, TransitionAt, Unclaim, Row
<1>5. Shown(ConfirmStarted(r, a))
  BY <1>3 DEF Shown, ConfirmStarted, TransitionAt, Unclaim, Row
<1>6. Shown(RejectUserCancel(r, a))
  BY <1>3 DEF Shown, RejectUserCancel, TransitionTask, Row
<1>7. ~IsTerminalState(r.state) =>
         Shown(ReleaseScheduleRetry(r)) /\ Shown(Stopped(r, reason))
  BY DEF Shown, ReleaseScheduleRetry, Stopped, Unclaim, Row
<1>8. QED
  BY <1>1, <1>2, <1>4, <1>5, <1>6, <1>7

\* A row that is starting, or not being stopped, has no active command.
LEMMA NothingActive ==
    ASSUME NEW r, NEW c, NEW o, Settled(r, c, o), ~IsTerminalState(r.state),
           r.state # "STOPPING" \/ r.stop = "none"
    PROVE  ~Active(c)
BY DEF Settled

\* With no command to dispatch a row may end in any way.
LEMMA InactiveSettles ==
    ASSUME NEW q, NEW d, NEW p, ~Active(d), Shown(q), Sequenced(p, d)
    PROVE  Settled(q, d, p)
BY DEF Settled, Shown, Active, ActiveStop, Unfinished

\* A step that neither lets go of the stop nor ends the Task by itself.
LEMMA SettledOn ==
    ASSUME NEW r, NEW q, NEW c, NEW d, NEW o, Settled(r, c, o), Shown(q),
           ~IsTerminalState(q.state) =>
              /\ ~IsTerminalState(r.state)
              /\ r.state = "STOPPING" => q.state = "STOPPING"
              /\ r.stop # "none" => q.stop # "none",
           q.outcome \in Finished => r.outcome \in Finished,
           d.seq = c.seq, Active(d) => Active(c),
           d.state \in Unfinished => c.state \in Unfinished
    PROVE  Settled(q, d, o)
BY DEF Settled, Shown, Sequenced

LEMMA NewCommandSettles ==
    ASSUME NEW c \in Command, NEW o \in SUBSET EventKeys, Sequenced(o, c),
           NEW reason
    PROVE  /\ NewCommand(c, reason).seq = c.seq + 1
           /\ Sequenced(o, NewCommand(c, reason))
           /\ \A kind \in {"deadline-stop", "start-window-stop"} :
                 EventKey(kind, c.seq + 1) \notin o
<1>1. c.seq \in Nat /\ \A k \in o : k.seq \in Nat
  BY DEF Command, EventKeys
<1>2. NewCommand(c, reason).seq = c.seq + 1
  BY DEF NewCommand
<1>3. QED
  BY <1>1, <1>2 DEF Sequenced, EventKey

LEMMA WindowSettles ==
    ASSUME NEW r \in Row, NEW c \in Command, NEW o \in SUBSET EventKeys,
           Settled(r, c, o)
    PROVE  Settled(WindowRow(r, c, o), WindowCommand(r, c),
                   WindowEvents(r, c, o))
<1> DEFINE d == WindowCommand(r, c)
           q == WindowRow(r, c, o)
           key == WindowKey(r, c)
<1>1. CASE IsTerminalState(r.state)
  BY <1>1 DEF WindowRow, WindowCommand, WindowEvents
<1>2. CASE ~IsTerminalState(r.state)
  <2>1. r.outcome = "none" /\ Sequenced(o, c) /\ c.seq \in Nat
    BY <1>2 DEF Settled, Command
  <2>2. q.outcome = "none"
    BY <2>1 DEF WindowRow, Stopped, Unclaim, Row
  <2>3. Sequenced(o, d) /\ d.seq \in Nat
    <3>1. CASE d = NewCommand(c, "START_WINDOW_MISSED")
      BY <2>1, <3>1, NewCommandSettles
    <3>2. CASE d = c \/ d = [c EXCEPT !.reason = "START_WINDOW_MISSED"]
      <4>1. d.seq = c.seq
        BY <3>2 DEF Command
      <4>2. QED
        BY <2>1, <4>1 DEF Sequenced
    <3>3. QED
      BY <1>2, <3>1, <3>2 DEF WindowCommand
  <2>4. Sequenced(o \cup {key}, d)
    BY <2>3 DEF Sequenced, WindowKey, EventKey
  <2>5. q.state = "STOPPING" /\ q.stop # "none"
    <3>1. CASE key \notin o
      BY <1>2, <3>1 DEF WindowRow, WindowReason, Stopped, Unclaim, Row
    <3>2. CASE key \in o
      <4>1. Active(c)
        BY <1>2, <2>1, <3>2, NewCommandSettles
           DEF WindowKey, WindowCommand
      <4>2. q = r
        BY <3>2 DEF WindowRow
      <4>3. QED
        BY <1>2, <4>1, <4>2 DEF Settled
    <3>3. QED
      BY <3>1, <3>2
  <2>6. QED
    BY <1>2, <2>2, <2>4, <2>5 DEF Settled, WindowEvents, Finished
<1>3. QED
  BY <1>1, <1>2

(***************************************************************************)
(* Every step.                                                             *)
(***************************************************************************)

LEMMA InitCompletion == Init => CompletionInvariant
<1> SUFFICES ASSUME Init PROVE Settled(row, cmd, outbox)
  BY DEF CompletionInvariant
<1>1. ASSUME NEW r, r.outcome = "none" PROVE Settled(r, NoCommand, {})
  BY <1>1 DEF Settled, NoCommand, Active, ActiveStop, Sequenced, Finished
<1>2. ScheduledRow.outcome = "none"
  BY DEF ScheduledRow
<1>3. ASSUME NEW s \in FirstStates
      PROVE  AcceptedRow(Started(s)) \in Row
             /\ AcceptedRow(Started(s)).outcome = "none"
  BY PublishedType DEF AcceptedRow, ScheduledRow
<1>4. CASE row = ScheduledRow /\ cmd = NoCommand /\ outbox = {}
  BY <1>1, <1>2, <1>4
<1>5. ASSUME NEW s \in FirstStates, exec = Started(s),
             row = AcceptedRow(exec), cmd = NoCommand, outbox = {}
      PROVE  Settled(row, cmd, outbox)
  BY <1>1, <1>3, <1>5
<1>6. ASSUME NEW s \in FirstStates, exec = Started(s),
             row = WindowRow(AcceptedRow(exec), NoCommand, {}),
             cmd = WindowCommand(AcceptedRow(exec), NoCommand),
             outbox = WindowEvents(AcceptedRow(exec), NoCommand, {})
      PROVE  Settled(row, cmd, outbox)
  <2>1. AcceptedRow(exec) \in Row /\ NoCommand \in Command
        /\ {} \in SUBSET EventKeys
    BY <1>6, PublishedType
  <2>2. Settled(AcceptedRow(exec), NoCommand, {})
    BY <1>1, <1>3, <1>6
  <2>3. QED
    BY <1>6, <2>1, <2>2, WindowSettles
<1>7. QED
  BY <1>4, <1>5, <1>6 DEF Init

LEMMA SettledContext ==
    ASSUME TypeOK, CompletionInvariant
    PROVE  /\ row \in Row /\ cmd \in Command /\ outbox \in SUBSET EventKeys
           /\ Settled(row, cmd, outbox) /\ Sequenced(outbox, cmd) /\ Shown(row)
BY DEF TypeOK, CompletionInvariant, Settled, Shown

LEMMA StarterCompletion ==
    ASSUME TypeOK, CompletionInvariant, NEW w \in Workers,
           SchedulerStep(w) \/ WatchdogStep(w)
    PROVE  CompletionInvariant'
<1>1. /\ row \in Row /\ cmd \in Command /\ outbox \in SUBSET EventKeys
      /\ Settled(row, cmd, outbox) /\ Sequenced(outbox, cmd) /\ Shown(row)
      /\ job[w].answer \in Answer
  BY SettledContext, JobForms
<1>2. ~IsTerminalState(row.state) /\ (row.state # "STOPPING" \/ row.stop = "none")
  BY DEF SchedulerStep, ClaimDueScheduled, StartClaimed, StartTooLate,
     StartNotLoaded, ClaimExpiredStart, StartAccepted, StartAbsent,
     StartRejected, StartUncertain, Starting, OwnsStart, WatchdogStep,
     ClaimBoundStart, ConfirmBoundStarted, DeferStartConfirmation,
     StopUnconfirmedBoundExecution, Confirming, OwnsConfirmation, Terminal,
     IsTerminalState, TerminalStates
<1>3. ~Active(cmd)
  BY <1>1, <1>2, NothingActive
<1>4. ASSUME Shown(row'), cmd' = cmd,
             \A k \in outbox' : k \in outbox \/ k = UncertainKey
      PROVE  CompletionInvariant'
  <2>1. Sequenced(outbox', cmd')
    BY <1>1, <1>4 DEF Sequenced, UncertainKey, EventKey
  <2>2. QED
    BY <1>3, <1>4, <2>1, InactiveSettles DEF CompletionInvariant
<1>5. CASE ClaimDueScheduled(w) \/ ClaimBoundStart(w)
  <2>1. row'.outcome = row.outcome
    BY <1>1, <1>5 DEF ClaimDueScheduled, ClaimBoundStart, Claim, Row
  <2>2. Shown(row')
    BY <1>1, <1>2, <2>1 DEF Shown
  <2>3. QED
    BY <1>4, <1>5, <2>2 DEF ClaimDueScheduled, ClaimBoundStart
<1>6. CASE StartClaimed(w) \/ StartTooLate(w) \/ StartNotLoaded(w)
           \/ ClaimExpiredStart(w) \/ StartAbsent(w) \/ StartRejected(w)
           \/ ConfirmBoundStarted(w)
  BY <1>1, <1>2, <1>4, <1>6, OperatorsShow
     DEF StartClaimed, StartTooLate, StartNotLoaded, ClaimExpiredStart,
         StartAbsent, StartRejected, ConfirmBoundStarted
<1>7. CASE StartAccepted(w)
  <2> DEFINE r == AcceptScheduled(row, job[w].answer)
  <2>1. r \in Row /\ Settled(r, cmd, outbox)
    BY <1>1, <1>3, AnswerType, OperatorsShow, InactiveSettles
  <2>2. CASE row' = r /\ cmd' = cmd /\ outbox' = outbox
    BY <2>1, <2>2 DEF CompletionInvariant
  <2>3. CASE PersistStartWindowStop(r)
    BY <1>1, <2>1, <2>3, WindowSettles
       DEF PersistStartWindowStop, CompletionInvariant
  <2>4. QED
    BY <1>7, <2>2, <2>3 DEF StartAccepted
<1>8. CASE StartUncertain(w)
  <2>1. row' = row \/ \E lease \in {"over", "held"} :
                        row' = [row EXCEPT !.owner = NoWorker, !.lease = lease]
    BY <1>8 DEF StartUncertain
  <2>2. Shown(row')
    BY <1>1, <2>1 DEF Shown, Row
  <2>3. cmd' = cmd /\ \A k \in outbox' : k \in outbox \/ k = UncertainKey
    BY <1>8 DEF StartUncertain
  <2>4. QED
    BY <1>4, <2>2, <2>3
<1>9. CASE DeferStartConfirmation(w)
  <2>1. row' = [row EXCEPT !.owner = NoWorker, !.lease = "held"]
    BY <1>9 DEF DeferStartConfirmation
  <2>2. Shown(row')
    BY <1>1, <2>1 DEF Shown, Row
  <2>3. QED
    BY <1>4, <1>9, <2>2 DEF DeferStartConfirmation
<1>10. CASE StopUnconfirmedBoundExecution(w)
  BY <1>1, <1>10, WindowSettles
     DEF StopUnconfirmedBoundExecution, PersistStartWindowStop,
         CompletionInvariant
<1>11. QED
  BY <1>5, <1>6, <1>7, <1>8, <1>9, <1>10 DEF SchedulerStep, WatchdogStep

LEMMA DispatcherCompletion ==
    ASSUME TypeOK, CompletionInvariant, NEW w \in Workers, DispatcherStep(w)
    PROVE  CompletionInvariant'
<1>1. /\ row \in Row /\ cmd \in Command /\ outbox \in SUBSET EventKeys
      /\ Settled(row, cmd, outbox) /\ Sequenced(outbox, cmd) /\ Shown(row)
  BY SettledContext
<1>2. \A state : Release(cmd, state).seq = cmd.seq
                 /\ Release(cmd, state).state = state
  BY <1>1 DEF Release, Command
<1>3. ASSUME row' = row, outbox' = outbox, cmd'.seq = cmd.seq,
             Active(cmd') => Active(cmd),
             cmd'.state \in Unfinished => cmd.state \in Unfinished
      PROVE  CompletionInvariant'
  BY <1>1, <1>3, SettledOn DEF CompletionInvariant
<1>4. ASSUME Shown(row'), outbox' = outbox, cmd'.seq = cmd.seq, ~Active(cmd')
      PROVE  CompletionInvariant'
  <2>1. Sequenced(outbox', cmd')
    BY <1>1, <1>4 DEF Sequenced
  <2>2. QED
    BY <1>4, <2>1, InactiveSettles DEF CompletionInvariant
<1>5. CASE ClaimCommand(w) \/ DispatchCancel(w) \/ RecheckRejectedCancel(w)
  <2>1. cmd'.seq = cmd.seq /\ Active(cmd) /\ cmd.state \in Unfinished
    BY <1>1, <1>5 DEF ClaimCommand, DispatchCancel, RecheckRejectedCancel,
       Stopping, OwnsCommand, Active, ActiveStop, Unfinished, Command
  <2>2. QED
    BY <1>3, <1>5, <2>1
       DEF ClaimCommand, DispatchCancel, RecheckRejectedCancel, Stopping
<1>6. CASE AcknowledgeClaimedCommand(w) \/ RetryClaimedCommand(w)
  <2>1. cmd'.seq = cmd.seq /\ Active(cmd) /\ cmd.state \in Unfinished
    BY <1>2, <1>6 DEF AcknowledgeClaimedCommand, RetryClaimedCommand, Stopping,
       OwnsCommand, Active, ActiveStop, Unfinished
  <2>2. QED
    BY <1>3, <1>6, <2>1
       DEF AcknowledgeClaimedCommand, RetryClaimedCommand, Stopping
<1>7. CASE DispatchTerminal(w) \/ RejectMismatched(w)
  BY <1>1, <1>2, <1>4, <1>7
     DEF DispatchTerminal, RejectMismatched, Stopping, Active, ActiveStop
<1>8. CASE FailSafeStop(w) \/ RestoreAfterRejection(w)
  <2>1. Shown(row') /\ outbox' = outbox
    BY <1>1, <1>8, OperatorsShow DEF FailSafeStop, RestoreAfterRejection, Stopping
  <2>2. cmd'.seq = cmd.seq /\ ~Active(cmd')
    BY <1>2, <1>8 DEF FailSafeStop, RestoreAfterRejection, Active, ActiveStop
  <2>3. QED
    BY <1>4, <2>1, <2>2
<1>9. QED
  BY <1>5, <1>6, <1>7, <1>8 DEF DispatcherStep

LEMMA ReaderCompletion ==
    ASSUME TypeOK, CompletionInvariant, NEW w \in Workers, ReaderStep(w)
    PROVE  CompletionInvariant'
<1>1. /\ row \in Row /\ cmd \in Command /\ outbox \in SUBSET EventKeys
      /\ Settled(row, cmd, outbox) /\ Sequenced(outbox, cmd) /\ Shown(row)
      /\ job[w].answer \in Answer
  BY SettledContext, JobForms
<1>2. CASE ApplyFound(w)
  <2> DEFINE a == job[w].answer
             t == StopTransition(job[w].stop, a.state)
  <2>1. row' = ApplySnapshot(row, a.rev, t)
        /\ cmd' = CommandAfter(row, cmd, a.rev, t) /\ outbox' = outbox
    BY <1>2 DEF ApplyFound, Reading
  <2>2. Shown(t) /\ a.rev \in Nat /\ row.rev \in Nat
    BY <1>1, MapShows DEF Answer, Row
  <2>3. CASE IsTerminalState(row.state) \/ a.rev <= row.rev
    <3>1. row' = row /\ cmd' = cmd
      BY <2>1, <2>2, <2>3 DEF ApplySnapshot, TransitionAt, CommandAfter
    <3>2. QED
      BY <1>1, <2>1, <3>1 DEF CompletionInvariant
  <2>4. CASE ~IsTerminalState(row.state) /\ a.rev > row.rev
    <3>1. CASE IsTerminalState(t.state)
      <4>1. IsTerminalState(row'.state)
        BY <1>1, <2>1, <2>2, <2>4, <3>1
           DEF ApplySnapshot, TransitionAt, MergeStopState, Row
      <4>2. cmd'.seq = cmd.seq /\ cmd'.state \notin Unfinished
        BY <1>1, <2>1, <2>4, <3>1
           DEF CommandAfter, CloseCommand, Release, Unfinished, Command
      <4>3. QED
        BY <1>1, <2>1, <4>1, <4>2 DEF Settled, Sequenced, CompletionInvariant
    <3>2. CASE ~IsTerminalState(t.state)
      <4>1. cmd' = cmd /\ t.outcome = "none" /\ row.outcome = "none"
        BY <1>1, <2>1, <2>2, <3>2, <2>4 DEF CommandAfter, Shown
      <4>2. /\ row'.outcome = "none" /\ row'.stop = row.stop
            /\ row.stop # "none" => row'.state = row.state
        BY <1>1, <2>1, <2>2, <2>4, <3>2, <4>1
           DEF ApplySnapshot, TransitionAt, MergeStopState, Row
      <4>3. QED
        BY <1>1, <2>1, <2>4, <4>1, <4>2
           DEF Settled, CompletionInvariant, Finished
    <3>3. QED
      BY <3>1, <3>2
  <2>5. QED
    BY <2>2, <2>3, <2>4
<1>3. CASE FailRecoveryNotFound(w)
  <2>1. cmd' = cmd /\ outbox' = outbox
        /\ row' = FailTask(row, "EXECUTION_NOT_FOUND")
    BY <1>3 DEF FailRecoveryNotFound, Reading
  <2>2. IsTerminalState(row'.state)
        /\ (row'.outcome \in Finished => row.outcome \in Finished)
    BY <1>1, <2>1 DEF FailTask, TransitionTask, Row, Finished, IsTerminalState,
                      TerminalStates
  <2>3. QED
    BY <1>1, <2>1, <2>2 DEF Settled, CompletionInvariant
<1>4. CASE ReadTask(w) \/ ListForRecovery(w) \/ Recover(w)
           \/ ReadUnavailable(w) \/ ReadMismatched(w)
  BY <1>1, <1>4
     DEF ReadTask, ListForRecovery, Recover, ReadUnavailable, ReadMismatched,
         Reading, CompletionInvariant
<1>5. QED
  BY <1>2, <1>3, <1>4 DEF ReaderStep

LEMMA ClientCompletion ==
    ASSUME TypeOK, TypeOK', CompletionInvariant, Sweep \/ Client
    PROVE  CompletionInvariant'
<1>1. /\ row \in Row /\ cmd \in Command /\ outbox \in SUBSET EventKeys
      /\ Settled(row, cmd, outbox) /\ Sequenced(outbox, cmd) /\ Shown(row)
  BY SettledContext
<1>2. \A reason : /\ Stopped(row, reason).stop = reason
                  /\ Stopped(row, reason).state = "STOPPING"
                  /\ Stopped(row, reason).outcome = row.outcome
  BY <1>1 DEF Stopped, Row
<1>3. CASE CompleteDueStartWindowMisses
  <2>1. ~Active(cmd)
    BY <1>1, <1>3, NothingActive
       DEF CompleteDueStartWindowMisses, IsTerminalState, TerminalStates
  <2>2. Shown(row') /\ cmd' = cmd /\ outbox' = outbox
    BY <1>1, <1>3, OperatorsShow DEF CompleteDueStartWindowMisses
  <2>3. QED
    BY <1>1, <2>1, <2>2, InactiveSettles DEF CompletionInvariant
<1>4. CASE BeginCancel
  <2>1. /\ cmd' = NewCommand(cmd, "USER_REQUESTED") /\ outbox' = outbox
        /\ row'.stop = "USER_REQUESTED" /\ row'.state = "STOPPING"
        /\ row'.outcome = "none"
    BY <1>1, <1>2, <1>4 DEF BeginCancel, Terminal, Shown
  <2>2. Sequenced(outbox', cmd')
    BY <1>1, <2>1, NewCommandSettles
  <2>3. QED
    BY <2>1, <2>2 DEF Settled, CompletionInvariant, Finished
<1>5. CASE ClaimExpiredDeadlines
  <2> DEFINE key == EventKey("deadline-stop", cmd'.seq)
  <2>1. /\ ~IsTerminalState(row.state) /\ row.outcome = "none"
        /\ row' = IF key \in outbox THEN row ELSE Stopped(row, "DEADLINE_REACHED")
        /\ outbox' = outbox \cup {key}
    BY <1>1, <1>5 DEF ClaimExpiredDeadlines, Terminal, Shown
  <2>2. /\ Sequenced(outbox, cmd')
        /\ key \in outbox => row.state = "STOPPING" /\ row.stop # "none"
    <3>1. CASE Active(cmd)
      <4>1. cmd' = [cmd EXCEPT !.reason = "DEADLINE_REACHED"]
        BY <1>5, <3>1 DEF ClaimExpiredDeadlines
      <4>2. cmd'.seq = cmd.seq
        BY <1>1, <4>1 DEF Command
      <4>3. QED
        BY <1>1, <2>1, <3>1, <4>2 DEF Settled, Sequenced
    <3>2. CASE ~Active(cmd)
      <4>1. cmd' = NewCommand(cmd, "DEADLINE_REACHED")
        BY <1>5, <3>2 DEF ClaimExpiredDeadlines
      <4>2. QED
        BY <1>1, <4>1, NewCommandSettles
    <3>3. QED
      BY <3>1, <3>2
  <2>3. row'.state = "STOPPING" /\ row'.stop # "none" /\ row'.outcome = "none"
    BY <1>2, <2>1, <2>2
  <2>4. Sequenced(outbox', cmd')
    <3>1. cmd'.seq \in Nat
      BY DEF TypeOK, Command
    <3>2. QED
      BY <2>1, <2>2, <3>1 DEF Sequenced, EventKey
  <2>5. QED
    BY <2>3, <2>4 DEF Settled, CompletionInvariant, Finished
<1>6. CASE RecordCooperativeIntent
  <2>1. /\ row'.state = row.state /\ row'.stop # "none"
        /\ row'.outcome = row.outcome /\ cmd' = cmd
        /\ outbox' = outbox \cup {EventKey("cancel-intent", 0)}
    BY <1>1, <1>6 DEF RecordCooperativeIntent, Row
  <2>2. Sequenced(outbox', cmd')
    BY <1>1, <2>1 DEF Sequenced, EventKey
  <2>3. QED
    BY <1>1, <2>1, <2>2 DEF Settled, CompletionInvariant
<1>7. QED
  BY <1>3, <1>4, <1>5, <1>6 DEF Sweep, Client

LEMMA WorldCompletion ==
    ASSUME TypeOK, CompletionInvariant,
           \/ Timers \/ LateStart \/ AdapterProgress \/ AdapterStops
           \/ UNCHANGED vars
           \/ \E w \in Workers : AdapterStep(w) \/ ClaimLost(w) \/ Crash(w)
    PROVE  CompletionInvariant'
<1>1. /\ row \in Row /\ cmd \in Command /\ Settled(row, cmd, outbox)
  BY SettledContext
<1>2. CASE CommandTimerElapses
  <2>1. cmd'.seq = cmd.seq /\ cmd'.state = cmd.state /\ row' = row
        /\ outbox' = outbox
    BY <1>1, <1>2 DEF CommandTimerElapses, Command
  <2>2. QED
    BY <1>1, <2>1 DEF Settled, Sequenced, Active, CompletionInvariant
<1>3. CASE LeaseElapses \/ NextStartElapses
  <2>1. row' = [row EXCEPT !.lease = "over"] \/ row' = [row EXCEPT !.due = TRUE]
    BY <1>3 DEF LeaseElapses, NextStartElapses
  <2>2. row'.state = row.state /\ row'.stop = row.stop
        /\ row'.outcome = row.outcome
    BY <1>1, <2>1 DEF Row
  <2>3. cmd' = cmd /\ outbox' = outbox
    BY <1>3 DEF LeaseElapses, NextStartElapses
  <2>4. QED
    BY <1>1, <2>2, <2>3 DEF Settled, CompletionInvariant
<1>4. CASE row' = row /\ cmd' = cmd /\ outbox' = outbox
  BY <1>1, <1>4 DEF CompletionInvariant
<1>5. QED
  BY <1>2, <1>3, <1>4
     DEF Timers, Tick, LateStart, AdapterProgress, AdapterStops, Advance,
         Quiet, AdapterStep, AdapterStarts, AdapterRefusesStart, AdapterCancels,
         AdapterRefusesCancel, AdapterReconciles, AdapterMisanswers,
         CallFails, CallAbandoned, ClaimLost, Crash, vars

\* ADR-004: the terminal snapshot that wins leaves no command to dispatch, with
\* or without cancel capability, whoever applies it.
THEOREM CompletionsCloseCommands == Spec => []CompletionClosesCommand
<1> DEFINE Inv == TypeOK /\ CompletionInvariant
<1>1. Init => Inv
  BY InitType, InitCompletion
<1>2. Inv /\ [Next]_vars => Inv'
  <2>1. TypeOK /\ [Next]_vars => TypeOK'
    BY StepType
  <2>2. QED
    BY <2>1, StarterCompletion, DispatcherCompletion, ReaderCompletion,
       ClientCompletion, WorldCompletion DEF Next
<1>3. Inv => CompletionClosesCommand
  BY DEF CompletionInvariant, Settled, Finished, Unfinished,
         CompletionClosesCommand
<1>4. QED
  BY <1>1, <1>2, <1>3, PTL DEF Spec
=============================================================================
