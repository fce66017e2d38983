-------------------------- MODULE AdmissionProofs --------------------------
(***************************************************************************)
(* Proofs about Admission: whatever callers share a key, wherever they     *)
(* die and whatever is lost on the way to the Adapter, they are told the   *)
(* same, an execution that runs is tracked by its Task or by an admission  *)
(* the scan still lists, and a published admission stays published.        *)
(***************************************************************************)
EXTENDS Admission, TLAPS

----------------------------------------------------------------------------
(* The inductive invariant.                                                *)

\* The steps behind createAdmissionIntent.
Admissible == {"lookup", "read", "reconciling", "reconciled", "dispatch",
               "starting", "started"}

\* What a process carries in its hands is still true of the rows and of the
\* Adapter, however long it has been waiting.
Admitted(p) ==
    /\ proc[p].step \in Admissible => admission # "none"
    /\ proc[p].status = "rejected" => call \in Refuses
    /\ proc[p].state \in {"done", "failed"} => exec = proc[p].state
    /\ proc[p].outcome = "task" => task # "none"
    /\ proc[p].step = "return" => proc[p].outcome # "none"

\* Nothing runs, or may still come to run, without an admission; what the
\* admission says when it is final is true.
Tracked ==
    /\ task # "none" \/ exec # "none" \/ late => admission # "none"
    /\ task # "none" => admission \in {"PUBLISHED", "REJECTED"}
    /\ admission = "REJECTED" => call \in Refuses
    /\ admission = "PUBLISHED" => task # "none" \/ exec = "done"

\* Nobody is answered before the key holds the answer.
Answered ==
    /\ \A a \in answers : key.state = "COMPLETE" /\ a = key.answer
    /\ key.state = "COMPLETE" => key.answer # "none"
    /\ key.answer = "task" => task # "none"

Inv == TypeOK /\ Tracked /\ Answered /\ \A p \in Procs : Admitted(p)

\* The step PublishedIsFinal allows.
Final == admission = "PUBLISHED" /\ call \notin Refuses =>
         admission' = "PUBLISHED"

----------------------------------------------------------------------------
(* What a step may do to the rows, and to the processes.                   *)

\* What no step of a process touches, or only counts down.
Counted == crowded \in BOOLEAN /\ faults \in 0..MaxFaults

TypedRows ==
    /\ call \in Calls
    /\ key \in Key
    /\ admission \in {"none", "PENDING", "UNCERTAIN", "PUBLISHED", "REJECTED"}
    /\ task \in {"none", "scheduled", "bound"}
    /\ exec \in Executions
    /\ late \in BOOLEAN
    /\ answers \subseteq Answers
    /\ Counted

\* Rows and executions never go back.
Forward ==
    /\ call' = call
    /\ admission # "none" => admission' # "none"
    /\ task # "none" => task' # "none"
    /\ exec \in {"done", "failed"} => exec' = exec

\* A step of process p, and of no other.
Only(p) ==
    /\ proc' \in [Procs -> Process]
    /\ \A q \in Procs \ {p} : proc'[q] = proc[q]

\* Process p keeps nothing but its outcome.
Emptied(p, step, outcome) ==
    /\ Only(p)
    /\ proc'[p].step = step /\ proc'[p].outcome = outcome
    /\ proc'[p].status = "none" /\ proc'[p].state = "none"

\* Process p keeps what it has and goes on to a step.
Advanced(p, step) ==
    /\ Only(p)
    /\ proc'[p].step = step /\ proc'[p].outcome = proc[p].outcome
    /\ proc'[p].status = proc[p].status /\ proc'[p].state = proc[p].state

\* Process p has an answer of the Adapter.
Told(p, step, status, state) ==
    /\ Only(p)
    /\ proc'[p].step = step /\ proc'[p].outcome = proc[p].outcome
    /\ proc'[p].status = status /\ proc'[p].state = state

LEMMA IdleIsProcess == Idle \in Process
BY DEF Idle, Process, Steps, Statuses, Executions, Answers

LEMMA GotoForm ==
    ASSUME proc \in [Procs -> Process], NEW p \in Procs, NEW s \in Steps,
           Goto(p, s)
    PROVE  Emptied(p, s, "none")
<1>1. [Idle EXCEPT !.step = s] \in Process
  BY DEF Idle, Process, Steps, Statuses, Executions, Answers
<1>2. proc' = [proc EXCEPT ![p] = [Idle EXCEPT !.step = s]]
  BY DEF Goto
<1>3. Only(p) /\ proc'[p] = [Idle EXCEPT !.step = s]
  BY <1>1, <1>2 DEF Only
<1> QED BY <1>3 DEF Emptied, Idle

LEMMA ReturnForm ==
    ASSUME proc \in [Procs -> Process], NEW p \in Procs, NEW o \in Answers,
           Return(p, o)
    PROVE  Emptied(p, "return", o)
<1>1. [Idle EXCEPT !.step = "return", !.outcome = o] \in Process
  BY DEF Idle, Process, Steps, Statuses, Executions, Answers
<1>2. proc' = [proc EXCEPT ![p] = [Idle EXCEPT !.step = "return",
                                               !.outcome = o]]
  BY DEF Return
<1>3. Only(p) /\ proc'[p] = [Idle EXCEPT !.step = "return", !.outcome = o]
  BY <1>1, <1>2 DEF Only
<1> QED BY <1>3 DEF Emptied, Idle

LEMMA IdleForm ==
    ASSUME proc \in [Procs -> Process], NEW p \in Procs,
           proc' = [proc EXCEPT ![p] = Idle]
    PROVE  Emptied(p, "idle", "none")
<1>1. Only(p) /\ proc'[p] = Idle
  BY IdleIsProcess DEF Only
<1> QED BY <1>1 DEF Emptied, Idle

LEMMA StepForm ==
    ASSUME proc \in [Procs -> Process], NEW p \in Procs, NEW s \in Steps,
           proc' = [proc EXCEPT ![p].step = s]
    PROVE  Advanced(p, s)
<1>1. proc[p] \in Process
  OBVIOUS
<1>2. [proc[p] EXCEPT !.step = s] \in Process
  BY <1>1 DEF Process
<1>3. Only(p) /\ proc'[p] = [proc[p] EXCEPT !.step = s]
  BY <1>2 DEF Only
<1> QED BY <1>1, <1>3 DEF Advanced, Process

LEMMA RetryForm ==
    ASSUME proc \in [Procs -> Process], NEW p \in Procs, NEW s \in Steps,
           NEW r \in BOOLEAN,
           proc' = [proc EXCEPT ![p].step = s, ![p].retry = r]
    PROVE  Advanced(p, s)
<1>1. proc[p] \in Process
  OBVIOUS
<1>2. [proc[p] EXCEPT !.step = s, !.retry = r] \in Process
  BY <1>1 DEF Process
<1>3. Only(p) /\ proc'[p] = [proc[p] EXCEPT !.step = s, !.retry = r]
  BY <1>2 DEF Only
<1> QED BY <1>1, <1>3 DEF Advanced, Process

LEMMA ReadForm ==
    ASSUME proc \in [Procs -> Process], NEW p \in Procs,
           admission \in {"none", "PENDING", "UNCERTAIN", "PUBLISHED", "REJECTED"},
           proc' = [proc EXCEPT ![p] = [Idle EXCEPT !.step = "reconciling",
                                                    !.seen = admission]]
    PROVE  Emptied(p, "reconciling", "none")
<1>1. [Idle EXCEPT !.step = "reconciling", !.seen = admission] \in Process
  BY DEF Idle, Process, Steps, Statuses, Executions, Answers
<1>2. Only(p) /\ proc'[p] = [Idle EXCEPT !.step = "reconciling",
                                         !.seen = admission]
  BY <1>1 DEF Only
<1> QED BY <1>2 DEF Emptied, Idle

LEMMA ReplyForm ==
    ASSUME proc \in [Procs -> Process], NEW p \in Procs, NEW s \in Steps,
           NEW status \in Statuses, NEW state \in Executions,
           Reply(p, s, status, state)
    PROVE  Told(p, s, status, state)
<1>1. proc[p] \in Process
  OBVIOUS
<1>2. [proc[p] EXCEPT !.step = s, !.status = status, !.state = state] \in Process
  BY <1>1 DEF Process
<1>3. proc' = [proc EXCEPT ![p].step = s, ![p].status = status,
                           ![p].state = state]
  BY DEF Reply
<1>4. /\ Only(p)
      /\ proc'[p] = [proc[p] EXCEPT !.step = s, !.status = status,
                                    !.state = state]
  BY <1>2, <1>3 DEF Only
<1> QED BY <1>1, <1>4 DEF Told, Process

\* The rows go forward: what the other processes hold stays true of them.
LEMMA OnlyOne ==
    ASSUME Inv, NEW p \in Procs, Only(p), Forward,
           TypedRows', Tracked', Answered', Admitted(p)'
    PROVE  Inv'
<1>1. ASSUME NEW q \in Procs, q # p
      PROVE  Admitted(q)'
  <2>1. Admitted(q) /\ proc'[q] = proc[q]
    BY <1>1 DEF Inv, Only
  <2> QED BY <2>1 DEF Admitted, Forward
<1>2. \A q \in Procs : Admitted(q)'
  BY <1>1
<1>3. TypeOK'
  BY DEF TypeOK, TypedRows, Only, Counted
<1> QED BY <1>2, <1>3 DEF Inv

LEMMA NobodyMoves ==
    ASSUME Inv, UNCHANGED proc, Forward, TypedRows', Tracked', Answered'
    PROVE  Inv'
<1>1. ASSUME NEW q \in Procs
      PROVE  Admitted(q)'
  <2>1. Admitted(q)
    BY DEF Inv
  <2> QED BY <2>1 DEF Admitted, Forward
<1>2. TypeOK'
  BY DEF Inv, TypeOK, TypedRows, Counted
<1> QED BY <1>1, <1>2 DEF Inv

\* A step on the Runtime's own tables that leaves the key alone and keeps the
\* admission true.
LEMMA RowsMove ==
    ASSUME Inv, NEW p \in Procs, Only(p), Admitted(p)',
           UNCHANGED <<call, exec, late, key, answers>>,
           Counted',
           admission' \in {"none", "PENDING", "UNCERTAIN", "PUBLISHED", "REJECTED"},
           task' \in {"none", "scheduled", "bound"},
           admission # "none" => admission' # "none",
           task # "none" => task' # "none",
           task' # "none" => admission' \in {"PUBLISHED", "REJECTED"},
           admission' = "REJECTED" => call \in Refuses,
           admission' = "PUBLISHED" => task' # "none" \/ exec = "done"
    PROVE  Inv'
<1>1. Forward
  BY DEF Forward
<1>2. TypedRows'
  BY DEF Inv, TypeOK, TypedRows
<1>3. Tracked'
  BY DEF Inv, Tracked
<1>4. Answered'
  BY DEF Inv, Answered
<1> QED BY <1>1, <1>2, <1>3, <1>4, OnlyOne

\* A step that leaves every row alone.
LEMMA NothingMoves ==
    ASSUME Inv, NEW p \in Procs, Only(p), Admitted(p)',
           UNCHANGED <<call, exec, late, key, answers, admission, task>>,
           Counted'
    PROVE  Inv' /\ Final
<1>1. TypeOK /\ Tracked
  BY DEF Inv
<1> QED BY <1>1, RowsMove DEF Final, Tracked, TypeOK

LEMMA FaultCounts ==
    ASSUME TypeOK, Fault, UNCHANGED crowded
    PROVE  Counted'
BY AdmissionAssumption DEF TypeOK, Fault, Counted

LEMMA MarkKeeps ==
    ASSUME TypeOK, MarkUncertain
    PROVE  /\ admission' \in {"none", "PENDING", "UNCERTAIN", "PUBLISHED", "REJECTED"}
           /\ admission # "none" => admission' # "none"
           /\ admission' = "PUBLISHED" <=> admission = "PUBLISHED"
           /\ admission' = "REJECTED" <=> admission = "REJECTED"
BY DEF TypeOK, MarkUncertain

----------------------------------------------------------------------------
(* The idempotency record.                                                 *)

\* A step that changes nothing but the key, the answers and its process.
LEMMA KeyMoves ==
    ASSUME Inv, NEW p \in Procs, Only(p), Admitted(p)',
           UNCHANGED <<call, exec, late, admission, task>>,
           Counted', key' \in Key, answers' \subseteq Answers,
           Answered'
    PROVE  Inv' /\ Final
<1>1. Forward
  BY DEF Forward
<1>2. TypedRows'
  BY DEF Inv, TypeOK, TypedRows
<1>3. Tracked'
  BY DEF Inv, Tracked
<1> QED BY <1>1, <1>2, <1>3, OnlyOne DEF Final

LEMMA ClaimKeyKeeps ==
    ASSUME Inv, NEW p \in Callers, ClaimKey(p)
    PROVE  Inv' /\ Final
<1> p \in Procs
  BY DEF Procs
<1>1. TypeOK /\ Answered /\ Admitted(p)
  BY DEF Inv
<1>2. Advanced(p, "intent")
  <2>1. /\ proc' = [proc EXCEPT ![p].step = "intent",
                                ![p].retry = key.state = "PENDING"]
        /\ (key.state = "PENDING") \in BOOLEAN
    BY DEF ClaimKey
  <2> QED BY <1>1, <2>1, RetryForm DEF TypeOK, Steps
<1>3. Admitted(p)'
  <2>1. /\ proc'[p].step = "intent" /\ proc'[p].outcome = proc[p].outcome
        /\ proc'[p].status = proc[p].status /\ proc'[p].state = proc[p].state
    BY <1>2 DEF Advanced
  <2>2. UNCHANGED <<call, exec, task>>
    BY DEF ClaimKey, Local
  <2> QED BY <1>1, <2>1, <2>2 DEF Admitted, Admissible
<1>4. key' \in Key /\ key'.answer = "none" /\ key'.state = "PENDING"
  BY DEF ClaimKey, Owned, Key, Procs, Answers
<1>5. answers = {} /\ answers' = {}
  BY <1>1 DEF ClaimKey, Answered
<1>6. Answered'
  BY <1>4, <1>5 DEF Answered
<1>7. /\ UNCHANGED <<call, exec, late, admission, task>>
      /\ Counted' /\ answers' \subseteq Answers
  BY <1>1, <1>5 DEF ClaimKey, Local, TypeOK, Counted
<1> QED BY <1>2, <1>3, <1>4, <1>6, <1>7, KeyMoves DEF Advanced

LEMMA AnswerFromKeyKeeps ==
    ASSUME Inv, NEW p \in Callers, AnswerFromKey(p)
    PROVE  Inv' /\ Final
<1>1. TypeOK /\ Tracked /\ Answered
  BY DEF Inv
<1>2. UNCHANGED <<call, key, exec, late, admission, task, proc, crowded, faults>>
  BY DEF AnswerFromKey, Local
<1>3. /\ key.state = "COMPLETE" /\ key.answer \in Answers
      /\ answers' = answers \cup {key.answer}
  BY <1>1 DEF AnswerFromKey, TypeOK, Key, Answered
<1>4. TypedRows' /\ Tracked' /\ Forward
  BY <1>1, <1>2, <1>3 DEF TypeOK, TypedRows, Tracked, Forward, Counted
<1>5. Answered'
  BY <1>1, <1>2, <1>3 DEF Answered
<1> QED BY <1>2, <1>4, <1>5, NobodyMoves DEF Final

LEMMA CompleteKeyKeeps ==
    ASSUME Inv, NEW p \in Callers, CompleteKey(p)
    PROVE  Inv' /\ Final
<1> p \in Procs
  BY DEF Procs
<1>1. TypeOK /\ Answered /\ Admitted(p) /\ proc[p].step = "return"
  BY DEF Inv, CompleteKey, At
<1>2. proc[p].outcome \in Answers
  BY <1>1 DEF TypeOK, Process, Admitted
<1>3. /\ UNCHANGED <<call, exec, late, admission, task>>
      /\ Counted'
  BY <1>1 DEF CompleteKey, Local, TypeOK, Counted
<1>4. /\ key \in Key
      /\ [key EXCEPT !.state = "COMPLETE", !.owner = NoProc,
                     !.answer = proc[p].outcome] \in Key
  BY <1>1, <1>2 DEF TypeOK, Key
<1>5. CASE key.state = "PENDING" /\ key.owner = p
  <2>1. /\ key' = [key EXCEPT !.state = "COMPLETE", !.owner = NoProc,
                              !.answer = proc[p].outcome]
        /\ answers' = answers \cup {proc[p].outcome}
        /\ proc' = [proc EXCEPT ![p] = Idle]
    BY <1>5 DEF CompleteKey
  <2>2. Emptied(p, "idle", "none")
    BY <1>1, <2>1, IdleForm DEF TypeOK
  <2>3. Admitted(p)'
    BY <2>2 DEF Emptied, Admitted, Admissible
  <2>4. answers = {}
    BY <1>1, <1>5 DEF Answered
  <2>5. key'.state = "COMPLETE" /\ key'.answer = proc[p].outcome
    BY <1>4, <2>1 DEF Key
  <2>6. Answered'
    BY <1>1, <1>2, <1>3, <2>1, <2>4, <2>5 DEF Answered, Admitted, Answers
  <2>7. key' \in Key /\ answers' \subseteq Answers
    BY <1>2, <1>4, <2>1, <2>4
  <2> QED BY <1>3, <2>2, <2>3, <2>6, <2>7, KeyMoves DEF Emptied
<1>6. CASE ~(key.state = "PENDING" /\ key.owner = p) /\ key.state = "COMPLETE"
  <2>1. /\ UNCHANGED key
        /\ answers' = answers \cup {key.answer}
        /\ proc' = [proc EXCEPT ![p] = Idle]
    BY <1>6 DEF CompleteKey
  <2>2. Emptied(p, "idle", "none")
    BY <1>1, <2>1, IdleForm DEF TypeOK
  <2>3. Admitted(p)'
    BY <2>2 DEF Emptied, Admitted, Admissible
  <2>4. Answered'
    BY <1>1, <1>3, <1>6, <2>1 DEF Answered
  <2>5. key' \in Key /\ answers' \subseteq Answers
    BY <1>1, <1>4, <1>6, <2>1 DEF TypeOK, Key, Answered
  <2> QED BY <1>3, <2>2, <2>3, <2>4, <2>5, KeyMoves DEF Emptied
<1>7. CASE key.state # "COMPLETE" /\ ~(key.state = "PENDING" /\ key.owner = p)
  <2>1. Throw(p) /\ UNCHANGED <<key, answers>>
    BY <1>7 DEF CompleteKey
  <2>2. Emptied(p, "throw", "none")
    BY <1>1, <2>1, GotoForm DEF TypeOK, Throw, Steps
  <2>3. Admitted(p)'
    BY <2>2 DEF Emptied, Admitted, Admissible
  <2> QED BY <1>3, <2>1, <2>2, <2>3, NothingMoves DEF Emptied
<1> QED BY <1>5, <1>6, <1>7

\* A claim that changes hands or expires is no answer.
LEMMA ClaimMoves ==
    ASSUME Answered, key.state # "COMPLETE", key'.state = key.state,
           key'.answer = key.answer, UNCHANGED <<answers, task>>
    PROVE  Answered'
BY DEF Answered

LEMMA AbandonKeeps ==
    ASSUME Inv, NEW p \in Callers, Abandon(p)
    PROVE  Inv' /\ Final
<1> p \in Procs
  BY DEF Procs
<1>1. TypeOK /\ Answered /\ key \in Key
  BY DEF Inv, TypeOK
<1>2. /\ UNCHANGED <<call, exec, late, admission, task, answers>>
      /\ Counted' /\ answers' \subseteq Answers
  BY <1>1 DEF Abandon, Local, TypeOK, Counted
<1>3. Emptied(p, "idle", "none")
  <2>1. proc' = [proc EXCEPT ![p] = Idle]
    BY DEF Abandon
  <2> QED BY <1>1, <2>1, IdleForm DEF TypeOK
<1>4. Admitted(p)'
  BY <1>3 DEF Emptied, Admitted, Admissible
<1>5. key' \in Key /\ Answered'
  <2>1. CASE key.state = "PENDING" /\ key.owner = p
    <3>1. key' = [key EXCEPT !.owner = NoProc, !.over = TRUE]
      BY <2>1 DEF Abandon
    <3>2. /\ key' \in Key /\ key'.state = key.state
          /\ key'.answer = key.answer
      BY <1>1, <3>1 DEF Key
    <3> QED BY <1>1, <1>2, <2>1, <3>2, ClaimMoves
  <2>2. CASE ~(key.state = "PENDING" /\ key.owner = p)
    <3>1. key' = key
      BY <2>2 DEF Abandon
    <3> QED BY <1>1, <1>2, <3>1 DEF Answered
  <2> QED BY <2>1, <2>2
<1> QED BY <1>2, <1>3, <1>4, <1>5, KeyMoves DEF Emptied

LEMMA KeyLeaseElapsesKeeps ==
    ASSUME Inv, KeyLeaseElapses
    PROVE  Inv' /\ Final
<1>1. TypeOK /\ Tracked /\ Answered /\ key \in Key
  BY DEF Inv, TypeOK
<1>2. UNCHANGED <<call, exec, late, admission, task, answers, proc>>
  BY DEF KeyLeaseElapses
<1>3. Counted'
  BY <1>1, FaultCounts DEF KeyLeaseElapses, TypeOK, Counted
<1>4. /\ key' \in Key /\ key'.state = key.state
      /\ key'.answer = key.answer /\ key.state = "PENDING"
  <2>1. key' = [key EXCEPT !.over = TRUE] /\ key.state = "PENDING"
    BY DEF KeyLeaseElapses
  <2> QED BY <1>1, <2>1 DEF Key
<1>5. Answered'
  BY <1>1, <1>2, <1>4, ClaimMoves
<1>6. TypedRows' /\ Tracked' /\ Forward
  BY <1>1, <1>2, <1>3, <1>4 DEF TypeOK, TypedRows, Tracked, Forward
<1> QED BY <1>2, <1>5, <1>6, NobodyMoves DEF Final

----------------------------------------------------------------------------
(* The recovery scan, and a process that dies.                             *)

LEMMA ListAdmissionsKeeps ==
    ASSUME Inv, NEW p \in Procs, ListAdmissions(p)
    PROVE  Inv' /\ Final
<1>1. TypeOK /\ Admitted(p)
  BY DEF Inv
<1>2. /\ UNCHANGED <<call, exec, late, key, answers, admission, task>>
      /\ Counted'
  BY <1>1 DEF ListAdmissions, Local, TypeOK, Counted
<1>3. Advanced(p, "intent")
  <2>1. proc' = [proc EXCEPT ![p].step = "intent", ![p].retry = TRUE]
    BY DEF ListAdmissions
  <2> QED BY <1>1, <2>1, RetryForm DEF TypeOK, Steps
<1>4. Admitted(p)'
  <2>1. /\ proc'[p].step = "intent" /\ proc'[p].outcome = proc[p].outcome
        /\ proc'[p].status = proc[p].status /\ proc'[p].state = proc[p].state
    BY <1>3 DEF Advanced
  <2> QED BY <1>1, <1>2, <2>1 DEF Admitted, Admissible
<1> QED BY <1>2, <1>3, <1>4, NothingMoves DEF Advanced

LEMMA EndRecoveryKeeps ==
    ASSUME Inv, NEW p \in Procs, EndRecovery(p)
    PROVE  Inv' /\ Final
<1>1. TypeOK
  BY DEF Inv
<1>2. /\ UNCHANGED <<call, exec, late, key, answers, admission, task>>
      /\ Counted'
  BY <1>1 DEF EndRecovery, Local, TypeOK, Counted
<1>3. Emptied(p, "idle", "none")
  <2>1. proc' = [proc EXCEPT ![p] = Idle]
    BY DEF EndRecovery
  <2> QED BY <1>1, <2>1, IdleForm DEF TypeOK
<1>4. Admitted(p)'
  BY <1>3 DEF Emptied, Admitted, Admissible
<1> QED BY <1>2, <1>3, <1>4, NothingMoves DEF Emptied

LEMMA CrashKeeps ==
    ASSUME Inv, NEW p \in Procs, Crash(p)
    PROVE  Inv' /\ Final
<1>1. TypeOK /\ Tracked /\ Answered /\ Admitted(p) /\ key \in Key
  BY DEF Inv, TypeOK
<1>2. /\ UNCHANGED <<call, exec, admission, task, answers>>
      /\ Counted'
  BY <1>1, FaultCounts DEF Crash, Counted
<1>3. Emptied(p, "idle", "none")
  <2>1. proc' = [proc EXCEPT ![p] = Idle]
    BY DEF Crash
  <2> QED BY <1>1, <2>1, IdleForm DEF TypeOK
<1>4. Admitted(p)'
  BY <1>3 DEF Emptied, Admitted, Admissible
<1>5. key' \in Key /\ Answered'
  <2>1. CASE key.owner = p
    <3>1. key' = [key EXCEPT !.owner = NoProc]
      BY <2>1 DEF Crash
    <3>2. /\ key' \in Key /\ key'.state = key.state
          /\ key'.answer = key.answer
      BY <1>1, <3>1 DEF Key
    <3> QED BY <1>1, <1>2, <3>2 DEF Answered
  <2>2. CASE key.owner # p
    <3>1. key' = key
      BY <2>2 DEF Crash
    <3> QED BY <1>1, <1>2, <3>1 DEF Answered
  <2> QED BY <2>1, <2>2
<1>6. late' \in BOOLEAN /\ (late' => late \/ proc[p].step = "starting")
  BY <1>1 DEF Crash, At, TypeOK
<1>7. Tracked'
  BY <1>1, <1>2, <1>6 DEF Tracked, Admitted, Admissible
<1>8. TypedRows' /\ Forward
  BY <1>1, <1>2, <1>5, <1>6 DEF TypeOK, TypedRows, Forward
<1> QED BY <1>2, <1>3, <1>4, <1>5, <1>7, <1>8, OnlyOne DEF Final, Emptied

----------------------------------------------------------------------------
(* #executeOperation.                                                      *)

\* A process that keeps nothing is admitted when its step is, and its outcome
\* is true.
LEMMA EmptiedIsAdmitted ==
    ASSUME NEW p \in Procs, NEW s, NEW o, Emptied(p, s, o),
           s \in Admissible => admission' # "none",
           o = "task" => task' # "none",
           s = "return" => o # "none"
    PROVE  Only(p) /\ Admitted(p)'
BY DEF Emptied, Admitted

LEMMA CreateAdmissionIntentKeeps ==
    ASSUME Inv, NEW p \in Procs, CreateAdmissionIntent(p)
    PROVE  Inv' /\ Final
<1>1. TypeOK /\ Tracked /\ Admitted(p)
  BY DEF Inv
<1>2. /\ UNCHANGED <<call, exec, late, key, answers, task>>
      /\ Counted'
      /\ admission' = IF admission = "none" THEN "PENDING" ELSE admission
  BY <1>1 DEF CreateAdmissionIntent, Local, TypeOK, Counted
<1>3. Only(p) /\ Admitted(p)'
  <2>1. CASE admission = "none" /\ ~proc[p].retry
    <3>1. Goto(p, "dispatch")
      BY <2>1 DEF CreateAdmissionIntent
    <3>2. Emptied(p, "dispatch", "none")
      BY <1>1, <3>1, GotoForm DEF TypeOK, Steps
    <3> QED BY <1>2, <2>1, <3>2, EmptiedIsAdmitted
  <2>2. CASE ~(admission = "none" /\ ~proc[p].retry)
    <3>1. proc' = [proc EXCEPT ![p].step = "lookup"]
      BY <2>2 DEF CreateAdmissionIntent
    <3>2. Advanced(p, "lookup")
      BY <1>1, <3>1, StepForm DEF TypeOK, Steps
    <3> QED BY <1>1, <1>2, <3>2 DEF Advanced, Admitted
  <2> QED BY <2>1, <2>2
<1>4. /\ admission' \in {"none", "PENDING", "UNCERTAIN", "PUBLISHED", "REJECTED"}
      /\ task' \in {"none", "scheduled", "bound"}
      /\ admission # "none" => admission' # "none"
      /\ task' # "none" => admission' \in {"PUBLISHED", "REJECTED"}
      /\ admission' = "REJECTED" => call \in Refuses
      /\ admission' = "PUBLISHED" => task' # "none" \/ exec = "done"
      /\ Final
  BY <1>1, <1>2 DEF TypeOK, Tracked, Final
<1> QED BY <1>2, <1>3, <1>4, RowsMove

LEMMA LookupTaskKeeps ==
    ASSUME Inv, NEW p \in Procs, LookupTask(p)
    PROVE  Inv' /\ Final
<1>1. TypeOK /\ Admitted(p) /\ admission # "none"
  BY DEF Inv, Admitted, Admissible, LookupTask, At
<1>2. /\ UNCHANGED <<call, exec, late, key, answers, admission, task>>
      /\ Counted'
  BY <1>1 DEF LookupTask, Local, TypeOK, Counted
<1>3. CASE task # "none"
  <2>1. Return(p, "task")
    BY <1>3 DEF LookupTask
  <2>2. Emptied(p, "return", "task")
    BY <1>1, <2>1, ReturnForm DEF TypeOK, Answers
  <2>3. Only(p) /\ Admitted(p)'
    BY <1>2, <1>3, <2>2, EmptiedIsAdmitted DEF Admissible
  <2> QED BY <1>2, <2>3, NothingMoves
<1>4. CASE task = "none"
  <2>1. Goto(p, "read")
    BY <1>4 DEF LookupTask
  <2>2. Emptied(p, "read", "none")
    BY <1>1, <2>1, GotoForm DEF TypeOK, Steps
  <2>3. Only(p) /\ Admitted(p)'
    BY <1>1, <1>2, <2>2, EmptiedIsAdmitted
  <2> QED BY <1>2, <2>3, NothingMoves
<1> QED BY <1>3, <1>4

LEMMA ReadAdmissionKeeps ==
    ASSUME Inv, NEW p \in Procs, ReadAdmission(p)
    PROVE  Inv' /\ Final
<1>1. TypeOK /\ Admitted(p) /\ admission # "none"
  BY DEF Inv, Admitted, Admissible, ReadAdmission, At
<1>2. /\ UNCHANGED <<call, exec, late, key, answers, admission, task>>
      /\ Counted'
  BY <1>1 DEF ReadAdmission, Local, TypeOK, Counted
<1>3. Emptied(p, "reconciling", "none")
  BY <1>1, ReadForm DEF TypeOK, ReadAdmission
<1>4. Only(p) /\ Admitted(p)'
  BY <1>1, <1>2, <1>3, EmptiedIsAdmitted
<1> QED BY <1>2, <1>4, NothingMoves

\* A process that throws has nothing left to be wrong about.
LEMMA ThrowIsAdmitted ==
    ASSUME TypeOK, NEW p \in Procs, Throw(p)
    PROVE  Only(p) /\ Admitted(p)'
<1>1. Emptied(p, "throw", "none")
  BY GotoForm DEF TypeOK, Throw, Steps
<1> QED BY <1>1, EmptiedIsAdmitted DEF Admissible

LEMMA ReturnIsAdmitted ==
    ASSUME TypeOK, NEW p \in Procs, NEW o \in Answers, Return(p, o),
           o = "task" => task' # "none"
    PROVE  Only(p) /\ Admitted(p)'
<1>1. Emptied(p, "return", o)
  BY ReturnForm DEF TypeOK
<1> QED BY <1>1, EmptiedIsAdmitted DEF Admissible, Answers

LEMMA ReconcileFailsKeeps ==
    ASSUME Inv, NEW p \in Procs, ReconcileFails(p)
    PROVE  Inv' /\ Final
<1>1. TypeOK
  BY DEF Inv
<1>2. /\ UNCHANGED <<call, exec, late, key, answers, admission, task>>
      /\ Counted'
  BY <1>1 DEF ReconcileFails, Local, TypeOK, Counted
<1>3. Only(p) /\ Admitted(p)'
  BY <1>1, ThrowIsAdmitted DEF ReconcileFails
<1> QED BY <1>2, <1>3, NothingMoves

LEMMA ReconcileNotFoundKeeps ==
    ASSUME Inv, NEW p \in Procs, ReconcileNotFound(p)
    PROVE  Inv' /\ Final
<1>1. TypeOK /\ Admitted(p) /\ admission # "none"
  BY DEF Inv, Admitted, Admissible, ReconcileNotFound, At
<1>2. /\ UNCHANGED <<call, exec, late, key, answers, admission, task>>
      /\ Counted'
  BY <1>1 DEF ReconcileNotFound, Local, TypeOK, Counted
<1>3. Only(p) /\ Admitted(p)'
  <2>1. CASE proc[p].seen = "UNCERTAIN"
    <3>1. Throw(p)
      BY <2>1 DEF ReconcileNotFound, Throw
    <3> QED BY <1>1, <3>1, ThrowIsAdmitted
  <2>2. CASE proc[p].seen # "UNCERTAIN"
    <3>1. Goto(p, "dispatch")
      BY <2>2 DEF ReconcileNotFound
    <3>2. Emptied(p, "dispatch", "none")
      BY <1>1, <3>1, GotoForm DEF TypeOK, Steps
    <3> QED BY <1>1, <1>2, <3>2, EmptiedIsAdmitted
  <2> QED BY <2>1, <2>2
<1> QED BY <1>2, <1>3, NothingMoves

LEMMA SendStartKeeps ==
    ASSUME Inv, NEW p \in Procs, SendStart(p)
    PROVE  Inv' /\ Final
<1>1. TypeOK /\ Admitted(p) /\ admission # "none"
  BY DEF Inv, Admitted, Admissible, SendStart, At
<1>2. /\ UNCHANGED <<call, exec, late, key, answers, admission, task>>
      /\ Counted'
  BY <1>1 DEF SendStart, Local, TypeOK, Counted
<1>3. Emptied(p, "starting", "none")
  BY <1>1, GotoForm DEF TypeOK, Steps, SendStart
<1>4. Only(p) /\ Admitted(p)'
  BY <1>1, <1>2, <1>3, EmptiedIsAdmitted
<1> QED BY <1>2, <1>4, NothingMoves

\* markAdmissionUncertain, and the process throws.
LEMMA UncertainKeeps ==
    ASSUME Inv, NEW p \in Procs, MarkUncertain, Throw(p),
           UNCHANGED <<call, exec, late, key, answers, task>>,
           Counted'
    PROVE  Inv' /\ Final
<1>1. TypeOK /\ Tracked
  BY DEF Inv
<1>2. Only(p) /\ Admitted(p)'
  BY <1>1, ThrowIsAdmitted
<1>3. /\ admission' \in {"none", "PENDING", "UNCERTAIN", "PUBLISHED", "REJECTED"}
      /\ admission # "none" => admission' # "none"
      /\ admission' = "PUBLISHED" <=> admission = "PUBLISHED"
      /\ admission' = "REJECTED" <=> admission = "REJECTED"
  BY <1>1, MarkKeeps
<1>4. /\ task' \in {"none", "scheduled", "bound"}
      /\ task' # "none" => admission' \in {"PUBLISHED", "REJECTED"}
      /\ admission' = "REJECTED" => call \in Refuses
      /\ admission' = "PUBLISHED" => task' # "none" \/ exec = "done"
  BY <1>1, <1>3 DEF TypeOK, Tracked
<1>5. Final
  BY <1>3 DEF Final
<1>6. Inv'
  BY <1>2, <1>3, <1>4, RowsMove
<1> QED BY <1>5, <1>6

LEMMA StartLostKeeps ==
    ASSUME Inv, NEW p \in Procs, StartLost(p)
    PROVE  Inv' /\ Final
BY UncertainKeeps DEF StartLost, Local, Inv, TypeOK, Counted

\* A refusal only comes of a call the Adapter may refuse.
LEMMA StartRefusedKeeps ==
    ASSUME Inv, NEW p \in Procs, StartRefused(p)
    PROVE  Inv' /\ Final
<1>1. TypeOK /\ call \in Refuses
  BY DEF Inv, StartRefused, Admitted
<1>2. /\ UNCHANGED <<call, exec, late, key, answers, task>>
      /\ Counted' /\ admission' = "REJECTED"
      /\ task' \in {"none", "scheduled", "bound"}
  BY <1>1 DEF StartRefused, Local, TypeOK, Counted
<1>3. Only(p) /\ Admitted(p)'
  BY <1>1, ReturnIsAdmitted DEF StartRefused, Answers
<1>4. Final
  BY <1>1 DEF Final
<1>5. Inv'
  BY <1>1, <1>2, <1>3, RowsMove
<1> QED BY <1>4, <1>5

----------------------------------------------------------------------------
(* Publishing.                                                             *)

\* The admission is published: by a Task, or by a result the Adapter gave.
LEMMA PublishedKeeps ==
    ASSUME Inv, NEW p \in Procs, Only(p), Admitted(p)',
           UNCHANGED <<call, exec, late, key, answers>>,
           Counted', admission' = "PUBLISHED",
           task' \in {"none", "scheduled", "bound"},
           task # "none" => task' # "none",
           task' # "none" \/ exec = "done"
    PROVE  Inv' /\ Final
<1>1. Final
  BY DEF Final
<1>2. Inv'
  BY RowsMove
<1> QED BY <1>1, <1>2

LEMMA PublishScheduledKeeps ==
    ASSUME Inv, NEW p \in Procs, PublishScheduled(p)
    PROVE  Inv' /\ Final
<1>1. TypeOK
  BY DEF Inv
<1>2. UNCHANGED <<call, exec, late, key, answers>> /\ Counted'
  BY <1>1 DEF PublishScheduled, Local, TypeOK, Counted
<1>3. CASE task = "none"
  <2>1. task' = "scheduled" /\ admission' = "PUBLISHED" /\ Return(p, "task")
    BY <1>3 DEF PublishScheduled
  <2>2. Only(p) /\ Admitted(p)'
    BY <1>1, <2>1, ReturnIsAdmitted DEF Answers
  <2> QED BY <1>2, <2>1, <2>2, PublishedKeeps
<1>4. CASE task # "none"
  <2>1. Throw(p) /\ UNCHANGED <<admission, task>>
    BY <1>4 DEF PublishScheduled
  <2>2. Only(p) /\ Admitted(p)'
    BY <1>1, <2>1, ThrowIsAdmitted
  <2> QED BY <1>2, <2>1, <2>2, NothingMoves
<1> QED BY <1>3, <1>4

LEMMA PublishInlineKeeps ==
    ASSUME Inv, NEW p \in Procs, Publishing(p), PublishInline(p)
    PROVE  Inv' /\ Final
<1>1. TypeOK /\ Admitted(p) /\ proc[p].state \in {"done", "failed"}
  BY DEF Inv, PublishInline, Inline
<1>2. /\ UNCHANGED <<call, exec, late, key, answers, task>>
      /\ Counted'
  BY <1>1 DEF PublishInline, Local, TypeOK, Counted
<1>3. CASE proc[p].state = "done"
  <2>1. admission' = "PUBLISHED" /\ Return(p, "result") /\ exec = "done"
    BY <1>1, <1>3 DEF PublishInline, Admitted
  <2>2. Only(p) /\ Admitted(p)'
    BY <1>1, <2>1, ReturnIsAdmitted DEF Answers
  <2>3. task' \in {"none", "scheduled", "bound"}
    BY <1>1, <1>2 DEF TypeOK
  <2> QED BY <1>2, <2>1, <2>2, <2>3, PublishedKeeps
<1>4. CASE proc[p].state # "done"
  <2>1. MarkUncertain /\ Throw(p)
    BY <1>4 DEF PublishInline
  <2> QED BY <1>2, <2>1, UncertainKeeps
<1> QED BY <1>3, <1>4

LEMMA PublishAcceptedKeeps ==
    ASSUME Inv, NEW p \in Procs, PublishAccepted(p)
    PROVE  Inv' /\ Final
<1>1. TypeOK
  BY DEF Inv
<1>2. UNCHANGED <<call, exec, late, key, answers>> /\ Counted'
  BY <1>1 DEF PublishAccepted, Local, TypeOK, Counted
<1>3. CASE task = "none"
  <2>1. task' = "bound" /\ admission' = "PUBLISHED" /\ Return(p, "task")
    BY <1>3 DEF PublishAccepted
  <2>2. Only(p) /\ Admitted(p)'
    BY <1>1, <2>1, ReturnIsAdmitted DEF Answers
  <2> QED BY <1>2, <2>1, <2>2, PublishedKeeps
<1>4. CASE task # "none"
  <2>1. /\ UNCHANGED <<admission, task>>
        /\ IF task = "bound" THEN Return(p, "task") ELSE Throw(p)
    BY <1>4 DEF PublishAccepted
  <2>2. CASE task = "bound"
    <3>1. Only(p) /\ Admitted(p)'
      BY <1>1, <1>4, <2>1, <2>2, ReturnIsAdmitted DEF Answers
    <3> QED BY <1>2, <2>1, <3>1, NothingMoves
  <2>3. CASE task # "bound"
    <3>1. Only(p) /\ Admitted(p)'
      BY <1>1, <2>1, <2>3, ThrowIsAdmitted
    <3> QED BY <1>2, <2>1, <3>1, NothingMoves
  <2> QED BY <2>2, <2>3
<1> QED BY <1>3, <1>4

LEMMA PublishAcceptedFailsKeeps ==
    ASSUME Inv, NEW p \in Procs, PublishAcceptedFails(p)
    PROVE  Inv' /\ Final
<1>1. TypeOK /\ Throw(p)
  BY DEF Inv, PublishAcceptedFails
<1>2. UNCHANGED <<call, exec, late, key, answers>> /\ Counted'
  BY <1>1, FaultCounts DEF PublishAcceptedFails, Counted
<1>3. Only(p) /\ Admitted(p)'
  BY <1>1, ThrowIsAdmitted
<1>4. CASE task' = task /\ MarkUncertain
  BY <1>1, <1>2, <1>4, UncertainKeeps
<1>5. CASE task' = task /\ admission' = admission
  BY <1>2, <1>3, <1>5, NothingMoves
<1>6. CASE task = "none" /\ task' = "bound" /\ admission' = "PUBLISHED"
  BY <1>2, <1>3, <1>6, PublishedKeeps
<1> QED BY <1>4, <1>5, <1>6 DEF PublishAcceptedFails

----------------------------------------------------------------------------
(* The Adapter.                                                            *)

\* A step outside the Runtime's tables: an execution comes into being only of
\* a call that was admitted, and the process that hears of it hears the truth.
LEMMA AdapterMoves ==
    ASSUME Inv, NEW p \in Procs, Only(p), Quiet,
           exec' \in Executions, late' \in BOOLEAN, Counted',
           exec \in {"done", "failed"} => exec' = exec,
           exec' # "none" \/ late' => admission # "none",
           proc'[p].step \in {"started", "reconciled"}, admission # "none",
           proc'[p].outcome = proc[p].outcome,
           proc'[p].status = "rejected" => call \in Refuses,
           proc'[p].state \in {"done", "failed"} => exec' = proc'[p].state
    PROVE  Inv' /\ Final
<1>1. TypeOK /\ Tracked /\ Answered /\ Admitted(p)
  BY DEF Inv
<1>2. Forward
  BY DEF Forward, Quiet
<1>3. TypedRows'
  BY <1>1 DEF TypeOK, TypedRows, Quiet, Counted
<1>4. Tracked'
  <2>1. exec = "done" => exec' = "done"
    OBVIOUS
  <2> QED BY <1>1, <2>1 DEF Tracked, Quiet
<1>5. Answered'
  BY <1>1 DEF Answered, Quiet
<1>6. Admitted(p)'
  BY <1>1 DEF Admitted, Quiet
<1>7. Final
  BY DEF Final, Quiet
<1> QED BY <1>2, <1>3, <1>4, <1>5, <1>6, <1>7, OnlyOne

\* The Adapter and the scheduler when no process listens.
LEMMA UnheardMoves ==
    ASSUME Inv, UNCHANGED <<call, key, admission, answers, proc, faults>>, crowded' \in BOOLEAN,
           exec' \in Executions, late' \in BOOLEAN,
           task' \in {"none", "scheduled", "bound"},
           task # "none" => task' # "none",
           exec \in {"done", "failed"} => exec' = exec,
           task' # "none" => task # "none",
           exec' # "none" \/ late' => admission # "none"
    PROVE  Inv' /\ Final
<1>1. TypeOK /\ Tracked /\ Answered
  BY DEF Inv
<1>2. Forward
  BY DEF Forward
<1>3. TypedRows'
  BY <1>1 DEF TypeOK, TypedRows, Counted
<1>4. Tracked'
  <2>1. exec = "done" => exec' = "done"
    OBVIOUS
  <2> QED BY <1>1, <2>1 DEF Tracked
<1>5. Answered'
  BY <1>1 DEF Answered
<1>6. Final
  BY DEF Final
<1> QED BY <1>2, <1>3, <1>4, <1>5, <1>6, NobodyMoves

LEMMA StartingIs ==
    ASSUME TypeOK, NEW e \in Starting
    PROVE  /\ e \in Executions
           /\ exec \in {"done", "failed"} => e = exec
BY DEF TypeOK, Starting, Executions

LEMMA AdapterStartsKeeps ==
    ASSUME Inv, NEW p \in Procs, AdapterStarts(p)
    PROVE  Inv' /\ Final
<1>1. TypeOK /\ Tracked /\ admission # "none"
  BY DEF Inv, Admitted, Admissible, AdapterStarts, At
<1>2. PICK e \in Starting :
        /\ exec' = e
        /\ \/ Reply(p, "started", "accepted", e) /\ UNCHANGED faults
           \/ Reply(p, "started", "error", "none") /\ Fault
  BY DEF AdapterStarts
<1>3. e \in Executions /\ (exec \in {"done", "failed"} => exec' = exec)
  BY <1>1, <1>2, StartingIs
<1>4. late' \in BOOLEAN /\ Quiet /\ UNCHANGED crowded
  BY <1>1 DEF Quiet, AdapterStarts, TypeOK
<1>5. CASE Reply(p, "started", "accepted", e) /\ UNCHANGED faults
  <2>1. Told(p, "started", "accepted", e)
    BY <1>1, <1>3, <1>5, ReplyForm DEF TypeOK, Steps, Statuses
  <2>2. Counted'
    BY <1>1, <1>4, <1>5 DEF TypeOK, Counted
  <2> QED BY <1>1, <1>2, <1>3, <1>4, <2>1, <2>2, AdapterMoves DEF Told
<1>6. CASE Reply(p, "started", "error", "none") /\ Fault
  <2>1. Told(p, "started", "error", "none")
    BY <1>1, <1>6, ReplyForm DEF TypeOK, Steps, Statuses, Executions
  <2>2. Counted'
    BY <1>1, <1>4, <1>6, FaultCounts DEF Counted
  <2> QED BY <1>1, <1>2, <1>3, <1>4, <2>1, <2>2, AdapterMoves DEF Told
<1> QED BY <1>2, <1>5, <1>6

LEMMA AdapterRefusesKeeps ==
    ASSUME Inv, NEW p \in Procs, AdapterRefuses(p)
    PROVE  Inv' /\ Final
<1>1. TypeOK /\ Tracked /\ admission # "none" /\ call \in Refuses
  BY DEF Inv, Admitted, Admissible, AdapterRefuses, At
<1>2. Told(p, "started", "rejected", "none")
  BY <1>1, ReplyForm DEF AdapterRefuses, TypeOK, Steps, Statuses, Executions
<1>3. Quiet /\ UNCHANGED <<exec, late, faults>>
  BY DEF AdapterRefuses
<1> QED BY <1>1, <1>2, <1>3, AdapterMoves DEF Told, TypeOK, Quiet, Counted

LEMMA StartTimesOutKeeps ==
    ASSUME Inv, NEW p \in Procs, StartTimesOut(p)
    PROVE  Inv' /\ Final
<1>1. TypeOK /\ Tracked /\ admission # "none"
  BY DEF Inv, Admitted, Admissible, StartTimesOut, At
<1>2. Told(p, "started", "error", "none")
  BY <1>1, ReplyForm DEF StartTimesOut, TypeOK, Steps, Statuses, Executions
<1>3. /\ Quiet /\ UNCHANGED exec /\ late' \in BOOLEAN
      /\ Counted' /\ exec' \in Executions
  BY <1>1, FaultCounts DEF StartTimesOut, Quiet, TypeOK, Counted
<1> QED BY <1>1, <1>2, <1>3, AdapterMoves DEF Told

LEMMA AdapterReconcilesKeeps ==
    ASSUME Inv, NEW p \in Procs, AdapterReconciles(p)
    PROVE  Inv' /\ Final
<1>1. TypeOK /\ Tracked /\ admission # "none"
  BY DEF Inv, Admitted, Admissible, AdapterReconciles, At
<1>2. Quiet /\ UNCHANGED <<exec, late>> /\ exec' \in Executions /\ late' \in BOOLEAN
  BY <1>1 DEF AdapterReconciles, TypeOK
<1>3. /\ Counted'
      /\ \E status \in Statuses, state \in {"none", exec} :
            Reply(p, "reconciled", status, state) /\ status # "rejected"
  BY <1>1, FaultCounts DEF AdapterReconciles, Quiet, TypeOK, Statuses, Counted
<1>4. PICK status \in Statuses, state \in {"none", exec} :
        Reply(p, "reconciled", status, state) /\ status # "rejected"
  BY <1>3
<1>5. Told(p, "reconciled", status, state)
  BY <1>1, <1>4, ReplyForm DEF TypeOK, Steps, Executions
<1> QED BY <1>1, <1>2, <1>3, <1>4, <1>5, AdapterMoves DEF Told

LEMMA UnheardKeeps ==
    ASSUME Inv,
           \/ LateStart \/ AdapterProgress \/ ScheduledStart \/ ScheduledBind
           \/ OthersMove
    PROVE  Inv' /\ Final
<1>1. TypeOK /\ Tracked
  BY DEF Inv
<1>2. task # "none" \/ exec # "none" \/ late => admission # "none"
  BY <1>1 DEF Tracked
<1>3. CASE LateStart
  <2>1. exec' \in Starting /\ late /\ late' = FALSE
    BY <1>3 DEF LateStart
  <2>2. exec' \in Executions /\ (exec \in {"done", "failed"} => exec' = exec)
    BY <1>1, <2>1, StartingIs
  <2> QED BY <1>1, <1>3, <1>2, <2>1, <2>2, UnheardMoves
       DEF LateStart, Quiet, TypeOK
<1>4. CASE AdapterProgress
  BY <1>1, <1>4, <1>2, UnheardMoves
     DEF AdapterProgress, Quiet, TypeOK, Executions
<1>5. CASE ScheduledStart
  <2>1. exec' \in Executions /\ exec = "none"
    BY <1>1, <1>5, StartingIs DEF ScheduledStart
  <2> QED BY <1>1, <1>5, <1>2, <2>1, UnheardMoves
       DEF ScheduledStart, Quiet, TypeOK
<1>6. CASE ScheduledBind
  BY <1>1, <1>6, <1>2, UnheardMoves DEF ScheduledBind, TypeOK
<1>7. CASE OthersMove
  BY <1>1, <1>7, <1>2, UnheardMoves DEF OthersMove, TypeOK
<1> QED BY <1>3, <1>4, <1>5, <1>6, <1>7

----------------------------------------------------------------------------
(* The theorems.                                                           *)

LEMMA InitInv == Init => Inv
<1> SUFFICES ASSUME Init PROVE Inv
  OBVIOUS
<1>1. proc \in [Procs -> Process]
  BY IdleIsProcess DEF Init
<1>2. key \in Key
  BY DEF Init, Key, Answers
<1>3. TypeOK
  <2>1. faults \in 0..MaxFaults
    BY AdmissionAssumption DEF Init
  <2>2. answers \subseteq Answers /\ exec \in Executions /\ late \in BOOLEAN
    BY DEF Init, Executions
  <2> QED BY <1>1, <1>2, <2>1, <2>2 DEF Init, TypeOK
<1>4. Tracked /\ Answered
  BY DEF Init, Tracked, Answered
<1>5. ASSUME NEW p \in Procs
      PROVE  Admitted(p)
  <2>1. proc[p] = Idle
    BY DEF Init
  <2> QED BY <2>1 DEF Admitted, Admissible, Idle
<1> QED BY <1>3, <1>4, <1>5 DEF Inv

LEMMA NextInv ==
    ASSUME Inv, [Next]_vars
    PROVE  Inv' /\ Final
<1>1. CASE UNCHANGED vars
  <2>1. UNCHANGED <<call, key, admission, task, exec, late, proc, answers, crowded, faults>>
    BY <1>1 DEF vars
  <2>2. Forward /\ TypedRows' /\ Tracked' /\ Answered'
    BY <2>1 DEF Inv, TypeOK, Forward, TypedRows, Tracked, Answered, Counted
  <2> QED BY <2>1, <2>2, NobodyMoves DEF Final
<1>2. ASSUME NEW c \in Callers, KeyStep(c)
      PROVE  Inv' /\ Final
  BY <1>2, ClaimKeyKeeps, AnswerFromKeyKeeps, CompleteKeyKeeps, AbandonKeeps
     DEF KeyStep
<1>3. ASSUME NEW r \in Recoverers, RecoveryStep(r)
      PROVE  Inv' /\ Final
  <2>1. r \in Procs
    BY DEF Procs
  <2> QED BY <1>3, <2>1, ListAdmissionsKeeps, EndRecoveryKeeps DEF RecoveryStep
<1>4. ASSUME NEW p \in Procs, Execute(p)
      PROVE  Inv' /\ Final
  <2>1. CASE Publish(p)
    BY <2>1, PublishInlineKeeps, PublishAcceptedKeeps, PublishAcceptedFailsKeeps
       DEF Publish
  <2>2. CASE ~Publish(p)
    BY <1>4, <2>2, CreateAdmissionIntentKeeps, LookupTaskKeeps,
       ReadAdmissionKeeps, ReconcileFailsKeeps, ReconcileNotFoundKeeps,
       PublishScheduledKeeps, SendStartKeeps, StartLostKeeps, StartRefusedKeeps
       DEF Execute
  <2> QED BY <2>1, <2>2
<1>5. ASSUME NEW p \in Procs, AdapterStep(p)
      PROVE  Inv' /\ Final
  BY <1>5, AdapterStartsKeeps, AdapterRefusesKeeps, StartTimesOutKeeps,
     AdapterReconcilesKeeps DEF AdapterStep
<1> QED BY <1>1, <1>2, <1>3, <1>4, <1>5, CrashKeeps, KeyLeaseElapsesKeeps,
        UnheardKeeps DEF Next

LEMMA InvAlways == Spec => []Inv
BY InitInv, NextInv, PTL DEF Spec

\* The rows of an admission, what a process knows and what callers were told
\* stay of their kinds; the answer of a completed key is one a caller can be
\* given.  (admission-repository, AdmissionService, IdempotencyService.)
THEOREM AdmissionTypeCorrect == Spec => []TypeOK
<1>1. Inv => TypeOK
  BY DEF Inv
<1> QED BY <1>1, InvAlways, PTL

\* Every caller of a key is told the same, whatever became of its claim, and one
\* that is told of a Task can read it: IdempotencyService completes a key once,
\* from the claim that owns it, and every other caller reads what it recorded.
THEOREM CallersAgree == Spec => []SameAnswer
<1>1. Inv => SameAnswer
  BY DEF Inv, Answered, SameAnswer
<1> QED BY <1>1, InvAlways, PTL

\* An execution that runs has its Task, or an admission that the recovery scan
\* lists: the intent is written before StartOperation is sent, and an answer
\* that is lost leaves it PENDING or UNCERTAIN.
THEOREM ExecutionsAreTracked == Spec => []ExecutionIsTracked
<1>1. Inv => ExecutionIsTracked
  BY DEF Inv, TypeOK, Tracked, ExecutionIsTracked
<1> QED BY <1>1, InvAlways, PTL

\* A slower caller or an older scan never takes a published admission back:
\* markAdmissionUncertain only changes PENDING and UNCERTAIN, and recordRejection,
\* which asks for no state, needs a refusal.
THEOREM PublicationIsFinal == Spec => PublishedIsFinal
<1>1. Inv /\ [Next]_vars =>
      [admission = "PUBLISHED" /\ call \notin Refuses =>
       admission' = "PUBLISHED"]_vars
  BY NextInv DEF Final
<1> QED BY <1>1, InvAlways, PTL DEF Spec, PublishedIsFinal
=============================================================================
