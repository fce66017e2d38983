------------------------- MODULE PmsReconcileProofs -------------------------
(***************************************************************************)
(* Proofs about PmsReconcile: however many executions of the reconcile job *)
(* overlap, and whichever of them lost its lease, a deployment is ACTIVE   *)
(* only on a publication of this stay in DISCOVERING, and a leased job is  *)
(* settled by the execution that holds the lease.                          *)
(***************************************************************************)
EXTENDS PmsReconcile, TLAPS

----------------------------------------------------------------------------
(* The inductive invariant.                                                *)

\* An execution publishes and activates from DISCOVERING, and one that has
\* published, with nobody having moved the row since, left a publication.  The
\* database preparation only goes on from a status it owns.
Placed(e) ==
    /\ exec[e].at \in {"publish", "activate"} => exec[e].status = "DISCOVERING"
    /\ exec[e].at = "activate" /\ exec[e].lag = 0 /\ status = "DISCOVERING" =>
           published
    /\ exec[e].at = "database" => exec[e].status \in Preparing \cup {"FAILED"}

Inv == TypeOK /\ ActiveWasPublished /\ \A e \in Slots : Placed(e)

\* The step SettledByOwner allows.
Settled ==
    \A j \in JobIds :
        job[j].status = "leased" /\ job'[j].status \in {"absent", "failed"} =>
            exec[job[j].owner].job = j /\ exec[job[j].owner].at \in {"complete", "fail"}
            /\ exec'[job[j].owner].at = "idle"

----------------------------------------------------------------------------
(* Executions and jobs, and what the updates of them are.                  *)

Execution == [at : Points, job : JobIds, status : Statuses,
              desired : {"running", "draining"}, lag : 0..2,
              raced : BOOLEAN, aborted : BOOLEAN]
Job == [status : {"absent", "pending", "leased", "failed"},
        owner : Slots \cup {NoSlot}, live : BOOLEAN]

TypedRow ==
    /\ desired \in {"running", "draining"}
    /\ status \in Statuses
    /\ process \in {"stopped", "online"}
    /\ published \in BOOLEAN
TypedBudget == faults \in 0..MaxFaults /\ commands \in 0..MaxCommands
TypedJobs ==
    /\ job \in [JobIds -> Job]
    /\ \A j \in JobIds : (job[j].status = "leased") <=> (job[j].owner # NoSlot)

LEMMA TypeParts ==
    TypeOK <=> TypedRow /\ TypedBudget /\ TypedJobs /\ exec \in [Slots -> Execution]
BY DEF TypeOK, TypedRow, TypedBudget, TypedJobs, Execution, Job

LEMMA TypePartsNext ==
    TypeOK' <=> TypedRow' /\ TypedBudget' /\ TypedJobs' /\ exec' \in [Slots -> Execution]
BY DEF TypeOK, TypedRow, TypedBudget, TypedJobs, Execution, Job

LEMMA IdleIsExecution == Idle \in Execution /\ Idle.at = "idle"
<1>1. (CHOOSE j \in JobIds : TRUE) \in JobIds
  BY PmsAssumption
<1>2. "idle" \in Points /\ "REQUESTED" \in Statuses
  BY DEF Points, Statuses
<1> QED BY <1>1, <1>2 DEF Idle, Execution

LEMMA GotoIs ==
    ASSUME NEW x \in Execution, NEW at \in Points
    PROVE  /\ [x EXCEPT !.at = at] \in Execution
           /\ [x EXCEPT !.at = at].at = at
           /\ [x EXCEPT !.at = at].status = x.status
           /\ [x EXCEPT !.at = at].lag = x.lag
BY DEF Execution

LEMMA ReadsIs ==
    ASSUME TypedRow, NEW e, exec[e] \in Execution, NEW to \in Statuses,
           NEW at \in Points
    PROVE  /\ Reads(e, to, at) \in Execution
           /\ Reads(e, to, at).at = at /\ Reads(e, to, at).status = to
           /\ Reads(e, to, at).lag = 0
<1>1. desired \in {"running", "draining"} /\ 0 \in 0..2
  BY DEF TypedRow
<1> QED BY <1>1 DEF Reads, Execution

LEMMA OlderIs ==
    ASSUME NEW x \in Execution
    PROVE  LET old == [x EXCEPT !.lag = IF @ = 2 THEN 2 ELSE @ + 1]
           IN  /\ old \in Execution
               /\ old.at = x.at /\ old.status = x.status /\ old.lag # 0
<1>1. x.lag \in 0..2
  BY DEF Execution
<1>2. /\ (IF x.lag = 2 THEN 2 ELSE x.lag + 1) \in 0..2
      /\ (IF x.lag = 2 THEN 2 ELSE x.lag + 1) # 0
  BY <1>1
<1> QED BY <1>2 DEF Execution

----------------------------------------------------------------------------
(* The forms of a step.                                                    *)

\* The points at which the status of the snapshot matters.
Delicate == {"publish", "activate", "database"}

\* The statement with which each action is closed.
LEMMA Closed ==
    ASSUME TypedRow', TypedBudget', TypedJobs', exec' \in [Slots -> Execution],
           ActiveWasPublished', \A e \in Slots : Placed(e)'
    PROVE  Inv'
BY TypePartsNext DEF Inv

LEMMA NoJobSettled ==
    ASSUME UNCHANGED job
    PROVE  Settled
BY DEF Settled

\* A snapshot an execution may go on with: it publishes from DISCOVERING, and
\* activates only after publishing.
Sound(mine) ==
    /\ mine \in Execution
    /\ mine.at # "activate"
    /\ mine.at = "publish" => mine.status = "DISCOVERING"
    /\ mine.at = "database" => mine.status \in Preparing \cup {"FAILED"}

LEMMA WriteKeeps ==
    ASSUME Inv, NEW e \in Slots, NEW to \in Statuses, NEW mine, Sound(mine),
           Write(e, to, mine), TypedBudget',
           to = "ACTIVE" => published
    PROVE  Inv' /\ Settled
<1>1. TypedRow /\ TypedJobs /\ exec \in [Slots -> Execution]
  BY TypeParts DEF Inv
<1>2. /\ status' = to /\ UNCHANGED <<desired, process, job>>
      /\ published' = (IF to = "DISCOVERING" THEN FALSE ELSE published)
      /\ exec' = Older(e, mine)
  BY DEF Write
<1>3. TypedRow' /\ TypedJobs'
  BY <1>1, <1>2 DEF TypedRow, TypedJobs
<1>4. ASSUME NEW o \in Slots
      PROVE  /\ exec'[o] \in Execution
             /\ \/ o = e /\ exec'[o] = mine
                \/ /\ exec'[o].at = exec[o].at /\ exec'[o].status = exec[o].status
                   /\ exec'[o].lag # 0 \/ exec'[o].at = "idle"
  <2>1. exec[o] \in Execution
    BY <1>1
  <2>2. CASE o = e
    BY <1>2, <2>2 DEF Older, Sound
  <2>3. CASE o # e /\ Busy(o)
    <3>1. exec'[o] = [exec[o] EXCEPT !.lag = IF @ = 2 THEN 2 ELSE @ + 1]
      BY <1>2, <2>3 DEF Older
    <3> QED BY <2>1, <3>1, OlderIs
  <2>4. CASE o # e /\ ~Busy(o)
    BY <1>2, <2>1, <2>4 DEF Older, Busy
  <2> QED BY <2>2, <2>3, <2>4
<1>5. exec' \in [Slots -> Execution]
  BY <1>2, <1>4 DEF Older
<1>6. ASSUME NEW o \in Slots
      PROVE  Placed(o)'
  BY <1>4 DEF Placed, Sound, Inv
<1>7. ActiveWasPublished'
  BY <1>2 DEF ActiveWasPublished
<1> QED BY <1>2, <1>3, <1>5, <1>6, <1>7, Closed, NoJobSettled

LEMMA ContinueKeeps ==
    ASSUME Inv, NEW e \in Slots, NEW mine, Sound(mine), Continue(e, mine),
           TypedBudget'
    PROVE  Inv' /\ Settled
<1>1. TypedRow /\ TypedJobs /\ exec \in [Slots -> Execution]
  BY TypeParts DEF Inv
<1>2. /\ UNCHANGED <<desired, status, process, published, job>>
      /\ exec' = [exec EXCEPT ![e] = mine]
  BY DEF Continue, row
<1>3. TypedRow' /\ TypedJobs' /\ exec' \in [Slots -> Execution]
  BY <1>1, <1>2 DEF TypedRow, TypedJobs, Sound
<1>4. ASSUME NEW o \in Slots
      PROVE  Placed(o)'
  <2>1. exec'[o] = IF o = e THEN mine ELSE exec[o]
    BY <1>1, <1>2
  <2> QED BY <1>2, <2>1 DEF Placed, Sound, Inv
<1>5. ActiveWasPublished'
  BY <1>2 DEF ActiveWasPublished, Inv
<1> QED BY <1>2, <1>3, <1>4, <1>5, Closed, NoJobSettled

LEMMA GotoKeeps ==
    ASSUME Inv, NEW e \in Slots, NEW at \in Points, Goto(e, at), TypedBudget',
           at \notin {"activate", "database"},
           at = "publish" => exec[e].status = "DISCOVERING"
    PROVE  Inv' /\ Settled
<1>1. exec[e] \in Execution
  BY TypeParts DEF Inv
<1>2. Sound([exec[e] EXCEPT !.at = at])
  BY <1>1, GotoIs DEF Sound
<1> QED BY <1>2, ContinueKeeps DEF Goto

\* store.transition, to whatever status but ACTIVE.
LEMMA TransitionKeeps ==
    ASSUME Inv, NEW e \in Slots, NEW to \in Statuses, NEW at \in Points,
           NEW otherwise \in Points, Transition(e, to, at, otherwise),
           TypedBudget',
           to = "ACTIVE" /\ Matches(e) => published,
           at \notin {"activate", "database"}, at = "publish" => to = "DISCOVERING",
           otherwise \notin Delicate
    PROVE  Inv' /\ Settled
<1>1. TypedRow /\ exec[e] \in Execution
  BY TypeParts DEF Inv
<1>2. Sound(Reads(e, to, at))
  BY <1>1, ReadsIs DEF Sound
<1>3. CASE Matches(e) /\ Write(e, to, Reads(e, to, at))
  BY <1>2, <1>3, WriteKeeps
<1>4. CASE MadeAlready(e, to) /\ Continue(e, Reads(e, to, at))
  BY <1>2, <1>4, ContinueKeeps
<1>5. CASE Goto(e, otherwise)
  BY <1>5, GotoKeeps DEF Delicate
<1> QED BY <1>3, <1>4, <1>5 DEF Transition

LEMMA BudgetKept ==
    ASSUME TypedBudget, NoFault \/ UNCHANGED budget \/ Fault
    PROVE  TypedBudget'
BY PmsAssumption DEF TypedBudget, NoFault, Fault, budget

\* What every proof below starts from.
LEMMA Parts ==
    ASSUME Inv, NEW e \in Slots
    PROVE  /\ TypedRow /\ TypedBudget /\ TypedJobs
           /\ exec \in [Slots -> Execution] /\ exec[e] \in Execution
           /\ Idle \in Execution /\ Idle.at = "idle" /\ Sound(Idle)
           /\ Placed(e) /\ ActiveWasPublished
BY TypeParts, IdleIsExecution DEF Inv, Sound

----------------------------------------------------------------------------
(* job_lease.                                                              *)

\* A step that leaves the row alone, gives an execution at most an unsound
\* snapshot for none, and keeps the jobs of their kind.
LEMMA JobMoves ==
    ASSUME Inv, UNCHANGED <<row, process, published>>,
           TypedJobs', TypedBudget', exec' \in [Slots -> Execution],
           \A e \in Slots :
               \/ exec'[e].at \notin Delicate
               \/ /\ exec'[e].at = exec[e].at /\ exec'[e].status = exec[e].status
                  /\ exec'[e].lag = exec[e].lag
    PROVE  Inv'
<1>1. TypedRow /\ \A e \in Slots : Placed(e)
  BY TypeParts DEF Inv
<1>2. TypedRow'
  BY <1>1 DEF TypedRow, row
<1>3. ASSUME NEW e \in Slots
      PROVE  Placed(e)'
  BY <1>1 DEF Placed, row, Delicate
<1>4. ActiveWasPublished'
  BY DEF ActiveWasPublished, row, Inv
<1> QED BY <1>2, <1>3, <1>4, Closed

LEMMA JobForms ==
    ASSUME TypedJobs, NEW j \in JobIds
    PROVE  /\ NoJob \in Job /\ NoJob.status = "absent" /\ NoJob.owner = NoSlot
           /\ [NoJob EXCEPT !.status = "pending"] \in Job
           /\ [NoJob EXCEPT !.status = "pending"].status = "pending"
           /\ [NoJob EXCEPT !.status = "pending"].owner = NoSlot
           /\ [NoJob EXCEPT !.status = "failed"] \in Job
           /\ [NoJob EXCEPT !.status = "failed"].status = "failed"
           /\ [NoJob EXCEPT !.status = "failed"].owner = NoSlot
           /\ [job[j] EXCEPT !.live = FALSE] \in Job
           /\ [job[j] EXCEPT !.live = FALSE].status = job[j].status
           /\ [job[j] EXCEPT !.live = FALSE].owner = job[j].owner
<1>1. job[j] \in Job
  BY DEF TypedJobs
<1> QED BY <1>1 DEF NoJob, Job

\* One row of job_lease is written.
LEMMA JobWritten ==
    ASSUME TypedJobs, NEW j \in JobIds, NEW new \in Job,
           job' = [job EXCEPT ![j] = new],
           (new.status = "leased") <=> (new.owner # NoSlot)
    PROVE  /\ TypedJobs' /\ job'[j] = new
           /\ \A i \in JobIds \ {j} : job'[i] = job[i]
BY DEF TypedJobs

LEMMA EnqueueKeeps ==
    ASSUME TypedJobs, Enqueue
    PROVE  TypedJobs' /\ Settled
<1>1. PICK j \in JobIds :
        /\ job[j].status = "absent"
        /\ job' = [job EXCEPT ![j] = [NoJob EXCEPT !.status = "pending"]]
  BY DEF Enqueue
<1>2. /\ TypedJobs' /\ job'[j] = [NoJob EXCEPT !.status = "pending"]
      /\ \A i \in JobIds \ {j} : job'[i] = job[i]
  BY <1>1, JobForms, JobWritten
<1>3. job'[j].status = "pending"
  BY <1>2, JobForms
<1> QED BY <1>2, <1>3 DEF Settled

LEMMA ClaimKeeps ==
    ASSUME Inv, NEW e \in Slots, NEW j \in JobIds, Claim(e, j)
    PROVE  Inv' /\ Settled
<1>1. TypedJobs /\ TypedBudget /\ exec \in [Slots -> Execution] /\ Idle \in Execution
  BY Parts
<1>2. /\ UNCHANGED <<row, process, published>> /\ UNCHANGED budget
      /\ job' = [job EXCEPT ![j] = [status |-> "leased", owner |-> e, live |-> TRUE]]
      /\ exec' = [exec EXCEPT ![e] = [Idle EXCEPT !.at = "load", !.job = j]]
  BY DEF Claim
<1>3. /\ TypedJobs' /\ job'[j].status = "leased"
      /\ \A i \in JobIds \ {j} : job'[i] = job[i]
  <2> DEFINE new == [status |-> "leased", owner |-> e, live |-> TRUE]
  <2>1. new \in Job /\ new.status = "leased" /\ new.owner = e /\ e # NoSlot
    BY PmsAssumption DEF Job
  <2>2. job' = [job EXCEPT ![j] = new]
    BY <1>2
  <2> HIDE DEF new
  <2> QED BY <1>1, <2>1, <2>2, JobWritten
<1>4. Settled
  BY <1>3 DEF Settled
<1>5. /\ [Idle EXCEPT !.at = "load", !.job = j] \in Execution
      /\ [Idle EXCEPT !.at = "load", !.job = j].at = "load"
  <2>1. "load" \in Points
    BY DEF Points
  <2> QED BY <1>1, <2>1 DEF Execution
<1>6. /\ exec' \in [Slots -> Execution] /\ exec'[e].at = "load"
      /\ \A o \in Slots \ {e} : exec'[o] = exec[o]
  BY <1>1, <1>2, <1>5
<1>7. TypedBudget'
  BY <1>1, <1>2, BudgetKept
<1> QED BY <1>2, <1>3, <1>4, <1>6, <1>7, JobMoves DEF Delicate

LEMMA LeaseExpiresKeeps ==
    ASSUME Inv, NEW j \in JobIds, LeaseExpires(j)
    PROVE  Inv' /\ Settled
<1>1. TypedJobs /\ TypedBudget /\ exec \in [Slots -> Execution]
  BY TypeParts DEF Inv
<1>2. /\ UNCHANGED <<row, process, published, exec>>
      /\ job' = [job EXCEPT ![j].live = FALSE] /\ job[j].status = "leased"
  BY DEF LeaseExpires
<1>3. /\ TypedJobs' /\ job'[j] = [job[j] EXCEPT !.live = FALSE]
      /\ \A i \in JobIds \ {j} : job'[i] = job[i]
  <2>1. job' = [job EXCEPT ![j] = [job[j] EXCEPT !.live = FALSE]]
    BY <1>2
  <2>2. (job[j].status = "leased") <=> (job[j].owner # NoSlot)
    BY <1>1 DEF TypedJobs
  <2> QED BY <1>1, <2>1, <2>2, JobForms, JobWritten
<1>4. Settled
  BY <1>1, <1>2, <1>3, JobForms DEF Settled
<1>5. TypedBudget'
  BY <1>1, PmsAssumption DEF LeaseExpires, TypedBudget
<1> QED BY <1>1, <1>2, <1>3, <1>4, <1>5, JobMoves DEF Delicate

LEMMA RenewalFailsKeeps ==
    ASSUME Inv, NEW e \in Slots, RenewalFails(e)
    PROVE  Inv' /\ Settled
<1>1. /\ TypedJobs /\ TypedBudget /\ exec \in [Slots -> Execution]
      /\ exec[e] \in Execution /\ Idle \in Execution /\ Idle.at = "idle"
  BY Parts
<1>2. /\ UNCHANGED <<row, process, published>> /\ UNCHANGED job /\ UNCHANGED budget
      /\ exec' = [exec EXCEPT ![e] = IF exec[e].at = "database"
                                     THEN [exec[e] EXCEPT !.aborted = TRUE] ELSE Idle]
  BY DEF RenewalFails
<1>3. /\ [exec[e] EXCEPT !.aborted = TRUE] \in Execution
      /\ [exec[e] EXCEPT !.aborted = TRUE].at = exec[e].at
      /\ [exec[e] EXCEPT !.aborted = TRUE].status = exec[e].status
      /\ [exec[e] EXCEPT !.aborted = TRUE].lag = exec[e].lag
  BY <1>1 DEF Execution
<1>4. /\ exec' \in [Slots -> Execution]
      /\ \/ exec'[e].at = "idle"
         \/ /\ exec'[e].at = exec[e].at /\ exec'[e].status = exec[e].status
            /\ exec'[e].lag = exec[e].lag
      /\ \A o \in Slots \ {e} : exec'[o] = exec[o]
  BY <1>1, <1>2, <1>3
<1>5. TypedJobs' /\ TypedBudget'
  BY <1>1, <1>2, BudgetKept DEF TypedJobs
<1> QED BY <1>2, <1>4, <1>5, JobMoves, NoJobSettled DEF Delicate

LEMMA CrashKeeps ==
    ASSUME Inv, NEW e \in Slots, Crash(e)
    PROVE  Inv' /\ Settled
<1>1. /\ TypedJobs /\ TypedBudget /\ exec \in [Slots -> Execution]
      /\ Idle \in Execution /\ Idle.at = "idle"
  BY Parts
<1>2. /\ UNCHANGED <<row, process, published>> /\ UNCHANGED job /\ Fault
      /\ exec' = [exec EXCEPT ![e] = Idle]
  BY DEF Crash, Fault
<1>3. /\ exec' \in [Slots -> Execution]
      /\ exec'[e].at \notin Delicate
      /\ \A o \in Slots \ {e} : exec'[o] = exec[o]
  BY <1>1, <1>2 DEF Delicate
<1>4. TypedJobs' /\ TypedBudget'
  BY <1>1, <1>2, BudgetKept DEF TypedJobs
<1> QED BY <1>2, <1>3, <1>4, JobMoves, NoJobSettled DEF Delicate

\* The fence: only the owner of the lease changes the row of the job.
LEMMA SettleKeeps ==
    ASSUME Inv, NEW e \in Slots, Settle(e)
    PROVE  Inv' /\ Settled
<1>1. /\ TypedJobs /\ TypedBudget /\ exec \in [Slots -> Execution]
      /\ exec[e] \in Execution /\ Idle \in Execution /\ Idle.at = "idle"
  BY Parts
<1>2. /\ UNCHANGED <<row, process, published>> /\ UNCHANGED budget
      /\ exec' = [exec EXCEPT ![e] = Idle] /\ exec[e].at \in {"complete", "fail"}
  BY DEF Settle
<1>3. /\ exec' \in [Slots -> Execution] /\ exec'[e].at = "idle"
      /\ \A o \in Slots \ {e} : exec'[o] = exec[o]
  BY <1>1, <1>2
<1>4. TypedJobs' /\ Settled
  <2>1. CASE ~Owns(e)
    <3>1. job' = job
      BY <2>1 DEF Settle
    <3> QED BY <1>1, <3>1, NoJobSettled DEF TypedJobs
  <2>2. CASE Owns(e)
    <3> DEFINE j == exec[e].job
               new == IF exec[e].at = "complete" THEN NoJob
                      ELSE [NoJob EXCEPT !.status = "failed"]
    <3>1. j \in JobIds /\ job[j].owner = e
      BY <1>1, <2>2 DEF Execution, Owns
    <3>2. job' = [job EXCEPT ![j] = new]
      BY <2>2 DEF Settle
    <3>3. new \in Job /\ new.status # "leased" /\ new.owner = NoSlot
      BY <1>1, <3>1, JobForms
    <3>4. exec[e].job = j
      OBVIOUS
    <3> HIDE DEF j, new
    <3>5. TypedJobs' /\ \A i \in JobIds \ {j} : job'[i] = job[i]
      BY <1>1, <3>1, <3>2, <3>3, JobWritten
    <3> QED BY <1>2, <1>3, <3>1, <3>4, <3>5 DEF Settled
  <2> QED BY <2>1, <2>2
<1>5. TypedBudget'
  BY <1>1, <1>2, BudgetKept
<1> QED BY <1>2, <1>3, <1>4, <1>5, JobMoves DEF Delicate

----------------------------------------------------------------------------
(* The operator and the scheduler.                                         *)

LEMMA ChangeDesiredKeeps ==
    ASSUME Inv, ChangeDesired
    PROVE  Inv' /\ Settled
<1>1. /\ TypedRow /\ TypedJobs /\ TypedBudget /\ exec \in [Slots -> Execution]
      /\ ActiveWasPublished /\ \A e \in Slots : Placed(e)
  BY TypeParts DEF Inv
<1>2. TypedJobs' /\ Settled
  BY <1>1, EnqueueKeeps DEF ChangeDesired
<1>3. /\ UNCHANGED <<status, process, published>>
      /\ exec' = [e \in Slots |-> [exec[e] EXCEPT !.raced = Busy(e)]]
      /\ desired' \in {"running", "draining"}
  BY DEF ChangeDesired
<1>4. ASSUME NEW e \in Slots
      PROVE  /\ exec'[e] \in Execution /\ exec'[e].at = exec[e].at
             /\ exec'[e].status = exec[e].status /\ exec'[e].lag = exec[e].lag
  <2>1. exec[e] \in Execution /\ Busy(e) \in BOOLEAN
    BY <1>1 DEF Busy
  <2>2. exec'[e] = [exec[e] EXCEPT !.raced = Busy(e)]
    BY <1>3
  <2> QED BY <2>1, <2>2 DEF Execution
<1>5. exec' \in [Slots -> Execution]
  BY <1>3, <1>4
<1>6. TypedRow' /\ TypedBudget'
  BY <1>1, <1>3, PmsAssumption DEF TypedRow, TypedBudget, ChangeDesired
<1>7. ActiveWasPublished' /\ \A e \in Slots : Placed(e)'
  BY <1>1, <1>3, <1>4 DEF ActiveWasPublished, Placed
<1> QED BY <1>2, <1>5, <1>6, <1>7, Closed

LEMMA EnqueuersKeep ==
    ASSUME Inv, RequestReconcile \/ Tick
    PROVE  Inv' /\ Settled
<1>1. TypedJobs /\ TypedBudget /\ exec \in [Slots -> Execution]
  BY TypeParts DEF Inv
<1>2. TypedJobs' /\ Settled
  BY <1>1, EnqueueKeeps DEF RequestReconcile, Tick
<1>3. UNCHANGED <<row, process, published, exec>>
  BY DEF RequestReconcile, Tick
<1>4. TypedBudget'
  BY <1>1, PmsAssumption DEF TypedBudget, RequestReconcile, Tick, budget
<1> QED BY <1>1, <1>2, <1>3, <1>4, JobMoves DEF Delicate

----------------------------------------------------------------------------
(* The row: the reconciler and the database preparation.                   *)

LEMMA LoadKeeps ==
    ASSUME Inv, NEW e \in Slots, Load(e)
    PROVE  Inv' /\ Settled
<1>1. TypedRow /\ TypedBudget /\ exec[e] \in Execution
  BY Parts
<1>2. Continue(e, Reads(e, status, "work")) /\ TypedBudget'
  BY <1>1, BudgetKept DEF Load
<1>3. Sound(Reads(e, status, "work"))
  BY <1>1, ReadsIs DEF Sound, TypedRow, Points
<1> QED BY <1>2, <1>3, ContinueKeeps

LEMMA PrepareKeeps ==
    ASSUME Inv, NEW e \in Slots, Prepare(e)
    PROVE  Inv' /\ Settled
<1>1. TypedRow /\ TypedBudget /\ exec[e] \in Execution
  BY Parts
<1>2. TypedBudget'
  BY <1>1, BudgetKept DEF Prepare
<1>3. PICK at \in {"reload", "database", "error"} :
        /\ Continue(e, Reads(e, status, at))
        /\ at = "database" => status \in Preparing \cup {"FAILED"}
  <2>1. status = "CONFIG_PREPARING" => status \notin Preparing \cup {"FAILED"}
    BY DEF Preparing
  <2> QED BY <2>1 DEF Prepare
<1>4. Sound(Reads(e, status, at))
  BY <1>1, <1>3, ReadsIs DEF Sound, TypedRow, Points
<1> QED BY <1>2, <1>3, <1>4, ContinueKeeps

LEMMA NextPreparedIs ==
    ASSUME NEW s \in Statuses, s \in Preparing \cup {"FAILED"}
    PROVE  /\ NextPrepared[s] \in Statuses /\ NextPrepared[s] # "ACTIVE"
           /\ NextPrepared[s] # "CONFIG_PREPARING" => NextPrepared[s] \in Preparing
BY DEF NextPrepared, Preparing, Statuses

\* Where the preparation ends up when it is done with.
LEMMA AfterDatabaseIs ==
    ASSUME Inv, NEW e \in Slots
    PROVE  Sound(AfterDatabase(e, "error"))
<1>1. exec[e] \in Execution /\ Sound(Idle)
  BY Parts
<1>2. Sound([exec[e] EXCEPT !.at = "error"])
  BY <1>1, GotoIs DEF Sound, Points
<1> QED BY <1>1, <1>2 DEF AfterDatabase

LEMMA FailedIsStatus == "FAILED" \in Statuses /\ "FAILED" # "ACTIVE"
BY DEF Statuses

LEMMA PrepareStepKeeps ==
    ASSUME Inv, NEW e \in Slots, PrepareStep(e)
    PROVE  Inv' /\ Settled
<1> DEFINE to == NextPrepared[exec[e].status]
           mine == IF to # "CONFIG_PREPARING" THEN Reads(e, to, "database")
                   ELSE IF exec[e].aborted THEN Idle ELSE Reads(e, to, "reload")
<1>1. /\ TypedRow /\ TypedBudget /\ exec[e] \in Execution /\ Sound(Idle)
      /\ Placed(e)
  BY Parts
<1>2. exec[e].at = "database" /\ Write(e, to, mine) /\ NoFault
  BY DEF PrepareStep
<1>3. exec[e].status \in Statuses /\ exec[e].status \in Preparing \cup {"FAILED"}
  BY <1>1, <1>2 DEF Execution, Placed
<1>4. /\ to \in Statuses /\ to # "ACTIVE"
      /\ to # "CONFIG_PREPARING" => to \in Preparing
  BY <1>3, NextPreparedIs
<1>5. Sound(mine)
  <2>1. "database" \in Points /\ "reload" \in Points
    BY DEF Points
  <2> HIDE DEF to
  <2> QED BY <1>1, <1>4, <2>1, ReadsIs DEF Sound
<1>6. TypedBudget'
  BY <1>1, <1>2, BudgetKept
<1> HIDE DEF to, mine
<1> QED BY <1>2, <1>4, <1>5, <1>6, WriteKeeps

LEMMA PrepareFailsKeeps ==
    ASSUME Inv, NEW e \in Slots, PrepareFails(e)
    PROVE  Inv' /\ Settled
<1>1. TypedBudget'
  BY Parts, BudgetKept DEF PrepareFails
<1>2. Sound(AfterDatabase(e, "error"))
  BY AfterDatabaseIs
<1>3. \/ Write(e, "FAILED", AfterDatabase(e, "error"))
      \/ Continue(e, AfterDatabase(e, "error"))
  BY DEF PrepareFails
<1> QED BY <1>1, <1>2, <1>3, FailedIsStatus, WriteKeeps, ContinueKeeps

LEMMA PrepareConflictsKeeps ==
    ASSUME Inv, NEW e \in Slots, PrepareConflicts(e)
    PROVE  Inv' /\ Settled
<1>1. TypedBudget'
  BY Parts, BudgetKept DEF PrepareConflicts
<1>2. Sound(AfterDatabase(e, "error"))
  BY AfterDatabaseIs
<1>3. \/ Write(e, "FAILED", AfterDatabase(e, "error"))
      \/ Continue(e, AfterDatabase(e, "error"))
  BY DEF PrepareConflicts
<1> QED BY <1>1, <1>2, <1>3, FailedIsStatus, WriteKeeps, ContinueKeeps

LEMMA PassKeeps ==
    ASSUME Inv, NEW e \in Slots, Pass(e)
    PROVE  Inv' /\ Settled
<1>1. TypedBudget'
  BY Parts, BudgetKept DEF Pass
<1>2. \/ Transition(e, "STARTING", "work", "error")
      \/ Transition(e, "REQUESTED", "work", "error")
      \/ Goto(e, "complete")
  BY DEF Pass
<1>3. /\ {"STARTING", "REQUESTED"} \subseteq Statuses \ {"ACTIVE"}
      /\ {"work", "error", "complete"} \subseteq Points \ Delicate
  BY DEF Statuses, Points, Delicate
<1> QED BY <1>1, <1>2, <1>3, TransitionKeeps, GotoKeeps DEF Delicate

LEMMA ProcessMoves ==
    ASSUME Inv, NEW e \in Slots, NEW at \in Points \ Delicate,
           exec' = [exec EXCEPT ![e].at = at],
           UNCHANGED <<row, published, job, budget>>,
           process' \in {"stopped", "online"}
    PROVE  Inv' /\ Settled
<1>1. /\ TypedRow /\ TypedJobs /\ TypedBudget /\ exec \in [Slots -> Execution]
      /\ exec[e] \in Execution /\ \A o \in Slots : Placed(o)
      /\ ActiveWasPublished
  BY Parts
<1>2. /\ [exec[e] EXCEPT !.at = at] \in Execution
      /\ [exec[e] EXCEPT !.at = at].at = at
  BY <1>1, GotoIs
<1>3. exec' = [exec EXCEPT ![e] = [exec[e] EXCEPT !.at = at]]
  OBVIOUS
<1>4. /\ exec' \in [Slots -> Execution] /\ exec'[e].at = at
      /\ \A o \in Slots \ {e} : exec'[o] = exec[o]
  BY <1>1, <1>2, <1>3
<1>5. TypedRow' /\ TypedJobs' /\ ActiveWasPublished'
  BY <1>1 DEF TypedRow, TypedJobs, ActiveWasPublished, row
<1>6. TypedBudget'
  BY <1>1, BudgetKept
<1>7. ASSUME NEW o \in Slots
      PROVE  Placed(o)'
  BY <1>1, <1>4 DEF Placed, row, Delicate
<1> QED BY <1>4, <1>5, <1>6, <1>7, Closed, NoJobSettled

LEMMA ProcessKeeps ==
    ASSUME Inv, NEW e \in Slots, StartProcess(e) \/ StopProcess(e)
    PROVE  Inv' /\ Settled
<1>1. {"started", "stopped"} \subseteq Points \ Delicate
  BY DEF Points, Delicate
<1> QED BY <1>1, ProcessMoves DEF StartProcess, StopProcess

LEMMA HealthyKeeps ==
    ASSUME Inv, NEW e \in Slots, Healthy(e)
    PROVE  Inv' /\ Settled
<1>1. TypedBudget'
  BY Parts, BudgetKept DEF Healthy
<1>2. \/ Transition(e, "HEALTH_CHECKING", "work", "error")
      \/ Goto(e, "complete")
      \/ Transition(e, "DISCOVERING", "publish", "error")
      \/ exec[e].status = "DISCOVERING" /\ Goto(e, "publish")
  BY DEF Healthy
<1>3. /\ {"HEALTH_CHECKING", "DISCOVERING"} \subseteq Statuses \ {"ACTIVE"}
      /\ {"work", "error", "complete", "publish"} \subseteq Points \ {"activate", "database"}
  BY DEF Statuses, Points
<1> QED BY <1>1, <1>2, <1>3, TransitionKeeps, GotoKeeps DEF Delicate

LEMMA UnhealthyKeeps ==
    ASSUME Inv, NEW e \in Slots, Unhealthy(e) \/ Mismatch(e)
    PROVE  Inv' /\ Settled
<1>1. TypedBudget'
  BY Parts, BudgetKept DEF Unhealthy, Mismatch
<1>2. \/ Goto(e, "complete")
      \/ Transition(e, "DEGRADED", "complete", "error")
      \/ Transition(e, "FAILED", "complete", "error")
  BY DEF Unhealthy, Mismatch
<1>3. /\ {"DEGRADED", "FAILED"} \subseteq Statuses \ {"ACTIVE"}
      /\ {"error", "complete"} \subseteq Points \ Delicate
  BY DEF Statuses, Points, Delicate
<1> QED BY <1>1, <1>2, <1>3, TransitionKeeps, GotoKeeps DEF Delicate

LEMMA DrainKeeps ==
    ASSUME Inv, NEW e \in Slots, Drain(e) \/ Stopped(e)
    PROVE  Inv' /\ Settled
<1>1. TypedBudget'
  BY Parts, BudgetKept DEF Drain, Stopped
<1>2. \/ Goto(e, "complete")
      \/ Transition(e, "STOPPED", "complete", "error")
      \/ Transition(e, "DRAINING", "stop", "error")
  BY DEF Drain, Stopped
<1>3. /\ {"STOPPED", "DRAINING"} \subseteq Statuses \ {"ACTIVE"}
      /\ {"error", "complete", "stop"} \subseteq Points \ Delicate
  BY DEF Statuses, Points, Delicate
<1> QED BY <1>1, <1>2, <1>3, TransitionKeeps, GotoKeeps DEF Delicate

\* What was published counts for this stay in DISCOVERING only when the row is
\* still the one the phase was entered with.
LEMMA PublishKeeps ==
    ASSUME Inv, NEW e \in Slots, Publish(e)
    PROVE  Inv' /\ Settled
<1>1. /\ TypedRow /\ TypedJobs /\ TypedBudget /\ exec \in [Slots -> Execution]
      /\ exec[e] \in Execution /\ \A o \in Slots : Placed(o)
      /\ ActiveWasPublished
  BY Parts
<1>2. /\ exec[e].at = "publish" /\ published' = (published \/ Matches(e))
      /\ exec' = [exec EXCEPT ![e] = [exec[e] EXCEPT !.at = "activate"]]
      /\ UNCHANGED <<row, process, job, budget>>
  BY DEF Publish
<1>3. "activate" \in Points
  BY DEF Points
<1>4. /\ exec' \in [Slots -> Execution] /\ exec'[e].at = "activate"
      /\ exec'[e].status = exec[e].status /\ exec'[e].lag = exec[e].lag
      /\ \A o \in Slots \ {e} : exec'[o] = exec[o]
  BY <1>1, <1>2, <1>3, GotoIs
<1>5. published' \in BOOLEAN /\ (published => published')
  BY <1>1, <1>2 DEF TypedRow, Matches
<1>6. TypedRow' /\ TypedJobs' /\ ActiveWasPublished'
  BY <1>1, <1>2, <1>5 DEF TypedRow, TypedJobs, ActiveWasPublished, row
<1>7. TypedBudget'
  BY <1>1, <1>2, BudgetKept
<1>8. ASSUME NEW o \in Slots
      PROVE  Placed(o)'
  <2>1. CASE o = e
    BY <1>1, <1>2, <1>4, <2>1 DEF Placed, Matches, row
  <2>2. CASE o # e
    BY <1>1, <1>2, <1>4, <1>5, <2>2 DEF Placed, row
  <2> QED BY <2>1, <2>2
<1> QED BY <1>2, <1>4, <1>6, <1>7, <1>8, Closed, NoJobSettled

\* The move to ACTIVE under the revision the phase was entered with.
LEMMA ActivateKeeps ==
    ASSUME Inv, NEW e \in Slots, Activate(e)
    PROVE  Inv' /\ Settled
<1>1. TypedBudget' /\ Placed(e)
  BY Parts, BudgetKept DEF Activate
<1>2. exec[e].at = "activate" /\ Transition(e, "ACTIVE", "complete", "fail")
  BY DEF Activate
<1>3. Matches(e) => published
  BY <1>1, <1>2 DEF Placed, Matches
<1>4. "ACTIVE" \in Statuses /\ {"fail", "complete"} \subseteq Points
  BY DEF Statuses, Points
<1> QED BY <1>1, <1>2, <1>3, <1>4, TransitionKeeps DEF Delicate

LEMMA FailureKeeps ==
    ASSUME Inv, NEW e \in Slots, PublishFails(e) \/ MarkFailed(e)
    PROVE  Inv' /\ Settled
<1>1. TypedBudget'
  BY Parts, BudgetKept DEF PublishFails, MarkFailed
<1>2. Transition(e, "FAILED", "fail", "fail")
  BY DEF PublishFails, MarkFailed
<1>3. "fail" \in Points
  BY DEF Points
<1> QED BY <1>1, <1>2, <1>3, FailedIsStatus, TransitionKeeps DEF Delicate

LEMMA CallFailsKeeps ==
    ASSUME Inv, NEW e \in Slots, CallFails(e)
    PROVE  Inv' /\ Settled
<1>1. TypedBudget'
  BY Parts, BudgetKept DEF CallFails
<1>2. Goto(e, "fail") \/ Goto(e, "error")
  BY DEF CallFails
<1>3. {"fail", "error"} \subseteq Points
  BY DEF Points
<1> QED BY <1>1, <1>2, <1>3, GotoKeeps

LEMMA CatchErrorKeeps ==
    ASSUME Inv, NEW e \in Slots, CatchError(e)
    PROVE  Inv' /\ Settled
<1>1. TypedRow /\ TypedBudget /\ exec[e] \in Execution
  BY Parts
<1>2. TypedBudget'
  BY <1>1, BudgetKept DEF CatchError
<1>3. PICK at \in {"fail", "failing"} : Continue(e, Reads(e, status, at))
  BY DEF CatchError
<1>4. Sound(Reads(e, status, at))
  BY <1>1, ReadsIs DEF Sound, TypedRow, Points
<1> QED BY <1>2, <1>3, <1>4, ContinueKeeps

----------------------------------------------------------------------------
(* The theorems.                                                           *)

LEMMA InitInv == Init => Inv
<1> SUFFICES ASSUME Init PROVE Inv
  OBVIOUS
<1>1. PICK j \in JobIds :
        job = [i \in JobIds |-> IF i = j THEN [NoJob EXCEPT !.status = "pending"]
                                ELSE NoJob]
  BY DEF Init
<1>2. TypedJobs
  <2>1. ASSUME NEW i \in JobIds
        PROVE  job[i] \in Job /\ job[i].status # "leased" /\ job[i].owner = NoSlot
    <3>1. /\ NoJob \in Job /\ NoJob.status = "absent" /\ NoJob.owner = NoSlot
          /\ [NoJob EXCEPT !.status = "pending"] \in Job
          /\ [NoJob EXCEPT !.status = "pending"].status = "pending"
          /\ [NoJob EXCEPT !.status = "pending"].owner = NoSlot
      BY DEF NoJob, Job
    <3> QED BY <1>1, <3>1
  <2> QED BY <1>1, <2>1 DEF TypedJobs
<1>3. TypedRow /\ ActiveWasPublished
  BY DEF Init, TypedRow, Statuses, ActiveWasPublished
<1>4. TypedBudget
  BY PmsAssumption DEF Init, TypedBudget
<1>5. /\ exec \in [Slots -> Execution]
      /\ \A e \in Slots : exec[e].at = "idle"
  BY IdleIsExecution DEF Init
<1>6. \A e \in Slots : Placed(e)
  BY <1>5 DEF Placed
<1> QED BY <1>2, <1>3, <1>4, <1>5, <1>6, TypeParts DEF Inv

LEMMA NextInv ==
    ASSUME Inv, [Next]_vars
    PROVE  Inv' /\ (Settled \/ UNCHANGED vars)
<1>1. CASE UNCHANGED vars
  <2>1. /\ UNCHANGED <<row, process, published>> /\ UNCHANGED exec
        /\ UNCHANGED job /\ UNCHANGED <<faults, commands>>
    BY <1>1 DEF vars, row
  <2>2. TypedJobs' /\ TypedBudget' /\ exec' \in [Slots -> Execution]
    BY <2>1, TypeParts DEF Inv, TypedJobs, TypedBudget
  <2> QED BY <1>1, <2>1, <2>2, JobMoves
<1>2. ASSUME NEW e \in Slots, Advance(e)
      PROVE  Inv' /\ Settled
  <2>1. CASE Load(e) \/ Prepare(e) \/ PrepareStep(e) \/ PrepareConflicts(e)
    BY <2>1, LoadKeeps, PrepareKeeps, PrepareStepKeeps, PrepareConflictsKeeps
  <2>2. CASE Pass(e) \/ StartProcess(e) \/ Healthy(e) \/ Drain(e) \/ StopProcess(e)
             \/ Stopped(e)
    BY <2>2, PassKeeps, ProcessKeeps, HealthyKeeps, DrainKeeps
  <2>3. CASE Publish(e) \/ Activate(e) \/ CatchError(e) \/ MarkFailed(e)
    BY <2>3, PublishKeeps, ActivateKeeps, CatchErrorKeeps, FailureKeeps
  <2>4. CASE Settle(e) \/ RenewalFails(e)
    BY <2>4, SettleKeeps, RenewalFailsKeeps
  <2> QED BY <1>2, <2>1, <2>2, <2>3, <2>4 DEF Advance
<1>3. ASSUME NEW e \in Slots, Disturb(e)
      PROVE  Inv' /\ Settled
  BY <1>3, PrepareFailsKeeps, UnhealthyKeeps, FailureKeeps, CallFailsKeeps,
     CrashKeeps DEF Disturb
<1> QED BY <1>1, <1>2, <1>3, ClaimKeeps, LeaseExpiresKeeps, ChangeDesiredKeeps,
        EnqueuersKeep DEF Next

LEMMA InvAlways == Spec => []Inv
<1>1. Inv /\ [Next]_vars => Inv'
  BY NextInv
<1> QED BY <1>1, InitInv, PTL DEF Spec

\* The row, the leases and the snapshots of the executions stay of their kinds;
\* a job has an owner exactly while it is leased, and the database preparation
\* is only ever continued from a status it owns (job_lease, RuntimeDeployment).
THEOREM PmsTypeCorrect == Spec => []TypeOK
<1>1. Inv => TypeOK
  BY DEF Inv
<1> QED BY <1>1, InvAlways, PTL

\* However the executions of the reconcile job overlap, a deployment is ACTIVE
\* only on a Catalog and Registry publication of this stay in DISCOVERING:
\* store.transition moves to ACTIVE under the revision the phase was entered with.
THEOREM ActiveIsPublished == Spec => []ActiveWasPublished
<1>1. Inv => ActiveWasPublished
  BY DEF Inv
<1> QED BY <1>1, InvAlways, PTL

\* An execution whose lease was taken over cannot settle the job under its new
\* owner: complete and fail write under the lease token and the fence.
THEOREM LeaseIsSettledByOwner == Spec => SettledByOwner
<1>1. Inv /\ [Next]_vars => [Settled]_vars
  BY NextInv
<1>2. Spec => [][Settled]_vars
  BY <1>1, InvAlways, PTL DEF Spec
<1> QED BY <1>2 DEF SettledByOwner, Settled
=============================================================================
