------------------------------ MODULE Retention ------------------------------
(***************************************************************************)
(* The end of a Task: the outbox rows of its events and the publishers     *)
(* that deliver them, the cleaner of published rows, the recovery scan's   *)
(* lease, and the TTL cleaner that expires and purges the Task.            *)
(*                                                                         *)
(* Each Runtime instance (replica) runs one publisher, one recovery scan,  *)
(* both cleaners and whatever ends the Task or settles its command.  A     *)
(* cleaner's tick is one transaction that locks the row, hence one step;   *)
(* the publisher and the scan await calls between their statements.        *)
(*                                                                         *)
(* A timestamp is kept as its distance from the database's clock, which    *)
(* stops growing once no comparison can tell it apart, so time is not      *)
(* bounded.  The clock of replica r is Skew[r] ahead of the database's.    *)
(* A handler may read it long before the transaction it stamps with it.    *)
(* How long the outbox keeps a published row is not timed.  Tombstones,    *)
(* resource bindings and batch limits are left out: they decide nothing    *)
(* for one Task.                                                           *)
(***************************************************************************)
EXTENDS Integers, FiniteSets

CONSTANTS
    Replicas,    \* Runtime instances
    Publishers,  \* bound: those whose publisher is explored
    Nobody,      \* no owner of the recovery lease
    Skew,        \* clock of each replica minus the database's
    MaxSkew,     \* bound of its magnitude
    Ttl,         \* provider_task.ttl_ms
    Grace,       \* TTL_PURGE_GRACE_MS
    Scoped,      \* is the storage shared (GOWM)?  Then nothing is deleted here
    Commands,    \* may the Task have an unfinished command?  (a set of BOOLEAN)
    MaxFaults    \* bound: failed deliveries, crashes and lost leases together

ASSUME RetentionAssumption ==
    /\ Nobody \notin Replicas
    /\ Publishers \subseteq Replicas
    /\ MaxSkew \in Nat
    /\ Skew \in [Replicas -> (-MaxSkew)..MaxSkew]
    /\ Ttl \in Nat \ {0} /\ Grace \in Nat \ {0}
    /\ Scoped \in BOOLEAN
    /\ Commands \subseteq BOOLEAN
    /\ MaxFaults \in Nat

Events == {"ended", "settled", "expired"}

VARIABLES
    task,      \* the provider_task row
    command,   \* its commands that are PENDING, CLAIMED or RETRY_WAIT: none, open, closed
    age,       \* time since the clock that stamped the end was read (history)
    outbox,    \* the state of each event's row in outbox_event
    pub,       \* the OutboxPublisher.tick of each replica
    sink,      \* events the sink accepted (external)
    lease,     \* runtime_lease of sdar-recovery:<task id>
    scan,      \* the recovery scan of each replica
    inTime,    \* replicas whose scan's lease period has not run out (history)
    faults     \* faults that may still happen

vars == <<task, command, age, outbox, pub, sink, lease, scan, inTime, faults>>

\* Distances are kept between Past and Future.
Past == -MaxSkew
Future == (IF Ttl > Grace THEN Ttl ELSE Grace) + MaxSkew
Distance == Past..Future
MaxAge == Ttl + 2 * MaxSkew

Row == [state      : {"live", "terminal", "gone"},
        expires    : Distance,     \* handle_expires_at
        expired    : BOOLEAN,      \* expired_at IS NOT NULL
        purgeAfter : Distance]

OutboxStates == {"none", "pending", "published", "removed"}

TypeOK ==
    /\ task \in Row
    /\ command \in {"none", "open", "closed"}
    /\ age \in 0..MaxAge
    /\ outbox \in [Events -> OutboxStates]
    /\ pub \in [Publishers -> [step  : {"idle", "sending", "sent", "failed"},
                               batch : SUBSET Events]]
    /\ sink \subseteq Events
    /\ lease \in [owner : Replicas \cup {Nobody}, over : BOOLEAN]
    /\ scan \in [Replicas -> {"idle", "listed", "holding", "working", "releasing"}]
    /\ inTime \subseteq Replicas
    /\ faults \in 0..MaxFaults

Quiet == [step |-> "idle", batch |-> {}]
NoLease == [owner |-> Nobody, over |-> FALSE]
Fault == faults > 0 /\ faults' = faults - 1

\* Operators named for a bug are mutants of the definition after them; no
\* specification uses them.

----------------------------------------------------------------------------
(* Facts about the Task and their events.                                  *)

\* insertOutbox: a new row, unless the event's key is there.
Emit(e) ==
    outbox' = IF outbox[e] = "none" THEN [outbox EXCEPT ![e] = "pending"]
              ELSE outbox

\* What is left of a TTL that starts at a clock, off by c from the database's,
\* that was read d ago; MaxAge stands for any longer delay.
Handle(c, d) == IF Ttl + c - d > Past THEN Ttl + c - d ELSE Past

EndedFromHandle(c, d) == [task EXCEPT !.state = "terminal", !.expires = @ + Ttl]
EndedKeepsHandle(c, d) == [task EXCEPT !.state = "terminal"]

\* transitionTask to a terminal state: terminal_at is observation.occurredAt.
Ended(c, d) == [task EXCEPT !.state = "terminal", !.expires = Handle(c, d)]

\* Whatever worker of a replica ends the Task.  Its tick may have read the
\* clock before other Tasks and Adapter calls.
EndTask(r) ==
    /\ task.state = "live"
    /\ \E d \in 0..MaxAge : task' = Ended(Skew[r], d) /\ age' = d
    /\ Emit("ended")
    /\ UNCHANGED <<command, pub, sink, lease, scan, inTime, faults>>

\* Any other transition of the Task moves its handle.
Observe(r) ==
    /\ task.state = "live"
    /\ \E d \in 0..MaxAge : task' = [task EXCEPT !.expires = Handle(Skew[r], d)]
    /\ UNCHANGED <<command, age, outbox, pub, sink, lease, scan, inTime, faults>>

\* Its last command is settled, before or after the Task ended; nothing says
\* it ever is.
SettleCommand ==
    /\ command = "open" /\ task.state # "gone"
    /\ command' = "closed"
    /\ Emit("settled")
    /\ UNCHANGED <<task, age, pub, sink, lease, scan, inTime, faults>>

----------------------------------------------------------------------------
(* OutboxPublisher.tick: read, publish, mark.  Replicas may read the same   *)
(* rows.                                                                    *)

Pending == {e \in Events : outbox[e] = "pending"}

ReadPending(r) ==
    /\ pub[r] = Quiet /\ Pending # {}
    /\ pub' = [pub EXCEPT ![r] = [step |-> "sending", batch |-> Pending]]
    /\ UNCHANGED <<task, command, age, outbox, sink, lease, scan, inTime, faults>>

Publish(r) ==
    /\ pub[r].step = "sending"
    /\ sink' = sink \cup pub[r].batch
    /\ pub' = [pub EXCEPT ![r].step = "sent"]
    /\ UNCHANGED <<task, command, age, outbox, lease, scan, inTime, faults>>

\* The sink refuses the batch, or takes it and its answer is lost.
PublishFails(r) ==
    /\ pub[r].step = "sending" /\ Fault
    /\ sink' \in {sink, sink \cup pub[r].batch}
    /\ pub' = [pub EXCEPT ![r].step = "failed"]
    /\ UNCHANGED <<task, command, age, outbox, lease, scan, inTime>>

Published(batch) ==
    [e \in Events |-> IF e \in batch /\ outbox[e] = "pending" THEN "published"
                      ELSE outbox[e]]

\* markPublished
MarkPublished(r) ==
    /\ pub[r].step = "sent"
    /\ outbox' = Published(pub[r].batch)
    /\ pub' = [pub EXCEPT ![r] = Quiet]
    /\ UNCHANGED <<task, command, age, sink, lease, scan, inTime, faults>>

MarkPublishedFails(r) ==
    /\ pub[r].step = "sent" /\ Fault
    /\ pub' = [pub EXCEPT ![r].step = "failed"]
    /\ UNCHANGED <<task, command, age, outbox, sink, lease, scan, inTime>>

RecordAttemptsMarks(r) ==
    /\ pub[r].step = "failed"
    /\ outbox' = Published(pub[r].batch)
    /\ pub' = [pub EXCEPT ![r] = Quiet]
    /\ UNCHANGED <<task, command, age, sink, lease, scan, inTime, faults>>

\* recordAttempts counts the attempt and leaves the rows pending.
RecordAttempts(r) ==
    /\ pub[r].step = "failed"
    /\ pub' = [pub EXCEPT ![r] = Quiet]
    /\ UNCHANGED <<task, command, age, outbox, sink, lease, scan, inTime, faults>>

\* OutboxCleaner.tick: a published row that is old enough.
CleanOutbox ==
    /\ ~Scoped
    /\ \E e \in Events :
        outbox[e] = "published" /\ outbox' = [outbox EXCEPT ![e] = "removed"]
    /\ UNCHANGED <<task, command, age, pub, sink, lease, scan, inTime, faults>>

----------------------------------------------------------------------------
(* RecoveryManager.scan under withRecoveryLock.                            *)

ListTasks(r) ==
    /\ scan[r] = "idle" /\ task.state = "live"
    /\ scan' = [scan EXCEPT ![r] = "listed"]
    /\ UNCHANGED <<task, command, age, outbox, pub, sink, lease, inTime, faults>>

LeaseIsFree == lease.owner = Nobody \/ lease.over

\* A lease another replica holds: the Task is skipped.
AcquireLease(r) ==
    /\ scan[r] = "listed"
    /\ IF LeaseIsFree
       THEN /\ lease' = [owner |-> r, over |-> FALSE]
            /\ scan' = [scan EXCEPT ![r] = "holding"]
            /\ inTime' = inTime \cup {r}
       ELSE /\ scan' = [scan EXCEPT ![r] = "idle"]
            /\ UNCHANGED <<lease, inTime>>
    /\ UNCHANGED <<task, command, age, outbox, pub, sink, faults>>

\* The row is read again under the lease: it may be terminal or gone by now.
ReadTask(r) ==
    /\ scan[r] = "holding"
    /\ scan' = [scan EXCEPT ![r] =
                    IF task.state = "live" THEN "working" ELSE "releasing"]
    /\ UNCHANGED <<task, command, age, outbox, pub, sink, lease, inTime, faults>>

\* reconcileTask returns or throws; that it ends the Task is EndTask of r.
Reconciled(r) ==
    /\ scan[r] = "working"
    /\ scan' = [scan EXCEPT ![r] = "releasing"]
    /\ UNCHANGED <<task, command, age, outbox, pub, sink, lease, inTime, faults>>

ReleaseAnyLease(r) ==
    /\ scan[r] = "releasing"
    /\ lease' = NoLease
    /\ scan' = [scan EXCEPT ![r] = "idle"]
    /\ inTime' = inTime \ {r}
    /\ UNCHANGED <<task, command, age, outbox, pub, sink, faults>>

\* Only the owner's row is deleted.
ReleaseLease(r) ==
    /\ scan[r] = "releasing"
    /\ lease' = IF lease.owner = r THEN NoLease ELSE lease
    /\ scan' = [scan EXCEPT ![r] = "idle"]
    /\ inTime' = inTime \ {r}
    /\ UNCHANGED <<task, command, age, outbox, pub, sink, faults>>

----------------------------------------------------------------------------
(* TtlCleaner.tick at the clock of replica r: renew, expire or purge.      *)

RenewDue(r) == task.state = "live" /\ task.expires <= Skew[r]

Renew(r) ==
    /\ RenewDue(r)
    /\ task' = [task EXCEPT !.expires = Skew[r] + Ttl]
    /\ UNCHANGED <<command, age, outbox, pub, sink, lease, scan, inTime, faults>>

\* The expiry is stored with its event; the purge waits for the grace period.
Expire(r) ==
    /\ task.state = "terminal" /\ ~task.expired /\ task.expires <= Skew[r]
    /\ task' = [task EXCEPT !.expired = TRUE, !.purgeAfter = Skew[r] + Grace]
    /\ Emit("expired")
    /\ UNCHANGED <<command, age, pub, sink, lease, scan, inTime, faults>>

PurgeDueUnpublished(r) ==
    /\ ~Scoped
    /\ task.state = "terminal" /\ task.expired /\ task.purgeAfter <= Skew[r]
    /\ command # "open"

\* The purge also waits for an open admission; a published Task has none
\* (ExecutionIsTracked of Admission).
PurgeDue(r) ==
    /\ ~Scoped
    /\ task.state = "terminal" /\ task.expired /\ task.purgeAfter <= Skew[r]
    /\ Pending = {}
    /\ command # "open"

PurgeWithoutLease == lease.owner = Nobody

\* #acquireRecoveryLease; a purge that does not get the lease is blocked and
\* tried again by a later tick.
PurgeGetsLease == LeaseIsFree

Purge(r) ==
    /\ PurgeDue(r) /\ PurgeGetsLease
    /\ task' = [task EXCEPT !.state = "gone"]
    /\ lease' = NoLease
    /\ UNCHANGED <<command, age, outbox, pub, sink, scan, inTime, faults>>

TtlTick(r) == Renew(r) \/ Expire(r) \/ Purge(r)

----------------------------------------------------------------------------
(* Time and faults.                                                        *)

Closer(d) == IF d > Past THEN d - 1 ELSE d
Older(a, bound) == IF a < bound THEN a + 1 ELSE a

Tick ==
    /\ task' = [task EXCEPT !.expires = Closer(@), !.purgeAfter = Closer(@)]
    /\ age' = IF task.state = "live" THEN age ELSE Older(age, MaxAge)
    /\ UNCHANGED <<command, outbox, pub, sink, lease, scan, inTime, faults>>

\* A lease runs out; under a scan that is still working it is a fault.
LeaseElapses ==
    /\ lease.owner # Nobody /\ ~lease.over
    /\ IF scan[lease.owner] \in {"holding", "working", "releasing"} THEN Fault
       ELSE UNCHANGED faults
    /\ lease' = [lease EXCEPT !.over = TRUE]
    /\ inTime' = inTime \ {lease.owner}
    /\ UNCHANGED <<task, command, age, outbox, pub, sink, scan>>

\* The process dies, or a statement of its tick fails, in the middle of a
\* publish or of a scan.
CrashOfPublisher(r) ==
    /\ pub[r] # Quiet /\ Fault
    /\ pub' = [pub EXCEPT ![r] = Quiet]
    /\ UNCHANGED <<task, command, age, outbox, sink, lease, scan, inTime>>

CrashOfScan(r) ==
    /\ scan[r] # "idle" /\ Fault
    /\ scan' = [scan EXCEPT ![r] = "idle"]
    /\ inTime' = inTime \ {r}
    /\ UNCHANGED <<task, command, age, outbox, pub, sink, lease>>

----------------------------------------------------------------------------

Fresh(state, c, d) ==
    [state |-> state, expires |-> Handle(c, d), expired |-> FALSE, purgeAfter |-> Past]

\* publishScheduled: the TTL starts when the call was accepted.
InitScheduled ==
    \E r \in Replicas, d \in 0..MaxAge : task = Fresh("live", Skew[r], d)

\* publishAccepted: it starts with the row, by the database's clock.
InitAccepted == task = Fresh("live", 0, 0)

\* It may be published when it is over: task.created tells its end.
InitEnded == task = Fresh("terminal", 0, 0) /\ command = "none"

Init ==
    /\ \/ /\ InitScheduled \/ InitAccepted
          /\ \E c \in Commands : command = IF c THEN "open" ELSE "none"
       \/ InitEnded
    /\ age = 0
    /\ outbox = [e \in Events |-> IF e = "ended" /\ task.state = "terminal"
                                  THEN "pending" ELSE "none"]
    /\ pub = [r \in Publishers |-> Quiet]
    /\ sink = {}
    /\ lease = NoLease
    /\ scan = [r \in Replicas |-> "idle"]
    /\ inTime = {}
    /\ faults = MaxFaults

Publishing(r) ==
    ReadPending(r) \/ Publish(r) \/ MarkPublished(r) \/ RecordAttempts(r)
Scanning(r) ==
    AcquireLease(r) \/ ReadTask(r) \/ Reconciled(r) \/ ReleaseLease(r)

Next ==
    \/ Tick
    \/ LeaseElapses
    \/ SettleCommand
    \/ CleanOutbox
    \/ \E r \in Replicas :
        \/ EndTask(r)
        \/ Observe(r)
        \/ ListTasks(r)
        \/ Scanning(r)
        \/ TtlTick(r)
        \/ CrashOfScan(r)
    \/ \E r \in Publishers :
        \/ Publishing(r)
        \/ PublishFails(r)
        \/ MarkPublishedFails(r)
        \/ CrashOfPublisher(r)

Spec == Init /\ [][Next]_vars

\* Every interval timer starts its next tick after the last one ended, and a
\* tick goes on unless its process dies; time passes and leases run out.  A
\* purge competes with renewed leases of the scan only while the Task is live.
Fairness ==
    /\ WF_vars(Tick) /\ WF_vars(LeaseElapses)
    /\ \A r \in Publishers : WF_vars(Publishing(r))
    /\ \A r \in Replicas : WF_vars(Scanning(r)) /\ WF_vars(TtlTick(r))

FairSpec == Spec /\ Fairness

----------------------------------------------------------------------------
(* Properties.                                                             *)

\* The outbox as the sink sees it: that a published row is removed is told to
\* nobody.
StateOf(e) == CASE outbox[e] = "none"    -> "absent"
                [] outbox[e] = "pending" -> "queued"
                [] OTHER                 -> "told"

Promised == INSTANCE AtLeastOnce WITH
    Items <- Events, MayDrop <- {FALSE},
    state <- [e \in Events |-> StateOf(e)], told <- sink

\* The outbox implements AtLeastOnce and gives nothing up: an event is marked or
\* removed only after the sink accepted it, also when a delivery fails, its answer
\* is lost or a publisher dies (markPublished after publish, OutboxCleaner).
EventsReachSink == Promised!Spec

\* ADR-006: publication completes before physical deletion.  What is purged has
\* told its end and its expiry, and no command of it is left (purgeDue).
PurgedIsAnnounced ==
    task.state = "gone" =>
        /\ {"ended", "expired"} \subseteq sink
        /\ command # "open"
        /\ command = "closed" => "settled" \in sink

\* A recovery that read the row within its lease never finds the row purged,
\* and no other replica holds the lease meanwhile, whoever ended the Task and
\* however many leases were lost before (withRecoveryLock,
\* #acquireRecoveryLease, the owner check of the release).
RecoveryIsAlone ==
    \A r \in inTime :
        /\ lease.owner = r
        /\ scan[r] = "working" => task.state # "gone"

\* getAuthorized: not expired, by the stored mark or by the database's clock.
Readable ==
    task.state = "live" \/ (task.state = "terminal" /\ ~task.expired /\ task.expires > 0)

\* How far the clocks that stamp or expire a Task are from the database's.
Clocks == {Skew[r] : r \in Replicas} \cup {0}

\* A result stays readable for its TTL, and no longer, up to what the clocks
\* differ by: one stamps the end, another expires the row (transitionTask,
\* publishAccepted, the expiry of the TTL cleaner, handle_expired).  The TTL counts
\* from the moment the stamp's clock was read, not from the moment the result
\* could be read: see EndIsReadable.
RetentionWithinSkew ==
    task.state = "terminal" =>
        /\ ~Readable => \E c, d \in Clocks : age >= Ttl + c - d
        /\ Readable => \E c \in Clocks : age < Ttl + c

\* An ended Task whose commands are settled is purged, also after failed
\* deliveries and when a recovery died holding its lease.  On shared storage this
\* cleaner purges nothing (scoped).
EndedIsPurged ==
    ~Scoped => ((task.state = "terminal" /\ command # "open") ~> (task.state = "gone"))

----------------------------------------------------------------------------
(* What a document says and the code does otherwise.                       *)

\* ADR-008: "Runtime host clock skew cannot extend or shorten retention."
RetentionIsExact ==
    task.state = "terminal" => (Readable <=> age < Ttl)

\* ADR-008: "Terminal results remain available for the promised retention window."
EndIsReadable ==
    [][task.state = "live" /\ task'.state = "terminal" => Readable']_vars
=============================================================================
