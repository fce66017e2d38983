----------------------------- MODULE OpsDelivery -----------------------------
(***************************************************************************)
(* The durable telemetry queue, provider_ops_delivery: a record is written *)
(* in the transaction of the fact it reports, and the publishers of all    *)
(* Runtime instances claim records, export them to a collector and settle  *)
(* them.  A tick claims a batch, tries to export it at once, and falls     *)
(* back to one export per record; every await is a step of its own.        *)
(*                                                                         *)
(* The backoff of a failed record is not timed: RETRY_WAIT may be due in   *)
(* any state.  The order in which due records are taken, and what they     *)
(* say, are left out.                                                      *)
(***************************************************************************)
EXTENDS Integers, FiniteSets

CONSTANTS
    Records,      \* event keys of the facts reported
    Publishers,   \* Runtime instances (telemetryInstanceId)
    Nobody,       \* claim_owner IS NULL
    Limit,        \* batchSize of a tick (10 in the code)
    MaxAttempts,  \* maximumAttempts of a record (20 in the code)
    MaxFaults     \* bound: failed exports, statements, crashes and lost leases

ASSUME OpsAssumption ==
    /\ Nobody \notin Publishers
    /\ IsFiniteSet(Records)
    /\ Limit \in Nat \ {0} /\ MaxAttempts \in Nat \ {0} /\ MaxFaults \in Nat

VARIABLES
    rows,       \* provider_ops_delivery, by event key
    tick,       \* the tick each publisher is in
    exported,   \* records the collector has accepted (external)
    faults      \* faults that may still happen

vars == <<rows, tick, exported, faults>>

Settled == {"DELIVERED", "EXHAUSTED"}
Row == [state    : {"none", "PENDING", "CLAIMED", "RETRY_WAIT"} \cup Settled,
        owner    : Publishers \cup {Nobody},
        over     : BOOLEAN,                       \* claim_until has passed
        attempts : 0..(MaxAttempts + MaxFaults)]
Absent == [state |-> "none", owner |-> Nobody, over |-> FALSE, attempts |-> 0]

\* batch holds what the tick has not settled yet, of the record that a mark or
\* fail step is about.
Tick == [step  : {"idle", "batch", "next", "mark", "fail"},
         batch : SUBSET Records,
         of    : SUBSET Records,   \* at most one: the record being settled
         acked : BOOLEAN]          \* batchAcknowledged
Idle == [step |-> "idle", batch |-> {}, of |-> {}, acked |-> FALSE]

TypeOK ==
    /\ rows \in [Records -> Row]
    /\ tick \in [Publishers -> Tick]
    /\ \A p \in Publishers : Cardinality(tick[p].of) <= 1
    /\ \A e \in Records : (rows[e].owner # Nobody) = (rows[e].state = "CLAIMED")
    /\ exported \subseteq {e \in Records : rows[e].state # "none"}
    /\ faults \in 0..MaxFaults

At(p, step) == tick[p].step = step
Fault == faults > 0 /\ faults' = faults - 1

\* Operators named for a bug are mutants of the definition after them; no
\* specification uses them.

----------------------------------------------------------------------------
(* Capture.                                                                *)

\* captureProviderOpsDelivery: a fact committed again adds nothing.
Capture(e) ==
    /\ rows' = IF rows[e].state = "none"
               THEN [rows EXCEPT ![e].state = "PENDING"] ELSE rows
    /\ UNCHANGED <<tick, exported, faults>>

----------------------------------------------------------------------------
(* DurableProviderOpsPublisher.tick.                                       *)

DueForgettingClaims == {e \in Records : rows[e].state \in {"PENDING", "RETRY_WAIT"}}

Due == {e \in Records : \/ rows[e].state \in {"PENDING", "RETRY_WAIT"}
                        \/ rows[e].state = "CLAIMED" /\ rows[e].over}

\* claimDue: up to Limit due records, in one statement that skips locked rows.
ClaimDue(p) ==
    /\ At(p, "idle")
    /\ \E batch \in SUBSET Due \ {{}} :
        /\ Cardinality(batch) <= Limit
        /\ rows' = [e \in Records |->
               IF e \in batch
               THEN [state |-> "CLAIMED", owner |-> p, over |-> FALSE,
                     attempts |-> rows[e].attempts + 1]
               ELSE rows[e]]
        /\ tick' = [tick EXCEPT ![p] =
               [step |-> IF Cardinality(batch) > 1 THEN "batch" ELSE "next",
                batch |-> batch, of |-> {}, acked |-> FALSE]]
    /\ UNCHANGED <<exported, faults>>

ExportBatch(p) ==
    /\ At(p, "batch")
    /\ exported' = exported \cup tick[p].batch
    /\ tick' = [tick EXCEPT ![p].step = "next", ![p].acked = TRUE]
    /\ UNCHANGED <<rows, faults>>

\* A rejected or unanswered batch, of which the collector may have taken some:
\* nothing is acknowledged.
ExportBatchFails(p) ==
    /\ At(p, "batch") /\ Fault
    /\ \E some \in SUBSET tick[p].batch : exported' = exported \cup some
    /\ tick' = [tick EXCEPT ![p].step = "next"]
    /\ UNCHANGED rows

\* The next record of the loop, which an acknowledged batch does not export.
Export(p) ==
    /\ At(p, "next")
    /\ \E e \in tick[p].batch :
        /\ tick' = [tick EXCEPT ![p].step = "mark", ![p].of = {e}]
        /\ exported' = IF tick[p].acked THEN exported ELSE exported \cup {e}
    /\ UNCHANGED <<rows, faults>>

ExportFails(p) ==
    /\ At(p, "next") /\ ~tick[p].acked /\ Fault
    /\ \E e \in tick[p].batch :
        /\ tick' = [tick EXCEPT ![p].step = "fail", ![p].of = {e}]
        /\ exported' \in {exported, exported \cup {e}}
    /\ UNCHANGED rows

Owns(p, e) == rows[e].state = "CLAIMED" /\ rows[e].owner = p

Closed(p) ==
    [tick EXCEPT ![p].step = "next", ![p].of = {}, ![p].batch = @ \ tick[p].of]

\* markDelivered: for a record that another publisher took over it does nothing.
MarkDelivered(p) ==
    /\ At(p, "mark")
    /\ \E e \in tick[p].of :
        rows' = IF Owns(p, e)
                THEN [rows EXCEPT ![e].state = "DELIVERED", ![e].owner = Nobody,
                                  ![e].over = FALSE]
                ELSE rows
    /\ tick' = Closed(p)
    /\ UNCHANGED <<exported, faults>>

\* The statement itself fails: the catch counts it as a failed export.
MarkDeliveredFails(p) ==
    /\ At(p, "mark") /\ Fault
    /\ tick' = [tick EXCEPT ![p].step = "fail"]
    /\ UNCHANGED <<rows, exported>>

FailedKeepsOwner(row) ==
    [row EXCEPT !.state = IF row.attempts >= MaxAttempts THEN "EXHAUSTED"
                          ELSE "RETRY_WAIT", !.over = FALSE]

Failed(row) ==
    [row EXCEPT !.state = IF row.attempts >= MaxAttempts THEN "EXHAUSTED"
                          ELSE "RETRY_WAIT",
                !.owner = Nobody, !.over = FALSE]

RecordFailureUnowned(p) ==
    /\ At(p, "fail")
    /\ \E e \in tick[p].of : rows' = [rows EXCEPT ![e] = Failed(@)]
    /\ tick' = Closed(p)
    /\ UNCHANGED <<exported, faults>>

\* recordFailure: the owner gives the record back or exhausts it.
RecordFailure(p) ==
    /\ At(p, "fail")
    /\ \E e \in tick[p].of :
        rows' = IF Owns(p, e) THEN [rows EXCEPT ![e] = Failed(@)] ELSE rows
    /\ tick' = Closed(p)
    /\ UNCHANGED <<exported, faults>>

\* A tick that has nothing left; a recordFailure that throws ends it early and
\* leaves the rest of the batch claimed.
EndTick(p) ==
    /\ \/ At(p, "next") /\ tick[p].batch = {} /\ UNCHANGED faults
       \/ At(p, "fail") /\ Fault
    /\ tick' = [tick EXCEPT ![p] = Idle]
    /\ UNCHANGED <<rows, exported>>

----------------------------------------------------------------------------
(* Time and faults.                                                        *)

Held(e) == \E p \in Publishers : Owns(p, e) /\ e \in tick[p].batch

\* A claim runs out; under a publisher that is still working on it, it is a fault.
LeaseElapses(e) ==
    /\ rows[e].state = "CLAIMED" /\ ~rows[e].over
    /\ IF Held(e) THEN Fault ELSE UNCHANGED faults
    /\ rows' = [rows EXCEPT ![e].over = TRUE]
    /\ UNCHANGED <<tick, exported>>

Crash(p) ==
    /\ ~At(p, "idle") /\ Fault
    /\ tick' = [tick EXCEPT ![p] = Idle]
    /\ UNCHANGED <<rows, exported>>

----------------------------------------------------------------------------

Init ==
    /\ rows = [e \in Records |-> Absent]
    /\ tick = [p \in Publishers |-> Idle]
    /\ exported = {}
    /\ faults = MaxFaults

Work(p) ==
    \/ ExportBatch(p)
    \/ Export(p)
    \/ MarkDelivered(p)
    \/ RecordFailure(p)
    \/ EndTick(p)

Next ==
    \/ \E e \in Records : Capture(e) \/ LeaseElapses(e)
    \/ \E p \in Publishers :
        \/ ClaimDue(p)
        \/ Work(p)
        \/ ExportBatchFails(p)
        \/ ExportFails(p)
        \/ MarkDeliveredFails(p)
        \/ Crash(p)

Spec == Init /\ [][Next]_vars

\* The interval timer starts a tick whenever the last one ended, a tick goes on
\* unless its process dies, and claims run out.  Which due records a claim
\* takes is the database's choice, oldest first: every due record is claimed
\* if it stays due, which the fairness of its claim by somebody says.
ClaimOf(e) == \E p \in Publishers :
    ClaimDue(p) /\ rows[e].attempts < rows'[e].attempts

Fairness ==
    /\ \A p \in Publishers : WF_vars(Work(p))
    /\ \A e \in Records : SF_vars(ClaimOf(e)) /\ WF_vars(LeaseElapses(e))

FairSpec == Spec /\ Fairness

----------------------------------------------------------------------------
(* Properties.                                                             *)

\* The queue as its readers see it.
StateOf(e) == CASE rows[e].state = "none"      -> "absent"
                [] rows[e].state = "DELIVERED" -> "told"
                [] rows[e].state = "EXHAUSTED" -> "dropped"
                [] OTHER                       -> "queued"

Promised == INSTANCE AtLeastOnce WITH
    Items <- Records, MayDrop <- {TRUE},
    state <- [e \in Records |-> StateOf(e)], told <- exported

\* The queue implements AtLeastOnce.  What it settles as delivered was accepted
\* by the collector, also when a batch fails half way (docs/architecture/
\* observability.md, batchAcknowledged); a settled record never becomes due again,
\* not by a fact captured twice, nor by a slow publisher that fails or finishes
\* after another one settled it (the owner check of markDelivered and
\* recordFailure).
TellsAtLeastOnce == Promised!Spec

\* Every captured record is delivered or exhausted, also when the publisher
\* that claimed it died, lost its lease or could not write its outcome.
RecordsSettle ==
    \A e \in Records : rows[e].state # "none" ~> rows[e].state \in Settled
=============================================================================
