--------------------------- MODULE BusinessEvents ---------------------------
(***************************************************************************)
(* The Business Events pipeline of one Provider: each Runtime replica runs *)
(* a worker per Adapter event source.  A worker leases its source, streams *)
(* facts from it into the inbox, maps them to Tasks, and publishes them in *)
(* source order into the current stream generation.  A durable source that *)
(* loses a fact has the generation rotated: the current one is closed and  *)
(* a continuity record tells clients that the next one does not continue   *)
(* it.                                                                     *)
(*                                                                         *)
(* Every transaction of the repository is one action.  A worker has three  *)
(* threads that interleave: the connection, the handler of a poison fact,  *)
(* and the finalizer, which a retry timer also starts.  That the stream is *)
(* paused while a fact is handled is left out (it only removes             *)
(* interleavings), and so are source stream ids and changes of the roster. *)
(*                                                                         *)
(* A fact is its source sequence.  Whether it maps to a Task is a field of *)
(* its row: a resource fact maps at once.  Lease and fencing token are     *)
(* kept with the worker: it has none, or the last one granted, which is    *)
(* valid or over.  A round of the finalizer settles one row; that it goes  *)
(* on with the next row at once is left out.                               *)
(***************************************************************************)
EXTENDS Integers, Sequences, FiniteSets

CONSTANTS
    Sources,      \* source ids of the roster
    Durable,      \* those of them that are durable_at_least_once
    Replicas,     \* Runtime instances
    MaxSeq,       \* bound: facts of a source
    MaxFaults     \* bound: crashes, failed calls, source errors, operator rotations

ASSUME EventsAssumption ==
    /\ Durable \subseteq Sources /\ IsFiniteSet(Sources) /\ Sources # {}
    /\ MaxSeq \in Nat \ {0} /\ MaxFaults \in Nat

VARIABLES
    source,     \* adapter_business_event_source_state
    inbox,      \* adapter_business_event_inbox, by source and sequence
    log,        \* provider_business_event: the events of each generation
    records,    \* provider_business_event_continuity_record: one per closed generation
    worker,     \* the worker of each replica and source
    faults      \* faults that may still happen

vars == <<source, inbox, log, records, worker, faults>>

Facts == 1..MaxSeq
Blocked == {"blocked_identity_conflict", "continuity_loss_pending"}
Source == [status    : {"active", "degraded", "unavailable"} \cup Blocked,
           persisted : 0..MaxSeq]          \* last_persisted_source_sequence

\* final is finalized_at; map says whether the Task of a waiting fact is known.
Waiting == {"received", "pending_mapping"}
Lost == {"continuity_loss_pending", "rejected"}
Row == [status : {"none", "ready", "published", "terminal_skipped"} \cup Waiting \cup Lost,
        map    : {"no", "yes", "late"},    \* late: mapping_deadline has passed
        final  : BOOLEAN]
NoRow == [status |-> "none", map |-> "no", final |-> FALSE]

Identity == {"poison", "mapping", "stream", "operator"} \X Sources \X Nat
Worker == [conn    : {"idle", "stream", "broken"},
           lease   : {"none", "held", "over"},
           from    : 0..MaxSeq,            \* lease.lastPersistedSourceSequence
           poison  : 0..MaxSeq,            \* the rejected fact its handler rotates for
           fin     : {"idle", "finalize", "barrier", "rotate"},
           barrier : 0..MaxSeq]            \* the barrier its finalizer rotates for
Idle == [conn |-> "idle", lease |-> "none", from |-> 0, poison |-> 0,
         fin |-> "idle", barrier |-> 0]

TypeOK ==
    /\ source \in [Sources -> Source]
    /\ inbox \in [Sources -> [Facts -> Row]]
    /\ \A g \in 1..Len(log) : \A i \in 1..Len(log[g]) : log[g][i] \in Sources \X Facts
    /\ Len(records) = Len(log) - 1
    /\ \A g \in 1..Len(records) :
        /\ records[g].identity \in Identity
        /\ records[g].affected \in SUBSET Sources
    /\ worker \in [Replicas \X Sources -> Worker]
    /\ \A s \in Sources, n \in Facts : n > source[s].persisted => inbox[s][n] = NoRow
    /\ faults \in 0..MaxFaults

Fault == faults > 0 /\ faults' = faults - 1

\* Operators named for a bug are mutants of the definition after them; no
\* specification uses them.

----------------------------------------------------------------------------
(* The head of the inbox, and rotation.                                    *)

\* A row that later ones wait for: the publication barrier.
OpenLostIsClosed(row) == row.status \in Waiting \cup {"ready"} /\ ~row.final

Open(row) == row.status \in Waiting \cup Lost \cup {"ready"} /\ ~row.final

OpenFacts(s) == {n \in Facts : Open(inbox[s][n])}
IsHead(s, n) == n \in OpenFacts(s) /\ \A m \in OpenFacts(s) : n <= m

LostFacts(s) == {n \in OpenFacts(s) : inbox[s][n].status \in Lost}

\* The rows a rotation closes: only those of lost facts.
Close(row) ==
    IF Open(row) /\ row.status \in Lost
    THEN [row EXCEPT !.status = IF @ = "rejected" THEN @ ELSE "terminal_skipped",
                     !.map = "no", !.final = TRUE]
    ELSE row

\* rotateStream with the roster as it is: the identity of a rotation makes a
\* retry of it do nothing.  All sources of the roster become active and lose
\* their leases, also those the rotation is not about.
RotateStream(identity, affected, workers) ==
    IF \E g \in 1..Len(records) : records[g].identity = identity
    THEN worker' = workers /\ UNCHANGED <<source, inbox, log, records>>
    ELSE /\ log' = Append(log, <<>>)
         /\ records' = Append(records, [identity |-> identity, affected |-> affected])
         /\ source' = [s \in Sources |-> [source[s] EXCEPT !.status = "active"]]
         /\ inbox' = [s \in Sources |->
                IF s \in affected THEN [n \in Facts |-> Close(inbox[s][n])] ELSE inbox[s]]
         /\ worker' = [v \in Replicas \X Sources |->
                [workers[v] EXCEPT !.lease = "none"]]

\* An operator rotates, or a source of the Provider that is not in the model.
OperatorRotates ==
    /\ Fault
    /\ \E affected \in SUBSET Sources :
        RotateStream(<<"operator", CHOOSE s \in Sources : TRUE, faults>>,
                     affected, worker)

----------------------------------------------------------------------------
(* A worker's connection.                                                  *)

Disconnected(w) ==
    [w EXCEPT !.conn = "idle", !.from = 0, !.lease = IF @ = "over" THEN "none" ELSE @]

LeaseIsFree(r, s) == \A q \in Replicas : worker[<<q, s>>].lease = "held" => q = r

\* acquireSourceLease: a source that lost a fact or broke its contract is not
\* leased again, not even to rotate.
AcquireSourceLease(r, s) ==
    /\ worker[<<r, s>>].conn = "idle"
    /\ source[s].status \notin Blocked
    /\ LeaseIsFree(r, s)
    /\ worker' = [v \in Replicas \X Sources |->
           IF v = <<r, s>>
           THEN [worker[v] EXCEPT !.conn = "stream", !.lease = "held",
                                  !.from = source[s].persisted]
           ELSE IF v[2] = s THEN [worker[v] EXCEPT !.lease = "none"]
           ELSE worker[v]]
    /\ UNCHANGED <<source, inbox, log, records, faults>>

\* A fact the worker is handling: one may still be on its way into the inbox when
\* its stream breaks.  lockAndValidateLease accepts only a valid lease.
Handling(r, s) == worker[<<r, s>>].conn # "idle" /\ worker[<<r, s>>].lease = "held"

\* What the source may send next: the next fact or one it sent before, and with
\* best effort any later fact.
Sent(s) == {n \in Facts : n <= source[s].persisted + 1 \/ s \notin Durable}

Received(map) == [status |-> "received", map |-> map, final |-> FALSE]
Rejected == [status |-> "rejected", map |-> "no", final |-> FALSE]

\* intakeSourceFact of a valid fact; one that is in the inbox already is a
\* duplicate and changes nothing.
Intake(r, s, n) ==
    /\ Handling(r, s)
    /\ n \in Sent(s) /\ n > source[s].persisted
    /\ \E map \in {"no", "yes"} : inbox' = [inbox EXCEPT ![s][n] = Received(map)]
    /\ source' = [source EXCEPT ![s] = [status |-> "active", persisted |-> n]]
    /\ UNCHANGED <<log, records, worker, faults>>

IntakePoisonUncounted(r, s, n) ==
    /\ Handling(r, s)
    /\ n \in Sent(s) /\ n > source[s].persisted
    /\ inbox' = [inbox EXCEPT ![s][n] = Rejected]
    /\ source' = [source EXCEPT ![s].status =
           IF s \in Durable THEN "continuity_loss_pending" ELSE "degraded"]
    /\ worker' = IF s \in Durable THEN [worker EXCEPT ![<<r, s>>].poison = n] ELSE worker
    /\ UNCHANGED <<log, records, faults>>

\* intakeSourceFact of an invalid fact, whose handler goes on to rotate if the
\* source is durable.
IntakePoison(r, s, n) ==
    /\ Handling(r, s)
    /\ n \in Sent(s) /\ n > source[s].persisted
    /\ inbox' = [inbox EXCEPT ![s][n] = Rejected]
    /\ source' = [source EXCEPT ![s] =
           [status |-> IF s \in Durable THEN "continuity_loss_pending" ELSE "degraded",
            persisted |-> n]]
    /\ worker' = IF s \in Durable THEN [worker EXCEPT ![<<r, s>>].poison = n] ELSE worker
    /\ UNCHANGED <<log, records, faults>>

\* intakeSourceFact of a sequence or identity that was another fact's.
IntakeConflicts(r, s) ==
    /\ Handling(r, s) /\ Fault
    /\ source[s].persisted > 0
    /\ source' = [source EXCEPT ![s].status = "blocked_identity_conflict"]
    /\ worker' = [worker EXCEPT ![<<r, s>>] = IF @.conn = "broken" THEN @ ELSE Disconnected(@)]
    /\ UNCHANGED <<inbox, log, records>>

\* The handler of a poison fact of a durable source rotates in a second
\* transaction, also if its connection broke meanwhile.
RotateForPoison(r, s) ==
    /\ worker[<<r, s>>].poison # 0
    /\ RotateStream(<<"poison", s, worker[<<r, s>>].poison>>, {s},
           [worker EXCEPT ![<<r, s>>] = [Disconnected(@) EXCEPT !.poison = 0]])
    /\ UNCHANGED faults

\* The stream ends, or a fact met STALE_FENCE: the worker connects again.
Disconnect(r, s) ==
    /\ worker[<<r, s>>].conn = "stream"
    /\ worker' = [worker EXCEPT ![<<r, s>>] = Disconnected(@)]
    /\ UNCHANGED <<source, inbox, log, records, faults>>

\* A service error of the stream: the catch of runOnce handles it next.
StreamBreaks(r, s) ==
    /\ worker[<<r, s>>].conn = "stream" /\ Fault
    /\ worker' = [worker EXCEPT ![<<r, s>>].conn = "broken"]
    /\ UNCHANGED <<source, inbox, log, records>>

\* A durable source that lost its cursor, its stream or facts has the generation
\* rotated.
StreamLosesFacts(r, s) ==
    /\ worker[<<r, s>>].conn = "broken" /\ s \in Durable
    /\ RotateStream(<<"stream", s, worker[<<r, s>>].from>>, {s},
           [worker EXCEPT ![<<r, s>>] = Disconnected(@)])
    /\ UNCHANGED faults

\* markSourceUnavailable after any other error, if the lease is still the last
\* one granted: whatever the status was.
MarkSourceUnavailable(r, s) ==
    /\ worker[<<r, s>>].conn = "broken"
    /\ source' = IF worker[<<r, s>>].lease # "none"
                 THEN [source EXCEPT ![s].status = "unavailable"] ELSE source
    /\ worker' = [worker EXCEPT ![<<r, s>>] = Disconnected(@)]
    /\ UNCHANGED <<inbox, log, records, faults>>

----------------------------------------------------------------------------
(* A worker's finalizer: #finalizeBuffered.                                *)

\* prepareNextSourceEvent finds the head ready or maps it, and then publishes.
PrepareReady(r, s, n) ==
    /\ IsHead(s, n) /\ inbox[s][n].map = "yes"
    /\ inbox' = [inbox EXCEPT ![s][n].status = "ready"]
    /\ worker' = [worker EXCEPT ![<<r, s>>].fin = "finalize"]
    /\ UNCHANGED source

\* The head's Task is not known yet.
PreparePending(r, s, n) ==
    /\ IsHead(s, n) /\ inbox[s][n].status \in Waiting /\ inbox[s][n].map = "no"
    /\ inbox' = [inbox EXCEPT ![s][n].status = "pending_mapping"]
    /\ UNCHANGED <<source, worker>>

\* The head's mapping deadline has passed: a durable source lost the fact, any
\* other skips it.
PrepareLate(r, s, n) ==
    /\ IsHead(s, n) /\ inbox[s][n].status \in Waiting /\ inbox[s][n].map = "late"
    /\ IF s \in Durable
       THEN /\ inbox' = [inbox EXCEPT ![s][n].status = "continuity_loss_pending",
                                      ![s][n].map = "no"]
            /\ source' = [source EXCEPT ![s].status = "continuity_loss_pending"]
            /\ worker' = [worker EXCEPT ![<<r, s>>].fin = "barrier"]
       ELSE /\ inbox' = [inbox EXCEPT ![s][n].status = "terminal_skipped",
                                      ![s][n].map = "no"]
            /\ source' = [source EXCEPT ![s].status = "degraded"]
            /\ UNCHANGED worker

\* The head is a lost fact, which only a durable source rotates for.
PrepareTerminal(r, s, n) ==
    /\ IsHead(s, n) /\ inbox[s][n].status \in Lost /\ s \in Durable
    /\ worker' = [worker EXCEPT ![<<r, s>>].fin = "barrier"]
    /\ UNCHANGED <<source, inbox>>

\* A round starts when a fact was received and whenever the retry timer of an
\* open connection fires.
PrepareNext(r, s, n) ==
    /\ worker[<<r, s>>].fin = "idle" /\ worker[<<r, s>>].conn = "stream"
    /\ \/ PrepareReady(r, s, n)
       \/ PreparePending(r, s, n)
       \/ PrepareLate(r, s, n)
       \/ PrepareTerminal(r, s, n)
    /\ UNCHANGED <<log, records, faults>>

Published(s, n) ==
    /\ log' = [log EXCEPT ![Len(log)] = Append(@, <<s, n>>)]
    /\ inbox' = [inbox EXCEPT ![s][n] =
           [status |-> "published", map |-> "no", final |-> TRUE]]

FinalizeAnyOpen(r, s) ==
    /\ worker[<<r, s>>].fin = "finalize"
    /\ IF \E n \in OpenFacts(s) : inbox[s][n].status = "ready"
       THEN \E n \in OpenFacts(s) : inbox[s][n].status # "rejected" /\ Published(s, n)
       ELSE UNCHANGED <<inbox, log>>
    /\ worker' = [worker EXCEPT ![<<r, s>>].fin = "idle"]
    /\ UNCHANGED <<source, records, faults>>

\* finalizeNextSourceEvent reads the head of the inbox again: another replica may
\* have published or closed the row that was prepared.
FinalizeNext(r, s) ==
    /\ worker[<<r, s>>].fin = "finalize"
    /\ IF \E n \in OpenFacts(s) : IsHead(s, n) /\ inbox[s][n].status = "ready"
       THEN \E n \in OpenFacts(s) : IsHead(s, n) /\ Published(s, n)
       ELSE UNCHANGED <<inbox, log>>
    /\ worker' = [worker EXCEPT ![<<r, s>>].fin = "idle"]
    /\ UNCHANGED <<source, records, faults>>

\* terminalSourceBarrierId: the first lost fact, which need not be the head.
ReadBarrier(r, s) ==
    /\ worker[<<r, s>>].fin = "barrier"
    /\ \/ \E n \in LostFacts(s) :
            /\ \A m \in LostFacts(s) : n <= m
            /\ worker' = [worker EXCEPT ![<<r, s>>].fin = "rotate", ![<<r, s>>].barrier = n]
       \/ /\ LostFacts(s) = {}
          /\ worker' = [worker EXCEPT ![<<r, s>>].fin = "idle"]
    /\ UNCHANGED <<source, inbox, log, records, faults>>

RotateForBarrier(r, s) ==
    /\ worker[<<r, s>>].fin = "rotate"
    /\ RotateStream(<<"mapping", s, worker[<<r, s>>].barrier>>, {s},
           [worker EXCEPT ![<<r, s>>] =
               [Disconnected(@) EXCEPT !.fin = "idle", !.barrier = 0]])
    /\ UNCHANGED faults

----------------------------------------------------------------------------
(* The environment: Tasks that get their execution ids, time, and faults.  *)

\* The Task of a fact is stored, or the mapping deadline of the fact passes.
Mapped(s, n) ==
    /\ inbox[s][n].status \in Waiting
    /\ \/ inbox[s][n].map # "yes" /\ inbox' = [inbox EXCEPT ![s][n].map = "yes"]
       \/ inbox[s][n].map = "no" /\ inbox' = [inbox EXCEPT ![s][n].map = "late"]
    /\ UNCHANGED <<source, log, records, worker, faults>>

\* Nobody renews a lease: it runs out under the stream it was taken for.
LeaseElapses(r, s) ==
    /\ worker[<<r, s>>].lease = "held"
    /\ worker' = [worker EXCEPT ![<<r, s>>].lease =
           IF worker[<<r, s>>].conn = "idle" THEN "none" ELSE "over"]
    /\ UNCHANGED <<source, inbox, log, records, faults>>

\* rotateStream throws: the handler ends the run, the finalizer its round.
RotationFails(r, s) ==
    /\ Fault
    /\ \/ /\ worker[<<r, s>>].poison # 0
          /\ worker' = [worker EXCEPT ![<<r, s>>] = [Disconnected(@) EXCEPT !.poison = 0]]
       \/ /\ worker[<<r, s>>].fin = "rotate"
          /\ worker' = [worker EXCEPT ![<<r, s>>].fin = "idle", ![<<r, s>>].barrier = 0]
    /\ UNCHANGED <<source, inbox, log, records>>

\* The lease of a dead replica stays until it runs out.
Crash(r) ==
    /\ Fault
    /\ \E s \in Sources : worker[<<r, s>>].conn # "idle" \/ worker[<<r, s>>].poison # 0
                         \/ worker[<<r, s>>].fin # "idle"
    /\ worker' = [v \in Replicas \X Sources |-> IF v[1] = r
           THEN [Idle EXCEPT !.lease = IF worker[v].lease = "held" THEN "held" ELSE "none"]
           ELSE worker[v]]
    /\ UNCHANGED <<source, inbox, log, records>>

----------------------------------------------------------------------------

\* initializeProvider created the first generation.
Init ==
    /\ source = [s \in Sources |-> [status |-> "active", persisted |-> 0]]
    /\ inbox = [s \in Sources |-> [n \in Facts |-> NoRow]]
    /\ log = <<<<>>>>
    /\ records = <<>>
    /\ worker = [v \in Replicas \X Sources |-> Idle]
    /\ faults = MaxFaults

Finalizer(r, s) ==
    \/ \E n \in Facts : PrepareNext(r, s, n)
    \/ FinalizeNext(r, s)
    \/ ReadBarrier(r, s)
    \/ RotateForBarrier(r, s)

Next ==
    \/ OperatorRotates
    \/ \E s \in Sources :
        \/ \E n \in Facts : Mapped(s, n)
        \/ \E r \in Replicas :
            \/ AcquireSourceLease(r, s)
            \/ LeaseElapses(r, s)
            \/ \E n \in Facts : Intake(r, s, n) \/ IntakePoison(r, s, n)
            \/ IntakeConflicts(r, s)
            \/ RotateForPoison(r, s)
            \/ Disconnect(r, s)
            \/ StreamBreaks(r, s)
            \/ StreamLosesFacts(r, s)
            \/ MarkSourceUnavailable(r, s)
            \/ Finalizer(r, s)
            \/ RotationFails(r, s)
    \/ \E r \in Replicas : Crash(r)

Spec == Init /\ [][Next]_vars

\* A worker runs again whenever a run of it ended and goes on with what it
\* started; leases and mapping deadlines run out.  A connection may end at any
\* time, but not always before its retry timer fires: hence the strong fairness
\* of the finalizer.
Fairness ==
    /\ \A s \in Sources, n \in Facts : WF_vars(Mapped(s, n))
    /\ \A r \in Replicas, s \in Sources :
        /\ WF_vars(LeaseElapses(r, s))
        /\ SF_vars(AcquireSourceLease(r, s))
        /\ WF_vars(RotateForPoison(r, s))
        /\ WF_vars(StreamLosesFacts(r, s) \/ MarkSourceUnavailable(r, s))
        /\ SF_vars(Finalizer(r, s))

FairSpec == Spec /\ Fairness

----------------------------------------------------------------------------
(* Properties.                                                             *)

EventsOf(s) == {p \in (1..Len(log)) \X (1..(MaxSeq * Cardinality(Sources))) :
                    p[2] <= Len(log[p[1]]) /\ log[p[1]][p[2]][1] = s}
Earlier(p, q) == p[1] < q[1] \/ (p[1] = q[1] /\ p[2] < q[2])
FactAt(p) == log[p[1]][p[2]][2]

\* Requirements V0.5.2 section 15, the publication barrier: whichever replicas
\* finalize, and through rotations and lost leases, the facts of a source are
\* published once and in source order (the head of finalizeNextSourceEvent).
PublishedInOrder ==
    \A s \in Sources : \A p, q \in EventsOf(s) : Earlier(p, q) => FactAt(p) < FactAt(q)

\* Section 14.3: a durable fact is not skipped in silence.  When a later fact of
\* its source is published, it was published, or a continuity record that names
\* the source opened that generation or an earlier one (rotateStream).
NothingLostInSilence ==
    \A s \in Durable : \A p \in EventsOf(s) : \A n \in 1..(FactAt(p) - 1) :
        \/ inbox[s][n].status = "published"
        \/ \E g \in 1..Len(records) : g < p[1] /\ s \in records[g].affected
=============================================================================
