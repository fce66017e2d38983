--------------------------- MODULE RetentionProofs ---------------------------
(***************************************************************************)
(* Retention: nothing is purged unannounced or under a recovery, a result  *)
(* is readable for its TTL up to the skew of the clocks, and the outbox    *)
(* implements AtLeastOnce; for every number of replicas and publishers,    *)
(* every skew, TTL and grace period, and whatever fails.                   *)
(***************************************************************************)
EXTENDS Retention, TLAPS

(***************************************************************************)
(* The invariant, by the part of the state that it is about.               *)
(***************************************************************************)

TaskType == task \in Row /\ age \in 0..MaxAge

OutboxType ==
    /\ command \in {"none", "open", "closed"}
    /\ outbox \in [Events -> OutboxStates]
    /\ pub \in [Publishers -> [step  : {"idle", "sending", "sent", "failed"},
                               batch : SUBSET Events]]
    /\ sink \subseteq Events

LeaseType ==
    /\ lease \in [owner : Replicas \cup {Nobody}, over : BOOLEAN]
    /\ scan \in [Replicas -> {"idle", "listed", "holding", "working", "releasing"}]
    /\ inTime \subseteq Replicas

\* What the Task and its command went through is in the outbox, and a purged
\* Task left nothing that is still pending.
Announced ==
    /\ task.state # "live" => outbox["ended"] # "none"
    /\ task.state = "live" => ~ task.expired
    /\ task.expired => outbox["expired"] # "none"
    /\ task.state = "gone" => /\ task.expired /\ command # "open"
                              /\ \A e \in Events : outbox[e] # "pending"
    /\ command = "closed" => outbox["settled"] # "none"

\* What is marked, or about to be marked, was accepted by the sink.
Accepted ==
    /\ \A e \in Events : outbox[e] \in {"published", "removed"} => e \in sink
    /\ \A r \in Publishers :
        /\ pub[r].step = "sent" => pub[r].batch \subseteq sink
        /\ \A e \in pub[r].batch : outbox[e] # "none"

\* A scan within its lease period owns the row of the lease, unexpired.
Alone ==
    \A r \in inTime :
        /\ lease.owner = r /\ ~ lease.over
        /\ scan[r] \in {"holding", "working", "releasing"}
        /\ scan[r] = "working" => task.state # "gone"

\* What is left of the TTL of a Task that a clock off by c stamped, which the
\* row keeps down to Past.
Left(c) == Ttl + c - age

Stamped ==
    task.state = "terminal" =>
        /\ \E c \in Clocks : \/ task.expires = Left(c)
                             \/ task.expires = Past /\ Left(c) <= Past
        /\ task.expired => \E c, d \in Clocks : Left(c) <= d

Inv ==
    /\ TaskType /\ OutboxType /\ LeaseType /\ faults \in 0..MaxFaults
    /\ Announced /\ Accepted /\ Alone /\ Stamped

LEMMA TypeParts ==
    TypeOK <=> TaskType /\ OutboxType /\ LeaseType /\ faults \in 0..MaxFaults
BY DEF TypeOK, TaskType, OutboxType, LeaseType

(***************************************************************************)
(* Types.                                                                  *)
(***************************************************************************)

LEMMA Bounds ==
    /\ Past \in Int /\ Future \in Int /\ Past <= 0 /\ 0 <= Future /\ MaxAge \in Nat
    /\ Ttl \in Nat /\ Grace \in Nat /\ MaxSkew \in Nat /\ MaxFaults \in Nat
    /\ \A c \in Clocks : c \in Int /\ Past <= c /\ c <= MaxSkew
    /\ \A c \in Clocks : Ttl + c \in Distance /\ Grace + c \in Distance
    /\ \A d \in Distance : d \in Int /\ Past <= d /\ d <= Future
    /\ \A d \in Distance : Closer(d) \in Distance
    /\ Past \in Distance /\ 0 \in Clocks
    /\ \A r \in Replicas : Skew[r] \in Clocks
<1>1. Ttl \in Nat /\ Grace \in Nat /\ MaxSkew \in Nat /\ MaxFaults \in Nat
  BY RetentionAssumption
<1>2. \A c \in Clocks : c \in Int /\ -MaxSkew <= c /\ c <= MaxSkew
  BY <1>1, RetentionAssumption DEF Clocks
<1>3. Past = -MaxSkew /\ Future \in Int /\ Future >= Ttl + MaxSkew /\ Future >= Grace + MaxSkew
  BY <1>1 DEF Past, Future
<1>4. MaxAge \in Nat
  BY <1>1 DEF MaxAge
<1>5. \A c \in Clocks : Ttl + c \in Distance /\ Grace + c \in Distance
  BY <1>1, <1>2, <1>3 DEF Distance
<1>6. \A d \in Distance : d \in Int /\ Past <= d /\ d <= Future /\ Closer(d) \in Distance
  BY <1>1, <1>3 DEF Distance, Closer
<1>7. Past \in Int /\ Past <= 0 /\ 0 <= Future /\ Past \in Distance
  BY <1>1, <1>3 DEF Distance
<1>8. 0 \in Clocks /\ \A r \in Replicas : Skew[r] \in Clocks
  BY DEF Clocks
<1>9. QED
  BY <1>1, <1>2, <1>3, <1>4, <1>5, <1>6, <1>7, <1>8

\* A stamp is a distance, and so much of it is left.
LEMMA HandleIs ==
    ASSUME NEW c \in Clocks, NEW d \in 0..MaxAge
    PROVE  /\ Handle(c, d) \in Distance
           /\ \/ Handle(c, d) = Ttl + c - d
              \/ Handle(c, d) = Past /\ Ttl + c - d <= Past
<1>1. /\ d \in Int /\ 0 <= d /\ c \in Int /\ Ttl \in Int /\ Past \in Int /\ Future \in Int
      /\ Past \in Distance /\ Ttl + c <= Future
  BY Bounds
<1>2. CASE Ttl + c - d > Past
  <2>1. Handle(c, d) = Ttl + c - d
    BY <1>2 DEF Handle
  <2>2. Ttl + c - d \in Distance
    BY <1>1, <1>2 DEF Distance
  <2>3. QED
    BY <2>1, <2>2
<1>3. CASE ~ (Ttl + c - d > Past)
  <2>1. Handle(c, d) = Past
    BY <1>3 DEF Handle
  <2>2. QED
    BY <1>1, <1>3, <2>1
<1>4. QED
  BY <1>2, <1>3

LEMMA RowType ==
    ASSUME NEW row \in Row, NEW s \in {"live", "terminal", "gone"},
           NEW d \in Distance, NEW f \in Distance
    PROVE  /\ row.state \in {"live", "terminal", "gone"} /\ row.expires \in Distance
           /\ row.expired \in BOOLEAN /\ row.purgeAfter \in Distance
           /\ [row EXCEPT !.state = s] \in Row
           /\ [row EXCEPT !.expires = d] \in Row
           /\ [row EXCEPT !.state = s, !.expires = d] \in Row
           /\ [row EXCEPT !.expired = TRUE, !.purgeAfter = d] \in Row
           /\ [row EXCEPT !.expires = d, !.purgeAfter = f] \in Row
           /\ DOMAIN row = {"state", "expires", "expired", "purgeAfter"}
BY DEF Row

\* An event is added to the outbox once.
LEMMA EmitType ==
    ASSUME OutboxType, NEW e \in Events, Emit(e)
    PROVE  /\ outbox' \in [Events -> OutboxStates] /\ outbox'[e] # "none"
           /\ \A f \in Events : /\ outbox[f] # "none" => outbox'[f] = outbox[f]
                                /\ f # e => outbox'[f] = outbox[f]
                                /\ outbox[f] = "none" => outbox'[f] \in {"none", "pending"}
BY DEF OutboxType, Emit, OutboxStates

LEMMA EventNames == "ended" \in Events /\ "settled" \in Events /\ "expired" \in Events
BY DEF Events

(***************************************************************************)
(* What a step that leaves a part of the state alone keeps.                *)
(***************************************************************************)

LEMMA TaskKept ==
    ASSUME Inv, UNCHANGED <<task, age>>
    PROVE  TaskType' /\ Stamped'
BY DEF Inv, TaskType, Stamped, Left

LEMMA LeaseKept ==
    ASSUME Inv, UNCHANGED <<lease, scan, inTime>>,
           task'.state = "gone" => task.state = "gone"
    PROVE  LeaseType' /\ Alone'
BY DEF Inv, LeaseType, Alone

LEMMA OutboxKept ==
    ASSUME Inv, UNCHANGED <<task, command, outbox, pub, sink>>
    PROVE  OutboxType' /\ Announced' /\ Accepted'
BY DEF Inv, OutboxType, Announced, Accepted

LEMMA FaultKept ==
    ASSUME Inv, Fault \/ UNCHANGED faults
    PROVE  faults' \in 0..MaxFaults
BY RetentionAssumption DEF Inv, Fault

\* Accepted where an event is added and the publishers are left alone.
LEMMA EmitAccepted ==
    ASSUME Inv, NEW e \in Events, Emit(e), UNCHANGED <<pub, sink>>
    PROVE  Accepted'
<1>1. \A f \in Events : /\ outbox[f] # "none" => outbox'[f] = outbox[f]
                        /\ outbox[f] = "none" => outbox'[f] \in {"none", "pending"}
  BY EmitType DEF Inv
<1>2. \A r \in Publishers : pub[r].batch \subseteq Events
  BY DEF Inv, OutboxType
<1>3. QED
  BY <1>1, <1>2 DEF Inv, Accepted

(***************************************************************************)
(* The Task.                                                               *)
(***************************************************************************)

LEMMA EndStep ==
    ASSUME Inv, NEW r \in Replicas, EndTask(r)
    PROVE  Inv'
<1>1. /\ task \in Row /\ task.state = "live" /\ ~ task.expired /\ Skew[r] \in Clocks
      /\ UNCHANGED <<command, pub, sink, lease, scan, inTime, faults>> /\ Emit("ended")
  BY Bounds DEF Inv, TaskType, Announced, EndTask
<1>2. PICK d \in 0..MaxAge :
          /\ task' = [task EXCEPT !.state = "terminal", !.expires = Handle(Skew[r], d)]
          /\ age' = d
  BY DEF EndTask, Ended
<1>3. /\ Handle(Skew[r], d) \in Distance
      /\ \/ Handle(Skew[r], d) = Ttl + Skew[r] - d
         \/ Handle(Skew[r], d) = Past /\ Ttl + Skew[r] - d <= Past
  BY <1>1, HandleIs
<1>4. /\ task' \in Row /\ task'.state = "terminal" /\ task'.expires = Handle(Skew[r], d)
      /\ task'.expired = task.expired
  BY <1>1, <1>2, <1>3, RowType
<1>5. TaskType'
  BY <1>2, <1>4 DEF TaskType
<1>6. Stamped'
  <2>1. Left(Skew[r])' = Ttl + Skew[r] - d
    BY <1>2 DEF Left
  <2>2. QED
    BY <1>1, <1>3, <1>4, <2>1 DEF Stamped
<1>7. /\ outbox' \in [Events -> OutboxStates] /\ outbox'["ended"] # "none"
      /\ \A f \in Events : outbox[f] # "none" => outbox'[f] # "none"
  BY <1>1, EmitType, EventNames DEF Inv
<1>8. OutboxType' /\ Announced'
  BY <1>1, <1>4, <1>7, EventNames DEF Inv, OutboxType, Announced
<1>9. Accepted' /\ LeaseType' /\ Alone'
  BY <1>1, <1>4, EventNames, EmitAccepted, LeaseKept
<1>10. QED
  BY <1>1, <1>5, <1>6, <1>8, <1>9 DEF Inv

\* A transition that leaves the Task live.
LEMMA ObserveStep ==
    ASSUME Inv, NEW r \in Replicas, Observe(r)
    PROVE  Inv'
<1>1. /\ task \in Row /\ task.state = "live" /\ Skew[r] \in Clocks
      /\ UNCHANGED <<command, age, outbox, pub, sink, lease, scan, inTime, faults>>
  BY Bounds DEF Inv, TaskType, Observe
<1>2. PICK d \in 0..MaxAge : task' = [task EXCEPT !.expires = Handle(Skew[r], d)]
  BY DEF Observe
<1>3. Handle(Skew[r], d) \in Distance
  BY <1>1, HandleIs
<1>4. task' \in Row /\ task'.state = "live" /\ task'.expired = task.expired
  BY <1>1, <1>2, <1>3, RowType
<1>5. TaskType' /\ Stamped'
  BY <1>1, <1>4 DEF Inv, TaskType, Stamped
<1>6. OutboxType' /\ Announced' /\ Accepted'
  BY <1>1, <1>4 DEF Inv, OutboxType, Announced, Accepted
<1>7. LeaseType' /\ Alone'
  BY <1>1, <1>4, LeaseKept
<1>8. QED
  BY <1>1, <1>5, <1>6, <1>7 DEF Inv

LEMMA RenewStep ==
    ASSUME Inv, NEW r \in Replicas, Renew(r)
    PROVE  Inv'
<1>1. /\ task \in Row /\ task.state = "live" /\ Skew[r] \in Clocks
      /\ UNCHANGED <<command, age, outbox, pub, sink, lease, scan, inTime, faults>>
      /\ task' = [task EXCEPT !.expires = Skew[r] + Ttl]
  BY DEF Inv, TaskType, Renew, RenewDue, Clocks
<1>2. Skew[r] + Ttl = Ttl + Skew[r] /\ Ttl + Skew[r] \in Distance
  BY <1>1, Bounds
<1>3. task' \in Row /\ task'.state = "live" /\ task'.expired = task.expired
  BY <1>1, <1>2, RowType
<1>4. TaskType' /\ Stamped'
  BY <1>1, <1>3 DEF Inv, TaskType, Stamped
<1>5. OutboxType' /\ Announced' /\ Accepted'
  BY <1>1, <1>3 DEF Inv, OutboxType, Announced, Accepted
<1>6. LeaseType' /\ Alone'
  BY <1>1, <1>3, LeaseKept
<1>7. QED
  BY <1>1, <1>4, <1>5, <1>6 DEF Inv

LEMMA ExpireStep ==
    ASSUME Inv, NEW r \in Replicas, Expire(r)
    PROVE  Inv'
<1>1. /\ task \in Row /\ task.state = "terminal" /\ task.expires <= Skew[r]
      /\ Skew[r] \in Clocks /\ Emit("expired")
      /\ UNCHANGED <<command, age, pub, sink, lease, scan, inTime, faults>>
      /\ task' = [task EXCEPT !.expired = TRUE, !.purgeAfter = Skew[r] + Grace]
  BY DEF Inv, TaskType, Expire, Clocks
<1>2. Skew[r] + Grace \in Distance
  BY <1>1, Bounds
<1>3. /\ task' \in Row /\ task'.state = "terminal" /\ task'.expired
      /\ task'.expires = task.expires
  BY <1>1, <1>2, RowType
<1>4. TaskType'
  BY <1>1, <1>3 DEF Inv, TaskType
<1>5. Stamped'
  <2>1. PICK c \in Clocks : \/ task.expires = Left(c)
                            \/ task.expires = Past /\ Left(c) <= Past
    BY <1>1 DEF Inv, Stamped
  <2>2. \A d \in Clocks : Left(d)' = Left(d) /\ Left(d) \in Int /\ d \in Int
    BY <1>1, Bounds DEF Left, Inv, TaskType
  <2>3. Left(c) <= Skew[r]
    BY <1>1, <2>1, <2>2, Bounds
  <2>4. QED
    BY <1>1, <1>3, <2>1, <2>2, <2>3 DEF Stamped, Past
<1>6. /\ outbox' \in [Events -> OutboxStates] /\ outbox'["expired"] # "none"
      /\ \A f \in Events : outbox[f] # "none" => outbox'[f] # "none"
  BY <1>1, EmitType, EventNames DEF Inv
<1>7. OutboxType' /\ Announced'
  BY <1>1, <1>3, <1>6, EventNames DEF Inv, OutboxType, Announced
<1>8. Accepted' /\ LeaseType' /\ Alone'
  BY <1>1, <1>3, EventNames, EmitAccepted, LeaseKept
<1>9. QED
  BY <1>1, <1>4, <1>5, <1>7, <1>8 DEF Inv

\* The purge takes the lease: no scan is within one.
LEMMA PurgeStep ==
    ASSUME Inv, NEW r \in Replicas, Purge(r)
    PROVE  Inv'
<1>1. /\ task \in Row /\ task.state = "terminal" /\ task.expired /\ Pending = {}
      /\ command # "open" /\ LeaseIsFree
      /\ UNCHANGED <<command, age, outbox, pub, sink, scan, inTime, faults>>
      /\ task' = [task EXCEPT !.state = "gone"] /\ lease' = NoLease
  BY DEF Inv, TaskType, Purge, PurgeDue, PurgeGetsLease
<1>2. task' \in Row /\ task'.state = "gone" /\ task'.expired = task.expired
  BY <1>1, RowType, Bounds
<1>3. TaskType' /\ Stamped'
  BY <1>1, <1>2 DEF Inv, TaskType, Stamped
<1>4. \A e \in Events : outbox[e] # "pending"
  BY <1>1 DEF Pending
<1>5. OutboxType' /\ Announced' /\ Accepted'
  BY <1>1, <1>2, <1>4 DEF Inv, OutboxType, Announced, Accepted
<1>6. inTime = {}
  BY <1>1, RetentionAssumption DEF Inv, LeaseType, Alone, LeaseIsFree
<1>7. LeaseType' /\ Alone'
  BY <1>1, <1>6 DEF Inv, LeaseType, Alone, NoLease
<1>8. QED
  BY <1>1, <1>3, <1>5, <1>7 DEF Inv

\* A tick of the clock brings the end of the TTL closer as the Task ages.
LEMMA TickStep ==
    ASSUME Inv, Tick
    PROVE  Inv'
<1>1. /\ task \in Row /\ age \in 0..MaxAge
      /\ UNCHANGED <<command, outbox, pub, sink, lease, scan, inTime, faults>>
      /\ task' = [task EXCEPT !.expires = Closer(task.expires),
                              !.purgeAfter = Closer(task.purgeAfter)]
      /\ age' = IF task.state = "live" THEN age ELSE Older(age, MaxAge)
  <2>1. task \in Row
    BY DEF Inv, TaskType
  <2>2. [task EXCEPT !.expires = Closer(@), !.purgeAfter = Closer(@)]
          = [task EXCEPT !.expires = Closer(task.expires),
                         !.purgeAfter = Closer(task.purgeAfter)]
    BY <2>1 DEF Row
  <2>3. QED
    BY <2>1, <2>2 DEF Inv, TaskType, Tick
<1>2. task.expires \in Distance /\ task.purgeAfter \in Distance
  BY <1>1, RowType, Bounds
<1>3. Closer(task.expires) \in Distance /\ Closer(task.purgeAfter) \in Distance
  BY <1>2, Bounds
<1>4. /\ task' \in Row /\ task'.state = task.state /\ task'.expired = task.expired
      /\ task'.expires = Closer(task.expires)
  BY <1>1, <1>3, RowType
<1>5. MaxAge \in Nat /\ age \in Int
  BY <1>1, Bounds
<1>6. /\ age' \in 0..MaxAge
      /\ task.state # "live" => \/ age' = age + 1
                                \/ age' = age /\ age = MaxAge
  BY <1>1, <1>5 DEF Older
<1>7. TaskType'
  BY <1>4, <1>6 DEF TaskType
<1>8. Stamped'
  <2>1. SUFFICES ASSUME task.state = "terminal" PROVE Stamped'
    BY <1>4 DEF Stamped
  <2>2. \A c \in Clocks : /\ c \in Int /\ Left(c) = Ttl + c - age /\ Left(c)' = Ttl + c - age'
                          /\ c <= MaxSkew
    BY Bounds DEF Left
  <2>3. \A c \in Clocks : Left(c)' \in Int /\ Left(c) \in Int /\ Left(c)' <= Left(c)
    BY <1>5, <1>6, <2>1, <2>2, Bounds
  <2>4. age = MaxAge => \A c \in Clocks : Left(c) <= Past
    BY <2>2, Bounds, RetentionAssumption DEF MaxAge, Past
  <2>5. PICK c \in Clocks : \/ task.expires = Left(c)
                            \/ task.expires = Past /\ Left(c) <= Past
    BY <2>1 DEF Inv, Stamped
  <2>6. \/ task'.expires = Left(c)'
        \/ task'.expires = Past /\ Left(c)' <= Past
    <3>1. Past \in Int /\ task.expires \in Int /\ Past <= task.expires
      BY <1>2, Bounds
    <3>2. CASE task.expires = Past
      <4>1. task'.expires = Past
        BY <1>4, <3>1, <3>2 DEF Closer
      <4>2. Left(c)' <= Past
        BY <2>3, <2>5, <3>1, <3>2
      <4>3. QED
        BY <4>1, <4>2
    <3>3. CASE task.expires # Past
      <4>1. task.expires = Left(c) /\ task.expires > Past
        BY <2>5, <3>1, <3>3
      <4>2. age' = age + 1
        BY <1>6, <2>1, <2>3, <2>4, <3>1, <4>1
      <4>3. task'.expires = task.expires - 1
        BY <1>4, <4>1 DEF Closer
      <4>4. Left(c)' = Left(c) - 1
        BY <1>5, <2>2, <4>2, Bounds
      <4>5. QED
        BY <4>1, <4>3, <4>4
    <3>4. QED
      BY <3>2, <3>3
  <2>7. task.expired => \E a, d \in Clocks : Left(a)' <= d
    <3>1. SUFFICES ASSUME task.expired PROVE \E a, d \in Clocks : Left(a)' <= d
      OBVIOUS
    <3>2. PICK a \in Clocks, d \in Clocks : Left(a) <= d
      BY <2>1, <3>1 DEF Inv, Stamped
    <3>3. Left(a)' <= d
      BY <2>2, <2>3, <3>2
    <3>4. QED
      BY <3>3
  <2>8. Past' = Past /\ Clocks' = Clocks
    BY DEF Past, Clocks
  <2>9. QED
    BY <1>4, <2>6, <2>7, <2>8 DEF Stamped
<1>9. OutboxType' /\ Announced' /\ Accepted'
  BY <1>1, <1>4 DEF Inv, OutboxType, Announced, Accepted
<1>10. LeaseType' /\ Alone'
  BY <1>1, <1>4, LeaseKept
<1>11. QED
  BY <1>1, <1>7, <1>8, <1>9, <1>10 DEF Inv

(***************************************************************************)
(* The outbox and its publishers.                                          *)
(***************************************************************************)

LEMMA SettleCommandStep ==
    ASSUME Inv, SettleCommand
    PROVE  Inv'
<1>1. /\ command = "open" /\ command' = "closed" /\ task.state # "gone" /\ Emit("settled")
      /\ UNCHANGED <<task, age, pub, sink, lease, scan, inTime, faults>>
  BY DEF SettleCommand
<1>2. /\ outbox' \in [Events -> OutboxStates] /\ outbox'["settled"] # "none"
      /\ \A f \in Events : outbox[f] # "none" => outbox'[f] # "none"
  BY <1>1, EmitType, EventNames DEF Inv
<1>3. OutboxType' /\ Announced'
  BY <1>1, <1>2, EventNames DEF Inv, OutboxType, Announced
<1>4. Accepted' /\ TaskType' /\ Stamped' /\ LeaseType' /\ Alone'
  BY <1>1, EventNames, EmitAccepted, TaskKept, LeaseKept
<1>5. QED
  BY <1>1, <1>3, <1>4 DEF Inv

\* What a publisher or the outbox cleaner does to the rest of the state.
LEMMA OutboxStep ==
    ASSUME Inv, UNCHANGED <<task, command, age, lease, scan, inTime>>,
           Fault \/ UNCHANGED faults, OutboxType', Accepted',
           \A e \in Events : /\ outbox[e] # "none" => outbox'[e] # "none"
                             /\ outbox[e] # "pending" => outbox'[e] # "pending"
    PROVE  Inv'
<1>1. Announced'
  BY EventNames DEF Inv, Announced
<1>2. TaskType' /\ Stamped' /\ LeaseType' /\ Alone' /\ faults' \in 0..MaxFaults
  BY TaskKept, LeaseKept, FaultKept
<1>3. QED
  BY <1>1, <1>2 DEF Inv

LEMMA PubFields ==
    ASSUME OutboxType, NEW r \in Publishers
    PROVE  /\ pub[r].batch \subseteq Events
           /\ DOMAIN pub[r] = {"step", "batch"}
           /\ \A p : pub' = [pub EXCEPT ![r] = p]
                       => pub'[r] = p /\ \A q \in Publishers \ {r} : pub'[q] = pub[q]
           /\ \A step, batch :
                /\ pub' = [pub EXCEPT ![r] = [step |-> step, batch |-> batch]]
                /\ step \in {"idle", "sending", "sent", "failed"}
                /\ batch \subseteq Events
                => pub' \in [Publishers -> [step  : {"idle", "sending", "sent", "failed"},
                                            batch : SUBSET Events]]
           /\ \A step :
                [pub EXCEPT ![r].step = step]
                   = [pub EXCEPT ![r] = [step |-> step, batch |-> pub[r].batch]]
BY DEF OutboxType

\* A publisher goes on with its batch, or reads one, and leaves the outbox alone.
LEMMA PublisherStep ==
    ASSUME Inv, NEW r \in Publishers, NEW step \in {"idle", "sending", "sent", "failed"},
           NEW batch \in SUBSET Events,
           pub' = [pub EXCEPT ![r] = [step |-> step, batch |-> batch]],
           \A e \in batch : outbox[e] # "none",
           step = "sent" => batch \subseteq sink', sink \subseteq sink', sink' \subseteq Events,
           UNCHANGED <<task, command, age, outbox, lease, scan, inTime>>,
           Fault \/ UNCHANGED faults
    PROVE  Inv'
<1>1. /\ pub'[r] = [step |-> step, batch |-> batch]
      /\ \A q \in Publishers \ {r} : pub'[q] = pub[q]
      /\ OutboxType'
  BY PubFields DEF Inv, OutboxType
<1>2. Accepted'
  BY <1>1 DEF Inv, Accepted
<1>3. QED
  BY <1>1, <1>2, OutboxStep

LEMMA PublishingStep ==
    ASSUME Inv, NEW r \in Publishers,
           \/ ReadPending(r) \/ Publish(r) \/ PublishFails(r) \/ MarkPublishedFails(r)
           \/ RecordAttempts(r) \/ CrashOfPublisher(r)
    PROVE  Inv'
<1>1. /\ OutboxType /\ Accepted /\ pub[r].batch \in SUBSET Events
      /\ \A e \in pub[r].batch : outbox[e] # "none"
      /\ sink \subseteq Events
  BY PubFields DEF Inv, Accepted, OutboxType
<1>2. CASE ReadPending(r)
  <2>1. Pending \in SUBSET Events /\ \A e \in Pending : outbox[e] # "none"
    BY DEF Pending
  <2>2. QED
    BY <1>1, <1>2, <2>1, PublisherStep DEF ReadPending
<1>3. CASE Publish(r)
  <2>1. pub' = [pub EXCEPT ![r] = [step |-> "sent", batch |-> pub[r].batch]]
    BY <1>1, <1>3, PubFields DEF Publish
  <2>2. sink' = sink \cup pub[r].batch
    BY <1>3 DEF Publish
  <2>3. QED
    BY <1>1, <1>3, <2>1, <2>2, PublisherStep DEF Publish
<1>4. CASE PublishFails(r) \/ MarkPublishedFails(r)
  <2>1. pub' = [pub EXCEPT ![r] = [step |-> "failed", batch |-> pub[r].batch]]
    BY <1>1, <1>4, PubFields DEF PublishFails, MarkPublishedFails
  <2>2. sink \subseteq sink' /\ sink' \subseteq Events
    BY <1>1, <1>4 DEF PublishFails, MarkPublishedFails
  <2>3. QED
    BY <1>1, <1>4, <2>1, <2>2, PublisherStep DEF PublishFails, MarkPublishedFails
<1>5. CASE RecordAttempts(r) \/ CrashOfPublisher(r)
  <2>1. pub' = [pub EXCEPT ![r] = [step |-> "idle", batch |-> {}]]
    BY <1>5 DEF RecordAttempts, CrashOfPublisher, Quiet
  <2>2. {} \in SUBSET Events /\ \A e \in {} : outbox[e] # "none"
    OBVIOUS
  <2>3. /\ UNCHANGED <<task, command, age, outbox, sink, lease, scan, inTime>>
        /\ Fault \/ UNCHANGED faults
    BY <1>5 DEF RecordAttempts, CrashOfPublisher
  <2>4. QED
    BY <1>1, <2>1, <2>2, <2>3, PublisherStep
<1>6. QED
  BY <1>2, <1>3, <1>4, <1>5

LEMMA MarkStep ==
    ASSUME Inv, NEW r \in Publishers, MarkPublished(r)
    PROVE  Inv'
<1>1. /\ OutboxType /\ Accepted /\ pub[r].step = "sent" /\ pub[r].batch \subseteq sink
      /\ outbox' = Published(pub[r].batch)
      /\ pub' = [pub EXCEPT ![r] = [step |-> "idle", batch |-> {}]]
      /\ UNCHANGED <<task, command, age, sink, lease, scan, inTime, faults>>
  BY DEF Inv, Accepted, MarkPublished, Quiet
<1>2. \A e \in Events : \/ outbox'[e] = outbox[e]
                        \/ /\ e \in sink /\ outbox[e] = "pending"
                           /\ outbox'[e] = "published"
  BY <1>1 DEF Published
<1>3. outbox' \in [Events -> OutboxStates]
  BY <1>1 DEF Published, OutboxType, OutboxStates
<1>4. /\ pub'[r].batch = {} /\ pub'[r].step = "idle"
      /\ \A q \in Publishers \ {r} : pub'[q] = pub[q]
      /\ OutboxType'
  BY <1>1, <1>3, PubFields DEF OutboxType
<1>5. Accepted'
  BY <1>1, <1>2, <1>4, PubFields DEF Accepted
<1>6. QED
  BY <1>1, <1>2, <1>4, <1>5, OutboxStep

LEMMA CleanStep ==
    ASSUME Inv, CleanOutbox
    PROVE  Inv'
<1>1. PICK e \in Events :
          outbox[e] = "published" /\ outbox' = [outbox EXCEPT ![e] = "removed"]
  BY DEF CleanOutbox
<1>2. UNCHANGED <<task, command, age, pub, sink, lease, scan, inTime, faults>>
  BY DEF CleanOutbox
<1>3. outbox \in [Events -> OutboxStates]
  BY DEF Inv, OutboxType
<1>4. /\ outbox' \in [Events -> OutboxStates] /\ outbox'[e] = "removed"
      /\ \A f \in Events \ {e} : outbox'[f] = outbox[f]
  BY <1>1, <1>3 DEF OutboxStates
<1>5. OutboxType'
  BY <1>2, <1>4 DEF Inv, OutboxType
<1>6. Accepted'
  BY <1>1, <1>2, <1>4, PubFields DEF Inv, Accepted
<1>7. QED
  BY <1>1, <1>2, <1>4, <1>5, <1>6, OutboxStep

(***************************************************************************)
(* The recovery lease.                                                     *)
(***************************************************************************)

LEMMA ScanStep ==
    ASSUME Inv, NEW r \in Replicas,
           \/ ListTasks(r) \/ AcquireLease(r) \/ ReadTask(r) \/ Reconciled(r)
           \/ ReleaseLease(r) \/ CrashOfScan(r)
    PROVE  Inv'
<1>1. /\ LeaseType /\ Alone
      /\ UNCHANGED <<task, command, age, outbox, pub, sink>>
      /\ Fault \/ UNCHANGED faults
  BY DEF Inv, ListTasks, AcquireLease, ReadTask, Reconciled, ReleaseLease, CrashOfScan
<1>2. LeaseType' /\ Alone'
  <2>1. CASE ListTasks(r)
    BY <1>1, <2>1 DEF ListTasks, LeaseType, Alone
  <2>2. CASE AcquireLease(r)
    <3>1. CASE LeaseIsFree
      <4>1. inTime = {}
        BY <1>1, <3>1, RetentionAssumption DEF LeaseType, Alone, LeaseIsFree
      <4>2. /\ lease' = [owner |-> r, over |-> FALSE] /\ inTime' = {r}
            /\ scan' = [scan EXCEPT ![r] = "holding"]
        BY <2>2, <3>1, <4>1 DEF AcquireLease
      <4>3. QED
        BY <1>1, <4>2 DEF LeaseType, Alone
    <3>2. CASE ~ LeaseIsFree
      <4>1. /\ scan' = [scan EXCEPT ![r] = "idle"] /\ UNCHANGED <<lease, inTime>>
            /\ scan[r] = "listed"
        BY <2>2, <3>2 DEF AcquireLease
      <4>2. QED
        BY <1>1, <4>1 DEF LeaseType, Alone
    <3>3. QED
      BY <3>1, <3>2
  <2>3. CASE ReadTask(r)
    BY <1>1, <2>3 DEF ReadTask, LeaseType, Alone
  <2>4. CASE Reconciled(r)
    BY <1>1, <2>4 DEF Reconciled, LeaseType, Alone
  <2>5. CASE ReleaseLease(r)
    <3>1. /\ scan' = [scan EXCEPT ![r] = "idle"] /\ inTime' = inTime \ {r}
          /\ lease' = IF lease.owner = r THEN NoLease ELSE lease
      BY <2>5 DEF ReleaseLease
    <3>2. LeaseType'
      BY <1>1, <3>1 DEF LeaseType, NoLease
    <3>3. Alone'
      BY <1>1, <3>1 DEF LeaseType, Alone
    <3>4. QED
      BY <3>2, <3>3
  <2>6. CASE CrashOfScan(r)
    BY <1>1, <2>6 DEF CrashOfScan, LeaseType, Alone
  <2>7. QED
    BY <2>1, <2>2, <2>3, <2>4, <2>5, <2>6
<1>3. QED
  BY <1>1, <1>2, TaskKept, OutboxKept, FaultKept DEF Inv

LEMMA LeaseElapsesStep ==
    ASSUME Inv, LeaseElapses
    PROVE  Inv'
<1>1. /\ UNCHANGED <<task, command, age, outbox, pub, sink, scan>>
      /\ Fault \/ UNCHANGED faults
      /\ lease' = [lease EXCEPT !.over = TRUE] /\ inTime' = inTime \ {lease.owner}
  BY DEF LeaseElapses
<1>2. LeaseType' /\ Alone'
  BY <1>1 DEF Inv, LeaseType, Alone
<1>3. QED
  BY <1>1, <1>2, TaskKept, OutboxKept, FaultKept DEF Inv

(***************************************************************************)
(* The theorems.                                                           *)
(***************************************************************************)

LEMMA InvInit == Init => Inv
<1> SUFFICES ASSUME Init PROVE Inv
  OBVIOUS
<1>1. PICK s \in {"live", "terminal"}, c \in Clocks, d \in 0..MaxAge :
          /\ task = Fresh(s, c, d)
          /\ s = "terminal" => d = 0
  <2>1. 0 \in 0..MaxAge
    BY Bounds
  <2>2. QED
    BY <2>1, Bounds DEF Init, InitScheduled, InitAccepted, InitEnded
<1>2. /\ Handle(c, d) \in Distance /\ Past \in Distance
      /\ \/ Handle(c, d) = Ttl + c - d
         \/ Handle(c, d) = Past /\ Ttl + c - d <= Past
  BY HandleIs, Bounds
<1>3. /\ task \in Row /\ task.state = s /\ task.expires = Handle(c, d) /\ ~ task.expired
  BY <1>1, <1>2 DEF Fresh, Row
<1>4. TaskType
  BY <1>3, Bounds DEF Init, TaskType
<1>5. command \in {"none", "open"}
  BY DEF Init, InitEnded
<1>6. OutboxType
  BY <1>5 DEF Init, OutboxType, OutboxStates, Quiet
<1>7. LeaseType /\ faults \in 0..MaxFaults
  BY RetentionAssumption DEF Init, LeaseType, NoLease
<1>8. Announced
  BY <1>3, <1>5, EventNames DEF Init, Announced
<1>9. Stamped
  <2>1. CASE s = "terminal"
    <3>1. Left(c) = Ttl + c - d
      BY <1>1, <2>1 DEF Init, Left
    <3>2. QED
      BY <1>2, <1>3, <3>1 DEF Stamped
  <2>2. CASE s = "live"
    BY <1>3, <2>2 DEF Stamped
  <2>3. QED
    BY <2>1, <2>2
<1>10. Accepted /\ Alone
  BY DEF Init, Accepted, Alone, Quiet
<1>11. QED
  BY <1>4, <1>6, <1>7, <1>8, <1>9, <1>10 DEF Inv

LEMMA InvStep ==
    ASSUME Inv, [Next]_vars
    PROVE  Inv'
<1>1. CASE UNCHANGED vars
  <2>1. UNCHANGED <<task, command, age, outbox, pub, sink, lease, scan, inTime, faults>>
    BY <1>1 DEF vars
  <2>2. QED
    BY <2>1, TaskKept, OutboxKept, LeaseKept, FaultKept DEF Inv
<1>2. CASE Next
  BY <1>2, TickStep, LeaseElapsesStep, SettleCommandStep, CleanStep, EndStep, ObserveStep, RenewStep,
     ExpireStep, PurgeStep, ScanStep, PublishingStep, MarkStep
     DEF Next, TtlTick, Scanning, Publishing
<1>3. QED
  BY <1>1, <1>2

\* Every step of the publishers, the scan and the cleaners keeps the Task, its
\* outbox and its lease well typed, under every skew of the replicas' clocks.
THEOREM RetentionTypeCorrect == Spec => []TypeOK
<1>1. Inv /\ [Next]_vars => Inv'
  BY InvStep
<1>2. Inv => TypeOK
  BY TypeParts DEF Inv
<1>3. QED
  BY InvInit, <1>1, <1>2, PTL DEF Spec

\* What is purged has told its end and its expiry, and no command of it is left
\* (purgeDue, which waits for pending rows and open commands).
THEOREM PurgeIsAnnounced == Spec => []PurgedIsAnnounced
<1>1. Inv /\ [Next]_vars => Inv'
  BY InvStep
<1>2. Inv => PurgedIsAnnounced
  BY EventNames DEF Inv, Announced, Accepted, OutboxType, OutboxStates, PurgedIsAnnounced
<1>3. QED
  BY InvInit, <1>1, <1>2, PTL DEF Spec

\* A recovery within its lease is the only one, and the row it read is not purged
\* under it (withRecoveryLock, #acquireRecoveryLease, the owner check of the
\* release).
THEOREM RecoveryHoldsAlone == Spec => []RecoveryIsAlone
<1>1. Inv /\ [Next]_vars => Inv'
  BY InvStep
<1>2. Inv => RecoveryIsAlone
  BY DEF Inv, Alone, RecoveryIsAlone
<1>3. QED
  BY InvInit, <1>1, <1>2, PTL DEF Spec

LEMMA StampedIsReadable == Inv => RetentionWithinSkew
<1> SUFFICES ASSUME Inv, task.state = "terminal"
             PROVE  /\ ~Readable => \E c, d \in Clocks : age >= Ttl + c - d
                    /\ Readable => \E c \in Clocks : age < Ttl + c
  BY DEF RetentionWithinSkew
<1>1. task.expires \in Int /\ Past \in Int /\ Past <= 0 /\ age \in Int /\ Ttl \in Int
      /\ \A c \in Clocks : c \in Int
  <2>1. task \in Row /\ age \in 0..MaxAge
    BY DEF Inv, TaskType
  <2>2. task.expires \in Distance
    BY <2>1, RowType, Bounds
  <2>3. age \in Int
    BY <2>1, Bounds
  <2>4. task.expires \in Int
    BY <2>2, Bounds
  <2>5. QED
    BY <2>3, <2>4, Bounds
<1>2. PICK c \in Clocks : \/ task.expires = Left(c)
                          \/ task.expires = Past /\ Left(c) <= Past
  BY DEF Inv, Stamped
<1>3. \A a \in Clocks : Left(a) = Ttl + a - age
  BY DEF Left
<1>4. CASE task.expired
  <2>1. PICK a \in Clocks, d \in Clocks : Left(a) <= d
    BY <1>4 DEF Inv, Stamped
  <2>2. age >= Ttl + a - d
    BY <1>1, <1>3, <2>1
  <2>3. ~ Readable
    BY <1>4 DEF Readable
  <2>4. QED
    BY <2>1, <2>2, <2>3
<1>5. CASE ~ task.expired /\ task.expires <= 0
  <2>1. age >= Ttl + c - 0
    BY <1>1, <1>2, <1>3, <1>5
  <2>2. ~ Readable
    BY <1>1, <1>5 DEF Readable
  <2>3. QED
    BY <2>1, <2>2, Bounds
<1>6. CASE ~ task.expired /\ task.expires > 0
  <2>1. age < Ttl + c
    BY <1>1, <1>2, <1>3, <1>6
  <2>2. Readable
    BY <1>6 DEF Readable
  <2>3. QED
    BY <2>1, <2>2
<1>7. QED
  BY <1>1, <1>4, <1>5, <1>6

\* A result stays readable for its TTL, and no longer, up to what the clocks of
\* the replicas and the database differ by, counted from the clock that stamped
\* its end, for every TTL, skew, grace period and delay of the stamp, and for a
\* Task published when it is over (transitionTask and publishAccepted stamp the
\* end, the TTL cleaner of any replica expires it).
THEOREM ResultsAreKept == Spec => []RetentionWithinSkew
<1>1. Inv /\ [Next]_vars => Inv'
  BY InvStep
<1>2. Inv => RetentionWithinSkew
  BY StampedIsReadable
<1>3. QED
  BY InvInit, <1>1, <1>2, PTL DEF Spec

(***************************************************************************)
(* The refinement.                                                         *)
(***************************************************************************)

LEMMA SameStates ==
    ASSUME \A e \in Events : StateOf(e)' = StateOf(e)
    PROVE  UNCHANGED [e \in Events |-> StateOf(e)]
OBVIOUS

LEMMA EmitQueues ==
    ASSUME Inv, NEW e \in Events, Emit(e), UNCHANGED sink
    PROVE  [Promised!Next]_<<[f \in Events |-> StateOf(f)], sink>>
<1>1. CASE outbox[e] = "none"
  <2>1. outbox'[e] = "pending" /\ \A f \in Events \ {e} : outbox'[f] = outbox[f]
    BY <1>1 DEF Inv, OutboxType, Emit
  <2>2. Promised!Queue({e})
    BY <1>1, <2>1 DEF Promised!Queue, Promised!In, Promised!Becomes, StateOf
  <2>3. QED
    BY <2>2 DEF Promised!Next
<1>2. CASE outbox[e] # "none"
  BY <1>2 DEF Emit, StateOf
<1>3. QED
  BY <1>1, <1>2

LEMMA PromisedStep ==
    ASSUME Inv, [Next]_vars
    PROVE  [Promised!Next]_<<[e \in Events |-> StateOf(e)], sink>>
<1>1. CASE UNCHANGED <<outbox, sink>>
  BY <1>1 DEF StateOf
<1>2. ASSUME NEW r \in Replicas, EndTask(r) \/ Expire(r)
      PROVE  [Promised!Next]_<<[e \in Events |-> StateOf(e)], sink>>
  BY <1>2, EmitQueues, EventNames DEF EndTask, Expire
<1>3. CASE SettleCommand
  BY <1>3, EmitQueues, EventNames DEF SettleCommand
<1>4. CASE CleanOutbox
  <2>1. PICK e \in Events :
            outbox[e] = "published" /\ outbox' = [outbox EXCEPT ![e] = "removed"]
    BY <1>4 DEF CleanOutbox
  <2>2. \A f \in Events : \/ outbox'[f] = outbox[f]
                          \/ outbox[f] = "published" /\ outbox'[f] = "removed"
    BY <2>1 DEF Inv, OutboxType
  <2>3. \A f \in Events : StateOf(f)' = StateOf(f)
    BY <2>2 DEF StateOf
  <2>4. QED
    BY <1>4, <2>3, SameStates DEF CleanOutbox
<1>5. ASSUME NEW r \in Publishers, Publish(r) \/ PublishFails(r)
      PROVE  [Promised!Next]_<<[e \in Events |-> StateOf(e)], sink>>
  <2>1. UNCHANGED outbox /\ (sink' = sink \/ sink' = sink \cup pub[r].batch)
    BY <1>5 DEF Publish, PublishFails
  <2>2. pub[r].batch \in SUBSET Events /\ \A e \in pub[r].batch : outbox[e] # "none"
    BY PubFields DEF Inv, Accepted
  <2>3. \A e \in pub[r].batch : StateOf(e) # "absent"
    BY <2>2 DEF StateOf
  <2>4. UNCHANGED [e \in Events |-> StateOf(e)]
    BY <2>1 DEF StateOf
  <2>5. CASE sink' = sink \cup pub[r].batch
    <3>1. Promised!Tell(pub[r].batch)
      BY <2>2, <2>3, <2>4, <2>5 DEF Promised!Tell
    <3>2. QED
      BY <2>2, <3>1 DEF Promised!Next
  <2>6. QED
    BY <2>1, <2>4, <2>5
<1>6. ASSUME NEW r \in Publishers, MarkPublished(r)
      PROVE  [Promised!Next]_<<[e \in Events |-> StateOf(e)], sink>>
  <2> DEFINE items == {e \in pub[r].batch : outbox[e] = "pending"}
  <2>1. /\ outbox' = Published(pub[r].batch) /\ UNCHANGED sink
        /\ pub[r].batch \subseteq sink /\ pub[r].batch \subseteq Events
    BY <1>6, PubFields DEF MarkPublished, Inv, Accepted
  <2>2. items \in SUBSET Events /\ items \subseteq sink
    BY <2>1
  <2>3. \A e \in items : StateOf(e) = "queued" /\ StateOf(e)' = "told"
    BY <2>1 DEF StateOf, Published
  <2>4. \A e \in Events \ items : StateOf(e)' = StateOf(e)
    BY <2>1 DEF StateOf, Published
  <2> HIDE DEF items
  <2>5. Promised!Becomes(items, "told")
    BY <2>2, <2>3, <2>4 DEF Promised!Becomes
  <2>6. Promised!Settle(items)
    BY <2>1, <2>2, <2>3, <2>5 DEF Promised!Settle, Promised!In
  <2>7. QED
    BY <2>2, <2>6 DEF Promised!Next
<1>7. ASSUME NEW r \in Publishers,
             ReadPending(r) \/ MarkPublishedFails(r) \/ RecordAttempts(r) \/ CrashOfPublisher(r)
      PROVE  UNCHANGED <<outbox, sink>>
  BY <1>7 DEF ReadPending, MarkPublishedFails, RecordAttempts, CrashOfPublisher
<1>8. ASSUME NEW r \in Replicas,
             Observe(r) \/ ListTasks(r) \/ Scanning(r) \/ Renew(r) \/ Purge(r) \/ CrashOfScan(r)
      PROVE  UNCHANGED <<outbox, sink>>
  BY <1>8 DEF Observe, ListTasks, Scanning, AcquireLease, ReadTask, Reconciled, ReleaseLease,
              Renew, Purge, CrashOfScan
<1>9. CASE Tick \/ LeaseElapses \/ UNCHANGED vars
  BY <1>1, <1>9 DEF Tick, LeaseElapses, vars
<1>10. CASE Next
  BY <1>1, <1>2, <1>3, <1>4, <1>5, <1>6, <1>7, <1>8, <1>9, <1>10
     DEF Next, TtlTick, Publishing
<1>11. QED
  BY <1>9, <1>10

\* The outbox implements AtLeastOnce without giving up: a row is marked published,
\* and may be removed, only after the sink accepted the event, for every number
\* of publishers and whatever deliveries fail (OutboxPublisher.tick,
\* markPublished).
THEOREM OutboxTellsAtLeastOnce == Spec => EventsReachSink
<1>1. Init => Promised!Init
  BY DEF Init, Promised!Init, StateOf
<1>2. Inv /\ [Next]_vars => Inv'
  BY InvStep
<1>3. Inv /\ [Next]_vars
        => [Promised!Next]_<<[e \in Events |-> StateOf(e)], sink>>
  BY PromisedStep
<1>4. QED
  BY InvInit, <1>1, <1>2, <1>3, PTL DEF Spec, EventsReachSink, Promised!Spec
=============================================================================
