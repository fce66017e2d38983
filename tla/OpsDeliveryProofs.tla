-------------------------- MODULE OpsDeliveryProofs --------------------------
(***************************************************************************)
(* OpsDelivery is well typed and implements AtLeastOnce, for every number  *)
(* of records, publishers, attempts and faults.                            *)
(***************************************************************************)
EXTENDS OpsDelivery, FiniteSetTheorems, TLAPS

(***************************************************************************)
(* The invariant.  A publisher settles only what it has in hand and saw    *)
(* accepted, and every attempt after the first was paid for by a fault,    *)
(* unless the record is in hand with its attempt under way.                *)
(***************************************************************************)

BatchInHand(p) ==
    /\ tick[p].step = "idle" => tick[p].batch = {}
    /\ IF tick[p].step \in {"mark", "fail"}
       THEN \E e \in tick[p].batch : tick[p].of = {e}
       ELSE tick[p].of = {}
    /\ \A e \in tick[p].batch : rows[e].state # "none"
    /\ tick[p].acked => tick[p].batch \subseteq exported
    /\ tick[p].step = "mark" => tick[p].of \subseteq exported

Used == MaxFaults - faults

\* Of a claimed record: its publisher has not lost it and has not failed with it.
UnderWay(e) ==
    /\ ~ rows[e].over
    /\ e \in tick[rows[e].owner].batch
    /\ ~ (tick[rows[e].owner].step = "fail" /\ e \in tick[rows[e].owner].of)

AttemptsPaid(e) ==
    /\ rows[e].state \in {"none", "PENDING"} => rows[e].attempts = 0
    /\ rows[e].attempts <= Used + 1
    /\ rows[e].state = "RETRY_WAIT" => rows[e].attempts <= Used
    /\ rows[e].state = "CLAIMED" => rows[e].attempts <= Used \/ UnderWay(e)

Inv ==
    /\ TypeOK
    /\ \A p \in Publishers : BatchInHand(p)
    /\ \A e \in Records : AttemptsPaid(e)

(***************************************************************************)
(* Types.                                                                  *)
(***************************************************************************)

Counts == 0..(MaxAttempts + MaxFaults)
States == {"none", "PENDING", "CLAIMED", "RETRY_WAIT"} \cup Settled

LEMMA RowType ==
    /\ \A row \in Row : /\ row.state \in States /\ row.owner \in Publishers \cup {Nobody}
                        /\ row.over \in BOOLEAN /\ row.attempts \in Counts
    /\ \A s \in States, o \in Publishers \cup {Nobody}, v \in BOOLEAN, n \in Counts :
           [state |-> s, owner |-> o, over |-> v, attempts |-> n] \in Row
BY DEF Row, States, Counts

LEMMA RowChange ==
    ASSUME NEW row \in Row, NEW s \in States, NEW v \in BOOLEAN
    PROVE  /\ [row EXCEPT !.state = s] \in Row
           /\ [row EXCEPT !.over = v] \in Row
           /\ [row EXCEPT !.state = s, !.owner = Nobody, !.over = v] \in Row
BY DEF Row, States

LEMMA TickChange ==
    ASSUME NEW t \in Tick, NEW s \in {"idle", "batch", "next", "mark", "fail"},
           NEW batch \in SUBSET Records, NEW of \in SUBSET Records, NEW a \in BOOLEAN
    PROVE  /\ [step |-> s, batch |-> batch, of |-> of, acked |-> a] \in Tick
           /\ [t EXCEPT !.step = s] \in Tick
           /\ [t EXCEPT !.step = s, !.acked = a] \in Tick
           /\ [t EXCEPT !.step = s, !.of = of] \in Tick
           /\ [t EXCEPT !.step = s, !.of = of, !.batch = batch] \in Tick
           /\ Idle \in Tick
BY DEF Tick, Idle

LEMMA Fields ==
    ASSUME TypeOK
    PROVE  /\ rows \in [Records -> Row] /\ tick \in [Publishers -> Tick]
           /\ \A e \in Records : /\ rows[e] \in Row /\ rows[e].state \in States
                                 /\ rows[e].owner \in Publishers \cup {Nobody}
                                 /\ rows[e].over \in BOOLEAN /\ rows[e].attempts \in Counts
           /\ \A p \in Publishers : /\ tick[p] \in Tick /\ tick[p].batch \subseteq Records
                                    /\ tick[p].of \subseteq Records /\ tick[p].acked \in BOOLEAN
                                    /\ DOMAIN tick[p] = {"step", "batch", "of", "acked"}
           /\ faults \in 0..MaxFaults /\ Used \in Nat
           /\ \A n \in Counts : n \in Int
<1>1. rows \in [Records -> Row] /\ tick \in [Publishers -> Tick] /\ faults \in 0..MaxFaults
  BY DEF TypeOK
<1>2. \A p \in Publishers : /\ tick[p] \in Tick /\ tick[p].batch \subseteq Records
                            /\ tick[p].of \subseteq Records /\ tick[p].acked \in BOOLEAN
                            /\ DOMAIN tick[p] = {"step", "batch", "of", "acked"}
  BY <1>1 DEF Tick
<1>3. Used \in Nat /\ \A n \in Counts : n \in Int
  BY <1>1, OpsAssumption DEF Used, Counts
<1>4. QED
  BY <1>1, <1>2, <1>3, RowType

\* What a tick may hold of the record it settles.
LEMMA SmallOf ==
    /\ Cardinality({}) <= 1
    /\ \A e : Cardinality({e}) <= 1
BY FS_EmptySet, FS_Singleton

(***************************************************************************)
(* A step of one publisher; a step that leaves the rows alone.             *)
(***************************************************************************)

LEMMA UsedGrows ==
    ASSUME faults \in 0..MaxFaults, faults' \in 0..MaxFaults
    PROVE  /\ Used \in Int /\ Used' \in Int
           /\ faults' <= faults => Used <= Used'
           /\ faults' < faults => Used + 1 <= Used'
<1>1. MaxFaults \in Int /\ faults \in Int /\ faults' \in Int
  BY OpsAssumption
<1>2. ASSUME NEW m \in Int, NEW f \in Int, NEW g \in Int
      PROVE  m - f \in Int /\ (g <= f => m - f <= m - g) /\ (g < f => m - f + 1 <= m - g)
  OBVIOUS
<1>3. QED
  BY <1>1, <1>2 DEF Used

\* The tick of p goes on, with the rows as they are.
LEMMA TickStep ==
    ASSUME Inv, NEW p \in Publishers,
           tick'[p] \in Tick, tick' = [tick EXCEPT ![p] = tick'[p]],
           UNCHANGED rows,
           exported \subseteq exported', exported' \subseteq exported \cup tick[p].batch,
           faults' \in 0..MaxFaults, faults' <= faults,
           \/ faults' < faults
           \/ /\ tick'[p].batch = tick[p].batch
              /\ tick'[p].step # "fail"
           \/ tick[p].batch = {},
           BatchInHand(p)'
    PROVE  Inv'
<1>1. /\ TypeOK /\ tick \in [Publishers -> Tick]
      /\ faults \in 0..MaxFaults /\ MaxFaults \in Nat
      /\ \A e \in Records : rows[e].attempts \in Int
  BY Fields, OpsAssumption DEF Inv
<1>2. tick' \in [Publishers -> Tick]
      /\ \A q \in Publishers \ {p} : tick'[q] = tick[q]
  BY <1>1
<1>3. \A q \in Publishers : BatchInHand(q)'
  BY <1>2 DEF Inv, BatchInHand
<1>4. \A q \in Publishers : Cardinality(tick'[q].of) <= 1
  BY <1>3, SmallOf DEF BatchInHand
<1>5. \A e \in tick[p].batch : e \in Records /\ rows[e].state # "none"
  BY Fields DEF Inv, BatchInHand
<1>6. TypeOK'
  BY <1>1, <1>2, <1>4, <1>5 DEF TypeOK
<1>7. ASSUME NEW e \in Records PROVE AttemptsPaid(e)'
  <2>1. AttemptsPaid(e) /\ rows'[e] = rows[e]
    BY DEF Inv
  <2>2. CASE faults' < faults
    <3>2. Used \in Int /\ Used' \in Int /\ Used + 1 <= Used'
      BY <1>1, <2>2, UsedGrows
    <3>3. rows[e].attempts <= Used + 1
      BY <2>1 DEF AttemptsPaid
    <3>4. rows[e].attempts <= Used' /\ rows[e].attempts <= Used' + 1
      BY <1>1, <3>2, <3>3
    <3>5. QED
      BY <2>1, <3>4 DEF AttemptsPaid
  <2>3. CASE faults' = faults
    <3>1. rows[e].state = "CLAIMED" /\ UnderWay(e) => UnderWay(e)'
      <4>1. CASE rows[e].owner = p
        <5>1. tick'[p].batch = tick[p].batch \/ tick[p].batch = {}
          BY <1>1, <2>3
        <5>2. tick'[p].step # "fail" \/ tick[p].batch = {}
          BY <1>1, <2>3
        <5>3. QED
          BY <1>2, <2>1, <4>1, <5>1, <5>2 DEF UnderWay
      <4>2. CASE rows[e].owner # p /\ rows[e].state = "CLAIMED"
        <5>1. rows[e].owner \in Publishers
          BY <4>2, Fields DEF Inv, TypeOK
        <5>2. QED
          BY <1>2, <2>1, <4>2, <5>1 DEF UnderWay
      <4>3. QED
        BY <4>1, <4>2
    <3>2. QED
      BY <2>1, <2>3, <3>1 DEF AttemptsPaid, Used
  <2>4. QED
    BY <1>1, <2>2, <2>3
<1>8. QED
  BY <1>3, <1>6, <1>7 DEF Inv

LEMMA ExportStep ==
    ASSUME Inv, NEW p \in Publishers,
           \/ ExportBatch(p) \/ ExportBatchFails(p) \/ Export(p) \/ ExportFails(p)
           \/ MarkDeliveredFails(p)
    PROVE  Inv'
<1>1. /\ TypeOK /\ tick \in [Publishers -> Tick] /\ tick[p] \in Tick
      /\ tick[p].batch \subseteq Records /\ tick[p].of \subseteq Records
      /\ tick[p].acked \in BOOLEAN
      /\ DOMAIN tick[p] = {"step", "batch", "of", "acked"}
      /\ faults \in 0..MaxFaults /\ MaxFaults \in Nat
  BY Fields, OpsAssumption DEF Inv
<1>2. BatchInHand(p)
  BY DEF Inv
<1>3. CASE ExportBatch(p)
  <2> DEFINE t == [tick[p] EXCEPT !.step = "next", !.acked = TRUE]
  <2>1. t \in Tick
    BY <1>1, TickChange
  <2>2. tick' = [tick EXCEPT ![p] = t]
    BY <1>1, <1>3 DEF ExportBatch
  <2>3. t.step = "next" /\ t.batch = tick[p].batch /\ t.of = tick[p].of
    BY <1>1
  <2>4. UNCHANGED <<rows, faults>> /\ exported' = exported \cup tick[p].batch
    BY <1>3 DEF ExportBatch
  <2>5. tick[p].of = {}
    BY <1>2, <1>3 DEF BatchInHand, ExportBatch, At
  <2> HIDE DEF t
  <2>6. /\ tick'[p] \in Tick /\ tick' = [tick EXCEPT ![p] = tick'[p]]
        /\ tick'[p].step = "next" /\ tick'[p].batch = tick[p].batch /\ tick'[p].of = tick[p].of
    BY <1>1, <2>1, <2>2, <2>3
  <2>7. BatchInHand(p)'
    BY <1>2, <2>4, <2>5, <2>6 DEF BatchInHand
  <2>8. QED
    BY <1>1, <2>4, <2>6, <2>7, TickStep
<1>4. CASE ExportBatchFails(p)
  <2> DEFINE t == [tick[p] EXCEPT !.step = "next"]
  <2>1. t \in Tick
    BY <1>1, TickChange
  <2>2. tick' = [tick EXCEPT ![p] = t]
    BY <1>1, <1>4 DEF ExportBatchFails
  <2>3. t.step = "next" /\ t.batch = tick[p].batch /\ t.of = tick[p].of
        /\ t.acked = tick[p].acked
    BY <1>1
  <2>4. /\ UNCHANGED rows /\ faults' = faults - 1 /\ faults > 0
        /\ exported \subseteq exported' /\ exported' \subseteq exported \cup tick[p].batch
    BY <1>4 DEF ExportBatchFails, Fault
  <2>5. tick[p].of = {}
    BY <1>2, <1>4 DEF BatchInHand, ExportBatchFails, At
  <2> HIDE DEF t
  <2>6. /\ tick'[p] \in Tick /\ tick' = [tick EXCEPT ![p] = tick'[p]]
        /\ tick'[p].step = "next" /\ tick'[p].batch = tick[p].batch /\ tick'[p].of = tick[p].of
        /\ tick'[p].acked = tick[p].acked
    BY <1>1, <2>1, <2>2, <2>3
  <2>7. BatchInHand(p)'
    BY <1>2, <2>4, <2>5, <2>6 DEF BatchInHand
  <2>8. faults' \in 0..MaxFaults /\ faults' < faults /\ faults' <= faults
    BY <1>1, <2>4
  <2>9. QED
    BY <2>4, <2>6, <2>7, <2>8, TickStep
<1>5. CASE Export(p)
  <2>1. PICK e \in tick[p].batch :
            /\ tick' = [tick EXCEPT ![p].step = "mark", ![p].of = {e}]
            /\ exported' = IF tick[p].acked THEN exported ELSE exported \cup {e}
    BY <1>5 DEF Export
  <2> DEFINE t == [tick[p] EXCEPT !.step = "mark", !.of = {e}]
  <2>2. t \in Tick
    <3>1. {e} \in SUBSET Records
      BY <1>1
    <3>2. QED
      BY <1>1, <3>1, TickChange
  <2>3. tick' = [tick EXCEPT ![p] = t]
    BY <1>1, <2>1
  <2>4. t.step = "mark" /\ t.batch = tick[p].batch /\ t.of = {e} /\ t.acked = tick[p].acked
    BY <1>1
  <2>5. UNCHANGED <<rows, faults>>
    BY <1>5 DEF Export
  <2>6. /\ exported \subseteq exported' /\ exported' \subseteq exported \cup tick[p].batch
        /\ e \in exported'
    BY <1>2, <2>1 DEF BatchInHand
  <2> HIDE DEF t
  <2>7. /\ tick'[p] \in Tick /\ tick' = [tick EXCEPT ![p] = tick'[p]]
        /\ tick'[p].step = "mark" /\ tick'[p].batch = tick[p].batch /\ tick'[p].of = {e}
        /\ tick'[p].acked = tick[p].acked
    BY <1>1, <2>2, <2>3, <2>4
  <2>8. BatchInHand(p)'
    BY <1>2, <2>5, <2>6, <2>7 DEF BatchInHand
  <2>9. QED
    BY <1>1, <2>5, <2>6, <2>7, <2>8, TickStep
<1>6. CASE ExportFails(p)
  <2>1. PICK e \in tick[p].batch :
            /\ tick' = [tick EXCEPT ![p].step = "fail", ![p].of = {e}]
            /\ exported' \in {exported, exported \cup {e}}
    BY <1>6 DEF ExportFails
  <2> DEFINE t == [tick[p] EXCEPT !.step = "fail", !.of = {e}]
  <2>2. t \in Tick
    <3>1. {e} \in SUBSET Records
      BY <1>1
    <3>2. QED
      BY <1>1, <3>1, TickChange
  <2>3. tick' = [tick EXCEPT ![p] = t]
    BY <1>1, <2>1
  <2>4. t.step = "fail" /\ t.batch = tick[p].batch /\ t.of = {e} /\ t.acked = tick[p].acked
    BY <1>1
  <2>5. UNCHANGED rows /\ faults' = faults - 1 /\ faults > 0
    BY <1>6 DEF ExportFails, Fault
  <2>6. exported \subseteq exported' /\ exported' \subseteq exported \cup tick[p].batch
    BY <2>1
  <2> HIDE DEF t
  <2>7. /\ tick'[p] \in Tick /\ tick' = [tick EXCEPT ![p] = tick'[p]]
        /\ tick'[p].step = "fail" /\ tick'[p].batch = tick[p].batch /\ tick'[p].of = {e}
        /\ tick'[p].acked = tick[p].acked
    BY <1>1, <2>2, <2>3, <2>4
  <2>8. BatchInHand(p)'
    BY <1>2, <2>5, <2>6, <2>7 DEF BatchInHand
  <2>9. faults' \in 0..MaxFaults /\ faults' < faults /\ faults' <= faults
    BY <1>1, <2>5
  <2>10. QED
    BY <2>5, <2>6, <2>7, <2>8, <2>9, TickStep
<1>7. CASE MarkDeliveredFails(p)
  <2> DEFINE t == [tick[p] EXCEPT !.step = "fail"]
  <2>1. t \in Tick
    BY <1>1, TickChange
  <2>2. tick' = [tick EXCEPT ![p] = t]
    BY <1>1, <1>7 DEF MarkDeliveredFails
  <2>3. t.step = "fail" /\ t.batch = tick[p].batch /\ t.of = tick[p].of
        /\ t.acked = tick[p].acked
    BY <1>1
  <2>4. UNCHANGED <<rows, exported>> /\ faults' = faults - 1 /\ faults > 0
    BY <1>7 DEF MarkDeliveredFails, Fault
  <2> HIDE DEF t
  <2>5. /\ tick'[p] \in Tick /\ tick' = [tick EXCEPT ![p] = tick'[p]]
        /\ tick'[p].step = "fail" /\ tick'[p].batch = tick[p].batch /\ tick'[p].of = tick[p].of
        /\ tick'[p].acked = tick[p].acked
    BY <1>1, <2>1, <2>2, <2>3
  <2>6. BatchInHand(p)'
    BY <1>2, <1>7, <2>4, <2>5 DEF BatchInHand, MarkDeliveredFails, At
  <2>7. faults' \in 0..MaxFaults /\ faults' < faults /\ faults' <= faults
    BY <1>1, <2>4
  <2>8. QED
    BY <2>4, <2>5, <2>6, <2>7, TickStep
<1>8. QED
  BY <1>3, <1>4, <1>5, <1>6, <1>7

LEMMA EndStep ==
    ASSUME Inv, NEW p \in Publishers, EndTick(p) \/ Crash(p)
    PROVE  Inv'
<1>1. /\ TypeOK /\ tick \in [Publishers -> Tick]
      /\ faults \in 0..MaxFaults /\ MaxFaults \in Nat
  BY Fields, OpsAssumption DEF Inv
<1>2. Idle \in Tick
  BY DEF Idle, Tick
<1>3. tick' = [tick EXCEPT ![p] = Idle] /\ UNCHANGED <<rows, exported>>
  BY DEF EndTick, Crash
<1>4. tick'[p] = Idle /\ tick' = [tick EXCEPT ![p] = tick'[p]]
  BY <1>1, <1>3
<1>5. BatchInHand(p)'
  BY <1>3, <1>4 DEF BatchInHand, Idle
<1>6. \/ faults' = faults /\ tick[p].batch = {}
      \/ faults' = faults - 1 /\ faults > 0
  BY DEF EndTick, Crash, Fault
<1>7. faults' \in 0..MaxFaults /\ faults' <= faults /\ (faults' < faults \/ tick[p].batch = {})
  BY <1>1, <1>6
<1>8. QED
  BY <1>2, <1>3, <1>4, <1>5, <1>7, TickStep

(***************************************************************************)
(* Steps that write rows.                                                  *)
(***************************************************************************)

LEMMA CaptureStep ==
    ASSUME Inv, NEW e \in Records, Capture(e)
    PROVE  Inv'
<1>1. /\ TypeOK /\ rows \in [Records -> Row] /\ UNCHANGED <<tick, exported, faults>>
  BY Fields DEF Inv, Capture
<1>2. CASE rows' = rows
  BY <1>1, <1>2 DEF Inv, TypeOK, BatchInHand, AttemptsPaid, UnderWay, Used
<1>3. CASE rows[e].state = "none" /\ rows' = [rows EXCEPT ![e].state = "PENDING"]
  <2> DEFINE row == [rows[e] EXCEPT !.state = "PENDING"]
  <2>1. row \in Row
    BY <1>1, RowChange DEF States
  <2>2. /\ row.state = "PENDING" /\ row.owner = rows[e].owner
        /\ row.attempts = rows[e].attempts /\ row.over = rows[e].over
    BY <1>1 DEF Row
  <2>3. rows' = [rows EXCEPT ![e] = row]
    BY <1>1, <1>3
  <2> HIDE DEF row
  <2>4. rows' \in [Records -> Row] /\ rows'[e] = row /\ \A f \in Records \ {e} : rows'[f] = rows[f]
    BY <1>1, <2>1, <2>3
  <2>5. \A f \in Records : (rows'[f].owner # Nobody) = (rows'[f].state = "CLAIMED")
    BY <1>1, <1>3, <2>2, <2>4 DEF TypeOK
  <2>6. \A f \in Records : rows[f].state # "none" => rows'[f].state # "none"
    BY <2>2, <2>4
  <2>7. TypeOK'
    BY <1>1, <2>4, <2>5, <2>6 DEF TypeOK
  <2>8. ASSUME NEW p \in Publishers PROVE BatchInHand(p)'
    BY <1>1, <2>6, <2>8, Fields DEF Inv, BatchInHand
  <2>9. ASSUME NEW f \in Records PROVE AttemptsPaid(f)'
    BY <1>1, <1>3, <2>2, <2>4 DEF Inv, AttemptsPaid, UnderWay, Used
  <2>10. QED
    BY <2>7, <2>8, <2>9 DEF Inv
<1>4. QED
  BY <1>2, <1>3 DEF Capture

LEMMA LeaseStep ==
    ASSUME Inv, NEW e \in Records, LeaseElapses(e)
    PROVE  Inv'
<1> DEFINE row == [rows[e] EXCEPT !.over = TRUE]
<1>1. /\ TypeOK /\ rows \in [Records -> Row] /\ UNCHANGED <<tick, exported>>
      /\ rows[e].state = "CLAIMED"
      /\ faults \in 0..MaxFaults /\ MaxFaults \in Nat
      /\ \A f \in Records : rows[f].attempts \in Int
  BY Fields, OpsAssumption DEF Inv, LeaseElapses
<1>2. row \in Row
  BY <1>1, RowChange DEF States
<1>3. /\ row.state = "CLAIMED" /\ row.owner = rows[e].owner
      /\ row.attempts = rows[e].attempts
  BY <1>1 DEF Row
<1>4. rows' = [rows EXCEPT ![e] = row]
  BY <1>1 DEF LeaseElapses
<1> HIDE DEF row
<1>5. rows' \in [Records -> Row] /\ rows'[e] = row /\ \A f \in Records \ {e} : rows'[f] = rows[f]
  BY <1>1, <1>2, <1>4
<1>6. \A f \in Records : /\ rows'[f].state = rows[f].state /\ rows'[f].owner = rows[f].owner
                         /\ rows'[f].attempts = rows[f].attempts
                         /\ f # e => rows'[f].over = rows[f].over
  BY <1>1, <1>3, <1>5
<1>7. \/ Held(e) /\ faults' = faults - 1 /\ faults > 0
      \/ ~ Held(e) /\ faults' = faults
  BY DEF LeaseElapses, Fault
<1>8. faults' \in 0..MaxFaults /\ faults' <= faults
  BY <1>1, <1>7
<1>9. TypeOK'
  BY <1>1, <1>5, <1>6, <1>8 DEF TypeOK
<1>10. ASSUME NEW p \in Publishers PROVE BatchInHand(p)'
  BY <1>1, <1>6, Fields DEF Inv, BatchInHand
<1>11. ASSUME NEW f \in Records PROVE AttemptsPaid(f)'
  <2>2. Used <= Used' /\ Used \in Int /\ Used' \in Int
    BY <1>1, <1>8, UsedGrows
  <2>3. AttemptsPaid(f)
    BY DEF Inv
  <2>4. CASE f # e
    BY <1>1, <1>6, <2>2, <2>3, <2>4 DEF AttemptsPaid, UnderWay
  <2>5. CASE f = e
    <3>1. rows[e].attempts <= Used'
      <4>1. CASE Held(e)
        <5>1. Used + 1 <= Used'
          BY <1>1, <1>7, <1>8, <4>1, UsedGrows
        <5>2. rows[e].attempts <= Used + 1
          BY <2>3, <2>5 DEF AttemptsPaid
        <5>3. QED
          BY <1>1, <2>2, <5>1, <5>2
      <4>2. CASE ~ Held(e)
        <5>1. rows[e].owner \in Publishers
          BY <1>1, Fields DEF TypeOK
        <5>2. ~ UnderWay(e)
          BY <1>1, <4>2, <5>1 DEF UnderWay, Held, Owns
        <5>3. rows[e].attempts <= Used
          BY <1>1, <2>3, <2>5, <5>2 DEF AttemptsPaid
        <5>4. QED
          BY <1>1, <2>2, <5>3
      <4>3. QED
        BY <4>1, <4>2
    <3>2. rows[e].attempts <= Used' + 1
      BY <1>1, <2>2, <3>1
    <3>3. QED
      BY <1>1, <1>6, <2>5, <3>1, <3>2 DEF AttemptsPaid
  <2>6. QED
    BY <2>4, <2>5
<1>12. QED
  BY <1>9, <1>10, <1>11 DEF Inv

LEMMA ClaimStep ==
    ASSUME Inv, NEW p \in Publishers, ClaimDue(p)
    PROVE  Inv'
<1>1. /\ TypeOK /\ rows \in [Records -> Row] /\ tick \in [Publishers -> Tick]
      /\ UNCHANGED <<exported, faults>> /\ tick[p].step = "idle"
      /\ faults \in 0..MaxFaults /\ MaxFaults \in Nat
      /\ \A f \in Records : rows[f].attempts \in Counts /\ rows[f].attempts \in Int
  BY Fields, OpsAssumption DEF Inv, ClaimDue, At
<1>2. PICK batch \in SUBSET Due \ {{}} :
        /\ rows' = [f \in Records |->
               IF f \in batch
               THEN [state |-> "CLAIMED", owner |-> p, over |-> FALSE,
                     attempts |-> rows[f].attempts + 1]
               ELSE rows[f]]
        /\ tick' = [tick EXCEPT ![p] =
               [step |-> IF Cardinality(batch) > 1 THEN "batch" ELSE "next",
                batch |-> batch, of |-> {}, acked |-> FALSE]]
  BY DEF ClaimDue
<1>3. batch \subseteq Records /\ batch \subseteq Due
  BY <1>2 DEF Due
<1>4. /\ tick' \in [Publishers -> Tick]
      /\ tick'[p].step \in {"batch", "next"} /\ tick'[p].batch = batch
      /\ tick'[p].of = {} /\ tick'[p].acked = FALSE
      /\ \A q \in Publishers \ {p} : tick'[q] = tick[q]
  <2> DEFINE t == [step |-> IF Cardinality(batch) > 1 THEN "batch" ELSE "next",
                   batch |-> batch, of |-> {}, acked |-> FALSE]
  <2>1. t \in Tick
    BY <1>3 DEF Tick
  <2>2. t.step \in {"batch", "next"} /\ t.batch = batch /\ t.of = {} /\ t.acked = FALSE
    OBVIOUS
  <2> HIDE DEF t
  <2>3. tick' = [tick EXCEPT ![p] = t]
    BY <1>2 DEF t
  <2>4. QED
    BY <1>1, <2>1, <2>2, <2>3
<1>5. \A f \in Records : AttemptsPaid(f)
  BY DEF Inv
<1>6. Used \in Int /\ Used <= MaxFaults
  BY <1>1, OpsAssumption DEF Used
<1>7. ASSUME NEW f \in batch
      PROVE  rows[f].attempts <= Used
  <2>1. f \in Due /\ f \in Records
    BY <1>3
  <2>2. CASE rows[f].state = "PENDING"
    BY <1>1, <1>5, <2>1, <2>2 DEF AttemptsPaid, Used
  <2>3. CASE rows[f].state = "RETRY_WAIT"
    BY <1>5, <2>1, <2>3 DEF AttemptsPaid
  <2>4. CASE rows[f].state = "CLAIMED" /\ rows[f].over
    BY <1>5, <2>1, <2>4 DEF AttemptsPaid, UnderWay
  <2>5. QED
    BY <2>1, <2>2, <2>3, <2>4 DEF Due
<1>8. ASSUME NEW f \in batch
      PROVE  /\ rows'[f].state = "CLAIMED" /\ rows'[f].owner = p /\ rows'[f].over = FALSE
             /\ rows'[f].attempts = rows[f].attempts + 1 /\ rows'[f] \in Row
             /\ rows[f].state # "none"
  <2>1. rows'[f] = [state |-> "CLAIMED", owner |-> p, over |-> FALSE,
                    attempts |-> rows[f].attempts + 1]
    BY <1>2, <1>3
  <2>2. rows[f].attempts + 1 \in Counts
    BY <1>1, <1>3, <1>6, <1>7, OpsAssumption DEF Counts
  <2>3. rows'[f] \in Row
    <3>1. "CLAIMED" \in States /\ p \in Publishers \cup {Nobody} /\ FALSE \in BOOLEAN
      BY DEF States
    <3>2. QED
      BY <2>1, <2>2, <3>1, RowType
  <2>4. QED
    BY <1>3, <2>1, <2>3 DEF Due
<1>9. \A f \in Records \ batch : rows'[f] = rows[f]
  BY <1>2
<1>10. rows' \in [Records -> Row]
  BY <1>1, <1>2, <1>3, <1>8, <1>9
<1>11. \A f \in Records : rows[f].state # "none" => rows'[f].state # "none"
  BY <1>8, <1>9
<1>12. TypeOK'
  <2>1. \A f \in Records : (rows'[f].owner # Nobody) = (rows'[f].state = "CLAIMED")
    <3>1. ASSUME NEW f \in Records, f \in batch
          PROVE  rows'[f].owner # Nobody /\ rows'[f].state = "CLAIMED"
      <4>1. p # Nobody
        BY OpsAssumption
      <4>2. QED
        BY <1>8, <3>1, <4>1
    <3>2. \A f \in Records : (rows[f].owner # Nobody) = (rows[f].state = "CLAIMED")
      BY <1>1 DEF TypeOK
    <3>3. QED
      BY <1>9, <3>1, <3>2
  <2>2. \A q \in Publishers : Cardinality(tick'[q].of) <= 1
    BY <1>1, <1>4, SmallOf DEF TypeOK
  <2>3. QED
    BY <1>1, <1>4, <1>10, <1>11, <2>1, <2>2 DEF TypeOK
<1>13. ASSUME NEW q \in Publishers PROVE BatchInHand(q)'
  <2>1. CASE q = p
    BY <1>1, <1>4, <1>8, <2>1 DEF BatchInHand
  <2>2. CASE q # p
    BY <1>1, <1>4, <1>11, <2>2, Fields DEF Inv, BatchInHand
  <2>3. QED
    BY <2>1, <2>2
<1>14. ASSUME NEW f \in Records PROVE AttemptsPaid(f)'
  <2>1. Used' = Used
    BY <1>1 DEF Used
  <2>2. CASE f \in batch
    <3>1. rows'[f].attempts <= Used + 1
      <4>1. rows[f].attempts <= Used /\ rows'[f].attempts = rows[f].attempts + 1
        BY <1>7, <1>8, <2>2
      <4>2. rows[f].attempts \in Int
        BY <1>1
      <4>3. QED
        BY <1>6, <4>1, <4>2
    <3>2. UnderWay(f)'
      BY <1>4, <1>8, <2>2 DEF UnderWay
    <3>3. QED
      BY <1>8, <2>1, <2>2, <3>1, <3>2 DEF AttemptsPaid
  <2>3. CASE f \notin batch
    <3>1. rows'[f] = rows[f] /\ AttemptsPaid(f)
      BY <1>5, <1>9, <2>3
    <3>2. rows[f].state = "CLAIMED" /\ UnderWay(f) => UnderWay(f)'
      <4>1. SUFFICES ASSUME rows[f].state = "CLAIMED", UnderWay(f) PROVE UnderWay(f)'
        OBVIOUS
      <4>2. rows[f].owner \in Publishers
        BY <1>1, <4>1, Fields DEF TypeOK
      <4>3. rows[f].owner # p
        BY <1>1, <4>1, <4>2 DEF UnderWay, Inv, BatchInHand
      <4>4. QED
        BY <1>4, <3>1, <4>1, <4>2, <4>3 DEF UnderWay
    <3>3. QED
      BY <2>1, <3>1, <3>2 DEF AttemptsPaid
  <2>4. QED
    BY <2>2, <2>3
<1>15. QED
  BY <1>12, <1>13, <1>14 DEF Inv

\* The publisher is done with a record, which it settles or gives back if it
\* still owns it.
LEMMA CloseStep ==
    ASSUME Inv, NEW p \in Publishers, NEW e \in Records, tick[p].of = {e},
           tick[p].step \in {"mark", "fail"}, tick' = Closed(p),
           UNCHANGED <<exported, faults>>,
           \/ ~ Owns(p, e) /\ rows' = rows
           \/ /\ Owns(p, e)
              /\ \E s \in {"DELIVERED", "EXHAUSTED", "RETRY_WAIT"} :
                  /\ rows' = [rows EXCEPT ![e] = [rows[e] EXCEPT !.state = s,
                                                  !.owner = Nobody, !.over = FALSE]]
                  /\ s = "RETRY_WAIT" => rows[e].attempts <= Used
    PROVE  Inv'
<1>1. /\ TypeOK /\ rows \in [Records -> Row] /\ tick \in [Publishers -> Tick]
      /\ tick[p].batch \subseteq Records /\ tick[p].acked \in BOOLEAN
      /\ tick[p] \in Tick /\ DOMAIN tick[p] = {"step", "batch", "of", "acked"}
      /\ \A f \in Records : rows[f] \in Row
  BY Fields DEF Inv
<1>2. /\ tick' \in [Publishers -> Tick]
      /\ tick'[p].step = "next" /\ tick'[p].batch = tick[p].batch \ {e}
      /\ tick'[p].of = {} /\ tick'[p].acked = tick[p].acked
      /\ \A q \in Publishers \ {p} : tick'[q] = tick[q]
  <2> DEFINE t == [tick[p] EXCEPT !.step = "next", !.of = {}, !.batch = tick[p].batch \ {e}]
  <2>1. t \in Tick
    <3>1. tick[p].batch \ {e} \in SUBSET Records /\ {} \in SUBSET Records
      BY <1>1
    <3>2. QED
      BY <1>1, <3>1, TickChange
  <2>2. /\ t.step = "next" /\ t.batch = tick[p].batch \ {e} /\ t.of = {}
        /\ t.acked = tick[p].acked
    BY <1>1
  <2>3. tick' = [tick EXCEPT ![p] = t]
    BY <1>1 DEF Closed
  <2> HIDE DEF t
  <2>4. QED
    BY <1>1, <2>1, <2>2, <2>3
<1>3. /\ rows' \in [Records -> Row]
      /\ \A f \in Records \ {e} : rows'[f] = rows[f]
      /\ \/ ~ Owns(p, e) /\ rows'[e] = rows[e]
         \/ /\ rows'[e].state \in {"DELIVERED", "EXHAUSTED", "RETRY_WAIT"}
            /\ rows'[e].owner = Nobody /\ rows'[e].attempts = rows[e].attempts
            /\ rows'[e].state = "RETRY_WAIT" => rows[e].attempts <= Used
  <2>1. CASE ~ Owns(p, e) /\ rows' = rows
    BY <1>1, <2>1
  <2>2. CASE \E s \in {"DELIVERED", "EXHAUSTED", "RETRY_WAIT"} :
                  /\ rows' = [rows EXCEPT ![e] = [rows[e] EXCEPT !.state = s,
                                                  !.owner = Nobody, !.over = FALSE]]
                  /\ s = "RETRY_WAIT" => rows[e].attempts <= Used
    <3>1. PICK s \in {"DELIVERED", "EXHAUSTED", "RETRY_WAIT"} :
                  /\ rows' = [rows EXCEPT ![e] = [rows[e] EXCEPT !.state = s,
                                                  !.owner = Nobody, !.over = FALSE]]
                  /\ s = "RETRY_WAIT" => rows[e].attempts <= Used
      BY <2>2
    <3> DEFINE row == [rows[e] EXCEPT !.state = s, !.owner = Nobody, !.over = FALSE]
    <3>2. row \in Row
      BY <1>1, RowChange DEF States, Settled
    <3>3. row.state = s /\ row.owner = Nobody /\ row.attempts = rows[e].attempts
      BY <1>1 DEF Row
    <3>4. rows' = [rows EXCEPT ![e] = row]
      BY <3>1
    <3> HIDE DEF row
    <3>5. QED
      BY <1>1, <3>1, <3>2, <3>3, <3>4
  <2>3. QED
    BY <2>1, <2>2
<1>4. \A f \in Records : rows[f].state # "none" => rows'[f].state # "none"
  BY <1>3
<1>5. TypeOK'
  <2>1. \A f \in Records : (rows'[f].owner # Nobody) = (rows'[f].state = "CLAIMED")
    BY <1>1, <1>3 DEF TypeOK
  <2>2. \A q \in Publishers : Cardinality(tick'[q].of) <= 1
    BY <1>1, <1>2, SmallOf DEF TypeOK
  <2>3. QED
    BY <1>1, <1>2, <1>3, <1>4, <2>1, <2>2 DEF TypeOK
<1>6. ASSUME NEW q \in Publishers PROVE BatchInHand(q)'
  <2>1. CASE q = p
    BY <1>1, <1>2, <1>4, <2>1 DEF Inv, BatchInHand
  <2>2. CASE q # p
    BY <1>1, <1>2, <1>4, <2>2, Fields DEF Inv, BatchInHand
  <2>3. QED
    BY <2>1, <2>2
<1>7. ASSUME NEW f \in Records PROVE AttemptsPaid(f)'
  <2>1. Used' = Used /\ AttemptsPaid(f) /\ AttemptsPaid(e)
    BY DEF Used, Inv
  <2>2. CASE f = e /\ rows'[e].state \in {"DELIVERED", "EXHAUSTED", "RETRY_WAIT"}
             /\ rows'[e].attempts = rows[e].attempts
             /\ (rows'[e].state = "RETRY_WAIT" => rows[e].attempts <= Used)
    BY <2>1, <2>2 DEF AttemptsPaid
  <2>3. CASE rows'[f] = rows[f] /\ (f = e => ~ Owns(p, e))
    <3>1. rows[f].state = "CLAIMED" /\ UnderWay(f) => UnderWay(f)'
      <4>1. SUFFICES ASSUME rows[f].state = "CLAIMED", UnderWay(f) PROVE UnderWay(f)'
        OBVIOUS
      <4>2. rows[f].owner \in Publishers
        BY <1>1, <4>1, Fields DEF TypeOK
      <4>3. CASE rows[f].owner = p
        <5>1. f # e
          BY <2>3, <4>1, <4>3 DEF Owns
        <5>2. QED
          BY <1>2, <2>3, <4>1, <4>3, <5>1 DEF UnderWay
      <4>4. CASE rows[f].owner # p
        BY <1>2, <2>3, <4>1, <4>2, <4>4 DEF UnderWay
      <4>5. QED
        BY <4>3, <4>4
    <3>2. QED
      BY <2>1, <2>3, <3>1 DEF AttemptsPaid
  <2>4. QED
    BY <1>3, <2>2, <2>3
<1>8. QED
  BY <1>5, <1>6, <1>7 DEF Inv

LEMMA SettleStep ==
    ASSUME Inv, NEW p \in Publishers, MarkDelivered(p) \/ RecordFailure(p)
    PROVE  Inv'
<1>1. PICK e \in tick[p].of : tick[p].of = {e} /\ e \in tick[p].batch
  BY DEF Inv, BatchInHand, MarkDelivered, RecordFailure, At
<1>2. /\ e \in Records /\ tick[p].of = {e} /\ tick[p].step \in {"mark", "fail"}
      /\ tick' = Closed(p) /\ UNCHANGED <<exported, faults>>
  BY <1>1, Fields DEF Inv, MarkDelivered, RecordFailure, At
<1>3. rows[e] \in Row /\ DOMAIN rows[e] = {"state", "owner", "over", "attempts"}
      /\ rows \in [Records -> Row] /\ rows[e].attempts \in Int
  BY <1>2, Fields DEF Inv, Row
<1>4. CASE MarkDelivered(p)
  <2>1. rows' = IF Owns(p, e)
                THEN [rows EXCEPT ![e].state = "DELIVERED", ![e].owner = Nobody,
                                  ![e].over = FALSE]
                ELSE rows
    BY <1>1, <1>4 DEF MarkDelivered
  <2>2. [rows EXCEPT ![e].state = "DELIVERED", ![e].owner = Nobody, ![e].over = FALSE]
          = [rows EXCEPT ![e] = [rows[e] EXCEPT !.state = "DELIVERED",
                                                !.owner = Nobody, !.over = FALSE]]
    BY <1>2, <1>3
  <2>3. QED
    BY <1>2, <2>1, <2>2, CloseStep
<1>5. CASE RecordFailure(p)
  <2>1. rows' = IF Owns(p, e) THEN [rows EXCEPT ![e] = Failed(rows[e])] ELSE rows
    BY <1>1, <1>5, <1>2, <1>3 DEF RecordFailure
  <2>2. Owns(p, e) => rows[e].attempts <= Used
    <3>1. AttemptsPaid(e) /\ tick[p].step = "fail"
      BY <1>2, <1>5 DEF Inv, RecordFailure, At
    <3>2. QED
      BY <1>2, <3>1 DEF AttemptsPaid, Owns, UnderWay
  <2>3. \E s \in {"EXHAUSTED", "RETRY_WAIT"} :
            Failed(rows[e]) = [rows[e] EXCEPT !.state = s, !.owner = Nobody, !.over = FALSE]
    BY DEF Failed
  <2>4. QED
    BY <1>2, <2>1, <2>2, <2>3, CloseStep
<1>6. QED
  BY <1>4, <1>5

(***************************************************************************)
(* The theorems.                                                           *)
(***************************************************************************)

LEMMA InvInit == Init => Inv
<1> SUFFICES ASSUME Init PROVE Inv
  OBVIOUS
<1>1. Absent \in Row
  <2>1. 0 \in Counts /\ "none" \in States
    BY OpsAssumption DEF Counts, States
  <2>2. QED
    BY <2>1, RowType DEF Absent
<1>2. Idle \in Tick
  BY DEF Idle, Tick
<1>3. TypeOK
  <2>1. rows \in [Records -> Row] /\ tick \in [Publishers -> Tick]
    BY <1>1, <1>2 DEF Init
  <2>2. \A p \in Publishers : Cardinality(tick[p].of) <= 1
    BY SmallOf DEF Init, Idle
  <2>3. \A e \in Records : rows[e].owner = Nobody /\ rows[e].state = "none"
    BY DEF Init, Absent
  <2>4. exported = {} /\ faults \in 0..MaxFaults
    BY OpsAssumption DEF Init
  <2>5. QED
    BY <2>1, <2>2, <2>3, <2>4 DEF TypeOK
<1>4. \A p \in Publishers : BatchInHand(p)
  BY DEF Init, BatchInHand, Idle
<1>5. \A e \in Records : AttemptsPaid(e)
  BY OpsAssumption DEF Init, AttemptsPaid, Absent, Used
<1>6. QED
  BY <1>3, <1>4, <1>5 DEF Inv

LEMMA InvStep ==
    ASSUME Inv, [Next]_vars
    PROVE  Inv'
<1>1. CASE UNCHANGED vars
  BY <1>1 DEF vars, Inv, TypeOK, BatchInHand, AttemptsPaid, UnderWay, Used
<1>2. CASE Next
  BY <1>2, CaptureStep, LeaseStep, ClaimStep, ExportStep, SettleStep, EndStep
     DEF Next, Work
<1>3. QED
  BY <1>1, <1>2

\* Whatever publishers fail, crash or lose their leases, the queue is well typed:
\* a row has an owner exactly while it is claimed (the columns that markDelivered
\* and recordFailure clear together), the collector has only what was captured,
\* and no record is attempted more often than its limit and the faults explain.
THEOREM OpsTypeCorrect == Spec => []TypeOK
<1>1. Inv /\ [Next]_vars => Inv'
  BY InvStep
<1>2. Inv => TypeOK
  BY DEF Inv
<1>3. QED
  BY InvInit, <1>1, <1>2, PTL DEF Spec

\* Every attempt at a record after its first was preceded by a fault of its own
\* (claimDue counts attempts, and only a failure, a crash or a lost lease makes
\* a claimed record due again), so a record is not exhausted by healthy work.
THEOREM AttemptsArePaid == Spec => [](\A e \in Records : AttemptsPaid(e))
<1>1. Inv /\ [Next]_vars => Inv'
  BY InvStep
<1>2. Inv => \A e \in Records : AttemptsPaid(e)
  BY DEF Inv
<1>3. QED
  BY InvInit, <1>1, <1>2, PTL DEF Spec

(***************************************************************************)
(* The refinement.  A step settles, drops or queues at most one record.    *)
(***************************************************************************)

LEMMA OneRecord ==
    ASSUME NEW e \in Records, \A f \in Records \ {e} : rows'[f] = rows[f]
    PROVE  \A s : StateOf(e)' = s => Promised!Becomes({e}, s)
BY DEF Promised!Becomes, StateOf

LEMMA SameStates ==
    ASSUME \A e \in Records : StateOf(e)' = StateOf(e)
    PROVE  UNCHANGED [e \in Records |-> StateOf(e)]
OBVIOUS

LEMMA PromisedStep ==
    ASSUME Inv, [Next]_vars
    PROVE  [Promised!Next]_<<[e \in Records |-> StateOf(e)], exported>>
<1>1. CASE UNCHANGED vars
  BY <1>1 DEF vars, StateOf
<1>2. ASSUME NEW e \in Records, Capture(e)
      PROVE  [Promised!Next]_<<[f \in Records |-> StateOf(f)], exported>>
  <2>1. CASE rows' = rows
    BY <1>2, <2>1 DEF Capture, StateOf
  <2>2. CASE rows[e].state = "none" /\ rows' = [rows EXCEPT ![e].state = "PENDING"]
    <3>1. rows \in [Records -> Row] /\ DOMAIN rows[e] = {"state", "owner", "over", "attempts"}
      BY Fields DEF Inv, Row
    <3>2. /\ \A f \in Records \ {e} : rows'[f] = rows[f]
          /\ rows'[e].state = "PENDING"
      BY <2>2, <3>1
    <3>3. StateOf(e) = "absent" /\ StateOf(e)' = "queued"
      BY <2>2, <3>2 DEF StateOf
    <3>4. Promised!Queue({e})
      BY <1>2, <3>2, <3>3, OneRecord DEF Promised!Queue, Promised!In, Capture
    <3>5. QED
      BY <3>4 DEF Promised!Next
  <2>3. QED
    BY <1>2, <2>1, <2>2 DEF Capture
<1>3. ASSUME NEW p \in Publishers,
             ExportBatch(p) \/ ExportBatchFails(p) \/ Export(p) \/ ExportFails(p)
      PROVE  [Promised!Next]_<<[f \in Records |-> StateOf(f)], exported>>
  <2>1. UNCHANGED rows
    BY <1>3 DEF ExportBatch, ExportBatchFails, Export, ExportFails
  <2>2. PICK items \in SUBSET tick[p].batch : exported' = exported \cup items
    <3>1. CASE ExportBatch(p) \/ ExportBatchFails(p)
      BY <3>1 DEF ExportBatch, ExportBatchFails
    <3>2. CASE Export(p) \/ ExportFails(p)
      <4>1. PICK e \in tick[p].batch : exported' \in {exported, exported \cup {e}}
        BY <3>2 DEF Export, ExportFails
      <4>2. {} \in SUBSET tick[p].batch /\ {e} \in SUBSET tick[p].batch
        OBVIOUS
      <4>3. exported = exported \cup {}
        OBVIOUS
      <4>4. QED
        BY <4>1, <4>2, <4>3
    <3>3. QED
      BY <1>3, <3>1, <3>2
  <2>3. items \in SUBSET Records /\ \A e \in items : rows[e].state # "none"
    BY <2>2, Fields DEF Inv, BatchInHand
  <2>4. \A e \in Records : StateOf(e)' = StateOf(e)
    BY <2>1 DEF StateOf
  <2>5. \A e \in items : StateOf(e) # "absent"
    BY <2>3 DEF StateOf
  <2>6. Promised!Tell(items)
    BY <2>2, <2>3, <2>4, <2>5 DEF Promised!Tell
  <2>7. QED
    BY <2>3, <2>6 DEF Promised!Next
<1>4. ASSUME \/ \E e \in Records : LeaseElapses(e)
             \/ \E p \in Publishers : ClaimDue(p) \/ MarkDeliveredFails(p) \/ EndTick(p)
                                      \/ Crash(p)
      PROVE  [Promised!Next]_<<[f \in Records |-> StateOf(f)], exported>>
  <2>1. UNCHANGED exported
    BY <1>4 DEF LeaseElapses, ClaimDue, MarkDeliveredFails, EndTick, Crash
  <2>2. CASE UNCHANGED rows
    BY <2>1, <2>2 DEF StateOf
  <2>3. ASSUME NEW e \in Records, LeaseElapses(e)
        PROVE  \A f \in Records : StateOf(f)' = StateOf(f)
    <3>1. rows \in [Records -> Row] /\ DOMAIN rows[e] = {"state", "owner", "over", "attempts"}
      BY Fields DEF Inv, Row
    <3>2. \A f \in Records : rows'[f].state = rows[f].state
      BY <2>3, <3>1 DEF LeaseElapses
    <3>3. QED
      BY <3>2 DEF StateOf
  <2>4. ASSUME NEW p \in Publishers, ClaimDue(p)
        PROVE  \A f \in Records : StateOf(f)' = StateOf(f)
    <3>1. PICK batch \in SUBSET Due \ {{}} :
            rows' = [e \in Records |->
               IF e \in batch
               THEN [state |-> "CLAIMED", owner |-> p, over |-> FALSE,
                     attempts |-> rows[e].attempts + 1]
               ELSE rows[e]]
      BY <2>4 DEF ClaimDue
    <3>2. \A f \in batch : rows[f].state \in {"PENDING", "RETRY_WAIT", "CLAIMED"}
      BY <3>1 DEF Due
    <3>3. \A f \in Records : \/ rows'[f] = rows[f]
                             \/ f \in batch /\ rows'[f].state = "CLAIMED"
      BY <3>1
    <3>4. QED
      BY <3>2, <3>3 DEF StateOf
  <2>5. QED
    BY <1>4, <2>1, <2>2, <2>3, <2>4, SameStates DEF MarkDeliveredFails, EndTick, Crash
<1>5. ASSUME NEW p \in Publishers, MarkDelivered(p) \/ RecordFailure(p)
      PROVE  [Promised!Next]_<<[f \in Records |-> StateOf(f)], exported>>
  <2>1. PICK e \in tick[p].of : tick[p].of = {e} /\ e \in Records
    BY <1>5, Fields DEF Inv, BatchInHand, MarkDelivered, RecordFailure, At
  <2>2. rows \in [Records -> Row] /\ DOMAIN rows[e] = {"state", "owner", "over", "attempts"}
    BY <2>1, Fields DEF Inv, Row
  <2>3. UNCHANGED exported
    BY <1>5 DEF MarkDelivered, RecordFailure
  <2>4. CASE rows' = rows
    BY <2>3, <2>4 DEF StateOf
  <2>5. CASE Owns(p, e) /\ MarkDelivered(p)
    <3>1. rows' = [rows EXCEPT ![e].state = "DELIVERED", ![e].owner = Nobody,
                               ![e].over = FALSE]
      BY <2>1, <2>5 DEF MarkDelivered
    <3>2. rows'[e].state = "DELIVERED" /\ \A f \in Records \ {e} : rows'[f] = rows[f]
      BY <2>1, <2>2, <3>1
    <3>3. StateOf(e) = "queued" /\ StateOf(e)' = "told"
      BY <2>5, <3>2 DEF Owns, StateOf
    <3>4. e \in exported
      BY <2>1, <2>5 DEF Inv, BatchInHand, MarkDelivered, At
    <3>5. Promised!Settle({e})
      BY <2>1, <2>3, <3>2, <3>3, <3>4, OneRecord DEF Promised!Settle, Promised!In
    <3>6. QED
      BY <2>1, <3>5 DEF Promised!Next
  <2>6. CASE Owns(p, e) /\ RecordFailure(p)
    <3>1. rows' = [rows EXCEPT ![e] = Failed(rows[e])]
      BY <2>1, <2>2, <2>6 DEF RecordFailure
    <3>2. /\ rows'[e].state \in {"EXHAUSTED", "RETRY_WAIT"}
          /\ \A f \in Records \ {e} : rows'[f] = rows[f]
      BY <2>1, <2>2, <3>1 DEF Failed
    <3>3. StateOf(e) = "queued"
      BY <2>6 DEF Owns, StateOf
    <3>4. CASE rows'[e].state = "EXHAUSTED"
      <4>1. StateOf(e)' = "dropped"
        BY <3>4 DEF StateOf
      <4>2. Promised!Drop({e})
        BY <2>1, <2>3, <3>2, <3>3, <4>1, OneRecord DEF Promised!Drop, Promised!In
      <4>3. QED
        BY <2>1, <4>2 DEF Promised!Next
    <3>5. CASE rows'[e].state = "RETRY_WAIT"
      <4>1. \A f \in Records : StateOf(f)' = StateOf(f)
        BY <3>2, <3>3, <3>5 DEF StateOf
      <4>2. QED
        BY <2>3, <4>1, SameStates
    <3>6. QED
      BY <3>2, <3>4, <3>5
  <2>7. QED
    BY <1>5, <2>1, <2>4, <2>5, <2>6 DEF MarkDelivered, RecordFailure
<1>6. CASE Next
  BY <1>2, <1>3, <1>4, <1>5, <1>6 DEF Next, Work
<1>7. QED
  BY <1>1, <1>6

\* The telemetry queue implements AtLeastOnce: it settles as delivered only what
\* the collector accepted, also after a batch that failed half way, and what is
\* settled or exhausted never becomes due again, for every number of publishers,
\* records and faults (the owner check of markDelivered and recordFailure).
THEOREM QueueTellsAtLeastOnce == Spec => TellsAtLeastOnce
<1>1. Init => Promised!Init
  BY DEF Init, Promised!Init, StateOf, Absent
<1>2. Inv /\ [Next]_vars => Inv'
  BY InvStep
<1>3. Inv /\ [Next]_vars
        => [Promised!Next]_<<[e \in Records |-> StateOf(e)], exported>>
  BY PromisedStep
<1>4. QED
  BY InvInit, <1>1, <1>2, <1>3, PTL DEF Spec, TellsAtLeastOnce, Promised!Spec
=============================================================================
