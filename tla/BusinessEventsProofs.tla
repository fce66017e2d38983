------------------------ MODULE BusinessEventsProofs ------------------------
(***************************************************************************)
(* Proofs about BusinessEvents: whichever replicas ingest, map, publish    *)
(* and rotate, and whatever lease they believe to hold, the facts of a     *)
(* source are published once and in order, and a durable fact that is not  *)
(* published is named by a continuity record before a later one is.        *)
(***************************************************************************)
EXTENDS BusinessEvents, SequenceTheorems, FiniteSetTheorems, TLAPS

----------------------------------------------------------------------------
(* The inductive invariant.                                                *)

Event == Sources \X Facts
Record == [identity : Identity, affected : SUBSET Sources]
Logs == Seq(Seq(Event))
Inboxes == [Sources -> [Facts -> Row]]
Workers == [Replicas \X Sources -> Worker]

\* The places of the log.
Place(g, i) == g \in 1..Len(log) /\ i \in 1..Len(log[g])

Status(s, n) == inbox[s][n].status
Named(s) == \E g \in 1..Len(records) : s \in records[g].affected

LogType ==
    /\ log \in Logs /\ records \in Seq(Record)
    /\ Len(log) = Len(records) + 1

InboxType ==
    /\ inbox \in Inboxes /\ source \in [Sources -> Source]
    /\ \A s \in Sources, n \in Facts : n > source[s].persisted => inbox[s][n] = NoRow

\* The row of every event says so.
Logged ==
    \A g, i \in Nat : Place(g, i) =>
        Status(log[g][i][1], log[g][i][2]) = "published"

\* The publication barrier: what is published lies before all that is open.
Barrier ==
    \A s \in Sources : \A m, n \in Facts :
        Status(s, m) = "published" /\ Open(inbox[s][n]) => m < n

\* The log is in source order.
Ordered ==
    \A g, i, h, j \in Nat :
        /\ Place(g, i) /\ Place(h, j) /\ log[g][i][1] = log[h][j][1]
        /\ g < h \/ (g = h /\ i < j)
        => log[g][i][2] < log[h][j][2]

\* A durable fact that arrived is still open, was published, or was closed by a
\* rotation that names its source.
Kept ==
    \A s \in Durable, n \in Facts : n <= source[s].persisted =>
        Open(inbox[s][n]) \/ Status(s, n) = "published" \/ Named(s)

\* The facts before a durable event were published, or a rotation before it
\* names the source.
Accounted ==
    \A g, i \in Nat : Place(g, i) =>
        \A s \in Durable, n \in Facts :
            s = log[g][i][1] /\ n < log[g][i][2] =>
                \/ Status(s, n) = "published"
                \/ \E k \in 1..Len(records) : k < g /\ s \in records[k].affected

Inv == /\ LogType /\ InboxType /\ worker \in Workers /\ faults \in 0..MaxFaults
       /\ Logged /\ Barrier /\ Ordered /\ Kept /\ Accounted

----------------------------------------------------------------------------
(* Rows.                                                                   *)

LEMMA RowForms ==
    ASSUME NEW row \in Row
    PROVE  /\ \A st \in {"ready", "pending_mapping"} :
                 /\ [row EXCEPT !.status = st] \in Row
                 /\ [row EXCEPT !.status = st].status = st
                 /\ [row EXCEPT !.status = st].final = row.final
           /\ \A st \in {"continuity_loss_pending", "terminal_skipped"} :
                 /\ [row EXCEPT !.status = st, !.map = "no"] \in Row
                 /\ [row EXCEPT !.status = st, !.map = "no"].status = st
                 /\ [row EXCEPT !.status = st, !.map = "no"].final = row.final
           /\ \A map \in {"yes", "late"} :
                 /\ [row EXCEPT !.map = map] \in Row
                 /\ [row EXCEPT !.map = map].status = row.status
                 /\ [row EXCEPT !.map = map].final = row.final
BY DEF Row, Waiting, Lost

\* A rotation only closes rows.
LEMMA CloseForms ==
    ASSUME NEW row \in Row
    PROVE  /\ Close(row) \in Row
           /\ Open(Close(row)) => Open(row)
           /\ ~Open(row) => Close(row) = row
           /\ Close(row).status = "published" <=> row.status = "published"
           /\ row.status = "published" => ~Open(row)
BY DEF Row, Open, Close, Waiting, Lost

LEMMA NewRows ==
    /\ NoRow \in Row /\ ~Open(NoRow) /\ NoRow.status # "published"
    /\ Rejected \in Row /\ Open(Rejected) /\ Rejected.status # "published"
    /\ \A map \in {"no", "yes"} :
          /\ Received(map) \in Row /\ Open(Received(map))
          /\ Received(map).status # "published"
    /\ [status |-> "published", map |-> "no", final |-> TRUE] \in Row
    /\ ~Open([status |-> "published", map |-> "no", final |-> TRUE])
BY DEF Row, NoRow, Open, Rejected, Received, Waiting, Lost

LEMMA SourceForms ==
    ASSUME NEW src \in Source
    PROVE  \A st \in {"active", "degraded", "unavailable"} \cup Blocked :
               /\ [src EXCEPT !.status = st] \in Source
               /\ [src EXCEPT !.status = st].persisted = src.persisted
BY DEF Source

----------------------------------------------------------------------------
(* Steps that publish nothing.                                             *)

\* A row changes: no fact becomes published or ceases to be, one that opens lies
\* behind all published ones, and a durable fact is dropped by nobody.
RowStep(s, n) ==
    /\ inbox'[s][n].status = "published" <=> Status(s, n) = "published"
    /\ Open(inbox'[s][n]) =>
           Open(inbox[s][n]) \/ \A m \in Facts : Status(s, m) = "published" => m < n
    /\ s \in Durable /\ n <= source'[s].persisted =>
           \/ Open(inbox'[s][n])
           \/ n <= source[s].persisted /\ ~Open(inbox[s][n])

LEMMA UnpublishedKeeps ==
    ASSUME Inv, UNCHANGED <<log, records>>, InboxType', worker' \in Workers,
           faults' \in 0..MaxFaults,
           \A s \in Sources, n \in Facts : RowStep(s, n)
    PROVE  Inv'
<1> USE EventsAssumption
<1>1. LogType'
  BY DEF Inv, LogType
<1>2. \A g, i \in Nat : Place(g, i)' <=> Place(g, i)
  BY DEF Place
<1>3. \A g, i \in Nat : Place(g, i) => log[g][i][1] \in Sources /\ log[g][i][2] \in Facts
  <2> SUFFICES ASSUME NEW g \in Nat, NEW i \in Nat, Place(g, i)
               PROVE  log[g][i][1] \in Sources /\ log[g][i][2] \in Facts
    OBVIOUS
  <2>1. log[g] \in Seq(Event)
    BY DEF Inv, LogType, Logs, Place
  <2>2. log[g][i] \in Event
    BY <2>1 DEF Place
  <2> QED BY <2>2 DEF Event
<1>4. Logged'
  BY <1>2, <1>3 DEF Inv, Logged, RowStep, Status
<1>5. Barrier'
  BY DEF Inv, Barrier, RowStep, Status
<1>6. Ordered'
  BY <1>2 DEF Inv, Ordered
<1>7. Kept'
  BY DEF Inv, Kept, RowStep, Status, Named
<1>8. Accounted'
  BY <1>2 DEF Inv, Accounted, RowStep, Status
<1> QED BY <1>1, <1>4, <1>5, <1>6, <1>7, <1>8 DEF Inv

\* The inbox stays, and the sources keep what they have persisted.
LEMMA InboxKept ==
    ASSUME Inv, UNCHANGED <<log, records, inbox>>, source' \in [Sources -> Source],
           \A s \in Sources : source'[s].persisted = source[s].persisted,
           worker' \in Workers, faults' \in 0..MaxFaults
    PROVE  Inv'
<1>1. InboxType'
  BY DEF Inv, InboxType
<1>2. \A s \in Sources, n \in Facts : RowStep(s, n)
  BY DEF RowStep, Status
<1> QED BY <1>1, <1>2, UnpublishedKeeps

\* One row that had arrived is written; sources keep what they have persisted.
LEMMA OneRow ==
    ASSUME Inv, NEW s \in Sources, NEW n \in Facts, NEW new \in Row,
           inbox' = [inbox EXCEPT ![s][n] = new], UNCHANGED <<log, records>>,
           inbox[s][n] # NoRow, source' \in [Sources -> Source],
           \A t \in Sources : source'[t].persisted = source[t].persisted,
           worker' \in Workers, faults' \in 0..MaxFaults,
           new.status = "published" <=> Status(s, n) = "published",
           Open(new) => Open(inbox[s][n]),
           s \in Durable /\ Open(inbox[s][n]) => Open(new)
    PROVE  Inv'
<1>1. InboxType
  BY DEF Inv
<1>2. /\ inbox' \in Inboxes /\ inbox'[s][n] = new
      /\ \A t \in Sources, m \in Facts :
             ~(t = s /\ m = n) => inbox'[t][m] = inbox[t][m]
  BY <1>1 DEF InboxType, Inboxes
<1>3. InboxType'
  BY <1>1, <1>2 DEF InboxType
<1>4. ASSUME NEW t \in Sources, NEW m \in Facts
      PROVE  RowStep(t, m)
  <2>1. CASE t = s /\ m = n
    BY <1>2, <2>1 DEF RowStep, Status
  <2>2. CASE ~(t = s /\ m = n)
    BY <1>2, <2>2 DEF RowStep, Status
  <2> QED BY <2>1, <2>2
<1> QED BY <1>3, <1>4, UnpublishedKeeps

\* A fact arrives: behind all that arrived before, and with no gap if its source
\* is durable.
LEMMA Arrival ==
    ASSUME Inv, NEW s \in Sources, NEW n \in Facts, NEW new \in Row,
           inbox' = [inbox EXCEPT ![s][n] = new], UNCHANGED <<log, records>>,
           n \in Sent(s), n > source[s].persisted,
           Open(new), new.status # "published",
           source' \in [Sources -> Source], source'[s].persisted = n,
           \A t \in Sources \ {s} : source'[t].persisted = source[t].persisted,
           worker' \in Workers, faults' \in 0..MaxFaults
    PROVE  Inv'
<1> USE EventsAssumption
<1>1. InboxType
  BY DEF Inv
<1>2. /\ inbox' \in Inboxes /\ inbox'[s][n] = new
      /\ \A t \in Sources, m \in Facts :
             ~(t = s /\ m = n) => inbox'[t][m] = inbox[t][m]
  BY <1>1 DEF InboxType, Inboxes
<1>3. n \in Int /\ \A t \in Sources : source[t].persisted \in Int
  BY <1>1 DEF InboxType, Source, Facts
<1>4. InboxType'
  <2>1. ASSUME NEW t \in Sources, NEW m \in Facts, m > source'[t].persisted
        PROVE  inbox'[t][m] = NoRow
    <3>1. m \in Int
      BY DEF Facts
    <3>2. ~(t = s /\ m = n)
      BY <2>1, <3>1, <1>3
    <3>3. m > source[t].persisted
      BY <2>1, <3>1, <1>3
    <3> QED BY <1>1, <1>2, <3>2, <3>3 DEF InboxType
  <2> QED BY <1>2, <2>1 DEF InboxType
<1>5. ASSUME NEW m \in Facts, Status(s, m) = "published"
      PROVE  m < n
  <2>1. ~(m > source[s].persisted)
    BY <1>1, <1>5, NewRows DEF InboxType, Status
  <2>2. m \in Int
    BY DEF Facts
  <2> QED BY <2>1, <2>2, <1>3
<1>6. inbox[s][n] = NoRow
  BY <1>1 DEF InboxType
<1>7. ASSUME NEW t \in Sources, NEW m \in Facts
      PROVE  RowStep(t, m)
  <2>1. CASE t = s /\ m = n
    BY <1>2, <1>5, <1>6, <2>1, NewRows DEF RowStep, Status
  <2>2. CASE ~(t = s /\ m = n)
    <3>1. t \in Durable /\ m <= source'[t].persisted => m <= source[t].persisted
      <4>1. CASE t # s
        BY <4>1
      <4>2. CASE t = s /\ s \in Durable
        <5>1. n <= source[s].persisted + 1
          BY <4>2 DEF Sent
        <5>2. m \in Int /\ m # n
          BY <2>2, <4>2 DEF Facts
        <5> QED BY <4>2, <5>1, <5>2, <1>3
      <4> QED BY <4>1, <4>2
    <3> QED BY <1>2, <2>2, <3>1 DEF RowStep, Status
  <2> QED BY <2>1, <2>2
<1> QED BY <1>4, <1>7, UnpublishedKeeps

----------------------------------------------------------------------------
(* Rotation.                                                               *)

LEMMA RotateKeeps ==
    ASSUME Inv, NEW identity \in Identity, NEW affected \in SUBSET Sources,
           NEW workers \in Workers, RotateStream(identity, affected, workers),
           faults' \in 0..MaxFaults
    PROVE  Inv'
<1>1. LogType /\ InboxType
  BY DEF Inv
<1>2. CASE \E g \in 1..Len(records) : records[g].identity = identity
  <2>1. worker' = workers /\ UNCHANGED <<source, inbox, log, records>>
    BY <1>2 DEF RotateStream
  <2>2. source' \in [Sources -> Source]
    BY <1>1, <2>1 DEF InboxType
  <2> QED BY <2>1, <2>2, InboxKept
<1>3. CASE ~\E g \in 1..Len(records) : records[g].identity = identity
  <2> DEFINE new == [identity |-> identity, affected |-> affected]
  <2>1. /\ log' = Append(log, <<>>) /\ records' = Append(records, new)
        /\ source' = [s \in Sources |-> [source[s] EXCEPT !.status = "active"]]
        /\ inbox' = [s \in Sources |->
               IF s \in affected THEN [n \in Facts |-> Close(inbox[s][n])] ELSE inbox[s]]
        /\ worker' = [v \in Replicas \X Sources |-> [workers[v] EXCEPT !.lease = "none"]]
    BY <1>3 DEF RotateStream
  <2>2. new \in Record /\ new.affected = affected
    BY DEF Record
  <2> HIDE DEF new
  <2>3. LogType'
    BY <1>1, <2>1, <2>2 DEF LogType, Logs
  <2>4. \A g, i \in Nat : (Place(g, i)' <=> Place(g, i)) /\ (Place(g, i) => log'[g] = log[g])
    BY <1>1, <2>1 DEF LogType, Logs, Place
  <2>5. /\ Len(records') = Len(records) + 1
        /\ \A k \in 1..Len(records) : records'[k] = records[k]
        /\ records'[Len(records) + 1] = new
    BY <1>1, <2>1, <2>2 DEF LogType
  <2>6. ASSUME NEW s \in Sources, NEW n \in Facts
        PROVE  /\ inbox'[s][n] \in Row
               /\ inbox'[s][n] = inbox[s][n] \/ (s \in affected /\ inbox'[s][n] = Close(inbox[s][n]))
               /\ Open(inbox'[s][n]) => Open(inbox[s][n])
               /\ Status(s, n)' = "published" <=> Status(s, n) = "published"
               /\ ~Open(inbox[s][n]) => inbox'[s][n] = inbox[s][n]
    <3>1. inbox[s][n] \in Row
      BY <1>1 DEF InboxType, Inboxes
    <3>2. inbox'[s][n] = IF s \in affected THEN Close(inbox[s][n]) ELSE inbox[s][n]
      BY <1>1, <2>1 DEF InboxType, Inboxes
    <3> QED BY <3>1, <3>2, CloseForms DEF Status
  <2>7. /\ source' \in [Sources -> Source]
        /\ \A s \in Sources : source'[s].persisted = source[s].persisted
    <3>1. "active" \in {"active", "degraded", "unavailable"} \cup Blocked
      OBVIOUS
    <3> QED BY <1>1, <2>1, <3>1, SourceForms DEF InboxType
  <2>8. InboxType'
    <3>1. inbox' \in Inboxes
      <4>1. \A s \in Sources : inbox'[s] \in [Facts -> Row]
        BY <1>1, <2>1, CloseForms DEF InboxType, Inboxes
      <4> QED BY <2>1, <4>1 DEF Inboxes
    <3>2. \A s \in Sources, n \in Facts : n > source'[s].persisted => inbox'[s][n] = NoRow
      BY <1>1, <2>6, <2>7, NewRows DEF InboxType
    <3> QED BY <2>7, <3>1, <3>2 DEF InboxType
  <2>9. worker' \in Workers
    <3>1. ASSUME NEW w \in Worker
          PROVE  [w EXCEPT !.lease = "none"] \in Worker
      BY DEF Worker
    <3> QED BY <2>1, <3>1 DEF Workers
  <2>10. \A g, i \in Nat : Place(g, i) => log[g][i][1] \in Sources /\ log[g][i][2] \in Facts
    <3> SUFFICES ASSUME NEW g \in Nat, NEW i \in Nat, Place(g, i)
                 PROVE  log[g][i][1] \in Sources /\ log[g][i][2] \in Facts
      OBVIOUS
    <3>1. log[g] \in Seq(Event)
      BY <1>1 DEF LogType, Logs, Place
    <3>2. log[g][i] \in Event
      BY <3>1 DEF Place
    <3> QED BY <3>2 DEF Event
  <2>11. Logged'
    BY <2>4, <2>6, <2>10 DEF Inv, Logged
  <2>12. Barrier'
    BY <2>6 DEF Inv, Barrier
  <2>13. Ordered'
    BY <2>4 DEF Inv, Ordered
  <2>14. Kept'
    <3>1. ASSUME NEW s \in Sources, Named(s)
          PROVE  Named(s)'
      <4>1. Len(records) \in Nat
        BY <1>1 DEF LogType
      <4> QED BY <3>1, <2>5, <4>1 DEF Named
    <3>2. ASSUME NEW s \in affected
          PROVE  Named(s)'
      <4>1. Len(records) \in Nat
        BY <1>1 DEF LogType
      <4>2. Len(records) + 1 \in 1..Len(records')
        BY <2>5, <4>1
      <4> QED BY <2>2, <2>5, <4>2 DEF Named
    <3> QED BY <2>6, <2>7, <3>1, <3>2, EventsAssumption DEF Inv, Kept, Status
  <2>15. Accounted'
    <3>1. \A k \in 1..Len(records) : k \in 1..Len(records') /\ records'[k] = records[k]
      <4>1. Len(records) \in Nat
        BY <1>1 DEF LogType
      <4> QED BY <2>5, <4>1
    <3> QED BY <2>4, <2>6, <3>1, EventsAssumption DEF Inv, Accounted
  <2> QED BY <2>3, <2>8, <2>9, <2>11, <2>12, <2>13, <2>14, <2>15 DEF Inv
<1> QED BY <1>2, <1>3

----------------------------------------------------------------------------
(* Publication.                                                            *)

\* Where the event of a publication stands.
LEMMA PublishedAt ==
    ASSUME LogType, NEW e \in Event, Len(log') = Len(log),
           log'[Len(log)] = Append(log[Len(log)], e),
           \A g \in 1..Len(log) : g # Len(log) => log'[g] = log[g]
    PROVE  /\ Len(log) \in Nat \ {0}
           /\ \A g, i \in Nat : Place(g, i) =>
                  /\ Place(g, i)' /\ log'[g][i] = log[g][i]
                  /\ g < Len(log) \/ (g = Len(log) /\ i < Len(log[Len(log)]) + 1)
           /\ \A g, i \in Nat : Place(g, i)' =>
                  Place(g, i) \/ (g = Len(log) /\ i = Len(log[Len(log)]) + 1)
           /\ log'[Len(log)][Len(log[Len(log)]) + 1] = e
           /\ Len(log[Len(log)]) \in Nat
<1> DEFINE L == Len(log)
<1>1. log \in Seq(Seq(Event)) /\ L \in Nat \ {0}
  BY DEF LogType, Logs
<1>2. log[L] \in Seq(Event) /\ L \in 1..Len(log)
  BY <1>1
<1>3. /\ Append(log[L], e) \in Seq(Event)
      /\ Len(Append(log[L], e)) = Len(log[L]) + 1
      /\ Append(log[L], e)[Len(log[L]) + 1] = e
      /\ \A i \in 1..Len(log[L]) : Append(log[L], e)[i] = log[L][i]
      /\ Len(log[L]) \in Nat
  BY <1>2, AppendProperties
<1>4. /\ Len(log') = L /\ log'[L] = Append(log[L], e)
      /\ \A g \in 1..L : g # L => log'[g] = log[g]
  OBVIOUS
<1> HIDE DEF L
<1>5. ASSUME NEW g \in Nat, NEW i \in Nat, Place(g, i)
      PROVE  /\ Place(g, i)' /\ log'[g][i] = log[g][i]
             /\ g < L \/ (g = L /\ i < Len(log[L]) + 1)
  <2>1. g \in 1..L /\ i \in 1..Len(log[g])
    BY <1>5 DEF Place, L
  <2>2. CASE g # L
    BY <1>1, <1>4, <2>1, <2>2 DEF Place
  <2>3. CASE g = L
    <3>1. i \in 1..Len(log[L]) /\ log'[L][i] = log[L][i]
      BY <1>3, <1>4, <2>1, <2>3
    <3>2. i \in 1..(Len(log[L]) + 1) /\ i < Len(log[L]) + 1
      BY <1>3, <3>1
    <3>3. g \in 1..Len(log') /\ i \in 1..Len(log'[g])
      BY <1>3, <1>4, <2>1, <2>3, <3>2
    <3> QED BY <2>3, <3>1, <3>2, <3>3 DEF Place
  <2> QED BY <2>2, <2>3
<1>6. ASSUME NEW g \in Nat, NEW i \in Nat, Place(g, i)'
      PROVE  Place(g, i) \/ (g = L /\ i = Len(log[L]) + 1)
  <2>1. g \in 1..L /\ i \in 1..Len(log'[g])
    BY <1>4, <1>6 DEF Place
  <2>2. CASE g # L
    BY <1>4, <2>1, <2>2 DEF Place, L
  <2>3. CASE g = L
    BY <1>3, <1>4, <2>1, <2>3 DEF Place, L
  <2> QED BY <2>2, <2>3
<1> QED BY <1>1, <1>3, <1>4, <1>5, <1>6 DEF L

\* The head of the inbox is published behind all that was published of its
\* source; what lies before it was published or closed by a rotation.
LEMMA PublishKeeps ==
    ASSUME Inv, NEW s \in Sources, NEW n \in Facts, IsHead(s, n), Published(s, n),
           UNCHANGED <<source, records>>, worker' \in Workers, faults' \in 0..MaxFaults
    PROVE  Inv'
<1> USE EventsAssumption
<1> DEFINE L == Len(log)
           I == Len(log[Len(log)]) + 1
           row == [status |-> "published", map |-> "no", final |-> TRUE]
<1>1. LogType /\ InboxType
  BY DEF Inv
<1>2. <<s, n>> \in Event /\ log' = [log EXCEPT ![L] = Append(@, <<s, n>>)]
  BY DEF Event, Published
<1>3. /\ log' \in Logs /\ Len(log') = L /\ L \in Nat \ {0}
      /\ \A g, i \in Nat : Place(g, i) =>
             /\ Place(g, i)' /\ log'[g][i] = log[g][i]
             /\ g < L \/ (g = L /\ i < I)
      /\ \A g, i \in Nat : Place(g, i)' => Place(g, i) \/ (g = L /\ i = I)
      /\ log'[L][I] = <<s, n>> /\ I \in Nat
  <2>1. /\ log \in Seq(Seq(Event)) /\ L \in Nat \ {0} /\ L = Len(log)
        /\ L \in 1..Len(log)
    BY <1>1 DEF LogType, Logs
  <2>2. log[L] \in Seq(Event)
    BY <2>1
  <2>3. Append(log[L], <<s, n>>) \in Seq(Event)
    BY <1>2, <2>2
  <2>4. log' = [log EXCEPT ![L] = Append(log[L], <<s, n>>)]
    BY <1>2
  <2> HIDE DEF L
  <2>5. log' \in Logs /\ Len(log') = L
    BY <2>1, <2>3, <2>4, ExceptSeq DEF Logs
  <2>6. /\ log'[L] = Append(log[L], <<s, n>>)
        /\ \A g \in 1..Len(log) : g # L => log'[g] = log[g]
    BY <2>1, <2>4, ExceptSeq
  <2>7. /\ Len(log') = Len(log) /\ log'[Len(log)] = Append(log[Len(log)], <<s, n>>)
        /\ \A g \in 1..Len(log) : g # Len(log) => log'[g] = log[g]
    BY <2>5, <2>6 DEF L
  <2> DEFINE e == <<s, n>>
  <2>8. e \in Event /\ log'[Len(log)] = Append(log[Len(log)], e)
    BY <1>2, <2>7
  <2> HIDE DEF e
  <2>9. /\ Len(log) \in Nat \ {0}
        /\ \A g, i \in Nat : Place(g, i) =>
               /\ Place(g, i)' /\ log'[g][i] = log[g][i]
               /\ g < Len(log) \/ (g = Len(log) /\ i < Len(log[Len(log)]) + 1)
        /\ \A g, i \in Nat : Place(g, i)' =>
               Place(g, i) \/ (g = Len(log) /\ i = Len(log[Len(log)]) + 1)
        /\ log'[Len(log)][Len(log[Len(log)]) + 1] = e
        /\ Len(log[Len(log)]) \in Nat
    BY <1>1, <2>7, <2>8, PublishedAt
  <2>10. L = Len(log) /\ I = Len(log[Len(log)]) + 1 /\ e = <<s, n>>
    BY DEF L, e
  <2>11. I \in Nat
    BY <2>9, <2>10
  <2> HIDE DEF I
  <2> QED BY <2>5, <2>9, <2>10, <2>11
<1>4. /\ inbox' \in Inboxes /\ inbox'[s][n] = row
      /\ \A t \in Sources, m \in Facts :
             ~(t = s /\ m = n) => inbox'[t][m] = inbox[t][m]
  <2>1. inbox' = [inbox EXCEPT ![s][n] = row] /\ row \in Row
    BY NewRows DEF Published
  <2> HIDE DEF row
  <2> QED BY <1>1, <2>1 DEF InboxType, Inboxes
<1>5. row.status = "published" /\ ~Open(row)
  BY NewRows
<1> HIDE DEF L, I, row
<1>6. /\ Open(inbox[s][n]) /\ n \in Int
      /\ \A m \in Facts : Open(inbox[s][m]) => n <= m
  BY DEF IsHead, OpenFacts, Facts
<1>7. /\ \A t \in Sources, m \in Facts : Status(t, m) = "published" => Status(t, m)' = "published"
      /\ \A t \in Sources, m \in Facts :
             Status(t, m)' = "published" => Status(t, m) = "published" \/ (t = s /\ m = n)
      /\ \A t \in Sources, m \in Facts :
             Open(inbox'[t][m]) => Open(inbox[t][m]) /\ ~(t = s /\ m = n)
      /\ Status(s, n)' = "published"
  BY <1>4, <1>5 DEF Status
<1>8. \A g, i \in Nat : Place(g, i) => log[g][i][1] \in Sources /\ log[g][i][2] \in Facts
  <2> SUFFICES ASSUME NEW g \in Nat, NEW i \in Nat, Place(g, i)
               PROVE  log[g][i][1] \in Sources /\ log[g][i][2] \in Facts
    OBVIOUS
  <2>1. log[g] \in Seq(Event)
    BY <1>1 DEF LogType, Logs, Place
  <2>2. log[g][i] \in Event
    BY <2>1 DEF Place
  <2> QED BY <2>2 DEF Event
<1>9. LogType' /\ InboxType'
  <2>1. LogType'
    BY <1>1, <1>3 DEF LogType, L
  <2>2. n <= source[s].persisted
    <3>1. ~(n > source[s].persisted)
      BY <1>1, <1>6, NewRows DEF InboxType
    <3>2. source[s].persisted \in Int
      BY <1>1 DEF InboxType, Source
    <3> QED BY <1>6, <3>1, <3>2
  <2>3. source[s].persisted \in Int
    BY <1>1 DEF InboxType, Source
  <2>4. InboxType'
    BY <1>1, <1>4, <1>6, <2>2, <2>3 DEF InboxType
  <2> QED BY <2>1, <2>4
<1>10. Logged'
  <2> SUFFICES ASSUME NEW g \in Nat, NEW i \in Nat, Place(g, i)'
               PROVE  Status(log[g][i][1], log[g][i][2])' = "published"
    BY DEF Logged
  <2>1. CASE Place(g, i)
    <3> DEFINE t == log[g][i][1]
               m == log[g][i][2]
    <3>1. Status(t, m) = "published" /\ t \in Sources /\ m \in Facts
      BY <1>8, <2>1 DEF Inv, Logged
    <3>2. log'[g][i][1] = t /\ log'[g][i][2] = m
      BY <1>3, <2>1
    <3> HIDE DEF t, m
    <3>3. inbox'[t][m].status = "published"
      BY <1>7, <3>1 DEF Status
    <3> QED BY <3>2, <3>3 DEF Status
  <2>2. CASE g = L /\ i = I
    BY <1>3, <1>7, <2>2 DEF Status
  <2> QED BY <1>3, <2>1, <2>2
<1>11. Barrier'
  <2> SUFFICES ASSUME NEW t \in Sources, NEW m \in Facts, NEW k \in Facts,
                      Status(t, m)' = "published", Open(inbox'[t][k])
               PROVE  m < k
    BY DEF Barrier
  <2>1. Open(inbox[t][k]) /\ ~(t = s /\ k = n)
    BY <1>7
  <2>2. CASE Status(t, m) = "published"
    BY <2>1, <2>2 DEF Inv, Barrier
  <2>3. CASE t = s /\ m = n
    <3>1. n <= k /\ k # n /\ k \in Int
      BY <1>6, <2>1, <2>3 DEF Facts
    <3> QED BY <1>6, <2>3, <3>1
  <2> QED BY <1>7, <2>2, <2>3
<1>12. Ordered'
  <2> SUFFICES ASSUME NEW g \in Nat, NEW i \in Nat, NEW h \in Nat, NEW j \in Nat,
                      Place(g, i)', Place(h, j)', log'[g][i][1] = log'[h][j][1],
                      g < h \/ (g = h /\ i < j)
               PROVE  log'[g][i][2] < log'[h][j][2]
    BY DEF Ordered
  <2>1. CASE Place(g, i) /\ Place(h, j)
    <3>1. log'[g][i] = log[g][i] /\ log'[h][j] = log[h][j]
      BY <1>3, <2>1
    <3>2. log[g][i][1] = log[h][j][1]
      BY <3>1
    <3> QED BY <2>1, <3>1, <3>2 DEF Inv, Ordered
  <2>2. CASE Place(g, i) /\ h = L /\ j = I
    <3>1. log'[g][i] = log[g][i] /\ log[g][i][1] = s
      BY <1>3, <2>2
    <3>2. Status(s, log[g][i][2]) = "published" /\ log[g][i][2] \in Facts
      BY <1>8, <2>2, <3>1 DEF Inv, Logged
    <3>3. log[g][i][2] < n
      BY <1>6, <3>2 DEF Inv, Barrier
    <3> QED BY <1>3, <2>2, <3>1, <3>3
  <2>3. CASE g = L /\ i = I /\ Place(h, j)
    <3>1. h < L \/ (h = L /\ j < I)
      BY <1>3, <2>3
    <3> QED BY <1>3, <2>3, <3>1
  <2>4. CASE g = L /\ i = I /\ h = L /\ j = I
    BY <1>3, <2>4
  <2> QED BY <1>3, <2>1, <2>2, <2>3, <2>4
<1>13. Kept'
  <2> SUFFICES ASSUME NEW t \in Durable, NEW m \in Facts, m <= source[t].persisted
               PROVE  Open(inbox'[t][m]) \/ Status(t, m)' = "published" \/ Named(t)
    BY DEF Kept, Named
  <2>1. Open(inbox[t][m]) \/ Status(t, m) = "published" \/ Named(t)
    BY DEF Inv, Kept
  <2> QED BY <1>4, <1>7, <2>1
<1>14. Accounted'
  <2> SUFFICES ASSUME NEW g \in Nat, NEW i \in Nat, Place(g, i)',
                      NEW t \in Durable, NEW m \in Facts,
                      t = log'[g][i][1], m < log'[g][i][2]
               PROVE  \/ Status(t, m)' = "published"
                      \/ \E k \in 1..Len(records) : k < g /\ t \in records[k].affected
    BY DEF Accounted
  <2>1. CASE Place(g, i)
    <3>1. \/ Status(t, m) = "published"
          \/ \E k \in 1..Len(records) : k < g /\ t \in records[k].affected
      BY <1>3, <2>1 DEF Inv, Accounted
    <3> QED BY <1>7, <3>1
  <2>2. CASE g = L /\ i = I
    <3>1. t = s /\ m < n
      BY <1>3, <2>2
    <3>2. ~Open(inbox[s][m]) /\ m <= source[s].persisted
      <4>1. m \in Int /\ source[s].persisted \in Int
        BY <1>1 DEF InboxType, Source, Facts
      <4>2. ~(n > source[s].persisted)
        BY <1>1, <1>6, NewRows DEF InboxType
      <4> QED BY <1>6, <3>1, <4>1, <4>2
    <3>3. Status(s, m) = "published" \/ Named(s)
      BY <3>1, <3>2 DEF Inv, Kept
    <3>4. \A k \in 1..Len(records) : k < L
      BY <1>1 DEF LogType, L
    <3> QED BY <1>7, <2>2, <3>1, <3>3, <3>4 DEF Named
  <2> QED BY <1>3, <2>1, <2>2
<1> QED BY <1>9, <1>10, <1>11, <1>12, <1>13, <1>14 DEF Inv

----------------------------------------------------------------------------
(* Workers and sources that are written.                                   *)

LEMMA WorkerForms ==
    ASSUME NEW w \in Worker
    PROVE  /\ Disconnected(w) \in Worker
           /\ \A n \in 0..MaxSeq :
                 /\ [w EXCEPT !.poison = n] \in Worker
                 /\ \A fin \in {"idle", "finalize", "barrier", "rotate"} :
                        [w EXCEPT !.fin = fin, !.barrier = n] \in Worker
           /\ \A fin \in {"idle", "finalize", "barrier", "rotate"} :
                 [w EXCEPT !.fin = fin] \in Worker
           /\ \A lease \in {"none", "held", "over"} :
                 /\ [w EXCEPT !.lease = lease] \in Worker
                 /\ [Idle EXCEPT !.lease = lease] \in Worker
           /\ [w EXCEPT !.conn = "broken"] \in Worker
           /\ \A n \in 0..MaxSeq :
                 [w EXCEPT !.conn = "stream", !.lease = "held", !.from = n] \in Worker
           /\ 0 \in 0..MaxSeq
<1>1. 0 \in 0..MaxSeq
  BY EventsAssumption
<1>2. Disconnected(w) \in Worker
  BY <1>1 DEF Worker, Disconnected
<1>3. Idle \in Worker
  BY <1>1 DEF Worker, Idle
<1> QED BY <1>1, <1>2, <1>3 DEF Worker

LEMMA WorkerWritten ==
    ASSUME Inv, NEW r \in Replicas, NEW s \in Sources, NEW w \in Worker
    PROVE  [worker EXCEPT ![<<r, s>>] = w] \in Workers
BY DEF Inv, Workers

LEMMA WorkerOf ==
    ASSUME Inv, NEW r \in Replicas, NEW s \in Sources
    PROVE  worker[<<r, s>>] \in Worker
BY DEF Inv, Workers

LEMMA SourceWritten ==
    ASSUME Inv, NEW s \in Sources,
           NEW st \in {"active", "degraded", "unavailable"} \cup Blocked
    PROVE  /\ [source EXCEPT ![s].status = st] \in [Sources -> Source]
           /\ \A t \in Sources :
                 [source EXCEPT ![s].status = st][t].persisted = source[t].persisted
<1>1. source \in [Sources -> Source]
  BY DEF Inv, InboxType
<1>2. [source EXCEPT ![s].status = st] = [source EXCEPT ![s] = [source[s] EXCEPT !.status = st]]
  OBVIOUS
<1> DEFINE new == [source[s] EXCEPT !.status = st]
<1>3. new \in Source /\ new.persisted = source[s].persisted
  BY <1>1, SourceForms
<1> HIDE DEF new
<1>4. /\ [source EXCEPT ![s] = new] \in [Sources -> Source]
      /\ \A t \in Sources : [source EXCEPT ![s] = new][t].persisted = source[t].persisted
  BY <1>1, <1>3
<1> QED BY <1>2, <1>4 DEF new

\* A step of a worker that writes its own row only.
LEMMA WorkerStep ==
    ASSUME Inv, UNCHANGED <<source, inbox, log, records>>,
           worker' \in Workers, faults' \in 0..MaxFaults
    PROVE  Inv'
<1>1. source' \in [Sources -> Source]
  BY DEF Inv, InboxType
<1> QED BY <1>1, InboxKept

LEMMA FaultCounts ==
    ASSUME Inv
    PROVE  (Fault \/ UNCHANGED faults) => faults' \in 0..MaxFaults
BY EventsAssumption DEF Inv, Fault

----------------------------------------------------------------------------
(* The actions.                                                            *)

LEMMA OperatorRotatesKeeps == ASSUME Inv, OperatorRotates PROVE Inv'
<1>1. faults' \in 0..MaxFaults
  BY FaultCounts DEF OperatorRotates
<1> DEFINE identity == <<"operator", CHOOSE s \in Sources : TRUE, faults>>
<1>2. PICK affected \in SUBSET Sources : RotateStream(identity, affected, worker)
  BY DEF OperatorRotates
<1>3. identity \in Identity
  <2>1. (CHOOSE s \in Sources : TRUE) \in Sources
    BY EventsAssumption
  <2>2. faults \in Nat
    BY EventsAssumption DEF Inv
  <2> QED BY <2>1, <2>2 DEF Identity
<1>4. worker \in Workers
  BY DEF Inv
<1> HIDE DEF identity
<1> QED BY <1>1, <1>2, <1>3, <1>4, RotateKeeps

LEMMA MappedKeeps ==
    ASSUME Inv, NEW s \in Sources, NEW n \in Facts, Mapped(s, n)
    PROVE  Inv'
<1>1. inbox[s][n] \in Row
  BY DEF Inv, InboxType, Inboxes
<1>2. PICK map \in {"yes", "late"} : inbox' = [inbox EXCEPT ![s][n].map = map]
  BY DEF Mapped
<1> DEFINE new == [inbox[s][n] EXCEPT !.map = map]
<1>3. inbox' = [inbox EXCEPT ![s][n] = new]
  BY <1>2
<1>4. /\ new \in Row /\ new.status = Status(s, n)
      /\ new.final = inbox[s][n].final
  BY <1>1, RowForms DEF Status
<1> HIDE DEF new
<1>5. Open(new) <=> Open(inbox[s][n])
  BY <1>4 DEF Open, Status
<1>6. inbox[s][n] # NoRow
  BY DEF Mapped, NoRow, Waiting
<1>7. /\ source' \in [Sources -> Source] /\ worker' \in Workers
      /\ faults' \in 0..MaxFaults /\ source' = source /\ UNCHANGED <<log, records>>
  BY DEF Inv, InboxType, Mapped
<1> QED BY <1>3, <1>4, <1>5, <1>6, <1>7, OneRow

LEMMA AcquireKeeps ==
    ASSUME Inv, NEW r \in Replicas, NEW s \in Sources, AcquireSourceLease(r, s)
    PROVE  Inv'
<1>1. source[s].persisted \in 0..MaxSeq
  BY DEF Inv, InboxType, Source
<1>2. \A v \in Replicas \X Sources : worker[v] \in Worker
  BY DEF Inv, Workers
<1>3. \A v \in Replicas \X Sources :
          /\ [worker[v] EXCEPT !.conn = "stream", !.lease = "held",
                               !.from = source[s].persisted] \in Worker
          /\ [worker[v] EXCEPT !.lease = "none"] \in Worker
  BY <1>1, <1>2, WorkerForms
<1>4. worker' \in Workers
  BY <1>2, <1>3 DEF AcquireSourceLease, Workers
<1> QED BY <1>4, FaultCounts, WorkerStep DEF AcquireSourceLease

LEMMA LeaseElapsesKeeps ==
    ASSUME Inv, NEW r \in Replicas, NEW s \in Sources, LeaseElapses(r, s)
    PROVE  Inv'
<1>1. PICK lease \in {"none", "over"} :
          worker' = [worker EXCEPT ![<<r, s>>] = [worker[<<r, s>>] EXCEPT !.lease = lease]]
  BY DEF LeaseElapses
<1>2. [worker[<<r, s>>] EXCEPT !.lease = lease] \in Worker
  BY WorkerOf, WorkerForms
<1>3. worker' \in Workers
  BY <1>1, <1>2, WorkerWritten
<1> QED BY <1>3, FaultCounts, WorkerStep DEF LeaseElapses

LEMMA IntakeKeeps ==
    ASSUME Inv, NEW r \in Replicas, NEW s \in Sources, NEW n \in Facts, Intake(r, s, n)
    PROVE  Inv'
<1>1. PICK map \in {"no", "yes"} : inbox' = [inbox EXCEPT ![s][n] = Received(map)]
  BY DEF Intake
<1> DEFINE new == Received(map)
<1>2. /\ inbox' = [inbox EXCEPT ![s][n] = new]
      /\ new \in Row /\ Open(new) /\ new.status # "published"
  BY <1>1, NewRows
<1> HIDE DEF new
<1>3. /\ source' \in [Sources -> Source] /\ source'[s].persisted = n
      /\ \A t \in Sources \ {s} : source'[t].persisted = source[t].persisted
  <2> DEFINE src == [status |-> "active", persisted |-> n]
  <2>1. src \in Source /\ src.persisted = n
    BY EventsAssumption DEF Source, Facts
  <2>2. source' = [source EXCEPT ![s] = src] /\ source \in [Sources -> Source]
    BY DEF Intake, Inv, InboxType
  <2> HIDE DEF src
  <2> QED BY <2>1, <2>2
<1>4. worker' \in Workers /\ faults' \in 0..MaxFaults
  BY DEF Inv, Intake
<1>5. n \in Sent(s) /\ n > source[s].persisted /\ UNCHANGED <<log, records>>
  BY DEF Intake
<1> QED BY <1>2, <1>3, <1>4, <1>5, Arrival

LEMMA IntakePoisonKeeps ==
    ASSUME Inv, NEW r \in Replicas, NEW s \in Sources, NEW n \in Facts, IntakePoison(r, s, n)
    PROVE  Inv'
<1> DEFINE new == Rejected
<1>1. /\ inbox' = [inbox EXCEPT ![s][n] = new]
      /\ new \in Row /\ Open(new) /\ new.status # "published"
  BY NewRows DEF IntakePoison
<1> HIDE DEF new
<1>2. /\ source' \in [Sources -> Source] /\ source'[s].persisted = n
      /\ \A t \in Sources \ {s} : source'[t].persisted = source[t].persisted
  <2> DEFINE src == [status |-> IF s \in Durable THEN "continuity_loss_pending" ELSE "degraded",
                     persisted |-> n]
  <2>1. src \in Source /\ src.persisted = n
    BY EventsAssumption DEF Source, Facts, Blocked
  <2>2. source' = [source EXCEPT ![s] = src] /\ source \in [Sources -> Source]
    BY DEF IntakePoison, Inv, InboxType
  <2> HIDE DEF src
  <2> QED BY <2>1, <2>2
<1>3. worker' \in Workers
  <2> DEFINE w == [worker[<<r, s>>] EXCEPT !.poison = n]
  <2>1. n \in 0..MaxSeq
    BY EventsAssumption DEF Facts
  <2>2. w \in Worker
    BY <2>1, WorkerOf, WorkerForms
  <2>3. worker' = worker \/ worker' = [worker EXCEPT ![<<r, s>>] = w]
    BY DEF IntakePoison
  <2> HIDE DEF w
  <2> QED BY <2>2, <2>3, WorkerWritten DEF Inv
<1>4. faults' \in 0..MaxFaults
  BY DEF Inv, IntakePoison
<1>5. n \in Sent(s) /\ n > source[s].persisted /\ UNCHANGED <<log, records>>
  BY DEF IntakePoison
<1> QED BY <1>1, <1>2, <1>3, <1>4, <1>5, Arrival

LEMMA ConflictKeeps ==
    ASSUME Inv, NEW r \in Replicas, NEW s \in Sources, IntakeConflicts(r, s)
    PROVE  Inv'
<1>1. "blocked_identity_conflict" \in {"active", "degraded", "unavailable"} \cup Blocked
  BY DEF Blocked
<1>2. /\ source' \in [Sources -> Source]
      /\ \A t \in Sources : source'[t].persisted = source[t].persisted
  BY <1>1, SourceWritten DEF IntakeConflicts
<1> DEFINE w == IF worker[<<r, s>>].conn = "broken" THEN worker[<<r, s>>]
                ELSE Disconnected(worker[<<r, s>>])
<1>3. w \in Worker /\ worker' = [worker EXCEPT ![<<r, s>>] = w]
  BY WorkerOf, WorkerForms DEF IntakeConflicts
<1> HIDE DEF w
<1>4. worker' \in Workers
  BY <1>3, WorkerWritten
<1>5. faults' \in 0..MaxFaults /\ UNCHANGED <<log, records, inbox>>
  BY FaultCounts DEF IntakeConflicts
<1> QED BY <1>2, <1>4, <1>5, InboxKept

LEMMA RotateForPoisonKeeps ==
    ASSUME Inv, NEW r \in Replicas, NEW s \in Sources, RotateForPoison(r, s)
    PROVE  Inv'
<1> DEFINE w == [Disconnected(worker[<<r, s>>]) EXCEPT !.poison = 0]
           workers == [worker EXCEPT ![<<r, s>>] = w]
           identity == <<"poison", s, worker[<<r, s>>].poison>>
<1>1. RotateStream(identity, {s}, workers)
  BY DEF RotateForPoison
<1>2. w \in Worker
  BY WorkerOf, WorkerForms
<1>3. identity \in Identity
  BY WorkerOf, EventsAssumption DEF Identity, Worker
<1> HIDE DEF w
<1>4. workers \in Workers
  BY <1>2, WorkerWritten
<1>5. faults' \in 0..MaxFaults
  BY FaultCounts DEF RotateForPoison
<1> HIDE DEF workers, identity
<1> QED BY <1>1, <1>3, <1>4, <1>5, RotateKeeps

LEMMA StreamLosesFactsKeeps ==
    ASSUME Inv, NEW r \in Replicas, NEW s \in Sources, StreamLosesFacts(r, s)
    PROVE  Inv'
<1> DEFINE w == Disconnected(worker[<<r, s>>])
           workers == [worker EXCEPT ![<<r, s>>] = w]
           identity == <<"stream", s, worker[<<r, s>>].from>>
<1>1. RotateStream(identity, {s}, workers)
  BY DEF StreamLosesFacts
<1>2. w \in Worker
  BY WorkerOf, WorkerForms
<1>3. identity \in Identity
  BY WorkerOf, EventsAssumption DEF Identity, Worker
<1> HIDE DEF w
<1>4. workers \in Workers
  BY <1>2, WorkerWritten
<1>5. faults' \in 0..MaxFaults
  BY FaultCounts DEF StreamLosesFacts
<1> HIDE DEF workers, identity
<1> QED BY <1>1, <1>3, <1>4, <1>5, RotateKeeps

LEMMA RotateForBarrierKeeps ==
    ASSUME Inv, NEW r \in Replicas, NEW s \in Sources, RotateForBarrier(r, s)
    PROVE  Inv'
<1> DEFINE d == Disconnected(worker[<<r, s>>])
           w == [d EXCEPT !.fin = "idle", !.barrier = 0]
           workers == [worker EXCEPT ![<<r, s>>] = w]
           identity == <<"mapping", s, worker[<<r, s>>].barrier>>
<1>1. RotateStream(identity, {s}, workers)
  BY DEF RotateForBarrier
<1>2. d \in Worker
  BY WorkerOf, WorkerForms
<1> HIDE DEF d
<1>3. w \in Worker
  BY <1>2, WorkerForms
<1>4. identity \in Identity
  BY WorkerOf, EventsAssumption DEF Identity, Worker
<1> HIDE DEF w
<1>5. workers \in Workers
  BY <1>3, WorkerWritten
<1>6. faults' \in 0..MaxFaults
  BY FaultCounts DEF RotateForBarrier
<1> HIDE DEF workers, identity
<1> QED BY <1>1, <1>4, <1>5, <1>6, RotateKeeps

LEMMA DisconnectKeeps ==
    ASSUME Inv, NEW r \in Replicas, NEW s \in Sources, Disconnect(r, s)
    PROVE  Inv'
<1> DEFINE w == Disconnected(worker[<<r, s>>])
<1>1. w \in Worker /\ worker' = [worker EXCEPT ![<<r, s>>] = w]
  BY WorkerOf, WorkerForms DEF Disconnect
<1> HIDE DEF w
<1>2. worker' \in Workers
  BY <1>1, WorkerWritten
<1> QED BY <1>2, FaultCounts, WorkerStep DEF Disconnect

LEMMA StreamBreaksKeeps ==
    ASSUME Inv, NEW r \in Replicas, NEW s \in Sources, StreamBreaks(r, s)
    PROVE  Inv'
<1> DEFINE w == [worker[<<r, s>>] EXCEPT !.conn = "broken"]
<1>1. w \in Worker /\ worker' = [worker EXCEPT ![<<r, s>>] = w]
  BY WorkerOf, WorkerForms DEF StreamBreaks
<1> HIDE DEF w
<1>2. worker' \in Workers
  BY <1>1, WorkerWritten
<1> QED BY <1>2, FaultCounts, WorkerStep DEF StreamBreaks

LEMMA UnavailableKeeps ==
    ASSUME Inv, NEW r \in Replicas, NEW s \in Sources, MarkSourceUnavailable(r, s)
    PROVE  Inv'
<1> DEFINE w == Disconnected(worker[<<r, s>>])
<1>1. w \in Worker /\ worker' = [worker EXCEPT ![<<r, s>>] = w]
  BY WorkerOf, WorkerForms DEF MarkSourceUnavailable
<1> HIDE DEF w
<1>2. worker' \in Workers
  BY <1>1, WorkerWritten
<1>3. source' = source \/ source' = [source EXCEPT ![s].status = "unavailable"]
  BY DEF MarkSourceUnavailable
<1>4. /\ source' \in [Sources -> Source]
      /\ \A t \in Sources : source'[t].persisted = source[t].persisted
  <2>1. CASE source' = source
    BY <2>1 DEF Inv, InboxType
  <2>2. CASE source' = [source EXCEPT ![s].status = "unavailable"]
    BY <2>2, SourceWritten
  <2> QED BY <1>3, <2>1, <2>2
<1>5. faults' \in 0..MaxFaults /\ UNCHANGED <<log, records, inbox>>
  BY FaultCounts DEF MarkSourceUnavailable
<1> QED BY <1>2, <1>4, <1>5, InboxKept

\* The finalizer goes on with one of its steps.
LEMMA FinalizerGoesOn ==
    ASSUME Inv, NEW r \in Replicas, NEW s \in Sources,
           NEW fin \in {"idle", "finalize", "barrier", "rotate"},
           worker' = [worker EXCEPT ![<<r, s>>].fin = fin]
    PROVE  worker' \in Workers
<1> DEFINE w == [worker[<<r, s>>] EXCEPT !.fin = fin]
<1>1. w \in Worker /\ worker' = [worker EXCEPT ![<<r, s>>] = w]
  BY WorkerOf, WorkerForms
<1> HIDE DEF w
<1>2. [worker EXCEPT ![<<r, s>>] = w] \in Workers
  BY <1>1, WorkerWritten
<1> QED BY <1>1, <1>2

\* The head of the inbox is written: it stays open, or it is skipped and its
\* source is not durable.
LEMMA HeadIsWritten ==
    ASSUME Inv, NEW s \in Sources, NEW n \in Facts, IsHead(s, n),
           NEW st \in {"ready", "pending_mapping", "continuity_loss_pending",
                       "terminal_skipped"},
           st = "terminal_skipped" => s \notin Durable,
           NEW new \in Row, inbox' = [inbox EXCEPT ![s][n] = new],
           new.status = st, new.final = inbox[s][n].final,
           UNCHANGED <<log, records>>, source' \in [Sources -> Source],
           \A t \in Sources : source'[t].persisted = source[t].persisted,
           worker' \in Workers, faults' \in 0..MaxFaults
    PROVE  Inv'
<1>1. Open(inbox[s][n])
  BY DEF IsHead, OpenFacts
<1>2. inbox[s][n] # NoRow /\ Status(s, n) # "published" /\ new.status # "published"
  BY <1>1 DEF Open, NoRow, Status, Waiting, Lost
<1>3. s \in Durable => Open(new)
  BY <1>1 DEF Open, Waiting, Lost
<1> QED BY <1>1, <1>2, <1>3, OneRow

LEMMA PrepareNextKeeps ==
    ASSUME Inv, NEW r \in Replicas, NEW s \in Sources, NEW n \in Facts, PrepareNext(r, s, n)
    PROVE  Inv'
<1>1. inbox[s][n] \in Row
  BY DEF Inv, InboxType, Inboxes
<1>2. UNCHANGED <<log, records>> /\ faults' \in 0..MaxFaults
  BY FaultCounts DEF PrepareNext
<1>3. source \in [Sources -> Source] /\ worker \in Workers
  BY DEF Inv, InboxType
<1>4. CASE PrepareReady(r, s, n)
  <2> DEFINE new == [inbox[s][n] EXCEPT !.status = "ready"]
  <2>1. /\ inbox' = [inbox EXCEPT ![s][n] = new] /\ IsHead(s, n)
        /\ source' = source
        /\ worker' = [worker EXCEPT ![<<r, s>>].fin = "finalize"]
    BY <1>4 DEF PrepareReady
  <2>2. new \in Row /\ new.status = "ready" /\ new.final = inbox[s][n].final
    BY <1>1, RowForms
  <2>3. worker' \in Workers
    BY <2>1, FinalizerGoesOn
  <2> HIDE DEF new
  <2> QED BY <1>2, <1>3, <2>1, <2>2, <2>3, HeadIsWritten
<1>5. CASE PreparePending(r, s, n)
  <2> DEFINE new == [inbox[s][n] EXCEPT !.status = "pending_mapping"]
  <2>1. /\ inbox' = [inbox EXCEPT ![s][n] = new] /\ IsHead(s, n)
        /\ source' = source /\ worker' = worker
    BY <1>5 DEF PreparePending
  <2>2. new \in Row /\ new.status = "pending_mapping" /\ new.final = inbox[s][n].final
    BY <1>1, RowForms
  <2> HIDE DEF new
  <2> QED BY <1>2, <1>3, <2>1, <2>2, HeadIsWritten
<1>6. CASE PrepareLate(r, s, n) /\ s \in Durable
  <2> DEFINE new == [inbox[s][n] EXCEPT !.status = "continuity_loss_pending", !.map = "no"]
  <2>1. /\ inbox' = [inbox EXCEPT ![s][n] = new] /\ IsHead(s, n)
        /\ source' = [source EXCEPT ![s].status = "continuity_loss_pending"]
        /\ worker' = [worker EXCEPT ![<<r, s>>].fin = "barrier"]
    <3>1. inbox' = [inbox EXCEPT ![s][n].status = "continuity_loss_pending",
                                 ![s][n].map = "no"]
      BY <1>6 DEF PrepareLate
    <3>2. inbox' = [inbox EXCEPT ![s][n] = new]
      BY <1>3, <3>1 DEF Inv, InboxType, Inboxes
    <3> QED BY <1>6, <3>2 DEF PrepareLate
  <2>2. new \in Row /\ new.status = "continuity_loss_pending" /\ new.final = inbox[s][n].final
    BY <1>1, RowForms
  <2>3. worker' \in Workers
    BY <2>1, FinalizerGoesOn
  <2>4. /\ source' \in [Sources -> Source]
        /\ \A t \in Sources : source'[t].persisted = source[t].persisted
    BY <2>1, SourceWritten DEF Blocked
  <2> HIDE DEF new
  <2> QED BY <1>2, <2>1, <2>2, <2>3, <2>4, HeadIsWritten
<1>7. CASE PrepareLate(r, s, n) /\ s \notin Durable
  <2> DEFINE new == [inbox[s][n] EXCEPT !.status = "terminal_skipped", !.map = "no"]
  <2>1. /\ inbox' = [inbox EXCEPT ![s][n] = new] /\ IsHead(s, n)
        /\ source' = [source EXCEPT ![s].status = "degraded"] /\ worker' = worker
    <3>1. inbox' = [inbox EXCEPT ![s][n].status = "terminal_skipped", ![s][n].map = "no"]
      BY <1>7 DEF PrepareLate
    <3>2. inbox' = [inbox EXCEPT ![s][n] = new]
      BY <1>3, <3>1 DEF Inv, InboxType, Inboxes
    <3> QED BY <1>7, <3>2 DEF PrepareLate
  <2>2. new \in Row /\ new.status = "terminal_skipped" /\ new.final = inbox[s][n].final
    BY <1>1, RowForms
  <2>3. /\ source' \in [Sources -> Source]
        /\ \A t \in Sources : source'[t].persisted = source[t].persisted
    BY <2>1, SourceWritten
  <2> HIDE DEF new
  <2> QED BY <1>2, <1>3, <1>7, <2>1, <2>2, <2>3, HeadIsWritten
<1>8. CASE PrepareTerminal(r, s, n)
  <2>1. worker' \in Workers
    BY <1>8, FinalizerGoesOn DEF PrepareTerminal
  <2> QED BY <1>2, <1>8, <2>1, WorkerStep DEF PrepareTerminal
<1> QED BY <1>4, <1>5, <1>6, <1>7, <1>8 DEF PrepareNext

LEMMA FinalizeNextKeeps ==
    ASSUME Inv, NEW r \in Replicas, NEW s \in Sources, FinalizeNext(r, s)
    PROVE  Inv'
<1>1. worker' \in Workers
  BY FinalizerGoesOn DEF FinalizeNext
<1>2. faults' \in 0..MaxFaults /\ UNCHANGED <<source, records>>
  BY FaultCounts DEF FinalizeNext
<1>3. CASE UNCHANGED <<inbox, log>>
  BY <1>1, <1>2, <1>3, WorkerStep
<1>4. CASE \E n \in OpenFacts(s) : IsHead(s, n) /\ Published(s, n)
  <2>1. PICK n \in Facts : IsHead(s, n) /\ Published(s, n)
    BY <1>4 DEF OpenFacts
  <2> QED BY <1>1, <1>2, <2>1, PublishKeeps
<1> QED BY <1>3, <1>4 DEF FinalizeNext

LEMMA ReadBarrierKeeps ==
    ASSUME Inv, NEW r \in Replicas, NEW s \in Sources, ReadBarrier(r, s)
    PROVE  Inv'
<1>1. worker' \in Workers
  <2>1. CASE worker' = [worker EXCEPT ![<<r, s>>].fin = "idle"]
    BY <2>1, FinalizerGoesOn
  <2>2. ASSUME NEW n \in Facts,
               worker' = [worker EXCEPT ![<<r, s>>].fin = "rotate", ![<<r, s>>].barrier = n]
        PROVE  worker' \in Workers
    <3> DEFINE w == [worker[<<r, s>>] EXCEPT !.fin = "rotate", !.barrier = n]
    <3>1. n \in 0..MaxSeq
      BY EventsAssumption DEF Facts
    <3>2. w \in Worker
      BY <3>1, WorkerOf, WorkerForms
    <3>3. worker' = [worker EXCEPT ![<<r, s>>] = w]
      BY <2>2 DEF Inv, Workers
    <3> HIDE DEF w
    <3> QED BY <3>2, <3>3, WorkerWritten
  <2> QED BY <2>1, <2>2 DEF ReadBarrier, LostFacts, OpenFacts
<1> QED BY <1>1, FaultCounts, WorkerStep DEF ReadBarrier

LEMMA RotationFailsKeeps ==
    ASSUME Inv, NEW r \in Replicas, NEW s \in Sources, RotationFails(r, s)
    PROVE  Inv'
<1>1. worker' \in Workers
  <2>1. CASE worker' = [worker EXCEPT ![<<r, s>>] = [Disconnected(@) EXCEPT !.poison = 0]]
    <3> DEFINE w == [Disconnected(worker[<<r, s>>]) EXCEPT !.poison = 0]
    <3>1. w \in Worker
      BY WorkerOf, WorkerForms
    <3>2. worker' = [worker EXCEPT ![<<r, s>>] = w]
      BY <2>1
    <3> HIDE DEF w
    <3> QED BY <3>1, <3>2, WorkerWritten
  <2>2. CASE worker' = [worker EXCEPT ![<<r, s>>].fin = "idle", ![<<r, s>>].barrier = 0]
    <3> DEFINE w == [worker[<<r, s>>] EXCEPT !.fin = "idle", !.barrier = 0]
    <3>1. w \in Worker
      BY WorkerOf, WorkerForms
    <3>2. worker' = [worker EXCEPT ![<<r, s>>] = w]
      BY <2>2 DEF Inv, Workers
    <3> HIDE DEF w
    <3> QED BY <3>1, <3>2, WorkerWritten
  <2> QED BY <2>1, <2>2 DEF RotationFails
<1> QED BY <1>1, FaultCounts, WorkerStep DEF RotationFails

LEMMA CrashKeeps ==
    ASSUME Inv, NEW r \in Replicas, Crash(r)
    PROVE  Inv'
<1>1. ASSUME NEW v \in Replicas \X Sources
      PROVE  worker'[v] \in Worker
  <2>1. worker[v] \in Worker
    BY DEF Inv, Workers
  <2>2. \A lease \in {"none", "held", "over"} : [Idle EXCEPT !.lease = lease] \in Worker
    BY <2>1, WorkerForms
  <2>3. PICK lease \in {"none", "held"} :
            worker'[v] = IF v[1] = r THEN [Idle EXCEPT !.lease = lease] ELSE worker[v]
    BY DEF Crash
  <2> QED BY <2>1, <2>2, <2>3
<1>2. worker' \in Workers
  BY <1>1 DEF Crash, Workers
<1> QED BY <1>2, FaultCounts, WorkerStep DEF Crash

----------------------------------------------------------------------------
(* The invariant.                                                          *)

LEMMA InitInv == Init => Inv
<1> SUFFICES ASSUME Init PROVE Inv
  OBVIOUS
<1> USE EventsAssumption
<1>1. LogType
  BY DEF Init, LogType, Logs
<1>2. /\ log = <<<<>>>> /\ records = <<>>
      /\ source = [s \in Sources |-> [status |-> "active", persisted |-> 0]]
      /\ inbox = [s \in Sources |-> [n \in Facts |-> NoRow]]
      /\ worker = [v \in Replicas \X Sources |-> Idle] /\ faults = MaxFaults
  BY DEF Init
<1>3. InboxType
  BY <1>2, NewRows DEF InboxType, Inboxes, Source
<1>4. worker \in Workers
  BY <1>2 DEF Workers, Worker, Idle
<1>5. \A g, i \in Nat : ~Place(g, i)
  BY <1>2 DEF Place
<1>6. \A s \in Sources, n \in Facts : Status(s, n) # "published" /\ ~Open(inbox[s][n])
  BY <1>2, NewRows DEF Status
<1>7. Logged /\ Ordered /\ Accounted
  BY <1>5 DEF Logged, Ordered, Accounted
<1>8. Barrier
  BY <1>6 DEF Barrier
<1>9. Kept
  BY <1>2 DEF Kept, Facts
<1> QED BY <1>1, <1>2, <1>3, <1>4, <1>7, <1>8, <1>9 DEF Inv

LEMMA NextInv == Inv /\ [Next]_vars => Inv'
<1> SUFFICES ASSUME Inv, [Next]_vars PROVE Inv'
  OBVIOUS
<1>1. CASE UNCHANGED vars
  BY <1>1, WorkerStep DEF vars, Inv
<1>2. CASE OperatorRotates
  BY <1>2, OperatorRotatesKeeps
<1>3. ASSUME NEW s \in Sources, NEW n \in Facts, Mapped(s, n)
      PROVE  Inv'
  BY <1>3, MappedKeeps
<1>4. ASSUME NEW r \in Replicas, NEW s \in Sources,
             \/ AcquireSourceLease(r, s) \/ LeaseElapses(r, s)
             \/ \E n \in Facts : Intake(r, s, n) \/ IntakePoison(r, s, n)
             \/ IntakeConflicts(r, s) \/ RotateForPoison(r, s)
             \/ Disconnect(r, s) \/ StreamBreaks(r, s)
             \/ StreamLosesFacts(r, s) \/ MarkSourceUnavailable(r, s)
             \/ RotationFails(r, s)
      PROVE  Inv'
  BY <1>4, AcquireKeeps, LeaseElapsesKeeps, IntakeKeeps, IntakePoisonKeeps, ConflictKeeps,
     RotateForPoisonKeeps, DisconnectKeeps, StreamBreaksKeeps, StreamLosesFactsKeeps,
     UnavailableKeeps, RotationFailsKeeps
<1>5. ASSUME NEW r \in Replicas, NEW s \in Sources, Finalizer(r, s)
      PROVE  Inv'
  BY <1>5, PrepareNextKeeps, FinalizeNextKeeps, ReadBarrierKeeps, RotateForBarrierKeeps
     DEF Finalizer
<1>6. ASSUME NEW r \in Replicas, Crash(r)
      PROVE  Inv'
  BY <1>6, CrashKeeps
<1> QED BY <1>1, <1>2, <1>3, <1>4, <1>5, <1>6 DEF Next

LEMMA Invariance == Spec => []Inv
BY InitInv, NextInv, PTL DEF Spec

----------------------------------------------------------------------------
(* The theorems.                                                           *)

\* Every row, event, continuity record and worker keeps its shape, one record
\* closes each generation but the last, and no fact has a row before it arrived.
THEOREM EventsTypeCorrect == Spec => []TypeOK
<1>1. Inv => TypeOK
  <2> SUFFICES ASSUME Inv PROVE TypeOK
    OBVIOUS
  <2>1. LogType /\ InboxType /\ worker \in Workers /\ faults \in 0..MaxFaults
    BY DEF Inv
  <2>2. \A g \in 1..Len(log) : \A i \in 1..Len(log[g]) : log[g][i] \in Sources \X Facts
    <3> SUFFICES ASSUME NEW g \in 1..Len(log), NEW i \in 1..Len(log[g])
                 PROVE  log[g][i] \in Sources \X Facts
      OBVIOUS
    <3>1. log[g] \in Seq(Event)
      BY <2>1 DEF LogType, Logs
    <3> QED BY <3>1 DEF Event
  <2>3. Len(records) = Len(log) - 1
    BY <2>1 DEF LogType
  <2>4. \A g \in 1..Len(records) :
            /\ records[g].identity \in Identity
            /\ records[g].affected \in SUBSET Sources
    <3>1. \A g \in 1..Len(records) : records[g] \in Record
      BY <2>1 DEF LogType
    <3> QED BY <3>1 DEF Record
  <2>5. /\ source \in [Sources -> Source] /\ inbox \in [Sources -> [Facts -> Row]]
        /\ worker \in [Replicas \X Sources -> Worker]
        /\ \A s \in Sources, n \in Facts : n > source[s].persisted => inbox[s][n] = NoRow
    BY <2>1 DEF InboxType, Inboxes, Workers
  <2> QED BY <2>1, <2>2, <2>3, <2>4, <2>5, Zenon DEF TypeOK
<1> QED BY <1>1, Invariance, PTL

\* The place of an event.
LEMMA EventPlace ==
    ASSUME Inv, NEW s \in Sources, NEW p \in EventsOf(s)
    PROVE  /\ p[1] \in Nat /\ p[2] \in Nat /\ Place(p[1], p[2])
           /\ log[p[1]][p[2]][1] = s /\ log[p[1]][p[2]][2] \in Facts
<1>1. /\ p[1] \in 1..Len(log) /\ p[2] \in 1..(MaxSeq * Cardinality(Sources))
      /\ p[2] <= Len(log[p[1]]) /\ log[p[1]][p[2]][1] = s
  BY DEF EventsOf
<1>2. log[p[1]] \in Seq(Event) /\ p[1] \in Nat
  BY <1>1 DEF Inv, LogType, Logs
<1>3. MaxSeq * Cardinality(Sources) \in Nat
  BY EventsAssumption, FS_CardinalityType
<1>4. p[2] \in 1..Len(log[p[1]]) /\ p[2] \in Nat
  BY <1>1, <1>2, <1>3
<1>5. log[p[1]][p[2]] \in Event
  BY <1>2, <1>4
<1> QED BY <1>1, <1>2, <1>4, <1>5 DEF Place, Event

\* The publication barrier: whichever replicas finalize, and through rotations
\* and lost leases, the facts of a source are published once and in source order
\* (finalizeNextSourceEvent).
THEOREM EventsInOrder == Spec => []PublishedInOrder
<1>1. Inv => PublishedInOrder
  <2> SUFFICES ASSUME Inv, NEW s \in Sources, NEW p \in EventsOf(s), NEW q \in EventsOf(s),
                      Earlier(p, q)
               PROVE  FactAt(p) < FactAt(q)
    BY DEF PublishedInOrder
  <2> QED BY EventPlace DEF Inv, Ordered, Earlier, FactAt
<1> QED BY <1>1, Invariance, PTL

\* When an event of a durable source is published, each earlier fact of the source
\* was published, or a continuity record of an earlier generation names the source
\* (rotateStream).
THEOREM NothingIsLostInSilence == Spec => []NothingLostInSilence
<1>1. Inv => NothingLostInSilence
  <2> SUFFICES ASSUME Inv, NEW s \in Durable, NEW p \in EventsOf(s),
                      NEW n \in 1..(FactAt(p) - 1)
               PROVE  \/ inbox[s][n].status = "published"
                      \/ \E g \in 1..Len(records) : g < p[1] /\ s \in records[g].affected
    BY DEF NothingLostInSilence
  <2>1. s \in Sources
    BY EventsAssumption
  <2>2. /\ p[1] \in Nat /\ p[2] \in Nat /\ Place(p[1], p[2])
        /\ log[p[1]][p[2]][1] = s /\ log[p[1]][p[2]][2] \in Facts
    BY <2>1, EventPlace
  <2>3. n \in Facts /\ n < log[p[1]][p[2]][2]
    BY <2>2, EventsAssumption DEF FactAt, Facts
  <2> QED BY <2>2, <2>3 DEF Inv, Accounted, Status
<1> QED BY <1>1, Invariance, PTL
=============================================================================
