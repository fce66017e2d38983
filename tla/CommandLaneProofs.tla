------------------------- MODULE CommandLaneProofs -------------------------
(***************************************************************************)
(* Proofs about CommandLane: whatever handlers, stops, sweeps and clients  *)
(* interleave, and whatever claims are lost, an answer, its command and    *)
(* its request agree; the Adapter takes one answer to a request; calls to  *)
(* it do not overlap without a fault; and a stop that it carried out is    *)
(* the last command that is sent.                                          *)
(***************************************************************************)
EXTENDS CommandLane, SequenceTheorems, TLAPS

-----------------------------------------------------------------------------
(* The inductive invariant.                                                *)

\* What a handler remembers of its command is true.
HandlerTrue(d) ==
    LET p == proc[d] IN
    /\ p.step # "idle" => p.seq \in Seqs /\ commands[p.seq].attempts > 0
    /\ p.revision <= Len(snapshots)
    /\ p.step = "answered" /\ p.reply = "accepted" => p.seq \in applied
    /\ p.step = "answered" /\ p.reply = "rejected" => p.seq \in refused
    /\ p.step = "restore" => commands[p.seq].type = "CANCEL" /\ p.seq \in refused
    /\ p.step = "supersede" => commands[p.seq].type # "CANCEL"

Handlers == \A d \in Dispatchers : HandlerTrue(d)

\* A stop that may still have been, or may be, carried out.
Effective(i) ==
    /\ commands[i].type = "CANCEL"
    /\ \/ commands[i].state \in Unfinished \cup {"ACKNOWLEDGED"}
       \/ commands[i].state = "EXHAUSTED" /\ i \notin refused

\* Nobody holds a command that is not a stop.
NormalsFree == \A j \in Seqs : commands[j].type \in Normal => commands[j].state # "CLAIMED"

\* One command of the Task is claimed, what the Adapter carried out was claimed,
\* and a stop that was claimed has the Task to itself.
Lane ==
    /\ \A i, j \in Seqs : commands[i].state = "CLAIMED" /\ commands[j].state = "CLAIMED" => i = j
    /\ \A i \in applied : commands[i].attempts > 0
    /\ \A i \in Seqs : \A p, q \in commands[i].payload : p[1] = q[1] => p = q
    /\ \A i \in Seqs : commands[i].inboxed => commands[i].type = "UPDATE"
    /\ \A i, j \in StopCommands : i = j
    /\ \A i \in Seqs : commands[i].type = "CANCEL" /\ commands[i].state = "EXHAUSTED" => Terminal
    /\ \A i \in Seqs : Effective(i) =>
           task.stop # "none" /\ (commands[i].attempts > 0 => NormalsFree)

\* A command delivers the answer that the inbox keeps.
Given ==
    /\ \A k \in Keys : inbox[k].state # "none" => inbox[k].answer \in Answers
    /\ ~Legacy =>
           \A i \in Seqs : commands[i].type = "UPDATE" => \A p \in commands[i].payload :
               inbox[p[1]].answer = p[2] /\ inbox[p[1]].state \notin {"none", "PENDING"}

\* A response, its command and its request.
ResponseTrue(k) ==
    LET r == inbox[k] IN
    /\ request[k] = "ANSWERED" => Delivered(k, answer[k])
    /\ r.state \in {"ASSIGNED", "ACKNOWLEDGED", "FAILED"} =>
           /\ r.seq \in Seqs /\ commands[r.seq].type = "UPDATE"
           /\ <<k, r.answer>> \in commands[r.seq].payload
    /\ r.state = "ACKNOWLEDGED" => /\ commands[r.seq].state = "ACKNOWLEDGED"
                                   /\ request[k] = "ANSWERED" /\ answer[k] = r.answer
    /\ r.state = "ASSIGNED" => commands[r.seq].state \notin {"ACKNOWLEDGED", "REJECTED"}
    /\ r.state = "FAILED" => commands[r.seq].state \in {"REJECTED", "EXHAUSTED"}

Responses == \A k \in Keys : ResponseTrue(k)

Busy(d) == proc[d].step # "idle"
Holds(d) == Owns(d) /\ ~Cmd(d).over
AllOver == Terminal /\ \A i \in Seqs : commands[i].state \in Finished

\* Without a fault one handler is busy, and holds its claim until the Task ends.
Serial ==
    faults = MaxFaults =>
        /\ \A d, e \in Dispatchers : Busy(d) /\ Busy(e) => d = e
        /\ \A d \in Dispatchers : Busy(d) => Holds(d) \/ AllOver

Inv == TypeOK /\ Handlers /\ Lane /\ Given /\ Responses /\ Serial

-----------------------------------------------------------------------------
(* Rows of commands.                                                       *)

\* A row with an owner exactly while it is claimed.
Sound(c) == c \in Command /\ ((c.owner # Nobody) = (c.state = "CLAIMED"))

\* What no update of a row changes.
Same(c, b) == b.type = c.type /\ b.payload = c.payload /\ b.inboxed = c.inboxed

LEMMA CloseForms ==
    ASSUME NEW c \in Command, NEW st \in Finished \cup {"RETRY_WAIT"}
    PROVE  /\ Sound(Closed(c, st)) /\ Same(c, Closed(c, st))
           /\ Closed(c, st).attempts = c.attempts
           /\ Closed(c, st).state = st
           /\ Sound([Closed(c, st) EXCEPT !.uncertain = TRUE])
           /\ Same(c, [Closed(c, st) EXCEPT !.uncertain = TRUE])
           /\ [Closed(c, st) EXCEPT !.uncertain = TRUE].attempts = c.attempts
           /\ [Closed(c, st) EXCEPT !.uncertain = TRUE].state = st
<1> DEFINE b == Closed(c, st)
<1>1. /\ b \in Command /\ b.owner = Nobody /\ b.state = st /\ b.attempts = c.attempts
      /\ b.type = c.type /\ b.payload = c.payload /\ b.inboxed = c.inboxed
  BY DEF Command, Closed, Finished, Unfinished
<1>2. st # "CLAIMED"
  BY DEF Finished
<1> HIDE DEF b
<1> DEFINE u == [b EXCEPT !.uncertain = TRUE]
<1>3. /\ u \in Command /\ u.owner = b.owner /\ u.state = b.state /\ u.attempts = b.attempts
      /\ u.type = b.type /\ u.payload = b.payload /\ u.inboxed = b.inboxed
  BY <1>1 DEF Command
<1> HIDE DEF u
<1>4. Sound(b) /\ Same(c, b) /\ Sound(u) /\ Same(c, u)
  BY <1>1, <1>2, <1>3 DEF Sound, Same
<1> QED BY <1>1, <1>3, <1>4 DEF b, u

LEMMA ClaimForms ==
    ASSUME NEW c \in Command, NEW d \in Dispatchers
    PROVE  /\ Sound(ClaimedBy(d, c)) /\ Same(c, ClaimedBy(d, c))
           /\ ClaimedBy(d, c).attempts > 0 /\ ClaimedBy(d, c).attempts >= c.attempts
           /\ ClaimedBy(d, c).state = "CLAIMED" /\ ClaimedBy(d, c).owner = Owner[d]
           /\ ~ClaimedBy(d, c).over
<1> DEFINE b == ClaimedBy(d, c)
           n == IF c.attempts < MaxAttempts THEN c.attempts + 1 ELSE c.attempts
<1>1. c.attempts \in 0..MaxAttempts /\ MaxAttempts \in Nat \ {0}
  BY LaneAssumption DEF Command
<1>2. n \in 0..MaxAttempts /\ n > 0 /\ n >= c.attempts
  BY <1>1
<1>3. /\ b \in Command /\ b.owner = Owner[d] /\ b.state = "CLAIMED" /\ b.attempts = n
      /\ ~b.over /\ b.type = c.type /\ b.payload = c.payload /\ b.inboxed = c.inboxed
  <2>1. b = [c EXCEPT !.state = "CLAIMED", !.owner = Owner[d], !.over = FALSE, !.attempts = n]
    BY DEF ClaimedBy
  <2> HIDE DEF b, n
  <2> QED BY <1>2, <2>1 DEF Command, Unfinished
<1>4. Owner[d] # Nobody
  BY LaneAssumption
<1> HIDE DEF b, n
<1>5. Sound(b) /\ Same(c, b)
  BY <1>3, <1>4 DEF Sound, Same
<1> QED BY <1>2, <1>3, <1>5 DEF b

LEMMA RowsSound ==
    ASSUME TypeOK
    PROVE  /\ \A i \in Seqs : Sound(commands[i]) /\ commands[i] \in Command
           /\ Len(commands) \in Nat /\ Seqs = 1..Len(commands)
BY DEF TypeOK, Sound, Seqs

LEMMA RowTypes ==
    ASSUME TypeOK, NEW i \in Seqs
    PROVE  /\ commands[i].attempts \in Int
           /\ commands[i].payload \in SUBSET (Keys \X Answers)
           /\ commands[i].type \in Normal \cup {"CANCEL"}
           /\ commands[i].state \in Unfinished \cup Finished
<1>1. commands[i] \in Command
  BY RowsSound
<1> QED BY <1>1 DEF Command

\* Rows that are all rewritten in place.
LEMMA Rewritten ==
    ASSUME TypeOK, NEW cs, DOMAIN cs = Seqs, cs = [i \in Seqs |-> cs[i]],
           \A i \in Seqs : Sound(cs[i])
    PROVE  cs \in Seq(Command)
<1>1. Len(commands) \in Nat /\ Seqs = 1..Len(commands)
  BY RowsSound
<1>2. cs \in [1..Len(commands) -> Command]
  BY <1>1 DEF Sound
<1> QED BY <1>1, <1>2, SeqDef

LEMMA CloseAllRows ==
    ASSUME TypeOK, NEW S, NEW st \in Finished \cup {"RETRY_WAIT"}
    PROVE  /\ CloseAll(S, st) \in Seq(Command) /\ DOMAIN CloseAll(S, st) = Seqs
           /\ \A i \in Seqs :
                 CloseAll(S, st)[i] = IF i \in S THEN Closed(commands[i], st) ELSE commands[i]
           /\ \A i \in Seqs : Sound(CloseAll(S, st)[i])
<1> DEFINE cs == CloseAll(S, st)
<1>1. /\ DOMAIN cs = Seqs /\ cs = [i \in Seqs |-> cs[i]]
      /\ \A i \in Seqs : cs[i] = IF i \in S THEN Closed(commands[i], st) ELSE commands[i]
  BY DEF CloseAll
<1>2. \A i \in Seqs : Sound(Closed(commands[i], st)) /\ Sound(commands[i])
  BY RowsSound, CloseForms
<1> HIDE DEF cs
<1>3. \A i \in Seqs : Sound(cs[i])
  BY <1>1, <1>2
<1>4. cs \in Seq(Command)
  BY <1>1, <1>3, Rewritten
<1> QED BY <1>1, <1>3, <1>4 DEF cs

LEMMA OneRow ==
    ASSUME TypeOK, NEW m \in Seqs, NEW c, Sound(c), commands' = [commands EXCEPT ![m] = c]
    PROVE  /\ commands' \in Seq(Command) /\ Seqs' = Seqs /\ commands'[m] = c
           /\ \A i \in Seqs : i # m => commands'[i] = commands[i]
           /\ \A i \in Seqs : Sound(commands'[i])
<1>1. /\ Seqs' = Seqs /\ commands'[m] = c
      /\ \A i \in Seqs : i # m => commands'[i] = commands[i]
      /\ DOMAIN commands' = Seqs /\ commands' = [i \in Seqs |-> commands'[i]]
  BY DEF TypeOK, Seqs
<1>2. \A i \in Seqs : Sound(commands'[i])
  BY <1>1, RowsSound
<1>3. commands' \in Seq(Command)
  BY <1>1, <1>2, Rewritten
<1> QED BY <1>1, <1>2, <1>3

LEMMA Appended ==
    ASSUME TypeOK, NEW cs \in Seq(Command), DOMAIN cs = Seqs, \A i \in Seqs : Sound(cs[i]),
           NEW c, Sound(c), commands' = Append(cs, c)
    PROVE  /\ commands' \in Seq(Command) /\ Seqs' = Seqs \cup {Len(commands) + 1}
           /\ commands'[Len(commands) + 1] = c /\ Len(commands) + 1 \notin Seqs
           /\ \A i \in Seqs : commands'[i] = cs[i]
           /\ \A i \in Seqs' : Sound(commands'[i])
<1>1. Len(commands) \in Nat /\ Seqs = 1..Len(commands)
  BY RowsSound
<1>2. Len(cs) = Len(commands) /\ c \in Command
  BY <1>1 DEF Sound
<1>3. /\ commands' \in Seq(Command) /\ Len(commands') = Len(commands) + 1
      /\ commands'[Len(commands) + 1] = c
      /\ \A i \in 1..Len(commands) : commands'[i] = cs[i]
  BY <1>2, AppendProperties
<1>4. Seqs' = 1..(Len(commands) + 1)
  BY <1>3 DEF Seqs
<1>5. Seqs' = Seqs \cup {Len(commands) + 1} /\ Len(commands) + 1 \notin Seqs
  BY <1>1, <1>4
<1> QED BY <1>1, <1>3, <1>5

-----------------------------------------------------------------------------
(* What keeps each part of the invariant.                                  *)

\* No row is dropped, or changes its type or payload, or forgets attempts.
RowsStay ==
    \A i \in Seqs : /\ i \in Seqs' /\ Same(commands[i], commands'[i])
                    /\ commands'[i].attempts >= commands[i].attempts

LEMMA HandlersKept ==
    ASSUME Inv, RowsStay, applied \subseteq applied', refused \subseteq refused',
           Len(snapshots) <= Len(snapshots'), Len(snapshots') \in Nat,
           \A d \in Dispatchers : proc'[d] = proc[d] \/ HandlerTrue(d)',
           \A i \in Seqs : commands'[i].attempts \in Int
    PROVE  Handlers'
<1> SUFFICES ASSUME NEW d \in Dispatchers, proc'[d] = proc[d]
             PROVE  HandlerTrue(d)'
  BY DEF Handlers
<1>1. HandlerTrue(d)
  BY DEF Inv, Handlers
<1>2. /\ proc[d].revision \in Int /\ Len(snapshots) \in Int
      /\ \A i \in Seqs : commands[i].attempts \in Int
  BY RowTypes DEF Inv, TypeOK, Handler
<1>3. proc[d].revision <= Len(snapshots')
  BY <1>1, <1>2 DEF HandlerTrue
<1>4. proc[d].step # "idle" => proc[d].seq \in Seqs' /\ commands'[proc[d].seq].attempts > 0
  BY <1>1, <1>2 DEF HandlerTrue, RowsStay
<1>5. /\ proc[d].step = "restore" => commands'[proc[d].seq].type = "CANCEL"
      /\ proc[d].step = "supersede" => commands'[proc[d].seq].type # "CANCEL"
  BY <1>1 DEF HandlerTrue, RowsStay, Same
<1> QED BY <1>1, <1>3, <1>4, <1>5 DEF HandlerTrue

\* A state changes only by the end or the retry of what is unfinished; a stop
\* that the Adapter refused may be closed again in a Task that ended.
Moves(i) ==
    \/ commands'[i].state = commands[i].state
    \/ /\ commands[i].state \in Unfinished
       /\ commands'[i].state \in Finished \cup {"RETRY_WAIT"}
    \/ /\ commands[i].type = "CANCEL" /\ i \in refused
       /\ commands'[i].state = "EXHAUSTED"

\* Nobody claims; one row may be new.
LEMMA LaneKept ==
    ASSUME Inv,
           \A i \in Seqs : /\ i \in Seqs' /\ Same(commands[i], commands'[i])
                           /\ commands'[i].attempts = commands[i].attempts
                           /\ Moves(i),
           \A i \in Seqs : commands[i].type = "CANCEL" /\ commands'[i].state = "EXHAUSTED"
                               => Terminal',
           \A i, j \in Seqs' \ Seqs : i = j,
           \A i \in Seqs' \ Seqs :
               /\ commands'[i].attempts = 0 /\ commands'[i].state = "PENDING"
               /\ \A p, q \in commands'[i].payload : p[1] = q[1] => p = q
               /\ commands'[i].inboxed => commands'[i].type = "UPDATE"
               /\ commands'[i].type = "CANCEL" => StopCommands = {} /\ task'.stop # "none",
           (task.stop # "none" => task'.stop # "none") \/ \A i \in Seqs' : ~Effective(i)',
           refused \subseteq refused',
           \A i \in applied' : i \in Seqs /\ (i \in applied \/ commands[i].attempts > 0)
    PROVE  Lane'
<1>1. Lane
  BY DEF Inv
<1>2. \A i \in Seqs' : commands'[i].state = "CLAIMED" => i \in Seqs /\ commands[i].state = "CLAIMED"
  BY DEF Moves, Finished
<1>3. \A i, j \in Seqs' : commands'[i].state = "CLAIMED" /\ commands'[j].state = "CLAIMED" => i = j
  BY <1>1, <1>2 DEF Lane
<1>4. \A i \in applied' : commands'[i].attempts > 0
  BY <1>1 DEF Lane
<1>5. \A i \in Seqs' : \A p, q \in commands'[i].payload : p[1] = q[1] => p = q
  BY <1>1 DEF Lane, Same
<1>6. \A i \in Seqs : i \in StopCommands' => i \in StopCommands
  BY DEF StopCommands, Moves, Same, Finished, Unfinished
<1>7. \A i, j \in StopCommands' : i = j
  <2>1. \A i \in StopCommands' : i \in Seqs' /\ commands'[i].type = "CANCEL"
    BY DEF StopCommands
  <2> QED BY <1>1, <1>6, <2>1 DEF Lane
<1>8. \A i \in Seqs' : commands'[i].type = "CANCEL" /\ commands'[i].state = "EXHAUSTED" => Terminal'
  BY DEF Same
<1>9. \A i \in Seqs : Effective(i)' => Effective(i)
  BY DEF Effective, Moves, Same, Finished, Unfinished
<1>10. NormalsFree => NormalsFree'
  <2> SUFFICES ASSUME NormalsFree, NEW j \in Seqs', commands'[j].type \in Normal,
                      commands'[j].state = "CLAIMED"
               PROVE  FALSE
    BY DEF NormalsFree
  <2>1. j \in Seqs /\ commands[j].state = "CLAIMED" /\ commands[j].type \in Normal
    BY <1>2 DEF Same
  <2> QED BY <2>1 DEF NormalsFree
<1>11. ASSUME NEW i \in Seqs', Effective(i)'
       PROVE  task'.stop # "none" /\ (commands'[i].attempts > 0 => NormalsFree')
  <2>1. CASE i \in Seqs
    <3>1. task.stop # "none" /\ (commands[i].attempts > 0 => NormalsFree)
      BY <1>1, <1>9, <1>11, <2>1 DEF Lane
    <3> QED BY <1>10, <1>11, <2>1, <3>1
  <2>2. CASE i \notin Seqs
    <3>1. commands'[i].type = "CANCEL"
      BY <1>11 DEF Effective
    <3>2. commands'[i].attempts = 0 /\ task'.stop # "none"
      BY <2>2, <3>1
    <3> QED BY <3>2
  <2> QED BY <2>1, <2>2
<1>12. \A i \in Seqs' : commands'[i].inboxed => commands'[i].type = "UPDATE"
  BY <1>1 DEF Lane, Same
<1> QED BY <1>3, <1>4, <1>5, <1>7, <1>8, <1>11, <1>12 DEF Lane

\* Answers that were given stay, and nobody makes an UPDATE.
LEMMA GivenKept ==
    ASSUME Inv,
           \A i \in Seqs' : ~Legacy /\ commands'[i].type = "UPDATE" =>
               i \in Seqs /\ Same(commands[i], commands'[i]),
           \A k \in Keys : \/ inbox[k].state \in {"none", "PENDING"}
                           \/ /\ inbox'[k].answer = inbox[k].answer
                              /\ inbox'[k].state \notin {"none", "PENDING"},
           \A k \in Keys : \/ inbox'[k].answer \in Answers
                           \/ /\ inbox'[k].answer = inbox[k].answer
                              /\ inbox[k].state = "none" => inbox'[k].state = "none"
    PROVE  Given'
<1>0. \A k \in Keys : inbox'[k].state # "none" => inbox'[k].answer \in Answers
  BY DEF Inv, Given
<1> SUFFICES ASSUME ~Legacy, NEW i \in Seqs', commands'[i].type = "UPDATE",
                    NEW p \in commands'[i].payload
             PROVE  inbox'[p[1]].answer = p[2] /\ inbox'[p[1]].state \notin {"none", "PENDING"}
  BY <1>0 DEF Given
<1>1. i \in Seqs /\ commands[i].type = "UPDATE" /\ p \in commands[i].payload
  BY DEF Same
<1>2. inbox[p[1]].answer = p[2] /\ inbox[p[1]].state \notin {"none", "PENDING"}
  BY <1>1 DEF Inv, Given
<1>3. p[1] \in Keys
  <2>1. p \in Keys \X Answers
    BY <1>1, RowTypes DEF Inv
  <2> QED BY <2>1
<1> QED BY <1>2, <1>3

\* A response that is not settled, and whose command keeps its outcome.
Quiet(i) ==
    \/ commands'[i].state = commands[i].state
    \/ commands[i].state \in Unfinished /\ commands'[i].state \in Unfinished \cup {"EXHAUSTED"}

LEMMA AnsweredKept ==
    ASSUME Inv, NEW k \in Keys,
           \A i \in Seqs : i \in Seqs' /\ Same(commands[i], commands'[i]),
           applied \subseteq applied',
           request[k] = "ANSWERED" => answer'[k] = answer[k],
           request'[k] = "ANSWERED" => request[k] = "ANSWERED"
    PROVE  request'[k] = "ANSWERED" => Delivered(k, answer[k])'
<1> DEFINE a == answer[k]
<1> SUFFICES ASSUME request'[k] = "ANSWERED" PROVE Delivered(k, answer[k])'
  OBVIOUS
<1>1. answer'[k] = a /\ Delivered(k, a)
  BY DEF Inv, Responses, ResponseTrue
<1> HIDE DEF a
<1>2. PICK i \in applied : commands[i].type = "UPDATE" /\ <<k, a>> \in commands[i].payload
  BY <1>1 DEF Delivered
<1>3. i \in Seqs /\ i \in applied'
  BY DEF Inv, TypeOK, Seqs
<1>4. commands'[i].type = "UPDATE" /\ <<k, a>> \in commands'[i].payload
  BY <1>2, <1>3 DEF Same
<1> QED BY <1>1, <1>3, <1>4 DEF Delivered

LEMMA ResponseKept ==
    ASSUME Inv, NEW k \in Keys,
           \A i \in Seqs : i \in Seqs' /\ Same(commands[i], commands'[i]),
           applied \subseteq applied',
           \A i \in Seqs : commands[i].type = "UPDATE" => Quiet(i),
           request[k] = "ANSWERED" => request'[k] = "ANSWERED" /\ answer'[k] = answer[k],
           request'[k] = "ANSWERED" => request[k] = "ANSWERED",
           inbox'[k] = inbox[k] \/ inbox'[k].state \in {"none", "PENDING", "IGNORED"}
    PROVE  ResponseTrue(k)'
<1>1. ResponseTrue(k)
  BY DEF Inv, Responses
<1>4. request'[k] = "ANSWERED" => Delivered(k, answer[k])'
  BY AnsweredKept
<1>5. CASE inbox'[k] = inbox[k]
  <2> DEFINE r == inbox[k]
  <2>1. r.state \in {"ASSIGNED", "ACKNOWLEDGED", "FAILED"} =>
           /\ r.seq \in Seqs' /\ commands'[r.seq].type = "UPDATE"
           /\ <<k, r.answer>> \in commands'[r.seq].payload /\ Quiet(r.seq)
    BY <1>1 DEF ResponseTrue, Same
  <2>2. r.state = "ACKNOWLEDGED" => /\ commands'[r.seq].state = "ACKNOWLEDGED"
                                    /\ request'[k] = "ANSWERED" /\ answer'[k] = r.answer
    BY <1>1, <2>1 DEF ResponseTrue, Quiet, Unfinished
  <2>3. r.state = "ASSIGNED" => commands'[r.seq].state \notin {"ACKNOWLEDGED", "REJECTED"}
    BY <1>1, <2>1 DEF ResponseTrue, Quiet, Unfinished
  <2>4. r.state = "FAILED" => commands'[r.seq].state \in {"REJECTED", "EXHAUSTED"}
    BY <1>1, <2>1 DEF ResponseTrue, Quiet, Unfinished
  <2> QED BY <1>4, <1>5, <2>1, <2>2, <2>3, <2>4 DEF ResponseTrue
<1>6. CASE inbox'[k].state \in {"none", "PENDING", "IGNORED"}
  BY <1>4, <1>6 DEF ResponseTrue
<1> QED BY <1>5, <1>6

LEMMA SerialByFault ==
    ASSUME Inv, faults' \in 0..MaxFaults, faults > 0, faults' = faults - 1
    PROVE  Serial'
<1>1. faults \in Int /\ faults <= MaxFaults /\ MaxFaults \in Int
  BY LaneAssumption DEF Inv, TypeOK
<1> QED BY <1>1 DEF Serial

\* The only busy handler goes on or is done.
LEMMA SerialByHandler ==
    ASSUME Inv, NEW d \in Dispatchers, Busy(d), NEW h, proc' = [proc EXCEPT ![d] = h],
           UNCHANGED faults,
           \/ h.step = "idle"
           \/ UNCHANGED <<task, commands>> /\ h.seq = proc[d].seq
    PROVE  Serial'
<1> SUFFICES ASSUME faults = MaxFaults
             PROVE  /\ \A c, e \in Dispatchers : Busy(c)' /\ Busy(e)' => c = e
                    /\ \A e \in Dispatchers : Busy(e)' => Holds(e)' \/ AllOver'
  BY DEF Serial
<1>1. /\ \A c, e \in Dispatchers : Busy(c) /\ Busy(e) => c = e
      /\ \A e \in Dispatchers : Busy(e) => Holds(e) \/ AllOver
  BY DEF Inv, Serial
<1>2. proc'[d] = h /\ \A e \in Dispatchers : e # d => proc'[e] = proc[e]
  BY DEF Inv, TypeOK
<1>3. \A e \in Dispatchers : Busy(e)' => e = d
  BY <1>1, <1>2 DEF Busy
<1>4. Busy(d)' => UNCHANGED <<task, commands>> /\ h.seq = proc[d].seq
  BY <1>2 DEF Busy
<1>5. Busy(d)' => Holds(d)' \/ AllOver'
  <2> SUFFICES ASSUME Busy(d)' PROVE Holds(d)' \/ AllOver'
    OBVIOUS
  <2>1. task' = task /\ commands' = commands /\ proc'[d].seq = proc[d].seq
    BY <1>2, <1>4
  <2>2. Holds(d)' <=> Holds(d)
    BY <2>1 DEF Holds, Owns, Cmd
  <2>3. AllOver' <=> AllOver
    BY <2>1 DEF AllOver, Terminal, Seqs
  <2> QED BY <1>1, <2>2, <2>3
<1> QED BY <1>3, <1>5

\* Rows change under the handlers.
LEMMA SerialByRows ==
    ASSUME Inv, UNCHANGED <<proc, faults>>,
           \A d \in Dispatchers : Busy(d) /\ Holds(d) => Holds(d)' \/ AllOver',
           AllOver => AllOver'
    PROVE  Serial'
BY DEF Inv, Serial, Busy

-----------------------------------------------------------------------------
(* Steps of a handler that write no row.                                   *)

LEMMA HandlerMoves ==
    ASSUME Inv, NEW d \in Dispatchers, Busy(d), NEW h \in Handler,
           proc' = [proc EXCEPT ![d] = h],
           UNCHANGED <<task, snapshots, commands, request, answer, inbox>>,
           applied \subseteq applied', refused \subseteq refused',
           applied' \subseteq Seqs, refused' \subseteq Seqs \ applied',
           applied' \subseteq applied \cup {Mine(d)},
           UNCHANGED faults \/ (faults > 0 /\ faults' = faults - 1),
           HandlerTrue(d)',
           h.step = "idle" \/ h.seq = proc[d].seq
    PROVE  Inv'
<1>1. faults' \in 0..MaxFaults
  BY LaneAssumption DEF Inv, TypeOK
<1>2. proc' \in [Dispatchers -> Handler]
  BY DEF Inv, TypeOK
<1>3. TypeOK'
  BY <1>1, <1>2 DEF Inv, TypeOK, Seqs
<1>4. /\ Seqs' = Seqs
      /\ \A i \in Seqs : /\ Same(commands[i], commands'[i])
                         /\ commands'[i].attempts = commands[i].attempts
                         /\ commands'[i].state = commands[i].state
                         /\ commands[i].attempts \in Int
  BY RowTypes DEF Same, Seqs, Inv
<1>5. Handlers'
  <2>1. RowsStay
    BY <1>4 DEF RowsStay
  <2>2. \A e \in Dispatchers : proc'[e] = proc[e] \/ HandlerTrue(e)'
    BY DEF Inv, TypeOK
  <2>3. Len(snapshots) <= Len(snapshots') /\ Len(snapshots') \in Nat
    BY DEF Inv, TypeOK
  <2> QED BY <1>4, <2>1, <2>2, <2>3, HandlersKept
<1>6. Lane'
  <2>1. Mine(d) \in Seqs /\ commands[Mine(d)].attempts > 0
    BY DEF Inv, Handlers, HandlerTrue, Busy, Mine
  <2>2. \A i \in applied' : i \in Seqs /\ (i \in applied \/ commands[i].attempts > 0)
    BY <2>1
  <2>3. \A i \in Seqs : Moves(i)
    BY <1>4 DEF Moves
  <2>4. \A i \in Seqs : commands[i].type = "CANCEL" /\ commands'[i].state = "EXHAUSTED" => Terminal'
    BY <1>4 DEF Inv, Lane, Terminal
  <2> QED BY <1>4, <2>2, <2>3, <2>4, LaneKept
<1>7. Given'
  BY <1>4, GivenKept
<1>8. Responses'
  <2>1. \A i \in Seqs : Quiet(i)
    BY <1>4 DEF Quiet
  <2> QED BY <1>4, <2>1, ResponseKept DEF Responses
<1>9. Serial'
  BY <1>1, SerialByFault, SerialByHandler
<1> QED BY <1>3, <1>5, <1>6, <1>7, <1>8, <1>9 DEF Inv

-----------------------------------------------------------------------------
(* Helpers of the steps that write.                                        *)

LEMMA SettleForms ==
    ASSUME TypeOK, NEW S, NEW st \in {"IGNORED", "FAILED", "ACKNOWLEDGED"}, Settle(S, st)
    PROVE  /\ inbox' \in [Keys -> Response]
           /\ \A k \in Keys :
                 /\ inbox'[k].answer = inbox[k].answer /\ inbox'[k].seq = inbox[k].seq
                 /\ inbox[k].state = "ASSIGNED" /\ inbox[k].seq \in S => inbox'[k].state = st
                 /\ ~(inbox[k].state = "ASSIGNED" /\ inbox[k].seq \in S) => inbox'[k] = inbox[k]
                 /\ inbox[k].state \notin {"none", "PENDING"} =>
                        inbox'[k].state \notin {"none", "PENDING"}
                 /\ inbox[k].state = "none" => inbox'[k].state = "none"
<1>1. ASSUME NEW k \in Keys
      PROVE  LET r == [inbox[k] EXCEPT !.state = st]
             IN  r \in Response /\ r.state = st /\ r.answer = inbox[k].answer /\ r.seq = inbox[k].seq
  BY DEF TypeOK, Response
<1>2. \A k \in Keys : inbox[k] \in Response
  BY DEF TypeOK
<1>3. \A k \in Keys : inbox'[k] = IF inbox[k].state = "ASSIGNED" /\ inbox[k].seq \in S
                                  THEN [inbox[k] EXCEPT !.state = st] ELSE inbox[k]
  BY DEF Settle
<1>4. \A k \in Keys : inbox'[k] \in Response
  BY <1>1, <1>2, <1>3
<1>5. inbox' \in [Keys -> Response]
  BY <1>4 DEF Settle
<1> QED BY <1>1, <1>3, <1>5

RequestStates == {"none", "OPEN", "ANSWERED", "SUPERSEDED"}

LEMMA WithdrawForms ==
    ASSUME TypeOK, NEW K, Withdraw(K) \/ UNCHANGED request
    PROVE  /\ request' \in [Keys -> RequestStates]
           /\ \A k \in Keys : request'[k] = "ANSWERED" <=> request[k] = "ANSWERED"
BY DEF TypeOK, Withdraw, RequestStates

\* A busy handler's own command.
LEMMA OwnCommand ==
    ASSUME Inv, NEW d \in Dispatchers, Busy(d)
    PROVE  /\ Mine(d) \in Seqs /\ Cmd(d) = commands[Mine(d)]
           /\ Cmd(d) \in Command /\ Sound(Cmd(d)) /\ Cmd(d).attempts > 0
<1>1. Mine(d) \in Seqs /\ commands[Mine(d)].attempts > 0
  BY DEF Inv, Handlers, HandlerTrue, Busy, Mine
<1> QED BY <1>1, RowsSound DEF Inv, Cmd, Mine

LEMMA OwnWritten ==
    ASSUME Inv, NEW d \in Dispatchers, Busy(d), NEW c, Sound(c), Same(Cmd(d), c),
           commands' = [commands EXCEPT ![Mine(d)] = c]
    PROVE  /\ commands' \in Seq(Command) /\ Seqs' = Seqs
           /\ commands'[Mine(d)] = c
           /\ \A i \in Seqs : /\ i # Mine(d) => commands'[i] = commands[i]
                              /\ Same(commands[i], commands'[i]) /\ Sound(commands'[i])
<1>1. TypeOK /\ Mine(d) \in Seqs /\ Cmd(d) = commands[Mine(d)]
  BY OwnCommand DEF Inv
<1>2. /\ commands' \in Seq(Command) /\ Seqs' = Seqs /\ commands'[Mine(d)] = c
      /\ \A i \in Seqs : i # Mine(d) => commands'[i] = commands[i]
      /\ \A i \in Seqs : Sound(commands'[i])
  BY <1>1, OneRow
<1> QED BY <1>1, <1>2 DEF Same

\* The handler ends or retries its command and is done.
LEMMA HandlerEnds ==
    ASSUME Inv, NEW d \in Dispatchers, Busy(d), Done(d),
           NEW c, Sound(c), Same(Cmd(d), c), c.attempts = Cmd(d).attempts,
           c.state \in Finished \cup {"RETRY_WAIT"},
           commands' = [commands EXCEPT ![Mine(d)] = c],
           \/ Owns(d)
           \/ Cmd(d).type = "CANCEL" /\ Mine(d) \in refused /\ c.state = "EXHAUSTED",
           UNCHANGED <<snapshots, applied, refused, faults>>,
           task' \in Task, Terminal => Terminal',
           Cmd(d).type = "CANCEL" /\ c.state = "EXHAUSTED" => Terminal',
           \/ task'.stop = task.stop
           \/ /\ Cmd(d).type = "CANCEL" /\ Owns(d) /\ ~Terminal
              /\ Mine(d) \in refused /\ c.state = "REJECTED",
           request' \in [Keys -> RequestStates],
           answer' \in [Keys -> Answers \cup {NoAnswer}],
           inbox' \in [Keys -> Response],
           \A k \in Keys : /\ inbox'[k].answer = inbox[k].answer
                           /\ inbox[k].state \notin {"none", "PENDING"} =>
                                  inbox'[k].state \notin {"none", "PENDING"}
                           /\ inbox[k].state = "none" => inbox'[k].state = "none",
           Responses'
    PROVE  Inv'
<1>1. /\ commands' \in Seq(Command) /\ Seqs' = Seqs /\ commands'[Mine(d)] = c
      /\ \A i \in Seqs : /\ i # Mine(d) => commands'[i] = commands[i]
                         /\ Same(commands[i], commands'[i]) /\ Sound(commands'[i])
  BY OwnWritten
<1>2. /\ Mine(d) \in Seqs /\ Cmd(d) = commands[Mine(d)]
      /\ \A i \in Seqs : commands[i].attempts \in Int
  BY OwnCommand, RowTypes DEF Inv
<1>3. \A i \in Seqs : commands'[i].attempts = commands[i].attempts
  BY <1>1, <1>2
<1>4. IdleHandler \in Handler
  BY LaneAssumption DEF IdleHandler, Handler, Steps, StopReasons, Replies
<1>5. /\ proc' \in [Dispatchers -> Handler] /\ proc'[d] = IdleHandler
      /\ \A e \in Dispatchers : e # d => proc'[e] = proc[e]
  BY <1>4 DEF Inv, TypeOK, Done
<1>6. TypeOK'
  <2>1. \A i \in Seqs' : (commands'[i].owner # Nobody) = (commands'[i].state = "CLAIMED")
    BY <1>1 DEF Sound
  <2> QED BY <1>1, <1>5, <2>1 DEF Inv, TypeOK, RequestStates, Seqs
<1>7. Handlers'
  <2>1. RowsStay
    BY <1>1, <1>2, <1>3 DEF RowsStay
  <2>2. Len(snapshots) <= Len(snapshots') /\ Len(snapshots') \in Nat
    BY DEF Inv, TypeOK
  <2>3. HandlerTrue(d)'
    BY <1>5, <2>2 DEF HandlerTrue, IdleHandler
  <2> QED BY <1>2, <1>3, <1>5, <2>1, <2>2, <2>3, HandlersKept
<1>8. Lane'
  <2>1. Lane
    BY DEF Inv
  <2>2. \A i \in Seqs : Moves(i)
    <3>1. Moves(Mine(d))
      <4>1. Owns(d) => commands[Mine(d)].state \in Unfinished
        BY <1>2 DEF Owns, Unfinished
      <4> QED BY <1>1, <1>2, <4>1 DEF Moves
    <3> QED BY <1>1, <3>1 DEF Moves
  <2>3. ASSUME NEW i \in Seqs, commands[i].type = "CANCEL", commands'[i].state = "EXHAUSTED"
        PROVE  Terminal'
    <3>1. CASE i = Mine(d)
      BY <1>1, <1>2, <2>3, <3>1
    <3>2. CASE i # Mine(d)
      BY <1>1, <2>1, <2>3, <3>2 DEF Lane
    <3> QED BY <3>1, <3>2
  <2>4. (task.stop # "none" => task'.stop # "none") \/ \A i \in Seqs' : ~Effective(i)'
    <3>1. CASE task'.stop = task.stop
      BY <3>1
    <3>2. CASE /\ Cmd(d).type = "CANCEL" /\ Owns(d) /\ ~Terminal
               /\ Mine(d) \in refused /\ c.state = "REJECTED"
      <4> SUFFICES ASSUME NEW i \in Seqs, Effective(i)' PROVE FALSE
        BY <1>1
      <4>1. Mine(d) \in StopCommands
        BY <1>2, <3>2 DEF StopCommands, Owns, Unfinished
      <4>2. i # Mine(d)
        BY <1>1, <3>2 DEF Effective, Finished, Unfinished
      <4>3. commands[i].type = "CANCEL" /\ commands'[i] = commands[i] /\ i \notin StopCommands
        BY <1>1, <2>1, <4>1, <4>2 DEF Effective, Lane
      <4>4. commands[i].state = "EXHAUSTED"
        BY <4>3 DEF Effective, StopCommands
      <4> QED BY <2>1, <3>2, <4>3, <4>4 DEF Lane
    <3> QED BY <3>1, <3>2
  <2>5. \A i \in applied' : i \in Seqs /\ (i \in applied \/ commands[i].attempts > 0)
    BY DEF Inv, TypeOK, Seqs
  <2> QED BY <1>1, <1>3, <2>2, <2>3, <2>4, <2>5, LaneKept
<1>9. Given'
  BY <1>1, GivenKept
<1>10. Serial'
  BY <1>4, SerialByHandler DEF Done, IdleHandler
<1> QED BY <1>6, <1>7, <1>8, <1>9, <1>10 DEF Inv

\* No response gets a final state: the command ends EXHAUSTED or is retried, or is
\* not an UPDATE.
LEMMA ResponsesIgnored ==
    ASSUME Inv, NEW d \in Dispatchers, Busy(d), NEW c, Sound(c), Same(Cmd(d), c),
           commands' = [commands EXCEPT ![Mine(d)] = c],
           \/ Cmd(d).type # "UPDATE"
           \/ Owns(d) /\ c.state \in {"EXHAUSTED", "RETRY_WAIT"},
           UNCHANGED <<applied, answer>>,
           \A k \in Keys : request'[k] = "ANSWERED" <=> request[k] = "ANSWERED",
           \A k \in Keys : inbox'[k] = inbox[k] \/ inbox'[k].state = "IGNORED"
    PROVE  Responses'
<1>1. /\ Seqs' = Seqs /\ commands'[Mine(d)] = c
      /\ \A i \in Seqs : /\ i # Mine(d) => commands'[i] = commands[i]
                         /\ Same(commands[i], commands'[i])
  BY OwnWritten
<1>2. Mine(d) \in Seqs /\ Cmd(d) = commands[Mine(d)]
  BY OwnCommand
<1>3. ASSUME NEW i \in Seqs, commands[i].type = "UPDATE"
      PROVE  Quiet(i)
  <2>1. CASE i # Mine(d)
    BY <1>1, <2>1 DEF Quiet
  <2>2. CASE i = Mine(d)
    BY <1>1, <1>2, <1>3, <2>2 DEF Quiet, Owns, Unfinished
  <2> QED BY <2>1, <2>2
<1>4. ASSUME NEW k \in Keys
      PROVE  ResponseTrue(k)'
  BY <1>1, <1>3, ResponseKept
<1> QED BY <1>4 DEF Responses

\* The command failed, and its responses with it.
LEMMA ResponsesFailed ==
    ASSUME Inv, NEW d \in Dispatchers, Busy(d), NEW c, Sound(c), Same(Cmd(d), c),
           commands' = [commands EXCEPT ![Mine(d)] = c],
           Owns(d), c.state \in {"REJECTED", "EXHAUSTED"},
           UNCHANGED <<applied, answer>>,
           \A k \in Keys : request'[k] = "ANSWERED" <=> request[k] = "ANSWERED",
           Settle({Mine(d)}, "FAILED")
    PROVE  Responses'
<1>1. /\ Seqs' = Seqs /\ commands'[Mine(d)] = c
      /\ \A i \in Seqs : /\ i # Mine(d) => commands'[i] = commands[i]
                         /\ Same(commands[i], commands'[i])
  BY OwnWritten
<1>2. Mine(d) \in Seqs /\ commands[Mine(d)].state = "CLAIMED" /\ TypeOK
  BY OwnCommand DEF Owns, Inv
<1>3. ASSUME NEW k \in Keys
      PROVE  ResponseTrue(k)'
  <2>1. ResponseTrue(k)
    BY DEF Inv, Responses
  <2>2. CASE inbox[k].state = "ASSIGNED" /\ inbox[k].seq = Mine(d)
    <3>1. /\ inbox'[k].state = "FAILED" /\ inbox'[k].seq = Mine(d)
          /\ inbox'[k].answer = inbox[k].answer
      BY <1>2, <2>2, SettleForms
    <3>2. /\ commands'[Mine(d)].type = "UPDATE"
          /\ <<k, inbox[k].answer>> \in commands'[Mine(d)].payload
      BY <1>1, <1>2, <2>1, <2>2 DEF ResponseTrue, Same
    <3>3. request'[k] = "ANSWERED" => Delivered(k, answer[k])'
      BY <1>1, AnsweredKept
    <3> QED BY <1>1, <1>2, <3>1, <3>2, <3>3 DEF ResponseTrue
  <2>3. CASE ~(inbox[k].state = "ASSIGNED" /\ inbox[k].seq = Mine(d))
    <3> DEFINE r == inbox[k]
    <3>1. inbox'[k] = r
      BY <1>2, <2>3, SettleForms
    <3>2. r.state \in {"ASSIGNED", "ACKNOWLEDGED", "FAILED"} =>
              r.seq \in Seqs /\ r.seq # Mine(d) /\ commands'[r.seq] = commands[r.seq]
      BY <1>1, <1>2, <2>1, <2>3 DEF ResponseTrue
    <3>3. request'[k] = "ANSWERED" => Delivered(k, answer[k])'
      BY <1>1, AnsweredKept
    <3> QED BY <1>1, <2>1, <3>1, <3>2, <3>3 DEF ResponseTrue
  <2> QED BY <2>2, <2>3
<1> QED BY <1>3 DEF Responses

-----------------------------------------------------------------------------
(* The steps of a handler.                                                 *)

\* A handler that keeps its command takes its next step.
LEMMA HandlerGoesOn ==
    ASSUME Inv, NEW d \in Dispatchers, Busy(d), NEW h \in Handler,
           proc' = [proc EXCEPT ![d] = h], h.seq = proc[d].seq,
           h.revision \in {proc[d].revision, Len(snapshots)},
           UNCHANGED <<task, snapshots, commands, request, answer, inbox, applied, refused>>,
           UNCHANGED faults \/ (faults > 0 /\ faults' = faults - 1),
           h.step # "answered",
           h.step = "restore" => Cmd(d).type = "CANCEL" /\ Mine(d) \in refused,
           h.step = "supersede" => Cmd(d).type # "CANCEL"
    PROVE  Inv'
<1>1. HandlerTrue(d) /\ TypeOK
  BY DEF Inv, Handlers
<1>2. proc'[d] = h
  BY <1>1 DEF TypeOK
<1>3. Len(snapshots) \in Nat
  BY <1>1 DEF TypeOK
<1>4. h.revision <= Len(snapshots)
  BY <1>1, <1>3 DEF HandlerTrue
<1>5. HandlerTrue(d)'
  BY <1>1, <1>2, <1>4 DEF HandlerTrue, Busy, Mine, Cmd, Seqs
<1>6. /\ applied' \subseteq Seqs /\ refused' \subseteq Seqs \ applied'
      /\ applied \subseteq applied' /\ refused \subseteq refused'
      /\ applied' \subseteq applied \cup {Mine(d)}
  BY <1>1 DEF TypeOK, Seqs
<1> QED BY <1>5, <1>6, HandlerMoves

LEMMA GotoKeeps ==
    ASSUME Inv, NEW d \in Dispatchers, Busy(d), NEW st \in Steps \ {"answered", "restore"},
           Goto(d, st), st = "supersede" => Cmd(d).type # "CANCEL",
           UNCHANGED <<task, snapshots, commands, request, answer, inbox, applied, refused>>,
           UNCHANGED faults \/ (faults > 0 /\ faults' = faults - 1)
    PROVE  Inv'
<1> DEFINE h == [proc[d] EXCEPT !.step = st]
<1>1. proc[d] \in Handler
  BY DEF Inv, TypeOK
<1>2. /\ h \in Handler /\ h.seq = proc[d].seq /\ h.revision = proc[d].revision /\ h.step = st
      /\ proc' = [proc EXCEPT ![d] = h]
  BY <1>1 DEF Handler, Goto
<1> HIDE DEF h
<1> QED BY <1>2, HandlerGoesOn

LEMMA DoneKeeps ==
    ASSUME Inv, NEW d \in Dispatchers, Busy(d), Done(d),
           UNCHANGED <<task, snapshots, commands, request, answer, inbox, applied, refused>>,
           UNCHANGED faults \/ (faults > 0 /\ faults' = faults - 1)
    PROVE  Inv'
<1> DEFINE h == IdleHandler
<1>1. h \in Handler /\ h.step = "idle" /\ h.revision = 0
  BY LaneAssumption DEF IdleHandler, Handler, Steps, StopReasons, Replies
<1>2. proc' = [proc EXCEPT ![d] = h] /\ TypeOK
  BY DEF Done, Inv
<1> HIDE DEF h
<1>3. proc'[d] = h /\ Len(snapshots) \in Nat
  BY <1>2 DEF TypeOK
<1>4. HandlerTrue(d)'
  BY <1>1, <1>3 DEF HandlerTrue
<1>5. /\ applied' \subseteq Seqs /\ refused' \subseteq Seqs \ applied'
      /\ applied \subseteq applied' /\ refused \subseteq refused'
      /\ applied' \subseteq applied \cup {Mine(d)}
  BY <1>2 DEF TypeOK, Seqs
<1> QED BY <1>1, <1>2, <1>4, <1>5, HandlerMoves

LEMMA SendKeeps ==
    ASSUME Inv, NEW d \in Dispatchers, Send(d)
    PROVE  Inv'
<1> DEFINE h == [proc[d] EXCEPT !.step = "calling", !.sawStop = (task.stop # "none")]
<1>1. proc[d] \in Handler
  BY DEF Inv, TypeOK
<1>2. /\ h \in Handler /\ h.seq = proc[d].seq /\ h.revision = proc[d].revision
      /\ h.step = "calling"
  BY <1>1 DEF Handler, Steps
<1>3. proc' = [proc EXCEPT ![d] = h]
  BY <1>1 DEF Send, Handler, Inv, TypeOK
<1>4. Busy(d)
  BY DEF Send, At, Busy
<1> HIDE DEF h
<1> QED BY <1>2, <1>3, <1>4, HandlerGoesOn DEF Send

LEMMA AdapterAnswersKeeps ==
    ASSUME Inv, NEW d \in Dispatchers, NEW reply \in Replies \ {"none"},
           AdapterAnswers(d, reply)
    PROVE  Inv'
<1>1. proc[d] \in Handler /\ TypeOK /\ Busy(d)
  BY DEF Inv, TypeOK, AdapterAnswers, At, Busy
<1>2. PICK st \in {"answered", "thrown", "caught"} :
          /\ proc' = [proc EXCEPT ![d].reply = reply, ![d].step = st]
          /\ st = "answered" => reply \notin {"error", "mismatch"}
  BY DEF AdapterAnswers
<1> DEFINE h == [proc[d] EXCEPT !.reply = reply, !.step = st]
<1>3. /\ h \in Handler /\ h.seq = proc[d].seq /\ h.revision = proc[d].revision
      /\ h.step = st /\ h.reply = reply
  BY <1>1 DEF Handler, Steps
<1>4. proc' = [proc EXCEPT ![d] = h]
  BY <1>1, <1>2 DEF TypeOK
<1> HIDE DEF h
<1>5. proc'[d] = h /\ Mine(d) = proc[d].seq
  BY <1>1, <1>4 DEF TypeOK, Mine
<1>6. /\ applied \subseteq Seqs /\ refused \subseteq Seqs \ applied
      /\ Mine(d) \in Seqs
  BY <1>1, OwnCommand DEF TypeOK, Seqs
<1>7. \/ applied' = applied \cup {Mine(d)} /\ refused' = refused /\ Mine(d) \notin refused
      \/ refused' = refused \cup {Mine(d)} /\ applied' = applied /\ Mine(d) \notin applied
      \/ applied' = applied /\ refused' = refused
  BY DEF AdapterAnswers
<1>8. /\ applied' \subseteq Seqs /\ refused' \subseteq Seqs \ applied'
      /\ applied \subseteq applied' /\ refused \subseteq refused'
      /\ applied' \subseteq applied \cup {Mine(d)}
  BY <1>6, <1>7
<1>9. /\ reply = "accepted" => Mine(d) \in applied'
      /\ reply = "rejected" => Mine(d) \in refused'
  BY DEF AdapterAnswers
<1>10. UNCHANGED faults \/ (faults > 0 /\ faults' = faults - 1)
  <2>1. faults \in Int
    BY <1>1 DEF TypeOK
  <2>2. faults' >= 0 /\ (faults' = faults \/ faults' = faults - 1)
    BY DEF AdapterAnswers
  <2> QED BY <2>1, <2>2
<1>11. UNCHANGED <<task, snapshots, commands, request, answer, inbox>>
  BY DEF AdapterAnswers
<1>12. HandlerTrue(d)'
  <2>1. HandlerTrue(d)
    BY DEF Inv, Handlers
  <2> QED BY <1>1, <1>3, <1>5, <1>9, <1>11, <2>1 DEF HandlerTrue, Busy, Seqs
<1> QED BY <1>1, <1>3, <1>4, <1>8, <1>10, <1>11, <1>12, HandlerMoves

LEMMA ReconcileCancelKeeps ==
    ASSUME Inv, NEW d \in Dispatchers, ReconcileCancel(d)
    PROVE  Inv'
<1>1. proc[d] \in Handler /\ TypeOK /\ Busy(d) /\ HandlerTrue(d)
  BY DEF Inv, TypeOK, Handlers, ReconcileCancel, Answered, At, Busy
<1>2. Cmd(d).type = "CANCEL" /\ Mine(d) \in refused
  BY <1>1 DEF ReconcileCancel, Answered, At, HandlerTrue, Mine
<1>3. UNCHANGED <<task, snapshots, commands, request, answer, inbox, applied, refused>>
  BY DEF ReconcileCancel
<1>4. CASE /\ proc' = [proc EXCEPT ![d].step = "restore", ![d].revision = Len(snapshots)]
           /\ UNCHANGED faults
  <2> DEFINE h == [proc[d] EXCEPT !.step = "restore", !.revision = Len(snapshots)]
  <2>1. Len(snapshots) \in 0..MaxRevision
    BY <1>1, LaneAssumption DEF TypeOK
  <2>2. /\ h \in Handler /\ h.seq = proc[d].seq /\ h.revision = Len(snapshots)
        /\ h.step = "restore"
    BY <1>1, <2>1 DEF Handler, Steps
  <2>3. proc' = [proc EXCEPT ![d] = h]
    BY <1>1, <1>4 DEF TypeOK
  <2> HIDE DEF h
  <2> QED BY <1>1, <1>2, <1>3, <1>4, <2>2, <2>3, HandlerGoesOn
<1>5. CASE /\ faults > 0 /\ faults' = faults - 1
           /\ proc' = [proc EXCEPT ![d].step = "retry"]
  <2>1. Goto(d, "retry") /\ "retry" \in Steps \ {"answered", "restore"}
    BY <1>5 DEF Goto, Steps
  <2> QED BY <1>1, <1>3, <1>5, <2>1, GotoKeeps
<1>6. CASE /\ faults > 0 /\ faults' = faults - 1
           /\ proc' = [proc EXCEPT ![d].step = "caught", ![d].reply = "mismatch"]
  <2> DEFINE h == [proc[d] EXCEPT !.step = "caught", !.reply = "mismatch"]
  <2>1. /\ h \in Handler /\ h.seq = proc[d].seq /\ h.revision = proc[d].revision
        /\ h.step = "caught"
    BY <1>1 DEF Handler, Steps, Replies
  <2>2. proc' = [proc EXCEPT ![d] = h]
    BY <1>1, <1>6 DEF TypeOK
  <2> HIDE DEF h
  <2> QED BY <1>1, <1>3, <1>6, <2>1, <2>2, HandlerGoesOn
<1> QED BY <1>4, <1>5, <1>6 DEF ReconcileCancel

LEMMA LookKeeps ==
    ASSUME Inv, NEW d \in Dispatchers, Look(d) \/ InputRequestNotOpen(d)
    PROVE  Inv'
<1>1. Busy(d)
  BY DEF Look, InputRequestNotOpen, Answered, At, Busy
<1>2. PICK st \in {"supersede", "caught", "retry", "thrown"} : Goto(d, st)
  BY DEF Look, InputRequestNotOpen
<1>3. Cmd(d).type # "CANCEL"
  BY DEF Look, InputRequestNotOpen, Normal
<1>4. st \in Steps \ {"answered", "restore"} /\ (st = "supersede" => Cmd(d).type # "CANCEL")
  BY <1>2, <1>3 DEF Steps
<1>5. UNCHANGED <<task, snapshots, commands, request, answer, inbox, applied, refused, faults>>
  BY DEF Look, InputRequestNotOpen
<1> QED BY <1>1, <1>2, <1>4, <1>5, GotoKeeps

LEMMA LeaveKeeps ==
    ASSUME Inv, NEW d \in Dispatchers, ClaimLost(d) \/ Crash(d)
    PROVE  Inv'
<1>1. Busy(d)
  BY DEF ClaimLost, Crash, At, Busy
<1>2. Done(d)
  BY DEF ClaimLost, Crash
<1>3. /\ UNCHANGED <<task, snapshots, commands, request, answer, inbox, applied, refused>>
      /\ UNCHANGED faults \/ (faults > 0 /\ faults' = faults - 1)
  BY DEF ClaimLost, Crash
<1> QED BY <1>1, <1>2, <1>3, DoneKeeps

-----------------------------------------------------------------------------
(* The steps that end or retry the handler's command.                      *)

\* The row of the command is written, its responses are settled, the handler is done.
Writes(d, c) ==
    /\ Done(d)
    /\ Sound(c) /\ Same(Cmd(d), c) /\ c.attempts = Cmd(d).attempts
    /\ c.state \in Finished \cup {"RETRY_WAIT"}
    /\ commands' = [commands EXCEPT ![Mine(d)] = c]
    /\ UNCHANGED <<snapshots, answer, applied, refused, faults>>
    /\ task' \in Task /\ (Terminal => Terminal')
    /\ Cmd(d).type = "CANCEL" /\ c.state = "EXHAUSTED" => Terminal'

\* No answered request is touched.
Reopens == /\ request' \in [Keys -> RequestStates]
           /\ \A k \in Keys : request'[k] = "ANSWERED" <=> request[k] = "ANSWERED"

LEMMA WritesKeeps ==
    ASSUME Inv, NEW d \in Dispatchers, Busy(d), Owns(d), NEW c, Writes(d, c), Reopens,
           task'.stop = task.stop,
           \/ /\ Settle({Mine(d)}, "IGNORED") \/ UNCHANGED inbox
              /\ Cmd(d).type # "UPDATE" \/ c.state \in {"EXHAUSTED", "RETRY_WAIT"}
           \/ Settle({Mine(d)}, "FAILED") /\ c.state \in {"REJECTED", "EXHAUSTED"}
    PROVE  Inv'
<1>1. TypeOK
  BY DEF Inv
<1>2. /\ inbox' \in [Keys -> Response]
      /\ \A k \in Keys : /\ inbox'[k].answer = inbox[k].answer
                         /\ inbox[k].state \notin {"none", "PENDING"} =>
                                inbox'[k].state \notin {"none", "PENDING"}
                         /\ inbox[k].state = "none" => inbox'[k].state = "none"
  <2>1. CASE UNCHANGED inbox
    BY <1>1, <2>1 DEF TypeOK
  <2>2. CASE Settle({Mine(d)}, "IGNORED")
    BY <1>1, <2>2, SettleForms
  <2>3. CASE Settle({Mine(d)}, "FAILED")
    BY <1>1, <2>3, SettleForms
  <2> QED BY <2>1, <2>2, <2>3
<1>3. Responses'
  <2>1. CASE /\ Settle({Mine(d)}, "IGNORED") \/ UNCHANGED inbox
             /\ Cmd(d).type # "UPDATE" \/ c.state \in {"EXHAUSTED", "RETRY_WAIT"}
    <3>1. \A k \in Keys : inbox'[k] = inbox[k] \/ inbox'[k].state = "IGNORED"
      <4>1. CASE UNCHANGED inbox
        BY <4>1
      <4>2. CASE Settle({Mine(d)}, "IGNORED")
        BY <1>1, <4>2, SettleForms
      <4> QED BY <2>1, <4>1, <4>2
    <3> QED BY <2>1, <3>1, ResponsesIgnored DEF Writes, Reopens
  <2>2. CASE Settle({Mine(d)}, "FAILED") /\ c.state \in {"REJECTED", "EXHAUSTED"}
    BY <2>2, ResponsesFailed DEF Writes, Reopens
  <2> QED BY <2>1, <2>2
<1>4. answer' \in [Keys -> Answers \cup {NoAnswer}]
  BY <1>1 DEF Writes, TypeOK
<1> QED BY <1>2, <1>3, <1>4, HandlerEnds DEF Writes, Reopens

\* The usual write: the row is closed.
LEMMA CloseWrites ==
    ASSUME Inv, NEW d \in Dispatchers, Busy(d), NEW st \in Finished \cup {"RETRY_WAIT"},
           Close(d, st), Done(d),
           UNCHANGED <<snapshots, answer, applied, refused, faults>>,
           task' \in Task, Terminal => Terminal',
           Cmd(d).type = "CANCEL" /\ st = "EXHAUSTED" => Terminal'
    PROVE  /\ Writes(d, Closed(Cmd(d), st)) /\ Closed(Cmd(d), st).state = st
<1>1. Cmd(d) \in Command
  BY OwnCommand
<1> QED BY <1>1, CloseForms DEF Writes, Close

LEMMA SameTask ==
    ASSUME Inv, UNCHANGED task
    PROVE  task' \in Task /\ (Terminal => Terminal') /\ task'.stop = task.stop
BY DEF Inv, TypeOK, Terminal

LEMMA FailedTask ==
    ASSUME Inv, task' = [task EXCEPT !.state = "TERMINAL_FAILED"]
    PROVE  task' \in Task /\ Terminal' /\ task'.stop = task.stop
BY DEF Inv, TypeOK, Terminal, Task, Ended

LEMMA WithdrawReopens ==
    ASSUME Inv, NEW K, Withdraw(K) \/ UNCHANGED request
    PROVE  Reopens
BY WithdrawForms DEF Inv, Reopens

LEMMA RecheckKeeps ==
    ASSUME Inv, NEW d \in Dispatchers, Recheck(d)
    PROVE  Inv'
<1>1. Busy(d) /\ Owns(d)
  BY DEF Recheck, At, Busy
<1>2. UNCHANGED <<task, snapshots, answer, applied, refused, faults>>
  BY DEF Recheck
<1>3. CASE Goto(d, "checked") /\ UNCHANGED <<commands, request, inbox>>
  <2>1. "checked" \in Steps \ {"answered", "restore"}
    BY DEF Steps
  <2> QED BY <1>1, <1>2, <1>3, <2>1, GotoKeeps
<1>4. CASE /\ Close(d, "EXHAUSTED") /\ Settle({Mine(d)}, "IGNORED") /\ Done(d)
           /\ UNCHANGED request \/ Withdraw(KeysOf(Cmd(d)))
           /\ Cmd(d).type = "INTERVENTION" \/ BusinessKeys(Cmd(d)) # {}
  <2>1. Cmd(d).type # "CANCEL"
    <3>1. Cmd(d).inboxed => Cmd(d).type = "UPDATE"
      BY <1>1, OwnCommand DEF Inv, Lane
    <3> QED BY <1>4, <3>1 DEF BusinessKeys
  <2>2. Writes(d, Closed(Cmd(d), "EXHAUSTED")) /\ Closed(Cmd(d), "EXHAUSTED").state = "EXHAUSTED"
    BY <1>1, <1>2, <1>4, <2>1, CloseWrites, SameTask DEF Finished
  <2> QED BY <1>1, <1>2, <1>4, <2>2, WritesKeeps, WithdrawReopens, SameTask
<1> QED BY <1>3, <1>4 DEF Recheck

LEMMA RejectKeeps ==
    ASSUME Inv, NEW d \in Dispatchers, Busy(d), Reject(d)
    PROVE  Inv'
<1>1. /\ Owns(d) /\ Close(d, "REJECTED") /\ Settle({Mine(d)}, "FAILED") /\ Done(d)
      /\ UNCHANGED <<task, snapshots, request, answer, applied, refused, faults>>
  BY DEF Reject
<1>2. Writes(d, Closed(Cmd(d), "REJECTED")) /\ Closed(Cmd(d), "REJECTED").state = "REJECTED"
  BY <1>1, CloseWrites, SameTask DEF Finished
<1> QED BY <1>1, <1>2, WritesKeeps, WithdrawReopens, SameTask

LEMMA RejectionsKeep ==
    ASSUME Inv, NEW d \in Dispatchers,
           RejectOfEndedTask(d) \/ RejectCommand(d) \/ RejectMismatch(d)
    PROVE  Inv'
<1>1. Busy(d) /\ Reject(d)
  BY DEF RejectOfEndedTask, RejectCommand, RejectMismatch, Answered, At, Busy
<1> QED BY <1>1, RejectKeeps

LEMMA AcknowledgeKeeps ==
    ASSUME Inv, NEW d \in Dispatchers, Acknowledge(d)
    PROVE  Inv'
<1>1. /\ Busy(d) /\ Owns(d) /\ Close(d, "ACKNOWLEDGED") /\ Done(d) /\ Cmd(d).type # "UPDATE"
      /\ UNCHANGED <<task, snapshots, request, answer, inbox, applied, refused, faults>>
  BY DEF Acknowledge, Answered, At, Busy
<1>2. Writes(d, Closed(Cmd(d), "ACKNOWLEDGED"))
  BY <1>1, CloseWrites, SameTask DEF Finished
<1> QED BY <1>1, <1>2, WritesKeeps, WithdrawReopens, SameTask

LEMMA IgnoreUpdateKeeps ==
    ASSUME Inv, NEW d \in Dispatchers, IgnoreUpdate(d)
    PROVE  Inv'
<1>1. /\ Busy(d) /\ Owns(d) /\ Close(d, "EXHAUSTED") /\ Done(d) /\ Cmd(d).type = "UPDATE"
      /\ Settle({Mine(d)}, "IGNORED")
      /\ UNCHANGED <<task, snapshots, answer, applied, refused, faults>>
  BY DEF IgnoreUpdate, Answered, At, Busy
<1>2. Writes(d, Closed(Cmd(d), "EXHAUSTED")) /\ Closed(Cmd(d), "EXHAUSTED").state = "EXHAUSTED"
  BY <1>1, CloseWrites, SameTask DEF Finished
<1>3. \/ Withdraw(KeysOf(Cmd(d))) \/ Withdraw(BusinessKeys(Cmd(d))) \/ UNCHANGED request
  BY DEF IgnoreUpdate
<1>4. Reopens
  BY <1>3, WithdrawReopens
<1> QED BY <1>1, <1>2, <1>4, WritesKeeps, SameTask

LEMMA FailInputKeeps ==
    ASSUME Inv, NEW d \in Dispatchers, RejectInputResponse(d) \/ FailInputResponseDelivery(d)
    PROVE  Inv'
<1>1. PICK st \in {"REJECTED", "EXHAUSTED"} : FailInput(d, st)
  BY DEF RejectInputResponse, FailInputResponseDelivery
<1>2. Busy(d) /\ Cmd(d).type = "UPDATE"
  BY DEF RejectInputResponse, FailInputResponseDelivery, Answered, At, Busy
<1>3. /\ Owns(d) /\ Done(d) /\ UNCHANGED <<snapshots, answer, applied, refused, faults>>
      /\ UNCHANGED request \/ Withdraw(KeysOf(Cmd(d)))
  BY <1>1 DEF FailInput
<1>4. Reopens
  BY <1>3, WithdrawReopens
<1>5. CASE Terminal \/ Stopping
  <2>1. Close(d, "EXHAUSTED") /\ Settle({Mine(d)}, "IGNORED") /\ UNCHANGED task
    BY <1>1, <1>5 DEF FailInput
  <2>2. Writes(d, Closed(Cmd(d), "EXHAUSTED")) /\ Closed(Cmd(d), "EXHAUSTED").state = "EXHAUSTED"
    BY <1>2, <1>3, <2>1, CloseWrites, SameTask DEF Finished
  <2> QED BY <1>2, <1>3, <1>4, <2>1, <2>2, WritesKeeps, SameTask
<1>6. CASE ~(Terminal \/ Stopping)
  <2>1. Close(d, st) /\ Settle({Mine(d)}, "FAILED")
        /\ task' = [task EXCEPT !.state = "TERMINAL_FAILED"]
    BY <1>1, <1>6 DEF FailInput
  <2>2. Writes(d, Closed(Cmd(d), st)) /\ Closed(Cmd(d), st).state = st
    BY <1>2, <1>3, <2>1, CloseWrites, FailedTask DEF Finished
  <2> QED BY <1>2, <1>3, <1>4, <2>1, <2>2, WritesKeeps, FailedTask
<1> QED BY <1>5, <1>6

LEMMA FailSafeStopUnconfirmedKeeps ==
    ASSUME Inv, NEW d \in Dispatchers, FailSafeStopUnconfirmed(d)
    PROVE  Inv'
<1>1. /\ Busy(d) /\ Owns(d) /\ Cmd(d).type = "CANCEL" /\ Close(d, "EXHAUSTED") /\ Done(d)
      /\ UNCHANGED <<snapshots, request, answer, inbox, applied, refused, faults>>
  BY DEF FailSafeStopUnconfirmed, Answered, At, Busy
<1>2. task' \in Task /\ Terminal' /\ task'.stop = task.stop
  BY SameTask, FailedTask DEF FailSafeStopUnconfirmed
<1>3. Writes(d, Closed(Cmd(d), "EXHAUSTED"))
  BY <1>1, <1>2, CloseWrites DEF Finished
<1> QED BY <1>1, <1>2, <1>3, WritesKeeps, WithdrawReopens

LEMMA SupersedeClaimedKeeps ==
    ASSUME Inv, NEW d \in Dispatchers, SupersedeClaimed(d)
    PROVE  Inv'
<1>1. /\ Busy(d) /\ Owns(d) /\ Close(d, "EXHAUSTED") /\ Done(d) /\ Settle({Mine(d)}, "IGNORED")
      /\ UNCHANGED <<task, snapshots, request, answer, applied, refused, faults>>
  BY DEF SupersedeClaimed, At, Busy
<1>2. Cmd(d).type # "CANCEL"
  BY DEF SupersedeClaimed, At, Inv, Handlers, HandlerTrue, Cmd
<1>3. Writes(d, Closed(Cmd(d), "EXHAUSTED")) /\ Closed(Cmd(d), "EXHAUSTED").state = "EXHAUSTED"
  BY <1>1, <1>2, CloseWrites, SameTask DEF Finished
<1> QED BY <1>1, <1>3, WritesKeeps, WithdrawReopens, SameTask

LEMMA RetryKeeps ==
    ASSUME Inv, NEW d \in Dispatchers, Retry(d)
    PROVE  Inv'
<1>1. /\ Busy(d) /\ Owns(d) /\ Done(d)
      /\ UNCHANGED <<task, snapshots, request, answer, inbox, applied, refused, faults>>
  BY DEF Retry, Answered, At, Busy
<1>2. Cmd(d) \in Command
  BY <1>1, OwnCommand
<1>3. CASE Cmd(d).type = "INTERVENTION" /\ Cmd(d).attempts = MaxAttempts
  <2> DEFINE c == [Closed(Cmd(d), "EXHAUSTED") EXCEPT !.uncertain = TRUE]
  <2>1. commands' = [commands EXCEPT ![Mine(d)] = c]
    BY <1>3 DEF Retry
  <2>2. Sound(c) /\ Same(Cmd(d), c) /\ c.attempts = Cmd(d).attempts /\ c.state = "EXHAUSTED"
    BY <1>2, CloseForms DEF Finished
  <2> HIDE DEF c
  <2>3. Writes(d, c)
    BY <1>1, <1>3, <2>1, <2>2, SameTask DEF Writes, Finished
  <2> QED BY <1>1, <2>2, <2>3, WritesKeeps, WithdrawReopens, SameTask
<1>4. CASE ~(Cmd(d).type = "INTERVENTION" /\ Cmd(d).attempts = MaxAttempts)
  <2>1. Close(d, "RETRY_WAIT")
    BY <1>4 DEF Retry, Close
  <2>2. Writes(d, Closed(Cmd(d), "RETRY_WAIT")) /\ Closed(Cmd(d), "RETRY_WAIT").state = "RETRY_WAIT"
    BY <1>1, <2>1, CloseWrites, SameTask
  <2> QED BY <1>1, <2>2, WritesKeeps, WithdrawReopens, SameTask
<1> QED BY <1>3, <1>4

LEMMA RejectUserCancelKeeps ==
    ASSUME Inv, NEW d \in Dispatchers, RejectUserCancel(d)
    PROVE  Inv'
<1>1. /\ Busy(d) /\ Done(d)
      /\ UNCHANGED <<snapshots, request, answer, inbox, applied, refused, faults>>
  BY DEF RejectUserCancel, At, Busy
<1>2. /\ Cmd(d).type = "CANCEL" /\ Mine(d) \in refused
      /\ proc[d].revision <= Len(snapshots) /\ proc[d].revision \in 0..MaxRevision
  BY DEF RejectUserCancel, At, Inv, TypeOK, Handler, Handlers, HandlerTrue, Cmd, Mine
<1>3. Reopens /\ answer' \in [Keys -> Answers \cup {NoAnswer}]
      /\ inbox' \in [Keys -> Response]
  BY <1>1, WithdrawReopens DEF Inv, TypeOK
<1>4. CASE Terminal /\ Close(d, "EXHAUSTED") /\ UNCHANGED task
  <2>1. Writes(d, Closed(Cmd(d), "EXHAUSTED")) /\ Closed(Cmd(d), "EXHAUSTED").state = "EXHAUSTED"
    BY <1>1, <1>4, CloseWrites, SameTask DEF Finished
  <2>2. Responses'
    BY <1>1, <1>2, <1>3, <2>1, ResponsesIgnored DEF Writes, Reopens
  <2> QED BY <1>1, <1>2, <1>3, <1>4, <2>1, <2>2, HandlerEnds DEF Writes, Reopens
<1>5. CASE ~Terminal /\ Owns(d) /\ Close(d, "REJECTED")
           /\ \E state \in Live \cup Ended, r \in 0..MaxRevision :
                 task' = [task EXCEPT !.state = state, !.stop = "none", !.revision = r]
  <2>1. task' \in Task
    BY <1>5 DEF Inv, TypeOK, Task, StopReasons
  <2>2. Writes(d, Closed(Cmd(d), "REJECTED")) /\ Closed(Cmd(d), "REJECTED").state = "REJECTED"
    BY <1>1, <1>5, <2>1, CloseWrites DEF Finished
  <2>3. Responses'
    BY <1>1, <1>2, <1>3, <2>2, ResponsesIgnored DEF Writes, Reopens
  <2> QED BY <1>1, <1>2, <1>3, <1>5, <2>1, <2>2, <2>3, HandlerEnds DEF Writes, Reopens
<1>6. ASSUME ~Terminal
      PROVE  \E state \in Live \cup Ended, r \in 0..MaxRevision :
                 task' = [task EXCEPT !.state = state, !.stop = "none", !.revision = r]
  <2> DEFINE r == proc[d].revision
             state == IF r = 0 THEN "RUNNING" ELSE snapshots[r].state
             n == IF r > task.revision THEN r ELSE task.revision
  <2>1. snapshots \in Seq(Snapshot) /\ Len(snapshots) \in Nat
    BY DEF Inv, TypeOK
  <2>2. r # 0 => snapshots[r] \in Snapshot
    BY <1>2, <2>1
  <2>3. state \in Live \cup Ended
    BY <2>2 DEF Snapshot, Live
  <2>4. n \in 0..MaxRevision
    BY <1>2 DEF Inv, TypeOK, Task
  <2>5. task' = [task EXCEPT !.state = state, !.stop = "none", !.revision = n]
    BY <1>6 DEF RejectUserCancel, Inv, TypeOK, Task
  <2> HIDE DEF state, n
  <2> QED BY <2>3, <2>4, <2>5
<1> QED BY <1>4, <1>5, <1>6 DEF RejectUserCancel

\* The requests that a payload answers, and what it answers.
LEMMA PayloadAnswers ==
    ASSUME NEW payload \in SUBSET (Keys \X Answers),
           \A p, q \in payload : p[1] = q[1] => p = q,
           NEW k \in Keys, NEW a, <<k, a>> \in payload
    PROVE  (CHOOSE p \in payload : p[1] = k)[2] = a /\ a \in Answers
<1> DEFINE p == CHOOSE q \in payload : q[1] = k
<1>1. \E q \in payload : q[1] = k
  <2>1. <<k, a>>[1] = k
    OBVIOUS
  <2> QED BY <2>1
<1>2. p \in payload /\ p[1] = k
  BY <1>1
<1> HIDE DEF p
<1>3. p = <<k, a>>
  BY <1>2
<1>4. p[2] = a /\ a \in Answers
  BY <1>3
<1> QED BY <1>4 DEF p

LEMMA KeyOfPayload ==
    ASSUME NEW c, c.payload \in SUBSET (Keys \X Answers), NEW k \in Keys
    PROVE  k \in KeysOf(c) <=> \E a \in Answers : <<k, a>> \in c.payload
<1>1. ASSUME k \in KeysOf(c) PROVE \E a \in Answers : <<k, a>> \in c.payload
  <2>1. PICK p \in c.payload : p[1] = k
    BY <1>1 DEF KeysOf
  <2>2. p = <<p[1], p[2]>> /\ p[2] \in Answers
    BY <2>1
  <2> QED BY <2>1, <2>2
<1>2. ASSUME NEW a \in Answers, <<k, a>> \in c.payload PROVE k \in KeysOf(c)
  <2>1. <<k, a>>[1] = k
    OBVIOUS
  <2> QED BY <1>2, <2>1 DEF KeysOf
<1> QED BY <1>1, <1>2

LEMMA AcknowledgeUpdateKeeps ==
    ASSUME Inv, NEW d \in Dispatchers, AcknowledgeUpdate(d)
    PROVE  Inv'
<1> DEFINE m == Mine(d)
           c == Cmd(d)
           b == Closed(c, "ACKNOWLEDGED")
<1>1. /\ Busy(d) /\ Owns(d) /\ Done(d) /\ c.type = "UPDATE"
      /\ commands' = [commands EXCEPT ![m] = b]
      /\ Settle({m}, "ACKNOWLEDGED")
      /\ UNCHANGED <<snapshots, applied, refused, faults>>
      /\ ~Terminal
  BY DEF AcknowledgeUpdate, Answered, At, Busy, Close
<1>2. TypeOK /\ Lane /\ Responses
  BY DEF Inv
<1>3. /\ m \in Seqs /\ c = commands[m] /\ c \in Command /\ c.state = "CLAIMED"
      /\ c.payload \in SUBSET (Keys \X Answers)
      /\ \A p, q \in c.payload : p[1] = q[1] => p = q
  BY <1>1, <1>2, OwnCommand, RowTypes DEF Owns, Lane
<1>4. m \in applied
  BY DEF AcknowledgeUpdate, Answered, At, Inv, Handlers, HandlerTrue, Mine
<1>5. Sound(b) /\ Same(c, b) /\ b.attempts = c.attempts /\ b.state = "ACKNOWLEDGED"
  BY <1>3, CloseForms DEF Finished
<1>6. /\ Seqs' = Seqs /\ commands'[m] = b
      /\ \A i \in Seqs : i # m => commands'[i] = commands[i]
      /\ \A i \in Seqs : Same(commands[i], commands'[i])
  BY <1>1, <1>5, OwnWritten
<1>7. \A k \in Keys : /\ k \in KeysOf(c) => request[k] = "OPEN" /\ request'[k] = "ANSWERED"
                      /\ k \notin KeysOf(c) => request'[k] = request[k] /\ answer'[k] = answer[k]
  BY DEF AcknowledgeUpdate
<1>8. request' \in [Keys -> RequestStates]
  BY <1>2 DEF AcknowledgeUpdate, TypeOK, RequestStates
<1>9. \A k \in Keys, a \in Answers : <<k, a>> \in c.payload => k \in KeysOf(c) /\ answer'[k] = a
  <2> SUFFICES ASSUME NEW k \in Keys, NEW a \in Answers, <<k, a>> \in c.payload
               PROVE  k \in KeysOf(c) /\ answer'[k] = a
    OBVIOUS
  <2>1. k \in KeysOf(c)
    BY <1>3, KeyOfPayload
  <2>2. answer'[k] = (CHOOSE p \in c.payload : p[1] = k)[2]
    BY <2>1 DEF AcknowledgeUpdate
  <2>3. (CHOOSE p \in c.payload : p[1] = k)[2] = a
    BY <1>3, PayloadAnswers
  <2> QED BY <2>1, <2>2, <2>3
<1>10. answer' \in [Keys -> Answers \cup {NoAnswer}]
  <2>1. \A k \in Keys : answer'[k] \in Answers \cup {NoAnswer}
    <3> SUFFICES ASSUME NEW k \in Keys PROVE answer'[k] \in Answers \cup {NoAnswer}
      OBVIOUS
    <3>1. CASE k \in KeysOf(c)
      <4>1. PICK a \in Answers : <<k, a>> \in c.payload
        BY <1>3, <3>1, KeyOfPayload
      <4> QED BY <1>9, <4>1
    <3>2. CASE k \notin KeysOf(c)
      BY <1>2, <1>7, <3>2 DEF TypeOK
    <3> QED BY <3>1, <3>2
  <2>2. answer' = [k \in Keys |-> answer'[k]]
    BY DEF AcknowledgeUpdate
  <2> QED BY <2>1, <2>2
<1>11. /\ inbox' \in [Keys -> Response]
       /\ \A k \in Keys :
             /\ inbox'[k].answer = inbox[k].answer /\ inbox'[k].seq = inbox[k].seq
             /\ inbox[k].state = "ASSIGNED" /\ inbox[k].seq = m => inbox'[k].state = "ACKNOWLEDGED"
             /\ ~(inbox[k].state = "ASSIGNED" /\ inbox[k].seq = m) => inbox'[k] = inbox[k]
             /\ inbox[k].state \notin {"none", "PENDING"} =>
                    inbox'[k].state \notin {"none", "PENDING"}
             /\ inbox[k].state = "none" => inbox'[k].state = "none"
  BY <1>1, <1>2, SettleForms
<1>12. task' \in Task /\ task'.stop = task.stop
  <2>1. task' = task \/ task' = [task EXCEPT !.state = "RUNNING"]
    BY DEF AcknowledgeUpdate
  <2> QED BY <1>2, <2>1 DEF TypeOK, Task, Live
<1> HIDE DEF b, c
<1>13. ASSUME NEW k \in Keys
       PROVE  ResponseTrue(k)'
  <2> DEFINE r == inbox[k]
  <2>1. ResponseTrue(k)
    BY <1>2 DEF Responses
  <2>2. request'[k] = "ANSWERED" => Delivered(k, answer[k])'
    <3> SUFFICES ASSUME request'[k] = "ANSWERED" PROVE Delivered(k, answer[k])'
      OBVIOUS
    <3> DEFINE a == answer'[k]
    <3>1. CASE k \in KeysOf(c)
      <4>1. PICK x \in Answers : <<k, x>> \in c.payload
        BY <1>3, <3>1, KeyOfPayload
      <4>2. a = x
        BY <1>9, <4>1
      <4>3. m \in applied' /\ commands'[m].type = "UPDATE" /\ <<k, x>> \in commands'[m].payload
        BY <1>1, <1>3, <1>4, <1>6, <4>1 DEF Same, c
      <4> HIDE DEF a, m
      <4>4. <<k, a>> \in commands'[m].payload
        BY <4>2, <4>3
      <4> QED BY <4>3, <4>4 DEF Delivered, a
    <3>2. CASE k \notin KeysOf(c)
      <4>1. a = answer[k] /\ request[k] = "ANSWERED" /\ Delivered(k, answer[k])
        BY <1>7, <2>1, <3>2 DEF ResponseTrue
      <4>2. PICK i \in applied : commands[i].type = "UPDATE" /\ <<k, answer[k]>> \in commands[i].payload
        BY <4>1 DEF Delivered
      <4>3. i \in Seqs
        BY <1>2 DEF TypeOK, Seqs
      <4>4. commands'[i].type = "UPDATE" /\ <<k, answer[k]>> \in commands'[i].payload
        BY <1>6, <4>2, <4>3 DEF Same
      <4>5. i \in applied'
        BY <1>1
      <4> HIDE DEF a
      <4>6. <<k, a>> \in commands'[i].payload
        BY <4>1, <4>4
      <4> QED BY <4>4, <4>5, <4>6 DEF Delivered, a
    <3> QED BY <3>1, <3>2
  <2>3. CASE r.state = "ASSIGNED" /\ r.seq = m
    <3>1. /\ inbox'[k].state = "ACKNOWLEDGED" /\ inbox'[k].seq = m
          /\ inbox'[k].answer = r.answer
      BY <1>11, <2>3
    <3>2. <<k, r.answer>> \in commands[m].payload
      BY <2>1, <2>3 DEF ResponseTrue
    <3>3. r.answer \in Answers
      BY <1>3, <3>2
    <3>4. request'[k] = "ANSWERED" /\ answer'[k] = r.answer
      BY <1>3, <1>7, <1>9, <3>2, <3>3
    <3>5. /\ commands'[m].type = "UPDATE" /\ commands'[m].state = "ACKNOWLEDGED"
          /\ <<k, r.answer>> \in commands'[m].payload /\ m \in Seqs'
      BY <1>1, <1>3, <1>5, <1>6, <3>2 DEF Same
    <3> QED BY <2>2, <3>1, <3>4, <3>5 DEF ResponseTrue
  <2>4. CASE ~(r.state = "ASSIGNED" /\ r.seq = m)
    <3>1. inbox'[k] = r
      BY <1>11, <2>4
    <3>2. r.state \in {"ASSIGNED", "ACKNOWLEDGED", "FAILED"} =>
              /\ r.seq \in Seqs /\ r.seq # m /\ commands'[r.seq] = commands[r.seq]
              /\ r.seq \in Seqs'
      BY <1>3, <1>6, <2>1, <2>4 DEF ResponseTrue
    <3>3. r.state = "ACKNOWLEDGED" => request'[k] = request[k] /\ answer'[k] = answer[k]
      BY <1>7, <2>1 DEF ResponseTrue
    <3> QED BY <2>1, <2>2, <3>1, <3>2, <3>3 DEF ResponseTrue
  <2> QED BY <2>3, <2>4
<1>14. Responses'
  BY <1>13 DEF Responses
<1>15. c = Cmd(d) /\ m = Mine(d) /\ b.state \in Finished
  BY <1>5 DEF c, Finished
<1>16. c.type # "CANCEL" /\ (Terminal => Terminal')
  BY <1>1, <1>3
<1> HIDE DEF m
<1> QED BY <1>1, <1>5, <1>8, <1>10, <1>11, <1>12, <1>14, <1>15, <1>16, HandlerEnds

-----------------------------------------------------------------------------
(* The steps outside the handlers.                                         *)

\* Rows end, or one is made, and no handler moves.
RowsMove ==
    /\ commands' \in Seq(Command)
    /\ \A i \in Seqs' : Sound(commands'[i])
    /\ \A i \in Seqs : /\ i \in Seqs' /\ Same(commands[i], commands'[i])
                       /\ commands'[i].attempts = commands[i].attempts
                       /\ Moves(i)
    /\ \A i \in Seqs : commands[i].type = "CANCEL" /\ commands'[i].state = "EXHAUSTED" => Terminal'
    /\ \A i, j \in Seqs' \ Seqs : i = j
    /\ \A i \in Seqs' \ Seqs :
           /\ commands'[i].attempts = 0 /\ commands'[i].state = "PENDING"
           /\ \A p, q \in commands'[i].payload : p[1] = q[1] => p = q
           /\ commands'[i].inboxed => commands'[i].type = "UPDATE"
           /\ commands'[i].type = "CANCEL" => StopCommands = {} /\ task'.stop # "none"

LEMMA RowsMoveKeeps ==
    ASSUME Inv, RowsMove, UNCHANGED <<proc, applied, refused>>,
           task' \in Task, task.stop # "none" => task'.stop # "none",
           snapshots' \in Seq(Snapshot), Len(snapshots') <= MaxRevision,
           Len(snapshots) <= Len(snapshots'),
           request' \in [Keys -> RequestStates],
           answer' \in [Keys -> Answers \cup {NoAnswer}],
           inbox' \in [Keys -> Response], faults' \in 0..MaxFaults,
           Given', Responses', Serial'
    PROVE  Inv'
<1>1. TypeOK
  BY DEF Inv
<1>2. /\ \A i \in Seqs : commands[i].attempts \in Int
      /\ \A i \in applied : i \in Seqs /\ i \in Seqs'
      /\ \A i \in refused : i \in Seqs /\ i \in Seqs'
  BY <1>1, RowTypes DEF TypeOK, RowsMove, Seqs
<1>3. TypeOK'
  <2>1. \A i \in Seqs' : (commands'[i].owner # Nobody) = (commands'[i].state = "CLAIMED")
    BY DEF RowsMove, Sound
  <2>2. applied' \subseteq Seqs' /\ refused' \subseteq Seqs' \ applied'
    BY <1>1, <1>2 DEF TypeOK
  <2> QED BY <1>1, <2>1, <2>2 DEF TypeOK, RequestStates, Seqs, RowsMove
<1>4. Handlers'
  <2>1. RowsStay
    BY <1>2 DEF RowsStay, RowsMove
  <2>2. Len(snapshots') \in Nat
    OBVIOUS
  <2>3. \A i \in Seqs : commands'[i].attempts \in Int
    BY <1>2 DEF RowsMove
  <2> QED BY <2>1, <2>2, <2>3, HandlersKept
<1>5. Lane'
  <2>1. \A i \in applied' : i \in Seqs /\ (i \in applied \/ commands[i].attempts > 0)
    BY <1>2
  <2> QED BY <2>1, LaneKept DEF RowsMove
<1> QED BY <1>3, <1>4, <1>5 DEF Inv

LEMMA SameRows ==
    ASSUME Inv, UNCHANGED commands, Terminal => Terminal'
    PROVE  /\ RowsMove /\ Seqs' = Seqs
           /\ \A i \in Seqs : Same(commands[i], commands'[i]) /\ Quiet(i)
<1>1. Seqs' = Seqs /\ TypeOK
  BY DEF Seqs, Inv
<1>2. \A i \in Seqs : Same(commands[i], commands'[i]) /\ Quiet(i) /\ Moves(i)
  BY DEF Same, Quiet, Moves
<1>3. commands' \in Seq(Command) /\ \A i \in Seqs' : Sound(commands'[i])
  BY <1>1, RowsSound DEF TypeOK
<1>4. \A i \in Seqs : commands[i].type = "CANCEL" /\ commands'[i].state = "EXHAUSTED" => Terminal'
  BY DEF Inv, Lane
<1> QED BY <1>1, <1>2, <1>3, <1>4 DEF RowsMove

LEMMA SerialSame ==
    ASSUME Inv, UNCHANGED <<proc, commands, faults>>, Terminal => Terminal'
    PROVE  Serial'
<1>1. \A d \in Dispatchers : Holds(d) => Holds(d)'
  BY DEF Holds, Owns, Cmd
<1>2. AllOver => AllOver'
  BY DEF AllOver, Seqs
<1> QED BY <1>1, <1>2, SerialByRows

LEMMA AcceptResponsesKeeps ==
    ASSUME Inv, NEW A \in Calls, AcceptResponses(A)
    PROVE  Inv'
<1>1. UNCHANGED <<task, snapshots, commands, request, answer, proc, applied, refused, faults>>
  BY DEF AcceptResponses
<1>2. TypeOK /\ task' \in Task /\ (Terminal => Terminal') /\ task'.stop = task.stop
  BY <1>1, SameTask DEF Inv
<1>3. \A k \in DOMAIN A : A[k] \in Answers
  BY DEF Calls
<1>4. ASSUME NEW k \in Keys
      PROVE  /\ inbox'[k] \in Response
             /\ \/ inbox'[k] = inbox[k]
                \/ /\ inbox[k].state = "none" /\ inbox'[k].state = "PENDING"
                   /\ inbox'[k].answer \in Answers
  <2>1. CASE k \in DOMAIN A /\ request[k] = "OPEN" /\ inbox[k].state = "none"
    <3>1. inbox'[k] = [state |-> "PENDING", answer |-> A[k], seq |-> 0]
      BY <2>1 DEF AcceptResponses
    <3> QED BY <1>3, <2>1, <3>1 DEF Response
  <2>2. CASE ~(k \in DOMAIN A /\ request[k] = "OPEN" /\ inbox[k].state = "none")
    BY <1>2, <2>2 DEF AcceptResponses, TypeOK
  <2> QED BY <2>1, <2>2
<1>5. inbox' \in [Keys -> Response]
  <2>1. inbox' = [k \in Keys |-> inbox'[k]]
    BY DEF AcceptResponses
  <2> QED BY <1>4, <2>1
<1>6. RowsMove /\ Seqs' = Seqs /\ \A i \in Seqs : Same(commands[i], commands'[i]) /\ Quiet(i)
  BY <1>1, <1>2, SameRows
<1>7. Given'
  BY <1>4, <1>6, GivenKept
<1>8. Responses'
  <2>1. ASSUME NEW k \in Keys PROVE ResponseTrue(k)'
    BY <1>1, <1>4, <1>6, ResponseKept
  <2> QED BY <2>1 DEF Responses
<1>9. Serial'
  BY <1>1, <1>2, SerialSame
<1> QED BY <1>1, <1>2, <1>5, <1>6, <1>7, <1>8, <1>9, RowsMoveKeeps DEF TypeOK, RequestStates

\* The stored answers are left alone.
LEMMA ResponsesUntouched ==
    ASSUME Inv, RowsMove, UNCHANGED <<applied, answer, inbox>>,
           \A i \in Seqs : Quiet(i),
           \A k \in Keys : request'[k] = "ANSWERED" <=> request[k] = "ANSWERED"
    PROVE  Responses'
<1> SUFFICES ASSUME NEW k \in Keys PROVE ResponseTrue(k)'
  BY DEF Responses
<1> QED BY ResponseKept DEF RowsMove

LEMMA GivenUntouched ==
    ASSUME Inv, RowsMove, UNCHANGED inbox,
           \A i \in Seqs' \ Seqs : ~Legacy => commands'[i].type # "UPDATE"
    PROVE  Given'
<1>1. \A i \in Seqs' : ~Legacy /\ commands'[i].type = "UPDATE" =>
          i \in Seqs /\ Same(commands[i], commands'[i])
  BY DEF RowsMove
<1> QED BY <1>1, GivenKept

LEMMA RecordCancellationIntentKeeps ==
    ASSUME Inv, RecordCancellationIntent
    PROVE  Inv'
<1>1. /\ UNCHANGED <<snapshots, commands, request, answer, inbox, proc, applied, refused, faults>>
      /\ task' = [task EXCEPT !.stop = "USER_REQUESTED", !.intent = TRUE]
  BY DEF RecordCancellationIntent
<1>2. TypeOK /\ task' \in Task /\ (Terminal => Terminal') /\ task'.stop # "none"
  BY <1>1 DEF Inv, TypeOK, Task, StopReasons, Terminal
<1>3. RowsMove /\ Seqs' = Seqs /\ \A i \in Seqs : Same(commands[i], commands'[i]) /\ Quiet(i)
  BY <1>1, <1>2, SameRows
<1>4. Given' /\ Responses'
  BY <1>1, <1>3, GivenUntouched, ResponsesUntouched
<1>5. Serial'
  BY <1>1, <1>2, SerialSame
<1> QED BY <1>1, <1>2, <1>3, <1>4, <1>5, RowsMoveKeeps DEF TypeOK, RequestStates

LEMMA NewSnapshotKeeps ==
    ASSUME Inv, NEW state \in Live \cup Ended, NEW K \in SUBSET Keys, NewSnapshot(state, K)
    PROVE  Inv'
<1> DEFINE s == [state |-> state, asked |-> Current.asked \cup K]
<1>1. /\ UNCHANGED <<task, commands, request, answer, inbox, proc, applied, refused, faults>>
      /\ snapshots' = Append(snapshots, s) /\ Len(snapshots) < MaxRevision
  BY DEF NewSnapshot
<1>2. TypeOK /\ task' \in Task /\ (Terminal => Terminal') /\ task'.stop = task.stop
  BY <1>1, SameTask DEF Inv
<1>3. s \in Snapshot
  <2>1. snapshots # << >> => snapshots[Len(snapshots)] \in Snapshot
    BY <1>2 DEF TypeOK
  <2>2. Current.asked \subseteq Keys
    BY <2>1 DEF Current, Snapshot
  <2> QED BY <2>2 DEF Snapshot
<1> HIDE DEF s
<1>4. snapshots' \in Seq(Snapshot) /\ Len(snapshots') = Len(snapshots) + 1
  BY <1>1, <1>2, <1>3, AppendProperties DEF TypeOK
<1>5. Len(snapshots) <= Len(snapshots') /\ Len(snapshots') <= MaxRevision
  BY <1>1, <1>2, <1>4, LaneAssumption DEF TypeOK
<1>6. RowsMove /\ Seqs' = Seqs /\ \A i \in Seqs : Same(commands[i], commands'[i]) /\ Quiet(i)
  BY <1>1, <1>2, SameRows
<1>7. Given' /\ Responses'
  BY <1>1, <1>6, GivenUntouched, ResponsesUntouched
<1>8. Serial'
  BY <1>1, <1>2, SerialSame
<1> QED BY <1>1, <1>2, <1>4, <1>5, <1>6, <1>7, <1>8, RowsMoveKeeps DEF TypeOK, RequestStates

\* A column of a row changes that is not its state.
LEMMA Flagged ==
    ASSUME Inv, NEW m \in Seqs, NEW c, Sound(c), Same(commands[m], c),
           c.attempts = commands[m].attempts, c.state = commands[m].state,
           commands' = [commands EXCEPT ![m] = c], Terminal => Terminal'
    PROVE  /\ RowsMove /\ Seqs' = Seqs /\ commands'[m] = c
           /\ \A i \in Seqs : i # m => commands'[i] = commands[i]
           /\ \A i \in Seqs : Quiet(i) /\ commands'[i].state = commands[i].state
<1>1. /\ commands' \in Seq(Command) /\ Seqs' = Seqs /\ commands'[m] = c
      /\ \A i \in Seqs : i # m => commands'[i] = commands[i]
      /\ \A i \in Seqs : Sound(commands'[i])
  BY OneRow DEF Inv
<1>2. \A i \in Seqs : /\ Same(commands[i], commands'[i])
                      /\ commands'[i].attempts = commands[i].attempts
                      /\ commands'[i].state = commands[i].state
  BY <1>1 DEF Same
<1>3. \A i \in Seqs : commands[i].type = "CANCEL" /\ commands'[i].state = "EXHAUSTED" => Terminal'
  BY <1>2 DEF Inv, Lane
<1>4. RowsMove
  BY <1>1, <1>2, <1>3 DEF RowsMove, Moves
<1> QED BY <1>1, <1>2, <1>4 DEF Quiet

LEMMA LeaseKeeps ==
    ASSUME Inv, NEW m \in Seqs, NEW over \in BOOLEAN,
           commands' = [commands EXCEPT ![m].over = over],
           UNCHANGED <<task, snapshots, request, answer, inbox, proc, applied, refused>>,
           \/ faults > 0 /\ faults' = faults - 1
           \/ /\ UNCHANGED faults
              /\ over => \A d \in Dispatchers : ~(Mine(d) = m /\ Owns(d))
    PROVE  Inv'
<1> DEFINE c == [commands[m] EXCEPT !.over = over]
<1>1. commands' = [commands EXCEPT ![m] = c]
  OBVIOUS
<1>2. /\ Sound(c) /\ Same(commands[m], c) /\ c.attempts = commands[m].attempts
      /\ c.state = commands[m].state /\ c.owner = commands[m].owner /\ c.over = over
  <2>1. Sound(commands[m])
    BY RowsSound DEF Inv
  <2> QED BY <2>1 DEF Sound, Same, Command
<1> HIDE DEF c
<1>3. TypeOK /\ task' \in Task /\ (Terminal => Terminal') /\ task'.stop = task.stop
  BY SameTask DEF Inv
<1>4. /\ RowsMove /\ Seqs' = Seqs /\ commands'[m] = c
      /\ \A i \in Seqs : i # m => commands'[i] = commands[i]
      /\ \A i \in Seqs : Quiet(i) /\ commands'[i].state = commands[i].state
  BY <1>1, <1>2, <1>3, Flagged
<1>5. Given' /\ Responses'
  BY <1>4, GivenUntouched, ResponsesUntouched
<1>6. faults' \in 0..MaxFaults
  BY <1>3, LaneAssumption DEF TypeOK
<1>7. Serial'
  <2>1. CASE faults > 0 /\ faults' = faults - 1
    BY <1>6, <2>1, SerialByFault
  <2>2. CASE /\ UNCHANGED faults
             /\ over => \A d \in Dispatchers : ~(Mine(d) = m /\ Owns(d))
    <3>1. ASSUME NEW d \in Dispatchers, Busy(d), Holds(d)
          PROVE  Holds(d)'
      <4>1. Mine(d) \in Seqs /\ Mine(d)' = Mine(d)
        BY <1>3, <3>1, OwnCommand DEF Mine
      <4>2. CASE Mine(d) = m
        BY <1>2, <1>4, <2>2, <3>1, <4>1, <4>2 DEF Holds, Owns, Cmd, Mine
      <4>3. CASE Mine(d) # m
        BY <1>4, <3>1, <4>1, <4>3 DEF Holds, Owns, Cmd, Mine
      <4> QED BY <4>2, <4>3
    <3>2. AllOver => AllOver'
      BY <1>3, <1>4 DEF AllOver
    <3> QED BY <2>2, <3>1, <3>2, SerialByRows
  <2> QED BY <2>1, <2>2
<1> QED BY <1>3, <1>4, <1>5, <1>6, <1>7, RowsMoveKeeps DEF TypeOK, RequestStates

LEMMA ExpiryKeeps ==
    ASSUME Inv, NEW m \in Seqs, AbandonedClaimExpires(m) \/ HeldClaimExpires(m)
    PROVE  Inv'
<1>1. CASE AbandonedClaimExpires(m)
  <2>1. \A d \in Dispatchers : ~(Mine(d) = m /\ Owns(d))
    BY <1>1 DEF AbandonedClaimExpires, Mine, Owns, Cmd
  <2>2. /\ commands' = [commands EXCEPT ![m].over = TRUE]
        /\ UNCHANGED <<task, snapshots, request, answer, inbox, proc, applied, refused, faults>>
    BY <1>1 DEF AbandonedClaimExpires
  <2> QED BY <2>1, <2>2, LeaseKeeps
<1>2. CASE HeldClaimExpires(m)
  <2>1. /\ commands' = [commands EXCEPT ![m].over = TRUE] /\ faults > 0 /\ faults' = faults - 1
        /\ UNCHANGED <<task, snapshots, request, answer, inbox, proc, applied, refused>>
    BY <1>2 DEF HeldClaimExpires
  <2> QED BY <2>1, LeaseKeeps
<1> QED BY <1>1, <1>2

LEMMA RenewCommandClaimKeeps ==
    ASSUME Inv, NEW d \in Dispatchers, RenewCommandClaim(d)
    PROVE  Inv'
<1>1. /\ commands' = [commands EXCEPT ![Mine(d)].over = FALSE]
      /\ UNCHANGED <<task, snapshots, request, answer, inbox, proc, applied, refused, faults>>
  BY DEF RenewCommandClaim
<1>2. CASE Mine(d) \in Seqs
  BY <1>1, <1>2, LeaseKeeps
<1>3. CASE Mine(d) \notin Seqs
  <2>1. UNCHANGED commands
    BY <1>1, <1>3 DEF Inv, TypeOK, Seqs
  <2>2. TypeOK /\ task' \in Task /\ (Terminal => Terminal') /\ task'.stop = task.stop
    BY <1>1, SameTask DEF Inv
  <2>3. RowsMove /\ Seqs' = Seqs /\ \A i \in Seqs : Same(commands[i], commands'[i]) /\ Quiet(i)
    BY <2>1, <2>2, SameRows
  <2>4. Given' /\ Responses' /\ Serial'
    BY <1>1, <2>1, <2>2, <2>3, GivenUntouched, ResponsesUntouched, SerialSame
  <2> QED BY <1>1, <2>2, <2>3, <2>4, RowsMoveKeeps DEF TypeOK, RequestStates
<1> QED BY <1>2, <1>3

\* A normal command may end when another one is journalled.
MayEnd(i, b) ==
    /\ Sound(b) /\ Same(commands[i], b) /\ b.attempts = commands[i].attempts
    /\ \/ b.state = commands[i].state
       \/ /\ commands[i].state \in Unfinished /\ commands[i].type # "CANCEL"
          /\ b.state = "EXHAUSTED"

\* A command is journalled behind the others.
LEMMA Journalled ==
    ASSUME Inv, NEW cs \in Seq(Command), DOMAIN cs = Seqs,
           \A i \in Seqs : MayEnd(i, cs[i]),
           NEW c, Sound(c), c.attempts = 0, c.state = "PENDING",
           \A p, q \in c.payload : p[1] = q[1] => p = q,
           c.inboxed => c.type = "UPDATE",
           c.type = "CANCEL" => StopCommands = {} /\ task'.stop # "none",
           commands' = Append(cs, c), Terminal => Terminal'
    PROVE  /\ RowsMove /\ Seqs' = Seqs \cup {Len(commands) + 1}
           /\ commands'[Len(commands) + 1] = c /\ Len(commands) + 1 \notin Seqs
           /\ \A i \in Seqs : Quiet(i) /\ commands'[i] = cs[i]
<1>1. /\ commands' \in Seq(Command) /\ Seqs' = Seqs \cup {Len(commands) + 1}
      /\ commands'[Len(commands) + 1] = c /\ Len(commands) + 1 \notin Seqs
      /\ \A i \in Seqs : commands'[i] = cs[i]
      /\ \A i \in Seqs' : Sound(commands'[i])
  BY Appended DEF Inv, MayEnd
<1>2. \A i \in Seqs : /\ Same(commands[i], commands'[i]) /\ i \in Seqs'
                      /\ commands'[i].attempts = commands[i].attempts
                      /\ Moves(i) /\ Quiet(i)
  BY <1>1 DEF MayEnd, Moves, Quiet, Finished
<1>3. \A i \in Seqs : commands[i].type = "CANCEL" /\ commands'[i].state = "EXHAUSTED" => Terminal'
  BY <1>1 DEF Inv, Lane, MayEnd
<1> DEFINE n == Len(commands) + 1
<1>4. \A i \in Seqs' \ Seqs : i = n
  BY <1>1
<1> HIDE DEF n
<1>5. commands'[n] = c
  BY <1>1 DEF n
<1>6. \A i, j \in Seqs' \ Seqs : i = j
  BY <1>4
<1>7. \A i \in Seqs' \ Seqs :
           /\ commands'[i].attempts = 0 /\ commands'[i].state = "PENDING"
           /\ \A p, q \in commands'[i].payload : p[1] = q[1] => p = q
           /\ commands'[i].inboxed => commands'[i].type = "UPDATE"
           /\ commands'[i].type = "CANCEL" => StopCommands = {} /\ task'.stop # "none"
  BY <1>4, <1>5
<1>8. RowsMove
  BY <1>1, <1>2, <1>3, <1>6, <1>7 DEF RowsMove
<1> QED BY <1>1, <1>2, <1>8

\* What is claimed is left alone in a Task that goes on.
LEMMA SerialGoesOn ==
    ASSUME Inv, UNCHANGED <<proc, faults>>, ~Terminal,
           \A i \in Seqs : commands[i].state = "CLAIMED" =>
               /\ commands'[i].state = "CLAIMED" /\ commands'[i].owner = commands[i].owner
               /\ commands'[i].over = commands[i].over
    PROVE  Serial'
<1>1. ASSUME NEW d \in Dispatchers, Busy(d), Holds(d)
      PROVE  Holds(d)'
  <2>1. Mine(d) \in Seqs /\ Mine(d)' = Mine(d)
    BY <1>1, OwnCommand DEF Mine
  <2> QED BY <1>1, <2>1 DEF Holds, Owns, Cmd, Mine
<1>2. AllOver => AllOver'
  BY DEF AllOver
<1> QED BY <1>1, <1>2, SerialByRows

LEMMA FunctionalPayload ==
    ASSUME NEW K \in SUBSET Keys, NEW f, \A k \in K : f[k] \in Answers,
           NEW payload, payload = {<<k, f[k]>> : k \in K}
    PROVE  /\ payload \in SUBSET (Keys \X Answers)
           /\ \A p, q \in payload : p[1] = q[1] => p = q
<1>1. payload \in SUBSET (Keys \X Answers)
  OBVIOUS
<1>2. ASSUME NEW p \in payload, NEW q \in payload, p[1] = q[1]
      PROVE  p = q
  <2>1. PICK k \in K : p = <<k, f[k]>>
    OBVIOUS
  <2>2. PICK j \in K : q = <<j, f[j]>>
    OBVIOUS
  <2>3. k = j
    BY <1>2, <2>1, <2>2
  <2> QED BY <2>1, <2>2, <2>3
<1> QED BY <1>1, <1>2

LEMMA JournalKeeps ==
    ASSUME Inv, NEW type \in Normal, NEW payload \in SUBSET (Keys \X Answers),
           NEW hash \in SUBSET (Keys \X Answers),
           \A p, q \in payload : p[1] = q[1] => p = q, type = "UPDATE" => Legacy, ~Terminal,
           commands' = Append(commands, New(type, payload, hash, FALSE, "none")),
           UNCHANGED <<task, snapshots, request, answer, inbox, proc, applied, refused, faults>>
    PROVE  Inv'
<1> DEFINE c == New(type, payload, hash, FALSE, "none")
<1>1. /\ Sound(c) /\ c.type = type /\ c.payload = payload /\ ~c.inboxed
      /\ c.attempts = 0 /\ c.state = "PENDING"
  <2>1. /\ c \in Command /\ c.owner = Nobody /\ c.type = type /\ c.payload = payload
        /\ ~c.inboxed /\ c.attempts = 0 /\ c.state = "PENDING"
    BY LaneAssumption DEF New, Command, Unfinished, StopReasons
  <2> HIDE DEF c
  <2> QED BY <2>1 DEF Sound
<1>2. TypeOK /\ task' \in Task /\ (Terminal => Terminal') /\ task'.stop = task.stop
  BY SameTask DEF Inv
<1>3. /\ commands \in Seq(Command) /\ DOMAIN commands = Seqs /\ commands' = Append(commands, c)
      /\ \A i \in Seqs : MayEnd(i, commands[i])
  BY <1>2, RowsSound DEF TypeOK, Seqs, Same, MayEnd
<1> HIDE DEF c
<1>4. /\ RowsMove /\ Seqs' = Seqs \cup {Len(commands) + 1}
      /\ commands'[Len(commands) + 1] = c
      /\ \A i \in Seqs : Quiet(i) /\ commands'[i] = commands[i]
  <2>1. c.type # "CANCEL"
    BY <1>1 DEF Normal
  <2> QED BY <1>1, <1>2, <1>3, <2>1, Journalled
<1>5. \A i \in Seqs' \ Seqs : ~Legacy => commands'[i].type # "UPDATE"
  BY <1>1, <1>4
<1>6. Given' /\ Responses'
  BY <1>4, <1>5, GivenUntouched, ResponsesUntouched
<1>7. Serial'
  BY <1>4, SerialGoesOn
<1> QED BY <1>2, <1>4, <1>6, <1>7, RowsMoveKeeps DEF TypeOK, RequestStates

LEMMA BeginKeeps ==
    ASSUME Inv, ControlTask \/ BeginIntervention \/ \E A \in Calls : UpdateTask(A)
    PROVE  Inv'
<1>1. CASE ControlTask
  <2>1. PICK type \in {"PAUSE", "RESUME"} : BeginCommand(type, {}, {})
    BY <1>1 DEF ControlTask
  <2>2. type \in Normal /\ type # "UPDATE"
    BY DEF Normal
  <2>3. {} \in SUBSET (Keys \X Answers)
    OBVIOUS
  <2> QED BY <2>1, <2>2, <2>3, JournalKeeps DEF BeginCommand
<1>2. CASE BeginIntervention
  <2>1. ~Terminal
    BY <1>2 DEF BeginIntervention, Terminal, Ended
  <2>2. {} \in SUBSET (Keys \X Answers) /\ "INTERVENTION" \in Normal
    BY DEF Normal
  <2>3. commands' = Append(commands, New("INTERVENTION", {}, {}, FALSE, "none"))
    BY <1>2 DEF BeginIntervention
  <2>4. UNCHANGED <<task, snapshots, request, answer, inbox, proc, applied, refused, faults>>
    BY <1>2 DEF BeginIntervention
  <2> QED BY <2>1, <2>2, <2>3, <2>4, JournalKeeps
<1>3. CASE \E A \in Calls : UpdateTask(A)
  <2>1. PICK A \in Calls : UpdateTask(A)
    BY <1>3
  <2> DEFINE pending == {k \in DOMAIN A : request[k] # "ANSWERED"}
             payload == {<<k, A[k]>> : k \in pending}
             hash == {<<k, A[k]>> : k \in DOMAIN A}
  <2>2. DOMAIN A \in SUBSET Keys /\ \A k \in DOMAIN A : A[k] \in Answers
    BY DEF Calls
  <2>3. /\ payload \in SUBSET (Keys \X Answers)
        /\ \A p, q \in payload : p[1] = q[1] => p = q
    <3>1. pending \in SUBSET Keys /\ \A k \in pending : A[k] \in Answers
      BY <2>2
    <3> HIDE DEF pending
    <3> QED BY <3>1, FunctionalPayload
  <2>4. hash \in SUBSET (Keys \X Answers)
    BY <2>2
  <2>5. Legacy /\ BeginCommand("UPDATE", payload, hash)
    BY <2>1 DEF UpdateTask
  <2>6. "UPDATE" \in Normal
    BY DEF Normal
  <2> HIDE DEF payload, hash
  <2> QED BY <2>3, <2>4, <2>5, <2>6, JournalKeeps DEF BeginCommand
<1> QED BY <1>1, <1>2, <1>3

\* A stop is journalled; normal commands that nobody holds may end.
LEMMA StopKeeps ==
    ASSUME Inv, NEW reason \in StopReasons, NEW S \in SUBSET Seqs,
           \A i \in S : /\ commands[i].type # "CANCEL"
                        /\ commands[i].state \in {"PENDING", "RETRY_WAIT"},
           StopCommands = {}, ~Terminal, task' \in Task, task'.stop # "none",
           commands' = Append(CloseAll(S, "EXHAUSTED"), New("CANCEL", {}, {}, FALSE, reason)),
           UNCHANGED <<snapshots, request, answer, inbox, proc, applied, refused, faults>>
    PROVE  Inv'
<1> DEFINE c == New("CANCEL", {}, {}, FALSE, reason)
           cs == CloseAll(S, "EXHAUSTED")
<1>1. /\ Sound(c) /\ c.type = "CANCEL" /\ c.payload = {} /\ ~c.inboxed
      /\ c.attempts = 0 /\ c.state = "PENDING"
  <2>1. /\ c \in Command /\ c.owner = Nobody /\ c.type = "CANCEL" /\ c.payload = {}
        /\ ~c.inboxed /\ c.attempts = 0 /\ c.state = "PENDING"
    BY LaneAssumption DEF New, Command, Unfinished
  <2> HIDE DEF c
  <2> QED BY <2>1 DEF Sound
<1>2. /\ cs \in Seq(Command) /\ DOMAIN cs = Seqs
      /\ \A i \in Seqs : cs[i] = IF i \in S THEN Closed(commands[i], "EXHAUSTED") ELSE commands[i]
      /\ \A i \in Seqs : Sound(cs[i])
  BY CloseAllRows DEF Inv, Finished
<1>3. ASSUME NEW i \in Seqs
      PROVE  /\ MayEnd(i, cs[i])
             /\ commands[i].state = "CLAIMED" => cs[i] = commands[i]
  <2>1. CASE i \in S
    <3> DEFINE b == Closed(commands[i], "EXHAUSTED")
    <3>1. Same(commands[i], b) /\ b.attempts = commands[i].attempts /\ b.state = "EXHAUSTED"
      BY RowsSound, CloseForms DEF Inv, Finished
    <3> HIDE DEF b
    <3>2. cs[i] = b
      BY <1>2, <2>1 DEF b
    <3> HIDE DEF cs
    <3> QED BY <1>2, <2>1, <3>1, <3>2 DEF Unfinished, MayEnd
  <2>2. CASE i \notin S
    <3>1. cs[i] = commands[i]
      BY <1>2, <2>2
    <3> HIDE DEF cs
    <3> QED BY <1>2, <3>1 DEF Same, MayEnd
  <2> QED BY <2>1, <2>2
<1>4. commands' = Append(cs, c)
  OBVIOUS
<1> HIDE DEF c, cs
<1>5. /\ RowsMove /\ Seqs' = Seqs \cup {Len(commands) + 1}
      /\ commands'[Len(commands) + 1] = c
      /\ \A i \in Seqs : Quiet(i) /\ commands'[i] = cs[i]
  <2>1. /\ \A p, q \in c.payload : p[1] = q[1] => p = q
        /\ c.inboxed => c.type = "UPDATE"
        /\ c.type = "CANCEL" => StopCommands = {} /\ task'.stop # "none"
        /\ Terminal => Terminal'
    BY <1>1
  <2>2. \A i \in Seqs : MayEnd(i, cs[i])
    BY <1>3
  <2> QED BY <1>1, <1>2, <1>4, <2>1, <2>2, Journalled
<1>6. \A i \in Seqs' \ Seqs : ~Legacy => commands'[i].type # "UPDATE"
  BY <1>1, <1>5
<1>7. Given' /\ Responses'
  BY <1>5, <1>6, GivenUntouched, ResponsesUntouched
<1>8. Serial'
  <2>1. \A i \in Seqs : commands[i].state = "CLAIMED" => commands'[i] = commands[i]
    BY <1>3, <1>5
  <2> QED BY <2>1, SerialGoesOn
<1>9. TypeOK
  BY DEF Inv
<1> QED BY <1>5, <1>7, <1>8, <1>9, RowsMoveKeeps DEF TypeOK, RequestStates

LEMMA BeginCancelKeeps ==
    ASSUME Inv, BeginCancel
    PROVE  Inv'
<1> DEFINE S == {i \in Seqs : /\ commands[i].type \in Normal
                              /\ commands[i].state \in {"PENDING", "RETRY_WAIT"}}
<1>1. /\ commands' = Append(CloseAll(S, "EXHAUSTED"), New("CANCEL", {}, {}, FALSE, "USER_REQUESTED"))
      /\ task' = [task EXCEPT !.state = "STOPPING", !.stop = "USER_REQUESTED"]
      /\ StopCommands = {} /\ ~Terminal
      /\ UNCHANGED <<snapshots, request, answer, inbox, proc, applied, refused, faults>>
  BY DEF BeginCancel
<1>2. task' \in Task /\ task'.stop # "none" /\ "USER_REQUESTED" \in StopReasons
  BY <1>1 DEF Inv, TypeOK, Task, StopReasons
<1>3. S \in SUBSET Seqs /\ \A i \in S : /\ commands[i].type # "CANCEL"
                                        /\ commands[i].state \in {"PENDING", "RETRY_WAIT"}
  BY DEF Normal
<1> HIDE DEF S
<1> QED BY <1>1, <1>2, <1>3, StopKeeps

LEMMA ClaimExpiredDeadlinesKeeps ==
    ASSUME Inv, ClaimExpiredDeadlines
    PROVE  Inv'
<1>1. /\ ~Terminal /\ task' = [task EXCEPT !.state = "STOPPING", !.stop = "DEADLINE_REACHED"]
      /\ UNCHANGED <<snapshots, request, answer, inbox, proc, applied, refused, faults>>
  BY DEF ClaimExpiredDeadlines
<1>2. TypeOK /\ task' \in Task /\ task'.stop # "none"
  BY <1>1 DEF Inv, TypeOK, Task, StopReasons
<1>3. CASE /\ StopCommands = {}
           /\ commands' = Append(commands, New("CANCEL", {}, {}, FALSE, "DEADLINE_REACHED"))
  <2>1. commands = CloseAll({}, "EXHAUSTED")
    BY <1>2 DEF CloseAll, TypeOK, Seqs
  <2>2. "DEADLINE_REACHED" \in StopReasons /\ {} \in SUBSET Seqs
    BY DEF StopReasons
  <2> QED BY <1>1, <1>2, <1>3, <2>1, <2>2, StopKeeps
<1>4. CASE \E m : commands' = [commands EXCEPT ![m].reason = "DEADLINE_REACHED"]
  <2>1. PICK m : commands' = [commands EXCEPT ![m].reason = "DEADLINE_REACHED"]
    BY <1>4
  <2>2. /\ RowsMove /\ Seqs' = Seqs
        /\ \A i \in Seqs : Quiet(i)
        /\ \A i \in Seqs : /\ commands'[i].state = commands[i].state
                           /\ commands'[i].owner = commands[i].owner
                           /\ commands'[i].over = commands[i].over
    <3>1. CASE m \in Seqs
      <4> DEFINE c == [commands[m] EXCEPT !.reason = "DEADLINE_REACHED"]
      <4>1. commands' = [commands EXCEPT ![m] = c]
        BY <2>1
      <4>2. Sound(commands[m])
        BY <1>2, <3>1, RowsSound
      <4>3. /\ Sound(c) /\ Same(commands[m], c) /\ c.attempts = commands[m].attempts
            /\ c.state = commands[m].state /\ c.owner = commands[m].owner
            /\ c.over = commands[m].over
        BY <4>2 DEF Sound, Same, Command, StopReasons
      <4> HIDE DEF c
      <4>4. /\ RowsMove /\ Seqs' = Seqs /\ commands'[m] = c
            /\ \A i \in Seqs : i # m => commands'[i] = commands[i]
            /\ \A i \in Seqs : Quiet(i) /\ commands'[i].state = commands[i].state
        BY <1>1, <3>1, <4>1, <4>3, Flagged
      <4> QED BY <4>3, <4>4
    <3>2. CASE m \notin Seqs
      <4>1. UNCHANGED commands
        BY <1>2, <2>1, <3>2 DEF TypeOK, Seqs
      <4> QED BY <1>1, <4>1, SameRows
    <3> QED BY <3>1, <3>2
  <2>3. Given' /\ Responses'
    BY <1>1, <2>2, GivenUntouched, ResponsesUntouched
  <2>4. Serial'
    BY <1>1, <2>2, SerialGoesOn
  <2> QED BY <1>1, <1>2, <2>2, <2>3, <2>4, RowsMoveKeeps DEF TypeOK, RequestStates
<1> QED BY <1>3, <1>4 DEF ClaimExpiredDeadlines

\* Commands end together.
LEMMA EndsTogether ==
    ASSUME Inv, NEW S \in SUBSET Seqs, \A i \in S : commands[i].state \in Unfinished,
           Terminal => Terminal', Terminal' \/ \A i \in S : commands[i].type # "CANCEL",
           NEW cs, cs = CloseAll(S, "EXHAUSTED")
    PROVE  /\ cs \in Seq(Command) /\ DOMAIN cs = Seqs
           /\ \A i \in Seqs : /\ Sound(cs[i]) /\ Same(commands[i], cs[i])
                              /\ cs[i].attempts = commands[i].attempts
                              /\ i \in S => cs[i].state = "EXHAUSTED"
                              /\ i \notin S => cs[i] = commands[i]
           /\ commands' = cs => /\ RowsMove /\ Seqs' = Seqs
                                /\ \A i \in Seqs : Quiet(i)
<1>1. /\ cs \in Seq(Command) /\ DOMAIN cs = Seqs
      /\ \A i \in Seqs : cs[i] = IF i \in S THEN Closed(commands[i], "EXHAUSTED") ELSE commands[i]
      /\ \A i \in Seqs : Sound(cs[i])
  BY CloseAllRows DEF Inv, Finished
<1>2. ASSUME NEW i \in Seqs
      PROVE  /\ Same(commands[i], cs[i]) /\ cs[i].attempts = commands[i].attempts
             /\ i \in S => cs[i].state = "EXHAUSTED"
             /\ i \notin S => cs[i] = commands[i]
  <2> DEFINE b == Closed(commands[i], "EXHAUSTED")
  <2>1. Same(commands[i], b) /\ b.attempts = commands[i].attempts /\ b.state = "EXHAUSTED"
    BY RowsSound, CloseForms DEF Inv, Finished
  <2> HIDE DEF b
  <2>2. cs[i] = IF i \in S THEN b ELSE commands[i]
    BY <1>1 DEF b
  <2> QED BY <2>1, <2>2 DEF Same
<1>3. ASSUME commands' = cs
      PROVE  RowsMove /\ Seqs' = Seqs /\ \A i \in Seqs : Quiet(i)
  <2>1. Seqs' = Seqs
    BY <1>1, <1>3 DEF Seqs
  <2>2. \A i \in Seqs : Moves(i) /\ Quiet(i)
    BY <1>2, <1>3 DEF Moves, Quiet, Finished
  <2>3. ASSUME NEW i \in Seqs, commands[i].type = "CANCEL", commands'[i].state = "EXHAUSTED"
        PROVE  Terminal'
    <3>1. CASE i \in S
      BY <2>3, <3>1
    <3>2. CASE i \notin S
      BY <1>2, <1>3, <2>3, <3>2 DEF Inv, Lane
    <3> QED BY <3>1, <3>2
  <2>4. RowsMove
    BY <1>1, <1>2, <1>3, <2>1, <2>2, <2>3 DEF RowsMove
  <2> QED BY <2>1, <2>2, <2>4
<1> QED BY <1>1, <1>2, <1>3

\* Expired claims of normal commands, which the Task's stop supersedes.
LEMMA ExpiredRows ==
    ASSUME Inv
    PROVE  /\ ExpiredUnderStop \in SUBSET Seqs
           /\ \A i \in ExpiredUnderStop :
                 /\ commands[i].type # "CANCEL" /\ commands[i].state = "CLAIMED"
                 /\ commands[i].state \in Unfinished /\ commands[i].over
BY DEF ExpiredUnderStop, Normal, Unfinished

LEMMA SupersedeExpiredKeeps ==
    ASSUME Inv, SupersedeExpired
    PROVE  Inv'
<1>1. /\ commands' = CloseAll(ExpiredUnderStop, "EXHAUSTED")
      /\ Settle(ExpiredUnderStop, "IGNORED")
      /\ UNCHANGED <<task, snapshots, request, answer, proc, applied, refused, faults>>
  BY DEF SupersedeExpired
<1>2. TypeOK /\ task' \in Task /\ (Terminal => Terminal') /\ task'.stop = task.stop
  BY <1>1, SameTask DEF Inv
<1> DEFINE S == ExpiredUnderStop
<1>3. /\ S \in SUBSET Seqs
      /\ \A i \in S : /\ commands[i].type # "CANCEL" /\ commands[i].state = "CLAIMED"
                      /\ commands[i].state \in Unfinished /\ commands[i].over
  BY ExpiredRows
<1> HIDE DEF S
<1>4. commands' = CloseAll(S, "EXHAUSTED") /\ Settle(S, "IGNORED")
  BY <1>1 DEF S
<1>5. /\ RowsMove /\ Seqs' = Seqs /\ \A i \in Seqs : Quiet(i)
      /\ \A i \in Seqs : i \in S => commands'[i].state = "EXHAUSTED"
      /\ \A i \in Seqs : i \notin S => commands'[i] = commands[i]
  BY <1>2, <1>3, <1>4, EndsTogether
<1>6. /\ inbox' \in [Keys -> Response]
      /\ \A k \in Keys : /\ inbox'[k].answer = inbox[k].answer
                         /\ inbox'[k] = inbox[k] \/ inbox'[k].state = "IGNORED"
                         /\ inbox[k].state \notin {"none", "PENDING"} =>
                                inbox'[k].state \notin {"none", "PENDING"}
                         /\ inbox[k].state = "none" => inbox'[k].state = "none"
  BY <1>2, <1>4, SettleForms
<1>7. Given'
  BY <1>5, <1>6, GivenKept DEF RowsMove
<1>8. Responses'
  <2>1. ASSUME NEW k \in Keys PROVE ResponseTrue(k)'
    BY <1>1, <1>5, <1>6, ResponseKept DEF RowsMove
  <2> QED BY <2>1 DEF Responses
<1>9. Serial'
  <2>1. ASSUME NEW d \in Dispatchers, Busy(d), Holds(d)
        PROVE  Holds(d)'
    <3>1. Mine(d) \in Seqs /\ Mine(d)' = Mine(d)
      BY <1>1, <2>1, OwnCommand DEF Mine
    <3>2. Mine(d) \notin S
      BY <1>3, <2>1 DEF Holds, Cmd, Mine
    <3>3. commands'[Mine(d)] = commands[Mine(d)]
      BY <1>5, <3>1, <3>2
    <3> QED BY <2>1, <3>1, <3>3 DEF Holds, Owns, Cmd, Mine
  <2>2. AllOver => AllOver'
    BY <1>2, <1>3, <1>5 DEF AllOver, Finished
  <2> QED BY <1>1, <2>1, <2>2, SerialByRows
<1> QED BY <1>1, <1>2, <1>5, <1>6, <1>7, <1>8, <1>9, RowsMoveKeeps DEF TypeOK, RequestStates

LEMMA ApplySnapshotKeeps ==
    ASSUME Inv, NEW r \in 1..MaxRevision, ApplySnapshot(r)
    PROVE  Inv'
<1> DEFINE s == snapshots[r]
           st == IF s.state \in Ended \/ task.stop = "none" THEN s.state ELSE task.state
<1>1. TypeOK /\ ~Terminal /\ r \in DOMAIN snapshots
      /\ UNCHANGED <<snapshots, answer, inbox, proc, applied, refused, faults>>
  BY DEF Inv, ApplySnapshot
<1>2. s.state \in Live \cup Ended
  <2>1. s \in Snapshot
    BY <1>1 DEF TypeOK
  <2> QED BY <2>1 DEF Snapshot
<1>3. st \in Live \cup Ended \cup {"STOPPING"}
  BY <1>1, <1>2 DEF TypeOK, Task
<1>4. task' = [task EXCEPT !.revision = r, !.state = st]
  BY <1>1 DEF ApplySnapshot, TypeOK, Task
<1>5. task' \in Task /\ task'.stop = task.stop /\ task'.state = st
  <2> HIDE DEF st
  <2>1. r \in 0..MaxRevision
    BY LaneAssumption
  <2> QED BY <1>1, <1>3, <1>4, <2>1 DEF TypeOK, Task
<1>6. Terminal => Terminal'
  BY <1>1
<1>7. /\ request' \in [Keys -> RequestStates]
      /\ \A k \in Keys : request'[k] = "ANSWERED" <=> request[k] = "ANSWERED"
  BY <1>1 DEF ApplySnapshot, TypeOK, RequestStates
<1>8. RowsMove /\ Seqs' = Seqs /\ (\A i \in Seqs : Quiet(i)) /\ Serial'
  <2>1. CASE s.state \in Ended
    <3> DEFINE S == {i \in Seqs : commands[i].state \in Unfinished}
    <3>1. commands' = CloseAll(S, "EXHAUSTED")
      BY <2>1 DEF ApplySnapshot
    <3>2. Terminal'
      BY <1>5, <2>1 DEF Terminal
    <3>3. S \in SUBSET Seqs /\ \A i \in S : commands[i].state \in Unfinished
      OBVIOUS
    <3>4. \A i \in Seqs : i \notin S => commands[i].state \in Finished
      BY <1>1, RowTypes
    <3> HIDE DEF S, s, st
    <3>5. /\ RowsMove /\ Seqs' = Seqs /\ \A i \in Seqs : Quiet(i)
          /\ \A i \in Seqs : i \in S => commands'[i].state = "EXHAUSTED"
          /\ \A i \in Seqs : i \notin S => commands'[i] = commands[i]
      BY <3>1, <3>2, <3>3, EndsTogether
    <3>6. AllOver'
      BY <3>2, <3>4, <3>5 DEF AllOver, Finished
    <3>7. Serial'
      BY <1>1, <3>6, SerialByRows
    <3> QED BY <3>5, <3>7
  <2>2. CASE s.state \notin Ended
    <3>1. UNCHANGED commands
      BY <2>2 DEF ApplySnapshot
    <3>2. RowsMove /\ Seqs' = Seqs /\ \A i \in Seqs : Quiet(i)
      BY <1>6, <3>1, SameRows
    <3>3. Serial'
      BY <1>1, <3>1, SerialGoesOn
    <3> QED BY <3>2, <3>3
  <2> QED BY <2>1, <2>2
<1>9. Given' /\ Responses'
  BY <1>1, <1>7, <1>8, GivenUntouched, ResponsesUntouched
<1> HIDE DEF st, s
<1> QED BY <1>1, <1>5, <1>7, <1>8, <1>9, RowsMoveKeeps DEF TypeOK

LEMMA PromoteKeeps ==
    ASSUME Inv, Promote
    PROVE  Inv'
<1> DEFINE pending == {k \in Keys : inbox[k].state = "PENDING"}
           stale == {k \in pending \cap Business : ~Waiting \/ request[k] # "OPEN"}
           ready == IF Stopping \/ Terminal THEN {} ELSE pending \ stale
           n == Len(commands) + 1
           payload == {<<k, inbox[k].answer>> : k \in ready}
           c == New("UPDATE", payload, payload, TRUE, "none")
<1>1. /\ UNCHANGED <<task, snapshots, answer, proc, applied, refused, faults>>
      /\ \A k \in Keys :
            inbox'[k] = IF k \in ready THEN [inbox[k] EXCEPT !.state = "ASSIGNED", !.seq = n]
                        ELSE IF k \in pending THEN [inbox[k] EXCEPT !.state = "IGNORED"]
                        ELSE inbox[k]
      /\ inbox' = [k \in Keys |-> inbox'[k]]
  BY DEF Promote
<1>2. TypeOK /\ task' \in Task /\ (Terminal => Terminal') /\ task'.stop = task.stop
  BY <1>1, SameTask DEF Inv
<1>3. /\ request' \in [Keys -> RequestStates]
      /\ \A k \in Keys : request'[k] = "ANSWERED" <=> request[k] = "ANSWERED"
  <2>1. UNCHANGED request \/ Withdraw(stale)
    BY DEF Promote
  <2> HIDE DEF stale
  <2> QED BY <1>2, <2>1, WithdrawForms
<1>4. /\ commands' = IF ready = {} THEN commands ELSE Append(commands, c)
      /\ ready \subseteq pending /\ (ready # {} => ~Terminal)
  BY DEF Promote
<1>5. \A k \in Keys : k \in pending <=> inbox[k].state = "PENDING"
  OBVIOUS
<1>6. n \in Nat /\ pending \subseteq Keys
  BY <1>2, RowsSound
<1>7. \A k \in pending : inbox[k].answer \in Answers
  BY <1>5, <1>6 DEF Inv, Given
<1> HIDE DEF pending, stale, ready, n
<1>8. ASSUME NEW k \in Keys
      PROVE  /\ inbox'[k] \in Response /\ inbox'[k].answer = inbox[k].answer
             /\ k \in ready => inbox'[k].state = "ASSIGNED" /\ inbox'[k].seq = n
             /\ k \notin ready /\ k \in pending => inbox'[k].state = "IGNORED"
             /\ k \notin pending => inbox'[k] = inbox[k]
  <2>1. inbox[k] \in Response
    BY <1>2 DEF TypeOK
  <2>2. CASE k \in ready
    <3> DEFINE r == [inbox[k] EXCEPT !.state = "ASSIGNED", !.seq = n]
    <3>1. /\ r \in Response /\ r.answer = inbox[k].answer /\ r.state = "ASSIGNED" /\ r.seq = n
      BY <1>6, <2>1 DEF Response
    <3>2. inbox'[k] = r
      BY <1>1, <2>2
    <3> HIDE DEF r
    <3> QED BY <1>4, <2>2, <3>1, <3>2
  <2>3. CASE k \notin ready /\ k \in pending
    <3> DEFINE r == [inbox[k] EXCEPT !.state = "IGNORED"]
    <3>1. r \in Response /\ r.answer = inbox[k].answer /\ r.state = "IGNORED"
      BY <2>1 DEF Response
    <3>2. inbox'[k] = r
      BY <1>1, <2>3
    <3> HIDE DEF r
    <3> QED BY <2>3, <3>1, <3>2
  <2>4. CASE k \notin pending
    BY <1>1, <1>4, <2>1, <2>4
  <2> QED BY <2>2, <2>3, <2>4
<1>9. inbox' \in [Keys -> Response]
  BY <1>1, <1>8
<1>10. ASSUME NEW k \in Keys
       PROVE  /\ \/ inbox[k].state \in {"none", "PENDING"}
                 \/ /\ inbox'[k].answer = inbox[k].answer
                    /\ inbox'[k].state \notin {"none", "PENDING"}
              /\ \/ inbox'[k].answer \in Answers
                 \/ /\ inbox'[k].answer = inbox[k].answer
                    /\ inbox[k].state = "none" => inbox'[k].state = "none"
              /\ k \notin ready => inbox'[k] = inbox[k] \/ inbox'[k].state = "IGNORED"
  BY <1>5, <1>7, <1>8
<1>11. /\ snapshots' \in Seq(Snapshot) /\ Len(snapshots') <= MaxRevision
       /\ Len(snapshots) <= Len(snapshots')
       /\ answer' \in [Keys -> Answers \cup {NoAnswer}] /\ faults' \in 0..MaxFaults
       /\ UNCHANGED <<proc, applied, refused>>
  <2>1. UNCHANGED <<snapshots, answer, proc, applied, refused, faults>>
    BY <1>1
  <2>2. Len(snapshots) \in Int
    BY <1>2 DEF TypeOK
  <2> QED BY <1>2, <2>1, <2>2 DEF TypeOK
<1>12. CASE ready = {}
  <2>1. UNCHANGED commands
    BY <1>4, <1>12
  <2>2. RowsMove /\ Seqs' = Seqs /\ \A i \in Seqs : Same(commands[i], commands'[i]) /\ Quiet(i)
    BY <1>2, <2>1, SameRows
  <2>3. Given'
    BY <1>10, <2>2, GivenKept
  <2>4. Responses'
    <3>1. ASSUME NEW k \in Keys PROVE ResponseTrue(k)'
      BY <1>1, <1>3, <1>10, <1>12, <2>2, ResponseKept
    <3> QED BY <3>1 DEF Responses
  <2>5. Serial'
    BY <1>1, <1>2, <2>1, SerialSame
  <2> QED BY <1>2, <1>3, <1>9, <1>11, <2>2, <2>3, <2>4, <2>5, RowsMoveKeeps
<1>13. CASE ready # {}
  <2>1. /\ payload \in SUBSET (Keys \X Answers)
        /\ \A p, q \in payload : p[1] = q[1] => p = q
    <3> DEFINE f == [k \in Keys |-> inbox[k].answer]
    <3>1. ready \in SUBSET Keys /\ \A k \in ready : f[k] \in Answers
      BY <1>4, <1>6, <1>7
    <3>2. payload = {<<k, f[k]>> : k \in ready}
      BY <3>1
    <3> HIDE DEF f, payload
    <3> QED BY <3>1, <3>2, FunctionalPayload
  <2>2. \A k \in Keys : \A a :
        <<k, a>> \in payload <=> k \in ready /\ a = inbox[k].answer
    OBVIOUS
  <2> HIDE DEF payload
  <2>3. /\ Sound(c) /\ c.type = "UPDATE" /\ c.payload = payload
        /\ c.attempts = 0 /\ c.state = "PENDING"
    <3>1. /\ c \in Command /\ c.owner = Nobody /\ c.type = "UPDATE" /\ c.payload = payload
          /\ c.attempts = 0 /\ c.state = "PENDING"
      BY <2>1, LaneAssumption DEF New, Command, Unfinished, StopReasons, Normal
    <3> HIDE DEF c
    <3> QED BY <3>1 DEF Sound
  <2>4. /\ commands \in Seq(Command) /\ DOMAIN commands = Seqs /\ commands' = Append(commands, c)
        /\ \A i \in Seqs : MayEnd(i, commands[i])
    BY <1>2, <1>4, <1>13, RowsSound DEF TypeOK, Seqs, Same, MayEnd
  <2> HIDE DEF c
  <2>5. /\ RowsMove /\ Seqs' = Seqs \cup {n} /\ commands'[n] = c /\ n \notin Seqs
        /\ \A i \in Seqs : Quiet(i) /\ commands'[i] = commands[i]
    BY <1>2, <2>1, <2>3, <2>4, Journalled DEF n
  <2>6. Given'
    <3>1. \A k \in Keys : inbox'[k].state # "none" => inbox'[k].answer \in Answers
      BY <1>10 DEF Inv, Given
    <3> SUFFICES ASSUME ~Legacy, NEW i \in Seqs', commands'[i].type = "UPDATE",
                        NEW p \in commands'[i].payload
                 PROVE  /\ inbox'[p[1]].answer = p[2]
                        /\ inbox'[p[1]].state \notin {"none", "PENDING"}
      BY <3>1 DEF Given
    <3>2. CASE i \in Seqs
      <4>1. commands[i].type = "UPDATE" /\ p \in commands[i].payload
        BY <2>5, <3>2
      <4>2. inbox[p[1]].answer = p[2] /\ inbox[p[1]].state \notin {"none", "PENDING"}
        BY <3>2, <4>1 DEF Inv, Given
      <4>3. p[1] \in Keys
        <5>1. p \in Keys \X Answers
          BY <1>2, <3>2, <4>1, RowTypes
        <5> QED BY <5>1
      <4> QED BY <1>10, <4>2, <4>3
    <3>3. CASE i = n
      <4>1. p \in payload
        BY <2>3, <2>5, <3>3
      <4>2. p = <<p[1], p[2]>> /\ p[1] \in Keys
        BY <2>1, <4>1
      <4>3. p[1] \in ready /\ p[2] = inbox[p[1]].answer
        BY <2>2, <4>1, <4>2
      <4> QED BY <1>8, <4>2, <4>3
    <3> QED BY <2>5, <3>2, <3>3
  <2>7. ASSUME NEW k \in Keys
        PROVE  ResponseTrue(k)'
    <3>1. \A i \in Seqs : i \in Seqs' /\ Same(commands[i], commands'[i])
      BY <2>5 DEF Same
    <3>2. CASE k \in ready
      <4>1. request'[k] = "ANSWERED" => Delivered(k, answer[k])'
        BY <1>1, <1>3, <3>1, AnsweredKept
      <4>2. /\ inbox'[k].state = "ASSIGNED" /\ inbox'[k].seq = n
            /\ <<k, inbox'[k].answer>> \in payload
        BY <1>8, <2>2, <3>2
      <4> QED BY <2>3, <2>5, <4>1, <4>2 DEF ResponseTrue
    <3>3. CASE k \notin ready
      BY <1>1, <1>3, <1>10, <2>5, <3>1, <3>3, ResponseKept
    <3> QED BY <3>2, <3>3
  <2>8. Responses'
    BY <2>7 DEF Responses
  <2>9. Serial'
    BY <1>1, <1>4, <1>13, <2>5, SerialGoesOn
  <2> QED BY <1>2, <1>3, <1>9, <1>11, <2>5, <2>6, <2>8, <2>9, RowsMoveKeeps
<1> QED BY <1>12, <1>13

LEMMA ClaimDueCommandsKeeps ==
    ASSUME Inv, NEW d \in Dispatchers, NEW i \in Seqs, ClaimDueCommands(d, i)
    PROVE  Inv'
<1> DEFINE S == ExpiredUnderStop
           cs == CloseAll(S, "EXHAUSTED")
           h == [IdleHandler EXCEPT !.step = "claimed", !.seq = i, !.reason = cs[i].reason]
           b == ClaimedBy(d, commands[i])
<1>1. /\ At(d, "idle") /\ Due(cs[i]) /\ \A j \in Seqs \ {i} : cs[j].state # "CLAIMED"
      /\ commands' = [cs EXCEPT ![i] = ClaimedBy(d, cs[i])]
      /\ proc' = [proc EXCEPT ![d] = h]
      /\ Settle({j \in S : commands[j].type = "UPDATE"}, "IGNORED")
      /\ UNCHANGED <<task, snapshots, request, answer, applied, refused, faults>>
  BY DEF ClaimDueCommands, FirstDue
<1>2. TypeOK /\ Lane /\ (Terminal => Terminal')
  BY <1>1, SameTask DEF Inv
<1>3. /\ S \in SUBSET Seqs
      /\ \A j \in S : /\ commands[j].type # "CANCEL" /\ commands[j].state = "CLAIMED"
                      /\ commands[j].state \in Unfinished /\ commands[j].over
  BY ExpiredRows
<1> HIDE DEF S
<1>4. /\ cs \in Seq(Command) /\ DOMAIN cs = Seqs
      /\ \A j \in Seqs : /\ Sound(cs[j]) /\ Same(commands[j], cs[j])
                         /\ cs[j].attempts = commands[j].attempts
                         /\ j \in S => cs[j].state = "EXHAUSTED"
                         /\ j \notin S => cs[j] = commands[j]
  BY <1>2, <1>3, EndsTogether
<1> HIDE DEF cs
<1>5. /\ cs[i] = commands[i] /\ i \notin S
      /\ commands[i].state \in Unfinished
      /\ commands[i].state = "CLAIMED" => commands[i].over
      /\ commands[i].type = "CANCEL" \/ task.stop = "none"
  <2>1. i \notin S
    BY <1>1, <1>4 DEF Due
  <2>2. cs[i] = commands[i]
    BY <1>4, <2>1
  <2> QED BY <1>1, <2>1, <2>2 DEF Due, Unfinished
<1>6. /\ Sound(b) /\ Same(commands[i], b) /\ b.attempts > 0 /\ b.attempts >= commands[i].attempts
      /\ b.state = "CLAIMED" /\ b.owner = Owner[d] /\ ~b.over
  BY <1>2, RowsSound, ClaimForms
<1>7. /\ commands'[i] = b /\ DOMAIN commands' = Seqs
      /\ \A j \in Seqs : j # i => commands'[j] = cs[j]
      /\ commands' = [j \in Seqs |-> commands'[j]]
  BY <1>1, <1>4, <1>5
<1> HIDE DEF b
<1>8. \A j \in Seqs : /\ Sound(commands'[j]) /\ Same(commands[j], commands'[j])
                      /\ commands'[j].attempts >= commands[j].attempts
                      /\ commands[j].attempts \in Int /\ commands'[j].attempts \in Int
                      /\ j # i => commands'[j].state # "CLAIMED"
                      /\ j \in S => commands'[j].state = "EXHAUSTED"
                      /\ j \notin S /\ j # i => commands'[j] = commands[j]
  <2>1. ASSUME NEW j \in Seqs, j # i
        PROVE  /\ Sound(commands'[j]) /\ Same(commands[j], commands'[j])
               /\ commands'[j].attempts = commands[j].attempts
               /\ commands'[j].state # "CLAIMED"
               /\ j \in S => commands'[j].state = "EXHAUSTED"
               /\ j \notin S => commands'[j] = commands[j]
    BY <1>1, <1>4, <1>7, <2>1
  <2>2. \A j \in Seqs : commands[j].attempts \in Int
    BY <1>2, RowTypes
  <2>3. b.attempts \in Int
    BY <1>6 DEF Sound, Command
  <2>4. \A j \in Seqs : j = i => /\ Sound(commands'[j]) /\ Same(commands[j], commands'[j])
                                 /\ commands'[j].attempts >= commands[j].attempts
                                 /\ commands'[j].attempts \in Int /\ j \notin S
    BY <1>5, <1>6, <1>7, <2>3
  <2>5. \A j \in Seqs : j # i => commands'[j].attempts >= commands[j].attempts
    <3> SUFFICES ASSUME NEW j \in Seqs, j # i PROVE commands'[j].attempts >= commands[j].attempts
      OBVIOUS
    <3>1. commands'[j].attempts = commands[j].attempts /\ commands[j].attempts \in Int
      BY <2>1, <2>2
    <3> QED BY <3>1
  <2> QED BY <2>1, <2>2, <2>4, <2>5
<1>9. Seqs' = Seqs /\ commands' \in Seq(Command)
  BY <1>2, <1>7, <1>8, Rewritten DEF Seqs
<1>10. h \in Handler /\ h.step = "claimed" /\ h.seq = i /\ h.revision = 0
  <2>1. cs[i].reason \in StopReasons
    BY <1>4 DEF Sound, Command
  <2>2. i \in Nat
    BY <1>2, RowsSound
  <2>3. IdleHandler \in Handler /\ IdleHandler.revision = 0
    BY LaneAssumption DEF IdleHandler, Handler, Steps, StopReasons, Replies
  <2> QED BY <2>1, <2>2, <2>3 DEF Handler, Steps
<1> HIDE DEF h
<1>11. /\ proc' \in [Dispatchers -> Handler] /\ proc'[d] = h
       /\ \A e \in Dispatchers : e # d => proc'[e] = proc[e]
  BY <1>1, <1>2, <1>10 DEF TypeOK
<1>12. /\ inbox' \in [Keys -> Response]
       /\ \A k \in Keys : /\ inbox'[k].answer = inbox[k].answer
                          /\ inbox'[k] = inbox[k] \/ inbox'[k].state = "IGNORED"
                          /\ inbox[k].state \notin {"none", "PENDING"} =>
                                 inbox'[k].state \notin {"none", "PENDING"}
                          /\ inbox[k].state = "none" => inbox'[k].state = "none"
  BY <1>1, <1>2, SettleForms
<1>13. TypeOK'
  <2>1. \A j \in Seqs' : (commands'[j].owner # Nobody) = (commands'[j].state = "CLAIMED")
    BY <1>8, <1>9 DEF Sound
  <2>2. UNCHANGED <<task, snapshots, request, answer, applied, refused, faults>>
    BY <1>1
  <2> QED BY <1>2, <1>9, <1>11, <1>12, <2>1, <2>2 DEF TypeOK, Seqs
<1>14. Handlers'
  <2>1. RowsStay
    BY <1>8, <1>9 DEF RowsStay
  <2>2. Len(snapshots) <= Len(snapshots') /\ Len(snapshots') \in Nat
    BY <1>1, <1>2 DEF TypeOK
  <2>3. HandlerTrue(d)'
    BY <1>6, <1>7, <1>9, <1>10, <1>11, <2>2 DEF HandlerTrue
  <2>4. applied \subseteq applied' /\ refused \subseteq refused'
    BY <1>1
  <2> QED BY <1>8, <1>11, <2>1, <2>2, <2>3, <2>4, HandlersKept
<1>15. Lane'
  <2>1. \A j, k \in Seqs' : commands'[j].state = "CLAIMED" /\ commands'[k].state = "CLAIMED" => j = k
    BY <1>8, <1>9
  <2>2. \A j \in applied' : commands'[j].attempts > 0
    <3> SUFFICES ASSUME NEW j \in applied' PROVE commands'[j].attempts > 0
      OBVIOUS
    <3>1. j \in Seqs /\ commands[j].attempts > 0
      BY <1>1, <1>2 DEF TypeOK, Lane, Seqs
    <3>2. commands'[j].attempts >= commands[j].attempts /\ commands[j].attempts \in Int
          /\ commands'[j].attempts \in Int
      BY <1>8, <3>1
    <3> QED BY <3>1, <3>2
  <2>3. /\ \A j \in Seqs' : \A p, q \in commands'[j].payload : p[1] = q[1] => p = q
        /\ \A j \in Seqs' : commands'[j].inboxed => commands'[j].type = "UPDATE"
    BY <1>2, <1>8, <1>9 DEF Lane, Same
  <2>4. \A j, k \in StopCommands' : j = k
    <3>1. ASSUME NEW j \in StopCommands'
          PROVE  j \in StopCommands
      <4>1. /\ j \in Seqs /\ commands'[j].type = "CANCEL"
            /\ commands'[j].state \in Unfinished \cup {"ACKNOWLEDGED"}
        BY <1>9 DEF StopCommands
      <4>2. commands[j].type = "CANCEL"
        BY <1>8, <4>1 DEF Same
      <4>3. commands[j].state \in Unfinished \cup {"ACKNOWLEDGED"}
        <5>1. CASE j = i
          BY <1>5, <5>1
        <5>2. CASE j # i
          <6>1. commands'[j] = commands[j]
            BY <1>3, <1>8, <4>1, <4>2, <5>2
          <6> QED BY <4>1, <6>1
        <5> QED BY <5>1, <5>2
      <4> QED BY <4>1, <4>2, <4>3 DEF StopCommands
    <3>2. \A j \in StopCommands' : j \in Seqs
      BY <1>9 DEF StopCommands
    <3> QED BY <1>2, <3>1, <3>2 DEF Lane
  <2>5. ASSUME NEW j \in Seqs', commands'[j].type = "CANCEL", commands'[j].state = "EXHAUSTED"
        PROVE  Terminal'
    <3>1. j # i /\ j \notin S
      BY <1>3, <1>6, <1>7, <1>8, <1>9, <2>5 DEF Same
    <3> QED BY <1>2, <1>8, <1>9, <2>5, <3>1 DEF Lane
  <2>6. ASSUME NEW j \in Seqs', Effective(j)'
        PROVE  task'.stop # "none" /\ NormalsFree'
    <3>1. Effective(j)
      <4>1. CASE j = i
        BY <1>5, <1>7, <1>8, <1>9, <2>6, <4>1 DEF Effective, Same
      <4>2. CASE j # i
        <5>1. commands[j].type = "CANCEL" /\ j \in Seqs
          BY <1>8, <1>9, <2>6 DEF Effective, Same
        <5>2. commands'[j] = commands[j]
          BY <1>3, <1>8, <4>2, <5>1
        <5>3. refused' = refused
          BY <1>1
        <5> QED BY <2>6, <5>1, <5>2, <5>3 DEF Effective
      <4> QED BY <4>1, <4>2
    <3>2. task.stop # "none" /\ task' = task
      BY <1>1, <1>2, <1>9, <3>1 DEF Lane
    <3>3. commands[i].type = "CANCEL"
      BY <1>5, <3>2
    <3>4. \A k \in Seqs' : commands'[k].type \in Normal => commands'[k].state # "CLAIMED"
      BY <1>8, <1>9, <3>3 DEF Same, Normal
    <3> QED BY <3>2, <3>4 DEF NormalsFree
  <2> QED BY <2>1, <2>2, <2>3, <2>4, <2>5, <2>6 DEF Lane
<1>16. Given'
  <2>1. \A j \in Seqs' : ~Legacy /\ commands'[j].type = "UPDATE" =>
            j \in Seqs /\ Same(commands[j], commands'[j])
    BY <1>8, <1>9
  <2> QED BY <1>12, <2>1, GivenKept
<1>17. Responses'
  <2>1. \A j \in Seqs : Quiet(j)
    <3> SUFFICES ASSUME NEW j \in Seqs PROVE Quiet(j)
      OBVIOUS
    <3>1. CASE j = i
      BY <1>5, <1>6, <1>7, <3>1 DEF Quiet, Unfinished
    <3>2. CASE j # i /\ j \in S
      BY <1>3, <1>8, <3>2 DEF Quiet
    <3>3. CASE j # i /\ j \notin S
      BY <1>8, <3>3 DEF Quiet
    <3> QED BY <3>1, <3>2, <3>3
  <2>2. UNCHANGED <<request, answer, applied>>
    BY <1>1
  <2>3. ASSUME NEW k \in Keys PROVE ResponseTrue(k)'
    BY <1>8, <1>9, <1>12, <2>1, <2>2, ResponseKept
  <2> QED BY <2>3 DEF Responses
<1>18. Serial'
  <2> SUFFICES ASSUME faults = MaxFaults
               PROVE  /\ \A c, e \in Dispatchers : Busy(c)' /\ Busy(e)' => c = e
                      /\ \A e \in Dispatchers : Busy(e)' => Holds(e)' \/ AllOver'
    BY <1>1 DEF Serial
  <2>1. ASSUME NEW e \in Dispatchers, Busy(e)
        PROVE  FALSE
    <3>1. Holds(e) \/ AllOver
      BY <2>1 DEF Inv, Serial
    <3>2. ~AllOver
      BY <1>5 DEF AllOver, Finished, Unfinished
    <3>3. /\ Mine(e) \in Seqs /\ commands[Mine(e)].state = "CLAIMED"
          /\ ~commands[Mine(e)].over
      BY <2>1, <3>1, <3>2, OwnCommand DEF Holds, Owns, Cmd, Mine
    <3>4. Mine(e) # i /\ Mine(e) \notin S
      BY <1>3, <1>5, <3>3
    <3> QED BY <1>1, <1>4, <3>3, <3>4
  <2>2. \A e \in Dispatchers : Busy(e)' => e = d
    BY <1>11, <2>1 DEF Busy
  <2>3. Holds(d)'
    BY <1>6, <1>7, <1>10, <1>11 DEF Holds, Owns, Cmd
  <2> QED BY <2>2, <2>3
<1> QED BY <1>13, <1>14, <1>15, <1>16, <1>17, <1>18 DEF Inv

-----------------------------------------------------------------------------
(* The invariant and the theorems.                                         *)

LEMMA InitInv == Init => Inv
<1> SUFFICES ASSUME Init PROVE Inv
  OBVIOUS
<1>1. Seqs = {}
  BY DEF Init, Seqs
<1>2. /\ \A d \in Dispatchers : proc[d] = IdleHandler
      /\ \A k \in Keys : request[k] = "none" /\ inbox[k].state = "none"
  BY DEF Init
<1>3. TypeOK
  <2>1. task \in Task
    <3>1. task \in [state : {"RUNNING"}, stop : {"none"}, revision : {0}, intent : {FALSE},
                     cancellable : CanCancel]
      BY DEF Init
    <3>2. PICK can \in CanCancel :
              task = [state |-> "RUNNING", stop |-> "none", revision |-> 0, intent |-> FALSE,
                      cancellable |-> can]
      BY <3>1
    <3>3. 0 \in 0..MaxRevision /\ "RUNNING" \in Live /\ "none" \in StopReasons
      BY LaneAssumption DEF Live, StopReasons
    <3> QED BY <3>2, <3>3 DEF Task
  <2>2. IdleHandler \in Handler
    BY LaneAssumption DEF IdleHandler, Handler, Steps, StopReasons, Replies
  <2>3. /\ request \in [Keys -> RequestStates] /\ answer \in [Keys -> Answers \cup {NoAnswer}]
        /\ inbox \in [Keys -> Response] /\ proc \in [Dispatchers -> Handler]
    BY <2>2 DEF Init, Response, RequestStates
  <2>4. /\ snapshots \in Seq(Snapshot) /\ Len(snapshots) = 0 /\ commands \in Seq(Command)
        /\ applied = {} /\ refused = {} /\ faults = MaxFaults
    BY DEF Init
  <2>5. Len(snapshots) <= MaxRevision /\ faults \in 0..MaxFaults
    BY <2>4, LaneAssumption
  <2> QED BY <1>1, <2>1, <2>3, <2>4, <2>5 DEF TypeOK, RequestStates, Seqs
<1>4. Handlers
  <2>1. Len(snapshots) = 0
    BY DEF Init
  <2> QED BY <1>2, <2>1 DEF Handlers, HandlerTrue, IdleHandler
<1>5. Lane
  <2>1. applied = {} /\ StopCommands = {}
    BY <1>1 DEF Init, StopCommands
  <2> QED BY <1>1, <2>1 DEF Lane
<1>6. Given /\ Responses
  BY <1>1, <1>2 DEF Given, Responses, ResponseTrue
<1>7. Serial
  BY <1>2 DEF Serial, Busy, IdleHandler
<1> QED BY <1>3, <1>4, <1>5, <1>6, <1>7 DEF Inv

LEMMA StutterInv ==
    ASSUME Inv, UNCHANGED vars
    PROVE  Inv'
<1>1. UNCHANGED <<task, snapshots, commands, request, answer, inbox, proc, applied, refused, faults>>
  BY DEF vars
<1>2. TypeOK /\ task' \in Task /\ (Terminal => Terminal') /\ task'.stop = task.stop
  BY <1>1, SameTask DEF Inv
<1>3. RowsMove /\ Seqs' = Seqs /\ \A i \in Seqs : Same(commands[i], commands'[i]) /\ Quiet(i)
  BY <1>1, <1>2, SameRows
<1>4. Given' /\ Responses' /\ Serial'
  BY <1>1, <1>2, <1>3, GivenUntouched, ResponsesUntouched, SerialSame
<1> QED BY <1>1, <1>2, <1>3, <1>4, RowsMoveKeeps DEF TypeOK, RequestStates

LEMMA NextInv == Inv /\ [Next]_vars => Inv'
<1> SUFFICES ASSUME Inv, [Next]_vars PROVE Inv'
  OBVIOUS
<1>1. CASE Client
  <2>1. CASE \E A \in Calls : AcceptResponses(A)
    BY <2>1, AcceptResponsesKeeps
  <2>2. CASE ControlTask \/ BeginIntervention \/ \E A \in Calls : UpdateTask(A)
    BY <2>2, BeginKeeps
  <2>3. CASE BeginCancel
    BY <2>3, BeginCancelKeeps
  <2>4. CASE RecordCancellationIntent
    BY <2>4, RecordCancellationIntentKeeps
  <2> QED BY <1>1, <2>1, <2>2, <2>3, <2>4 DEF Client
<1>2. CASE ClaimExpiredDeadlines \/ Promote \/ SupersedeExpired
  BY <1>2, ClaimExpiredDeadlinesKeeps, PromoteKeeps, SupersedeExpiredKeeps
<1>3. ASSUME NEW d \in Dispatchers, Handle(d)
      PROVE  Inv'
  <2>1. CASE Recheck(d)
    BY <2>1, RecheckKeeps
  <2>2. CASE RejectOfEndedTask(d) \/ RejectCommand(d) \/ RejectMismatch(d)
    BY <2>2, RejectionsKeep
  <2>3. CASE Send(d)
    BY <2>3, SendKeeps
  <2>4. CASE \E reply \in Replies \ {"none"} : AdapterAnswers(d, reply)
    BY <2>4, AdapterAnswersKeeps
  <2>5. CASE Acknowledge(d) \/ IgnoreUpdate(d) \/ AcknowledgeUpdate(d)
    BY <2>5, AcknowledgeKeeps, IgnoreUpdateKeeps, AcknowledgeUpdateKeeps
  <2>6. CASE RejectInputResponse(d) \/ FailInputResponseDelivery(d)
    BY <2>6, FailInputKeeps
  <2>7. CASE FailSafeStopUnconfirmed(d) \/ ReconcileCancel(d) \/ RejectUserCancel(d)
    BY <2>7, FailSafeStopUnconfirmedKeeps, ReconcileCancelKeeps, RejectUserCancelKeeps
  <2>8. CASE Look(d) \/ InputRequestNotOpen(d)
    BY <2>8, LookKeeps
  <2>9. CASE SupersedeClaimed(d) \/ Retry(d)
    BY <2>9, SupersedeClaimedKeeps, RetryKeeps
  <2>10. CASE ClaimLost(d)
    BY <2>10, LeaveKeeps
  <2> QED BY <1>3, <2>1, <2>2, <2>3, <2>4, <2>5, <2>6, <2>7, <2>8, <2>9, <2>10 DEF Handle, Finish
<1>4. ASSUME NEW d \in Dispatchers, RenewCommandClaim(d) \/ Crash(d)
      PROVE  Inv'
  BY <1>4, RenewCommandClaimKeeps, LeaveKeeps
<1>5. ASSUME NEW d \in Dispatchers, NEW i \in Seqs, ClaimDueCommands(d, i)
      PROVE  Inv'
  BY <1>5, ClaimDueCommandsKeeps
<1>6. ASSUME NEW state \in Live \cup Ended, NEW K \in SUBSET Keys, NewSnapshot(state, K)
      PROVE  Inv'
  BY <1>6, NewSnapshotKeeps
<1>7. ASSUME NEW r \in 1..MaxRevision, ApplySnapshot(r)
      PROVE  Inv'
  BY <1>7, ApplySnapshotKeeps
<1>8. ASSUME NEW i \in Seqs, AbandonedClaimExpires(i) \/ HeldClaimExpires(i)
      PROVE  Inv'
  BY <1>8, ExpiryKeeps
<1>9. CASE UNCHANGED vars
  BY <1>9, StutterInv
<1> QED BY <1>1, <1>2, <1>3, <1>4, <1>5, <1>6, <1>7, <1>8, <1>9 DEF Next

LEMMA Invariance == Spec => []Inv
BY InitInv, NextInv, PTL DEF Spec

(* Every row of commands, answers and requests, and every handler, has its type,
   and a command has a claim_owner exactly while it is CLAIMED, in every state
   that clients, sweeps and dispatchers reach.                             *)
THEOREM LaneTypeCorrect == Spec => []TypeOK
<1>1. Inv => TypeOK
  BY DEF Inv
<1> QED BY Invariance, <1>1, PTL

(* What the inbox says of an answer, what its command says, and what the request
   shows agree however the dispatchers' transactions interleave with stops,
   snapshots and the promotion sweep: acknowledgeUpdateAndCompleteInputAnswers,
   rejectInputResponseAndFailTask and failInputResponseDelivery write the three
   together, and every other end of an UPDATE ignores its answers.         *)
THEOREM ResponsesAgree == Spec => []ResponseFollowsCommand
<1>1. Inv => ResponseFollowsCommand
  BY DEF Inv, Responses, ResponseTrue, ResponseFollowsCommand
<1> QED BY Invariance, <1>1, PTL

(* Without the legacy tasks/update the Adapter never carries out two different
   answers to one request: acceptMcpInputResponses stores the first one, and
   promotePendingInputResponses puts nothing else into a command.          *)
THEOREM OneAnswerIsTaken == Spec => []AnsweredOnce
<1>1. Inv => AnsweredOnce
  <2> SUFFICES ASSUME Inv, ~Legacy, NEW k \in Keys, NEW a \in Answers, NEW b \in Answers,
                      Delivered(k, a), Delivered(k, b)
               PROVE  a = b
    BY DEF AnsweredOnce
  <2>1. ASSUME NEW x \in Answers, Delivered(k, x)
        PROVE  inbox[k].answer = x
    <3>1. PICK i \in applied : commands[i].type = "UPDATE" /\ <<k, x>> \in commands[i].payload
      BY <2>1 DEF Delivered
    <3>2. i \in Seqs
      BY DEF Inv, TypeOK, Seqs
    <3> DEFINE p == <<k, x>>
    <3>3. p \in commands[i].payload /\ p[1] = k /\ p[2] = x
      BY <3>1
    <3> HIDE DEF p
    <3>4. inbox[p[1]].answer = p[2]
      BY <3>1, <3>2, <3>3 DEF Inv, Given
    <3> QED BY <3>3, <3>4
  <2> QED BY <2>1
<1> QED BY Invariance, <1>1, PTL

(* As long as no lease was lost and no process died, one handler at a time calls
   the Adapter for a Task: the index task_command_one_claimed_per_task_idx and
   the leases that claimDueCommands respects keep the others out.          *)
THEOREM CallsDoNotOverlap == Spec => []CallsAreSerial
<1>1. Inv => CallsAreSerial
  BY DEF Inv, Serial, CallsAreSerial, Busy, At
<1> QED BY Invariance, <1>1, PTL

(* Once the Adapter carried out a stop that was not rejected for another
   execution's sake, no handler that holds its claim calls with a pause, a
   resume, an answer or an intervention: claimDueCommands gives a stopped
   Task's commands to nobody, and its index lets no stop be claimed beside a
   normal command that still is.                                           *)
THEOREM StopsAreLast == Spec => []StopIsLast
<1>1. Inv => StopIsLast
  <2> SUFFICES ASSUME Inv, NEW d \in Dispatchers, At(d, "calling"), Owns(d),
                      Cmd(d).type \in Normal, NEW i \in applied,
                      commands[i].type = "CANCEL", commands[i].state # "REJECTED"
               PROVE  FALSE
    BY DEF StopIsLast
  <2>1. TypeOK /\ Lane /\ Busy(d)
    BY DEF Inv, At, Busy
  <2>2. i \in Seqs /\ i \notin refused /\ commands[i].attempts > 0
    BY <2>1 DEF TypeOK, Lane, Seqs
  <2>3. Effective(i)
    <3>1. commands[i].state \in Unfinished \cup Finished
      BY <2>1, <2>2, RowTypes
    <3> QED BY <2>2, <3>1 DEF Effective, Finished
  <2>4. NormalsFree
    BY <2>1, <2>2, <2>3 DEF Lane
  <2>5. Mine(d) \in Seqs /\ Cmd(d) = commands[Mine(d)]
    BY <2>1, OwnCommand
  <2> QED BY <2>4, <2>5 DEF NormalsFree, Owns
<1> QED BY Invariance, <1>1, PTL
=============================================================================
