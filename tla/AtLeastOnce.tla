----------------------------- MODULE AtLeastOnce -----------------------------
(***************************************************************************)
(* What both of the Runtime's outboxes promise of the items that are       *)
(* queued in the transaction of the fact they report: an item is told at   *)
(* least once before it is settled as told, what is settled stays settled, *)
(* and only a queue that gives up may drop an item untold.                 *)
(*                                                                         *)
(* OpsDelivery and Retention are shown to implement it.                    *)
(***************************************************************************)
EXTENDS Naturals

CONSTANTS
    Items,     \* what is reported
    MayDrop    \* does the queue give up?  (a set of BOOLEAN: the values allowed)

VARIABLES
    state,     \* of each item: absent, queued, told or dropped
    told       \* items the receiver accepted, maybe several times

\* A Task may be published with a fact to report.
Init ==
    /\ state \in [Items -> {"absent", "queued"}]
    /\ told = {}

In(items, s) == \A i \in items : state[i] = s
Becomes(items, s) == state' = [i \in Items |-> IF i \in items THEN s ELSE state[i]]

\* Facts are committed.
Queue(items) ==
    /\ In(items, "absent") /\ Becomes(items, "queued")
    /\ UNCHANGED told

\* The receiver accepts items, also of a deliverer that does not know that they
\* were settled meanwhile.
Tell(items) ==
    /\ \A i \in items : state[i] # "absent"
    /\ told' = told \cup items
    /\ UNCHANGED state

\* Items the receiver accepted are settled.
Settle(items) ==
    /\ In(items, "queued") /\ items \subseteq told
    /\ Becomes(items, "told")
    /\ UNCHANGED told

Drop(items) ==
    /\ TRUE \in MayDrop
    /\ In(items, "queued") /\ Becomes(items, "dropped")
    /\ UNCHANGED told

Next == \E items \in SUBSET Items :
    Queue(items) \/ Tell(items) \/ Settle(items) \/ Drop(items)

Spec == Init /\ [][Next]_<<state, told>>
=============================================================================
