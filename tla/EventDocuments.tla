--------------------------- MODULE EventDocuments ---------------------------
(***************************************************************************)
(* What the requirements and the profile say of the Business Events        *)
(* pipeline and its code does not do.  TLC refutes each definition.        *)
(***************************************************************************)
EXTENDS BusinessEvents

\* SDAR_BUSINESS_EVENTS_PROFILE_V1_0.md:28, "Confirmed durable continuity loss ...
\* rotate[s] the runtime stream atomically", requirements section 18 in one
\* transaction: the lost fact is marked in one transaction and the rotation is
\* another, and acquireSourceLease refuses the source in between.  If the replica
\* dies there, nobody rotates.
LossIsRotated ==
    \A s \in Durable : source[s].status = "continuity_loss_pending"
                            ~> source[s].status # "continuity_loss_pending"

\* Requirements section 32, "all durable and no confirmed gap: continuous", which
\* the acknowledgement of a subscription says of a generation of durable sources:
\* the facts a generation holds of a source have no gap between them.  A poison
\* fact rotates at once, while earlier facts still wait for their Tasks.
GenerationIsContinuous ==
    Durable = Sources => \A s \in Sources : \A p, q \in EventsOf(s) :
        p[1] = q[1] => \A n \in FactAt(p)..FactAt(q) : \E i \in 1..Len(log[p[1]]) :
            log[p[1]][i] = <<s, n>>

\* Requirements section 23.1, point 5, a best effort source "marks degraded and
\* terminates" a rejected fact: its row stays open and blocks all later facts of
\* the source.
PoisonTerminates ==
    \A s \in Sources \ Durable, n \in Facts :
        inbox[s][n] = Rejected ~> inbox[s][n] # Rejected

\* Requirements sections 23.2 and 23.3: a blocked source recovers only with a new
\* source stream or by an operator.  Any rotation of the Provider, and a stream
\* error that races the handler of the conflicting fact, unblock it.
BlockIsSticky ==
    [][\A s \in Sources : source[s].status = "blocked_identity_conflict" =>
           \/ source'[s].status = "blocked_identity_conflict"
           \/ Len(records') > Len(records) /\ records'[Len(records')].identity[1] = "operator"]_vars
=============================================================================
