--------------------------- MODULE FireDocuments ---------------------------
(* Sentences about the fire control that the code does not keep: TLC finds *)
(* a counterexample to each with the constants of MCFire.                  *)
EXTENDS FireDispatch

\* docs/adapter/quick-start.md:21: "never regress a terminal execution".  The
\* second write of an accepted dispatch, or a prepared intent, comes from a copy
\* read before another replica ended the execution (putExecution).
TerminalIsFinal == [][row.state \in Terminal => row'.state = row.state]_row

\* Interface protocol profile:743: fire can be cancelled before the irreversible
\* local action.  A cancel that meets the prepared row is refused as if it had
\* been dispatched, although the fence is not armed yet (#command).
CancelledUntilArmed ==
    [][\A r \in Replicas :
         (At(r, "execution") /\ proc'[r].reply = "unsupported" /\ row.state = "STARTING")
             => fence \notin {"none", "unarmed"}]_vars

\* npc-tank-provider-adapter.test.ts:644 starts the next fire task once a race of
\* cancel and accept is over.  The replica that started the execution keeps its
\* tracks when another one ended it: only the one that writes the end releases.
EndedFreesTracks ==
    (row.state \in Terminal) ~> (\A r \in Replicas : ~tracks[r])
=============================================================================
