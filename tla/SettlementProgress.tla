------------------------- MODULE SettlementProgress -------------------------
(***************************************************************************)
(* What must eventually happen to the requests of Settlement.  A message   *)
(* that is lost after its commit is never posted again, so the history     *)
(* variable lost remembers that one may have been.                         *)
(***************************************************************************)
EXTENDS Settlement

VARIABLE lost      \* history: something failed after a commit

ProgressInit == Init /\ lost = FALSE

\* A crash, a commit whose answer is lost, a post that fails.
Loss == Crash \/ \E h \in Handlers : CommitUnacknowledged(h) \/ LosePost(h)

\* Everything else, failures before the commit included.
Harmless ==
    \/ \E h \in Handlers : Receive(h) \/ Step(h) \/ Fail(h)
    \/ ChangeMembership

ProgressNext ==
    \/ Harmless /\ UNCHANGED lost
    \/ Loss /\ lost' = TRUE

\* A request that has been received keeps running: the event loop and the
\* database serve it until it answers or the process dies.
FairSpec ==
    /\ ProgressInit
    /\ [][ProgressNext]_<<vars, lost>>
    /\ \A h \in Handlers : WF_vars(Step(h))
-----------------------------------------------------------------------------
\* The row lock is given back however a request ends (the finally blocks).
LockReleased == lock # NoHandler ~> lock = NoHandler

\* Every request is answered, by a result or by an error.
RequestsAnswered == \A h \in Handlers : pc[h] # "idle" ~> pc[h] = "idle"

\* Unless something fails after a commit, the members hear that a settlement
\* is complete, also one that completes at its confirmation.
CompletionAnnounced ==
    db.status = "COMPLETED" ~> lost \/ Completed \in {chat[i] : i \in DOMAIN chat}
=============================================================================
