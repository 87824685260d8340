--------------------------- MODULE MCTaskLifecycle ---------------------------
EXTENDS TaskLifecycle

MCDeps == [t \in 1..NumSteps |-> IF t = 1 THEN {} ELSE {t - 1}]

(* Of a cancellation, a replan and the expiry of a lease, a behaviour with    *)
(* two is not followed further, nor is a recovery after a cancellation's late *)
(* put.                                                                       *)
Revised == checkpoint.rev > 1 \/ \E r \in Runtimes : session[r].rev > 1
Cancelled == budget.cancels < MaxCancels
Expired == budget.expiries < MaxExpiries
OneDetour ==
    /\ ~(Revised /\ Cancelled) /\ ~(Revised /\ Expired) /\ ~(Cancelled /\ Expired)
    /\ ~(history.late /\ lease.token > 0)
=============================================================================
