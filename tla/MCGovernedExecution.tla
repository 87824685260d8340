------------------------ MODULE MCGovernedExecution ------------------------
(* A plan whose steps each depend on the one before, or whose last step      *)
(* depends on all the others. The admitting runtime is told apart from the   *)
(* other runtimes, which are interchangeable.                                *)
EXTENDS GovernedExecution, TLC

MCDeps == [t \in 1..NumSteps |-> IF t = 1 THEN {} ELSE {t - 1}]

MCForked == [t \in 1..NumSteps |-> IF t = NumSteps THEN 1..(t - 1) ELSE {}]

Symmetric == Permutations(Runtimes \ {First})

(* Behaviours that are not followed further: a cancellation together with a  *)
(* storage error, the expiry of a lease or a recovery, or, where runtimes    *)
(* overlap, only a cancellation together with the expiry of a lease.         *)
Cancelled == budget.cancels < MaxCancels
Expired == budget.expiries < MaxExpiries
Faulty == budget.faults < MaxFaults
CancelAlone == ~(Cancelled /\ (Faulty \/ Expired \/ lease.token > 0))
NotAllAtOnce == ~(Cancelled /\ Expired /\ history.overlap)
=============================================================================
