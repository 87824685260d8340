---------------------- MODULE MCActionObligationLedger ----------------------
(* A ledger of one full record, two records in all, an archive of one and an *)
(* idempotency window of one event, shared by two callers: rotation,         *)
(* tombstones, archive eviction and both refusals happen within three        *)
(* obligations.                                                              *)
EXTENDS ActionObligationLedger, TLC

MCEpochs == {1}

Symmetric == Permutations(Callers)
=============================================================================
