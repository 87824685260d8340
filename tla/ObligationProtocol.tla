------------------------- MODULE ObligationProtocol -------------------------
(* The life of one action obligation: the state names and the transition     *)
(* table of ActionObligationLedger, shared by the model of the ledger itself *)
(* and by the model of the executor that drives it.                          *)

\* STATES: every state a stored obligation can be in.
ObligationStates ==
    {"CREATED", "AUTHORIZED", "DISPATCHED", "OBSERVING",
     "VERIFIED", "FAILED", "UNKNOWN_SIDE_EFFECT"}

\* TRANSITIONS: the targets each state allows.
Transitions ==
    [s \in ObligationStates |->
        CASE s = "CREATED"             -> {"AUTHORIZED", "FAILED"}
          [] s = "AUTHORIZED"          -> {"DISPATCHED", "FAILED"}
          [] s = "DISPATCHED"          -> {"OBSERVING", "UNKNOWN_SIDE_EFFECT"}
          [] s = "OBSERVING"           -> {"VERIFIED", "FAILED", "UNKNOWN_SIDE_EFFECT"}
          [] s = "UNKNOWN_SIDE_EFFECT" -> {"OBSERVING"}
          [] OTHER                     -> {}]

\* ARCHIVABLE_STATES: the states no transition leaves.
Settled == {"VERIFIED", "FAILED"}

\* The states recover_interrupted turns into UNKNOWN_SIDE_EFFECT.
InFlight == {"DISPATCHED", "OBSERVING"}

(* The guard of transition(): the table, plus the rule that an uncertain      *)
(* effect is left only for a fresh observation.                               *)
MayMove(from, to, reason) ==
    /\ to \in Transitions[from]
    /\ from = "UNKNOWN_SIDE_EFFECT" => reason = "fresh_observation_started"
=============================================================================
