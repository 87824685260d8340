--------------------------- MODULE GovernedPromise ---------------------------
(* What governed execution promises the user whose phone it works on. Each   *)
(* obligation is recorded, then committed to, then at most called once, and  *)
(* ends in an outcome that is never taken back; until then its effect is in  *)
(* doubt. A later revision of the plan calls for a step again only after the *)
(* earlier call is known to have failed, and a success is only announced of  *)
(* a call that was made and verified.                                        *)
EXTENDS Integers

CONSTANTS
    Revisions,    \* of the plan, numbered
    Steps,        \* of the plan
    Sequential    \* whether each step waits for the one before

Obligations == Revisions \X Steps

VARIABLES
    outcome,      \* what is on record of each obligation
    sent,         \* the obligations whose call the phone received
    announced,    \* those the user is told are done
    shared,       \* whether two processes have worked on the task at once
    uncertain     \* whether a call ended in an error that says nothing, or the
                  \* record of the task was set back

promiseVars == <<outcome, sent, announced, shared, uncertain>>

PromiseInit ==
    /\ outcome = [o \in Obligations |-> "unrecorded"]
    /\ sent = {} /\ announced = {}
    /\ shared = FALSE /\ uncertain = FALSE

Becomes(o, from, to) ==
    /\ outcome[o] \in from
    /\ outcome' = [outcome EXCEPT ![o] = to]
    /\ UNCHANGED <<sent, announced, shared, uncertain>>

Record(o) == Becomes(o, {"unrecorded"}, "open")
Commit(o) == Becomes(o, {"open"}, "doubtful")
Refuse(o) == Becomes(o, {"open"}, "failed")

\* Only a call that was made is judged, and its outcome is final.
Conclude(o, verdict) == o \in sent /\ Becomes(o, {"doubtful"}, verdict)

\* Whatever was sent for the step before is an earlier revision's failure.
Renewed(o) ==
    \A p \in sent : p[2] = o[2] => p[1] < o[1] /\ outcome[p] = "failed"

\* Only the commitment is promised also to processes that work side by side.
Call(o) ==
    /\ outcome[o] \notin {"unrecorded", "open"}
    /\ ~shared => outcome[o] = "doubtful" /\ o \notin sent
    /\ Sequential /\ ~shared /\ ~uncertain => Renewed(o)
    /\ sent' = sent \cup {o}
    /\ UNCHANGED <<outcome, announced, shared, uncertain>>

\* What is announced may be taken back, and then be out of date.
Announce ==
    /\ announced' \subseteq {o \in sent : outcome[o] = "verified"}
    /\ uncertain' \in {uncertain, TRUE}
    /\ UNCHANGED <<outcome, sent, shared>>

Disturb ==
    /\ shared' \in {shared, TRUE} /\ uncertain' \in {uncertain, TRUE}
    /\ UNCHANGED <<outcome, sent, announced>>

PromiseNext ==
    \/ \E o \in Obligations :
           \/ Record(o) \/ Commit(o) \/ Refuse(o) \/ Call(o)
           \/ \E verdict \in {"verified", "failed"} : Conclude(o, verdict)
    \/ Announce
    \/ Disturb

Promise == PromiseInit /\ [][PromiseNext]_promiseVars
=============================================================================
