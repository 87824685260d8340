---------------------------- MODULE TaskLifecycle ----------------------------
(* The end of a governed dynamic task: TaskCoordinator derives a terminal    *)
(* verdict from checkpoint, lease and ledger (reconcile_dynamic_recovery_    *)
(* retention), the owner acknowledges it, and the recovery artifacts are     *)
(* compared and deleted. GovernedExecution goes on underneath: every reading *)
(* of a store by these calls is a step of its own, and a decision is carried *)
(* out on what was read. One such call is under way at a time; a call for    *)
(* another revision, or with nothing to do in the record's state, only       *)
(* returns the record and is left out.                                       *)
EXTENDS GovernedExecution

CONSTANTS
    Callers,        \* runtimes that evaluate, acknowledge and clean up
    MaxTokens       \* bound: recovery leases ever granted

ASSUME LifecycleAssumption == Callers \subseteq Runtimes /\ MaxTokens \in Nat

VARIABLES
    life,      \* the durable DynamicTaskLifecycleRecord
    client     \* the evaluate, acknowledge or cleanup call under way

lifecycleVars == <<vars, life, client>>

LifeStates == {"ACTIVE", "ACKNOWLEDGEMENT_PENDING", "RETENTION_ELIGIBLE",
               "CLOSED"}
Classes == {"NONE", "TERMINAL_SUCCESS", "TERMINAL_FAILURE", "USER_CANCELLED"}

NoLife == [on |-> FALSE, rev |-> 1, state |-> "ACTIVE", class |-> "NONE"]

\* create and for_revision.
ActiveFor(rev) == [NoLife EXCEPT !.on = TRUE, !.rev = rev]

\* outdated: a checkpoint put since the view was read counts a further
\* executor call, so that its digest differs whatever its steps say.
NoCall == [pc |-> "none", op |-> "none", by |-> Nobody, sure |-> FALSE,
           seen |-> NoLife, view |-> NoCheckpoint, owned |-> NoLease,
           outdated |-> FALSE]

\* The state a record must be in for an operation to do anything.
Entry == [evaluate    |-> "ACTIVE",
          acknowledge |-> "ACKNOWLEDGEMENT_PENDING",
          cleanup     |-> "RETENTION_ELIGIBLE"]

-----------------------------------------------------------------------------
(* reconcile_dynamic_recovery_retention on checkpoint c, lease l, a caller   *)
(* in runtime r that expects revision rev, and the ledger as it is now.      *)

Ambiguous == InFlight \cup {"UNKNOWN_SIDE_EFFECT"}
Recorded == {o \in Obligations : ledger[o].state # "NONE"}
Planned(c) == {t \in Steps : c.steps[t].state # Absent}
Referring(c) == {t \in Planned(c) : c.steps[t].ref # 0}

UnknownOutcome(c) == \E t \in Referring(c) : LedgerOf(c, t) \in Ambiguous

VerifierConflict(c) ==
    \E t \in Referring(c) :
        /\ c.steps[t].state = "VERIFIED"
        /\ c.steps[t].ref # c.rev \/ ~c.steps[t].verified

LedgerConflict(c) ==
    \E t \in Referring(c) :
        \/ c.steps[t].ref # c.rev
        \/ /\ "VERIFIED" \in {c.steps[t].state, c.steps[t].ledger}
           /\ LedgerOf(c, t) # "VERIFIED"

\* A step that refers to no obligation although it has begun.
OrphanCheckpoint(c) ==
    \E t \in Planned(c) \ Referring(c) :
        \/ c.steps[t].state \in {"EXECUTING", "VERIFIED"}
        \/ c.steps[t].ledger # NotCreated

\* Mistake: a step that refers to no obligation is no obstacle to success.
SuccessByOmission(c) ==
    \A t \in Referring(c) : LedgerOf(c, t) = "VERIFIED"

\* Steps without a reference count against success, not against failure; a
\* task whose executor was never called has no others.
AllStepsVerified(c) ==
    \A t \in Planned(c) : t \in Referring(c) /\ LedgerOf(c, t) = "VERIFIED"
AllTerminal(c) ==
    \A t \in Referring(c) : LedgerOf(c, t) \in {"VERIFIED", "FAILED"}

EndedInFailure(c) == c.status \in {"FAILED", "BLOCKED"}

ForeignOwner(l, r) == l.holder \notin {r, Nobody} /\ ~l.expired

\* SUPERSEDED_REVISION, which no call acts on, is NONE as well.
CheckpointVerdict(c, l, r) ==
    IF UnknownOutcome(c) \/ VerifierConflict(c) \/ LedgerConflict(c)
       \/ OrphanCheckpoint(c) \/ ForeignOwner(l, r)
    THEN "NONE"
    ELSE IF AllStepsVerified(c) /\ Recorded # {} THEN "TERMINAL_SUCCESS"
    ELSE IF EndedInFailure(c) /\ AllTerminal(c) THEN "TERMINAL_FAILURE"
    ELSE IF c.status = "CANCELLED" THEN "USER_CANCELLED"
    ELSE "NONE"

AllSettled == \A o \in Recorded : ledger[o].state \in {"VERIFIED", "FAILED"}

\* _reconcile_orphan_recovery_artifacts: without a checkpoint only the
\* deleting pass calls a settled ledger ALREADY_CLEANED.
AlreadyCleaned(l, deleting) ==
    /\ l.holder = Nobody
    /\ Recorded = {} \/ (deleting /\ AllSettled)

\* Without a checkpoint the deleting pass removes an expired lease.
StaleOwner(l) == l.holder # Nobody /\ l.expired /\ AllSettled

-----------------------------------------------------------------------------
(* The calls.                                                                *)

Running(r) == client.by = r
AtClient(pc) == client.pc = pc
ClientEnds == client' = NoCall
StoreKept == UNCHANGED <<vars, life>>

\* _dynamic_task_lifecycle_record; only a missing record is read further.
Open(r, op) ==
    /\ client = NoCall
    /\ job[r].pc # "down"
    /\ \/ life.on /\ life.state = Entry[op]
       \/ ~life.on /\ op = "evaluate" /\ (checkpoint.on \/ session[r].on)
    /\ client' = [NoCall EXCEPT !.pc = IF life.on THEN "artifacts" ELSE "birth",
                                !.op = op, !.by = r, !.seen = life]
    /\ StoreKept

\* The revision comes from the checkpoint, else from the caller's session.
Birth ==
    LET s == session[client.by]
    IN  /\ AtClient("birth")
        /\ IF checkpoint.on \/ s.on
           THEN client' = [client EXCEPT !.pc = "register",
                    !.seen = ActiveFor(IF checkpoint.on THEN checkpoint.rev
                                       ELSE s.rev)]
           ELSE ClientEnds
        /\ StoreKept

\* put_dynamic_task_lifecycle overwrites whatever is there.
Register ==
    /\ AtClient("register")
    /\ life' = client.seen
    /\ client' = [client EXCEPT !.pc = "artifacts"]
    /\ UNCHANGED vars

\* dynamic_recovery_artifacts: both under one lock.
Artifacts ==
    /\ AtClient("artifacts")
    /\ client' = [client EXCEPT !.pc = "ledger", !.view = checkpoint,
                                !.owned = lease, !.outdated = FALSE]
    /\ StoreKept

Settling(record) ==
    client' = [NoCall EXCEPT !.pc = "settle", !.op = client.op,
                             !.by = client.by, !.seen = record]

\* Mistake: a verdict that decides nothing makes a candidate all the same.
ConclusiveAnyway(c, verdict) == c.on
Conclusive(c, verdict) == c.on /\ verdict # "NONE"

\* What the call does with the verdict. Cleanup asks for it twice; the second,
\* deleting pass deletes on any verdict, and sure keeps whether it agreed.
Judge ==
    LET c == client.view
        verdict == CheckpointVerdict(c, client.owned, client.by)
        agreed == c.on /\ verdict = client.seen.class
    IN  /\ AtClient("ledger")
        /\ \/ /\ client.op = "evaluate"
              /\ Conclusive(c, verdict)
              /\ Settling([client.seen EXCEPT
                     !.state = "ACKNOWLEDGEMENT_PENDING", !.class = verdict])
           \/ /\ client.op = "acknowledge" /\ agreed
              /\ Settling([client.seen EXCEPT !.state = "RETENTION_ELIGIBLE"])
           \/ /\ client.op = "cleanup" /\ ~client.sure
              /\ agreed \/ (~c.on /\ AlreadyCleaned(client.owned, FALSE))
              /\ client' = [client EXCEPT !.pc = "artifacts", !.sure = TRUE,
                                  !.view = NoCheckpoint, !.owned = NoLease]
           \/ /\ client.op = "cleanup" /\ client.sure
              /\ Conclusive(c, verdict)
              /\ client' = [client EXCEPT !.pc = "permit", !.sure = agreed]
           \/ /\ client.op = "cleanup" /\ client.sure
              /\ ~c.on /\ StaleOwner(client.owned)
              /\ client' = [client EXCEPT !.pc = "erase", !.sure = FALSE]
           \/ /\ client.op = "cleanup" /\ client.sure
              /\ ~c.on /\ AlreadyCleaned(client.owned, TRUE)
              /\ Settling([client.seen EXCEPT !.state = "CLOSED"])
        /\ StoreKept

\* Once a lifecycle record exists, it must release this revision.
Permit ==
    /\ AtClient("permit")
    /\ IF life.rev = client.view.rev /\ life.state \in {"RETENTION_ELIGIBLE", "CLOSED"}
       THEN client' = [client EXCEPT !.pc = "erase"]
       ELSE ClientEnds
    /\ StoreKept

\* The pair of lease id and fencing token is a number that never restarts.
NoOwner == [lease EXCEPT !.holder = Nobody, !.expired = TRUE]
SameCheckpoint == checkpoint = client.view /\ ~client.outdated
SameLease == lease.holder = client.owned.holder /\ lease.token = client.owned.token

EraseNow ==
    /\ checkpoint' = NoCheckpoint
    /\ lease' = NoOwner
    /\ IF client.sure THEN Settling([client.seen EXCEPT !.state = "CLOSED"])
       ELSE ClientEnds

\* Mistake: the checkpoint's digest is not compared.
EraseUncompared ==
    /\ AtClient("erase")
    /\ SameLease /\ EraseNow
    /\ UNCHANGED <<ledger, delivered, session, evidence, consumed, reconciled,
                   job, cancelling, budget, history, life>>

\* _cleanup_dynamic_recovery_artifacts; a difference ends the call.
Erase ==
    /\ AtClient("erase")
    /\ \/ SameCheckpoint /\ SameLease /\ EraseNow
       \/ /\ ~(SameCheckpoint /\ SameLease)
          /\ ClientEnds
          /\ UNCHANGED <<checkpoint, lease>>
    /\ UNCHANGED <<ledger, delivered, session, evidence, consumed, reconciled,
                   job, cancelling, budget, history, life>>

Settle ==
    /\ AtClient("settle")
    /\ life' = client.seen
    /\ ClientEnds
    /\ UNCHANGED vars

\* A verdict that allows nothing, a storage error, or the caller's death.
Abandon ==
    /\ client # NoCall
    /\ ClientEnds
    /\ StoreKept

Call == \/ Birth \/ Register \/ Artifacts \/ Judge \/ Permit \/ Erase
        \/ Settle \/ Abandon \/ \E r \in Callers, op \in DOMAIN Entry : Open(r, op)

-----------------------------------------------------------------------------
(* The task underneath.                                                      *)

Undisturbed == UNCHANGED <<life, client>>

\* replan_dynamic_task: a revised plan makes an existing record active again.
ReplanAndReset(r) ==
    /\ Replan(r)
    /\ life' = IF life.on /\ session'[r].rev # session[r].rev
               THEN ActiveFor(session'[r].rev) ELSE life
    /\ UNCHANGED client

\* executor_invocation_count is stored with each BEFORE_EXECUTION checkpoint.
PutAndCount(r) ==
    /\ Put(r)
    /\ client' = [client EXCEPT
           !.outdated = @ \/ (client.view.on /\ job[r].pc = "putBefore")]
    /\ UNCHANGED life

\* A crash ends the calls of its process.
CrashCalls(r) ==
    /\ Crash(r)
    /\ client' = IF Running(r) THEN NoCall ELSE client
    /\ UNCHANGED life

LifecycleInit == Init /\ life = NoLife /\ client = NoCall

\* A task is admitted once: its id is new.
AdmitOnce == ~life.on /\ Admit /\ Undisturbed

\* A cancellation's late put brings an older count back: the record may again
\* be the one that the call has read.
CancelPutAndCount(r) ==
    /\ CancelPut(r)
    /\ \E outdated \in BOOLEAN :
           /\ ~(history'.late /\ client.view.on) => outdated = client.outdated
           /\ client' = [client EXCEPT !.outdated = outdated]
    /\ UNCHANGED life

TaskStep ==
    \/ AdmitOnce /\ UNCHANGED cancelling
    \/ ExpireLease /\ Undisturbed /\ UNCHANGED cancelling
    \/ \E r \in Runtimes :
        \/ (Cancel(r) \/ CancelPutFails(r)) /\ Undisturbed
        \/ CancelPutAndCount(r)
        \/ CrashCalls(r)
        \/ /\ \/ (Run(r) \/ Execute(r) \/ PutFails(r) \/ AskPlanner(r)
                  \/ (Recover(r) /\ lease'.token <= MaxTokens)) /\ Undisturbed
              \/ PutAndCount(r)
              \/ ReplanAndReset(r)
           /\ UNCHANGED cancelling

LifecycleNext == TaskStep \/ Call
LifecycleSpec == LifecycleInit /\ [][LifecycleNext]_lifecycleVars

-----------------------------------------------------------------------------
(* Properties.                                                               *)

LifeRecords == [on : BOOLEAN, rev : Revisions, state : LifeStates,
                class : Classes]

Leases == [holder : Runtimes \cup {Nobody}, token : Nat, rev : Revisions,
           expired : BOOLEAN]

CallPCs == {"none", "birth", "register", "artifacts", "ledger", "permit",
            "erase", "settle"}

Calls == [pc : CallPCs, op : DOMAIN Entry \cup {"none"},
          by : Runtimes \cup {Nobody}, sure : BOOLEAN, seen : LifeRecords,
          view : Checkpoints, owned : Leases, outdated : BOOLEAN]

\* The shape of the record and of the call, and the fields that go together.
LifecycleTypeOK ==
    /\ life \in LifeRecords /\ client \in Calls
    /\ life.state = "ACTIVE" <=> life.class = "NONE"

Erased == checkpoint.on /\ ~checkpoint'.on

(* Cleanup never deletes a checkpoint that a restart could still need: none  *)
(* of its steps is under way and no obligation it names is in flight or      *)
(* unknown, however the task moved on between the verdict and the deletion.  *)
(* Only a cancelled task that two runtimes work on, or whose cancellation    *)
(* was put late, is not that safe.                                           *)
NeededIsRetained ==
    [][Erased => \A t \in Planned(checkpoint) :
            /\ checkpoint.steps[t].state # "EXECUTING"
            /\ \/ LedgerOf(checkpoint, t) \notin Ambiguous
               \/ Disturbed /\ checkpoint.status = "CANCELLED"]_lifecycleVars

(* A task is only called a success when every step's call reached the phone  *)
(* and is VERIFIED in the ledger under some revision of the plan.            *)
SuccessIsReal ==
    life.class = "TERMINAL_SUCCESS" =>
        \A t \in Steps : \E v \in Revisions :
            ledger[<<v, t>>].state = "VERIFIED" /\ delivered[<<v, t>>] > 0

(* Once a task is called a success the phone receives nothing more for it:   *)
(* no session, no checkpoint and no recovery under way still has a step to   *)
(* send. Left out are two runtimes at once, a cancellation's late put, and   *)
(* withdrawn steps, which recovery makes runnable again.                     *)
SuccessIsFinal ==
    [][/\ life.class = "TERMINAL_SUCCESS"
       /\ history.stopped = {} /\ ~Disturbed
       => delivered' = delivered]_lifecycleVars

\* ADR-072: DISPATCHED, OBSERVING or UNKNOWN_SIDE_EFFECT retains everything;
\* here even where every failed call was reported as an MCPCallError.
UnknownIsRetained ==
    [][Erased /\ ~history.rawLoss =>
          \A o \in Obligations : ledger[o].state \notin Ambiguous]_lifecycleVars
=============================================================================
