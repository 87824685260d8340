-------------------------- MODULE GovernedExecution --------------------------
(* One governed dynamic task from admission to its durable outcome, over     *)
(* crashes and recovery by other runtimes: TaskCoordinator's dynamic path,   *)
(* the checkpoint and recovery lease in CoordinatorStateStore, the one-use   *)
(* bindings of GovernedCapabilityBindingRuntime, PlanExecutor's single-step  *)
(* pipeline and the obligation ledger it drives, and the phone at the other  *)
(* end of MCPClient. A runtime is one process epoch; it runs one coordinator *)
(* call at a time, except that cancel_dynamic_task may come from another     *)
(* thread. Each access to a locked file or to the phone is a step.           *)
EXTENDS Integers, FiniteSets, ObligationProtocol

CONSTANTS
    Runtimes,       \* process epochs that may work on the task
    First,          \* the runtime that admits it
    Nobody,         \* holder of the lease before the first recovery
    NumSteps,       \* steps of the admitted plan
    Deps,           \* Deps[t]: the earlier steps that step t depends on
    MaxReplans,     \* max_replans of the plan
    MaxExpiries,    \* bound: lease expiries
    MaxFaults,      \* bound: storage errors
    MaxCancels,     \* bound: cancel_dynamic_task calls
    MaxOverlaps     \* bound: recoveries begun beside a live runtime

ASSUME PlanAssumption ==
    /\ First \in Runtimes
    /\ Nobody \notin Runtimes
    /\ NumSteps \in Nat \ {0}
    /\ Deps \in [1..NumSteps -> SUBSET (1..NumSteps)]
    /\ \A t \in 1..NumSteps : \A d \in Deps[t] : d < t
    /\ MaxReplans \in Nat /\ MaxExpiries \in Nat
    /\ MaxFaults \in Nat /\ MaxCancels \in Nat /\ MaxOverlaps \in Nat

Steps == 1..NumSteps
Revisions == 1..(MaxReplans + 1)

\* The obligation reference is a digest of plan, revision and step.
Obligations == Revisions \X Steps

StepStates == {"PENDING", "AWAITING_RISK", "AWAITING_CONFIRMATION", "EXECUTING",
               "VERIFIED", "FAILED", "BLOCKED", "REPLAN_REQUIRED", "CANCELLED"}

\* A step whose skill is already verified is not in the revised plan.
Absent == "ABSENT"

Statuses == {"READY", "RUNNING", "WAITING_CONFIRMATION", "DONE", "FAILED",
             "BLOCKED", "CANCELLED", "REPLAN_REQUIRED"}

NotCreated == "NOT_CREATED"
EvidenceStates == ObligationStates \cup {NotCreated}

VARIABLES
    ledger,      \* obligation ledger: state, and executor events applied
    delivered,   \* how often the phone received each obligation's call
    checkpoint,  \* the durable checkpoint of the task
    lease,       \* its recovery lease
    session,     \* in-memory session of each runtime
    evidence,    \* executor results each runtime holds in memory
    consumed,    \* bindings each runtime has used up
    reconciled,  \* epochs whose reconciliation event the ledger has applied
    job,         \* the coordinator call each runtime has under way
    cancelling,  \* the checkpoint its cancellation has yet to put, if any
    budget,      \* environment events left
    history      \* what has happened, for the properties

vars == <<ledger, delivered, checkpoint, lease, session, evidence, consumed,
          reconciled, job, cancelling, budget, history>>

-----------------------------------------------------------------------------
(* Records.                                                                  *)

NoEvidence == [state |-> NotCreated, verified |-> FALSE]

AbsentRecord == [state |-> Absent, ref |-> 0, ledger |-> NotCreated,
                 verified |-> FALSE]

NoCheckpoint == [on |-> FALSE, rev |-> 1, status |-> "READY",
                 steps |-> [t \in Steps |-> AbsentRecord]]

NoSession == [on |-> FALSE, rev |-> 1, status |-> "READY", failed |-> 0,
              token |-> 0, steps |-> [t \in Steps |-> Absent]]

NoLease == [holder |-> Nobody, token |-> 0, rev |-> 1, expired |-> FALSE]

AtRest == [pc |-> "idle", step |-> 0, token |-> 0, summary |-> NotCreated,
           view |-> NoCheckpoint]
Down == [AtRest EXCEPT !.pc = "down"]

Recovering == {"acquire", "reconcile", "decide"}

InPlan(s) == {t \in Steps : s.steps[t] # Absent}
PlanDeps(s, t) == Deps[t] \cap InPlan(s)
AllVerified(s) == \A t \in InPlan(s) : s.steps[t] = "VERIFIED"

Oblig(r) == <<session[r].rev, job[r].step>>

\* The lease the session was recovered under, if any, is still the stored one.
Holds(r, s) == s.token = 0 \/ (lease.holder = r /\ lease.token = s.token)

\* _dynamic_recovery_ownership_valid at the present time.
Owns(r, s) == Holds(r, s) /\ (s.token # 0 => ~lease.expired)

-----------------------------------------------------------------------------
(* DynamicPlanRecoveryCheckpoint.from_session: evidence comes from this      *)
(* process, else from the stored checkpoint when the step's state needs it;  *)
(* VERIFIED without evidence is written as REPLAN_REQUIRED.                  *)

NeedsEvidence == {"VERIFIED", "BLOCKED", "FAILED", "REPLAN_REQUIRED"}

StepRecord(s, own, t) ==
    LET prior == checkpoint.steps[t]
        inherits == /\ checkpoint.on
                    /\ own.state = NotCreated
                    /\ s.steps[t] \in NeedsEvidence
        ref == IF inherits THEN prior.ref
               ELSE IF own.state = NotCreated THEN 0 ELSE s.rev
        verified == IF inherits THEN prior.verified ELSE own.verified
        proven == ref # 0 /\ verified
    IN  [state |-> IF s.steps[t] = "VERIFIED" /\ ~proven
                   THEN "REPLAN_REQUIRED" ELSE s.steps[t],
         ref |-> ref,
         ledger |-> IF inherits THEN prior.ledger ELSE own.state,
         verified |-> verified]

\* own is the evidence of the runtime, by obligation.
FromSession(s, own) ==
    LET steps == [t \in Steps |->
                     IF t \in InPlan(s) THEN StepRecord(s, own[<<s.rev, t>>], t)
                     ELSE AbsentRecord]
        downgraded == \E t \in Steps : steps[t].state # s.steps[t]
    IN  [on |-> TRUE, rev |-> s.rev, steps |-> steps,
         status |-> IF downgraded THEN "REPLAN_REQUIRED" ELSE s.status]

\* validate_record: the status agrees with the step states.
WellFormed(c) ==
    /\ (c.status = "WAITING_CONFIRMATION") <=>
           (\E t \in Steps : c.steps[t].state = "AWAITING_CONFIRMATION")
    /\ (c.status = "DONE") <=>
           (\A t \in Steps : c.steps[t].state \in {"VERIFIED", Absent})

\* _persist_dynamic_checkpoint up to its put; an exception ends the call.
Saving(s, own, allowed, next, t) ==
    LET record == FromSession(s, own)
    IN  IF allowed /\ WellFormed(record)
        THEN [AtRest EXCEPT !.pc = next, !.step = t, !.view = record]
        ELSE AtRest

\* The call ends with session s: its lease was checked at the call's start,
\* so only a change of holder is noticed here.
Finish(r, s, own) ==
    /\ session' = [session EXCEPT ![r] = s]
    /\ job' = [job EXCEPT ![r] = Saving(s, own, Holds(r, s), "put", 0)]

-----------------------------------------------------------------------------
(* Session updates that end a step.                                          *)

Replanned(s, t) ==
    [s EXCEPT !.steps[t] = "REPLAN_REQUIRED", !.status = "REPLAN_REQUIRED",
              !.failed = t]

Blocked(s, t) ==
    [s EXCEPT !.steps[t] = "BLOCKED", !.status = "BLOCKED", !.failed = t]

\* _block_failed_dynamic_dependencies: every pending step downstream of t.
Downstream(s, t) ==
    LET hit[u \in Steps] ==
            \/ u = t
            \/ s.steps[u] = "PENDING" /\ \E d \in PlanDeps(s, u) : hit[d]
    IN  {u \in Steps \ {t} : s.steps[u] = "PENDING" /\ hit[u]}

FailedForGood(s, t) ==
    [s EXCEPT !.steps = [u \in Steps |->
                            IF u = t THEN "FAILED"
                            ELSE IF u \in Downstream(s, t) THEN "BLOCKED"
                            ELSE s.steps[u]],
              !.status = IF Downstream(s, t) = {} THEN "FAILED" ELSE "BLOCKED",
              !.failed = t]

Verified(s, t) ==
    LET v == [s EXCEPT !.steps[t] = "VERIFIED", !.failed = 0]
    IN  [v EXCEPT !.status = IF AllVerified(v) THEN "DONE" ELSE "RUNNING"]

-----------------------------------------------------------------------------
(* The ledger as the executor sees it. An executor event is named after the  *)
(* obligation and the target state, so the same move made twice, by anyone,  *)
(* is a successful replay that changes nothing. A storage error may strike   *)
(* before or after the record is in place.                                   *)

Applied(entry, target) ==
    [state |-> target, applied |-> entry.applied \cup {target}]

MoveAccepted(entry, target) ==
    target \in entry.applied \/ MayMove(entry.state, target, "execution")

AfterMove(entry, target) ==
    IF target \in entry.applied THEN entry ELSE Applied(entry, target)

MoveSucceeds(o, target) ==
    /\ ledger[o].state # "NONE"
    /\ MoveAccepted(ledger[o], target)
    /\ ledger' = [ledger EXCEPT ![o] = AfterMove(@, target)]
    /\ UNCHANGED budget

MoveFails(o, target) ==
    \/ /\ ~MoveAccepted(ledger[o], target)
       /\ UNCHANGED <<ledger, budget>>
    \/ /\ budget.faults > 0
       /\ MoveAccepted(ledger[o], target)
       /\ budget' = [budget EXCEPT !.faults = @ - 1]
       /\ \/ UNCHANGED ledger
          \/ ledger' = [ledger EXCEPT ![o] = AfterMove(@, target)]

\* The result the runtime keeps for the step: the obligation summary, if any.
Keep(r, state, verified) ==
    [evidence EXCEPT ![r][Oblig(r)] = [state |-> state, verified |-> verified]]

-----------------------------------------------------------------------------
(* admit_dynamic_plan, run_dynamic_step up to the executor.                  *)

Init ==
    /\ ledger = [o \in Obligations |-> [state |-> "NONE", applied |-> {}]]
    /\ delivered = [o \in Obligations |-> 0]
    /\ checkpoint = NoCheckpoint
    /\ lease = NoLease
    /\ session = [r \in Runtimes |-> NoSession]
    /\ evidence = [r \in Runtimes |-> [o \in Obligations |-> NoEvidence]]
    /\ consumed = [r \in Runtimes |-> {}]
    /\ reconciled = {}
    /\ job = [r \in Runtimes |-> AtRest]
    /\ cancelling = [r \in Runtimes |-> NoCheckpoint]
    /\ budget = [faults |-> MaxFaults, expiries |-> MaxExpiries,
                 cancels |-> MaxCancels, overlaps |-> MaxOverlaps]
    /\ history = [overlap |-> FALSE, rawLoss |-> FALSE, late |-> FALSE,
                  stopped |-> {}]

\* The caller learns the task id only after the PLAN_ADMITTED checkpoint.
Admit ==
    LET s == [NoSession EXCEPT !.on = TRUE,
                               !.steps = [t \in Steps |-> "PENDING"]]
    IN  /\ ~checkpoint.on
        /\ job[First] = AtRest
        /\ session' = [session EXCEPT ![First] = s]
        /\ checkpoint' = FromSession(s, evidence[First])
        /\ UNCHANGED <<ledger, delivered, lease, evidence, consumed,
                       reconciled, job, budget, history>>

\* _next_dynamic_step: a confirmation first, else the first step that its
\* dependencies have decided; such a step may have to be blocked instead.
Confirming(s) == {t \in Steps : s.steps[t] = "AWAITING_CONFIRMATION"}
Doomed(s, t) ==
    \E d \in PlanDeps(s, t) :
        s.steps[d] \in {"BLOCKED", "FAILED", "REPLAN_REQUIRED", "CANCELLED"}
Decided(s) ==
    {t \in Steps :
        /\ s.steps[t] = "PENDING"
        /\ Doomed(s, t) \/ \A d \in PlanDeps(s, t) : s.steps[d] = "VERIFIED"}
Candidates(s) == IF Confirming(s) # {} THEN Confirming(s) ELSE Decided(s)
NextStep(s) == CHOOSE t \in Candidates(s) : \A u \in Candidates(s) : t <= u
HasRunnable(s) ==
    Candidates(s) # {} /\ (Confirming(s) # {} \/ ~Doomed(s, NextStep(s)))

Terminal == {"DONE", "FAILED", "BLOCKED", "CANCELLED"}

MayCall(r) == job[r] = AtRest /\ session[r].on
MayRun(r) ==
    MayCall(r) /\ Owns(r, session[r]) /\ session[r].status \notin Terminal

UnchangedByCalls == <<ledger, delivered, checkpoint, lease, evidence, consumed,
                      reconciled, budget, history>>

RunFenced(r) ==
    /\ MayCall(r)
    /\ ~Owns(r, session[r])
    /\ session' = [session EXCEPT ![r].status = "BLOCKED"]
    /\ UNCHANGED job /\ UNCHANGED UnchangedByCalls

\* A settled task, a call for another revision of the plan, or a replan that
\* is not required: the checkpoint is only written anew.
RunRefused(r) ==
    /\ MayCall(r)
    /\ Owns(r, session[r])
    /\ Finish(r, session[r], evidence[r])
    /\ UNCHANGED UnchangedByCalls

RunNothing(r) ==
    LET s == session[r]
    IN  /\ MayRun(r)
        /\ ~HasRunnable(s)
        /\ Finish(r, IF Candidates(s) # {} THEN Blocked(s, NextStep(s))
                     ELSE IF AllVerified(s) THEN [s EXCEPT !.status = "DONE"]
                     ELSE s,
                  evidence[r])
        /\ UNCHANGED UnchangedByCalls

\* validate_dynamic_step_binding: a used binding is refused, and any other
\* may be missing or stale; a validator that raises blocks a confirmed step.
RunUnbound(r) ==
    LET s == session[r]
        t == NextStep(s)
    IN  /\ MayRun(r)
        /\ HasRunnable(s)
        /\ \/ Finish(r, Replanned(s, t), evidence[r])
           \/ /\ s.steps[t] = "AWAITING_CONFIRMATION"
              /\ Finish(r, [Blocked(s, t) EXCEPT !.status = "FAILED"], evidence[r])
        /\ UNCHANGED UnchangedByCalls

Bound(r, s, t) == <<s.rev, t>> \notin consumed[r]

\* The Risk Controller asks for a confirmation or refuses.
RunUnauthorized(r) ==
    LET s == session[r]
        t == NextStep(s)
    IN  /\ MayRun(r)
        /\ HasRunnable(s)
        /\ Bound(r, s, t)
        /\ \/ Finish(r, [s EXCEPT !.steps[t] = "AWAITING_CONFIRMATION",
                                  !.status = "WAITING_CONFIRMATION"], evidence[r])
           \/ Finish(r, Blocked(s, t), evidence[r])
        /\ UNCHANGED UnchangedByCalls

RunAllowed(r) ==
    LET s == session[r]
        t == NextStep(s)
    IN  /\ MayRun(r)
        /\ HasRunnable(s)
        /\ Bound(r, s, t)
        /\ session' = [session EXCEPT ![r].steps[t] = "AWAITING_RISK",
                                      ![r].status = "RUNNING"]
        /\ job' = [job EXCEPT ![r] = [AtRest EXCEPT !.pc = "risked", !.step = t]]
        /\ UNCHANGED UnchangedByCalls

\* _renew_dynamic_recovery_ownership with the time of the call's start, at
\* which the lease was valid: renewed, or created anew where it was erased.
Renewals(r) ==
    IF session[r].token = 0 THEN {lease}
    ELSE IF lease.holder = Nobody
    THEN {[holder |-> r, token |-> lease.token + 1, rev |-> session[r].rev,
           expired |-> FALSE]}
    ELSE IF Holds(r, session[r]) /\ lease.rev = session[r].rev
    THEN {lease, [lease EXCEPT !.expired = FALSE]}
    ELSE {}

\* A storage error of the renewal ends the call alike; it changes nothing else
\* and is not counted.
RunLosesLease(r) ==
    /\ job[r].pc = "risked"
    /\ session[r].token # 0
    /\ Renewals(r) = {} \/ MaxFaults > 0
    /\ session' = [session EXCEPT ![r] = Blocked(@, job[r].step)]
    /\ job' = [job EXCEPT ![r] = AtRest]
    /\ UNCHANGED UnchangedByCalls

\* Mistake: the checkpoint is written only once the step has ended.
BeforeExecutionSkipped(r) ==
    /\ job[r].pc = "risked"
    /\ Renewals(r) # {}
    /\ session' = [session EXCEPT ![r].steps[job[r].step] = "EXECUTING"]
    /\ job' = [job EXCEPT ![r].pc = "claim"]
    /\ UNCHANGED UnchangedByCalls

\* The step becomes EXECUTING whatever happened to it since; the ownership
\* check before the BEFORE_EXECUTION checkpoint uses the present time.
BeforeExecution(r) ==
    /\ job[r].pc = "risked"
    /\ lease' \in Renewals(r)
    /\ LET t == job[r].step
           s == [session[r] EXCEPT !.steps[t] = "EXECUTING",
                                   !.token = IF @ = 0 THEN 0 ELSE lease'.token]
       IN  /\ session' = [session EXCEPT ![r] = s]
           /\ job' = [job EXCEPT ![r] =
                  Saving(s, evidence[r], s.token # 0 => ~lease'.expired,
                         "putBefore", t)]
    /\ UNCHANGED <<ledger, delivered, checkpoint, evidence, consumed,
                   reconciled, budget, history>>

\* put_dynamic_checkpoint: the lease is not looked at again under this lock.
Put(r) ==
    /\ job[r].pc \in {"put", "putBefore"}
    /\ checkpoint' = job[r].view
    /\ job' = [job EXCEPT ![r] =
           IF job[r].pc = "put" THEN AtRest
           ELSE [AtRest EXCEPT !.pc = "claim", !.step = job[r].step]]
    /\ UNCHANGED <<ledger, delivered, lease, session, evidence, consumed,
                   reconciled, budget, history>>

\* A storage error leaves the old file, or the lease, which Saving looks at
\* early, is lost before the check; the exception ends the call.
PutFails(r) ==
    /\ job[r].pc \in {"put", "putBefore"}
    /\ \/ budget.faults > 0 /\ budget' = [budget EXCEPT !.faults = @ - 1]
       \/ ~Holds(r, session[r]) /\ UNCHANGED budget
    /\ job' = [job EXCEPT ![r] = AtRest]
    /\ UNCHANGED <<ledger, delivered, checkpoint, lease, session, evidence,
                   consumed, reconciled, history>>

-----------------------------------------------------------------------------
(* execute_governed_dynamic_step and PlanExecutor.execute.                   *)

At(r, pc) == job[r].pc = pc
Goto(r, pc) == job' = [job EXCEPT ![r].pc = pc]

\* On to pc with the summary that the ledger call just returned.
Carry(r, pc) ==
    job' = [job EXCEPT ![r].pc = pc, ![r].summary = ledger'[Oblig(r)].state]

UnchangedByExecutor ==
    <<delivered, checkpoint, lease, consumed, reconciled, history>>

\* Results of the runtime's call, as run_dynamic_step settles them.
EndRecoverable(r, own) ==
    /\ evidence' = own
    /\ Finish(r, Replanned(session[r], job[r].step), own[r])

EndFinal(r, own) ==
    /\ evidence' = own
    /\ Finish(r, FailedForGood(session[r], job[r].step), own[r])

EndUnknown(r, own) ==
    /\ evidence' = own
    /\ Finish(r, Blocked(session[r], job[r].step), own[r])

\* The binding is claimed for good before the obligation exists; the binding
\* or the risk decision may have lapsed since run_dynamic_step looked.
Claim(r) ==
    /\ At(r, "claim")
    /\ \/ /\ consumed' = [consumed EXCEPT ![r] = @ \cup {Oblig(r)}]
          /\ Goto(r, "create")
          /\ UNCHANGED <<session, evidence>>
       \/ EndRecoverable(r, evidence) /\ UNCHANGED consumed
       \/ EndFinal(r, evidence) /\ UNCHANGED consumed
    /\ UNCHANGED <<ledger, delivered, checkpoint, lease, reconciled, budget,
                   history>>

\* Mistake: an obligation in any state is taken as freshly created.
CreateTrusting(r) ==
    /\ At(r, "create")
    /\ IF ledger[Oblig(r)].state = "NONE"
       THEN ledger' = [ledger EXCEPT ![Oblig(r)].state = "CREATED"]
       ELSE UNCHANGED ledger
    /\ Goto(r, "authorize")
    /\ UNCHANGED <<session, evidence, budget>>
    /\ UNCHANGED UnchangedByExecutor

\* Mistake: a create() that failed still hands a summary on.
CreateReportsAnyway(r) ==
    /\ At(r, "create")
    /\ \/ /\ ledger[Oblig(r)].state \in {"NONE", "CREATED"}
          /\ ledger' = [ledger EXCEPT ![Oblig(r)].state = "CREATED"]
          /\ Goto(r, "authorize")
          /\ UNCHANGED <<session, evidence, budget>>
       \/ /\ budget.faults > 0
          /\ budget' = [budget EXCEPT !.faults = @ - 1]
          /\ EndFinal(r, Keep(r, ledger[Oblig(r)].state, FALSE))
          /\ UNCHANGED ledger
    /\ UNCHANGED UnchangedByExecutor

\* create() returns a known obligation as it is; any state but CREATED blocks.
Create(r) ==
    LET o == Oblig(r)
        entry == ledger[o]
    IN  /\ At(r, "create")
        /\ \/ /\ entry.state \in {"NONE", "CREATED"}
              /\ ledger' = [ledger EXCEPT ![o].state = "CREATED"]
              /\ Goto(r, "authorize")
              /\ UNCHANGED <<session, evidence, budget>>
           \/ /\ entry.state \notin {"NONE", "CREATED"}
              /\ EndFinal(r, Keep(r, entry.state, FALSE))
              /\ UNCHANGED <<ledger, budget>>
           \/ /\ budget.faults > 0
              /\ budget' = [budget EXCEPT !.faults = @ - 1]
              /\ EndFinal(r, evidence)
              /\ \/ UNCHANGED ledger
                 \/ /\ entry.state = "NONE"
                    /\ ledger' = [ledger EXCEPT ![o].state = "CREATED"]
        /\ UNCHANGED UnchangedByExecutor

\* A refused or failed FAILED record leaves the result without a summary.
RecordsFailed(r, End(_, _)) ==
    \/ /\ MoveSucceeds(Oblig(r), "FAILED")
       /\ End(r, Keep(r, ledger'[Oblig(r)].state, FALSE))
    \/ /\ MoveFails(Oblig(r), "FAILED")
       /\ End(r, evidence)

\* Mistake: execution goes on although AUTHORIZED could not be recorded.
AuthorizeUnrecorded(r) ==
    /\ At(r, "authorize")
    /\ MoveSucceeds(Oblig(r), "AUTHORIZED") \/ MoveFails(Oblig(r), "AUTHORIZED")
    /\ Goto(r, "dispatch")
    /\ UNCHANGED <<session, evidence>>
    /\ UNCHANGED UnchangedByExecutor

\* The one-use risk decision is consumed here.
Authorize(r) ==
    /\ At(r, "authorize")
    /\ \/ RecordsFailed(r, EndFinal)
       \/ /\ MoveSucceeds(Oblig(r), "AUTHORIZED")
          /\ Goto(r, "dispatch")
          /\ UNCHANGED <<session, evidence>>
       \/ /\ MoveFails(Oblig(r), "AUTHORIZED")
          /\ EndRecoverable(r, Keep(r, "CREATED", FALSE))
    /\ UNCHANGED UnchangedByExecutor

\* Mistake: the call goes out although DISPATCHED could not be recorded.
DispatchUnrecorded(r) ==
    /\ At(r, "dispatch")
    /\ MoveSucceeds(Oblig(r), "DISPATCHED") \/ MoveFails(Oblig(r), "DISPATCHED")
    /\ Carry(r, "send")
    /\ UNCHANGED <<session, evidence>>
    /\ UNCHANGED UnchangedByExecutor

\* The private arguments may be gone; else DISPATCHED is recorded first.
Dispatch(r) ==
    /\ At(r, "dispatch")
    /\ \/ RecordsFailed(r, EndRecoverable)
       \/ /\ MoveSucceeds(Oblig(r), "DISPATCHED")
          /\ Carry(r, "send")
          /\ UNCHANGED <<session, evidence>>
       \/ /\ MoveFails(Oblig(r), "DISPATCHED")
          /\ EndRecoverable(r, Keep(r, "CREATED", FALSE))
    /\ UNCHANGED UnchangedByExecutor

\* The request reaches the phone, which acts on it, or is lost on the way.
Send(r) ==
    /\ At(r, "send")
    /\ \/ /\ delivered' = [delivered EXCEPT ![Oblig(r)] = @ + 1]
          /\ Goto(r, "answered")
       \/ Goto(r, "lost") /\ UNCHANGED delivered
    /\ UNCHANGED <<ledger, checkpoint, lease, session, evidence, consumed,
                   reconciled, budget, history>>

\* An exception other than MCPCallError leaves no result behind.
Escapes(r) ==
    /\ EndRecoverable(r, evidence)
    /\ history' = [history EXCEPT !.rawLoss = TRUE]
    /\ UNCHANGED <<ledger, budget>>

\* Mistake: a call that timed out is sent again.
RespondRetries(r) ==
    /\ job[r].pc \in {"answered", "lost"}
    /\ \/ /\ At(r, "answered")
          /\ MoveSucceeds(Oblig(r), "OBSERVING")
          /\ Carry(r, "verify")
       \/ Goto(r, "send") /\ UNCHANGED <<ledger, budget>>
    /\ UNCHANGED <<session, evidence, delivered, checkpoint, lease, consumed,
                   reconciled, history>>

\* An answer is a result, an MCPCallError, or an exception of another kind.
Respond(r) ==
    /\ job[r].pc \in {"answered", "lost"}
    /\ \/ /\ Goto(r, "unknown")
          /\ UNCHANGED <<ledger, session, evidence, budget, history>>
       \/ Escapes(r)
       \/ /\ At(r, "answered")
          /\ \/ MoveSucceeds(Oblig(r), "OBSERVING") /\ Carry(r, "verify")
             \/ MoveFails(Oblig(r), "OBSERVING") /\ Goto(r, "unknown")
          /\ UNCHANGED <<session, evidence, history>>
    /\ UNCHANGED <<delivered, checkpoint, lease, consumed, reconciled>>

\* Mistake: a passed verification counts whether it was recorded or not.
VerifyUnrecorded(r) ==
    /\ At(r, "verify")
    /\ MoveSucceeds(Oblig(r), "VERIFIED") \/ MoveFails(Oblig(r), "VERIFIED")
    /\ evidence' = Keep(r, "VERIFIED", TRUE)
    /\ Finish(r, Verified(session[r], job[r].step), evidence'[r])
    /\ UNCHANGED <<delivered, checkpoint, lease, consumed, reconciled, history>>

\* Verification passes, fails, is unavailable, or raises.
Verify(r) ==
    /\ At(r, "verify")
    /\ \/ /\ MoveSucceeds(Oblig(r), "VERIFIED")
          /\ evidence' = Keep(r, ledger'[Oblig(r)].state, TRUE)
          /\ Finish(r, Verified(session[r], job[r].step), evidence'[r])
          /\ UNCHANGED history
       \/ /\ MoveFails(Oblig(r), "VERIFIED")
          /\ Goto(r, "unknown")
          /\ UNCHANGED <<session, evidence, history>>
       \/ /\ Goto(r, "unknown")
          /\ UNCHANGED <<ledger, session, evidence, budget, history>>
       \/ /\ MoveSucceeds(Oblig(r), "FAILED")
          /\ EndRecoverable(r, Keep(r, ledger'[Oblig(r)].state, FALSE))
          /\ UNCHANGED history
       \/ /\ MoveFails(Oblig(r), "FAILED")
          /\ EndFinal(r, evidence)
          /\ UNCHANGED history
       \/ Escapes(r)
    /\ UNCHANGED <<delivered, checkpoint, lease, consumed, reconciled>>

\* Mistake: an uncertain effect is reported like a failed verification.
UnknownIsRecoverable(r) ==
    /\ At(r, "unknown")
    /\ MoveSucceeds(Oblig(r), "UNKNOWN_SIDE_EFFECT")
    /\ EndRecoverable(r, Keep(r, ledger'[Oblig(r)].state, FALSE))
    /\ UNCHANGED UnchangedByExecutor

\* _unknown_side_effect: when the record cannot be written the result carries
\* the summary the executor had before.
Unknown(r) ==
    /\ At(r, "unknown")
    /\ \/ /\ MoveSucceeds(Oblig(r), "UNKNOWN_SIDE_EFFECT")
          /\ EndUnknown(r, Keep(r, ledger'[Oblig(r)].state, FALSE))
       \/ /\ MoveFails(Oblig(r), "UNKNOWN_SIDE_EFFECT")
          /\ EndUnknown(r, Keep(r, job[r].summary, FALSE))
    /\ UNCHANGED UnchangedByExecutor

-----------------------------------------------------------------------------
(* cancel_dynamic_task and replan_dynamic_task.                              *)

Cancellable == {"PENDING", "AWAITING_RISK", "AWAITING_CONFIRMATION",
                "REPLAN_REQUIRED"}

CancelledSession(s) ==
    [s EXCEPT !.steps = [t \in Steps |->
                            IF s.steps[t] \in Cancellable THEN "CANCELLED"
                            ELSE s.steps[t]],
              !.status = "CANCELLED"]

\* Cancelling takes no part in the call under way. It ends with an exception
\* when the lease is gone, and the session stays cancelled. One cancellation
\* is under way in a runtime at a time.
Cancel(r) ==
    LET s == CancelledSession(session[r])
        record == FromSession(s, evidence[r])
    IN  /\ job[r].pc \notin Recovering \cup {"down"}
        /\ session[r].on
        /\ session[r].status # "DONE"
        /\ ~cancelling[r].on
        /\ budget.cancels > 0
        /\ budget' = [budget EXCEPT !.cancels = @ - 1]
        /\ session' = [session EXCEPT ![r] = s]
        /\ cancelling' = [cancelling EXCEPT ![r] =
               IF Owns(r, s) /\ WellFormed(record) THEN record ELSE NoCheckpoint]
        /\ history' = [history EXCEPT !.stopped = @ \cup
              {<<s.rev, t>> : t \in {u \in Steps : s.steps[u] = "CANCELLED"}}]
        /\ UNCHANGED <<ledger, delivered, checkpoint, lease, evidence, consumed,
                       reconciled, job>>

\* Its put may come late: the call under way has gone on meanwhile, and what
\* is written is no longer what the session would be written as, or a recovery
\* has read the checkpoint that it replaces.
CancelPut(r) ==
    /\ cancelling[r].on
    /\ checkpoint' = cancelling[r]
    /\ cancelling' = [cancelling EXCEPT ![r] = NoCheckpoint]
    /\ history' = [history EXCEPT !.late =
           \/ @ \/ job[r].pc \in Recovering
           \/ cancelling[r] # FromSession(session[r], evidence[r])]
    /\ UNCHANGED <<ledger, delivered, lease, session, evidence, consumed,
                   reconciled, job, budget>>

CancelPutFails(r) ==
    /\ cancelling[r].on
    /\ budget.faults > 0
    /\ budget' = [budget EXCEPT !.faults = @ - 1]
    /\ cancelling' = [cancelling EXCEPT ![r] = NoCheckpoint]
    /\ UNCHANGED <<ledger, delivered, checkpoint, lease, session, evidence,
                   consumed, reconciled, job, history>>

\* The planner is asked on the strength of the status.
AskPlanner(r) ==
    /\ MayCall(r)
    /\ session[r].status = "REPLAN_REQUIRED"
    /\ session[r].failed # 0
    /\ job' = [job EXCEPT ![r] = [AtRest EXCEPT !.pc = "planning"]]
    /\ UNCHANGED session /\ UNCHANGED UnchangedByCalls

\* It gives up, fails, or plans the unverified steps anew, and what became of
\* the session meanwhile is overwritten. The checkpoint write is checked
\* against the lease at the present time.
Replan(r) ==
    LET s == session[r]
        remaining == [t \in Steps |->
                         IF s.steps[t] \in {Absent, "VERIFIED"} THEN Absent
                         ELSE "PENDING"]
        next == IF s.rev > MaxReplans
                THEN {[s EXCEPT !.status = "FAILED"]}
                ELSE {[s EXCEPT !.status = "BLOCKED"],
                      [s EXCEPT !.rev = @ + 1, !.status = "READY", !.failed = 0,
                                !.steps = remaining]}
    IN  /\ At(r, "planning")
        /\ \E n \in next :
              /\ session' = [session EXCEPT ![r] = n]
              /\ job' = [job EXCEPT ![r] =
                     Saving(n, evidence[r], Owns(r, n), "put", 0)]
        /\ UNCHANGED UnchangedByCalls

-----------------------------------------------------------------------------
(* recover_dynamic_plan, crashes and the passing of time.                    *)

\* Everything in memory is lost; another process may carry on.
Crash(r) ==
    /\ job[r].pc # "down"
    /\ session[r].on \/ job[r] # AtRest
    /\ job' = [job EXCEPT ![r] = Down]
    /\ session' = [session EXCEPT ![r] = NoSession]
    /\ evidence' = [evidence EXCEPT ![r] = [o \in Obligations |-> NoEvidence]]
    /\ consumed' = [consumed EXCEPT ![r] = {}]
    /\ cancelling' = [cancelling EXCEPT ![r] = NoCheckpoint]
    /\ UNCHANGED <<ledger, delivered, checkpoint, lease, reconciled, budget,
                   history>>

Involved(r) == session[r].on \/ job[r].pc \in Recovering

\* The checkpoint is read before the lease is asked for.
RecoverRead(r) ==
    /\ job[r] = AtRest
    /\ checkpoint.on
    /\ job' = [job EXCEPT ![r] =
                  [AtRest EXCEPT !.pc = "acquire", !.view = checkpoint]]
    /\ IF \E q \in Runtimes \ {r} : Involved(q)
       THEN /\ budget.overlaps > 0
            /\ budget' = [budget EXCEPT !.overlaps = @ - 1]
            /\ history' = [history EXCEPT !.overlap = TRUE]
       ELSE UNCHANGED <<budget, history>>
    /\ UNCHANGED <<ledger, delivered, checkpoint, lease, session, evidence,
                   consumed, reconciled>>

GiveUp(r) == job' = [job EXCEPT ![r] = AtRest]

\* acquire_dynamic_recovery_lease: renew, take over an expired lease with the
\* next fencing token, or meet a conflict.
Acquire(r) ==
    LET same == lease.holder = r /\ lease.rev = job[r].view.rev
        active == lease.token # 0 /\ ~lease.expired
    IN  /\ At(r, "acquire")
        /\ \/ /\ active /\ ~same
              /\ GiveUp(r)
              /\ UNCHANGED lease
           \/ /\ active => same
              /\ lease' = IF active THEN lease
                          ELSE [holder |-> r, token |-> lease.token + 1,
                                rev |-> job[r].view.rev, expired |-> FALSE]
              /\ job' = [job EXCEPT ![r].pc = "reconcile",
                                    ![r].token = lease'.token]
        /\ UNCHANGED <<ledger, delivered, checkpoint, session, evidence,
                       consumed, reconciled, budget, history>>

\* Mistake: a call that was interrupted is recorded as failed.
ReconcileAsFailed(r) ==
    /\ At(r, "reconcile")
    /\ ledger' = [o \in Obligations |->
           IF ledger[o].state \in InFlight /\ r \notin reconciled
           THEN [ledger[o] EXCEPT !.state = "FAILED"] ELSE ledger[o]]
    /\ reconciled' = reconciled \cup {r}
    /\ Goto(r, "decide")
    /\ UNCHANGED <<delivered, checkpoint, lease, session, evidence, consumed,
                   budget, history>>

\* One ledger event for each runtime epoch: a second recovery by the same
\* runtime finds it applied and changes nothing. A storage error ends the call.
Reconcile(r) ==
    /\ At(r, "reconcile")
    /\ \/ /\ ledger' = [o \in Obligations |->
                 IF ledger[o].state \in InFlight /\ r \notin reconciled
                 THEN [ledger[o] EXCEPT !.state = "UNKNOWN_SIDE_EFFECT"]
                 ELSE ledger[o]]
          /\ reconciled' = reconciled \cup {r}
          /\ Goto(r, "decide")
          /\ UNCHANGED budget
       \/ /\ budget.faults > 0
          /\ budget' = [budget EXCEPT !.faults = @ - 1]
          /\ GiveUp(r)
          /\ UNCHANGED <<ledger, reconciled>>
    /\ UNCHANGED <<delivered, checkpoint, lease, session, evidence, consumed,
                   history>>

\* What the ledger says of the obligation a checkpoint step refers to.
LedgerOf(c, t) ==
    IF c.steps[t].ref = 0 THEN NotCreated
    ELSE ledger[<<c.steps[t].ref, t>>].state

\* _validated_recovery_ledger, and the VERIFIED correlation after it.
Correlated(c, t) ==
    LET stored == c.steps[t]
        now == LedgerOf(c, t)
    IN  /\ stored.ref \in {0, c.rev}
        /\ \/ now = stored.ledger
           \/ now = "UNKNOWN_SIDE_EFFECT" /\ stored.ledger \in InFlight
           \/ now = "VERIFIED" /\ stored.ledger = "OBSERVING"
           \/ stored.ref = 0
        /\ stored.state = "VERIFIED" => now = "VERIFIED"

Uncertain(c, t) ==
    /\ LedgerOf(c, t) # "VERIFIED"
    /\ \/ LedgerOf(c, t) \in InFlight \cup {"UNKNOWN_SIDE_EFFECT"}
       \/ c.steps[t].state = "EXECUTING"

RecoveredStep(c, t) ==
    IF c.steps[t].state = Absent THEN Absent
    ELSE IF LedgerOf(c, t) = "VERIFIED" THEN "VERIFIED"
    ELSE IF Uncertain(c, t) THEN "BLOCKED"
    ELSE IF c.steps[t].state \in {"AWAITING_CONFIRMATION", "FAILED",
                                  "REPLAN_REQUIRED", "BLOCKED"}
    THEN c.steps[t].state
    ELSE "PENDING"

Recovered(r, status, steps, failed) ==
    [on |-> TRUE, rev |-> job[r].view.rev, status |-> status,
     failed |-> failed, token |-> job[r].token, steps |-> steps]

Install(r, s) ==
    /\ session' = [session EXCEPT ![r] = s]
    /\ job' = [job EXCEPT ![r] =
                  Saving(s, evidence[r], Holds(r, s), "put", 0)]

\* Steps that keep a recovered task from resuming, in plan order: the first
\* of them says whether a confirmation or a replan is asked for.
Hindrances(steps) ==
    {t \in Steps : steps[t] \in {"AWAITING_CONFIRMATION", "FAILED",
                                 "REPLAN_REQUIRED", "BLOCKED"}}
Foremost(S) == CHOOSE t \in S : \A u \in S : t <= u

\* The unhindered task resumes at its next step if contract, risk and a fresh
\* binding allow; otherwise no session is installed.
ResumesOrNot(r, s) ==
    \/ GiveUp(r) /\ UNCHANGED session
    \/ /\ HasRunnable(s)
       /\ \/ Install(r, [s EXCEPT !.steps[NextStep(s)] = "AWAITING_CONFIRMATION",
                                  !.status = "WAITING_CONFIRMATION"])
          \/ Bound(r, s, NextStep(s)) /\ Install(r, s)

Decide(r) ==
    LET c == job[r].view
        planned == {t \in Steps : c.steps[t].state # Absent}
        steps == [t \in Steps |-> RecoveredStep(c, t)]
        stuck == Hindrances(steps)
    IN  /\ At(r, "decide")
        /\ IF \E t \in planned : ~Correlated(c, t)
           THEN GiveUp(r) /\ UNCHANGED session
           ELSE IF \E t \in planned : Uncertain(c, t)
           THEN Install(r, Recovered(r, "BLOCKED", steps,
                    Foremost({t \in Steps : steps[t] = "BLOCKED"})))
           ELSE IF \A t \in planned : steps[t] = "VERIFIED"
           THEN Install(r, Recovered(r, "DONE", steps, 0))
           ELSE IF stuck # {}
           THEN Install(r, Recovered(r,
                    IF steps[Foremost(stuck)] = "AWAITING_CONFIRMATION"
                    THEN "WAITING_CONFIRMATION" ELSE "REPLAN_REQUIRED",
                    steps, 0))
           ELSE ResumesOrNot(r, Recovered(r, "READY", steps, 0))
        /\ UNCHANGED UnchangedByCalls

ExpireLease ==
    /\ lease.token # 0
    /\ ~lease.expired
    /\ budget.expiries > 0
    /\ lease' = [lease EXCEPT !.expired = TRUE]
    /\ budget' = [budget EXCEPT !.expiries = @ - 1]
    /\ UNCHANGED <<ledger, delivered, checkpoint, session, evidence, consumed,
                   reconciled, job, history>>

Run(r) ==
    \/ RunFenced(r) \/ RunRefused(r) \/ RunNothing(r) \/ RunUnbound(r)
    \/ RunUnauthorized(r) \/ RunAllowed(r) \/ RunLosesLease(r)
    \/ BeforeExecution(r)

Execute(r) ==
    \/ Claim(r) \/ Create(r) \/ Authorize(r) \/ Dispatch(r) \/ Send(r)
    \/ Respond(r) \/ Verify(r) \/ Unknown(r)

Recover(r) == RecoverRead(r) \/ Acquire(r) \/ Reconcile(r) \/ Decide(r)

\* The steps of the calls; a cancellation and a crash have others.
Proceed(r) ==
    \/ Run(r) \/ Execute(r) \/ Put(r) \/ PutFails(r)
    \/ AskPlanner(r) \/ Replan(r) \/ Recover(r)

Withdraw(r) == Cancel(r) \/ CancelPut(r) \/ CancelPutFails(r)

Next ==
    \/ Admit /\ UNCHANGED cancelling
    \/ ExpireLease /\ UNCHANGED cancelling
    \/ \E r \in Runtimes :
        \/ Proceed(r) /\ UNCHANGED cancelling
        \/ Withdraw(r)
        \/ Crash(r)

Spec == Init /\ [][Next]_vars

-----------------------------------------------------------------------------
(* Properties.                                                               *)

StepRecords == [state : StepStates \cup {Absent}, ref : {0} \cup Revisions,
                ledger : EvidenceStates, verified : BOOLEAN]

Checkpoints == [on : BOOLEAN, rev : Revisions, status : Statuses,
                steps : [Steps -> StepRecords]]

Sessions == [on : BOOLEAN, rev : Revisions, status : Statuses,
             failed : {0} \cup Steps, token : Nat,
             steps : [Steps -> StepStates \cup {Absent}]]

PCs == {"down", "idle", "risked", "putBefore", "put", "claim", "create",
        "authorize", "dispatch", "send", "answered", "lost", "verify",
        "unknown", "planning"} \cup Recovering

\* The shape of every store and of everything a runtime holds in memory.
TypeOK ==
    /\ ledger \in [Obligations -> [state : ObligationStates \cup {"NONE"},
                                   applied : SUBSET ObligationStates]]
    /\ delivered \in [Obligations -> Nat]
    /\ checkpoint \in Checkpoints
    /\ lease \in [holder : Runtimes \cup {Nobody}, token : Nat,
                  rev : Revisions, expired : BOOLEAN]
    /\ session \in [Runtimes -> Sessions]
    /\ evidence \in [Runtimes -> [Obligations ->
                        [state : EvidenceStates, verified : BOOLEAN]]]
    /\ consumed \in [Runtimes -> SUBSET Obligations]
    /\ reconciled \subseteq Runtimes
    /\ job \in [Runtimes -> [pc : PCs, step : {0} \cup Steps, token : Nat,
                             summary : EvidenceStates, view : Checkpoints]]
    /\ cancelling \in [Runtimes -> Checkpoints]
    /\ budget \in [faults : Nat, expiries : Nat, cancels : Nat,
                  overlaps : Nat]
    /\ history \in [overlap : BOOLEAN, rawLoss : BOOLEAN, late : BOOLEAN,
                    stopped : SUBSET Obligations]

Sent == {o \in Obligations : delivered[o] > 0}

(* The phone never receives a call whose dispatch the ledger has not on      *)
(* record: DISPATCHED is durable before the request leaves, through storage  *)
(* errors, crashes, replays and any overlap of runtimes.                     *)
WriteAhead ==
    \A o \in Sent : "DISPATCHED" \in ledger[o].applied

\* A recovery beside a runtime that was still alive, or a cancellation's
\* checkpoint put when the task had moved on.
Disturbed == history.overlap \/ history.late

(* Nor one whose step the durable checkpoint still shows as not begun: a     *)
(* restart after any crash sees that the step may have had its effect. Three *)
(* things are left out: a recovery beside a runtime that was still alive, a  *)
(* cancellation whose put comes so late that it takes the checkpoint back,   *)
(* and a step withdrawn by cancel_dynamic_task, which recovery makes PENDING.*)
CheckpointAhead ==
    ~Disturbed =>
        \A o \in Sent \ history.stopped :
            \/ checkpoint.rev > o[1]
            \/ /\ checkpoint.rev = o[1]
               /\ checkpoint.steps[o[2]].state \notin
                      {"PENDING", "AWAITING_RISK", "AWAITING_CONFIRMATION"}

(* One obligation reaches the phone at most once, through crashes, restarts, *)
(* storage errors and cancellations, as long as no two runtimes work on the  *)
(* task at the same time.                                                    *)
AtMostOnce ==
    ~history.overlap => \A o \in Obligations : delivered[o] <= 1

\* Each step of the plan depends on the one before.
Chained == \A t \in Steps : t > 1 => t - 1 \in Deps[t]

BlindRepeat ==
    \E o \in Sent, p \in Sent :
        o[2] = p[2] /\ o[1] < p[1] /\ ledger[o].state # "FAILED"

(* A revised plan sends a step again only when the earlier revision's call   *)
(* is on record as a verified failure: an outcome nobody knows is never      *)
(* followed by a blind repeat. This holds for chains of steps; overlapping   *)
(* runtimes, a cancellation's late put and transport exceptions other than   *)
(* MCPCallError are outside it.                                              *)
NoBlindRepeat ==
    Chained => Disturbed \/ history.rawLoss \/ ~BlindRepeat

(* What the checkpoint calls VERIFIED, and hence a DONE task, is backed by   *)
(* the ledger and by a call that did reach the phone, whoever wrote it.      *)
DurableSuccess ==
    \A t \in Steps :
        checkpoint.steps[t].state = "VERIFIED" =>
            LET o == <<checkpoint.rev, t>>
            IN  ledger[o].state = "VERIFIED" /\ delivered[o] > 0

(* Every obligation still being worked on by a live call is one that no      *)
(* other call will pick up, as long as runtimes do not overlap: the ledger   *)
(* state a call relies on is not changed under it.                           *)
LedgerUndisturbed ==
    ~history.overlap =>
        \A r \in Runtimes :
            CASE job[r].pc = "authorize" -> ledger[Oblig(r)].state = "CREATED"
              [] job[r].pc = "dispatch"  -> ledger[Oblig(r)].state = "AUTHORIZED"
              [] job[r].pc \in {"send", "answered", "lost"} ->
                     ledger[Oblig(r)].state = "DISPATCHED"
              [] job[r].pc = "verify"    -> ledger[Oblig(r)].state = "OBSERVING"
              [] OTHER -> TRUE

\* The ledger's states as a user would tell them apart.
OutcomeOf(state) ==
    IF state = "NONE" THEN "unrecorded"
    ELSE IF state \in {"CREATED", "AUTHORIZED"} THEN "open"
    ELSE IF state = "VERIFIED" THEN "verified"
    ELSE IF state = "FAILED" THEN "failed"
    ELSE "doubtful"

Outcome == [o \in Obligations |-> OutcomeOf(ledger[o].state)]
Announced == {o \in Obligations : /\ o[1] = checkpoint.rev
                                 /\ checkpoint.steps[o[2]].state = "VERIFIED"}

Promised == INSTANCE GovernedPromise WITH
    Sequential <- Chained, outcome <- Outcome, sent <- Sent,
    announced <- Announced, shared <- history.overlap,
    uncertain <- history.rawLoss \/ history.late

(* Ledger, phone and checkpoint together keep GovernedPromise: every step of *)
(* every runtime, crash and recovery is a step of it or changes nothing that *)
(* it speaks of.                                                             *)
KeepsPromise == Promised!Promise

(* The documents' unconditional forms of the above.                          *)

\* docs/architecture.md: recovery never double-executes a privileged step.
NeverTwice == \A o \in Obligations : delivered[o] <= 1

\* docs/PROJECT-TECHNICAL.md: a privileged side effect that may already have
\* happened is never blindly repeated, here with one runtime at a time and
\* every failed call reported as an MCPCallError.
NeverBlindlyRepeated ==
    history.overlap \/ history.rawLoss \/ ~BlindRepeat

=============================================================================
