----------------------- MODULE GovernedExecution_proofs -----------------------
(* Proofs about the governed execution of a task, for every plan, every      *)
(* number of runtimes and every bound on faults, expiries and replans: that  *)
(* every store keeps its shape and no call leaves before its dispatch is on  *)
(* record (first part); that a checkpointed success is the ledger's, that an *)
(* obligation is sent at most once, and that nobody else moves it under the  *)
(* runtime that works on it (second part).                                   *)
EXTENDS GovernedExecution, FiniteSetTheorems, WellFoundedInduction, TLAPS

-----------------------------------------------------------------------------
(* Facts about the operators.                                                *)

Evidence == [state : EvidenceStates, verified : BOOLEAN]
Evidences == [Obligations -> Evidence]
Jobs == [pc : PCs, step : {0} \cup Steps, token : Nat,
         summary : EvidenceStates, view : Checkpoints]

\* Every nonempty set of steps has a first one: the set of steps up to it is
\* the smallest of its kind.
LEMMA FirstStepExists ==
    ASSUME NEW S \in SUBSET Steps, S # {}
    PROVE  \E t \in S : \A u \in S : t <= u
<1> DEFINE UpTo(t) == {u \in S : u <= t}
           Family == {UpTo(t) : t \in S}
<1>1. S \subseteq Nat /\ IsFiniteSet(S)
  <2>1. IsFiniteSet(Steps) /\ Steps \subseteq Nat
    BY PlanAssumption, FS_Interval DEF Steps
  <2> QED
    BY <2>1, FS_Subset
<1>2. Family \subseteq FiniteSubsetsOf(S)
  BY <1>1, FS_Subset DEF FiniteSubsetsOf
<1>3. Family # {}
  OBVIOUS
<1>4. PICK D \in Family :
         \A E \in Family : <<E, D>> \notin StrictSubsetOrdering(S)
  BY <1>2, <1>3, FS_StrictSubsetOrderingWellFounded, WFMin
<1>5. PICK t \in S : D = UpTo(t)
  OBVIOUS
<1>6. ASSUME NEW u \in S, ~(t <= u)
      PROVE  FALSE
  <2>0. t \in Nat /\ u \in Nat /\ u < t
    BY <1>1, <1>6
  <2>1. UpTo(u) \subseteq UpTo(t) /\ t \in UpTo(t) /\ t \notin UpTo(u)
    <3>1. ASSUME NEW x \in S, x <= u
          PROVE  x <= t
      BY <1>1, <2>0, <3>1
    <3>2. UpTo(u) \subseteq UpTo(t)
      BY <3>1
    <3>3. t \in UpTo(t)
      BY <2>0
    <3>4. t \notin UpTo(u)
      BY <2>0
    <3> QED
      BY <3>2, <3>3, <3>4
  <2>2. <<UpTo(u), UpTo(t)>> \in StrictSubsetOrdering(S)
    BY <2>1 DEF StrictSubsetOrdering
  <2> QED
    BY <1>4, <1>5, <2>2
<1> QED
  BY <1>6

\* The step that runs next, or is blocked next, is a step of the plan.
LEMMA NextStepIsStep ==
    ASSUME NEW s, Candidates(s) # {}
    PROVE  NextStep(s) \in Steps
<1>1. Candidates(s) \in SUBSET Steps
  BY DEF Candidates, Confirming, Decided
<1> QED
  BY <1>1, FirstStepExists DEF NextStep

\* The step that hinders a recovery first is a step of the plan.
LEMMA ForemostIsStep ==
    ASSUME NEW S \in SUBSET Steps, S # {}
    PROVE  Foremost(S) \in Steps
  BY FirstStepExists DEF Foremost

\* Revision 1 exists, and a replan within the budget leads to another one.
LEMMA RevisionFacts ==
    /\ 1 \in Revisions
    /\ \A n \in Revisions : ~(n > MaxReplans) => n + 1 \in Revisions
  BY PlanAssumption DEF Revisions

\* A checkpoint taken of a session has the shape of a checkpoint.
LEMMA FromSessionTyped ==
    ASSUME checkpoint \in Checkpoints, NEW s \in Sessions, NEW own \in Evidences
    PROVE  FromSession(s, own) \in Checkpoints
<1>1. ASSUME NEW t \in Steps
      PROVE  StepRecord(s, own[<<s.rev, t>>], t) \in StepRecords
  <2>1. own[<<s.rev, t>>] \in Evidence
    BY DEF Evidences, Obligations, Sessions
  <2>2. checkpoint.steps[t] \in StepRecords
    BY DEF Checkpoints
  <2> QED
    BY <2>1, <2>2 DEF StepRecord, StepRecords, Evidence, Sessions, StepStates
<1>2. AbsentRecord \in StepRecords
  BY DEF AbsentRecord, StepRecords, EvidenceStates
<1>3. [t \in Steps |-> IF t \in InPlan(s) THEN StepRecord(s, own[<<s.rev, t>>], t)
                       ELSE AbsentRecord] \in [Steps -> StepRecords]
  BY <1>1, <1>2
<1> QED
  BY <1>3 DEF FromSession, Checkpoints, Sessions, Statuses

\* The empty records have the shape of their kind.
LEMMA RestTyped ==
    /\ NoCheckpoint \in Checkpoints
    /\ NoSession \in Sessions
    /\ NoEvidence \in Evidence
    /\ AtRest \in Jobs /\ Down \in Jobs
<1>1. NoCheckpoint \in Checkpoints
  BY RevisionFacts
     DEF NoCheckpoint, Checkpoints, AbsentRecord, StepRecords, EvidenceStates,
         Statuses
<1>2. NoSession \in Sessions
  BY RevisionFacts DEF NoSession, Sessions, Statuses
<1>3. AtRest \in Jobs /\ Down \in Jobs
  BY <1>1 DEF AtRest, Down, Jobs, PCs, EvidenceStates
<1> QED
  BY <1>1, <1>2, <1>3 DEF NoEvidence, Evidence, EvidenceStates

\* A checkpoint write that is asked for is a job that waits for its put, or rest.
LEMMA SavingTyped ==
    ASSUME checkpoint \in Checkpoints, NEW s \in Sessions, NEW own \in Evidences,
           NEW allowed, NEW next \in PCs, NEW t \in {0} \cup Steps
    PROVE  /\ Saving(s, own, allowed, next, t) \in Jobs
           /\ Saving(s, own, allowed, next, t).pc \in {next, "idle"}
           /\ Saving(s, own, allowed, next, t).pc = next =>
                  Saving(s, own, allowed, next, t).step = t \/ next = "idle"
  BY FromSessionTyped, RestTyped DEF Saving, Jobs, AtRest

\* The updates that end a step lead from sessions to sessions of the same
\* revision.
LEMMA EndsTyped ==
    ASSUME NEW s \in Sessions, NEW t \in Steps
    PROVE  /\ Replanned(s, t) \in Sessions
           /\ Blocked(s, t) \in Sessions
           /\ FailedForGood(s, t) \in Sessions
           /\ Verified(s, t) \in Sessions
           /\ CancelledSession(s) \in Sessions
<1>1. Replanned(s, t) \in Sessions /\ Blocked(s, t) \in Sessions
  BY DEF Replanned, Blocked, Sessions, StepStates, Statuses
<1>2. FailedForGood(s, t) \in Sessions
  BY DEF FailedForGood, Sessions, StepStates, Statuses
<1>3. Verified(s, t) \in Sessions
  BY DEF Verified, Sessions, StepStates, Statuses
<1>4. CancelledSession(s) \in Sessions
  BY DEF CancelledSession, Sessions, StepStates, Statuses
<1> QED
  BY <1>1, <1>2, <1>3, <1>4

-----------------------------------------------------------------------------
(* The inductive invariant. A call that is about to send has DISPATCHED on   *)
(* record, and a call at work knows which step it works on.                  *)

Working == {"risked", "putBefore", "claim", "create", "authorize", "dispatch",
            "send", "answered", "lost", "verify", "unknown"}

StepKnown(r) == job[r].pc \in Working => job[r].step \in Steps

SendRecorded(r) ==
    job[r].pc = "send" => "DISPATCHED" \in ledger[Oblig(r)].applied

IInv ==
    /\ TypeOK
    /\ WriteAhead
    /\ \A r \in Runtimes : StepKnown(r) /\ SendRecorded(r)

\* TypeOK, with the names of its parts.
LEMMA Shapes ==
    TypeOK <=>
        /\ ledger \in [Obligations -> [state : ObligationStates \cup {"NONE"},
                                       applied : SUBSET ObligationStates]]
        /\ delivered \in [Obligations -> Nat]
        /\ checkpoint \in Checkpoints
        /\ lease \in [holder : Runtimes \cup {Nobody}, token : Nat,
                      rev : Revisions, expired : BOOLEAN]
        /\ session \in [Runtimes -> Sessions]
        /\ evidence \in [Runtimes -> Evidences]
        /\ consumed \in [Runtimes -> SUBSET Obligations]
        /\ reconciled \subseteq Runtimes
        /\ job \in [Runtimes -> Jobs]
        /\ cancelling \in [Runtimes -> Checkpoints]
        /\ budget \in [faults : Nat, expiries : Nat, cancels : Nat,
                       overlaps : Nat]
        /\ history \in [overlap : BOOLEAN, rawLoss : BOOLEAN, late : BOOLEAN,
                        stopped : SUBSET Obligations]
  BY DEF TypeOK, Evidences, Evidence, Jobs

\* The initial state satisfies it.
THEOREM InitEstablishes == Init => IInv
<1> SUFFICES ASSUME Init
             PROVE  IInv
  OBVIOUS
<1>1. TypeOK
  <2>1. [o \in Obligations |-> NoEvidence] \in Evidences
    BY RestTyped DEF Evidences
  <2>2. NoLease \in [holder : Runtimes \cup {Nobody}, token : Nat,
                    rev : Revisions, expired : BOOLEAN]
    BY RevisionFacts DEF NoLease
  <2>3. budget \in [faults : Nat, expiries : Nat, cancels : Nat, overlaps : Nat]
    BY PlanAssumption DEF Init
  <2> QED
    BY <2>1, <2>2, <2>3, RestTyped, Shapes DEF Init
<1>2. WriteAhead
  BY DEF Init, WriteAhead, Sent
<1>3. \A r \in Runtimes : StepKnown(r) /\ SendRecorded(r)
  BY DEF Init, StepKnown, SendRecorded, AtRest, Working
<1> QED
  BY <1>1, <1>2, <1>3 DEF IInv

\* A working call names an obligation of the plan.
LEMMA ObligKnown ==
    ASSUME TypeOK, NEW r \in Runtimes, job[r].step \in Steps
    PROVE  Oblig(r) \in Obligations
  BY Shapes DEF Oblig, Obligations, Sessions

-----------------------------------------------------------------------------
(* What the ledger goes through. No event that was applied is ever undone.   *)

LedgerEntry == [state : ObligationStates \cup {"NONE"}, applied : SUBSET ObligationStates]
Ledgers == [Obligations -> LedgerEntry]

LedgerGrows ==
    /\ ledger' \in Ledgers
    /\ \A o \in Obligations : ledger[o].applied \subseteq ledger'[o].applied

\* A step that leaves the ledger alone undoes no event.
LEMMA LedgerUnchanged ==
    ASSUME TypeOK, UNCHANGED ledger
    PROVE  LedgerGrows
  BY Shapes DEF LedgerGrows, Ledgers, LedgerEntry

\* A recorded move adds its event and keeps the entry a known obligation.
LEMMA AfterMoveFacts ==
    ASSUME NEW entry \in LedgerEntry, NEW target \in ObligationStates
    PROVE  /\ AfterMove(entry, target) \in LedgerEntry
           /\ entry.applied \subseteq AfterMove(entry, target).applied
           /\ target \in AfterMove(entry, target).applied
           /\ entry.state # "NONE" => AfterMove(entry, target).state # "NONE"
  BY DEF AfterMove, Applied, LedgerEntry, ObligationStates

\* transition() that succeeds has its event on record and undoes none.
LEMMA MoveSucceedsFacts ==
    ASSUME TypeOK, NEW o \in Obligations, NEW target \in ObligationStates,
           MoveSucceeds(o, target)
    PROVE  /\ LedgerGrows
           /\ target \in ledger'[o].applied
           /\ ledger'[o].state \in ObligationStates
           /\ UNCHANGED budget
<1>1. ledger \in Ledgers
  BY Shapes DEF Ledgers, LedgerEntry
<1>2. /\ AfterMove(ledger[o], target) \in LedgerEntry
      /\ ledger[o].applied \subseteq AfterMove(ledger[o], target).applied
      /\ target \in AfterMove(ledger[o], target).applied
      /\ AfterMove(ledger[o], target).state # "NONE"
  BY <1>1, AfterMoveFacts DEF MoveSucceeds, Ledgers
<1>3. /\ ledger' = [ledger EXCEPT ![o] = AfterMove(ledger[o], target)]
      /\ UNCHANGED budget
  BY DEF MoveSucceeds
<1> QED
  BY <1>1, <1>2, <1>3 DEF LedgerGrows, Ledgers, LedgerEntry

\* transition() that fails, before or after the write, undoes no event.
LEMMA MoveFailsFacts ==
    ASSUME TypeOK, NEW o \in Obligations, NEW target \in ObligationStates,
           MoveFails(o, target)
    PROVE  /\ LedgerGrows
           /\ budget' \in [faults : Nat, expiries : Nat, cancels : Nat,
                           overlaps : Nat]
<1>1. ledger \in Ledgers
  BY Shapes DEF Ledgers, LedgerEntry
<1>2. /\ AfterMove(ledger[o], target) \in LedgerEntry
      /\ ledger[o].applied \subseteq AfterMove(ledger[o], target).applied
  BY <1>1, AfterMoveFacts DEF Ledgers
<1>3. \/ UNCHANGED ledger
      \/ ledger' = [ledger EXCEPT ![o] = AfterMove(ledger[o], target)]
  BY DEF MoveFails
<1>4. LedgerGrows
  BY <1>1, <1>2, <1>3 DEF LedgerGrows, Ledgers
<1>5. budget' \in [faults : Nat, expiries : Nat, cancels : Nat, overlaps : Nat]
  BY Shapes DEF MoveFails
<1> QED
  BY <1>4, <1>5

-----------------------------------------------------------------------------
(* A step of one runtime. Local(r) is what it may do to the rest: the ledger *)
(* grows, other runtimes are left alone, and what is delivered is on record. *)

Others(r) ==
    \A q \in Runtimes \ {r} : job'[q] = job[q] /\ session'[q] = session[q]

DeliveriesRecorded ==
    \A o \in Obligations :
        delivered'[o] > 0 => \/ delivered[o] > 0
                            \/ "DISPATCHED" \in ledger'[o].applied

Local(r) ==
    /\ LedgerGrows
    /\ Others(r)
    /\ StepKnown(r)' /\ SendRecorded(r)'
    /\ DeliveriesRecorded

\* A step of one runtime that is local in this sense keeps the invariant.
LEMMA LocalPreserves ==
    ASSUME IInv, TypeOK', NEW r \in Runtimes, Local(r)
    PROVE  IInv'
<1> USE DEF IInv
<1>1. WriteAhead'
  BY DEF WriteAhead, Sent, Local, LedgerGrows, DeliveriesRecorded
<1>2. ASSUME NEW q \in Runtimes \ {r}
      PROVE  StepKnown(q)' /\ SendRecorded(q)'
  <2>1. job'[q] = job[q] /\ Oblig(q)' = Oblig(q)
    BY DEF Local, Others, Oblig
  <2>2. job[q].pc = "send" => Oblig(q) \in Obligations
    BY ObligKnown DEF StepKnown, Working
  <2> QED
    BY <2>1, <2>2 DEF StepKnown, SendRecorded, Local, LedgerGrows
<1> QED
  BY <1>1, <1>2 DEF Local

\* A coordinator call that ends or goes on without touching a store.
LEMMA CallStep ==
    ASSUME TypeOK, NEW r \in Runtimes, UNCHANGED UnchangedByCalls,
           session' \in [Runtimes -> Sessions], job' \in [Runtimes -> Jobs],
           Others(r), StepKnown(r)', job'[r].pc # "send",
           UNCHANGED cancelling
    PROVE  TypeOK' /\ Local(r)
<1>1. TypeOK'
  BY Shapes DEF UnchangedByCalls, TypeOK, Jobs, Evidences, Evidence
<1>2. LedgerGrows /\ DeliveriesRecorded
  BY LedgerUnchanged DEF UnchangedByCalls, DeliveriesRecorded
<1> QED
  BY <1>1, <1>2 DEF Local, SendRecorded

\* The end of a call touches its own runtime and leaves nothing at work.
LEMMA FinishFacts ==
    ASSUME TypeOK, NEW r \in Runtimes, NEW s \in Sessions, NEW own \in Evidences,
           Finish(r, s, own)
    PROVE  /\ session' \in [Runtimes -> Sessions]
           /\ job' \in [Runtimes -> Jobs]
           /\ Others(r)
           /\ StepKnown(r)' /\ job'[r].pc # "send"
<1> DEFINE j == Saving(s, own, Holds(r, s), "put", 0)
<1>1. j \in Jobs /\ j.pc \in {"put", "idle"}
  BY SavingTyped, Shapes DEF PCs
<1>2. session' = [session EXCEPT ![r] = s] /\ job' = [job EXCEPT ![r] = j]
  BY DEF Finish
<1> HIDE DEF j
<1> QED
  BY <1>1, <1>2, Shapes DEF Others, StepKnown, Working

\* run_dynamic_step where it ends before it decides to execute.
LEMMA RunEndsStep ==
    ASSUME IInv, NEW r \in Runtimes,
           RunFenced(r) \/ RunRefused(r) \/ RunNothing(r) \/ RunUnbound(r)
               \/ RunUnauthorized(r),
           UNCHANGED cancelling
    PROVE  TypeOK' /\ Local(r)
<1> USE DEF IInv
<1>0. /\ session[r] \in Sessions /\ evidence[r] \in Evidences
      /\ job \in [Runtimes -> Jobs] /\ session \in [Runtimes -> Sessions]
  BY Shapes
<1>1. ASSUME NEW s \in Sessions, Finish(r, s, evidence[r]),
             UNCHANGED UnchangedByCalls
      PROVE  TypeOK' /\ Local(r)
  BY <1>0, <1>1, FinishFacts, CallStep
<1>2. CASE RunFenced(r)
  <2>1. session' = [session EXCEPT ![r].status = "BLOCKED"]
    BY <1>2 DEF RunFenced
  <2>2. [session[r] EXCEPT !.status = "BLOCKED"] \in Sessions
    BY <1>0 DEF Sessions, Statuses
  <2>3. session' \in [Runtimes -> Sessions] /\ Others(r)
    BY <1>0, <1>2, <2>1, <2>2 DEF RunFenced, Others
  <2> QED
    BY <1>0, <1>2, <2>3, CallStep
       DEF RunFenced, MayCall, StepKnown, AtRest, Working
<1>3. CASE RunRefused(r)
  BY <1>0, <1>1, <1>3 DEF RunRefused
<1>4. CASE RunNothing(r)
  <2>1. Candidates(session[r]) # {} => Blocked(session[r], NextStep(session[r])) \in Sessions
    BY <1>0, NextStepIsStep, EndsTyped
  <2>2. [session[r] EXCEPT !.status = "DONE"] \in Sessions
    BY <1>0 DEF Sessions, Statuses
  <2> QED
    BY <1>0, <1>1, <1>4, <2>1, <2>2 DEF RunNothing
<1>5. ASSUME HasRunnable(session[r])
      PROVE  LET s == session[r]
                 t == NextStep(s)
             IN  /\ Replanned(s, t) \in Sessions
                 /\ Blocked(s, t) \in Sessions
                 /\ [Blocked(s, t) EXCEPT !.status = "FAILED"] \in Sessions
                 /\ [s EXCEPT !.steps[t] = "AWAITING_CONFIRMATION",
                              !.status = "WAITING_CONFIRMATION"] \in Sessions
  <2>1. NextStep(session[r]) \in Steps
    BY <1>5, NextStepIsStep DEF HasRunnable
  <2>2. Blocked(session[r], NextStep(session[r])) \in Sessions
    BY <1>0, <2>1, EndsTyped
  <2>3. [Blocked(session[r], NextStep(session[r])) EXCEPT !.status = "FAILED"]
            \in Sessions
    BY <2>2 DEF Sessions, Statuses
  <2> QED
    BY <1>0, <2>1, <2>2, <2>3, EndsTyped DEF Sessions, Statuses, StepStates
<1>6. CASE RunUnbound(r)
  BY <1>1, <1>5, <1>6 DEF RunUnbound
<1>7. CASE RunUnauthorized(r)
  BY <1>1, <1>5, <1>7 DEF RunUnauthorized
<1> QED
  BY <1>2, <1>3, <1>4, <1>6, <1>7

\* run_dynamic_step where risk allows the step, or the lease is lost after that.
LEMMA RunAllowedStep ==
    ASSUME IInv, NEW r \in Runtimes, RunAllowed(r) \/ RunLosesLease(r),
           UNCHANGED cancelling
    PROVE  TypeOK' /\ Local(r)
<1> USE DEF IInv
<1>0. /\ session \in [Runtimes -> Sessions] /\ job \in [Runtimes -> Jobs]
  BY Shapes
<1>1. CASE RunAllowed(r)
  <2> DEFINE t == NextStep(session[r])
             s == [session[r] EXCEPT !.steps[t] = "AWAITING_RISK",
                                     !.status = "RUNNING"]
             j == [AtRest EXCEPT !.pc = "risked", !.step = t]
  <2>1. t \in Steps
    BY <1>1, NextStepIsStep DEF RunAllowed, HasRunnable
  <2>2. s \in Sessions
    BY <1>0, <2>1 DEF Sessions, Statuses, StepStates
  <2>3. j \in Jobs /\ j.pc = "risked" /\ j.step = t
    BY <2>1, RestTyped DEF Jobs, PCs, AtRest
  <2>4. session' = [session EXCEPT ![r] = s] /\ job' = [job EXCEPT ![r] = j]
    BY <1>0, <1>1 DEF RunAllowed
  <2> HIDE DEF t, s, j
  <2>5. /\ session' \in [Runtimes -> Sessions] /\ job' \in [Runtimes -> Jobs]
        /\ Others(r) /\ job'[r] = j
    BY <1>0, <2>2, <2>3, <2>4 DEF Others
  <2> QED
    BY <1>1, <2>1, <2>3, <2>5, CallStep DEF RunAllowed, StepKnown
<1>2. CASE RunLosesLease(r)
  <2>1. job[r].step \in Steps
    BY <1>2 DEF RunLosesLease, StepKnown, Working
  <2>2. Blocked(session[r], job[r].step) \in Sessions
    BY <1>0, <2>1, EndsTyped
  <2>3. /\ session' \in [Runtimes -> Sessions] /\ job' \in [Runtimes -> Jobs]
        /\ Others(r) /\ job'[r] = AtRest
    BY <1>0, <1>2, <2>2, RestTyped DEF RunLosesLease, Others
  <2> QED
    BY <1>2, <2>3, CallStep DEF RunLosesLease, StepKnown, AtRest, Working
<1> QED
  BY <1>1, <1>2

-----------------------------------------------------------------------------
(* The checkpoint written before and after a step.                           *)

LeaseRecords == [holder : Runtimes \cup {Nobody}, token : Nat,
                 rev : Revisions, expired : BOOLEAN]

\* A lease that was renewed, or created anew, has the shape of a lease.
LEMMA RenewalsTyped ==
    ASSUME TypeOK, NEW r \in Runtimes
    PROVE  Renewals(r) \subseteq LeaseRecords
<1>1. lease \in LeaseRecords /\ session[r] \in Sessions
  BY Shapes DEF LeaseRecords
<1>2. lease.token + 1 \in Nat /\ session[r].rev \in Revisions
  BY <1>1 DEF LeaseRecords, Sessions
<1>3. [holder |-> r, token |-> lease.token + 1, rev |-> session[r].rev,
       expired |-> FALSE] \in LeaseRecords
  BY <1>2 DEF LeaseRecords
<1>4. [lease EXCEPT !.expired = FALSE] \in LeaseRecords
  BY <1>1 DEF LeaseRecords
<1>5. Renewals(r) \subseteq {lease, [lease EXCEPT !.expired = FALSE],
                            [holder |-> r, token |-> lease.token + 1,
                             rev |-> session[r].rev, expired |-> FALSE]}
  BY DEF Renewals
<1> QED
  BY <1>1, <1>3, <1>4, <1>5

\* The step becomes EXECUTING and its checkpoint is prepared.
LEMMA BeforeExecutionStep ==
    ASSUME IInv, NEW r \in Runtimes, BeforeExecution(r),
           UNCHANGED cancelling
    PROVE  TypeOK' /\ Local(r)
<1> USE DEF IInv
<1> DEFINE t == job[r].step
           s == [session[r] EXCEPT !.steps[t] = "EXECUTING",
                                   !.token = IF @ = 0 THEN 0 ELSE lease'.token]
           j == Saving(s, evidence[r], s.token # 0 => ~lease'.expired,
                       "putBefore", t)
<1>0. /\ session \in [Runtimes -> Sessions] /\ job \in [Runtimes -> Jobs]
      /\ evidence[r] \in Evidences /\ checkpoint \in Checkpoints
  BY Shapes
<1>1. t \in Steps /\ lease' \in LeaseRecords
  BY RenewalsTyped DEF BeforeExecution, StepKnown, Working
<1>2. s \in Sessions
  <2>1. lease'.token \in Nat
    BY <1>1 DEF LeaseRecords
  <2> QED
    BY <1>0, <1>1, <2>1 DEF Sessions, StepStates
<1>3. /\ session' = [session EXCEPT ![r] = s] /\ job' = [job EXCEPT ![r] = j]
      /\ UNCHANGED <<ledger, delivered, checkpoint, evidence, consumed,
                     reconciled, budget, history>>
  BY DEF BeforeExecution
<1> HIDE DEF s, t
<1>4. /\ j \in Jobs /\ j.pc \in {"putBefore", "idle"}
      /\ j.pc = "putBefore" => j.step = t
  BY <1>0, <1>1, <1>2, SavingTyped DEF PCs
<1> HIDE DEF j
<1>5. /\ session' \in [Runtimes -> Sessions] /\ job' \in [Runtimes -> Jobs]
      /\ Others(r) /\ job'[r] = j
  BY <1>0, <1>2, <1>3, <1>4 DEF Others
<1>7. TypeOK'
  BY <1>1, <1>3, <1>5, Shapes DEF LeaseRecords, TypeOK, Jobs, Evidences, Evidence
<1>8. StepKnown(r)' /\ SendRecorded(r)'
  BY <1>1, <1>4, <1>5 DEF StepKnown, SendRecorded, Working
<1> QED
  BY <1>3, <1>5, <1>7, <1>8, LedgerUnchanged DEF Local, DeliveriesRecorded

\* put_dynamic_checkpoint, whether the file is replaced or not.
LEMMA PutStep ==
    ASSUME IInv, NEW r \in Runtimes, Put(r) \/ PutFails(r),
           UNCHANGED cancelling
    PROVE  TypeOK' /\ Local(r)
<1> USE DEF IInv
<1>0. /\ session \in [Runtimes -> Sessions] /\ job \in [Runtimes -> Jobs]
  BY Shapes
<1> DEFINE j == IF Put(r) /\ job[r].pc = "putBefore"
                THEN [AtRest EXCEPT !.pc = "claim", !.step = job[r].step]
                ELSE AtRest
<1>1. /\ job' = [job EXCEPT ![r] = j]
      /\ checkpoint' \in {checkpoint, job[r].view}
      /\ budget' \in {budget, [budget EXCEPT !.faults = @ - 1]}
      /\ budget' # budget => budget.faults > 0
      /\ UNCHANGED <<ledger, delivered, lease, session, evidence, consumed,
                     reconciled, history>>
  BY <1>0 DEF Put, PutFails
<1>2. j \in Jobs /\ (j.pc = "idle" \/ (j.pc = "claim" /\ j.step \in Steps))
  BY <1>0, RestTyped DEF Put, StepKnown, Working, Jobs, PCs, AtRest
<1> HIDE DEF j
<1>3. /\ job' \in [Runtimes -> Jobs] /\ Others(r) /\ job'[r] = j
  BY <1>0, <1>1, <1>2 DEF Others
<1>4. checkpoint' \in Checkpoints
  BY <1>0, <1>1, Shapes DEF Jobs
<1>5. budget' \in [faults : Nat, expiries : Nat, cancels : Nat, overlaps : Nat]
  BY <1>1, Shapes
<1>6. TypeOK'
  BY <1>1, <1>3, <1>4, <1>5, Shapes DEF TypeOK, Jobs, Evidences, Evidence
<1>7. StepKnown(r)' /\ SendRecorded(r)'
  BY <1>2, <1>3 DEF StepKnown, SendRecorded, Working
<1> QED
  BY <1>1, <1>3, <1>6, <1>7, LedgerUnchanged DEF Local, DeliveriesRecorded

-----------------------------------------------------------------------------
(* The executor.                                                             *)

Budgets == [faults : Nat, expiries : Nat, cancels : Nat, overlaps : Nat]
Histories == [overlap : BOOLEAN, rawLoss : BOOLEAN, late : BOOLEAN,
              stopped : SUBSET Obligations]

\* What a step inside a call has to respect to be local.
LEMMA WorkStep ==
    ASSUME TypeOK, NEW r \in Runtimes, LedgerGrows,
           budget' \in Budgets, evidence' \in [Runtimes -> Evidences],
           session' \in [Runtimes -> Sessions], job' \in [Runtimes -> Jobs],
           consumed' \in [Runtimes -> SUBSET Obligations],
           history' \in Histories,
           UNCHANGED <<delivered, checkpoint, lease, reconciled>>,
           Others(r), StepKnown(r)', SendRecorded(r)',
           cancelling' \in [Runtimes -> Checkpoints]
    PROVE  TypeOK' /\ Local(r)
<1>1. TypeOK'
  BY Shapes
     DEF LedgerGrows, Ledgers, LedgerEntry, Budgets, Histories, TypeOK, Jobs,
         Evidences, Evidence
<1>2. DeliveriesRecorded
  BY DEF DeliveriesRecorded
<1> QED
  BY <1>1, <1>2 DEF Local

\* The parts of TypeOK that the executor's steps need.
LEMMA WorkShapes ==
    ASSUME TypeOK
    PROVE  /\ budget \in Budgets /\ evidence \in [Runtimes -> Evidences]
           /\ session \in [Runtimes -> Sessions] /\ job \in [Runtimes -> Jobs]
           /\ consumed \in [Runtimes -> SUBSET Obligations]
           /\ history \in Histories /\ ledger \in Ledgers
           /\ cancelling \in [Runtimes -> Checkpoints]
  BY Shapes DEF Budgets, Histories, Ledgers, LedgerEntry

\* The results of a call leave well-formed sessions and end the call.
LEMMA EndFacts ==
    ASSUME TypeOK, NEW r \in Runtimes, job[r].step \in Steps,
           NEW own \in [Runtimes -> Evidences],
           EndRecoverable(r, own) \/ EndFinal(r, own) \/ EndUnknown(r, own)
    PROVE  /\ evidence' \in [Runtimes -> Evidences]
           /\ session' \in [Runtimes -> Sessions]
           /\ job' \in [Runtimes -> Jobs]
           /\ Others(r)
           /\ StepKnown(r)' /\ SendRecorded(r)'
<1>1. /\ session[r] \in Sessions /\ own[r] \in Evidences
  BY WorkShapes
<1>2. PICK s \in Sessions : Finish(r, s, own[r])
  BY <1>1, EndsTyped DEF EndRecoverable, EndFinal, EndUnknown
<1> QED
  BY <1>1, <1>2, FinishFacts
     DEF EndRecoverable, EndFinal, EndUnknown, SendRecorded

\* The result kept for a step is evidence of the right shape.
LEMMA KeepTyped ==
    ASSUME TypeOK, NEW r \in Runtimes, job[r].step \in Steps,
           NEW state \in EvidenceStates, NEW verified \in BOOLEAN
    PROVE  Keep(r, state, verified) \in [Runtimes -> Evidences]
<1>1. evidence \in [Runtimes -> Evidences] /\ Oblig(r) \in Obligations
  BY WorkShapes, ObligKnown
<1>2. [state |-> state, verified |-> verified] \in Evidence
  BY DEF Evidence
<1> QED
  BY <1>1, <1>2 DEF Keep, Evidences

\* A call that goes on to another place in the executor.
LEMMA GotoFacts ==
    ASSUME TypeOK, NEW r \in Runtimes, StepKnown(r), job[r].pc \in Working,
           NEW pc \in Working,
           \/ Goto(r, pc)
           \/ Carry(r, pc) /\ ledger'[Oblig(r)].state \in ObligationStates
    PROVE  /\ job' \in [Runtimes -> Jobs]
           /\ UNCHANGED session => Others(r)
           /\ StepKnown(r)' /\ job'[r].pc = pc
<1>1. job \in [Runtimes -> Jobs] /\ pc \in PCs
  BY WorkShapes DEF Working, PCs
<1>2. PICK j \in Jobs : /\ job' = [job EXCEPT ![r] = j]
                       /\ j.pc = pc /\ j.step = job[r].step
  <2>1. CASE Goto(r, pc)
    <3> DEFINE j == [job[r] EXCEPT !.pc = pc]
    <3>1. j \in Jobs /\ j.pc = pc /\ j.step = job[r].step
      BY <1>1 DEF Jobs
    <3>2. job' = [job EXCEPT ![r] = j]
      BY <1>1, <2>1 DEF Goto
    <3> QED
      BY <3>1, <3>2
  <2>2. CASE Carry(r, pc) /\ ledger'[Oblig(r)].state \in ObligationStates
    <3> DEFINE state == ledger'[Oblig(r)].state
               j == [job[r] EXCEPT !.pc = pc, !.summary = state]
    <3>1. state \in EvidenceStates
      BY <2>2 DEF EvidenceStates
    <3>2. job' = [job EXCEPT ![r] = j]
      BY <1>1, <2>2 DEF Carry
    <3> HIDE DEF state
    <3>3. j \in Jobs /\ j.pc = pc /\ j.step = job[r].step
      BY <1>1, <3>1 DEF Jobs
    <3> QED
      BY <3>2, <3>3
  <2> QED
    BY <2>1, <2>2
<1> QED
  BY <1>1, <1>2 DEF Others, StepKnown

\* The two ways in which a step of the executor goes: on, with the session and
\* the evidence as they were, or to the end of the call.
LEMMA GoesOn ==
    ASSUME IInv, NEW r \in Runtimes, job[r].pc \in Working, LedgerGrows,
           NEW pc \in Working,
           \/ Goto(r, pc)
           \/ Carry(r, pc) /\ ledger'[Oblig(r)].state \in ObligationStates,
           pc = "send" => "DISPATCHED" \in ledger'[Oblig(r)].applied,
           budget' \in Budgets, UNCHANGED <<session, evidence, history>>,
           consumed' \in [Runtimes -> SUBSET Obligations],
           UNCHANGED <<delivered, checkpoint, lease, reconciled>>,
           UNCHANGED cancelling
    PROVE  TypeOK' /\ Local(r)
<1>1. TypeOK /\ StepKnown(r)
  BY DEF IInv
<1>2. /\ job' \in [Runtimes -> Jobs] /\ Others(r)
      /\ StepKnown(r)' /\ job'[r].pc = pc
  BY <1>1, GotoFacts
<1>3. job'[r].step = job[r].step
  BY <1>1, WorkShapes DEF Goto, Carry, Jobs
<1>4. SendRecorded(r)'
  BY <1>2, <1>3 DEF SendRecorded, Oblig
<1> QED
  BY <1>1, <1>2, <1>4, WorkShapes, WorkStep

\* A call that ends keeps the invariant.
LEMMA CallEnds ==
    ASSUME IInv, NEW r \in Runtimes, job[r].pc \in Working, LedgerGrows,
           NEW own \in [Runtimes -> Evidences],
           EndRecoverable(r, own) \/ EndFinal(r, own) \/ EndUnknown(r, own),
           budget' \in Budgets, history' \in Histories, UNCHANGED consumed,
           UNCHANGED <<delivered, checkpoint, lease, reconciled>>,
           UNCHANGED cancelling
    PROVE  TypeOK' /\ Local(r)
<1>1. TypeOK /\ job[r].step \in Steps
  BY DEF IInv, StepKnown
<1> QED
  BY <1>1, EndFacts, WorkShapes, WorkStep

\* What every step of the executor may use.
LEMMA AtWork ==
    ASSUME IInv, NEW r \in Runtimes, job[r].pc \in Working
    PROVE  /\ TypeOK /\ job[r].step \in Steps /\ Oblig(r) \in Obligations
           /\ evidence \in [Runtimes -> Evidences] /\ budget \in Budgets
           /\ consumed \in [Runtimes -> SUBSET Obligations]
           /\ history \in Histories
           /\ cancelling \in [Runtimes -> Checkpoints]
  BY ObligKnown, WorkShapes DEF IInv, StepKnown

\* The claim of the one-use binding.
LEMMA ClaimStep ==
    ASSUME IInv, NEW r \in Runtimes, Claim(r),
           UNCHANGED cancelling
    PROVE  TypeOK' /\ Local(r)
<1>1. job[r].pc \in Working /\ UNCHANGED <<ledger, delivered, checkpoint, lease,
                                            reconciled, budget, history>>
  BY DEF Claim, At, Working
<1>2. LedgerGrows
  BY <1>1, AtWork, LedgerUnchanged
<1>3. CASE /\ consumed' = [consumed EXCEPT ![r] = @ \cup {Oblig(r)}]
           /\ Goto(r, "create")
           /\ UNCHANGED <<session, evidence>>
  <2>1. consumed' \in [Runtimes -> SUBSET Obligations]
    BY <1>1, <1>3, AtWork
  <2> QED
    BY <1>1, <1>2, <1>3, <2>1, AtWork, GoesOn DEF Working
<1>4. CASE /\ EndRecoverable(r, evidence) \/ EndFinal(r, evidence)
           /\ UNCHANGED consumed
  BY <1>1, <1>2, <1>4, AtWork, CallEnds
<1> QED
  BY <1>3, <1>4 DEF Claim

\* ActionObligationLedger.create, as the executor calls it.
LEMMA CreateStep ==
    ASSUME IInv, NEW r \in Runtimes, Create(r),
           UNCHANGED cancelling
    PROVE  TypeOK' /\ Local(r)
<1> DEFINE o == Oblig(r)
           entry == ledger[o]
<1>1. /\ job[r].pc \in Working
      /\ UNCHANGED <<delivered, checkpoint, lease, consumed, reconciled, history>>
  BY DEF Create, At, Working, UnchangedByExecutor
<1>2. ledger \in Ledgers /\ o \in Obligations
  BY <1>1, AtWork, WorkShapes
<1>3. \/ UNCHANGED ledger
      \/ ledger' = [ledger EXCEPT ![o].state = "CREATED"]
  BY DEF Create
<1>4. LedgerGrows
  BY <1>2, <1>3 DEF LedgerGrows, Ledgers, LedgerEntry, ObligationStates
<1>5. CASE Goto(r, "authorize") /\ UNCHANGED <<session, evidence, budget>>
  BY <1>1, <1>4, <1>5, AtWork, GoesOn DEF Working
<1>6. CASE /\ entry.state \notin {"NONE", "CREATED"}
           /\ EndFinal(r, Keep(r, entry.state, FALSE))
           /\ UNCHANGED budget
  <2>1. entry.state \in EvidenceStates
    BY <1>2, <1>6 DEF Ledgers, LedgerEntry, EvidenceStates
  <2>2. Keep(r, entry.state, FALSE) \in [Runtimes -> Evidences]
    BY <1>1, <2>1, AtWork, KeepTyped
  <2> QED
    BY <1>1, <1>4, <1>6, <2>2, AtWork, CallEnds
<1>7. CASE /\ budget.faults > 0
           /\ budget' = [budget EXCEPT !.faults = @ - 1]
           /\ EndFinal(r, evidence)
  <2>1. budget' \in Budgets
    BY <1>1, <1>7, AtWork DEF Budgets
  <2> QED
    BY <1>1, <1>4, <1>7, <2>1, AtWork, CallEnds
<1> QED
  BY <1>5, <1>6, <1>7 DEF Create

\* One ledger move of the executor, whether it is recorded or not.
LEMMA MoveStep ==
    ASSUME IInv, NEW r \in Runtimes, job[r].pc \in Working,
           NEW target \in ObligationStates,
           MoveSucceeds(Oblig(r), target) \/ MoveFails(Oblig(r), target)
    PROVE  /\ LedgerGrows /\ budget' \in Budgets
           /\ MoveSucceeds(Oblig(r), target) =>
                  /\ target \in ledger'[Oblig(r)].applied
                  /\ ledger'[Oblig(r)].state \in ObligationStates
                  /\ \A v \in BOOLEAN :
                         Keep(r, ledger'[Oblig(r)].state, v)
                             \in [Runtimes -> Evidences]
<1>1. /\ TypeOK /\ Oblig(r) \in Obligations /\ job[r].step \in Steps
      /\ budget \in Budgets
  BY AtWork
<1>2. CASE MoveSucceeds(Oblig(r), target)
  <2>1. /\ LedgerGrows /\ UNCHANGED budget
        /\ target \in ledger'[Oblig(r)].applied
        /\ ledger'[Oblig(r)].state \in ObligationStates
    BY <1>1, <1>2, MoveSucceedsFacts
  <2>2. ledger'[Oblig(r)].state \in EvidenceStates
    BY <2>1 DEF EvidenceStates
  <2> QED
    BY <1>1, <2>1, <2>2, KeepTyped
<1>3. CASE MoveFails(Oblig(r), target) /\ ~MoveSucceeds(Oblig(r), target)
  BY <1>1, <1>3, MoveFailsFacts DEF Budgets
<1> QED
  BY <1>2, <1>3

\* A call that ends with the evidence it had, or with a result that carries
\* the obligation's summary, after a move of the ledger.
LEMMA MoveEnds ==
    ASSUME IInv, NEW r \in Runtimes, job[r].pc \in Working,
           NEW target \in ObligationStates, NEW own,
           MoveSucceeds(Oblig(r), target) \/ MoveFails(Oblig(r), target),
           \/ own = evidence
           \/ /\ MoveSucceeds(Oblig(r), target)
              /\ \E v \in BOOLEAN : own = Keep(r, ledger'[Oblig(r)].state, v)
           \/ \E state \in EvidenceStates : own = Keep(r, state, FALSE),
           EndRecoverable(r, own) \/ EndFinal(r, own) \/ EndUnknown(r, own),
           UNCHANGED <<delivered, checkpoint, lease, consumed, reconciled, history>>,
           UNCHANGED cancelling
    PROVE  TypeOK' /\ Local(r)
<1>1. own \in [Runtimes -> Evidences]
  BY AtWork, MoveStep, KeepTyped
<1> QED
  BY <1>1, AtWork, MoveStep, CallEnds

\* A call that goes on after the ledger has recorded, or refused, a move.
LEMMA MoveGoesOn ==
    ASSUME IInv, NEW r \in Runtimes, job[r].pc \in Working,
           NEW target \in ObligationStates, NEW pc \in Working,
           MoveSucceeds(Oblig(r), target) \/ MoveFails(Oblig(r), target),
           Goto(r, pc) \/ (Carry(r, pc) /\ MoveSucceeds(Oblig(r), target)),
           pc = "send" => MoveSucceeds(Oblig(r), target) /\ target = "DISPATCHED",
           UNCHANGED <<session, evidence>>,
           UNCHANGED <<delivered, checkpoint, lease, consumed, reconciled, history>>,
           UNCHANGED cancelling
    PROVE  TypeOK' /\ Local(r)
  BY AtWork, MoveStep, GoesOn

\* The AUTHORIZED record and its refusals.
LEMMA AuthorizeStep ==
    ASSUME IInv, NEW r \in Runtimes, Authorize(r),
           UNCHANGED cancelling
    PROVE  TypeOK' /\ Local(r)
<1>1. /\ job[r].pc \in Working
      /\ UNCHANGED <<delivered, checkpoint, lease, consumed, reconciled, history>>
  BY DEF Authorize, At, Working, UnchangedByExecutor
<1>2. "FAILED" \in ObligationStates /\ "AUTHORIZED" \in ObligationStates
      /\ "CREATED" \in EvidenceStates /\ "dispatch" \in Working
  BY DEF ObligationStates, EvidenceStates, Working
<1>3. CASE RecordsFailed(r, EndFinal)
  BY <1>1, <1>2, <1>3, MoveEnds DEF RecordsFailed
<1>4. CASE /\ MoveSucceeds(Oblig(r), "AUTHORIZED")
           /\ Goto(r, "dispatch")
           /\ UNCHANGED <<session, evidence>>
  BY <1>1, <1>2, <1>4, MoveGoesOn
<1>5. CASE /\ MoveFails(Oblig(r), "AUTHORIZED")
           /\ EndRecoverable(r, Keep(r, "CREATED", FALSE))
  BY <1>1, <1>2, <1>5, MoveEnds
<1> QED
  BY <1>3, <1>4, <1>5 DEF Authorize

\* The DISPATCHED record, which has to be there before the call goes out.
LEMMA DispatchStep ==
    ASSUME IInv, NEW r \in Runtimes, Dispatch(r),
           UNCHANGED cancelling
    PROVE  TypeOK' /\ Local(r)
<1>1. /\ job[r].pc \in Working
      /\ UNCHANGED <<delivered, checkpoint, lease, consumed, reconciled, history>>
  BY DEF Dispatch, At, Working, UnchangedByExecutor
<1>2. "FAILED" \in ObligationStates /\ "DISPATCHED" \in ObligationStates
      /\ "CREATED" \in EvidenceStates /\ "send" \in Working
  BY DEF ObligationStates, EvidenceStates, Working
<1>3. CASE RecordsFailed(r, EndRecoverable)
  BY <1>1, <1>2, <1>3, MoveEnds DEF RecordsFailed
<1>4. CASE /\ MoveSucceeds(Oblig(r), "DISPATCHED")
           /\ Carry(r, "send")
           /\ UNCHANGED <<session, evidence>>
  BY <1>1, <1>2, <1>4, MoveGoesOn
<1>5. CASE /\ MoveFails(Oblig(r), "DISPATCHED")
           /\ EndRecoverable(r, Keep(r, "CREATED", FALSE))
  BY <1>1, <1>2, <1>5, MoveEnds
<1> QED
  BY <1>3, <1>4, <1>5 DEF Dispatch

\* The one step that delivers: its DISPATCHED is on record.
LEMMA SendStep ==
    ASSUME IInv, NEW r \in Runtimes, Send(r),
           UNCHANGED cancelling
    PROVE  TypeOK' /\ Local(r)
<1> DEFINE o == Oblig(r)
<1>1. /\ job[r].pc \in Working /\ job[r].pc = "send"
      /\ UNCHANGED <<ledger, checkpoint, lease, session, evidence, consumed,
                     reconciled, budget, history>>
  BY DEF Send, At, Working
<1>2. /\ TypeOK /\ o \in Obligations /\ LedgerGrows
      /\ "DISPATCHED" \in ledger[o].applied
  BY <1>1, AtWork, LedgerUnchanged DEF IInv, SendRecorded
<1>3. PICK pc \in {"answered", "lost"} : Goto(r, pc)
  BY DEF Send
<1>4. /\ job' \in [Runtimes -> Jobs] /\ Others(r) /\ StepKnown(r)'
      /\ job'[r].pc = pc
  BY <1>1, <1>2, <1>3, GotoFacts DEF Working, IInv
<1>5. delivered \in [Obligations -> Nat]
  BY <1>2, Shapes
<1>6. delivered' = delivered \/ delivered' = [delivered EXCEPT ![o] = @ + 1]
  BY DEF Send
<1>7. delivered' \in [Obligations -> Nat]
  BY <1>2, <1>5, <1>6
<1>8. TypeOK'
  BY <1>1, <1>2, <1>4, <1>7, Shapes DEF TypeOK, Jobs, Evidences, Evidence
<1>9. DeliveriesRecorded
  BY <1>1, <1>2, <1>5, <1>6 DEF DeliveriesRecorded
<1> QED
  BY <1>2, <1>4, <1>8, <1>9 DEF Local, SendRecorded

\* An exception that leaves the call with the evidence it had.
LEMMA EscapeStep ==
    ASSUME IInv, NEW r \in Runtimes, job[r].pc \in Working, Escapes(r),
           UNCHANGED <<delivered, checkpoint, lease, consumed, reconciled>>,
           UNCHANGED cancelling
    PROVE  TypeOK' /\ Local(r)
<1>1. LedgerGrows /\ history' \in Histories
  BY AtWork, LedgerUnchanged DEF Escapes, Histories
<1> QED
  BY <1>1, AtWork, CallEnds DEF Escapes

\* The answer of the phone, an error, or an exception.
LEMMA RespondStep ==
    ASSUME IInv, NEW r \in Runtimes, Respond(r),
           UNCHANGED cancelling
    PROVE  TypeOK' /\ Local(r)
<1>1. /\ job[r].pc \in Working
      /\ UNCHANGED <<delivered, checkpoint, lease, consumed, reconciled>>
  BY DEF Respond, Working
<1>2. CASE Goto(r, "unknown") /\ UNCHANGED <<ledger, session, evidence, budget, history>>
  BY <1>1, <1>2, AtWork, LedgerUnchanged, GoesOn DEF Working
<1>3. CASE Escapes(r)
  BY <1>1, <1>3, EscapeStep
<1>4. CASE /\ \/ MoveSucceeds(Oblig(r), "OBSERVING") /\ Carry(r, "verify")
              \/ MoveFails(Oblig(r), "OBSERVING") /\ Goto(r, "unknown")
           /\ UNCHANGED <<session, evidence, history>>
  BY <1>1, <1>4, MoveGoesOn DEF Working, ObligationStates
<1> QED
  BY <1>2, <1>3, <1>4 DEF Respond

\* The verification of the effect and its record.
LEMMA VerifyStep ==
    ASSUME IInv, NEW r \in Runtimes, Verify(r),
           UNCHANGED cancelling
    PROVE  TypeOK' /\ Local(r)
<1>1. /\ job[r].pc \in Working
      /\ UNCHANGED <<delivered, checkpoint, lease, consumed, reconciled>>
  BY DEF Verify, At, Working
<1>2. "FAILED" \in ObligationStates /\ "VERIFIED" \in ObligationStates
      /\ "unknown" \in Working
  BY DEF ObligationStates, Working
<1>3. CASE /\ MoveSucceeds(Oblig(r), "VERIFIED")
           /\ evidence' = Keep(r, ledger'[Oblig(r)].state, TRUE)
           /\ Finish(r, Verified(session[r], job[r].step), evidence'[r])
           /\ UNCHANGED history
  <2>1. evidence' \in [Runtimes -> Evidences] /\ LedgerGrows /\ budget' \in Budgets
    BY <1>1, <1>2, <1>3, MoveStep
  <2>2. Verified(session[r], job[r].step) \in Sessions
    BY <1>1, AtWork, WorkShapes, EndsTyped
  <2>3. /\ session' \in [Runtimes -> Sessions] /\ job' \in [Runtimes -> Jobs]
        /\ Others(r) /\ StepKnown(r)' /\ SendRecorded(r)'
    BY <1>1, <1>3, <2>1, <2>2, AtWork, FinishFacts DEF SendRecorded
  <2> QED
    BY <1>1, <1>3, <2>1, <2>3, AtWork, WorkStep
<1>4. CASE /\ MoveFails(Oblig(r), "VERIFIED")
           /\ Goto(r, "unknown")
           /\ UNCHANGED <<session, evidence, history>>
  BY <1>1, <1>2, <1>4, MoveGoesOn
<1>5. CASE /\ Goto(r, "unknown")
           /\ UNCHANGED <<ledger, session, evidence, budget, history>>
  BY <1>1, <1>5, AtWork, LedgerUnchanged, GoesOn DEF Working
<1>6. CASE /\ MoveSucceeds(Oblig(r), "FAILED")
           /\ EndRecoverable(r, Keep(r, ledger'[Oblig(r)].state, FALSE))
           /\ UNCHANGED history
  BY <1>1, <1>2, <1>6, MoveEnds
<1>7. CASE /\ MoveFails(Oblig(r), "FAILED")
           /\ EndFinal(r, evidence)
           /\ UNCHANGED history
  BY <1>1, <1>2, <1>7, MoveEnds
<1>8. CASE Escapes(r)
  BY <1>1, <1>8, EscapeStep
<1> QED
  BY <1>3, <1>4, <1>5, <1>6, <1>7, <1>8 DEF Verify

\* _unknown_side_effect.
LEMMA UnknownStep ==
    ASSUME IInv, NEW r \in Runtimes, Unknown(r),
           UNCHANGED cancelling
    PROVE  TypeOK' /\ Local(r)
<1>1. /\ job[r].pc \in Working
      /\ UNCHANGED <<delivered, checkpoint, lease, consumed, reconciled, history>>
  BY DEF Unknown, At, Working, UnchangedByExecutor
<1>2. "UNKNOWN_SIDE_EFFECT" \in ObligationStates
  BY DEF ObligationStates
<1>3. job[r].summary \in EvidenceStates
  BY <1>1, AtWork, WorkShapes DEF Jobs
<1> QED
  BY <1>1, <1>2, <1>3, MoveEnds DEF Unknown

-----------------------------------------------------------------------------
(* Cancelling, replanning, crashing and recovering.                          *)

\* cancel_dynamic_task beside the call under way.
LEMMA CancelStep ==
    ASSUME IInv, NEW r \in Runtimes, Cancel(r)
    PROVE  TypeOK' /\ Local(r)
<1> USE DEF IInv
<1> DEFINE s == CancelledSession(session[r])
           record == FromSession(s, evidence[r])
           cancelled == {<<s.rev, t>> : t \in {u \in Steps :
                                                  s.steps[u] = "CANCELLED"}}
<1>1. /\ session[r] \in Sessions /\ evidence[r] \in Evidences
      /\ checkpoint \in Checkpoints /\ job \in [Runtimes -> Jobs]
  BY Shapes
<1>2. 1 \in Steps
  BY PlanAssumption DEF Steps
<1>3. s \in Sessions
  BY <1>1, <1>2, EndsTyped
<1>4. record \in Checkpoints
  BY <1>1, <1>3, FromSessionTyped
<1>5. cancelled \subseteq Obligations
  BY <1>3 DEF Obligations, Sessions
<1>6. /\ session' = [session EXCEPT ![r] = s]
      /\ \E c \in {record, NoCheckpoint} :
             cancelling' = [cancelling EXCEPT ![r] = c]
      /\ history' = [history EXCEPT !.stopped = @ \cup cancelled]
      /\ budget' = [budget EXCEPT !.cancels = @ - 1] /\ budget.cancels > 0
      /\ UNCHANGED <<ledger, delivered, checkpoint, lease, evidence, consumed,
                     reconciled, job>>
  BY DEF Cancel
<1> HIDE DEF record, cancelled, s
<1>7. session' \in [Runtimes -> Sessions] /\ Others(r)
  BY <1>1, <1>3, <1>6, Shapes DEF Others
<1>8. history' \in Histories /\ budget' \in Budgets
  BY <1>1, <1>5, <1>6, WorkShapes DEF Histories, Budgets
<1>12. cancelling' \in [Runtimes -> Checkpoints]
  BY <1>4, <1>6, RestTyped, Shapes
<1>9. TypeOK'
  BY <1>6, <1>7, <1>8, <1>12, Shapes
     DEF TypeOK, Jobs, Evidences, Evidence, Histories, Budgets
<1>10. s.rev = session[r].rev
  BY <1>1 DEF s, CancelledSession, Sessions
<1>11. StepKnown(r)' /\ SendRecorded(r)'
  <2>1. job' = job /\ ledger' = ledger /\ session'[r].rev = session[r].rev
    BY <1>1, <1>6, <1>10, Shapes
  <2> QED
    BY <2>1 DEF StepKnown, SendRecorded, Oblig
<1> QED
  BY <1>6, <1>7, <1>9, <1>11, LedgerUnchanged DEF Local, DeliveriesRecorded

\* Its put, in time or late, or the storage error in its place.
LEMMA CancelPutStep ==
    ASSUME IInv, NEW r \in Runtimes, CancelPut(r) \/ CancelPutFails(r)
    PROVE  TypeOK' /\ Local(r)
<1> USE DEF IInv
<1>1. /\ cancelling' = [cancelling EXCEPT ![r] = NoCheckpoint]
      /\ checkpoint' \in {checkpoint, cancelling[r]}
      /\ UNCHANGED <<ledger, delivered, lease, session, evidence, consumed,
                     reconciled, job>>
  BY DEF CancelPut, CancelPutFails
<1>2. cancelling' \in [Runtimes -> Checkpoints] /\ checkpoint' \in Checkpoints
  BY <1>1, RestTyped, Shapes
<1>3. budget' \in Budgets /\ history' \in Histories
  <2>1. budget \in Budgets /\ history \in Histories
    BY WorkShapes
  <2>2. CASE CancelPut(r)
    <3>1. PICK b \in BOOLEAN : history' = [history EXCEPT !.late = b]
      BY <2>1, <2>2 DEF CancelPut, Histories
    <3> QED
      BY <2>1, <2>2, <3>1 DEF CancelPut, Histories
  <2>3. CASE CancelPutFails(r)
    BY <2>1, <2>3 DEF CancelPutFails, Budgets
  <2> QED
    BY <2>2, <2>3
<1>4. TypeOK'
  BY <1>1, <1>2, <1>3, Shapes
     DEF TypeOK, Jobs, Evidences, Evidence, Histories, Budgets
<1>5. Others(r) /\ StepKnown(r)' /\ SendRecorded(r)'
  BY <1>1 DEF Others, StepKnown, SendRecorded, Oblig
<1> QED
  BY <1>1, <1>4, <1>5, LedgerUnchanged DEF Local, DeliveriesRecorded

\* The planner is asked.
LEMMA AskPlannerStep ==
    ASSUME IInv, NEW r \in Runtimes, AskPlanner(r),
           UNCHANGED cancelling
    PROVE  TypeOK' /\ Local(r)
<1> DEFINE j == [AtRest EXCEPT !.pc = "planning"]
<1>1. TypeOK /\ job \in [Runtimes -> Jobs] /\ session \in [Runtimes -> Sessions]
  BY Shapes DEF IInv
<1>2. j \in Jobs /\ j.pc = "planning"
  BY RestTyped DEF AtRest, Jobs, PCs
<1>3. /\ job' = [job EXCEPT ![r] = j] /\ session' = session
      /\ UNCHANGED UnchangedByCalls
  BY DEF AskPlanner
<1> HIDE DEF j
<1>4. /\ job' \in [Runtimes -> Jobs] /\ session' \in [Runtimes -> Sessions]
      /\ Others(r) /\ job'[r] = j
  BY <1>1, <1>2, <1>3 DEF Others
<1> QED
  BY <1>1, <1>2, <1>3, <1>4, CallStep DEF StepKnown, Working

\* replan_dynamic_task, with what its planner answered.
LEMMA ReplanStep ==
    ASSUME IInv, NEW r \in Runtimes, Replan(r),
           UNCHANGED cancelling
    PROVE  TypeOK' /\ Local(r)
<1> USE DEF IInv
<1> DEFINE s == session[r]
           remaining == [t \in Steps |->
                            IF s.steps[t] \in {Absent, "VERIFIED"} THEN Absent
                            ELSE "PENDING"]
<1>1. /\ s \in Sessions /\ evidence[r] \in Evidences /\ checkpoint \in Checkpoints
      /\ session \in [Runtimes -> Sessions] /\ job \in [Runtimes -> Jobs]
  BY Shapes
<1>2. PICK n : /\ \/ n = [s EXCEPT !.status = "FAILED"]
                  \/ n = [s EXCEPT !.status = "BLOCKED"]
                  \/ /\ ~(s.rev > MaxReplans)
                     /\ n = [s EXCEPT !.rev = @ + 1, !.status = "READY",
                                      !.failed = 0, !.steps = remaining]
               /\ session' = [session EXCEPT ![r] = n]
               /\ job' = [job EXCEPT ![r] =
                      Saving(n, evidence[r], Owns(r, n), "put", 0)]
               /\ UNCHANGED UnchangedByCalls
  BY DEF Replan
<1>3. n \in Sessions
  <2>1. remaining \in [Steps -> StepStates \cup {Absent}]
    BY DEF StepStates
  <2>2. ~(s.rev > MaxReplans) => s.rev + 1 \in Revisions
    BY <1>1, RevisionFacts DEF Sessions
  <2> HIDE DEF remaining
  <2> QED
    BY <1>1, <1>2, <2>1, <2>2 DEF Sessions, Statuses
<1> DEFINE j == Saving(n, evidence[r], Owns(r, n), "put", 0)
<1>4. j \in Jobs /\ j.pc \in {"put", "idle"}
  BY <1>1, <1>3, SavingTyped DEF PCs
<1> HIDE DEF j
<1>5. job' = [job EXCEPT ![r] = j]
  BY <1>2 DEF j
<1>6. /\ session' \in [Runtimes -> Sessions] /\ job' \in [Runtimes -> Jobs]
      /\ Others(r) /\ job'[r] = j
  BY <1>1, <1>2, <1>3, <1>4, <1>5 DEF Others
<1> QED
  BY <1>2, <1>4, <1>6, CallStep DEF StepKnown, Working

\* A crash of the process.
LEMMA CrashStep ==
    ASSUME IInv, NEW r \in Runtimes, Crash(r),
           cancelling' \in [Runtimes -> Checkpoints]
    PROVE  TypeOK' /\ Local(r)
<1> USE DEF IInv
<1>1. [o \in Obligations |-> NoEvidence] \in Evidences
  BY RestTyped DEF Evidences
<1>2. /\ session' \in [Runtimes -> Sessions] /\ job' \in [Runtimes -> Jobs]
      /\ evidence' \in [Runtimes -> Evidences]
      /\ consumed' \in [Runtimes -> SUBSET Obligations]
      /\ Others(r) /\ job'[r] = Down
  BY <1>1, RestTyped, WorkShapes DEF Crash, Others
<1>3. UNCHANGED <<ledger, delivered, checkpoint, lease, reconciled, budget, history>>
  BY DEF Crash
<1>4. StepKnown(r)' /\ SendRecorded(r)'
  BY <1>2 DEF StepKnown, SendRecorded, Down, AtRest, Working
<1> QED
  BY <1>2, <1>3, <1>4, LedgerUnchanged, WorkShapes, WorkStep

\* The checkpoint read that begins a recovery.
LEMMA RecoverReadStep ==
    ASSUME IInv, NEW r \in Runtimes, RecoverRead(r),
           UNCHANGED cancelling
    PROVE  TypeOK' /\ Local(r)
<1> USE DEF IInv
<1> DEFINE j == [AtRest EXCEPT !.pc = "acquire", !.view = checkpoint]
<1>1. j \in Jobs /\ j.pc = "acquire"
  BY RestTyped, Shapes DEF Jobs, PCs, Recovering, AtRest
<1>2. /\ job' = [job EXCEPT ![r] = j]
      /\ UNCHANGED <<ledger, delivered, checkpoint, lease, session, evidence,
                     consumed, reconciled>>
  BY DEF RecoverRead
<1> HIDE DEF j
<1>3. job' \in [Runtimes -> Jobs] /\ Others(r) /\ job'[r] = j
  BY <1>1, <1>2, WorkShapes DEF Others
<1>4. budget' \in Budgets /\ history' \in Histories
  <2>1. \/ UNCHANGED <<budget, history>>
        \/ /\ budget.overlaps > 0
           /\ budget' = [budget EXCEPT !.overlaps = @ - 1]
           /\ history' = [history EXCEPT !.overlap = TRUE]
    BY DEF RecoverRead
  <2>2. budget \in Budgets /\ history \in Histories
    BY WorkShapes
  <2>3. budget' \in Budgets
    BY <2>1, <2>2 DEF Budgets
  <2>4. history' \in Histories
    BY <2>1, <2>2 DEF Histories
  <2> QED
    BY <2>3, <2>4
<1>5. StepKnown(r)' /\ SendRecorded(r)'
  BY <1>1, <1>3 DEF StepKnown, SendRecorded, Working
<1> QED
  BY <1>2, <1>3, <1>4, <1>5, LedgerUnchanged, WorkShapes, WorkStep

\* acquire_dynamic_recovery_lease.
LEMMA AcquireStep ==
    ASSUME IInv, NEW r \in Runtimes, Acquire(r),
           UNCHANGED cancelling
    PROVE  TypeOK' /\ Local(r)
<1> USE DEF IInv
<1>1. lease \in LeaseRecords /\ job \in [Runtimes -> Jobs]
  BY Shapes DEF LeaseRecords
<1>2. job[r].view.rev \in Revisions
  BY <1>1 DEF Jobs, Checkpoints
<1>3. /\ UNCHANGED <<ledger, delivered, checkpoint, session, evidence,
                     consumed, reconciled, budget, history>>
      /\ \/ lease' = lease
         \/ lease' = [holder |-> r, token |-> lease.token + 1,
                      rev |-> job[r].view.rev, expired |-> FALSE]
      /\ \/ job' = [job EXCEPT ![r] = AtRest]
         \/ job' = [job EXCEPT ![r].pc = "reconcile", ![r].token = lease'.token]
  BY DEF Acquire, GiveUp
<1>4. lease' \in LeaseRecords
  <2>1. lease.token + 1 \in Nat
    BY <1>1 DEF LeaseRecords
  <2>2. [holder |-> r, token |-> lease.token + 1, rev |-> job[r].view.rev,
         expired |-> FALSE] \in LeaseRecords
    BY <1>2, <2>1 DEF LeaseRecords
  <2> QED
    BY <1>1, <1>3, <2>2
<1>5. PICK j \in Jobs : /\ job' = [job EXCEPT ![r] = j]
                       /\ j.pc \in {"idle", "reconcile"}
  <2> DEFINE j == [job[r] EXCEPT !.pc = "reconcile", !.token = lease'.token]
  <2>1. lease'.token \in Nat
    BY <1>4 DEF LeaseRecords
  <2>2. j \in Jobs /\ j.pc = "reconcile"
    BY <1>1, <2>1 DEF Jobs, PCs, Recovering
  <2>3. job' = [job EXCEPT ![r] = AtRest] \/ job' = [job EXCEPT ![r] = j]
    BY <1>1, <1>3
  <2> HIDE DEF j
  <2>4. AtRest.pc = "idle"
    BY DEF AtRest
  <2> QED
    BY <2>2, <2>3, <2>4, RestTyped
<1>6. job' \in [Runtimes -> Jobs] /\ Others(r) /\ job'[r] = j
  BY <1>1, <1>3, <1>5 DEF Others
<1>7. TypeOK'
  BY <1>3, <1>4, <1>6, Shapes DEF LeaseRecords, TypeOK, Jobs, Evidences, Evidence
<1>8. StepKnown(r)' /\ SendRecorded(r)'
  BY <1>5, <1>6 DEF StepKnown, SendRecorded, Working
<1> QED
  BY <1>3, <1>6, <1>7, <1>8, LedgerUnchanged DEF Local, DeliveriesRecorded
\* Reconciliation changes states of the ledger and undoes no event.
LEMMA ReconcileStep ==
    ASSUME IInv, NEW r \in Runtimes, Reconcile(r),
           UNCHANGED cancelling
    PROVE  TypeOK' /\ Local(r)
<1> USE DEF IInv
<1>1. /\ ledger \in Ledgers /\ budget \in Budgets /\ job \in [Runtimes -> Jobs]
      /\ reconciled \subseteq Runtimes
  BY Shapes, WorkShapes
<1>2. LedgerGrows
  <2>1. CASE UNCHANGED ledger
    BY <2>1, LedgerUnchanged
  <2>2. CASE ledger' = [o \in Obligations |->
                 IF ledger[o].state \in InFlight /\ r \notin reconciled
                 THEN [ledger[o] EXCEPT !.state = "UNKNOWN_SIDE_EFFECT"]
                 ELSE ledger[o]]
    BY <1>1, <2>2 DEF LedgerGrows, Ledgers, LedgerEntry, ObligationStates
  <2> QED
    BY <2>1, <2>2 DEF Reconcile
<1>3. budget' \in Budgets /\ reconciled' \subseteq Runtimes
  BY <1>1 DEF Reconcile, Budgets
<1>4. PICK j \in Jobs : /\ job' = [job EXCEPT ![r] = j]
                       /\ j.pc \in {"idle", "decide"}
  <2> DEFINE j == [job[r] EXCEPT !.pc = "decide"]
  <2>1. j \in Jobs /\ j.pc = "decide"
    BY <1>1 DEF Jobs, PCs, Recovering
  <2>2. AtRest.pc = "idle"
    BY DEF AtRest
  <2>3. job' = [job EXCEPT ![r] = AtRest] \/ job' = [job EXCEPT ![r] = j]
    BY <1>1 DEF Reconcile, GiveUp, Goto
  <2> QED
    BY <2>1, <2>2, <2>3, RestTyped
<1>5. UNCHANGED <<delivered, checkpoint, lease, session, evidence, consumed,
                  history>>
  BY DEF Reconcile
<1>6. job' \in [Runtimes -> Jobs] /\ Others(r) /\ job'[r] = j
  BY <1>1, <1>4, <1>5 DEF Others
<1>7. TypeOK'
  BY <1>2, <1>3, <1>5, <1>6, Shapes
     DEF TypeOK, LedgerGrows, Ledgers, LedgerEntry, Budgets, Jobs, Evidences, Evidence
<1>8. StepKnown(r)' /\ SendRecorded(r)'
  BY <1>4, <1>6 DEF StepKnown, SendRecorded, Working
<1> QED
  BY <1>2, <1>5, <1>6, <1>7, <1>8 DEF Local, DeliveriesRecorded

\* A recovered session that is installed and written to the checkpoint.
LEMMA InstallStep ==
    ASSUME IInv, NEW r \in Runtimes, NEW s \in Sessions, Install(r, s),
           UNCHANGED UnchangedByCalls,
           UNCHANGED cancelling
    PROVE  TypeOK' /\ Local(r)
<1>1. TypeOK /\ evidence[r] \in Evidences
  BY Shapes DEF IInv
<1>2. Finish(r, s, evidence[r])
  BY DEF Install, Finish
<1> QED
  BY <1>1, <1>2, FinishFacts, CallStep

\* A recovery that ends without a session.
LEMMA GiveUpStep ==
    ASSUME IInv, NEW r \in Runtimes, GiveUp(r), UNCHANGED session,
           UNCHANGED UnchangedByCalls,
           UNCHANGED cancelling
    PROVE  TypeOK' /\ Local(r)
<1>1. TypeOK /\ job \in [Runtimes -> Jobs] /\ session \in [Runtimes -> Sessions]
  BY Shapes DEF IInv
<1>2. /\ job' \in [Runtimes -> Jobs] /\ session' \in [Runtimes -> Sessions]
      /\ Others(r) /\ job'[r] = AtRest
  BY <1>1, RestTyped DEF GiveUp, Others
<1> QED
  BY <1>1, <1>2, CallStep DEF StepKnown, AtRest, Working

\* The states that recovery gives the steps are states of steps.
LEMMA RecoveredStepTyped ==
    ASSUME NEW c \in Checkpoints, NEW t \in Steps
    PROVE  RecoveredStep(c, t) \in StepStates \cup {Absent}
  BY DEF RecoveredStep, Checkpoints, StepRecords, StepStates

\* What recover_dynamic_plan makes of checkpoint and ledger.
LEMMA DecideStep ==
    ASSUME IInv, NEW r \in Runtimes, Decide(r),
           UNCHANGED cancelling
    PROVE  TypeOK' /\ Local(r)
<1> DEFINE c == job[r].view
           steps == [t \in Steps |-> RecoveredStep(c, t)]
           planned == {t \in Steps : c.steps[t].state # Absent}
           stuck == Hindrances(steps)
           blocked == {t \in Steps : steps[t] = "BLOCKED"}
<1>0. TypeOK /\ job[r] \in Jobs
  BY Shapes DEF IInv
<1>1. c \in Checkpoints /\ job[r].token \in Nat /\ c.rev \in Revisions
  BY <1>0 DEF Jobs, Checkpoints
<1>2. steps \in [Steps -> StepStates \cup {Absent}]
  BY <1>1, RecoveredStepTyped
<1>3. UNCHANGED UnchangedByCalls
  BY DEF Decide
<1> HIDE DEF steps
<1>4. ASSUME NEW status \in Statuses, NEW failed \in {0} \cup Steps
      PROVE  Recovered(r, status, steps, failed) \in Sessions
  BY <1>1, <1>2 DEF Recovered, Sessions
<1>5. CASE GiveUp(r) /\ UNCHANGED session
  BY <1>3, <1>5, GiveUpStep
<1>6. CASE \E t \in planned : Uncertain(c, t)
  <2>1. CASE Install(r, Recovered(r, "BLOCKED", steps, Foremost(blocked)))
    <3>1. PICK t \in planned : Uncertain(c, t)
      BY <1>6
    <3>2. steps[t] = "BLOCKED"
      BY <3>1 DEF steps, RecoveredStep, Uncertain
    <3>3. Foremost(blocked) \in Steps
      BY <3>2, ForemostIsStep
    <3> QED
      BY <1>3, <1>4, <2>1, <3>3, InstallStep DEF Statuses
  <2> QED
    BY <1>5, <1>6, <2>1 DEF Decide, steps
<1>7. CASE Install(r, Recovered(r, "DONE", steps, 0))
  BY <1>3, <1>4, <1>7, InstallStep DEF Statuses
<1>8. CASE Install(r, Recovered(r,
               IF steps[Foremost(stuck)] = "AWAITING_CONFIRMATION"
               THEN "WAITING_CONFIRMATION" ELSE "REPLAN_REQUIRED", steps, 0))
  BY <1>3, <1>4, <1>8, InstallStep DEF Statuses
<1>9. CASE ResumesOrNot(r, Recovered(r, "READY", steps, 0))
  <2> DEFINE s == Recovered(r, "READY", steps, 0)
             waits == [s EXCEPT !.steps[NextStep(s)] = "AWAITING_CONFIRMATION",
                                !.status = "WAITING_CONFIRMATION"]
  <2>1. s \in Sessions
    BY <1>4 DEF Statuses
  <2> HIDE DEF s
  <2>2. waits \in Sessions
    BY <2>1 DEF Sessions, Statuses, StepStates
  <2>3. (GiveUp(r) /\ UNCHANGED session) \/ Install(r, waits) \/ Install(r, s)
    BY <1>9 DEF ResumesOrNot, s
  <2> QED
    BY <1>3, <1>5, <2>1, <2>2, <2>3, InstallStep
<1> QED
  BY <1>5, <1>6, <1>7, <1>8, <1>9 DEF Decide, steps

-----------------------------------------------------------------------------
(* Admission and the passing of time.                                        *)

\* admit_dynamic_plan.
LEMMA AdmitStep ==
    ASSUME IInv, Admit,
           UNCHANGED cancelling
    PROVE  TypeOK' /\ Local(First)
<1> USE DEF IInv
<1> DEFINE s == [NoSession EXCEPT !.on = TRUE,
                                  !.steps = [t \in Steps |-> "PENDING"]]
<1>1. First \in Runtimes
  BY PlanAssumption
<1>2. s \in Sessions
  BY RestTyped DEF NoSession, Sessions, StepStates
<1> HIDE DEF s
<1>3. /\ session' = [session EXCEPT ![First] = s]
      /\ checkpoint' = FromSession(s, evidence[First])
      /\ job[First] = AtRest
      /\ UNCHANGED <<ledger, delivered, lease, evidence, consumed,
                     reconciled, job, budget, history>>
  BY DEF Admit, s
<1>4. checkpoint' \in Checkpoints
  BY <1>1, <1>2, <1>3, FromSessionTyped, Shapes
<1>5. session' \in [Runtimes -> Sessions] /\ Others(First)
  BY <1>2, <1>3, Shapes DEF Others
<1>6. TypeOK'
  BY <1>3, <1>4, <1>5, Shapes DEF TypeOK, Jobs, Evidences, Evidence
<1>7. StepKnown(First)' /\ SendRecorded(First)'
  BY <1>3 DEF StepKnown, SendRecorded, AtRest, Working
<1> QED
  BY <1>3, <1>5, <1>6, <1>7, LedgerUnchanged DEF Local, DeliveriesRecorded

\* The lease runs out.
LEMMA ExpireLeaseStep ==
    ASSUME IInv, ExpireLease,
           UNCHANGED cancelling
    PROVE  IInv'
<1> USE DEF IInv
<1>1. /\ lease' = [lease EXCEPT !.expired = TRUE]
      /\ budget.expiries > 0 /\ budget' = [budget EXCEPT !.expiries = @ - 1]
      /\ UNCHANGED <<ledger, delivered, checkpoint, session, evidence, consumed,
                     reconciled, job, history>>
  BY DEF ExpireLease
<1>2. TypeOK'
  <2>1. budget' \in Budgets
    BY <1>1, WorkShapes DEF Budgets
  <2>2. lease' \in [holder : Runtimes \cup {Nobody}, token : Nat,
                    rev : Revisions, expired : BOOLEAN]
    BY <1>1, Shapes
  <2> QED
    BY <1>1, <2>1, <2>2, Shapes DEF TypeOK, Budgets, Jobs, Evidences, Evidence
<1>3. WriteAhead'
  BY <1>1 DEF WriteAhead, Sent
<1>4. \A r \in Runtimes : StepKnown(r)' /\ SendRecorded(r)'
  BY <1>1 DEF StepKnown, SendRecorded, Oblig
<1> QED
  BY <1>2, <1>3, <1>4

-----------------------------------------------------------------------------
(* The theorems.                                                             *)

\* Every step of the system preserves the invariant.
THEOREM StepPreserves == IInv /\ [Next]_vars => IInv'
<1> SUFFICES ASSUME IInv, [Next]_vars
             PROVE  IInv'
  OBVIOUS
<1>1. CASE Admit /\ UNCHANGED cancelling
  BY <1>1, AdmitStep, LocalPreserves, PlanAssumption
<1>2. CASE ExpireLease /\ UNCHANGED cancelling
  BY <1>2, ExpireLeaseStep
<1>3. ASSUME NEW r \in Runtimes, Run(r), UNCHANGED cancelling
      PROVE  IInv'
  <2>1. TypeOK' /\ Local(r)
    BY <1>3, RunEndsStep, RunAllowedStep, BeforeExecutionStep DEF Run
  <2> QED
    BY <2>1, LocalPreserves
<1>4. ASSUME NEW r \in Runtimes, Execute(r), UNCHANGED cancelling
      PROVE  IInv'
  <2>1. TypeOK' /\ Local(r)
    BY <1>4, ClaimStep, CreateStep, AuthorizeStep, DispatchStep, SendStep,
       RespondStep, VerifyStep, UnknownStep DEF Execute
  <2> QED
    BY <2>1, LocalPreserves
<1>5. ASSUME NEW r \in Runtimes, UNCHANGED cancelling,
             Put(r) \/ PutFails(r) \/ AskPlanner(r) \/ Replan(r)
      PROVE  IInv'
  <2>1. TypeOK' /\ Local(r)
    BY <1>5, PutStep, AskPlannerStep, ReplanStep
  <2> QED
    BY <2>1, LocalPreserves
<1>8. ASSUME NEW r \in Runtimes, Withdraw(r) \/ Crash(r)
      PROVE  IInv'
  <2>1. Crash(r) => cancelling' \in [Runtimes -> Checkpoints]
    BY RestTyped, Shapes DEF Crash, IInv
  <2>2. TypeOK' /\ Local(r)
    BY <1>8, <2>1, CancelStep, CancelPutStep, CrashStep DEF Withdraw
  <2> QED
    BY <2>2, LocalPreserves
<1>6. ASSUME NEW r \in Runtimes, Recover(r), UNCHANGED cancelling
      PROVE  IInv'
  <2>1. TypeOK' /\ Local(r)
    BY <1>6, RecoverReadStep, AcquireStep, ReconcileStep, DecideStep DEF Recover
  <2> QED
    BY <2>1, LocalPreserves
<1>7. CASE UNCHANGED vars
  BY <1>7 DEF IInv, TypeOK, WriteAhead, Sent, StepKnown, SendRecorded, Oblig, vars
<1> QED
  BY <1>1, <1>2, <1>3, <1>4, <1>5, <1>6, <1>7, <1>8 DEF Next, Proceed

\* It holds in every reachable state.
THEOREM Invariance == Spec => []IInv
  BY InitEstablishes, StepPreserves, PTL DEF Spec

\* Every store, session, result and call keeps its shape, whatever the plan,
\* the number of runtimes and the faults.
THEOREM GovernedTyped == Spec => []TypeOK
<1>1. IInv => TypeOK
  BY DEF IInv
<1> QED
  BY <1>1, Invariance, PTL

\* PlanExecutor.execute writes DISPATCHED before MCPClient sends: the phone
\* never receives a call that the ledger does not show as dispatched.
THEOREM GovernedWriteAhead == Spec => []WriteAhead
<1>1. IInv => WriteAhead
  BY DEF IInv
<1> QED
  BY <1>1, Invariance, PTL

-----------------------------------------------------------------------------
(* The first layer holds whatever overlaps. What was applied to an           *)
(* obligation says which states it has left behind.                          *)

EntryOk(e) ==
    /\ "AUTHORIZED" \in e.applied => e.state \notin {"NONE", "CREATED"}
    /\ "DISPATCHED" \in e.applied =>
           e.state \notin {"NONE", "CREATED", "AUTHORIZED"}
    /\ "OBSERVING" \in e.applied =>
           e.state \notin {"NONE", "CREATED", "AUTHORIZED", "DISPATCHED"}
    /\ "VERIFIED" \in e.applied => e.state = "VERIFIED"
    /\ "FAILED" \in e.applied => e.state = "FAILED"

\* Only a call that reached the phone gets as far as its observation.
LedgerSound ==
    \A o \in Obligations :
        /\ EntryOk(ledger[o])
        /\ ledger[o].state \in {"OBSERVING", "VERIFIED"} => delivered[o] > 0

\* From "authorize" on the call has an obligation, and an answer comes from
\* the phone.
OnRecord == {"authorize", "dispatch", "send", "answered", "lost", "verify",
             "unknown"}

CallBacked(r) ==
    /\ job[r].pc \in OnRecord => ledger[Oblig(r)].state # "NONE"
    /\ job[r].pc = "answered" => delivered[Oblig(r)] > 0

\* Every VERIFIED of a session, or of a checkpoint, is one of the ledger l.
SessionProven(l, s) ==
    \A t \in Steps : s.steps[t] = "VERIFIED" => l[<<s.rev, t>>].state = "VERIFIED"

RecordProven(l, c) ==
    \A t \in Steps :
        c.steps[t].state = "VERIFIED" => l[<<c.rev, t>>].state = "VERIFIED"

BInv ==
    /\ IInv
    /\ LedgerSound
    /\ RecordProven(ledger, checkpoint)
    /\ \A r \in Runtimes :
        /\ CallBacked(r)
        /\ SessionProven(ledger, session[r])
        /\ RecordProven(ledger, job[r].view)
        /\ RecordProven(ledger, cancelling[r])

\* What a step may do to ledger and phone: nothing is unrecorded, unverified
\* or undelivered again.
LedgerAdvances ==
    /\ LedgerSound'
    /\ \A o \in Obligations :
        /\ ledger[o].state # "NONE" => ledger'[o].state # "NONE"
        /\ ledger[o].state = "VERIFIED" => ledger'[o].state = "VERIFIED"
        /\ delivered[o] > 0 => delivered'[o] > 0

\* A recorded move keeps an entry consistent and leaves settled states alone;
\* the first of its kind leads to its target.
LEMMA MoveKeeps ==
    ASSUME NEW e \in LedgerEntry, EntryOk(e), e.state # "NONE",
           NEW target \in ObligationStates \ {"CREATED"}, MoveAccepted(e, target)
    PROVE  LET n == AfterMove(e, target)
           IN  /\ EntryOk(n)
               /\ n.state # "NONE"
               /\ e.state \in Settled => n.state = e.state
               /\ n.state \in {"OBSERVING", "VERIFIED"} =>
                      e.state \in {"OBSERVING", "VERIFIED"} \/ target = "OBSERVING"
               /\ target \in Settled => n.state = target
               /\ e.state = "CREATED" /\ target = "AUTHORIZED" => n.state = target
               /\ e.state = "AUTHORIZED" /\ target = "DISPATCHED" => n.state = target
               /\ e.state = "DISPATCHED" /\ target = "OBSERVING" => n.state = target
<1> DEFINE n == AfterMove(e, target)
<1>1. CASE target \in e.applied
  BY <1>1 DEF AfterMove, EntryOk, Settled
<1>2. CASE target \notin e.applied
  <2>1. n = [state |-> target, applied |-> e.applied \cup {target}]
    BY <1>2 DEF AfterMove, Applied
  <2>2. target \in Transitions[e.state] /\ e.state \in ObligationStates
    BY <1>2 DEF MoveAccepted, MayMove, LedgerEntry
  <2>3. /\ e.state \notin {"VERIFIED", "FAILED", "UNKNOWN_SIDE_EFFECT"}
        /\ e.state = "CREATED" => target \in {"AUTHORIZED", "FAILED"}
        /\ e.state = "AUTHORIZED" => target \in {"DISPATCHED", "FAILED"}
        /\ e.state = "DISPATCHED" => target \in {"OBSERVING", "UNKNOWN_SIDE_EFFECT"}
        /\ e.state = "OBSERVING" =>
               target \in {"VERIFIED", "FAILED", "UNKNOWN_SIDE_EFFECT"}
    <3>1. e.state = "UNKNOWN_SIDE_EFFECT" => FALSE
      BY <1>2 DEF MoveAccepted, MayMove
    <3> QED
      BY <2>2, <3>1 DEF Transitions, ObligationStates
  <2>4. e.state \in {"CREATED", "AUTHORIZED", "DISPATCHED", "OBSERVING"}
    BY <2>2, <2>3 DEF ObligationStates
  <2> QED
    BY <2>1, <2>3, <2>4 DEF EntryOk, Settled
<1> QED
  BY <1>1, <1>2

\* A step that leaves ledger and phone alone.
LEMMA LedgerStill ==
    ASSUME BInv, UNCHANGED <<ledger, delivered>>
    PROVE  LedgerAdvances
  BY DEF BInv, LedgerAdvances, LedgerSound

\* A move of the executor, recorded or not.
LEMMA MoveAdvances ==
    ASSUME BInv, NEW r \in Runtimes, job[r].pc \in OnRecord,
           NEW target \in ObligationStates \ {"CREATED"},
           MoveSucceeds(Oblig(r), target) \/ MoveFails(Oblig(r), target),
           target = "OBSERVING" => delivered[Oblig(r)] > 0,
           UNCHANGED delivered
    PROVE  LedgerAdvances
<1> DEFINE o == Oblig(r)
           n == AfterMove(ledger[o], target)
<1>1. o \in Obligations /\ ledger \in Ledgers
  BY AtWork, WorkShapes DEF BInv, OnRecord, Working
<1>2. ledger[o] \in LedgerEntry /\ EntryOk(ledger[o]) /\ ledger[o].state # "NONE"
  BY <1>1 DEF BInv, CallBacked, LedgerSound, Ledgers
<1>3. \/ UNCHANGED ledger
      \/ MoveAccepted(ledger[o], target) /\ ledger' = [ledger EXCEPT ![o] = n]
  BY DEF MoveSucceeds, MoveFails
<1>4. CASE UNCHANGED ledger
  BY <1>4, LedgerStill
<1>5. CASE MoveAccepted(ledger[o], target) /\ ledger' = [ledger EXCEPT ![o] = n]
  <2>1. /\ EntryOk(n) /\ n.state # "NONE"
        /\ ledger[o].state = "VERIFIED" => n.state = "VERIFIED"
        /\ n.state \in {"OBSERVING", "VERIFIED"} => delivered[o] > 0
    BY <1>1, <1>2, <1>5, MoveKeeps DEF Settled, BInv, LedgerSound
  <2> HIDE DEF n
  <2>2. \A p \in Obligations : ledger'[p] = IF p = o THEN n ELSE ledger[p]
    BY <1>1, <1>5 DEF Ledgers
  <2> QED
    BY <2>1, <2>2 DEF LedgerAdvances, LedgerSound, BInv
<1> QED
  BY <1>3, <1>4, <1>5

\* What is proven stays proven while the ledger advances.
LEMMA ProvenStays ==
    ASSUME TypeOK, LedgerAdvances
    PROVE  /\ \A s \in Sessions :
                  SessionProven(ledger, s) => SessionProven(ledger', s)
           /\ \A c \in Checkpoints :
                  RecordProven(ledger, c) => RecordProven(ledger', c)
<1>1. \A v \in Revisions, t \in Steps : <<v, t>> \in Obligations
  BY DEF Obligations
<1> QED
  BY <1>1 DEF SessionProven, RecordProven, LedgerAdvances, Sessions, Checkpoints

\* A step of one runtime that keeps its own part keeps the layer.
LEMMA LocalBacked ==
    ASSUME BInv, NEW r \in Runtimes, TypeOK', Local(r), LedgerAdvances,
           RecordProven(ledger', checkpoint'), CallBacked(r)',
           SessionProven(ledger', session'[r]), RecordProven(ledger', job'[r].view),
           \A q \in Runtimes : \/ cancelling'[q] \in {cancelling[q], NoCheckpoint}
                               \/ RecordProven(ledger', cancelling'[q])
    PROVE  BInv'
<1>0. IInv /\ TypeOK
  BY DEF BInv, IInv
<1>1. IInv'
  BY <1>0, LocalPreserves
<1>2. ASSUME NEW q \in Runtimes \ {r}
      PROVE  /\ CallBacked(q)'
             /\ SessionProven(ledger', session'[q])
             /\ RecordProven(ledger', job'[q].view)
  <2>1. job'[q] = job[q] /\ session'[q] = session[q] /\ Oblig(q)' = Oblig(q)
    BY DEF Local, Others, Oblig
  <2>2. session[q] \in Sessions /\ job[q].view \in Checkpoints
    BY <1>0, WorkShapes DEF Jobs
  <2>3. job[q].pc \in OnRecord => Oblig(q) \in Obligations
    BY <1>0, ObligKnown DEF IInv, StepKnown, OnRecord, Working
  <2>4. CallBacked(q)'
    BY <2>1, <2>3 DEF BInv, CallBacked, LedgerAdvances, OnRecord
  <2> QED
    BY <1>0, <2>1, <2>2, <2>4, ProvenStays DEF BInv
<1>3. ASSUME NEW q \in Runtimes
      PROVE  RecordProven(ledger', cancelling'[q])
  <2>1. RecordProven(ledger', cancelling[q])
    BY <1>0, WorkShapes, ProvenStays DEF BInv
  <2>2. RecordProven(ledger', NoCheckpoint)
    BY DEF RecordProven, NoCheckpoint, AbsentRecord, Absent
  <2> QED
    BY <2>1, <2>2
<1> QED
  BY <1>1, <1>2, <1>3 DEF BInv, LedgerAdvances

-----------------------------------------------------------------------------
(* Ends of calls. An update of a session that makes no step VERIFIED.        *)

NoNewSuccess(s, n) ==
    /\ n.rev = s.rev /\ n.on = s.on
    /\ \A t \in Steps : n.steps[t] = "VERIFIED" => s.steps[t] = "VERIFIED"

\* The updates of run_dynamic_step and cancel_dynamic_task are of this kind,
\* but for the one that ends a verified step.
LEMMA EndsQuiet ==
    ASSUME NEW s \in Sessions, NEW t \in Steps
    PROVE  /\ NoNewSuccess(s, Replanned(s, t))
           /\ NoNewSuccess(s, Blocked(s, t))
           /\ NoNewSuccess(s, [Blocked(s, t) EXCEPT !.status = "FAILED"])
           /\ NoNewSuccess(s, FailedForGood(s, t))
           /\ NoNewSuccess(s, CancelledSession(s))
           /\ \A st \in StepStates \ {"VERIFIED"}, status \in Statuses :
                  NoNewSuccess(s, [s EXCEPT !.steps[t] = st, !.status = status])
<1>1. NoNewSuccess(s, Replanned(s, t)) /\ NoNewSuccess(s, Blocked(s, t))
  BY DEF NoNewSuccess, Replanned, Blocked, Sessions
<1>2. NoNewSuccess(s, [Blocked(s, t) EXCEPT !.status = "FAILED"])
  BY DEF NoNewSuccess, Blocked, Sessions
<1>3. NoNewSuccess(s, FailedForGood(s, t))
  BY DEF NoNewSuccess, FailedForGood, Sessions
<1>4. NoNewSuccess(s, CancelledSession(s))
  BY DEF NoNewSuccess, CancelledSession, Sessions
<1>5. \A st \in StepStates \ {"VERIFIED"}, status \in Statuses :
          NoNewSuccess(s, [s EXCEPT !.steps[t] = st, !.status = status])
  BY DEF NoNewSuccess, Sessions
<1> QED
  BY <1>1, <1>2, <1>3, <1>4, <1>5

LEMMA QuietProven ==
    ASSUME NEW l, NEW s, NEW n, NoNewSuccess(s, n), SessionProven(l, s)
    PROVE  SessionProven(l, n)
  BY DEF NoNewSuccess, SessionProven

\* A checkpoint calls VERIFIED only what its session does.
LEMMA FromSessionProven ==
    ASSUME NEW l, NEW s, NEW own, SessionProven(l, s)
    PROVE  RecordProven(l, FromSession(s, own))
<1> DEFINE c == FromSession(s, own)
<1>1. ASSUME NEW t \in Steps, c.steps[t].state = "VERIFIED"
      PROVE  s.steps[t] = "VERIFIED" /\ c.rev = s.rev
  <2>1. c.steps[t] = IF t \in InPlan(s) THEN StepRecord(s, own[<<s.rev, t>>], t)
                     ELSE AbsentRecord
    BY DEF FromSession
  <2>2. StepRecord(s, own[<<s.rev, t>>], t).state \in {"REPLAN_REQUIRED", s.steps[t]}
    BY DEF StepRecord
  <2>3. AbsentRecord.state # "VERIFIED"
    BY DEF AbsentRecord, Absent
  <2> QED
    BY <1>1, <2>1, <2>2, <2>3 DEF FromSession
<1> QED
  BY <1>1 DEF RecordProven, SessionProven

\* The checkpoint write at the end of a call carries what its session says.
LEMMA SavingProven ==
    ASSUME NEW l, NEW s, NEW own, NEW allowed, NEW next, NEW t,
           SessionProven(l, s)
    PROVE  RecordProven(l, Saving(s, own, allowed, next, t).view)
<1>1. RecordProven(l, NoCheckpoint)
  BY DEF RecordProven, NoCheckpoint, AbsentRecord, Absent
<1>2. Saving(s, own, allowed, next, t).view \in {FromSession(s, own), NoCheckpoint}
  BY DEF Saving, AtRest
<1> QED
  BY <1>1, <1>2, FromSessionProven

\* A call that ends with a proven session.
LEMMA FinishBacked ==
    ASSUME TypeOK, NEW r \in Runtimes, NEW s \in Sessions, NEW own \in Evidences,
           Finish(r, s, own), SessionProven(ledger', s)
    PROVE  /\ CallBacked(r)'
           /\ SessionProven(ledger', session'[r])
           /\ RecordProven(ledger', job'[r].view)
<1> DEFINE j == Saving(s, own, Holds(r, s), "put", 0)
<1>1. j \in Jobs /\ j.pc \in {"put", "idle"} /\ RecordProven(ledger', j.view)
  BY SavingTyped, SavingProven, Shapes DEF PCs
<1>2. session' = [session EXCEPT ![r] = s] /\ job' = [job EXCEPT ![r] = j]
  BY DEF Finish
<1> HIDE DEF j
<1>3. session'[r] = s /\ job'[r] = j
  BY <1>2, WorkShapes
<1> QED
  BY <1>1, <1>3 DEF CallBacked, OnRecord

\* A call that ends, or goes on, without touching ledger and phone.
LEMMA CalmStep ==
    ASSUME BInv, NEW r \in Runtimes, TypeOK', Local(r),
           UNCHANGED <<ledger, delivered>>,
           RecordProven(ledger, checkpoint'), CallBacked(r)',
           SessionProven(ledger, session'[r]), RecordProven(ledger, job'[r].view),
           \A q \in Runtimes : \/ cancelling'[q] \in {cancelling[q], NoCheckpoint}
                               \/ RecordProven(ledger', cancelling'[q])
    PROVE  BInv'
  BY LedgerStill, LocalBacked

\* run_dynamic_step up to the executor.
LEMMA RunBacked ==
    ASSUME BInv, NEW r \in Runtimes, Run(r),
           UNCHANGED cancelling
    PROVE  BInv'
<1>0. /\ IInv /\ TypeOK /\ session \in [Runtimes -> Sessions]
      /\ evidence[r] \in Evidences /\ job \in [Runtimes -> Jobs]
      /\ SessionProven(ledger, session[r]) /\ RecordProven(ledger, checkpoint)
      /\ RecordProven(ledger, job[r].view)
  BY WorkShapes DEF BInv, IInv
<1>1. TypeOK' /\ Local(r)
  BY <1>0, RunEndsStep, RunAllowedStep, BeforeExecutionStep DEF Run
<1>2. UNCHANGED <<ledger, delivered, checkpoint>>
  BY DEF Run, RunFenced, RunRefused, RunNothing, RunUnbound, RunUnauthorized,
         RunAllowed, RunLosesLease, BeforeExecution, UnchangedByCalls
<1>3. RecordProven(ledger, AtRest.view)
  BY DEF RecordProven, AtRest, NoCheckpoint, AbsentRecord, Absent
<1>4. ASSUME NEW s \in Sessions, NoNewSuccess(session[r], s),
             Finish(r, s, evidence[r])
      PROVE  BInv'
  BY <1>0, <1>1, <1>2, <1>4, QuietProven, FinishBacked, CalmStep
<1>5. HasRunnable(session[r]) \/ Candidates(session[r]) # {}
          => NextStep(session[r]) \in Steps
  BY NextStepIsStep DEF HasRunnable
<1>6. CASE RunFenced(r)
  <2>1. session'[r] = [session[r] EXCEPT !.status = "BLOCKED"] /\ UNCHANGED job
    BY <1>0, <1>6 DEF RunFenced
  <2>2. NoNewSuccess(session[r], session'[r])
    BY <1>0, <2>1 DEF NoNewSuccess, Sessions
  <2>3. job[r] = AtRest /\ AtRest.pc = "idle"
    BY <1>6 DEF RunFenced, MayCall, AtRest
  <2> QED
    BY <1>0, <1>1, <1>2, <2>1, <2>2, <2>3, QuietProven, CalmStep
       DEF CallBacked, OnRecord
<1>7. CASE RunRefused(r)
  BY <1>0, <1>4, <1>7 DEF RunRefused, NoNewSuccess
<1>8. CASE RunNothing(r)
  <2>1. Candidates(session[r]) # {} =>
            /\ Blocked(session[r], NextStep(session[r])) \in Sessions
            /\ NoNewSuccess(session[r], Blocked(session[r], NextStep(session[r])))
    BY <1>0, <1>5, EndsTyped, EndsQuiet
  <2>2. /\ [session[r] EXCEPT !.status = "DONE"] \in Sessions
        /\ NoNewSuccess(session[r], [session[r] EXCEPT !.status = "DONE"])
        /\ NoNewSuccess(session[r], session[r])
    BY <1>0 DEF Sessions, Statuses, NoNewSuccess
  <2> QED
    BY <1>0, <1>4, <1>8, <2>1, <2>2 DEF RunNothing
<1>9. CASE RunUnbound(r)
  <2> DEFINE s == session[r]
             t == NextStep(s)
  <2>1. t \in Steps
    BY <1>5, <1>9 DEF RunUnbound
  <2>2. /\ Replanned(s, t) \in Sessions /\ NoNewSuccess(s, Replanned(s, t))
        /\ Blocked(s, t) \in Sessions
        /\ NoNewSuccess(s, [Blocked(s, t) EXCEPT !.status = "FAILED"])
    BY <1>0, <2>1, EndsTyped, EndsQuiet
  <2>3. [Blocked(s, t) EXCEPT !.status = "FAILED"] \in Sessions
    BY <2>2 DEF Sessions, Statuses
  <2> QED
    BY <1>4, <1>9, <2>2, <2>3 DEF RunUnbound
<1>10. CASE RunUnauthorized(r)
  <2> DEFINE s == session[r]
             t == NextStep(s)
             waits == [s EXCEPT !.steps[t] = "AWAITING_CONFIRMATION",
                                !.status = "WAITING_CONFIRMATION"]
  <2>1. t \in Steps
    BY <1>5, <1>10 DEF RunUnauthorized
  <2>2. /\ Blocked(s, t) \in Sessions /\ NoNewSuccess(s, Blocked(s, t))
        /\ NoNewSuccess(s, waits)
    BY <1>0, <2>1, EndsTyped, EndsQuiet DEF StepStates, Statuses
  <2>3. waits \in Sessions
    BY <1>0, <2>1 DEF Sessions, Statuses, StepStates
  <2> QED
    BY <1>4, <1>10, <2>2, <2>3 DEF RunUnauthorized
<1>11. CASE RunAllowed(r)
  <2> DEFINE s == session[r]
             t == NextStep(s)
             asks == [s EXCEPT !.steps[t] = "AWAITING_RISK", !.status = "RUNNING"]
             j == [AtRest EXCEPT !.pc = "risked", !.step = t]
  <2>1. t \in Steps
    BY <1>5, <1>11 DEF RunAllowed
  <2>2. NoNewSuccess(s, asks)
    BY <1>0, <2>1, EndsQuiet DEF StepStates, Statuses
  <2>3. session'[r] = asks /\ job'[r] = j
    BY <1>0, <1>11 DEF RunAllowed
  <2>4. j.pc = "risked" /\ j.view = AtRest.view
    BY DEF AtRest
  <2> HIDE DEF asks, j
  <2> QED
    BY <1>0, <1>1, <1>2, <1>3, <2>2, <2>3, <2>4, QuietProven, CalmStep
       DEF CallBacked, OnRecord
<1>12. CASE RunLosesLease(r)
  <2>1. job[r].step \in Steps
    BY <1>0, <1>12 DEF RunLosesLease, IInv, StepKnown, Working
  <2>2. NoNewSuccess(session[r], Blocked(session[r], job[r].step))
    BY <1>0, <2>1, EndsQuiet
  <2>3. session'[r] = Blocked(session[r], job[r].step) /\ job'[r] = AtRest
    BY <1>0, <1>12 DEF RunLosesLease
  <2>4. AtRest.pc = "idle"
    BY DEF AtRest
  <2> QED
    BY <1>0, <1>1, <1>2, <1>3, <2>2, <2>3, <2>4, QuietProven, CalmStep
       DEF CallBacked, OnRecord
<1>13. CASE BeforeExecution(r)
  <2> DEFINE t == job[r].step
             s == [session[r] EXCEPT !.steps[t] = "EXECUTING",
                                     !.token = IF @ = 0 THEN 0 ELSE lease'.token]
             j == Saving(s, evidence[r], s.token # 0 => ~lease'.expired,
                         "putBefore", t)
  <2>1. t \in Steps
    BY <1>0, <1>13 DEF BeforeExecution, IInv, StepKnown, Working
  <2>2. NoNewSuccess(session[r], s)
    BY <1>0, <2>1 DEF Sessions, NoNewSuccess
  <2>3. session'[r] = s /\ job'[r] = j
    BY <1>0, <1>13 DEF BeforeExecution
  <2> HIDE DEF s, t
  <2>4. j.pc \in {"putBefore", "idle"} /\ RecordProven(ledger, j.view)
    BY <1>0, <2>2, QuietProven, SavingProven DEF Saving, AtRest
  <2> HIDE DEF j
  <2> QED
    BY <1>0, <1>1, <1>2, <2>2, <2>3, <2>4, QuietProven, CalmStep
       DEF CallBacked, OnRecord
<1> QED
  BY <1>6, <1>7, <1>8, <1>9, <1>10, <1>11, <1>12, <1>13 DEF Run

-----------------------------------------------------------------------------
(* The executor.                                                             *)

\* A call that ends with a result that is no success.
LEMMA EndsBacked ==
    ASSUME BInv, NEW r \in Runtimes, job[r].pc \in Working, LedgerAdvances,
           NEW own \in [Runtimes -> Evidences],
           EndRecoverable(r, own) \/ EndFinal(r, own) \/ EndUnknown(r, own)
    PROVE  /\ CallBacked(r)'
           /\ SessionProven(ledger', session'[r])
           /\ RecordProven(ledger', job'[r].view)
<1>1. /\ TypeOK /\ job[r].step \in Steps /\ session[r] \in Sessions
      /\ own[r] \in Evidences /\ SessionProven(ledger, session[r])
  BY AtWork, WorkShapes DEF BInv
<1>2. SessionProven(ledger', session[r])
  BY <1>1, ProvenStays
<1>3. PICK s \in Sessions : NoNewSuccess(session[r], s) /\ Finish(r, s, own[r])
  BY <1>1, EndsTyped, EndsQuiet DEF EndRecoverable, EndFinal, EndUnknown
<1> QED
  BY <1>1, <1>2, <1>3, QuietProven, FinishBacked

\* A call that goes on in the executor.
LEMMA GoesBacked ==
    ASSUME BInv, NEW r \in Runtimes, job[r].pc \in Working, LedgerAdvances,
           NEW pc \in Working, Goto(r, pc) \/ Carry(r, pc), UNCHANGED session,
           pc \in OnRecord =>
               job[r].pc \in OnRecord \/ ledger'[Oblig(r)].state # "NONE",
           pc = "answered" => delivered'[Oblig(r)] > 0
    PROVE  /\ CallBacked(r)'
           /\ SessionProven(ledger', session'[r])
           /\ RecordProven(ledger', job'[r].view)
<1>1. /\ TypeOK /\ Oblig(r) \in Obligations /\ session[r] \in Sessions
      /\ job \in [Runtimes -> Jobs]
  BY AtWork, WorkShapes DEF BInv
<1>2. /\ job'[r].pc = pc /\ job'[r].step = job[r].step
      /\ job'[r].view = job[r].view /\ job[r].view \in Checkpoints
  BY <1>1 DEF Goto, Carry, Jobs
<1>3. Oblig(r)' = Oblig(r)
  BY <1>2 DEF Oblig
<1>4. CallBacked(r)'
  BY <1>1, <1>2, <1>3 DEF CallBacked, BInv, LedgerAdvances
<1> QED
  BY <1>1, <1>2, <1>4, ProvenStays DEF BInv

\* Both, after a move of the ledger.
LEMMA MoveBacked ==
    ASSUME BInv, NEW r \in Runtimes, job[r].pc \in OnRecord,
           TypeOK', Local(r), LedgerAdvances, UNCHANGED <<checkpoint, cancelling>>,
           \/ \E own \in [Runtimes -> Evidences] :
                  EndRecoverable(r, own) \/ EndFinal(r, own) \/ EndUnknown(r, own)
           \/ /\ \E pc \in OnRecord \ {"answered"} : Goto(r, pc) \/ Carry(r, pc)
              /\ UNCHANGED session
    PROVE  BInv'
<1>1. job[r].pc \in Working /\ OnRecord \subseteq Working
  BY DEF OnRecord, Working
<1>2. RecordProven(ledger', checkpoint')
  BY ProvenStays, Shapes DEF BInv, IInv
<1>3. CASE \E own \in [Runtimes -> Evidences] :
               EndRecoverable(r, own) \/ EndFinal(r, own) \/ EndUnknown(r, own)
  BY <1>1, <1>2, <1>3, EndsBacked, LocalBacked
<1>4. CASE /\ \E pc \in OnRecord \ {"answered"} : Goto(r, pc) \/ Carry(r, pc)
           /\ UNCHANGED session
  BY <1>1, <1>2, <1>4, GoesBacked, LocalBacked
<1> QED
  BY <1>3, <1>4

\* What a result may carry.
LEMMA ResultTyped ==
    ASSUME IInv, NEW r \in Runtimes, job[r].pc \in Working
    PROVE  /\ evidence \in [Runtimes -> Evidences]
           /\ \A state \in EvidenceStates :
                  Keep(r, state, FALSE) \in [Runtimes -> Evidences]
           /\ \A target \in ObligationStates :
                  MoveSucceeds(Oblig(r), target) =>
                      Keep(r, ledger'[Oblig(r)].state, FALSE)
                          \in [Runtimes -> Evidences]
  BY AtWork, KeepTyped, MoveStep

LEMMA ClaimBacked ==
    ASSUME BInv, NEW r \in Runtimes, Claim(r),
           UNCHANGED cancelling
    PROVE  BInv'
<1>1. /\ IInv /\ job[r].pc \in Working /\ job[r].pc \notin OnRecord
      /\ UNCHANGED <<ledger, delivered, checkpoint>>
  BY DEF Claim, At, Working, OnRecord, BInv
<1>2. TypeOK' /\ Local(r) /\ LedgerAdvances /\ evidence \in [Runtimes -> Evidences]
  BY <1>1, ClaimStep, LedgerStill, AtWork
<1>3. \/ EndRecoverable(r, evidence) \/ EndFinal(r, evidence)
      \/ Goto(r, "create") /\ UNCHANGED session
  BY DEF Claim
<1>4. "create" \in Working /\ "create" \notin OnRecord
  BY DEF Working, OnRecord
<1>5. /\ CallBacked(r)' /\ SessionProven(ledger', session'[r])
      /\ RecordProven(ledger', job'[r].view)
  BY <1>1, <1>2, <1>3, <1>4, EndsBacked, GoesBacked
<1> QED
  BY <1>1, <1>2, <1>5, LocalBacked DEF BInv

LEMMA CreateBacked ==
    ASSUME BInv, NEW r \in Runtimes, Create(r),
           UNCHANGED cancelling
    PROVE  BInv'
<1> DEFINE o == Oblig(r)
<1>1. /\ IInv /\ job[r].pc \in Working
      /\ UNCHANGED <<delivered, checkpoint>>
  BY DEF Create, At, Working, BInv, UnchangedByExecutor
<1>2. TypeOK' /\ Local(r) /\ o \in Obligations /\ ledger \in Ledgers
  BY <1>1, CreateStep, AtWork, WorkShapes
<1>3. \/ UNCHANGED ledger
      \/ /\ ledger[o].state \in {"NONE", "CREATED"}
         /\ ledger' = [ledger EXCEPT ![o].state = "CREATED"]
  BY DEF Create
<1>4. LedgerAdvances
  <2>1. CASE UNCHANGED ledger
    BY <1>1, <2>1, LedgerStill
  <2>2. CASE /\ ledger[o].state \in {"NONE", "CREATED"}
             /\ ledger' = [ledger EXCEPT ![o].state = "CREATED"]
    <3>1. \A p \in Obligations \ {o} : ledger'[p] = ledger[p]
      BY <1>2, <2>2 DEF Ledgers
    <3>2. ledger'[o].state = "CREATED" /\ ledger'[o].applied = ledger[o].applied
      BY <1>2, <2>2 DEF Ledgers, LedgerEntry
    <3>3. EntryOk(ledger'[o])
      BY <1>2, <2>2, <3>2 DEF EntryOk, BInv, LedgerSound
    <3> QED
      BY <1>1, <1>2, <2>2, <3>1, <3>2, <3>3 DEF LedgerAdvances, LedgerSound, BInv
  <2> QED
    BY <1>3, <2>1, <2>2
<1>5. RecordProven(ledger', checkpoint')
  BY <1>1, <1>4, ProvenStays, Shapes DEF BInv, IInv
<1>6. CASE Goto(r, "authorize") /\ UNCHANGED session /\
           ledger' = [ledger EXCEPT ![o].state = "CREATED"]
  <2>1. ledger'[o].state # "NONE"
    BY <1>2, <1>6 DEF Ledgers, LedgerEntry
  <2> QED
    BY <1>1, <1>2, <1>4, <1>5, <1>6, <2>1, GoesBacked, LocalBacked DEF Working
<1>7. CASE EndFinal(r, evidence)
  BY <1>1, <1>2, <1>4, <1>5, <1>7, ResultTyped, EndsBacked, LocalBacked
<1>8. CASE /\ ledger[o].state \notin {"NONE", "CREATED"}
           /\ EndFinal(r, Keep(r, ledger[o].state, FALSE))
  <2>1. ledger[o].state \in EvidenceStates
    BY <1>2, <1>8 DEF Ledgers, LedgerEntry, EvidenceStates
  <2> QED
    BY <1>1, <1>2, <1>4, <1>5, <1>8, <2>1, ResultTyped, EndsBacked, LocalBacked
<1> QED
  BY <1>6, <1>7, <1>8 DEF Create

\* The records of the executor around the call.
LEMMA AuthorizeBacked ==
    ASSUME BInv, NEW r \in Runtimes, Authorize(r) \/ Dispatch(r),
           UNCHANGED cancelling
    PROVE  BInv'
<1>1. /\ IInv /\ job[r].pc \in OnRecord /\ job[r].pc \in Working
      /\ UNCHANGED <<delivered, checkpoint>>
  BY DEF Authorize, Dispatch, At, Working, OnRecord, BInv, UnchangedByExecutor
<1>2. TypeOK' /\ Local(r)
  BY <1>1, AuthorizeStep, DispatchStep
<1>3. LedgerAdvances
  <2>1. PICK target \in {"FAILED", "AUTHORIZED", "DISPATCHED"} :
            MoveSucceeds(Oblig(r), target) \/ MoveFails(Oblig(r), target)
    BY DEF Authorize, Dispatch, RecordsFailed
  <2> QED
    BY <1>1, <2>1, MoveAdvances DEF ObligationStates
<1>4. "CREATED" \in EvidenceStates /\ "FAILED" \in ObligationStates
  BY DEF EvidenceStates, ObligationStates
<1>5. {"dispatch", "send"} \subseteq OnRecord \ {"answered"}
  BY DEF OnRecord
<1>6. \/ \E own \in [Runtimes -> Evidences] :
             EndRecoverable(r, own) \/ EndFinal(r, own) \/ EndUnknown(r, own)
      \/ (Goto(r, "dispatch") \/ Carry(r, "send")) /\ UNCHANGED session
  BY <1>1, <1>4, ResultTyped DEF Authorize, Dispatch, RecordsFailed
<1> QED
  BY <1>1, <1>2, <1>3, <1>5, <1>6, MoveBacked

\* The call itself: an answered call has reached the phone.
LEMMA SendBacked ==
    ASSUME BInv, NEW r \in Runtimes, Send(r),
           UNCHANGED cancelling
    PROVE  BInv'
<1> DEFINE o == Oblig(r)
<1>1. /\ IInv /\ job[r].pc \in OnRecord /\ job[r].pc \in Working
      /\ UNCHANGED <<ledger, checkpoint, session>>
  BY DEF Send, At, Working, OnRecord, BInv
<1>2. /\ TypeOK' /\ Local(r) /\ o \in Obligations
      /\ delivered \in [Obligations -> Nat]
  BY <1>1, SendStep, AtWork, Shapes
<1>3. \/ UNCHANGED delivered /\ Goto(r, "lost")
      \/ delivered' = [delivered EXCEPT ![o] = @ + 1] /\ Goto(r, "answered")
  BY DEF Send
<1>4. \A p \in Obligations : delivered[p] > 0 => delivered'[p] > 0
  BY <1>2, <1>3
<1>5. LedgerAdvances
  BY <1>1, <1>4 DEF LedgerAdvances, LedgerSound, BInv
<1>6. RecordProven(ledger', checkpoint')
  BY <1>1 DEF BInv
<1>7. PICK pc \in {"lost", "answered"} :
          Goto(r, pc) /\ (pc = "answered" => delivered'[o] > 0)
  BY <1>2, <1>3
<1> QED
  BY <1>1, <1>2, <1>5, <1>6, <1>7, GoesBacked, LocalBacked DEF Working

\* What becomes of the answer.
LEMMA RespondBacked ==
    ASSUME BInv, NEW r \in Runtimes, Respond(r),
           UNCHANGED cancelling
    PROVE  BInv'
<1>1. /\ IInv /\ job[r].pc \in OnRecord /\ job[r].pc \in Working
      /\ UNCHANGED <<delivered, checkpoint>>
  BY DEF Respond, Working, OnRecord, BInv
<1>2. TypeOK' /\ Local(r)
  BY <1>1, RespondStep
<1>3. LedgerAdvances
  <2>1. CASE UNCHANGED ledger
    BY <1>1, <2>1, LedgerStill
  <2>2. CASE /\ At(r, "answered")
             /\ \/ MoveSucceeds(Oblig(r), "OBSERVING")
                \/ MoveFails(Oblig(r), "OBSERVING")
    BY <1>1, <2>2, MoveAdvances DEF ObligationStates, At, BInv, CallBacked
  <2> QED
    BY <2>1, <2>2 DEF Respond, Escapes
<1>4. {"verify", "unknown"} \subseteq OnRecord \ {"answered"}
  BY DEF OnRecord
<1>5. \/ EndRecoverable(r, evidence)
      \/ (Goto(r, "unknown") \/ Carry(r, "verify")) /\ UNCHANGED session
  BY DEF Respond, Escapes
<1>6. evidence \in [Runtimes -> Evidences]
  BY <1>1, ResultTyped
<1> QED
  BY <1>1, <1>2, <1>3, <1>4, <1>5, <1>6, MoveBacked

\* A verification that passes and is on record proves its step.
LEMMA VerifyBacked ==
    ASSUME BInv, NEW r \in Runtimes, Verify(r),
           UNCHANGED cancelling
    PROVE  BInv'
<1> DEFINE o == Oblig(r)
           t == job[r].step
<1>1. /\ IInv /\ job[r].pc \in OnRecord /\ job[r].pc \in Working
      /\ UNCHANGED <<delivered, checkpoint>>
  BY DEF Verify, At, Working, OnRecord, BInv
<1>2. /\ TypeOK' /\ Local(r) /\ TypeOK /\ t \in Steps /\ o \in Obligations
      /\ session[r] \in Sessions
  BY <1>1, VerifyStep, AtWork, WorkShapes
<1>3. LedgerAdvances
  <2>1. \/ UNCHANGED ledger
        \/ \E target \in {"VERIFIED", "FAILED"} :
               MoveSucceeds(o, target) \/ MoveFails(o, target)
    BY DEF Verify, Escapes
  <2> QED
    BY <1>1, <2>1, LedgerStill, MoveAdvances DEF ObligationStates
<1>4. CASE /\ MoveSucceeds(o, "VERIFIED")
           /\ evidence' = Keep(r, ledger'[o].state, TRUE)
           /\ Finish(r, Verified(session[r], t), evidence'[r])
  <2> DEFINE s == Verified(session[r], t)
  <2>0. evidence' \in [Runtimes -> Evidences]
    BY <1>1, <1>4, MoveStep DEF ObligationStates
  <2>1. evidence'[r] \in Evidences /\ s \in Sessions
    BY <1>2, <2>0, EndsTyped
  <2>2. ledger'[o].state = "VERIFIED"
    <3>1. /\ ledger \in Ledgers /\ EntryOk(ledger[o]) /\ ledger[o].state # "NONE"
          /\ ledger' = [ledger EXCEPT ![o] = AfterMove(@, "VERIFIED")]
          /\ MoveAccepted(ledger[o], "VERIFIED")
      BY <1>1, <1>2, <1>4, WorkShapes
         DEF BInv, LedgerSound, MoveSucceeds
    <3>2. AfterMove(ledger[o], "VERIFIED").state = "VERIFIED"
      BY <1>2, <3>1, MoveKeeps DEF Ledgers, ObligationStates, Settled
    <3> QED
      BY <1>2, <3>1, <3>2 DEF Ledgers
  <2>3. /\ s.rev = session[r].rev
        /\ \A u \in Steps \ {t} : s.steps[u] = session[r].steps[u]
    BY <1>2 DEF Verified, Sessions
  <2>4. SessionProven(ledger', session[r])
    BY <1>2, <1>3, ProvenStays DEF BInv
  <2> HIDE DEF s
  <2>5. SessionProven(ledger', s)
    BY <2>2, <2>3, <2>4 DEF SessionProven, Oblig
  <2>6. Finish(r, s, evidence'[r])
    BY <1>4 DEF s
  <2>7. /\ CallBacked(r)' /\ SessionProven(ledger', session'[r])
        /\ RecordProven(ledger', job'[r].view)
    BY <1>2, <2>1, <2>5, <2>6, FinishBacked
  <2>8. RecordProven(ledger', checkpoint')
    BY <1>1, <1>2, <1>3, ProvenStays, Shapes DEF BInv
  <2> QED
    BY <1>2, <1>3, <2>7, <2>8, LocalBacked
<1>5. CASE \/ Goto(r, "unknown") /\ UNCHANGED session
           \/ EndRecoverable(r, evidence) \/ EndFinal(r, evidence)
           \/ /\ MoveSucceeds(o, "FAILED")
              /\ EndRecoverable(r, Keep(r, ledger'[o].state, FALSE))
  <2>1. "unknown" \in OnRecord \ {"answered"} /\ "FAILED" \in ObligationStates
    BY DEF OnRecord, ObligationStates
  <2> QED
    BY <1>1, <1>2, <1>3, <1>5, <2>1, ResultTyped, MoveBacked
<1> QED
  BY <1>4, <1>5 DEF Verify, Escapes

LEMMA UnknownBacked ==
    ASSUME BInv, NEW r \in Runtimes, Unknown(r),
           UNCHANGED cancelling
    PROVE  BInv'
<1>1. /\ IInv /\ job[r].pc \in OnRecord /\ job[r].pc \in Working
      /\ UNCHANGED <<delivered, checkpoint>>
  BY DEF Unknown, At, Working, OnRecord, BInv, UnchangedByExecutor
<1>2. /\ TypeOK' /\ Local(r) /\ job[r].summary \in EvidenceStates
  BY <1>1, UnknownStep, AtWork, WorkShapes DEF Jobs
<1>3. "UNKNOWN_SIDE_EFFECT" \in ObligationStates \ {"CREATED"}
  BY DEF ObligationStates
<1>4. LedgerAdvances
  BY <1>1, <1>3, MoveAdvances DEF Unknown
<1>5. \E own \in [Runtimes -> Evidences] : EndUnknown(r, own)
  BY <1>1, <1>2, <1>3, ResultTyped DEF Unknown
<1> QED
  BY <1>1, <1>2, <1>4, <1>5, MoveBacked

-----------------------------------------------------------------------------
(* The stores, cancelling, replanning, crashing and recovering.              *)

LEMMA PutBacked ==
    ASSUME BInv, NEW r \in Runtimes, Put(r) \/ PutFails(r),
           UNCHANGED cancelling
    PROVE  BInv'
<1>1. /\ IInv /\ TypeOK /\ UNCHANGED <<ledger, delivered, session>>
      /\ RecordProven(ledger, checkpoint) /\ RecordProven(ledger, job[r].view)
      /\ checkpoint' \in {checkpoint, job[r].view}
      /\ SessionProven(ledger, session[r])
  BY DEF Put, PutFails, BInv, IInv
<1>2. TypeOK' /\ Local(r)
  BY <1>1, PutStep
<1> DEFINE claim == [AtRest EXCEPT !.pc = "claim", !.step = job[r].step]
<1>3. job'[r] \in {AtRest, claim}
  BY <1>1, WorkShapes DEF Put, PutFails
<1>4. /\ AtRest.pc = "idle" /\ AtRest.view = NoCheckpoint
      /\ claim.pc = "claim" /\ claim.view = NoCheckpoint
  BY DEF AtRest
<1> HIDE DEF claim
<1>5. RecordProven(ledger, NoCheckpoint)
  BY DEF RecordProven, NoCheckpoint, AbsentRecord, Absent
<1>6. CallBacked(r)'
  BY <1>3, <1>4 DEF CallBacked, OnRecord
<1> QED
  BY <1>1, <1>2, <1>3, <1>4, <1>5, <1>6, CalmStep

LEMMA CancelBacked ==
    ASSUME BInv, NEW r \in Runtimes, Cancel(r)
    PROVE  BInv'
<1> DEFINE s == CancelledSession(session[r])
<1>1. /\ IInv /\ TypeOK /\ session[r] \in Sessions /\ session \in [Runtimes -> Sessions]
      /\ UNCHANGED <<ledger, delivered, job, checkpoint>>
      /\ RecordProven(ledger, checkpoint) /\ RecordProven(ledger, job[r].view)
      /\ SessionProven(ledger, session[r])
      /\ cancelling \in [Runtimes -> Checkpoints]
  BY WorkShapes DEF Cancel, BInv, IInv
<1>2. TypeOK' /\ Local(r)
  BY <1>1, CancelStep
<1>3. /\ session'[r] = s
      /\ \E c \in {FromSession(s, evidence[r]), NoCheckpoint} :
             cancelling' = [cancelling EXCEPT ![r] = c]
  BY <1>1 DEF Cancel
<1>4. NoNewSuccess(session[r], s)
  BY <1>1 DEF NoNewSuccess, CancelledSession, Sessions
<1> HIDE DEF s
<1>5. SessionProven(ledger, s) /\ RecordProven(ledger, FromSession(s, evidence[r]))
  BY <1>1, <1>4, QuietProven, FromSessionProven
<1>8. \A q \in Runtimes : \/ cancelling'[q] \in {cancelling[q], NoCheckpoint}
                          \/ RecordProven(ledger', cancelling'[q])
  BY <1>1, <1>3, <1>5
<1>6. Oblig(r)' = Oblig(r)
  BY <1>1, <1>3, <1>4 DEF Oblig, NoNewSuccess
<1>7. CallBacked(r)'
  BY <1>1, <1>6 DEF CallBacked, BInv
<1> QED
  BY <1>1, <1>2, <1>3, <1>5, <1>7, <1>8, CalmStep

\* A cancellation's put writes what was proven when it was made.
LEMMA CancelPutBacked ==
    ASSUME BInv, NEW r \in Runtimes, CancelPut(r) \/ CancelPutFails(r)
    PROVE  BInv'
<1>1. /\ IInv /\ UNCHANGED <<ledger, delivered, session, job>>
      /\ checkpoint' \in {checkpoint, cancelling[r]}
      /\ cancelling' = [cancelling EXCEPT ![r] = NoCheckpoint]
      /\ cancelling \in [Runtimes -> Checkpoints]
  BY WorkShapes DEF CancelPut, CancelPutFails, BInv, IInv
<1>2. TypeOK' /\ Local(r)
  BY <1>1, CancelPutStep
<1>3. \A q \in Runtimes : cancelling'[q] \in {cancelling[q], NoCheckpoint}
  BY <1>1
<1>4. CallBacked(r)'
  BY <1>1 DEF CallBacked, Oblig, BInv
<1> QED
  BY <1>1, <1>2, <1>3, <1>4, CalmStep DEF BInv

\* The planner is asked.
LEMMA AskPlannerBacked ==
    ASSUME BInv, NEW r \in Runtimes, AskPlanner(r), UNCHANGED cancelling
    PROVE  BInv'
<1> DEFINE j == [AtRest EXCEPT !.pc = "planning"]
<1>1. /\ IInv /\ job \in [Runtimes -> Jobs]
      /\ UNCHANGED <<ledger, delivered, checkpoint, session>>
  BY WorkShapes DEF AskPlanner, UnchangedByCalls, BInv, IInv
<1>2. TypeOK' /\ Local(r)
  BY <1>1, AskPlannerStep
<1>3. job'[r] = j
  BY <1>1 DEF AskPlanner
<1>4. j.pc = "planning" /\ RecordProven(ledger, j.view)
  BY DEF AtRest, RecordProven, NoCheckpoint, AbsentRecord, Absent
<1> HIDE DEF j
<1>5. CallBacked(r)'
  BY <1>3, <1>4 DEF CallBacked, OnRecord
<1> QED
  BY <1>1, <1>2, <1>3, <1>4, <1>5, CalmStep DEF BInv

LEMMA ReplanBacked ==
    ASSUME BInv, NEW r \in Runtimes, Replan(r),
           UNCHANGED cancelling
    PROVE  BInv'
<1> DEFINE s == session[r]
           remaining == [t \in Steps |->
                            IF s.steps[t] \in {Absent, "VERIFIED"} THEN Absent
                            ELSE "PENDING"]
<1>1. /\ IInv /\ TypeOK /\ s \in Sessions /\ session \in [Runtimes -> Sessions]
      /\ job \in [Runtimes -> Jobs]
      /\ UNCHANGED <<ledger, delivered, checkpoint>>
      /\ RecordProven(ledger, checkpoint) /\ SessionProven(ledger, s)
  BY WorkShapes DEF Replan, UnchangedByCalls, BInv, IInv
<1>2. TypeOK' /\ Local(r)
  BY <1>1, ReplanStep
<1>3. PICK n :
          /\ \A t \in Steps : n.steps[t] = "VERIFIED" =>
                 n.rev = s.rev /\ s.steps[t] = "VERIFIED"
          /\ session' = [session EXCEPT ![r] = n]
          /\ job' = [job EXCEPT ![r] =
                 Saving(n, evidence[r], Owns(r, n), "put", 0)]
  <2>1. PICK n \in {[s EXCEPT !.status = "FAILED"], [s EXCEPT !.status = "BLOCKED"],
                    [s EXCEPT !.rev = @ + 1, !.status = "READY", !.failed = 0,
                              !.steps = remaining]} :
            /\ session' = [session EXCEPT ![r] = n]
            /\ job' = [job EXCEPT ![r] =
                   Saving(n, evidence[r], Owns(r, n), "put", 0)]
    BY DEF Replan
  <2>2. \A t \in Steps : remaining[t] # "VERIFIED"
    BY DEF Absent
  <2> HIDE DEF remaining
  <2>3. \A t \in Steps : n.steps[t] = "VERIFIED" =>
            n.rev = s.rev /\ s.steps[t] = "VERIFIED"
    BY <1>1, <2>1, <2>2 DEF Sessions
  <2> QED
    BY <2>1, <2>3
<1> DEFINE j == Saving(n, evidence[r], Owns(r, n), "put", 0)
<1>4. SessionProven(ledger, n)
  BY <1>1, <1>3 DEF SessionProven
<1>5. j.pc \in {"put", "idle"} /\ RecordProven(ledger, j.view)
  BY <1>4, SavingProven DEF Saving, AtRest
<1>6. session'[r] = n /\ job'[r] = j
  BY <1>1, <1>3
<1> HIDE DEF j
<1>7. CallBacked(r)'
  BY <1>5, <1>6 DEF CallBacked, OnRecord
<1> QED
  BY <1>1, <1>2, <1>4, <1>5, <1>6, <1>7, CalmStep

LEMMA CrashBacked ==
    ASSUME BInv, NEW r \in Runtimes, Crash(r)
    PROVE  BInv'
<1>1. /\ IInv /\ TypeOK /\ session \in [Runtimes -> Sessions]
      /\ job \in [Runtimes -> Jobs]
      /\ UNCHANGED <<ledger, delivered, checkpoint>>
      /\ RecordProven(ledger, checkpoint)
      /\ cancelling \in [Runtimes -> Checkpoints]
      /\ cancelling' = [cancelling EXCEPT ![r] = NoCheckpoint]
  BY WorkShapes DEF Crash, BInv, IInv
<1>2. TypeOK' /\ Local(r)
  BY <1>1, RestTyped, CrashStep
<1>6. \A q \in Runtimes : cancelling'[q] \in {cancelling[q], NoCheckpoint}
  BY <1>1
<1>3. session'[r] = NoSession /\ job'[r] = Down
  BY <1>1 DEF Crash
<1>4. Down.pc = "down" /\ RecordProven(ledger, Down.view)
      /\ SessionProven(ledger, NoSession)
  BY DEF Down, AtRest, RecordProven, NoCheckpoint, AbsentRecord, Absent,
         SessionProven, NoSession
<1>5. CallBacked(r)'
  BY <1>3, <1>4 DEF CallBacked, OnRecord
<1> QED
  BY <1>1, <1>2, <1>3, <1>4, <1>5, <1>6, CalmStep

\* Recovery up to its decision: only uncertain obligations are settled.
LEMMA RecoverBacked ==
    ASSUME BInv, NEW r \in Runtimes, RecoverRead(r) \/ Acquire(r),
           UNCHANGED cancelling
    PROVE  BInv'
<1>1. /\ IInv /\ TypeOK /\ session \in [Runtimes -> Sessions]
      /\ job \in [Runtimes -> Jobs]
      /\ UNCHANGED <<ledger, delivered, checkpoint, session>>
      /\ RecordProven(ledger, checkpoint) /\ SessionProven(ledger, session[r])
      /\ RecordProven(ledger, job[r].view)
  BY WorkShapes DEF RecoverRead, Acquire, BInv, IInv
<1>2. TypeOK' /\ Local(r)
  BY <1>1, RecoverReadStep, AcquireStep
<1>3. /\ job'[r].pc \in {"acquire", "reconcile", "idle"}
      /\ job'[r].view \in {checkpoint, job[r].view, NoCheckpoint}
  <2>1. CASE RecoverRead(r)
    BY <1>1, <2>1 DEF RecoverRead, AtRest
  <2>2. CASE Acquire(r)
    <3>1. \/ job' = [job EXCEPT ![r] = AtRest]
          \/ job' = [job EXCEPT ![r].pc = "reconcile", ![r].token = lease'.token]
      BY <2>2 DEF Acquire, GiveUp
    <3>2. job[r] \in Jobs
      BY <1>1
    <3> QED
      BY <1>1, <3>1, <3>2 DEF AtRest, Jobs
  <2> QED
    BY <2>1, <2>2
<1>4. RecordProven(ledger, NoCheckpoint)
  BY DEF RecordProven, NoCheckpoint, AbsentRecord, Absent
<1>5. CallBacked(r)'
  BY <1>3 DEF CallBacked, OnRecord
<1> QED
  BY <1>1, <1>2, <1>3, <1>4, <1>5, CalmStep

LEMMA ReconcileBacked ==
    ASSUME BInv, NEW r \in Runtimes, Reconcile(r),
           UNCHANGED cancelling
    PROVE  BInv'
<1>1. /\ IInv /\ TypeOK /\ session \in [Runtimes -> Sessions]
      /\ job \in [Runtimes -> Jobs] /\ ledger \in Ledgers
      /\ UNCHANGED <<delivered, checkpoint, session>>
      /\ session[r] \in Sessions /\ job[r].view \in Checkpoints
      /\ checkpoint \in Checkpoints
  BY WorkShapes, Shapes DEF Reconcile, BInv, IInv, Jobs
<1>2. TypeOK' /\ Local(r)
  BY <1>1, ReconcileStep
<1>3. LedgerAdvances
  <2>1. CASE UNCHANGED ledger
    BY <1>1, <2>1, LedgerStill
  <2>2. CASE ledger' = [o \in Obligations |->
                 IF ledger[o].state \in InFlight /\ r \notin reconciled
                 THEN [ledger[o] EXCEPT !.state = "UNKNOWN_SIDE_EFFECT"]
                 ELSE ledger[o]]
    <3>1. ASSUME NEW o \in Obligations
          PROVE  /\ EntryOk(ledger'[o])
                 /\ ledger'[o].state \in {ledger[o].state, "UNKNOWN_SIDE_EFFECT"}
                 /\ ledger[o].state = "VERIFIED" => ledger'[o] = ledger[o]
      <4>1. ledger[o] \in LedgerEntry /\ EntryOk(ledger[o])
        BY <1>1 DEF Ledgers, BInv, LedgerSound
      <4>2. CASE ledger[o].state \in InFlight /\ r \notin reconciled
        <5>1. /\ ledger'[o].state = "UNKNOWN_SIDE_EFFECT"
              /\ ledger'[o].applied = ledger[o].applied
          BY <2>2, <4>1, <4>2 DEF LedgerEntry
        <5>2. ledger[o].state \notin {"VERIFIED", "FAILED"}
          BY <4>2 DEF InFlight
        <5> QED
          BY <4>1, <5>1, <5>2 DEF EntryOk
      <4>3. CASE ~(ledger[o].state \in InFlight /\ r \notin reconciled)
        BY <2>2, <4>1, <4>3
      <4> QED
        BY <4>2, <4>3
    <3> QED
      BY <1>1, <3>1 DEF LedgerAdvances, LedgerSound, BInv
  <2> QED
    BY <2>1, <2>2 DEF Reconcile
<1>4. /\ job'[r].pc \in {"decide", "idle"}
      /\ job'[r].view \in {job[r].view, NoCheckpoint}
  <2>1. \/ job' = [job EXCEPT ![r] = AtRest] \/ job' = [job EXCEPT ![r].pc = "decide"]
    BY DEF Reconcile, GiveUp, Goto
  <2>2. job[r] \in Jobs
    BY <1>1
  <2> QED
    BY <1>1, <2>1, <2>2 DEF AtRest, Jobs
<1>5. /\ RecordProven(ledger', checkpoint') /\ SessionProven(ledger', session'[r])
      /\ RecordProven(ledger', job[r].view)
  BY <1>1, <1>3, ProvenStays DEF BInv
<1>6. RecordProven(ledger', NoCheckpoint)
  BY DEF RecordProven, NoCheckpoint, AbsentRecord, Absent
<1>7. CallBacked(r)'
  BY <1>4 DEF CallBacked, OnRecord
<1> QED
  BY <1>2, <1>3, <1>4, <1>5, <1>6, <1>7, LocalBacked

\* A recovery ends without a session, or installs one for the revision of the
\* checkpoint it read, whose VERIFIED steps the ledger confirms.
LEMMA DecideEnds ==
    ASSUME TypeOK, NEW r \in Runtimes, Decide(r)
    PROVE  LET c == job[r].view
           IN  \/ GiveUp(r) /\ UNCHANGED session
               \/ \E s : /\ Install(r, s) /\ s.on /\ s.rev = c.rev
                        /\ \A t \in Steps : s.steps[t] = "VERIFIED" =>
                               LedgerOf(c, t) = "VERIFIED" /\ Correlated(c, t)
<1> DEFINE c == job[r].view
           steps == [t \in Steps |-> RecoveredStep(c, t)]
           planned == {t \in Steps : c.steps[t].state # Absent}
           ready == Recovered(r, "READY", steps, 0)
           Sound(x) == \A t \in Steps : x[t] = "VERIFIED" =>
                           /\ t \in planned
                           /\ LedgerOf(c, t) = "VERIFIED"
<1>1. Sound(steps)
  <2>1. ASSUME NEW t \in Steps, RecoveredStep(c, t) = "VERIFIED"
        PROVE  t \in planned /\ LedgerOf(c, t) = "VERIFIED"
    BY <2>1 DEF RecoveredStep, Absent
  <2> QED
    BY <2>1
<1>2. steps \in [Steps -> StepStates \cup {Absent}]
  BY RecoveredStepTyped, WorkShapes DEF Jobs
<1> HIDE DEF steps, ready
<1>3. \/ GiveUp(r) /\ UNCHANGED session
      \/ /\ \A t \in planned : Correlated(c, t)
         /\ \E status \in Statuses : \E failed :
               Install(r, Recovered(r, status, steps, failed))
      \/ /\ \A t \in planned : Correlated(c, t)
         /\ ResumesOrNot(r, ready)
  BY DEF Decide, Statuses, steps, ready
<1>4. ASSUME NEW status, NEW failed
      PROVE  LET s == Recovered(r, status, steps, failed)
             IN  s.on /\ s.rev = c.rev /\ s.steps = steps
  BY DEF Recovered
<1>5. CASE ResumesOrNot(r, ready) /\ \A t \in planned : Correlated(c, t)
  <2> DEFINE u == NextStep(ready)
             waits == [ready EXCEPT !.steps[u] = "AWAITING_CONFIRMATION",
                                    !.status = "WAITING_CONFIRMATION"]
  <2>1. (GiveUp(r) /\ UNCHANGED session) \/ Install(r, waits) \/ Install(r, ready)
    BY <1>5 DEF ResumesOrNot
  <2>2. ready.on /\ ready.rev = c.rev /\ ready.steps = steps
    BY <1>4 DEF ready
  <2>3. /\ waits.on /\ waits.rev = c.rev
        /\ waits.steps = [steps EXCEPT ![u] = "AWAITING_CONFIRMATION"]
    BY <2>2 DEF ready, Recovered
  <2> HIDE DEF waits
  <2>4. Sound(waits.steps) /\ Sound(ready.steps)
    BY <1>1, <1>2, <2>2, <2>3
  <2> QED
    BY <1>5, <2>1, <2>2, <2>3, <2>4
<1>6. CASE /\ \A t \in planned : Correlated(c, t)
           /\ \E status \in Statuses : \E failed :
                  Install(r, Recovered(r, status, steps, failed))
  BY <1>1, <1>4, <1>6
<1> QED
  BY <1>3, <1>5, <1>6

LEMMA DecideBacked ==
    ASSUME BInv, NEW r \in Runtimes, Decide(r),
           UNCHANGED cancelling
    PROVE  BInv'
<1> DEFINE c == job[r].view
<1>1. /\ IInv /\ TypeOK /\ session \in [Runtimes -> Sessions]
      /\ job \in [Runtimes -> Jobs] /\ evidence[r] \in Evidences
      /\ UNCHANGED <<ledger, delivered, checkpoint>>
      /\ RecordProven(ledger, checkpoint) /\ SessionProven(ledger, session[r])
  BY WorkShapes DEF Decide, UnchangedByCalls, BInv, IInv
<1>2. TypeOK' /\ Local(r)
  BY <1>1, DecideStep
<1>3. CASE GiveUp(r) /\ UNCHANGED session
  <2>1. job'[r] = AtRest /\ AtRest.pc = "idle" /\ RecordProven(ledger, AtRest.view)
    BY <1>1, <1>3 DEF GiveUp, AtRest, RecordProven, NoCheckpoint, AbsentRecord,
                      Absent
  <2> QED
    BY <1>1, <1>2, <1>3, <2>1, CalmStep DEF CallBacked, OnRecord
<1>4. ASSUME NEW s, Install(r, s), s.rev = c.rev,
             \A t \in Steps : s.steps[t] = "VERIFIED" =>
                 LedgerOf(c, t) = "VERIFIED" /\ Correlated(c, t)
      PROVE  BInv'
  <2> DEFINE j == Saving(s, evidence[r], Holds(r, s), "put", 0)
  <2>1. SessionProven(ledger, s)
    <3>1. ASSUME NEW t \in Steps, s.steps[t] = "VERIFIED"
          PROVE  ledger[<<s.rev, t>>].state = "VERIFIED"
      BY <1>4, <3>1 DEF LedgerOf, Correlated, NotCreated
    <3> QED
      BY <3>1 DEF SessionProven
  <2>2. j.pc \in {"put", "idle"} /\ RecordProven(ledger, j.view)
    BY <2>1, SavingProven DEF Saving, AtRest
  <2>3. session'[r] = s /\ job'[r] = j
    BY <1>1, <1>4 DEF Install
  <2> HIDE DEF j
  <2> QED
    BY <1>1, <1>2, <2>1, <2>2, <2>3, CalmStep DEF CallBacked, OnRecord
<1> QED
  BY <1>1, <1>3, <1>4, DecideEnds

LEMMA AdmitBacked ==
    ASSUME BInv, Admit,
           UNCHANGED cancelling
    PROVE  BInv'
<1> DEFINE s == [NoSession EXCEPT !.on = TRUE,
                                  !.steps = [t \in Steps |-> "PENDING"]]
<1>0. First \in Runtimes
  BY PlanAssumption
<1>1. /\ IInv /\ TypeOK /\ session \in [Runtimes -> Sessions]
      /\ UNCHANGED <<ledger, delivered, job>>
      /\ RecordProven(ledger, job[First].view) /\ job[First] = AtRest
  BY <1>0, WorkShapes DEF Admit, BInv, IInv
<1>2. TypeOK' /\ Local(First)
  BY <1>1, AdmitStep
<1>3. SessionProven(ledger, s)
  BY DEF SessionProven, NoSession
<1>4. session'[First] = s /\ checkpoint' = FromSession(s, evidence[First])
  BY <1>0, <1>1 DEF Admit
<1> HIDE DEF s
<1>5. AtRest.pc = "idle"
  BY DEF AtRest
<1> QED
  BY <1>0, <1>1, <1>2, <1>3, <1>4, <1>5, FromSessionProven, CalmStep
     DEF CallBacked, OnRecord

LEMMA BackedInit == Init => BInv
<1> SUFFICES ASSUME Init
             PROVE  BInv
  OBVIOUS
<1>1. IInv
  BY InitEstablishes
<1>2. LedgerSound
  BY DEF Init, LedgerSound, EntryOk
<1>3. RecordProven(ledger, NoCheckpoint) /\ SessionProven(ledger, NoSession)
  BY DEF RecordProven, SessionProven, NoCheckpoint, NoSession, AbsentRecord, Absent
<1>4. \A r \in Runtimes : job[r] = AtRest /\ session[r] = NoSession
  BY DEF Init
<1>5. AtRest.pc = "idle" /\ AtRest.view = NoCheckpoint
  BY DEF AtRest
<1>6. checkpoint = NoCheckpoint /\ \A r \in Runtimes : cancelling[r] = NoCheckpoint
  BY DEF Init
<1> QED
  BY <1>1, <1>2, <1>3, <1>4, <1>5, <1>6 DEF BInv, CallBacked, OnRecord

\* Every step of the system preserves the first layer.
LEMMA BackedStep == BInv /\ [Next]_vars => BInv'
<1> SUFFICES ASSUME BInv, [Next]_vars
             PROVE  BInv'
  OBVIOUS
<1>1. IInv'
  BY StepPreserves DEF BInv
<1>2. CASE UNCHANGED <<ledger, delivered, checkpoint, session, job, cancelling>>
  BY <1>1, <1>2 DEF BInv, LedgerSound, RecordProven, CallBacked, SessionProven,
                    Oblig
<1>3. CASE ExpireLease /\ UNCHANGED cancelling
  BY <1>2, <1>3 DEF ExpireLease
<1>4. ASSUME NEW r \in Runtimes, Execute(r), UNCHANGED cancelling
      PROVE  BInv'
  BY <1>4, ClaimBacked, CreateBacked, AuthorizeBacked, SendBacked, RespondBacked,
     VerifyBacked, UnknownBacked DEF Execute
<1>5. ASSUME NEW r \in Runtimes, Recover(r), UNCHANGED cancelling
      PROVE  BInv'
  BY <1>5, RecoverBacked, ReconcileBacked, DecideBacked DEF Recover
<1>6. ASSUME NEW r \in Runtimes, Proceed(r), UNCHANGED cancelling
      PROVE  BInv'
  BY <1>4, <1>5, <1>6, RunBacked, PutBacked, AskPlannerBacked, ReplanBacked
     DEF Proceed
<1>7. ASSUME NEW r \in Runtimes, Withdraw(r) \/ Crash(r)
      PROVE  BInv'
  BY <1>7, CancelBacked, CancelPutBacked, CrashBacked DEF Withdraw
<1> QED
  BY <1>2, <1>3, <1>6, <1>7, AdmitBacked DEF Next, vars

\* The first layer is an invariant.
LEMMA Backed == Spec => []BInv
  BY BackedInit, BackedStep, PTL DEF Spec

\* DynamicPlanRecoveryCheckpoint writes VERIFIED, and so DONE, only for a step
\* whose obligation is VERIFIED in the ledger and whose call the phone received,
\* through crashes, storage errors, cancellations and runtimes that overlap.
THEOREM GovernedDurableSuccess == Spec => []DurableSuccess
<1>1. BInv => DurableSuccess
  <2> SUFFICES ASSUME BInv, NEW t \in Steps, checkpoint.steps[t].state = "VERIFIED"
               PROVE  /\ ledger[<<checkpoint.rev, t>>].state = "VERIFIED"
                      /\ delivered[<<checkpoint.rev, t>>] > 0
    BY DEF DurableSuccess
  <2>1. <<checkpoint.rev, t>> \in Obligations
    BY Shapes DEF BInv, IInv, Checkpoints, Obligations
  <2> QED
    BY <2>1 DEF BInv, RecordProven, LedgerSound
<1> QED
  BY <1>1, Backed, PTL

-----------------------------------------------------------------------------
(* The second layer: while recoveries do not begin beside a live runtime, at *)
(* most one runtime has a session or is recovering, so that nobody touches   *)
(* the obligation a call is working on, and a call that is about to be sent  *)
(* was not sent before.                                                      *)

\* So has a call under way, or a cancellation that has yet to be put.
HasSession(r) ==
    job[r].pc \notin Recovering \cup {"idle", "down"} \/ cancelling[r].on
        => session[r].on

ViewShown(r) == job[r].pc \in {"put", "putBefore"} => job[r].view.on

Alone == \A p, q \in Runtimes : Involved(p) /\ Involved(q) => p = q

\* The calls whose next step relies on the ledger.
Delicate == {"authorize", "dispatch", "send", "answered", "lost", "verify"}

InTune(r) ==
    /\ job[r].pc = "authorize" => ledger[Oblig(r)].state = "CREATED"
    /\ job[r].pc = "dispatch" => ledger[Oblig(r)].state = "AUTHORIZED"
    /\ job[r].pc \in {"send", "answered", "lost"} =>
           ledger[Oblig(r)].state = "DISPATCHED"
    /\ job[r].pc = "verify" => ledger[Oblig(r)].state = "OBSERVING"
    /\ job[r].pc = "send" => delivered[Oblig(r)] = 0

SentOnce == \A o \in Obligations : delivered[o] <= 1

SInv ==
    /\ BInv
    /\ \A r \in Runtimes : HasSession(r) /\ ViewShown(r)
    /\ ~history.overlap => Alone /\ SentOnce /\ \A r \in Runtimes : InTune(r)

\* Whoever has a session or is recovering finds a checkpoint, as long as none
\* is deleted.
Present == (\E r \in Runtimes : Involved(r)) \/ Sent # {} => checkpoint.on

OInv == SInv /\ Present

\* What a step of r must leave behind for the layer to survive it.
LEMMA AloneKeeps ==
    ASSUME SInv, BInv', NEW r \in Runtimes, Others(r),
           \A q \in Runtimes \ {r} : cancelling'[q] = cancelling[q],
           ~history'.overlap => /\ ~history.overlap
                                /\ \A q \in Runtimes \ {r} : ~Involved(q)
                                /\ SentOnce' /\ InTune(r)',
           HasSession(r)', ViewShown(r)'
    PROVE  SInv'
<1>1. ASSUME NEW q \in Runtimes \ {r}
      PROVE  /\ HasSession(q)' /\ ViewShown(q)' /\ Involved(q)' = Involved(q)
             /\ ~Involved(q) => InTune(q)'
  <2>1. job'[q] = job[q] /\ session'[q] = session[q] /\ cancelling'[q] = cancelling[q]
    BY DEF Others
  <2>2. HasSession(q) /\ ViewShown(q)
    BY DEF SInv
  <2>3. Involved(q)' = Involved(q)
    BY <2>1 DEF Involved
  <2>4. ~Involved(q) => job[q].pc \notin Delicate
    BY <2>2 DEF Involved, HasSession, Delicate
  <2> QED
    BY <2>1, <2>2, <2>3, <2>4 DEF HasSession, ViewShown, InTune, Delicate
<1>2. \A q \in Runtimes : HasSession(q)' /\ ViewShown(q)'
  BY <1>1
<1>3. ~history'.overlap => Alone' /\ \A q \in Runtimes : InTune(q)'
  BY <1>1 DEF Alone
<1> QED
  BY <1>2, <1>3 DEF SInv

\* A step of a runtime that was involved already.
LEMMA InvolvedKeeps ==
    ASSUME SInv, BInv', NEW r \in Runtimes, Others(r), Involved(r),
           \A q \in Runtimes \ {r} : cancelling'[q] = cancelling[q],
           history'.overlap = history.overlap,
           HasSession(r)', ViewShown(r)',
           ~history.overlap => SentOnce' /\ InTune(r)'
    PROVE  SInv'
<1>1. ~history.overlap => \A q \in Runtimes \ {r} : ~Involved(q)
  BY DEF SInv, Alone
<1> QED
  BY <1>1, AloneKeeps

\* One that relies on nothing afterwards.
LEMMA CalmKeeps ==
    ASSUME SInv, BInv', NEW r \in Runtimes, Others(r), Involved(r),
           \A q \in Runtimes \ {r} : cancelling'[q] = cancelling[q],
           UNCHANGED delivered, history'.overlap = history.overlap,
           HasSession(r)', ViewShown(r)', job'[r].pc \notin Delicate
    PROVE  SInv'
<1>1. InTune(r)'
  BY DEF InTune, Delicate
<1>2. SentOnce => SentOnce'
  BY DEF SentOnce
<1> QED
  BY <1>1, <1>2, InvolvedKeeps DEF SInv

\* Session updates leave the session in place, and checkpoints are of one.
LEMMA EndsStay ==
    ASSUME NEW s \in Sessions, NEW t
    PROVE  /\ Replanned(s, t).on = s.on
           /\ Blocked(s, t).on = s.on
           /\ FailedForGood(s, t).on = s.on
           /\ Verified(s, t).on = s.on
           /\ CancelledSession(s).on = s.on
<1>1. Replanned(s, t).on = s.on /\ Blocked(s, t).on = s.on
  BY DEF Replanned, Blocked, Sessions
<1>2. FailedForGood(s, t).on = s.on
  BY DEF FailedForGood, Sessions
<1>3. Verified(s, t).on = s.on
  BY DEF Verified, Sessions
<1>4. CancelledSession(s).on = s.on
  BY DEF CancelledSession, Sessions
<1> QED
  BY <1>1, <1>2, <1>3, <1>4

LEMMA SavingShown ==
    ASSUME NEW s, NEW own, NEW allowed, NEW next, NEW t, next # "idle"
    PROVE  LET j == Saving(s, own, allowed, next, t)
           IN  /\ j.pc \in {next, "idle"}
               /\ j.pc = next => j.view.on
  BY DEF Saving, AtRest, FromSession

\* A call that ends with a session.
LEMMA FinishShown ==
    ASSUME TypeOK, NEW r \in Runtimes, NEW s, NEW own, Finish(r, s, own), s.on
    PROVE  HasSession(r)' /\ ViewShown(r)' /\ job'[r].pc \notin Delicate
<1> DEFINE j == Saving(s, own, Holds(r, s), "put", 0)
<1>1. j.pc \in {"put", "idle"} /\ (j.pc = "put" => j.view.on)
  BY SavingShown
<1>2. session' = [session EXCEPT ![r] = s] /\ job' = [job EXCEPT ![r] = j]
  BY DEF Finish
<1> HIDE DEF j
<1>3. session'[r] = s /\ job'[r] = j
  BY <1>2, WorkShapes
<1> QED
  BY <1>1, <1>3 DEF HasSession, ViewShown, Delicate

\* run_dynamic_step up to the executor.
LEMMA RunOnce ==
    ASSUME SInv, BInv', NEW r \in Runtimes, Run(r),
           UNCHANGED cancelling
    PROVE  SInv'
<1>1. /\ IInv /\ TypeOK /\ session[r] \in Sessions
      /\ session \in [Runtimes -> Sessions] /\ job \in [Runtimes -> Jobs]
      /\ HasSession(r) /\ ViewShown(r)
  BY WorkShapes DEF SInv, BInv, IInv
<1>2. Others(r)
  BY <1>1, RunEndsStep, RunAllowedStep, BeforeExecutionStep DEF Run, Local
<1>3. UNCHANGED <<delivered, history, checkpoint>>
  BY DEF Run, RunFenced, RunRefused, RunNothing, RunUnbound, RunUnauthorized,
         RunAllowed, RunLosesLease, BeforeExecution, UnchangedByCalls
<1>4. session[r].on
  <2>1. MayCall(r) \/ job[r].pc = "risked"
    BY DEF Run, RunFenced, RunRefused, RunNothing, RunUnbound, RunUnauthorized,
           RunAllowed, RunLosesLease, BeforeExecution, MayRun
  <2> QED
    BY <1>1, <2>1 DEF MayCall, HasSession, Recovering
<1>5. Involved(r)
  BY <1>4 DEF Involved
<1>6. ASSUME HasSession(r)', ViewShown(r)', job'[r].pc \notin Delicate
      PROVE  SInv'
  BY <1>2, <1>3, <1>5, <1>6, CalmKeeps
<1>7. ASSUME NEW s, Finish(r, s, evidence[r]), s.on
      PROVE  SInv'
  BY <1>1, <1>6, <1>7, FinishShown
<1>8. ASSUME session'[r].on, job'[r].pc \in {"idle", "risked"}
      PROVE  SInv'
  BY <1>6, <1>8 DEF HasSession, ViewShown, Delicate
<1>9. AtRest.pc = "idle"
  BY DEF AtRest
<1>10. ASSUME NEW t, NEW state, NEW status
       PROVE  /\ [session[r] EXCEPT !.status = status].on
              /\ [session[r] EXCEPT !.steps[t] = state, !.status = status].on
              /\ [session[r] EXCEPT !.steps[t] = state].on
              /\ Replanned(session[r], t).on /\ Blocked(session[r], t).on
              /\ [Blocked(session[r], t) EXCEPT !.status = status].on
  <2>1. [Blocked(session[r], t) EXCEPT !.status = status].on
    BY <1>1, <1>4 DEF Blocked, Sessions
  <2> QED
    BY <1>1, <1>4, <2>1, EndsStay DEF Sessions
<1>11. CASE RunFenced(r)
  <2>1. session'[r] = [session[r] EXCEPT !.status = "BLOCKED"] /\ job'[r] = AtRest
    BY <1>1, <1>11 DEF RunFenced, MayCall
  <2> QED
    BY <1>8, <1>9, <1>10, <2>1
<1>12. CASE RunRefused(r)
  BY <1>4, <1>7, <1>12 DEF RunRefused
<1>13. CASE RunNothing(r)
  BY <1>4, <1>7, <1>10, <1>13 DEF RunNothing
<1>14. CASE RunUnbound(r)
  BY <1>7, <1>10, <1>14 DEF RunUnbound
<1>15. CASE RunUnauthorized(r)
  BY <1>7, <1>10, <1>15 DEF RunUnauthorized
<1>16. CASE RunAllowed(r)
  <2> DEFINE t == NextStep(session[r])
  <2>1. /\ session'[r] = [session[r] EXCEPT !.steps[t] = "AWAITING_RISK",
                                           !.status = "RUNNING"]
        /\ job'[r] = [AtRest EXCEPT !.pc = "risked", !.step = t]
    BY <1>1, <1>16 DEF RunAllowed
  <2>2. [AtRest EXCEPT !.pc = "risked", !.step = t].pc = "risked"
    BY DEF AtRest
  <2> QED
    BY <1>8, <1>10, <2>1, <2>2
<1>17. CASE RunLosesLease(r)
  <2>1. session'[r] = Blocked(session[r], job[r].step) /\ job'[r] = AtRest
    BY <1>1, <1>17 DEF RunLosesLease
  <2> QED
    BY <1>8, <1>9, <1>10, <2>1
<1>18. CASE BeforeExecution(r)
  <2> DEFINE t == job[r].step
             s == [session[r] EXCEPT !.steps[t] = "EXECUTING",
                                     !.token = IF @ = 0 THEN 0 ELSE lease'.token]
             j == Saving(s, evidence[r], s.token # 0 => ~lease'.expired,
                         "putBefore", t)
  <2>1. session'[r] = s /\ job'[r] = j
    BY <1>1, <1>18 DEF BeforeExecution
  <2>2. s.on /\ j.pc \in {"putBefore", "idle"} /\ (j.pc = "putBefore" => j.view.on)
    BY <1>10, SavingShown
  <2> HIDE DEF j, s
  <2> QED
    BY <1>6, <2>1, <2>2 DEF HasSession, ViewShown, Delicate
<1> QED
  BY <1>11, <1>12, <1>13, <1>14, <1>15, <1>16, <1>17, <1>18 DEF Run

\* A runtime at work has a session.
LEMMA WorkInvolved ==
    ASSUME SInv, NEW r \in Runtimes, job[r].pc \in Working
    PROVE  /\ IInv /\ TypeOK /\ session[r].on /\ Involved(r)
           /\ Oblig(r) \in Obligations /\ session[r] \in Sessions
           /\ ledger \in Ledgers /\ job \in [Runtimes -> Jobs]
<1>1. IInv /\ HasSession(r)
  BY DEF SInv, BInv
<1>2. session[r].on
  BY <1>1 DEF HasSession, Working, Recovering
<1> QED
  BY <1>1, <1>2, AtWork, WorkShapes DEF Involved

\* A call that ends.
LEMMA EndsOnce ==
    ASSUME SInv, BInv', NEW r \in Runtimes, job[r].pc \in Working, Others(r),
           UNCHANGED cancelling, UNCHANGED <<delivered, checkpoint>>, history'.overlap = history.overlap,
           NEW own,
           EndRecoverable(r, own) \/ EndFinal(r, own) \/ EndUnknown(r, own)
    PROVE  SInv'
<1>1. PICK s : Finish(r, s, own[r]) /\ s.on
  BY WorkInvolved, EndsStay DEF EndRecoverable, EndFinal, EndUnknown
<1>2. HasSession(r)' /\ ViewShown(r)' /\ job'[r].pc \notin Delicate
  BY <1>1, WorkInvolved, FinishShown
<1> QED
  BY <1>2, WorkInvolved, CalmKeeps

\* A call that goes on.
LEMMA GoesOnce ==
    ASSUME SInv, BInv', NEW r \in Runtimes, job[r].pc \in Working, Others(r),
           UNCHANGED cancelling, UNCHANGED <<session, checkpoint>>, history'.overlap = history.overlap,
           NEW pc \in Working \ {"putBefore"}, Goto(r, pc) \/ Carry(r, pc),
           ~history.overlap =>
               /\ SentOnce'
               /\ pc = "authorize" => ledger'[Oblig(r)].state = "CREATED"
               /\ pc = "dispatch" => ledger'[Oblig(r)].state = "AUTHORIZED"
               /\ pc \in {"send", "answered", "lost"} =>
                      ledger'[Oblig(r)].state = "DISPATCHED"
               /\ pc = "verify" => ledger'[Oblig(r)].state = "OBSERVING"
               /\ pc = "send" => delivered'[Oblig(r)] = 0
    PROVE  SInv'
<1>1. job'[r].pc = pc /\ job'[r].step = job[r].step
  BY WorkInvolved DEF Goto, Carry, Jobs
<1>2. Oblig(r)' = Oblig(r)
  BY <1>1 DEF Oblig
<1>3. HasSession(r)' /\ ViewShown(r)'
  BY <1>1, WorkInvolved DEF HasSession, ViewShown, Working
<1>4. ~history.overlap => InTune(r)'
  BY <1>1, <1>2 DEF InTune
<1> QED
  BY <1>3, <1>4, WorkInvolved, InvolvedKeeps

\* A first move from where a call relies on the ledger to be.
LEMMA MoveLeads ==
    ASSUME SInv, NEW r \in Runtimes, job[r].pc \in OnRecord,
           NEW target \in ObligationStates, MoveSucceeds(Oblig(r), target),
           LET from == ledger[Oblig(r)].state
           IN  \/ from = "CREATED" /\ target = "AUTHORIZED"
               \/ from = "AUTHORIZED" /\ target = "DISPATCHED"
               \/ from = "DISPATCHED" /\ target = "OBSERVING"
    PROVE  ledger'[Oblig(r)].state = target
<1> DEFINE o == Oblig(r)
           n == AfterMove(ledger[o], target)
<1>1. o \in Obligations /\ ledger \in Ledgers
  BY WorkInvolved DEF OnRecord, Working
<1>2. ledger[o] \in LedgerEntry /\ EntryOk(ledger[o]) /\ ledger[o].state # "NONE"
  BY <1>1 DEF SInv, BInv, CallBacked, LedgerSound, Ledgers
<1>3. MoveAccepted(ledger[o], target) /\ ledger' = [ledger EXCEPT ![o] = n]
  BY DEF MoveSucceeds
<1>4. n.state = target
  BY <1>2, <1>3, MoveKeeps
<1> HIDE DEF n
<1> QED
  BY <1>1, <1>3, <1>4 DEF Ledgers

\* The executor.
LEMMA ClaimOnce ==
    ASSUME SInv, BInv', NEW r \in Runtimes, Claim(r),
           UNCHANGED cancelling
    PROVE  SInv'
<1>1. /\ job[r].pc \in Working /\ UNCHANGED <<delivered, checkpoint, history>>
      /\ "create" \in Working
  BY DEF Claim, At, Working
<1>2. Others(r)
  BY <1>1, WorkInvolved, ClaimStep DEF Local
<1>3. ~history.overlap => SentOnce'
  BY <1>1 DEF SInv, SentOnce
<1> QED
  BY <1>1, <1>2, <1>3, EndsOnce, GoesOnce DEF Claim

LEMMA CreateOnce ==
    ASSUME SInv, BInv', NEW r \in Runtimes, Create(r),
           UNCHANGED cancelling
    PROVE  SInv'
<1> DEFINE o == Oblig(r)
<1>1. /\ job[r].pc \in Working /\ UNCHANGED <<delivered, checkpoint, history>>
      /\ "authorize" \in Working
  BY DEF Create, At, Working, UnchangedByExecutor
<1>2. Others(r)
  BY <1>1, WorkInvolved, CreateStep DEF Local
<1>3. ~history.overlap => SentOnce'
  BY <1>1 DEF SInv, SentOnce
<1>4. CASE /\ ledger' = [ledger EXCEPT ![o].state = "CREATED"]
           /\ Goto(r, "authorize") /\ UNCHANGED session
  <2>1. ledger'[o].state = "CREATED"
    BY <1>1, <1>4, WorkInvolved DEF Ledgers, LedgerEntry
  <2> QED
    BY <1>1, <1>2, <1>3, <1>4, <2>1, GoesOnce
<1> QED
  BY <1>1, <1>2, <1>4, EndsOnce DEF Create

LEMMA AuthorizeOnce ==
    ASSUME SInv, BInv', NEW r \in Runtimes, Authorize(r),
           UNCHANGED cancelling
    PROVE  SInv'
<1>1. /\ job[r].pc \in Working /\ UNCHANGED <<delivered, checkpoint, history>>
      /\ job[r].pc \in OnRecord /\ job[r].pc = "authorize"
      /\ "dispatch" \in Working
  BY DEF Authorize, At, Working, OnRecord, UnchangedByExecutor
<1>2. Others(r)
  BY <1>1, WorkInvolved, AuthorizeStep DEF Local
<1>3. ~history.overlap => SentOnce'
  BY <1>1 DEF SInv, SentOnce
<1>4. CASE /\ MoveSucceeds(Oblig(r), "AUTHORIZED") /\ Goto(r, "dispatch")
           /\ UNCHANGED session
  <2>1. ~history.overlap => ledger'[Oblig(r)].state = "AUTHORIZED"
    BY <1>1, <1>4, MoveLeads DEF SInv, InTune, ObligationStates
  <2> QED
    BY <1>1, <1>2, <1>3, <1>4, <2>1, GoesOnce
<1> QED
  BY <1>1, <1>2, <1>4, EndsOnce DEF Authorize, RecordsFailed

\* DISPATCHED can be recorded for the first time only before the call.
LEMMA DispatchOnce ==
    ASSUME SInv, BInv', NEW r \in Runtimes, Dispatch(r),
           UNCHANGED cancelling
    PROVE  SInv'
<1> DEFINE o == Oblig(r)
<1>1. /\ job[r].pc \in Working /\ UNCHANGED <<delivered, checkpoint, history>>
      /\ job[r].pc \in OnRecord /\ job[r].pc = "dispatch"
      /\ "send" \in Working
  BY DEF Dispatch, At, Working, OnRecord, UnchangedByExecutor
<1>2. Others(r)
  BY <1>1, WorkInvolved, DispatchStep DEF Local
<1>3. ~history.overlap => SentOnce'
  BY <1>1 DEF SInv, SentOnce
<1>4. CASE MoveSucceeds(o, "DISPATCHED") /\ Carry(r, "send") /\ UNCHANGED session
  <2>1. ASSUME ~history.overlap
        PROVE  ledger'[o].state = "DISPATCHED" /\ delivered'[o] = 0
    <3>1. ledger[o].state = "AUTHORIZED"
      BY <1>1, <2>1 DEF SInv, InTune
    <3>2. o \in Obligations /\ delivered[o] \in Nat
      BY <1>1, WorkInvolved, Shapes
    <3>3. "DISPATCHED" \notin ledger[o].applied
      BY <3>1, <3>2 DEF SInv, BInv, LedgerSound, EntryOk
    <3>4. ~(delivered[o] > 0)
      BY <3>2, <3>3 DEF SInv, BInv, IInv, WriteAhead, Sent
    <3> QED
      BY <1>1, <1>4, <3>1, <3>2, <3>4, MoveLeads DEF ObligationStates
  <2> QED
    BY <1>1, <1>2, <1>3, <1>4, <2>1, GoesOnce
<1> QED
  BY <1>1, <1>2, <1>4, EndsOnce DEF Dispatch, RecordsFailed

LEMMA SendOnce ==
    ASSUME SInv, BInv', NEW r \in Runtimes, Send(r),
           UNCHANGED cancelling
    PROVE  SInv'
<1> DEFINE o == Oblig(r)
<1>1. /\ job[r].pc \in Working /\ job[r].pc = "send"
      /\ UNCHANGED <<ledger, session, checkpoint, history>>
      /\ {"answered", "lost"} \subseteq Working \ {"putBefore"}
  BY DEF Send, At, Working
<1>2. Others(r)
  BY <1>1, WorkInvolved, SendStep DEF Local
<1>3. delivered \in [Obligations -> Nat] /\ o \in Obligations
  BY <1>1, WorkInvolved, Shapes
<1>4. ~history.overlap => SentOnce' /\ ledger'[o].state = "DISPATCHED"
  BY <1>1, <1>3 DEF Send, SInv, SentOnce, InTune
<1>5. PICK pc \in {"answered", "lost"} : Goto(r, pc)
  BY DEF Send
<1> QED
  BY <1>1, <1>2, <1>4, <1>5, GoesOnce

LEMMA RespondOnce ==
    ASSUME SInv, BInv', NEW r \in Runtimes, Respond(r),
           UNCHANGED cancelling
    PROVE  SInv'
<1>1. /\ job[r].pc \in Working /\ UNCHANGED <<delivered, checkpoint>>
      /\ job[r].pc \in OnRecord /\ job[r].pc \in {"answered", "lost"}
      /\ {"verify", "unknown"} \subseteq Working \ {"putBefore"}
  BY DEF Respond, Working, OnRecord
<1>2. Others(r) /\ history'.overlap = history.overlap
  BY <1>1, WorkInvolved, RespondStep, WorkShapes
     DEF Local, Respond, Escapes, Histories
<1>3. ~history.overlap => SentOnce'
  BY <1>1 DEF SInv, SentOnce
<1>4. CASE /\ MoveSucceeds(Oblig(r), "OBSERVING") /\ Carry(r, "verify")
           /\ UNCHANGED session
  <2>1. ~history.overlap => ledger'[Oblig(r)].state = "OBSERVING"
    BY <1>1, <1>4, MoveLeads DEF SInv, InTune, ObligationStates
  <2> QED
    BY <1>1, <1>2, <1>3, <1>4, <2>1, GoesOnce
<1>5. CASE Goto(r, "unknown") /\ UNCHANGED session
  BY <1>1, <1>2, <1>3, <1>5, GoesOnce
<1> QED
  BY <1>1, <1>2, <1>4, <1>5, EndsOnce DEF Respond, Escapes

LEMMA VerifyOnce ==
    ASSUME SInv, BInv', NEW r \in Runtimes, Verify(r) \/ Unknown(r),
           UNCHANGED cancelling
    PROVE  SInv'
<1>1. /\ job[r].pc \in Working /\ UNCHANGED <<delivered, checkpoint>>
      /\ "unknown" \in Working
  BY DEF Verify, Unknown, At, Working, UnchangedByExecutor
<1>2. Others(r) /\ history'.overlap = history.overlap
  BY <1>1, WorkInvolved, VerifyStep, UnknownStep, WorkShapes
     DEF Local, Verify, Unknown, Escapes, Histories, UnchangedByExecutor
<1>3. ~history.overlap => SentOnce'
  BY <1>1 DEF SInv, SentOnce
<1>4. CASE Finish(r, Verified(session[r], job[r].step), evidence'[r])
  BY <1>1, <1>2, <1>4, WorkInvolved, EndsStay, FinishShown, CalmKeeps
<1>5. CASE Goto(r, "unknown") /\ UNCHANGED session
  BY <1>1, <1>2, <1>3, <1>5, GoesOnce
<1> QED
  BY <1>1, <1>2, <1>4, <1>5, EndsOnce DEF Verify, Unknown, Escapes

\* The stores, cancelling, replanning, crashing and recovering.
LEMMA PutOnce ==
    ASSUME SInv, BInv', NEW r \in Runtimes, Put(r) \/ PutFails(r),
           UNCHANGED cancelling
    PROVE  SInv'
<1>1. /\ IInv /\ TypeOK /\ HasSession(r) /\ ViewShown(r)
      /\ job \in [Runtimes -> Jobs]
      /\ UNCHANGED <<delivered, session, history>>
  BY WorkShapes DEF Put, PutFails, SInv, BInv, IInv
<1>2. Others(r) /\ session[r].on
  BY <1>1, PutStep DEF Local, Put, PutFails, HasSession, Recovering
<1>3. job'[r].pc \in {"idle", "claim"}
  <2> DEFINE claim == [AtRest EXCEPT !.pc = "claim", !.step = job[r].step]
  <2>1. job'[r] \in {AtRest, claim}
    BY <1>1 DEF Put, PutFails
  <2>2. AtRest.pc = "idle" /\ claim.pc = "claim"
    BY DEF AtRest
  <2> QED
    BY <2>1, <2>2
<1>4. HasSession(r)' /\ ViewShown(r)' /\ job'[r].pc \notin Delicate
  BY <1>1, <1>2, <1>3 DEF HasSession, ViewShown, Delicate
<1> QED
  BY <1>1, <1>2, <1>4, CalmKeeps DEF Involved

LEMMA CancelOnce ==
    ASSUME SInv, BInv', NEW r \in Runtimes, Cancel(r)
    PROVE  SInv'
<1> DEFINE s == CancelledSession(session[r])
<1>1. /\ IInv /\ TypeOK /\ session[r] \in Sessions
      /\ session \in [Runtimes -> Sessions] /\ history \in Histories
      /\ UNCHANGED <<ledger, delivered, job>>
      /\ session[r].on /\ HasSession(r) /\ ViewShown(r)
  BY WorkShapes DEF Cancel, SInv, BInv, IInv
<1>2. Others(r)
  BY <1>1, CancelStep DEF Local
<1>3. /\ session'[r] = s /\ s.on /\ s.rev = session[r].rev
  BY <1>1, EndsStay DEF Cancel, CancelledSession, Sessions
<1>4. /\ history'.overlap = history.overlap
      /\ \A q \in Runtimes \ {r} : cancelling'[q] = cancelling[q]
  BY <1>1, Shapes DEF Cancel, Histories
<1> HIDE DEF s
<1>5. Oblig(r)' = Oblig(r)
  BY <1>1, <1>3 DEF Oblig
<1>6. HasSession(r)' /\ ViewShown(r)' /\ (InTune(r) => InTune(r)')
  BY <1>1, <1>3, <1>5 DEF HasSession, ViewShown, InTune
<1>7. SentOnce => SentOnce'
  BY <1>1 DEF SentOnce
<1> QED
  BY <1>1, <1>2, <1>4, <1>6, <1>7, InvolvedKeeps DEF SInv, Involved

\* Its put, and asking the planner, disturb no call.
LEMMA CancelPutOnce ==
    ASSUME SInv, BInv', NEW r \in Runtimes, CancelPut(r) \/ CancelPutFails(r)
    PROVE  SInv'
<1>1. /\ UNCHANGED <<ledger, delivered, session, job>>
      /\ history'.overlap = history.overlap
      /\ \A q \in Runtimes : cancelling'[q].on => cancelling[q].on
  BY WorkShapes DEF CancelPut, CancelPutFails, Histories, SInv, BInv, IInv, NoCheckpoint
<1> QED
  BY <1>1 DEF SInv, HasSession, ViewShown, Involved, Alone, SentOnce, InTune, Oblig

LEMMA AskPlannerOnce ==
    ASSUME SInv, BInv', NEW r \in Runtimes, AskPlanner(r), UNCHANGED cancelling
    PROVE  SInv'
<1>1. /\ IInv /\ job \in [Runtimes -> Jobs]
      /\ UNCHANGED <<delivered, checkpoint, session, history>>
      /\ session[r].on
  BY WorkShapes DEF AskPlanner, MayCall, UnchangedByCalls, SInv, BInv, IInv
<1>2. Others(r)
  BY <1>1, AskPlannerStep DEF Local
<1>3. job'[r].pc = "planning"
  BY <1>1 DEF AskPlanner, AtRest
<1>4. HasSession(r)' /\ ViewShown(r)' /\ job'[r].pc \notin Delicate
  BY <1>1, <1>3 DEF HasSession, ViewShown, Delicate
<1> QED
  BY <1>1, <1>2, <1>4, CalmKeeps DEF Involved

LEMMA ReplanOnce ==
    ASSUME SInv, BInv', NEW r \in Runtimes, Replan(r),
           UNCHANGED cancelling
    PROVE  SInv'
<1>1. /\ IInv /\ TypeOK /\ session[r] \in Sessions
      /\ session \in [Runtimes -> Sessions] /\ job \in [Runtimes -> Jobs]
      /\ UNCHANGED <<delivered, checkpoint, history>>
      /\ session[r].on
  BY WorkShapes DEF Replan, At, HasSession, Recovering, UnchangedByCalls, SInv,
                    BInv, IInv
<1>2. Others(r)
  BY <1>1, ReplanStep DEF Local
<1>3. PICK n :
          /\ n.on
          /\ session' = [session EXCEPT ![r] = n]
          /\ job' = [job EXCEPT ![r] =
                 Saving(n, evidence[r], Owns(r, n), "put", 0)]
  BY <1>1 DEF Replan, Sessions
<1> DEFINE j == Saving(n, evidence[r], Owns(r, n), "put", 0)
<1>4. j.pc \in {"put", "idle"} /\ (j.pc = "put" => j.view.on)
  BY SavingShown
<1>5. session'[r] = n /\ job'[r] = j
  BY <1>1, <1>3
<1> HIDE DEF j
<1>6. HasSession(r)' /\ ViewShown(r)' /\ job'[r].pc \notin Delicate
  BY <1>3, <1>4, <1>5 DEF HasSession, ViewShown, Delicate
<1> QED
  BY <1>1, <1>2, <1>6, CalmKeeps DEF Involved

\* A runtime that crashed works on nothing.
LEMMA CrashOnce ==
    ASSUME SInv, BInv', NEW r \in Runtimes, Crash(r)
    PROVE  SInv'
<1>1. /\ IInv /\ TypeOK /\ session \in [Runtimes -> Sessions]
      /\ job \in [Runtimes -> Jobs]
      /\ UNCHANGED <<ledger, delivered, checkpoint, history>>
  BY WorkShapes DEF Crash, SInv, BInv, IInv
<1>2. /\ \A q \in Runtimes \ {r} : /\ job'[q] = job[q] /\ session'[q] = session[q]
                                   /\ cancelling'[q] = cancelling[q]
      /\ job'[r].pc = "down" /\ ~session'[r].on /\ ~cancelling'[r].on
  BY <1>1, WorkShapes DEF Crash, Down, AtRest, NoSession, NoCheckpoint
<1>3. ASSUME NEW q \in Runtimes \ {r}
      PROVE  /\ HasSession(q)' /\ ViewShown(q)' /\ Involved(q)' = Involved(q)
             /\ InTune(q) => InTune(q)'
  BY <1>1, <1>2 DEF SInv, HasSession, ViewShown, Involved, InTune, Oblig
<1>4. HasSession(r)' /\ ViewShown(r)' /\ ~Involved(r)' /\ InTune(r)'
  BY <1>2 DEF HasSession, ViewShown, Involved, InTune, Recovering
<1>5. Alone => Alone'
  BY <1>3, <1>4 DEF Alone
<1>6. SentOnce => SentOnce'
  BY <1>1 DEF SentOnce
<1> QED
  BY <1>1, <1>3, <1>4, <1>5, <1>6 DEF SInv

\* A recovery that begins finds no other runtime involved, or is an overlap.
LEMMA RecoverReadOnce ==
    ASSUME SInv, BInv', NEW r \in Runtimes, RecoverRead(r),
           UNCHANGED cancelling
    PROVE  SInv'
<1>1. /\ IInv /\ TypeOK /\ job \in [Runtimes -> Jobs] /\ history \in Histories
      /\ UNCHANGED <<delivered, checkpoint, session>> /\ checkpoint.on
      /\ HasSession(r)
  BY WorkShapes DEF RecoverRead, SInv, BInv, IInv
<1>2. Others(r)
  BY <1>1, RecoverReadStep DEF Local
<1>3. job'[r].pc = "acquire"
  BY <1>1 DEF RecoverRead, AtRest
<1>4. HasSession(r)' /\ ViewShown(r)' /\ InTune(r)'
  BY <1>1, <1>3 DEF HasSession, ViewShown, InTune, Recovering
<1>5. ~history'.overlap => ~history.overlap /\ \A q \in Runtimes \ {r} : ~Involved(q)
  BY <1>1 DEF RecoverRead, Histories
<1>6. SentOnce => SentOnce'
  BY <1>1 DEF SentOnce
<1> QED
  BY <1>1, <1>2, <1>4, <1>5, <1>6, AloneKeeps DEF SInv

LEMMA AcquireOnce ==
    ASSUME SInv, BInv', NEW r \in Runtimes, Acquire(r) \/ Reconcile(r),
           UNCHANGED cancelling
    PROVE  SInv'
<1>1. /\ IInv /\ TypeOK /\ job \in [Runtimes -> Jobs]
      /\ UNCHANGED <<delivered, checkpoint, history, session>>
      /\ Involved(r) /\ HasSession(r)
  BY WorkShapes DEF Acquire, Reconcile, At, Involved, Recovering, SInv, BInv, IInv
<1>2. Others(r)
  BY <1>1, AcquireStep, ReconcileStep DEF Local
<1>3. job'[r].pc \in {"idle", "reconcile", "decide"}
  <2>1. \/ job' = [job EXCEPT ![r] = AtRest]
        \/ job' = [job EXCEPT ![r].pc = "reconcile", ![r].token = lease'.token]
        \/ job' = [job EXCEPT ![r].pc = "decide"]
    BY DEF Acquire, Reconcile, GiveUp, Goto
  <2>2. job[r] \in Jobs
    BY <1>1
  <2> QED
    BY <1>1, <2>1, <2>2 DEF AtRest, Jobs
<1>4. HasSession(r)' /\ ViewShown(r)' /\ job'[r].pc \notin Delicate
  BY <1>1, <1>3 DEF HasSession, ViewShown, Delicate, Recovering
<1> QED
  BY <1>1, <1>2, <1>4, CalmKeeps

LEMMA DecideOnce ==
    ASSUME SInv, BInv', NEW r \in Runtimes, Decide(r),
           UNCHANGED cancelling
    PROVE  SInv'
<1>1. /\ IInv /\ TypeOK /\ job \in [Runtimes -> Jobs]
      /\ UNCHANGED <<delivered, checkpoint, history>>
      /\ Involved(r) /\ HasSession(r)
  BY WorkShapes DEF Decide, At, Involved, Recovering, UnchangedByCalls, SInv,
                    BInv, IInv
<1>2. Others(r)
  BY <1>1, DecideStep DEF Local
<1>3. HasSession(r)' /\ ViewShown(r)' /\ job'[r].pc \notin Delicate
  <2>1. CASE GiveUp(r) /\ UNCHANGED session
    <3>1. job'[r].pc = "idle"
      BY <1>1, <2>1 DEF GiveUp, AtRest
    <3> QED
      BY <1>1, <2>1, <3>1 DEF HasSession, ViewShown, Delicate
  <2>2. ASSUME NEW s, Install(r, s), s.on
        PROVE  HasSession(r)' /\ ViewShown(r)' /\ job'[r].pc \notin Delicate
    BY <1>1, <2>2, FinishShown DEF Install, Finish
  <2> QED
    BY <1>1, <2>1, <2>2, DecideEnds
<1> QED
  BY <1>1, <1>2, <1>3, CalmKeeps

LEMMA AdmissionOnce ==
    ASSUME SInv, BInv', Present, Admit,
           UNCHANGED cancelling
    PROVE  SInv'
<1>0. First \in Runtimes
  BY PlanAssumption
<1>1. /\ IInv /\ TypeOK /\ session \in [Runtimes -> Sessions]
      /\ UNCHANGED <<delivered, job, history>>
      /\ ~checkpoint.on /\ job[First] = AtRest
      /\ session'[First].on
  BY <1>0, WorkShapes DEF Admit, SInv, BInv, IInv, NoSession
<1>2. Others(First)
  BY <1>1, AdmitStep DEF Local
<1>3. \A q \in Runtimes : ~Involved(q)
  BY <1>1 DEF Present
<1>4. job'[First].pc = "idle"
  BY <1>1 DEF AtRest
<1>5. HasSession(First)' /\ ViewShown(First)' /\ InTune(First)'
  BY <1>1, <1>4 DEF HasSession, ViewShown, InTune
<1>6. SentOnce => SentOnce'
  BY <1>1 DEF SentOnce
<1> QED
  BY <1>0, <1>1, <1>2, <1>3, <1>5, <1>6, AloneKeeps DEF SInv

\* Whoever goes on with a call or makes a new one has a session or is recovering.
LEMMA WhoActs ==
    ASSUME SInv, NEW r \in Runtimes,
           \/ Run(r) \/ Execute(r) \/ Put(r) \/ PutFails(r) \/ Cancel(r)
           \/ AskPlanner(r) \/ Replan(r)
           \/ Acquire(r) \/ Reconcile(r) \/ Decide(r)
    PROVE  Involved(r)
<1>1. \/ session[r].on
      \/ job[r].pc \in Recovering
      \/ job[r].pc \notin Recovering \cup {"idle", "down"}
  <2>1. Run(r) => MayCall(r) \/ job[r].pc = "risked"
    BY DEF Run, RunFenced, RunRefused, RunNothing, RunUnbound, RunUnauthorized,
           RunAllowed, RunLosesLease, BeforeExecution, MayRun
  <2>2. Execute(r) => job[r].pc \notin Recovering \cup {"idle", "down"}
    BY DEF Execute, Claim, Create, Authorize, Dispatch, Send, Respond, Verify,
           Unknown, At, Recovering
  <2>3. Put(r) \/ PutFails(r) => job[r].pc \notin Recovering \cup {"idle", "down"}
    BY DEF Put, PutFails, Recovering
  <2>4. Acquire(r) \/ Reconcile(r) \/ Decide(r) => job[r].pc \in Recovering
    BY DEF Acquire, Reconcile, Decide, At, Recovering
  <2> QED
    BY <2>1, <2>2, <2>3, <2>4
       DEF MayCall, Cancel, AskPlanner, Replan, At, Recovering
<1> QED
  BY <1>1 DEF SInv, HasSession, Involved

\* Every write of a checkpoint leaves one.
LEMMA PresentKept ==
    ASSUME SInv, Present, [Next]_vars
    PROVE  Present'
<1>0. session \in [Runtimes -> Sessions] /\ job \in [Runtimes -> Jobs]
  BY WorkShapes DEF SInv, BInv, IInv
<1>1. ASSUME NEW r \in Runtimes, Involved(r), checkpoint.on => checkpoint'.on
      PROVE  Present'
  BY <1>1 DEF Present
<1>2. ASSUME NEW r \in Runtimes, UNCHANGED checkpoint,
             \/ Run(r) \/ Execute(r) \/ PutFails(r)
             \/ AskPlanner(r) \/ Replan(r) \/ Cancel(r)
             \/ Acquire(r) \/ Reconcile(r) \/ Decide(r)
      PROVE  Present'
  BY <1>1, <1>2, WhoActs
<1>3. ASSUME NEW r \in Runtimes, Run(r)
      PROVE  UNCHANGED checkpoint
  BY <1>3
     DEF Run, RunFenced, RunRefused, RunNothing, RunUnbound, RunUnauthorized,
         RunAllowed, RunLosesLease, BeforeExecution, UnchangedByCalls
<1>4. ASSUME NEW r \in Runtimes, Execute(r)
      PROVE  UNCHANGED checkpoint
  BY <1>4
     DEF Execute, Claim, Create, Authorize, Dispatch, Send, Respond, Verify,
         Unknown, UnchangedByExecutor
<1>5. ASSUME NEW r \in Runtimes,
             \/ PutFails(r) \/ AskPlanner(r) \/ Replan(r) \/ Cancel(r)
             \/ Acquire(r) \/ Reconcile(r) \/ Decide(r)
      PROVE  UNCHANGED checkpoint
  BY <1>5 DEF PutFails, AskPlanner, Replan, Cancel, Acquire, Reconcile, Decide,
              UnchangedByCalls
<1>6. ASSUME NEW r \in Runtimes, Put(r)
      PROVE  Present'
  BY <1>1, <1>6, WhoActs DEF Put, SInv, ViewShown
<1>7. ASSUME NEW r \in Runtimes, CancelPut(r) \/ CancelPutFails(r)
      PROVE  Present'
  BY <1>7 DEF CancelPut, CancelPutFails, Present, Involved, Sent
<1>8. ASSUME NEW r \in Runtimes, Crash(r)
      PROVE  Present'
  <2>1. UNCHANGED <<checkpoint, delivered>> /\ ~Involved(r)'
    BY <1>0, <1>8 DEF Crash, Involved, Recovering, Down, AtRest, NoSession
  <2>2. \A q \in Runtimes \ {r} : Involved(q)' => Involved(q)
    BY <1>0, <1>8 DEF Crash, Involved
  <2> QED
    BY <2>1, <2>2 DEF Present, Sent
<1>9. ASSUME NEW r \in Runtimes, RecoverRead(r)
      PROVE  Present'
  BY <1>9 DEF RecoverRead, Present
<1>10. CASE Admit
  BY <1>10 DEF Admit, FromSession, Present
<1>11. CASE UNCHANGED <<session, job, checkpoint, delivered>>
  BY <1>11 DEF Present, Involved, Sent
<1>12. CASE ExpireLease
  BY <1>11, <1>12 DEF ExpireLease
<1> QED
  BY <1>2, <1>3, <1>4, <1>5, <1>6, <1>7, <1>8, <1>9, <1>10, <1>11, <1>12
     DEF Next, Proceed, Withdraw, vars, Recover

LEMMA OnceInit == Init => OInv
<1> SUFFICES ASSUME Init
             PROVE  OInv
  OBVIOUS
<1>1. BInv
  BY BackedInit
<1>2. \A r \in Runtimes : job[r].pc = "idle" /\ ~session[r].on /\ ~cancelling[r].on
  BY DEF Init, AtRest, NoSession, NoCheckpoint
<1>3. \A r \in Runtimes :
          HasSession(r) /\ ViewShown(r) /\ ~Involved(r) /\ InTune(r)
  BY <1>2 DEF HasSession, ViewShown, Involved, InTune, Recovering
<1>4. SentOnce /\ Sent = {}
  BY DEF Init, SentOnce, Sent
<1> QED
  BY <1>1, <1>3, <1>4 DEF OInv, SInv, Present, Alone

\* Every step but an admission.
Onward ==
    \/ ExpireLease /\ UNCHANGED cancelling
    \/ \E r \in Runtimes :
        \/ Proceed(r) /\ UNCHANGED cancelling
        \/ Withdraw(r)
        \/ Crash(r)

\* Every step of the system preserves the second layer; without the checkpoint
\* only a new admission could harm it.
LEMMA SoundStep ==
    ASSUME SInv, (Admit /\ UNCHANGED cancelling /\ Present) \/ [Onward]_vars
    PROVE  SInv'
<1>1. BInv'
  BY BackedStep DEF SInv, Onward, Next
<1>2. CASE UNCHANGED <<ledger, delivered, checkpoint, session, job, cancelling,
                       history>>
  BY <1>1, <1>2 DEF SInv, HasSession, ViewShown, Involved, Alone, SentOnce,
                    InTune, Oblig
<1>3. CASE ExpireLease /\ UNCHANGED cancelling
  BY <1>2, <1>3 DEF ExpireLease
<1>4. ASSUME NEW r \in Runtimes, Execute(r), UNCHANGED cancelling
      PROVE  SInv'
  BY <1>1, <1>4, ClaimOnce, CreateOnce, AuthorizeOnce, DispatchOnce, SendOnce,
     RespondOnce, VerifyOnce DEF Execute
<1>5. ASSUME NEW r \in Runtimes, Recover(r), UNCHANGED cancelling
      PROVE  SInv'
  BY <1>1, <1>5, RecoverReadOnce, AcquireOnce, DecideOnce DEF Recover
<1>6. ASSUME NEW r \in Runtimes, Proceed(r), UNCHANGED cancelling
      PROVE  SInv'
  BY <1>1, <1>4, <1>5, <1>6, RunOnce, PutOnce, AskPlannerOnce, ReplanOnce
     DEF Proceed
<1>7. ASSUME NEW r \in Runtimes, Withdraw(r) \/ Crash(r)
      PROVE  SInv'
  BY <1>1, <1>7, CancelOnce, CancelPutOnce, CrashOnce DEF Withdraw
<1> QED
  BY <1>1, <1>2, <1>3, <1>6, <1>7, AdmissionOnce DEF Onward, vars

LEMMA OnceStep == OInv /\ [Next]_vars => OInv'
  BY SoundStep, PresentKept DEF OInv, Next, Onward

\* The second layer is an invariant.
LEMMA Once == Spec => []OInv
  BY OnceInit, OnceStep, PTL DEF Spec

\* PlanExecutor.execute: whatever the crashes, restarts, storage errors and
\* cancellations, the call of one obligation reaches the phone at most once
\* while no recovery begins beside a live runtime.
THEOREM GovernedAtMostOnce == Spec => []AtMostOnce
<1>1. OInv => AtMostOnce
  BY DEF OInv, SInv, AtMostOnce, SentOnce
<1> QED
  BY <1>1, Once, PTL

\* Under the same condition the ledger state a call of the executor relies on
\* stays what that call made it, until the call itself moves on.
THEOREM GovernedUndisturbed == Spec => []LedgerUndisturbed
<1>1. OInv => LedgerUndisturbed
  BY DEF OInv, SInv, LedgerUndisturbed, InTune
<1> QED
  BY <1>1, Once, PTL

=============================================================================
