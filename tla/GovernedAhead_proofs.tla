------------------------ MODULE GovernedAhead_proofs ------------------------
(* What the durable checkpoint and a revised plan may rely on, while no      *)
(* recovery begins beside a live runtime and no cancellation puts its        *)
(* checkpoint late. First, its half of the write-ahead *)
(* rule: whatever the phone received is a step the checkpoint shows as begun,*)
(* unless the user withdrew it. Then, for chains of steps, that a revised    *)
(* plan repeats no call whose outcome is unknown.                            *)
EXTENDS GovernedExecution_proofs

-----------------------------------------------------------------------------
(* The invariant. D is what was sent, X the steps that were withdrawn.       *)

Early == {"PENDING", "AWAITING_RISK", "AWAITING_CONFIRMATION"}

\* A session, and a checkpoint, that shows all of D but X as begun or as past.
\* Whatever it calls CANCELLED was withdrawn.
SessionAhead(D, X, s) ==
    /\ \A o \in D \ X :
           s.rev > o[1] \/ (s.rev = o[1] /\ s.steps[o[2]] \notin Early)
    /\ \A t \in Steps : s.steps[t] = "CANCELLED" => <<s.rev, t>> \in X

RecordAhead(D, X, c) ==
    /\ \A o \in D \ X :
           c.rev > o[1] \/ (c.rev = o[1] /\ c.steps[o[2]].state \notin Early)
    /\ \A t \in Steps : c.steps[t].state = "CANCELLED" => <<c.rev, t>> \in X

Begun(c, o) == c.rev = o[1] /\ c.steps[o[2]].state \notin Early

\* From the BEFORE_EXECUTION checkpoint to the request.
Launched == {"claim", "create", "authorize", "dispatch", "send"}

Ahead(r) ==
    /\ session[r].on => SessionAhead(Sent, history.stopped, session[r])
    /\ job[r].pc \in Recovering \cup {"put", "putBefore"} =>
           RecordAhead(Sent, history.stopped, job[r].view)
    /\ job[r].pc \in Launched \cup {"putBefore"} =>
           session[r].steps[job[r].step] = "EXECUTING"
    /\ job[r].pc \in Launched /\ checkpoint.on => Begun(checkpoint, Oblig(r))
    /\ job[r].pc = "putBefore" => Begun(job[r].view, Oblig(r))

HInv ==
    /\ SInv
    /\ ~Disturbed =>
           /\ checkpoint.on => RecordAhead(Sent, history.stopped, checkpoint)
           /\ \A r \in Runtimes : Ahead(r)

\* While there is a checkpoint for whatever was sent.
AInv == HInv /\ Present

-----------------------------------------------------------------------------
(* Sessions and checkpoints.                                                 *)

\* The step _next_dynamic_step picks has not begun.
LEMMA NextStepEarly ==
    ASSUME NEW s, Candidates(s) # {}
    PROVE  NextStep(s) \in Steps /\ s.steps[NextStep(s)] \in Early
<1>1. Candidates(s) \in SUBSET Steps
  BY DEF Candidates, Confirming, Decided
<1>2. NextStep(s) \in Candidates(s)
  BY <1>1, FirstStepExists DEF NextStep
<1> QED
  BY <1>1, <1>2 DEF Candidates, Confirming, Decided, Early

\* An update that takes no step back to its beginning.
Settles(s, n) ==
    /\ n.rev = s.rev /\ n.on = s.on
    /\ \A t \in Steps :
        /\ n.steps[t] \in Early => s.steps[t] \in Early
        /\ n.steps[t] = "CANCELLED" => s.steps[t] = "CANCELLED"

LEMMA EndsSettle ==
    ASSUME NEW s \in Sessions, NEW t \in Steps, NEW status
    PROVE  /\ Settles(s, Replanned(s, t))
           /\ Settles(s, Blocked(s, t))
           /\ Settles(s, [Blocked(s, t) EXCEPT !.status = status])
           /\ Settles(s, FailedForGood(s, t))
           /\ Settles(s, Verified(s, t))
           /\ Settles(s, [s EXCEPT !.status = status])
           /\ Settles(s, [s EXCEPT !.steps[t] = "EXECUTING"])
<1> USE DEF Settles, Sessions, Early
<1>1. Settles(s, Replanned(s, t)) /\ Settles(s, Blocked(s, t))
  BY DEF Replanned, Blocked
<1>2. Settles(s, [Blocked(s, t) EXCEPT !.status = status])
  BY DEF Blocked
<1>3. Settles(s, FailedForGood(s, t))
  BY DEF FailedForGood
<1>4. Settles(s, Verified(s, t))
  BY DEF Verified
<1>5. Settles(s, [s EXCEPT !.status = status])
  OBVIOUS
<1>6. Settles(s, [s EXCEPT !.steps[t] = "EXECUTING"])
  OBVIOUS
<1> QED
  BY <1>1, <1>2, <1>3, <1>4, <1>5, <1>6

\* A step that has not begun may be asked about.
LEMMA AsksSettle ==
    ASSUME NEW s \in Sessions, NEW t \in Steps, s.steps[t] \in Early,
           NEW state \in Early, NEW status
    PROVE  Settles(s, [s EXCEPT !.steps[t] = state, !.status = status])
  BY DEF Settles, Sessions, Early

LEMMA SettledAhead ==
    ASSUME NEW D \in SUBSET Obligations, NEW X, NEW s, NEW n,
           Settles(s, n), SessionAhead(D, X, s)
    PROVE  SessionAhead(D, X, n)
<1>1. \A o \in D : o[2] \in Steps
  BY DEF Obligations
<1> QED
  BY <1>1 DEF Settles, SessionAhead

\* A checkpoint shows what its session shows.
LEMMA FromSessionStates ==
    ASSUME NEW s, NEW own, NEW t \in Steps
    PROVE  /\ FromSession(s, own).steps[t].state
                  \in {s.steps[t], "REPLAN_REQUIRED", Absent}
           /\ FromSession(s, own).rev = s.rev
           /\ s.steps[t] = "EXECUTING" =>
                  FromSession(s, own).steps[t].state = "EXECUTING"
<1> DEFINE c == FromSession(s, own)
<1>1. c.rev = s.rev
  BY DEF FromSession
<1>2. c.steps[t] = IF t \in InPlan(s) THEN StepRecord(s, own[<<s.rev, t>>], t)
                   ELSE AbsentRecord
  BY DEF FromSession
<1>3. StepRecord(s, own[<<s.rev, t>>], t).state
          \in {s.steps[t], "REPLAN_REQUIRED"}
  BY DEF StepRecord
<1>4. s.steps[t] = "EXECUTING" =>
          StepRecord(s, own[<<s.rev, t>>], t).state = "EXECUTING"
  BY DEF StepRecord
<1>5. AbsentRecord.state = Absent
  BY DEF AbsentRecord
<1>6. s.steps[t] = "EXECUTING" => t \in InPlan(s)
  BY DEF InPlan, Absent
<1> QED
  BY <1>1, <1>2, <1>3, <1>4, <1>5, <1>6

LEMMA FromSessionAhead ==
    ASSUME NEW D \in SUBSET Obligations, NEW X, NEW s, NEW own,
           SessionAhead(D, X, s)
    PROVE  RecordAhead(D, X, FromSession(s, own))
<1> DEFINE c == FromSession(s, own)
<1>1. \A t \in Steps : c.steps[t].state \in {s.steps[t], "REPLAN_REQUIRED", Absent}
  BY FromSessionStates
<1>2. c.rev = s.rev
  BY DEF FromSession
<1> HIDE DEF c
<1>3. \A t \in Steps : /\ s.steps[t] \notin Early => c.steps[t].state \notin Early
                       /\ c.steps[t].state = "CANCELLED" => s.steps[t] = "CANCELLED"
  BY <1>1 DEF Early, Absent
<1>4. \A o \in D : o[2] \in Steps
  BY DEF Obligations
<1>5. RecordAhead(D, X, c)
  BY <1>2, <1>3, <1>4 DEF SessionAhead, RecordAhead
<1> QED
  BY <1>5 DEF c

LEMMA SavingAhead ==
    ASSUME NEW D \in SUBSET Obligations, NEW X, NEW s, NEW own, NEW allowed,
           NEW next, NEW t, next # "idle", SessionAhead(D, X, s)
    PROVE  LET j == Saving(s, own, allowed, next, t)
           IN  /\ j.pc \in {next, "idle"}
               /\ j.pc = next => /\ RecordAhead(D, X, j.view)
                                 /\ j.view = FromSession(s, own)
                                 /\ j.step = t
<1>1. RecordAhead(D, X, FromSession(s, own))
  BY FromSessionAhead
<1> QED
  BY <1>1 DEF Saving, AtRest

\* Withdrawing more steps asks less of a checkpoint.
LEMMA MoreWithdrawn ==
    ASSUME NEW D, NEW X, NEW Y, X \subseteq Y
    PROVE  /\ \A s : SessionAhead(D, X, s) => SessionAhead(D, Y, s)
           /\ \A c : RecordAhead(D, X, c) => RecordAhead(D, Y, c)
  BY DEF SessionAhead, RecordAhead

LEMMA SentKnown == Sent \in SUBSET Obligations
  BY DEF Sent

-----------------------------------------------------------------------------
(* Steps of one runtime.                                                     *)

\* What a step of r must leave behind.
LEMMA AheadKeeps ==
    ASSUME HInv, SInv', NEW r \in Runtimes, Others(r),
           ~Disturbed' =>
               /\ \A q \in Runtimes \ {r} : ~Involved(q)
               /\ checkpoint'.on => RecordAhead(Sent', history'.stopped, checkpoint')
               /\ Ahead(r)'
    PROVE  HInv'
<1>1. ASSUME NEW q \in Runtimes \ {r}, ~Involved(q)
      PROVE  Ahead(q)'
  <2>1. job'[q] = job[q] /\ session'[q] = session[q] /\ HasSession(q)
    BY DEF Others, HInv, SInv
  <2>2. ~session[q].on /\ job[q].pc \in {"idle", "down"}
    BY <1>1, <2>1 DEF Involved, HasSession
  <2> QED
    BY <2>1, <2>2 DEF Ahead, Launched, Recovering
<1> QED
  BY <1>1 DEF HInv

\* The rest of the system while r is at work.
LEMMA ActsAlone ==
    ASSUME HInv, NEW r \in Runtimes, Involved(r)
    PROVE  ~Disturbed =>
               /\ \A q \in Runtimes \ {r} : ~Involved(q)
               /\ checkpoint.on => RecordAhead(Sent, history.stopped, checkpoint)
               /\ Ahead(r)
  BY DEF HInv, SInv, Alone, Disturbed

\* A step that sends and withdraws nothing.
LEMMA CalmAhead ==
    ASSUME HInv, SInv', NEW r \in Runtimes, Others(r), Involved(r),
           UNCHANGED delivered, Disturbed' = Disturbed,
           history'.stopped = history.stopped,
           ~Disturbed =>
               /\ checkpoint'.on => RecordAhead(Sent, history.stopped, checkpoint')
               /\ Ahead(r)'
    PROVE  HInv'
<1>1. Sent' = Sent
  BY DEF Sent
<1> QED
  BY <1>1, ActsAlone, AheadKeeps DEF Disturbed

\* A call that ends with a session that shows enough.
LEMMA FinishAhead ==
    ASSUME TypeOK, NEW r \in Runtimes, NEW s, NEW own, Finish(r, s, own),
           SessionAhead(Sent', history'.stopped, s)
    PROVE  Ahead(r)'
<1> DEFINE j == Saving(s, own, Holds(r, s), "put", 0)
<1>0. Sent' \in SUBSET Obligations
  BY DEF Sent
<1>1. /\ j.pc \in {"put", "idle"}
      /\ j.pc = "put" => RecordAhead(Sent', history'.stopped, j.view)
  BY <1>0, SavingAhead
<1>2. session' = [session EXCEPT ![r] = s] /\ job' = [job EXCEPT ![r] = j]
  BY DEF Finish
<1> HIDE DEF j
<1>3. session'[r] = s /\ job'[r] = j
  BY <1>2, WorkShapes
<1> QED
  BY <1>1, <1>3 DEF Ahead, Launched, Recovering

\* run_dynamic_step up to the executor.
LEMMA RunAhead ==
    ASSUME HInv, SInv', NEW r \in Runtimes, Run(r),
           UNCHANGED cancelling
    PROVE  HInv'
<1> DEFINE s == session[r]
           D == Sent
           X == history.stopped
           t == NextStep(s)
<1>1. /\ IInv /\ TypeOK /\ s \in Sessions /\ D \in SUBSET Obligations
      /\ session \in [Runtimes -> Sessions] /\ job \in [Runtimes -> Jobs]
      /\ HasSession(r)
  BY WorkShapes, SentKnown DEF HInv, SInv, BInv, IInv
<1>2. Others(r)
  BY <1>1, RunEndsStep, RunAllowedStep, BeforeExecutionStep DEF Run, Local
<1>3. UNCHANGED <<delivered, history, checkpoint>> /\ Sent' = D
  BY DEF Run, RunFenced, RunRefused, RunNothing, RunUnbound, RunUnauthorized,
         RunAllowed, RunLosesLease, BeforeExecution, UnchangedByCalls, Sent
<1>4. s.on
  <2>1. MayCall(r) \/ job[r].pc = "risked"
    BY DEF Run, RunFenced, RunRefused, RunNothing, RunUnbound, RunUnauthorized,
           RunAllowed, RunLosesLease, BeforeExecution, MayRun
  <2> QED
    BY <1>1, <2>1 DEF MayCall, HasSession, Recovering
<1>5. Involved(r)
  BY <1>4 DEF Involved
<1>6. ~Disturbed => SessionAhead(D, X, s)
  BY <1>4, <1>5, ActsAlone DEF Ahead
<1> HIDE DEF D
<1>7. ASSUME ~Disturbed => Ahead(r)'
      PROVE  HInv'
  BY <1>2, <1>3, <1>5, <1>7, ActsAlone, CalmAhead DEF D, Disturbed
<1>8. ASSUME NEW n, Settles(s, n), Finish(r, n, evidence[r])
      PROVE  HInv'
  <2>1. ~Disturbed => SessionAhead(Sent', history'.stopped, n)
    BY <1>1, <1>3, <1>6, <1>8, SettledAhead
  <2> QED
    BY <1>1, <1>7, <1>8, <2>1, FinishAhead
<1>9. ASSUME Settles(s, session'[r]), job'[r].pc \in {"idle", "risked"}
      PROVE  HInv'
  <2>1. ~Disturbed => SessionAhead(Sent', history'.stopped, session'[r])
    BY <1>1, <1>3, <1>6, <1>9, SettledAhead
  <2> QED
    BY <1>7, <1>9, <2>1 DEF Ahead, Launched, Recovering
<1>10. Candidates(s) # {} => t \in Steps /\ s.steps[t] \in Early
  BY NextStepEarly
<1>11. AtRest.pc = "idle" /\ Settles(s, s)
  BY DEF AtRest, Settles
<1>12. 1 \in Steps
  BY PlanAssumption DEF Steps
<1>13. CASE RunFenced(r)
  <2>1. session'[r] = [s EXCEPT !.status = "BLOCKED"] /\ job'[r] = AtRest
    BY <1>1, <1>13 DEF RunFenced, MayCall
  <2>2. Settles(s, [s EXCEPT !.status = "BLOCKED"])
    BY <1>1, <1>12, EndsSettle
  <2> QED
    BY <1>9, <1>11, <2>1, <2>2
<1>14. CASE RunRefused(r)
  BY <1>8, <1>11, <1>14 DEF RunRefused
<1>15. CASE RunNothing(r)
  <2>1. Candidates(s) # {} => Settles(s, Blocked(s, t))
    BY <1>1, <1>10, EndsSettle
  <2>2. Settles(s, [s EXCEPT !.status = "DONE"])
    BY <1>1, <1>12, EndsSettle
  <2> QED
    BY <1>8, <1>11, <1>15, <2>1, <2>2 DEF RunNothing
<1>16. CASE RunUnbound(r)
  <2>1. t \in Steps
    BY <1>10, <1>16 DEF RunUnbound, HasRunnable
  <2>2. /\ Settles(s, Replanned(s, t))
        /\ Settles(s, [Blocked(s, t) EXCEPT !.status = "FAILED"])
    BY <1>1, <2>1, EndsSettle
  <2> QED
    BY <1>8, <1>16, <2>2 DEF RunUnbound
<1>17. CASE RunUnauthorized(r)
  <2>1. t \in Steps /\ s.steps[t] \in Early
    BY <1>10, <1>17 DEF RunUnauthorized, HasRunnable
  <2>2. /\ Settles(s, Blocked(s, t))
        /\ Settles(s, [s EXCEPT !.steps[t] = "AWAITING_CONFIRMATION",
                                !.status = "WAITING_CONFIRMATION"])
    BY <1>1, <2>1, EndsSettle, AsksSettle DEF Early
  <2> QED
    BY <1>8, <1>17, <2>2 DEF RunUnauthorized
<1>18. CASE RunAllowed(r)
  <2>1. t \in Steps /\ s.steps[t] \in Early
    BY <1>10, <1>18 DEF RunAllowed, HasRunnable
  <2>2. /\ session'[r] = [s EXCEPT !.steps[t] = "AWAITING_RISK",
                                  !.status = "RUNNING"]
        /\ job'[r] = [AtRest EXCEPT !.pc = "risked", !.step = t]
    BY <1>1, <1>18 DEF RunAllowed
  <2>3. [AtRest EXCEPT !.pc = "risked", !.step = t].pc = "risked"
    BY DEF AtRest
  <2>4. Settles(s, [s EXCEPT !.steps[t] = "AWAITING_RISK", !.status = "RUNNING"])
    BY <1>1, <2>1, AsksSettle DEF Early
  <2> QED
    BY <1>9, <2>2, <2>3, <2>4
<1>19. CASE RunLosesLease(r)
  <2>1. job[r].step \in Steps
    BY <1>1, <1>19 DEF RunLosesLease, IInv, StepKnown, Working
  <2>2. session'[r] = Blocked(s, job[r].step) /\ job'[r] = AtRest
    BY <1>1, <1>19 DEF RunLosesLease
  <2> QED
    BY <1>1, <1>9, <1>11, <2>1, <2>2, EndsSettle
<1>20. CASE BeforeExecution(r)
  <2> DEFINE u == job[r].step
             n == [s EXCEPT !.steps[u] = "EXECUTING",
                            !.token = IF @ = 0 THEN 0 ELSE lease'.token]
             j == Saving(n, evidence[r], n.token # 0 => ~lease'.expired,
                         "putBefore", u)
  <2>1. u \in Steps
    BY <1>1, <1>20 DEF BeforeExecution, IInv, StepKnown, Working
  <2>2. session'[r] = n /\ job'[r] = j
    BY <1>1, <1>20 DEF BeforeExecution
  <2>3. Settles(s, n)
    BY <1>1, <2>1 DEF Settles, Sessions, Early
  <2>4. n.steps[u] = "EXECUTING" /\ n.rev = s.rev
    BY <1>1, <2>1 DEF Sessions
  <2> HIDE DEF n
  <2>5. ~Disturbed => SessionAhead(D, X, n)
    BY <1>1, <1>6, <2>3, SettledAhead
  <2>6. /\ j.pc \in {"putBefore", "idle"}
        /\ j.pc = "putBefore" => j.view = FromSession(n, evidence[r]) /\ j.step = u
    BY DEF Saving, AtRest
  <2>7. FromSession(n, evidence[r]).steps[u].state = "EXECUTING"
        /\ FromSession(n, evidence[r]).rev = n.rev
    BY <2>1, <2>4, FromSessionStates
  <2>8. SessionAhead(D, X, n) => RecordAhead(D, X, FromSession(n, evidence[r]))
    BY <1>1, FromSessionAhead
  <2> HIDE DEF j, u
  <2>9. job'[r].pc = "putBefore" => Begun(job'[r].view, Oblig(r)')
    BY <2>2, <2>4, <2>6, <2>7 DEF Begun, Oblig, Early
  <2>10. ~Disturbed => Ahead(r)'
    BY <1>3, <2>2, <2>4, <2>5, <2>6, <2>8, <2>9 DEF Ahead, Launched, Recovering
  <2> QED
    BY <1>7, <2>10
<1> QED
  BY <1>13, <1>14, <1>15, <1>16, <1>17, <1>18, <1>19, <1>20 DEF Run

-----------------------------------------------------------------------------
(* The executor.                                                             *)

\* A call that ends.
LEMMA EndsAhead ==
    ASSUME HInv, SInv', NEW r \in Runtimes, job[r].pc \in Working, Others(r),
           UNCHANGED <<delivered, checkpoint>>, Disturbed' = Disturbed,
           history'.stopped = history.stopped, NEW own,
           \/ EndRecoverable(r, own) \/ EndFinal(r, own) \/ EndUnknown(r, own)
           \/ Finish(r, Verified(session[r], job[r].step), own[r])
    PROVE  HInv'
<1>1. /\ TypeOK /\ session[r] \in Sessions /\ session[r].on /\ Involved(r)
      /\ job[r].step \in Steps
  BY WorkInvolved, AtWork DEF HInv, SInv
<1>2. PICK n : Finish(r, n, own[r]) /\ Settles(session[r], n)
  BY <1>1, EndsSettle DEF EndRecoverable, EndFinal, EndUnknown
<1>3. Sent' = Sent
  BY DEF Sent
<1>4. ~Disturbed => SessionAhead(Sent, history.stopped, session[r])
  BY <1>1, ActsAlone DEF Ahead
<1>5. ~Disturbed => SessionAhead(Sent', history'.stopped, n)
  BY <1>2, <1>3, <1>4, SettledAhead, SentKnown
<1>6. ~Disturbed => Ahead(r)'
  BY <1>1, <1>2, <1>5, FinishAhead
<1> QED
  BY <1>1, <1>6, ActsAlone, CalmAhead DEF Disturbed

\* A call that goes on without sending.
LEMMA GoesAhead ==
    ASSUME HInv, SInv', NEW r \in Runtimes, job[r].pc \in Working, Others(r),
           UNCHANGED <<delivered, checkpoint, session>>,
           Disturbed' = Disturbed,
           history'.stopped = history.stopped,
           NEW pc \in Working \ {"putBefore"}, Goto(r, pc) \/ Carry(r, pc),
           pc \in Launched => job[r].pc \in Launched
    PROVE  HInv'
<1>1. Involved(r) /\ job \in [Runtimes -> Jobs]
  BY WorkInvolved DEF HInv, SInv
<1>2. job'[r].pc = pc /\ job'[r].step = job[r].step
  BY <1>1 DEF Goto, Carry, Jobs
<1>3. Sent' = Sent
  BY DEF Sent
<1>4. Oblig(r)' = Oblig(r)
  BY <1>2 DEF Oblig
<1>5. pc \notin Recovering \cup {"put", "putBefore"}
  BY DEF Working, Recovering
<1>6. Ahead(r) => Ahead(r)'
  BY <1>2, <1>3, <1>4, <1>5 DEF Ahead
<1> QED
  BY <1>1, <1>6, ActsAlone, CalmAhead DEF Disturbed

\* Every step of the executor but the request.
LEMMA ExecuteAhead ==
    ASSUME HInv, SInv', NEW r \in Runtimes, Execute(r), ~Send(r),
           UNCHANGED cancelling
    PROVE  HInv'
<1>1. SInv /\ IInv
  BY DEF HInv, SInv, BInv
<1>2. job[r].pc \in Working /\ UNCHANGED <<delivered, checkpoint>>
  BY DEF Execute, Claim, Create, Authorize, Dispatch, Respond, Verify, Unknown,
         At, Working, UnchangedByExecutor
<1>3. Others(r)
  BY <1>1, ClaimStep, CreateStep, AuthorizeStep, DispatchStep, RespondStep,
     VerifyStep, UnknownStep DEF Execute, Local
<1>4. Disturbed' = Disturbed /\ history'.stopped = history.stopped
  <2>1. history \in Histories
    BY <1>1, <1>2, AtWork
  <2> QED
    BY <2>1 DEF Execute, Claim, Create, Authorize, Dispatch, Respond, Verify,
                Unknown, Escapes, UnchangedByExecutor, Histories, Disturbed
<1>5. ASSUME NEW own,
             \/ EndRecoverable(r, own) \/ EndFinal(r, own) \/ EndUnknown(r, own)
             \/ Finish(r, Verified(session[r], job[r].step), own[r])
      PROVE  HInv'
  BY <1>2, <1>3, <1>4, <1>5, EndsAhead
<1>6. ASSUME NEW pc \in {"create", "authorize", "dispatch", "send", "verify",
                         "unknown"},
             Goto(r, pc) \/ Carry(r, pc), UNCHANGED session,
             pc \in Launched => job[r].pc \in Launched
      PROVE  HInv'
  <2>1. pc \in Working \ {"putBefore"}
    BY DEF Working
  <2> QED
    BY <1>2, <1>3, <1>4, <1>6, <2>1, GoesAhead
<1>7. /\ {"claim", "create", "authorize", "dispatch"} \subseteq Launched
      /\ "verify" \notin Launched /\ "unknown" \notin Launched
  BY DEF Launched
<1>8. CASE Claim(r)
  BY <1>5, <1>6, <1>7, <1>8 DEF Claim, At
<1>9. CASE Create(r)
  BY <1>5, <1>6, <1>7, <1>9 DEF Create, At
<1>10. CASE Authorize(r)
  BY <1>5, <1>6, <1>7, <1>10 DEF Authorize, RecordsFailed, At
<1>11. CASE Dispatch(r)
  BY <1>5, <1>6, <1>7, <1>11 DEF Dispatch, RecordsFailed, At
<1>12. CASE Respond(r)
  BY <1>5, <1>6, <1>7, <1>12 DEF Respond, Escapes
<1>13. CASE Verify(r)
  BY <1>5, <1>6, <1>7, <1>13 DEF Verify, Escapes
<1>14. CASE Unknown(r)
  BY <1>5, <1>14 DEF Unknown
<1> QED
  BY <1>8, <1>9, <1>10, <1>11, <1>12, <1>13, <1>14 DEF Execute

\* The request: its step is EXECUTING, and on record as begun.
LEMMA SendAhead ==
    ASSUME HInv, SInv', NEW r \in Runtimes, Send(r),
           UNCHANGED cancelling
    PROVE  HInv'
<1> DEFINE o == Oblig(r)
           X == history.stopped
<1>1. /\ SInv /\ IInv /\ job[r].pc = "send" /\ job[r].pc \in Working
      /\ UNCHANGED <<ledger, checkpoint, session, history>>
  BY DEF Send, At, Working, HInv, SInv, BInv
<1>2. /\ Others(r) /\ Involved(r) /\ session[r].on /\ o \in Obligations
      /\ delivered \in [Obligations -> Nat] /\ job \in [Runtimes -> Jobs]
  BY <1>1, WorkInvolved, SendStep, Shapes DEF Local, HInv, SInv
<1>3. Sent' \subseteq Sent \cup {o}
  BY <1>2 DEF Send, Sent
<1>4. job'[r].pc \in {"answered", "lost"}
  BY <1>2 DEF Send, Goto, Jobs
<1>5. ASSUME ~Disturbed
      PROVE  /\ checkpoint.on => RecordAhead(Sent', X, checkpoint)
             /\ SessionAhead(Sent', X, session[r])
  <2>1. /\ checkpoint.on => RecordAhead(Sent, X, checkpoint) /\ Begun(checkpoint, o)
        /\ SessionAhead(Sent, X, session[r])
        /\ session[r].steps[job[r].step] = "EXECUTING"
    BY <1>1, <1>2, <1>5, ActsAlone DEF Ahead, Launched
  <2>2. o[1] = session[r].rev /\ o[2] = job[r].step
    BY DEF Oblig
  <2> HIDE DEF o
  <2> QED
    BY <1>3, <2>1, <2>2 DEF RecordAhead, SessionAhead, Begun, Early
<1>6. ~Disturbed => Ahead(r)'
  BY <1>1, <1>4, <1>5 DEF Ahead, Launched, Recovering
<1> QED
  BY <1>1, <1>2, <1>5, <1>6, ActsAlone, AheadKeeps DEF Disturbed

-----------------------------------------------------------------------------
(* The stores, cancelling, replanning, crashing and recovering.              *)

LEMMA PutAhead ==
    ASSUME HInv, SInv', NEW r \in Runtimes, Put(r) \/ PutFails(r),
           UNCHANGED cancelling
    PROVE  HInv'
<1> DEFINE claim == [AtRest EXCEPT !.pc = "claim", !.step = job[r].step]
           X == history.stopped
<1>1. /\ SInv /\ IInv /\ TypeOK /\ job \in [Runtimes -> Jobs]
      /\ HasSession(r) /\ ViewShown(r)
      /\ UNCHANGED <<delivered, session, history>>
      /\ job[r].pc \in {"put", "putBefore"}
  BY WorkShapes DEF Put, PutFails, HInv, SInv, BInv, IInv
<1>2. Others(r) /\ session[r].on /\ Involved(r)
  BY <1>1, PutStep DEF Local, HasSession, Recovering, Involved
<1>3. Sent' = Sent
  BY <1>1 DEF Sent
<1>5. /\ AtRest.pc = "idle" /\ claim.pc = "claim" /\ claim.step = job[r].step
  BY DEF AtRest
<1>6. \/ job'[r] = AtRest /\ checkpoint' \in {checkpoint, job[r].view}
      \/ /\ job'[r] = claim /\ checkpoint' = job[r].view
         /\ job[r].pc = "putBefore"
  BY <1>1 DEF Put, PutFails
<1> HIDE DEF claim
<1>7. job'[r] = claim => Oblig(r)' = Oblig(r)
  BY <1>1, <1>5 DEF Oblig
<1>8. Ahead(r) /\ (checkpoint.on => RecordAhead(Sent, X, checkpoint)) =>
          /\ checkpoint'.on => RecordAhead(Sent, X, checkpoint')
          /\ Ahead(r)'
  BY <1>1, <1>2, <1>3, <1>5, <1>6, <1>7 DEF Ahead, Launched, Recovering
<1> QED
  BY <1>1, <1>2, <1>8, ActsAlone, CalmAhead DEF Disturbed

LEMMA CancelAhead ==
    ASSUME HInv, SInv', NEW r \in Runtimes, Cancel(r)
    PROVE  HInv'
<1> DEFINE s == session[r]
           n == CancelledSession(s)
           X == history.stopped
           W == {<<n.rev, t>> : t \in {u \in Steps : n.steps[u] = "CANCELLED"}}
           D == Sent
           t == job[r].step
<1>1. /\ SInv /\ IInv /\ TypeOK /\ s \in Sessions /\ D \in SUBSET Obligations
      /\ session \in [Runtimes -> Sessions] /\ history \in Histories
      /\ UNCHANGED <<ledger, delivered, checkpoint, job>>
      /\ s.on /\ Involved(r) /\ job[r].pc \notin Recovering /\ StepKnown(r)
  BY WorkShapes, SentKnown DEF Cancel, Involved, HInv, SInv, BInv, IInv
<1>2. Others(r)
  BY <1>1, CancelStep DEF Local
<1>3. /\ session'[r] = n
      /\ history'.stopped = X \cup W /\ Disturbed' = Disturbed
  BY <1>1 DEF Cancel, Histories, Disturbed
<1>4. /\ n.rev = s.rev
      /\ \A u \in Steps : /\ n.steps[u] \notin Early
                          /\ s.steps[u] = "EXECUTING" => n.steps[u] = "EXECUTING"
                          /\ n.steps[u] = "CANCELLED" => <<n.rev, u>> \in W
  BY <1>1 DEF CancelledSession, Sessions, Early, Cancellable
<1>5. Sent' = D
  BY <1>1 DEF Sent
<1> HIDE DEF n, W, D
<1>6. SessionAhead(D, X, s) => SessionAhead(D, X \cup W, n)
  <2>1. \A o \in D : o[2] \in Steps
    BY <1>1 DEF Obligations
  <2> QED
    BY <1>4, <2>1 DEF SessionAhead
<1>7. \A c : RecordAhead(D, X, c) => RecordAhead(D, X \cup W, c)
  BY MoreWithdrawn
<1>8. Oblig(r)' = Oblig(r)
  BY <1>1, <1>3, <1>4 DEF Oblig
<1>9. job[r].pc \in Launched \cup {"putBefore"} => t \in Steps
  BY <1>1 DEF StepKnown, Working, Launched
<1>10. ASSUME ~Disturbed
       PROVE  /\ checkpoint'.on => RecordAhead(Sent', history'.stopped, checkpoint')
              /\ Ahead(r)'
  <2>1. Ahead(r) /\ (checkpoint.on => RecordAhead(D, X, checkpoint))
    BY <1>1, <1>10, ActsAlone DEF D
  <2>2. SessionAhead(D, X \cup W, n)
    BY <1>1, <1>6, <2>1 DEF Ahead, D
  <2>3. checkpoint'.on => RecordAhead(D, X \cup W, checkpoint')
    BY <1>1, <1>7, <2>1
  <2>4. job[r].pc \in Launched \cup {"putBefore"} => n.steps[t] = "EXECUTING"
    BY <1>4, <1>9, <2>1 DEF Ahead
  <2>5. job[r].pc \in Launched /\ checkpoint'.on => Begun(checkpoint', Oblig(r))
    BY <1>1, <2>1 DEF Ahead
  <2>6. job[r].pc \in Recovering \cup {"put", "putBefore"} =>
            RecordAhead(D, X \cup W, job[r].view)
    BY <1>7, <2>1 DEF Ahead, D
  <2>7. job[r].pc = "putBefore" => Begun(job[r].view, Oblig(r))
    BY <2>1 DEF Ahead
  <2>8. Ahead(r)'
    BY <1>1, <1>3, <1>5, <1>8, <2>2, <2>4, <2>5, <2>6, <2>7 DEF Ahead
  <2> QED
    BY <1>3, <1>5, <2>3, <2>8
<1> QED
  BY <1>1, <1>2, <1>3, <1>10, ActsAlone, AheadKeeps DEF Disturbed

\* Its put, when it is not late, writes what the session is.
LEMMA CancelPutAhead ==
    ASSUME HInv, SInv', NEW r \in Runtimes, CancelPut(r)
    PROVE  HInv'
<1> DEFINE s == session[r]
           c == FromSession(s, evidence[r])
           X == history.stopped
           D == Sent
           t == job[r].step
<1>1. /\ SInv /\ IInv /\ TypeOK /\ D \in SUBSET Obligations
      /\ history \in Histories /\ StepKnown(r)
      /\ UNCHANGED <<ledger, delivered, session, evidence, job>>
      /\ s.on /\ Involved(r)
  BY WorkShapes, SentKnown DEF CancelPut, HasSession, Involved, HInv, SInv, BInv,
                               IInv
<1>2. Others(r) /\ Sent' = D /\ Oblig(r)' = Oblig(r)
  BY <1>1 DEF Others, Sent, Oblig
<1>3. /\ history'.stopped = X
      /\ ~Disturbed' => ~Disturbed /\ checkpoint' = c
  BY <1>1 DEF CancelPut, Histories, Disturbed
<1> HIDE DEF c, D
<1>4. ASSUME ~Disturbed'
      PROVE  RecordAhead(Sent', history'.stopped, checkpoint') /\ Ahead(r)'
  <2>1. Ahead(r)
    BY <1>1, <1>3, <1>4, ActsAlone
  <2>2. RecordAhead(D, X, c)
    BY <1>1, <2>1, FromSessionAhead DEF Ahead, c, D
  <2>3. job[r].pc \in Launched => Begun(c, Oblig(r))
    <3>1. job[r].pc \in Launched => t \in Steps /\ s.steps[t] = "EXECUTING"
      BY <1>1, <2>1 DEF Ahead, StepKnown, Working, Launched
    <3> QED
      BY <3>1, FromSessionStates DEF Begun, Oblig, Early, c
  <2>4. Ahead(r)'
    BY <1>1, <1>2, <1>3, <1>4, <2>1, <2>3 DEF Ahead, D
  <2> QED
    BY <1>2, <1>3, <1>4, <2>2, <2>4
<1> QED
  BY <1>1, <1>2, <1>3, <1>4, ActsAlone, AheadKeeps DEF Disturbed

LEMMA AskPlannerAhead ==
    ASSUME HInv, SInv', NEW r \in Runtimes, AskPlanner(r), UNCHANGED cancelling
    PROVE  HInv'
<1>1. /\ SInv /\ IInv /\ job \in [Runtimes -> Jobs]
      /\ UNCHANGED <<delivered, checkpoint, session, history>>
      /\ Involved(r)
  BY WorkShapes DEF AskPlanner, MayCall, UnchangedByCalls, Involved, HInv, SInv,
                    BInv, IInv
<1>2. Others(r) /\ Sent' = Sent
  BY <1>1, AskPlannerStep DEF Local, Sent
<1>3. job'[r].pc = "planning"
  BY <1>1 DEF AskPlanner, AtRest
<1>4. Ahead(r) => Ahead(r)'
  BY <1>1, <1>2, <1>3 DEF Ahead, Launched, Recovering
<1> QED
  BY <1>1, <1>2, <1>4, ActsAlone, CalmAhead DEF Disturbed

LEMMA ReplanAhead ==
    ASSUME HInv, SInv', NEW r \in Runtimes, Replan(r),
           UNCHANGED cancelling
    PROVE  HInv'
<1> DEFINE s == session[r]
           remaining == [t \in Steps |->
                            IF s.steps[t] \in {Absent, "VERIFIED"} THEN Absent
                            ELSE "PENDING"]
           again == [s EXCEPT !.rev = @ + 1, !.status = "READY", !.failed = 0,
                              !.steps = remaining]
           X == history.stopped
           D == Sent
<1>1. /\ SInv /\ IInv /\ TypeOK /\ s \in Sessions /\ D \in SUBSET Obligations
      /\ session \in [Runtimes -> Sessions] /\ job \in [Runtimes -> Jobs]
      /\ UNCHANGED <<delivered, checkpoint, history>>
      /\ s.on /\ Involved(r)
  BY WorkShapes, SentKnown DEF Replan, At, HasSession, Recovering,
                               UnchangedByCalls, Involved, HInv, SInv, BInv, IInv
<1>2. Others(r) /\ Sent' = D
  BY <1>1, ReplanStep DEF Local, Sent
<1>3. PICK n \in {[s EXCEPT !.status = "FAILED"], [s EXCEPT !.status = "BLOCKED"],
                  again} :
          /\ session' = [session EXCEPT ![r] = n]
          /\ job' = [job EXCEPT ![r] =
                 Saving(n, evidence[r], Owns(r, n), "put", 0)]
  BY DEF Replan
<1>4. SessionAhead(D, X, s) => SessionAhead(D, X, n)
  <2>1. 1 \in Steps
    BY PlanAssumption DEF Steps
  <2>2. CASE n \in {[s EXCEPT !.status = "FAILED"], [s EXCEPT !.status = "BLOCKED"]}
    <3>0. \A status : Settles(s, [s EXCEPT !.status = status])
      BY <1>1, <2>1, EndsSettle
    <3>1. Settles(s, n)
      BY <2>2, <3>0
    <3> QED
      BY <1>1, <3>1, SettledAhead
  <2>3. CASE n = again
    <3>1. n.rev = s.rev + 1 /\ n.steps = remaining
      BY <1>1, <2>3 DEF Sessions
    <3>2. \A t \in Steps : remaining[t] # "CANCELLED"
      BY DEF Absent
    <3>3. s.rev \in Nat /\ \A o \in D : o[1] \in Nat
      BY <1>1, PlanAssumption DEF Sessions, Obligations, Revisions
    <3> HIDE DEF remaining
    <3>4. \A o \in D : s.rev >= o[1] => n.rev > o[1]
      BY <3>1, <3>3
    <3>5. \A o \in D \ X : SessionAhead(D, X, s) => s.rev >= o[1]
      BY <3>3 DEF SessionAhead
    <3> HIDE DEF D
    <3> QED
      BY <3>1, <3>2, <3>4, <3>5 DEF SessionAhead
  <2> QED
    BY <1>3, <2>2, <2>3
<1> DEFINE j == Saving(n, evidence[r], Owns(r, n), "put", 0)
<1>5. /\ j.pc \in {"put", "idle"}
      /\ j.pc = "put" /\ SessionAhead(D, X, n) => RecordAhead(D, X, j.view)
  BY <1>1, FromSessionAhead DEF Saving, AtRest
<1>6. session'[r] = n /\ job'[r] = j
  BY <1>1, <1>3
<1> HIDE DEF j, again
<1>7. ASSUME ~Disturbed
      PROVE  Ahead(r)'
  <2>1. SessionAhead(D, X, s)
    BY <1>1, <1>7, ActsAlone DEF Ahead
  <2> HIDE DEF D
  <2> QED
    BY <1>1, <1>2, <1>4, <1>5, <1>6, <2>1 DEF Ahead, Launched, Recovering
<1> QED
  BY <1>1, <1>2, <1>7, ActsAlone, CalmAhead DEF Disturbed

LEMMA CrashAhead ==
    ASSUME HInv, SInv', NEW r \in Runtimes, Crash(r)
    PROVE  HInv'
<1>1. /\ session \in [Runtimes -> Sessions] /\ job \in [Runtimes -> Jobs]
      /\ UNCHANGED <<ledger, delivered, checkpoint, history>>
  BY WorkShapes DEF Crash, HInv, SInv, BInv, IInv
<1>2. /\ \A q \in Runtimes \ {r} : job'[q] = job[q] /\ session'[q] = session[q]
      /\ job'[r].pc = "down" /\ ~session'[r].on
  BY <1>1 DEF Crash, Down, AtRest, NoSession
<1>3. Sent' = Sent
  BY <1>1 DEF Sent
<1>4. \A q \in Runtimes \ {r} : Ahead(q) => Ahead(q)'
  BY <1>1, <1>2, <1>3 DEF Ahead, Oblig
<1>5. Ahead(r)'
  BY <1>2 DEF Ahead, Launched, Recovering
<1> QED
  BY <1>1, <1>3, <1>4, <1>5 DEF HInv, Disturbed

LEMMA RecoverReadAhead ==
    ASSUME HInv, SInv', NEW r \in Runtimes, RecoverRead(r),
           UNCHANGED cancelling
    PROVE  HInv'
<1>1. /\ SInv /\ IInv /\ TypeOK /\ job \in [Runtimes -> Jobs]
      /\ history \in Histories
      /\ UNCHANGED <<delivered, checkpoint, session>> /\ checkpoint.on
  BY WorkShapes DEF RecoverRead, HInv, SInv, BInv, IInv
<1>2. Others(r) /\ Sent' = Sent
  BY <1>1, RecoverReadStep DEF Local, Sent
<1>3. job'[r].pc = "acquire" /\ job'[r].view = checkpoint
  BY <1>1 DEF RecoverRead, AtRest
<1>4. /\ ~Disturbed' =>
             ~Disturbed /\ \A q \in Runtimes \ {r} : ~Involved(q)
      /\ history'.stopped = history.stopped
  BY <1>1 DEF RecoverRead, Histories, Disturbed
<1>5. Ahead(r) /\ RecordAhead(Sent, history.stopped, checkpoint) => Ahead(r)'
  BY <1>1, <1>2, <1>3, <1>4 DEF Ahead, Launched
<1> QED
  BY <1>1, <1>2, <1>4, <1>5, AheadKeeps DEF HInv

LEMMA AcquireAhead ==
    ASSUME HInv, SInv', NEW r \in Runtimes, Acquire(r) \/ Reconcile(r),
           UNCHANGED cancelling
    PROVE  HInv'
<1>1. /\ SInv /\ IInv /\ TypeOK /\ job \in [Runtimes -> Jobs]
      /\ UNCHANGED <<delivered, checkpoint, history, session>>
      /\ Involved(r) /\ job[r].pc \in Recovering
  BY WorkShapes DEF Acquire, Reconcile, At, Involved, Recovering, HInv,
                    SInv, BInv, IInv
<1>2. Others(r) /\ Sent' = Sent
  BY <1>1, AcquireStep, ReconcileStep DEF Local, Sent
<1>3. \/ job'[r].pc = "idle"
      \/ job'[r].pc \in {"reconcile", "decide"} /\ job'[r].view = job[r].view
  <2>1. \/ job' = [job EXCEPT ![r] = AtRest]
        \/ job' = [job EXCEPT ![r].pc = "reconcile", ![r].token = lease'.token]
        \/ job' = [job EXCEPT ![r].pc = "decide"]
    BY DEF Acquire, Reconcile, GiveUp, Goto
  <2>2. job[r] \in Jobs
    BY <1>1
  <2> QED
    BY <1>1, <2>1, <2>2 DEF AtRest, Jobs
<1>4. Ahead(r) => Ahead(r)'
  BY <1>1, <1>2, <1>3 DEF Ahead, Launched, Recovering
<1> QED
  BY <1>1, <1>2, <1>4, ActsAlone, CalmAhead DEF Disturbed

\* recover_dynamic_plan takes no begun step back to its beginning.
LEMMA RecoveredStepAhead ==
    ASSUME NEW c \in Checkpoints, NEW t \in Steps,
           c.steps[t].state # Absent => Correlated(c, t)
    PROVE  /\ RecoveredStep(c, t) # "CANCELLED"
           /\ c.steps[t].state \notin Early \cup {"CANCELLED"} =>
                  RecoveredStep(c, t) \notin Early
<1>1. c.steps[t].state \in StepStates \cup {Absent}
  BY DEF Checkpoints, StepRecords
<1>2. RecoveredStep(c, t) # "CANCELLED"
  BY DEF RecoveredStep, Absent
<1>3. CASE c.steps[t].state = Absent
  BY <1>3 DEF RecoveredStep, Early, Absent
<1>4. CASE c.steps[t].state = "EXECUTING"
  BY <1>4 DEF RecoveredStep, Uncertain, Early, Absent
<1>5. CASE c.steps[t].state = "VERIFIED"
  <2>1. LedgerOf(c, t) = "VERIFIED"
    BY <1>5 DEF Correlated, Absent
  <2> QED
    BY <1>2, <1>5, <2>1 DEF RecoveredStep, Early, Absent
<1>6. CASE c.steps[t].state \in {"FAILED", "BLOCKED", "REPLAN_REQUIRED"}
  BY <1>2, <1>6 DEF RecoveredStep, Early, Absent
<1> QED
  BY <1>1, <1>2, <1>3, <1>4, <1>5, <1>6 DEF StepStates, Early

\* Hence a session it installs shows what the checkpoint showed.
LEMMA DecideShows ==
    ASSUME TypeOK, NEW r \in Runtimes, Decide(r),
           NEW D \in SUBSET Obligations, NEW X, RecordAhead(D, X, job[r].view)
    PROVE  \/ GiveUp(r) /\ UNCHANGED session
           \/ \E s : Install(r, s) /\ SessionAhead(D, X, s)
<1> DEFINE c == job[r].view
           steps == [t \in Steps |-> RecoveredStep(c, t)]
           planned == {t \in Steps : c.steps[t].state # Absent}
           ready == Recovered(r, "READY", steps, 0)
<1>0. c \in Checkpoints
  BY WorkShapes DEF Jobs
<1>1. steps \in [Steps -> StepStates \cup {Absent}]
  BY <1>0, RecoveredStepTyped
<1>2. ASSUME \A t \in planned : Correlated(c, t)
      PROVE  \A t \in Steps :
                 /\ steps[t] # "CANCELLED"
                 /\ c.steps[t].state \notin Early \cup {"CANCELLED"} =>
                        steps[t] \notin Early
  BY <1>0, <1>2, RecoveredStepAhead
<1> HIDE DEF steps
<1>3. ASSUME \A t \in planned : Correlated(c, t), NEW s, s.rev = c.rev,
             s.steps = steps
      PROVE  SessionAhead(D, X, s)
  <2>1. \A o \in D : o[2] \in Steps /\ o = <<o[1], o[2]>>
    BY DEF Obligations
  <2> QED
    BY <1>2, <1>3, <2>1 DEF SessionAhead, RecordAhead
<1>4. ASSUME NEW status, NEW failed
      PROVE  LET s == Recovered(r, status, steps, failed)
             IN  s.rev = c.rev /\ s.steps = steps
  BY DEF Recovered
<1> HIDE DEF ready
<1>5. \/ GiveUp(r) /\ UNCHANGED session
      \/ /\ \A t \in planned : Correlated(c, t)
         /\ \E status, failed : Install(r, Recovered(r, status, steps, failed))
      \/ /\ \A t \in planned : Correlated(c, t)
         /\ ResumesOrNot(r, ready)
  BY DEF Decide, steps, ready
<1>6. CASE ResumesOrNot(r, ready) /\ \A t \in planned : Correlated(c, t)
  <2> DEFINE u == NextStep(ready)
             waits == [ready EXCEPT !.steps[u] = "AWAITING_CONFIRMATION",
                                    !.status = "WAITING_CONFIRMATION"]
  <2>1. \/ GiveUp(r) /\ UNCHANGED session
        \/ HasRunnable(ready) /\ (Install(r, waits) \/ Install(r, ready))
    BY <1>6 DEF ResumesOrNot
  <2>2. ready.rev = c.rev /\ ready.steps = steps
    BY <1>4 DEF ready
  <2>3. SessionAhead(D, X, ready)
    BY <1>3, <1>6, <2>2
  <2>4. ASSUME HasRunnable(ready)
        PROVE  SessionAhead(D, X, waits)
    <3>1. u \in Steps /\ ready.steps[u] \in Early
      BY <2>4, NextStepEarly DEF HasRunnable
    <3>2. /\ waits.rev = ready.rev
          /\ waits.steps = [ready.steps EXCEPT ![u] = "AWAITING_CONFIRMATION"]
      BY DEF ready, Recovered
    <3>3. \A o \in D : o[2] \in Steps
      BY DEF Obligations
    <3> HIDE DEF waits, u
    <3>4. \A t \in Steps :
              /\ waits.steps[t] \in Early => ready.steps[t] \in Early
              /\ waits.steps[t] = "CANCELLED" => ready.steps[t] = "CANCELLED"
      BY <1>1, <2>2, <3>1, <3>2
    <3> QED
      BY <2>3, <3>2, <3>3, <3>4 DEF SessionAhead
  <2> QED
    BY <2>1, <2>3, <2>4
<1>7. CASE /\ \A t \in planned : Correlated(c, t)
           /\ \E status, failed : Install(r, Recovered(r, status, steps, failed))
  BY <1>3, <1>4, <1>7
<1> QED
  BY <1>5, <1>6, <1>7

LEMMA DecideAhead ==
    ASSUME HInv, SInv', NEW r \in Runtimes, Decide(r),
           UNCHANGED cancelling
    PROVE  HInv'
<1>1. /\ SInv /\ IInv /\ TypeOK /\ job \in [Runtimes -> Jobs]
      /\ UNCHANGED <<delivered, checkpoint, history>>
      /\ Involved(r) /\ job[r].pc = "decide"
  BY WorkShapes DEF Decide, At, Involved, Recovering, UnchangedByCalls, HInv,
                    SInv, BInv, IInv
<1>2. Others(r) /\ Sent' = Sent
  BY <1>1, DecideStep DEF Local, Sent
<1>3. ASSUME ~Disturbed
      PROVE  Ahead(r)'
  <2>1. Ahead(r) /\ RecordAhead(Sent, history.stopped, job[r].view)
    BY <1>1, <1>3, ActsAlone DEF Ahead, Recovering
  <2>2. CASE GiveUp(r) /\ UNCHANGED session
    <3>1. job'[r].pc = "idle"
      BY <1>1, <2>2 DEF GiveUp, AtRest
    <3> QED
      BY <1>1, <1>2, <2>1, <2>2, <3>1 DEF Ahead, Launched, Recovering
  <2>3. ASSUME NEW s, Install(r, s), SessionAhead(Sent, history.stopped, s)
        PROVE  Ahead(r)'
    <3>1. Finish(r, s, evidence[r])
      BY <2>3 DEF Install, Finish
    <3> QED
      BY <1>1, <1>2, <2>3, <3>1, FinishAhead
  <2> QED
    BY <1>1, <2>1, <2>2, <2>3, DecideShows, SentKnown
<1> QED
  BY <1>1, <1>2, <1>3, ActsAlone, CalmAhead DEF Disturbed

\* Nothing is sent before the task is admitted.
LEMMA AdmitAhead ==
    ASSUME HInv, SInv', Present, Admit, UNCHANGED cancelling
    PROVE  HInv'
<1> DEFINE s == [NoSession EXCEPT !.on = TRUE,
                                  !.steps = [t \in Steps |-> "PENDING"]]
<1>0. First \in Runtimes
  BY PlanAssumption
<1>1. /\ SInv /\ IInv /\ TypeOK /\ session \in [Runtimes -> Sessions]
      /\ UNCHANGED <<delivered, job, history>>
      /\ ~checkpoint.on /\ job[First] = AtRest
  BY WorkShapes DEF Admit, HInv, SInv, BInv, IInv
<1>2. Others(First)
  BY <1>0, <1>1, AdmitStep DEF Local
<1>3. \A q \in Runtimes : ~Involved(q)
  BY <1>1 DEF Present
<1>4. Sent' = {} /\ {} \in SUBSET Obligations
  BY <1>1 DEF Present, Sent
<1>5. checkpoint' = FromSession(s, evidence[First]) /\ session'[First] = s
  BY <1>0, <1>1 DEF Admit
<1>6. SessionAhead({}, history.stopped, s)
  BY DEF SessionAhead, NoSession
<1> HIDE DEF s
<1>7. RecordAhead({}, history.stopped, checkpoint')
  BY <1>4, <1>5, <1>6, FromSessionAhead
<1>8. checkpoint'.on
  BY <1>5 DEF FromSession
<1>9. job'[First].pc = "idle"
  BY <1>1 DEF AtRest
<1>10. Ahead(First)'
  BY <1>1, <1>4, <1>5, <1>6, <1>9 DEF Ahead, Launched, Recovering
<1> QED
  BY <1>0, <1>1, <1>2, <1>3, <1>4, <1>7, <1>8, <1>10, AheadKeeps

LEMMA AheadInit == Init => AInv
<1> SUFFICES ASSUME Init
             PROVE  AInv
  OBVIOUS
<1>1. OInv
  BY OnceInit
<1>2. Sent = {}
  BY DEF Init, Sent
<1>3. \A r \in Runtimes : job[r].pc = "idle" /\ ~session[r].on
  BY DEF Init, AtRest, NoSession
<1>4. \A r \in Runtimes : Ahead(r)
  BY <1>3 DEF Ahead, Launched, Recovering
<1>5. \A t \in Steps : checkpoint.steps[t].state # "CANCELLED"
  BY DEF Init, NoCheckpoint, AbsentRecord, Absent
<1> QED
  BY <1>1, <1>2, <1>4, <1>5 DEF AInv, HInv, OInv, RecordAhead

\* Every step of the system preserves it; without the checkpoint only a new
\* admission could harm it.
LEMMA HonestStep ==
    ASSUME HInv, (Admit /\ UNCHANGED cancelling /\ Present) \/ [Onward]_vars
    PROVE  HInv'
<1>1. SInv'
  BY SoundStep DEF HInv
<1>2. CASE UNCHANGED <<delivered, checkpoint, session, job, history>>
  <2>1. Sent' = Sent
    BY <1>2 DEF Sent
  <2>2. \A r \in Runtimes : Ahead(r)' = Ahead(r)
    BY <1>2, <2>1 DEF Ahead, Oblig
  <2> QED
    BY <1>1, <1>2, <2>1, <2>2 DEF HInv, Disturbed
<1>3. CASE ExpireLease
  BY <1>2, <1>3 DEF ExpireLease
<1>4. ASSUME NEW r \in Runtimes, Execute(r), UNCHANGED cancelling
      PROVE  HInv'
  BY <1>1, <1>4, ExecuteAhead, SendAhead
<1>5. ASSUME NEW r \in Runtimes, Recover(r), UNCHANGED cancelling
      PROVE  HInv'
  BY <1>1, <1>5, RecoverReadAhead, AcquireAhead, DecideAhead DEF Recover
<1>6. ASSUME NEW r \in Runtimes, Proceed(r), UNCHANGED cancelling
      PROVE  HInv'
  BY <1>1, <1>4, <1>5, <1>6, RunAhead, PutAhead, AskPlannerAhead, ReplanAhead
     DEF Proceed
<1>7. ASSUME NEW r \in Runtimes, CancelPutFails(r)
      PROVE  HInv'
  BY <1>2, <1>7 DEF CancelPutFails
<1>8. ASSUME NEW r \in Runtimes, Withdraw(r) \/ Crash(r)
      PROVE  HInv'
  BY <1>1, <1>7, <1>8, CancelAhead, CancelPutAhead, CrashAhead DEF Withdraw
<1> QED
  BY <1>1, <1>2, <1>3, <1>6, <1>8, AdmitAhead DEF Onward, vars

LEMMA AheadStep == AInv /\ [Next]_vars => AInv'
  BY HonestStep, PresentKept DEF AInv, HInv, Next, Onward

-----------------------------------------------------------------------------
(* The theorem.                                                              *)

\* _persist_dynamic_checkpoint(BEFORE_EXECUTION) comes before the executor: a
\* call the phone received belongs to a step that the durable checkpoint shows
\* as begun or as of an earlier revision, after any crash, restart or storage
\* error, unless cancel_dynamic_task withdrew the step, its put came late, or a
\* recovery began beside a live runtime.
THEOREM GovernedCheckpointAhead == Spec => []CheckpointAhead
<1>1. AInv => CheckpointAhead
  BY DEF AInv, HInv, Present, CheckpointAhead, RecordAhead, Early
<1> QED
  BY <1>1, AheadInit, AheadStep, PTL DEF Spec

-----------------------------------------------------------------------------
(* No blind repeat in a chain of steps: the steps before one that is at work *)
(* are over, so that a replan leaves behind only calls whose outcome is      *)
(* known. S is what was sent, B what of it is not a verified failure, V the  *)
(* obligations that are VERIFIED.                                            *)

Doubtful == {o \in Sent : ledger[o].state # "FAILED"}
Proven == {o \in Obligations : ledger[o].state = "VERIFIED"}

Below(t) == {u \in Steps : u < t}
Halted == {"EXECUTING", "FAILED", "BLOCKED"}

\* A plan in revision rev, with step states x of which the steps F are over.
\* Whatever was sent had all steps before it over; what of it is in doubt keeps
\* its step halted or over, and left the plan with the next revision.
Line(S, B, rev, x, F) ==
    /\ \A t \in Steps : x[t] \in {"AWAITING_CONFIRMATION", Absent} =>
                            Below(t) \subseteq F
    /\ \A o \in S : /\ o[1] <= rev
                    /\ o[1] = rev => Below(o[2]) \subseteq F
    /\ \A o \in B : IF o[1] = rev THEN x[o[2]] \in Halted \/ o[2] \in F
                                  ELSE x[o[2]] = Absent

Over(s) == {t \in Steps : s.steps[t] \in {"VERIFIED", Absent}}

SessionLine(S, B, s) == Line(S, B, s.rev, s.steps, Over(s))

\* Over in a checkpoint: what a recovery will find VERIFIED or left out.
Shown(V, c) ==
    {t \in Steps : \/ c.steps[t].state = Absent
                   \/ c.steps[t].ref = c.rev /\ <<c.rev, t>> \in V}

RecordLine(S, B, V, c) ==
    Line(S, B, c.rev, [t \in Steps |-> c.steps[t].state], Shown(V, c))

\* Each VERIFIED of session s has evidence in e or a reference in c.
Referred(s, e, c) ==
    \A t \in Steps : s.steps[t] = "VERIFIED" =>
        e[<<s.rev, t>>].state # NotCreated \/ c.steps[t].ref = s.rev

\* A session that may be replanned has every doubtful step over.
Replannable(B, s) ==
    s.status = "REPLAN_REQUIRED" /\ s.failed # 0 =>
        \A o \in B : o[1] = s.rev => o[2] \in Over(s)

\* The checkpoint shows o at work, with all before it over.
AtWorkIn(V, c, o) ==
    /\ c.rev = o[1] /\ c.steps[o[2]].state = "EXECUTING"
    /\ Below(o[2]) \subseteq Shown(V, c)

Unsent == {"risked", "putBefore", "claim", "create", "authorize", "dispatch",
           "send"}

Orderly(r) ==
    /\ session[r].on =>
           /\ SessionLine(Sent, Doubtful, session[r])
           /\ Referred(session[r], evidence[r], checkpoint)
           /\ Replannable(Doubtful, session[r])
    /\ job[r].pc \in {"put", "putBefore"} =>
           /\ RecordLine(Sent, Doubtful, Proven, job[r].view)
           /\ Referred(session[r], evidence[r], job[r].view)
    /\ job[r].pc \in Recovering => job[r].view = checkpoint
    /\ job[r].pc \in Working =>
           /\ Below(job[r].step) \subseteq Over(session[r])
           /\ job[r].step \notin Over(session[r])
           /\ session[r].status # "REPLAN_REQUIRED"
    /\ job[r].pc = "planning" =>
           \A o \in Doubtful : o[1] = session[r].rev => o[2] \in Over(session[r])
    /\ job[r].pc \in Unsent => Oblig(r) \notin Doubtful
    /\ job[r].pc = "putBefore" => AtWorkIn(Proven, job[r].view, Oblig(r))
    /\ job[r].pc \in Launched => AtWorkIn(Proven, checkpoint, Oblig(r))

\* What NoBlindRepeat leaves out.
Tame == Chained /\ ~Disturbed /\ ~history.rawLoss

NInv ==
    /\ AInv
    /\ Tame =>
           /\ ~BlindRepeat
           /\ RecordLine(Sent, Doubtful, Proven, checkpoint)
           /\ \A r \in Runtimes : Orderly(r)

-----------------------------------------------------------------------------
(* Lines.                                                                    *)

\* A verified failure, and a success, stay what they are.
Lasting ==
    \A o \in Obligations :
        ledger[o].state \in Settled => ledger'[o].state = ledger[o].state

\* So nothing comes into doubt but what is sent, and nothing proven is lost.
LEMMA LastingSets ==
    ASSUME Lasting, UNCHANGED delivered
    PROVE  /\ Sent' = Sent /\ Doubtful' \subseteq Doubtful
           /\ Proven \subseteq Proven'
  BY DEF Lasting, Settled, Sent, Doubtful, Proven

\* Less in doubt, and more that is over, keep a line.
LEMMA LineKept ==
    ASSUME NEW S, NEW B, NEW C, C \subseteq B, NEW rev, NEW x, NEW F, NEW G,
           F \subseteq G, Line(S, B, rev, x, F)
    PROVE  Line(S, C, rev, x, G)
  BY DEF Line

LEMMA LinesLast ==
    ASSUME Lasting, UNCHANGED delivered
    PROVE  /\ \A s : SessionLine(Sent, Doubtful, s) =>
                         SessionLine(Sent', Doubtful', s)
           /\ \A s : Replannable(Doubtful, s) => Replannable(Doubtful', s)
           /\ \A c : RecordLine(Sent, Doubtful, Proven, c) =>
                         RecordLine(Sent', Doubtful', Proven', c)
           /\ \A c, o : AtWorkIn(Proven, c, o) => AtWorkIn(Proven', c, o)
<1>1. /\ Sent' = Sent /\ Doubtful' \subseteq Doubtful
      /\ Proven \subseteq Proven'
  BY LastingSets
<1>2. \A c : Shown(Proven, c) \subseteq Shown(Proven', c)
  BY <1>1 DEF Shown
<1>3. ASSUME NEW s, SessionLine(Sent, Doubtful, s)
      PROVE  SessionLine(Sent', Doubtful', s)
  BY <1>1, <1>3, LineKept DEF SessionLine
<1>4. ASSUME NEW c, RecordLine(Sent, Doubtful, Proven, c)
      PROVE  RecordLine(Sent', Doubtful', Proven', c)
  <2> DEFINE x == [t \in Steps |-> c.steps[t].state]
  <2>1. Line(Sent, Doubtful, c.rev, x, Shown(Proven, c))
    BY <1>4 DEF RecordLine
  <2> HIDE DEF x
  <2>2. Line(Sent', Doubtful', c.rev, x, Shown(Proven', c))
    BY <1>1, <1>2, <2>1, LineKept
  <2> QED
    BY <2>2 DEF RecordLine, x
<1>5. \A s : Replannable(Doubtful, s) => Replannable(Doubtful', s)
  BY <1>1 DEF Replannable
<1>6. \A c, o : AtWorkIn(Proven, c, o) => AtWorkIn(Proven', c, o)
  BY <1>2 DEF AtWorkIn
<1> QED
  BY <1>3, <1>4, <1>5, <1>6

\* What a session calls VERIFIED, V knows.
Certain(V, s) ==
    \A t \in Steps : s.steps[t] = "VERIFIED" => <<s.rev, t>> \in V

LEMMA ProvenCertain ==
    ASSUME NEW l, NEW s \in Sessions, SessionProven(l, s)
    PROVE  Certain({o \in Obligations : l[o].state = "VERIFIED"}, s)
  BY DEF SessionProven, Certain, Sessions, Obligations

\* A checkpoint taken of a session: what is over in the session is over in it.
LEMMA RecordOrderly ==
    ASSUME NEW S, NEW B \in SUBSET Obligations, NEW V, NEW s, NEW own,
           SessionLine(S, B, s), Certain(V, s),
           Referred(s, own, checkpoint), checkpoint.on
    PROVE  LET c == FromSession(s, own)
           IN  /\ RecordLine(S, B, V, c)
               /\ Referred(s, own, c)
               /\ Over(s) \subseteq Shown(V, c)
<1> DEFINE c == FromSession(s, own)
<1>1. c.rev = s.rev
  BY DEF FromSession
<1>2. \A t \in Steps :
          c.steps[t] = IF t \in InPlan(s) THEN StepRecord(s, own[<<s.rev, t>>], t)
                       ELSE AbsentRecord
  BY DEF FromSession
<1> HIDE DEF c
<1>3. ASSUME NEW t \in Steps, s.steps[t] = "VERIFIED"
      PROVE  c.steps[t].ref = s.rev
  <2>1. t \in InPlan(s)
    BY <1>3 DEF InPlan, Absent
  <2>2. \/ own[<<s.rev, t>>].state # NotCreated
        \/ checkpoint.steps[t].ref = s.rev
    BY <1>3 DEF Referred
  <2>3. StepRecord(s, own[<<s.rev, t>>], t).ref = s.rev
    BY <1>3, <2>2 DEF StepRecord, NeedsEvidence
  <2> QED
    BY <1>2, <2>1, <2>3
<1>4. Referred(s, own, c)
  BY <1>3 DEF Referred
<1>5. ASSUME NEW t \in Steps
      PROVE  /\ s.steps[t] = Absent => c.steps[t].state = Absent
             /\ s.steps[t] # Absent /\ s.steps[t] # "VERIFIED" =>
                    c.steps[t].state = s.steps[t]
             /\ s.steps[t] = "VERIFIED" =>
                    c.steps[t].state \in {"VERIFIED", "REPLAN_REQUIRED"}
  <2>1. AbsentRecord.state = Absent /\ "VERIFIED" # Absent
    BY DEF AbsentRecord, Absent
  <2>2. LET x == StepRecord(s, own[<<s.rev, t>>], t).state
        IN  /\ s.steps[t] # "VERIFIED" => x = s.steps[t]
            /\ s.steps[t] = "VERIFIED" => x \in {"VERIFIED", "REPLAN_REQUIRED"}
    BY DEF StepRecord
  <2> QED
    BY <1>2, <2>1, <2>2 DEF InPlan
<1>6. Over(s) \subseteq Shown(V, c)
  BY <1>1, <1>3, <1>5 DEF Certain, Over, Shown
<1>7. RecordLine(S, B, V, c)
  <2>1. \A t \in Steps : c.steps[t].state \in {"AWAITING_CONFIRMATION", Absent} =>
                             s.steps[t] \in {"AWAITING_CONFIRMATION", Absent}
    BY <1>5 DEF Absent
  <2>2. \A t \in Steps : s.steps[t] \in Halted => c.steps[t].state = s.steps[t]
    BY <1>5 DEF Halted, Absent
  <2>3. \A o \in B : o[2] \in Steps
    BY DEF Obligations
  <2> QED
    BY <1>1, <1>5, <1>6, <2>1, <2>2, <2>3 DEF RecordLine, SessionLine, Line
<1> QED
  BY <1>4, <1>6, <1>7 DEF c

\* A step that has not begun is neither over nor in doubt.
LEMMA EarlyClear ==
    ASSUME NEW S, NEW B, NEW s, SessionLine(S, B, s), NEW t \in Steps,
           s.steps[t] \in Early
    PROVE  t \notin Over(s) /\ <<s.rev, t>> \notin B
  BY DEF SessionLine, Line, Early, Halted, Over, Absent

\* What is over has all steps before it over: a success was sent.
LEMMA OverLine ==
    ASSUME LedgerSound, NEW B, NEW s \in Sessions, SessionLine(Sent, B, s),
           Certain(Proven, s), NEW t \in Over(s)
    PROVE  Below(t) \subseteq Over(s)
<1>1. CASE s.steps[t] = Absent
  BY <1>1 DEF SessionLine, Line, Over
<1>2. CASE s.steps[t] = "VERIFIED"
  <2>1. <<s.rev, t>> \in Obligations /\ ledger[<<s.rev, t>>].state = "VERIFIED"
    BY <1>2 DEF Certain, Proven, Over
  <2>2. <<s.rev, t>> \in Sent
    BY <2>1 DEF LedgerSound, Sent
  <2> QED
    BY <2>2 DEF SessionLine, Line
<1> QED
  BY <1>1, <1>2 DEF Over

\* A step that may run comes after all that is over.
LEMMA NextStepOrderly ==
    ASSUME Chained, LedgerSound, NEW B, NEW s \in Sessions,
           SessionLine(Sent, B, s), Certain(Proven, s), HasRunnable(s)
    PROVE  LET t == NextStep(s)
           IN  /\ t \in Steps /\ s.steps[t] \in Early
               /\ Below(t) \subseteq Over(s)
               /\ t \notin Over(s) /\ <<s.rev, t>> \notin B
<1> DEFINE t == NextStep(s)
<1>1. Candidates(s) # {} /\ (Confirming(s) # {} \/ ~Doomed(s, t))
  BY DEF HasRunnable
<1>2. t \in Steps /\ s.steps[t] \in Early
  BY <1>1, NextStepEarly
<1>3. t \in Candidates(s)
  <2>1. Candidates(s) \in SUBSET Steps
    BY DEF Candidates, Confirming, Decided
  <2> QED
    BY <1>1, <2>1, FirstStepExists DEF NextStep
<1> HIDE DEF t
<1>4. t \notin Over(s) /\ <<s.rev, t>> \notin B
  BY <1>2, EarlyClear
<1>5. CASE s.steps[t] = "AWAITING_CONFIRMATION"
  BY <1>2, <1>4, <1>5 DEF SessionLine, Line, t
<1>6. CASE s.steps[t] # "AWAITING_CONFIRMATION"
  <2>1. \A d \in PlanDeps(s, t) : s.steps[d] = "VERIFIED"
    BY <1>1, <1>3, <1>6 DEF Candidates, Confirming, Decided
  <2>2. CASE t > 1
    <3>1. t - 1 \in Steps /\ t - 1 \in Deps[t]
      BY <1>2, <2>2, PlanAssumption DEF Chained, Steps
    <3>2. t - 1 \in Over(s)
      BY <2>1, <3>1 DEF PlanDeps, InPlan, Over
    <3>3. Below(t - 1) \subseteq Over(s)
      BY <3>2, OverLine
    <3>4. Below(t) \subseteq Below(t - 1) \cup {t - 1}
      BY <1>2, PlanAssumption DEF Below, Steps
    <3> QED
      BY <1>2, <1>4, <3>2, <3>3, <3>4 DEF t
  <2>3. CASE ~(t > 1)
    <3>1. Below(t) = {}
      BY <1>2, <2>3, PlanAssumption DEF Below, Steps
    <3> QED
      BY <1>2, <1>4, <3>1 DEF t
  <2> QED
    BY <2>2, <2>3
<1> QED
  BY <1>5, <1>6

\* An update of step t; pending steps may be blocked along with it.
Moves(s, n, t) ==
    /\ n.rev = s.rev /\ n.on = s.on
    /\ n.steps[t] # Absent
    /\ \A u \in Steps \ {t} :
        \/ n.steps[u] = s.steps[u]
        \/ s.steps[u] = "PENDING" /\ n.steps[u] = "BLOCKED"

LEMMA MovesLine ==
    ASSUME NEW S, NEW B \in SUBSET Obligations, NEW s, NEW n, NEW t \in Steps,
           SessionLine(S, B, s), Moves(s, n, t), t \notin Over(s),
           n.steps[t] = "AWAITING_CONFIRMATION" => Below(t) \subseteq Over(s),
           <<s.rev, t>> \in B => n.steps[t] \in Halted \cup {"VERIFIED"}
    PROVE  SessionLine(S, B, n) /\ Over(s) \subseteq Over(n)
<1>1. Over(s) \subseteq Over(n)
  BY DEF Over, Moves, Absent
<1>2. ASSUME NEW u \in Steps, n.steps[u] \in {"AWAITING_CONFIRMATION", Absent}
      PROVE  Below(u) \subseteq Over(n)
  <2>1. CASE u = t
    BY <1>1, <1>2, <2>1 DEF Moves
  <2>2. CASE u # t
    BY <1>1, <1>2, <2>2 DEF Moves, SessionLine, Line, Absent
  <2> QED
    BY <2>1, <2>2
<1>3. ASSUME NEW o \in B
      PROVE  IF o[1] = n.rev THEN n.steps[o[2]] \in Halted \/ o[2] \in Over(n)
                             ELSE n.steps[o[2]] = Absent
  <2>1. o = <<o[1], o[2]>> /\ o[2] \in Steps /\ n.rev = s.rev
    BY DEF Obligations, Moves
  <2>2. IF o[1] = s.rev THEN s.steps[o[2]] \in Halted \/ o[2] \in Over(s)
                        ELSE s.steps[o[2]] = Absent
    BY DEF SessionLine, Line
  <2>3. CASE o[2] = t
    <3>1. o[1] = s.rev
      BY <2>1, <2>2, <2>3 DEF Over
    <3> QED
      BY <2>1, <2>3, <3>1 DEF Over
  <2>4. CASE o[2] # t
    <3>1. \/ n.steps[o[2]] = s.steps[o[2]]
          \/ s.steps[o[2]] = "PENDING"
      BY <2>1, <2>4 DEF Moves
    <3>2. s.steps[o[2]] # "PENDING" \/ n.steps[o[2]] = s.steps[o[2]]
      BY <2>1, <2>2 DEF Halted, Over, Absent
    <3> QED
      BY <1>1, <2>1, <2>2, <3>1, <3>2
  <2> QED
    BY <2>3, <2>4
<1> QED
  BY <1>1, <1>2, <1>3 DEF SessionLine, Line, Moves

\* When step t is neither over nor in doubt, but what precedes it is over,
\* nothing that may still be open was sent: the task may be replanned.
LEMMA NothingOpen ==
    ASSUME NEW S, NEW B \in SUBSET S, B \in SUBSET Obligations, NEW s,
           SessionLine(S, B, s), NEW t \in Steps, Below(t) \subseteq Over(s),
           t \notin Over(s), <<s.rev, t>> \notin B
    PROVE  \A o \in B : o[1] = s.rev => o[2] \in Over(s)
<1> SUFFICES ASSUME NEW o \in B, o[1] = s.rev
             PROVE  o[2] \in Over(s)
  OBVIOUS
<1>1. o = <<o[1], o[2]>> /\ o[2] \in Steps /\ o[2] \in Int /\ t \in Int
  BY PlanAssumption DEF Obligations, Steps
<1>2. o[2] # t
  BY <1>1
<1>3. Below(o[2]) \subseteq Over(s)
  BY DEF SessionLine, Line
<1>4. o[2] < t \/ t < o[2]
  BY <1>1, <1>2
<1> QED
  BY <1>1, <1>3, <1>4 DEF Below

-----------------------------------------------------------------------------
(* What a step leaves behind.                                                *)

\* A move of the executor settles nothing anew.
LEMMA MoveLasts ==
    ASSUME BInv, NEW r \in Runtimes, job[r].pc \in Working,
           NEW target \in ObligationStates \ {"CREATED"},
           MoveSucceeds(Oblig(r), target) \/ MoveFails(Oblig(r), target)
    PROVE  Lasting
<1> DEFINE o == Oblig(r)
           n == AfterMove(ledger[o], target)
<1>1. o \in Obligations /\ ledger \in Ledgers
  BY AtWork, WorkShapes DEF BInv
<1>2. ledger[o] \in LedgerEntry /\ EntryOk(ledger[o])
  BY <1>1 DEF BInv, LedgerSound, Ledgers
<1>3. \/ UNCHANGED ledger
      \/ MoveAccepted(ledger[o], target) /\ ledger' = [ledger EXCEPT ![o] = n]
  BY DEF MoveSucceeds, MoveFails
<1>4. CASE UNCHANGED ledger
  BY <1>4 DEF Lasting
<1>5. CASE MoveAccepted(ledger[o], target) /\ ledger' = [ledger EXCEPT ![o] = n]
  <2>1. ledger[o].state \in Settled => n.state = ledger[o].state
    BY <1>2, <1>5, MoveKeeps DEF Settled
  <2> HIDE DEF n
  <2>2. \A p \in Obligations : ledger'[p] = IF p = o THEN n ELSE ledger[p]
    BY <1>1, <1>5 DEF Ledgers
  <2> QED
    BY <2>1, <2>2 DEF Lasting
<1> QED
  BY <1>3, <1>4, <1>5

\* Nor does any other step.
LEMMA NextLasts ==
    ASSUME BInv, NEW r \in Runtimes,
           Proceed(r) \/ Withdraw(r) \/ Crash(r)
    PROVE  Lasting
<1>1. ASSUME UNCHANGED ledger
      PROVE  Lasting
  BY <1>1 DEF Lasting
<1>2. ASSUME job[r].pc \in Working,
             NEW target \in {"AUTHORIZED", "DISPATCHED", "OBSERVING", "VERIFIED",
                             "FAILED", "UNKNOWN_SIDE_EFFECT"},
             MoveSucceeds(Oblig(r), target) \/ MoveFails(Oblig(r), target)
      PROVE  Lasting
  BY <1>2, MoveLasts DEF ObligationStates
<1>3. CASE \/ Run(r) \/ Put(r) \/ PutFails(r) \/ AskPlanner(r) \/ Replan(r)
           \/ Withdraw(r) \/ Crash(r)
  BY <1>1, <1>3 DEF Run, RunFenced, RunRefused, RunNothing, RunUnbound,
     RunUnauthorized, RunAllowed, RunLosesLease, BeforeExecution,
     UnchangedByCalls, Put, PutFails, AskPlanner, Replan, Withdraw, Cancel,
     CancelPut, CancelPutFails, Crash
<1>4. CASE RecoverRead(r) \/ Acquire(r) \/ Decide(r) \/ Claim(r) \/ Send(r)
  BY <1>1, <1>4 DEF RecoverRead, Acquire, Decide, UnchangedByCalls, Claim, Send
<1>5. CASE Reconcile(r)
  BY <1>1, <1>5 DEF Reconcile, Lasting, Settled, InFlight
<1>6. CASE Create(r)
  <2>1. Oblig(r) \in Obligations /\ ledger \in Ledgers
    BY <1>6, AtWork, WorkShapes DEF BInv, Create, At, Working
  <2>2. \/ UNCHANGED ledger
        \/ /\ ledger[Oblig(r)].state \in {"NONE", "CREATED"}
           /\ ledger' = [ledger EXCEPT ![Oblig(r)].state = "CREATED"]
    BY <1>6 DEF Create
  <2> QED
    BY <1>1, <2>1, <2>2 DEF Lasting, Settled, Ledgers
<1>7. CASE Authorize(r) \/ Dispatch(r)
  BY <1>2, <1>7 DEF Authorize, Dispatch, RecordsFailed, At, Working
<1>8. CASE Respond(r)
  BY <1>1, <1>2, <1>8 DEF Respond, Escapes, At, Working
<1>9. CASE Verify(r)
  BY <1>1, <1>2, <1>9 DEF Verify, Escapes, At, Working
<1>10. CASE Unknown(r)
  BY <1>2, <1>10 DEF Unknown, At, Working
<1> QED
  BY <1>3, <1>4, <1>5, <1>6, <1>7, <1>8, <1>9, <1>10
     DEF Proceed, Execute, Recover

\* What a step of r must leave behind.
LEMMA OrderlyKeeps ==
    ASSUME NInv, AInv', NEW r \in Runtimes, Others(r),
           Tame' =>
               /\ \A q \in Runtimes \ {r} : ~Involved(q)
               /\ ~BlindRepeat'
               /\ RecordLine(Sent', Doubtful', Proven', checkpoint')
               /\ Orderly(r)'
    PROVE  NInv'
<1>1. ASSUME NEW q \in Runtimes \ {r}, ~Involved(q)
      PROVE  Orderly(q)'
  <2>1. job'[q] = job[q] /\ session'[q] = session[q] /\ HasSession(q)
    BY DEF Others, NInv, AInv, HInv, OInv, SInv
  <2>2. ~session[q].on /\ job[q].pc \in {"idle", "down"}
    BY <1>1, <2>1 DEF Involved, HasSession
  <2> QED
    BY <2>1, <2>2 DEF Orderly, Launched, Recovering, Working, Unsent
<1> QED
  BY <1>1 DEF NInv

\* What a runtime at work may rely on.
LEMMA Tamed ==
    ASSUME NInv, NEW r \in Runtimes, Involved(r)
    PROVE  /\ TypeOK /\ LedgerSound /\ checkpoint.on /\ HasSession(r)
           /\ session[r] \in Sessions /\ Certain(Proven, session[r])
           /\ session \in [Runtimes -> Sessions] /\ job \in [Runtimes -> Jobs]
           /\ Tame => /\ \A q \in Runtimes \ {r} : ~Involved(q)
                      /\ ~BlindRepeat /\ Orderly(r) /\ Ahead(r)
                      /\ RecordLine(Sent, Doubtful, Proven, checkpoint)
<1>1. AInv /\ OInv /\ BInv /\ IInv /\ TypeOK
  BY DEF NInv, AInv, HInv, OInv, SInv, BInv, IInv
<1>2. session[r] \in Sessions /\ SessionProven(ledger, session[r])
  BY <1>1, WorkShapes DEF BInv
<1>3. Certain(Proven, session[r])
  BY <1>2, ProvenCertain DEF Proven
<1> QED
  BY <1>1, <1>2, <1>3, ActsAlone, WorkShapes
     DEF NInv, AInv, Present, Tame, Disturbed, BInv, OInv, SInv

\* A step that sends nothing.
LEMMA CalmOrderly ==
    ASSUME NInv, AInv', NEW r \in Runtimes, Others(r), Involved(r), Lasting,
           UNCHANGED delivered, Tame' => Tame,
           Tame /\ Tame' =>
               /\ RecordLine(Sent', Doubtful', Proven', checkpoint')
               /\ Orderly(r)'
    PROVE  NInv'
<1>1. BlindRepeat' => BlindRepeat
  BY LastingSets DEF BlindRepeat, Lasting, Settled, Sent
<1> QED
  BY <1>1, Tamed, OrderlyKeeps

\* A call that ends with session n.
LEMMA FinishOrderly ==
    ASSUME TypeOK, TypeOK', NEW r \in Runtimes, NEW n, NEW own,
           Finish(r, n, own), evidence'[r] = own, SessionProven(ledger', n),
           UNCHANGED checkpoint, checkpoint.on,
           SessionLine(Sent', Doubtful', n), Referred(n, own, checkpoint),
           Replannable(Doubtful', n)
    PROVE  Orderly(r)'
<1> DEFINE j == Saving(n, own, Holds(r, n), "put", 0)
<1>1. session' = [session EXCEPT ![r] = n] /\ job' = [job EXCEPT ![r] = j]
  BY DEF Finish
<1>2. j.pc = "idle" \/ (j.pc = "put" /\ j.view = FromSession(n, own))
  BY DEF Saving, AtRest
<1> HIDE DEF j
<1>3. session'[r] = n /\ job'[r] = j
  BY <1>1, WorkShapes
<1>4. n \in Sessions
  BY <1>3 DEF TypeOK, Sessions
<1>5. Certain(Proven', n)
  BY <1>4, ProvenCertain DEF Proven
<1>6. Doubtful' \in SUBSET Obligations
  BY DEF Doubtful, Sent
<1>7. LET c == FromSession(n, own)
      IN  RecordLine(Sent', Doubtful', Proven', c) /\ Referred(n, own, c)
  BY <1>5, <1>6, RecordOrderly
<1> QED
  BY <1>2, <1>3, <1>7 DEF Orderly, Launched, Recovering, Working, Unsent

-----------------------------------------------------------------------------
(* Steps of one runtime.                                                     *)

\* The updates that end a step.
LEMMA EndsMove ==
    ASSUME NEW s \in Sessions, NEW t \in Steps
    PROVE  /\ Moves(s, Replanned(s, t), t)
           /\ Moves(s, Blocked(s, t), t)
           /\ Moves(s, FailedForGood(s, t), t)
           /\ Moves(s, Verified(s, t), t)
<1> USE DEF Moves, Sessions
<1>1. Moves(s, Replanned(s, t), t) /\ Moves(s, Blocked(s, t), t)
  BY DEF Replanned, Blocked, Absent
<1>2. Moves(s, FailedForGood(s, t), t)
  <2> DEFINE X == Downstream(s, t)
             n == FailedForGood(s, t)
  <2>1. \A u \in X : s.steps[u] = "PENDING"
    BY DEF Downstream
  <2> HIDE DEF X
  <2>2. /\ n.rev = s.rev /\ n.on = s.on
        /\ \A u \in Steps : n.steps[u] = IF u = t THEN "FAILED"
                                         ELSE IF u \in X THEN "BLOCKED"
                                         ELSE s.steps[u]
    BY DEF FailedForGood, X
  <2> HIDE DEF n
  <2>3. Moves(s, n, t)
    BY <2>1, <2>2 DEF Absent
  <2> QED
    BY <2>3 DEF n
<1>3. Moves(s, Verified(s, t), t)
  BY DEF Verified, Absent
<1> QED
  BY <1>1, <1>2, <1>3

LEMMA EndsStates ==
    ASSUME NEW s \in Sessions, NEW t \in Steps
    PROVE  /\ Replanned(s, t).steps[t] = "REPLAN_REQUIRED"
           /\ Blocked(s, t).steps[t] = "BLOCKED"
           /\ Blocked(s, t).status = "BLOCKED"
           /\ FailedForGood(s, t).steps[t] = "FAILED"
           /\ FailedForGood(s, t).status # "REPLAN_REQUIRED"
           /\ Verified(s, t).steps[t] = "VERIFIED"
           /\ Verified(s, t).status # "REPLAN_REQUIRED"
<1> USE DEF Sessions
<1>1. Replanned(s, t).steps[t] = "REPLAN_REQUIRED"
  BY DEF Replanned
<1>2. /\ Blocked(s, t).steps[t] = "BLOCKED" /\ Blocked(s, t).status = "BLOCKED"
  BY DEF Blocked
<1>3. /\ FailedForGood(s, t).steps[t] = "FAILED"
      /\ FailedForGood(s, t).status # "REPLAN_REQUIRED"
  BY DEF FailedForGood
<1>4. /\ Verified(s, t).steps[t] = "VERIFIED"
      /\ Verified(s, t).status # "REPLAN_REQUIRED"
  BY DEF Verified
<1> QED
  BY <1>1, <1>2, <1>3, <1>4

\* A call that ends by moving step t of its session s.
LEMMA MovesEnd ==
    ASSUME TypeOK, TypeOK', NEW r \in Runtimes, NEW s, NEW n, NEW t \in Steps,
           NEW own, Finish(r, n, own), evidence'[r] = own,
           SessionProven(ledger', n), UNCHANGED checkpoint, checkpoint.on,
           SessionLine(Sent', Doubtful', s), Referred(s, evidence[r], checkpoint),
           Moves(s, n, t), t \notin Over(s),
           \A u \in Steps \ {t} : own[<<s.rev, u>>] = evidence[r][<<s.rev, u>>],
           n.steps[t] = "VERIFIED" => own[<<s.rev, t>>].state # NotCreated,
           \/ n.status # "REPLAN_REQUIRED" /\ n.steps[t] # "AWAITING_CONFIRMATION"
           \/ Below(t) \subseteq Over(s),
           \/ n.status # "REPLAN_REQUIRED" /\ n.steps[t] \in Halted \cup {"VERIFIED"}
           \/ <<s.rev, t>> \notin Doubtful'
    PROVE  Orderly(r)'
<1>1. Doubtful' \in SUBSET Obligations /\ Doubtful' \in SUBSET Sent'
  BY DEF Doubtful, Sent
<1>2. SessionLine(Sent', Doubtful', n) /\ Over(s) \subseteq Over(n)
  BY <1>1, MovesLine
<1>3. Replannable(Doubtful', n)
  <2>1. n.status = "REPLAN_REQUIRED" =>
            \A o \in Doubtful' : o[1] = s.rev => o[2] \in Over(s)
    BY <1>1, NothingOpen
  <2> QED
    BY <1>2, <2>1 DEF Replannable, Moves
<1>4. Referred(n, own, checkpoint)
  <2>1. ASSUME NEW u \in Steps \ {t}, n.steps[u] = "VERIFIED"
        PROVE  s.steps[u] = "VERIFIED"
    BY <2>1 DEF Moves
  <2> QED
    BY <2>1 DEF Referred, Moves
<1> QED
  BY <1>2, <1>3, <1>4, FinishOrderly

\* run_dynamic_step up to the executor.
LEMMA RunOrderly ==
    ASSUME NInv, AInv', NEW r \in Runtimes, Run(r),
           UNCHANGED cancelling
    PROVE  NInv'
<1> DEFINE s == session[r]
           t == NextStep(s)
           own == evidence[r]
<1>1. /\ AInv /\ OInv /\ BInv /\ IInv /\ TypeOK /\ TypeOK' /\ BInv'
  BY DEF NInv, AInv, HInv, OInv, SInv, BInv, IInv
<1>2. Others(r)
  BY <1>1, RunEndsStep, RunAllowedStep, BeforeExecutionStep DEF Run, Local
<1>3. UNCHANGED <<ledger, delivered, history, checkpoint, evidence>>
  BY DEF Run, RunFenced, RunRefused, RunNothing, RunUnbound, RunUnauthorized,
         RunAllowed, RunLosesLease, BeforeExecution, UnchangedByCalls
<1>4. s.on /\ Involved(r)
  <2>1. MayCall(r) \/ job[r].pc = "risked"
    BY DEF Run, RunFenced, RunRefused, RunNothing, RunUnbound, RunUnauthorized,
           RunAllowed, RunLosesLease, BeforeExecution, MayRun
  <2>2. HasSession(r)
    BY <1>1 DEF OInv, SInv
  <2> QED
    BY <2>1, <2>2 DEF MayCall, HasSession, Recovering, Involved
<1>5. /\ Sent' = Sent /\ Doubtful' = Doubtful /\ Proven' = Proven
      /\ Tame' = Tame /\ Lasting
  BY <1>3 DEF Sent, Doubtful, Proven, Tame, Disturbed, Lasting
<1>6. /\ LedgerSound /\ checkpoint.on /\ s \in Sessions /\ Certain(Proven, s)
      /\ session \in [Runtimes -> Sessions] /\ job \in [Runtimes -> Jobs]
  BY <1>4, Tamed
<1>7. SUFFICES ASSUME Tame
               PROVE  Orderly(r)'
  BY <1>2, <1>3, <1>4, <1>5, Tamed, CalmOrderly
<1>8. /\ SessionLine(Sent, Doubtful, s) /\ Referred(s, own, checkpoint)
      /\ Replannable(Doubtful, s) /\ Orderly(r)
  BY <1>4, <1>7, Tamed DEF Orderly
<1>9. SessionProven(ledger', session'[r])
  BY <1>1 DEF BInv
<1>10. ASSUME NEW n, Finish(r, n, own)
       PROVE  session'[r] = n /\ evidence'[r] = own /\ SessionProven(ledger', n)
  BY <1>3, <1>6, <1>9, <1>10 DEF Finish
\* The session as it is, but for its status.
<1>11. ASSUME NEW n, n.rev = s.rev, n.steps = s.steps,
              Replannable(Doubtful, n)
       PROVE  /\ SessionLine(Sent, Doubtful, n) /\ Referred(n, own, checkpoint)
  BY <1>8, <1>11 DEF SessionLine, Over, Referred
<1>12. ASSUME NEW n, n.rev = s.rev, n.steps = s.steps,
              Replannable(Doubtful, n), Finish(r, n, own)
       PROVE  Orderly(r)'
  BY <1>1, <1>3, <1>5, <1>6, <1>10, <1>11, <1>12, FinishOrderly
\* One step of it moves.
<1>13. ASSUME NEW n, NEW u \in Steps, Moves(s, n, u), Finish(r, n, own),
              u \notin Over(s), <<s.rev, u>> \notin Doubtful,
              n.steps[u] # "VERIFIED",
              \/ /\ n.status # "REPLAN_REQUIRED"
                 /\ n.steps[u] # "AWAITING_CONFIRMATION"
              \/ Below(u) \subseteq Over(s)
       PROVE  Orderly(r)'
  BY <1>1, <1>3, <1>5, <1>6, <1>8, <1>10, <1>13, MovesEnd
<1>14. HasRunnable(s) => /\ t \in Steps /\ s.steps[t] \in Early
                         /\ Below(t) \subseteq Over(s)
                         /\ t \notin Over(s) /\ <<s.rev, t>> \notin Doubtful
  BY <1>6, <1>7, <1>8, NextStepOrderly DEF Tame
<1>15. \A status : /\ [s EXCEPT !.status = status].rev = s.rev
                   /\ [s EXCEPT !.status = status].steps = s.steps
                   /\ [s EXCEPT !.status = status].status = status
  BY <1>6 DEF Sessions
<1>16. \A n : n.status # "REPLAN_REQUIRED" => Replannable(Doubtful, n)
  BY DEF Replannable
<1>17. CASE RunFenced(r)
  <2> DEFINE n == [s EXCEPT !.status = "BLOCKED"]
  <2>1. session'[r] = n /\ job'[r].pc = "idle"
    BY <1>6, <1>17 DEF RunFenced, MayCall, AtRest
  <2>2. n.rev = s.rev /\ n.steps = s.steps /\ n.status = "BLOCKED"
    BY <1>15
  <2> HIDE DEF n
  <2>3. Replannable(Doubtful, n)
    BY <1>16, <2>2
  <2>4. SessionLine(Sent, Doubtful, n) /\ Referred(n, own, checkpoint)
    BY <1>11, <2>2, <2>3
  <2> QED
    BY <1>3, <1>5, <2>1, <2>3, <2>4
       DEF Orderly, Launched, Recovering, Working, Unsent
<1>18. CASE RunRefused(r)
  BY <1>8, <1>12, <1>18 DEF RunRefused
<1>19. CASE RunNothing(r)
  <2>1. CASE Candidates(s) # {}
    <3>1. t \in Steps /\ s.steps[t] \in Early
      BY <2>1, NextStepEarly
    <3>2. t \notin Over(s) /\ <<s.rev, t>> \notin Doubtful
      BY <1>8, <3>1, EarlyClear
    <3>3. /\ Moves(s, Blocked(s, t), t) /\ Blocked(s, t).steps[t] = "BLOCKED"
          /\ Blocked(s, t).status = "BLOCKED"
      BY <1>6, <3>1, EndsMove, EndsStates
    <3>4. Finish(r, Blocked(s, t), own)
      BY <1>19, <2>1 DEF RunNothing
    <3> QED
      BY <1>13, <3>1, <3>2, <3>3, <3>4
  <2>2. CASE Candidates(s) = {}
    <3>1. Finish(r, [s EXCEPT !.status = "DONE"], own) \/ Finish(r, s, own)
      BY <1>19, <2>2 DEF RunNothing
    <3> QED
      BY <1>8, <1>12, <1>15, <1>16, <3>1
  <2> QED
    BY <2>1, <2>2
<1>20. CASE RunUnbound(r)
  <2>1. HasRunnable(s)
    BY <1>20 DEF RunUnbound
  <2>2. /\ Moves(s, Replanned(s, t), t)
        /\ Replanned(s, t).steps[t] = "REPLAN_REQUIRED"
    BY <1>6, <1>14, <2>1, EndsMove, EndsStates
  <2> DEFINE n == [Blocked(s, t) EXCEPT !.status = "FAILED"]
  <2>3. Moves(s, n, t) /\ n.steps[t] = "BLOCKED"
    BY <1>6, <1>14, <2>1 DEF Moves, Blocked, Absent, Sessions
  <2>4. Finish(r, Replanned(s, t), own) \/ Finish(r, n, own)
    BY <1>20 DEF RunUnbound
  <2> HIDE DEF n
  <2> QED
    BY <1>13, <1>14, <2>1, <2>2, <2>3, <2>4
<1>21. CASE RunUnauthorized(r)
  <2> DEFINE n == [s EXCEPT !.steps[t] = "AWAITING_CONFIRMATION",
                            !.status = "WAITING_CONFIRMATION"]
  <2>1. HasRunnable(s)
    BY <1>21 DEF RunUnauthorized
  <2>2. Moves(s, Blocked(s, t), t) /\ Blocked(s, t).steps[t] = "BLOCKED"
    BY <1>6, <1>14, <2>1, EndsMove, EndsStates
  <2>3. Moves(s, n, t) /\ n.steps[t] = "AWAITING_CONFIRMATION"
    BY <1>6, <1>14, <2>1 DEF Moves, Absent, Sessions
  <2>4. Finish(r, n, own) \/ Finish(r, Blocked(s, t), own)
    BY <1>21 DEF RunUnauthorized
  <2> HIDE DEF n
  <2> QED
    BY <1>13, <1>14, <2>1, <2>2, <2>3, <2>4
<1>22. CASE RunAllowed(r)
  <2> DEFINE n == [s EXCEPT !.steps[t] = "AWAITING_RISK", !.status = "RUNNING"]
  <2>1. HasRunnable(s)
    BY <1>22 DEF RunAllowed
  <2>2. session'[r] = n /\ job'[r].pc = "risked" /\ job'[r].step = t
    BY <1>6, <1>22 DEF RunAllowed, AtRest
  <2>3. Moves(s, n, t) /\ n.steps[t] = "AWAITING_RISK" /\ n.status = "RUNNING"
    BY <1>6, <1>14, <2>1 DEF Moves, Absent, Sessions
  <2> HIDE DEF n
  <2>4. SessionLine(Sent, Doubtful, n) /\ Over(s) \subseteq Over(n)
    BY <1>8, <1>14, <2>1, <2>3, MovesLine DEF Doubtful, Sent
  <2>5. Referred(n, own, checkpoint)
    BY <1>8, <2>3 DEF Referred, Moves
  <2>6. t \notin Over(n)
    BY <2>3 DEF Over, Absent
  <2>7. Oblig(r)' = <<s.rev, t>>
    BY <2>2, <2>3 DEF Oblig, Moves
  <2> QED
    BY <1>3, <1>5, <1>14, <1>16, <2>1, <2>2, <2>3, <2>4, <2>5, <2>6, <2>7
       DEF Orderly, Launched, Recovering, Working, Unsent
<1>23. CASE RunLosesLease(r)
  <2> DEFINE u == job[r].step
             n == Blocked(s, u)
  <2>1. job[r].pc = "risked" /\ session'[r] = n /\ job'[r].pc = "idle"
    BY <1>6, <1>23 DEF RunLosesLease, AtRest
  <2>2. u \in Steps /\ u \notin Over(s) /\ <<s.rev, u>> \notin Doubtful
    BY <1>1, <1>8, <2>1 DEF IInv, StepKnown, Working, Orderly, Unsent, Oblig
  <2>3. Moves(s, n, u) /\ n.steps[u] = "BLOCKED" /\ n.status = "BLOCKED"
    BY <1>6, <2>2, EndsMove, EndsStates
  <2> HIDE DEF n, u
  <2>4. SessionLine(Sent, Doubtful, n)
    BY <1>8, <2>2, <2>3, MovesLine DEF Doubtful, Sent
  <2>5. Referred(n, own, checkpoint)
    BY <1>8, <2>3 DEF Referred, Moves
  <2> QED
    BY <1>3, <1>5, <1>16, <2>1, <2>3, <2>4, <2>5
       DEF Orderly, Launched, Recovering, Working, Unsent
<1>24. CASE BeforeExecution(r)
  <2> DEFINE u == job[r].step
             n == [s EXCEPT !.steps[u] = "EXECUTING",
                            !.token = IF @ = 0 THEN 0 ELSE lease'.token]
             c == FromSession(n, own)
  <2>1. job[r].pc = "risked" /\ session'[r] = n
    BY <1>6, <1>24 DEF BeforeExecution
  <2>2. \/ job'[r].pc = "idle"
        \/ job'[r].pc = "putBefore" /\ job'[r].step = u /\ job'[r].view = c
    <3> DEFINE j == Saving(n, own, n.token # 0 => ~lease'.expired, "putBefore", u)
    <3>1. job'[r] = j
      BY <1>6, <1>24 DEF BeforeExecution
    <3>2. \/ j.pc = "idle"
          \/ j.pc = "putBefore" /\ j.step = u /\ j.view = c
      BY DEF Saving, AtRest
    <3> QED
      BY <3>1, <3>2
  <2>3. /\ u \in Steps /\ u \notin Over(s) /\ <<s.rev, u>> \notin Doubtful
        /\ Below(u) \subseteq Over(s) /\ s.status # "REPLAN_REQUIRED"
    BY <1>1, <1>8, <2>1 DEF IInv, StepKnown, Working, Orderly, Unsent, Oblig
  <2>4. /\ Moves(s, n, u) /\ n.steps[u] = "EXECUTING" /\ n.status = s.status
        /\ n.rev = s.rev
    BY <1>6, <2>3 DEF Moves, Absent, Sessions
  <2> HIDE DEF n, u
  <2>5. SessionLine(Sent, Doubtful, n) /\ Over(s) \subseteq Over(n)
    BY <1>8, <2>3, <2>4, MovesLine DEF Doubtful, Sent
  <2>6. Referred(n, own, checkpoint) /\ Certain(Proven, n)
    BY <1>6, <1>8, <2>4 DEF Referred, Certain, Moves
  <2>7. /\ RecordLine(Sent, Doubtful, Proven, c) /\ Referred(n, own, c)
        /\ Over(n) \subseteq Shown(Proven, c)
    BY <1>6, <2>5, <2>6, RecordOrderly DEF Doubtful, Sent
  <2>8. u \notin Over(n)
    BY <2>4 DEF Over, Absent
  <2>9. c.rev = n.rev /\ c.steps[u].state = "EXECUTING"
    BY <2>3, <2>4, FromSessionStates
  <2> HIDE DEF c
  <2>10. AtWorkIn(Proven, c, <<n.rev, u>>)
    BY <2>3, <2>5, <2>7, <2>9 DEF AtWorkIn
  <2>11. job'[r].pc = "putBefore" => Oblig(r)' = <<n.rev, u>>
    BY <2>1, <2>2 DEF Oblig
  <2>12. Replannable(Doubtful, n)
    BY <1>16, <2>3, <2>4
  <2>13. CASE job'[r].pc = "idle"
    BY <1>3, <1>5, <2>1, <2>5, <2>6, <2>12, <2>13
       DEF Orderly, Launched, Recovering, Working, Unsent
  <2>14. CASE job'[r].pc = "putBefore"
    BY <1>3, <1>5, <2>1, <2>2, <2>3, <2>4, <2>5, <2>6, <2>7, <2>8, <2>10, <2>11,
       <2>12, <2>14 DEF Orderly, Launched, Recovering, Working, Unsent
  <2> QED
    BY <2>2, <2>13, <2>14
<1> QED
  BY <1>17, <1>18, <1>19, <1>20, <1>21, <1>22, <1>23, <1>24 DEF Run

-----------------------------------------------------------------------------
(* The executor.                                                             *)

\* A call of the executor that ends. Only a step that nothing in doubt was sent
\* for may ask for a replan.
LEMMA EndsOrderly ==
    ASSUME NInv, AInv', NEW r \in Runtimes, job[r].pc \in Working, Others(r),
           Lasting, UNCHANGED <<delivered, checkpoint>>, Tame' => Tame,
           NEW own, evidence' = own,
           own = evidence \/ \E state, verified : own = Keep(r, state, verified),
           \/ /\ EndRecoverable(r, own)
              /\ Tame /\ Tame' => Oblig(r) \notin Doubtful'
           \/ EndFinal(r, own)
           \/ EndUnknown(r, own)
           \/ /\ Finish(r, Verified(session[r], job[r].step), own[r])
              /\ own[r][Oblig(r)].state # NotCreated
    PROVE  NInv'
<1> DEFINE s == session[r]
           t == job[r].step
<1>1. /\ AInv /\ OInv /\ IInv /\ TypeOK /\ TypeOK' /\ BInv'
  BY DEF NInv, AInv, HInv, OInv, SInv, BInv, IInv
<1>2. /\ s \in Sessions /\ s.on /\ Involved(r) /\ t \in Steps
      /\ evidence \in [Runtimes -> Evidences]
  BY <1>1, WorkInvolved, AtWork DEF OInv
<1>3. SUFFICES ASSUME Tame, Tame'
               PROVE  Orderly(r)'
  BY <1>2, <1>3, Tamed, LinesLast, CalmOrderly
<1>4. /\ SessionLine(Sent, Doubtful, s) /\ Referred(s, evidence[r], checkpoint)
      /\ Below(t) \subseteq Over(s) /\ t \notin Over(s) /\ checkpoint.on
      /\ session \in [Runtimes -> Sessions]
  BY <1>2, <1>3, Tamed DEF Orderly
<1>5. SessionLine(Sent', Doubtful', s)
  BY <1>4, LinesLast
<1>6. \A u \in Steps \ {t} : own[r][<<s.rev, u>>] = evidence[r][<<s.rev, u>>]
  <2>1. CASE own = evidence
    BY <2>1
  <2>2. ASSUME NEW state, NEW verified, own = Keep(r, state, verified)
        PROVE  \A u \in Steps \ {t} :
                   own[r][<<s.rev, u>>] = evidence[r][<<s.rev, u>>]
    <3>1. \A u \in Steps \ {t} : <<s.rev, u>> # Oblig(r)
      BY DEF Oblig
    <3>2. own = [evidence EXCEPT ![r] = [evidence[r] EXCEPT
                     ![Oblig(r)] = [state |-> state, verified |-> verified]]]
      BY <2>2 DEF Keep
    <3>3. own[r] = [evidence[r] EXCEPT
                     ![Oblig(r)] = [state |-> state, verified |-> verified]]
      BY <1>2, <3>2
    <3>4. \A u \in Steps : <<s.rev, u>> \in Obligations
      BY <1>2 DEF Sessions, Obligations
    <3>5. evidence[r] \in [Obligations -> Evidence]
      BY <1>2 DEF Evidences
    <3> QED
      BY <3>1, <3>3, <3>4, <3>5
  <2> QED
    BY <2>1, <2>2
<1>7. ASSUME NEW n, Finish(r, n, own[r])
      PROVE  SessionProven(ledger', n)
  BY <1>1, <1>4, <1>7 DEF Finish, BInv
<1>8. ASSUME NEW n, Finish(r, n, own[r]), Moves(s, n, t),
             n.steps[t] = "VERIFIED" => own[r][Oblig(r)].state # NotCreated,
             \/ n.status # "REPLAN_REQUIRED" /\ n.steps[t] \in Halted \cup {"VERIFIED"}
             \/ Oblig(r) \notin Doubtful'
      PROVE  Orderly(r)'
  <2>1. Oblig(r) = <<s.rev, t>> /\ evidence'[r] = own[r]
    BY DEF Oblig
  <2> QED
    BY <1>1, <1>2, <1>4, <1>5, <1>6, <1>7, <1>8, <2>1, MovesEnd
<1>9. CASE EndRecoverable(r, own) /\ Oblig(r) \notin Doubtful'
  BY <1>2, <1>8, <1>9, EndsMove, EndsStates DEF EndRecoverable
<1>10. CASE EndFinal(r, own)
  BY <1>2, <1>8, <1>10, EndsMove, EndsStates DEF EndFinal, Halted
<1>11. CASE EndUnknown(r, own)
  BY <1>2, <1>8, <1>11, EndsMove, EndsStates DEF EndUnknown, Halted
<1>12. CASE /\ Finish(r, Verified(s, t), own[r])
            /\ own[r][Oblig(r)].state # NotCreated
  BY <1>2, <1>8, <1>12, EndsMove, EndsStates
<1> QED
  BY <1>3, <1>9, <1>10, <1>11, <1>12

\* A call that goes on without sending.
LEMMA GoesOrderly ==
    ASSUME NInv, AInv', NEW r \in Runtimes, job[r].pc \in Working, Others(r),
           Lasting, UNCHANGED <<delivered, checkpoint, session, evidence>>,
           Tame' => Tame,
           NEW pc \in Working \ {"putBefore"}, Goto(r, pc) \/ Carry(r, pc),
           pc \in Launched => job[r].pc \in Launched,
           pc \in Unsent => job[r].pc \in Unsent
    PROVE  NInv'
<1>1. AInv /\ OInv /\ SInv
  BY DEF NInv, AInv, HInv, OInv
<1>2. Involved(r) /\ job \in [Runtimes -> Jobs]
  BY <1>1, WorkInvolved
<1>3. job'[r].pc = pc /\ job'[r].step = job[r].step
  BY <1>2 DEF Goto, Carry, Jobs
<1>4. Oblig(r)' = Oblig(r)
  BY <1>3 DEF Oblig
<1>5. pc \notin Recovering \cup {"put", "putBefore", "planning"}
  BY DEF Working, Recovering
<1>6. Sent' = Sent /\ Doubtful' \subseteq Doubtful
  BY LastingSets
<1>7. Orderly(r) => Orderly(r)'
  BY <1>3, <1>4, <1>5, <1>6, LinesLast DEF Orderly
<1> QED
  BY <1>2, <1>7, Tamed, LinesLast, CalmOrderly

\* Every step of the executor but the request.
LEMMA ExecuteOrderly ==
    ASSUME NInv, AInv', NEW r \in Runtimes, Execute(r), ~Send(r),
           UNCHANGED cancelling
    PROVE  NInv'
<1>1. AInv /\ OInv /\ BInv /\ IInv
  BY DEF NInv, AInv, HInv, OInv, SInv, BInv
<1>2. job[r].pc \in Working /\ UNCHANGED <<delivered, checkpoint>>
  BY DEF Execute, Claim, Create, Authorize, Dispatch, Respond, Verify, Unknown,
         At, Working, UnchangedByExecutor
<1>3. Others(r)
  BY <1>1, ClaimStep, CreateStep, AuthorizeStep, DispatchStep, RespondStep,
     VerifyStep, UnknownStep DEF Execute, Local
<1>4. Lasting
  BY <1>1, NextLasts DEF Proceed
<1>5. Tame' => Tame
  <2>1. history \in Histories
    BY <1>1, <1>2, AtWork
  <2> QED
    BY <2>1 DEF Execute, Claim, Create, Authorize, Dispatch, Respond, Verify,
                Unknown, Escapes, UnchangedByExecutor, Histories, Tame,
                Disturbed
<1>6. job[r].pc \in Unsent /\ Tame => Oblig(r) \notin Doubtful'
  <2>1. Involved(r)
    BY <1>1, <1>2, WorkInvolved DEF NInv, AInv, HInv, OInv
  <2>2. Doubtful' \subseteq Doubtful
    BY <1>2, <1>4, LastingSets
  <2> QED
    BY <2>1, <2>2, Tamed DEF Orderly
<1>7. ASSUME NEW own,
             own = evidence \/ \E state, verified : own = Keep(r, state, verified),
             \/ /\ EndRecoverable(r, own)
                /\ Tame /\ Tame' => Oblig(r) \notin Doubtful'
             \/ EndFinal(r, own)
             \/ EndUnknown(r, own)
             \/ /\ evidence' = own
                /\ Finish(r, Verified(session[r], job[r].step), own[r])
                /\ own[r][Oblig(r)].state # NotCreated
      PROVE  NInv'
  <2>1. evidence' = own
    BY <1>7 DEF EndRecoverable, EndFinal, EndUnknown
  <2> QED
    BY <1>2, <1>3, <1>4, <1>5, <1>7, <2>1, EndsOrderly
<1>8. ASSUME NEW pc \in {"create", "authorize", "dispatch", "send", "verify",
                         "unknown"},
             Goto(r, pc) \/ Carry(r, pc), UNCHANGED <<session, evidence>>,
             pc \in Launched => job[r].pc \in Launched,
             pc \in Unsent => job[r].pc \in Unsent
      PROVE  NInv'
  <2>1. pc \in Working \ {"putBefore"}
    BY DEF Working
  <2> QED
    BY <1>2, <1>3, <1>4, <1>5, <1>8, <2>1, GoesOrderly
<1>9. /\ {"claim", "create", "authorize", "dispatch"} \subseteq Launched \cap Unsent
      /\ "verify" \notin Launched \cup Unsent
      /\ "unknown" \notin Launched \cup Unsent
  BY DEF Launched, Unsent
<1>10. CASE Claim(r)
  BY <1>6, <1>7, <1>8, <1>9, <1>10 DEF Claim, At
<1>11. CASE Create(r)
  BY <1>7, <1>8, <1>9, <1>11 DEF Create, At
<1>12. CASE Authorize(r)
  BY <1>6, <1>7, <1>8, <1>9, <1>12 DEF Authorize, RecordsFailed, At
<1>13. CASE Dispatch(r)
  BY <1>6, <1>7, <1>8, <1>9, <1>13 DEF Dispatch, RecordsFailed, At
<1>14. CASE Respond(r)
  <2>1. Escapes(r) => ~Tame'
    BY <1>1, <1>2, AtWork DEF Escapes, Tame, Disturbed, Histories
  <2> QED
    BY <1>7, <1>8, <1>9, <1>14, <2>1 DEF Respond, Escapes
<1>15. CASE Verify(r)
  <2>1. Escapes(r) => ~Tame'
    BY <1>1, <1>2, AtWork DEF Escapes, Tame, Disturbed, Histories
  <2>2. job[r].pc \in OnRecord /\ Oblig(r) \in Obligations
    BY <1>1, <1>2, <1>15, AtWork DEF Verify, At, OnRecord
  <2>3. ASSUME NEW target \in Settled, MoveSucceeds(Oblig(r), target)
        PROVE  ledger'[Oblig(r)].state = target
    <3>1. /\ ledger[Oblig(r)] \in LedgerEntry /\ EntryOk(ledger[Oblig(r)])
          /\ ledger \in Ledgers
      BY <1>1, <2>2, WorkShapes DEF BInv, LedgerSound, Ledgers, IInv
    <3>2. AfterMove(ledger[Oblig(r)], target).state = target
      BY <2>3, <3>1, MoveKeeps DEF MoveSucceeds, Settled, ObligationStates
    <3>3. ledger' = [ledger EXCEPT ![Oblig(r)] = AfterMove(ledger[Oblig(r)], target)]
      BY <2>3 DEF MoveSucceeds
    <3> QED
      BY <2>2, <3>1, <3>2, <3>3 DEF Ledgers
  <2>4. MoveSucceeds(Oblig(r), "FAILED") => Oblig(r) \notin Doubtful'
    BY <2>3 DEF Doubtful, Settled
  <2>5. MoveSucceeds(Oblig(r), "VERIFIED") =>
            Keep(r, ledger'[Oblig(r)].state, TRUE)[r][Oblig(r)].state # NotCreated
    <3>1. evidence \in [Runtimes -> Evidences]
      BY <1>1, <1>2, AtWork
    <3>2. Keep(r, "VERIFIED", TRUE)[r][Oblig(r)].state = "VERIFIED"
      BY <2>2, <3>1 DEF Keep, Evidences
    <3> QED
      BY <2>3, <3>2 DEF Settled, NotCreated
  <2>6. \/ /\ MoveSucceeds(Oblig(r), "VERIFIED")
           /\ evidence' = Keep(r, ledger'[Oblig(r)].state, TRUE)
           /\ Finish(r, Verified(session[r], job[r].step), evidence'[r])
        \/ Goto(r, "unknown") /\ UNCHANGED <<session, evidence>>
        \/ /\ MoveSucceeds(Oblig(r), "FAILED")
           /\ EndRecoverable(r, Keep(r, ledger'[Oblig(r)].state, FALSE))
        \/ EndFinal(r, evidence)
        \/ Escapes(r)
    BY <1>15 DEF Verify
  <2> QED
    BY <1>7, <1>8, <1>9, <2>1, <2>4, <2>5, <2>6 DEF Escapes
<1>16. CASE Unknown(r)
  BY <1>7, <1>16 DEF Unknown
<1> QED
  BY <1>10, <1>11, <1>12, <1>13, <1>14, <1>15, <1>16 DEF Execute

\* The request: all before it is over, and no earlier call of its step is in
\* doubt.
LEMMA SendOrderly ==
    ASSUME NInv, AInv', NEW r \in Runtimes, Send(r),
           UNCHANGED cancelling
    PROVE  NInv'
<1> DEFINE s == session[r]
           t == job[r].step
           o == <<s.rev, t>>
<1>1. /\ AInv /\ OInv /\ IInv /\ job[r].pc = "send" /\ job[r].pc \in Working
      /\ UNCHANGED <<ledger, checkpoint, session, evidence, history>>
      /\ Oblig(r) = o
  BY DEF Send, At, Working, NInv, AInv, HInv, OInv, SInv, BInv, Oblig
<1>2. /\ Others(r) /\ Involved(r) /\ s.on /\ s \in Sessions /\ o \in Obligations
      /\ delivered \in [Obligations -> Nat] /\ job \in [Runtimes -> Jobs]
      /\ t \in Steps
  BY <1>1, WorkInvolved, AtWork, SendStep, Shapes DEF Local, AInv, HInv, OInv
<1>3. /\ Sent \subseteq Sent' /\ Sent' \subseteq Sent \cup {o}
      /\ Doubtful' \subseteq Doubtful \cup {o} /\ Proven' = Proven /\ Tame' = Tame
  BY <1>1, <1>2 DEF Send, Sent, Doubtful, Proven, Tame, Disturbed
<1>4. /\ job'[r].pc \in {"answered", "lost"} /\ job'[r].step = t
  BY <1>2 DEF Send, Goto, Jobs
<1>5. SUFFICES ASSUME Tame
               PROVE  /\ ~BlindRepeat'
                      /\ RecordLine(Sent', Doubtful', Proven', checkpoint')
                      /\ Orderly(r)'
  BY <1>2, <1>3, Tamed, OrderlyKeeps
<1>6. /\ Orderly(r) /\ ~BlindRepeat /\ s.steps[t] = "EXECUTING"
      /\ RecordLine(Sent, Doubtful, Proven, checkpoint)
  BY <1>1, <1>2, <1>5, Tamed DEF Ahead, Launched
<1>7. /\ SessionLine(Sent, Doubtful, s) /\ Below(t) \subseteq Over(s)
      /\ Referred(s, evidence[r], checkpoint) /\ t \notin Over(s)
      /\ s.status # "REPLAN_REQUIRED" /\ AtWorkIn(Proven, checkpoint, o)
  BY <1>1, <1>2, <1>6 DEF Orderly, Launched
<1>8. o[1] = s.rev /\ o[2] = t /\ s.rev \in Nat
  BY <1>2, PlanAssumption DEF Sessions, Revisions
<1> HIDE DEF o
<1>9. SessionLine(Sent', Doubtful', s)
  BY <1>3, <1>6, <1>7, <1>8 DEF SessionLine, Line, Halted
<1>10. RecordLine(Sent', Doubtful', Proven', checkpoint)
  BY <1>2, <1>3, <1>6, <1>7, <1>8 DEF RecordLine, Line, Halted, AtWorkIn
<1>11. ~BlindRepeat'
  <2> SUFFICES ASSUME NEW a \in Sent', NEW b \in Sent', a[2] = b[2], a[1] < b[1],
                      ledger[a].state # "FAILED"
               PROVE  FALSE
    BY <1>1 DEF BlindRepeat
  <2>1. a \in Obligations /\ b \in Obligations
    BY DEF Sent
  <2>2. a[1] \in Nat /\ b[1] \in Nat
    BY <2>1, PlanAssumption DEF Obligations, Revisions
  <2>3. CASE b = o
    <3>1. a # o /\ a \in Doubtful
      BY <1>3, <2>2, <2>3 DEF Doubtful
    <3>2. s.steps[a[2]] = Absent
      BY <1>7, <1>8, <2>2, <2>3, <3>1 DEF SessionLine, Line
    <3> QED
      BY <1>6, <1>8, <2>3, <3>2 DEF Absent
  <2>4. CASE b # o
    <3>1. b \in Sent
      BY <1>3, <2>4
    <3>2. b[1] <= s.rev
      BY <1>7, <3>1 DEF SessionLine, Line
    <3>3. a \in Sent
      BY <1>3, <1>8, <2>2, <3>2
    <3> QED
      BY <1>6, <3>1, <3>3 DEF BlindRepeat
  <2> QED
    BY <2>3, <2>4
<1>12. Orderly(r)'
  BY <1>1, <1>4, <1>7, <1>9
     DEF Orderly, Replannable, Launched, Recovering, Working, Unsent
<1> QED
  BY <1>1, <1>10, <1>11, <1>12

-----------------------------------------------------------------------------
(* The stores, cancelling, replanning, crashing and recovering.              *)

LEMMA PutOrderly ==
    ASSUME NInv, AInv', NEW r \in Runtimes, Put(r) \/ PutFails(r),
           UNCHANGED cancelling
    PROVE  NInv'
<1> DEFINE claim == [AtRest EXCEPT !.pc = "claim", !.step = job[r].step]
<1>1. /\ AInv /\ OInv /\ BInv /\ IInv /\ TypeOK /\ HasSession(r)
      /\ job \in [Runtimes -> Jobs]
      /\ UNCHANGED <<ledger, delivered, session, evidence, history>>
      /\ job[r].pc \in {"put", "putBefore"}
  BY WorkShapes DEF Put, PutFails, NInv, AInv, HInv, OInv, SInv, BInv, IInv
<1>2. Others(r) /\ session[r].on /\ Involved(r)
  BY <1>1, PutStep DEF Local, HasSession, Recovering, Involved
<1>3. /\ Sent' = Sent /\ Doubtful' = Doubtful /\ Proven' = Proven
      /\ Tame' = Tame /\ Lasting
  BY <1>1 DEF Sent, Doubtful, Proven, Tame, Disturbed, Lasting
<1>4. /\ AtRest.pc = "idle" /\ claim.pc = "claim" /\ claim.step = job[r].step
  BY DEF AtRest
<1>5. \/ job'[r] = AtRest /\ checkpoint' \in {checkpoint, job[r].view}
      \/ /\ job'[r] = claim /\ checkpoint' = job[r].view
         /\ job[r].pc = "putBefore"
  BY <1>1 DEF Put, PutFails
<1> HIDE DEF claim
<1>6. job'[r] = claim => Oblig(r)' = Oblig(r)
  BY <1>1, <1>4 DEF Oblig
<1>7. SUFFICES ASSUME Tame
               PROVE  /\ RecordLine(Sent', Doubtful', Proven', checkpoint')
                      /\ Orderly(r)'
  BY <1>1, <1>2, <1>3, CalmOrderly
<1>8. Orderly(r) /\ RecordLine(Sent, Doubtful, Proven, checkpoint)
  BY <1>2, <1>7, Tamed
<1>9. RecordLine(Sent', Doubtful', Proven', checkpoint')
  BY <1>1, <1>3, <1>5, <1>8 DEF Orderly
<1>10. CASE job'[r] = AtRest
  BY <1>1, <1>2, <1>3, <1>4, <1>5, <1>8, <1>10
     DEF Orderly, Launched, Recovering, Working, Unsent
<1>11. CASE /\ job'[r] = claim /\ checkpoint' = job[r].view
            /\ job[r].pc = "putBefore"
  BY <1>1, <1>2, <1>3, <1>4, <1>6, <1>8, <1>11
     DEF Orderly, Launched, Recovering, Working, Unsent
<1> QED
  BY <1>5, <1>9, <1>10, <1>11

LEMMA CancelOrderly ==
    ASSUME NInv, AInv', NEW r \in Runtimes, Cancel(r)
    PROVE  NInv'
<1> DEFINE s == session[r]
           n == CancelledSession(s)
<1>1. /\ AInv /\ OInv /\ BInv /\ IInv /\ TypeOK /\ s.on /\ Involved(r)
      /\ job[r].pc \notin Recovering /\ StepKnown(r)
      /\ UNCHANGED <<ledger, delivered, checkpoint, job, evidence>>
      /\ history \in Histories
  BY WorkShapes DEF Cancel, Involved, NInv, AInv, HInv, OInv, SInv, BInv, IInv
<1>2. /\ Others(r) /\ s \in Sessions /\ checkpoint.on /\ Certain(Proven, s)
      /\ session \in [Runtimes -> Sessions] /\ job \in [Runtimes -> Jobs]
  BY <1>1, Tamed, CancelStep DEF Local
<1>3. session'[r] = n /\ Tame' = Tame
  BY <1>1, <1>2 DEF Cancel, Histories, Tame, Disturbed
<1>4. /\ Sent' = Sent /\ Doubtful' = Doubtful /\ Proven' = Proven /\ Lasting
  BY <1>1 DEF Sent, Doubtful, Proven, Lasting
<1>5. SUFFICES ASSUME Tame
               PROVE  /\ RecordLine(Sent', Doubtful', Proven', checkpoint')
                      /\ Orderly(r)'
  BY <1>1, <1>2, <1>3, <1>4, CalmOrderly
<1>6. /\ Orderly(r) /\ Ahead(r) /\ RecordLine(Sent, Doubtful, Proven, checkpoint)
  BY <1>1, <1>5, Tamed
<1>7. /\ n.rev = s.rev /\ n.on = s.on /\ n.status = "CANCELLED"
      /\ \A u \in Steps :
             /\ s.steps[u] \in Halted \cup {"VERIFIED", Absent} =>
                    n.steps[u] = s.steps[u]
             /\ n.steps[u] \in {s.steps[u], "CANCELLED"}
             /\ n.steps[u] # "AWAITING_CONFIRMATION"
  BY <1>2 DEF CancelledSession, Cancellable, Halted, Absent, Sessions
<1> HIDE DEF n
<1>8. Over(n) = Over(s)
  BY <1>7 DEF Over, Absent
<1>9. SessionLine(Sent, Doubtful, n)
  <2>1. SessionLine(Sent, Doubtful, s)
    BY <1>1, <1>6 DEF Orderly
  <2>2. \A o \in Doubtful : o[2] \in Steps
    BY DEF Doubtful, Sent, Obligations
  <2>3. \A u \in Steps : n.steps[u] \in {"AWAITING_CONFIRMATION", Absent} =>
                             s.steps[u] = Absent
    BY <1>7 DEF Absent
  <2> QED
    BY <1>7, <1>8, <2>1, <2>2, <2>3 DEF SessionLine, Line, Over
<1>10. /\ \A x : Referred(s, evidence[r], x) => Referred(n, evidence[r], x)
       /\ Certain(Proven, n) /\ Replannable(Doubtful, n)
  <2>1. \A u \in Steps : n.steps[u] = "VERIFIED" => s.steps[u] = "VERIFIED"
    BY <1>7
  <2> QED
    BY <1>2, <1>7, <2>1 DEF Referred, Certain, Replannable
<1>11. Referred(n, evidence[r], checkpoint)
  BY <1>1, <1>6, <1>10 DEF Orderly
<1>12. Oblig(r)' = Oblig(r)
  BY <1>1, <1>3, <1>7 DEF Oblig
<1>13. Orderly(r)'
  BY <1>1, <1>3, <1>4, <1>6, <1>7, <1>8, <1>9, <1>10, <1>11, <1>12 DEF Orderly
<1> QED
  BY <1>1, <1>4, <1>6, <1>13

\* Its put, when it is not late, is taken of the session as it is.
LEMMA CancelPutOrderly ==
    ASSUME NInv, AInv', NEW r \in Runtimes, CancelPut(r)
    PROVE  NInv'
<1> DEFINE s == session[r]
           c == FromSession(s, evidence[r])
           t == job[r].step
<1>1. /\ AInv /\ OInv /\ BInv /\ IInv /\ TypeOK /\ s.on /\ Involved(r)
      /\ StepKnown(r) /\ history \in Histories
      /\ UNCHANGED <<ledger, delivered, session, evidence, job>>
  BY WorkShapes DEF CancelPut, HasSession, Involved, NInv, AInv, HInv, OInv, SInv,
                    BInv, IInv
<1>2. Others(r) /\ s \in Sessions /\ checkpoint.on /\ Certain(Proven, s)
  BY <1>1, Tamed DEF Others
<1>3. Tame' => Tame /\ checkpoint' = c /\ job[r].pc \notin Recovering
  BY <1>1 DEF CancelPut, Histories, Tame, Disturbed
<1>4. /\ Sent' = Sent /\ Doubtful' = Doubtful /\ Proven' = Proven /\ Lasting
      /\ Oblig(r)' = Oblig(r)
  BY <1>1 DEF Sent, Doubtful, Proven, Lasting, Oblig
<1>5. SUFFICES ASSUME Tame, Tame'
               PROVE  /\ RecordLine(Sent', Doubtful', Proven', checkpoint')
                      /\ Orderly(r)'
  BY <1>1, <1>2, <1>3, <1>4, CalmOrderly
<1>6. Orderly(r) /\ Ahead(r)
  BY <1>1, <1>5, Tamed
<1>7. /\ RecordLine(Sent, Doubtful, Proven, c) /\ Referred(s, evidence[r], c)
      /\ Over(s) \subseteq Shown(Proven, c)
  BY <1>1, <1>2, <1>6, RecordOrderly DEF Orderly, Doubtful, Sent
<1>8. ASSUME job[r].pc \in Launched
      PROVE  AtWorkIn(Proven, c, Oblig(r))
  <2>1. t \in Steps /\ s.steps[t] = "EXECUTING" /\ Below(t) \subseteq Over(s)
    BY <1>1, <1>6, <1>8 DEF Ahead, Orderly, StepKnown, Working, Launched
  <2>2. c.rev = s.rev /\ c.steps[t].state = "EXECUTING"
    BY <2>1, FromSessionStates
  <2> QED
    BY <1>7, <2>1, <2>2 DEF AtWorkIn, Oblig
<1> HIDE DEF c
<1>9. Orderly(r)'
  BY <1>1, <1>3, <1>4, <1>5, <1>6, <1>7, <1>8 DEF Orderly
<1> QED
  BY <1>3, <1>4, <1>5, <1>7, <1>9

\* The planner is asked when every doubtful step is over.
LEMMA AskPlannerOrderly ==
    ASSUME NInv, AInv', NEW r \in Runtimes, AskPlanner(r), UNCHANGED cancelling
    PROVE  NInv'
<1>1. /\ AInv /\ IInv /\ job \in [Runtimes -> Jobs]
      /\ UNCHANGED <<ledger, delivered, checkpoint, session, evidence, history>>
      /\ session[r].on /\ Involved(r)
      /\ session[r].status = "REPLAN_REQUIRED" /\ session[r].failed # 0
  BY WorkShapes DEF AskPlanner, MayCall, UnchangedByCalls, Involved, NInv, AInv,
                    HInv, OInv, SInv, BInv, IInv
<1>2. Others(r)
  BY <1>1, AskPlannerStep DEF Local
<1>3. /\ Sent' = Sent /\ Doubtful' = Doubtful /\ Proven' = Proven
      /\ Tame' = Tame /\ Lasting
  BY <1>1 DEF Sent, Doubtful, Proven, Tame, Disturbed, Lasting
<1>4. job'[r].pc = "planning"
  BY <1>1 DEF AskPlanner, AtRest
<1>5. Orderly(r) => Orderly(r)'
  BY <1>1, <1>3, <1>4
     DEF Orderly, Replannable, Launched, Recovering, Working, Unsent
<1> QED
  BY <1>1, <1>2, <1>3, <1>5, Tamed, CalmOrderly

\* A replan leaves behind only what is over.
LEMMA ReplanOrderly ==
    ASSUME NInv, AInv', NEW r \in Runtimes, Replan(r),
           UNCHANGED cancelling
    PROVE  NInv'
<1> DEFINE s == session[r]
           own == evidence[r]
           remaining == [t \in Steps |->
                            IF s.steps[t] \in {Absent, "VERIFIED"} THEN Absent
                            ELSE "PENDING"]
           again == [s EXCEPT !.rev = @ + 1, !.status = "READY", !.failed = 0,
                              !.steps = remaining]
<1>1. /\ AInv /\ OInv /\ BInv /\ IInv /\ TypeOK /\ TypeOK' /\ BInv'
      /\ UNCHANGED <<ledger, delivered, checkpoint, evidence, history>>
      /\ s.on /\ Involved(r) /\ job[r].pc = "planning"
  BY DEF Replan, At, HasSession, Recovering, UnchangedByCalls, Involved, NInv, AInv,
         HInv, OInv, SInv, BInv, IInv
<1>2. /\ Others(r) /\ s \in Sessions /\ checkpoint.on /\ Certain(Proven, s)
      /\ session \in [Runtimes -> Sessions] /\ job \in [Runtimes -> Jobs]
      /\ LedgerSound
  BY <1>1, Tamed, ReplanStep DEF Local
<1>3. /\ Sent' = Sent /\ Doubtful' = Doubtful /\ Proven' = Proven
      /\ Tame' = Tame /\ Lasting
  BY <1>1 DEF Sent, Doubtful, Proven, Tame, Disturbed, Lasting
<1>4. SUFFICES ASSUME Tame
               PROVE  Orderly(r)'
  BY <1>1, <1>2, <1>3, Tamed, CalmOrderly
<1>5. PICK n \in {[s EXCEPT !.status = "FAILED"], [s EXCEPT !.status = "BLOCKED"],
                  again} :
          /\ session' = [session EXCEPT ![r] = n]
          /\ job' = [job EXCEPT ![r] = Saving(n, own, Owns(r, n), "put", 0)]
  BY DEF Replan
<1>6. /\ SessionLine(Sent, Doubtful, s) /\ Referred(s, own, checkpoint)
      /\ \A o \in Doubtful : o[1] = s.rev => o[2] \in Over(s)
  BY <1>1, <1>4, Tamed DEF Orderly
<1>7. n.status # "REPLAN_REQUIRED"
  <2>1. /\ again.status = "READY"
        /\ [s EXCEPT !.status = "FAILED"].status = "FAILED"
        /\ [s EXCEPT !.status = "BLOCKED"].status = "BLOCKED"
    BY <1>2 DEF Sessions
  <2> HIDE DEF again
  <2> QED
    BY <1>5, <2>1
<1>8. SessionLine(Sent, Doubtful, n) /\ Referred(n, own, checkpoint)
  <2>1. CASE n # again
    <3>1. n.rev = s.rev /\ n.steps = s.steps
      BY <1>2, <1>5, <2>1 DEF Sessions
    <3> QED
      BY <1>6, <3>1 DEF SessionLine, Over, Referred
  <2>2. CASE n = again
    <3>1. n.rev = s.rev + 1 /\ n.steps = remaining /\ s.rev \in Nat
      BY <1>2, <2>2, PlanAssumption DEF Sessions, Revisions
    <3>2. \A t \in Steps : n.steps[t] = Absent <=> t \in Over(s)
      BY <3>1 DEF Over, Absent
    <3>3. \A t \in Steps : n.steps[t] \notin {"AWAITING_CONFIRMATION", "VERIFIED"}
      BY <3>1 DEF Absent
    <3>4. Over(s) \subseteq Over(n)
      BY <3>2 DEF Over
    <3>5. \A t \in Over(s) : Below(t) \subseteq Over(s)
      BY <1>2, <1>6, OverLine
    <3>6. \A o \in Sent : o[2] \in Steps /\ o[1] \in Nat /\ o[1] <= s.rev
      BY <1>6, PlanAssumption DEF SessionLine, Line, Sent, Obligations, Revisions
    <3>7. \A o \in Sent : o[1] <= n.rev /\ o[1] # n.rev
      BY <3>1, <3>6
    <3>8. \A o \in Doubtful : n.steps[o[2]] = Absent
      <4> SUFFICES ASSUME NEW o \in Doubtful
                   PROVE  o[2] \in Over(s)
        BY <3>2, <3>6 DEF Doubtful
      <4>1. CASE o[1] = s.rev
        BY <1>6, <4>1
      <4>2. CASE o[1] # s.rev
        BY <1>6, <3>6, <4>2 DEF SessionLine, Line, Over, Doubtful
      <4> QED
        BY <4>1, <4>2
    <3> HIDE DEF remaining, again
    <3>9. SessionLine(Sent, Doubtful, n)
      BY <3>2, <3>3, <3>4, <3>5, <3>7, <3>8 DEF SessionLine, Line, Doubtful
    <3> QED
      BY <3>3, <3>9 DEF Referred
  <2> QED
    BY <2>1, <2>2
<1> DEFINE j == Saving(n, own, Owns(r, n), "put", 0)
<1>9. session'[r] = n /\ job'[r] = j
  BY <1>2, <1>5
<1>10. j.pc = "idle" \/ (j.pc = "put" /\ j.view = FromSession(n, own))
  BY DEF Saving, AtRest
<1> HIDE DEF j, again
<1>11. Certain(Proven, n)
  <2>1. n \in Sessions /\ SessionProven(ledger, n)
    BY <1>1, <1>9, WorkShapes DEF BInv, TypeOK, Sessions
  <2> QED
    BY <2>1, ProvenCertain DEF Proven
<1>12. LET c == FromSession(n, own)
       IN  RecordLine(Sent, Doubtful, Proven, c) /\ Referred(n, own, c)
  BY <1>2, <1>8, <1>11, RecordOrderly DEF Doubtful, Sent
<1> QED
  BY <1>1, <1>3, <1>7, <1>8, <1>9, <1>10, <1>12
     DEF Orderly, Replannable, Launched, Recovering, Working, Unsent

LEMMA CrashOrderly ==
    ASSUME NInv, AInv', NEW r \in Runtimes, Crash(r)
    PROVE  NInv'
<1>1. /\ session \in [Runtimes -> Sessions] /\ job \in [Runtimes -> Jobs]
      /\ evidence \in [Runtimes -> Evidences]
      /\ UNCHANGED <<ledger, delivered, checkpoint, history>>
  BY WorkShapes DEF Crash, NInv, AInv, HInv, OInv, SInv, BInv, IInv
<1>2. /\ \A q \in Runtimes \ {r} :
             /\ job'[q] = job[q] /\ session'[q] = session[q]
             /\ evidence'[q] = evidence[q]
      /\ job'[r].pc = "down" /\ ~session'[r].on
  BY <1>1 DEF Crash, Down, AtRest, NoSession
<1>3. /\ Sent' = Sent /\ Doubtful' = Doubtful /\ Proven' = Proven
      /\ Tame' = Tame /\ BlindRepeat' = BlindRepeat
  BY <1>1 DEF Sent, Doubtful, Proven, Tame, Disturbed, BlindRepeat
<1>4. \A q \in Runtimes \ {r} : Orderly(q) => Orderly(q)'
  BY <1>1, <1>2, <1>3 DEF Orderly, Oblig
<1>5. Orderly(r)'
  BY <1>2 DEF Orderly, Launched, Recovering, Working, Unsent
<1> QED
  BY <1>1, <1>3, <1>4, <1>5 DEF NInv

LEMMA RecoverReadOrderly ==
    ASSUME NInv, AInv', NEW r \in Runtimes, RecoverRead(r),
           UNCHANGED cancelling
    PROVE  NInv'
<1>1. /\ AInv /\ IInv /\ TypeOK /\ job \in [Runtimes -> Jobs]
      /\ history \in Histories
      /\ UNCHANGED <<ledger, delivered, checkpoint, session, evidence>>
  BY WorkShapes DEF RecoverRead, NInv, AInv, HInv, OInv, SInv, BInv, IInv
<1>2. Others(r)
  BY <1>1, RecoverReadStep DEF Local
<1>3. /\ Sent' = Sent /\ Doubtful' = Doubtful /\ Proven' = Proven
      /\ BlindRepeat' = BlindRepeat
  BY <1>1 DEF Sent, Doubtful, Proven, BlindRepeat
<1>4. job'[r].pc = "acquire" /\ job'[r].view = checkpoint
  BY <1>1 DEF RecoverRead, AtRest
<1>5. Tame' => Tame /\ \A q \in Runtimes \ {r} : ~Involved(q)
  BY <1>1 DEF RecoverRead, Histories, Tame, Disturbed
<1>6. Orderly(r) => Orderly(r)'
  BY <1>1, <1>3, <1>4 DEF Orderly, Launched, Recovering, Working, Unsent
<1> QED
  BY <1>1, <1>2, <1>3, <1>5, <1>6, OrderlyKeeps DEF NInv

LEMMA AcquireOrderly ==
    ASSUME NInv, AInv', NEW r \in Runtimes, Acquire(r) \/ Reconcile(r),
           UNCHANGED cancelling
    PROVE  NInv'
<1>1. /\ AInv /\ BInv /\ IInv /\ TypeOK /\ job \in [Runtimes -> Jobs]
      /\ UNCHANGED <<delivered, checkpoint, history, session, evidence>>
      /\ Involved(r) /\ job[r].pc \in Recovering
  BY WorkShapes DEF Acquire, Reconcile, At, Involved, Recovering, NInv, AInv,
                    HInv, SInv, BInv, IInv
<1>2. Others(r) /\ Lasting
  BY <1>1, AcquireStep, ReconcileStep, NextLasts DEF Local, Recover, Proceed
<1>3. \/ job'[r].pc = "idle"
      \/ job'[r].pc \in {"reconcile", "decide"} /\ job'[r].view = job[r].view
  <2>1. \/ job' = [job EXCEPT ![r] = AtRest]
        \/ job' = [job EXCEPT ![r].pc = "reconcile", ![r].token = lease'.token]
        \/ job' = [job EXCEPT ![r].pc = "decide"]
    BY DEF Acquire, Reconcile, GiveUp, Goto
  <2>2. job[r] \in Jobs
    BY <1>1
  <2> QED
    BY <1>1, <2>1, <2>2 DEF AtRest, Jobs
<1>4. Orderly(r) => Orderly(r)'
  BY <1>1, <1>2, <1>3, LinesLast
     DEF Orderly, Launched, Recovering, Working, Unsent
<1>5. Tame' = Tame
  BY <1>1 DEF Tame, Disturbed
<1> QED
  BY <1>1, <1>2, <1>4, <1>5, Tamed, LinesLast, CalmOrderly

\* What recover_dynamic_plan makes of a step, when ledger and checkpoint agree.
LEMMA RecoveredOver ==
    ASSUME NEW c \in Checkpoints, NEW t \in Steps,
           c.steps[t].state # Absent => Correlated(c, t)
    PROVE  LET x == RecoveredStep(c, t)
           IN  /\ t \in Shown(Proven, c) => x \in {"VERIFIED", Absent}
               /\ x = "VERIFIED" => /\ c.steps[t].ref = c.rev
                                    /\ <<c.rev, t>> \in Proven
               /\ x = Absent <=> c.steps[t].state = Absent
               /\ x = "AWAITING_CONFIRMATION" =>
                      c.steps[t].state = "AWAITING_CONFIRMATION"
               /\ c.steps[t].state \in Halted => x \in Halted \cup {"VERIFIED"}
<1> DEFINE x == RecoveredStep(c, t)
<1>1. /\ c.rev \in Revisions /\ c.rev # 0 /\ <<c.rev, t>> \in Obligations
  BY PlanAssumption DEF Checkpoints, Revisions, Obligations
<1>2. CASE c.steps[t].state = Absent
  BY <1>2 DEF RecoveredStep, Absent, Halted
<1>3. CASE c.steps[t].state # Absent
  <2>1. c.steps[t].ref \in {0, c.rev}
    BY <1>3 DEF Correlated
  <2>2. LedgerOf(c, t) = "VERIFIED" <=>
            c.steps[t].ref = c.rev /\ <<c.rev, t>> \in Proven
    BY <1>1, <2>1 DEF LedgerOf, Proven, NotCreated
  <2>3. t \in Shown(Proven, c) <=> LedgerOf(c, t) = "VERIFIED"
    BY <1>3, <2>2 DEF Shown
  <2>4. /\ x = "VERIFIED" <=> LedgerOf(c, t) = "VERIFIED"
        /\ x # Absent
        /\ x = "AWAITING_CONFIRMATION" =>
               c.steps[t].state = "AWAITING_CONFIRMATION"
        /\ c.steps[t].state \in Halted => x \in Halted \cup {"VERIFIED"}
    BY <1>3 DEF RecoveredStep, Uncertain, Absent, Halted
  <2> HIDE DEF x
  <2>5. /\ t \in Shown(Proven, c) => x = "VERIFIED"
        /\ x = "VERIFIED" => c.steps[t].ref = c.rev /\ <<c.rev, t>> \in Proven
    BY <2>2, <2>3, <2>4
  <2> QED
    BY <1>3, <2>4, <2>5 DEF x
<1> QED
  BY <1>2, <1>3

\* A session it installs has the line of the checkpoint, and is not one that
\* may be replanned.
LEMMA DecideOrders ==
    ASSUME TypeOK, LedgerSound, Chained, NEW r \in Runtimes, Decide(r),
           RecordLine(Sent, Doubtful, Proven, job[r].view)
    PROVE  \/ GiveUp(r) /\ UNCHANGED session
           \/ \E s : /\ Install(r, s) /\ SessionLine(Sent, Doubtful, s)
                    /\ Referred(s, evidence[r], job[r].view)
                    /\ Replannable(Doubtful, s)
<1> DEFINE c == job[r].view
           steps == [t \in Steps |-> RecoveredStep(c, t)]
           planned == {t \in Steps : c.steps[t].state # Absent}
           ready == Recovered(r, "READY", steps, 0)
           Good(s) == /\ SessionLine(Sent, Doubtful, s)
                      /\ Referred(s, evidence[r], c)
                      /\ Replannable(Doubtful, s)
<1>0. c \in Checkpoints /\ c.rev \in Revisions /\ job[r].token \in Nat
  BY WorkShapes DEF Jobs, Checkpoints
<1>1. steps \in [Steps -> StepStates \cup {Absent}]
  BY <1>0, RecoveredStepTyped
<1>2. ASSUME \A t \in planned : Correlated(c, t)
      PROVE  \A t \in Steps :
                 /\ t \in Shown(Proven, c) => steps[t] \in {"VERIFIED", Absent}
                 /\ steps[t] = "VERIFIED" => /\ c.steps[t].ref = c.rev
                                             /\ <<c.rev, t>> \in Proven
                 /\ steps[t] = Absent <=> c.steps[t].state = Absent
                 /\ steps[t] = "AWAITING_CONFIRMATION" =>
                        c.steps[t].state = "AWAITING_CONFIRMATION"
                 /\ c.steps[t].state \in Halted =>
                        steps[t] \in Halted \cup {"VERIFIED"}
  BY <1>0, <1>2, RecoveredOver
<1> HIDE DEF steps
<1>3. ASSUME \A t \in planned : Correlated(c, t), NEW s, s.rev = c.rev,
             s.steps = steps
      PROVE  /\ SessionLine(Sent, Doubtful, s) /\ Referred(s, evidence[r], c)
             /\ Certain(Proven, s)
  <2>1. Shown(Proven, c) \subseteq Over(s)
    BY <1>2, <1>3 DEF Over, Shown
  <2>2. Referred(s, evidence[r], c) /\ Certain(Proven, s)
    BY <1>2, <1>3 DEF Referred, Certain
  <2>3. \A o \in Doubtful : o[2] \in Steps
    BY DEF Doubtful, Sent, Obligations
  <2>4. ASSUME NEW t \in Steps, s.steps[t] \in {"AWAITING_CONFIRMATION", Absent}
        PROVE  Below(t) \subseteq Over(s)
    <3>1. c.steps[t].state \in {"AWAITING_CONFIRMATION", Absent}
      BY <1>2, <1>3, <2>4
    <3> QED
      BY <2>1, <3>1 DEF RecordLine, Line
  <2>5. ASSUME NEW o \in Sent
        PROVE  o[1] <= s.rev /\ (o[1] = s.rev => Below(o[2]) \subseteq Over(s))
    BY <1>3, <2>1 DEF RecordLine, Line
  <2>6. ASSUME NEW o \in Doubtful
        PROVE  IF o[1] = s.rev THEN s.steps[o[2]] \in Halted \/ o[2] \in Over(s)
                               ELSE s.steps[o[2]] = Absent
    <3>1. IF o[1] = c.rev
          THEN c.steps[o[2]].state \in Halted \/ o[2] \in Shown(Proven, c)
          ELSE c.steps[o[2]].state = Absent
      BY <2>3 DEF RecordLine, Line
    <3> QED
      BY <1>2, <1>3, <2>1, <2>3, <3>1 DEF Over
  <2>7. SessionLine(Sent, Doubtful, s)
    BY <2>4, <2>5, <2>6 DEF SessionLine, Line
  <2> QED
    BY <2>2, <2>7
<1>4. ASSUME NEW status, NEW failed
      PROVE  LET s == Recovered(r, status, steps, failed)
             IN  /\ s.rev = c.rev /\ s.steps = steps
                 /\ s.status = status /\ s.failed = failed
  BY DEF Recovered
<1> HIDE DEF ready
<1>5. \/ GiveUp(r) /\ UNCHANGED session
      \/ /\ \A t \in planned : Correlated(c, t)
         /\ \E status, failed :
                /\ status = "REPLAN_REQUIRED" => failed = 0
                /\ Install(r, Recovered(r, status, steps, failed))
      \/ /\ \A t \in planned : Correlated(c, t)
         /\ ResumesOrNot(r, ready)
  BY DEF Decide, steps, ready
<1>6. CASE ResumesOrNot(r, ready) /\ \A t \in planned : Correlated(c, t)
  <2> DEFINE u == NextStep(ready)
             waits == [ready EXCEPT !.steps[u] = "AWAITING_CONFIRMATION",
                                    !.status = "WAITING_CONFIRMATION"]
  <2>1. \/ GiveUp(r) /\ UNCHANGED session
        \/ HasRunnable(ready) /\ (Install(r, waits) \/ Install(r, ready))
    BY <1>6 DEF ResumesOrNot
  <2>2. ready.rev = c.rev /\ ready.steps = steps /\ ready.status = "READY"
    BY <1>4 DEF ready
  <2>3. /\ SessionLine(Sent, Doubtful, ready) /\ Referred(ready, evidence[r], c)
        /\ Certain(Proven, ready)
    BY <1>3, <1>6, <2>2
  <2>4. ready \in Sessions
    BY <1>0, <1>1 DEF ready, Recovered, Sessions, Statuses
  <2>5. ASSUME HasRunnable(ready)
        PROVE  SessionLine(Sent, Doubtful, waits) /\ Referred(waits, evidence[r], c)
    <3>1. /\ u \in Steps /\ Below(u) \subseteq Over(ready) /\ u \notin Over(ready)
          /\ <<ready.rev, u>> \notin Doubtful
      BY <2>3, <2>4, <2>5, NextStepOrderly
    <3>2. Moves(ready, waits, u) /\ waits.steps[u] = "AWAITING_CONFIRMATION"
      BY <2>4, <3>1 DEF Moves, Absent, Sessions
    <3> HIDE DEF waits, u
    <3>3. SessionLine(Sent, Doubtful, waits)
      BY <2>3, <3>1, <3>2, MovesLine DEF Doubtful, Sent
    <3> QED
      BY <2>3, <3>2, <3>3 DEF Referred, Moves
  <2>6. waits.status = "WAITING_CONFIRMATION"
    BY <2>4 DEF Sessions
  <2> QED
    BY <2>1, <2>2, <2>3, <2>5, <2>6 DEF Replannable
<1>7. CASE /\ \A t \in planned : Correlated(c, t)
           /\ \E status, failed :
                  /\ status = "REPLAN_REQUIRED" => failed = 0
                  /\ Install(r, Recovered(r, status, steps, failed))
  BY <1>3, <1>4, <1>7 DEF Replannable
<1> QED
  BY <1>5, <1>6, <1>7

LEMMA DecideOrderly ==
    ASSUME NInv, AInv', NEW r \in Runtimes, Decide(r),
           UNCHANGED cancelling
    PROVE  NInv'
<1>1. /\ AInv /\ BInv /\ IInv /\ TypeOK /\ TypeOK' /\ BInv'
      /\ job \in [Runtimes -> Jobs]
      /\ UNCHANGED <<ledger, delivered, checkpoint, evidence, history>>
      /\ Involved(r) /\ job[r].pc = "decide" /\ job[r].pc \in Recovering
  BY WorkShapes DEF Decide, At, Involved, Recovering, UnchangedByCalls, NInv,
                    AInv, HInv, OInv, SInv, BInv, IInv
<1>2. /\ Others(r) /\ checkpoint.on /\ LedgerSound
      /\ session \in [Runtimes -> Sessions]
  BY <1>1, DecideStep, Tamed DEF Local
<1>3. /\ Sent' = Sent /\ Doubtful' = Doubtful /\ Proven' = Proven
      /\ Tame' = Tame /\ Lasting
  BY <1>1 DEF Sent, Doubtful, Proven, Tame, Disturbed, Lasting
<1>4. SUFFICES ASSUME Tame
               PROVE  Orderly(r)'
  BY <1>1, <1>2, <1>3, Tamed, CalmOrderly
<1>5. Orderly(r) /\ RecordLine(Sent, Doubtful, Proven, checkpoint)
  BY <1>1, <1>4, Tamed
<1>6. job[r].view = checkpoint
  BY <1>1, <1>5 DEF Orderly
<1>7. CASE GiveUp(r) /\ UNCHANGED session
  <2>1. job'[r].pc = "idle"
    BY <1>1, <1>7 DEF GiveUp, AtRest
  <2> QED
    BY <1>1, <1>3, <1>5, <1>7, <2>1
       DEF Orderly, Launched, Recovering, Working, Unsent
<1>8. ASSUME NEW s, Install(r, s), SessionLine(Sent, Doubtful, s),
             Referred(s, evidence[r], checkpoint), Replannable(Doubtful, s)
      PROVE  Orderly(r)'
  <2>1. Finish(r, s, evidence[r]) /\ session'[r] = s
    BY <1>2, <1>8 DEF Install, Finish
  <2>2. SessionProven(ledger', s)
    BY <1>1, <2>1 DEF BInv
  <2> QED
    BY <1>1, <1>2, <1>3, <1>8, <2>1, <2>2, FinishOrderly
<1> QED
  BY <1>1, <1>2, <1>4, <1>5, <1>6, <1>7, <1>8, DecideOrders DEF Tame

LEMMA AdmitOrderly ==
    ASSUME NInv, AInv', Admit, UNCHANGED cancelling
    PROVE  NInv'
<1> DEFINE s == [NoSession EXCEPT !.on = TRUE,
                                  !.steps = [t \in Steps |-> "PENDING"]]
           own == evidence[First]
<1>0. First \in Runtimes
  BY PlanAssumption
<1>1. /\ AInv /\ OInv /\ IInv /\ TypeOK /\ session \in [Runtimes -> Sessions]
      /\ UNCHANGED <<ledger, delivered, job, evidence, history>>
      /\ ~checkpoint.on /\ job[First] = AtRest
  BY WorkShapes DEF Admit, NInv, AInv, HInv, OInv, SInv, BInv, IInv
<1>2. Others(First)
  BY <1>0, <1>1, AdmitStep DEF Local
<1>3. \A q \in Runtimes : ~Involved(q)
  BY <1>1 DEF OInv, Present
<1>4. Sent' = {} /\ Doubtful' = {}
  BY <1>1 DEF OInv, Present, Sent, Doubtful
<1>5. checkpoint' = FromSession(s, own) /\ session'[First] = s
  BY <1>0, <1>1 DEF Admit
<1>6. /\ s.status = "READY" /\ s.rev = 1
      /\ \A t \in Steps : s.steps[t] = "PENDING"
  BY DEF NoSession
<1>7. checkpoint'.rev = 1 /\ \A t \in Steps : checkpoint'.steps[t].state = "PENDING"
  <2>1. ASSUME NEW t \in Steps
        PROVE  FromSession(s, own).steps[t].state = "PENDING"
    <3>1. t \in InPlan(s) /\ s.steps[t] # "VERIFIED"
      BY <1>6 DEF InPlan, Absent
    <3>2. StepRecord(s, own[<<s.rev, t>>], t).state = "PENDING"
      BY <1>6, <3>1 DEF StepRecord
    <3> QED
      BY <3>1, <3>2 DEF FromSession
  <2> QED
    BY <1>5, <1>6, <2>1 DEF FromSession
<1> HIDE DEF s
<1>8. RecordLine(Sent', Doubtful', Proven', checkpoint')
  BY <1>4, <1>7 DEF RecordLine, Line, Absent
<1>9. SessionLine(Sent', Doubtful', s) /\ Replannable(Doubtful', s)
  BY <1>4, <1>6 DEF SessionLine, Line, Replannable, Absent
<1>10. \A x, e : Referred(s, e, x)
  BY <1>6 DEF Referred
<1>11. job'[First].pc = "idle"
  BY <1>1 DEF AtRest
<1>12. Orderly(First)'
  BY <1>5, <1>9, <1>10, <1>11 DEF Orderly, Launched, Recovering, Working, Unsent
<1>13. ~BlindRepeat'
  BY <1>4 DEF BlindRepeat
<1> QED
  BY <1>0, <1>2, <1>3, <1>8, <1>12, <1>13, OrderlyKeeps

LEMMA OrderlyInit == Init => NInv
<1> SUFFICES ASSUME Init
             PROVE  NInv
  OBVIOUS
<1>1. AInv
  BY AheadInit
<1>2. Sent = {} /\ Doubtful = {}
  BY DEF Init, Sent, Doubtful
<1>3. \A r \in Runtimes : job[r].pc = "idle" /\ ~session[r].on
  BY DEF Init, AtRest, NoSession
<1>4. \A r \in Runtimes : Orderly(r)
  BY <1>3 DEF Orderly, Launched, Recovering, Working, Unsent
<1>5. RecordLine(Sent, Doubtful, Proven, checkpoint)
  <2>1. \A t \in Steps : checkpoint.steps[t].state = Absent
    BY DEF Init, NoCheckpoint, AbsentRecord
  <2>2. Shown(Proven, checkpoint) = Steps
    BY <2>1 DEF Shown
  <2> QED
    BY <1>2, <2>1, <2>2 DEF RecordLine, Line, Below
<1> QED
  BY <1>1, <1>2, <1>4, <1>5 DEF NInv, BlindRepeat

\* Every step of the system preserves the invariant.
LEMMA OrderlyStep == NInv /\ [Next]_vars => NInv'
<1> SUFFICES ASSUME NInv, [Next]_vars
             PROVE  NInv'
  OBVIOUS
<1>1. AInv'
  BY AheadStep DEF NInv
<1>2. CASE UNCHANGED <<ledger, delivered, checkpoint, session, evidence, job,
                       history>>
  <2>1. /\ Sent' = Sent /\ Doubtful' = Doubtful /\ Proven' = Proven
        /\ Tame' = Tame /\ BlindRepeat' = BlindRepeat
    BY <1>2 DEF Sent, Doubtful, Proven, Tame, Disturbed, BlindRepeat
  <2>2. \A r \in Runtimes : Orderly(r)' = Orderly(r)
    BY <1>2, <2>1 DEF Orderly, Oblig
  <2> QED
    BY <1>1, <1>2, <2>1, <2>2 DEF NInv
<1>3. CASE ExpireLease
  BY <1>2, <1>3 DEF ExpireLease
<1>4. ASSUME NEW r \in Runtimes, Execute(r), UNCHANGED cancelling
      PROVE  NInv'
  BY <1>1, <1>4, ExecuteOrderly, SendOrderly
<1>5. ASSUME NEW r \in Runtimes, Recover(r), UNCHANGED cancelling
      PROVE  NInv'
  BY <1>1, <1>5, RecoverReadOrderly, AcquireOrderly, DecideOrderly DEF Recover
<1>6. ASSUME NEW r \in Runtimes, Proceed(r), UNCHANGED cancelling
      PROVE  NInv'
  BY <1>1, <1>4, <1>5, <1>6, RunOrderly, PutOrderly, AskPlannerOrderly,
     ReplanOrderly DEF Proceed
<1>7. ASSUME NEW r \in Runtimes, CancelPutFails(r)
      PROVE  NInv'
  BY <1>2, <1>7 DEF CancelPutFails
<1>8. ASSUME NEW r \in Runtimes, Withdraw(r) \/ Crash(r)
      PROVE  NInv'
  BY <1>1, <1>7, <1>8, CancelOrderly, CancelPutOrderly, CrashOrderly DEF Withdraw
<1> QED
  BY <1>1, <1>2, <1>3, <1>6, <1>8, AdmitOrderly DEF Next, vars

\* replan_dynamic_task leaves VERIFIED steps out of the next revision, and a
\* chain lets no step begin before all earlier ones are over: so a step is sent
\* anew only after its earlier call is on record as a verified failure. This
\* holds for every chain of steps, through crashes, storage errors, cancellations
\* and lease expiries, unless a recovery began beside a live runtime, the put of
\* a cancellation came late or an exception other than MCPCallError escaped.
THEOREM GovernedNoBlindRepeat == Spec => []NoBlindRepeat
<1>1. NInv => NoBlindRepeat
  BY DEF NInv, NoBlindRepeat, Tame
<1> QED
  BY <1>1, OrderlyInit, OrderlyStep, PTL DEF Spec

-----------------------------------------------------------------------------
(* The refinement of GovernedPromise.                                        *)

Told == <<Outcome, Sent, Announced, history.overlap,
          history.rawLoss \/ history.late>>

\* One entry of the ledger is written anew.
Rewrites(o, n) == ledger' = [ledger EXCEPT ![o] = n]

Quiet == UNCHANGED <<delivered, checkpoint, history>>

\* One entry changes its outcome, and nothing else is told.
LEMMA OneOutcome ==
    ASSUME ledger \in Ledgers, NEW o \in Obligations, NEW n, Rewrites(o, n), Quiet
    PROVE  /\ Outcome' = [Outcome EXCEPT ![o] = OutcomeOf(n.state)]
           /\ Outcome[o] = OutcomeOf(ledger[o].state)
           /\ UNCHANGED <<Sent, Announced, history>>
<1>1. \A p \in Obligations : ledger'[p] = IF p = o THEN n ELSE ledger[p]
  BY DEF Ledgers, Rewrites
<1>2. \A p \in Obligations :
         Outcome'[p] = IF p = o THEN OutcomeOf(n.state) ELSE Outcome[p]
  BY <1>1 DEF Outcome
<1>3. Outcome' = [Outcome EXCEPT ![o] = OutcomeOf(n.state)]
  BY <1>2 DEF Outcome
<1> QED
  BY <1>3 DEF Outcome, Quiet, Sent, Announced

LEMMA StillTold ==
    ASSUME UNCHANGED <<ledger, delivered, checkpoint, history>>
    PROVE  UNCHANGED Told
  BY DEF Told, Outcome, Sent, Announced

\* A move of the executor, recorded or not.
LEMMA MovePromised ==
    ASSUME BInv, NEW r \in Runtimes, job[r].pc \in OnRecord,
           NEW target \in ObligationStates \ {"CREATED"}, Quiet,
           MoveSucceeds(Oblig(r), target) \/ MoveFails(Oblig(r), target)
    PROVE  [Promised!PromiseNext]_Told
<1> DEFINE o == Oblig(r)
           n == AfterMove(ledger[o], target)
           from == ledger[o].state
<1>1. o \in Obligations /\ ledger \in Ledgers
  BY AtWork, WorkShapes DEF BInv, OnRecord, Working
<1>2. /\ ledger[o] \in LedgerEntry /\ EntryOk(ledger[o]) /\ from # "NONE"
      /\ from \in {"OBSERVING", "VERIFIED"} => o \in Sent
  BY <1>1 DEF BInv, CallBacked, LedgerSound, Ledgers, Sent
<1>3. \/ UNCHANGED ledger
      \/ MoveAccepted(ledger[o], target) /\ Rewrites(o, n)
  BY DEF MoveSucceeds, MoveFails, Rewrites
<1>4. CASE UNCHANGED ledger
  BY <1>4, StillTold DEF Quiet
<1>5. CASE target \in ledger[o].applied /\ Rewrites(o, n)
  <2>1. n = ledger[o]
    BY <1>5 DEF AfterMove
  <2>2. ledger' = ledger
    BY <1>1, <1>5, <2>1 DEF Rewrites, Ledgers
  <2> QED
    BY <2>2, StillTold DEF Quiet
<1>6. CASE /\ target \notin ledger[o].applied
           /\ MoveAccepted(ledger[o], target) /\ Rewrites(o, n)
  <2>1. n.state = target
    BY <1>6 DEF AfterMove, Applied
  <2>2. target \in Transitions[from] /\ from \in ObligationStates
        /\ from # "UNKNOWN_SIDE_EFFECT"
    BY <1>2, <1>6 DEF MoveAccepted, MayMove, LedgerEntry
  <2>3. \/ from = "CREATED" /\ target \in {"AUTHORIZED", "FAILED"}
        \/ from = "AUTHORIZED" /\ target \in {"DISPATCHED", "FAILED"}
        \/ from = "DISPATCHED" /\ target \in {"OBSERVING", "UNKNOWN_SIDE_EFFECT"}
        \/ from = "OBSERVING" /\ target \in {"VERIFIED", "FAILED",
                                             "UNKNOWN_SIDE_EFFECT"}
    BY <2>2 DEF Transitions, ObligationStates
  <2> HIDE DEF o, n
  <2>4. /\ Outcome' = [Outcome EXCEPT ![o] = OutcomeOf(target)]
        /\ Outcome[o] = OutcomeOf(from)
        /\ Outcome = [p \in Obligations |-> Outcome[p]]
        /\ UNCHANGED <<Sent, Announced, history>>
    <3>1. Outcome = [p \in Obligations |-> Outcome[p]]
      BY DEF Outcome
    <3> QED
      BY <1>1, <1>6, <2>1, <3>1, OneOutcome
  <2> HIDE DEF from
  <2>5. CASE OutcomeOf(target) = OutcomeOf(from)
    <3>1. Outcome' = Outcome
      BY <1>1, <2>4, <2>5
    <3> QED
      BY <2>4, <3>1 DEF Told
  <2>6. CASE from = "AUTHORIZED" /\ target = "DISPATCHED"
    <3>1. Promised!Commit(o)
      BY <2>4, <2>6 DEF Promised!Commit, Promised!Becomes, OutcomeOf
    <3> QED
      BY <1>1, <3>1 DEF Promised!PromiseNext, Promised!Obligations, Obligations
  <2>7. CASE from \in {"CREATED", "AUTHORIZED"} /\ target = "FAILED"
    <3>1. Promised!Refuse(o)
      BY <2>4, <2>7 DEF Promised!Refuse, Promised!Becomes, OutcomeOf
    <3> QED
      BY <1>1, <3>1 DEF Promised!PromiseNext, Promised!Obligations, Obligations
  <2>8. CASE from = "OBSERVING" /\ target \in {"VERIFIED", "FAILED"}
    <3>1. Promised!Conclude(o, OutcomeOf(target))
      BY <1>2, <2>4, <2>8 DEF Promised!Conclude, Promised!Becomes, OutcomeOf, from
    <3>2. OutcomeOf(target) \in {"verified", "failed"}
      BY <2>8 DEF OutcomeOf
    <3> QED
      BY <1>1, <3>1, <3>2 DEF Promised!PromiseNext, Promised!Obligations, Obligations
  <2> QED
    BY <2>3, <2>5, <2>6, <2>7, <2>8 DEF OutcomeOf
<1> QED
  BY <1>3, <1>4, <1>5, <1>6

\* create() puts an obligation on record, or finds it there.
LEMMA CreatePromised ==
    ASSUME BInv, NEW r \in Runtimes, Create(r)
    PROVE  [Promised!PromiseNext]_Told
<1> DEFINE o == Oblig(r)
           n == [ledger[o] EXCEPT !.state = "CREATED"]
<1>1. o \in Obligations /\ ledger \in Ledgers /\ ledger[o] \in LedgerEntry /\ Quiet
  BY AtWork, WorkShapes DEF BInv, Create, At, Working, Quiet, UnchangedByExecutor,
     Ledgers
<1>2. \/ UNCHANGED ledger
      \/ ledger[o].state \in {"NONE", "CREATED"} /\ Rewrites(o, n)
  BY DEF Create, Rewrites
<1>3. CASE UNCHANGED ledger
  BY <1>1, <1>3, StillTold DEF Quiet
<1>4. CASE ledger[o].state \in {"NONE", "CREATED"} /\ Rewrites(o, n)
  <2>1. n.state = "CREATED"
    BY <1>1 DEF LedgerEntry
  <2> HIDE DEF o, n
  <2>2. /\ Outcome' = [Outcome EXCEPT ![o] = "open"]
        /\ Outcome[o] = OutcomeOf(ledger[o].state)
        /\ Outcome = [p \in Obligations |-> Outcome[p]]
        /\ UNCHANGED <<Sent, Announced, history>>
    <3>1. Outcome = [p \in Obligations |-> Outcome[p]]
      BY DEF Outcome
    <3>2. OutcomeOf("CREATED") = "open"
      BY DEF OutcomeOf
    <3> QED
      BY <1>1, <1>4, <2>1, <3>1, <3>2, OneOutcome
  <2>3. CASE ledger[o].state = "CREATED"
    <3>1. Outcome[o] = "open"
      BY <2>2, <2>3 DEF OutcomeOf
    <3> QED
      BY <1>1, <2>2, <3>1 DEF Told
  <2>4. CASE ledger[o].state = "NONE"
    <3>1. Promised!Record(o)
      BY <2>2, <2>4 DEF Promised!Record, Promised!Becomes, OutcomeOf
    <3> QED
      BY <1>1, <3>1 DEF Promised!PromiseNext, Promised!Obligations, Obligations
  <2> QED
    BY <1>4, <2>3, <2>4
<1> QED
  BY <1>2, <1>3, <1>4

\* A call that leaves is on record; while nobody else works on the task it is
\* the first of its obligation, and in a chain nothing is repeated blindly.
LEMMA SendPromised ==
    ASSUME NInv, NInv', NEW r \in Runtimes, Send(r)
    PROVE  [Promised!PromiseNext]_Told
<1> DEFINE o == Oblig(r)
<1>1. /\ o \in Obligations /\ job[r].pc = "send" /\ BInv /\ SInv /\ IInv
      /\ delivered \in [Obligations -> Nat]
  BY AtWork, Shapes DEF Send, At, Working, NInv, AInv, HInv, SInv, BInv
<1>2. /\ UNCHANGED <<ledger, checkpoint, history>>
      /\ delivered' \in {delivered, [delivered EXCEPT ![o] = @ + 1]}
  BY DEF Send
<1>3. CASE delivered' = delivered
  BY <1>2, <1>3, StillTold
<1>4. CASE delivered' = [delivered EXCEPT ![o] = @ + 1]
  <2>1. Sent' = Sent \cup {o}
    BY <1>1, <1>4 DEF Sent
  <2>2. /\ Outcome[o] = OutcomeOf(ledger[o].state)
        /\ UNCHANGED <<Outcome, Announced, history>>
    BY <1>1, <1>2 DEF Outcome, Announced
  <2>3. "DISPATCHED" \in ledger[o].applied /\ EntryOk(ledger[o])
    BY <1>1 DEF IInv, SendRecorded, BInv, LedgerSound
  <2>4. Outcome[o] \notin {"unrecorded", "open"}
    BY <2>2, <2>3 DEF EntryOk, OutcomeOf
  <2>5. ~history.overlap => Outcome[o] = "doubtful" /\ o \notin Sent
    BY <1>1, <2>2 DEF SInv, InTune, OutcomeOf, Sent
  <2>6. ASSUME Chained, ~history.overlap, ~(history.rawLoss \/ history.late)
        PROVE  Promised!Renewed(o)
    <3>1. ~BlindRepeat'
      BY <1>2, <2>6 DEF NInv, Tame, Disturbed
    <3>2. SUFFICES ASSUME NEW p \in Sent, p[2] = o[2]
                   PROVE  p[1] < o[1] /\ Outcome[p] = "failed"
      BY DEF Promised!Renewed
    <3>3. /\ p \in Obligations /\ p # o /\ p \in Sent' /\ o \in Sent'
          /\ ledger'[o].state = "DISPATCHED"
      BY <1>1, <1>2, <2>1, <2>5, <2>6 DEF Sent, SInv, InTune
    <3>4. p[1] # o[1] /\ p[1] \in Int /\ o[1] \in Int
      BY <1>1, <3>2, <3>3, PlanAssumption DEF Obligations, Revisions
    <3>5. ~(o[1] < p[1])
      BY <3>1, <3>2, <3>3 DEF BlindRepeat
    <3>6. p[1] < o[1]
      BY <3>4, <3>5
    <3>7. ledger[p].state = "FAILED"
      BY <1>2, <3>1, <3>2, <3>3, <3>6 DEF BlindRepeat
    <3> QED
      BY <3>3, <3>6, <3>7 DEF Outcome, OutcomeOf
  <2>7. Promised!Call(o)
    BY <2>1, <2>2, <2>4, <2>5, <2>6 DEF Promised!Call
  <2> QED
    BY <1>1, <2>7 DEF Promised!PromiseNext, Promised!Obligations, Obligations
<1> QED
  BY <1>2, <1>3, <1>4

\* What a checkpoint announces is the ledger's.
LEMMA AnnouncePromised ==
    ASSUME BInv', UNCHANGED <<ledger, delivered>>,
           history'.overlap = history.overlap,
           (history.rawLoss \/ history.late)'
               \in {history.rawLoss \/ history.late, TRUE}
    PROVE  [Promised!PromiseNext]_Told
<1>1. UNCHANGED <<Outcome, Sent>>
  BY DEF Outcome, Sent
<1>2. ASSUME NEW o \in Announced'
      PROVE  o \in Sent /\ Outcome[o] = "verified"
  <2>1. /\ o \in Obligations /\ o[1] = checkpoint'.rev /\ o[2] \in Steps
        /\ checkpoint'.steps[o[2]].state = "VERIFIED" /\ o = <<o[1], o[2]>>
    BY <1>2 DEF Announced, Obligations
  <2>2. ledger'[o].state = "VERIFIED" /\ delivered'[o] > 0
    BY <2>1 DEF BInv, RecordProven, LedgerSound
  <2> QED
    BY <2>1, <2>2 DEF Sent, Outcome, OutcomeOf
<1> QED
  BY <1>1, <1>2 DEF Promised!PromiseNext, Promised!Announce

\* Every step keeps the promise.
LEMMA StepPromised ==
    ASSUME NInv, NInv', [Next]_vars
    PROVE  [Promised!PromiseNext]_Told
<1>1. BInv /\ BInv'
  BY DEF NInv, AInv, HInv, SInv
<1>2. CASE UNCHANGED <<ledger, delivered, history>>
  BY <1>1, <1>2, AnnouncePromised
<1>3. CASE UNCHANGED vars \/ Admit \/ ExpireLease
  BY <1>2, <1>3 DEF vars, Admit, ExpireLease
<1>4. ASSUME NEW r \in Runtimes,
             \/ Run(r) \/ Put(r) \/ PutFails(r) \/ AskPlanner(r) \/ Replan(r)
             \/ CancelPutFails(r) \/ Crash(r)
      PROVE  [Promised!PromiseNext]_Told
  BY <1>2, <1>4 DEF Run, RunFenced, RunRefused, RunNothing, RunUnbound,
     RunUnauthorized, RunAllowed, RunLosesLease, BeforeExecution,
     UnchangedByCalls, Put, PutFails, AskPlanner, Replan, CancelPutFails, Crash
<1>5. ASSUME NEW r \in Runtimes, Cancel(r) \/ CancelPut(r)
      PROVE  [Promised!PromiseNext]_Told
  <2>1. /\ UNCHANGED <<ledger, delivered>> /\ history \in Histories
        /\ \/ \E S : history' = [history EXCEPT !.stopped = S]
           \/ \E b \in BOOLEAN :
                  history' = [history EXCEPT !.late = history.late \/ b]
    BY <1>1, <1>5, WorkShapes DEF Cancel, CancelPut, BInv, IInv
  <2>2. /\ history'.overlap = history.overlap
        /\ history'.rawLoss = history.rawLoss
        /\ history'.late \in {history.late, TRUE}
    BY <2>1 DEF Histories
  <2> QED
    BY <1>1, <2>1, <2>2, AnnouncePromised
<1>6. ASSUME NEW r \in Runtimes, RecoverRead(r)
      PROVE  [Promised!PromiseNext]_Told
  <2>1. UNCHANGED <<Outcome, Sent, Announced>>
    BY <1>6 DEF RecoverRead, Outcome, Sent, Announced
  <2>2. history' \in {history, [history EXCEPT !.overlap = TRUE]}
    BY <1>6 DEF RecoverRead
  <2>3. /\ history'.overlap \in {history.overlap, TRUE}
        /\ history'.rawLoss = history.rawLoss /\ history'.late = history.late
    BY <1>1, <2>2, WorkShapes DEF BInv, IInv, Histories
  <2> QED
    BY <2>1, <2>3 DEF Promised!PromiseNext, Promised!Disturb
<1>7. ASSUME NEW r \in Runtimes, Reconcile(r)
      PROVE  [Promised!PromiseNext]_Told
  <2>1. ledger \in Ledgers
    BY <1>1, WorkShapes DEF BInv, IInv
  <2>2. \A o \in Obligations :
           OutcomeOf(ledger'[o].state) = OutcomeOf(ledger[o].state)
    BY <1>7, <2>1 DEF Reconcile, InFlight, OutcomeOf, Ledgers, LedgerEntry
  <2>3. UNCHANGED Told
    BY <1>7, <2>2 DEF Reconcile, Told, Outcome, Sent, Announced
  <2> QED
    BY <2>3
<1>8. ASSUME NEW r \in Runtimes, Acquire(r) \/ Decide(r) \/ Claim(r)
      PROVE  [Promised!PromiseNext]_Told
  BY <1>2, <1>8 DEF Acquire, Decide, UnchangedByCalls, Claim
<1>9. ASSUME NEW r \in Runtimes, Quiet, job[r].pc \in OnRecord,
             NEW target \in {"AUTHORIZED", "DISPATCHED", "OBSERVING", "VERIFIED",
                             "FAILED", "UNKNOWN_SIDE_EFFECT"},
             MoveSucceeds(Oblig(r), target) \/ MoveFails(Oblig(r), target)
      PROVE  [Promised!PromiseNext]_Told
  BY <1>1, <1>9, MovePromised DEF ObligationStates
<1>10. ASSUME NEW r \in Runtimes, Authorize(r) \/ Dispatch(r) \/ Unknown(r)
       PROVE  [Promised!PromiseNext]_Told
  <2>1. Quiet /\ job[r].pc \in OnRecord
    BY <1>10 DEF Authorize, Dispatch, Unknown, UnchangedByExecutor, Quiet, At,
       OnRecord
  <2> QED
    BY <1>9, <1>10, <2>1 DEF Authorize, Dispatch, Unknown, RecordsFailed
<1>11. ASSUME NEW r \in Runtimes, Escapes(r), UNCHANGED <<delivered, checkpoint>>
       PROVE  [Promised!PromiseNext]_Told
  <2>1. UNCHANGED <<Outcome, Sent, Announced>>
    BY <1>11 DEF Escapes, Outcome, Sent, Announced
  <2>2. history'.overlap = history.overlap /\ history'.rawLoss = TRUE
    BY <1>1, <1>11, WorkShapes DEF BInv, IInv, Histories, Escapes
  <2> QED
    BY <2>1, <2>2 DEF Promised!PromiseNext, Promised!Disturb
<1>12. ASSUME NEW r \in Runtimes, Respond(r) \/ Verify(r)
       PROVE  [Promised!PromiseNext]_Told
  <2>1. UNCHANGED <<delivered, checkpoint>> /\ job[r].pc \in OnRecord
    BY <1>12 DEF Respond, Verify, At, OnRecord
  <2>2. \/ Escapes(r)
        \/ Quiet /\ UNCHANGED ledger
        \/ /\ Quiet
           /\ \E target \in {"OBSERVING", "VERIFIED", "FAILED"} :
                  MoveSucceeds(Oblig(r), target) \/ MoveFails(Oblig(r), target)
    BY <1>12 DEF Respond, Verify, Quiet
  <2> QED
    BY <1>9, <1>11, <2>1, <2>2, StillTold DEF Quiet
<1>13. ASSUME NEW r \in Runtimes, Execute(r)
       PROVE  [Promised!PromiseNext]_Told
  BY <1>1, <1>8, <1>10, <1>12, <1>13, CreatePromised, SendPromised DEF Execute
<1>14. ASSUME NEW r \in Runtimes, Recover(r)
       PROVE  [Promised!PromiseNext]_Told
  BY <1>6, <1>7, <1>8, <1>14 DEF Recover
<1> QED
  BY <1>3, <1>4, <1>5, <1>13, <1>14 DEF Next, Proceed, Withdraw

LEMMA InitPromised == Init => Promised!PromiseInit
<1> SUFFICES ASSUME Init
             PROVE  Promised!PromiseInit
  OBVIOUS
<1>1. Outcome = [o \in Obligations |-> "unrecorded"]
  BY DEF Init, Outcome, OutcomeOf
<1>2. Sent = {} /\ Announced = {}
  BY DEF Init, Sent, Announced, NoCheckpoint, AbsentRecord, Absent, Obligations
<1> QED
  BY <1>1, <1>2 DEF Init, Promised!PromiseInit, Promised!Obligations, Obligations

\* Coordinator, executor, ledger and stores together implement GovernedPromise:
\* whatever is interleaved, crashes or fails, each of their steps records,
\* commits to, sends, settles or announces one obligation as the promise allows,
\* or changes nothing that it speaks of.
THEOREM GovernedKeepsPromise == Spec => KeepsPromise
<1>1. NInv /\ NInv' /\ [Next]_vars => [Promised!PromiseNext]_Told
  BY StepPromised
<1>2. Spec => []NInv
  BY OrderlyInit, OrderlyStep, PTL DEF Spec
<1> QED
  BY <1>1, <1>2, InitPromised, PTL
     DEF Spec, KeepsPromise, Promised!Promise, Promised!promiseVars, Told


=============================================================================
