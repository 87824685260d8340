----------------------------- MODULE LegacyTasks -----------------------------
(* One task of the goal-level TaskCoordinator: subgoals are scheduled one at  *)
(* a time while callers pause, resume and cancel the task, report progress    *)
(* that may be a stall, or recover it after a restart. Each call makes its    *)
(* store accesses and its looks at the sessions and claims one by one.        *)
EXTENDS Integers, FiniteSets

CONSTANTS
    Threads,
    Count           \* subgoals of the task

ASSUME LegacyAssumption == Count \in Nat \ {0}

Statuses == {"created", "running", "paused", "interrupted", "blocked",
             "failed", "cancelled", "completed"}

Runnable == {"created", "running"}
Resumable == {"paused", "interrupted"}
Cancellable == Runnable \cup Resumable \cup {"blocked"}

\* Where a call is. From "claimed" to "leaving" it has the task's claim.
Claimed == {"claimed", "begun", "lost", "exhausted", "executing", "leaving"}
Points == Claimed \cup {"idle", "stalling", "cancelling", "resuming", "read",
                        "preparing", "ready", "blocking", "recovering"}

VARIABLES
    status, completed,  \* the stored record
    recovery,           \* recovery_required, which its progress always shows too
    session,            \* whether the runtime has the task's subgoals
    inflight,           \* whether the task is claimed
    call,               \* per thread, where its call is and the subgoal it took
    passed              \* history: the subgoals a runtime answered "passed"

record == <<status, completed, recovery>>
vars == <<record, session, inflight, call, passed>>

Idle == [at |-> "idle", index |-> 0]

\* create: a goal that is not ready leaves a blocked task without a session.
Init ==
    /\ status \in {"created", "blocked"} /\ session = (status = "created")
    /\ completed = 0 /\ recovery = FALSE /\ inflight = FALSE
    /\ call = [t \in Threads |-> Idle]
    /\ passed = {}

At(t, point) == call[t].at = point
Goes(t, point) == call' = [call EXCEPT ![t].at = point]
Returns(t) == call' = [call EXCEPT ![t] = Idle]
Moves(t, from, to) == At(t, from) /\ Goes(t, to)

UnchangedStore == UNCHANGED <<record, passed>>
UnchangedRuntime == UNCHANGED <<session, inflight>>

\* Shared by the three callers that find a task without its runtime.
Interrupt ==
    /\ status' = "interrupted" /\ recovery' = TRUE
    /\ UNCHANGED <<completed, passed>>

-----------------------------------------------------------------------------
(* run_next.                                                                  *)

\* Mistake: the claim is taken without looking.
ClaimAnyway(t) ==
    /\ Moves(t, "idle", "claimed") /\ inflight' = TRUE
    /\ UNCHANGED session /\ UnchangedStore

Claim(t) ==
    /\ Moves(t, "idle", "claimed")
    /\ ~inflight /\ inflight' = TRUE
    /\ UNCHANGED session /\ UnchangedStore

Begin(t) ==
    /\ At(t, "claimed")
    /\ status' = IF status = "created" THEN "running" ELSE status
    /\ call' = [call EXCEPT ![t] = IF status \in Runnable
                                   THEN [at |-> "begun", index |-> completed]
                                   ELSE [@ EXCEPT !.at = "leaving"]]
    /\ UNCHANGED <<completed, recovery, passed>> /\ UnchangedRuntime

LookUp(t) ==
    /\ At(t, "begun")
    /\ Goes(t, IF ~session THEN "lost"
               ELSE IF call[t].index >= Count THEN "exhausted" ELSE "executing")
    /\ UnchangedStore /\ UnchangedRuntime

\* _interrupt_missing_session and _complete_if_exhausted. No run comes upon the
\* second: a runnable task has a subgoal left (CountIsHonest).
Settle(t) ==
    /\ call[t].at \in {"lost", "exhausted"} /\ Goes(t, "leaving")
    /\ CASE At(t, "lost") /\ status \in Runnable -> Interrupt
         [] At(t, "exhausted") /\ status = "running" /\ completed = Count ->
                status' = "completed" /\ UNCHANGED <<completed, recovery, passed>>
         [] OTHER -> UnchangedStore
    /\ UnchangedRuntime

\* The runtime's answer is recorded on whatever the record says by then.
Passes(t) ==
    LET done == IF completed + 1 <= Count THEN completed + 1 ELSE Count IN
    /\ completed' = done /\ recovery' = FALSE
    /\ status' = CASE done = Count -> "completed"
                   [] done # Count /\ status = "paused" -> "paused"
                   [] OTHER -> "running"
    /\ passed' = passed \cup {call[t].index}

\* Mistake: an answer is recorded on a cancelled task too.
PassAlways(t) ==
    /\ Moves(t, "executing", "leaving")
    /\ Passes(t) /\ UnchangedRuntime

Pass(t) ==
    /\ Moves(t, "executing", "leaving")
    /\ IF status = "cancelled" THEN UnchangedStore ELSE Passes(t)
    /\ UnchangedRuntime

Fall(t, end) ==
    /\ Moves(t, "executing", "leaving")
    /\ status' = IF status = "cancelled" THEN status ELSE end
    /\ UNCHANGED <<completed, recovery, passed>> /\ UnchangedRuntime

\* The runtime, or a store access, raises. Mistake: nothing releases the claim.
RaiseAndKeep(t) ==
    /\ call[t].at \in Claimed \ {"leaving"} /\ Returns(t)
    /\ UnchangedStore /\ UnchangedRuntime

Raise(t) ==
    /\ call[t].at \in Claimed \ {"leaving"} /\ Goes(t, "leaving")
    /\ UnchangedStore /\ UnchangedRuntime

Release(t) ==
    /\ At(t, "leaving") /\ Returns(t)
    /\ inflight' = FALSE
    /\ UNCHANGED session /\ UnchangedStore

-----------------------------------------------------------------------------
(* pause, record_progress and cancel.                                         *)

Pause(t) ==
    /\ At(t, "idle") /\ status \in Runnable
    /\ status' = "paused"
    /\ UNCHANGED <<completed, recovery, call, passed>> /\ UnchangedRuntime

\* A progress signal that repeats itself or lacks its evidence. The session is
\* dropped in a step of its own.
Stall(t) ==
    /\ Moves(t, "idle", "stalling")
    /\ status \in Runnable /\ ~recovery
    /\ Interrupt /\ UnchangedRuntime

DropSession(t) ==
    /\ At(t, "stalling") /\ Returns(t)
    /\ session' = FALSE
    /\ UNCHANGED inflight /\ UnchangedStore

CancelCheck(t) ==
    /\ Moves(t, "idle", "cancelling")
    /\ ~inflight
    /\ UnchangedStore /\ UnchangedRuntime

CancelWrite(t) ==
    /\ At(t, "cancelling") /\ Returns(t)
    /\ status' = IF status \in Cancellable THEN "cancelled" ELSE status
    /\ UNCHANGED <<completed, recovery, passed>> /\ UnchangedRuntime

-----------------------------------------------------------------------------
(* resume.                                                                    *)

ResumeCheck(t) ==
    /\ Moves(t, "idle", "resuming")
    /\ ~inflight
    /\ UnchangedStore /\ UnchangedRuntime

ResumeRead(t) ==
    /\ At(t, "resuming")
    /\ IF status \in Resumable THEN Goes(t, "read") ELSE Returns(t)
    /\ UnchangedStore /\ UnchangedRuntime

ResumeLook(t) ==
    /\ At(t, "read")
    /\ Goes(t, IF session THEN "ready" ELSE "preparing")
    /\ UnchangedStore /\ UnchangedRuntime

\* The resubmitted goal has the subgoals the task was created with.
Resubmit(t) ==
    /\ Moves(t, "preparing", "ready")
    /\ session' = TRUE
    /\ UNCHANGED inflight /\ UnchangedStore

\* The resubmitted goal is another one, or not ready.
Mismatch(t) ==
    /\ Moves(t, "preparing", "blocking")
    /\ UnchangedStore /\ UnchangedRuntime

\* _block, whatever the status is.
Block(t) ==
    /\ At(t, "blocking") /\ Returns(t)
    /\ status' = "blocked"
    /\ UNCHANGED <<completed, recovery, passed>> /\ UnchangedRuntime

\* Mistake: to resume counts as having recovered.
ResumeAndClear(t) ==
    /\ At(t, "ready") /\ Returns(t)
    /\ IF status \in Resumable THEN status' = "running" /\ recovery' = FALSE
                               ELSE UNCHANGED <<status, recovery>>
    /\ UNCHANGED <<completed, passed>> /\ UnchangedRuntime

ResumeWrite(t) ==
    /\ At(t, "ready") /\ Returns(t)
    /\ status' = IF status \in Resumable THEN "running" ELSE status
    /\ UNCHANGED <<completed, recovery, passed>> /\ UnchangedRuntime

\* No goal was given, or a prepared one is malformed.
ResumeRaise(t) ==
    /\ At(t, "preparing") /\ Returns(t)
    /\ UnchangedStore /\ UnchangedRuntime

-----------------------------------------------------------------------------
(* recover_after_restart, and the crash of the process.                       *)

RecoverCheck(t) ==
    /\ Moves(t, "idle", "recovering")
    /\ ~inflight
    /\ session' = FALSE
    /\ UNCHANGED inflight /\ UnchangedStore

RecoverWrite(t) ==
    /\ At(t, "recovering") /\ Returns(t)
    /\ IF status \in Runnable \cup {"paused"} THEN Interrupt ELSE UnchangedStore
    /\ UnchangedRuntime

Crash ==
    /\ session' = FALSE /\ inflight' = FALSE
    /\ call' = [t \in Threads |-> Idle]
    /\ UnchangedStore

-----------------------------------------------------------------------------
\* What a call under way does next; each such call returns.
Runs(t) ==
    \/ Begin(t) \/ LookUp(t) \/ Settle(t)
    \/ Pass(t) \/ Fall(t, "blocked") \/ Fall(t, "failed")
    \/ Raise(t) \/ Release(t)

Next ==
    \/ \E t \in Threads :
        \/ Claim(t) \/ Runs(t)
        \/ Pause(t) \/ Stall(t) \/ DropSession(t)
        \/ CancelCheck(t) \/ CancelWrite(t)
        \/ ResumeCheck(t) \/ ResumeRead(t) \/ ResumeLook(t) \/ Resubmit(t)
        \/ Mismatch(t) \/ Block(t) \/ ResumeWrite(t) \/ ResumeRaise(t)
        \/ RecoverCheck(t) \/ RecoverWrite(t)
    \/ Crash

Fairness == \A t \in Threads : WF_vars(Runs(t))

Spec == Init /\ [][Next]_vars /\ Fairness

-----------------------------------------------------------------------------
(* Properties.                                                                *)

\* The task is claimed exactly while one call works on it.
TypeOK ==
    /\ status \in Statuses /\ completed \in 0..Count
    /\ recovery \in BOOLEAN /\ session \in BOOLEAN /\ inflight \in BOOLEAN
    /\ passed \subseteq 0..Count - 1
    /\ call \in [Threads -> [at : Points, index : 0..Count]]
    /\ inflight <=> \E t \in Threads : call[t].at \in Claimed
    /\ \A t, u \in Threads : {call[t].at, call[u].at} \subseteq Claimed => t = u

(* Each subgoal counts once, in order and only when a runtime passed it: the  *)
(* record that is advanced is not the one that was read when the subgoal was  *)
(* taken. A running task has something left to do; a completed one has not.   *)
CountIsHonest ==
    /\ passed = 0..completed - 1
    /\ status \in Runnable => completed < Count
    /\ status = "completed" => completed = Count

(* Once recovery is required, only a subgoal that passes ends that: no        *)
(* resumption, pause, signal, restart or failure does.                        *)
RecoveryIsEarned == [][recovery /\ ~recovery' => passed' # passed]_vars

(* No answer, pause or resumption that was under way takes a recorded cancel  *)
(* back; the one thing that overwrites it is a refused resubmission.          *)
CancelHolds ==
    [][status = "cancelled" => status' \in {"cancelled", "blocked"}]_vars

(* A claim is given back, whatever the runtime answers or raises.             *)
ClaimIsReleased == inflight ~> ~inflight
=============================================================================
