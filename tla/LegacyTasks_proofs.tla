------------------------- MODULE LegacyTasks_proofs -------------------------
(* Proofs about LegacyTasks, for any number of threads and subgoals.          *)
EXTENDS LegacyTasks, TLAPS

\* A task that may still run has a subgoal left, whatever it goes through.
SomethingLeft == status \in Runnable \cup Resumable => completed < Count

\* The subgoal a run took is the next one for as long as it has the claim.
TakenIsNext ==
    \A t \in Threads :
        /\ call[t].at \in {"begun", "lost", "exhausted", "executing"} =>
               call[t].index = completed
        /\ call[t].at = "executing" => call[t].index < Count

Sound == TypeOK /\ CountIsHonest /\ SomethingLeft /\ TakenIsNext

LEMMA InitSound == Init => Sound
<1> SUFFICES ASSUME Init PROVE Sound
  OBVIOUS
<1>1. session \in BOOLEAN /\ recovery \in BOOLEAN /\ inflight \in BOOLEAN
  BY Zenon DEF Init
<1>2. \A t \in Threads : call[t] = Idle /\ call[t].at = "idle"
  BY DEF Init, Idle
<1>3. call \in [Threads -> [at : Points, index : 0..Count]]
  BY LegacyAssumption DEF Init, Idle, Points
<1>4. TypeOK
  <2>1. "idle" \notin Claimed /\ inflight = FALSE
    BY DEF Claimed, Init
  <2>2. \A t \in Threads : call[t].at \notin Claimed
    BY <1>2, <2>1
  <2>3. /\ inflight <=> \E t \in Threads : call[t].at \in Claimed
        /\ \A t, u \in Threads : {call[t].at, call[u].at} \subseteq Claimed => t = u
    BY <2>1, <2>2
  <2>4. status \in Statuses /\ completed \in 0..Count /\ passed \subseteq 0..Count - 1
    BY LegacyAssumption DEF Init, Statuses
  <2>5. QED  BY <1>1, <1>3, <2>3, <2>4, Zenon DEF TypeOK
<1>5. CountIsHonest /\ SomethingLeft
  BY LegacyAssumption DEF Init, CountIsHonest, SomethingLeft, Runnable, Resumable
<1>6. TakenIsNext
  BY <1>2 DEF TakenIsNext
<1>7. QED  BY <1>4, <1>5, <1>6 DEF Sound

-----------------------------------------------------------------------------
(* What becomes of the calls: a thread moves, and the claim moves with it.    *)

Callers == [at : Points, index : 0..Count]

\* The conjuncts of TypeOK about the calls.
CallsOK ==
    /\ inflight \in BOOLEAN
    /\ call \in [Threads -> Callers]
    /\ inflight <=> \E t \in Threads : call[t].at \in Claimed
    /\ \A t, u \in Threads : {call[t].at, call[u].at} \subseteq Claimed => t = u

\* A thread that keeps the claim, or stays without one, keeps CallsOK; so does
\* one that takes it when it is free, or gives it back.
LEMMA CallMoves ==
    ASSUME CallsOK, NEW t \in Threads, NEW c \in Callers,
           call' = [call EXCEPT ![t] = c],
           \/ inflight' = inflight /\ (c.at \in Claimed <=> call[t].at \in Claimed)
           \/ ~inflight /\ inflight' /\ inflight' \in BOOLEAN /\ c.at \in Claimed
           \/ call[t].at \in Claimed /\ inflight' = FALSE /\ c.at \notin Claimed
    PROVE  CallsOK'
<1>1. call' \in [Threads -> Callers]
  BY DEF CallsOK
<1>2. \A u \in Threads : call'[u] = IF u = t THEN c ELSE call[u]
  BY DEF CallsOK
<1>3. CASE inflight' = inflight /\ (c.at \in Claimed <=> call[t].at \in Claimed)
  <2>1. \A u \in Threads : call'[u].at \in Claimed <=> call[u].at \in Claimed
    BY <1>2, <1>3
  <2>2. QED  BY <1>1, <1>3, <2>1 DEF CallsOK
<1>4. CASE ~inflight /\ inflight' /\ inflight' \in BOOLEAN /\ c.at \in Claimed
  <2>1. \A u \in Threads : call'[u].at \in Claimed <=> u = t
    BY <1>2, <1>4 DEF CallsOK
  <2>2. QED  BY <1>1, <1>4, <2>1 DEF CallsOK
<1>5. CASE call[t].at \in Claimed /\ inflight' = FALSE /\ c.at \notin Claimed
  <2>1. \A u \in Threads : call'[u].at \notin Claimed
    BY <1>2, <1>5 DEF CallsOK
  <2>2. QED  BY <1>1, <1>5, <2>1 DEF CallsOK
<1>6. QED  BY <1>3, <1>4, <1>5

LEMMA TypedCalls == TypeOK => CallsOK
BY DEF TypeOK, CallsOK, Callers

\* A thread that moves on keeps its subgoal.
LEMMA MovedCall ==
    ASSUME CallsOK, NEW t \in Threads, NEW to \in Points, Goes(t, to)
    PROVE  /\ [at |-> to, index |-> call[t].index] \in Callers
           /\ call' = [call EXCEPT ![t] = [at |-> to, index |-> call[t].index]]
<1>1. call[t] \in Callers
  BY DEF CallsOK
<1>2. [call[t] EXCEPT !.at = to] = [at |-> to, index |-> call[t].index]
  BY <1>1 DEF Callers
<1>3. QED  BY <1>1, <1>2 DEF Callers, Goes

\* The claim is held throughout, not held throughout, taken or given back.
KeepsClaim(t, to) ==
    \/ inflight' = inflight /\ (to \in Claimed <=> call[t].at \in Claimed)
    \/ ~inflight /\ inflight' /\ inflight' \in BOOLEAN /\ to \in Claimed
    \/ call[t].at \in Claimed /\ inflight' = FALSE /\ to \notin Claimed

LEMMA GoesTyped ==
    ASSUME CallsOK, NEW t \in Threads, NEW to \in Points, Goes(t, to),
           KeepsClaim(t, to)
    PROVE  CallsOK'
<1> DEFINE c == [at |-> to, index |-> call[t].index]
<1>1. c \in Callers /\ call' = [call EXCEPT ![t] = c] /\ c.at = to
  BY MovedCall
<1> HIDE DEF c
<1>2. QED  BY <1>1, CallMoves DEF KeepsClaim

LEMMA ReturnsTyped ==
    ASSUME CallsOK, NEW t \in Threads, Returns(t), KeepsClaim(t, "idle")
    PROVE  CallsOK'
<1>1. Idle \in Callers /\ Idle.at = "idle"
  BY LegacyAssumption DEF Idle, Callers, Points
<1>2. QED  BY <1>1, CallMoves DEF KeepsClaim, Returns
-----------------------------------------------------------------------------
(* What becomes of the task.                                                  *)

\* What Sound says besides the calls.
TaskOK ==
    /\ status \in Statuses /\ completed \in 0..Count /\ recovery \in BOOLEAN
    /\ session \in BOOLEAN
    /\ passed = 0..completed - 1
    /\ SomethingLeft
    /\ status = "completed" => completed = Count

LEMMA SoundParts == Sound => CallsOK /\ TaskOK /\ TakenIsNext
BY LegacyAssumption
   DEF Sound, TypeOK, CountIsHonest, CallsOK, Callers, TaskOK,
       SomethingLeft, Runnable

LEMMA SoundAgain ==
    ASSUME CallsOK', TaskOK', TakenIsNext' PROVE Sound'
<1>1. passed' \subseteq 0..Count - 1
  <2>1. passed' = 0..completed' - 1 /\ completed' \in 0..Count
    BY DEF TaskOK
  <2>2. ASSUME NEW n \in Nat, NEW k \in 0..n PROVE 0..k - 1 \subseteq 0..n - 1
    OBVIOUS
  <2>3. QED  BY <2>1, <2>2, LegacyAssumption
<1>2. TypeOK'
  BY <1>1, Zenon DEF TypeOK, TaskOK, CallsOK, Callers
<1>3. CountIsHonest'
  BY DEF CountIsHonest, TaskOK, SomethingLeft, Runnable
<1>4. SomethingLeft'
  BY DEF TaskOK
<1>5. QED  BY <1>2, <1>3, <1>4 DEF Sound

\* A step that keeps the count keeps the task sound if its new status is one
\* the old one may turn into.
LEMMA TaskKept ==
    ASSUME TaskOK, UNCHANGED <<completed, passed>>,
           status' \in Statuses, recovery' \in BOOLEAN, session' \in BOOLEAN,
           status' = status \/ status' \in {"blocked", "failed", "cancelled"}
               \/ (status \in Runnable \cup Resumable /\ status' # "completed")
    PROVE  TaskOK'
BY DEF TaskOK, SomethingLeft, Runnable, Resumable

LEMMA StoreKept ==
    ASSUME TaskOK, UnchangedStore, session' \in BOOLEAN
    PROVE  TaskOK'
BY DEF TaskOK, SomethingLeft, UnchangedStore, record

\* A thread that moves without taking a subgoal, while the count stays.
LEMMA TakenKept ==
    ASSUME CallsOK, TakenIsNext, NEW t \in Threads, NEW c, completed' = completed,
           call' = [call EXCEPT ![t] = c],
           \/ c.at \notin {"begun", "lost", "exhausted", "executing"}
           \/ c.index = completed /\ (c.at = "executing" => c.index < Count)
    PROVE  TakenIsNext'
<1>1. \A u \in Threads : call'[u] = IF u = t THEN c ELSE call[u]
  BY DEF CallsOK
<1>2. QED  BY <1>1 DEF TakenIsNext

LEMMA TakenGoes ==
    ASSUME CallsOK, TakenIsNext, NEW t \in Threads, NEW to \in Points,
           completed' = completed, Goes(t, to),
           \/ to \notin {"begun", "lost", "exhausted", "executing"}
           \/ /\ call[t].at = "begun"
              /\ to = "executing" => call[t].index < Count
    PROVE  TakenIsNext'
<1> DEFINE c == [at |-> to, index |-> call[t].index]
<1>1. call' = [call EXCEPT ![t] = c] /\ c.at = to /\ c.index = call[t].index
  BY MovedCall
<1>2. call[t].at = "begun" => call[t].index = completed
  BY DEF TakenIsNext
<1> HIDE DEF c
<1>3. QED  BY <1>1, <1>2, TakenKept

LEMMA TakenReturns ==
    ASSUME CallsOK, TakenIsNext, NEW t \in Threads, completed' = completed,
           Returns(t)
    PROVE  TakenIsNext'
<1>1. Idle.at = "idle"
  BY DEF Idle
<1>2. QED  BY <1>1, TakenKept DEF Returns
-----------------------------------------------------------------------------
(* Every step keeps Sound: first those of calls without the claim.            *)

LEMMA CallersSound ==
    ASSUME Sound, NEW t \in Threads,
           \/ Claim(t) \/ CancelCheck(t) \/ ResumeCheck(t) \/ Resubmit(t)
           \/ Mismatch(t) \/ RecoverCheck(t) \/ DropSession(t) \/ ResumeRaise(t)
           \/ Release(t) \/ Block(t) \/ ResumeWrite(t) \/ CancelWrite(t)
           \/ RecoverWrite(t) \/ Pause(t) \/ Stall(t) \/ ResumeRead(t)
           \/ ResumeLook(t)
    PROVE  Sound'
<1> CallsOK /\ TaskOK /\ TakenIsNext
  BY SoundParts
<1>1. CASE Claim(t)
  <2>1. Goes(t, "claimed") /\ call[t].at = "idle" /\ "claimed" \in Points
    BY <1>1 DEF Claim, Moves, At, Points, Claimed
  <2>2. KeepsClaim(t, "claimed")
    BY <1>1, <2>1 DEF Claim, KeepsClaim, UnchangedRuntime, Claimed
  <2>3. TaskOK' /\ completed' = completed
    BY <1>1, StoreKept DEF Claim, UnchangedStore, UnchangedRuntime, record, TaskOK
  <2>4. QED  BY <2>1, <2>2, <2>3, GoesTyped, TakenGoes, SoundAgain
<1>2. CASE CancelCheck(t)
  <2>1. Goes(t, "cancelling") /\ call[t].at = "idle" /\ "cancelling" \in Points
    BY <1>2 DEF CancelCheck, Moves, At, Points, Claimed
  <2>2. KeepsClaim(t, "cancelling")
    BY <1>2, <2>1 DEF CancelCheck, KeepsClaim, UnchangedRuntime, Claimed
  <2>3. TaskOK' /\ completed' = completed
    BY <1>2, StoreKept DEF CancelCheck, UnchangedStore, UnchangedRuntime, record, TaskOK
  <2>4. QED  BY <2>1, <2>2, <2>3, GoesTyped, TakenGoes, SoundAgain
<1>3. CASE ResumeCheck(t)
  <2>1. Goes(t, "resuming") /\ call[t].at = "idle" /\ "resuming" \in Points
    BY <1>3 DEF ResumeCheck, Moves, At, Points, Claimed
  <2>2. KeepsClaim(t, "resuming")
    BY <1>3, <2>1 DEF ResumeCheck, KeepsClaim, UnchangedRuntime, Claimed
  <2>3. TaskOK' /\ completed' = completed
    BY <1>3, StoreKept DEF ResumeCheck, UnchangedStore, UnchangedRuntime, record, TaskOK
  <2>4. QED  BY <2>1, <2>2, <2>3, GoesTyped, TakenGoes, SoundAgain
<1>4. CASE Resubmit(t)
  <2>1. Goes(t, "ready") /\ call[t].at = "preparing" /\ "ready" \in Points
    BY <1>4 DEF Resubmit, Moves, At, Points, Claimed
  <2>2. KeepsClaim(t, "ready")
    BY <1>4, <2>1 DEF Resubmit, KeepsClaim, UnchangedRuntime, Claimed
  <2>3. TaskOK' /\ completed' = completed
    BY <1>4, StoreKept DEF Resubmit, UnchangedStore, record
  <2>4. QED  BY <2>1, <2>2, <2>3, GoesTyped, TakenGoes, SoundAgain
<1>5. CASE Mismatch(t)
  <2>1. Goes(t, "blocking") /\ call[t].at = "preparing" /\ "blocking" \in Points
    BY <1>5 DEF Mismatch, Moves, At, Points, Claimed
  <2>2. KeepsClaim(t, "blocking")
    BY <1>5, <2>1 DEF Mismatch, KeepsClaim, UnchangedRuntime, Claimed
  <2>3. TaskOK' /\ completed' = completed
    BY <1>5, StoreKept DEF Mismatch, UnchangedStore, UnchangedRuntime, record, TaskOK
  <2>4. QED  BY <2>1, <2>2, <2>3, GoesTyped, TakenGoes, SoundAgain
<1>6. CASE RecoverCheck(t)
  <2>1. Goes(t, "recovering") /\ call[t].at = "idle" /\ "recovering" \in Points
    BY <1>6 DEF RecoverCheck, Moves, At, Points, Claimed
  <2>2. KeepsClaim(t, "recovering")
    BY <1>6, <2>1 DEF RecoverCheck, KeepsClaim, UnchangedRuntime, Claimed
  <2>3. TaskOK' /\ completed' = completed
    BY <1>6, StoreKept DEF RecoverCheck, UnchangedStore, UnchangedRuntime, record, TaskOK
  <2>4. QED  BY <2>1, <2>2, <2>3, GoesTyped, TakenGoes, SoundAgain
<1>7. CASE DropSession(t)
  <2>1. Returns(t) /\ call[t].at = "stalling"
    BY <1>7 DEF DropSession, At
  <2>2. KeepsClaim(t, "idle")
    BY <1>7, <2>1 DEF DropSession, KeepsClaim, UnchangedRuntime, Claimed
  <2>3. TaskOK' /\ completed' = completed
    BY <1>7, StoreKept DEF DropSession, UnchangedStore, UnchangedRuntime, record, TaskOK
  <2>4. QED  BY <2>1, <2>2, <2>3, ReturnsTyped, TakenReturns, SoundAgain
<1>8. CASE ResumeRaise(t)
  <2>1. Returns(t) /\ call[t].at = "preparing"
    BY <1>8 DEF ResumeRaise, At
  <2>2. KeepsClaim(t, "idle")
    BY <1>8, <2>1 DEF ResumeRaise, KeepsClaim, UnchangedRuntime, Claimed
  <2>3. TaskOK' /\ completed' = completed
    BY <1>8, StoreKept DEF ResumeRaise, UnchangedStore, UnchangedRuntime, record, TaskOK
  <2>4. QED  BY <2>1, <2>2, <2>3, ReturnsTyped, TakenReturns, SoundAgain
<1>9. CASE Release(t)
  <2>1. Returns(t) /\ call[t].at = "leaving"
    BY <1>9 DEF Release, At
  <2>2. KeepsClaim(t, "idle")
    BY <1>9, <2>1 DEF Release, KeepsClaim, UnchangedRuntime, Claimed
  <2>3. TaskOK' /\ completed' = completed
    BY <1>9, StoreKept DEF Release, UnchangedStore, UnchangedRuntime, record, TaskOK
  <2>4. QED  BY <2>1, <2>2, <2>3, ReturnsTyped, TakenReturns, SoundAgain
<1>10. CASE Block(t)
  <2>1. Returns(t) /\ call[t].at = "blocking"
    BY <1>10 DEF Block, At
  <2>2. KeepsClaim(t, "idle")
    BY <1>10, <2>1 DEF Block, KeepsClaim, UnchangedRuntime, Claimed
  <2>3. TaskOK' /\ completed' = completed
    BY <1>10, TaskKept DEF Block, UnchangedRuntime, TaskOK, Statuses
  <2>4. QED  BY <2>1, <2>2, <2>3, ReturnsTyped, TakenReturns, SoundAgain
<1>11. CASE ResumeWrite(t)
  <2>1. Returns(t) /\ call[t].at = "ready"
    BY <1>11 DEF ResumeWrite, At
  <2>2. KeepsClaim(t, "idle")
    BY <1>11, <2>1 DEF ResumeWrite, KeepsClaim, UnchangedRuntime, Claimed
  <2>3. TaskOK' /\ completed' = completed
    BY <1>11, TaskKept DEF ResumeWrite, UnchangedRuntime, Runnable, Resumable, TaskOK, Statuses
  <2>4. QED  BY <2>1, <2>2, <2>3, ReturnsTyped, TakenReturns, SoundAgain
<1>12. CASE CancelWrite(t)
  <2>1. Returns(t) /\ call[t].at = "cancelling"
    BY <1>12 DEF CancelWrite, At
  <2>2. KeepsClaim(t, "idle")
    BY <1>12, <2>1 DEF CancelWrite, KeepsClaim, UnchangedRuntime, Claimed
  <2>3. TaskOK' /\ completed' = completed
    BY <1>12, TaskKept DEF CancelWrite, UnchangedRuntime, TaskOK, Statuses
  <2>4. QED  BY <2>1, <2>2, <2>3, ReturnsTyped, TakenReturns, SoundAgain
<1>13. CASE RecoverWrite(t)
  <2>1. Returns(t) /\ call[t].at = "recovering"
    BY <1>13 DEF RecoverWrite, At
  <2>2. KeepsClaim(t, "idle")
    BY <1>13, <2>1 DEF RecoverWrite, KeepsClaim, UnchangedRuntime, Claimed
  <2>3. TaskOK' /\ completed' = completed
    BY <1>13, TaskKept DEF RecoverWrite, UnchangedRuntime, UnchangedStore, Interrupt, Runnable, Resumable, record, TaskOK, Statuses
  <2>4. QED  BY <2>1, <2>2, <2>3, ReturnsTyped, TakenReturns, SoundAgain
<1>14. CASE Pause(t)
  <2>1. CallsOK' /\ TakenIsNext'
    BY <1>14 DEF Pause, UnchangedRuntime, CallsOK, TakenIsNext
  <2>2. TaskOK' /\ completed' = completed
    BY <1>14, TaskKept DEF Pause, UnchangedRuntime, Runnable, Resumable, TaskOK, Statuses
  <2>3. QED  BY <2>1, <2>2, SoundAgain
<1>15. CASE Stall(t)
  <2>1. Goes(t, "stalling") /\ call[t].at = "idle" /\ "stalling" \in Points
    BY <1>15 DEF Stall, Moves, At, Points, Claimed
  <2>2. KeepsClaim(t, "stalling")
    BY <1>15, <2>1 DEF Stall, KeepsClaim, UnchangedRuntime, Claimed
  <2>3. TaskOK' /\ completed' = completed
    BY <1>15, TaskKept DEF Stall, Interrupt, UnchangedRuntime, Runnable, Resumable, TaskOK, Statuses
  <2>4. QED  BY <2>1, <2>2, <2>3, GoesTyped, TakenGoes, SoundAgain
<1>16. CASE ResumeRead(t)
  <2>1. call[t].at = "resuming" /\ UnchangedStore /\ UnchangedRuntime
    BY <1>16 DEF ResumeRead, At
  <2>2. TaskOK' /\ completed' = completed
    BY <2>1, StoreKept DEF UnchangedStore, UnchangedRuntime, record, TaskOK
  <2>3. KeepsClaim(t, "read") /\ KeepsClaim(t, "idle") /\ "read" \in Points
    BY <2>1 DEF KeepsClaim, UnchangedRuntime, Claimed, Points
  <2>4. CASE Goes(t, "read")
    BY <2>2, <2>3, <2>4, GoesTyped, TakenGoes, SoundAgain
  <2>5. CASE Returns(t)
    BY <2>2, <2>3, <2>5, ReturnsTyped, TakenReturns, SoundAgain
  <2>6. QED  BY <1>16, <2>4, <2>5 DEF ResumeRead
<1>17. CASE ResumeLook(t)
  <2>1. call[t].at = "read" /\ UnchangedStore /\ UnchangedRuntime
    BY <1>17 DEF ResumeLook, At
  <2>2. PICK to \in {"ready", "preparing"} : Goes(t, to)
    BY <1>17 DEF ResumeLook
  <2>3. TaskOK' /\ completed' = completed
    BY <2>1, StoreKept DEF UnchangedStore, UnchangedRuntime, record, TaskOK
  <2>4. KeepsClaim(t, to) /\ to \in Points
    BY <2>1, <2>2 DEF KeepsClaim, UnchangedRuntime, Claimed, Points
  <2>5. QED  BY <2>2, <2>3, <2>4, GoesTyped, TakenGoes, SoundAgain
<1>18. QED  BY <1>1, <1>2, <1>3, <1>4, <1>5, <1>6, <1>7, <1>8, <1>9, <1>10, <1>11, <1>12, <1>13, <1>14, <1>15, <1>16, <1>17

\* The steps of run_next.
LEMMA RunsSound ==
    ASSUME Sound, NEW t \in Threads, Runs(t)
    PROVE  Sound'
<1> CallsOK /\ TaskOK /\ TakenIsNext
  BY SoundParts
<1>1. CASE Begin(t)
  <2>1. call[t].at = "claimed" /\ UnchangedRuntime
    BY <1>1 DEF Begin, At
  <2>2. TaskOK' /\ completed' = completed
    BY <1>1, TaskKept DEF Begin, UnchangedRuntime, TaskOK, Statuses, Runnable
  <2>3. CASE status \in Runnable
    <3> DEFINE c == [at |-> "begun", index |-> completed]
    <3>1. c \in Callers /\ c.at = "begun" /\ c.index = completed
      BY DEF Callers, TaskOK, Points, Claimed
    <3>2. call' = [call EXCEPT ![t] = c]
      BY <1>1, <2>3 DEF Begin
    <3>3. inflight' = inflight /\ (c.at \in Claimed <=> call[t].at \in Claimed)
      BY <2>1, <3>1 DEF UnchangedRuntime, Claimed
    <3> HIDE DEF c
    <3>4. QED  BY <2>2, <3>1, <3>2, <3>3, CallMoves, TakenKept, SoundAgain
  <2>4. CASE status \notin Runnable
    <3>1. Goes(t, "leaving") /\ "leaving" \in Points
      BY <1>1, <2>4 DEF Begin, Goes, Points, Claimed
    <3>2. KeepsClaim(t, "leaving")
      BY <2>1 DEF KeepsClaim, UnchangedRuntime, Claimed
    <3>3. QED  BY <2>2, <3>1, <3>2, GoesTyped, TakenGoes, SoundAgain
  <2>5. QED  BY <2>3, <2>4
<1>2. CASE LookUp(t)
  <2>1. call[t].at = "begun" /\ UnchangedStore /\ UnchangedRuntime
    BY <1>2 DEF LookUp, At
  <2>2. call[t].index \in 0..Count
    BY DEF CallsOK, Callers
  <2>3. PICK to \in {"lost", "exhausted", "executing"} :
            Goes(t, to) /\ (to = "executing" => call[t].index < Count)
    BY <1>2, <2>2, LegacyAssumption DEF LookUp
  <2>4. TaskOK' /\ completed' = completed
    BY <2>1, StoreKept DEF UnchangedStore, UnchangedRuntime, record, TaskOK
  <2>5. KeepsClaim(t, to) /\ to \in Points
    BY <2>1, <2>3 DEF KeepsClaim, UnchangedRuntime, Claimed, Points
  <2>6. QED  BY <2>1, <2>3, <2>4, <2>5, GoesTyped, TakenGoes, SoundAgain
<1>3. CASE Settle(t)
  <2>1. call[t].at \in Claimed /\ Goes(t, "leaving") /\ "leaving" \in Points
    BY <1>3 DEF Settle, Moves, At, Points, Claimed
  <2>2. KeepsClaim(t, "leaving")
    BY <1>3, <2>1 DEF Settle, KeepsClaim, UnchangedRuntime, Claimed
  <2>3. TaskOK' /\ completed' = completed
    <3>1. CASE At(t, "lost") /\ status \in Runnable
      <4>1. Interrupt /\ UNCHANGED session
        BY <1>3, <3>1 DEF Settle, UnchangedRuntime, At
      <4>2. QED
        BY <3>1, <4>1, TaskKept DEF Interrupt, Runnable, Resumable, TaskOK, Statuses
    <3>2. CASE At(t, "exhausted") /\ status = "running" /\ completed = Count
      BY <3>2, LegacyAssumption DEF TaskOK, SomethingLeft, Runnable
    <3>3. CASE UnchangedStore
      BY <1>3, <3>3, StoreKept DEF Settle, UnchangedStore, UnchangedRuntime, record, TaskOK
    <3>4. QED  BY <1>3, <3>1, <3>2, <3>3 DEF Settle
  <2>4. QED  BY <2>1, <2>2, <2>3, GoesTyped, TakenGoes, SoundAgain
<1>4. CASE Raise(t)
  <2>1. call[t].at \in Claimed /\ Goes(t, "leaving") /\ "leaving" \in Points
    BY <1>4 DEF Raise, Moves, At, Points, Claimed
  <2>2. KeepsClaim(t, "leaving")
    BY <1>4, <2>1 DEF Raise, KeepsClaim, UnchangedRuntime, Claimed
  <2>3. TaskOK' /\ completed' = completed
    BY <1>4, StoreKept DEF Raise, UnchangedStore, UnchangedRuntime, record, TaskOK
  <2>4. QED  BY <2>1, <2>2, <2>3, GoesTyped, TakenGoes, SoundAgain
<1>5. CASE Fall(t, "blocked")
  <2>1. call[t].at \in Claimed /\ Goes(t, "leaving") /\ "leaving" \in Points
    BY <1>5 DEF Fall, Moves, At, Points, Claimed
  <2>2. KeepsClaim(t, "leaving")
    BY <1>5, <2>1 DEF Fall, KeepsClaim, UnchangedRuntime, Claimed
  <2>3. TaskOK' /\ completed' = completed
    BY <1>5, TaskKept DEF Fall, UnchangedRuntime, TaskOK, Statuses
  <2>4. QED  BY <2>1, <2>2, <2>3, GoesTyped, TakenGoes, SoundAgain
<1>6. CASE Fall(t, "failed")
  <2>1. call[t].at \in Claimed /\ Goes(t, "leaving") /\ "leaving" \in Points
    BY <1>6 DEF Fall, Moves, At, Points, Claimed
  <2>2. KeepsClaim(t, "leaving")
    BY <1>6, <2>1 DEF Fall, KeepsClaim, UnchangedRuntime, Claimed
  <2>3. TaskOK' /\ completed' = completed
    BY <1>6, TaskKept DEF Fall, UnchangedRuntime, TaskOK, Statuses
  <2>4. QED  BY <2>1, <2>2, <2>3, GoesTyped, TakenGoes, SoundAgain
<1>7. CASE Release(t)
  BY <1>7, CallersSound
<1>8. CASE Pass(t)
  <2>1. call[t].at \in Claimed /\ Goes(t, "leaving") /\ "leaving" \in Points
    BY <1>8 DEF Pass, Moves, At, Points, Claimed
  <2>2. KeepsClaim(t, "leaving")
    BY <1>8, <2>1 DEF Pass, KeepsClaim, UnchangedRuntime, Claimed
  <2>3. call[t].at = "executing" /\ call[t].index = completed /\ completed < Count
    BY <1>8 DEF Pass, Moves, At, TakenIsNext
  <2>4. CASE status = "cancelled"
    <3>1. TaskOK' /\ completed' = completed
      BY <1>8, <2>4, StoreKept DEF Pass, UnchangedStore, UnchangedRuntime, record, TaskOK
    <3>2. QED  BY <2>1, <2>2, <3>1, GoesTyped, TakenGoes, SoundAgain
  <2>5. CASE status # "cancelled"
    <3>1. Passes(t) /\ UnchangedRuntime
      BY <1>8, <2>5 DEF Pass
    <3>2. completed \in Nat /\ Count \in Nat /\ completed + 1 <= Count
      BY <2>3, LegacyAssumption DEF TaskOK
    <3>3. completed' = completed + 1 /\ passed' = passed \cup {completed}
      BY <2>3, <3>1, <3>2 DEF Passes
    <3>4. passed' = 0..completed' - 1
      BY <3>2, <3>3 DEF TaskOK
    <3>5. /\ status' \in Statuses
          /\ status' \in Runnable \cup Resumable => completed' # Count
          /\ status' = "completed" => completed' = Count
      BY <3>1, <3>2, <3>3 DEF Passes, Statuses, Runnable, Resumable
    <3>6. TaskOK'
      <4>1. recovery' = FALSE /\ UNCHANGED session
        BY <3>1 DEF Passes, UnchangedRuntime
      <4>2. completed' \in 0..Count /\ completed' <= Count
        BY <3>2, <3>3, LegacyAssumption
      <4>3. SomethingLeft'
        BY <3>5, <4>2, LegacyAssumption DEF SomethingLeft
      <4>4. QED
        BY <3>4, <3>5, <4>1, <4>2, <4>3 DEF TaskOK
    <3>7. CallsOK'
      BY <2>1, <2>2, GoesTyped
    <3>8. \A u \in Threads : call'[u].at \notin {"begun", "lost", "exhausted", "executing"}
      <4>1. call'[t].at = "leaving"
        BY <2>1 DEF CallsOK, Callers, Goes
      <4>2. \A u \in Threads : call'[u].at \in Claimed => u = t
        BY <3>7, <4>1 DEF CallsOK, Claimed
      <4>3. QED  BY <4>1, <4>2 DEF Claimed
    <3>9. TakenIsNext'
      BY <3>8 DEF TakenIsNext
    <3>10. QED  BY <3>6, <3>7, <3>9, SoundAgain
  <2>6. QED  BY <2>4, <2>5
<1>9. QED  BY <1>1, <1>2, <1>3, <1>4, <1>5, <1>6, <1>7, <1>8 DEF Runs

LEMMA CrashSound ==
    ASSUME Sound, Crash PROVE Sound'
<1> CallsOK /\ TaskOK /\ TakenIsNext
  BY SoundParts
<1>1. \A t \in Threads : call'[t] = Idle /\ call'[t].at = "idle"
  BY DEF Crash, Idle
<1>2. call' \in [Threads -> Callers]
  BY LegacyAssumption DEF Crash, Idle, Callers, Points
<1>3. CallsOK' /\ TakenIsNext'
  BY <1>1, <1>2 DEF Crash, CallsOK, Claimed, TakenIsNext
<1>4. TaskOK'
  BY StoreKept DEF Crash
<1>5. QED  BY <1>3, <1>4, SoundAgain

LEMMA StepSound == Sound /\ [Next]_vars => Sound'
<1>1. CASE UNCHANGED vars
  BY <1>1 DEF vars, record, Sound, TypeOK, CountIsHonest, SomethingLeft,
     TakenIsNext
<1>2. CASE Next
  BY <1>2, CallersSound, RunsSound, CrashSound DEF Next
<1>3. QED  BY <1>1, <1>2

LEMMA AlwaysSound == Spec => []Sound
<1>1. QED  BY InitSound, StepSound, PTL DEF Spec

-----------------------------------------------------------------------------
(* The theorems.                                                              *)

(* The record keeps its shape, and the task is claimed exactly while one call *)
(* works on it, whatever number of threads run, cancel, resume and recover.   *)
THEOREM LegacyTyped == Spec => []TypeOK
<1>1. Sound => TypeOK
  BY DEF Sound
<1>2. QED  BY <1>1, AlwaysSound, PTL

(* Each subgoal counts once, in order, and only when a runtime passed it; the *)
(* index a run took before its runtime answered is still the next one then.   *)
THEOREM CountsAreHonest == Spec => []CountIsHonest
<1>1. Sound => CountIsHonest
  BY DEF Sound
<1>2. QED  BY <1>1, AlwaysSound, PTL

(* What recovery_required demands is never met by a resumption, a restart or  *)
(* a failure, only by a subgoal that passes.                                  *)
THEOREM RecoveriesAreEarned == Spec => RecoveryIsEarned
<1>1. Sound /\ [Next]_vars => [recovery /\ ~recovery' => passed' # passed]_vars
  <2> SUFFICES ASSUME Sound, Next, recovery, ~recovery' PROVE passed' # passed
    BY DEF vars, record
  <2>1. PICK t \in Threads : Moves(t, "executing", "leaving") /\ Passes(t)
    BY Zenon DEF Next, Runs, Claim, Begin, LookUp, Settle, Pass, Fall, Raise, Release,
       Pause, Stall, DropSession, CancelCheck, CancelWrite, ResumeCheck, ResumeRead,
       ResumeLook, Resubmit, Mismatch, Block, ResumeWrite, ResumeRaise, RecoverCheck,
       RecoverWrite, Crash, Interrupt, UnchangedStore, record
  <2>2. passed' = passed \cup {completed}
    BY <2>1 DEF Passes, Moves, At, Sound, TakenIsNext
  <2>3. completed \notin passed
    BY LegacyAssumption DEF Sound, CountIsHonest, TypeOK
  <2>4. QED  BY <2>2, <2>3
<1>2. QED  BY <1>1, AlwaysSound, PTL DEF Spec, RecoveryIsEarned

(* A recorded cancel is never turned back into work that goes on by a call    *)
(* that was under way; only a refused resubmission overwrites it.             *)
THEOREM CancelsHold == Spec => CancelHolds
<1>1. [Next]_vars => [status = "cancelled" => status' \in {"cancelled", "blocked"}]_vars
  <2> SUFFICES ASSUME Next, status = "cancelled"
               PROVE  status' = "cancelled" \/ status' = "blocked"
    BY DEF vars, record
  <2>1. QED
    BY DEF Next, Runs, Claim, Begin, LookUp, Settle, Pass, Fall, Raise, Release,
       Pause, Stall, DropSession, CancelCheck, CancelWrite, ResumeCheck, ResumeRead,
       ResumeLook, Resubmit, Mismatch, Block, ResumeWrite, ResumeRaise, RecoverCheck,
       RecoverWrite, Crash, UnchangedStore, record, Runnable, Resumable, Cancellable, At
<1>2. QED  BY <1>1, PTL DEF Spec, CancelHolds
=============================================================================
