-------------------------- MODULE AsyncTasks_proofs --------------------------
(* Proofs about the async tasks of a scope, for any number of spawned tasks,  *)
(* any kinds and any capacity of the registry.                                *)
EXTENDS AsyncTasks, FiniteSetTheorems, SequenceTheorems, WellFoundedInduction,
        TLAPS

-----------------------------------------------------------------------------
(* The inductive invariant.                                                   *)

\* An operation that goes on belongs to a live record, also in a TaskGroup
\* that aborts.
WorkIsLive == \A i \in Tasks : task[i].raw \notin Over => Live(i)

EndIsKnown == ~aborting => \A i \in Tasks : task[i].raw \in Over => ~Live(i)

\* A current task is the newest ever spawned of its kind: eviction may leave a
\* kind without one but never lets an older task back in.
CurrentIsNewest ==
    \A k \in TaskKinds : current[k] # NoTask =>
        \A i \in Tasks : task[i].kind = k => i <= current[k]

AppliedOfKind ==
    \A k \in TaskKinds : applied[k] # NoTask => task[applied[k]].kind = k

Sound == TypeOK /\ WorkIsLive /\ EndIsKnown /\ CurrentIsNewest /\ AppliedOfKind

\* What every step but a spawn keeps of the tasks.
KeepsTask(i) ==
    /\ task'[i].kind = task[i].kind
    /\ task'[i].state \notin Terminal => Live(i)
    /\ task'[i].raw \notin Over => task'[i].state \notin Terminal
    /\ ~aborting' /\ task'[i].raw \in Over => task'[i].state \in Terminal

KeepsTasks ==
    /\ task' \in Seq(Records) /\ Len(task') = Len(task)
    /\ \A i \in Tasks : KeepsTask(i)

InOrder == \A k \in TaskKinds : applied'[k] >= applied[k]

-----------------------------------------------------------------------------
(* Facts about sequences and sets of tasks.                                   *)

\* The tasks are numbered from one.
LEMMA TaskNumbers ==
    ASSUME Sound
    PROVE  /\ Len(task) \in Nat
           /\ Tasks = 1..Len(task)
           /\ \A i \in Tasks : task[i] \in Records
  BY LenProperties, ElementOfSeq DEF Sound, TypeOK, Tasks

\* Replacing one record leaves a sequence of records.
LEMMA OneReplaced ==
    ASSUME Sound, NEW i \in Tasks, NEW r \in Records,
           task' = [task EXCEPT ![i] = r]
    PROVE  /\ task' \in Seq(Records) /\ Len(task') = Len(task)
           /\ task'[i] = r
           /\ \A j \in Tasks : j # i => task'[j] = task[j]
  BY TaskNumbers, ExceptSeq DEF Sound, TypeOK

\* So does replacing them all.
LEMMA AllReplaced ==
    ASSUME Sound, NEW f, f \in [Tasks -> Records], task' = f
    PROVE  /\ task' \in Seq(Records) /\ Len(task') = Len(task)
<1>1. /\ Len(task) \in Nat
      /\ f \in [1..Len(task) -> Records]
  BY TaskNumbers
<1>2. f \in Seq(Records)
  BY <1>1, SeqDef
<1>3. Len(f) = Len(task)
  BY <1>1, <1>2, LenProperties
<1> QED
  BY <1>2, <1>3

\* There is an oldest among the records that may be evicted.
LEMMA OldestIsOne ==
    ASSUME NEW S, S \subseteq Nat, IsFiniteSet(S), S # {}
    PROVE  Oldest(S) \in S
<1> DEFINE UpTo(i) == {j \in S : j <= i}
           Family == {UpTo(i) : i \in S}
<1>1. Family \subseteq FiniteSubsetsOf(S)
  BY FS_Subset DEF FiniteSubsetsOf
<1>2. Family # {}
  OBVIOUS
<1>3. PICK D \in Family :
         \A E \in Family : <<E, D>> \notin StrictSubsetOrdering(S)
  BY <1>1, <1>2, FS_StrictSubsetOrderingWellFounded, WFMin
<1>4. PICK i \in S : D = UpTo(i)
  OBVIOUS
<1>5. ASSUME NEW j \in S, ~(i <= j)
      PROVE  FALSE
  <2>1. \A h \in S : h <= j => h <= i
    BY <1>5
  <2>2. i \in UpTo(i) /\ i \notin UpTo(j)
    BY <1>5
  <2>3. <<UpTo(j), UpTo(i)>> \in StrictSubsetOrdering(S)
    BY <2>1, <2>2 DEF StrictSubsetOrdering
  <2> QED
    BY <1>3, <1>4, <2>3
<1>6. \E h \in S : \A j \in S : h <= j
  BY <1>5
<1> QED
  BY <1>6 DEF Oldest

-----------------------------------------------------------------------------
(* What the steps have in common.                                             *)

\* A step that keeps the tasks and the registry keeps the invariant; a result
\* is committed only by the current task.
LEMMA KeepsSound ==
    ASSUME Sound, KeepsTasks, UnchangedRegistry,
           active' \in BOOLEAN, aborting' \in BOOLEAN,
           scope' \in {"open", "leaving", "failing", "closed"},
           \/ applied' = applied
           \/ \E i \in Tasks : /\ Commits(i)
                               /\ applied' = [applied EXCEPT ![task[i].kind] = i]
    PROVE  Sound' /\ InOrder
<1>1. /\ Len(task) \in Nat /\ Tasks = 1..Len(task)
      /\ \A i \in Tasks : task[i] \in Records
  BY TaskNumbers
<1>2. Tasks' = Tasks
  BY <1>1, LenProperties DEF KeepsTasks, Tasks
<1>3. \A i \in Tasks : KeepsTask(i)
  BY DEF KeepsTasks
<1>4. retained' = retained /\ current' = current
  BY DEF UnchangedRegistry
<1>5. applied' \in [TaskKinds -> Tasks \cup {NoTask}] /\ InOrder /\ AppliedOfKind'
  <2>1. CASE applied' = applied
    <3>1. \A k \in TaskKinds : applied[k] \in Nat
      BY <1>1 DEF Sound, TypeOK, NoTask
    <3>2. AppliedOfKind'
      BY <1>2, <1>3, <2>1 DEF Sound, TypeOK, AppliedOfKind, KeepsTask
    <3> QED
      BY <2>1, <3>1, <3>2 DEF Sound, TypeOK, InOrder
  <2>2. ASSUME NEW i \in Tasks, Commits(i),
               applied' = [applied EXCEPT ![task[i].kind] = i]
        PROVE  applied' \in [TaskKinds -> Tasks \cup {NoTask}] /\ InOrder /\ AppliedOfKind'
    <3> DEFINE c == task[i].kind
    <3>1. c \in TaskKinds /\ current[c] = i /\ i \in Nat \ {0}
      BY <1>1, <2>2 DEF Records, Commits
    <3>2. /\ applied \in [TaskKinds -> Tasks \cup {NoTask}]
          /\ \A k \in TaskKinds : applied[k] \in Nat
      BY <1>1 DEF Sound, TypeOK, NoTask
    <3>3. applied[c] <= i
      <4>1. CASE applied[c] = NoTask
        BY <3>1, <4>1 DEF NoTask
      <4>2. CASE applied[c] # NoTask
        <5>1. applied[c] \in Tasks /\ task[applied[c]].kind = c
          BY <3>1, <3>2, <4>2 DEF Sound, AppliedOfKind
        <5> QED
          BY <3>1, <5>1 DEF Sound, CurrentIsNewest, NoTask
      <4> QED
        BY <4>1, <4>2
    <3>4. applied' \in [TaskKinds -> Tasks \cup {NoTask}]
      BY <2>2, <3>1, <3>2
    <3>5. InOrder
      BY <2>2, <3>1, <3>2, <3>3 DEF InOrder
    <3>6. AppliedOfKind'
      <4>1. SUFFICES ASSUME NEW k \in TaskKinds, applied'[k] # NoTask
                     PROVE  task'[applied'[k]].kind = k
        BY DEF AppliedOfKind
      <4>2. CASE k = c
        BY <1>3, <2>2, <3>1, <3>2, <4>2 DEF KeepsTask
      <4>3. CASE k # c
        BY <1>3, <2>2, <3>2, <4>1, <4>3 DEF Sound, AppliedOfKind, KeepsTask
      <4> QED
        BY <4>2, <4>3
    <3> QED
      BY <3>4, <3>5, <3>6
  <2> QED
    BY <2>1, <2>2
<1>6. CurrentIsNewest'
  BY <1>2, <1>3, <1>4 DEF Sound, CurrentIsNewest, KeepsTask
<1>7. WorkIsLive' /\ EndIsKnown'
  BY <1>2, <1>3 DEF WorkIsLive, EndIsKnown, KeepsTask, Live
<1>8. TypeOK'
  <2>1. {i \in Tasks' : Live(i)'} \subseteq {i \in Tasks : Live(i)}
    BY <1>2, <1>3 DEF KeepsTask, Live
  <2> QED
    BY <1>2, <1>4, <1>5, <2>1 DEF Sound, TypeOK, KeepsTasks
<1> QED
  BY <1>5, <1>6, <1>7, <1>8 DEF Sound

\* A step of one task.
LEMMA OneTask ==
    ASSUME Sound, NEW i \in Tasks, NEW r \in Records,
           task' = [task EXCEPT ![i] = r], aborting' = aborting,
           r.kind = task[i].kind,
           r.state \notin Terminal => Live(i),
           r.raw \notin Over <=> r.state \notin Terminal
    PROVE  KeepsTasks
<1>1. /\ task' \in Seq(Records) /\ Len(task') = Len(task)
      /\ task'[i] = r
      /\ \A j \in Tasks : j # i => task'[j] = task[j]
  BY OneReplaced
<1>2. ASSUME NEW j \in Tasks
      PROVE  KeepsTask(j)
  <2>1. CASE j = i
    BY <1>1, <2>1 DEF KeepsTask
  <2>2. CASE j # i
    BY <1>1, <2>2 DEF KeepsTask, Sound, WorkIsLive, EndIsKnown, Live
  <2> QED
    BY <2>1, <2>2
<1> QED
  BY <1>1, <1>2 DEF KeepsTasks

\* A step of every task: none comes back to life, none is lost.
LEMMA EveryTask ==
    ASSUME Sound, NEW f, task' = f, f \in [Tasks -> Records],
           aborting' \in BOOLEAN, aborting => aborting',
           \A i \in Tasks :
               /\ f[i].kind = task[i].kind
               /\ f[i].state \notin Terminal => Live(i)
               /\ \/ aborting'
                  \/ f[i].raw \in Over <=> task[i].raw \in Over
               /\ f[i].raw \notin Over => task[i].raw \notin Over
               /\ task[i].state \notin Terminal => f[i].state \notin Terminal
    PROVE  KeepsTasks
<1>1. task' \in Seq(Records) /\ Len(task') = Len(task)
  BY AllReplaced
<1>2. ASSUME NEW i \in Tasks
      PROVE  KeepsTask(i)
  BY <1>2 DEF KeepsTask, Sound, WorkIsLive, EndIsKnown, Live
<1> QED
  BY <1>1, <1>2 DEF KeepsTasks

\* The record of a finished task.
LEMMA FinishedRecord ==
    ASSUME NEW t \in Records, NEW state \in TaskStates
    PROVE  /\ Finished(t, state) \in Records
           /\ Finished(t, state).kind = t.kind
           /\ Finished(t, state).raw = "ended" /\ Finished(t, state).state = state
  BY DEF Finished, Records, RawStates, Over, NoTask

\* An operation that ends with a result.
LEMMA EndedKeeps ==
    ASSUME Sound, NEW i \in Tasks, NEW state \in Terminal,
           Ended(i, state), aborting' = aborting
    PROVE  KeepsTasks
<1> DEFINE r == Finished(task[i], state)
<1>1. task[i] \in Records
  BY TaskNumbers
<1>2. /\ r \in Records /\ r.kind = task[i].kind
      /\ r.raw = "ended" /\ r.state = state
  BY <1>1, FinishedRecord DEF TaskStates
<1>3. task' = [task EXCEPT ![i] = r]
  BY DEF Ended
<1> QED
  BY <1>2, <1>3, OneTask DEF Over

\* What is cancelled, with all that is below it.
LEMMA CancelledTasks ==
    ASSUME Sound, NEW S
    PROVE  /\ Cancelled(S) \in [Tasks -> Records]
           /\ \A j \in Tasks :
                 /\ Cancelled(S)[j].kind = task[j].kind
                 /\ Cancelled(S)[j].state \notin Terminal <=> Live(j)
                 /\ Cancelled(S)[j].raw \in Over <=> task[j].raw \in Over
<1>1. \A j \in Tasks : task[j] \in Records
  BY TaskNumbers
<1>2. ASSUME NEW t \in Records
      PROVE  /\ Asked(t) \in Records /\ Asked(t).kind = t.kind
             /\ Asked(t).state = "CANCEL_REQUESTED"
             /\ Asked(t).raw \in Over <=> t.raw \in Over
  BY <1>2 DEF Asked, Interrupted, Records, TaskStates, RawStates, Executing, Over
<1>3. ASSUME NEW j \in Tasks
      PROVE  /\ Cancelled(S)[j] \in Records
             /\ Cancelled(S)[j].kind = task[j].kind
             /\ Cancelled(S)[j].state \notin Terminal <=> Live(j)
             /\ Cancelled(S)[j].raw \in Over <=> task[j].raw \in Over
  <2>1. CASE j \in Under(S) /\ task[j].state \in {"PENDING", "RUNNING"}
    BY <1>1, <1>2, <2>1 DEF Cancelled, Live, Terminal
  <2>2. CASE ~(j \in Under(S) /\ task[j].state \in {"PENDING", "RUNNING"})
    BY <1>1, <2>2 DEF Cancelled, Live
  <2> QED
    BY <2>1, <2>2
<1>4. Cancelled(S) \in [Tasks -> Records]
  <2>1. Cancelled(S) = [j \in Tasks |-> Cancelled(S)[j]]
    BY DEF Cancelled
  <2> QED
    BY <1>3, <2>1
<1> QED
  BY <1>3, <1>4

\* An interrupted task keeps its record.
LEMMA InterruptedRecord ==
    ASSUME NEW t \in Records
    PROVE  /\ [t EXCEPT !.raw = Interrupted(@)] \in Records
           /\ [t EXCEPT !.raw = Interrupted(@)].kind = t.kind
           /\ [t EXCEPT !.raw = Interrupted(@)].state = t.state
           /\ [t EXCEPT !.raw = Interrupted(@)].raw \in Over <=> t.raw \in Over
  BY DEF Interrupted, Records, RawStates, Executing, Over

\* The TaskGroup's abort.
LEMMA AbortedTasks ==
    ASSUME Sound
    PROVE  /\ Abort \in [Tasks -> Records]
           /\ \A j \in Tasks :
                 /\ Abort[j].kind = task[j].kind /\ Abort[j].state = task[j].state
                 /\ Abort[j].raw \in Over <=> task[j].raw \in Over
<1>1. \A j \in Tasks : task[j] \in Records
  BY TaskNumbers
<1>2. CASE aborting \/ scope = "failing"
  BY <1>1, <1>2, TaskNumbers, SeqDef DEF Abort, Sound, TypeOK, Tasks
<1>3. CASE ~(aborting \/ scope = "failing")
  <2>1. Abort = [j \in Tasks |-> [task[j] EXCEPT !.raw = Interrupted(@)]]
    BY <1>3 DEF Abort
  <2> QED
    BY <1>1, <2>1, InterruptedRecord
<1> QED
  BY <1>2, <1>3

-----------------------------------------------------------------------------
(* The steps, one by one.                                                     *)

\* Typed owner and abort flag, as every step but a spawn leaves them.
LEMMA OwnerTyped ==
    ASSUME Sound
    PROVE  active \in BOOLEAN /\ aborting \in BOOLEAN
           /\ scope \in {"open", "leaving", "failing", "closed"}
  BY DEF Sound, TypeOK

LEMMA StartStep ==
    ASSUME Sound, NEW i \in Tasks, Start(i)
    PROVE  Sound' /\ InOrder
<1> DEFINE r == [task[i] EXCEPT !.raw = "running", !.state = "RUNNING"]
<1>1. task[i] \in Records
  BY TaskNumbers
<1>2. /\ r \in Records /\ r.kind = task[i].kind
      /\ r.raw = "running" /\ r.state = "RUNNING"
  BY <1>1 DEF Records, RawStates, Executing, TaskStates
<1>3. Live(i)
  BY DEF Start, Sound, WorkIsLive, Over
<1>4. task' = [task EXCEPT ![i] = r] /\ aborting' = aborting
  BY <1>1 DEF Start
<1>5. KeepsTasks
  BY <1>2, <1>3, <1>4, OneTask DEF Over, Terminal
<1> QED
  BY <1>5, OwnerTyped, KeepsSound DEF Start, UnchangedOwner

LEMMA ReturnStep ==
    ASSUME Sound, NEW i \in Tasks, Return(i)
    PROVE  Sound' /\ InOrder
<1>1. KeepsTasks
  BY EndedKeeps DEF Return, Terminal
<1>2. \/ applied' = applied
      \/ Commits(i) /\ applied' = [applied EXCEPT ![task[i].kind] = i]
  BY DEF Return
<1>3. UnchangedRegistry /\ UnchangedOwner /\ aborting' = aborting
  BY DEF Return
<1> QED
  BY <1>1, <1>2, <1>3, OwnerTyped, KeepsSound DEF UnchangedOwner

\* The other ends of an operation commit nothing.
LEMMA EndStep ==
    ASSUME Sound, NEW i \in Tasks,
           Fail(i) \/ Expire(i) \/ Heed(i) \/ EndBarred(i)
    PROVE  Sound' /\ InOrder
<1>1. \E state \in Terminal : Ended(i, state)
  BY DEF Fail, Expire, Heed, EndBarred, Terminal
<1>2. /\ UnchangedRegistry /\ UnchangedOwner
      /\ aborting' = aborting /\ applied' = applied
  BY DEF Fail, Expire, Heed, EndBarred
<1>3. KeepsTasks
  BY <1>1, <1>2, EndedKeeps
<1> QED
  BY <1>2, <1>3, OwnerTyped, KeepsSound DEF UnchangedOwner

LEMMA SwallowStep ==
    ASSUME Sound, NEW i \in Tasks, Swallow(i)
    PROVE  Sound' /\ InOrder
<1> DEFINE r == [task[i] EXCEPT !.raw = "heedless"]
<1>1. task[i] \in Records
  BY TaskNumbers
<1>2. /\ r \in Records /\ r.kind = task[i].kind
      /\ r.raw = "heedless" /\ r.state = task[i].state
  BY <1>1 DEF Records, RawStates, Executing
<1>3. Live(i)
  BY DEF Swallow, Sound, WorkIsLive, Over
<1>4. task' = [task EXCEPT ![i] = r] /\ aborting' = aborting
  BY DEF Swallow
<1>5. KeepsTasks
  BY <1>2, <1>3, <1>4, OneTask DEF Over, Live
<1> QED
  BY <1>5, OwnerTyped, KeepsSound DEF Swallow, UnchangedOwner

LEMMA CancelStep ==
    ASSUME Sound, NEW i \in Tasks, Cancel(i)
    PROVE  Sound' /\ InOrder
<1>1. task' = Cancelled({i}) /\ aborting' = aborting /\ aborting \in BOOLEAN
  BY OwnerTyped DEF Cancel
<1>2. KeepsTasks
  BY <1>1, CancelledTasks, EveryTask DEF Live
<1> QED
  BY <1>2, OwnerTyped, KeepsSound DEF Cancel, UnchangedOwner

LEMMA StrayStep ==
    ASSUME Sound, NEW i \in Tasks, Stray(i)
    PROVE  Sound' /\ InOrder
<1> DEFINE r == [task[i] EXCEPT !.raw = "stray", !.fresh = FALSE]
<1>1. task[i] \in Records
  BY TaskNumbers
<1>2. /\ r \in Records /\ r.kind = task[i].kind
      /\ r.raw = "stray" /\ r.state = task[i].state
  BY <1>1 DEF Records, RawStates
<1>3. Live(i)
  BY DEF Stray, Live, Terminal
<1>4. task' = [task EXCEPT ![i] = r] /\ aborting' = aborting
  BY <1>1 DEF Stray, Records
<1>5. KeepsTasks
  BY <1>2, <1>3, <1>4, OneTask DEF Over, Live
<1> QED
  BY <1>5, OwnerTyped, KeepsSound DEF Stray, UnchangedOwner

LEMMA NoticeStep ==
    ASSUME Sound, NEW i \in Tasks, Notice(i)
    PROVE  Sound' /\ InOrder
<1> DEFINE f == [Abort EXCEPT ![i].raw = "ended"]
<1>1. /\ Abort \in [Tasks -> Records]
      /\ \A j \in Tasks :
            /\ Abort[j].kind = task[j].kind /\ Abort[j].state = task[j].state
            /\ Abort[j].raw \in Over <=> task[j].raw \in Over
  BY AbortedTasks
<1>2. task' = f /\ aborting' = TRUE /\ Live(i) /\ task[i].raw \notin Over
  BY DEF Notice, Sound, WorkIsLive, Over
<1>3. ASSUME NEW t \in Records
      PROVE  /\ [t EXCEPT !.raw = "ended"] \in Records
             /\ [t EXCEPT !.raw = "ended"].kind = t.kind
             /\ [t EXCEPT !.raw = "ended"].state = t.state
             /\ [t EXCEPT !.raw = "ended"].raw \in Over
  BY DEF Records, RawStates, Over
<1>4. f = [Abort EXCEPT ![i] = [Abort[i] EXCEPT !.raw = "ended"]]
  BY <1>1
<1>5. ASSUME NEW j \in Tasks
      PROVE  /\ f[j] \in Records /\ f[j].kind = task[j].kind /\ f[j].state = task[j].state
             /\ f[j].raw \notin Over => task[j].raw \notin Over
  <2>1. CASE j = i
    BY <1>1, <1>3, <1>4, <2>1
  <2>2. CASE j # i
    BY <1>1, <1>4, <2>2
  <2> QED
    BY <2>1, <2>2
<1>6. f \in [Tasks -> Records]
  BY <1>1, <1>3, <1>4
<1>7. KeepsTasks
  <2> HIDE DEF f
  <2> QED
    BY <1>2, <1>5, <1>6, EveryTask DEF Live
<1> QED
  BY <1>2, <1>7, OwnerTyped, KeepsSound DEF Notice, UnchangedOwner

LEMMA OuterCancelStep ==
    ASSUME Sound, OuterCancel
    PROVE  Sound' /\ InOrder
<1>1. task' = Abort /\ aborting' = TRUE
  BY DEF OuterCancel
<1>2. KeepsTasks
  BY <1>1, AbortedTasks, EveryTask DEF Live
<1> QED
  BY <1>1, <1>2, OwnerTyped, KeepsSound DEF OuterCancel, UnchangedOwner

LEMMA LeaveByErrorStep ==
    ASSUME Sound, LeaveByError
    PROVE  Sound' /\ InOrder
<1> DEFINE asked == Cancelled({i \in Tasks : task[i].raw # "never"})
           f == IF aborting THEN asked
                ELSE [j \in Tasks |-> [asked[j] EXCEPT !.raw = Interrupted(@)]]
<1>1. task' = f /\ aborting' = aborting /\ aborting \in BOOLEAN
  BY OwnerTyped DEF LeaveByError
<1>2. /\ asked \in [Tasks -> Records]
      /\ \A j \in Tasks :
            /\ asked[j].kind = task[j].kind
            /\ asked[j].state \notin Terminal <=> Live(j)
            /\ asked[j].raw \in Over <=> task[j].raw \in Over
  BY CancelledTasks
<1> HIDE DEF asked
<1>3. /\ f \in [Tasks -> Records]
      /\ \A j \in Tasks :
            /\ f[j].kind = task[j].kind
            /\ f[j].state \notin Terminal <=> Live(j)
            /\ f[j].raw \in Over <=> task[j].raw \in Over
  <2>1. CASE aborting
    BY <1>2, <2>1
  <2>2. CASE ~aborting
    BY <1>2, <2>2, InterruptedRecord
  <2> QED
    BY <2>1, <2>2
<1>4. KeepsTasks
  <2> HIDE DEF f
  <2> QED
    BY <1>1, <1>3, EveryTask DEF Live
<1> QED
  BY <1>4, OwnerTyped, KeepsSound DEF LeaveByError

LEMMA AdvanceStep ==
    ASSUME Sound, AdvanceGeneration \/ DeactivateOwner
    PROVE  Sound' /\ InOrder
<1> DEFINE f == [i \in Tasks |-> [task[i] EXCEPT !.fresh = FALSE]]
<1>1. \A j \in Tasks : task[j] \in Records
  BY TaskNumbers
<1>2. ASSUME NEW j \in Tasks
      PROVE  /\ f[j] \in Records /\ f[j].kind = task[j].kind
             /\ f[j].state = task[j].state /\ f[j].raw = task[j].raw
  BY <1>1 DEF Records
<1>3. f \in [Tasks -> Records]
  BY <1>2
<1>4. task' = f /\ aborting' = aborting /\ aborting \in BOOLEAN
  BY OwnerTyped DEF AdvanceGeneration, DeactivateOwner
<1>5. KeepsTasks
  <2> HIDE DEF f
  <2> QED
    BY <1>2, <1>3, <1>4, EveryTask DEF Live
<1> QED
  BY <1>5, OwnerTyped, KeepsSound DEF AdvanceGeneration, DeactivateOwner, UnchangedOwner

\* Nothing happens to the tasks.
LEMMA OwnerStep ==
    ASSUME Sound, Leave \/ Close \/ UNCHANGED vars
    PROVE  Sound' /\ InOrder
<1>1. task' = task /\ aborting' = aborting /\ applied' = applied
  BY DEF Leave, Close, vars
<1>2. KeepsTasks
  BY <1>1 DEF KeepsTasks, KeepsTask, Sound, TypeOK, WorkIsLive, EndIsKnown, Live
<1>3. /\ UnchangedRegistry /\ active' \in BOOLEAN
      /\ scope' \in {"open", "leaving", "failing", "closed"}
  BY OwnerTyped DEF Leave, Close, vars, UnchangedRegistry
<1> QED
  BY <1>1, <1>2, <1>3, OwnerTyped, KeepsSound

\* A spawn: the new task is the newest, and only a finished record makes room.
LEMMA SpawnStep ==
    ASSUME Sound, NEW k \in TaskKinds, NEW parent \in Tasks \cup {NoTask},
           Spawn(k, parent)
    PROVE  Sound' /\ InOrder
<1> DEFINE new == Len(task) + 1
           r == [kind |-> k, parent |-> parent, fresh |-> ~aborting, state |-> "PENDING",
                 raw |-> IF aborting THEN "never" ELSE "unstarted"]
<1>1. /\ Len(task) \in Nat /\ Tasks = 1..Len(task)
      /\ \A i \in Tasks : task[i] \in Records
  BY TaskNumbers
<1>2. r \in Records
  BY <1>1, OwnerTyped DEF Records, TaskStates, RawStates, Over, NoTask
<1>3. task' = Append(task, r)
  BY DEF Spawn
<1>4. /\ task' \in Seq(Records) /\ Len(task') = new
      /\ task'[new] = r
      /\ \A i \in Tasks : task'[i] = task[i]
  <2>1. task \in Seq(Records)
    BY DEF Sound, TypeOK
  <2> HIDE DEF r
  <2> QED
    BY <1>1, <1>2, <1>3, <2>1, AppendProperties
<1>5. Tasks' = Tasks \cup {new} /\ new \notin Tasks /\ new \in Nat \ {0}
  <2>1. Tasks' = 1..new
    BY <1>4, LenProperties DEF Tasks
  <2> QED
    BY <1>1, <2>1
<1>6. /\ retained' = (retained \ Evicted) \cup {new}
      /\ current' = [c \in TaskKinds |-> IF c = k THEN new
                                       ELSE IF current[c] \in Evicted THEN NoTask
                                       ELSE current[c]]
      /\ applied' = applied /\ aborting' = aborting
      /\ active' = active /\ scope' = scope
      /\ Full => Evictable # {}
      /\ new <= MaxSpawns
  BY DEF Spawn, UnchangedOwner
<1>7. /\ r.kind = k /\ r.state \notin Terminal
      /\ ~aborting => r.raw \notin Over
      /\ r.raw \notin Over => ~aborting
  BY DEF Terminal, Over
<1> HIDE DEF r
<1>8. IsFiniteSet(retained) /\ retained \subseteq Nat /\ Cardinality(retained) \in Nat
  <2>1. IsFiniteSet(Tasks) /\ Tasks \subseteq Nat
    BY <1>1, FS_Interval
  <2>2. retained \subseteq Tasks
    BY DEF Sound, TypeOK
  <2> QED
    BY <2>1, <2>2, FS_Subset, FS_CardinalityType
<1>9. Evicted \subseteq Evictable /\ (Full => \E i \in retained : Evicted = {i})
  <2>1. CASE Full
    <3>1. Evictable \subseteq retained
      BY DEF Evictable
    <3>2. IsFiniteSet(Evictable) /\ Evictable \subseteq Nat
      BY <1>8, <3>1, FS_Subset
    <3>3. Oldest(Evictable) \in Evictable
      BY <1>6, <2>1, <3>2, OldestIsOne
    <3> QED
      BY <2>1, <3>1, <3>3 DEF Evicted
  <2>2. CASE ~Full
    BY <2>2 DEF Evicted
  <2> QED
    BY <2>1, <2>2
<1>10. Cardinality(retained') <= Capacity
  <2>1. Capacity \in Nat \ {0} /\ Cardinality(retained) <= Capacity /\ retained \subseteq Tasks
    BY AsyncAssumption DEF Sound, TypeOK
  <2>2. CASE Full
    <3>1. PICK i \in retained : Evicted = {i}
      BY <1>9, <2>2
    <3>2. /\ IsFiniteSet(retained \ {i})
          /\ Cardinality(retained \ {i}) = Cardinality(retained) - 1
      BY <1>8, FS_RemoveElement
    <3>3. new \notin retained \ {i}
      BY <1>5, <2>1
    <3>4. Cardinality((retained \ {i}) \cup {new}) = Cardinality(retained \ {i}) + 1
      BY <3>2, <3>3, FS_AddElement
    <3> QED
      BY <1>6, <1>8, <2>1, <3>1, <3>2, <3>4
  <2>3. CASE ~Full
    <3>1. retained' = retained \cup {new} /\ Cardinality(retained) < Capacity
      BY <1>6, <1>8, <2>1, <2>3 DEF Evicted, Full
    <3>2. Cardinality(retained \cup {new}) = Cardinality(retained) + 1
      BY <1>5, <1>8, <2>1, FS_AddElement
    <3> QED
      BY <1>8, <2>1, <3>1, <3>2
  <2> QED
    BY <2>2, <2>3
<1>11. /\ retained' \subseteq Tasks'
       /\ {i \in Tasks' : Live(i)'} \subseteq retained'
  <2>1. retained \subseteq Tasks /\ {i \in Tasks : Live(i)} \subseteq retained
    BY DEF Sound, TypeOK
  <2>2. ASSUME NEW i \in Tasks', Live(i)'
        PROVE  i \in retained'
    <3>1. CASE i = new
      BY <1>6, <3>1
    <3>2. CASE i # new
      <4>1. i \in Tasks /\ Live(i)
        BY <1>4, <1>5, <2>2, <3>2 DEF Live
      <4>2. i \notin Evicted
        BY <1>9, <4>1 DEF Evictable
      <4> QED
        BY <1>6, <2>1, <4>1, <4>2
    <3> QED
      BY <3>1, <3>2
  <2> QED
    BY <1>5, <1>6, <2>1, <2>2
<1>12. /\ current \in [TaskKinds -> Tasks \cup {NoTask}]
       /\ applied \in [TaskKinds -> Tasks \cup {NoTask}]
  BY DEF Sound, TypeOK
<1>13. TypeOK'
  <2>1. current' \in [TaskKinds -> Tasks' \cup {NoTask}]
    BY <1>5, <1>6, <1>12
  <2>2. applied' \in [TaskKinds -> Tasks' \cup {NoTask}]
    BY <1>5, <1>6, <1>12
  <2> QED
    BY <1>4, <1>6, <1>10, <1>11, <2>1, <2>2, OwnerTyped DEF TypeOK
<1>14. WorkIsLive' /\ EndIsKnown'
  BY <1>4, <1>5, <1>6, <1>7 DEF Sound, WorkIsLive, EndIsKnown, Live
<1>15. CurrentIsNewest'
  <2>1. SUFFICES ASSUME NEW c \in TaskKinds, current'[c] # NoTask,
                        NEW i \in Tasks', task'[i].kind = c
                 PROVE  i <= current'[c]
    BY DEF CurrentIsNewest
  <2>2. CASE c = k
    BY <1>1, <1>5, <1>6, <2>2
  <2>3. CASE c # k
    <3>1. current'[c] = current[c] /\ current[c] # NoTask
      BY <1>6, <2>1, <2>3
    <3>2. i \in Tasks /\ task[i].kind = c
      BY <1>4, <1>5, <1>7, <2>1, <2>3
    <3> QED
      BY <3>1, <3>2 DEF Sound, CurrentIsNewest
  <2> QED
    BY <2>2, <2>3
<1>16. AppliedOfKind'
  BY <1>4, <1>6, <1>12 DEF Sound, AppliedOfKind
<1>17. InOrder
  BY <1>1, <1>6, <1>12 DEF InOrder, NoTask
<1> QED
  BY <1>13, <1>14, <1>15, <1>16, <1>17 DEF Sound

-----------------------------------------------------------------------------
(* The theorems.                                                              *)

\* Init has no tasks.
LEMMA InitSound == Init => Sound
<1> SUFFICES ASSUME Init PROVE Sound
  OBVIOUS
<1>1. task \in Seq(Records) /\ Len(task) = 0 /\ Tasks = {}
  BY EmptySeq DEF Init, Tasks
<1>2. Cardinality(retained) = 0 /\ MaxSpawns \in Nat /\ Capacity \in Nat
  BY FS_EmptySet, AsyncAssumption DEF Init
<1>3. TypeOK
  <2>1. /\ current \in [TaskKinds -> Tasks \cup {NoTask}]
        /\ applied \in [TaskKinds -> Tasks \cup {NoTask}]
    BY DEF Init
  <2>2. {i \in Tasks : Live(i)} \subseteq retained /\ retained \subseteq Tasks
    BY <1>1 DEF Init
  <2>3. Len(task) <= MaxSpawns /\ Cardinality(retained) <= Capacity
    BY <1>1, <1>2
  <2> QED
    BY <1>1, <2>1, <2>2, <2>3 DEF Init, TypeOK
<1>4. WorkIsLive /\ EndIsKnown /\ CurrentIsNewest /\ AppliedOfKind
  BY <1>1 DEF Init, WorkIsLive, EndIsKnown, CurrentIsNewest, AppliedOfKind
<1> QED
  BY <1>3, <1>4 DEF Sound

LEMMA StepSound ==
    ASSUME Sound, [Next]_vars
    PROVE  Sound' /\ InOrder
<1>1. ASSUME NEW k \in TaskKinds, NEW p \in Tasks \cup {NoTask}, Spawn(k, p)
      PROVE  Sound' /\ InOrder
  BY <1>1, SpawnStep
<1>2. ASSUME NEW i \in Tasks,
             \/ Start(i) \/ EndBarred(i) \/ Notice(i) \/ Ends(i) \/ Swallow(i)
             \/ Cancel(i)
      PROVE  Sound' /\ InOrder
  <2>1. CASE Start(i)
    BY <2>1, StartStep
  <2>2. CASE Return(i)
    BY <2>2, ReturnStep
  <2>3. CASE Fail(i) \/ Expire(i) \/ Heed(i) \/ EndBarred(i)
    BY <2>3, EndStep
  <2>4. CASE Stray(i)
    BY <2>4, StrayStep
  <2>5. CASE Swallow(i)
    BY <2>5, SwallowStep
  <2>6. CASE Cancel(i)
    BY <2>6, CancelStep
  <2>7. CASE Notice(i)
    BY <2>7, NoticeStep
  <2> QED
    BY <1>2, <2>1, <2>2, <2>3, <2>4, <2>5, <2>6, <2>7 DEF Ends
<1>3. CASE Leave \/ Close \/ UNCHANGED vars
  BY <1>3, OwnerStep
<1>4. CASE LeaveByError
  BY <1>4, LeaveByErrorStep
<1>5. CASE OuterCancel
  BY <1>5, OuterCancelStep
<1>6. CASE AdvanceGeneration \/ DeactivateOwner
  BY <1>6, AdvanceStep
<1> QED
  BY <1>1, <1>2, <1>3, <1>4, <1>5, <1>6 DEF Next

LEMMA AlwaysSound == Spec => []Sound
<1>1. Init => Sound
  BY InitSound
<1>2. Sound /\ [Next]_vars => Sound'
  BY StepSound
<1> QED
  BY <1>1, <1>2, PTL DEF Spec

(* Every live task has its record in the registry, which stays within its     *)
(* capacity: eviction takes finished records only.                            *)
THEOREM AsyncTyped == Spec => []TypeOK
<1>1. Sound => TypeOK
  BY DEF Sound
<1> QED
  BY <1>1, AlwaysSound, PTL

(* A task has its result exactly when the TaskGroup is done with it, as long  *)
(* as the TaskGroup has not aborted by itself: no end is missed and none is   *)
(* announced early.                                                           *)
THEOREM NobodyIsLost == Spec => []NobodyLost
<1>1. Sound => NobodyLost
  BY DEF Sound, WorkIsLive, EndIsKnown, NobodyLost
<1> QED
  BY <1>1, AlwaysSound, PTL

(* A late result never replaces that of a task spawned after it, however      *)
(* records are evicted and whatever is cancelled.                             *)
THEOREM CommitsAreOrdered == Spec => CommitsInOrder
<1>1. Sound /\ [Next]_vars => [\A k \in TaskKinds : applied'[k] >= applied[k]]_vars
  BY StepSound DEF InOrder
<1> QED
  BY <1>1, AlwaysSound, PTL DEF Spec, CommitsInOrder
=============================================================================
