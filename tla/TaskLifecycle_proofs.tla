------------------------ MODULE TaskLifecycle_proofs ------------------------
(* What the end of a governed task may rely on. The task goes on underneath, *)
(* and its checkpoint may now disappear: the layers proved for it are taken  *)
(* in the form that holds with or without one. On them stand the layers of   *)
(* the lifecycle record and of the call that works on it.                    *)
EXTENDS TaskLifecycle, GovernedAhead_proofs

-----------------------------------------------------------------------------
(* The record and the call. A record has a class once it is no longer active.*)

Agree(rec) ==
    /\ rec.state = "ACTIVE" <=> rec.class = "NONE"
    /\ rec.class # "NONE" => rec.on

\* How far a call has come says what it has found.
CallSound ==
    /\ client.pc # "none" => client.by \in Callers
    /\ client.op \in {"acknowledge", "cleanup"} => client.seen.class # "NONE"
    /\ client.pc \in {"none", "birth", "register"} => client.seen.class = "NONE"
    /\ client.pc \notin {"none", "birth"} => client.seen.on
    /\ client.pc \notin {"none", "birth", "register"} => life.on
    /\ client.pc = "permit" => client.view.on
    /\ client.pc \in {"permit", "erase", "settle"} => client.seen.class # "NONE"
    /\ client.view.on => client.pc \in {"ledger", "permit", "erase"}

CallBase ==
    /\ LifecycleTypeOK
    /\ Agree(life) /\ Agree(client.seen)
    /\ CallSound

\* Until a record exists, the task has its checkpoint.
LBase == CallBase /\ HInv /\ (life.on \/ Present)

-----------------------------------------------------------------------------
(* The calls keep the shape of record and call.                              *)

LEMMA EmptyTyped ==
    /\ NoLife \in LifeRecords /\ NoCall \in Calls
    /\ NoLife.class = "NONE" /\ ~NoLife.on /\ NoLife.state = "ACTIVE"
    /\ NoCall.pc = "none" /\ NoCall.op = "none" /\ NoCall.seen = NoLife
    /\ NoCall.view = NoCheckpoint /\ ~NoCheckpoint.on
<1>1. NoLife \in LifeRecords
  BY RevisionFacts DEF NoLife, LifeRecords, LifeStates, Classes
<1>2. NoLease \in Leases
  BY RevisionFacts DEF NoLease, Leases
<1>3. NoCall \in Calls
  BY <1>1, <1>2, RestTyped DEF NoCall, Calls, CallPCs
<1> QED
  BY <1>1, <1>3 DEF NoLife, NoCall, NoCheckpoint

LEMMA ActiveTyped ==
    ASSUME NEW rev \in Revisions
    PROVE  /\ ActiveFor(rev) \in LifeRecords
           /\ ActiveFor(rev).class = "NONE" /\ ActiveFor(rev).on
           /\ ActiveFor(rev).state = "ACTIVE" /\ ActiveFor(rev).rev = rev
  BY EmptyTyped DEF ActiveFor, LifeRecords

\* The three operations, and the states a record must be in for them.
LEMMA EntryFacts ==
    /\ DOMAIN Entry = {"evaluate", "acknowledge", "cleanup"}
    /\ Entry["evaluate"] = "ACTIVE"
    /\ Entry["acknowledge"] = "ACKNOWLEDGEMENT_PENDING"
    /\ Entry["cleanup"] = "RETENTION_ELIGIBLE"
  BY DEF Entry

LEMMA EndedBase ==
    ASSUME CallBase, client' = NoCall, life' \in LifeRecords, Agree(life')
    PROVE  CallBase'
  BY EmptyTyped DEF CallBase, LifecycleTypeOK, Agree, CallSound

LEMMA VerdictTyped ==
    ASSUME NEW c, NEW l, NEW r
    PROVE  CheckpointVerdict(c, l, r) \in Classes
  BY DEF CheckpointVerdict, Classes

\* A call that has decided what the record becomes.
LEMMA SettlingBase ==
    ASSUME CallBase, NEW record \in LifeRecords, Settling(record),
           record.on, record.class # "NONE", record.state # "ACTIVE",
           client.pc # "none", life.on, UNCHANGED life
    PROVE  CallBase'
<1>1. client \in Calls
  BY DEF CallBase, LifecycleTypeOK
<1>2. client' \in Calls
  BY <1>1, EmptyTyped DEF Settling, Calls, CallPCs
<1>3. /\ client'.pc = "settle" /\ client'.seen = record /\ ~client'.view.on
      /\ client'.by = client.by
  BY EmptyTyped DEF Settling, Calls
<1> QED
  BY <1>2, <1>3 DEF CallBase, LifecycleTypeOK, Agree, CallSound

\* A call that goes on with the record it has seen.
LEMMA GoesOnBase ==
    ASSUME CallBase, client' \in Calls, UNCHANGED life, life.on,
           client'.op = client.op, client'.by = client.by,
           client'.seen = client.seen, client.pc # "none", client.seen.on,
           client'.pc \in {"artifacts", "ledger", "permit", "erase"},
           client'.pc \in {"permit", "erase"} => client.seen.class # "NONE",
           client'.pc = "permit" => client'.view.on,
           client'.view.on => client'.pc # "artifacts"
    PROVE  CallBase'
  BY DEF CallBase, LifecycleTypeOK, Agree, CallSound

LEMMA OpenBase ==
    ASSUME CallBase, NEW r \in Callers, NEW op \in DOMAIN Entry, Open(r, op)
    PROVE  CallBase'
<1>1. /\ client' = [NoCall EXCEPT
             !.pc = IF life.on THEN "artifacts" ELSE "birth",
             !.op = op, !.by = r, !.seen = life]
      /\ UNCHANGED life
      /\ \/ life.on /\ life.state = Entry[op]
         \/ ~life.on /\ op = "evaluate"
  BY DEF Open, StoreKept
<1>2. client' \in Calls
  BY <1>1, EmptyTyped, LifecycleAssumption
     DEF Calls, CallPCs, CallBase, LifecycleTypeOK
<1>3. /\ client'.pc = IF life.on THEN "artifacts" ELSE "birth"
      /\ client'.op = op /\ client'.seen = life /\ ~client'.view.on
      /\ client'.by = r
  BY <1>1, EmptyTyped DEF Calls
<1>4. op \in {"acknowledge", "cleanup"} => life.state # "ACTIVE"
  BY <1>1, EntryFacts
<1> QED
  BY <1>1, <1>2, <1>3, <1>4 DEF CallBase, LifecycleTypeOK, Agree, CallSound

LEMMA BirthBase ==
    ASSUME CallBase, TypeOK, Birth
    PROVE  CallBase'
<1> DEFINE s == session[client.by]
           rev == IF checkpoint.on THEN checkpoint.rev ELSE s.rev
           found == [client EXCEPT !.pc = "register", !.seen = ActiveFor(rev)]
<1>1. /\ client \in Calls /\ client.by \in Runtimes /\ UNCHANGED life
      /\ client.op \notin {"acknowledge", "cleanup"}
  BY LifecycleAssumption
     DEF CallBase, LifecycleTypeOK, CallSound, Birth, AtClient, StoreKept
<1>2. client' \in {NoCall, found}
  BY DEF Birth, ClientEnds
<1>3. rev \in Revisions
  BY <1>1, Shapes DEF Checkpoints, Sessions
<1> HIDE DEF rev
<1>4. CASE client' = NoCall
  BY <1>1, <1>4, EndedBase DEF CallBase, LifecycleTypeOK
<1>5. CASE client' = found
  <2>1. /\ found \in Calls /\ found.pc = "register" /\ found.op = client.op
        /\ found.seen = ActiveFor(rev) /\ found.by = client.by
        /\ found.view = client.view
    BY <1>1, <1>3, ActiveTyped DEF Calls, CallPCs
  <2>2. ~client.view.on
    BY DEF CallBase, CallSound, Birth, AtClient
  <2> HIDE DEF found
  <2> QED
    BY <1>1, <1>3, <1>5, <2>1, <2>2, ActiveTyped, LifecycleAssumption
       DEF CallBase, LifecycleTypeOK, Agree, CallSound, Birth, AtClient
<1> QED
  BY <1>2, <1>4, <1>5

LEMMA JudgeBase ==
    ASSUME CallBase, Judge
    PROVE  CallBase'
<1> DEFINE c == client.view
           verdict == CheckpointVerdict(c, client.owned, client.by)
           again == [client EXCEPT !.pc = "artifacts", !.sure = TRUE,
                                   !.view = NoCheckpoint, !.owned = NoLease]
           agreed == c.on /\ verdict = client.seen.class
           asks == [client EXCEPT !.pc = "permit", !.sure = agreed]
           removes == [client EXCEPT !.pc = "erase", !.sure = FALSE]
<1>1. /\ client \in Calls /\ client.seen \in LifeRecords /\ client.pc = "ledger"
      /\ client.seen.on /\ life.on /\ UNCHANGED life /\ Agree(client.seen)
  BY DEF CallBase, LifecycleTypeOK, CallSound, Judge, AtClient, StoreKept, Calls
<1>2. verdict \in Classes
  BY VerdictTyped
<1> HIDE DEF verdict
<1>3. CASE /\ verdict # "NONE"
           /\ Settling([client.seen EXCEPT
                  !.state = "ACKNOWLEDGEMENT_PENDING", !.class = verdict])
  <2> DEFINE record == [client.seen EXCEPT
                  !.state = "ACKNOWLEDGEMENT_PENDING", !.class = verdict]
  <2>1. /\ record \in LifeRecords /\ record.on /\ record.class = verdict
        /\ record.state = "ACKNOWLEDGEMENT_PENDING"
    BY <1>1, <1>2 DEF LifeRecords, LifeStates
  <2> HIDE DEF record
  <2> QED
    BY <1>1, <1>3, <2>1, SettlingBase DEF record
<1>4. ASSUME NEW state \in {"RETENTION_ELIGIBLE", "CLOSED"},
             client.seen.class # "NONE",
             Settling([client.seen EXCEPT !.state = state])
      PROVE  CallBase'
  <2> DEFINE record == [client.seen EXCEPT !.state = state]
  <2>1. /\ record \in LifeRecords /\ record.on /\ record.state = state
        /\ record.class = client.seen.class
    BY <1>1 DEF LifeRecords, LifeStates
  <2> HIDE DEF record
  <2> QED
    BY <1>1, <1>4, <2>1, SettlingBase DEF record
<1>5. CASE client' = again
  <2>1. /\ again \in Calls /\ again.pc = "artifacts" /\ again.op = client.op
        /\ again.by = client.by /\ again.seen = client.seen
        /\ again.view = NoCheckpoint
    BY <1>1, RestTyped, RevisionFacts DEF Calls, CallPCs, NoLease, Leases
  <2> HIDE DEF again
  <2> QED
    BY <1>1, <1>5, <2>1, GoesOnBase, EmptyTyped
<1>6. client.op \in {"acknowledge", "cleanup"} => client.seen.class # "NONE"
  BY DEF CallBase, CallSound
<1>7. CASE client.op = "cleanup" /\ ((c.on /\ client' = asks) \/ client' = removes)
  <2>1. /\ asks \in Calls /\ asks.pc = "permit" /\ asks.op = client.op
        /\ asks.by = client.by /\ asks.seen = client.seen /\ asks.view = c
    BY <1>1 DEF Calls, CallPCs
  <2>2. /\ removes \in Calls /\ removes.pc = "erase" /\ removes.op = client.op
        /\ removes.by = client.by /\ removes.seen = client.seen
    BY <1>1 DEF Calls, CallPCs
  <2> HIDE DEF asks, removes
  <2> QED
    BY <1>1, <1>6, <1>7, <2>1, <2>2, GoesOnBase
<1> QED
  BY <1>3, <1>4, <1>5, <1>6, <1>7 DEF Judge, Conclusive, verdict

LEMMA CallsBase ==
    ASSUME CallBase, TypeOK, Call
    PROVE  CallBase'
<1>1. client \in Calls /\ client.seen \in LifeRecords
  BY DEF CallBase, LifecycleTypeOK, Calls
<1>2. ASSUME client' = NoCall, UNCHANGED life
      PROVE  CallBase'
  BY <1>2, EndedBase DEF CallBase, LifecycleTypeOK
<1>3. CASE Register
  <2> DEFINE n == [client EXCEPT !.pc = "artifacts"]
  <2>1. /\ client' = n /\ life' = client.seen /\ client.pc = "register"
    BY <1>3 DEF Register, AtClient
  <2>2. /\ n \in Calls /\ n.pc = "artifacts" /\ n.op = client.op
        /\ n.by = client.by /\ n.seen = client.seen /\ n.view = client.view
    BY <1>1 DEF Calls, CallPCs
  <2> HIDE DEF n
  <2> QED
    BY <1>1, <2>1, <2>2 DEF CallBase, LifecycleTypeOK, Agree, CallSound
<1>4. CASE Artifacts
  <2> DEFINE n == [client EXCEPT !.pc = "ledger", !.view = checkpoint,
                                 !.owned = lease, !.outdated = FALSE]
  <2>1. /\ client' = n /\ UNCHANGED life /\ client.pc = "artifacts"
    BY <1>4 DEF Artifacts, AtClient, StoreKept
  <2>2. /\ n \in Calls /\ n.pc = "ledger" /\ n.op = client.op
        /\ n.by = client.by /\ n.seen = client.seen
    BY <1>1, Shapes DEF Calls, CallPCs, Leases
  <2> HIDE DEF n
  <2> QED
    BY <1>1, <2>1, <2>2, GoesOnBase DEF CallBase, CallSound
<1>5. CASE Permit
  <2> DEFINE n == [client EXCEPT !.pc = "erase"]
  <2>1. /\ client' \in {n, NoCall} /\ UNCHANGED life /\ client.pc = "permit"
    BY <1>5 DEF Permit, AtClient, StoreKept, ClientEnds
  <2>2. /\ n \in Calls /\ n.pc = "erase" /\ n.op = client.op
        /\ n.by = client.by /\ n.seen = client.seen /\ n.view = client.view
    BY <1>1 DEF Calls, CallPCs
  <2> HIDE DEF n
  <2> QED
    BY <1>1, <1>2, <2>1, <2>2, GoesOnBase DEF CallBase, CallSound
<1>6. CASE Erase
  <2> DEFINE record == [client.seen EXCEPT !.state = "CLOSED"]
  <2>1. /\ client' = NoCall \/ Settling(record)
        /\ UNCHANGED life /\ client.pc = "erase"
    BY <1>6 DEF Erase, EraseNow, AtClient, ClientEnds
  <2>2. /\ record \in LifeRecords /\ record.state = "CLOSED"
        /\ record.on = client.seen.on /\ record.class = client.seen.class
    BY <1>1 DEF LifeRecords, LifeStates
  <2>3. client.seen.on /\ life.on
    BY <2>1 DEF CallBase, CallSound
  <2>4. client.seen.class # "NONE"
    BY <2>1 DEF CallBase, CallSound
  <2> HIDE DEF record
  <2> QED
    BY <1>2, <2>1, <2>2, <2>3, <2>4, SettlingBase
<1>7. CASE Settle
  BY <1>1, <1>7, EndedBase DEF Settle, AtClient, ClientEnds, CallBase, CallSound
<1>8. CASE Abandon
  BY <1>2, <1>8 DEF Abandon, StoreKept, ClientEnds
<1> QED
  BY <1>3, <1>4, <1>5, <1>6, <1>7, <1>8, OpenBase, BirthBase, JudgeBase DEF Call

-----------------------------------------------------------------------------
(* The base under every step.                                                *)

LEMMA TaskOnward ==
    ASSUME TaskStep
    PROVE  (Admit /\ UNCHANGED cancelling /\ ~life.on) \/ Onward
<1>1. CASE AdmitOnce /\ UNCHANGED cancelling
  BY <1>1 DEF AdmitOnce
<1>2. CASE ExpireLease /\ UNCHANGED cancelling
  BY <1>2 DEF Onward
<1>3. ASSUME NEW r \in Runtimes,
             \/ Cancel(r) \/ CancelPutFails(r) \/ CancelPutAndCount(r)
             \/ CrashCalls(r)
             \/ /\ \/ Run(r) \/ Execute(r) \/ PutFails(r) \/ AskPlanner(r)
                   \/ Recover(r) \/ PutAndCount(r) \/ ReplanAndReset(r)
                /\ UNCHANGED cancelling
      PROVE  Onward
  BY <1>3 DEF Onward, Proceed, Withdraw, CancelPutAndCount, PutAndCount,
              ReplanAndReset, CrashCalls
<1> QED
  BY <1>1, <1>2, <1>3 DEF TaskStep

\* The task underneath resets the record or ends the call, at most.
LEMMA TaskKeepsBase ==
    ASSUME CallBase, TypeOK', TaskStep
    PROVE  CallBase'
<1>1. client \in Calls /\ life \in LifeRecords
  BY DEF CallBase, LifecycleTypeOK
<1>2. ASSUME UNCHANGED <<life, client>>
      PROVE  CallBase'
  BY <1>2 DEF CallBase, LifecycleTypeOK, CallSound
<1>3. ASSUME NEW r \in Runtimes, PutAndCount(r)
      PROVE  CallBase'
  <2> DEFINE late == client.outdated \/ (client.view.on /\ job[r].pc = "putBefore")
             n == [client EXCEPT !.outdated = late]
  <2>1. client' = n /\ UNCHANGED life
    BY <1>3 DEF PutAndCount
  <2>2. /\ n \in Calls /\ n.pc = client.pc /\ n.op = client.op /\ n.by = client.by
        /\ n.seen = client.seen /\ n.view = client.view
    BY <1>1 DEF Calls
  <2> HIDE DEF n
  <2> QED
    BY <2>1, <2>2 DEF CallBase, LifecycleTypeOK, CallSound
<1>4. ASSUME NEW r \in Runtimes, ReplanAndReset(r)
      PROVE  CallBase'
  <2>1. session'[r].rev \in Revisions
    BY Shapes, WorkShapes DEF TypeOK, Sessions
  <2>2. UNCHANGED client /\ \/ UNCHANGED life
                            \/ life' = ActiveFor(session'[r].rev)
    BY <1>4 DEF ReplanAndReset
  <2> QED
    BY <1>2, <2>1, <2>2, ActiveTyped DEF CallBase, LifecycleTypeOK, Agree, CallSound
<1>5. ASSUME NEW r \in Runtimes, CrashCalls(r)
      PROVE  CallBase'
  BY <1>2, <1>5, EndedBase DEF CrashCalls, CallBase, LifecycleTypeOK
<1>6. ASSUME NEW r \in Runtimes, CancelPutAndCount(r)
      PROVE  CallBase'
  <2>1. PICK outdated \in BOOLEAN : client' = [client EXCEPT !.outdated = outdated]
    BY <1>6 DEF CancelPutAndCount
  <2> DEFINE n == [client EXCEPT !.outdated = outdated]
  <2>2. /\ n \in Calls /\ n.pc = client.pc /\ n.op = client.op /\ n.by = client.by
        /\ n.seen = client.seen /\ n.view = client.view
    BY <1>1 DEF Calls
  <2>3. client' = n /\ UNCHANGED life
    BY <1>6, <2>1 DEF CancelPutAndCount
  <2> HIDE DEF n
  <2> QED
    BY <2>2, <2>3 DEF CallBase, LifecycleTypeOK, CallSound
<1> QED
  BY <1>2, <1>3, <1>4, <1>5, <1>6 DEF TaskStep, AdmitOnce, Undisturbed

\* A deletion leaves nothing to be shown or held.
LEMMA ErasesSound ==
    ASSUME HInv, checkpoint' \in {checkpoint, NoCheckpoint},
           lease' \in {lease, NoOwner},
           UNCHANGED <<ledger, delivered, session, evidence, consumed, reconciled,
                       job, cancelling, budget, history>>
    PROVE  HInv'
<1>1. TypeOK
  BY DEF HInv, SInv, BInv, IInv
<1>2. checkpoint' \in Checkpoints
  BY <1>1, RestTyped, Shapes
<1>3. lease' \in Leases
  BY <1>1, Shapes DEF NoOwner, Leases
<1>4. TypeOK'
  BY <1>1, <1>2, <1>3 DEF TypeOK, Leases
<1>5. IInv'
  BY <1>4 DEF HInv, SInv, BInv, IInv, WriteAhead, Sent, StepKnown, SendRecorded,
              Oblig
<1>6. RecordProven(ledger, checkpoint)'
  BY DEF HInv, SInv, BInv, RecordProven, NoCheckpoint, AbsentRecord, Absent
<1>7. BInv'
  BY <1>5, <1>6
     DEF HInv, SInv, BInv, LedgerSound, CallBacked, SessionProven, RecordProven,
         Oblig
<1>8. SInv'
  BY <1>7 DEF HInv, SInv, HasSession, ViewShown, Involved, Alone, SentOnce,
              InTune, Oblig
<1>9. Sent' = Sent
  BY DEF Sent
<1>10. checkpoint'.on => checkpoint' = checkpoint
  BY DEF NoCheckpoint
<1>11. \A r \in Runtimes : Ahead(r) => Ahead(r)'
  BY <1>9, <1>10 DEF Ahead, Oblig
<1> QED
  BY <1>8, <1>9, <1>10, <1>11 DEF HInv, Disturbed

\* What a call does to the task, if anything, is to delete.
LEMMA CallsErase ==
    ASSUME Call
    PROVE  /\ UNCHANGED <<ledger, delivered, session, evidence, consumed,
                          reconciled, job, cancelling, budget, history>>
           /\ \/ UNCHANGED <<checkpoint, lease>>
              \/ /\ client.pc = "erase" /\ SameCheckpoint
                 /\ checkpoint' = NoCheckpoint /\ lease' = NoOwner
<1>1. CASE Erase
  BY <1>1 DEF Erase, EraseNow, AtClient
<1>2. ASSUME UNCHANGED vars
      PROVE  /\ UNCHANGED <<ledger, delivered, session, evidence, consumed,
                            reconciled, job, cancelling, budget, history>>
             /\ UNCHANGED <<checkpoint, lease>>
  BY <1>2 DEF vars
<1> QED
  BY <1>1, <1>2 DEF Call, Birth, Register, Artifacts, Judge, Permit, Settle,
                    Abandon, Open, StoreKept

LEMMA BaseInit == LifecycleInit => LBase
<1> SUFFICES ASSUME LifecycleInit
             PROVE  LBase
  OBVIOUS
<1>1. AInv
  BY AheadInit DEF LifecycleInit
<1>2. CallBase
  BY EmptyTyped DEF LifecycleInit, CallBase, LifecycleTypeOK, Agree, CallSound
<1> QED
  BY <1>1, <1>2 DEF LBase, AInv

LEMMA BaseStep ==
    ASSUME LBase, [LifecycleNext]_lifecycleVars
    PROVE  LBase'
<1>1. CallBase /\ HInv /\ TypeOK
  BY DEF LBase, HInv, SInv, BInv, IInv
<1>2. CASE UNCHANGED lifecycleVars
  <2>1. UNCHANGED vars /\ UNCHANGED <<life, client>>
    BY <1>2 DEF lifecycleVars
  <2>2. HInv'
    BY <1>1, <2>1, HonestStep
  <2>3. Present' = Present
    BY <2>1 DEF vars, Present, Involved, Sent
  <2> QED
    BY <2>1, <2>2, <2>3 DEF LBase, CallBase, LifecycleTypeOK, CallSound
<1>3. CASE TaskStep
  <2>1. (Admit /\ UNCHANGED cancelling /\ ~life.on) \/ Onward
    BY <1>3, TaskOnward
  <2>2. HInv'
    BY <1>1, <2>1, HonestStep DEF LBase
  <2>3. CallBase'
    BY <1>1, <1>3, <2>2, TaskKeepsBase DEF HInv, SInv, BInv, IInv
  <2>4. life.on => life'.on
    <3>1. ASSUME NEW r \in Runtimes, ReplanAndReset(r)
          PROVE  life.on => life'.on
      <4>1. \A rev : ActiveFor(rev).on
        BY DEF ActiveFor, NoLife
      <4> QED
        BY <3>1, <4>1 DEF ReplanAndReset
    <3>2. UNCHANGED life => (life.on => life'.on)
      OBVIOUS
    <3> QED
      BY <1>3, <3>1, <3>2 DEF TaskStep, AdmitOnce, Undisturbed, PutAndCount,
                              CancelPutAndCount, CrashCalls
  <2>5. Present => Present'
    BY <1>1, <2>1, PresentKept DEF HInv, Next, Onward
  <2> QED
    BY <2>2, <2>3, <2>4, <2>5 DEF LBase
<1>4. CASE Call
  <2>1. CallBase'
    BY <1>1, <1>4, CallsBase
  <2>2. HInv'
    BY <1>1, <1>4, CallsErase, ErasesSound
  <2>3. life.on => life'.on
    BY <1>1, <1>4 DEF Call, Birth, Register, Artifacts, Judge, Permit, Erase,
                      Settle, Abandon, Open, StoreKept, AtClient, CallBase,
                      CallSound
  <2>4. client.pc = "erase" => life.on
    BY <1>1 DEF CallBase, CallSound
  <2>5. UNCHANGED checkpoint => Present' = Present
    BY <1>4, CallsErase DEF Present, Involved, Sent
  <2> QED
    BY <1>4, <2>1, <2>2, <2>3, <2>4, <2>5, CallsErase DEF LBase
<1> QED
  BY <1>2, <1>3, <1>4 DEF LifecycleNext

\* The shape of the record and of the call under way holds in every state,
\* whatever the number of runtimes, steps, revisions, faults and overlaps.
THEOREM LifecycleTyped == LifecycleSpec => []LifecycleTypeOK
<1>1. LBase => LifecycleTypeOK
  BY DEF LBase, CallBase
<1> QED
  BY <1>1, BaseInit, BaseStep, PTL DEF LifecycleSpec

\* Deleting the checkpoint takes nothing away that the execution relies on: a
\* dispatch is on record before its call leaves, a checkpointed success is the
\* ledger's, an obligation is sent at most once and nobody else moves it, also
\* when a session writes its checkpoint anew after the cleanup.
THEOREM LifecycleStillSafe ==
    LifecycleSpec => [](WriteAhead /\ DurableSuccess /\ AtMostOnce /\ LedgerUndisturbed)
<1>1. LBase => BInv /\ SInv /\ IInv
  BY DEF LBase, HInv, SInv, BInv
<1>2. LBase => WriteAhead
  BY <1>1 DEF IInv
<1>3. LBase => DurableSuccess
  <2> SUFFICES ASSUME LBase, NEW t \in Steps, checkpoint.steps[t].state = "VERIFIED"
               PROVE  /\ ledger[<<checkpoint.rev, t>>].state = "VERIFIED"
                      /\ delivered[<<checkpoint.rev, t>>] > 0
    BY DEF DurableSuccess
  <2>1. <<checkpoint.rev, t>> \in Obligations
    BY <1>1, Shapes DEF IInv, Checkpoints, Obligations
  <2> QED
    BY <1>1, <2>1 DEF BInv, RecordProven, LedgerSound
<1>4. LBase => AtMostOnce
  BY <1>1 DEF SInv, SentOnce, AtMostOnce
<1>5. LBase => LedgerUndisturbed
  BY <1>1 DEF SInv, InTune, LedgerUndisturbed
<1> QED
  BY <1>2, <1>3, <1>4, <1>5, BaseInit, BaseStep, PTL DEF LifecycleSpec

-----------------------------------------------------------------------------
(* What a step of one runtime does to the plans that session, checkpoint and *)
(* the record being written or read stand for.                               *)

Shelving == {"put", "putBefore"}

Kept(s, n) == s.on /\ n.on /\ n.rev = s.rev /\ InPlan(n) = InPlan(s)

\* replan_dynamic_task leaves out the verified steps.
Revises(s, n) ==
    /\ s.on /\ n.on /\ n.rev = s.rev + 1 /\ n.status = "READY"
    /\ InPlan(n) = {t \in InPlan(s) : s.steps[t] # "VERIFIED"}

Restores(c, n) ==
    /\ n.on /\ n.rev = c.rev /\ InPlan(n) = Planned(c)
    /\ n.status = "REPLAN_REQUIRED" => n.failed = 0

SessionFlow(r) ==
    \/ ~session'[r].on
    \/ Kept(session[r], session'[r])
    \/ job[r].pc = "planning" /\ Revises(session[r], session'[r])
    \/ job[r].pc = "decide" /\ Restores(job[r].view, session'[r])

ViewFlow(r) ==
    \/ job'[r].pc \notin Shelving \cup Recovering
    \/ /\ job'[r].pc \in Shelving /\ session'[r].on
       /\ job'[r].view = FromSession(session'[r], evidence'[r])
    \/ job'[r].pc = "acquire" /\ checkpoint.on /\ job'[r].view = checkpoint
    \/ /\ job'[r].view = job[r].view
       /\ \/ job'[r].pc \in Recovering /\ job[r].pc \in Recovering
          \/ /\ job'[r] = job[r] /\ job[r].pc \in Shelving
             /\ Kept(session[r], session'[r])

CheckpointFlow(r) ==
    \/ checkpoint' = checkpoint
    \/ /\ job[r].pc \in Shelving /\ checkpoint' = job[r].view
       /\ session'[r] = session[r] /\ job'[r].pc \in {"idle", "claim"}
       /\ job'[r].pc = "claim" => job[r].pc = "putBefore"
    \/ /\ cancelling[r].on /\ checkpoint' = cancelling[r]
       /\ session'[r] = session[r] /\ job'[r] = job[r]
       /\ ~history'.late =>
              /\ job[r].pc \notin Recovering
              /\ checkpoint' = FromSession(session'[r], evidence'[r])

CancelFlow(r) ==
    \/ ~cancelling'[r].on
    \/ cancelling'[r] = cancelling[r]
    \/ /\ Kept(session[r], session'[r]) /\ job'[r] = job[r]
       /\ cancelling'[r] = FromSession(session'[r], evidence'[r])

\* The step a call works on is one of the plan.
StepPlanned(r) == job[r].pc \in Working => job[r].step \in InPlan(session[r])

Flow(r) ==
    /\ SessionFlow(r) /\ ViewFlow(r) /\ CheckpointFlow(r) /\ CancelFlow(r)
    /\ StepPlanned(r)'

\* Whatever a runtime does but for a successful put, and that put.
Acts(r) ==
    \/ /\ \/ Run(r) \/ Execute(r) \/ PutFails(r) \/ AskPlanner(r) \/ Replan(r)
          \/ Recover(r)
       /\ UNCHANGED cancelling
    \/ Withdraw(r) \/ Crash(r)

Puts(r) == Put(r) /\ UNCHANGED cancelling

LEMMA SamePlan ==
    ASSUME NEW s, NEW n,
           \A t \in Steps : n.steps[t] = Absent <=> s.steps[t] = Absent
    PROVE  InPlan(n) = InPlan(s)
  BY DEF InPlan

LEMMA FromSessionPlan ==
    ASSUME NEW s, NEW own
    PROVE  LET c == FromSession(s, own)
           IN  c.on /\ c.rev = s.rev /\ Planned(c) = InPlan(s)
<1> DEFINE c == FromSession(s, own)
<1>1. /\ c.on /\ c.rev = s.rev
      /\ c.steps = [t \in Steps |->
                       IF t \in InPlan(s) THEN StepRecord(s, own[<<s.rev, t>>], t)
                       ELSE AbsentRecord]
  BY DEF FromSession
<1>2. \A t \in InPlan(s) : StepRecord(s, own[<<s.rev, t>>], t).state # Absent
  BY DEF InPlan, StepRecord, Absent
<1>3. AbsentRecord.state = Absent
  BY DEF AbsentRecord
<1> HIDE DEF c
<1>4. \A t \in Steps : c.steps[t].state # Absent <=> t \in InPlan(s)
  BY <1>1, <1>2, <1>3
<1>5. Planned(c) = InPlan(s)
  BY <1>4 DEF Planned, InPlan
<1> QED
  BY <1>1, <1>5 DEF c

\* How a step ends changes neither revision nor plan.
LEMMA EndsPlan ==
    ASSUME NEW s \in Sessions, s.on, NEW t \in InPlan(s), NEW status,
           NEW state \in StepStates
    PROVE  /\ Kept(s, Replanned(s, t)) /\ Kept(s, Blocked(s, t))
           /\ Kept(s, [Blocked(s, t) EXCEPT !.status = status])
           /\ Kept(s, FailedForGood(s, t)) /\ Kept(s, Verified(s, t))
           /\ Kept(s, [s EXCEPT !.steps[t] = state])
           /\ Kept(s, [s EXCEPT !.steps[t] = state, !.status = status])
<1>1. /\ t \in Steps /\ s.steps \in [Steps -> StepStates \cup {Absent}]
      /\ s.steps[t] # Absent /\ Absent \notin StepStates
  BY DEF Sessions, InPlan, Absent, StepStates
<1>2. Kept(s, Replanned(s, t))
  <2>1. \A u \in Steps : Replanned(s, t).steps[u] = Absent <=> s.steps[u] = Absent
    BY <1>1 DEF Replanned, Sessions, Absent
  <2> QED
    BY <2>1, SamePlan DEF Kept, Replanned, Sessions
<1>3. /\ Kept(s, Blocked(s, t))
      /\ Kept(s, [Blocked(s, t) EXCEPT !.status = status])
  <2> DEFINE n == [Blocked(s, t) EXCEPT !.status = status]
  <2>1. \A u \in Steps : /\ Blocked(s, t).steps[u] = Absent <=> s.steps[u] = Absent
                         /\ n.steps[u] = Absent <=> s.steps[u] = Absent
    BY <1>1 DEF Blocked, Sessions, Absent
  <2>2. /\ Blocked(s, t).on = s.on /\ Blocked(s, t).rev = s.rev
        /\ n.on = s.on /\ n.rev = s.rev
    BY DEF Blocked, Sessions
  <2> HIDE DEF n
  <2>3. InPlan(n) = InPlan(s) /\ InPlan(Blocked(s, t)) = InPlan(s)
    BY <2>1, SamePlan
  <2> QED
    BY <2>2, <2>3 DEF Kept, n
<1>4. Kept(s, FailedForGood(s, t))
  <2> DEFINE n == FailedForGood(s, t)
  <2>1. /\ n.on = s.on /\ n.rev = s.rev
        /\ n.steps = [u \in Steps |-> IF u = t THEN "FAILED"
                                      ELSE IF u \in Downstream(s, t) THEN "BLOCKED"
                                      ELSE s.steps[u]]
    BY DEF FailedForGood, Sessions
  <2>2. \A u \in Downstream(s, t) : s.steps[u] = "PENDING"
    BY DEF Downstream
  <2> HIDE DEF n
  <2>3. \A u \in Steps : n.steps[u] = Absent <=> s.steps[u] = Absent
    BY <1>1, <2>1, <2>2 DEF Absent
  <2> QED
    BY <2>1, <2>3, SamePlan DEF Kept, n
<1>5. Kept(s, Verified(s, t))
  <2>1. \A u \in Steps : Verified(s, t).steps[u] = Absent <=> s.steps[u] = Absent
    BY <1>1 DEF Verified, Sessions, Absent
  <2> QED
    BY <2>1, SamePlan DEF Kept, Verified, Sessions
<1>6. /\ Kept(s, [s EXCEPT !.steps[t] = state])
      /\ Kept(s, [s EXCEPT !.steps[t] = state, !.status = status])
  <2> DEFINE n == [s EXCEPT !.steps[t] = state]
             m == [s EXCEPT !.steps[t] = state, !.status = status]
  <2>1. /\ n.on = s.on /\ n.rev = s.rev /\ n.steps = [s.steps EXCEPT ![t] = state]
        /\ m.on = s.on /\ m.rev = s.rev /\ m.steps = [s.steps EXCEPT ![t] = state]
    BY DEF Sessions
  <2> HIDE DEF n, m
  <2>2. \A u \in Steps : /\ n.steps[u] = Absent <=> s.steps[u] = Absent
                         /\ m.steps[u] = Absent <=> s.steps[u] = Absent
    BY <1>1, <2>1
  <2> QED
    BY <2>1, <2>2, SamePlan DEF Kept, n, m
<1> QED
  BY <1>2, <1>3, <1>4, <1>5, <1>6

LEMMA StatusPlan ==
    ASSUME NEW s \in Sessions, s.on, NEW status
    PROVE  /\ Kept(s, s)
           /\ Kept(s, [s EXCEPT !.status = status])
           /\ Kept(s, CancelledSession(s))
<1>1. \A u \in Steps : CancelledSession(s).steps[u] = Absent <=> s.steps[u] = Absent
  BY DEF CancelledSession, Sessions, Cancellable, Absent
<1>2. /\ CancelledSession(s).on = s.on /\ CancelledSession(s).rev = s.rev
      /\ [s EXCEPT !.status = status].on = s.on
      /\ [s EXCEPT !.status = status].rev = s.rev
      /\ [s EXCEPT !.status = status].steps = s.steps
  BY DEF CancelledSession, Sessions
<1>3. InPlan(CancelledSession(s)) = InPlan(s)
  BY <1>1, SamePlan
<1>4. InPlan([s EXCEPT !.status = status]) = InPlan(s)
  BY <1>2 DEF InPlan
<1> QED
  BY <1>2, <1>3, <1>4 DEF Kept

\* A call that ends writes the session it leaves behind.
LEMMA FinishFlow ==
    ASSUME TypeOK, NEW r \in Runtimes, NEW n, NEW own, n.on, NEW allowed,
           session'[r] = n, job'[r] = Saving(n, own, allowed, "put", 0),
           evidence'[r] = own, UNCHANGED <<checkpoint, cancelling>>,
           \/ Kept(session[r], n)
           \/ job[r].pc = "planning" /\ Revises(session[r], n)
           \/ job[r].pc = "decide" /\ Restores(job[r].view, n)
    PROVE  Flow(r)
<1>1. \/ job'[r].pc = "put" /\ job'[r].view = FromSession(n, own)
      \/ job'[r].pc = "idle"
  BY DEF Saving, AtRest
<1> QED
  BY <1>1 DEF Flow, SessionFlow, ViewFlow, CheckpointFlow, CancelFlow,
              StepPlanned, Shelving, Recovering, Working

\* A call that only goes on, or stops without writing.
LEMMA GoesFlow ==
    ASSUME TypeOK, NEW r \in Runtimes, UNCHANGED checkpoint,
           ~cancelling'[r].on \/ cancelling'[r] = cancelling[r],
           Kept(session[r], session'[r]) \/ ~session'[r].on,
           job'[r].pc \notin Shelving \cup Recovering,
           job'[r].pc \in Working =>
               /\ Kept(session[r], session'[r])
               /\ job'[r].step \in InPlan(session[r])
    PROVE  Flow(r)
  BY DEF Flow, SessionFlow, ViewFlow, CheckpointFlow, CancelFlow, StepPlanned, Kept

LEMMA RunFlow ==
    ASSUME SInv, NEW r \in Runtimes, StepPlanned(r), Run(r), UNCHANGED cancelling
    PROVE  Flow(r)
<1> DEFINE s == session[r]
           t == NextStep(s)
<1>1. /\ IInv /\ TypeOK /\ s \in Sessions /\ HasSession(r)
      /\ session \in [Runtimes -> Sessions] /\ job \in [Runtimes -> Jobs]
  BY WorkShapes DEF SInv, BInv, IInv
<1>2. UNCHANGED <<checkpoint, evidence>>
  BY DEF Run, RunFenced, RunRefused, RunNothing, RunUnbound, RunUnauthorized,
         RunAllowed, RunLosesLease, BeforeExecution, UnchangedByCalls
<1>3. s.on
  <2>1. MayCall(r) \/ job[r].pc = "risked"
    BY DEF Run, RunFenced, RunRefused, RunNothing, RunUnbound, RunUnauthorized,
           RunAllowed, RunLosesLease, BeforeExecution, MayRun
  <2> QED
    BY <1>1, <2>1 DEF MayCall, HasSession, Recovering
<1>4. Candidates(s) # {} => t \in InPlan(s)
  BY NextStepEarly DEF InPlan, Early, Absent
<1>5. ASSUME NEW n, Kept(s, n), Finish(r, n, evidence[r])
      PROVE  Flow(r)
  BY <1>1, <1>2, <1>5, FinishFlow DEF Finish, Kept
<1>6. /\ AtRest.pc = "idle" /\ {"idle", "risked"} \cap (Shelving \cup Recovering) = {}
      /\ "idle" \notin Working
  BY DEF AtRest, Shelving, Recovering, Working
<1>7. CASE RunFenced(r)
  <2>1. session'[r] = [s EXCEPT !.status = "BLOCKED"] /\ job'[r].pc = "idle"
    BY <1>1, <1>6, <1>7 DEF RunFenced, MayCall
  <2>2. Kept(s, [s EXCEPT !.status = "BLOCKED"])
    BY <1>1, <1>3, StatusPlan
  <2> QED
    BY <1>1, <1>2, <1>6, <2>1, <2>2, GoesFlow
<1>8. CASE RunRefused(r)
  BY <1>1, <1>3, <1>5, <1>8, StatusPlan DEF RunRefused
<1>9. CASE RunNothing(r)
  <2>1. Candidates(s) # {} => Kept(s, Blocked(s, t))
    BY <1>1, <1>3, <1>4, EndsPlan DEF StepStates
  <2>2. Kept(s, s) /\ Kept(s, [s EXCEPT !.status = "DONE"])
    BY <1>1, <1>3, StatusPlan
  <2> QED
    BY <1>5, <1>9, <2>1, <2>2 DEF RunNothing
<1>10. CASE RunUnbound(r)
  <2>1. /\ Kept(s, Replanned(s, t))
        /\ Kept(s, [Blocked(s, t) EXCEPT !.status = "FAILED"])
    BY <1>1, <1>3, <1>4, <1>10, EndsPlan DEF RunUnbound, HasRunnable, StepStates
  <2> QED
    BY <1>5, <1>10, <2>1 DEF RunUnbound
<1>11. CASE RunUnauthorized(r)
  <2>1. /\ Kept(s, Blocked(s, t))
        /\ Kept(s, [s EXCEPT !.steps[t] = "AWAITING_CONFIRMATION",
                             !.status = "WAITING_CONFIRMATION"])
    BY <1>1, <1>3, <1>4, <1>11, EndsPlan
       DEF RunUnauthorized, HasRunnable, StepStates
  <2> QED
    BY <1>5, <1>11, <2>1 DEF RunUnauthorized
<1>12. CASE RunAllowed(r)
  <2>1. /\ session'[r] = [s EXCEPT !.steps[t] = "AWAITING_RISK",
                                   !.status = "RUNNING"]
        /\ job'[r] = [AtRest EXCEPT !.pc = "risked", !.step = t]
    BY <1>1, <1>12 DEF RunAllowed
  <2>2. /\ t \in InPlan(s)
        /\ Kept(s, [s EXCEPT !.steps[t] = "AWAITING_RISK", !.status = "RUNNING"])
    BY <1>1, <1>3, <1>4, <1>12, EndsPlan DEF RunAllowed, HasRunnable, StepStates
  <2>3. job'[r].pc = "risked" /\ job'[r].step = t
    BY <2>1 DEF AtRest
  <2> QED
    BY <1>1, <1>2, <1>6, <2>1, <2>2, <2>3, GoesFlow
<1>13. CASE RunLosesLease(r)
  <2>1. /\ session'[r] = Blocked(s, job[r].step) /\ job'[r].pc = "idle"
        /\ job[r].step \in InPlan(s)
    BY <1>1, <1>6, <1>13 DEF RunLosesLease, StepPlanned, Working
  <2>2. Kept(s, Blocked(s, job[r].step))
    BY <1>1, <1>3, <2>1, EndsPlan DEF StepStates
  <2> QED
    BY <1>1, <1>2, <1>6, <2>1, <2>2, GoesFlow
<1>14. CASE BeforeExecution(r)
  <2> DEFINE u == job[r].step
             m == [s EXCEPT !.steps[u] = "EXECUTING"]
             n == [s EXCEPT !.steps[u] = "EXECUTING",
                            !.token = IF @ = 0 THEN 0 ELSE lease'.token]
  <2>1. u \in InPlan(s)
    BY <1>14 DEF BeforeExecution, StepPlanned, Working
  <2>2. Kept(s, n)
    <3>1. Kept(s, m)
      BY <1>1, <1>3, <2>1, EndsPlan DEF StepStates
    <3>2. n.on = m.on /\ n.rev = m.rev /\ n.steps = m.steps
      BY <1>1 DEF Sessions
    <3> HIDE DEF n, m
    <3> QED
      BY <3>1, <3>2 DEF Kept, InPlan
  <2>3. PICK allowed : job' = [job EXCEPT ![r] =
            Saving(n, evidence[r], allowed, "putBefore", u)]
    BY <1>14 DEF BeforeExecution
  <2>4. session'[r] = n
    BY <1>1, <1>14 DEF BeforeExecution
  <2> HIDE DEF n, u
  <2>5. \/ /\ job'[r].pc = "putBefore" /\ job'[r].step = u
           /\ job'[r].view = FromSession(n, evidence[r])
        \/ job'[r].pc = "idle"
    BY <1>1, <2>3 DEF Saving, AtRest
  <2>6. job'[r].pc = "putBefore" => Flow(r)
    BY <1>2, <2>1, <2>2, <2>4, <2>5
       DEF Flow, SessionFlow, ViewFlow, CheckpointFlow, CancelFlow, StepPlanned,
           Shelving, Kept
  <2> QED
    BY <1>1, <1>2, <1>6, <2>2, <2>4, <2>5, <2>6, GoesFlow
<1> QED
  BY <1>7, <1>8, <1>9, <1>10, <1>11, <1>12, <1>13, <1>14 DEF Run

\* The executor works on the step it was called for.
LEMMA ExecuteFlow ==
    ASSUME SInv, NEW r \in Runtimes, StepPlanned(r), Execute(r),
           UNCHANGED cancelling
    PROVE  Flow(r)
<1> DEFINE s == session[r]
           t == job[r].step
<1>1. job[r].pc \in Working
  BY DEF Execute, Claim, Create, Authorize, Dispatch, Send, Respond, Verify,
         Unknown, At, Working
<1>2. /\ IInv /\ TypeOK /\ s \in Sessions /\ s.on /\ t \in InPlan(s)
      /\ session \in [Runtimes -> Sessions] /\ job \in [Runtimes -> Jobs]
      /\ evidence \in [Runtimes -> Evidences]
  BY <1>1, WorkInvolved, WorkShapes DEF StepPlanned
<1>3. UNCHANGED checkpoint
  BY DEF Execute, Claim, Create, Authorize, Dispatch, Send, Respond, Verify,
         Unknown, UnchangedByExecutor
<1>4. /\ Kept(s, Replanned(s, t)) /\ Kept(s, Blocked(s, t))
      /\ Kept(s, FailedForGood(s, t)) /\ Kept(s, Verified(s, t))
  BY <1>2, EndsPlan DEF StepStates
<1>5. ASSUME NEW n, Kept(s, n), NEW own, evidence' = own, Finish(r, n, own[r])
      PROVE  Flow(r)
  BY <1>2, <1>3, <1>5, FinishFlow DEF Finish, Kept
<1>6. ASSUME NEW own,
             EndRecoverable(r, own) \/ EndFinal(r, own) \/ EndUnknown(r, own)
      PROVE  Flow(r)
  BY <1>4, <1>5, <1>6 DEF EndRecoverable, EndFinal, EndUnknown
<1>7. ASSUME NEW pc \in Working \ {"putBefore"}, UNCHANGED session,
             Goto(r, pc) \/ Carry(r, pc)
      PROVE  Flow(r)
  <2>1. job'[r].pc = pc /\ job'[r].step = t
    BY <1>2, <1>7 DEF Goto, Carry, Jobs
  <2>2. pc \notin Shelving \cup Recovering
    BY DEF Working, Shelving, Recovering
  <2>3. Kept(session[r], session'[r])
    BY <1>2, <1>7 DEF Kept
  <2> QED
    BY <1>2, <1>3, <2>1, <2>2, <2>3, GoesFlow
<1>8. {"create", "authorize", "dispatch", "send", "answered", "lost", "verify",
       "unknown"} \subseteq Working \ {"putBefore"}
  BY DEF Working
<1>9. CASE Claim(r)
  BY <1>6, <1>7, <1>8, <1>9 DEF Claim
<1>10. CASE Create(r)
  BY <1>6, <1>7, <1>8, <1>10 DEF Create
<1>11. CASE Authorize(r)
  BY <1>6, <1>7, <1>8, <1>11 DEF Authorize, RecordsFailed
<1>12. CASE Dispatch(r)
  BY <1>6, <1>7, <1>8, <1>12 DEF Dispatch, RecordsFailed
<1>13. CASE Send(r)
  BY <1>7, <1>8, <1>13 DEF Send
<1>14. CASE Respond(r)
  BY <1>6, <1>7, <1>8, <1>14 DEF Respond, Escapes
<1>15. CASE Verify(r)
  <2>1. CASE /\ evidence' = Keep(r, ledger'[Oblig(r)].state, TRUE)
             /\ Finish(r, Verified(s, t), evidence'[r])
    BY <1>4, <1>5, <2>1
  <2> QED
    BY <1>6, <1>7, <1>8, <1>15, <2>1 DEF Verify, Escapes
<1>16. CASE Unknown(r)
  BY <1>6, <1>16 DEF Unknown
<1> QED
  BY <1>9, <1>10, <1>11, <1>12, <1>13, <1>14, <1>15, <1>16 DEF Execute

LEMMA StoreFlow ==
    ASSUME SInv, NEW r \in Runtimes, StepPlanned(r),
           \/ Put(r) \/ PutFails(r) \/ AskPlanner(r) \/ Replan(r),
           UNCHANGED cancelling
    PROVE  Flow(r)
<1> DEFINE s == session[r]
<1>1. /\ IInv /\ TypeOK /\ s \in Sessions /\ HasSession(r)
      /\ session \in [Runtimes -> Sessions] /\ job \in [Runtimes -> Jobs]
      /\ evidence \in [Runtimes -> Evidences]
  BY WorkShapes DEF SInv, BInv, IInv
<1>2. /\ AtRest.pc = "idle"
      /\ {"idle", "claim", "planning"} \cap (Shelving \cup Recovering) = {}
      /\ "idle" \notin Working /\ "planning" \notin Working
  BY DEF AtRest, Shelving, Recovering, Working
<1>3. CASE Put(r) \/ PutFails(r)
  <2> DEFINE j == [AtRest EXCEPT !.pc = "claim", !.step = job[r].step]
  <2>1. j.pc = "claim" /\ j.step = job[r].step
    BY DEF AtRest
  <2>2. /\ job[r].pc \in Shelving /\ session' = session
        /\ job'[r] = AtRest \/ (job[r].pc = "putBefore" /\ job'[r] = j)
        /\ checkpoint' \in {checkpoint, job[r].view}
    BY <1>1, <1>3 DEF Put, PutFails, Shelving
  <2> HIDE DEF j
  <2>3. Kept(s, session'[r])
    BY <1>1, <2>2 DEF HasSession, Shelving, Recovering, Kept
  <2>4. StepPlanned(r)'
    BY <1>2, <2>1, <2>2 DEF StepPlanned, Working
  <2> QED
    BY <1>2, <2>1, <2>2, <2>3, <2>4
       DEF Flow, SessionFlow, ViewFlow, CheckpointFlow, CancelFlow
<1>4. CASE AskPlanner(r)
  <2>1. /\ job'[r].pc = "planning" /\ session' = session /\ s.on
        /\ UNCHANGED checkpoint
    BY <1>1, <1>4 DEF AskPlanner, MayCall, UnchangedByCalls, AtRest
  <2>2. Kept(s, session'[r])
    BY <2>1 DEF Kept
  <2> QED
    BY <1>1, <1>2, <2>1, <2>2, GoesFlow
<1>5. CASE Replan(r)
  <2> DEFINE later == [s EXCEPT !.rev = @ + 1, !.status = "READY", !.failed = 0,
                 !.steps = [t \in Steps |->
                     IF s.steps[t] \in {Absent, "VERIFIED"} THEN Absent
                     ELSE "PENDING"]]
  <2>1. PICK n \in {[s EXCEPT !.status = "FAILED"], [s EXCEPT !.status = "BLOCKED"],
                    later} :
            /\ session' = [session EXCEPT ![r] = n]
            /\ job' = [job EXCEPT ![r] =
                   Saving(n, evidence[r], Owns(r, n), "put", 0)]
    BY <1>5 DEF Replan
  <2>2. /\ s.on /\ job[r].pc = "planning" /\ UNCHANGED <<checkpoint, evidence>>
    BY <1>1, <1>5 DEF Replan, HasSession, At, Recovering, UnchangedByCalls
  <2>3. /\ later.on = s.on /\ later.rev = s.rev + 1 /\ later.status = "READY"
        /\ later.steps = [t \in Steps |->
                     IF s.steps[t] \in {Absent, "VERIFIED"} THEN Absent
                     ELSE "PENDING"]
    BY <1>1 DEF Sessions
  <2>4. /\ Kept(s, [s EXCEPT !.status = "FAILED"])
        /\ Kept(s, [s EXCEPT !.status = "BLOCKED"])
    BY <1>1, <2>2, StatusPlan
  <2>5. Revises(s, later)
    <3> HIDE DEF later
    <3>1. InPlan(later) = {t \in InPlan(s) : s.steps[t] # "VERIFIED"}
      BY <2>3 DEF InPlan, Absent
    <3> QED
      BY <2>2, <2>3, <3>1 DEF Revises
  <2> HIDE DEF later
  <2>6. n = later \/ Kept(s, n)
    BY <2>1, <2>4
  <2>7. /\ session'[r] = n
        /\ job'[r] = Saving(n, evidence[r], Owns(r, n), "put", 0)
    BY <1>1, <2>1
  <2>8. n.on
    BY <2>5, <2>6 DEF Kept, Revises
  <2> QED
    BY <1>1, <2>2, <2>5, <2>6, <2>7, <2>8, FinishFlow
<1> QED
  BY <1>3, <1>4, <1>5

\* A cancellation works beside the call under way; a crash ends both.
LEMMA WithdrawFlow ==
    ASSUME SInv, NEW r \in Runtimes, StepPlanned(r), Withdraw(r) \/ Crash(r)
    PROVE  Flow(r)
<1> DEFINE s == session[r]
<1>1. /\ IInv /\ TypeOK /\ s \in Sessions /\ HasSession(r)
      /\ session \in [Runtimes -> Sessions] /\ job \in [Runtimes -> Jobs]
      /\ cancelling \in [Runtimes -> Checkpoints]
  BY WorkShapes, Shapes DEF SInv, BInv, IInv
<1>2. /\ Down.pc = "down" /\ ~NoSession.on /\ ~NoCheckpoint.on
      /\ "down" \notin Shelving \cup Recovering \cup Working
  BY DEF AtRest, Down, NoSession, NoCheckpoint, Shelving, Recovering, Working
<1>3. ASSUME Kept(s, session'[r]), job' = job,
             CheckpointFlow(r), CancelFlow(r)
      PROVE  Flow(r)
  <2>1. StepPlanned(r)'
    BY <1>3 DEF StepPlanned, Kept
  <2>2. ViewFlow(r)
    BY <1>3 DEF ViewFlow
  <2> QED
    BY <1>3, <2>1, <2>2 DEF Flow, SessionFlow
<1>4. CASE Cancel(r)
  <2> DEFINE n == CancelledSession(s)
  <2>1. /\ session'[r] = n /\ job' = job /\ UNCHANGED <<checkpoint, evidence>>
        /\ s.on
        /\ cancelling'[r] \in {NoCheckpoint, FromSession(n, evidence[r])}
    BY <1>1, <1>4 DEF Cancel
  <2>2. Kept(s, n)
    BY <1>1, <2>1, StatusPlan
  <2> HIDE DEF n
  <2> QED
    BY <1>2, <1>3, <2>1, <2>2 DEF CheckpointFlow, CancelFlow
<1>5. CASE CancelPut(r) \/ CancelPutFails(r)
  <2>1. /\ UNCHANGED <<session, job, evidence>> /\ cancelling[r].on
        /\ cancelling'[r] = NoCheckpoint
        /\ \/ UNCHANGED checkpoint
           \/ /\ checkpoint' = cancelling[r]
              /\ ~history'.late =>
                     /\ job[r].pc \notin Recovering
                     /\ cancelling[r] = FromSession(s, evidence[r])
    <3>1. history \in Histories
      BY <1>1, WorkShapes
    <3> QED
      BY <1>1, <1>5, <3>1 DEF CancelPut, CancelPutFails, Histories
  <2>2. Kept(s, session'[r])
    BY <1>1, <2>1 DEF HasSession, Kept
  <2> QED
    BY <1>2, <1>3, <2>1, <2>2 DEF CheckpointFlow, CancelFlow
<1>6. CASE Crash(r)
  <2>1. /\ job'[r] = Down /\ session'[r] = NoSession /\ UNCHANGED checkpoint
        /\ cancelling'[r] = NoCheckpoint
    BY <1>1, <1>6 DEF Crash
  <2> QED
    BY <1>1, <1>2, <2>1, GoesFlow
<1> QED
  BY <1>4, <1>5, <1>6 DEF Withdraw

\* A recovered step is in the plan when its record is, and never under way.
LEMMA RecoveredPlan ==
    ASSUME NEW c, NEW t
    PROVE  /\ RecoveredStep(c, t) = Absent <=> c.steps[t].state = Absent
           /\ RecoveredStep(c, t) # "EXECUTING"
  BY DEF RecoveredStep, Absent

LEMMA DecideRestores ==
    ASSUME TypeOK, NEW r \in Runtimes, Decide(r)
    PROVE  \/ GiveUp(r) /\ UNCHANGED session
           \/ \E n : /\ Install(r, n) /\ Restores(job[r].view, n)
                    /\ \A t \in Steps : n.steps[t] # "EXECUTING"
<1> DEFINE c == job[r].view
           steps == [t \in Steps |-> RecoveredStep(c, t)]
           f == Foremost({t \in Steps : steps[t] = "BLOCKED"})
<1>1. \A t \in Steps : /\ steps[t] = Absent <=> c.steps[t].state = Absent
                       /\ steps[t] # "EXECUTING"
  BY RecoveredPlan
<1>2. ASSUME NEW status, NEW failed, status = "REPLAN_REQUIRED" => failed = 0
      PROVE  /\ Restores(c, Recovered(r, status, steps, failed))
             /\ \A t \in Steps :
                   Recovered(r, status, steps, failed).steps[t] # "EXECUTING"
  <2> DEFINE n == Recovered(r, status, steps, failed)
  <2>1. /\ n.on /\ n.rev = c.rev /\ n.steps = steps /\ n.status = status
        /\ n.failed = failed
    BY DEF Recovered
  <2> HIDE DEF n, steps
  <2>2. InPlan(n) = Planned(c)
    BY <1>1, <2>1 DEF InPlan, Planned
  <2> QED
    BY <1>1, <1>2, <2>1, <2>2 DEF Restores, n
<1>3. ASSUME NEW s, s = Recovered(r, "READY", steps, 0), ResumesOrNot(r, s)
      PROVE  \/ GiveUp(r) /\ UNCHANGED session
             \/ \E n : /\ Install(r, n) /\ Restores(c, n)
                      /\ \A t \in Steps : n.steps[t] # "EXECUTING"
  <2> DEFINE u == NextStep(s)
             asks == [s EXCEPT !.steps[u] = "AWAITING_CONFIRMATION",
                               !.status = "WAITING_CONFIRMATION"]
  <2>1. Restores(c, s) /\ \A t \in Steps : s.steps[t] # "EXECUTING"
    BY <1>2, <1>3
  <2>2. /\ asks.on = s.on /\ asks.rev = s.rev
        /\ asks.status = "WAITING_CONFIRMATION"
        /\ asks.steps = [s.steps EXCEPT ![u] = "AWAITING_CONFIRMATION"]
    BY <1>3 DEF Recovered
  <2>3. s.steps = steps
    BY <1>3 DEF Recovered
  <2>4. CASE HasRunnable(s)
    <3>1. u \in InPlan(s)
      BY <2>4, NextStepEarly DEF HasRunnable, InPlan, Early, Absent
    <3> HIDE DEF u, asks
    <3>2. \A t \in Steps : /\ asks.steps[t] = Absent <=> s.steps[t] = Absent
                           /\ asks.steps[t] # "EXECUTING"
      BY <2>1, <2>2, <2>3, <3>1 DEF InPlan, Absent
    <3>3. InPlan(asks) = InPlan(s)
      BY <3>2, SamePlan
    <3>4. Restores(c, asks)
      BY <2>1, <2>2, <3>3 DEF Restores
    <3> QED
      BY <1>3, <2>1, <3>2, <3>4 DEF ResumesOrNot, u, asks
  <2> QED
    BY <1>3, <2>4 DEF ResumesOrNot
<1>4. Decide(r) =>
        \/ GiveUp(r) /\ UNCHANGED session
        \/ Install(r, Recovered(r, "BLOCKED", steps, f))
        \/ Install(r, Recovered(r, "DONE", steps, 0))
        \/ \E status \in {"WAITING_CONFIRMATION", "REPLAN_REQUIRED"} :
               Install(r, Recovered(r, status, steps, 0))
        \/ ResumesOrNot(r, Recovered(r, "READY", steps, 0))
  BY DEF Decide
<1> HIDE DEF steps, f
<1> QED
  BY <1>2, <1>3, <1>4

LEMMA RecoverFlow ==
    ASSUME SInv, NEW r \in Runtimes, StepPlanned(r), Recover(r),
           UNCHANGED cancelling
    PROVE  Flow(r)
<1>1. /\ TypeOK /\ job \in [Runtimes -> Jobs]
      /\ session \in [Runtimes -> Sessions] /\ session[r] \in Sessions
      /\ evidence \in [Runtimes -> Evidences]
  BY WorkShapes DEF SInv, BInv, IInv
<1>2. ASSUME UNCHANGED <<checkpoint, session>>, job'[r].pc \in Recovering,
             \/ /\ job'[r].pc = "acquire" /\ checkpoint.on
                /\ job'[r].view = checkpoint
             \/ job'[r].view = job[r].view /\ job[r].pc \in Recovering
      PROVE  Flow(r)
  <2>1. Kept(session[r], session'[r]) \/ ~session'[r].on
    BY <1>2 DEF Kept
  <2>2. StepPlanned(r)'
    BY <1>2 DEF StepPlanned, Working, Recovering
  <2> QED
    BY <1>2, <2>1, <2>2 DEF Flow, SessionFlow, ViewFlow, CheckpointFlow, CancelFlow
<1>3. ASSUME GiveUp(r), UNCHANGED <<checkpoint, session>>
      PROVE  Flow(r)
  <2>1. job'[r].pc = "idle"
    BY <1>1, <1>3 DEF GiveUp, AtRest
  <2>2. Kept(session[r], session'[r]) \/ ~session'[r].on
    BY <1>3 DEF Kept
  <2> QED
    BY <1>1, <1>3, <2>1, <2>2, GoesFlow DEF Shelving, Recovering, Working
<1>4. CASE RecoverRead(r)
  <2>1. job'[r] = [AtRest EXCEPT !.pc = "acquire", !.view = checkpoint]
        /\ checkpoint.on /\ UNCHANGED <<checkpoint, session>>
    BY <1>1, <1>4 DEF RecoverRead
  <2>2. job'[r].pc = "acquire" /\ job'[r].view = checkpoint
    BY <2>1 DEF AtRest
  <2> QED
    BY <1>2, <2>1, <2>2 DEF Recovering
<1>5. CASE Acquire(r)
  <2>1. UNCHANGED <<checkpoint, session>> /\ job[r].pc = "acquire"
    BY <1>5 DEF Acquire, At
  <2>2. \/ GiveUp(r)
        \/ job' = [job EXCEPT ![r].pc = "reconcile", ![r].token = lease'.token]
    BY <1>5 DEF Acquire
  <2>3. CASE job' = [job EXCEPT ![r].pc = "reconcile", ![r].token = lease'.token]
    <3>1. job'[r].pc = "reconcile" /\ job'[r].view = job[r].view
      BY <1>1, <2>3 DEF Jobs
    <3> QED
      BY <1>2, <2>1, <3>1 DEF Recovering
  <2> QED
    BY <1>3, <2>1, <2>2, <2>3
<1>6. CASE Reconcile(r)
  <2>1. UNCHANGED <<checkpoint, session>> /\ job[r].pc = "reconcile"
    BY <1>6 DEF Reconcile, At
  <2>2. GiveUp(r) \/ Goto(r, "decide")
    BY <1>6 DEF Reconcile
  <2>3. CASE Goto(r, "decide")
    <3>1. job'[r].pc = "decide" /\ job'[r].view = job[r].view
      BY <1>1, <2>3 DEF Goto, Jobs
    <3> QED
      BY <1>2, <2>1, <3>1 DEF Recovering
  <2> QED
    BY <1>3, <2>1, <2>2, <2>3
<1>7. CASE Decide(r)
  <2>1. UNCHANGED <<checkpoint, evidence>> /\ job[r].pc = "decide"
    BY <1>7 DEF Decide, At, UnchangedByCalls
  <2>2. ASSUME NEW n, Install(r, n), Restores(job[r].view, n)
        PROVE  Flow(r)
    BY <1>1, <2>1, <2>2, FinishFlow DEF Install, Restores
  <2> QED
    BY <1>1, <1>3, <1>7, <2>1, <2>2, DecideRestores
<1> QED
  BY <1>4, <1>5, <1>6, <1>7 DEF Recover

LEMMA NextFlow ==
    ASSUME SInv, NEW r \in Runtimes, StepPlanned(r), Acts(r) \/ Puts(r)
    PROVE  Flow(r)
  BY RunFlow, ExecuteFlow, StoreFlow, WithdrawFlow, RecoverFlow DEF Acts, Puts

-----------------------------------------------------------------------------
(* Success. A step that has left the plan is VERIFIED under some revision,   *)
(* and the verdict is only given when those still in it are so too.          *)

EverVerified(l, t) == \E v \in Revisions : l[<<v, t>>].state = "VERIFIED"
Accounted(l, plan) == \A t \in Steps \ plan : EverVerified(l, t)

Planning(r) ==
    /\ StepPlanned(r)
    /\ session[r].on => Accounted(ledger, InPlan(session[r]))
    /\ job[r].pc \in Shelving \cup Recovering =>
           Accounted(ledger, Planned(job[r].view))
    /\ cancelling[r].on => Accounted(ledger, Planned(cancelling[r]))

Succeeded == "TERMINAL_SUCCESS" \in {life.class, client.seen.class}

RInv ==
    /\ LBase
    /\ \A r \in Runtimes : Planning(r)
    /\ checkpoint.on => Accounted(ledger, Planned(checkpoint))
    /\ client.view.on => Accounted(ledger, Planned(client.view))
    /\ Succeeded => Accounted(ledger, {})

\* A settled entry stays what it is.
LEMMA StaysVerified ==
    ASSUME Lasting
    PROVE  /\ \A t \in Steps : EverVerified(ledger, t) => EverVerified(ledger', t)
           /\ \A plan : Accounted(ledger, plan) => Accounted(ledger', plan)
<1>1. \A o \in Obligations :
          ledger[o].state = "VERIFIED" => ledger'[o].state = "VERIFIED"
  BY DEF Lasting, Settled
<1>2. ASSUME NEW t \in Steps, EverVerified(ledger, t)
      PROVE  EverVerified(ledger', t)
  <2>1. PICK v \in Revisions : ledger[<<v, t>>].state = "VERIFIED"
    BY <1>2 DEF EverVerified
  <2>2. <<v, t>> \in Obligations
    BY DEF Obligations
  <2> QED
    BY <1>1, <2>1, <2>2 DEF EverVerified
<1> QED
  BY <1>2 DEF Accounted

\* A step of r keeps account of its plans and of the checkpoint's.
LEMMA PlansStep ==
    ASSUME TypeOK, NEW r \in Runtimes, Planning(r), Flow(r), Lasting,
           SessionProven(ledger, session[r]),
           checkpoint.on => Accounted(ledger, Planned(checkpoint))
    PROVE  /\ Planning(r)'
           /\ checkpoint'.on => Accounted(ledger', Planned(checkpoint'))
<1> DEFINE s == session[r]
           n == session'[r]
<1>1. s \in Sessions
  BY WorkShapes
<1>2. n.on => Accounted(ledger', InPlan(n))
  <2>1. CASE Kept(s, n)
    BY <2>1, StaysVerified DEF Kept, Planning
  <2>2. CASE Revises(s, n)
    <3>1. Accounted(ledger', InPlan(s))
      BY <2>2, StaysVerified DEF Revises, Planning
    <3>2. ASSUME NEW t \in Steps, s.steps[t] = "VERIFIED"
          PROVE  EverVerified(ledger', t)
      <4>1. ledger[<<s.rev, t>>].state = "VERIFIED" /\ s.rev \in Revisions
        BY <1>1, <3>2 DEF SessionProven, Sessions
      <4>2. EverVerified(ledger, t)
        BY <4>1 DEF EverVerified
      <4> QED
        BY <4>2, StaysVerified
    <3> QED
      BY <2>2, <3>1, <3>2 DEF Revises, Accounted
  <2>3. CASE job[r].pc = "decide" /\ Restores(job[r].view, n)
    BY <2>3, StaysVerified DEF Restores, Planning, Recovering
  <2> QED
    BY <2>1, <2>2, <2>3 DEF Flow, SessionFlow
<1>3. job'[r].pc \in Shelving \cup Recovering =>
          Accounted(ledger', Planned(job'[r].view))
  <2>1. CASE /\ session'[r].on
             /\ job'[r].view = FromSession(session'[r], evidence'[r])
    BY <1>2, <2>1, FromSessionPlan
  <2>2. CASE checkpoint.on /\ job'[r].view = checkpoint
    BY <2>2, StaysVerified
  <2>3. CASE job'[r].view = job[r].view /\ job[r].pc \in Shelving \cup Recovering
    BY <2>3, StaysVerified DEF Planning
  <2> QED
    BY <2>1, <2>2, <2>3 DEF Flow, ViewFlow
<1>4. checkpoint'.on => Accounted(ledger', Planned(checkpoint'))
  <2>1. CASE checkpoint' = checkpoint
    BY <2>1, StaysVerified
  <2>2. CASE job[r].pc \in Shelving /\ checkpoint' = job[r].view
    BY <2>2, StaysVerified DEF Planning
  <2>3. CASE cancelling[r].on /\ checkpoint' = cancelling[r]
    BY <2>3, StaysVerified DEF Planning
  <2> QED
    BY <2>1, <2>2, <2>3 DEF Flow, CheckpointFlow
<1>5. cancelling'[r].on => Accounted(ledger', Planned(cancelling'[r]))
  <2>1. CASE cancelling'[r] = cancelling[r]
    BY <2>1, StaysVerified DEF Planning
  <2>2. CASE Kept(s, n) /\ cancelling'[r] = FromSession(n, evidence'[r])
    BY <1>2, <2>2, FromSessionPlan DEF Kept
  <2> QED
    BY <2>1, <2>2 DEF Flow, CancelFlow
<1> QED
  BY <1>2, <1>3, <1>4, <1>5 DEF Planning, Flow

\* A runtime that takes no step keeps account too.
LEMMA PlansStill ==
    ASSUME NEW r \in Runtimes, Planning(r), Lasting, session'[r] = session[r],
           job'[r] = job[r], cancelling'[r] = cancelling[r]
    PROVE  Planning(r)'
  BY StaysVerified DEF Planning, StepPlanned

\* Only the runtime that acts changes its session and its call.
LEMMA NextOthers ==
    ASSUME IInv, NEW r \in Runtimes, Acts(r) \/ Puts(r)
    PROVE  /\ Others(r) /\ TypeOK'
           /\ \A q \in Runtimes \ {r} : cancelling'[q] = cancelling[q]
<1>1. Others(r) /\ TypeOK'
  <2>1. Run(r) /\ UNCHANGED cancelling => Others(r) /\ TypeOK'
    BY RunEndsStep, RunAllowedStep, BeforeExecutionStep DEF Run, Local
  <2>2. Execute(r) /\ UNCHANGED cancelling => Others(r) /\ TypeOK'
    BY ClaimStep, CreateStep, AuthorizeStep, DispatchStep, SendStep,
       RespondStep, VerifyStep, UnknownStep DEF Execute, Local
  <2>3. Recover(r) /\ UNCHANGED cancelling => Others(r) /\ TypeOK'
    BY RecoverReadStep, AcquireStep, ReconcileStep, DecideStep
       DEF Recover, Local
  <2>4. Withdraw(r) \/ Crash(r) => Others(r) /\ TypeOK'
    <3>1. Crash(r) => cancelling' \in [Runtimes -> Checkpoints]
      BY RestTyped, Shapes DEF Crash, IInv
    <3> QED
      BY <3>1, CancelStep, CancelPutStep, CrashStep DEF Withdraw, Local
  <2> QED
    BY <2>1, <2>2, <2>3, <2>4, PutStep, AskPlannerStep, ReplanStep
       DEF Acts, Puts, Local
<1>2. \/ UNCHANGED cancelling
      \/ \E c : cancelling' = [cancelling EXCEPT ![r] = c]
  BY DEF Acts, Puts, Withdraw, Cancel, CancelPut, CancelPutFails, Crash
<1>3. cancelling \in [Runtimes -> Checkpoints]
  BY Shapes DEF IInv
<1> QED
  BY <1>1, <1>2, <1>3

LEMMA ActsLast ==
    ASSUME BInv, NEW r \in Runtimes, Acts(r) \/ Puts(r)
    PROVE  Lasting
  BY NextLasts DEF Acts, Puts, Proceed

\* A runtime's step leaves record and call alone, but for a replan, a counted
\* write, a late one and a crash.
LEMMA TaskCases ==
    ASSUME TaskStep
    PROVE  \/ /\ Admit /\ UNCHANGED cancelling /\ ~life.on
              /\ UNCHANGED <<life, client>>
           \/ ExpireLease /\ UNCHANGED <<cancelling, life, client>>
           \/ \E r \in Runtimes :
                \/ /\ Acts(r)
                   /\ client' \in {client, NoCall}
                   /\ \/ life' = life
                      \/ life' = ActiveFor(session'[r].rev)
                \/ PutAndCount(r) /\ Puts(r)
                \/ CancelPutAndCount(r) /\ Acts(r)
  BY DEF TaskStep, AdmitOnce, Undisturbed, ReplanAndReset, CrashCalls, Acts,
         PutAndCount, CancelPutAndCount, Puts, Withdraw

\* What a verdict says of the checkpoint and the ledger it was formed on.
LEMMA VerdictFacts ==
    ASSUME NEW c, NEW l, NEW r, CheckpointVerdict(c, l, r) # "NONE"
    PROVE  /\ ~UnknownOutcome(c) /\ ~LedgerConflict(c) /\ ~OrphanCheckpoint(c)
           /\ CASE CheckpointVerdict(c, l, r) = "TERMINAL_SUCCESS" ->
                       AllStepsVerified(c)
                [] CheckpointVerdict(c, l, r) = "TERMINAL_FAILURE" ->
                       AllTerminal(c)
                [] OTHER -> c.status = "CANCELLED"
<1>1. /\ ~UnknownOutcome(c) /\ ~LedgerConflict(c) /\ ~OrphanCheckpoint(c)
      /\ \/ CheckpointVerdict(c, l, r) = "TERMINAL_SUCCESS" /\ AllStepsVerified(c)
         \/ CheckpointVerdict(c, l, r) = "TERMINAL_FAILURE" /\ AllTerminal(c)
         \/ CheckpointVerdict(c, l, r) = "USER_CANCELLED" /\ c.status = "CANCELLED"
  BY DEF CheckpointVerdict
<1> QED
  BY <1>1

\* Where a class comes from: the record, the call, or the verdict.
LEMMA CallClasses ==
    ASSUME CallBase, Call
    PROVE  /\ life'.class \in {life.class, client.seen.class}
           /\ \/ client'.seen.class \in {"NONE", life.class, client.seen.class}
              \/ /\ client.view.on
                 /\ client'.seen.class =
                        CheckpointVerdict(client.view, client.owned, client.by)
           /\ \/ ~client'.view.on
              \/ client'.view = client.view
              \/ client'.view = checkpoint
<1>1. client \in Calls /\ client.seen \in LifeRecords
  BY DEF CallBase, LifecycleTypeOK, Calls
<1>2. /\ \A rev : ActiveFor(rev).class = "NONE"
      /\ NoCall.seen.class = "NONE" /\ ~NoCall.view.on /\ ~NoCheckpoint.on
  BY DEF ActiveFor, NoLife, NoCall, NoCheckpoint
<1>3. ASSUME NEW record, Settling(record)
      PROVE  client'.seen = record /\ ~client'.view.on
  BY <1>2, <1>3 DEF Settling, NoCall
<1>4. CASE Judge
  <2> DEFINE verdict == CheckpointVerdict(client.view, client.owned, client.by)
             again == [client EXCEPT !.pc = "artifacts", !.sure = TRUE,
                                     !.view = NoCheckpoint, !.owned = NoLease]
             agreed == client.view.on /\ verdict = client.seen.class
             asks == [client EXCEPT !.pc = "permit", !.sure = agreed]
             removes == [client EXCEPT !.pc = "erase", !.sure = FALSE]
             found == [client.seen EXCEPT !.state = "ACKNOWLEDGEMENT_PENDING",
                                          !.class = verdict]
  <2>1. /\ again.seen = client.seen /\ again.view = NoCheckpoint
        /\ asks.seen = client.seen /\ asks.view = client.view
        /\ removes.seen = client.seen /\ removes.view = client.view
    BY <1>1 DEF Calls
  <2>2. /\ found.class = verdict
        /\ \A state : [client.seen EXCEPT !.state = state].class = client.seen.class
    BY <1>1 DEF LifeRecords
  <2>3. UNCHANGED life
    BY <1>4 DEF Judge, StoreKept
  <2>4. \/ client.view.on /\ Settling(found)
        \/ \E state : Settling([client.seen EXCEPT !.state = state])
        \/ client' \in {again, asks, removes}
    BY <1>4 DEF Judge, Conclusive
  <2> HIDE DEF verdict, again, asks, removes, found
  <2>5. CASE client' \in {again, asks, removes}
    BY <1>2, <2>1, <2>3, <2>5
  <2>6. CASE client.view.on /\ Settling(found)
    BY <1>3, <2>2, <2>3, <2>6 DEF verdict
  <2>7. ASSUME NEW state, Settling([client.seen EXCEPT !.state = state])
        PROVE  client'.seen.class = client.seen.class /\ ~client'.view.on
    BY <1>3, <2>2, <2>7
  <2> QED
    BY <2>3, <2>4, <2>5, <2>6, <2>7
<1>5. CASE Erase
  <2>1. /\ UNCHANGED life
        /\ client' = NoCall \/ Settling([client.seen EXCEPT !.state = "CLOSED"])
    BY <1>5 DEF Erase, EraseNow, ClientEnds
  <2>2. [client.seen EXCEPT !.state = "CLOSED"].class = client.seen.class
    BY <1>1 DEF LifeRecords
  <2> QED
    BY <1>2, <1>3, <2>1, <2>2
<1>6. ASSUME NEW r, NEW op, Open(r, op)
      PROVE  /\ UNCHANGED life /\ client'.seen = life
             /\ client'.view = NoCheckpoint
  <2> DEFINE n == [NoCall EXCEPT
                       !.pc = IF life.on THEN "artifacts" ELSE "birth",
                       !.op = op, !.by = r, !.seen = life]
  <2>1. client' = n /\ UNCHANGED life
    BY <1>6 DEF Open, StoreKept
  <2>2. n.seen = life /\ n.view = NoCheckpoint
    BY DEF NoCall
  <2> QED
    BY <2>1, <2>2
<1>7. CASE Birth
  <2> DEFINE rev == IF checkpoint.on THEN checkpoint.rev ELSE session[client.by].rev
             n == [client EXCEPT !.pc = "register", !.seen = ActiveFor(rev)]
  <2>1. client' \in {NoCall, n} /\ UNCHANGED life
    BY <1>7 DEF Birth, ClientEnds, StoreKept
  <2>2. n.seen = ActiveFor(rev) /\ n.view = client.view
    BY <1>1 DEF Calls
  <2> HIDE DEF n, rev
  <2> QED
    BY <1>2, <2>1, <2>2
<1>8. CASE Register \/ Settle \/ Abandon \/ Permit \/ Artifacts
  <2>1. /\ life' \in {life, client.seen}
        /\ \/ client' = NoCall
           \/ client'.seen = client.seen /\ client'.view \in {client.view, checkpoint}
    BY <1>1, <1>8 DEF Register, Settle, Abandon, Permit, Artifacts, ClientEnds,
                      StoreKept, Calls
  <2> QED
    BY <1>2, <2>1
<1> QED
  BY <1>2, <1>4, <1>5, <1>6, <1>7, <1>8 DEF Call

LEMMA SuccessInit == LifecycleInit => RInv
<1> SUFFICES ASSUME LifecycleInit
             PROVE  RInv
  OBVIOUS
<1>1. LBase
  BY BaseInit
<1>2. /\ life.class = "NONE" /\ client.seen.class = "NONE" /\ ~client.view.on
      /\ ~checkpoint.on
  BY EmptyTyped DEF LifecycleInit, Init
<1>3. \A r \in Runtimes : Planning(r)
  BY DEF LifecycleInit, Init, Planning, StepPlanned, NoSession, NoCheckpoint,
         AtRest, Working, Shelving, Recovering
<1> QED
  BY <1>1, <1>2, <1>3 DEF RInv, Succeeded

\* What record and call have of a task step.
LEMMA TaskClasses ==
    ASSUME CallBase, TaskStep
    PROVE  /\ life'.class \in {"NONE", life.class}
           /\ \/ client' = NoCall
              \/ /\ client'.seen = client.seen /\ client'.view = client.view
                 /\ client'.pc = client.pc
<1>1. client \in Calls
  BY DEF CallBase, LifecycleTypeOK
<1>2. \A rev : ActiveFor(rev).class = "NONE"
  BY DEF ActiveFor, NoLife
<1>3. ASSUME NEW r \in Runtimes, PutAndCount(r)
      PROVE  /\ UNCHANGED life
             /\ client'.seen = client.seen /\ client'.view = client.view
             /\ client'.pc = client.pc
  <2> DEFINE late == client.outdated \/ (client.view.on /\ job[r].pc = "putBefore")
             n == [client EXCEPT !.outdated = late]
  <2>1. client' = n /\ UNCHANGED life
    BY <1>3 DEF PutAndCount
  <2>2. n.seen = client.seen /\ n.view = client.view /\ n.pc = client.pc
    BY <1>1 DEF Calls
  <2> QED
    BY <2>1, <2>2
<1>4. ASSUME NEW r \in Runtimes, CancelPutAndCount(r)
      PROVE  /\ UNCHANGED life
             /\ client'.seen = client.seen /\ client'.view = client.view
             /\ client'.pc = client.pc
  BY <1>1, <1>4 DEF CancelPutAndCount, Calls
<1> QED
  BY <1>2, <1>3, <1>4, TaskCases

LEMMA AdmitPlans ==
    ASSUME RInv, Admit, UNCHANGED cancelling
    PROVE  /\ \A r \in Runtimes : Planning(r)'
           /\ checkpoint'.on => Accounted(ledger', Planned(checkpoint'))
<1> DEFINE s == [NoSession EXCEPT !.on = TRUE,
                                  !.steps = [t \in Steps |-> "PENDING"]]
<1>1. TypeOK /\ \A r \in Runtimes : Planning(r)
  BY DEF RInv, LBase, HInv, SInv, BInv, IInv
<1>2. /\ session' = [session EXCEPT ![First] = s] /\ job[First] = AtRest
      /\ checkpoint' = FromSession(s, evidence[First])
      /\ UNCHANGED <<ledger, job>>
  BY DEF Admit
<1>3. InPlan(s) = Steps
  BY DEF InPlan, NoSession, Absent
<1> HIDE DEF s
<1>4. \A l : Accounted(l, Steps)
  BY DEF Accounted
<1>5. Planned(checkpoint') = Steps
  BY <1>2, <1>3, FromSessionPlan
<1>6. session \in [Runtimes -> Sessions] /\ First \in Runtimes
  BY <1>1, WorkShapes, PlanAssumption
<1>7. ASSUME NEW r \in Runtimes
      PROVE  Planning(r)'
  <2>1. CASE r = First
    BY <1>1, <1>2, <1>3, <1>4, <1>6, <2>1
       DEF Planning, StepPlanned, AtRest, Working, Shelving, Recovering
  <2>2. CASE r # First
    BY <1>1, <1>2, <1>6, <2>2, PlansStill DEF Lasting
  <2> QED
    BY <2>1, <2>2
<1> QED
  BY <1>4, <1>5, <1>7

LEMMA SuccessStep ==
    ASSUME RInv, [LifecycleNext]_lifecycleVars
    PROVE  RInv'
<1>1. /\ LBase /\ CallBase /\ HInv /\ SInv /\ BInv /\ IInv /\ TypeOK
      /\ \A r \in Runtimes : Planning(r)
  BY DEF RInv, LBase, HInv, SInv, BInv, IInv
<1>2. LBase'
  BY <1>1, BaseStep
<1>3. CASE UNCHANGED lifecycleVars
  <2>1. UNCHANGED <<ledger, session, job, cancelling, checkpoint, life, client>>
    BY <1>3 DEF lifecycleVars, vars
  <2> QED
    BY <1>2, <2>1 DEF RInv, Planning, StepPlanned, Succeeded
<1>4. CASE TaskStep
  <2>1. /\ Lasting
        /\ \A r \in Runtimes : Planning(r)'
        /\ checkpoint'.on => Accounted(ledger', Planned(checkpoint'))
    <3>1. CASE Admit /\ UNCHANGED cancelling
      BY <3>1, AdmitPlans DEF Admit, Lasting
    <3>2. CASE ExpireLease /\ UNCHANGED cancelling
      BY <1>1, <3>2, PlansStill DEF ExpireLease, Lasting, RInv
    <3>3. ASSUME NEW r \in Runtimes, Acts(r) \/ Puts(r)
          PROVE  <2>1!1 /\ <2>1!2 /\ <2>1!3
      <4>1. /\ Others(r) /\ Flow(r) /\ Lasting
            /\ \A q \in Runtimes \ {r} : cancelling'[q] = cancelling[q]
        BY <1>1, <3>3, NextOthers, NextFlow, ActsLast DEF Planning
      <4>2. SessionProven(ledger, session[r])
        BY <1>1 DEF BInv
      <4>3. Planning(r)' /\ (checkpoint'.on => Accounted(ledger', Planned(checkpoint')))
        BY <1>1, <4>1, <4>2, PlansStep DEF RInv
      <4>4. \A q \in Runtimes \ {r} : Planning(q)'
        BY <1>1, <4>1, PlansStill DEF Others
      <4> QED
        BY <4>1, <4>3, <4>4
    <3> QED
      BY <1>4, <3>1, <3>2, <3>3, TaskCases
  <2>2. /\ client'.view.on => client.view.on /\ client'.view = client.view
        /\ Succeeded' => Succeeded
    BY <1>1, <1>4, TaskClasses, EmptyTyped DEF Succeeded
  <2> QED
    BY <1>2, <2>1, <2>2, StaysVerified DEF RInv
<1>5. CASE Call
  <2>1. UNCHANGED <<ledger, session, job, cancelling>>
        /\ (checkpoint'.on => checkpoint' = checkpoint)
    BY <1>5, CallsErase, EmptyTyped
  <2>2. \A r \in Runtimes : Planning(r)'
    BY <1>1, <2>1, PlansStill DEF Lasting
  <2>3. client'.view.on => Accounted(ledger', Planned(client'.view))
    BY <1>1, <1>5, <2>1, CallClasses DEF RInv
  <2>4. client.view \in Checkpoints
    BY <1>1 DEF CallBase, LifecycleTypeOK, Calls
  <2>5. AllStepsVerified(client.view) /\ client.view.on => Accounted(ledger, {})
    <3> SUFFICES ASSUME AllStepsVerified(client.view), client.view.on,
                        NEW t \in Steps
                 PROVE  EverVerified(ledger, t)
      BY DEF Accounted
    <3>1. CASE t \in Planned(client.view)
      <4>1. /\ t \in Referring(client.view)
            /\ LedgerOf(client.view, t) = "VERIFIED"
        BY <3>1 DEF AllStepsVerified
      <4>2. /\ client.view.steps[t].ref \in Revisions
            /\ ledger[<<client.view.steps[t].ref, t>>].state = "VERIFIED"
        BY <2>4, <4>1 DEF Referring, LedgerOf, Checkpoints, StepRecords
      <4> QED
        BY <4>2 DEF EverVerified
    <3>2. CASE t \notin Planned(client.view)
      BY <3>2 DEF RInv, Accounted
    <3> QED
      BY <3>1, <3>2
  <2>6. Succeeded' => Accounted(ledger, {})
    BY <1>1, <1>5, <2>5, CallClasses, VerdictFacts DEF Succeeded, RInv
  <2> QED
    BY <1>2, <2>1, <2>2, <2>3, <2>6 DEF RInv
<1> QED
  BY <1>3, <1>4, <1>5 DEF LifecycleNext

\* reconcile_dynamic_recovery_retention: a task is called a success only when
\* every step's call reached the phone and its obligation is VERIFIED, under
\* the present revision of the plan or under the one that left the step out.
THEOREM LifecycleSuccessIsReal == LifecycleSpec => []SuccessIsReal
<1>1. RInv => SuccessIsReal
  <2> SUFFICES ASSUME RInv, life.class = "TERMINAL_SUCCESS", NEW t \in Steps
               PROVE  \E v \in Revisions : ledger[<<v, t>>].state = "VERIFIED"
                                           /\ delivered[<<v, t>>] > 0
    BY DEF SuccessIsReal
  <2>1. EverVerified(ledger, t)
    BY DEF RInv, Succeeded, Accounted
  <2>2. LedgerSound
    BY DEF RInv, LBase, HInv, SInv, BInv
  <2> QED
    BY <2>1, <2>2 DEF EverVerified, LedgerSound, Obligations
<1> QED
  BY <1>1, SuccessInit, SuccessStep, PTL DEF LifecycleSpec

-----------------------------------------------------------------------------
(* What a runtime in the middle of a step has used up and shows. A binding   *)
(* is used up by the claim, evidence is kept for used bindings only, and a   *)
(* step that is EXECUTING has no evidence yet: its record names no           *)
(* obligation.                                                               *)

Claimed == {"create", "authorize", "dispatch", "send", "answered", "lost",
            "verify", "unknown"}
Claiming == {"claim"} \cup Claimed
Unclaimed == {"risked", "putBefore", "claim"}

Shows(c, o) == c.rev = o[1] /\ c.steps[o[2]].state = "EXECUTING"
NoRef(c) == \A t \in Steps : c.steps[t].state = "EXECUTING" => c.steps[t].ref = 0

Blank(s, own) ==
    \A t \in Steps : s.steps[t] = "EXECUTING" => own[<<s.rev, t>>].state = NotCreated
Covered(own, used) == \A o \in Obligations : own[o].state # NotCreated => o \in used

Binding(r) ==
    /\ Blank(session[r], evidence[r])
    /\ Covered(evidence[r], consumed[r])
    /\ job[r].pc \in Unclaimed => Oblig(r) \notin consumed[r]
    /\ job[r].pc \in Claimed => Oblig(r) \in consumed[r]
    /\ job[r].pc \in Claiming \cup {"putBefore"} =>
           session[r].steps[job[r].step] = "EXECUTING"
    /\ job[r].pc = "putBefore" => Shows(job[r].view, Oblig(r))
    /\ job[r].pc \in Working => session[r].status # "REPLAN_REQUIRED"

\* Nothing is under way that was not, and t no longer is.
Halts(s, n, t) ==
    /\ n.rev = s.rev
    /\ \A u \in Steps : n.steps[u] = "EXECUTING" => u # t /\ s.steps[u] = "EXECUTING"

LEMMA EndsHalt ==
    ASSUME NEW s \in Sessions, NEW t \in Steps
    PROVE  /\ Halts(s, Replanned(s, t), t) /\ Halts(s, Blocked(s, t), t)
           /\ Halts(s, [Blocked(s, t) EXCEPT !.status = "FAILED"], t)
           /\ Halts(s, FailedForGood(s, t), t) /\ Halts(s, Verified(s, t), t)
<1>1. s.steps \in [Steps -> StepStates \cup {Absent}]
  BY DEF Sessions
<1>2. Halts(s, Replanned(s, t), t) /\ Halts(s, Blocked(s, t), t)
  BY <1>1 DEF Halts, Replanned, Blocked, Sessions
<1>3. Halts(s, [Blocked(s, t) EXCEPT !.status = "FAILED"], t)
  <2> DEFINE n == [Blocked(s, t) EXCEPT !.status = "FAILED"]
  <2>1. n.rev = Blocked(s, t).rev /\ n.steps = Blocked(s, t).steps
    BY DEF Blocked, Sessions
  <2> QED
    BY <1>2, <2>1 DEF Halts
<1>4. Halts(s, FailedForGood(s, t), t)
  <2> DEFINE n == FailedForGood(s, t)
  <2>1. /\ n.rev = s.rev
        /\ n.steps = [u \in Steps |-> IF u = t THEN "FAILED"
                                      ELSE IF u \in Downstream(s, t) THEN "BLOCKED"
                                      ELSE s.steps[u]]
    BY DEF FailedForGood, Sessions
  <2> HIDE DEF n
  <2> QED
    BY <2>1 DEF Halts, n
<1>5. Halts(s, Verified(s, t), t)
  BY <1>1 DEF Halts, Verified, Sessions
<1> QED
  BY <1>2, <1>3, <1>4, <1>5

LEMMA MarksHalt ==
    ASSUME NEW s \in Sessions, NEW t \in Steps, NEW status,
           NEW state, state # "EXECUTING"
    PROVE  Halts(s, [s EXCEPT !.steps[t] = state, !.status = status], t)
<1> DEFINE n == [s EXCEPT !.steps[t] = state, !.status = status]
<1>1. /\ n.rev = s.rev /\ n.steps = [s.steps EXCEPT ![t] = state]
      /\ s.steps \in [Steps -> StepStates \cup {Absent}]
  BY DEF Sessions
<1> HIDE DEF n
<1> QED
  BY <1>1 DEF Halts, n

\* A call that ends, with what it keeps as evidence.
LEMMA RestBinding ==
    ASSUME NEW r \in Runtimes, job'[r].pc \notin Working,
           Blank(session'[r], evidence'[r]), Covered(evidence'[r], consumed'[r])
    PROVE  Binding(r)'
  BY DEF Binding, Working, Claiming, Claimed, Unclaimed

LEMMA FinishRests ==
    ASSUME TypeOK, NEW r \in Runtimes, NEW n, NEW own, Finish(r, n, own)
    PROVE  session'[r] = n /\ job'[r].pc \in {"put", "idle"}
  BY WorkShapes DEF Finish, Saving, AtRest

LEMMA HaltsBlank ==
    ASSUME NEW s, NEW n, NEW t \in Steps, NEW own, Blank(s, own), Halts(s, n, t)
    PROVE  /\ Blank(n, own)
           /\ \A e : (\A u \in Steps \ {t} : e[<<s.rev, u>>] = own[<<s.rev, u>>])
                     => Blank(n, e)
  BY DEF Blank, Halts

LEMMA RunBinding ==
    ASSUME SInv, NEW r \in Runtimes, StepPlanned(r), Binding(r), Run(r)
    PROVE  Binding(r)'
<1> DEFINE s == session[r]
           t == NextStep(s)
<1>1. /\ IInv /\ TypeOK /\ s \in Sessions /\ "put" \notin Working
      /\ "idle" \notin Working
      /\ session \in [Runtimes -> Sessions] /\ job \in [Runtimes -> Jobs]
  BY WorkShapes DEF SInv, BInv, IInv, Working
<1>2. UNCHANGED <<consumed, evidence>>
  BY DEF Run, RunFenced, RunRefused, RunNothing, RunUnbound, RunUnauthorized,
         RunAllowed, RunLosesLease, BeforeExecution, UnchangedByCalls
<1>3. Blank(s, evidence[r]) /\ Covered(evidence[r], consumed[r])
  BY DEF Binding
<1>4. ASSUME Blank(session'[r], evidence[r]), job'[r].pc \notin Working
      PROVE  Binding(r)'
  BY <1>2, <1>3, <1>4, RestBinding
<1>5. ASSUME NEW n, Blank(n, evidence[r]), Finish(r, n, evidence[r])
      PROVE  Binding(r)'
  BY <1>1, <1>4, <1>5, FinishRests
<1>6. ASSUME NEW n, NEW u \in Steps, Halts(s, n, u), Finish(r, n, evidence[r])
      PROVE  Binding(r)'
  BY <1>3, <1>5, <1>6, HaltsBlank
<1>7. Candidates(s) # {} => t \in Steps
  BY NextStepEarly
<1>8. \A status : Blank([s EXCEPT !.status = status], evidence[r])
  <2> TAKE status
  <2>1. /\ [s EXCEPT !.status = status].rev = s.rev
        /\ [s EXCEPT !.status = status].steps = s.steps
    BY DEF Sessions
  <2> QED
    BY <1>3, <2>1 DEF Blank
<1>9. CASE RunFenced(r)
  <2>1. session'[r] = [s EXCEPT !.status = "BLOCKED"] /\ job'[r].pc = "idle"
    BY <1>1, <1>9 DEF RunFenced, MayCall, AtRest
  <2> QED
    BY <1>1, <1>4, <1>8, <2>1
<1>10. CASE RunRefused(r)
  BY <1>3, <1>5, <1>10 DEF RunRefused
<1>11. CASE RunNothing(r)
  <2>1. Candidates(s) # {} => Halts(s, Blocked(s, t), t)
    BY <1>1, <1>7, EndsHalt
  <2>2. Blank([s EXCEPT !.status = "DONE"], evidence[r])
    BY <1>8
  <2> QED
    BY <1>3, <1>5, <1>6, <1>7, <1>11, <2>1, <2>2 DEF RunNothing
<1>12. CASE RunUnbound(r)
  <2>1. /\ t \in Steps /\ Halts(s, Replanned(s, t), t)
        /\ Halts(s, [Blocked(s, t) EXCEPT !.status = "FAILED"], t)
    BY <1>1, <1>7, <1>12, EndsHalt DEF RunUnbound, HasRunnable
  <2> QED
    BY <1>6, <1>12, <2>1 DEF RunUnbound
<1>13. CASE RunUnauthorized(r)
  <2>1. /\ t \in Steps /\ Halts(s, Blocked(s, t), t)
        /\ Halts(s, [s EXCEPT !.steps[t] = "AWAITING_CONFIRMATION",
                              !.status = "WAITING_CONFIRMATION"], t)
    BY <1>1, <1>7, <1>13, EndsHalt, MarksHalt DEF RunUnauthorized, HasRunnable
  <2> QED
    BY <1>6, <1>13, <2>1 DEF RunUnauthorized
<1>14. CASE RunAllowed(r)
  <2> DEFINE n == [s EXCEPT !.steps[t] = "AWAITING_RISK", !.status = "RUNNING"]
  <2>1. /\ session'[r] = n /\ t \in Steps /\ Bound(r, s, t)
        /\ job'[r] = [AtRest EXCEPT !.pc = "risked", !.step = t]
    BY <1>1, <1>7, <1>14 DEF RunAllowed, HasRunnable
  <2>2. /\ n.rev = s.rev /\ n.status = "RUNNING" /\ Halts(s, n, t)
    BY <1>1, <2>1, MarksHalt DEF Sessions
  <2>3. job'[r].pc = "risked" /\ job'[r].step = t
    BY <2>1 DEF AtRest
  <2> HIDE DEF n
  <2>4. Blank(n, evidence[r])
    BY <1>3, <2>1, <2>2, HaltsBlank
  <2> QED
    BY <1>2, <1>3, <2>1, <2>2, <2>3, <2>4
       DEF Binding, Bound, Oblig, Claiming, Claimed
<1>15. CASE RunLosesLease(r)
  <2>1. /\ session'[r] = Blocked(s, job[r].step) /\ job'[r].pc = "idle"
        /\ job[r].step \in Steps
    BY <1>1, <1>15 DEF RunLosesLease, AtRest, StepPlanned, Working, InPlan
  <2>2. Halts(s, Blocked(s, job[r].step), job[r].step)
    BY <1>1, <2>1, EndsHalt
  <2> QED
    BY <1>1, <1>3, <1>4, <2>1, <2>2, HaltsBlank
<1>16. CASE BeforeExecution(r)
  <2> DEFINE u == job[r].step
             n == [s EXCEPT !.steps[u] = "EXECUTING",
                            !.token = IF @ = 0 THEN 0 ELSE lease'.token]
  <2>1. /\ u \in Steps /\ <<s.rev, u>> \notin consumed[r]
        /\ s.status # "REPLAN_REQUIRED"
    BY <1>16 DEF BeforeExecution, StepPlanned, Working, InPlan, Binding,
                 Unclaimed, Oblig
  <2>2. PICK allowed : job' = [job EXCEPT ![r] =
            Saving(n, evidence[r], allowed, "putBefore", u)]
    BY <1>16 DEF BeforeExecution
  <2>3. session'[r] = n
    BY <1>1, <1>16 DEF BeforeExecution
  <2>4. /\ n.rev = s.rev /\ n.status = s.status
        /\ n.steps = [s.steps EXCEPT ![u] = "EXECUTING"]
        /\ s.steps \in [Steps -> StepStates \cup {Absent}] /\ s.rev \in Revisions
    BY <1>1 DEF Sessions
  <2> HIDE DEF n, u
  <2>5. \/ /\ job'[r].pc = "putBefore" /\ job'[r].step = u
           /\ job'[r].view = FromSession(n, evidence[r])
        \/ job'[r].pc = "idle"
    BY <1>1, <2>2 DEF Saving, AtRest
  <2>6. evidence[r][<<s.rev, u>>].state = NotCreated
    BY <1>3, <2>1, <2>4 DEF Covered, Obligations
  <2>7. Blank(n, evidence[r])
    BY <1>3, <2>1, <2>4, <2>6 DEF Blank
  <2>8. n.steps[u] = "EXECUTING"
    BY <2>1, <2>4
  <2>9. CASE job'[r].pc = "putBefore"
    <3>1. Shows(FromSession(n, evidence[r]), <<s.rev, u>>)
      BY <2>1, <2>4, <2>8, FromSessionStates DEF Shows
    <3>2. Oblig(r)' = <<s.rev, u>>
      BY <2>3, <2>4, <2>5, <2>9 DEF Oblig
    <3> QED
      BY <1>2, <1>3, <2>1, <2>3, <2>4, <2>5, <2>7, <2>8, <2>9, <3>1, <3>2
         DEF Binding, Claiming, Claimed
  <2> QED
    BY <1>1, <1>4, <2>3, <2>5, <2>7, <2>9
<1> QED
  BY <1>9, <1>10, <1>11, <1>12, <1>13, <1>14, <1>15, <1>16 DEF Run

LEMMA ExecuteBinding ==
    ASSUME SInv, NEW r \in Runtimes, StepPlanned(r), Binding(r), Execute(r)
    PROVE  Binding(r)'
<1> DEFINE s == session[r]
           t == job[r].step
<1>1. job[r].pc \in Claiming
  BY DEF Execute, Claim, Create, Authorize, Dispatch, Send, Respond, Verify,
         Unknown, At, Claiming, Claimed
<1>2. job[r].pc \in Working /\ {"put", "idle"} \cap Working = {}
  BY <1>1 DEF Claiming, Claimed, Working
<1>3. /\ IInv /\ TypeOK /\ s \in Sessions /\ s.on /\ t \in Steps
      /\ Oblig(r) \in Obligations /\ s.rev \in Revisions
      /\ session \in [Runtimes -> Sessions] /\ job \in [Runtimes -> Jobs]
      /\ evidence \in [Runtimes -> Evidences]
      /\ consumed \in [Runtimes -> SUBSET Obligations]
  BY <1>2, AtWork, WorkInvolved, WorkShapes DEF Sessions
<1>4. Blank(s, evidence[r]) /\ Covered(evidence[r], consumed[r])
  BY DEF Binding
<1>5. /\ Halts(s, Replanned(s, t), t) /\ Halts(s, Blocked(s, t), t)
      /\ Halts(s, FailedForGood(s, t), t) /\ Halts(s, Verified(s, t), t)
  BY <1>3, EndsHalt
<1>6. ASSUME NEW n, Halts(s, n, t), NEW own, evidence' = own, Finish(r, n, own[r]),
             UNCHANGED consumed,
             \/ own = evidence
             \/ /\ job[r].pc \in Claimed
                /\ \E state, verified : own = Keep(r, state, verified)
      PROVE  Binding(r)'
  <2>1. \A u \in Steps \ {t} : own[r][<<s.rev, u>>] = evidence[r][<<s.rev, u>>]
    <3> TAKE u \in Steps \ {t}
    <3>1. <<s.rev, u>> \in Obligations /\ <<s.rev, u>> # Oblig(r)
      BY <1>3 DEF Oblig, Obligations
    <3>2. ASSUME NEW state, NEW verified
          PROVE  Keep(r, state, verified)[r][<<s.rev, u>>]
                     = evidence[r][<<s.rev, u>>]
      BY <1>3, <3>1 DEF Keep, Evidences
    <3> QED
      BY <1>6, <3>2
  <2>2. Covered(own[r], consumed[r])
    <3>1. CASE own = evidence
      BY <1>4, <3>1
    <3>2. CASE /\ job[r].pc \in Claimed
               /\ \E state, verified : own = Keep(r, state, verified)
      <4>1. Oblig(r) \in consumed[r]
        BY <3>2 DEF Binding
      <4>2. \A o \in Obligations : o # Oblig(r) => own[r][o] = evidence[r][o]
        BY <1>3, <3>2 DEF Keep, Evidences
      <4> QED
        BY <1>4, <4>1, <4>2 DEF Covered
    <3> QED
      BY <1>6, <3>1, <3>2
  <2>3. Blank(n, own[r])
    BY <1>3, <1>4, <1>6, <2>1, HaltsBlank
  <2>4. session'[r] = n /\ job'[r].pc \notin Working
    BY <1>2, <1>3, <1>6, FinishRests
  <2> QED
    BY <1>6, <2>2, <2>3, <2>4, RestBinding
<1>7. ASSUME NEW own, UNCHANGED consumed,
             EndRecoverable(r, own) \/ EndFinal(r, own) \/ EndUnknown(r, own),
             \/ own = evidence
             \/ /\ job[r].pc \in Claimed
                /\ \E state, verified : own = Keep(r, state, verified)
      PROVE  Binding(r)'
  BY <1>5, <1>6, <1>7 DEF EndRecoverable, EndFinal, EndUnknown
<1>8. ASSUME NEW pc \in Claimed, UNCHANGED <<session, evidence>>,
             Goto(r, pc) \/ Carry(r, pc),
             Oblig(r) \in consumed'[r], consumed[r] \subseteq consumed'[r]
      PROVE  Binding(r)'
  <2>1. job'[r].pc = pc /\ job'[r].step = t
    BY <1>3, <1>8 DEF Goto, Carry, Jobs
  <2>2. Oblig(r)' = Oblig(r)
    BY <1>8, <2>1 DEF Oblig
  <2>3. /\ pc \notin Unclaimed /\ pc # "putBefore" /\ s.status # "REPLAN_REQUIRED"
        /\ s.steps[t] = "EXECUTING"
    BY <1>1, <1>2 DEF Claimed, Unclaimed, Binding
  <2> QED
    BY <1>4, <1>8, <2>1, <2>2, <2>3 DEF Binding, Covered
<1>9. ASSUME NEW pc \in Claimed, UNCHANGED <<session, evidence, consumed>>,
             Goto(r, pc) \/ Carry(r, pc), job[r].pc \in Claimed
      PROVE  Binding(r)'
  BY <1>8, <1>9 DEF Binding
<1>10. CASE Claim(r)
  <2>1. CASE /\ consumed' = [consumed EXCEPT ![r] = @ \cup {Oblig(r)}]
             /\ Goto(r, "create") /\ UNCHANGED <<session, evidence>>
    <3>1. consumed'[r] = consumed[r] \cup {Oblig(r)}
      BY <1>3, <2>1
    <3> QED
      BY <1>8, <2>1, <3>1 DEF Claimed
  <2> QED
    BY <1>7, <1>10, <2>1 DEF Claim
<1>11. CASE Create(r)
  <2>1. job[r].pc \in Claimed /\ UNCHANGED consumed
    BY <1>11 DEF Create, At, Claimed, UnchangedByExecutor
  <2> QED
    BY <1>7, <1>9, <1>11, <2>1 DEF Create, Claimed
<1>12. CASE Authorize(r)
  <2>1. job[r].pc \in Claimed /\ UNCHANGED consumed
    BY <1>12 DEF Authorize, At, Claimed, UnchangedByExecutor
  <2> QED
    BY <1>7, <1>9, <1>12, <2>1 DEF Authorize, RecordsFailed, Claimed
<1>13. CASE Dispatch(r)
  <2>1. job[r].pc \in Claimed /\ UNCHANGED consumed
    BY <1>13 DEF Dispatch, At, Claimed, UnchangedByExecutor
  <2> QED
    BY <1>7, <1>9, <1>13, <2>1 DEF Dispatch, RecordsFailed, Claimed
<1>14. CASE Send(r)
  BY <1>9, <1>14 DEF Send, At, Claimed
<1>15. CASE Respond(r)
  <2>1. job[r].pc \in Claimed /\ UNCHANGED consumed
    BY <1>15 DEF Respond, Claimed
  <2> QED
    BY <1>7, <1>9, <1>15, <2>1 DEF Respond, Escapes, Claimed
<1>16. CASE Verify(r)
  <2>1. job[r].pc \in Claimed /\ UNCHANGED consumed
    BY <1>16 DEF Verify, At, Claimed
  <2>2. CASE /\ evidence' = Keep(r, ledger'[Oblig(r)].state, TRUE)
             /\ Finish(r, Verified(s, t), evidence'[r])
    BY <1>5, <1>6, <2>1, <2>2
  <2> QED
    BY <1>7, <1>9, <1>16, <2>1, <2>2 DEF Verify, Escapes, Claimed
<1>17. CASE Unknown(r)
  <2>1. job[r].pc \in Claimed /\ UNCHANGED consumed
    BY <1>17 DEF Unknown, At, Claimed, UnchangedByExecutor
  <2> QED
    BY <1>7, <1>17, <2>1 DEF Unknown
<1> QED
  BY <1>10, <1>11, <1>12, <1>13, <1>14, <1>15, <1>16, <1>17 DEF Execute

LEMMA StoreBinding ==
    ASSUME SInv, NEW r \in Runtimes, Binding(r),
           \/ Put(r) \/ PutFails(r) \/ Withdraw(r) \/ AskPlanner(r) \/ Replan(r)
           \/ Crash(r)
    PROVE  Binding(r)'
<1> DEFINE s == session[r]
<1>1. /\ TypeOK /\ s \in Sessions
      /\ {"put", "idle", "planning", "down"} \cap Working = {}
      /\ session \in [Runtimes -> Sessions] /\ job \in [Runtimes -> Jobs]
      /\ evidence \in [Runtimes -> Evidences]
      /\ consumed \in [Runtimes -> SUBSET Obligations]
      /\ AtRest.pc = "idle" /\ Down.pc = "down"
  BY WorkShapes DEF SInv, BInv, IInv, Working, AtRest, Down
<1>2. Blank(s, evidence[r]) /\ Covered(evidence[r], consumed[r])
  BY DEF Binding
<1>3. CASE Put(r) \/ PutFails(r)
  <2> DEFINE j == [AtRest EXCEPT !.pc = "claim", !.step = job[r].step]
  <2>1. j.pc = "claim" /\ j.step = job[r].step
    BY DEF AtRest
  <2>2. /\ UNCHANGED <<session, evidence, consumed>>
        /\ job'[r] = AtRest \/ (job[r].pc = "putBefore" /\ job'[r] = j)
    BY <1>1, <1>3 DEF Put, PutFails
  <2> HIDE DEF j
  <2>3. CASE job'[r] = AtRest
    BY <1>1, <1>2, <2>2, <2>3, RestBinding
  <2>4. CASE job[r].pc = "putBefore" /\ job'[r] = j
    <3>1. Oblig(r)' = Oblig(r)
      BY <2>1, <2>2, <2>4 DEF Oblig
    <3> QED
      BY <2>1, <2>2, <2>4, <3>1
         DEF Binding, Unclaimed, Claiming, Claimed, Working
  <2> QED
    BY <2>2, <2>3, <2>4
<1>4. CASE Cancel(r)
  <2> DEFINE n == CancelledSession(s)
  <2>1. /\ session'[r] = n /\ job' = job /\ UNCHANGED <<evidence, consumed>>
    BY <1>1, <1>4 DEF Cancel
  <2>2. /\ n.rev = s.rev /\ n.status = "CANCELLED"
        /\ \A t \in Steps : n.steps[t] = "EXECUTING" <=> s.steps[t] = "EXECUTING"
    BY <1>1 DEF CancelledSession, Sessions, Cancellable
  <2> HIDE DEF n
  <2>3. Oblig(r)' = Oblig(r)
    BY <2>1, <2>2 DEF Oblig
  <2>4. job[r].pc \in Claiming \cup {"putBefore"} => job[r].step \in Steps
    BY <1>1 DEF SInv, BInv, IInv, StepKnown, Claiming, Claimed, Working
  <2>5. Blank(n, evidence[r])
    BY <1>2, <2>2 DEF Blank
  <2> QED
    BY <1>2, <2>1, <2>2, <2>3, <2>4, <2>5 DEF Binding
<1>5. CASE Replan(r)
  <2> DEFINE later == [s EXCEPT !.rev = @ + 1, !.status = "READY", !.failed = 0,
                 !.steps = [t \in Steps |->
                     IF s.steps[t] \in {Absent, "VERIFIED"} THEN Absent
                     ELSE "PENDING"]]
             failed == [s EXCEPT !.status = "FAILED"]
             blocked == [s EXCEPT !.status = "BLOCKED"]
  <2>1. PICK n \in {failed, blocked, later} :
            /\ session' = [session EXCEPT ![r] = n]
            /\ job' = [job EXCEPT ![r] =
                   Saving(n, evidence[r], Owns(r, n), "put", 0)]
    BY <1>5 DEF Replan
  <2>2. /\ UNCHANGED <<evidence, consumed>>
        /\ session'[r] = n /\ job'[r].pc \in {"put", "idle"}
    BY <1>1, <1>5, <2>1 DEF Replan, UnchangedByCalls, Saving, AtRest
  <2>3. \A t \in Steps : later.steps[t] # "EXECUTING"
    BY <1>1 DEF Sessions, Absent
  <2>4. /\ failed.rev = s.rev /\ failed.steps = s.steps
        /\ blocked.rev = s.rev /\ blocked.steps = s.steps
    BY <1>1 DEF Sessions
  <2> HIDE DEF later, failed, blocked
  <2>5. Blank(n, evidence[r])
    BY <1>2, <2>1, <2>3, <2>4 DEF Blank
  <2> QED
    BY <1>1, <1>2, <2>2, <2>5, RestBinding
<1>6. CASE Crash(r)
  <2>1. /\ job'[r].pc = "down" /\ session'[r] = NoSession
        /\ evidence'[r] = [o \in Obligations |-> NoEvidence]
    BY <1>1, <1>6 DEF Crash
  <2>2. /\ Blank(NoSession, evidence'[r]) /\ Covered(evidence'[r], consumed'[r])
    BY <2>1 DEF Blank, Covered, NoSession, NoEvidence, Absent
  <2> QED
    BY <1>1, <2>1, <2>2, RestBinding
<1>7. CASE CancelPut(r) \/ CancelPutFails(r)
  <2>1. UNCHANGED <<session, job, evidence, consumed>>
    BY <1>7 DEF CancelPut, CancelPutFails
  <2> QED
    BY <2>1 DEF Binding, Oblig
<1>8. CASE AskPlanner(r)
  <2>1. /\ UNCHANGED <<session, evidence, consumed>>
        /\ job'[r].pc = "planning"
    BY <1>1, <1>8 DEF AskPlanner, UnchangedByCalls, AtRest
  <2> QED
    BY <1>1, <1>2, <2>1, RestBinding
<1> QED
  BY <1>3, <1>4, <1>5, <1>6, <1>7, <1>8 DEF Withdraw

LEMMA RecoverBinding ==
    ASSUME SInv, NEW r \in Runtimes, Binding(r), Recover(r)
    PROVE  Binding(r)'
<1>1. /\ TypeOK /\ job \in [Runtimes -> Jobs] /\ session \in [Runtimes -> Sessions]
      /\ {"put", "idle", "acquire", "reconcile", "decide"} \cap Working = {}
      /\ UNCHANGED <<evidence, consumed>> /\ AtRest.pc = "idle"
  BY WorkShapes DEF SInv, BInv, IInv, Working, AtRest, Recover, RecoverRead,
     Acquire, Reconcile, Decide, UnchangedByCalls
<1>2. Blank(session[r], evidence[r]) /\ Covered(evidence[r], consumed[r])
  BY DEF Binding
<1>3. ASSUME UNCHANGED session, job'[r].pc \notin Working
      PROVE  Binding(r)'
  BY <1>1, <1>2, <1>3, RestBinding
<1>4. GiveUp(r) => job'[r].pc = "idle"
  BY <1>1 DEF GiveUp
<1>5. CASE RecoverRead(r)
  <2>1. job'[r].pc = "acquire" /\ UNCHANGED session
    BY <1>1, <1>5 DEF RecoverRead, AtRest
  <2> QED
    BY <1>1, <1>3, <2>1
<1>6. CASE Acquire(r)
  <2>1. job'[r].pc \in {"idle", "reconcile"} /\ UNCHANGED session
    BY <1>1, <1>4, <1>6 DEF Acquire, Jobs
  <2> QED
    BY <1>1, <1>3, <2>1
<1>7. CASE Reconcile(r)
  <2>1. job'[r].pc \in {"idle", "decide"} /\ UNCHANGED session
    BY <1>1, <1>4, <1>7 DEF Reconcile, Goto, Jobs
  <2> QED
    BY <1>1, <1>3, <2>1
<1>8. CASE Decide(r)
  <2>1. ASSUME NEW n, Install(r, n), \A t \in Steps : n.steps[t] # "EXECUTING"
        PROVE  Binding(r)'
    <3>1. session'[r] = n /\ job'[r].pc \in {"put", "idle"}
      BY <1>1, <2>1 DEF Install, Saving, AtRest
    <3> QED
      BY <1>1, <1>2, <2>1, <3>1, RestBinding DEF Blank
  <2> QED
    BY <1>1, <1>3, <1>4, <1>8, <2>1, DecideRestores
<1> QED
  BY <1>5, <1>6, <1>7, <1>8 DEF Recover

LEMMA NextBinding ==
    ASSUME SInv, NEW r \in Runtimes, StepPlanned(r), Binding(r), Acts(r) \/ Puts(r)
    PROVE  Binding(r)'
  BY RunBinding, ExecuteBinding, StoreBinding, RecoverBinding DEF Acts, Puts

-----------------------------------------------------------------------------
(* What is still needed. While a runtime works on a step alone, the          *)
(* checkpoint shows the step EXECUTING, and so does every view that was read *)
(* since the step began; such a view has no verdict.                         *)

Displayed(r) ==
    job[r].pc \in Claiming /\ ~Disturbed =>
        /\ checkpoint.on => Shows(checkpoint, Oblig(r))
        /\ client.view.on /\ ~client.outdated =>
               /\ client.pc \notin {"permit", "erase"}
               /\ Shows(client.view, Oblig(r))

\* What cleanup has made sure of, and what of it may have changed since.
Cleared ==
    client.pc \in {"permit", "erase"} /\ client.view.on =>
        \A t \in Planned(client.view) :
            /\ client.view.steps[t].state # "EXECUTING"
            /\ \/ LedgerOf(client.view, t) \in {NotCreated, "VERIFIED", "FAILED"}
               \/ /\ client.view.status = "CANCELLED"
                  /\ \/ Disturbed \/ client.outdated
                     \/ LedgerOf(client.view, t) \notin Ambiguous

WInv ==
    /\ RInv
    /\ \A r \in Runtimes :
        /\ Binding(r) /\ Displayed(r)
        /\ job[r].pc \in Shelving \cup Recovering => NoRef(job[r].view)
        /\ cancelling[r].on => NoRef(cancelling[r])
    /\ NoRef(checkpoint) /\ (client.view.on => NoRef(client.view))
    /\ Cleared

\* A step that is under way is recorded without a reference.
LEMMA FromSessionNoRef ==
    ASSUME NEW s, NEW own, Blank(s, own)
    PROVE  NoRef(FromSession(s, own))
<1> SUFFICES ASSUME NEW t \in Steps,
                    FromSession(s, own).steps[t].state = "EXECUTING"
             PROVE  FromSession(s, own).steps[t].ref = 0
  BY DEF NoRef
<1>1. FromSession(s, own).steps[t]
          = IF t \in InPlan(s) THEN StepRecord(s, own[<<s.rev, t>>], t)
            ELSE AbsentRecord
  BY DEF FromSession
<1>2. CASE t \in InPlan(s)
  <2>1. StepRecord(s, own[<<s.rev, t>>], t).state = "EXECUTING"
    BY <1>1, <1>2
  <2>2. s.steps[t] = "EXECUTING"
    BY <2>1 DEF StepRecord
  <2>3. own[<<s.rev, t>>].state = NotCreated
    BY <2>2 DEF Blank
  <2> QED
    BY <1>1, <1>2, <2>2, <2>3 DEF StepRecord, NeedsEvidence
<1>3. CASE t \notin InPlan(s)
  BY <1>1, <1>3 DEF AbsentRecord, Absent
<1> QED
  BY <1>2, <1>3

LEMMA EmptyNoRef == NoRef(NoCheckpoint)
  BY DEF NoRef, NoCheckpoint, AbsentRecord, Absent

\* A view is a record of the session, the checkpoint, or what it was.
LEMMA ViewsNoRef ==
    ASSUME SInv, NEW r \in Runtimes, StepPlanned(r), Binding(r)', Acts(r) \/ Puts(r),
           job[r].pc \in Shelving \cup Recovering => NoRef(job[r].view),
           cancelling[r].on => NoRef(cancelling[r]), NoRef(checkpoint)
    PROVE  /\ job'[r].pc \in Shelving \cup Recovering => NoRef(job'[r].view)
           /\ cancelling'[r].on => NoRef(cancelling'[r])
           /\ NoRef(checkpoint')
<1>1. Flow(r)
  BY NextFlow
<1>2. NoRef(FromSession(session'[r], evidence'[r]))
  BY FromSessionNoRef DEF Binding
<1> QED
  BY <1>1, <1>2 DEF Flow, CheckpointFlow, ViewFlow, CancelFlow

\* Only a put begins to claim; a call that claims goes on with its step.
LEMMA ClaimGoesOn ==
    ASSUME SInv, NEW r \in Runtimes, Acts(r), job'[r].pc \in Claiming
    PROVE  job[r].pc \in Claiming /\ Oblig(r)' = Oblig(r)
<1>1. /\ TypeOK /\ job \in [Runtimes -> Jobs] /\ session \in [Runtimes -> Sessions]
      /\ session[r] \in Sessions
      /\ {"idle", "down", "risked", "put", "putBefore", "planning", "acquire",
          "reconcile", "decide"} \cap Claiming = {}
  BY WorkShapes DEF SInv, BInv, IInv, Claiming, Claimed
<1>2. ASSUME NEW s, NEW own, NEW allowed, NEW next \in Shelving, NEW t
      PROVE  Saving(s, own, allowed, next, t).pc \notin Claiming
  BY <1>1 DEF Saving, AtRest, Shelving
<1>3. ASSUME NEW n, NEW own, Finish(r, n, own)
      PROVE  FALSE
  BY <1>1, <1>2, <1>3 DEF Finish, Shelving
<1>4. ASSUME NEW own,
             EndRecoverable(r, own) \/ EndFinal(r, own) \/ EndUnknown(r, own)
      PROVE  FALSE
  BY <1>3, <1>4 DEF EndRecoverable, EndFinal, EndUnknown
<1>5. ASSUME NEW pc, Goto(r, pc) \/ Carry(r, pc), UNCHANGED session
      PROVE  Oblig(r)' = Oblig(r) /\ job'[r].pc = pc
  BY <1>1, <1>5 DEF Goto, Carry, Jobs, Oblig
<1>6. CASE Run(r)
  <2>1. CASE RunFenced(r)
    BY <1>1, <2>1 DEF RunFenced, MayCall, AtRest
  <2>2. CASE RunRefused(r) \/ RunNothing(r) \/ RunUnbound(r) \/ RunUnauthorized(r)
    BY <1>3, <2>2 DEF RunRefused, RunNothing, RunUnbound, RunUnauthorized
  <2>3. CASE RunAllowed(r) \/ RunLosesLease(r)
    <3>1. \/ job'[r] = AtRest
          \/ \E t : job'[r] = [AtRest EXCEPT !.pc = "risked", !.step = t]
      BY <1>1, <2>3 DEF RunAllowed, RunLosesLease
    <3>2. /\ AtRest.pc = "idle"
          /\ \A t : [AtRest EXCEPT !.pc = "risked", !.step = t].pc = "risked"
      BY DEF AtRest
    <3> QED
      BY <1>1, <3>1, <3>2
  <2>4. CASE BeforeExecution(r)
    <3>1. \E s, own, allowed, t : job'[r] = Saving(s, own, allowed, "putBefore", t)
      BY <1>1, <2>4 DEF BeforeExecution
    <3> QED
      BY <1>2, <3>1 DEF Shelving
  <2> QED
    BY <1>6, <2>1, <2>2, <2>3, <2>4 DEF Run
<1>7. CASE Claim(r) \/ Create(r) \/ Authorize(r) \/ Dispatch(r)
  BY <1>4, <1>5, <1>7 DEF Claim, Create, Authorize, Dispatch, RecordsFailed, At,
                          Claiming, Claimed
<1>8. CASE Send(r) \/ Respond(r) \/ Verify(r) \/ Unknown(r)
  BY <1>3, <1>4, <1>5, <1>8 DEF Send, Respond, Verify, Unknown, Escapes, At,
                                Claiming, Claimed
<1>9. CASE PutFails(r) \/ Crash(r) \/ AskPlanner(r)
  BY <1>1, <1>9 DEF PutFails, Crash, AskPlanner, AtRest, Down
<1>13. CASE CancelPut(r) \/ CancelPutFails(r)
  BY <1>13 DEF CancelPut, CancelPutFails, Oblig
<1>10. CASE Cancel(r)
  <2>1. job' = job /\ session'[r] = CancelledSession(session[r])
    BY <1>1, <1>10 DEF Cancel
  <2>2. CancelledSession(session[r]).rev = session[r].rev
    BY <1>1 DEF CancelledSession, Sessions
  <2> QED
    BY <2>1, <2>2 DEF Oblig
<1>11. CASE Replan(r)
  <2>1. PICK n : job' = [job EXCEPT ![r] =
                       Saving(n, evidence[r], Owns(r, n), "put", 0)]
    BY <1>11 DEF Replan
  <2> QED
    BY <1>1, <1>2, <2>1 DEF Shelving
<1>12. CASE Recover(r)
  <2>1. GiveUp(r) => job'[r].pc = "idle"
    BY <1>1 DEF GiveUp, AtRest
  <2>2. CASE RecoverRead(r) \/ Acquire(r) \/ Reconcile(r)
    <3>1. RecoverRead(r) => job'[r].pc = "acquire"
      BY <1>1 DEF RecoverRead, AtRest
    <3>2. Acquire(r) => job'[r].pc \in {"idle", "reconcile"}
      BY <1>1, <2>1 DEF Acquire, Jobs
    <3>3. Reconcile(r) => job'[r].pc \in {"idle", "decide"}
      BY <1>1, <2>1 DEF Reconcile, Goto, Jobs
    <3> QED
      BY <1>1, <2>2, <3>1, <3>2, <3>3
  <2>3. CASE Decide(r)
    <3>1. \E n : Install(r, n) \/ GiveUp(r)
      BY <1>1, <2>3, DecideRestores
    <3> QED
      BY <1>1, <1>2, <2>1, <3>1 DEF Install, Shelving
  <2> QED
    BY <1>12, <2>2, <2>3 DEF Recover
<1> QED
  BY <1>6, <1>7, <1>8, <1>9, <1>10, <1>11, <1>12, <1>13 DEF Acts, Withdraw, Execute

\* As long as nobody overlaps, the others do nothing to a runtime's stores.
LEMMA NobodyElse ==
    ASSUME SInv, NEW r \in Runtimes, Acts(r) \/ Puts(r), ~history'.overlap
    PROVE  /\ ~history.overlap /\ (history.late => history'.late)
           /\ \A q \in Runtimes \ {r} :
                  Involved(q) => UNCHANGED <<ledger, checkpoint>> /\ ~Involved(r)
<1>1. TypeOK /\ history \in Histories
  BY WorkShapes DEF SInv, BInv, IInv
<1>2. /\ history'.overlap = history.overlap \/ RecoverRead(r)
      /\ history.late => history'.late
  BY <1>1 DEF Acts, Run, RunFenced, RunRefused, RunNothing, RunUnbound,
     RunUnauthorized, RunAllowed, RunLosesLease, BeforeExecution,
     UnchangedByCalls, Execute, Claim, Create, Authorize, Dispatch, Send,
     Respond, Verify, Unknown, Escapes, UnchangedByExecutor, Puts, Put, PutFails,
     Withdraw, Cancel, CancelPut, CancelPutFails, AskPlanner, Replan, Crash,
     Recover, RecoverRead, Acquire, Reconcile, Decide, Histories
<1>3. ASSUME RecoverRead(r)
      PROVE  ~history.overlap /\ \A q \in Runtimes \ {r} : ~Involved(q)
  BY <1>1, <1>3 DEF RecoverRead, Histories
<1>4. ASSUME ~RecoverRead(r), NEW q \in Runtimes \ {r}, Involved(q)
      PROVE  UNCHANGED <<ledger, checkpoint>> /\ ~Involved(r)
  <2>1. ~Involved(r)
    BY <1>2, <1>4 DEF SInv, Alone
  <2>2. ~CancelPut(r) /\ ~CancelPutFails(r)
    BY <2>1 DEF CancelPut, CancelPutFails, SInv, HasSession, Involved
  <2>3. Crash(r)
    BY <1>4, <2>1, <2>2, WhoActs DEF Acts, Puts, Withdraw, Recover
  <2> QED
    BY <2>1, <2>3 DEF Crash
<1> QED
  BY <1>2, <1>3, <1>4

\* An entry turns uncertain only under the call that works on it.
LEMMA NewlyAmbiguous ==
    ASSUME BInv, NEW r \in Runtimes, Acts(r) \/ Puts(r), NEW o \in Obligations,
           ledger'[o].state \in Ambiguous, ledger[o].state \notin Ambiguous
    PROVE  job[r].pc \in Claimed /\ o = Oblig(r)
<1>1. TypeOK /\ ledger \in Ledgers
  BY WorkShapes DEF BInv, IInv
<1>2. \A target : MoveSucceeds(Oblig(r), target) \/ MoveFails(Oblig(r), target)
          => o = Oblig(r)
  BY <1>1 DEF MoveSucceeds, MoveFails, Ledgers
<1>3. ledger' # ledger
  OBVIOUS
<1>4. CASE Create(r)
  BY <1>1, <1>3, <1>4 DEF Create, At, Claimed, Ledgers
<1>5. CASE Authorize(r) \/ Dispatch(r)
  BY <1>2, <1>5 DEF Authorize, Dispatch, RecordsFailed, At, Claimed
<1>6. CASE Respond(r) \/ Verify(r) \/ Unknown(r)
  BY <1>2, <1>3, <1>6 DEF Respond, Verify, Unknown, Escapes, At, Claimed
<1>7. CASE Reconcile(r)
  BY <1>3, <1>7 DEF Reconcile, Ambiguous
<1>8. CASE Claim(r) \/ Send(r) \/ RecoverRead(r) \/ Acquire(r) \/ Decide(r)
  BY <1>3, <1>8 DEF Claim, Send, RecoverRead, Acquire, Decide, UnchangedByCalls
<1>9. CASE \/ Run(r) \/ Put(r) \/ PutFails(r) \/ Withdraw(r) \/ AskPlanner(r)
           \/ Replan(r) \/ Crash(r)
  BY <1>3, <1>9 DEF Run, RunFenced, RunRefused, RunNothing, RunUnbound,
     RunUnauthorized, RunAllowed, RunLosesLease, BeforeExecution,
     UnchangedByCalls, Put, PutFails, Withdraw, Cancel, CancelPut, CancelPutFails,
     AskPlanner, Replan, Crash
<1> QED
  BY <1>4, <1>5, <1>6, <1>7, <1>8, <1>9 DEF Acts, Puts, Execute, Recover

\* What a call does to what it has read.
LEMMA CallViews ==
    ASSUME CallBase, Call
    PROVE  \/ ~client'.view.on
           \/ client'.pc = "ledger" /\ client'.view = checkpoint
           \/ /\ client'.view = client.view /\ client'.outdated = client.outdated
              /\ \/ client'.pc = "erase" /\ client.pc = "permit"
                 \/ /\ client'.pc = "permit"
                    /\ CheckpointVerdict(client.view, client.owned, client.by)
                           # "NONE"
<1>1. client \in Calls
  BY DEF CallBase, LifecycleTypeOK
<1>2. /\ ~NoCall.view.on /\ NoCall.pc = "none" /\ ~NoCheckpoint.on
  BY DEF NoCall, NoCheckpoint
<1>3. \A record : Settling(record) => ~client'.view.on /\ client'.pc = "settle"
  BY <1>2 DEF Settling, NoCall
<1>4. CASE Judge
  <2> DEFINE verdict == CheckpointVerdict(client.view, client.owned, client.by)
             again == [client EXCEPT !.pc = "artifacts", !.sure = TRUE,
                                     !.view = NoCheckpoint, !.owned = NoLease]
             agreed == client.view.on /\ verdict = client.seen.class
             asks == [client EXCEPT !.pc = "permit", !.sure = agreed]
             removes == [client EXCEPT !.pc = "erase", !.sure = FALSE]
  <2>1. /\ again.pc = "artifacts" /\ again.view = NoCheckpoint
        /\ asks.pc = "permit" /\ asks.view = client.view
        /\ asks.outdated = client.outdated
        /\ removes.view = client.view
    BY <1>1 DEF Calls
  <2>2. \/ \E record : Settling(record)
        \/ client' = again
        \/ client' = asks /\ verdict # "NONE"
        \/ client' = removes /\ ~client.view.on
    BY <1>4 DEF Judge, Conclusive
  <2> HIDE DEF verdict, again, asks, removes
  <2> QED
    BY <1>2, <1>3, <2>1, <2>2 DEF verdict
<1>5. CASE Erase
  BY <1>2, <1>3, <1>5 DEF Erase, EraseNow, ClientEnds
<1>6. ASSUME NEW r, NEW op, Open(r, op)
      PROVE  ~client'.view.on
  <2> DEFINE n == [NoCall EXCEPT
                       !.pc = IF life.on THEN "artifacts" ELSE "birth",
                       !.op = op, !.by = r, !.seen = life]
  <2>1. client' = n
    BY <1>6 DEF Open
  <2>2. n.view = NoCheckpoint
    BY DEF NoCall
  <2> QED
    BY <1>2, <2>1, <2>2
<1>7. CASE Birth
  <2> DEFINE rev == IF checkpoint.on THEN checkpoint.rev ELSE session[client.by].rev
             n == [client EXCEPT !.pc = "register", !.seen = ActiveFor(rev)]
  <2>1. client' \in {NoCall, n} /\ client.pc = "birth"
    BY <1>7 DEF Birth, ClientEnds, AtClient
  <2>2. n.view = client.view /\ n.pc = "register"
    BY <1>1 DEF Calls
  <2>3. ~client.view.on
    BY <2>1 DEF CallBase, CallSound
  <2> HIDE DEF n
  <2> QED
    BY <1>2, <2>1, <2>2, <2>3
<1>8. CASE Register
  <2>1. client'.pc = "artifacts" /\ client'.view = client.view
        /\ client.pc = "register"
    BY <1>1, <1>8 DEF Register, AtClient, Calls
  <2> QED
    BY <2>1 DEF CallBase, CallSound
<1>9. CASE Artifacts
  BY <1>1, <1>9 DEF Artifacts, Calls
<1>10. CASE Permit
  <2>1. \/ client' = NoCall
        \/ client' = [client EXCEPT !.pc = "erase"] /\ client.pc = "permit"
    BY <1>10 DEF Permit, AtClient, ClientEnds
  <2>2. LET n == [client EXCEPT !.pc = "erase"]
        IN  n.pc = "erase" /\ n.view = client.view /\ n.outdated = client.outdated
    BY <1>1 DEF Calls
  <2> QED
    BY <1>2, <2>1, <2>2
<1>11. CASE Settle \/ Abandon
  BY <1>2, <1>11 DEF Settle, Abandon, ClientEnds
<1> QED
  BY <1>4, <1>5, <1>6, <1>7, <1>8, <1>9, <1>10, <1>11 DEF Call

\* A verdict rests on a view with nothing under way and nothing in doubt.
LEMMA VerdictClears ==
    ASSUME NEW c, NEW l, NEW r, NoRef(c), CheckpointVerdict(c, l, r) # "NONE"
    PROVE  \A t \in Planned(c) :
               /\ c.steps[t].state # "EXECUTING"
               /\ \/ LedgerOf(c, t) \in {NotCreated, "VERIFIED", "FAILED"}
                  \/ /\ c.status = "CANCELLED"
                     /\ LedgerOf(c, t) \notin Ambiguous
<1> TAKE t \in Planned(c)
<1>1. t \in Steps
  BY DEF Planned
<1>2. c.steps[t].state # "EXECUTING"
  <2>1. CASE t \in Referring(c)
    BY <1>1, <2>1 DEF NoRef, Referring
  <2>2. CASE t \notin Referring(c)
    BY <2>2, VerdictFacts DEF OrphanCheckpoint
  <2> QED
    BY <2>1, <2>2
<1>3. /\ ~UnknownOutcome(c)
      /\ \/ AllStepsVerified(c) \/ AllTerminal(c) \/ c.status = "CANCELLED"
  BY VerdictFacts
<1>4. CASE t \in Referring(c)
  <2>1. LedgerOf(c, t) \notin Ambiguous
    BY <1>3, <1>4 DEF UnknownOutcome
  <2>2. \/ LedgerOf(c, t) \in {"VERIFIED", "FAILED"}
        \/ c.status = "CANCELLED"
    BY <1>3, <1>4 DEF AllStepsVerified, AllTerminal
  <2> QED
    BY <1>2, <2>1, <2>2
<1>5. CASE t \notin Referring(c)
  <2>1. LedgerOf(c, t) = NotCreated
    BY <1>5 DEF Referring, LedgerOf
  <2> QED
    BY <1>2, <2>1
<1> QED
  BY <1>4, <1>5

\* Every step of the view refers to an obligation the ledger knows, or to none.
LEMMA ViewedOblig ==
    ASSUME TypeOK, NEW c \in Checkpoints, NEW t \in Steps, c.steps[t].ref # 0
    PROVE  /\ <<c.steps[t].ref, t>> \in Obligations
           /\ LedgerOf(c, t) = ledger[<<c.steps[t].ref, t>>].state
           /\ LedgerOf(c, t) # NotCreated
<1>1. c.steps[t].ref \in Revisions
  BY DEF Checkpoints, StepRecords
<1>2. /\ <<c.steps[t].ref, t>> \in Obligations
      /\ LedgerOf(c, t) = ledger[<<c.steps[t].ref, t>>].state
  BY <1>1 DEF Obligations, LedgerOf
<1>3. ledger[<<c.steps[t].ref, t>>].state \in ObligationStates \cup {"NONE"}
  BY <1>2 DEF TypeOK
<1> QED
  BY <1>2, <1>3 DEF ObligationStates, NotCreated

LEMMA NeededInit == LifecycleInit => WInv
<1> SUFFICES ASSUME LifecycleInit
             PROVE  WInv
  OBVIOUS
<1>1. RInv
  BY SuccessInit
<1>2. /\ client = NoCall /\ checkpoint = NoCheckpoint
      /\ \A r \in Runtimes : session[r] = NoSession /\ job[r] = AtRest
                             /\ cancelling[r] = NoCheckpoint
                             /\ evidence[r] = [o \in Obligations |-> NoEvidence]
  BY DEF LifecycleInit, Init
<1>3. /\ AtRest.pc = "idle" /\ NoCall.pc = "none" /\ NoCall.view = NoCheckpoint
      /\ "idle" \notin Working \cup Claiming \cup Shelving \cup Recovering
      /\ \A t \in Steps : NoSession.steps[t] # "EXECUTING"
      /\ NoEvidence.state = NotCreated
  BY DEF AtRest, NoCall, Working, Claiming, Claimed, Shelving, Recovering,
         NoSession, Absent, NoEvidence
<1>4. \A r \in Runtimes : Binding(r)
  BY <1>2, <1>3 DEF Binding, Blank, Covered, Claiming, Claimed, Unclaimed, Working
<1> QED
  BY <1>1, <1>2, <1>3, <1>4, EmptyNoRef DEF WInv, Displayed, Cleared

\* A runtime's evidence and its used bindings are its own.
LEMMA OthersKeep ==
    ASSUME TypeOK, NEW r \in Runtimes, Acts(r) \/ Puts(r), NEW q \in Runtimes \ {r}
    PROVE  evidence'[q] = evidence[q] /\ consumed'[q] = consumed[q]
<1>1. /\ evidence \in [Runtimes -> Evidences]
      /\ consumed \in [Runtimes -> SUBSET Obligations]
  BY WorkShapes
<1>2. \A state, verified : Keep(r, state, verified)[q] = evidence[q]
  BY <1>1 DEF Keep
<1>3. CASE Execute(r)
  BY <1>1, <1>2, <1>3
     DEF Execute, Claim, Create, Authorize, Dispatch, RecordsFailed, Send, Respond,
         Verify, Unknown, Escapes, EndRecoverable, EndFinal, EndUnknown,
         UnchangedByExecutor
<1>4. CASE Run(r)
  BY <1>4 DEF Run, RunFenced, RunRefused, RunNothing, RunUnbound,
     RunUnauthorized, RunAllowed, RunLosesLease, BeforeExecution, UnchangedByCalls
<1>5. CASE Crash(r)
  BY <1>1, <1>5 DEF Crash
<1>6. CASE \/ Put(r) \/ PutFails(r) \/ Withdraw(r) \/ AskPlanner(r) \/ Replan(r)
           \/ Recover(r)
  BY <1>6 DEF Put, PutFails, Withdraw, Cancel, CancelPut, CancelPutFails,
     AskPlanner, Replan, Recover, RecoverRead, Acquire, Reconcile, Decide,
     UnchangedByCalls
<1> QED
  BY <1>3, <1>4, <1>5, <1>6 DEF Acts, Puts

\* What a step of a runtime does to the call that works on the record.
LEMMA TaskClient ==
    ASSUME CallBase, TaskStep
    PROVE  /\ client'.pc \in {client.pc, "none"}
           /\ client'.view.on => /\ client'.view = client.view
                                 /\ client'.pc = client.pc
                                 /\ client.outdated =>
                                        client'.outdated \/ history'.late
           /\ client'.pc # "none" => client'.view = client.view
<1>1. client \in Calls /\ NoCall.pc = "none" /\ ~NoCall.view.on
  BY EmptyTyped DEF CallBase, LifecycleTypeOK
<1>2. ASSUME NEW r \in Runtimes, PutAndCount(r)
      PROVE  /\ client'.pc = client.pc /\ client'.view = client.view
             /\ client'.outdated = (client.outdated \/ (client.view.on /\ job[r].pc = "putBefore"))
  BY <1>1, <1>2 DEF PutAndCount, Calls
<1>3. ASSUME NEW r \in Runtimes, CancelPutAndCount(r)
      PROVE  /\ client'.pc = client.pc /\ client'.view = client.view
             /\ client.outdated => client'.outdated \/ history'.late
  BY <1>1, <1>3 DEF CancelPutAndCount, Calls
<1> QED
  BY <1>1, <1>2, <1>3, TaskCases

\* A cancellation that is put in time leaves the call alone.
LEMMA InTimeKeeps ==
    ASSUME CallBase, NEW r \in Runtimes, CancelPutAndCount(r), ~history'.late
    PROVE  client' = client
<1>1. client \in Calls
  BY DEF CallBase, LifecycleTypeOK
<1> QED
  BY <1>1 DEF CancelPutAndCount, Calls

\* A checkpoint is never taken away by the task itself.
LEMMA TaskRetains ==
    ASSUME SInv, \A r \in Runtimes : StepPlanned(r), TaskStep, checkpoint.on
    PROVE  checkpoint'.on
<1>1. ASSUME NEW r \in Runtimes, Acts(r) \/ Puts(r)
      PROVE  checkpoint'.on
  <2>1. CheckpointFlow(r) /\ ViewShown(r)
    BY <1>1, NextFlow DEF Flow, SInv
  <2> QED
    BY <2>1, FromSessionPlan DEF CheckpointFlow, ViewShown, Shelving
<1>2. CASE Admit
  BY <1>2 DEF Admit
<1>3. CASE ExpireLease
  BY <1>3 DEF ExpireLease
<1> QED
  BY <1>1, <1>2, <1>3, TaskCases

\* The runtime that acts: what it works on stays on display.
LEMMA ActingDisplay ==
    ASSUME WInv, NEW r \in Runtimes, Binding(r)', Acts(r),
           ~history'.late => client' \in {client, NoCall}
    PROVE  Displayed(r)'
<1> SUFFICES ASSUME job'[r].pc \in Claiming, ~history'.overlap, ~history'.late
             PROVE  /\ checkpoint'.on => Shows(checkpoint', Oblig(r)')
                    /\ client'.view.on /\ ~client'.outdated =>
                           /\ client'.pc \notin {"permit", "erase"}
                           /\ Shows(client'.view, Oblig(r)')
  BY DEF Displayed, Shows, Disturbed
<1>1. SInv /\ StepPlanned(r) /\ Displayed(r)
  BY DEF WInv, RInv, LBase, HInv, Planning
<1>2. job[r].pc \in Claiming /\ Oblig(r)' = Oblig(r) /\ ~Disturbed
  BY <1>1, ClaimGoesOn, NobodyElse DEF Disturbed
<1>3. /\ checkpoint.on => Shows(checkpoint, Oblig(r))
      /\ client.view.on /\ ~client.outdated =>
             client.pc \notin {"permit", "erase"} /\ Shows(client.view, Oblig(r))
  BY <1>1, <1>2 DEF Displayed
<1>4. CheckpointFlow(r)
  BY <1>1, NextFlow DEF Flow
<1>5. CASE checkpoint' = checkpoint
  BY <1>2, <1>3, <1>5, EmptyTyped
<1>6. CASE checkpoint' = FromSession(session'[r], evidence'[r])
  <2>1. /\ session'[r].steps[job'[r].step] = "EXECUTING"
        /\ job'[r].step \in Steps
    BY <1>1, <1>2
       DEF Binding, Oblig, SInv, BInv, IInv, StepKnown, Claiming, Claimed, Working
  <2>2. Shows(checkpoint', Oblig(r)')
    BY <1>6, <2>1, FromSessionStates DEF Shows, Oblig
  <2> QED
    BY <1>2, <1>3, <2>2, EmptyTyped
<1>7. CASE job[r].pc \in Shelving
  BY <1>2, <1>7 DEF Shelving, Claiming, Claimed
<1> QED
  BY <1>4, <1>5, <1>6, <1>7 DEF CheckpointFlow

\* Everyone else: their steps stay on display as long as nobody overlaps.
LEMMA StillDisplay ==
    ASSUME WInv, NEW r \in Runtimes, NEW q \in Runtimes \ {r},
           \/ Acts(r) /\ (~history'.late => client' \in {client, NoCall})
           \/ Puts(r)
    PROVE  Displayed(q)'
<1> SUFFICES ASSUME job'[q].pc \in Claiming, ~history'.overlap, ~history'.late
             PROVE  /\ checkpoint'.on => Shows(checkpoint', Oblig(q)')
                    /\ client'.view.on /\ ~client'.outdated =>
                           /\ client'.pc \notin {"permit", "erase"}
                           /\ Shows(client'.view, Oblig(q)')
  BY DEF Displayed, Shows, Disturbed
<1>1. SInv /\ IInv /\ Displayed(q)
  BY DEF WInv, RInv, LBase, HInv, SInv, BInv
<1>2. job'[q] = job[q] /\ session'[q] = session[q] /\ Oblig(q)' = Oblig(q)
  BY <1>1, NextOthers DEF Others, Oblig
<1>3. session[q].on /\ Involved(q)
  BY <1>1, <1>2
     DEF SInv, HasSession, Involved, Claiming, Claimed, Recovering
<1>4. /\ ~Disturbed /\ checkpoint' = checkpoint /\ ~Involved(r)
  BY <1>1, <1>3, NobodyElse DEF Disturbed
<1>5. ~Puts(r)
  BY <1>1, <1>4, WhoActs DEF Puts
<1>6. /\ checkpoint.on => Shows(checkpoint, Oblig(q))
      /\ client.view.on /\ ~client.outdated =>
             client.pc \notin {"permit", "erase"} /\ Shows(client.view, Oblig(q))
  BY <1>1, <1>2, <1>4 DEF Displayed
<1> QED
  BY <1>2, <1>4, <1>5, <1>6, EmptyTyped

\* After the put the step may be claimed: the checkpoint shows it, and a view
\* that was read before is outdated.
LEMMA PutDisplay ==
    ASSUME WInv, NEW r \in Runtimes, PutAndCount(r)
    PROVE  Displayed(r)'
<1> SUFFICES ASSUME job'[r].pc \in Claiming
             PROVE  /\ Shows(checkpoint', Oblig(r)')
                    /\ client'.view.on => client'.outdated
  BY DEF Displayed, Shows
<1>1. /\ TypeOK /\ job \in [Runtimes -> Jobs] /\ Binding(r)
      /\ client \in Calls /\ AtRest.pc = "idle"
  BY WorkShapes
     DEF WInv, RInv, LBase, HInv, SInv, BInv, IInv, CallBase, LifecycleTypeOK, AtRest
<1> DEFINE j == [AtRest EXCEPT !.pc = "claim", !.step = job[r].step]
<1>2. j.step = job[r].step
  BY DEF AtRest
<1>3. /\ job[r].pc = "putBefore" /\ job'[r] = j /\ UNCHANGED session
      /\ checkpoint' = job[r].view
  BY <1>1 DEF PutAndCount, Put, Claiming, Claimed
<1> HIDE DEF j
<1>4. Oblig(r)' = Oblig(r)
  BY <1>2, <1>3 DEF Oblig
<1>5. Shows(job[r].view, Oblig(r))
  BY <1>1, <1>3 DEF Binding
<1>6. client'.view = client.view /\ (client.view.on => client'.outdated)
  BY <1>1, <1>3 DEF PutAndCount, Calls
<1> QED
  BY <1>3, <1>4, <1>5, <1>6

\* What cleanup has made sure of stays: an entry it names comes into doubt
\* only under a step that is on display, and such a view has no verdict.
LEMMA ClearedStays ==
    ASSUME WInv, TaskStep
    PROVE  Cleared'
<1>1. /\ BInv /\ SInv /\ TypeOK /\ CallBase /\ client.view \in Checkpoints
      /\ history \in Histories /\ \A r \in Runtimes : Displayed(r)
  BY WorkShapes
     DEF WInv, RInv, LBase, HInv, SInv, BInv, IInv, CallBase, LifecycleTypeOK, Calls
<1> SUFFICES ASSUME client'.pc \in {"permit", "erase"},
                    client'.view.on, NEW t \in Planned(client'.view)
             PROVE  /\ client'.view.steps[t].state # "EXECUTING"
                    /\ \/ LedgerOf(client.view, t)' \in {NotCreated, "VERIFIED", "FAILED"}
                       \/ /\ client'.view.status = "CANCELLED"
                          /\ \/ Disturbed' \/ client'.outdated
                             \/ LedgerOf(client.view, t)' \notin Ambiguous
  BY DEF Cleared, LedgerOf, Planned
<1>2. /\ client.pc \in {"permit", "erase"} /\ client'.view = client.view
      /\ client.outdated => client'.outdated \/ Disturbed'
  BY <1>1, TaskClient DEF Disturbed
<1> DEFINE c == client.view
           o == <<c.steps[t].ref, t>>
<1>3. t \in Planned(c) /\ t \in Steps
  BY <1>2 DEF Planned
<1>4. /\ c.steps[t].state # "EXECUTING"
      /\ \/ LedgerOf(c, t) \in {NotCreated, "VERIFIED", "FAILED"}
         \/ /\ c.status = "CANCELLED"
            /\ \/ Disturbed \/ client.outdated
               \/ LedgerOf(c, t) \notin Ambiguous
  BY <1>2, <1>3 DEF WInv, Cleared
<1>5. CASE c.steps[t].ref = 0
  BY <1>2, <1>4, <1>5 DEF LedgerOf
<1>6. CASE c.steps[t].ref # 0
  <2>1. /\ o \in Obligations /\ LedgerOf(c, t) = ledger[o].state
        /\ LedgerOf(c, t) # NotCreated
    BY <1>1, <1>3, <1>6, ViewedOblig
  <2>2. LedgerOf(client.view, t)' = ledger'[o].state
    BY <1>2, <1>6 DEF LedgerOf
  <2>3. UNCHANGED <<ledger, history>> \/ \E r \in Runtimes : Acts(r) \/ Puts(r)
    BY TaskCases DEF Admit, ExpireLease
  <2>4. CASE UNCHANGED <<ledger, history>>
    BY <1>2, <1>4, <2>1, <2>2, <2>4 DEF Disturbed
  <2>5. ASSUME NEW r \in Runtimes, Acts(r) \/ Puts(r)
        PROVE  \/ ledger'[o].state \in {"VERIFIED", "FAILED"}
               \/ /\ c.status = "CANCELLED"
                  /\ \/ Disturbed' \/ client'.outdated
                     \/ ledger'[o].state \notin Ambiguous
    <3>1. Lasting
      BY <1>1, <2>5, ActsLast
    <3>2. CASE ledger[o].state \in {"VERIFIED", "FAILED"}
      BY <2>1, <3>1, <3>2 DEF Lasting, Settled
    <3>3. CASE ~Disturbed' /\ ~client'.outdated /\ ledger'[o].state \in Ambiguous
      <4>1. ~Disturbed /\ ~client.outdated
        BY <1>1, <1>2, <2>5, <3>3, NobodyElse DEF Disturbed
      <4>2. CASE ledger[o].state \notin Ambiguous
        <5>1. job[r].pc \in Claiming
          BY <1>1, <2>1, <2>5, <3>3, <4>2, NewlyAmbiguous DEF Claiming
        <5> QED
          BY <1>1, <1>2, <4>1, <5>1 DEF Displayed
      <4> QED
        BY <1>4, <2>1, <3>2, <4>1, <4>2
    <3> QED
      BY <1>4, <2>1, <3>2, <3>3
  <2> QED
    BY <1>2, <1>4, <2>2, <2>3, <2>4, <2>5
<1> QED
  BY <1>5, <1>6

\* The parts that a new task starts from.
LEMMA AdmitDisplays ==
    ASSUME WInv, Admit, ~life.on, UNCHANGED client
    PROVE  /\ \A r \in Runtimes :
                  /\ Binding(r)' /\ Displayed(r)'
                  /\ job'[r].pc \in Shelving \cup Recovering => NoRef(job'[r].view)
           /\ NoRef(checkpoint')
<1> DEFINE s == [NoSession EXCEPT !.on = TRUE,
                                  !.steps = [t \in Steps |-> "PENDING"]]
<1>1. /\ SInv /\ TypeOK /\ Present /\ session \in [Runtimes -> Sessions]
      /\ First \in Runtimes /\ AtRest.pc = "idle"
  BY WorkShapes, PlanAssumption
     DEF WInv, RInv, LBase, HInv, SInv, BInv, IInv, AtRest
<1>2. /\ session' = [session EXCEPT ![First] = s] /\ job[First] = AtRest
      /\ checkpoint' = FromSession(s, evidence[First])
      /\ UNCHANGED <<job, evidence, consumed, history>> /\ ~checkpoint.on
  BY DEF Admit
<1>3. \A own : Blank(s, own)
  BY DEF Blank
<1> HIDE DEF s
<1>4. NoRef(checkpoint')
  BY <1>2, <1>3, FromSessionNoRef
<1>5. \A r \in Runtimes : ~session[r].on /\ job[r].pc \notin Recovering
  BY <1>1, <1>2 DEF Present, Involved
<1>6. \A r \in Runtimes : job[r].pc \in {"idle", "down"}
  BY <1>1, <1>5 DEF SInv, HasSession
<1>7. ASSUME NEW r \in Runtimes
      PROVE  Binding(r)' /\ Displayed(r)'
  <2>1. job'[r].pc \in {"idle", "down"}
    BY <1>2, <1>6
  <2>2. Blank(session'[r], evidence'[r]) /\ Covered(evidence'[r], consumed'[r])
    BY <1>1, <1>2, <1>3 DEF WInv, Binding
  <2> QED
    BY <2>1, <2>2, RestBinding DEF Displayed, Working, Claiming, Claimed
<1> QED
  BY <1>2, <1>4, <1>7 DEF WInv

LEMMA TaskNeeded ==
    ASSUME WInv, RInv', TaskStep
    PROVE  WInv'
<1>1. /\ SInv /\ IInv /\ TypeOK /\ CallBase
      /\ \A r \in Runtimes :
            /\ Binding(r) /\ Displayed(r) /\ StepPlanned(r)
            /\ job[r].pc \in Shelving \cup Recovering => NoRef(job[r].view)
            /\ cancelling[r].on => NoRef(cancelling[r])
      /\ NoRef(checkpoint)
  BY DEF WInv, RInv, LBase, HInv, SInv, BInv, IInv, Planning
<1>2. client'.view.on => NoRef(client'.view)
  BY <1>1, TaskClient DEF WInv
<1>3. Cleared'
  BY ClearedStays
<1>4. CASE Admit /\ ~life.on /\ UNCHANGED <<cancelling, client>>
  BY <1>1, <1>2, <1>3, <1>4, AdmitDisplays DEF WInv
<1>5. CASE ExpireLease /\ UNCHANGED <<cancelling, client>>
  <2>1. UNCHANGED <<ledger, checkpoint, session, evidence, consumed, job,
                    cancelling, client>>
        /\ history' = history
    BY <1>5 DEF ExpireLease
  <2>2. \A r \in Runtimes : Binding(r)' /\ Displayed(r)'
    BY <1>1, <2>1 DEF Binding, Displayed, Oblig, Disturbed
  <2> QED
    BY <1>1, <1>2, <1>3, <2>1, <2>2 DEF WInv
<1>6. ASSUME NEW r \in Runtimes,
             \/ Acts(r) /\ (~history'.late => client' \in {client, NoCall})
             \/ PutAndCount(r) /\ Puts(r)
      PROVE  WInv'
  <2>1. Acts(r) \/ Puts(r)
    BY <1>6
  <2>2. Binding(r)'
    BY <1>1, <2>1, NextBinding
  <2>3. /\ job'[r].pc \in Shelving \cup Recovering => NoRef(job'[r].view)
        /\ cancelling'[r].on => NoRef(cancelling'[r])
        /\ NoRef(checkpoint')
    BY <1>1, <2>1, <2>2, ViewsNoRef
  <2>4. Displayed(r)'
    BY <1>6, <2>2, ActingDisplay, PutDisplay
  <2>5. ASSUME NEW q \in Runtimes \ {r}
        PROVE  /\ Binding(q)' /\ Displayed(q)'
               /\ job'[q].pc \in Shelving \cup Recovering => NoRef(job'[q].view)
               /\ cancelling'[q].on => NoRef(cancelling'[q])
    <3>1. /\ job'[q] = job[q] /\ session'[q] = session[q]
          /\ evidence'[q] = evidence[q] /\ consumed'[q] = consumed[q]
          /\ cancelling'[q] = cancelling[q]
      BY <1>1, <2>1, NextOthers, OthersKeep DEF Others
    <3>2. Binding(q)'
      BY <1>1, <3>1 DEF Binding, Oblig
    <3>3. Displayed(q)'
      BY <1>6, StillDisplay
    <3> QED
      BY <1>1, <3>1, <3>2, <3>3
  <2> QED
    BY <1>2, <1>3, <2>2, <2>3, <2>4, <2>5 DEF WInv
<1>7. \A r \in Runtimes : CancelPutAndCount(r) /\ ~history'.late => client' = client
  BY <1>1, InTimeKeeps
<1> QED
  BY <1>4, <1>5, <1>6, <1>7, TaskCases

LEMMA CallNeeded ==
    ASSUME WInv, RInv', Call
    PROVE  WInv'
<1>1. /\ CallBase /\ NoRef(checkpoint) /\ (client.view.on => NoRef(client.view))
      /\ \A r \in Runtimes : Binding(r) /\ Displayed(r) /\ StepKnown(r)
  BY DEF WInv, RInv, LBase, HInv, SInv, BInv, IInv
<1>2. /\ UNCHANGED <<ledger, session, evidence, consumed, job, cancelling, history>>
      /\ checkpoint' \in {checkpoint, NoCheckpoint} /\ ~NoCheckpoint.on
  BY CallsErase, EmptyTyped
<1>3. \A r \in Runtimes :
          /\ Binding(r)'
          /\ job'[r].pc \in Shelving \cup Recovering => NoRef(job'[r].view)
          /\ cancelling'[r].on => NoRef(cancelling'[r])
  BY <1>1, <1>2 DEF WInv, Binding, Oblig
<1>4. NoRef(checkpoint') /\ (client'.view.on => NoRef(client'.view))
  BY <1>1, <1>2, CallViews, EmptyNoRef
<1>5. ASSUME client'.pc = "permit",
             CheckpointVerdict(client.view, client.owned, client.by) # "NONE",
             client'.view = client.view
      PROVE  /\ client.view.on
             /\ \A t \in Planned(client.view) :
                    /\ client.view.steps[t].state # "EXECUTING"
                    /\ \/ LedgerOf(client.view, t) \in {NotCreated, "VERIFIED", "FAILED"}
                       \/ /\ client.view.status = "CANCELLED"
                          /\ LedgerOf(client.view, t) \notin Ambiguous
  <2>1. client'.view.on
    BY <1>5 DEF RInv, LBase, CallBase, CallSound
  <2> QED
    BY <1>1, <1>5, <2>1, VerdictClears
<1>6. Cleared'
  <2>1. ASSUME client'.pc = "erase", client.pc = "permit", client'.view = client.view,
               client'.outdated = client.outdated
        PROVE  Cleared'
    BY <1>2, <2>1 DEF WInv, Cleared, LedgerOf, Planned, Disturbed
  <2>2. ASSUME client'.pc = "permit", client'.view = client.view,
               CheckpointVerdict(client.view, client.owned, client.by) # "NONE"
        PROVE  Cleared'
    BY <1>2, <1>5, <2>2 DEF Cleared, LedgerOf, Planned
  <2>3. ~client'.view.on \/ client'.pc \notin {"permit", "erase"} => Cleared'
    BY DEF Cleared
  <2> QED
    BY <1>1, <2>1, <2>2, <2>3, CallViews
<1>7. ASSUME NEW r \in Runtimes
      PROVE  Displayed(r)'
  <2> SUFFICES ASSUME job[r].pc \in Claiming, ~Disturbed
               PROVE  /\ checkpoint'.on => Shows(checkpoint', Oblig(r)')
                      /\ client'.view.on /\ ~client'.outdated =>
                             /\ client'.pc \notin {"permit", "erase"}
                             /\ Shows(client'.view, Oblig(r)')
    BY <1>2 DEF Displayed, Shows, Disturbed
  <2>1. /\ checkpoint.on => Shows(checkpoint, Oblig(r))
        /\ client.view.on /\ ~client.outdated =>
               /\ client.pc \notin {"permit", "erase"}
               /\ Shows(client.view, Oblig(r))
        /\ Oblig(r)' = Oblig(r) /\ job[r].step \in Steps
    BY <1>1, <1>2 DEF Displayed, Oblig, StepKnown, Claiming, Claimed, Working
  <2>2. CASE client'.pc = "ledger" /\ client'.view = checkpoint
    BY <1>2, <2>1, <2>2
  <2>3. CASE /\ client'.view = client.view /\ client'.outdated = client.outdated
             /\ client'.pc = "erase" /\ client.pc = "permit"
    BY <1>2, <2>1, <2>3
  <2>4. CASE /\ client'.view = client.view /\ client'.outdated = client.outdated
             /\ client'.pc = "permit"
             /\ CheckpointVerdict(client.view, client.owned, client.by) # "NONE"
    <3>1. Shows(client.view, Oblig(r)) => job[r].step \in Planned(client.view)
      BY <2>1 DEF Shows, Oblig, Planned, Absent
    <3> QED
      BY <1>2, <1>5, <2>1, <2>4, <3>1 DEF Shows, Oblig
  <2> QED
    BY <1>1, <1>2, <2>1, <2>2, <2>3, <2>4, CallViews
<1> QED
  BY <1>3, <1>4, <1>6, <1>7 DEF WInv

LEMMA NeededStep ==
    ASSUME WInv, [LifecycleNext]_lifecycleVars
    PROVE  WInv'
<1>1. RInv'
  BY SuccessStep DEF WInv
<1>2. CASE UNCHANGED lifecycleVars
  <2>1. UNCHANGED <<ledger, checkpoint, session, evidence, consumed, job,
                    cancelling, history, client>>
    BY <1>2 DEF lifecycleVars, vars
  <2>2. /\ \A r \in Runtimes : Binding(r)' /\ Displayed(r)'
        /\ Cleared'
    BY <2>1 DEF WInv, Binding, Displayed, Oblig, Cleared, LedgerOf, Planned, Disturbed
  <2> QED
    BY <1>1, <2>1, <2>2 DEF WInv
<1> QED
  BY <1>1, <1>2, TaskNeeded, CallNeeded DEF LifecycleNext

\* _cleanup_dynamic_recovery_artifacts: a checkpoint is only deleted when the
\* digest of the very checkpoint that was judged still matches; by then none
\* of its steps is under way, and no obligation it names is DISPATCHED,
\* OBSERVING or UNKNOWN_SIDE_EFFECT, except those of a cancelled task that
\* several runtimes work on or whose cancellation was put late.
THEOREM LifecycleNeededIsRetained == LifecycleSpec => NeededIsRetained
<1> DEFINE Safe == Erased => \A t \in Planned(checkpoint) :
                       /\ checkpoint.steps[t].state # "EXECUTING"
                       /\ \/ LedgerOf(checkpoint, t) \notin Ambiguous
                          \/ Disturbed /\ checkpoint.status = "CANCELLED"
<1>1. ASSUME WInv, [LifecycleNext]_lifecycleVars
      PROVE  Safe
  <2> SUFFICES ASSUME checkpoint.on, ~checkpoint'.on, NEW t \in Planned(checkpoint)
               PROVE  /\ checkpoint.steps[t].state # "EXECUTING"
                      /\ \/ LedgerOf(checkpoint, t) \notin Ambiguous
                         \/ Disturbed /\ checkpoint.status = "CANCELLED"
    BY DEF Erased
  <2>1. ~TaskStep
    BY <1>1, TaskRetains DEF WInv, RInv, LBase, HInv, Planning
  <2>2. Call
    BY <1>1, <2>1 DEF LifecycleNext, lifecycleVars, vars
  <2>3. client.pc = "erase" /\ checkpoint = client.view /\ ~client.outdated
    BY <2>2, CallsErase DEF SameCheckpoint
  <2> QED
    BY <1>1, <2>3 DEF WInv, Cleared, Ambiguous, InFlight, NotCreated
<1>2. WInv /\ [LifecycleNext]_lifecycleVars => [Safe]_lifecycleVars
  BY <1>1
<1> QED
  BY <1>2, NeededInit, NeededStep, PTL DEF LifecycleSpec, NeededIsRetained

-----------------------------------------------------------------------------
(* Why a success is final. Where no two runtimes overlap, no cancellation is *)
(* put late and nothing has been withdrawn, the revisions stand in order:    *)
(* checkpoint and call name the session's revision, or an older one with a   *)
(* step that never succeeded. What is complete is therefore the newest plan, *)
(* and nothing is planned anew: a plan is only revised around a step that did *)
(* not succeed.                                                              *)

Opening == {"risked", "putBefore", "claim", "create"}

Complete(l, rev, P) == \A t \in P : l[<<rev, t>>].state = "VERIFIED"

Behind(l, c, rev, plan) ==
    /\ c.rev <= rev
    /\ c.rev = rev => Planned(c) = plan
    /\ c.rev < rev => ~Complete(l, c.rev, Planned(c))

\* Record c against a session and the view of a recovery under way.
Trails(l, c, s, j) ==
    c.on => /\ s.on => Behind(l, c, s.rev, InPlan(s))
            /\ j.pc \in Recovering => Behind(l, c, j.view.rev, Planned(j.view))

Whole(l, s, j) ==
    /\ s.on => Complete(l, s.rev, InPlan(s))
    /\ j.pc \in Recovering => Complete(l, j.view.rev, Planned(j.view))

Finished ==
    /\ checkpoint.on => Complete(ledger, checkpoint.rev, Planned(checkpoint))
    /\ \A r \in Runtimes : Whole(ledger, session[r], job[r])

\* The step a plan is revised around did not succeed.
Reopening(l, s) ==
    s.failed \in InPlan(s) /\ l[<<s.rev, s.failed>>].state # "VERIFIED"

Reopens(l, s) ==
    s.on /\ s.status = "REPLAN_REQUIRED" /\ s.failed # 0 => Reopening(l, s)

\* What a call is about to send, or to plan anew, has not succeeded.
Fresh(r) ==
    /\ job[r].pc \in Opening => ledger[Oblig(r)].state # "VERIFIED"
    /\ job[r].pc = "planning" => session[r].on /\ Reopening(ledger, session[r])

Matches(s, j) ==
    j.pc \in Shelving => j.view.rev = s.rev /\ Planned(j.view) = InPlan(s)

Calm == ~Disturbed /\ history.stopped = {}

Ordered ==
    /\ \A r \in Runtimes :
        /\ Reopens(ledger, session[r]) /\ Fresh(r)
        /\ Matches(session[r], job[r])
        /\ Trails(ledger, checkpoint, session[r], job[r])
        /\ Trails(ledger, client.view, session[r], job[r])
    /\ checkpoint.on /\ client.view.on =>
           Behind(ledger, client.view, checkpoint.rev, Planned(checkpoint))
    /\ Succeeded => Finished

FInv == WInv /\ (Calm => Ordered)

\* An entry becomes VERIFIED only under the call that verifies it.
LEMMA NewlyVerified ==
    ASSUME BInv, NEW r \in Runtimes, Acts(r) \/ Puts(r), NEW o \in Obligations,
           ledger'[o].state = "VERIFIED", ledger[o].state # "VERIFIED"
    PROVE  job[r].pc = "verify" /\ o = Oblig(r)
<1>1. TypeOK /\ ledger \in Ledgers
  BY WorkShapes DEF BInv, IInv
<1>2. ASSUME NEW target,
             MoveSucceeds(Oblig(r), target) \/ MoveFails(Oblig(r), target)
      PROVE  o = Oblig(r) /\ target = "VERIFIED"
  BY <1>1, <1>2 DEF MoveSucceeds, MoveFails, Ledgers, LedgerEntry, AfterMove, Applied
<1>3. ledger' # ledger
  OBVIOUS
<1>4. ~Create(r)
  BY <1>1, <1>3 DEF Create, Ledgers, LedgerEntry
<1>5. CASE Authorize(r) \/ Dispatch(r)
  <2>1. \E target \in {"AUTHORIZED", "DISPATCHED", "FAILED"} :
            MoveSucceeds(Oblig(r), target) \/ MoveFails(Oblig(r), target)
    BY <1>5 DEF Authorize, Dispatch, RecordsFailed
  <2> QED
    BY <1>2, <2>1
<1>6. CASE Respond(r) \/ Unknown(r)
  <2>1. \E target \in {"OBSERVING", "UNKNOWN_SIDE_EFFECT"} :
            MoveSucceeds(Oblig(r), target) \/ MoveFails(Oblig(r), target)
    BY <1>3, <1>6 DEF Respond, Unknown, Escapes
  <2> QED
    BY <1>2, <2>1
<1>7. CASE Verify(r)
  BY <1>2, <1>3, <1>7 DEF Verify, Escapes, At
<1>8. CASE Reconcile(r)
  BY <1>1, <1>3, <1>8 DEF Reconcile, Ledgers, LedgerEntry
<1>9. CASE Claim(r) \/ Send(r) \/ RecoverRead(r) \/ Acquire(r) \/ Decide(r)
  BY <1>3, <1>9 DEF Claim, Send, RecoverRead, Acquire, Decide, UnchangedByCalls
<1>10. CASE \/ Run(r) \/ Put(r) \/ PutFails(r) \/ Withdraw(r) \/ AskPlanner(r)
            \/ Replan(r) \/ Crash(r)
  BY <1>3, <1>10 DEF Run, RunFenced, RunRefused, RunNothing, RunUnbound,
     RunUnauthorized, RunAllowed, RunLosesLease, BeforeExecution,
     UnchangedByCalls, Put, PutFails, Withdraw, Cancel, CancelPut,
     CancelPutFails, AskPlanner, Replan, Crash
<1> QED
  BY <1>4, <1>5, <1>6, <1>7, <1>8, <1>9, <1>10 DEF Acts, Puts, Execute, Recover

\* What has not been tried has not succeeded.
LEMMA EarlyUnproven ==
    ASSUME HInv, Calm, NEW r \in Runtimes, session[r].on,
           NEW t \in Steps, session[r].steps[t] \in Early
    PROVE  ledger[<<session[r].rev, t>>].state # "VERIFIED"
<1> DEFINE o == <<session[r].rev, t>>
<1>1. /\ SessionAhead(Sent, history.stopped, session[r]) /\ LedgerSound
      /\ session[r] \in Sessions
  BY WorkShapes DEF HInv, Ahead, Calm, Disturbed, SInv, BInv, IInv
<1>2. o \in Obligations
  BY <1>1 DEF Sessions, Obligations
<1>3. o \notin Sent
  BY <1>1, <1>2 DEF SessionAhead, Calm, Early, Sessions, Revisions
<1> QED
  BY <1>1, <1>2, <1>3 DEF Sent, LedgerSound

LEMMA EndsReopen ==
    ASSUME NEW l, NEW s \in Sessions, NEW t \in Steps
    PROVE  /\ Reopens(l, Blocked(s, t)) /\ Reopens(l, FailedForGood(s, t))
           /\ Reopens(l, [Blocked(s, t) EXCEPT !.status = "FAILED"])
           /\ Reopens(l, Verified(s, t)) /\ Reopens(l, CancelledSession(s))
           /\ l[<<s.rev, t>>].state # "VERIFIED" => Reopens(l, Replanned(s, t))
<1>1. s.steps \in [Steps -> StepStates \cup {Absent}]
  BY DEF Sessions
<1>2. Replanned(s, t).failed = t /\ Replanned(s, t).rev = s.rev
  BY DEF Replanned, Sessions
<1>3. t \in InPlan(Replanned(s, t))
  BY <1>1, EndsStates DEF InPlan, Absent
<1>4. Blocked(s, t).status = "BLOCKED" /\ Verified(s, t).status # "REPLAN_REQUIRED"
      /\ FailedForGood(s, t).status # "REPLAN_REQUIRED"
  BY EndsStates
<1>5. CancelledSession(s).status = "CANCELLED"
  BY DEF CancelledSession, Sessions
<1>6. [Blocked(s, t) EXCEPT !.status = "FAILED"].status = "FAILED"
  BY DEF Blocked, Sessions
<1> QED
  BY <1>2, <1>3, <1>4, <1>5, <1>6 DEF Reopens, Reopening

\* A call that ends leaves nothing to try.
LEMMA RestFresh ==
    ASSUME TypeOK, NEW r \in Runtimes, NEW n, NEW own, Finish(r, n, own),
           Reopens(ledger', n)
    PROVE  Reopens(ledger', session'[r]) /\ Fresh(r)'
  BY FinishRests DEF Fresh, Opening

LEMMA RunFresh ==
    ASSUME HInv, Calm, NEW r \in Runtimes, StepPlanned(r), Binding(r),
           Reopens(ledger, session[r]), Fresh(r), Run(r)
    PROVE  Reopens(ledger', session'[r]) /\ Fresh(r)'
<1> DEFINE s == session[r]
           t == NextStep(s)
<1>1. /\ SInv /\ IInv /\ TypeOK /\ s \in Sessions /\ ledger' = ledger
      /\ session \in [Runtimes -> Sessions] /\ job \in [Runtimes -> Jobs]
  BY WorkShapes
     DEF HInv, SInv, BInv, IInv, Run, RunFenced, RunRefused, RunNothing, RunUnbound,
         RunUnauthorized, RunAllowed, RunLosesLease, BeforeExecution, UnchangedByCalls
<1>2. ASSUME MayRun(r), HasRunnable(s)
      PROVE  t \in Steps /\ s.on /\ ledger[<<s.rev, t>>].state # "VERIFIED"
  BY <1>2, NextStepEarly, EarlyUnproven DEF HasRunnable, MayRun, MayCall
<1>3. \A status : status # "REPLAN_REQUIRED" =>
          \A x : Reopens(ledger, [s EXCEPT !.steps = x, !.status = status])
                 /\ Reopens(ledger, [s EXCEPT !.status = status])
  BY <1>1 DEF Reopens, Sessions
<1>4. CASE RunFenced(r)
  <2>1. session'[r] = [s EXCEPT !.status = "BLOCKED"] /\ job'[r].pc = "idle"
    BY <1>1, <1>4 DEF RunFenced, MayCall, AtRest
  <2> QED
    BY <1>1, <1>3, <2>1 DEF Fresh, Opening
<1>5. CASE RunRefused(r)
  BY <1>1, <1>5, RestFresh DEF RunRefused
<1>6. CASE RunNothing(r)
  <2>1. Candidates(s) # {} => Reopens(ledger, Blocked(s, t))
    BY <1>1, NextStepEarly, EndsReopen
  <2>2. Reopens(ledger, [s EXCEPT !.status = "DONE"])
    BY <1>3
  <2> QED
    BY <1>1, <1>6, <2>1, <2>2, RestFresh DEF RunNothing
<1>7. CASE RunUnbound(r)
  <2>1. /\ Reopens(ledger, Replanned(s, t))
        /\ Reopens(ledger, [Blocked(s, t) EXCEPT !.status = "FAILED"])
    BY <1>1, <1>2, <1>7, EndsReopen DEF RunUnbound
  <2> QED
    BY <1>1, <1>7, <2>1, RestFresh DEF RunUnbound
<1>8. CASE RunUnauthorized(r)
  <2> DEFINE n == [s EXCEPT !.steps[t] = "AWAITING_CONFIRMATION",
                            !.status = "WAITING_CONFIRMATION"]
  <2>1. Reopens(ledger, Blocked(s, t))
    BY <1>1, <1>2, <1>8, EndsReopen DEF RunUnauthorized
  <2>2. n.status = "WAITING_CONFIRMATION"
    BY <1>1 DEF Sessions
  <2>3. Reopens(ledger, n)
    BY <2>2 DEF Reopens
  <2> HIDE DEF n
  <2>4. Finish(r, n, evidence[r]) \/ Finish(r, Blocked(s, t), evidence[r])
    BY <1>8 DEF RunUnauthorized, n
  <2> QED
    BY <1>1, <2>1, <2>3, <2>4, RestFresh
<1>9. CASE RunAllowed(r)
  <2> DEFINE n == [s EXCEPT !.steps[t] = "AWAITING_RISK", !.status = "RUNNING"]
  <2>1. /\ session'[r] = n
        /\ job'[r] = [AtRest EXCEPT !.pc = "risked", !.step = t]
        /\ ledger[<<s.rev, t>>].state # "VERIFIED"
    BY <1>1, <1>2, <1>9 DEF RunAllowed
  <2>2. n.rev = s.rev /\ n.status = "RUNNING"
    BY <1>1 DEF Sessions
  <2>3. job'[r].step = t
    BY <2>1 DEF AtRest
  <2> HIDE DEF n
  <2> QED
    BY <1>1, <2>1, <2>2, <2>3 DEF Reopens, Reopening, Fresh, Oblig
<1>10. CASE RunLosesLease(r)
  <2>1. /\ session'[r] = Blocked(s, job[r].step) /\ job'[r].pc = "idle"
        /\ job[r].step \in Steps
    BY <1>1, <1>10 DEF RunLosesLease, AtRest, StepPlanned, Working, InPlan
  <2>2. Reopens(ledger, Blocked(s, job[r].step))
    BY <1>1, <2>1, EndsReopen
  <2> QED
    BY <1>1, <2>1, <2>2 DEF Fresh, Opening
<1>11. CASE BeforeExecution(r)
  <2> DEFINE u == job[r].step
             n == [s EXCEPT !.steps[u] = "EXECUTING",
                            !.token = IF @ = 0 THEN 0 ELSE lease'.token]
  <2>1. s.status # "REPLAN_REQUIRED" /\ ledger[<<s.rev, u>>].state # "VERIFIED"
    BY <1>11 DEF BeforeExecution, Working, Binding, Fresh, Opening, Oblig
  <2>2. PICK allowed : job' = [job EXCEPT ![r] =
            Saving(n, evidence[r], allowed, "putBefore", u)]
    BY <1>11 DEF BeforeExecution
  <2>3. session'[r] = n
    BY <1>1, <1>11 DEF BeforeExecution
  <2>4. n.rev = s.rev /\ n.status = s.status
    BY <1>1 DEF Sessions
  <2> HIDE DEF n, u
  <2>5. (job'[r].pc = "putBefore" /\ job'[r].step = u) \/ job'[r].pc = "idle"
    BY <1>1, <2>2 DEF Saving, AtRest
  <2> QED
    BY <1>1, <2>1, <2>3, <2>4, <2>5 DEF Reopens, Reopening, Fresh, Opening, Oblig
<1> QED
  BY <1>4, <1>5, <1>6, <1>7, <1>8, <1>9, <1>10, <1>11 DEF Run

LEMMA ExecuteFresh ==
    ASSUME HInv, Calm, NEW r \in Runtimes, StepPlanned(r), Binding(r),
           Reopens(ledger, session[r]), Fresh(r), Execute(r),
           UNCHANGED cancelling
    PROVE  Reopens(ledger', session'[r]) /\ Fresh(r)'
<1> DEFINE s == session[r]
           t == job[r].step
<1>1. job[r].pc \in Claiming /\ job[r].pc \in Working
  BY DEF Execute, Claim, Create, Authorize, Dispatch, Send, Respond, Verify,
         Unknown, At, Claiming, Claimed, Working
<1>2. /\ SInv /\ BInv /\ IInv /\ TypeOK /\ s \in Sessions /\ s.on /\ t \in Steps
      /\ Oblig(r) \in Obligations /\ Oblig(r) = <<s.rev, t>>
      /\ session \in [Runtimes -> Sessions] /\ job \in [Runtimes -> Jobs]
      /\ ledger \in Ledgers /\ InTune(r) /\ s.status # "REPLAN_REQUIRED"
  BY <1>1, AtWork, WorkInvolved, WorkShapes
     DEF HInv, SInv, BInv, Calm, Disturbed, Binding, Oblig
<1>3. /\ Reopens(ledger', Blocked(s, t)) /\ Reopens(ledger', FailedForGood(s, t))
      /\ Reopens(ledger', Verified(s, t))
      /\ ledger'[Oblig(r)].state # "VERIFIED" => Reopens(ledger', Replanned(s, t))
  BY <1>2, EndsReopen
<1>4. ASSUME NEW own, ledger'[Oblig(r)].state # "VERIFIED", EndRecoverable(r, own)
      PROVE  Reopens(ledger', session'[r]) /\ Fresh(r)'
  BY <1>2, <1>3, <1>4, RestFresh DEF EndRecoverable
<1>5. ASSUME NEW own, EndFinal(r, own) \/ EndUnknown(r, own)
      PROVE  Reopens(ledger', session'[r]) /\ Fresh(r)'
  BY <1>2, <1>3, <1>5, RestFresh DEF EndFinal, EndUnknown
<1>6. ASSUME NEW pc, UNCHANGED session, Goto(r, pc) \/ Carry(r, pc),
             pc = "create" => ledger'[Oblig(r)].state # "VERIFIED",
             pc \notin (Opening \ {"create"}) \cup {"planning"}
      PROVE  Reopens(ledger', session'[r]) /\ Fresh(r)'
  <2>1. job'[r].pc = pc /\ job'[r].step = t
    BY <1>2, <1>6 DEF Goto, Carry, Jobs
  <2>2. Oblig(r)' = Oblig(r)
    BY <1>6, <2>1 DEF Oblig
  <2> QED
    BY <1>2, <1>6, <2>1, <2>2 DEF Reopens, Reopening, Fresh, Opening
<1>7. ledger[Oblig(r)].state # "VERIFIED" /\ job[r].pc # "verify"
          => ledger'[Oblig(r)].state # "VERIFIED"
  BY <1>2, NewlyVerified DEF Acts
<1>8. CASE Claim(r)
  <2>1. ledger'[Oblig(r)].state # "VERIFIED"
    BY <1>7, <1>8 DEF Claim, At, Fresh, Opening
  <2> QED
    BY <1>4, <1>5, <1>6, <1>8, <2>1 DEF Claim, Opening
<1>9. CASE Create(r)
  BY <1>5, <1>6, <1>9 DEF Create, Opening
<1>10. CASE Authorize(r) \/ Dispatch(r)
  <2>1. ledger'[Oblig(r)].state # "VERIFIED"
    BY <1>2, <1>7, <1>10 DEF Authorize, Dispatch, At, InTune
  <2> QED
    BY <1>4, <1>5, <1>6, <1>10, <2>1 DEF Authorize, Dispatch, RecordsFailed, Opening
<1>11. CASE Send(r)
  BY <1>6, <1>11 DEF Send, Opening
<1>12. CASE Respond(r)
  <2>1. ledger'[Oblig(r)].state # "VERIFIED"
    BY <1>2, <1>7, <1>12 DEF Respond, InTune
  <2> QED
    BY <1>4, <1>6, <1>12, <2>1 DEF Respond, Escapes, Opening
<1>13. CASE Verify(r)
  <2>1. ledger[Oblig(r)].state = "OBSERVING"
    BY <1>2, <1>13 DEF Verify, At, InTune
  <2>2. MoveSucceeds(Oblig(r), "FAILED") => ledger'[Oblig(r)].state # "VERIFIED"
    BY <1>2, <2>1 DEF MoveSucceeds, AfterMove, Applied, Ledgers, LedgerEntry
  <2>3. ASSUME NEW own, Finish(r, Verified(s, t), own)
        PROVE  Reopens(ledger', session'[r]) /\ Fresh(r)'
    BY <1>2, <1>3, <2>3, RestFresh
  <2>4. CASE Escapes(r)
    BY <1>4, <2>1, <2>4 DEF Escapes
  <2> QED
    BY <1>4, <1>5, <1>6, <1>13, <2>2, <2>3, <2>4 DEF Verify, Opening
<1>14. CASE Unknown(r)
  BY <1>5, <1>14 DEF Unknown
<1> QED
  BY <1>8, <1>9, <1>10, <1>11, <1>12, <1>13, <1>14 DEF Execute

LEMMA StoreFresh ==
    ASSUME HInv, NEW r \in Runtimes, Reopens(ledger, session[r]), Fresh(r),
           \/ Put(r) \/ PutFails(r) \/ Withdraw(r) \/ AskPlanner(r) \/ Replan(r)
           \/ Crash(r)
    PROVE  Reopens(ledger', session'[r]) /\ Fresh(r)'
<1> DEFINE s == session[r]
<1>1. /\ TypeOK /\ s \in Sessions /\ ledger' = ledger
      /\ session \in [Runtimes -> Sessions] /\ job \in [Runtimes -> Jobs]
      /\ AtRest.pc = "idle" /\ Down.pc = "down"
  BY WorkShapes DEF HInv, SInv, BInv, IInv, Put, PutFails, Withdraw, Cancel,
     CancelPut, CancelPutFails, AskPlanner, Replan, Crash, UnchangedByCalls,
     AtRest, Down
<1>2. CASE Put(r) \/ PutFails(r)
  <2> DEFINE j == [AtRest EXCEPT !.pc = "claim", !.step = job[r].step]
  <2>1. j.pc = "claim" /\ j.step = job[r].step
    BY DEF AtRest
  <2>2. /\ UNCHANGED session
        /\ job'[r] = AtRest \/ (job[r].pc = "putBefore" /\ job'[r] = j)
    BY <1>1, <1>2 DEF Put, PutFails
  <2> HIDE DEF j
  <2> QED
    BY <1>1, <2>1, <2>2 DEF Fresh, Opening, Oblig
<1>3. CASE Cancel(r)
  <2>1. session'[r] = CancelledSession(s) /\ job' = job
    BY <1>1, <1>3 DEF Cancel
  <2>2. /\ CancelledSession(s).rev = s.rev
        /\ CancelledSession(s).on = s.on
        /\ CancelledSession(s).status = "CANCELLED"
        /\ CancelledSession(s).failed = s.failed
    BY <1>1 DEF CancelledSession, Sessions
  <2>3. s.on => InPlan(CancelledSession(s)) = InPlan(s)
    BY <1>1, StatusPlan DEF Kept
  <2> QED
    BY <1>1, <2>1, <2>2, <2>3 DEF Reopens, Reopening, Fresh, Oblig
<1>4. CASE Replan(r)
  <2> DEFINE remaining == [t \in Steps |->
                 IF s.steps[t] \in {Absent, "VERIFIED"} THEN Absent ELSE "PENDING"]
  <2>1. PICK n : /\ session' = [session EXCEPT ![r] = n]
                 /\ job' = [job EXCEPT ![r] = Saving(n, evidence[r], Owns(r, n), "put", 0)]
                 /\ n \in {[s EXCEPT !.status = "FAILED"], [s EXCEPT !.status = "BLOCKED"],
                           [s EXCEPT !.rev = @ + 1, !.status = "READY", !.failed = 0,
                                     !.steps = remaining]}
    BY <1>4 DEF Replan
  <2> HIDE DEF remaining
  <2>2. n.status # "REPLAN_REQUIRED"
    BY <1>1, <2>1 DEF Sessions
  <2>3. job'[r].pc \in {"put", "idle"}
    BY <1>1, <2>1 DEF Saving, AtRest
  <2> QED
    BY <1>1, <2>1, <2>2, <2>3 DEF Reopens, Reopening, Fresh, Opening
<1>5. CASE Crash(r)
  <2>1. session'[r] = NoSession /\ job'[r] = Down
    BY <1>1, <1>5 DEF Crash
  <2> QED
    BY <1>1, <2>1 DEF Reopens, Reopening, Fresh, Opening, NoSession
<1>6. CASE CancelPut(r) \/ CancelPutFails(r)
  <2>1. UNCHANGED <<session, job>>
    BY <1>6 DEF CancelPut, CancelPutFails
  <2> QED
    BY <1>1, <2>1 DEF Fresh, Oblig
<1>7. CASE AskPlanner(r)
  <2>1. /\ UNCHANGED session /\ job'[r].pc = "planning"
        /\ s.on /\ s.status = "REPLAN_REQUIRED" /\ s.failed # 0
    BY <1>1, <1>7 DEF AskPlanner, MayCall, AtRest
  <2> QED
    BY <1>1, <2>1 DEF Reopens, Fresh, Opening
<1> QED
  BY <1>2, <1>3, <1>4, <1>5, <1>6, <1>7 DEF Withdraw

LEMMA RecoverFresh ==
    ASSUME HInv, NEW r \in Runtimes, Reopens(ledger, session[r]), Fresh(r), Recover(r),
           UNCHANGED cancelling
    PROVE  Reopens(ledger', session'[r]) /\ Fresh(r)'
<1>1. /\ TypeOK /\ BInv /\ session \in [Runtimes -> Sessions] /\ job \in [Runtimes -> Jobs]
      /\ session[r] \in Sessions /\ AtRest.pc = "idle"
      /\ (Opening \cup {"planning"})
             \cap {"idle", "acquire", "reconcile", "decide", "put"} = {}
  BY WorkShapes DEF HInv, SInv, BInv, IInv, AtRest, Opening
<1>2. GiveUp(r) => job'[r].pc = "idle"
  BY <1>1 DEF GiveUp
<1>3. job[r].pc # "verify"
  BY <1>1 DEF Recover, RecoverRead, Acquire, Reconcile, Decide, At, AtRest
<1>4. ASSUME UNCHANGED session, job'[r].pc \notin Opening \cup {"planning"}
      PROVE  Reopens(ledger', session'[r]) /\ Fresh(r)'
  <2>1. \A o \in Obligations : ledger[o].state # "VERIFIED" => ledger'[o].state # "VERIFIED"
    BY <1>1, <1>3, NewlyVerified DEF Acts
  <2>2. ASSUME session[r].failed \in InPlan(session[r])
        PROVE  <<session[r].rev, session[r].failed>> \in Obligations
    BY <1>1, <2>2 DEF Sessions, InPlan, Obligations
  <2> QED
    BY <1>4, <2>1, <2>2 DEF Reopens, Reopening, Fresh
<1>5. CASE RecoverRead(r)
  <2>1. job'[r].pc = "acquire" /\ UNCHANGED session
    BY <1>1, <1>5 DEF RecoverRead, AtRest
  <2> QED
    BY <1>1, <1>4, <2>1
<1>6. CASE Acquire(r)
  <2>1. job'[r].pc \in {"idle", "reconcile"} /\ UNCHANGED session
    BY <1>1, <1>2, <1>6 DEF Acquire, Jobs
  <2> QED
    BY <1>1, <1>4, <2>1
<1>7. CASE Reconcile(r)
  <2>1. job'[r].pc \in {"idle", "decide"} /\ UNCHANGED session
    BY <1>1, <1>2, <1>7 DEF Reconcile, Goto, Jobs
  <2> QED
    BY <1>1, <1>4, <2>1
<1>8. CASE Decide(r)
  <2>1. ASSUME NEW n, Install(r, n), Restores(job[r].view, n)
        PROVE  Reopens(ledger', session'[r]) /\ Fresh(r)'
    <3>1. session'[r] = n /\ job'[r].pc \in {"put", "idle"}
      BY <1>1, <2>1 DEF Install, Saving, AtRest
    <3> QED
      BY <1>1, <2>1, <3>1 DEF Restores, Reopens, Fresh
  <2> QED
    BY <1>1, <1>2, <1>4, <1>8, <2>1, DecideRestores
<1> QED
  BY <1>5, <1>6, <1>7, <1>8 DEF Recover

LEMMA NextFresh ==
    ASSUME HInv, Calm, NEW r \in Runtimes, StepPlanned(r), Binding(r),
           Reopens(ledger, session[r]), Fresh(r), Acts(r) \/ Puts(r)
    PROVE  Reopens(ledger', session'[r]) /\ Fresh(r)'
  BY RunFresh, ExecuteFresh, StoreFresh, RecoverFresh DEF Acts, Puts

LEMMA RevisionOrder ==
    \A a, b, c \in Revisions : /\ a \in Nat /\ a <= a
                               /\ a <= b /\ b <= c => a <= c
                               /\ a < b /\ b <= c => a < c
                               /\ ~(a < a) /\ (a <= b => a = b \/ a < b)
  BY PlanAssumption DEF Revisions

LEMMA RevisionNext ==
    \A a, b \in Revisions : /\ a <= a + 1 /\ a # a + 1
                            /\ a < b => a < b + 1 /\ a # b + 1 /\ a <= b + 1
  BY PlanAssumption DEF Revisions

\* What was complete stays so, and an older plan is never completed later.
LEMMA CompleteStays ==
    ASSUME Lasting, NEW rev \in Revisions, NEW P \in SUBSET Steps,
           Complete(ledger, rev, P)
    PROVE  Complete(ledger', rev, P)
  BY DEF Complete, Lasting, Settled, Obligations

LEMMA BehindStays ==
    ASSUME BInv, NEW r \in Runtimes, Acts(r) \/ Puts(r), NEW c \in Checkpoints,
           NEW rev \in Revisions, NEW plan, Behind(ledger, c, rev, plan),
           job[r].pc = "verify" => rev <= session[r].rev
    PROVE  Behind(ledger', c, rev, plan)
<1>1. TypeOK /\ session[r] \in Sessions /\ c.rev \in Revisions
      /\ session[r].rev \in Revisions
  BY WorkShapes DEF BInv, IInv, Sessions, Checkpoints
<1>2. ASSUME c.rev < rev
      PROVE  ~Complete(ledger', c.rev, Planned(c))
  <2>1. PICK t \in Planned(c) : ledger[<<c.rev, t>>].state # "VERIFIED"
    BY <1>2 DEF Behind, Complete
  <2>2. <<c.rev, t>> \in Obligations
    BY <1>1 DEF Planned, Obligations
  <2>3. <<c.rev, t>> = Oblig(r) => c.rev = session[r].rev
    BY DEF Oblig
  <2>4. ledger'[<<c.rev, t>>].state # "VERIFIED"
    BY <1>1, <1>2, <2>1, <2>2, <2>3, NewlyVerified, RevisionOrder
  <2> QED
    BY <2>4 DEF Complete
<1> QED
  BY <1>2 DEF Behind

LEMMA BehindItself ==
    ASSUME NEW l, NEW c, c.rev \in Revisions
    PROVE  Behind(l, c, c.rev, Planned(c))
  BY RevisionOrder DEF Behind

\* A record that trailed still trails: a plan is revised around a step that
\* did not succeed, and recovery starts from the checkpoint.
LEMMA TrailsStep ==
    ASSUME SInv, NEW r \in Runtimes, Acts(r) \/ Puts(r), Flow(r),
           NEW c \in Checkpoints,
           Trails(ledger, c, session[r], job[r]),
           Trails(ledger, checkpoint, session[r], job[r]),
           Fresh(r),
           c.on /\ checkpoint.on =>
               Behind(ledger, c, checkpoint.rev, Planned(checkpoint))
    PROVE  Trails(ledger', c, session'[r], job'[r])
<1> DEFINE s == session[r]
           n == session'[r]
<1>1. /\ BInv /\ IInv /\ TypeOK /\ TypeOK' /\ s \in Sessions /\ n \in Sessions
      /\ job[r] \in Jobs /\ job'[r] \in Jobs /\ checkpoint \in Checkpoints
  <2>1. BInv /\ IInv /\ TypeOK /\ TypeOK'
    BY NextOthers DEF SInv, BInv, IInv
  <2> QED
    BY <2>1, WorkShapes DEF TypeOK, Jobs
<1>2. /\ s.rev \in Revisions /\ n.rev \in Revisions /\ c.rev \in Revisions
      /\ job[r].view.rev \in Revisions /\ checkpoint.rev \in Revisions
  BY <1>1 DEF Sessions, Jobs, Checkpoints
<1>3. job[r].pc = "verify" => s.on
  BY DEF SInv, HasSession, Recovering
<1> SUFFICES ASSUME c.on
             PROVE  /\ n.on => Behind(ledger', c, n.rev, InPlan(n))
                    /\ job'[r].pc \in Recovering =>
                           Behind(ledger', c, job'[r].view.rev, Planned(job'[r].view))
  BY DEF Trails
<1>4. s.on => Behind(ledger', c, s.rev, InPlan(s))
  <2> SUFFICES ASSUME s.on
               PROVE  Behind(ledger', c, s.rev, InPlan(s))
    OBVIOUS
  <2>1. Behind(ledger, c, s.rev, InPlan(s)) /\ s.rev <= s.rev
    BY <1>2, RevisionOrder DEF Trails
  <2> QED
    BY <1>1, <1>2, <2>1, BehindStays
<1>5. job[r].pc \in Recovering => Behind(ledger', c, job[r].view.rev, Planned(job[r].view))
  <2> SUFFICES ASSUME job[r].pc \in Recovering
               PROVE  Behind(ledger', c, job[r].view.rev, Planned(job[r].view))
    OBVIOUS
  <2>1. Behind(ledger, c, job[r].view.rev, Planned(job[r].view)) /\ job[r].pc # "verify"
    BY DEF Trails, Recovering
  <2> QED
    BY <1>1, <1>2, <2>1, BehindStays
<1>6. ASSUME n.on
      PROVE  Behind(ledger', c, n.rev, InPlan(n))
  <2>1. CASE Kept(s, n)
    BY <1>4, <2>1 DEF Kept
  <2>2. CASE job[r].pc = "planning" /\ Revises(s, n)
    <3>1. /\ s.on /\ n.rev = s.rev + 1 /\ Behind(ledger', c, s.rev, InPlan(s))
          /\ s.failed \in InPlan(s) /\ ledger[<<s.rev, s.failed>>].state # "VERIFIED"
      BY <1>4, <2>2 DEF Revises, Fresh, Reopening
    <3>3. CASE c.rev = s.rev
      <4>1. <<s.rev, s.failed>> \in Obligations
        BY <1>2, <3>1 DEF InPlan, Obligations
      <4>2. ledger'[<<s.rev, s.failed>>].state # "VERIFIED"
        BY <1>1, <2>2, <3>1, <4>1, NewlyVerified
      <4>3. ~Complete(ledger', c.rev, Planned(c))
        BY <3>1, <3>3, <4>2 DEF Behind, Complete
      <4> QED
        BY <1>2, <3>1, <3>3, <4>3, RevisionNext DEF Behind
    <3>4. CASE c.rev < s.rev
      <4>1. ~Complete(ledger', c.rev, Planned(c))
        BY <3>1, <3>4 DEF Behind
      <4> QED
        BY <1>2, <3>1, <3>4, <4>1, RevisionNext DEF Behind
    <3> QED
      BY <1>2, <3>1, <3>3, <3>4, RevisionOrder DEF Behind
  <2>3. CASE job[r].pc = "decide" /\ Restores(job[r].view, n)
    BY <1>5, <2>3 DEF Restores, Recovering
  <2> QED
    BY <1>6, <2>1, <2>2, <2>3 DEF Flow, SessionFlow
<1>7. ASSUME job'[r].pc \in Recovering
      PROVE  Behind(ledger', c, job'[r].view.rev, Planned(job'[r].view))
  <2>1. CASE checkpoint.on /\ job'[r].view = checkpoint
    <3>1. job[r].pc = "verify" => checkpoint.rev <= s.rev
      BY <1>3, <2>1 DEF Trails, Behind
    <3>2. Behind(ledger, c, checkpoint.rev, Planned(checkpoint))
      BY <2>1
    <3> QED
      BY <1>1, <1>2, <2>1, <3>1, <3>2, BehindStays
  <2>2. CASE job[r].pc \in Recovering /\ job'[r].view = job[r].view
    BY <1>5, <2>2
  <2> QED
    BY <1>7, <2>1, <2>2 DEF Flow, ViewFlow, Shelving, Recovering
<1> QED
  BY <1>6, <1>7

\* So does the checkpoint itself, and it is never behind a view of it.
LEMMA CheckpointStep ==
    ASSUME SInv, NEW r \in Runtimes, Acts(r) \/ Puts(r), Flow(r),
           NEW c \in Checkpoints,
           Trails(ledger, c, session[r], job[r]),
           Trails(ledger, checkpoint, session[r], job[r]),
           Fresh(r), Matches(session[r], job[r]), ~history'.late,
           c.on /\ checkpoint.on =>
               Behind(ledger, c, checkpoint.rev, Planned(checkpoint))
    PROVE  /\ Matches(session'[r], job'[r])
           /\ Trails(ledger', checkpoint', session'[r], job'[r])
           /\ c.on /\ checkpoint'.on =>
                  Behind(ledger', c, checkpoint'.rev, Planned(checkpoint'))
<1> DEFINE s == session[r]
           n == session'[r]
<1>1. /\ BInv /\ TypeOK /\ s \in Sessions /\ n \in Sessions
      /\ job[r] \in Jobs /\ job'[r] \in Jobs /\ checkpoint \in Checkpoints
  <2>1. BInv /\ IInv /\ TypeOK /\ TypeOK'
    BY NextOthers DEF SInv, BInv, IInv
  <2> QED
    BY <2>1, WorkShapes DEF TypeOK, Jobs
<1>2. s.rev \in Revisions /\ n.rev \in Revisions /\ checkpoint.rev \in Revisions
  BY <1>1 DEF Sessions, Checkpoints
<1>3. Trails(ledger', c, n, job'[r])
  BY TrailsStep
<1>4. Matches(n, job'[r])
  <2> SUFFICES ASSUME job'[r].pc \in Shelving
               PROVE  job'[r].view.rev = n.rev /\ Planned(job'[r].view) = InPlan(n)
    BY DEF Matches
  <2> QED
    BY FromSessionPlan
       DEF Flow, ViewFlow, Matches, Kept, Shelving, Recovering
<1>5. CASE checkpoint' = checkpoint
  <2>1. Behind(ledger, checkpoint, checkpoint.rev, Planned(checkpoint))
    BY <1>2, BehindItself
  <2>2. Trails(ledger', checkpoint, n, job'[r])
    BY <1>1, <2>1, TrailsStep
  <2>3. ASSUME c.on, checkpoint.on
        PROVE  Behind(ledger', c, checkpoint.rev, Planned(checkpoint))
    <3>1. job[r].pc = "verify" => checkpoint.rev <= s.rev
      BY <2>3 DEF SInv, HasSession, Recovering, Trails, Behind
    <3>2. Behind(ledger, c, checkpoint.rev, Planned(checkpoint))
      BY <2>3
    <3> QED
      BY <1>1, <1>2, <3>1, <3>2, BehindStays
  <2> QED
    BY <1>4, <1>5, <2>2, <2>3
<1>6. ASSUME checkpoint'.rev = n.rev, Planned(checkpoint') = InPlan(n), n.on,
             job'[r].pc \notin Recovering
      PROVE  /\ Trails(ledger', checkpoint', n, job'[r])
             /\ c.on => Behind(ledger', c, checkpoint'.rev, Planned(checkpoint'))
  <2>1. Behind(ledger', checkpoint', n.rev, InPlan(n))
    BY <1>2, <1>6, BehindItself
  <2> QED
    BY <1>3, <1>6, <2>1 DEF Trails
<1>7. CASE /\ job[r].pc \in Shelving /\ checkpoint' = job[r].view
           /\ n = s /\ job'[r].pc \in {"idle", "claim"}
  <2>1. s.on
    BY <1>7 DEF SInv, HasSession, Shelving, Recovering
  <2> QED
    BY <1>4, <1>6, <1>7, <2>1 DEF Matches, Recovering
<1>8. CASE /\ cancelling[r].on /\ n = s /\ job'[r] = job[r]
           /\ job[r].pc \notin Recovering
           /\ checkpoint' = FromSession(n, evidence'[r])
  <2>1. s.on
    BY <1>8 DEF SInv, HasSession
  <2> QED
    BY <1>4, <1>6, <1>8, <2>1, FromSessionPlan
<1> QED
  BY <1>5, <1>7, <1>8 DEF Flow, CheckpointFlow

\* A finished task stays finished.
LEMMA WholeStep ==
    ASSUME SInv, NEW r \in Runtimes, Acts(r) \/ Puts(r), Flow(r), Lasting,
           Fresh(r), Matches(session[r], job[r]), ~history'.late,
           Whole(ledger, session[r], job[r]),
           checkpoint.on => Complete(ledger, checkpoint.rev, Planned(checkpoint))
    PROVE  /\ Whole(ledger', session'[r], job'[r])
           /\ checkpoint'.on =>
                  Complete(ledger', checkpoint'.rev, Planned(checkpoint'))
<1> DEFINE s == session[r]
           n == session'[r]
<1>1. /\ s.rev \in Revisions /\ checkpoint.rev \in Revisions
      /\ job[r].view.rev \in Revisions
  <2>1. s \in Sessions /\ job[r] \in Jobs /\ checkpoint \in Checkpoints
    BY WorkShapes DEF SInv, BInv, IInv, TypeOK, Jobs
  <2> QED
    BY <2>1 DEF Sessions, Jobs, Checkpoints
<1>2. \A c : Planned(c) \in SUBSET Steps
  BY DEF Planned
<1>3. s.on => Complete(ledger', s.rev, InPlan(s))
  <2>1. InPlan(s) \in SUBSET Steps
    BY DEF InPlan
  <2> QED
    BY <1>1, <2>1, CompleteStays DEF Whole
<1>4. job[r].pc \in Recovering =>
          Complete(ledger', job[r].view.rev, Planned(job[r].view))
  BY <1>1, <1>2, CompleteStays DEF Whole
<1>5. checkpoint.on => Complete(ledger', checkpoint.rev, Planned(checkpoint))
  BY <1>1, <1>2, CompleteStays
<1>6. ~(job[r].pc = "planning" /\ Revises(s, n))
  BY DEF Revises, Fresh, Reopening, Whole, Complete
<1>7. n.on => Complete(ledger', n.rev, InPlan(n))
  <2>1. CASE Kept(s, n)
    BY <1>3, <2>1 DEF Kept
  <2>2. CASE job[r].pc = "decide" /\ Restores(job[r].view, n)
    BY <1>4, <2>2 DEF Restores, Recovering
  <2> QED
    BY <1>6, <2>1, <2>2 DEF Flow, SessionFlow
<1>8. job'[r].pc \in Recovering =>
          Complete(ledger', job'[r].view.rev, Planned(job'[r].view))
  BY <1>4, <1>5 DEF Flow, ViewFlow, Shelving, Recovering
<1>9. checkpoint'.on => Complete(ledger', checkpoint'.rev, Planned(checkpoint'))
  <2>1. CASE checkpoint' = checkpoint
    BY <1>5, <2>1
  <2>2. CASE job[r].pc \in Shelving /\ checkpoint' = job[r].view
    <3>1. s.on
      BY <2>2 DEF SInv, HasSession, Shelving, Recovering
    <3> QED
      BY <1>3, <2>2, <3>1 DEF Matches
  <2>3. CASE cancelling[r].on /\ n = s /\ checkpoint' = FromSession(n, evidence'[r])
    <3>1. s.on
      BY <2>3 DEF SInv, HasSession
    <3> QED
      BY <1>7, <2>3, <3>1, FromSessionPlan
  <2> QED
    BY <2>1, <2>2, <2>3 DEF Flow, CheckpointFlow
<1> QED
  BY <1>7, <1>8, <1>9 DEF Whole

\* Calm is not regained.
LEMMA CalmBefore ==
    ASSUME SInv, NEW r \in Runtimes, Acts(r) \/ Puts(r), Calm'
    PROVE  Calm
<1>1. ~Disturbed
  BY NobodyElse DEF Calm, Disturbed
<1>2. history \in Histories
  BY WorkShapes DEF SInv, BInv, IInv
<1>3. history.stopped \subseteq history'.stopped
  BY <1>2 DEF Acts, Run, RunFenced, RunRefused, RunNothing, RunUnbound,
     RunUnauthorized, RunAllowed, RunLosesLease, BeforeExecution,
     UnchangedByCalls, Execute, Claim, Create, Authorize, Dispatch, Send,
     Respond, Verify, Unknown, Escapes, UnchangedByExecutor, Puts, Put, PutFails,
     Withdraw, Cancel, CancelPut, CancelPutFails, AskPlanner, Replan, Crash,
     Recover, RecoverRead, Acquire, Reconcile, Decide, Histories
<1> QED
  BY <1>1, <1>3 DEF Calm

\* Those who do not act: either they are idle, or only a crash can happen.
LEMMA OthersOrdered ==
    ASSUME FInv, Calm, Calm', NEW r \in Runtimes, Acts(r) \/ Puts(r),
           NEW q \in Runtimes \ {r}
    PROVE  /\ Reopens(ledger', session'[q]) /\ Fresh(q)'
           /\ Matches(session'[q], job'[q])
           /\ Trails(ledger', checkpoint', session'[q], job'[q])
           /\ Trails(ledger', client.view, session'[q], job'[q])
           /\ Whole(ledger, session[q], job[q]) => Whole(ledger', session'[q], job'[q])
<1>1. /\ SInv /\ IInv /\ Ordered
  BY DEF FInv, WInv, RInv, LBase, HInv, SInv, BInv
<1>2. job'[q] = job[q] /\ session'[q] = session[q] /\ Oblig(q)' = Oblig(q)
  BY <1>1, NextOthers DEF Others, Oblig
<1>3. CASE Involved(q)
  <2>1. UNCHANGED <<ledger, checkpoint>>
    BY <1>1, <1>3, NobodyElse DEF Calm, Disturbed
  <2> QED
    BY <1>1, <1>2, <2>1 DEF Ordered, Fresh
<1>4. CASE ~Involved(q)
  <2>1. ~session[q].on /\ job[q].pc \in {"idle", "down"}
    BY <1>1, <1>4 DEF Involved, SInv, HasSession
  <2> QED
    BY <1>2, <2>1
       DEF Reopens, Reopening, Fresh, Opening, Matches, Shelving, Trails, Whole, Recovering
<1> QED
  BY <1>3, <1>4

LEMMA ActsOrdered ==
    ASSUME FInv, TaskStep, NEW r \in Runtimes, Acts(r) \/ Puts(r), Calm'
    PROVE  Ordered'
<1>1. /\ SInv /\ BInv /\ IInv /\ HInv /\ CallBase /\ StepPlanned(r) /\ Binding(r)
      /\ client.view \in Checkpoints /\ checkpoint \in Checkpoints
  BY DEF FInv, WInv, RInv, LBase, HInv, SInv, BInv, IInv, TypeOK, Planning, CallBase,
         LifecycleTypeOK, Calls
<1>2. Calm /\ Ordered
  BY <1>1, CalmBefore DEF FInv
<1>3. Flow(r) /\ Lasting
  BY <1>1, NextFlow, ActsLast
<1>4. Reopens(ledger', session'[r]) /\ Fresh(r)'
  BY <1>1, <1>2, NextFresh DEF Ordered
<1>5. /\ Matches(session'[r], job'[r])
      /\ Trails(ledger', checkpoint', session'[r], job'[r])
      /\ client.view.on /\ checkpoint'.on =>
             Behind(ledger', client.view, checkpoint'.rev, Planned(checkpoint'))
  BY <1>1, <1>2, <1>3, CheckpointStep DEF Ordered, Calm, Disturbed
<1>6. Trails(ledger', client.view, session'[r], job'[r])
  BY <1>1, <1>2, <1>3, TrailsStep DEF Ordered
<1>7. /\ client'.view.on => client'.view = client.view
      /\ Succeeded' => Succeeded
  BY <1>1, TaskClient, TaskClasses, EmptyTyped DEF Succeeded
<1>8. ASSUME NEW q \in Runtimes
      PROVE  /\ Reopens(ledger', session'[q]) /\ Fresh(q)'
             /\ Matches(session'[q], job'[q])
             /\ Trails(ledger', checkpoint', session'[q], job'[q])
             /\ Trails(ledger', client'.view, session'[q], job'[q])
  <2>1. Trails(ledger', client.view, session'[q], job'[q])
    BY <1>2, <1>6, OthersOrdered
  <2>2. Trails(ledger', client'.view, session'[q], job'[q])
    BY <1>7, <2>1 DEF Trails
  <2> QED
    BY <1>2, <1>4, <1>5, <2>2, OthersOrdered
<1>9. ASSUME Succeeded
      PROVE  Finished'
  <2>1. /\ \A q \in Runtimes : Whole(ledger, session[q], job[q])
        /\ checkpoint.on => Complete(ledger, checkpoint.rev, Planned(checkpoint))
    BY <1>2, <1>9 DEF Ordered, Finished
  <2>2. /\ Whole(ledger', session'[r], job'[r])
        /\ checkpoint'.on =>
               Complete(ledger', checkpoint'.rev, Planned(checkpoint'))
    BY <1>1, <1>2, <1>3, <2>1, WholeStep DEF Ordered, Calm, Disturbed
  <2>3. \A q \in Runtimes \ {r} : Whole(ledger', session'[q], job'[q])
    BY <1>2, <2>1, OthersOrdered
  <2> QED
    BY <2>2, <2>3 DEF Finished
<1> QED
  BY <1>5, <1>7, <1>8, <1>9 DEF Ordered

LEMMA AdmitOrdered ==
    ASSUME FInv, Admit, ~life.on, UNCHANGED <<life, client>>
    PROVE  Ordered'
<1> DEFINE s == [NoSession EXCEPT !.on = TRUE,
                                  !.steps = [t \in Steps |-> "PENDING"]]
<1>1. /\ SInv /\ TypeOK /\ Present /\ CallBase /\ session \in [Runtimes -> Sessions]
      /\ First \in Runtimes /\ AtRest.pc = "idle"
  BY WorkShapes, PlanAssumption
     DEF FInv, WInv, RInv, LBase, HInv, SInv, BInv, IInv, AtRest
<1>2. /\ session' = [session EXCEPT ![First] = s] /\ job[First] = AtRest
      /\ checkpoint' = FromSession(s, evidence[First])
      /\ UNCHANGED <<job, ledger>> /\ ~checkpoint.on
  BY DEF Admit
<1>3. s.on /\ s.status # "REPLAN_REQUIRED" /\ s.rev \in Revisions
  BY RevisionFacts DEF NoSession
<1> HIDE DEF s
<1>4. /\ \A r \in Runtimes : ~session[r].on /\ job[r].pc \in {"idle", "down"}
      /\ \A r \in Runtimes \ {First} : session'[r] = session[r]
      /\ session'[First] = s
  <2>1. \A r \in Runtimes : ~session[r].on /\ job[r].pc \notin Recovering
    BY <1>1, <1>2 DEF Present, Involved
  <2> QED
    BY <1>1, <1>2, <2>1 DEF SInv, HasSession
<1>5. ~client'.view.on /\ ~Succeeded'
  <2>1. client.pc \in {"none", "birth"} \cup {"register"}
    BY <1>1 DEF CallBase, CallSound
  <2> QED
    BY <1>1, <2>1 DEF CallBase, CallSound, Agree, Succeeded
<1>6. /\ checkpoint'.on /\ checkpoint'.rev = s.rev /\ Planned(checkpoint') = InPlan(s)
      /\ \A l : Behind(l, checkpoint', s.rev, InPlan(s))
  BY <1>2, <1>3, FromSessionPlan, BehindItself
<1>7. ASSUME NEW r \in Runtimes
      PROVE  /\ Reopens(ledger', session'[r]) /\ Fresh(r)'
             /\ Matches(session'[r], job'[r])
             /\ Trails(ledger', checkpoint', session'[r], job'[r])
             /\ Trails(ledger', client'.view, session'[r], job'[r])
  <2>1. job'[r].pc \in {"idle", "down"} /\ (session'[r] = s \/ ~session'[r].on)
    BY <1>2, <1>4
  <2> QED
    BY <1>3, <1>5, <1>6, <2>1
       DEF Reopens, Reopening, Fresh, Opening, Matches, Shelving, Trails, Recovering
<1> QED
  BY <1>5, <1>7 DEF Ordered

\* A verdict of success is about the newest plan, and all of it is verified.
LEMMA VerdictFinished ==
    ASSUME FInv, Calm, client.view.on,
           CheckpointVerdict(client.view, client.owned, client.by) = "TERMINAL_SUCCESS"
    PROVE  Finished
<1> DEFINE c == client.view
<1>1. /\ Ordered /\ c \in Checkpoints /\ c.rev \in Revisions /\ TypeOK
      /\ session \in [Runtimes -> Sessions] /\ job \in [Runtimes -> Jobs]
      /\ checkpoint \in Checkpoints
  BY WorkShapes
     DEF FInv, WInv, RInv, LBase, HInv, SInv, BInv, IInv, TypeOK, CallBase,
         LifecycleTypeOK, Calls, Checkpoints
<1>2. ~LedgerConflict(c) /\ AllStepsVerified(c)
  BY VerdictFacts
<1>3. Complete(ledger, c.rev, Planned(c))
  <2> SUFFICES ASSUME NEW t \in Planned(c)
               PROVE  ledger[<<c.rev, t>>].state = "VERIFIED"
    BY DEF Complete
  <2>1. t \in Referring(c) /\ LedgerOf(c, t) = "VERIFIED"
    BY <1>2 DEF AllStepsVerified
  <2>2. c.steps[t].ref = c.rev /\ c.steps[t].ref # 0
    BY <1>2, <2>1 DEF LedgerConflict, Referring
  <2> QED
    BY <2>1, <2>2 DEF LedgerOf
<1>4. ASSUME NEW rev \in Revisions, NEW plan, Behind(ledger, c, rev, plan)
      PROVE  Complete(ledger, rev, plan)
  BY <1>1, <1>3, <1>4, RevisionOrder DEF Behind
<1>5. ASSUME NEW r \in Runtimes
      PROVE  Whole(ledger, session[r], job[r])
  <2>1. session[r].rev \in Revisions /\ job[r].view.rev \in Revisions
    BY <1>1 DEF Sessions, Jobs, Checkpoints
  <2> QED
    BY <1>1, <1>4, <2>1 DEF Ordered, Trails, Whole
<1>6. checkpoint.on => Complete(ledger, checkpoint.rev, Planned(checkpoint))
  BY <1>1, <1>4 DEF Ordered, Checkpoints
<1> QED
  BY <1>5, <1>6 DEF Finished

LEMMA CallOrdered ==
    ASSUME FInv, Call, Calm
    PROVE  Ordered'
<1>1. CallBase /\ Ordered /\ checkpoint \in Checkpoints
  BY DEF FInv, WInv, RInv, LBase, HInv, SInv, BInv, IInv, TypeOK
<1>2. /\ UNCHANGED <<ledger, session, job>>
      /\ checkpoint' \in {checkpoint, NoCheckpoint} /\ ~NoCheckpoint.on
  BY CallsErase, EmptyTyped
<1>3. \/ ~client'.view.on
      \/ client'.view = client.view
      \/ client'.view = checkpoint
  BY <1>1, CallClasses
<1>4. \A r \in Runtimes :
          /\ Reopens(ledger', session'[r]) /\ Fresh(r)'
          /\ Matches(session'[r], job'[r])
          /\ Trails(ledger', checkpoint', session'[r], job'[r])
          /\ Trails(ledger', client'.view, session'[r], job'[r])
  BY <1>1, <1>2, <1>3 DEF Ordered, Fresh, Oblig, Trails
<1>5. checkpoint'.on /\ client'.view.on =>
          Behind(ledger', client'.view, checkpoint'.rev, Planned(checkpoint'))
  BY <1>1, <1>2, <1>3, BehindItself DEF Ordered, Checkpoints
<1>6. Succeeded' => Finished
  <2>1. Succeeded => Finished
    BY <1>1 DEF Ordered
  <2>2. Succeeded' => \/ Succeeded
                      \/ /\ client.view.on
                         /\ CheckpointVerdict(client.view, client.owned, client.by)
                                = "TERMINAL_SUCCESS"
    BY <1>1, CallClasses DEF Succeeded
  <2> QED
    BY <2>1, <2>2, VerdictFinished
<1>7. Finished => Finished'
  BY <1>2 DEF Finished
<1> QED
  BY <1>4, <1>5, <1>6, <1>7 DEF Ordered

\* Only a call that is sent reaches the phone.
LEMMA OnlySendDelivers ==
    ASSUME NEW r \in Runtimes, Acts(r) \/ Puts(r), ~Send(r)
    PROVE  delivered' = delivered
  BY DEF Acts, Run, RunFenced, RunRefused, RunNothing, RunUnbound,
     RunUnauthorized, RunAllowed, RunLosesLease, BeforeExecution,
     UnchangedByCalls, Execute, Claim, Create, Authorize, Dispatch,
     Respond, Verify, Unknown, UnchangedByExecutor, Puts, Put, PutFails,
     Withdraw, Cancel, CancelPut, CancelPutFails, AskPlanner, Replan, Crash,
     Recover, RecoverRead, Acquire, Reconcile, Decide

LEMMA FinalInit == LifecycleInit => FInv
<1> SUFFICES ASSUME LifecycleInit
             PROVE  FInv
  OBVIOUS
<1>1. /\ life = NoLife /\ client = NoCall /\ checkpoint = NoCheckpoint
      /\ \A r \in Runtimes : session[r] = NoSession /\ job[r] = AtRest
  BY DEF LifecycleInit, Init
<1>2. ~NoSession.on /\ AtRest.pc = "idle"
  BY DEF NoSession, AtRest
<1>3. ~Succeeded
  BY <1>1, EmptyTyped DEF Succeeded
<1> QED
  BY <1>1, <1>2, <1>3, NeededInit, EmptyTyped
     DEF FInv, Ordered, Reopens, Reopening, Fresh, Opening, Matches, Shelving, Trails, Recovering

LEMMA FinalStep ==
    ASSUME FInv, [LifecycleNext]_lifecycleVars
    PROVE  FInv'
<1>1. WInv'
  BY NeededStep DEF FInv
<1> SUFFICES ASSUME Calm'
             PROVE  Ordered'
  BY <1>1 DEF FInv
<1>2. CASE UNCHANGED lifecycleVars
  <2>1. UNCHANGED <<ledger, checkpoint, session, job, history, life, client>>
    BY <1>2 DEF lifecycleVars, vars
  <2> QED
    BY <2>1 DEF FInv, Calm, Disturbed, Ordered, Fresh, Oblig, Finished, Succeeded
<1>3. CASE TaskStep
  <2>1. CASE Admit /\ ~life.on /\ UNCHANGED <<life, client>>
    BY <2>1, AdmitOrdered
  <2>2. CASE ExpireLease /\ UNCHANGED <<cancelling, life, client>>
    <3>1. UNCHANGED <<ledger, checkpoint, session, job, history, life, client>>
      BY <2>2 DEF ExpireLease
    <3> QED
      BY <3>1 DEF FInv, Calm, Disturbed, Ordered, Fresh, Oblig, Finished, Succeeded
  <2> QED
    BY <1>3, <2>1, <2>2, ActsOrdered, TaskCases
<1>4. CASE Call
  <2>1. Calm
    BY <1>4, CallsErase DEF Calm, Disturbed
  <2> QED
    BY <1>4, <2>1, CallOrdered
<1> QED
  BY <1>2, <1>3, <1>4 DEF LifecycleNext

\* evaluate_dynamic_task_terminal_candidate: once a task is called a success,
\* no session, no checkpoint and no recovery still has a step to send, for any
\* plan, any number of runtimes, crashes, replans and storage faults, where
\* nothing was withdrawn, no cancellation put late and no two runtimes overlapped.
THEOREM LifecycleSuccessIsFinal == LifecycleSpec => SuccessIsFinal
<1> DEFINE Still == /\ life.class = "TERMINAL_SUCCESS"
                    /\ history.stopped = {} /\ ~Disturbed
                    => delivered' = delivered
<1>1. ASSUME FInv, [LifecycleNext]_lifecycleVars
      PROVE  Still
  <2> SUFFICES ASSUME life.class = "TERMINAL_SUCCESS", Calm
               PROVE  delivered' = delivered
    BY DEF Calm
  <2>1. Finished /\ SInv /\ \A r \in Runtimes : StepPlanned(r)
    BY <1>1 DEF FInv, Ordered, Succeeded, WInv, RInv, LBase, HInv, Planning
  <2>2. ASSUME NEW r \in Runtimes
        PROVE  ~Send(r)
    <3> SUFFICES ASSUME job[r].pc = "send"
                 PROVE  FALSE
      BY DEF Send, At
    <3>1. ledger[Oblig(r)].state = "DISPATCHED" /\ session[r].on
      BY <2>1 DEF SInv, Calm, Disturbed, InTune, HasSession, Recovering
    <3>2. job[r].step \in InPlan(session[r])
      BY <2>1 DEF StepPlanned, Working
    <3> QED
      BY <2>1, <3>1, <3>2 DEF Finished, Whole, Complete, Oblig
  <2>3. \A r \in Runtimes : Acts(r) \/ Puts(r) => delivered' = delivered
    BY <2>2, OnlySendDelivers
  <2>4. Call => delivered' = delivered
    BY CallsErase
  <2>5. TaskStep => delivered' = delivered
    BY <2>3, TaskCases DEF Admit, ExpireLease
  <2> QED
    BY <1>1, <2>4, <2>5 DEF LifecycleNext, lifecycleVars, vars
<1>2. FInv /\ [LifecycleNext]_lifecycleVars => [Still]_lifecycleVars
  BY <1>1
<1> QED
  BY <1>2, FinalInit, FinalStep, PTL DEF LifecycleSpec, SuccessIsFinal

=============================================================================
