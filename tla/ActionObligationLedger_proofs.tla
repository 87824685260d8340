-------------------- MODULE ActionObligationLedger_proofs --------------------
(* Proofs about the obligation ledger, for every number of obligations,      *)
(* callers and epochs and for every capacity and window.                     *)
EXTENDS ActionObligationLedger, FiniteSetTheorems, SequenceTheorems,
        WellFoundedInduction, TLAPS

-----------------------------------------------------------------------------
(* Facts about the operators the ledger is built from.                       *)

\* The identifiers are finitely many naturals.
LEMMA ObligationsFinite ==
    /\ IsFiniteSet(Obligations)
    /\ Obligations \subseteq Nat
  BY CapacityAssumption, FS_Interval DEF Obligations

\* The order (updated_at, obligation_id) has a least element in every set of
\* stored records: the set of those at least as old is smallest there.
LEMMA OldestExists ==
    ASSUME NEW store, NEW S \in SUBSET Obligations, S # {},
           \A o \in S : store[o].updated \in Nat
    PROVE  \E o \in S : \A p \in S : OlderOrSame(store, o, p)
<1> DEFINE UpTo(o) == {p \in S : OlderOrSame(store, p, o)}
           Family == {UpTo(o) : o \in S}
<1>1. S \subseteq Nat /\ IsFiniteSet(S)
  BY ObligationsFinite, FS_Subset
<1>2. Family \subseteq FiniteSubsetsOf(S)
  BY <1>1, FS_Subset DEF FiniteSubsetsOf
<1>3. Family # {}
  OBVIOUS
<1>4. PICK D \in Family :
         \A E \in Family : <<E, D>> \notin StrictSubsetOrdering(S)
  BY <1>2, <1>3, FS_StrictSubsetOrderingWellFounded, WFMin
<1>5. PICK o \in S : D = UpTo(o)
  OBVIOUS
<1>6. ASSUME NEW p \in S
      PROVE  OlderOrSame(store, o, p)
  <2>1. SUFFICES ASSUME ~OlderOrSame(store, o, p)
                 PROVE  FALSE
    OBVIOUS
  <2>2. ASSUME NEW q \in S, OlderOrSame(store, q, p)
        PROVE  OlderOrSame(store, q, o)
    <3>1. /\ q \in Nat /\ p \in Nat /\ o \in Nat
          /\ store[q].updated \in Nat /\ store[p].updated \in Nat
          /\ store[o].updated \in Nat
      BY <1>1
    <3> QED
      BY <3>1, <2>1, <2>2 DEF OlderOrSame
  <2>3. o \in UpTo(o) /\ o \notin UpTo(p)
    BY <1>1, <2>1 DEF OlderOrSame
  <2>4. <<UpTo(p), UpTo(o)>> \in StrictSubsetOrdering(S)
    BY <2>2, <2>3 DEF StrictSubsetOrdering
  <2> QED
    BY <1>4, <1>5, <2>4
<1> QED
  BY <1>6

\* What a store maps each obligation to.
Stores == [Obligations -> Records \cup {NoRecord}]

\* A stored record is told from an empty place by its state.
LEMMA PresentRecord ==
    ASSUME NEW store \in Stores, NEW o \in Obligations
    PROVE  /\ o \in Present(store) <=> store[o] \in Records
           /\ o \in Present(store) <=> store[o].state \in ObligationStates
           /\ store[o].updated \in Nat
  BY CapacityAssumption
     DEF Stores, Present, Records, NoRecord, Times, ObligationStates

\* _oldest_archivable_id finds a record of the set it looks in.
LEMMA OldestArchivableIsArchivable ==
    ASSUME NEW store \in Stores, Archivable(store) # {}
    PROVE  OldestArchivable(store) \in Archivable(store)
<1>1. Archivable(store) \in SUBSET Obligations
  BY DEF Archivable, Live, Present
<1>2. \A o \in Archivable(store) : store[o].updated \in Nat
  BY <1>1, PresentRecord
<1>3. \E o \in Archivable(store) : \A p \in Archivable(store) : OlderOrSame(store, o, p)
  BY <1>1, <1>2, OldestExists
<1> QED
  BY <1>3 DEF OldestArchivable

\* So does the choice of the archive record to drop.
LEMMA OldestPresentIsPresent ==
    ASSUME NEW store \in Stores, Present(store) # {}
    PROVE  OldestPresent(store) \in Present(store)
<1>1. Present(store) \in SUBSET Obligations
  BY DEF Present
<1>2. \A o \in Present(store) : store[o].updated \in Nat
  BY <1>1, PresentRecord
<1>3. \E o \in Present(store) : \A p \in Present(store) : OlderOrSame(store, o, p)
  BY <1>1, <1>2, OldestExists
<1> QED
  BY <1>3 DEF OldestPresent

\* The window keeps its shape and its bound when an event is remembered.
LEMMA RememberBounded ==
    ASSUME NEW window \in Seq(EventNames), NEW event \in EventNames,
           Len(window) <= EventWindow
    PROVE  /\ Remember(window, event) \in Seq(EventNames)
           /\ Len(Remember(window, event)) <= EventWindow
<1> DEFINE grown == Append(window, event)
<1>1. grown \in Seq(EventNames) /\ Len(grown) = Len(window) + 1
  OBVIOUS
<1>2. EventWindow \in Nat /\ Len(window) \in Nat
  BY CapacityAssumption
<1>3. CASE Len(grown) > EventWindow
  <2>1. grown # << >>
    BY <1>1, <1>2, EmptySeq
  <2>2. Tail(grown) \in Seq(EventNames) /\ Len(Tail(grown)) = Len(grown) - 1
    BY <1>1, <2>1, HeadTailProperties
  <2>3. Remember(window, event) = Tail(grown)
    BY <1>3 DEF Remember
  <2> QED
    BY <1>1, <1>2, <2>2, <2>3
<1>4. CASE ~(Len(grown) > EventWindow)
  <2>1. Remember(window, event) = grown
    BY <1>4 DEF Remember
  <2> QED
    BY <1>1, <1>2, <1>4, <2>1
<1> QED
  BY <1>3, <1>4

\* The transition table leaves no settled state, and no rule enters CREATED.
LEMMA TableFacts ==
    ASSUME NEW from, NEW to, NEW reason, from \in ObligationStates,
           MayMove(from, to, reason)
    PROVE  /\ from \notin Settled
           /\ to \in ObligationStates \ {"CREATED"}
  BY DEF MayMove, Transitions, ObligationStates, Settled

\* The events that callers name are of the expected shape.
LEMMA EventNamesHold ==
    /\ \A o \in 0..NumObligations, s \in ObligationStates :
           /\ <<"ARCHIVED", "rotation", o>> \in EventNames
           /\ <<"CREATED", "create", o>> \in EventNames
           /\ <<s, "executor", o>> \in EventNames
           /\ <<s, "recovery", o>> \in EventNames
    /\ \A e \in Epochs : <<"UNKNOWN_SIDE_EFFECT", "reconcile", e>> \in EventNames
  BY DEF EventNames, ObligationStates

-----------------------------------------------------------------------------
(* The inductive invariant. Types, bounds and the agreement of the archive   *)
(* are not inductive as they stand: the record a creator is about to copy    *)
(* was read before, under a lock since released. JobsSound says why the copy *)
(* is still right: its victim is settled, and nothing leaves a settled state.*)

JobSound(c) ==
    /\ job[c].pc # "idle" => job[c].target \in Obligations
    /\ job[c].pc = "archive" =>
           /\ job[c].victim \in Obligations
           /\ job[c].copy \in Records
           /\ job[c].copy.state \in Settled
           /\ records[job[c].victim].state = job[c].copy.state

JobsSound == \A c \in Callers : JobSound(c)

IInv == TypeOK /\ StoreBounds /\ ArchiveAgrees /\ JobsSound

\* What the initial store looks like.
LEMMA EmptyStore ==
    ASSUME NEW store, store = [o \in Obligations |-> NoRecord]
    PROVE  /\ store \in Stores
           /\ Present(store) = {} /\ Live(store) = {}
           /\ Cardinality(Present(store)) = 0 /\ Cardinality(Live(store)) = 0
  BY FS_EmptySet DEF Stores, Present, Live

\* The initial state satisfies the inductive invariant.
THEOREM InitEstablishes == Init => IInv
<1> SUFFICES ASSUME Init
             PROVE  IInv
  OBVIOUS
<1>1. TypeOK
  BY EmptyStore, CapacityAssumption
     DEF Init, TypeOK, Stores, Idle, Jobs, Times
<1>2. StoreBounds
  BY EmptyStore, CapacityAssumption, EmptySeq DEF Init, StoreBounds
<1>3. ArchiveAgrees
  BY EmptyStore DEF Init, ArchiveAgrees
<1>4. JobsSound
  BY DEF Init, JobsSound, JobSound, Idle
<1> QED
  BY <1>1, <1>2, <1>3, <1>4 DEF IInv

\* Both payloads are stores.
LEMMA StoresTyped == TypeOK => records \in Stores /\ archive \in Stores
  BY DEF TypeOK, Stores

\* Sets of obligations taken from a store are finite.
LEMMA CountsAreNaturals ==
    ASSUME NEW store
    PROVE  /\ IsFiniteSet(Present(store)) /\ IsFiniteSet(Live(store))
           /\ Cardinality(Present(store)) \in Nat
           /\ Cardinality(Live(store)) \in Nat
<1>1. Present(store) \in SUBSET Obligations /\ Live(store) \in SUBSET Obligations
  BY DEF Present, Live
<1> QED
  BY <1>1, ObligationsFinite, FS_Subset, FS_CardinalityType

\* A tombstone is a stored record with the state it had.
LEMMA TombstoneKeepsState ==
    ASSUME NEW record \in Records, NEW time \in Times
    PROVE  /\ Tombstone(record, time) \in Records
           /\ Tombstone(record, time).state = record.state
           /\ Tombstone(record, time).archived
<1>1. Later(record.updated, time) \in Times
  BY DEF Later, Records
<1> QED
  BY <1>1 DEF Tombstone, Records

\* The trim that a create() makes under the lock: identities, outcomes and
\* tombstones stay, and there is room for one more full record.
LEMMA TrimmedFacts ==
    ASSUME TypeOK, StoreBounds, ~Saturated, NEW c \in Callers
    PROVE  /\ Trimmed(c) \in Stores
           /\ \A o \in Obligations :
                  /\ Trimmed(c)[o].state = records[o].state
                  /\ records[o].archived => Trimmed(c)[o].archived
           /\ Present(Trimmed(c)) = Present(records)
           /\ Cardinality(Live(Trimmed(c))) < MaxObligations
<1>1. records \in Stores /\ job[c].time \in Times
  BY StoresTyped DEF TypeOK, Jobs
<1>2. CASE Cardinality(Live(records)) < MaxObligations
  <2>1. ~(Cardinality(Live(records)) >= MaxObligations)
    BY <1>2, CountsAreNaturals, CapacityAssumption
  <2>2. Trimmed(c) = records
    BY <2>1 DEF Trimmed
  <2> QED
    BY <1>1, <1>2, <2>2
<1>3. CASE ~(Cardinality(Live(records)) < MaxObligations)
  <2> DEFINE v == OldestArchivable(records)
             T == [records EXCEPT ![v] = Tombstone(records[v], job[c].time)]
  <2>1. Cardinality(Live(records)) >= MaxObligations
    BY <1>3, CountsAreNaturals, CapacityAssumption
  <2>2. Archivable(records) # {}
    BY <2>1 DEF Saturated
  <2>3. v \in Live(records) /\ v \in Obligations /\ v \in Present(records)
    BY <1>1, <2>2, OldestArchivableIsArchivable
       DEF Archivable, Live, Present
  <2>4. records[v] \in Records
    BY <1>1, <2>3, PresentRecord
  <2>5. Trimmed(c) = T
    BY <2>1 DEF Trimmed
  <2> HIDE DEF v
  <2>6. T \in Stores
    BY <1>1, <2>3, <2>4, TombstoneKeepsState DEF Stores
  <2>7. \A o \in Obligations :
           /\ T[o].state = records[o].state
           /\ records[o].archived => T[o].archived
    BY <1>1, <2>3, <2>4, TombstoneKeepsState DEF Stores
  <2>8. Present(T) = Present(records)
    <3>1. ASSUME NEW o \in Obligations
          PROVE  o \in Present(T) <=> o \in Present(records)
      BY <1>1, <2>6, <2>7, PresentRecord
    <3> QED
      BY <3>1 DEF Present
  <2>9. Live(T) = Live(records) \ {v}
    <3>1. T[v].archived
      BY <1>1, <2>3, <2>4, TombstoneKeepsState DEF Stores
    <3>2. \A o \in Obligations : o # v => T[o] = records[o]
      BY <1>1 DEF Stores
    <3> QED
      BY <2>8, <3>1, <3>2 DEF Live, Present
  <2>10. Cardinality(Live(T)) = Cardinality(Live(records)) - 1
    BY <2>3, <2>9, CountsAreNaturals, FS_RemoveElement
  <2>11. Cardinality(Live(records)) <= MaxObligations
    BY DEF StoreBounds
  <2> QED
    BY <2>5, <2>6, <2>7, <2>8, <2>10, <2>11, CountsAreNaturals,
       CapacityAssumption
<1> QED
  BY <1>2, <1>3

-----------------------------------------------------------------------------
(* What a step does to the primary store.                                    *)

\* The body of OutcomeIsForever.
KeepsOutcomes ==
    \A o \in Present(records) :
        /\ o \in Present(records')
        /\ records[o].archived => records'[o].archived
        /\ records[o].state \in Settled => records'[o].state = records[o].state
        /\ records'[o].state = "CREATED" => records[o].state = "CREATED"

\* The new record that create() inserts, beside the trimmed store.
LEMMA InsertFacts ==
    ASSUME TypeOK, StoreBounds, JobsSound, NEW c \in Callers, CreateInserts(c)
    PROVE  /\ records' \in Stores
           /\ \A o \in Obligations \ {job[c].target} :
                  /\ records'[o].state = records[o].state
                  /\ records[o].archived => records'[o].archived
           /\ job[c].target \in Obligations \ Present(records)
           /\ Cardinality(Live(records')) <= MaxObligations
           /\ Cardinality(Present(records')) <= MaxTotalRecords
<1> DEFINE o == job[c].target
           new == [state |-> "CREATED", archived |-> FALSE,
                   updated |-> job[c].time]
           T == Trimmed(c)
<1>1. /\ o \in Obligations /\ records[o] = NoRecord
      /\ ~Saturated /\ Fits(c)
      /\ records' = Inserted(c)
  BY DEF CreateInserts, JobsSound, JobSound, Accepts
<1>2. /\ T \in Stores
      /\ \A q \in Obligations :
             /\ T[q].state = records[q].state
             /\ records[q].archived => T[q].archived
      /\ Cardinality(Live(T)) < MaxObligations
  BY <1>1, TrimmedFacts
<1>3. new \in Records
  BY DEF TypeOK, Jobs, Records, ObligationStates
<1>4. records' = [T EXCEPT ![o] = new]
  BY <1>1 DEF Inserted
<1> HIDE DEF T, new, o
<1>5. records' \in Stores
  BY <1>2, <1>3, <1>4 DEF Stores
<1>6. \A q \in Obligations \ {o} : records'[q] = T[q]
  BY <1>2, <1>4 DEF Stores
<1>7. Live(records') \subseteq Live(T) \cup {o}
  BY <1>6 DEF Live, Present
<1>8. Cardinality(Live(records')) <= MaxObligations
  <2>1. /\ IsFiniteSet(Live(T) \cup {o})
        /\ Cardinality(Live(T) \cup {o}) <= Cardinality(Live(T)) + 1
    BY CountsAreNaturals, FS_AddElement
  <2>2. Cardinality(Live(records')) <= Cardinality(Live(T) \cup {o})
    BY <1>7, <2>1, FS_Subset
  <2>3. Cardinality(Live(T) \cup {o}) \in Nat
    BY <2>1, FS_CardinalityType
  <2> QED
    BY <1>2, <2>1, <2>2, <2>3, CountsAreNaturals, CapacityAssumption
<1>9. Cardinality(Present(records')) <= MaxTotalRecords
  BY <1>1 DEF Fits
<1>10. o \notin Present(records)
  BY <1>1 DEF Present
<1> QED
  BY <1>1, <1>2, <1>5, <1>6, <1>8, <1>9, <1>10 DEF o

\* transition() and recover_interrupted() change the records they are allowed
\* to, keep the tombstone flag and enter neither CREATED nor a new identity.
LEMMA MoveFacts ==
    ASSUME TypeOK, NEW c, NEW o \in Obligations, NEW target, NEW reason,
           NEW event, Move(c, o, target, reason, event)
    PROVE  /\ records' \in Stores
           /\ \A q \in Obligations :
                  /\ q # o => records'[q] = records[q]
                  /\ records'[q].archived = records[q].archived
           /\ records[o].state \in ObligationStates \ Settled
           /\ records'[o].state \in ObligationStates \ {"CREATED"}
<1>1. records \in Stores
  BY StoresTyped
<1>2. o \in Present(records) /\ MayMove(records[o].state, target, reason)
  BY DEF Move
<1>3. records[o] \in Records /\ records[o].state \in ObligationStates
  BY <1>1, <1>2, PresentRecord
<1>4. /\ records[o].state \notin Settled
      /\ target \in ObligationStates \ {"CREATED"}
  BY <1>2, <1>3, TableFacts
<1>5. PICK t \in Times : records' = [records EXCEPT ![o] = Stored(@, target, t)]
  BY DEF Move, CallTimes
<1>6. /\ Stored(records[o], target, t) \in Records
      /\ Stored(records[o], target, t).state = target
      /\ Stored(records[o], target, t).archived = records[o].archived
  BY <1>3, <1>4, <1>5 DEF Stored, Records
<1> QED
  BY <1>1, <1>3, <1>4, <1>5, <1>6 DEF Stores

\* recover_interrupted() in the terms of the store it leaves behind.
LEMMA RecoverFacts ==
    ASSUME TypeOK, NEW c, NEW epoch, RecoverInterrupted(c, epoch)
    PROVE  /\ records' \in Stores
           /\ \A q \in Obligations :
                  /\ records[q].state \notin InFlight => records'[q] = records[q]
                  /\ records[q].state \in InFlight =>
                         records'[q].state = "UNKNOWN_SIDE_EFFECT"
                  /\ records'[q].archived = records[q].archived
<1>1. records \in Stores
  BY StoresTyped
<1>2. PICK t \in Times : records' = Reconciled(t)
  BY DEF RecoverInterrupted, CallTimes
<1>3. ASSUME NEW q \in Obligations, records[q].state \in InFlight
      PROVE  /\ Stored(records[q], "UNKNOWN_SIDE_EFFECT", t) \in Records
             /\ Stored(records[q], "UNKNOWN_SIDE_EFFECT", t).state
                    = "UNKNOWN_SIDE_EFFECT"
             /\ Stored(records[q], "UNKNOWN_SIDE_EFFECT", t).archived
                    = records[q].archived
  <2>1. records[q].state \in ObligationStates
    BY <1>3 DEF InFlight, ObligationStates
  <2>2. records[q] \in Records
    BY <1>1, <2>1, PresentRecord
  <2> QED
    BY <2>2 DEF Stored, Records, ObligationStates
<1> QED
  BY <1>1, <1>2, <1>3 DEF Reconciled, Stores

\* No step forgets an identity, changes an outcome or revives a tombstone.
LEMMA StepKeepsOutcomes == IInv /\ [Next]_vars => KeepsOutcomes
<1> SUFFICES ASSUME IInv, [Next]_vars
             PROVE  KeepsOutcomes
  OBVIOUS
<1> USE DEF IInv
<1>0. records \in Stores
  BY StoresTyped
<1>1. CASE UNCHANGED records
  BY <1>1 DEF KeepsOutcomes, Present
<1>2. ASSUME NEW c \in Callers, CreateInserts(c)
      PROVE  KeepsOutcomes
  <2>1. ASSUME NEW o \in Present(records)
        PROVE  /\ o \in Obligations \ {job[c].target}
               /\ records'[o].state = records[o].state
               /\ records[o].archived => records'[o].archived
    BY <1>2, <2>1, InsertFacts DEF Present
  <2>2. ASSUME NEW o \in Present(records)
        PROVE  o \in Present(records')
    BY <1>0, <1>2, <2>1, InsertFacts, PresentRecord
  <2> QED
    BY <2>1, <2>2 DEF KeepsOutcomes
<1>3. ASSUME NEW c \in Callers, NEW o \in Obligations, NEW target, NEW reason,
             NEW event, Move(c, o, target, reason, event)
      PROVE  KeepsOutcomes
  <2>1. ASSUME NEW q \in Present(records)
        PROVE  /\ q \in Obligations
               /\ q \in Present(records')
    BY <1>0, <1>3, MoveFacts, PresentRecord DEF Present
  <2> QED
    BY <1>3, <2>1, MoveFacts DEF KeepsOutcomes
<1>4. ASSUME NEW c \in Callers, NEW e, RecoverInterrupted(c, e)
      PROVE  KeepsOutcomes
  <2>1. ASSUME NEW q \in Present(records)
        PROVE  /\ q \in Obligations
               /\ q \in Present(records')
    BY <1>0, <1>4, RecoverFacts, PresentRecord
       DEF Present, ObligationStates
  <2> QED
    BY <1>4, <2>1, RecoverFacts DEF KeepsOutcomes, InFlight, Settled
<1>5. CASE Tick
  BY <1>1, <1>5 DEF Tick
<1>6. ASSUME NEW c \in Callers,
             \/ \E o \in Obligations : RotateRead(c, o)
             \/ ArchiveVictim(c)
             \/ CreateReturnsExisting(c)
             \/ CreateRefused(c)
             \/ Abandon(c)
      PROVE  KeepsOutcomes
  BY <1>1, <1>6
     DEF RotateRead, ArchiveVictim, CreateReturnsExisting, CreateRefused, Abandon
<1>7. ASSUME NEW c \in Callers, NEW o \in Obligations,
             ExecutorMove(c, o) \/ RecoveryMove(c, o)
      PROVE  KeepsOutcomes
  BY <1>3, <1>7 DEF ExecutorMove, RecoveryMove
<1>8. CASE UNCHANGED vars
  BY <1>1, <1>8 DEF vars
<1> QED
  BY <1>2, <1>4, <1>5, <1>6, <1>7, <1>8 DEF Next

-----------------------------------------------------------------------------
(* The inductive step, one lemma for each part of the invariant.             *)

\* Rotating and disturbing leave the jobs well formed.
LEMMA DisturbFacts ==
    ASSUME NEW jobs \in [Callers -> Jobs], NEW c
    PROVE  /\ Disturb(c, jobs) \in [Callers -> Jobs]
           /\ \A d \in Callers :
                  /\ Disturb(c, jobs)[d].pc = jobs[d].pc
                  /\ Disturb(c, jobs)[d].target = jobs[d].target
                  /\ Disturb(c, jobs)[d].victim = jobs[d].victim
                  /\ Disturb(c, jobs)[d].copy = jobs[d].copy
  BY DEF Disturb, Jobs

\* A caller at rest is a job like any other.
LEMMA IdleIsJob == Idle \in Jobs
  BY CapacityAssumption DEF Idle, Jobs, Times

\* The primary store keeps its shape.
LEMMA RecordsTyped ==
    ASSUME TypeOK, StoreBounds, JobsSound, [Next]_vars
    PROVE  records' \in Stores
<1>1. CASE UNCHANGED records
  BY <1>1, StoresTyped
<1>2. ASSUME NEW c \in Callers, NEW o \in Obligations,
             ExecutorMove(c, o) \/ RecoveryMove(c, o)
      PROVE  records' \in Stores
  BY <1>2, MoveFacts DEF ExecutorMove, RecoveryMove
<1>3. ASSUME NEW c \in Callers,
             \/ \E o \in Obligations : RotateRead(c, o)
             \/ ArchiveVictim(c)
             \/ CreateReturnsExisting(c)
             \/ CreateRefused(c)
             \/ Abandon(c)
      PROVE  records' \in Stores
  BY <1>1, <1>3
     DEF RotateRead, ArchiveVictim, CreateReturnsExisting, CreateRefused, Abandon
<1> QED
  BY <1>1, <1>2, <1>3, InsertFacts, RecoverFacts DEF Next, Tick, vars

\* What the copy step does to the archive: it drops at most its oldest record,
\* and only the victim may be new in it.
LEMMA ArchiveVictimFacts ==
    ASSUME TypeOK, StoreBounds, JobsSound, NEW c \in Callers, ArchiveVictim(c)
    PROVE  /\ archive' \in Stores
           /\ evicted' \subseteq Obligations
           /\ \A o \in Present(archive') :
                  \/ o \in Present(archive) /\ archive'[o].state = archive[o].state
                  \/ /\ o = job[c].victim
                     /\ archive'[o].state = job[c].copy.state
           /\ Cardinality(Present(archive')) <= ArchiveCapacity
<1> DEFINE v == job[c].victim
           makesRoom == Cardinality(Present(archive)) >= ArchiveCapacity
           dropped == IF makesRoom THEN {OldestPresent(archive)} ELSE {}
           kept == [o \in Obligations |->
                       IF o \in dropped THEN NoRecord ELSE archive[o]]
           moved == [job[c].copy EXCEPT !.archived = TRUE]
<1>1. archive \in Stores
  BY StoresTyped
<1>2. Cardinality(Present(archive)) <= ArchiveCapacity
  BY DEF StoreBounds
<1>3. CASE UNCHANGED <<archive, evicted>>
  BY <1>1, <1>2, <1>3 DEF TypeOK, Present
<1>4. CASE /\ v \notin Present(archive)
           /\ archive' = [kept EXCEPT ![v] = moved]
           /\ evicted' = evicted \cup dropped
  <2>1. /\ v \in Obligations
        /\ moved \in Records
        /\ moved.state = job[c].copy.state
    BY DEF ArchiveVictim, JobsSound, JobSound, Records
  <2>2. dropped \subseteq Present(archive)
    <3>1. CASE makesRoom
      <4>1. Present(archive) # {}
        BY <3>1, FS_EmptySet, CapacityAssumption
      <4> QED
        BY <1>1, <3>1, <4>1, OldestPresentIsPresent
    <3> QED
      BY <3>1
  <2>3. Present(archive) \subseteq Obligations
    BY DEF Present
  <2> HIDE DEF v, dropped, moved
  <2>4. archive' \in Stores
    BY <1>1, <1>4, <2>1 DEF Stores
  <2>5. \A o \in Obligations :
           archive'[o] = IF o = v THEN moved
                         ELSE IF o \in dropped THEN NoRecord ELSE archive[o]
    BY <1>4, <2>1
  <2>6. Present(archive') = (Present(archive) \ dropped) \cup {v}
    <3>1. moved # NoRecord
      BY <2>1 DEF Records, NoRecord, ObligationStates
    <3> QED
      BY <1>4, <2>1, <2>2, <2>5, <3>1 DEF Present
  <2>7. Cardinality(Present(archive) \ dropped) < ArchiveCapacity
    <3>1. CASE makesRoom
      <4>1. dropped = {OldestPresent(archive)}
        BY <3>1 DEF dropped
      <4>2. Cardinality(Present(archive) \ dropped)
               = Cardinality(Present(archive)) - 1
        BY <2>2, <4>1, CountsAreNaturals, FS_RemoveElement
      <4> QED
        BY <1>2, <4>2, CountsAreNaturals, CapacityAssumption
    <3>2. CASE ~makesRoom
      <4>1. Present(archive) \ dropped = Present(archive)
        BY <3>2 DEF dropped
      <4> QED
        BY <3>2, <4>1, CountsAreNaturals, CapacityAssumption
    <3> QED
      BY <3>1, <3>2
  <2>8. Cardinality(Present(archive')) <= ArchiveCapacity
    <3>1. IsFiniteSet(Present(archive) \ dropped)
      BY CountsAreNaturals, FS_Difference
    <3>2. Cardinality(Present(archive) \ dropped) \in Nat
      BY <3>1, FS_CardinalityType
    <3>3. Cardinality((Present(archive) \ dropped) \cup {v})
             <= Cardinality(Present(archive) \ dropped) + 1
      <4> DEFINE rest == Present(archive) \ dropped
      <4> HIDE DEF rest
      <4>1. IsFiniteSet(rest) /\ Cardinality(rest) \in Nat
        BY <3>1, <3>2 DEF rest
      <4>2. Cardinality(rest \cup {v}) <= Cardinality(rest) + 1
        <5>1. Cardinality(rest \cup {v})
                 = IF v \in rest THEN Cardinality(rest) ELSE Cardinality(rest) + 1
          BY <4>1, FS_AddElement
        <5> QED
          BY <4>1, <5>1
      <4> QED
        BY <4>2 DEF rest
    <3> QED
      BY <2>6, <2>7, <3>2, <3>3, CountsAreNaturals, CapacityAssumption
  <2>9. evicted' \subseteq Obligations
    BY <1>4, <2>2, <2>3 DEF TypeOK
  <2> QED
    BY <2>1, <2>2, <2>3, <2>4, <2>5, <2>6, <2>8, <2>9 DEF v
<1>5. \/ UNCHANGED <<archive, evicted>>
      \/ /\ v \notin Present(archive)
         /\ archive' = [kept EXCEPT ![v] = moved]
         /\ evicted' = evicted \cup dropped
  BY DEF ArchiveVictim
<1> QED
  BY <1>3, <1>4, <1>5

\* The windows keep their shape and their bound.
WindowOK(window) == window \in Seq(EventNames) /\ Len(window) <= EventWindow

\* The idempotency windows stay windows of event names, whatever the call.
LEMMA WindowsKept ==
    ASSUME TypeOK, StoreBounds, JobsSound, [Next]_vars
    PROVE  WindowOK(events') /\ WindowOK(archiveEvents')
<1>1. WindowOK(events) /\ WindowOK(archiveEvents)
  BY DEF TypeOK, StoreBounds, WindowOK
<1>2. Obligations \subseteq 0..NumObligations
  BY CapacityAssumption DEF Obligations
<1>3. ASSUME NEW window, WindowOK(window), NEW event \in EventNames
      PROVE  WindowOK(Remember(window, event))
  BY <1>3, RememberBounded DEF WindowOK
<1>4. ASSUME NEW c \in Callers, ArchiveVictim(c)
      PROVE  WindowOK(archiveEvents')
  <2>1. job[c].victim \in 0..NumObligations
    BY <1>2, <1>4 DEF ArchiveVictim, JobsSound, JobSound
  <2>2. <<"ARCHIVED", "rotation", job[c].victim>> \in EventNames
    BY <2>1, EventNamesHold DEF ObligationStates
  <2> QED
    BY <1>1, <1>3, <1>4, <2>2 DEF ArchiveVictim
<1>5. ASSUME NEW c \in Callers, CreateInserts(c) \/ CreateReturnsExisting(c)
      PROVE  WindowOK(events')
  <2>1. job[c].target \in 0..NumObligations
    BY <1>2, <1>5
       DEF CreateInserts, CreateReturnsExisting, JobsSound, JobSound
  <2>2. <<"CREATED", "create", job[c].target>> \in EventNames
    BY <2>1, EventNamesHold DEF ObligationStates
  <2> QED
    BY <1>1, <1>3, <1>5, <2>2 DEF CreateInserts, CreateReturnsExisting
<1>6. ASSUME NEW c \in Callers, NEW o \in Obligations,
             ExecutorMove(c, o) \/ RecoveryMove(c, o)
      PROVE  WindowOK(events')
  <2>1. PICK event \in EventNames : events' = Remember(events, event)
    BY <1>2, <1>6, EventNamesHold
       DEF ExecutorMove, RecoveryMove, Move, Settled, ObligationStates
  <2> QED
    BY <1>1, <1>3, <2>1
<1>7. ASSUME NEW c \in Callers, NEW e \in Epochs, RecoverInterrupted(c, e)
      PROVE  WindowOK(events')
  BY <1>1, <1>3, <1>7, EventNamesHold DEF RecoverInterrupted
<1>8. ASSUME UNCHANGED events PROVE WindowOK(events')
  BY <1>1, <1>8
<1>9. ASSUME UNCHANGED archiveEvents PROVE WindowOK(archiveEvents')
  BY <1>1, <1>9
<1>10. WindowOK(events')
  BY <1>5, <1>6, <1>7, <1>8
     DEF Next, Tick, RotateRead, ArchiveVictim, CreateRefused, Abandon, vars
<1>11. WindowOK(archiveEvents')
  BY <1>4, <1>9
     DEF Next, Tick, RotateRead, CreateInserts, CreateReturnsExisting,
         CreateRefused, Abandon, ExecutorMove, RecoveryMove, Move,
         RecoverInterrupted, vars
<1> QED
  BY <1>10, <1>11

\* What a RotateRead leaves in the caller's hands.
LEMMA RotateReadFacts ==
    ASSUME TypeOK, NEW c \in Callers, NEW o \in Obligations, RotateRead(c, o)
    PROVE  /\ job'[c] \in Jobs
           /\ job'[c].target \in Obligations
           /\ \A d \in Callers \ {c} : job'[d] = job[d]
           /\ job'[c].pc = "archive" =>
                  /\ job'[c].victim \in Obligations
                  /\ job'[c].copy \in Records
                  /\ job'[c].copy.state \in Settled
                  /\ records[job'[c].victim] = job'[c].copy
<1> DEFINE full == Cardinality(Live(records)) >= MaxObligations
           rotates == full /\ Archivable(records) # {}
           victim == OldestArchivable(records)
           next == [pc |-> IF rotates THEN "archive" ELSE "create",
                    target |-> o,
                    victim |-> IF rotates THEN victim ELSE 0,
                    copy |-> IF rotates THEN records[victim] ELSE NoRecord,
                    time |-> clock,
                    disturbed |-> FALSE]
<1>1. job' = [job EXCEPT ![c] = next]
  BY DEF RotateRead
<1>2. ASSUME rotates
      PROVE  /\ victim \in Obligations
             /\ records[victim] \in Records
             /\ records[victim].state \in Settled
  <2>1. records \in Stores
    BY StoresTyped
  <2>2. victim \in Archivable(records)
    BY <1>2, <2>1, OldestArchivableIsArchivable
  <2>3. /\ victim \in Obligations /\ victim \in Present(records)
        /\ records[victim].state \in Settled
    BY <2>2 DEF Archivable, Live, Present
  <2> QED
    BY <2>1, <2>3, PresentRecord
<1> HIDE DEF rotates, victim
<1>3. o \in 0..NumObligations /\ 0 \in 0..NumObligations
  BY CapacityAssumption DEF Obligations
<1>4. rotates => victim \in 0..NumObligations
  BY <1>2, CapacityAssumption DEF Obligations
<1>5. next \in Jobs
  BY <1>2, <1>3, <1>4 DEF TypeOK, Jobs
<1>6. next.pc = "archive" => rotates
  OBVIOUS
<1>7. job'[c] = next
  BY <1>1 DEF TypeOK
<1>8. \A d \in Callers \ {c} : job'[d] = job[d]
  BY <1>1 DEF TypeOK
<1> QED
  BY <1>2, <1>5, <1>6, <1>7, <1>8

\* The jobs keep their shape, and a copy waiting to be archived stays right
\* because its victim is settled.
LEMMA JobsKept ==
    ASSUME IInv, [Next]_vars
    PROVE  job' \in [Callers -> Jobs] /\ JobsSound'
<1> USE DEF IInv
<1>0. job \in [Callers -> Jobs] /\ records \in Stores
  BY StoresTyped DEF TypeOK
<1>1. ASSUME NEW d \in Callers, job'[d].pc # "idle",
             /\ job'[d].pc = job[d].pc /\ job'[d].target = job[d].target
             /\ job'[d].victim = job[d].victim /\ job'[d].copy = job[d].copy
      PROVE  JobSound(d)'
  <2>1. JobSound(d)
    BY DEF JobsSound
  <2>2. ASSUME job[d].pc = "archive"
        PROVE  records'[job[d].victim].state = records[job[d].victim].state
    <3>1. /\ job[d].victim \in Obligations
          /\ records[job[d].victim].state \in Settled
      BY <2>1, <2>2 DEF JobSound
    <3>2. job[d].victim \in Present(records)
      BY <1>0, <3>1, PresentRecord DEF Settled, ObligationStates
    <3> QED
      BY <3>1, <3>2, StepKeepsOutcomes DEF KeepsOutcomes
  <2> QED
    BY <1>1, <2>1, <2>2 DEF JobSound
<1>2. ASSUME NEW d \in Callers, job'[d].pc = "idle"
      PROVE  JobSound(d)'
  BY <1>2 DEF JobSound
<1>3. CASE UNCHANGED job
  BY <1>0, <1>1, <1>2, <1>3 DEF JobsSound
<1>4. ASSUME NEW c \in Callers, job' = [job EXCEPT ![c] = Idle]
      PROVE  job' \in [Callers -> Jobs] /\ JobsSound'
  <2>1. job' \in [Callers -> Jobs]
    BY <1>0, <1>4, IdleIsJob
  <2>2. ASSUME NEW d \in Callers
        PROVE  JobSound(d)'
    BY <1>0, <1>1, <1>2, <1>4 DEF Idle
  <2> QED
    BY <2>1, <2>2 DEF JobsSound
<1>5. ASSUME NEW c \in Callers, NEW jobs \in [Callers -> Jobs],
             job' = Disturb(c, jobs),
             jobs = job \/ jobs = [job EXCEPT ![c] = Idle]
      PROVE  job' \in [Callers -> Jobs] /\ JobsSound'
  <2>1. job' \in [Callers -> Jobs]
    BY <1>5, DisturbFacts
  <2>2. ASSUME NEW d \in Callers
        PROVE  JobSound(d)'
    <3>1. /\ job'[d].pc = jobs[d].pc /\ job'[d].target = jobs[d].target
          /\ job'[d].victim = jobs[d].victim /\ job'[d].copy = jobs[d].copy
      BY <1>5, DisturbFacts
    <3>2. jobs[d] = job[d] \/ jobs[d] = Idle
      BY <1>0, <1>5
    <3> QED
      BY <1>1, <1>2, <3>1, <3>2 DEF Idle
  <2> QED
    BY <2>1, <2>2 DEF JobsSound
<1>6. ASSUME NEW c \in Callers, NEW o \in Obligations, RotateRead(c, o)
      PROVE  job' \in [Callers -> Jobs] /\ JobsSound'
  <2>1. job' \in [Callers -> Jobs]
    BY <1>0, <1>6, RotateReadFacts DEF RotateRead
  <2>2. JobSound(c)'
    BY <1>6, RotateReadFacts DEF RotateRead, JobSound
  <2>3. ASSUME NEW d \in Callers \ {c}
        PROVE  JobSound(d)'
    BY <1>1, <1>2, <1>6, <2>3, RotateReadFacts
  <2> QED
    BY <2>1, <2>2, <2>3 DEF JobsSound
<1>7. ASSUME NEW c \in Callers, ArchiveVictim(c)
      PROVE  job' \in [Callers -> Jobs] /\ JobsSound'
  <2>1. job' = [job EXCEPT ![c].pc = "create", ![c].victim = 0,
                           ![c].copy = NoRecord]
    BY <1>7 DEF ArchiveVictim
  <2>2. job' \in [Callers -> Jobs]
    <3> DEFINE j == [job[c] EXCEPT !.pc = "create", !.victim = 0,
                                   !.copy = NoRecord]
    <3>1. 0 \in 0..NumObligations
      BY CapacityAssumption
    <3>2. j \in Jobs
      BY <1>0, <3>1 DEF Jobs
    <3>3. job' = [job EXCEPT ![c] = j]
      BY <1>0, <2>1
    <3> HIDE DEF j
    <3> QED
      BY <1>0, <3>2, <3>3
  <2>3. JobSound(c)'
    BY <1>0, <1>7, <2>1 DEF JobsSound, JobSound, ArchiveVictim
  <2>4. ASSUME NEW d \in Callers \ {c}
        PROVE  JobSound(d)'
    <3>1. job'[d] = job[d]
      BY <1>0, <2>1
    <3> QED
      BY <1>1, <1>2, <3>1
  <2> QED
    BY <2>2, <2>3, <2>4 DEF JobsSound
<1>8. ASSUME NEW c \in Callers, CreateInserts(c)
      PROVE  job' \in [Callers -> Jobs] /\ JobsSound'
  <2>1. [job EXCEPT ![c] = Idle] \in [Callers -> Jobs]
    BY <1>0, IdleIsJob
  <2> QED
    BY <1>5, <1>8, <2>1 DEF CreateInserts
<1>9. ASSUME NEW c \in Callers, NEW o \in Obligations,
             ExecutorMove(c, o) \/ RecoveryMove(c, o)
      PROVE  job' \in [Callers -> Jobs] /\ JobsSound'
  BY <1>0, <1>5, <1>9 DEF ExecutorMove, RecoveryMove, Move
<1>10. ASSUME NEW c \in Callers, NEW e, RecoverInterrupted(c, e)
       PROVE  job' \in [Callers -> Jobs] /\ JobsSound'
  BY <1>0, <1>5, <1>10 DEF RecoverInterrupted
<1>11. ASSUME NEW c \in Callers,
              CreateReturnsExisting(c) \/ CreateRefused(c) \/ Abandon(c)
       PROVE  job' \in [Callers -> Jobs] /\ JobsSound'
  BY <1>4, <1>11 DEF CreateReturnsExisting, CreateRefused, Abandon
<1> QED
  BY <1>3, <1>6, <1>7, <1>8, <1>9, <1>10, <1>11 DEF Next, Tick, vars

\* Moves and reconciliation neither add records nor turn tombstones over.
LEMMA CountsKept ==
    ASSUME NEW store \in Stores, NEW next \in Stores,
           \A q \in Obligations :
               /\ q \in Present(next) <=> q \in Present(store)
               /\ next[q].archived = store[q].archived
    PROVE  Present(next) = Present(store) /\ Live(next) = Live(store)
  BY DEF Present, Live

\* Every step keeps the shape of the stores and of the calls under way.
LEMMA TypeKept ==
    ASSUME IInv, [Next]_vars
    PROVE  TypeOK'
<1> USE DEF IInv
<1>1. records' \in Stores
  BY RecordsTyped
<1>2. events' \in Seq(EventNames) /\ archiveEvents' \in Seq(EventNames)
  BY WindowsKept DEF WindowOK
<1>3. job' \in [Callers -> Jobs]
  BY JobsKept
<1>4. archive' \in Stores /\ evicted' \subseteq Obligations
  <2>1. ASSUME UNCHANGED <<archive, evicted>>
        PROVE  archive' \in Stores /\ evicted' \subseteq Obligations
    BY <2>1, StoresTyped DEF TypeOK
  <2>2. ASSUME NEW c \in Callers, ArchiveVictim(c)
        PROVE  archive' \in Stores /\ evicted' \subseteq Obligations
    BY <2>2, ArchiveVictimFacts
  <2> QED
    BY <2>1, <2>2
       DEF Next, Tick, RotateRead, CreateInserts, CreateReturnsExisting,
           CreateRefused, Abandon, ExecutorMove, RecoveryMove, Move,
           RecoverInterrupted, vars
<1>5. clock' \in Times
  <2>1. ASSUME Tick
        PROVE  clock' \in Times
    BY <2>1, CapacityAssumption DEF Tick, TypeOK, Times
  <2> QED
    BY <2>1
       DEF Next, RotateRead, ArchiveVictim, CreateInserts,
           CreateReturnsExisting, CreateRefused, Abandon, ExecutorMove,
           RecoveryMove, Move, RecoverInterrupted, vars, TypeOK
<1>6. cleanTrim' \subseteq Obligations
  <2>1. Live(records) \subseteq Obligations
    BY DEF Live, Present
  <2> QED
    BY <2>1
       DEF Next, Tick, RotateRead, ArchiveVictim, CreateInserts,
           CreateReturnsExisting, CreateRefused, Abandon, ExecutorMove,
           RecoveryMove, Move, RecoverInterrupted, vars, TypeOK
<1> QED
  BY <1>1, <1>2, <1>3, <1>4, <1>5, <1>6 DEF TypeOK, Stores

\* Every step keeps every store within its bound.
LEMMA BoundsKept ==
    ASSUME IInv, [Next]_vars
    PROVE  StoreBounds'
<1> USE DEF IInv
<1> DEFINE Fit == /\ Cardinality(Live(records')) <= MaxObligations
                  /\ Cardinality(Present(records')) <= MaxTotalRecords
<1>0. records \in Stores
  BY StoresTyped
<1>1. ASSUME UNCHANGED records
      PROVE  Fit
  BY <1>1 DEF StoreBounds
<1>2. ASSUME NEW c \in Callers, NEW o \in Obligations, NEW target, NEW reason,
             NEW event, Move(c, o, target, reason, event)
      PROVE  Fit
  <2>1. records' \in Stores
    BY <1>2, MoveFacts
  <2>2. \A q \in Obligations : /\ q \in Present(records') <=> q \in Present(records)
                              /\ records'[q].archived = records[q].archived
    BY <1>0, <1>2, <2>1, MoveFacts, PresentRecord
  <2>3. Present(records') = Present(records) /\ Live(records') = Live(records)
    BY <1>0, <2>1, <2>2, CountsKept
  <2> QED
    BY <2>3 DEF StoreBounds
<1>3. ASSUME NEW c \in Callers, NEW e, RecoverInterrupted(c, e)
      PROVE  Fit
  <2>1. records' \in Stores
    BY <1>3, RecoverFacts
  <2>2. \A q \in Obligations : /\ q \in Present(records') <=> q \in Present(records)
                              /\ records'[q].archived = records[q].archived
    BY <1>0, <1>3, <2>1, RecoverFacts, PresentRecord
       DEF InFlight, ObligationStates
  <2>3. Present(records') = Present(records) /\ Live(records') = Live(records)
    BY <1>0, <2>1, <2>2, CountsKept
  <2> QED
    BY <2>3 DEF StoreBounds
<1>4. Fit
  <2>1. ASSUME NEW c \in Callers, CreateInserts(c)
        PROVE  Fit
    BY <2>1, InsertFacts
  <2>2. ASSUME NEW c \in Callers, NEW o \in Obligations,
               ExecutorMove(c, o) \/ RecoveryMove(c, o)
        PROVE  Fit
    BY <1>2, <2>2 DEF ExecutorMove, RecoveryMove
  <2> HIDE DEF Fit
  <2> QED
    BY <1>1, <1>3, <2>1, <2>2
       DEF Next, Tick, RotateRead, ArchiveVictim, CreateReturnsExisting,
           CreateRefused, Abandon, vars
<1>5. Cardinality(Present(archive')) <= ArchiveCapacity
  <2>1. ASSUME UNCHANGED archive
        PROVE  Cardinality(Present(archive')) <= ArchiveCapacity
    BY <2>1 DEF StoreBounds
  <2>2. ASSUME NEW c \in Callers, ArchiveVictim(c)
        PROVE  Cardinality(Present(archive')) <= ArchiveCapacity
    BY <2>2, ArchiveVictimFacts
  <2> QED
    BY <2>1, <2>2
       DEF Next, Tick, RotateRead, CreateInserts, CreateReturnsExisting,
           CreateRefused, Abandon, ExecutorMove, RecoveryMove, Move,
           RecoverInterrupted, vars
<1> QED
  BY <1>4, <1>5, WindowsKept DEF StoreBounds, WindowOK

\* Every step keeps the archive in agreement with the primary.
LEMMA AgreementKept ==
    ASSUME IInv, [Next]_vars
    PROVE  ArchiveAgrees'
<1> USE DEF IInv
<1>1. ASSUME UNCHANGED archive
      PROVE  ArchiveAgrees'
  BY <1>1, StepKeepsOutcomes DEF ArchiveAgrees, KeepsOutcomes
<1>2. ASSUME NEW c \in Callers, ArchiveVictim(c)
      PROVE  ArchiveAgrees'
  <2>1. UNCHANGED records
    BY <1>2 DEF ArchiveVictim
  <2>2. /\ job[c].victim \in Present(records)
        /\ job[c].copy.state \in Settled
        /\ records[job[c].victim].state = job[c].copy.state
    BY <1>2, StoresTyped, PresentRecord
       DEF ArchiveVictim, JobsSound, JobSound, Settled, ObligationStates
  <2> QED
    BY <1>2, <2>1, <2>2, ArchiveVictimFacts DEF ArchiveAgrees
<1> QED
  BY <1>1, <1>2
     DEF Next, Tick, RotateRead, CreateInserts, CreateReturnsExisting,
         CreateRefused, Abandon, ExecutorMove, RecoveryMove, Move,
         RecoverInterrupted, vars

\* Every step preserves the inductive invariant.
THEOREM StepPreserves == IInv /\ [Next]_vars => IInv'
  BY TypeKept, BoundsKept, AgreementKept, JobsKept DEF IInv

\* The inductive invariant holds throughout.
THEOREM Invariance == Spec => []IInv
<1>1. Init => IInv
  BY InitEstablishes
<1>2. IInv /\ [Next]_vars => IInv'
  BY StepPreserves
<1> QED
  BY <1>1, <1>2, PTL DEF Spec

-----------------------------------------------------------------------------
(* The results.                                                              *)

\* Both stores, their windows and every create() under way keep their shape.
THEOREM LedgerTyped == Spec => []TypeOK
<1>1. IInv => TypeOK
  BY DEF IInv
<1> QED
  BY <1>1, Invariance, PTL

\* MAX_OBLIGATIONS, MAX_TOTAL_RECORDS, ARCHIVE_CAPACITY and the idempotency
\* windows hold for any number of concurrent creators and any capacities.
THEOREM LedgerBounded == Spec => []StoreBounds
<1>1. IInv => StoreBounds
  BY DEF IInv
<1> QED
  BY <1>1, Invariance, PTL

\* An archived record always has the primary's final outcome, although
\* _rotate_oldest_terminal copies it from a read whose lock is released.
THEOREM LedgerArchiveAgrees == Spec => []ArchiveAgrees
<1>1. IInv => ArchiveAgrees
  BY DEF IInv
<1> QED
  BY <1>1, Invariance, PTL

\* Identities, outcomes and tombstones are permanent under create(), rotation,
\* transition() and recover_interrupted() by any number of callers.
THEOREM LedgerOutcomesPermanent == Spec => OutcomeIsForever
<1>1. IInv /\ [Next]_vars => [KeepsOutcomes]_vars
  BY StepKeepsOutcomes
<1>2. Spec => [][KeepsOutcomes]_vars
  BY <1>1, Invariance, PTL DEF Spec
<1> QED
  BY <1>2 DEF OutcomeIsForever, KeepsOutcomes

-----------------------------------------------------------------------------
(* Archive first, trim second. What the archive has ever taken in is still   *)
(* there or was dropped by the full archive; a create() that nobody has      *)
(* disturbed since its rotation trims exactly the record it archived.        *)

Moved == Present(archive) \cup evicted

Full(store) ==
    Cardinality(Live(store)) >= MaxObligations /\ Archivable(store) # {}

WindowMoved ==
    \A v \in Obligations :
        InWindow(archiveEvents, <<"ARCHIVED", "rotation", v>>) => v \in Moved

RotationCurrent(c) ==
    ~job[c].disturbed =>
        /\ job[c].pc = "archive" => job[c].victim = OldestArchivable(records)
        /\ job[c].pc = "create" /\ Full(records) =>
               OldestArchivable(records) \in Moved

HInv ==
    /\ HistoryMoved
    /\ WindowMoved
    /\ \A c \in Callers : RotationCurrent(c)

\* An event found in a grown window was there before or is the new one.
LEMMA RememberOrigin ==
    ASSUME NEW window \in Seq(EventNames), NEW event \in EventNames, NEW e,
           InWindow(Remember(window, event), e)
    PROVE  InWindow(window, e) \/ e = event
<1> DEFINE grown == Append(window, event)
<1>1. /\ grown \in Seq(EventNames) /\ Len(grown) = Len(window) + 1
      /\ Len(window) \in Nat
      /\ \A i \in 1..Len(window) : grown[i] = window[i]
      /\ grown[Len(window) + 1] = event
  OBVIOUS
<1>2. InWindow(grown, e)
  <2>1. CASE Len(grown) > EventWindow
    <3>1. grown # << >>
      BY <1>1, EmptySeq
    <3>2. /\ Len(Tail(grown)) = Len(grown) - 1
          /\ \A i \in 1..Len(Tail(grown)) : Tail(grown)[i] = grown[i + 1]
      BY <1>1, <3>1, HeadTailProperties
    <3>3. PICK i \in 1..Len(Tail(grown)) : Tail(grown)[i] = e
      BY <2>1 DEF Remember, InWindow
    <3>4. i + 1 \in 1..Len(grown) /\ grown[i + 1] = e
      BY <1>1, <3>2, <3>3
    <3> QED
      BY <3>4 DEF InWindow
  <2>2. CASE ~(Len(grown) > EventWindow)
    BY <2>2 DEF Remember
  <2> QED
    BY <2>1, <2>2
<1>3. PICK i \in 1..(Len(window) + 1) : grown[i] = e
  BY <1>1, <1>2 DEF InWindow
<1>4. i \in 1..Len(window) \/ i = Len(window) + 1
  BY <1>1
<1> QED
  BY <1>1, <1>3, <1>4 DEF InWindow

\* What has been moved to the archive stays moved, and a copy step moves its
\* victim unless the window shows that it was moved before.
LEMMA MovedGrows ==
    ASSUME IInv, WindowMoved, [Next]_vars
    PROVE  /\ Moved \subseteq Moved'
           /\ \A c \in Callers : ArchiveVictim(c) => job[c].victim \in Moved'
           /\ WindowMoved'
<1> USE DEF IInv
<1>1. ASSUME NEW c \in Callers, ArchiveVictim(c)
      PROVE  /\ Moved \subseteq Moved'
             /\ job[c].victim \in Moved'
             /\ WindowMoved'
  <2> DEFINE v == job[c].victim
             event == <<"ARCHIVED", "rotation", v>>
             moved == [job[c].copy EXCEPT !.archived = TRUE]
  <2>1. v \in Obligations /\ moved \in Records
    BY <1>1 DEF ArchiveVictim, JobsSound, JobSound, Records
  <2>2. event \in EventNames
    <3>1. v \in 0..NumObligations
      BY <2>1, CapacityAssumption DEF Obligations
    <3> QED
      BY <3>1, EventNamesHold DEF ObligationStates
  <2>3. Moved \subseteq Moved' /\ v \in Moved'
    <3>1. CASE InWindow(archiveEvents, event)
      <4>1. UNCHANGED <<archive, evicted>>
        BY <1>1, <3>1 DEF ArchiveVictim
      <4> QED
        BY <2>1, <3>1, <4>1 DEF Moved, WindowMoved, Present
    <3>2. CASE v \in Present(archive) /\ UNCHANGED <<archive, evicted>>
      BY <3>2 DEF Moved, Present
    <3>3. CASE ~InWindow(archiveEvents, event) /\ v \notin Present(archive)
      <4> DEFINE makesRoom == Cardinality(Present(archive)) >= ArchiveCapacity
                 dropped == IF makesRoom THEN {OldestPresent(archive)} ELSE {}
                 kept == [o \in Obligations |->
                             IF o \in dropped THEN NoRecord ELSE archive[o]]
      <4>1. archive' = [kept EXCEPT ![v] = moved] /\ evicted' = evicted \cup dropped
        BY <1>1, <3>3 DEF ArchiveVictim
      <4> HIDE DEF dropped, v, moved
      <4>2. \A o \in Obligations :
               archive'[o] = IF o = v THEN moved
                             ELSE IF o \in dropped THEN NoRecord ELSE archive[o]
        BY <2>1, <4>1
      <4>3. moved # NoRecord
        BY <2>1 DEF Records, NoRecord, ObligationStates
      <4>4. \A o \in Present(archive) : o \in Present(archive') \/ o \in evicted'
        BY <4>1, <4>2, <4>3 DEF Present
      <4>5. v \in Present(archive')
        BY <2>1, <4>2, <4>3 DEF Present
      <4> QED
        BY <4>1, <4>4, <4>5 DEF Moved, v
    <3> QED
      BY <1>1, <3>1, <3>2, <3>3 DEF ArchiveVictim
  <2>4. ASSUME NEW o \in Obligations,
               InWindow(archiveEvents', <<"ARCHIVED", "rotation", o>>)
        PROVE  o \in Moved'
    <3>1. \/ InWindow(archiveEvents, <<"ARCHIVED", "rotation", o>>)
          \/ o = v
      <4>1. archiveEvents' = archiveEvents
               \/ archiveEvents' = Remember(archiveEvents, event)
        BY <1>1 DEF ArchiveVictim
      <4>2. archiveEvents \in Seq(EventNames)
        BY DEF TypeOK
      <4>3. \/ InWindow(archiveEvents, <<"ARCHIVED", "rotation", o>>)
            \/ <<"ARCHIVED", "rotation", o>> = event
        BY <2>2, <2>4, <4>1, <4>2, RememberOrigin
      <4> QED
        BY <4>3
    <3> QED
      BY <2>3, <3>1 DEF WindowMoved
  <2> QED
    BY <2>3, <2>4 DEF WindowMoved
<1>2. ASSUME UNCHANGED <<archive, archiveEvents, evicted>>
      PROVE  Moved \subseteq Moved' /\ WindowMoved'
  BY <1>2 DEF Moved, WindowMoved, Present, InWindow
<1> QED
  BY <1>1, <1>2
     DEF Next, Tick, RotateRead, CreateInserts, CreateReturnsExisting,
         CreateRefused, Abandon, ExecutorMove, RecoveryMove, Move,
         RecoverInterrupted, vars

\* The rotation of a create() stays current until somebody disturbs it.
LEMMA RotationsKept ==
    ASSUME IInv, HInv, [Next]_vars
    PROVE  \A d \in Callers : RotationCurrent(d)'
<1> USE DEF IInv
<1>0. /\ job \in [Callers -> Jobs] /\ Moved \subseteq Moved'
      /\ \A d \in Callers : RotationCurrent(d)
  BY MovedGrows DEF TypeOK, HInv
<1>1. ASSUME NEW d \in Callers, UNCHANGED records, job'[d] = job[d]
      PROVE  RotationCurrent(d)'
  BY <1>0, <1>1
     DEF RotationCurrent, Full, Live, Archivable, OldestArchivable, Present,
         OlderOrSame
<1>2. ASSUME NEW d \in Callers, job'[d].pc = "idle" \/ job'[d].disturbed
      PROVE  RotationCurrent(d)'
  BY <1>2 DEF RotationCurrent
<1>3. ASSUME NEW c \in Callers, NEW o \in Obligations, RotateRead(c, o)
      PROVE  \A d \in Callers : RotationCurrent(d)'
  <2>1. UNCHANGED records
    BY <1>3 DEF RotateRead
  <2>2. /\ job'[c].pc = "archive" => job'[c].victim = OldestArchivable(records)
        /\ job'[c].pc = "create" => ~Full(records)
    BY <1>0, <1>3 DEF RotateRead, Full
  <2>3. RotationCurrent(c)'
    BY <2>1, <2>2
       DEF RotationCurrent, Full, Live, Archivable, OldestArchivable, Present,
           OlderOrSame
  <2> QED
    BY <1>1, <1>3, <2>1, <2>3, RotateReadFacts
<1>4. ASSUME NEW c \in Callers, ArchiveVictim(c)
      PROVE  \A d \in Callers : RotationCurrent(d)'
  <2>1. /\ UNCHANGED records
        /\ job[c].pc = "archive"
        /\ job' = [job EXCEPT ![c].pc = "create", ![c].victim = 0,
                              ![c].copy = NoRecord]
    BY <1>4 DEF ArchiveVictim
  <2>2. /\ job'[c].pc = "create" /\ job'[c].disturbed = job[c].disturbed
        /\ \A d \in Callers \ {c} : job'[d] = job[d]
    BY <1>0, <2>1 DEF Jobs
  <2>3. job[c].victim \in Moved'
    BY <1>4, MovedGrows DEF HInv
  <2>4. ~job[c].disturbed => OldestArchivable(records) \in Moved'
    BY <1>0, <2>1, <2>3 DEF RotationCurrent
  <2>5. RotationCurrent(c)'
    BY <2>1, <2>2, <2>4
       DEF RotationCurrent, OldestArchivable, Archivable, Live, Present,
           OlderOrSame
  <2> QED
    BY <1>1, <2>1, <2>2, <2>5
<1>5. ASSUME NEW c \in Callers, NEW jobs, job' = Disturb(c, jobs),
             \/ jobs = job /\ job[c].pc = "idle"
             \/ jobs = [job EXCEPT ![c] = Idle]
      PROVE  \A d \in Callers : RotationCurrent(d)'
  <2>1. ASSUME NEW d \in Callers
        PROVE  job'[d].pc = "idle" \/ job'[d].disturbed
    <3>1. jobs \in [Callers -> Jobs]
      BY <1>0, <1>5, IdleIsJob
    <3>2. jobs[d] \in Jobs /\ (d = c => jobs[d].pc = "idle")
      BY <1>0, <1>5, <3>1 DEF Idle
    <3> QED
      BY <1>5, <3>2 DEF Disturb, Jobs
  <2> QED
    BY <1>2, <2>1
<1>6. ASSUME NEW c \in Callers,
             CreateReturnsExisting(c) \/ CreateRefused(c) \/ Abandon(c)
      PROVE  \A d \in Callers : RotationCurrent(d)'
  <2>1. UNCHANGED records /\ job' = [job EXCEPT ![c] = Idle]
    BY <1>6 DEF CreateReturnsExisting, CreateRefused, Abandon
  <2> QED
    BY <1>0, <1>1, <1>2, <2>1 DEF Idle
<1>7. ASSUME NEW c \in Callers,
             \/ CreateInserts(c)
             \/ \E o \in Obligations : ExecutorMove(c, o) \/ RecoveryMove(c, o)
             \/ \E e \in Epochs : RecoverInterrupted(c, e)
      PROVE  \A d \in Callers : RotationCurrent(d)'
  BY <1>5, <1>7
     DEF CreateInserts, ExecutorMove, RecoveryMove, Move, RecoverInterrupted
<1>8. ASSUME UNCHANGED <<records, job>>
      PROVE  \A d \in Callers : RotationCurrent(d)'
  BY <1>1, <1>8
<1> QED
  BY <1>3, <1>4, <1>6, <1>7, <1>8 DEF Next, Tick, vars

\* An undisturbed create() trims at most the record that was moved.
LEMMA TrimsKept ==
    ASSUME IInv, HInv, [Next]_vars
    PROVE  HistoryMoved'
<1> USE DEF IInv
<1>1. Moved \subseteq Moved' /\ cleanTrim \subseteq Moved
  BY MovedGrows DEF HInv, HistoryMoved, Moved
<1>2. ASSUME UNCHANGED cleanTrim
      PROVE  cleanTrim' \subseteq Moved'
  BY <1>1, <1>2
<1>3. ASSUME NEW c \in Callers, CreateInserts(c)
      PROVE  cleanTrim' \subseteq Moved'
  <2>1. CASE job[c].disturbed
    BY <1>1, <1>3, <2>1 DEF CreateInserts
  <2>2. CASE ~job[c].disturbed
    <3>1. /\ cleanTrim' = cleanTrim \cup (Live(records) \ Live(records'))
          /\ job[c].pc = "create" /\ records[job[c].target] = NoRecord
          /\ job[c].target \in Obligations
          /\ ~Saturated /\ records' = Inserted(c)
      BY <1>3, <2>2 DEF CreateInserts, Accepts, JobsSound, JobSound
    <3>2. records \in Stores /\ Trimmed(c) \in Stores
      BY <3>1, StoresTyped, TrimmedFacts
    <3>3. \A o \in Live(records) : o # job[c].target /\ o \in Obligations
      BY <3>1 DEF Live, Present
    <3>4. \A o \in Live(records) : records'[o] = Trimmed(c)[o]
      BY <3>1, <3>2, <3>3 DEF Inserted, Stores
    <3>5. CASE ~(Cardinality(Live(records)) >= MaxObligations)
      <4>1. \A o \in Live(records) : records'[o] = records[o]
        BY <3>4, <3>5 DEF Trimmed
      <4>2. Live(records) \subseteq Live(records')
        BY <3>3, <4>1 DEF Live, Present
      <4> QED
        BY <1>1, <3>1, <4>2
    <3>6. CASE Cardinality(Live(records)) >= MaxObligations
      <4> DEFINE v == OldestArchivable(records)
      <4>1. Full(records)
        BY <3>1, <3>6 DEF Saturated, Full
      <4>2. v \in Moved
        BY <2>2, <3>1, <4>1 DEF HInv, RotationCurrent
      <4>3. Trimmed(c) = [records EXCEPT ![v] = Tombstone(records[v], job[c].time)]
        BY <3>6 DEF Trimmed
      <4> HIDE DEF v
      <4>4. \A o \in Live(records) \ {v} : records'[o] = records[o]
        BY <3>2, <3>3, <3>4, <4>3 DEF Stores
      <4>5. Live(records) \ {v} \subseteq Live(records')
        BY <3>3, <4>4 DEF Live, Present
      <4> QED
        BY <1>1, <3>1, <4>2, <4>5
    <3> QED
      BY <3>5, <3>6
  <2> QED
    BY <2>1, <2>2
<1>4. cleanTrim' \subseteq Moved'
  BY <1>2, <1>3
     DEF Next, Tick, RotateRead, ArchiveVictim, CreateReturnsExisting,
         CreateRefused, Abandon, ExecutorMove, RecoveryMove, Move,
         RecoverInterrupted, vars
<1> QED
  BY <1>4 DEF HistoryMoved, Moved

\* A record that an undisturbed create() turned into a tombstone has its full
\* history in the archive, or the full archive dropped it: "archive first,
\* trim second" of _rotate_oldest_terminal, for any number of callers.
THEOREM LedgerHistoryMoved == Spec => []HistoryMoved
<1>1. Init => HInv
  <2>1. \A e : ~InWindow(<< >>, e)
    BY EmptySeq DEF InWindow
  <2> QED
    BY <2>1 DEF Init, HInv, HistoryMoved, WindowMoved, RotationCurrent, Idle
<1>2. IInv /\ HInv /\ [Next]_vars => HInv'
  BY RotationsKept, TrimsKept, MovedGrows DEF HInv
<1>3. HInv => HistoryMoved
  BY DEF HInv
<1> QED
  BY <1>1, <1>2, <1>3, Invariance, PTL DEF Spec
=============================================================================
