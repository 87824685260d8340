----------------------- MODULE ActionObligationLedger -----------------------
(* The durable ledger of action obligations: the primary store with its      *)
(* bounded idempotency window, the archive store that receives the history   *)
(* of rotated records, and the callers (executor, recovery, reconciliation)  *)
(* that share both. Each store is read or replaced under its own file lock,  *)
(* so one store access is one step; create() is three of them, and other     *)
(* callers may commit in between.                                            *)
EXTENDS Integers, FiniteSets, Sequences, ObligationProtocol

CONSTANTS
    NumObligations,    \* obligation references the callers may submit
    Callers,           \* threads or processes sharing the two files
    MaxObligations,    \* MAX_OBLIGATIONS: full records kept
    MaxTotalRecords,   \* MAX_TOTAL_RECORDS: full records and tombstones
    ArchiveCapacity,   \* ARCHIVE_CAPACITY
    EventWindow,       \* MAX_IDEMPOTENCY_EVENTS
    Epochs,            \* runtime epochs that reconcile after a restart
    MaxTime            \* bound on the clock

ASSUME CapacityAssumption ==
    /\ NumObligations \in Nat
    /\ MaxObligations \in Nat \ {0}
    /\ MaxTotalRecords \in Nat
    /\ MaxObligations <= MaxTotalRecords
    /\ ArchiveCapacity \in Nat \ {0}
    /\ EventWindow \in Nat \ {0}
    /\ MaxTime \in Nat

\* Identifiers are digests of the references; their order breaks ties.
Obligations == 1..NumObligations

Times == 0..MaxTime

NoRecord == [state |-> "NONE", archived |-> FALSE, updated |-> 0]

Records == [state : ObligationStates, archived : BOOLEAN, updated : Times]

VARIABLES
    records,        \* primary payload: what is stored for each obligation
    events,         \* primary idempotency window, oldest first
    archive,        \* archive payload
    archiveEvents,  \* archive idempotency window
    clock,          \* host wall clock, whole seconds
    job,            \* the create() call each caller has under way
    evicted,        \* history: records the full archive has dropped
    cleanTrim       \* history: tombstones cut by an undisturbed create()

vars == <<records, events, archive, archiveEvents, clock, job, evicted,
          cleanTrim>>

Idle == [pc |-> "idle", target |-> 0, victim |-> 0, copy |-> NoRecord,
         time |-> 0, disturbed |-> FALSE]

Jobs == [pc : {"idle", "archive", "create"}, target : 0..NumObligations,
         victim : 0..NumObligations, copy : Records \cup {NoRecord},
         time : Times, disturbed : BOOLEAN]

Present(store) == {o \in Obligations : store[o] # NoRecord}

Live(store) == {o \in Present(store) : ~store[o].archived}

\* Mistake: any full record may be rotated out, finished or not.
ArchivableAny(store) == Live(store)

Archivable(store) == {o \in Live(store) : store[o].state \in Settled}

\* The key of both oldest-first choices: (updated_at, obligation_id).
OlderOrSame(store, o, p) ==
    \/ store[o].updated < store[p].updated
    \/ store[o].updated = store[p].updated /\ o <= p

OldestArchivable(store) ==
    CHOOSE o \in Archivable(store) :
        \A p \in Archivable(store) : OlderOrSame(store, o, p)

OldestPresent(store) ==
    CHOOSE o \in Present(store) :
        \A p \in Present(store) : OlderOrSame(store, o, p)

Later(a, b) == IF a < b THEN b ELSE a

\* Mistake: the tombstone records that it was archived instead of the outcome.
TombstoneLosesState(record, time) ==
    [record EXCEPT !.archived = TRUE, !.state = "ARCHIVED",
                   !.updated = Later(record.updated, time)]

\* The tombstone keeps identity and final state; its events are cut to one.
Tombstone(record, time) ==
    [record EXCEPT !.archived = TRUE, !.updated = Later(record.updated, time)]

InWindow(window, event) == \E i \in 1..Len(window) : window[i] = event

\* events[-MAX_IDEMPOTENCY_EVENTS:] after the append.
Remember(window, event) ==
    LET grown == Append(window, event)
    IN  IF Len(grown) > EventWindow THEN Tail(grown) ELSE grown

\* A caller reads its clock before it waits for the file lock.
CallTimes == {t \in Times : t <= clock /\ clock <= t + 1}

\* Another caller's commit between a create()'s rotation and its own commit.
Disturb(c, jobs) ==
    [d \in Callers |->
        IF d # c /\ jobs[d].pc # "idle"
        THEN [jobs[d] EXCEPT !.disturbed = TRUE] ELSE jobs[d]]

Init ==
    /\ records = [o \in Obligations |-> NoRecord]
    /\ events = <<>>
    /\ archive = [o \in Obligations |-> NoRecord]
    /\ archiveEvents = <<>>
    /\ clock = 0
    /\ job = [c \in Callers |-> Idle]
    /\ evicted = {}
    /\ cleanTrim = {}

Tick ==
    /\ clock < MaxTime
    /\ clock' = clock + 1
    /\ UNCHANGED <<records, events, archive, archiveEvents, job, evicted,
                   cleanTrim>>

-----------------------------------------------------------------------------
(* create(): read the primary to choose what to rotate, copy it to the       *)
(* archive, then commit the new record and the tombstone in one mutation.    *)

RotateRead(c, o) ==
    LET full == Cardinality(Live(records)) >= MaxObligations
        rotates == full /\ Archivable(records) # {}
        victim == OldestArchivable(records)
    IN  /\ job[c].pc = "idle"
        /\ job' = [job EXCEPT ![c] =
               [pc |-> IF rotates THEN "archive" ELSE "create",
                target |-> o,
                victim |-> IF rotates THEN victim ELSE 0,
                copy |-> IF rotates THEN records[victim] ELSE NoRecord,
                time |-> clock,
                disturbed |-> FALSE]]
        /\ UNCHANGED <<records, events, archive, archiveEvents, clock, evicted,
                       cleanTrim>>

\* Mistake: the rotation is remembered but the copy is not made.
ArchiveVictimForgets(c) ==
    /\ job[c].pc = "archive"
    /\ archiveEvents' = Remember(archiveEvents,
                                 <<"ARCHIVED", "rotation", job[c].victim>>)
    /\ job' = [job EXCEPT ![c].pc = "create", ![c].victim = 0,
                           ![c].copy = NoRecord]
    /\ UNCHANGED <<records, events, archive, clock, evicted, cleanTrim>>

ArchiveVictim(c) ==
    LET v == job[c].victim
        event == <<"ARCHIVED", "rotation", v>>
        makesRoom == Cardinality(Present(archive)) >= ArchiveCapacity
        dropped == IF makesRoom THEN {OldestPresent(archive)} ELSE {}
        kept == [o \in Obligations |->
                    IF o \in dropped THEN NoRecord ELSE archive[o]]
    IN  /\ job[c].pc = "archive"
        /\ \/ /\ InWindow(archiveEvents, event)
              /\ UNCHANGED <<archive, archiveEvents, evicted>>
           \/ /\ ~InWindow(archiveEvents, event)
              /\ archiveEvents' = Remember(archiveEvents, event)
              /\ IF v \in Present(archive)
                 THEN UNCHANGED <<archive, evicted>>
                 ELSE /\ archive' = [kept EXCEPT ![v] =
                                        [job[c].copy EXCEPT !.archived = TRUE]]
                      /\ evicted' = evicted \cup dropped
        /\ job' = [job EXCEPT ![c].pc = "create", ![c].victim = 0,
                               ![c].copy = NoRecord]
        /\ UNCHANGED <<records, events, clock, cleanTrim>>

\* Mistake: the create() mutation relies on the rotation having made room.
NothingTrimmed(c) == records

\* The payload the create() mutation builds when the identity is new.
Trimmed(c) ==
    IF Cardinality(Live(records)) >= MaxObligations
    THEN LET v == OldestArchivable(records)
         IN  [records EXCEPT ![v] = Tombstone(records[v], job[c].time)]
    ELSE records

Inserted(c) ==
    [Trimmed(c) EXCEPT ![job[c].target] =
        [state |-> "CREATED", archived |-> FALSE, updated |-> job[c].time]]

\* _validate_payload bounds all records, tombstones included.
Fits(c) == Cardinality(Present(Inserted(c))) <= MaxTotalRecords

Saturated ==
    /\ Cardinality(Live(records)) >= MaxObligations
    /\ Archivable(records) = {}

Accepts(c) == ~Saturated /\ Fits(c)

\* Mistake: only the idempotency window tells a known identity from a new one.
CreateReinserts(c) ==
    /\ job[c].pc = "create"
    /\ ~InWindow(events, <<"CREATED", "create", job[c].target>>)
    /\ Accepts(c)
    /\ records' = Inserted(c)
    /\ events' = Remember(events, <<"CREATED", "create", job[c].target>>)
    /\ job' = Disturb(c, [job EXCEPT ![c] = Idle])
    /\ UNCHANGED <<archive, archiveEvents, clock, evicted, cleanTrim>>

CreateInserts(c) ==
    LET o == job[c].target
    IN  /\ job[c].pc = "create"
        /\ ~InWindow(events, <<"CREATED", "create", o>>)
        /\ records[o] = NoRecord
        /\ Accepts(c)
        /\ records' = Inserted(c)
        /\ events' = Remember(events, <<"CREATED", "create", o>>)
        /\ cleanTrim' = IF job[c].disturbed THEN cleanTrim
                          ELSE cleanTrim \cup (Live(records) \ Live(records'))
        /\ job' = Disturb(c, [job EXCEPT ![c] = Idle])
        /\ UNCHANGED <<archive, archiveEvents, clock, evicted>>

\* The identity is known: the stored record is returned, whatever its state.
CreateReturnsExisting(c) ==
    LET o == job[c].target
    IN  /\ job[c].pc = "create"
        /\ InWindow(events, <<"CREATED", "create", o>>) \/ records[o] # NoRecord
        /\ events' = IF InWindow(events, <<"CREATED", "create", o>>) THEN events
                     ELSE Remember(events, <<"CREATED", "create", o>>)
        /\ job' = [job EXCEPT ![c] = Idle]
        /\ UNCHANGED <<records, archive, archiveEvents, clock, evicted,
                       cleanTrim>>

\* Nothing is written when every full record is unfinished, nor when the new
\* payload would exceed the bound on all records, tombstones included.
CreateRefused(c) ==
    LET o == job[c].target
    IN  /\ job[c].pc = "create"
        /\ ~InWindow(events, <<"CREATED", "create", o>>)
        /\ records[o] = NoRecord
        /\ ~Accepts(c)
        /\ job' = [job EXCEPT ![c] = Idle]
        /\ UNCHANGED <<records, events, archive, archiveEvents, clock, evicted,
                       cleanTrim>>

\* A crash, or a storage error that escapes create(), between two accesses.
Abandon(c) ==
    /\ job[c].pc # "idle"
    /\ job' = [job EXCEPT ![c] = Idle]
    /\ UNCHANGED <<records, events, archive, archiveEvents, clock, evicted,
                   cleanTrim>>

-----------------------------------------------------------------------------
(* transition() and recover_interrupted().                                   *)

\* A record whose last event is newer than this call's clock fails validation.
Stored(record, target, time) ==
    [record EXCEPT !.state = target, !.updated = time]

Move(c, o, target, reason, event) ==
    /\ job[c].pc = "idle"
    /\ ~InWindow(events, event)
    /\ o \in Present(records)
    /\ MayMove(records[o].state, target, reason)
    /\ \E t \in CallTimes :
           /\ records[o].updated <= t
           /\ records' = [records EXCEPT ![o] = Stored(@, target, t)]
    /\ events' = Remember(events, event)
    /\ job' = Disturb(c, job)
    /\ UNCHANGED <<archive, archiveEvents, clock, evicted, cleanTrim>>

\* PlanExecutor names its events after the target state.
ExecutorMove(c, o) ==
    \E target \in ObligationStates :
        Move(c, o, target, "execution", <<target, "executor", o>>)

\* SemanticSearchRuntime settles an uncertain effect from a fresh observation.
RecoveryMove(c, o) ==
    \/ Move(c, o, "OBSERVING", "fresh_observation_started",
            <<"OBSERVING", "recovery", o>>)
    \/ \E target \in Settled :
           Move(c, o, target, "verification", <<target, "recovery", o>>)

Reconciled(time) ==
    [o \in Obligations |->
        IF records[o].state \in InFlight
        THEN Stored(records[o], "UNKNOWN_SIDE_EFFECT", time)
        ELSE records[o]]

\* One mutation for every interrupted record; once for each runtime epoch.
RecoverInterrupted(c, epoch) ==
    /\ job[c].pc = "idle"
    /\ ~InWindow(events, <<"UNKNOWN_SIDE_EFFECT", "reconcile", epoch>>)
    /\ \E t \in CallTimes :
           /\ \A o \in Obligations :
                  records[o].state \in InFlight => records[o].updated <= t
           /\ records' = Reconciled(t)
    /\ events' = Remember(events, <<"UNKNOWN_SIDE_EFFECT", "reconcile", epoch>>)
    /\ job' = Disturb(c, job)
    /\ UNCHANGED <<archive, archiveEvents, clock, evicted, cleanTrim>>

Next ==
    \/ Tick
    \/ \E c \in Callers :
        \/ \E o \in Obligations : RotateRead(c, o)
        \/ ArchiveVictim(c)
        \/ CreateInserts(c)
        \/ CreateReturnsExisting(c)
        \/ CreateRefused(c)
        \/ Abandon(c)
        \/ \E o \in Obligations : ExecutorMove(c, o) \/ RecoveryMove(c, o)
        \/ \E e \in Epochs : RecoverInterrupted(c, e)

Spec == Init /\ [][Next]_vars

-----------------------------------------------------------------------------
(* Properties.                                                               *)

EventNames == (ObligationStates \cup {"ARCHIVED"})
                  \X {"create", "executor", "recovery", "reconcile", "rotation"}
                  \X (0..NumObligations \cup Epochs)

\* The shape of the two stores, of their windows and of a call under way.
TypeOK ==
    /\ records \in [Obligations -> Records \cup {NoRecord}]
    /\ archive \in [Obligations -> Records \cup {NoRecord}]
    /\ events \in Seq(EventNames)
    /\ archiveEvents \in Seq(EventNames)
    /\ clock \in Times
    /\ job \in [Callers -> Jobs]
    /\ evicted \subseteq Obligations
    /\ cleanTrim \subseteq Obligations

(* However the creators interleave, no store outgrows its bound: a rotation  *)
(* decided on a stale count never lets an extra full record in, because the  *)
(* create() mutation counts again under the lock.                            *)
StoreBounds ==
    /\ Cardinality(Live(records)) <= MaxObligations
    /\ Cardinality(Present(records)) <= MaxTotalRecords
    /\ Cardinality(Present(archive)) <= ArchiveCapacity
    /\ Len(events) <= EventWindow
    /\ Len(archiveEvents) <= EventWindow

(* The archive copy is taken from an unlocked read, yet it never disagrees   *)
(* with the primary: an archived obligation is known to the primary with the *)
(* same final outcome.                                                       *)
ArchiveAgrees ==
    \A o \in Present(archive) :
        /\ o \in Present(records)
        /\ archive[o].state \in Settled
        /\ records[o].state = archive[o].state

(* Archive first, trim second: a tombstone cut by a create() that nobody     *)
(* disturbed has its history in the archive, until the full archive drops    *)
(* it. Crashes between the two steps do not break this.                      *)
HistoryMoved ==
    \A o \in cleanTrim : o \in Present(archive) \/ o \in evicted

(* An obligation identity, once stored, is there for good, its final outcome *)
(* never changes and a tombstone is never revived: not by rotation, not by a *)
(* create() replayed after its event has left the idempotency window.        *)
OutcomeIsForever ==
    [][\A o \in Present(records) :
           /\ o \in Present(records')
           /\ records[o].archived => records'[o].archived
           /\ records[o].state \in Settled => records'[o].state = records[o].state
           /\ records'[o].state = "CREATED" => records[o].state = "CREATED"]_vars

(* What _rotate_oldest_terminal's comment promises: a create() of a new       *)
(* identity is refused only when the store is saturated with unfinished      *)
(* obligations.                                                              *)
RefusedOnlyWhenSaturated ==
    \A c \in Callers :
        job[c].pc = "create" /\ records[job[c].target] = NoRecord
            => Saturated \/ Fits(c)
=============================================================================
