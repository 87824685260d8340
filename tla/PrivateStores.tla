---------------------------- MODULE PrivateStores ----------------------------
(* The host's private files, as their writers use them. Three kinds share    *)
(* the lock and the temporary file that is renamed into place:               *)
(*   record   PrivateRecordWriter: the old primary is copied over the        *)
(*            recovery file first, then the new primary is written;          *)
(*   journal  PrivateAppendJournal: the primary first, then the recovery     *)
(*            file, whose failure is ignored;                                *)
(*   plain    CoordinatorStateStore: one file, no sync of the directory.     *)
(* Processes die at any step, storage calls fail, the power goes off, and a  *)
(* file is damaged from outside.                                             *)
EXTENDS Integers, Sequences

CONSTANTS
    Callers,        \* processes that use the store
    Events,         \* event ids, or keys of the coordinator's file
    NoEvent,
    Window,         \* MAX_IDEMPOTENCY_EVENTS
    Capacity,       \* MAX_RECORDS; bound on the length of every kind's log
    MaxFaults,      \* bound: storage errors
    MaxDamages,     \* bound: files damaged from outside
    MaxPowerCuts    \* bound: power cuts

ASSUME StoreAssumption ==
    /\ NoEvent \notin Events \cup Callers
    /\ Window \in Nat \ {0} /\ Capacity \in Nat
    /\ MaxFaults \in Nat /\ MaxDamages \in Nat /\ MaxPowerCuts \in Nat

Files == {"primary", "recovery"}
Kinds == {"record", "journal", "plain"}

VARIABLES
    kind,      \* which of the writers this store belongs to
    file,      \* what each file holds now
    disk,      \* what each file may hold after a power cut
    lock,      \* the process inside _PrivateFileLock, if any
    call,      \* the mutation each process has under way
    acked,     \* events whose caller was told of success; a success told
               \* to a retry of a call whose sync had failed does not count
    harmed,    \* what the promise no longer covers
    spared,    \* the recovery file was good when the primary was damaged
    budget     \* environment events left

vars == <<kind, file, disk, lock, call, acked, harmed, spared, budget>>

Absent == [state |-> "absent", log |-> <<>>]
Bad == [state |-> "damaged", log |-> <<>>]
Good(log) == [state |-> "good", log |-> log]

Resting == [pc |-> "idle", event |-> NoEvent, next |-> <<>>]

Init ==
    /\ kind \in Kinds
    /\ file = [f \in Files |-> Absent]
    /\ disk = [f \in Files |-> {Absent}]
    /\ lock = NoEvent
    /\ call = [c \in Callers |-> Resting]
    /\ acked = {} /\ harmed = FALSE /\ spared = FALSE
    /\ budget = [faults |-> MaxFaults, damages |-> MaxDamages, cuts |-> MaxPowerCuts]

-----------------------------------------------------------------------------
(* _read_unlocked: only the journal falls back when the primary is missing.  *)

FromRecovery ==
    /\ \/ file["primary"].state = "damaged" /\ kind # "plain"
       \/ file["primary"].state = "absent" /\ kind = "journal"
    /\ file["recovery"].state # "absent"

Read == IF FromRecovery THEN file["recovery"] ELSE file["primary"]
Readable == Read.state # "damaged"

\* Mistake: only the newest event of the window is compared.
KnownNewestOnly(log, e) == log # <<>> /\ log[Len(log)] = e

\* The event is in the record's idempotency window, or in the journal at all.
Known(log, e) ==
    \E i \in DOMAIN log :
        log[i] = e /\ (kind = "record" => i > Len(log) - Window)

UnchangedFiles == UNCHANGED <<file, disk>>
UnchangedBudget == UNCHANGED <<budget, harmed, spared>>

End(c) ==
    /\ lock' = NoEvent
    /\ call' = [call EXCEPT ![c] = Resting]

Goto(c, pc) == call' = [call EXCEPT ![c].pc = pc] /\ UNCHANGED lock

\* Mistake: every writer saves the old primary first.
CopyFirst == IF kind # "plain" /\ file["primary"].state # "absent" THEN "copy" ELSE "commit"

\* The first write of a mutation.
FirstStep ==
    IF kind = "record" /\ file["primary"].state # "absent" THEN "copy" ELSE "commit"

\* No generation of the primary is waiting for a sync of the directory.
Settled == disk["primary"] = {file["primary"]}

\* The call reads under the lock. A known event is a success without a write;
\* the coordinator's put writes the same content once more.
Reads(c, e) ==
    /\ \/ /\ ~Readable                          \* the read raises
          /\ UNCHANGED <<lock, call, acked>>
       \/ /\ Readable /\ Known(Read.log, e) /\ kind # "plain"
          /\ acked' = IF Settled THEN acked \cup {e} ELSE acked
          /\ UNCHANGED <<lock, call>>
       \/ /\ Readable
          /\ LET again == Known(Read.log, e)
                 next == IF again THEN Read.log ELSE Append(Read.log, e)
             IN  /\ again => kind = "plain"
                 /\ Len(next) <= Capacity
                 /\ call' = [call EXCEPT ![c] =
                       [pc |-> FirstStep, event |-> e, next |-> next]]
          /\ lock' = c
          /\ UNCHANGED acked
    /\ UNCHANGED kind /\ UnchangedFiles /\ UnchangedBudget

\* Mistake: the call reads before it waits for the lock.
StartUnlocked(c, e) == call[c] = Resting /\ Reads(c, e)

Start(c, e) == call[c] = Resting /\ lock = NoEvent /\ Reads(c, e)

-----------------------------------------------------------------------------
(* _atomic_write_unlocked: os.replace shows the new file at once; only the   *)
(* sync of the directory, which holds both files, makes it durable.          *)

At(c, pc) == call[c].pc = pc

Replace(f, content) ==
    /\ file' = [file EXCEPT ![f] = content]
    /\ disk' = [disk EXCEPT ![f] = @ \cup {content}]

AllDurable == disk' = [f \in Files |-> {file[f]}] /\ UNCHANGED file

\* The copy of the primary's bytes, whatever they are.
Copy(c) ==
    /\ At(c, "copy")
    /\ Replace("recovery", file["primary"])
    /\ Goto(c, "copySync")
    /\ UNCHANGED <<kind, acked>> /\ UnchangedBudget

Commit(c) ==
    /\ At(c, "commit")
    /\ Replace("primary", Good(call[c].next))
    /\ Goto(c, IF kind = "plain" THEN "return" ELSE "commitSync")
    /\ UNCHANGED <<kind, acked>> /\ UnchangedBudget

\* The journal refreshes its recovery file after the commit.
Refresh(c) ==
    /\ At(c, "refresh")
    /\ Replace("recovery", Good(call[c].next))
    /\ Goto(c, "refreshSync")
    /\ UNCHANGED <<kind, acked>> /\ UnchangedBudget

AfterSync == [copySync |-> "commit", refreshSync |-> "return",
              commitSync |-> IF kind = "journal" THEN "refresh" ELSE "return"]

\* Mistake: the directory is not synced.
SyncSkipped(c) ==
    /\ call[c].pc \in DOMAIN AfterSync
    /\ Goto(c, AfterSync[call[c].pc])
    /\ UNCHANGED <<kind, acked>> /\ UnchangedFiles /\ UnchangedBudget

Sync(c) ==
    /\ call[c].pc \in DOMAIN AfterSync
    /\ AllDurable
    /\ Goto(c, AfterSync[call[c].pc])
    /\ UNCHANGED <<kind, acked>> /\ UnchangedBudget

Return(c) ==
    /\ At(c, "return")
    /\ acked' = acked \cup {call[c].event}
    /\ End(c)
    /\ UNCHANGED kind /\ UnchangedFiles /\ UnchangedBudget

\* A write or a sync fails: the call raises, except that the journal's
\* refresh is given up silently.
StorageError(c) ==
    /\ call[c].pc \notin {"idle", "return"}
    /\ budget.faults > 0
    /\ budget' = [budget EXCEPT !.faults = @ - 1]
    /\ IF call[c].pc \in {"refresh", "refreshSync"} THEN Goto(c, "return") ELSE End(c)
    /\ UNCHANGED <<kind, acked, harmed, spared>> /\ UnchangedFiles

\* The process dies; the system releases its lock.
Crash(c) ==
    /\ call[c] # Resting
    /\ End(c)
    /\ UNCHANGED <<kind, acked>> /\ UnchangedFiles /\ UnchangedBudget

-----------------------------------------------------------------------------
(* The environment.                                                          *)

\* Each file comes back as one of its generations since the last sync. ADR-072
\* claims no power-loss durability for the coordinator's file.
PowerCut ==
    /\ budget.cuts > 0
    /\ budget' = [budget EXCEPT !.cuts = @ - 1]
    /\ \E p \in disk["primary"], r \in disk["recovery"] :
          file' = [primary |-> p, recovery |-> r]
    /\ disk' = [f \in Files |-> {file'[f]}]
    /\ lock' = NoEvent
    /\ call' = [c \in Callers |-> Resting]
    /\ harmed' = (harmed \/ kind = "plain")
    /\ UNCHANGED <<kind, acked, spared>>

Damage ==
    /\ budget.damages > 0
    /\ budget' = [budget EXCEPT !.damages = @ - 1]
    /\ \E f \in Files :
          /\ file[f].state = "good"
          /\ file' = [file EXCEPT ![f] = Bad]
          /\ disk' = [disk EXCEPT ![f] = {Bad}]
    /\ harmed' = (harmed \/ file'["primary"] = Bad)
    /\ spared' = (file["recovery"].state = "good" /\ file'["recovery"] = file["recovery"]
                  /\ disk["recovery"] = {file["recovery"]})
    /\ UNCHANGED <<kind, lock, call, acked>>

Next ==
    \/ PowerCut \/ Damage
    \/ \E c \in Callers :
        \/ Copy(c) \/ Commit(c) \/ Refresh(c) \/ Sync(c) \/ Return(c)
        \/ StorageError(c) \/ Crash(c)
        \/ \E e \in Events : Start(c, e)

Spec == Init /\ [][Next]_vars

-----------------------------------------------------------------------------
(* Properties.                                                               *)

Contents == {Absent, Bad} \cup [state : {"good"}, log : Seq(Events)]

\* The shape of the files and of the calls; a call under way has the lock.
TypeOK ==
    /\ kind \in Kinds
    /\ file \in [Files -> Contents] /\ disk \in [Files -> SUBSET Contents]
    /\ lock \in Callers \cup {NoEvent}
    /\ \A c \in Callers : call[c].pc # "idle" => lock = c
    /\ acked \subseteq Events /\ harmed \in BOOLEAN /\ spared \in BOOLEAN
    /\ budget \in [faults : Nat, damages : Nat, cuts : Nat]

Visible == IF Readable THEN Read.log ELSE <<>>

(* An event whose caller was told of success is still read after any crash,  *)
(* storage error, retry or power cut. Three things are not covered: outside   *)
(* damage, a power cut of the coordinator's unsynced file, and a success that *)
(* a retry is told because its event is visible, though the write that put it *)
(* there failed to sync: acked does not count it, and a power cut may undo    *)
(* what that caller was told.                                                 *)
DurableAck ==
    ~harmed => Readable /\ \A e \in acked :
                               \E i \in DOMAIN Read.log : Read.log[i] = e

(* A mutation retried after a lost answer is applied once, also when the     *)
(* store was rolled back to its recovery file in between; the record writer  *)
(* promises this for the events of its window.                               *)
AppliedOnce ==
    \A i, j \in DOMAIN Visible :
        i < j /\ Visible[i] = Visible[j] => kind = "record" /\ j - i > Window

(* One damaged primary never leaves a journal unreadable if its recovery     *)
(* file was in place, whatever the journal's writers go through afterwards.  *)
JournalRecovers == kind = "journal" /\ spared /\ lock = NoEvent => Readable

Promised == INSTANCE DurableLog WITH log <- Visible, intact <- ~harmed

(* The stores keep the promise of DurableLog.                                *)
KeepsPromise == Promised!Promise
=============================================================================
