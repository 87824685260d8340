------------------------- MODULE PrivateStores_proofs -------------------------
(* Proofs about the private stores, for any number of processes, events and   *)
(* faults of every sort, any window and any capacity.                         *)
EXTENDS PrivateStores, SequenceTheorems, TLAPS

-----------------------------------------------------------------------------
(* The calls and the files.                                                   *)

PCs == {"idle", "copy", "copySync", "commit", "commitSync", "refresh", "refreshSync",
        "return"}
Calls == [pc : PCs, event : Events \cup {NoEvent}, next : Seq(Events)]

Contains(log, e) == Promised!Contains(log, e)
Prefix(s, t) == Promised!Prefix(s, t)

\* A call under way writes its event, in the steps of its kind of store.
CallSound(c) ==
    /\ call[c].pc = "idle" => call[c] = Resting
    /\ call[c].pc # "idle" =>
           call[c].event \in Events /\ Contains(call[c].next, call[c].event)
    /\ call[c].pc \in {"copy", "copySync"} => kind = "record"
    /\ call[c].pc \in {"refresh", "refreshSync"} => kind = "journal"
    /\ call[c].pc = "commitSync" => kind # "plain"

Typed ==
    /\ TypeOK
    /\ call \in [Callers -> Calls]
    /\ \A c \in Callers : CallSound(c)
    /\ \A f \in Files : file[f] \in disk[f]

\* Sequences of events, and what appending one does.
LEMMA Appending ==
    ASSUME NEW s \in Seq(Events), NEW e \in Events
    PROVE  /\ Append(s, e) \in Seq(Events) /\ Contains(Append(s, e), e)
           /\ \A d : Contains(s, d) => Contains(Append(s, e), d)
           /\ \A t \in Seq(Events) : Prefix(t, s) => Prefix(t, Append(s, e))
<1>1. /\ Append(s, e) \in Seq(Events) /\ Len(Append(s, e)) = Len(s) + 1
      /\ \A i \in 1..Len(s) : Append(s, e)[i] = s[i]
      /\ Append(s, e)[Len(s) + 1] = e
  BY AppendProperties
<1>2. /\ Len(s) \in Nat /\ DOMAIN s = 1..Len(s)
      /\ DOMAIN Append(s, e) = 1..(Len(s) + 1)
  BY <1>1, LenProperties
<1>3. ASSUME NEW t \in Seq(Events), Prefix(t, s)
      PROVE  Prefix(t, Append(s, e))
  <2>1. Len(t) \in Nat /\ DOMAIN t = 1..Len(t)
    BY LenProperties
  <2>2. Len(t) <= Len(s) /\ \A i \in 1..Len(t) : t[i] = s[i]
    BY <1>3, <2>1 DEF Prefix, Promised!Prefix
  <2> QED
    BY <1>1, <1>2, <2>1, <2>2 DEF Prefix, Promised!Prefix
<1> QED
  BY <1>1, <1>2, <1>3 DEF Contains, Promised!Contains

LEMMA PrefixOfItself == \A s \in Seq(Events) : Prefix(s, s)
<1>1. \A s \in Seq(Events) : Len(s) \in Nat
  BY LenProperties
<1> QED
  BY <1>1 DEF Prefix, Promised!Prefix

\* What a read gives.
LEMMA ReadTyped ==
    ASSUME Typed
    PROVE  /\ Read \in Contents /\ Read.log \in Seq(Events)
           /\ \A d \in Contents : d.log \in Seq(Events)
<1>1. \A d \in Contents : d.log \in Seq(Events)
  <2>1. <<>> \in Seq(Events)
    BY EmptySeq
  <2>2. Absent.log = <<>> /\ Bad.log = <<>>
    BY DEF Absent, Bad
  <2> QED
    BY <2>1, <2>2 DEF Contents
<1>2. Read \in Contents
  BY DEF Typed, TypeOK, Read, Files
<1> QED
  BY <1>1, <1>2

\* A call goes on to its next step, or ends, and no other call is touched.
LEMMA Gone ==
    ASSUME Typed, NEW c \in Callers, NEW pc \in PCs \ {"idle"}, call[c].pc # "idle",
           Goto(c, pc)
    PROVE  /\ call' \in [Callers -> Calls] /\ lock' = lock /\ lock = c
           /\ \A d \in Callers : d # c => call'[d] = call[d] /\ call[d].pc = "idle"
           /\ call'[c].pc = pc /\ call'[c].event = call[c].event
           /\ call'[c].next = call[c].next
<1>1. call[c] \in Calls
  BY DEF Typed
<1>2. [call[c] EXCEPT !.pc = pc] \in Calls
  BY <1>1 DEF Calls
<1> QED
  BY <1>1, <1>2 DEF Goto, Typed, TypeOK, Calls

LEMMA Ended ==
    ASSUME Typed, NEW c \in Callers, call[c].pc # "idle", End(c)
    PROVE  /\ call' \in [Callers -> Calls] /\ lock' = NoEvent
           /\ \A d \in Callers : call'[d] = Resting
<1>1. Resting \in Calls
  BY EmptySeq DEF Resting, Calls, PCs
<1>2. \A d \in Callers : d # c => call[d] = Resting
  BY DEF Typed, TypeOK, CallSound
<1> QED
  BY <1>1, <1>2 DEF End, Typed

-----------------------------------------------------------------------------
(* Type correctness.                                                          *)

\* The step of a call that moves on, whatever it writes.
LEMMA MoveTyped ==
    ASSUME Typed, NEW c \in Callers, NEW pc \in PCs \ {"idle"}, call[c].pc # "idle",
           Goto(c, pc), kind' = kind,
           pc \in {"copy", "copySync"} => kind = "record",
           pc \in {"refresh", "refreshSync"} => kind = "journal",
           pc = "commitSync" => kind # "plain"
    PROVE  /\ call' \in [Callers -> Calls] /\ \A d \in Callers : CallSound(d)'
           /\ lock' \in Callers \cup {NoEvent}
           /\ \A d \in Callers : call'[d].pc # "idle" => lock' = d
<1>1. /\ call' \in [Callers -> Calls] /\ lock' = lock /\ lock = c
      /\ \A d \in Callers : d # c => call'[d] = call[d] /\ call[d].pc = "idle"
      /\ call'[c].pc = pc /\ call'[c].event = call[c].event
      /\ call'[c].next = call[c].next
  BY Gone
<1>2. \A d \in Callers : CallSound(d)
  BY DEF Typed
<1>3. ASSUME NEW d \in Callers, d # c
      PROVE  CallSound(d)'
  BY <1>1, <1>2, <1>3 DEF CallSound
<1>4. CallSound(c)'
  BY <1>1, <1>2 DEF CallSound
<1> QED
  BY <1>1, <1>3, <1>4

\* The step in which a call ends.
LEMMA EndTyped ==
    ASSUME Typed, \A d \in Callers : call'[d] = Resting
    PROVE  \A d \in Callers : CallSound(d)' /\ call'[d].pc = "idle"
  BY DEF CallSound, Resting

\* A file is replaced.
LEMMA ReplaceTyped ==
    ASSUME Typed, NEW f \in Files, NEW content \in Contents, Replace(f, content)
    PROVE  /\ file' \in [Files -> Contents] /\ disk' \in [Files -> SUBSET Contents]
           /\ \A g \in Files : file'[g] \in disk'[g]
  BY DEF Typed, TypeOK, Replace

LEMMA CopyTyped ==
    ASSUME Typed, NEW c \in Callers, Copy(c)
    PROVE  Typed'
<1>1. /\ call[c].pc = "copy" /\ kind = "record" /\ kind' = kind /\ acked' = acked
      /\ Replace("recovery", file["primary"]) /\ Goto(c, "copySync") /\ UnchangedBudget
  BY DEF Copy, At, Typed, CallSound
<1>2. "recovery" \in Files /\ file["primary"] \in Contents
  BY DEF Typed, TypeOK, Files
<1>3. /\ file' \in [Files -> Contents] /\ disk' \in [Files -> SUBSET Contents]
      /\ \A g \in Files : file'[g] \in disk'[g]
  BY <1>1, <1>2, ReplaceTyped
<1>4. /\ call' \in [Callers -> Calls] /\ \A d \in Callers : CallSound(d)'
      /\ lock' \in Callers \cup {NoEvent}
      /\ \A d \in Callers : call'[d].pc # "idle" => lock' = d
  BY <1>1, MoveTyped DEF PCs
<1> QED
  BY <1>1, <1>3, <1>4 DEF Typed, TypeOK, UnchangedBudget

LEMMA GoodTyped == \A log \in Seq(Events) : Good(log) \in Contents
  BY DEF Good, Contents

LEMMA CommitTyped ==
    ASSUME Typed, NEW c \in Callers, Commit(c)
    PROVE  Typed'
<1> DEFINE pc == IF kind = "plain" THEN "return" ELSE "commitSync"
<1>1. /\ call[c].pc = "commit" /\ kind' = kind /\ acked' = acked
      /\ Replace("primary", Good(call[c].next)) /\ Goto(c, pc) /\ UnchangedBudget
  BY DEF Commit, At
<1>2. "primary" \in Files /\ Good(call[c].next) \in Contents
  BY GoodTyped DEF Typed, Calls, Files
<1>3. /\ file' \in [Files -> Contents] /\ disk' \in [Files -> SUBSET Contents]
      /\ \A g \in Files : file'[g] \in disk'[g]
  BY <1>1, <1>2, ReplaceTyped
<1>4. /\ pc \in PCs \ {"idle"} /\ pc \notin {"copy", "copySync", "refresh", "refreshSync"}
      /\ pc = "commitSync" => kind # "plain"
  BY DEF PCs
<1> HIDE DEF pc
<1>5. /\ call' \in [Callers -> Calls] /\ \A d \in Callers : CallSound(d)'
      /\ lock' \in Callers \cup {NoEvent}
      /\ \A d \in Callers : call'[d].pc # "idle" => lock' = d
  BY <1>1, <1>4, MoveTyped
<1> QED
  BY <1>1, <1>3, <1>5 DEF Typed, TypeOK, UnchangedBudget

LEMMA RefreshTyped ==
    ASSUME Typed, NEW c \in Callers, Refresh(c)
    PROVE  Typed'
<1>1. /\ call[c].pc = "refresh" /\ kind = "journal" /\ kind' = kind /\ acked' = acked
      /\ Replace("recovery", Good(call[c].next)) /\ Goto(c, "refreshSync")
      /\ UnchangedBudget
  BY DEF Refresh, At, Typed, CallSound
<1>2. "recovery" \in Files /\ Good(call[c].next) \in Contents
  BY GoodTyped DEF Typed, Calls, Files
<1>3. /\ file' \in [Files -> Contents] /\ disk' \in [Files -> SUBSET Contents]
      /\ \A g \in Files : file'[g] \in disk'[g]
  BY <1>1, <1>2, ReplaceTyped
<1>4. /\ call' \in [Callers -> Calls] /\ \A d \in Callers : CallSound(d)'
      /\ lock' \in Callers \cup {NoEvent}
      /\ \A d \in Callers : call'[d].pc # "idle" => lock' = d
  BY <1>1, MoveTyped DEF PCs
<1> QED
  BY <1>1, <1>3, <1>4 DEF Typed, TypeOK, UnchangedBudget

\* Where a sync leads.
LEMMA SyncLeads ==
    ASSUME Typed, NEW c \in Callers, Sync(c)
    PROVE  \E pc \in {"commit", "refresh", "return"} :
              /\ Goto(c, pc)
              /\ call[c].pc \in {"copySync", "commitSync", "refreshSync"}
              /\ pc = "refresh" => call[c].pc = "commitSync" /\ kind = "journal"
              /\ pc = "commit" => call[c].pc = "copySync"
<1>1. DOMAIN AfterSync = {"copySync", "commitSync", "refreshSync"}
  BY DEF AfterSync
<1>2. CASE call[c].pc = "copySync"
  BY <1>2 DEF Sync, AfterSync
<1>3. CASE call[c].pc = "refreshSync"
  BY <1>3 DEF Sync, AfterSync
<1>4. CASE call[c].pc = "commitSync"
  BY <1>4 DEF Sync, AfterSync
<1> QED
  BY <1>1, <1>2, <1>3, <1>4 DEF Sync

LEMMA SyncTyped ==
    ASSUME Typed, NEW c \in Callers, Sync(c)
    PROVE  Typed'
<1>1. /\ kind' = kind /\ acked' = acked /\ UnchangedBudget /\ file' = file
      /\ disk' = [f \in Files |-> {file[f]}]
  BY DEF Sync, AllDurable
<1>2. PICK pc \in {"commit", "refresh", "return"} :
         /\ Goto(c, pc)
         /\ call[c].pc \in {"copySync", "commitSync", "refreshSync"}
         /\ pc = "refresh" => call[c].pc = "commitSync" /\ kind = "journal"
  BY SyncLeads
<1>3. /\ call' \in [Callers -> Calls] /\ \A d \in Callers : CallSound(d)'
      /\ lock' \in Callers \cup {NoEvent}
      /\ \A d \in Callers : call'[d].pc # "idle" => lock' = d
  BY <1>1, <1>2, MoveTyped DEF PCs
<1>4. /\ disk' \in [Files -> SUBSET Contents] /\ \A g \in Files : file'[g] \in disk'[g]
  BY <1>1 DEF Typed, TypeOK
<1> QED
  BY <1>1, <1>3, <1>4 DEF Typed, TypeOK, UnchangedBudget

LEMMA ReturnTyped ==
    ASSUME Typed, NEW c \in Callers, Return(c)
    PROVE  Typed'
<1>1. /\ call[c].pc = "return" /\ End(c) /\ acked' = acked \cup {call[c].event}
      /\ kind' = kind /\ UnchangedFiles /\ UnchangedBudget
      /\ call[c].event \in Events
  BY DEF Return, At, Typed, CallSound
<1>2. /\ call' \in [Callers -> Calls] /\ lock' = NoEvent
      /\ \A d \in Callers : call'[d] = Resting
  BY <1>1, Ended
<1>3. \A d \in Callers : CallSound(d)' /\ call'[d].pc = "idle"
  BY <1>2, EndTyped
<1> QED
  BY <1>1, <1>2, <1>3 DEF Typed, TypeOK, UnchangedFiles, UnchangedBudget

LEMMA StorageErrorTyped ==
    ASSUME Typed, NEW c \in Callers, StorageError(c)
    PROVE  Typed'
<1>1. /\ call[c].pc # "idle" /\ kind' = kind /\ acked' = acked /\ harmed' = harmed
      /\ spared' = spared /\ file' = file /\ disk' = disk
      /\ budget' \in [faults : Nat, damages : Nat, cuts : Nat]
  BY DEF StorageError, Typed, TypeOK, UnchangedFiles
<1>2. CASE Goto(c, "return")
  <2>1. /\ call' \in [Callers -> Calls] /\ \A d \in Callers : CallSound(d)'
        /\ lock' \in Callers \cup {NoEvent}
        /\ \A d \in Callers : call'[d].pc # "idle" => lock' = d
    BY <1>1, <1>2, MoveTyped DEF PCs
  <2> QED
    BY <1>1, <2>1 DEF Typed, TypeOK
<1>3. CASE End(c)
  <2>1. /\ call' \in [Callers -> Calls] /\ lock' = NoEvent
        /\ \A d \in Callers : call'[d] = Resting
    BY <1>1, <1>3, Ended
  <2>2. \A d \in Callers : CallSound(d)' /\ call'[d].pc = "idle"
    BY <2>1, EndTyped
  <2> QED
    BY <1>1, <2>1, <2>2 DEF Typed, TypeOK
<1> QED
  BY <1>2, <1>3 DEF StorageError

LEMMA CrashTyped ==
    ASSUME Typed, NEW c \in Callers, Crash(c)
    PROVE  Typed'
<1>1. /\ call[c].pc # "idle" /\ End(c) /\ kind' = kind /\ acked' = acked
      /\ UnchangedFiles /\ UnchangedBudget
  BY DEF Crash, Typed, CallSound
<1>2. /\ call' \in [Callers -> Calls] /\ lock' = NoEvent
      /\ \A d \in Callers : call'[d] = Resting
  BY <1>1, Ended
<1>3. \A d \in Callers : CallSound(d)' /\ call'[d].pc = "idle"
  BY <1>2, EndTyped
<1> QED
  BY <1>1, <1>2, <1>3 DEF Typed, TypeOK, UnchangedFiles, UnchangedBudget

LEMMA PowerCutTyped ==
    ASSUME Typed, PowerCut
    PROVE  Typed'
<1>1. /\ kind' = kind /\ acked' = acked /\ spared' = spared /\ lock' = NoEvent
      /\ call' = [c \in Callers |-> Resting] /\ harmed' \in BOOLEAN
      /\ budget' \in [faults : Nat, damages : Nat, cuts : Nat]
      /\ disk' = [f \in Files |-> {file'[f]}]
  BY DEF PowerCut, Typed, TypeOK
<1>2. file' \in [Files -> Contents]
  BY DEF PowerCut, Typed, TypeOK, Files
<1>3. Resting \in Calls
  BY EmptySeq DEF Resting, Calls, PCs
<1>4. \A d \in Callers : CallSound(d)' /\ call'[d].pc = "idle"
  BY <1>1, EndTyped
<1> QED
  BY <1>1, <1>2, <1>3, <1>4 DEF Typed, TypeOK

LEMMA DamageTyped ==
    ASSUME Typed, Damage
    PROVE  Typed'
<1>1. /\ kind' = kind /\ acked' = acked /\ lock' = lock /\ call' = call
      /\ harmed' \in BOOLEAN /\ spared' \in BOOLEAN
      /\ budget' \in [faults : Nat, damages : Nat, cuts : Nat]
  BY DEF Damage, Typed, TypeOK
<1>2. /\ file' \in [Files -> Contents] /\ disk' \in [Files -> SUBSET Contents]
      /\ \A g \in Files : file'[g] \in disk'[g]
  BY DEF Damage, Typed, TypeOK, Contents
<1>3. \A d \in Callers : CallSound(d)'
  BY <1>1 DEF Typed, CallSound
<1> QED
  BY <1>1, <1>2, <1>3 DEF Typed, TypeOK

\* What a call may find when it reads.
LEMMA StartWays ==
    ASSUME Typed, NEW c \in Callers, NEW e \in Events, Start(c, e)
    PROVE  /\ call[c] = Resting /\ lock = NoEvent /\ kind' = kind
           /\ file' = file /\ disk' = disk /\ harmed' = harmed /\ spared' = spared
           /\ budget' = budget
           /\ \/ call' = call /\ lock' = lock /\ acked' = acked
              \/ /\ call' = call /\ lock' = lock /\ kind # "plain" /\ Readable
                 /\ Known(Read.log, e) /\ acked' = acked \cup {e} /\ Settled
              \/ /\ Readable /\ lock' = c /\ acked' = acked
                 /\ \E next \in Seq(Events) :
                       /\ call' = [call EXCEPT ![c] =
                             [pc |-> FirstStep, event |-> e, next |-> next]]
                       /\ \/ kind = "plain" /\ Known(Read.log, e) /\ next = Read.log
                          \/ ~Known(Read.log, e) /\ next = Append(Read.log, e)
<1>1. Read.log \in Seq(Events) /\ Append(Read.log, e) \in Seq(Events)
  BY ReadTyped, Appending
<1>2. /\ call[c] = Resting /\ lock = NoEvent /\ kind' = kind
      /\ file' = file /\ disk' = disk /\ harmed' = harmed /\ spared' = spared
      /\ budget' = budget
  BY DEF Start, Reads, UnchangedFiles, UnchangedBudget
<1> QED
  BY <1>1, <1>2 DEF Start, Reads

LEMMA StartTyped ==
    ASSUME Typed, NEW c \in Callers, NEW e \in Events, Start(c, e)
    PROVE  Typed'
<1>1. /\ call[c] = Resting /\ lock = NoEvent /\ kind' = kind
      /\ file' = file /\ disk' = disk /\ harmed' = harmed /\ spared' = spared
      /\ budget' = budget
  BY StartWays
<1>2. CASE call' = call /\ lock' = lock /\ acked' \in {acked, acked \cup {e}}
  <2>1. \A d \in Callers : CallSound(d)'
    BY <1>1, <1>2 DEF Typed, CallSound
  <2>2. acked' \subseteq Events
    BY <1>2 DEF Typed, TypeOK
  <2> QED
    BY <1>1, <1>2, <2>1, <2>2 DEF Typed, TypeOK
<1>3. ASSUME NEW next \in Seq(Events), lock' = c, acked' = acked,
             call' = [call EXCEPT ![c] = [pc |-> FirstStep, event |-> e, next |-> next]],
             \/ Known(Read.log, e) /\ next = Read.log
             \/ ~Known(Read.log, e) /\ next = Append(Read.log, e)
      PROVE  Typed'
  <2> DEFINE new == [pc |-> FirstStep, event |-> e, next |-> next]
  <2>1. /\ FirstStep \in {"copy", "commit"}
        /\ FirstStep = "copy" => kind = "record"
    BY DEF FirstStep
  <2>2. Contains(next, e)
    <3>1. Contains(Append(Read.log, e), e)
      BY ReadTyped, Appending
    <3> QED
      BY <1>3, <3>1 DEF Known, Contains, Promised!Contains
  <2>3. new \in Calls /\ new.pc = FirstStep /\ new.event = e /\ new.next = next
    BY <2>1 DEF Calls, PCs
  <2> HIDE DEF new
  <2>4. /\ call' \in [Callers -> Calls] /\ call'[c] = new
        /\ \A d \in Callers : d # c => call'[d] = call[d] /\ call[d].pc = "idle"
    BY <1>1, <1>3, <2>3, StoreAssumption DEF Typed, TypeOK, new
  <2>5. \A d \in Callers : CallSound(d)'
    BY <1>1, <2>1, <2>2, <2>3, <2>4 DEF Typed, CallSound
  <2> QED
    BY <1>1, <1>3, <2>1, <2>3, <2>4, <2>5 DEF Typed, TypeOK
<1> QED
  BY <1>1, <1>2, <1>3, StartWays

LEMMA StepTyped ==
    ASSUME Typed, [Next]_vars
    PROVE  Typed'
<1>1. CASE PowerCut \/ Damage
  BY <1>1, PowerCutTyped, DamageTyped
<1>2. ASSUME NEW c \in Callers,
             \/ Copy(c) \/ Commit(c) \/ Refresh(c) \/ Sync(c) \/ Return(c)
             \/ StorageError(c) \/ Crash(c)
      PROVE  Typed'
  BY <1>2, CopyTyped, CommitTyped, RefreshTyped, SyncTyped, ReturnTyped, StorageErrorTyped,
     CrashTyped
<1>3. ASSUME NEW c \in Callers, NEW e \in Events, Start(c, e)
      PROVE  Typed'
  BY <1>3, StartTyped
<1>4. CASE UNCHANGED vars
  BY <1>4 DEF vars, Typed, TypeOK, CallSound
<1> QED
  BY <1>1, <1>2, <1>3, <1>4 DEF Next

LEMMA InitTyped ==
    ASSUME Init
    PROVE  Typed
<1>1. Resting \in Calls /\ Resting.pc = "idle"
  BY EmptySeq DEF Resting, Calls, PCs
<1>2. TypeOK
  BY <1>1, StoreAssumption DEF Init, TypeOK, Contents
<1> QED
  BY <1>1, <1>2 DEF Init, Typed, CallSound

LEMMA AlwaysTyped == Spec => []Typed
<1>1. Init => Typed
  BY InitTyped
<1>2. Typed /\ [Next]_vars => Typed'
  BY StepTyped
<1> QED
  BY <1>1, <1>2, PTL DEF Spec

\* Files, calls and the lock keep their shape over every crash and fault.
THEOREM StoresTyped == Spec => []TypeOK
<1>1. Typed => TypeOK
  BY DEF Typed
<1> QED
  BY <1>1, AlwaysTyped, PTL

-----------------------------------------------------------------------------
(* A mutation is applied once.                                                *)

\* An event that is in a log twice is outside the window of a record.
Distinct(log) ==
    \A i, j \in DOMAIN log : i < j /\ log[i] = log[j] => kind = "record" /\ j - i > Window

\* Every log there is, on any file or on its way to one.
OnceSound ==
    /\ \A f \in Files : \A d \in disk[f] : Distinct(d.log)
    /\ \A c \in Callers : Distinct(call[c].next)

LEMMA EmptyDistinct == Distinct(<<>>)
  BY DEF Distinct

\* An event that is not known may be appended.
LEMMA AppendDistinct ==
    ASSUME Typed, NEW log \in Seq(Events), NEW e \in Events, Distinct(log), ~Known(log, e)
    PROVE  Distinct(Append(log, e))
<1> DEFINE n == Len(log) + 1
<1>1. /\ Len(log) \in Nat /\ DOMAIN log = 1..Len(log)
      /\ DOMAIN Append(log, e) = 1..n /\ Append(log, e)[n] = e
      /\ \A i \in 1..Len(log) : Append(log, e)[i] = log[i]
  BY AppendProperties, LenProperties
<1> SUFFICES ASSUME NEW i \in 1..n, NEW j \in 1..n, i < j,
                    Append(log, e)[i] = Append(log, e)[j]
             PROVE  kind = "record" /\ j - i > Window
  BY <1>1 DEF Distinct
<1>2. i \in 1..Len(log)
  BY <1>1
<1>3. CASE j \in 1..Len(log)
  BY <1>1, <1>2, <1>3 DEF Distinct
<1>4. CASE j = n
  <2>1. log[i] = e
    BY <1>1, <1>2, <1>4
  <2>2. kind = "record" /\ ~(i > Len(log) - Window)
    BY <1>1, <1>2, <2>1 DEF Known
  <2> QED
    BY <1>1, <1>2, <1>4, <2>2, StoreAssumption
<1> QED
  BY <1>1, <1>3, <1>4

\* The files hold what they held, or what a call was to write.
LEMMA FilesDistinct ==
    ASSUME Typed, OnceSound, kind' = kind,
           \A f \in Files : \A d \in disk'[f] :
               \/ \E g \in Files : d \in disk[g]
               \/ d.log = <<>>
               \/ \E c \in Callers : d.log = call[c].next,
           \A c \in Callers : call'[c].next = call[c].next \/ call'[c].next = <<>>
    PROVE  OnceSound'
<1>1. \A log : Distinct(log) => Distinct(log)'
  BY DEF Distinct
<1>2. ASSUME NEW f \in Files, NEW d \in disk'[f]
      PROVE  Distinct(d.log)
  BY <1>2, EmptyDistinct DEF OnceSound
<1>3. ASSUME NEW c \in Callers
      PROVE  Distinct(call'[c].next)
  BY <1>3, EmptyDistinct DEF OnceSound
<1>4. \A f \in Files : \A d \in disk'[f] : kind' = kind /\ Distinct(d.log)
  BY <1>2
<1> QED
  BY <1>2, <1>3 DEF OnceSound, Distinct

LEMMA StepOnce ==
    ASSUME Typed, OnceSound, [Next]_vars
    PROVE  OnceSound'
<1>1. Resting.next = <<>>
  BY DEF Resting
<1>2. ASSUME NEW c \in Callers, NEW pc \in PCs \ {"idle"}, call[c].pc # "idle",
             Goto(c, pc) \/ End(c)
      PROVE  \A d \in Callers : call'[d].next = call[d].next \/ call'[d].next = <<>>
  BY <1>1, <1>2, Gone, Ended
<1>3. ASSUME NEW c \in Callers, Copy(c)
      PROVE  OnceSound'
  <2>1. /\ kind' = kind /\ call[c].pc = "copy" /\ Goto(c, "copySync")
        /\ disk' = [disk EXCEPT !["recovery"] = @ \cup {file["primary"]}]
    BY <1>3 DEF Copy, At, Replace
  <2>2. file["primary"] \in disk["primary"] /\ "primary" \in Files
    BY DEF Typed, Files
  <2>3. \A f \in Files : \A d \in disk'[f] : \E g \in Files : d \in disk[g]
    BY <2>1, <2>2 DEF Typed, TypeOK
  <2> QED
    BY <1>2, <2>1, <2>3, FilesDistinct DEF PCs
<1>4. ASSUME NEW c \in Callers, Commit(c) \/ Refresh(c)
      PROVE  OnceSound'
  <2>1. /\ kind' = kind /\ call[c].pc # "idle"
        /\ \E pc \in PCs \ {"idle"} : Goto(c, pc)
        /\ \E f \in Files : disk' = [disk EXCEPT ![f] = @ \cup {Good(call[c].next)}]
    BY <1>4 DEF Commit, Refresh, At, Replace, PCs, Files
  <2>2. \A f \in Files : \A d \in disk'[f] : d \in disk[f] \/ d = Good(call[c].next)
    BY <2>1 DEF Typed, TypeOK
  <2>3. Good(call[c].next).log = call[c].next
    BY DEF Good
  <2> QED
    BY <1>2, <2>1, <2>2, <2>3, FilesDistinct
<1>5. ASSUME NEW c \in Callers, Sync(c) \/ Return(c) \/ StorageError(c) \/ Crash(c)
      PROVE  OnceSound'
  <2>1. kind' = kind /\ \A f \in Files : disk'[f] \subseteq disk[f]
    BY <1>5 DEF Sync, AllDurable, Return, StorageError, Crash, UnchangedFiles, Typed
  <2>2. \A d \in Callers : call'[d].next = call[d].next \/ call'[d].next = <<>>
    <3>1. CASE Sync(c)
      BY <1>2, <3>1, SyncLeads DEF PCs
    <3>2. CASE Return(c) \/ StorageError(c) \/ Crash(c)
      <4>1. call[c].pc # "idle" /\ (Goto(c, "return") \/ End(c))
        BY <3>2 DEF Return, StorageError, Crash, At, Typed, CallSound
      <4> QED
        BY <1>2, <4>1 DEF PCs
    <3> QED
      BY <1>5, <3>1, <3>2
  <2> QED
    BY <2>1, <2>2, FilesDistinct
<1>6. CASE PowerCut
  <2>1. /\ kind' = kind /\ call' = [d \in Callers |-> Resting]
        /\ \A f \in Files : disk'[f] \subseteq disk[f]
    BY <1>6 DEF PowerCut, Files
  <2> QED
    BY <1>1, <2>1, FilesDistinct
<1>7. CASE Damage
  <2>1. /\ kind' = kind /\ call' = call
        /\ \E f \in Files : disk' = [disk EXCEPT ![f] = {Bad}]
    BY <1>7 DEF Damage
  <2>2. Bad.log = <<>>
    BY DEF Bad
  <2>3. \A f \in Files : \A d \in disk'[f] : d \in disk[f] \/ d = Bad
    BY <2>1 DEF Typed, TypeOK
  <2> QED
    BY <2>1, <2>2, <2>3, FilesDistinct
<1>8. ASSUME NEW c \in Callers, NEW e \in Events, Start(c, e)
      PROVE  OnceSound'
  <2>1. kind' = kind /\ disk' = disk /\ file' = file
    BY <1>8, StartWays
  <2>2. CASE call' = call
    BY <2>1, <2>2, FilesDistinct
  <2>3. ASSUME NEW next \in Seq(Events),
               call' = [call EXCEPT ![c] = [pc |-> FirstStep, event |-> e, next |-> next]],
               next = Read.log \/ (~Known(Read.log, e) /\ next = Append(Read.log, e))
        PROVE  OnceSound'
    <3>1. Distinct(Read.log) /\ Read.log \in Seq(Events)
      BY ReadTyped DEF OnceSound, Typed, Read, Files
    <3>2. Distinct(next)
      BY <2>3, <3>1, AppendDistinct
    <3>3. \A d \in Callers : call'[d].next = call[d].next \/ call'[d].next = next
      BY <2>3 DEF Typed
    <3> QED
      BY <2>1, <3>2, <3>3 DEF OnceSound, Distinct
  <2> QED
    BY <1>8, <2>2, <2>3, StartWays
<1>9. CASE UNCHANGED vars
  BY <1>9, FilesDistinct DEF vars
<1> QED
  BY <1>3, <1>4, <1>5, <1>6, <1>7, <1>8, <1>9 DEF Next

\* A mutation that is retried is applied once, whatever happened in between;
\* in a record, within its window.
THEOREM RetriesApplyOnce == Spec => []AppliedOnce
<1>1. Init => OnceSound
  BY DEF Init, OnceSound, Distinct, Absent, Resting
<1>2. Typed /\ OnceSound /\ [Next]_vars => OnceSound'
  BY StepOnce
<1>3. Typed /\ OnceSound => AppliedOnce
  <2> SUFFICES ASSUME Typed, OnceSound PROVE AppliedOnce
    OBVIOUS
  <2>1. Distinct(Read.log)
    BY DEF OnceSound, Typed, Read, Files
  <2>2. Distinct(Visible)
    BY <2>1, EmptyDistinct DEF Visible
  <2> QED
    BY <2>2 DEF Distinct, AppliedOnce
<1> QED
  BY <1>1, <1>2, <1>3, AlwaysTyped, PTL DEF Spec

-----------------------------------------------------------------------------
(* A journal whose recovery file was spared stays readable.                   *)

RecoverySound ==
    kind = "journal" /\ spared => \A d \in disk["recovery"] : d.state = "good"

LEMMA StepRecovery ==
    ASSUME Typed, RecoverySound, [Next]_vars
    PROVE  RecoverySound'
<1>1. ASSUME kind' = kind, spared' = spared,
             \A d \in disk'["recovery"] : d \in disk["recovery"] \/ d.state = "good"
      PROVE  RecoverySound'
  BY <1>1 DEF RecoverySound
<1>2. ASSUME NEW c \in Callers, Copy(c)
      PROVE  RecoverySound'
  <2>1. kind' = "record"
    BY <1>2 DEF Copy, At, Typed, CallSound
  <2> QED
    BY <2>1 DEF RecoverySound
<1>3. ASSUME NEW c \in Callers, Commit(c) \/ Refresh(c)
      PROVE  RecoverySound'
  <2>1. /\ kind' = kind /\ spared' = spared
        /\ \E f \in Files : disk' = [disk EXCEPT ![f] = @ \cup {Good(call[c].next)}]
    BY <1>3 DEF Commit, Refresh, Replace, Files, UnchangedBudget
  <2>2. \A d \in disk'["recovery"] : d \in disk["recovery"] \/ d = Good(call[c].next)
    BY <2>1 DEF Typed, TypeOK, Files
  <2>3. Good(call[c].next).state = "good"
    BY DEF Good
  <2> QED
    BY <1>1, <2>1, <2>2, <2>3
<1>4. ASSUME NEW c \in Callers, Sync(c) \/ Return(c) \/ StorageError(c) \/ Crash(c)
      PROVE  RecoverySound'
  <2>1. kind' = kind /\ spared' = spared /\ disk'["recovery"] \subseteq disk["recovery"]
    BY <1>4 DEF Sync, AllDurable, Return, StorageError, Crash, UnchangedFiles,
       UnchangedBudget, Typed, Files
  <2> QED
    BY <1>1, <2>1
<1>5. CASE PowerCut
  <2>1. kind' = kind /\ spared' = spared /\ disk'["recovery"] \subseteq disk["recovery"]
    BY <1>5 DEF PowerCut, Files
  <2> QED
    BY <1>1, <2>1
<1>6. CASE Damage
  <2> SUFFICES ASSUME spared', NEW d \in disk'["recovery"]
               PROVE  d.state = "good"
    BY DEF RecoverySound
  <2>1. /\ file["recovery"].state = "good" /\ file'["recovery"] = file["recovery"]
        /\ disk["recovery"] = {file["recovery"]}
    BY <1>6 DEF Damage
  <2>2. PICK f \in Files : file' = [file EXCEPT ![f] = Bad] /\ disk' = [disk EXCEPT ![f] = {Bad}]
    BY <1>6 DEF Damage
  <2>3. Bad.state # "good"
    BY DEF Bad
  <2>4. f # "recovery"
    BY <2>1, <2>2, <2>3 DEF Typed, TypeOK, Files
  <2>5. disk'["recovery"] = disk["recovery"]
    BY <2>2, <2>4 DEF Typed, TypeOK, Files
  <2> QED
    BY <2>1, <2>5
<1>7. ASSUME NEW c \in Callers, NEW e \in Events, Start(c, e)
      PROVE  RecoverySound'
  <2>1. kind' = kind /\ spared' = spared /\ disk' = disk
    BY <1>7, StartWays
  <2> QED
    BY <1>1, <2>1
<1>8. CASE UNCHANGED vars
  BY <1>1, <1>8 DEF vars
<1> QED
  BY <1>2, <1>3, <1>4, <1>5, <1>6, <1>7, <1>8 DEF Next

\* A journal whose primary was damaged beside a good recovery file can be read
\* for good, whatever its writers go through.
THEOREM DamagedJournalsRecover == Spec => []JournalRecovers
<1>1. Init => RecoverySound
  BY DEF Init, RecoverySound
<1>2. Typed /\ RecoverySound /\ [Next]_vars => RecoverySound'
  BY StepRecovery
<1>3. Typed /\ RecoverySound => JournalRecovers
  <2> SUFFICES ASSUME Typed, kind = "journal", \A d \in disk["recovery"] : d.state = "good"
               PROVE  Readable
    BY DEF RecoverySound, JournalRecovers
  <2>1. file["recovery"].state = "good"
    BY DEF Typed, Files
  <2> QED
    BY <2>1 DEF Readable, Read, FromRecovery
<1> QED
  BY <1>1, <1>2, <1>3, AlwaysTyped, PTL DEF Spec

-----------------------------------------------------------------------------
(* What was acknowledged is kept.                                             *)

\* No generation of the primary is damaged, and a journal that has a recovery
\* file has its primary.
PrimaryReadable ==
    /\ \A d \in disk["primary"] : d.state # "damaged"
    /\ kind = "journal" /\ (\E d \in disk["recovery"] : d.state # "absent") =>
           \A d \in disk["primary"] : d.state # "absent"

\* Each generation is an earlier one of the primary's, and has what was
\* acknowledged; of the coordinator's file only the newest.
Acknowledged ==
    /\ \A e \in acked : Contains(file["primary"].log, e)
    /\ kind # "plain" =>
           \A d \in disk["primary"] :
               /\ Prefix(d.log, file["primary"].log)
               /\ \A e \in acked : Contains(d.log, e)

\* A call is to write one event more, or has written it; it refreshes the
\* recovery file and returns when that is durable.
CallKept(c) ==
    /\ call[c].pc \in {"copy", "copySync", "commit"} =>
           \/ call[c].next = file["primary"].log
           \/ call[c].next = Append(file["primary"].log, call[c].event)
    /\ call[c].pc \in {"commitSync", "refresh", "refreshSync", "return"} =>
           file["primary"] = Good(call[c].next)
    /\ call[c].pc \in {"refresh", "refreshSync", "return"} /\ kind # "plain" =>
           disk["primary"] = {file["primary"]}

KeptSound ==
    harmed = FALSE =>
        PrimaryReadable /\ Acknowledged /\ \A c \in Callers : CallKept(c)

\* Then the primary is what is read.
LEMMA PrimaryIsRead ==
    ASSUME Typed, PrimaryReadable
    PROVE  /\ Readable /\ Read = file["primary"] /\ Visible = file["primary"].log
           /\ Visible \in Seq(Events)
<1>1. /\ file["primary"] \in disk["primary"] /\ file["recovery"] \in disk["recovery"]
  BY DEF Typed, Files
<1>2. ~FromRecovery
  BY <1>1 DEF PrimaryReadable, FromRecovery
<1>3. Read = file["primary"] /\ Readable
  BY <1>1, <1>2 DEF PrimaryReadable, Read, Readable
<1> QED
  BY <1>3, ReadTyped DEF Visible

LEMMA RestingKept ==
    ASSUME NEW c \in Callers, call'[c].pc = "idle"
    PROVE  CallKept(c)'
  BY DEF CallKept

\* The recovery file does not matter to what is read of an intact primary.
LEMMA RecoveryWritten ==
    ASSUME Typed, PrimaryReadable, Acknowledged, kind' = kind, acked' = acked,
           NEW content \in Contents, Replace("recovery", content),
           kind = "journal" => \A d \in disk["primary"] : d.state # "absent"
    PROVE  /\ file'["primary"] = file["primary"] /\ disk'["primary"] = disk["primary"]
           /\ PrimaryReadable' /\ Acknowledged'
<1>1. file'["primary"] = file["primary"] /\ disk'["primary"] = disk["primary"]
  BY DEF Replace, Typed, TypeOK, Files
<1> QED
  BY <1>1 DEF PrimaryReadable, Acknowledged

LEMMA CopyKept ==
    ASSUME Typed, NEW c \in Callers, Copy(c), harmed = FALSE,
           PrimaryReadable, Acknowledged, \A d \in Callers : CallKept(d)
    PROVE  PrimaryReadable' /\ Acknowledged' /\ \A d \in Callers : CallKept(d)'
<1>1. /\ call[c].pc = "copy" /\ kind = "record" /\ kind' = kind /\ acked' = acked
      /\ Replace("recovery", file["primary"]) /\ Goto(c, "copySync")
      /\ file["primary"] \in Contents
  BY DEF Copy, At, Typed, TypeOK, CallSound, Files
<1>2. /\ \A d \in Callers : d # c => call'[d] = call[d] /\ call[d].pc = "idle"
      /\ call'[c].pc = "copySync" /\ call'[c].event = call[c].event
      /\ call'[c].next = call[c].next
  BY <1>1, Gone DEF PCs
<1>3. /\ file'["primary"] = file["primary"] /\ disk'["primary"] = disk["primary"]
      /\ PrimaryReadable' /\ Acknowledged'
  BY <1>1, RecoveryWritten
<1>4. \A d \in Callers : CallKept(d)'
  BY <1>1, <1>2, <1>3 DEF CallKept
<1> QED
  BY <1>3, <1>4

LEMMA RefreshKept ==
    ASSUME Typed, NEW c \in Callers, Refresh(c), harmed = FALSE,
           PrimaryReadable, Acknowledged, \A d \in Callers : CallKept(d)
    PROVE  PrimaryReadable' /\ Acknowledged' /\ \A d \in Callers : CallKept(d)'
<1>1. /\ call[c].pc = "refresh" /\ kind = "journal" /\ kind' = kind /\ acked' = acked
      /\ Replace("recovery", Good(call[c].next)) /\ Goto(c, "refreshSync")
      /\ Good(call[c].next) \in Contents
  BY GoodTyped DEF Refresh, At, Typed, CallSound, Calls
<1>2. /\ \A d \in Callers : d # c => call'[d] = call[d] /\ call[d].pc = "idle"
      /\ call'[c].pc = "refreshSync" /\ call'[c].event = call[c].event
      /\ call'[c].next = call[c].next
  BY <1>1, Gone DEF PCs
<1>3. /\ file["primary"] = Good(call[c].next) /\ disk["primary"] = {file["primary"]}
      /\ file["primary"].state # "absent"
  BY <1>1 DEF CallKept, Good
<1>4. /\ file'["primary"] = file["primary"] /\ disk'["primary"] = disk["primary"]
      /\ PrimaryReadable' /\ Acknowledged'
  BY <1>1, <1>3, RecoveryWritten
<1>5. \A d \in Callers : CallKept(d)'
  BY <1>1, <1>2, <1>3, <1>4 DEF CallKept
<1> QED
  BY <1>4, <1>5

LEMMA CommitKept ==
    ASSUME Typed, NEW c \in Callers, Commit(c), harmed = FALSE,
           PrimaryReadable, Acknowledged, \A d \in Callers : CallKept(d)
    PROVE  PrimaryReadable' /\ Acknowledged' /\ \A d \in Callers : CallKept(d)'
<1> DEFINE next == call[c].next
           log == file["primary"].log
<1>1. /\ call[c].pc = "commit" /\ kind' = kind /\ acked' = acked
      /\ Replace("primary", Good(next))
      /\ Goto(c, IF kind = "plain" THEN "return" ELSE "commitSync")
  BY DEF Commit, At
<1>2. /\ \A d \in Callers : d # c => call'[d] = call[d] /\ call[d].pc = "idle"
      /\ call'[c].pc = (IF kind = "plain" THEN "return" ELSE "commitSync")
      /\ call'[c].next = next
  BY <1>1, Gone DEF PCs
<1>3. /\ file'["primary"] = Good(next) /\ disk'["primary"] = disk["primary"] \cup {Good(next)}
      /\ disk'["recovery"] = disk["recovery"]
  BY <1>1 DEF Replace, Typed, TypeOK, Files
<1>4. Good(next).state = "good" /\ Good(next).log = next
  BY DEF Good
<1>5. /\ next \in Seq(Events) /\ log \in Seq(Events) /\ call[c].event \in Events
      /\ \A d \in disk["primary"] : d.log \in Seq(Events)
  BY <1>1, ReadTyped DEF Typed, TypeOK, CallSound, Calls, Files
<1>6. next = log \/ next = Append(log, call[c].event)
  BY <1>1 DEF CallKept
<1> HIDE DEF next, log
<1>7. /\ Prefix(next, next)
      /\ \A e : Contains(log, e) => Contains(next, e)
      /\ \A t \in Seq(Events) : Prefix(t, log) => Prefix(t, next)
  <2>1. CASE next = log
    BY <1>5, <2>1, PrefixOfItself
  <2>2. CASE next = Append(log, call[c].event)
    <3>1. Prefix(next, next)
      BY <1>5, PrefixOfItself
    <3>2. \A e : Contains(log, e) => Contains(next, e)
      BY <1>5, <2>2, Appending
    <3>3. \A t \in Seq(Events) : Prefix(t, log) => Prefix(t, next)
      BY <1>5, <2>2, Appending
    <3> QED
      BY <3>1, <3>2, <3>3
  <2> QED
    BY <1>6, <2>1, <2>2
<1>8. PrimaryReadable'
  BY <1>1, <1>3, <1>4 DEF PrimaryReadable
<1>9. Acknowledged'
  <2>1. \A e \in acked : Contains(next, e)
    BY <1>7 DEF Acknowledged, log
  <2>2. kind # "plain" =>
            \A d \in disk["primary"] : Prefix(d.log, next) /\ \A e \in acked : Contains(d.log, e)
    BY <1>5, <1>7 DEF Acknowledged, log
  <2> QED
    BY <1>1, <1>3, <1>4, <1>7, <2>1, <2>2 DEF Acknowledged
<1>10. \A d \in Callers : CallKept(d)'
  BY <1>1, <1>2, <1>3 DEF CallKept
<1> QED
  BY <1>8, <1>9, <1>10

LEMMA SyncKept ==
    ASSUME Typed, NEW c \in Callers, Sync(c), harmed = FALSE,
           PrimaryReadable, Acknowledged, \A d \in Callers : CallKept(d)
    PROVE  PrimaryReadable' /\ Acknowledged' /\ \A d \in Callers : CallKept(d)'
<1>1. /\ kind' = kind /\ acked' = acked /\ file' = file
      /\ disk' = [f \in Files |-> {file[f]}]
      /\ file["primary"] \in disk["primary"] /\ file["recovery"] \in disk["recovery"]
      /\ disk'["primary"] = {file["primary"]} /\ disk'["recovery"] = {file["recovery"]}
  BY DEF Sync, AllDurable, Typed, Files
<1>2. PICK pc \in {"commit", "refresh", "return"} :
         /\ Goto(c, pc)
         /\ call[c].pc \in {"copySync", "commitSync", "refreshSync"}
         /\ pc = "commit" <=> call[c].pc = "copySync"
  <2>1. CASE call[c].pc = "copySync"
    BY <2>1 DEF Sync, AfterSync
  <2>2. CASE call[c].pc # "copySync"
    BY <2>2, SyncLeads
  <2> QED
    BY <2>1, <2>2
<1>3. /\ \A d \in Callers : d # c => call'[d] = call[d] /\ call[d].pc = "idle"
      /\ call'[c].pc = pc /\ call'[c].event = call[c].event /\ call'[c].next = call[c].next
  BY <1>2, Gone DEF PCs
<1>4. PrimaryReadable' /\ Acknowledged'
  BY <1>1 DEF PrimaryReadable, Acknowledged
<1>5. \A d \in Callers : CallKept(d)'
  BY <1>1, <1>2, <1>3 DEF CallKept
<1> QED
  BY <1>4, <1>5

LEMMA ReturnKept ==
    ASSUME Typed, NEW c \in Callers, Return(c), harmed = FALSE,
           PrimaryReadable, Acknowledged, \A d \in Callers : CallKept(d)
    PROVE  PrimaryReadable' /\ Acknowledged' /\ \A d \in Callers : CallKept(d)'
<1>1. /\ call[c].pc = "return" /\ End(c) /\ acked' = acked \cup {call[c].event}
      /\ kind' = kind /\ file' = file /\ disk' = disk
      /\ Contains(call[c].next, call[c].event)
  BY DEF Return, At, UnchangedFiles, Typed, CallSound
<1>2. /\ file["primary"] = Good(call[c].next)
      /\ kind # "plain" => disk["primary"] = {file["primary"]}
  BY <1>1 DEF CallKept
<1>3. Contains(file["primary"].log, call[c].event)
  BY <1>1, <1>2 DEF Good
<1>4. \A d \in Callers : call'[d].pc = "idle"
  BY <1>1, Ended DEF Resting
<1>5. \A d \in Callers : CallKept(d)'
  BY <1>4, RestingKept
<1>6. PrimaryReadable' /\ Acknowledged'
  BY <1>1, <1>2, <1>3 DEF PrimaryReadable, Acknowledged
<1> QED
  BY <1>5, <1>6

LEMMA FailureKept ==
    ASSUME Typed, NEW c \in Callers, StorageError(c) \/ Crash(c), harmed = FALSE,
           PrimaryReadable, Acknowledged, \A d \in Callers : CallKept(d)
    PROVE  PrimaryReadable' /\ Acknowledged' /\ \A d \in Callers : CallKept(d)'
<1>1. /\ kind' = kind /\ acked' = acked /\ file' = file /\ disk' = disk
      /\ call[c].pc # "idle"
  BY DEF StorageError, Crash, UnchangedFiles, Typed, CallSound
<1>2. PrimaryReadable' /\ Acknowledged'
  BY <1>1 DEF PrimaryReadable, Acknowledged
<1>3. CASE End(c)
  <2>1. \A d \in Callers : call'[d].pc = "idle"
    BY <1>1, <1>3, Ended DEF Resting
  <2> QED
    BY <1>2, <2>1, RestingKept
<1>4. CASE call[c].pc \in {"refresh", "refreshSync"} /\ Goto(c, "return")
  <2>1. /\ \A d \in Callers : d # c => call'[d] = call[d] /\ call[d].pc = "idle"
        /\ call'[c].pc = "return" /\ call'[c].next = call[c].next
    BY <1>1, <1>4, Gone DEF PCs
  <2>2. \A d \in Callers : CallKept(d)'
    BY <1>1, <1>4, <2>1 DEF CallKept
  <2> QED
    BY <1>2, <2>2
<1> QED
  BY <1>3, <1>4 DEF StorageError, Crash

LEMMA PowerCutKept ==
    ASSUME Typed, PowerCut, harmed' = FALSE, harmed = FALSE,
           PrimaryReadable, Acknowledged, \A d \in Callers : CallKept(d)
    PROVE  PrimaryReadable' /\ Acknowledged' /\ \A d \in Callers : CallKept(d)'
<1>1. /\ kind' = kind /\ acked' = acked /\ kind # "plain"
      /\ call' = [d \in Callers |-> Resting]
      /\ file'["primary"] \in disk["primary"] /\ file'["recovery"] \in disk["recovery"]
      /\ disk'["primary"] = {file'["primary"]} /\ disk'["recovery"] = {file'["recovery"]}
  <2>1. PICK p \in disk["primary"], r \in disk["recovery"] : file' = [primary |-> p, recovery |-> r]
    BY DEF PowerCut
  <2>2. file'["primary"] \in disk["primary"] /\ file'["recovery"] \in disk["recovery"]
    BY <2>1
  <2>3. harmed' = (harmed \/ kind = "plain")
    BY DEF PowerCut
  <2>4. kind # "plain"
    BY <2>3, Zenon
  <2>5. /\ kind' = kind /\ acked' = acked
        /\ call' = [d \in Callers |-> Resting]
        /\ disk' = [f \in Files |-> {file'[f]}]
    BY DEF PowerCut
  <2>6. disk'["primary"] = {file'["primary"]} /\ disk'["recovery"] = {file'["recovery"]}
    BY <2>5 DEF Files
  <2> QED
    BY <2>2, <2>4, <2>5, <2>6
<1>2. file'["primary"].log \in Seq(Events)
  BY <1>1, ReadTyped DEF Typed, TypeOK, Files
<1>3. PrimaryReadable'
  BY <1>1 DEF PrimaryReadable
<1>4. Acknowledged'
  BY <1>1, <1>2, PrefixOfItself DEF Acknowledged
<1>5. \A d \in Callers : call'[d].pc = "idle"
  BY <1>1 DEF Resting
<1> QED
  BY <1>3, <1>4, <1>5, RestingKept

LEMMA DamageKept ==
    ASSUME Typed, Damage, harmed' = FALSE, harmed = FALSE,
           PrimaryReadable, Acknowledged, \A d \in Callers : CallKept(d)
    PROVE  PrimaryReadable' /\ Acknowledged' /\ \A d \in Callers : CallKept(d)'
<1>1. kind' = kind /\ acked' = acked /\ call' = call /\ file'["primary"] # Bad
  BY DEF Damage
<1>2. /\ file["recovery"].state = "good"
      /\ file'["primary"] = file["primary"] /\ disk'["primary"] = disk["primary"]
  BY <1>1 DEF Damage, Typed, TypeOK, Files
<1>3. file["recovery"] \in disk["recovery"]
  BY DEF Typed, Files
<1>4. PrimaryReadable' /\ Acknowledged'
  BY <1>1, <1>2, <1>3 DEF PrimaryReadable, Acknowledged
<1>5. \A d \in Callers : CallKept(d)'
  BY <1>1, <1>2 DEF CallKept
<1> QED
  BY <1>4, <1>5

LEMMA StartKept ==
    ASSUME Typed, NEW c \in Callers, NEW e \in Events, Start(c, e), harmed = FALSE,
           PrimaryReadable, Acknowledged, \A d \in Callers : CallKept(d)
    PROVE  PrimaryReadable' /\ Acknowledged' /\ \A d \in Callers : CallKept(d)'
<1>1. kind' = kind /\ file' = file /\ disk' = disk /\ Read = file["primary"]
  BY StartWays, PrimaryIsRead
<1>2. PrimaryReadable'
  BY <1>1 DEF PrimaryReadable
<1>3. CASE call' = call /\ acked' = acked
  BY <1>1, <1>2, <1>3 DEF Acknowledged, CallKept
<1>4. CASE call' = call /\ Known(Read.log, e) /\ acked' = acked \cup {e} /\ Settled
  <2>1. Contains(file["primary"].log, e) /\ disk["primary"] = {file["primary"]}
    BY <1>1, <1>4 DEF Known, Settled, Contains, Promised!Contains
  <2>2. Acknowledged'
    BY <1>1, <1>4, <2>1 DEF Acknowledged
  <2> QED
    BY <1>1, <1>2, <1>4, <2>2 DEF CallKept
<1>5. ASSUME NEW next \in Seq(Events), acked' = acked,
             call' = [call EXCEPT ![c] = [pc |-> FirstStep, event |-> e, next |-> next]],
             next = Read.log \/ next = Append(Read.log, e)
      PROVE  Acknowledged' /\ \A d \in Callers : CallKept(d)'
  <2> DEFINE new == [pc |-> FirstStep, event |-> e, next |-> next]
  <2>1. /\ new.pc \in {"copy", "commit"} /\ new.event = e /\ new.next = next
    BY DEF FirstStep
  <2> HIDE DEF new
  <2>2. call'[c] = new /\ \A d \in Callers : d # c => call'[d] = call[d]
    BY <1>5 DEF Typed, new
  <2>3. \A d \in Callers : CallKept(d)'
    BY <1>1, <1>5, <2>1, <2>2 DEF CallKept
  <2> QED
    BY <1>1, <1>5, <2>3 DEF Acknowledged
<1> QED
  BY <1>2, <1>3, <1>4, <1>5, StartWays

\* Damage, and nothing else, is for good.
LEMMA HarmIsForGood ==
    ASSUME Typed, [Next]_vars, harmed' = FALSE
    PROVE  harmed = FALSE
<1>1. harmed \in BOOLEAN
  BY DEF Typed, TypeOK
<1>2. CASE PowerCut \/ Damage
  BY <1>1, <1>2 DEF PowerCut, Damage
<1>3. ASSUME NEW c \in Callers,
             \/ Copy(c) \/ Commit(c) \/ Refresh(c) \/ Sync(c) \/ Return(c)
             \/ StorageError(c) \/ Crash(c)
      PROVE  harmed' = harmed
  BY <1>3 DEF Copy, Commit, Refresh, Sync, Return, StorageError, Crash, UnchangedBudget
<1>4. ASSUME NEW c \in Callers, NEW e \in Events, Start(c, e)
      PROVE  harmed' = harmed
  BY <1>4, StartWays
<1>5. CASE UNCHANGED vars
  BY <1>5 DEF vars
<1> QED
  BY <1>2, <1>3, <1>4, <1>5 DEF Next

LEMMA StepKept ==
    ASSUME Typed, KeptSound, [Next]_vars
    PROVE  KeptSound'
<1> SUFFICES ASSUME harmed' = FALSE
             PROVE  PrimaryReadable' /\ Acknowledged' /\ \A c \in Callers : CallKept(c)'
  BY DEF KeptSound
<1>1. /\ harmed = FALSE /\ PrimaryReadable /\ Acknowledged
      /\ \A c \in Callers : CallKept(c)
  BY HarmIsForGood DEF KeptSound
<1>2. CASE PowerCut \/ Damage
  BY <1>1, <1>2, PowerCutKept, DamageKept
<1>3. ASSUME NEW c \in Callers,
             \/ Copy(c) \/ Commit(c) \/ Refresh(c) \/ Sync(c) \/ Return(c)
             \/ StorageError(c) \/ Crash(c)
      PROVE  PrimaryReadable' /\ Acknowledged' /\ \A d \in Callers : CallKept(d)'
  BY <1>1, <1>3, CopyKept, CommitKept, RefreshKept, SyncKept, ReturnKept, FailureKept
<1>4. ASSUME NEW c \in Callers, NEW e \in Events, Start(c, e)
      PROVE  PrimaryReadable' /\ Acknowledged' /\ \A d \in Callers : CallKept(d)'
  BY <1>1, <1>4, StartKept
<1>5. CASE UNCHANGED vars
  BY <1>1, <1>5 DEF vars, PrimaryReadable, Acknowledged, CallKept
<1> QED
  BY <1>2, <1>3, <1>4, <1>5 DEF Next

LEMMA InitKept ==
    ASSUME Init
    PROVE  KeptSound
<1>1. Prefix(<<>>, <<>>)
  BY PrefixOfItself, EmptySeq
<1>2. Acknowledged
  BY <1>1 DEF Init, Acknowledged, Absent, Files
<1> QED
  BY <1>2 DEF Init, KeptSound, PrimaryReadable, Absent, CallKept, Resting, Files

LEMMA AlwaysKept == Spec => []KeptSound
<1>1. Init => KeptSound
  BY InitKept
<1>2. Typed /\ KeptSound /\ [Next]_vars => KeptSound'
  BY StepKept
<1> QED
  BY <1>1, <1>2, AlwaysTyped, PTL DEF Spec

\* What a caller was told is in the store stays there, over crashes, failed
\* writes and syncs, retries and, where the directory is synced, power cuts.
\* Nothing is claimed for a retry that was told of success only because it found
\* the event of a write that had failed to sync.
THEOREM AcknowledgedIsDurable == Spec => []DurableAck
<1>1. Typed /\ KeptSound => DurableAck
  <2> SUFFICES ASSUME Typed, KeptSound, harmed = FALSE
               PROVE  Readable /\ \A e \in acked : \E i \in DOMAIN Read.log : Read.log[i] = e
    BY DEF DurableAck, Typed, TypeOK
  <2> QED
    BY PrimaryIsRead DEF KeptSound, Acknowledged, Contains, Promised!Contains
<1> QED
  BY <1>1, AlwaysTyped, AlwaysKept, PTL

-----------------------------------------------------------------------------
(* The stores implement DurableLog.                                           *)

\* What is read, and the primary as long as nothing was harmed.
Seen ==
    /\ Visible \in Seq(Events) /\ acked \subseteq Events /\ harmed \in BOOLEAN
    /\ harmed = FALSE => Visible = file["primary"].log

LEMMA AlwaysSeen == Spec => []Seen
<1>1. Typed /\ KeptSound => Seen
  <2> SUFFICES ASSUME Typed, KeptSound
               PROVE  Seen
    OBVIOUS
  <2>1. Visible \in Seq(Events)
    BY ReadTyped, EmptySeq DEF Visible
  <2>2. harmed = FALSE => Visible = file["primary"].log
    BY PrimaryIsRead DEF KeptSound
  <2> QED
    BY <2>1, <2>2 DEF Seen, Typed, TypeOK
<1> QED
  BY <1>1, AlwaysTyped, AlwaysKept, PTL

\* The steps in which nothing is harmed: the primary has one event more, an
\* earlier generation, or stays.
LEMMA UnharmedSteps ==
    ASSUME Typed, KeptSound, [Next]_vars, harmed' = FALSE
    PROVE  LET log == file["primary"].log
               new == file'["primary"].log
           IN  \/ acked' = acked /\ \E e \in Events : new = Append(log, e)
               \/ new = log /\ \E e \in Events : Contains(log, e) /\ acked' = acked \cup {e}
               \/ acked' = acked /\ Prefix(new, log) /\ \A e \in acked : Contains(new, e)
               \/ new = log /\ acked' = acked
<1> DEFINE log == file["primary"].log
           new == file'["primary"].log
<1>1. /\ harmed = FALSE /\ PrimaryReadable /\ Acknowledged
      /\ \A c \in Callers : CallKept(c)
  BY HarmIsForGood DEF KeptSound
<1>2. CASE PowerCut
  <2>1. PICK p \in disk["primary"], r \in disk["recovery"] :
           file' = [primary |-> p, recovery |-> r]
    BY <1>2 DEF PowerCut
  <2>2. file'["primary"] \in disk["primary"]
    BY <2>1
  <2>3. harmed' = (harmed \/ kind = "plain")
    BY <1>2 DEF PowerCut
  <2>4. kind # "plain"
    BY <2>3, Zenon
  <2>5. Prefix(new, log) /\ \A e \in acked : Contains(new, e)
    BY <1>1, <2>2, <2>4 DEF Acknowledged
  <2> QED
    BY <1>2, <2>5 DEF PowerCut
<1>3. CASE Damage
  <2>1. acked' = acked /\ file'["primary"] # Bad
    BY <1>3 DEF Damage
  <2>2. file'["primary"] = file["primary"]
    BY <1>3, <2>1 DEF Damage, Typed, TypeOK, Files
  <2> QED
    BY <2>1, <2>2
<1>4. ASSUME NEW c \in Callers, Copy(c) \/ Refresh(c)
      PROVE  new = log /\ acked' = acked
  <2>1. PICK content : Replace("recovery", content)
    BY <1>4 DEF Copy, Refresh
  <2>2. file'["primary"] = file["primary"]
    BY <2>1 DEF Replace, Typed, TypeOK, Files
  <2> QED
    BY <1>4, <2>2 DEF Copy, Refresh
<1>5. ASSUME NEW c \in Callers, Commit(c)
      PROVE  acked' = acked /\ (new = log \/ \E e \in Events : new = Append(log, e))
  <2>1. /\ call[c].pc = "commit" /\ acked' = acked /\ Replace("primary", Good(call[c].next))
    BY <1>5 DEF Commit, At
  <2>2. new = call[c].next
    BY <2>1 DEF Replace, Typed, TypeOK, Files, Good
  <2>3. call[c].next = log \/ call[c].next = Append(log, call[c].event)
    BY <1>1, <2>1 DEF CallKept
  <2>4. call[c].event \in Events
    BY <2>1 DEF Typed, CallSound
  <2> QED
    BY <2>1, <2>2, <2>3, <2>4
<1>6. ASSUME NEW c \in Callers, Sync(c) \/ StorageError(c) \/ Crash(c)
      PROVE  new = log /\ acked' = acked
  BY <1>6 DEF Sync, AllDurable, StorageError, Crash, UnchangedFiles
<1>7. ASSUME NEW c \in Callers, Return(c)
      PROVE  new = log /\ \E e \in Events : Contains(log, e) /\ acked' = acked \cup {e}
  <2>1. /\ call[c].pc = "return" /\ acked' = acked \cup {call[c].event} /\ file' = file
    BY <1>7 DEF Return, At, UnchangedFiles
  <2>2. call[c].event \in Events /\ Contains(call[c].next, call[c].event)
    BY <2>1 DEF Typed, CallSound
  <2>3. log = call[c].next
    <3>1. CallKept(c)
      BY <1>1
    <3>2. file["primary"] = Good(call[c].next)
      BY <2>1, <3>1 DEF CallKept
    <3> QED
      BY <3>2 DEF Good
  <2> QED
    BY <2>1, <2>2, <2>3
<1>8. ASSUME NEW c \in Callers, NEW e \in Events, Start(c, e)
      PROVE  /\ new = log
             /\ acked' = acked \/ (Contains(log, e) /\ acked' = acked \cup {e})
  <2>1. file' = file /\ Read = file["primary"]
    BY <1>1, <1>8, StartWays, PrimaryIsRead
  <2>2. acked' = acked \/ (Known(Read.log, e) /\ acked' = acked \cup {e})
    BY <1>8, StartWays
  <2> QED
    BY <2>1, <2>2 DEF Known, Contains, Promised!Contains
<1>9. CASE UNCHANGED vars
  BY <1>9 DEF vars
<1> HIDE DEF log, new
<1>10. \/ acked' = acked /\ \E e \in Events : new = Append(log, e)
       \/ new = log /\ \E e \in Events : Contains(log, e) /\ acked' = acked \cup {e}
       \/ acked' = acked /\ Prefix(new, log) /\ \A e \in acked : Contains(new, e)
       \/ new = log /\ acked' = acked
  <2>1. CASE PowerCut \/ Damage \/ UNCHANGED vars
    BY <1>2, <1>3, <1>9, <2>1 DEF log, new
  <2>2. ASSUME NEW c \in Callers,
               \/ Copy(c) \/ Commit(c) \/ Refresh(c) \/ Sync(c) \/ Return(c)
               \/ StorageError(c) \/ Crash(c)
        PROVE  <1>10!:
    BY <1>4, <1>5, <1>6, <1>7, <2>2
  <2>3. ASSUME NEW c \in Callers, NEW e \in Events, Start(c, e)
        PROVE  <1>10!:
    BY <1>8, <2>3
  <2> QED
    BY <2>1, <2>2, <2>3 DEF Next
<1> QED
  BY <1>10 DEF log, new

\* Each step is one of the promise's, or changes nothing the callers see.
LEMMA StepPromised ==
    ASSUME Typed, KeptSound, [Next]_vars, Seen, Seen'
    PROVE  [Promised!PromiseNext]_<<Visible, acked, ~harmed>>
<1>1. CASE harmed' = TRUE
  <2>1. Promised!Damaged
    BY <1>1 DEF Seen, Promised!Damaged
  <2> QED
    BY <2>1 DEF Promised!PromiseNext
<1>2. CASE harmed' = FALSE
  <2>1. harmed = FALSE
    BY <1>2, HarmIsForGood
  <2>2. Visible = file["primary"].log /\ Visible' = file'["primary"].log
    BY <1>2, <2>1 DEF Seen
  <2>3. \/ acked' = acked /\ \E e \in Events : Visible' = Append(Visible, e)
        \/ Visible' = Visible /\ \E e \in Events :
                                    Contains(Visible, e) /\ acked' = acked \cup {e}
        \/ acked' = acked /\ Prefix(Visible', Visible) /\ \A e \in acked : Contains(Visible', e)
        \/ Visible' = Visible /\ acked' = acked
    BY <1>2, <2>2, UnharmedSteps
  <2>4. (~harmed)' = ~harmed
    BY <1>2, <2>1
  <2>5. CASE acked' = acked /\ \E e \in Events : Visible' = Append(Visible, e)
    BY <2>4, <2>5 DEF Promised!PromiseNext, Promised!Append1
  <2>6. CASE Visible' = Visible /\ \E e \in Events :
                                      Contains(Visible, e) /\ acked' = acked \cup {e}
    BY <2>4, <2>6 DEF Promised!PromiseNext, Promised!Acknowledge, Contains
  <2>7. CASE /\ acked' = acked /\ Prefix(Visible', Visible)
             /\ \A e \in acked : Contains(Visible', e)
    BY <2>4, <2>7 DEF Promised!PromiseNext, Promised!LoseTail, Contains, Prefix
  <2>8. CASE Visible' = Visible /\ acked' = acked
    BY <2>4, <2>8
  <2> QED
    BY <2>3, <2>5, <2>6, <2>7, <2>8
<1> QED
  BY <1>1, <1>2 DEF Seen

\* The three kinds of store implement the durable log: an event is appended
\* whole or not at all, and only an unacknowledged tail may ever be lost.
THEOREM StoresKeepTheirPromise == Spec => KeepsPromise
<1>1. Init => Promised!PromiseInit
  BY DEF Init, Promised!PromiseInit, Visible, Readable, Read, FromRecovery, Absent, Files
<1>2. Typed /\ KeptSound /\ [Next]_vars /\ Seen /\ Seen'
          => [Promised!PromiseNext]_<<Visible, acked, ~harmed>>
  BY StepPromised
<1> QED
  BY <1>1, <1>2, AlwaysTyped, AlwaysKept, AlwaysSeen, PTL
     DEF Spec, KeepsPromise, Promised!Promise

=============================================================================
