------------------------------ MODULE AsyncTasks ------------------------------
(* An AsyncTaskScope with its registry: work is spawned inside the scope, may *)
(* be cancelled with its descendants, may pass its deadline, and a result is  *)
(* committed only if its task is still the current one of its kind and        *)
(* generation. One event loop runs everything, so a step lasts from one await *)
(* to the next.                                                               *)
EXTENDS Integers, Sequences, FiniteSets

CONSTANTS
    TaskKinds,
    TimedKinds,     \* kinds of work that is given a deadline
    Capacity,       \* records the registry keeps
    MaxSpawns       \* bound: tasks spawned in the scope

ASSUME AsyncAssumption ==
    /\ Capacity \in Nat \ {0} /\ MaxSpawns \in Nat
    /\ TimedKinds \subseteq TaskKinds

NoTask == 0         \* tasks are numbered in the order of their spawning

Terminal == {"SUCCEEDED", "FAILED", "CANCELLED", "TIMED_OUT"}
TaskStates == {"PENDING", "RUNNING", "CANCEL_REQUESTED"} \cup Terminal

\* The asyncio task under the record. "barred": cancelled before its first
\* step; "interrupted": a CancelledError awaits its operation; "heedless": the
\* operation has caught one and goes on; "stray": it ended without a result and
\* the TaskGroup has yet to notice; "never": create_task refused it.
Executing == {"running", "interrupted", "heedless"}
Over == {"ended", "never"}
RawStates == {"unstarted", "barred", "stray"} \cup Executing \cup Over

VARIABLES
    task,        \* every task spawned, with what its handle shows
    retained,    \* tasks whose record is still in the registry
    current,     \* the newest task of each kind
    active,      \* the owner, until it is deactivated for good
    scope,       \* open, left normally, left by an exception, closed
    aborting,    \* the TaskGroup aborted by itself, unknown to the registry
    applied      \* the task whose result was committed last, per kind

vars == <<task, retained, current, active, scope, aborting, applied>>

Init ==
    /\ task = <<>> /\ retained = {}
    /\ current = [k \in TaskKinds |-> NoTask]
    /\ active = TRUE
    /\ scope = "open" /\ aborting = FALSE
    /\ applied = [k \in TaskKinds |-> NoTask]

Tasks == DOMAIN task
Live(i) == task[i].state \notin Terminal
Timed(i) == task[i].kind \in TimedKinds

UnchangedOwner == UNCHANGED <<active, scope>>
UnchangedRegistry == UNCHANGED <<retained, current>>

-----------------------------------------------------------------------------
(* AsyncTaskScope.spawn and AsyncTaskRegistry.register.                       *)

Full == Cardinality(retained) >= Capacity

\* Mistake: the oldest record makes room, finished or not.
EvictAnyone == retained

\* The oldest finished record makes room.
Evictable == {i \in retained : ~Live(i)}
Oldest(S) == CHOOSE i \in S : \A j \in S : i <= j
Evicted == IF Full THEN {Oldest(Evictable)} ELSE {}

\* A scope whose TaskGroup is aborting registers the work and then fails to
\* create its task, so that nothing of it is ever committed.
Spawn(k, parent) ==
    LET new == Len(task) + 1 IN
    /\ scope = "open" /\ active /\ new <= MaxSpawns
    /\ parent # NoTask => parent \in retained /\ Live(parent)
    /\ Full => Evictable # {}
    /\ task' = Append(task, [kind |-> k, parent |-> parent, fresh |-> ~aborting,
                             state |-> "PENDING",
                             raw |-> IF aborting THEN "never" ELSE "unstarted"])
    /\ retained' = (retained \ Evicted) \cup {new}
    /\ current' = [c \in TaskKinds |-> IF c = k THEN new
                                       ELSE IF current[c] \in Evicted THEN NoTask
                                       ELSE current[c]]
    /\ UNCHANGED <<aborting, applied>> /\ UnchangedOwner

-----------------------------------------------------------------------------
(* _run: the operation starts, and ends in one of five ways.                  *)

Start(i) ==
    /\ task[i].raw = "unstarted"
    /\ task' = [task EXCEPT ![i].raw = "running", ![i].state = "RUNNING"]
    /\ UNCHANGED <<aborting, applied>> /\ UnchangedOwner /\ UnchangedRegistry

\* What a finished task was spawned with is never looked at again.
Finished(t, state) ==
    [t EXCEPT !.raw = "ended", !.state = state, !.parent = NoTask, !.fresh = FALSE]

Ended(i, state) == task' = [task EXCEPT ![i] = Finished(@, state)]

\* Mistake: no newer record of the kind counts as being the newest.
NewestKnown(i) ==
    active /\ task[i].fresh /\ current[task[i].kind] \in {i, NoTask}

\* commit_disposition = COMMITTED.
Commits(i) ==
    active /\ task[i].fresh /\ current[task[i].kind] = i

\* The result of a task that may not commit is dropped, and the task succeeds.
Return(i) ==
    /\ task[i].raw \in Executing
    /\ Ended(i, "SUCCEEDED")
    /\ applied' = IF Commits(i) THEN [applied EXCEPT ![task[i].kind] = i]
                                ELSE applied
    /\ UNCHANGED aborting /\ UnchangedOwner /\ UnchangedRegistry

\* The operation or its commit raises.
Fail(i) ==
    /\ task[i].raw \in Executing
    /\ Ended(i, "FAILED")
    /\ UNCHANGED <<aborting, applied>> /\ UnchangedOwner /\ UnchangedRegistry

Expire(i) ==
    /\ task[i].raw \in Executing /\ Timed(i)
    /\ Ended(i, "TIMED_OUT")
    /\ UNCHANGED <<aborting, applied>> /\ UnchangedOwner /\ UnchangedRegistry

\* The operation lets a requested cancellation through.
Heed(i) ==
    /\ task[i].raw \in Executing /\ task[i].state = "CANCEL_REQUESTED"
    /\ Ended(i, "CANCELLED")
    /\ UNCHANGED <<aborting, applied>> /\ UnchangedOwner /\ UnchangedRegistry

\* The operation catches the cancellation, or that of its deadline, and goes on.
Swallow(i) ==
    /\ \/ task[i].raw = "interrupted"
       \/ task[i].raw = "running" /\ Timed(i)
    /\ task' = [task EXCEPT ![i].raw = "heedless"]
    /\ UNCHANGED <<aborting, applied>> /\ UnchangedOwner /\ UnchangedRegistry

\* Mistake: only _run reports the end of a task.
UnreportedBar(i) ==
    /\ task[i].raw = "barred"
    /\ task' = [task EXCEPT ![i].raw = "ended"]
    /\ UNCHANGED <<aborting, applied>> /\ UnchangedOwner /\ UnchangedRegistry

\* _raw_task_done of a task cancelled before its first step.
EndBarred(i) ==
    /\ task[i].raw = "barred"
    /\ Ended(i, "CANCELLED")
    /\ UNCHANGED <<aborting, applied>> /\ UnchangedOwner /\ UnchangedRegistry

-----------------------------------------------------------------------------
(* Cancellation.                                                              *)

Interrupted(raw) ==
    CASE raw = "unstarted" -> "barred"
      [] raw \in Executing -> "interrupted"
      [] OTHER -> raw

\* Mistake: the registry is told, the asyncio task is not.
OnlyMarked(t) == [t EXCEPT !.state = "CANCEL_REQUESTED"]

Asked(t) == [t EXCEPT !.state = "CANCEL_REQUESTED", !.raw = Interrupted(@)]

\* descendants(): the search does not go on below a finished task.
Under(S) ==
    LET reached[j \in Tasks] ==
            \/ j \in S
            \/ Live(j) /\ task[j].parent # NoTask /\ reached[task[j].parent]
    IN  {j \in Tasks : reached[j]}

Cancelled(S) ==
    [j \in Tasks |->
        IF j \in Under(S) /\ task[j].state \in {"PENDING", "RUNNING"}
        THEN Asked(task[j]) ELSE task[j]]

Cancel(i) ==
    /\ i \in retained
    /\ task' = Cancelled({i})
    /\ UNCHANGED <<aborting, applied>> /\ UnchangedOwner /\ UnchangedRegistry

\* TaskGroup._abort, which works once and is part of an exit by an exception.
Abort ==
    IF aborting \/ scope = "failing" THEN task
    ELSE [j \in Tasks |-> [task[j] EXCEPT !.raw = Interrupted(@)]]

\* A CancelledError nobody asked the registry for: RUNNING may not become
\* CANCELLED, so publishing it raises and the task ends without a result.
Stray(i) ==
    /\ task[i].raw \in Executing /\ task[i].state = "RUNNING"
    /\ task' = [task EXCEPT ![i].raw = "stray", ![i].fresh = FALSE]
    /\ UNCHANGED <<aborting, applied>> /\ UnchangedOwner /\ UnchangedRegistry

\* TaskGroup._on_task_done: it aborts the others.
Notice(i) ==
    /\ task[i].raw = "stray"
    /\ task' = [Abort EXCEPT ![i].raw = "ended"]
    /\ aborting' = TRUE
    /\ UNCHANGED applied /\ UnchangedOwner /\ UnchangedRegistry

-----------------------------------------------------------------------------
(* The owner.                                                                 *)

Leave ==
    /\ scope = "open"
    /\ scope' = "leaving"
    /\ UNCHANGED <<task, aborting, applied, active>> /\ UnchangedRegistry

\* Mistake: the tasks are only waited for.
LeaveWaiting ==
    /\ scope = "open"
    /\ scope' = "failing"
    /\ UNCHANGED <<task, aborting, applied, active>> /\ UnchangedRegistry

\* __aexit__ with an exception cancels every task that was created, and then
\* the TaskGroup does, also those that were cancelled before.
LeaveByError ==
    /\ scope = "open"
    /\ scope' = "failing"
    /\ LET asked == Cancelled({i \in Tasks : task[i].raw # "never"}) IN
       task' = IF aborting THEN asked
               ELSE [j \in Tasks |-> [asked[j] EXCEPT !.raw = Interrupted(@)]]
    /\ UNCHANGED <<aborting, applied, active>> /\ UnchangedRegistry

\* The owner is cancelled while it waits in __aexit__; where it left by an
\* exception that changes nothing.
OuterCancel ==
    /\ scope = "leaving" /\ ~aborting
    /\ \E i \in Tasks : task[i].raw \notin Over
    /\ task' = Abort
    /\ aborting' = TRUE
    /\ UNCHANGED applied /\ UnchangedOwner /\ UnchangedRegistry

Close ==
    /\ scope \in {"leaving", "failing"}
    /\ \A i \in Tasks : task[i].raw \in Over
    /\ scope' = "closed"
    /\ UNCHANGED <<task, aborting, applied, active>> /\ UnchangedRegistry

\* Work of the earlier generation will not commit any more.
AdvanceGeneration ==
    /\ Tasks # {}
    /\ task' = [i \in Tasks |-> [task[i] EXCEPT !.fresh = FALSE]]
    /\ UNCHANGED <<aborting, applied>> /\ UnchangedOwner /\ UnchangedRegistry

\* Nothing is committed any more, and no generation is looked at.
DeactivateOwner ==
    /\ active /\ Tasks # {}
    /\ active' = FALSE
    /\ task' = [i \in Tasks |-> [task[i] EXCEPT !.fresh = FALSE]]
    /\ UNCHANGED <<aborting, applied, scope>> /\ UnchangedRegistry

Ends(i) == Return(i) \/ Fail(i) \/ Expire(i) \/ Heed(i) \/ Stray(i)

Next ==
    \/ \E k \in TaskKinds, p \in Tasks \cup {NoTask} : Spawn(k, p)
    \/ \E i \in Tasks : Start(i) \/ EndBarred(i) \/ Notice(i) \/ Ends(i) \/ Swallow(i)
                        \/ Cancel(i)
    \/ Leave \/ LeaveByError \/ OuterCancel \/ Close
    \/ AdvanceGeneration \/ DeactivateOwner

\* The event loop runs what is ready, and an operation that was interrupted or
\* whose deadline passes ends in the end. Nothing else has to end.
Loop(i) ==
    /\ i \in Tasks
    /\ \/ Start(i) \/ EndBarred(i) \/ Notice(i)
       \/ (task[i].raw \in {"interrupted", "heedless"} \/ Timed(i)) /\ Ends(i)

Fairness == WF_vars(Close) /\ \A i \in 1..MaxSpawns : WF_vars(Loop(i))

Spec == Init /\ [][Next]_vars /\ Fairness

-----------------------------------------------------------------------------
(* Properties.                                                                *)

Records == [kind : TaskKinds, parent : Nat, fresh : BOOLEAN, state : TaskStates, raw : RawStates]

\* The registry keeps the record of every live task, within its capacity.
TypeOK ==
    /\ task \in Seq(Records) /\ Len(task) <= MaxSpawns
    /\ retained \subseteq Tasks /\ Cardinality(retained) <= Capacity
    /\ {i \in Tasks : Live(i)} \subseteq retained
    /\ current \in [TaskKinds -> Tasks \cup {NoTask}]
    /\ active \in BOOLEAN
    /\ scope \in {"open", "leaving", "failing", "closed"} /\ aborting \in BOOLEAN
    /\ applied \in [TaskKinds -> Tasks \cup {NoTask}]

(* Results of one kind are committed in the order in which their work was     *)
(* spawned: a late answer never replaces a newer one, though records and      *)
(* their place as the current one are evicted in between.                     *)
CommitsInOrder ==
    [][\A k \in TaskKinds : applied'[k] >= applied[k]]_vars

(* Whatever ended, timed out or was cancelled, before its start or after, has *)
(* its result, and nothing has one too early: unless the TaskGroup aborts by  *)
(* itself, a task is live exactly as long as the TaskGroup waits for it.      *)
NobodyLost == ~aborting => \A i \in Tasks : Live(i) <=> task[i].raw \notin Over

Unanswered(i) == i \in Tasks /\ Live(i)

(* A task that was asked to cancel, or has a deadline, gets a result, unless  *)
(* the TaskGroup aborts by itself.                                            *)
CancelAnswered ==
    \A i \in 1..MaxSpawns :
        (/\ Unanswered(i)
         /\ \/ task[i].state = "CANCEL_REQUESTED"
            \/ Timed(i))
            ~> (~Unanswered(i) \/ aborting)

(* A scope left by an exception closes, though operations catch their         *)
(* cancellation and go on, before the exit or after it.                       *)
ErrorExitCloses == scope = "failing" ~> scope = "closed"
=============================================================================
