---------------------------- MODULE ProgramResume ----------------------------
(* One execution of a semantic task program, over the crashes of the process  *)
(* that runs it: SemanticTaskProgramRunner interprets the program's top-level *)
(* sequence through a governed port, CheckpointManager records how far it is  *)
(* safe to go on from, RuntimeSupervisor records which runtime owns the       *)
(* store, and ResumeCoordinator lets a later runtime go on from a checkpoint. *)
(* Every step that ends in a transaction of PhoneHarnessStore is an action;   *)
(* the store has one writing process at a time.                               *)
EXTENDS Integers, Sequences, FiniteSets

CONSTANTS
    Programs,       \* the programs that may be run: sequences of node kinds
    Authorities,    \* the one-time authorities the governed port may consume
    Resumers,       \* threads that ask for a resume
    NoAuthority,
    MaxSteps,       \* MAX_PROGRAM_STEPS
    MaxRevision,    \* of the program record
    MaxRuntimes     \* bound: runtimes started over the store

NodeKinds == {"call", "read", "choose", "repeat", "verify", "wait",
              "recover", "checkpoint", "return"}

\* Only a checkpoint that is followed by a node can name its continuation.
ASSUME ProgramAssumption ==
    /\ Programs \subseteq Seq(NodeKinds)
    /\ \A p \in Programs : Len(p) > 0 /\ p[Len(p)] # "checkpoint"
    /\ NoAuthority \notin Authorities
    /\ MaxSteps \in Nat \ {0} /\ MaxRevision \in Nat \ {0} /\ MaxRuntimes \in Nat

VARIABLES
    program,      \* what is run
    record,       \* the newest ProgramExecutionRecord
    steps,        \* the StepExecutionRecords, in the order of their ordinals
    checkpoints,  \* the CheckpointRecords of the session, by sequence number
    claims,       \* checkpoints whose resume has been claimed
    runtimes,     \* the lifecycle events of every runtime
    host,         \* the process: down, starting, running, quiescing
    run,          \* the runner's thread
    request,      \* what each resumer has got from the coordinator
    sent,         \* how often the port may have acted for each node
    continued     \* how often each checkpoint was gone on from

durable == <<program, record, steps, checkpoints, claims, runtimes>>
vars == <<durable, host, run, request, sent, continued>>

NoRecord == [revision |-> 0, state |-> "NONE", runtime |-> 0, checkpoint |-> 0]
Idle == [pc |-> "idle", at |-> 0, used |-> {},
         step |-> [at |-> 0, state |-> "NONE", authority |-> NoAuthority], then |-> "NONE"]
NoRequest == [pc |-> "idle", checkpoint |-> 0]

Runtime == Len(runtimes)
Latest == Len(checkpoints)
Here == program[run.at]
At(pc) == host = "running" /\ run.pc = pc

Init ==
    /\ program \in Programs
    /\ record = NoRecord /\ steps = <<>> /\ checkpoints = <<>> /\ claims = {}
    /\ runtimes = <<>>
    /\ host = "down" /\ run = Idle /\ request = [t \in Resumers |-> NoRequest]
    /\ sent = [n \in DOMAIN program |-> 0]
    /\ continued = <<>>

-----------------------------------------------------------------------------
(* RuntimeSupervisor. The events of two transactions; the clock that orders   *)
(* the starts does not go back.                                               *)

UnchangedProgram == UNCHANGED <<program, record, steps, checkpoints, claims, sent, continued>>

\* Mistake: only an interruption counts as the end of a runtime.
OnlyInterruptedEnds(events) == "INTERRUPTED" \in events

HasEnded(events) == events \cap {"CLEAN_STOP", "INTERRUPTED"} # {}

Boot ==
    /\ host = "down" /\ Runtime < MaxRuntimes
    /\ host' = "starting"
    /\ runtimes' = IF Runtime = 0 \/ HasEnded(runtimes[Runtime]) THEN runtimes
                   ELSE [runtimes EXCEPT ![Runtime] = @ \cup {"INTERRUPTED"}]
    /\ UNCHANGED <<run, request>> /\ UnchangedProgram

Started ==
    /\ host = "starting"
    /\ host' = "running"
    /\ runtimes' = Append(runtimes, {"STARTED"})
    /\ UNCHANGED <<run, request>> /\ UnchangedProgram

\* clean_shutdown stops nothing that runs: its caller does so first.
Quiesce ==
    /\ At("idle")
    /\ \A t \in Resumers : request[t] = NoRequest
    /\ host' = "quiescing"
    /\ runtimes' = [runtimes EXCEPT ![Runtime] = @ \cup {"QUIESCING"}]
    /\ UNCHANGED <<run, request>> /\ UnchangedProgram

CleanStop ==
    /\ host = "quiescing"
    /\ host' = "down"
    /\ runtimes' = [runtimes EXCEPT ![Runtime] = @ \cup {"CLEAN_STOP"}]
    /\ UNCHANGED <<run, request>> /\ UnchangedProgram

Crash ==
    /\ host # "down"
    /\ host' = "down" /\ run' = Idle /\ request' = [t \in Resumers |-> NoRequest]
    /\ UNCHANGED runtimes /\ UnchangedProgram

UnchangedHost == UNCHANGED <<program, runtimes, host>>

-----------------------------------------------------------------------------
(* The program record: _update_program writes the next revision; a revision   *)
(* out of bounds raises, and the run ends with the record as it is.           *)

Raise == run' = Idle /\ UNCHANGED record

Update(changed, next) ==
    IF record.revision < MaxRevision
    THEN record' = [changed EXCEPT !.revision = @ + 1] /\ run' = next
    ELSE Raise

StartProgram ==
    /\ At("idle") /\ record = NoRecord
    /\ record' = [NoRecord EXCEPT !.revision = 1, !.state = "PENDING", !.runtime = Runtime]
    /\ run' = [Idle EXCEPT !.pc = "begin"]
    /\ UNCHANGED <<steps, checkpoints, claims, request, sent, continued>> /\ UnchangedHost

Begin ==
    /\ At("begin")
    /\ Update([record EXCEPT !.state = "RUNNING"], [run EXCEPT !.pc = "node", !.at = 1])
    /\ UNCHANGED <<steps, checkpoints, claims, request, sent, continued>> /\ UnchangedHost

-----------------------------------------------------------------------------
(* The nodes. A step that is recorded ends in "next" or in the state in which *)
(* the program stops.                                                         *)

UnchangedStores == UNCHANGED <<record, steps, checkpoints, claims, request, continued>>

Steps(state, then) ==
    run' = [run EXCEPT !.pc = "step", !.then = then,
                       !.step = [at |-> run.at, state |-> state, authority |-> NoAuthority]]

\* What a mutating call that was answered comes to. Evidence of a possible
\* effect without the authority it consumed, or with one that was consumed
\* before, is not accepted.
Accepted(a) == a # NoAuthority /\ a \notin run.used

Governed(state, then, a) ==
    IF Accepted(a)
    THEN run' = [run EXCEPT !.pc = "step", !.then = then, !.used = @ \cup {a},
                            !.step = [at |-> run.at, state |-> state, authority |-> a]]
    ELSE Steps("BLOCKED", "BLOCKED")

\* Where a verified call leads.
Onward == IF Here = "repeat" THEN "again" ELSE "next"

\* Mistake: what was executed without a fresh verification is good enough.
ExecutedIsVerified(a) ==
    Governed("VERIFIED", Onward, a) \/ Governed("DISPATCHED", Onward, a)

\* Executed and verified with all the evidence, or without.
Executed(a) ==
    Governed("VERIFIED", Onward, a) \/ Governed("DISPATCHED", "BLOCKED", a)

\* Mistake: an unknown outcome is left to be looked at later.
UnknownGoesOn(a) == Governed("UNKNOWN_OUTCOME", Onward, a)

UnknownOutcome(a) == Governed("UNKNOWN_OUTCOME", "UNKNOWN_OUTCOME", a)

\* Where the program stops when a call was turned back: by the runner, which
\* knows no such capability or misses the evidence, or by the recovery route
\* the port names.
TurnedBack == {"BLOCKED", "REPLAN_REQUIRED", "WAITING_FOR_USER"}

Refused == \E then \in TurnedBack : Steps("BLOCKED", then)

\* The same when the port tells that an authority was consumed.
RefusedWith(a) == \E then \in TurnedBack : Governed("BLOCKED", then, a)

\* Mistake: the step after the last one still counts as one.
RoomForOneMore == Len(steps) <= MaxSteps

Room == Len(steps) < MaxSteps

Stop(state) == run' = [run EXCEPT !.pc = "final", !.then = state]

\* The port may also raise.
NotDone == Refused \/ (\E a \in Authorities : RefusedWith(a)) \/ run' = Idle

\* The port acts, or may have acted, whatever it tells.
Dispatch ==
    /\ sent' = [sent EXCEPT ![run.at] = @ + 1]
    /\ \/ \E a \in Authorities \cup {NoAuthority} : Executed(a) \/ UnknownOutcome(a)
       \/ NotDone

CallTool == Dispatch \/ (NotDone /\ UNCHANGED sent)

Visit(kind) == At("node") /\ Room /\ Here = kind

Call ==
    /\ Visit("call")
    /\ CallTool
    /\ UnchangedStores /\ UnchangedHost

\* A read-only call consumes no authority: the runner would record one that the
\* port told of, and not look whether it was consumed before.
ReadOnly ==
    /\ Visit("read")
    /\ \/ Steps("SUCCEEDED", "next")
       \/ Steps("FAILED", "FAILED")
       \/ Steps("UNKNOWN_OUTCOME", "UNKNOWN_OUTCOME")
       \/ Refused \/ run' = Idle
    /\ UNCHANGED sent /\ UnchangedStores /\ UnchangedHost

\* IF: the condition is recorded, then the branch with the call is taken or not.
Choose ==
    /\ Visit("choose")
    /\ Steps("SUCCEEDED", "next") \/ Steps("SUCCEEDED", "body") \/ Steps("BLOCKED", "BLOCKED")
    /\ UNCHANGED sent /\ UnchangedStores /\ UnchangedHost

\* BOUNDED_WHILE and FOR_EACH: the body is run once more, or the loop ends, or
\* it is stopped. A loop that has no room left for its own step raises.
Repeat ==
    /\ Visit("repeat") \/ At("again")
    /\ \/ run' = [run EXCEPT !.pc = "body"]
       \/ IF ~Room THEN run' = Idle
          ELSE \/ Steps("SUCCEEDED", "next")
               \/ Steps("BLOCKED", "REPLAN_REQUIRED") \/ Steps("BLOCKED", "BLOCKED")
    /\ UNCHANGED sent /\ UnchangedStores /\ UnchangedHost

Body ==
    /\ At("body")
    /\ IF Room THEN CallTool ELSE Stop("BLOCKED") /\ UNCHANGED sent
    /\ UnchangedStores /\ UnchangedHost

Verify ==
    /\ Visit("verify")
    /\ Steps("SUCCEEDED", "next") \/ Steps("FAILED", "FAILED") \/ Steps("BLOCKED", "BLOCKED")
    /\ UNCHANGED sent /\ UnchangedStores /\ UnchangedHost

WaitFor ==
    /\ Visit("wait")
    /\ \/ Steps("SUCCEEDED", "next") \/ Steps("BLOCKED", "BLOCKED")
       \/ Steps("WAITING_FOR_USER", "WAITING_FOR_USER")
    /\ UNCHANGED sent /\ UnchangedStores /\ UnchangedHost

Recover ==
    /\ Visit("recover")
    /\ Refused
    /\ UNCHANGED sent /\ UnchangedStores /\ UnchangedHost

Return ==
    /\ Visit("return")
    /\ Steps("SUCCEEDED", "SUCCEEDED")
    /\ UNCHANGED sent /\ UnchangedStores /\ UnchangedHost

OutOfSteps ==
    /\ At("node") /\ ~Room
    /\ Stop("BLOCKED")
    /\ UNCHANGED sent /\ UnchangedStores /\ UnchangedHost

-----------------------------------------------------------------------------
(* The checkpoint node: prepare, commit, the step, and only then the program  *)
(* record names the checkpoint.                                               *)

UnchangedRequests == UNCHANGED <<claims, request>>

\* There is no manager, its policy refuses, or a checkpoint is prepared.
CannotPrepare == Steps("BLOCKED", "BLOCKED") /\ UNCHANGED <<checkpoints, continued>>

Prepare ==
    /\ Visit("checkpoint")
    /\ \/ CannotPrepare
       \/ /\ Latest > 0 => checkpoints[Latest].status # "PREPARED"
          /\ checkpoints' = Append(checkpoints, [at |-> run.at, status |-> "PREPARED"])
          /\ continued' = Append(continued, 0)
          /\ run' = [run EXCEPT !.pc = "commit"]
    /\ UNCHANGED <<record, steps, sent>> /\ UnchangedRequests /\ UnchangedHost

\* The evidence is validated once more; the checkpoint stays prepared if it
\* does not resolve, or was deactivated meanwhile.
Commit ==
    /\ At("commit")
    /\ \/ /\ checkpoints[Latest].status = "PREPARED"
          /\ checkpoints' = [checkpoints EXCEPT ![Latest].status = "COMMITTED"]
          /\ Steps("SUCCEEDED", "mark")
       \/ Steps("BLOCKED", "BLOCKED") /\ UNCHANGED checkpoints
    /\ UNCHANGED <<record, steps, sent, continued>> /\ UnchangedRequests /\ UnchangedHost

\* invalidate or supersede, by whoever holds the store.
Deactivate(c) ==
    /\ host = "running" /\ checkpoints[c].status \in {"PREPARED", "COMMITTED"}
    /\ checkpoints' = [checkpoints EXCEPT ![c].status = "INACTIVE"]
    /\ UNCHANGED <<record, steps, run, sent, continued>> /\ UnchangedRequests /\ UnchangedHost

-----------------------------------------------------------------------------
(* Every node ends in up to four transactions: the step's record, the program *)
(* record, the reference to a checkpoint, the final state.                    *)

UnchangedEvidence == UNCHANGED <<checkpoints, claims, request, sent, continued>>

RecordStep ==
    /\ At("step")
    /\ steps' = Append(steps, run.step)
    /\ run' = [run EXCEPT !.pc = "update"]
    /\ UNCHANGED record /\ UnchangedEvidence /\ UnchangedHost

\* A sequence that ends without a return has failed.
NextNode ==
    IF run.at < Len(program) THEN [run EXCEPT !.pc = "node", !.at = @ + 1]
    ELSE [run EXCEPT !.pc = "final", !.then = "FAILED"]

UpdateRecord ==
    /\ At("update")
    /\ Update(record, CASE run.then = "next" -> NextNode
                        [] run.then \in {"body", "again", "mark"} -> [run EXCEPT !.pc = run.then]
                        [] OTHER -> [run EXCEPT !.pc = "final"])
    /\ UNCHANGED steps /\ UnchangedEvidence /\ UnchangedHost

Mark ==
    /\ At("mark")
    /\ Update([record EXCEPT !.checkpoint = Latest], NextNode)
    /\ UNCHANGED steps /\ UnchangedEvidence /\ UnchangedHost

Finalize ==
    /\ At("final")
    /\ Update([record EXCEPT !.state = run.then], Idle)
    /\ UNCHANGED steps /\ UnchangedEvidence /\ UnchangedHost

-----------------------------------------------------------------------------
(* ResumeCoordinator and SemanticTaskProgramRunner.resume. The caller tells   *)
(* of a recorded unknown outcome, has a fresh observation, and names as the   *)
(* current state revision the one the checkpoint was made at: for any other   *)
(* the coordinator asks for a new observation.                                *)

Known(state) == \E i \in DOMAIN steps : steps[i].state = state

Assess(t) ==
    /\ host = "running" /\ request[t] = NoRequest
    /\ Latest > 0 /\ checkpoints[Latest].status = "COMMITTED"
    /\ ~Known("UNKNOWN_OUTCOME")
    /\ request' = [request EXCEPT ![t] = [pc |-> "assessed", checkpoint |-> Latest]]
    /\ UNCHANGED <<record, steps, checkpoints, claims, run, sent, continued>> /\ UnchangedHost

\* Mistake: a claim that exists already does not refuse.
ClaimAnyway(t) ==
    /\ host = "running" /\ request[t].pc = "assessed"
    /\ claims' = claims \cup {request[t].checkpoint}
    /\ request' = [request EXCEPT ![t].pc = "claimed"]
    /\ UNCHANGED <<record, steps, checkpoints, run, sent, continued>> /\ UnchangedHost

\* The claim's identity is the checkpoint's: the second one is refused.
Claim(t) ==
    /\ host = "running" /\ request[t].pc = "assessed"
    /\ claims' = claims \cup {request[t].checkpoint}
    /\ request' = [request EXCEPT ![t] =
          IF request[t].checkpoint \in claims THEN NoRequest ELSE [@ EXCEPT !.pc = "claimed"]]
    /\ UNCHANGED <<record, steps, checkpoints, run, sent, continued>> /\ UnchangedHost

\* Mistake: the new runner starts with no authority consumed.
NothingConsumed == {}

\* _restore_governance_consumptions.
Consumed == {steps[i].authority : i \in DOMAIN steps} \ {NoAuthority}

\* Mistake: the program is interpreted from its root.
FromTheRoot(c) == 1

Continuation(c) == checkpoints[c].at + 1

Resume(t) ==
    LET c == request[t].checkpoint IN
    /\ At("idle") /\ request[t].pc = "claimed"
    /\ record.runtime \notin {0, Runtime} /\ record.checkpoint = c
    /\ Update([record EXCEPT !.state = "RUNNING", !.runtime = Runtime],
              [Idle EXCEPT !.pc = "node", !.at = Continuation(c), !.used = Consumed])
    /\ continued' = [continued EXCEPT ![c] = @ + 1]
    /\ request' = [request EXCEPT ![t] = NoRequest]
    /\ UNCHANGED <<steps, checkpoints, claims, sent>> /\ UnchangedHost

Drop(t) ==
    /\ host = "running" /\ request[t].pc = "claimed"
    /\ request' = [request EXCEPT ![t] = NoRequest]
    /\ UNCHANGED <<record, steps, checkpoints, claims, run, sent, continued>> /\ UnchangedHost

Next ==
    \/ Boot \/ Started \/ Quiesce \/ CleanStop \/ Crash
    \/ StartProgram \/ Begin \/ RecordStep \/ UpdateRecord \/ Mark \/ Finalize
    \/ Call \/ ReadOnly \/ Choose \/ Repeat \/ Body \/ Verify \/ WaitFor \/ Recover
    \/ Return \/ OutOfSteps \/ Prepare \/ Commit
    \/ \E c \in DOMAIN checkpoints : Deactivate(c)
    \/ \E t \in Resumers : Assess(t) \/ Claim(t) \/ Resume(t) \/ Drop(t)

Spec == Init /\ [][Next]_vars

-----------------------------------------------------------------------------
(* Properties.                                                                *)

Stops == {"SUCCEEDED", "BLOCKED", "FAILED", "UNKNOWN_OUTCOME", "REPLAN_REQUIRED",
          "WAITING_FOR_USER"}
StepRecords ==
    [at : DOMAIN program, authority : Authorities \cup {NoAuthority},
     state : {"SUCCEEDED", "VERIFIED", "DISPATCHED", "BLOCKED", "FAILED",
              "UNKNOWN_OUTCOME", "WAITING_FOR_USER"}]

\* The shape of the records; the bounds of the steps and of the revision hold.
TypeOK ==
    /\ record \in [revision : 0..MaxRevision, state : {"NONE", "PENDING", "RUNNING"} \cup Stops,
                    runtime : 0..Runtime, checkpoint : 0..Latest]
    /\ steps \in Seq(StepRecords) /\ Len(steps) <= MaxSteps
    /\ checkpoints \in Seq([at : DOMAIN program, status : {"PREPARED", "COMMITTED", "INACTIVE"}])
    /\ claims \subseteq DOMAIN checkpoints
    /\ runtimes \in Seq(SUBSET {"STARTED", "QUIESCING", "CLEAN_STOP", "INTERRUPTED"})
    /\ host \in {"down", "starting", "running", "quiescing"}
    /\ sent \in [DOMAIN program -> Nat] /\ continued \in [DOMAIN checkpoints -> Nat]

(* However many resumers race and however often the process dies, a program   *)
(* is gone on from one checkpoint once.                                       *)
ContinuedOnce == \A c \in DOMAIN continued : continued[c] <= 1

(* What a program has behind it when its record names a checkpoint is not     *)
(* called again, over every later crash and resume.                           *)
Behind(n) == record.checkpoint # 0 /\ n < checkpoints[record.checkpoint].at
NeverBehind == [][\A n \in DOMAIN program : Behind(n) => sent'[n] = sent[n]]_vars

(* A program that succeeded has a verified step on record for each of its     *)
(* unconditional calls, whichever runtimes made them.                         *)
SuccessIsComplete ==
    record.state = "SUCCEEDED" =>
        \A n \in DOMAIN program : program[n] = "call" =>
            \E i \in DOMAIN steps : steps[i].at = n /\ steps[i].state = "VERIFIED"

(* No two steps on record rest on the same one-time authority, also when      *)
(* different runtimes recorded them.                                          *)
AuthorityOnce ==
    \A i, j \in DOMAIN steps :
        i # j /\ steps[i].authority # NoAuthority => steps[i].authority # steps[j].authority

(* Once an unknown outcome is on record the program calls nothing any more,   *)
(* in this runtime or in a later one.                                         *)
UnknownStops == [][Known("UNKNOWN_OUTCOME") => UNCHANGED sent]_vars

(* When a runtime works, each earlier one is on record as ended, in one way:  *)
(* what stopped cleanly is never called interrupted, however often a start    *)
(* was cut short.                                                             *)
OneEnding ==
    \A r \in DOMAIN runtimes :
        /\ ~({"CLEAN_STOP", "INTERRUPTED"} \subseteq runtimes[r])
        /\ r < Runtime => HasEnded(runtimes[r])
=============================================================================
