------------------------- MODULE ProgramResume_proofs -------------------------
(* Proofs about the program runner and its resumes, for any programs, any     *)
(* number of resumers and authorities, and all bounds.                        *)
EXTENDS ProgramResume, SequenceTheorems, TLAPS

-----------------------------------------------------------------------------
(* The inductive invariant.                                                   *)

Places == {"node", "step", "update", "mark", "commit", "body", "again", "final"}
StepStates == {"SUCCEEDED", "VERIFIED", "DISPATCHED", "BLOCKED", "FAILED",
               "UNKNOWN_OUTCOME", "WAITING_FOR_USER"}
Thens == Stops \cup {"next", "body", "again", "mark"}
Checkpoints == [at : DOMAIN program, status : {"PREPARED", "COMMITTED", "INACTIVE"}]
RunRecords ==
    [pc : {"idle", "begin"} \cup Places, at : Nat, used : SUBSET Authorities,
     step : [at : Nat, state : StepStates \cup {"NONE"},
             authority : Authorities \cup {NoAuthority}],
     then : Thens \cup {"NONE"}]
Requests == [pc : {"idle", "assessed", "claimed"}, checkpoint : Nat]

Pending == run.pc \in {"step", "update"}
AtCheckpoint ==
    Here = "checkpoint" /\ Latest > 0 /\ checkpoints[Latest].at = run.at

\* The runner's thread is where its last node left it.
RunPlaced ==
    /\ run.pc \in Places => run.at \in DOMAIN program
    /\ run.pc \in {"step", "commit"} => Room
    /\ run.pc = "step" => run.step.state # "NONE" /\ run.step.at = run.at
    /\ Pending => run.then # "NONE"
    /\ run.pc = "final" => run.then \in Stops
    /\ run.pc \in {"commit", "mark"} \/ (Pending /\ run.then = "mark") => AtCheckpoint
    /\ run.pc = "body" => Here \in {"choose", "repeat"}
    /\ Pending /\ run.then = "body" => Here = "choose"
    /\ run.pc = "again" \/ (Pending /\ run.then = "again") => Here = "repeat"

\* It runs in the runtime that owns the program, and only there.
RunOwned ==
    /\ run.pc # "idle" => host = "running" /\ record.runtime = Runtime
    /\ run.pc = "begin" => record.checkpoint = 0
    /\ record.revision = 0 => steps = <<>> /\ checkpoints = <<>> /\ run.pc = "idle"
    /\ \A c \in DOMAIN checkpoints : program[checkpoints[c].at] = "checkpoint"

\* Requests do not outlive their runtime.
RequestsOwned ==
    \A t \in Resumers :
        request[t] # NoRequest =>
            /\ host = "running" /\ request[t].pc # "idle"
            /\ request[t].checkpoint \in DOMAIN checkpoints

\* Of the runtimes, only the one that works has no end.
RuntimesEnd ==
    /\ OneEnding
    /\ host \in {"running", "quiescing"} => Runtime > 0 /\ ~HasEnded(runtimes[Runtime])
    /\ host = "starting" /\ Runtime > 0 => HasEnded(runtimes[Runtime])

Typed ==
    /\ program \in Programs /\ run \in RunRecords
    /\ request \in [Resumers -> Requests]
    /\ TypeOK

Sound == Typed /\ RunPlaced /\ RunOwned /\ RequestsOwned /\ RuntimesEnd

\* A claimed request is the only way on from its checkpoint.
ClaimsSound ==
    /\ \A c \in DOMAIN checkpoints :
           continued[c] <= 1 /\ (continued[c] > 0 => c \in claims)
    /\ \A t \in Resumers : request[t].pc = "claimed" =>
           /\ request[t].checkpoint \in claims
           /\ continued[request[t].checkpoint] = 0
           /\ \A u \in Resumers : u # t /\ request[u].pc = "claimed" =>
                  request[u].checkpoint # request[t].checkpoint

\* The runner knows every authority that is on record, also after a restart.
AuthoritiesSound ==
    /\ AuthorityOnce
    /\ run.pc # "idle" => Consumed \subseteq run.used
    /\ run.pc = "step" /\ run.step.authority # NoAuthority =>
           run.step.authority \in run.used /\ run.step.authority \notin Consumed

\* The runner is never behind the checkpoint its record names.
AheadOfCheckpoint ==
    run.pc \in Places /\ record.checkpoint # 0 =>
        checkpoints[record.checkpoint].at <= run.at

\* After an unknown outcome the runner only has its bookkeeping left, and no
\* request of a later runtime is under way.
UnknownSound ==
    /\ run.pc = "step" /\ run.step.state = "UNKNOWN_OUTCOME" => run.then = "UNKNOWN_OUTCOME"
    /\ Known("UNKNOWN_OUTCOME") =>
           /\ \/ run.pc \in {"idle", "final"}
              \/ run.pc = "update" /\ run.then = "UNKNOWN_OUTCOME"
           /\ \A t \in Resumers : request[t].pc # "idle" => record.runtime = Runtime

-----------------------------------------------------------------------------
(* Facts about the data.                                                      *)

\* Programs, steps, checkpoints and runtimes are sequences.
LEMMA Shapes ==
    ASSUME Sound
    PROVE  /\ program \in Seq(NodeKinds) /\ Len(program) \in Nat \ {0}
           /\ DOMAIN program = 1..Len(program) /\ program[Len(program)] # "checkpoint"
           /\ Len(steps) \in Nat /\ DOMAIN steps = 1..Len(steps)
           /\ Latest \in Nat /\ DOMAIN checkpoints = 1..Latest
           /\ Runtime \in Nat /\ DOMAIN runtimes = 1..Runtime
           /\ \A c \in DOMAIN checkpoints : checkpoints[c] \in Checkpoints
<1>1. /\ program \in Seq(NodeKinds) /\ Len(program) > 0
      /\ program[Len(program)] # "checkpoint"
  BY ProgramAssumption DEF Sound, Typed
<1>2. /\ steps \in Seq(StepRecords) /\ checkpoints \in Seq(Checkpoints)
      /\ runtimes \in Seq(SUBSET {"STARTED", "QUIESCING", "CLEAN_STOP", "INTERRUPTED"})
  BY DEF Sound, Typed, TypeOK, Checkpoints
<1>3. Len(program) \in Nat /\ DOMAIN program = 1..Len(program)
  BY <1>1, LenProperties
<1>4. Len(steps) \in Nat /\ DOMAIN steps = 1..Len(steps)
  BY <1>2, LenProperties
<1>5. Latest \in Nat /\ DOMAIN checkpoints = 1..Latest
  BY <1>2, LenProperties DEF Latest
<1>6. Runtime \in Nat /\ DOMAIN runtimes = 1..Runtime
  BY <1>2, LenProperties DEF Runtime
<1>7. \A c \in DOMAIN checkpoints : checkpoints[c] \in Checkpoints
  BY <1>2, <1>5, ElementOfSeq DEF Latest
<1> QED
  BY <1>1, <1>3, <1>4, <1>5, <1>6, <1>7

-----------------------------------------------------------------------------
(* The nodes.                                                                 *)

\* What a node may leave as its step and its way on.
Admissible(state, then) ==
    /\ state \in StepStates /\ then \in Stops \cup {"next", "body", "again"}
    /\ state = "UNKNOWN_OUTCOME" => then = "UNKNOWN_OUTCOME"
    /\ then = "next" /\ Here = "call" => state = "VERIFIED"
    /\ then = "SUCCEEDED" => Here = "return"
    /\ then = "body" => Here = "choose"
    /\ then = "again" => Here = "repeat"

Takes(state, then, a) ==
    run' = [run EXCEPT !.pc = "step", !.then = then, !.used = @ \cup {a},
                       !.step = [at |-> run.at, state |-> state, authority |-> a]]

\* What every node but a checkpoint comes to.
Outcome ==
    \/ run' = Idle
    \/ run' = [run EXCEPT !.pc = "body"] /\ Here = "repeat"
    \/ run' = [run EXCEPT !.pc = "final", !.then = "BLOCKED"]
    \/ /\ Room
       /\ \E state, then :
             /\ Admissible(state, then)
             /\ \/ Steps(state, then)
                \/ \E a \in Authorities : a \notin run.used /\ Takes(state, then, a)

NodeStep ==
    /\ host = "running" /\ run.pc \in {"node", "again", "body"}
    /\ UnchangedStores /\ UnchangedHost
    /\ sent' = sent \/ sent' = [sent EXCEPT ![run.at] = @ + 1]
    /\ Outcome

\* The steps that need no authority.
LEMMA Ways ==
    /\ Here # "call" => Admissible("SUCCEEDED", "next")
    /\ Here = "choose" => Admissible("SUCCEEDED", "body")
    /\ Here = "return" => Admissible("SUCCEEDED", "SUCCEEDED")
    /\ Admissible("BLOCKED", "BLOCKED") /\ Admissible("BLOCKED", "REPLAN_REQUIRED")
    /\ Admissible("BLOCKED", "WAITING_FOR_USER")
    /\ Admissible("WAITING_FOR_USER", "WAITING_FOR_USER")
    /\ Admissible("FAILED", "FAILED")
    /\ Admissible("UNKNOWN_OUTCOME", "UNKNOWN_OUTCOME")
  BY DEF Admissible, StepStates, Stops

LEMMA StepsOutcome ==
    ASSUME Room, NEW state, NEW then,
           Admissible(state, then), Steps(state, then)
    PROVE  Outcome
  BY DEF Outcome

\* A governed answer ends in an admissible step.
LEMMA GovernedOutcome ==
    ASSUME Room, NEW state, NEW then,
           NEW a \in Authorities \cup {NoAuthority},
           Admissible(state, then), Governed(state, then, a)
    PROVE  Outcome
<1>1. CASE Accepted(a)
  BY <1>1 DEF Governed, Accepted, Outcome, Takes
<1>2. CASE ~Accepted(a)
  <2>1. Steps("BLOCKED", "BLOCKED")
    BY <1>2 DEF Governed
  <2>2. Admissible("BLOCKED", "BLOCKED")
    BY DEF Admissible, StepStates, Stops
  <2> QED
    BY <2>1, <2>2 DEF Outcome
<1> QED
  BY <1>1, <1>2

\* A call through the port, which happens at a call, a choice or a loop.
LEMMA CallOutcome ==
    ASSUME Room, CallTool, Here \in {"call", "choose", "repeat"}
    PROVE  Outcome /\ (sent' = sent \/ sent' = [sent EXCEPT ![run.at] = @ + 1])
<1>1. /\ Admissible("VERIFIED", Onward)
      /\ Admissible("DISPATCHED", "BLOCKED")
      /\ Admissible("UNKNOWN_OUTCOME", "UNKNOWN_OUTCOME")
      /\ Admissible("BLOCKED", "BLOCKED") /\ Admissible("BLOCKED", "REPLAN_REQUIRED")
      /\ Admissible("BLOCKED", "WAITING_FOR_USER")
  BY DEF Admissible, StepStates, Stops, Onward
<1>2. ASSUME NotDone
      PROVE  Outcome
  <2>1. CASE run' = Idle
    BY <2>1 DEF Outcome
  <2>2. \A then \in TurnedBack : Admissible("BLOCKED", then)
    BY <1>1 DEF TurnedBack
  <2>3. CASE Refused
    BY <2>2, <2>3, StepsOutcome DEF Refused
  <2>4. CASE \E a \in Authorities : RefusedWith(a)
    <3>1. PICK a \in Authorities, then \in TurnedBack : Governed("BLOCKED", then, a)
      BY <2>4 DEF RefusedWith
    <3> QED
      BY <2>2, <3>1, GovernedOutcome
  <2> QED
    BY <1>2, <2>1, <2>3, <2>4 DEF NotDone
<1>3. CASE Dispatch
  <2>1. ASSUME NEW a \in Authorities \cup {NoAuthority}, Executed(a) \/ UnknownOutcome(a)
        PROVE  Outcome
    BY <1>1, <2>1, GovernedOutcome DEF Executed, UnknownOutcome
  <2> QED
    BY <1>2, <1>3, <2>1 DEF Dispatch
<1> QED
  BY <1>2, <1>3 DEF CallTool

LEMMA NodesAreNodeSteps ==
    ASSUME Sound,
           \/ Call \/ ReadOnly \/ Choose \/ Repeat \/ Body \/ Verify \/ WaitFor
           \/ Recover \/ Return \/ OutOfSteps
    PROVE  NodeStep
<1>1. CASE Call
  BY <1>1, CallOutcome DEF Call, Visit, At, NodeStep
<1>2. CASE ReadOnly
  <2>1. /\ host = "running" /\ run.pc = "node" /\ Room
        /\ UNCHANGED sent /\ UnchangedStores /\ UnchangedHost
    BY <1>2 DEF ReadOnly, Visit, At
  <2>2. Outcome
    BY <1>2, Ways, StepsOutcome DEF ReadOnly, Visit, Refused, TurnedBack, Outcome
  <2> QED
    BY <2>1, <2>2 DEF NodeStep
<1>3. CASE Choose
  <2>1. /\ host = "running" /\ run.pc = "node" /\ Room
        /\ UNCHANGED sent /\ UnchangedStores /\ UnchangedHost
    BY <1>3 DEF Choose, Visit, At
  <2>2. Outcome
    BY <1>3, Ways, StepsOutcome DEF Choose, Visit
  <2> QED
    BY <2>1, <2>2 DEF NodeStep
<1>4. CASE Repeat
  <2>1. Here = "repeat" /\ run.pc \in {"node", "again"} /\ host = "running"
    BY <1>4 DEF Repeat, Visit, At, Sound, RunPlaced
  <2>2. UNCHANGED sent /\ UnchangedStores /\ UnchangedHost
    BY <1>4 DEF Repeat
  <2>3. Outcome
    <3>1. CASE run' = [run EXCEPT !.pc = "body"] \/ run' = Idle
      BY <2>1, <3>1 DEF Outcome
    <3>2. CASE /\ Room
               /\ \/ Steps("SUCCEEDED", "next")
                  \/ Steps("BLOCKED", "REPLAN_REQUIRED") \/ Steps("BLOCKED", "BLOCKED")
      BY <2>1, <3>2, Ways, StepsOutcome
    <3> QED
      BY <1>4, <3>1, <3>2 DEF Repeat
  <2> QED
    BY <2>1, <2>2, <2>3 DEF NodeStep
<1>5. CASE Body
  <2>1. Here \in {"choose", "repeat"} /\ run.pc = "body" /\ host = "running"
    BY <1>5 DEF Body, At, Sound, RunPlaced
  <2>2. CASE Room
    BY <1>5, <2>1, <2>2, CallOutcome DEF Body, NodeStep
  <2>3. CASE ~Room
    BY <1>5, <2>1, <2>3 DEF Body, Stop, NodeStep, Outcome
  <2> QED
    BY <2>2, <2>3
<1>6. CASE Verify
  <2>1. /\ host = "running" /\ run.pc = "node" /\ Room
        /\ UNCHANGED sent /\ UnchangedStores /\ UnchangedHost
    BY <1>6 DEF Verify, Visit, At
  <2>2. Outcome
    BY <1>6, Ways, StepsOutcome DEF Verify, Visit
  <2> QED
    BY <2>1, <2>2 DEF NodeStep
<1>7. CASE WaitFor
  <2>1. /\ host = "running" /\ run.pc = "node" /\ Room
        /\ UNCHANGED sent /\ UnchangedStores /\ UnchangedHost
    BY <1>7 DEF WaitFor, Visit, At
  <2>2. Outcome
    BY <1>7, Ways, StepsOutcome DEF WaitFor, Visit
  <2> QED
    BY <2>1, <2>2 DEF NodeStep
<1>8. CASE Recover
  <2>1. /\ host = "running" /\ run.pc = "node" /\ Room
        /\ UNCHANGED sent /\ UnchangedStores /\ UnchangedHost
    BY <1>8 DEF Recover, Visit, At
  <2>2. Outcome
    BY <1>8, Ways, StepsOutcome DEF Recover, Visit, Refused, TurnedBack
  <2> QED
    BY <2>1, <2>2 DEF NodeStep
<1>9. CASE Return
  <2>1. /\ host = "running" /\ run.pc = "node" /\ Room
        /\ UNCHANGED sent /\ UnchangedStores /\ UnchangedHost
    BY <1>9 DEF Return, Visit, At
  <2>2. Outcome
    BY <1>9, Ways, StepsOutcome DEF Return, Visit
  <2> QED
    BY <2>1, <2>2 DEF NodeStep
<1>10. CASE OutOfSteps
  BY <1>10 DEF OutOfSteps, At, Stop, NodeStep, Outcome
<1> QED
  BY <1>1, <1>2, <1>3, <1>4, <1>5, <1>6, <1>7, <1>8, <1>9, <1>10

\* What a node leaves of the thread.
LEMMA NodeRun ==
    ASSUME Sound, NodeStep
    PROVE  /\ run' \in RunRecords /\ RunPlaced'
           /\ \/ run' = Idle
              \/ run'.at = run.at /\ run'.pc \in {"body", "final", "step"}
           /\ run'.pc = "final" => run'.then = "BLOCKED"
           /\ run'.pc = "step" =>
                 /\ Admissible(run'.step.state, run'.then)
                 /\ \/ run'.used = run.used /\ run'.step.authority = NoAuthority
                    \/ /\ run'.step.authority \in Authorities \ run.used
                       /\ run'.used = run.used \cup {run'.step.authority}
<1>1. /\ run \in RunRecords /\ run.at \in DOMAIN program /\ run.at \in Nat
      /\ program' = program /\ steps' = steps /\ checkpoints' = checkpoints
  BY Shapes DEF Sound, Typed, RunPlaced, Places, NodeStep, UnchangedStores, UnchangedHost
<1>2. CASE run' = Idle
  <2>1. run' \in RunRecords
    BY <1>2 DEF Idle, RunRecords
  <2>2. RunPlaced'
    BY <1>2 DEF Idle, RunPlaced, Places, Pending
  <2> QED
    BY <1>2, <2>1, <2>2 DEF Idle
<1>3. CASE run' = [run EXCEPT !.pc = "body"] /\ Here = "repeat"
  <2>1. /\ run' \in RunRecords /\ run'.pc = "body" /\ run'.at = run.at
    BY <1>1, <1>3 DEF RunRecords, Places
  <2>2. RunPlaced'
    BY <1>1, <1>3, <2>1 DEF RunPlaced, Places, Pending, Here
  <2> QED
    BY <2>1, <2>2
<1>4. CASE run' = [run EXCEPT !.pc = "final", !.then = "BLOCKED"]
  <2>1. /\ run' \in RunRecords /\ run'.pc = "final" /\ run'.at = run.at
        /\ run'.then = "BLOCKED"
    BY <1>1, <1>4 DEF RunRecords, Places, Thens, Stops
  <2>2. RunPlaced'
    BY <1>1, <2>1 DEF RunPlaced, Places, Pending, Stops
  <2> QED
    BY <2>1, <2>2
<1>5. ASSUME Room, NEW state, NEW then, Admissible(state, then),
             \/ Steps(state, then)
             \/ \E a \in Authorities : a \notin run.used /\ Takes(state, then, a)
      PROVE  /\ run' \in RunRecords
             /\ run'.at = run.at /\ run'.pc = "step" /\ run'.then = then
             /\ run'.step.state = state /\ run'.step.at = run.at
             /\ \/ run'.used = run.used /\ run'.step.authority = NoAuthority
                \/ /\ run'.step.authority \in Authorities \ run.used
                   /\ run'.used = run.used \cup {run'.step.authority}
  <2>1. state \in StepStates /\ then \in Thens
    BY <1>5 DEF Admissible, Thens
  <2>2. CASE Steps(state, then)
    BY <1>1, <2>1, <2>2 DEF Steps, RunRecords, Places
  <2>3. ASSUME NEW a \in Authorities, a \notin run.used, Takes(state, then, a)
        PROVE  /\ run' \in RunRecords
               /\ run'.at = run.at /\ run'.pc = "step" /\ run'.then = then
               /\ run'.step.state = state /\ run'.step.at = run.at
               /\ run'.step.authority \in Authorities \ run.used
               /\ run'.used = run.used \cup {run'.step.authority}
    BY <1>1, <2>1, <2>3 DEF Takes, RunRecords, Places
  <2> QED
    BY <1>5, <2>2, <2>3
<1>6. ASSUME Room, NEW state, NEW then, Admissible(state, then),
             \/ Steps(state, then)
             \/ \E a \in Authorities : a \notin run.used /\ Takes(state, then, a)
      PROVE  RunPlaced' /\ Admissible(run'.step.state, run'.then)
  <2>1. /\ run'.at = run.at /\ run'.pc = "step" /\ run'.then = then
        /\ run'.step.state = state /\ run'.step.at = run.at
    BY <1>5, <1>6
  <2>2. /\ then # "NONE" /\ then # "mark" /\ state # "NONE"
        /\ then = "body" => Here = "choose"
        /\ then = "again" => Here = "repeat"
    BY <1>6 DEF Admissible, StepStates, Stops
  <2>3. Here' = Here /\ Room'
    BY <1>1, <1>6, <2>1 DEF Here, Room
  <2> QED
    BY <1>1, <1>6, <2>1, <2>2, <2>3 DEF RunPlaced, Places, Pending
<1> QED
  BY <1>2, <1>3, <1>4, <1>5, <1>6 DEF NodeStep, Outcome

-----------------------------------------------------------------------------
(* The invariant over the nodes.                                              *)

LEMMA NodeSound ==
    ASSUME Sound, NodeStep
    PROVE  Sound'
<1>1. /\ record' = record /\ steps' = steps /\ checkpoints' = checkpoints
      /\ claims' = claims /\ request' = request /\ continued' = continued
      /\ program' = program /\ runtimes' = runtimes /\ host' = host
  BY DEF NodeStep, UnchangedStores, UnchangedHost
<1>2. run.at \in DOMAIN program /\ run.pc # "idle" /\ host = "running"
  BY DEF NodeStep, Sound, RunPlaced, Places
<1>3. sent' \in [DOMAIN program -> Nat]
  BY <1>2 DEF NodeStep, Sound, Typed, TypeOK
<1>4. /\ TypeOK' /\ program' \in Programs
      /\ request' \in [Resumers -> Requests]
  BY <1>1, <1>3 DEF Sound, Typed, TypeOK, StepRecords, Latest, Runtime
<1>5. run' \in RunRecords /\ RunPlaced'
  BY NodeRun
<1>6. RunOwned'
  <2>1. run'.pc # "begin"
    BY NodeRun DEF Idle
  <2> QED
    BY <1>1, <1>2, <2>1 DEF Sound, RunOwned, Runtime
<1>7. RequestsOwned'
  BY <1>1 DEF Sound, RequestsOwned
<1>8. RuntimesEnd'
  BY <1>1 DEF Sound, RuntimesEnd, OneEnding, Runtime, HasEnded
<1> QED
  BY <1>4, <1>5, <1>6, <1>7, <1>8 DEF Sound, Typed

-----------------------------------------------------------------------------
(* The invariant over the runtimes.                                           *)

Events == SUBSET {"STARTED", "QUIESCING", "CLEAN_STOP", "INTERRUPTED"}

\* No step of a runtime touches the program's records.
LEMMA HostKeeps ==
    ASSUME Sound, UnchangedProgram, runtimes' \in Seq(Events), Len(runtimes') >= Runtime,
           host' \in {"down", "starting", "running", "quiescing"},
           RuntimesEnd',
           run' = run \/ run' = Idle, run'.pc = "idle",
           request' = [t \in Resumers |-> NoRequest]
    PROVE  Sound'
<1>1. /\ program' = program /\ record' = record /\ steps' = steps
      /\ checkpoints' = checkpoints /\ claims' = claims /\ sent' = sent
      /\ continued' = continued
  BY DEF UnchangedProgram
<1>2. /\ run' \in RunRecords /\ run'.pc = "idle"
      /\ request' \in [Resumers -> Requests]
      /\ \A t \in Resumers : request'[t] = NoRequest
  BY DEF Sound, Typed, Idle, RunRecords, NoRequest, Requests
<1>3. Runtime' \in Nat /\ Runtime' >= Runtime
  BY LenProperties DEF Runtime
<1>4. TypeOK'
  <2>1. record \in [revision : 0..MaxRevision,
                    state : {"NONE", "PENDING", "RUNNING"} \cup Stops,
                    runtime : 0..Runtime, checkpoint : 0..Latest]
    BY DEF Sound, Typed, TypeOK
  <2>2. 0..Runtime \subseteq 0..Runtime'
    BY <1>3, Shapes
  <2>3. record' \in [revision : 0..MaxRevision,
                     state : {"NONE", "PENDING", "RUNNING"} \cup Stops,
                     runtime : 0..Runtime', checkpoint : 0..Latest']
    BY <1>1, <2>1, <2>2 DEF Latest
  <2> QED
    BY <1>1, <2>3 DEF Sound, Typed, TypeOK, Events, StepRecords
<1>5. RunPlaced' /\ RunOwned' /\ RequestsOwned'
  BY <1>1, <1>2 DEF Sound, RunPlaced, RunOwned, RequestsOwned, Places, Pending
<1> QED
  BY <1>1, <1>2, <1>4, <1>5 DEF Sound, Typed

\* An event more for the last runtime.
LEMMA EventAdded ==
    ASSUME Sound, Runtime > 0, NEW e \in {"QUIESCING", "CLEAN_STOP", "INTERRUPTED"},
           runtimes' = [runtimes EXCEPT ![Runtime] = @ \cup {e}]
    PROVE  /\ runtimes' \in Seq(Events) /\ Runtime' = Runtime
           /\ Len(runtimes') >= Runtime
           /\ runtimes'[Runtime] = runtimes[Runtime] \cup {e}
           /\ \A r \in 1..Runtime : r # Runtime => runtimes'[r] = runtimes[r]
<1>1. runtimes \in Seq(Events)
  BY DEF Sound, Typed, TypeOK, Events
<1>2. Runtime \in 1..Runtime /\ Runtime = Len(runtimes)
  BY Shapes DEF Runtime
<1>3. runtimes[Runtime] \in Events
  BY <1>1, <1>2, ElementOfSeq
<1>4. runtimes[Runtime] \cup {e} \in Events
  BY <1>3 DEF Events
<1> QED
  BY <1>1, <1>2, <1>4, ExceptSeq DEF Runtime

LEMMA HostSound ==
    ASSUME Sound, Boot \/ Started \/ Quiesce \/ CleanStop \/ Crash
    PROVE  Sound'
<1>1. /\ Runtime \in Nat /\ DOMAIN runtimes = 1..Runtime
      /\ runtimes \in Seq(Events) /\ Runtime = Len(runtimes)
  BY Shapes DEF Sound, Typed, TypeOK, Events, Runtime
<1>2. /\ \A r \in 1..Runtime : ~({"CLEAN_STOP", "INTERRUPTED"} \subseteq runtimes[r])
      /\ \A r \in 1..Runtime : r < Runtime => HasEnded(runtimes[r])
  BY <1>1 DEF Sound, RuntimesEnd, OneEnding
<1>3. host # "running" => run.pc = "idle" /\ request = [t \in Resumers |-> NoRequest]
  <2>1. SUFFICES ASSUME host # "running"
                 PROVE  run.pc = "idle" /\ request = [t \in Resumers |-> NoRequest]
    OBVIOUS
  <2>2. \A t \in Resumers : request[t] = NoRequest
    BY <2>1 DEF Sound, RequestsOwned
  <2> QED
    BY <2>1, <2>2 DEF Sound, RunOwned, Typed
<1>4. CASE Boot
  <2>1. /\ host = "down" /\ host' = "starting" /\ UnchangedProgram
        /\ run' = run /\ request' = request
    BY <1>4 DEF Boot
  <2>2. CASE Runtime = 0 \/ HasEnded(runtimes[Runtime])
    <3>1. runtimes' = runtimes
      BY <1>4, <2>2 DEF Boot
    <3>2. RuntimesEnd'
      BY <2>1, <2>2, <3>1 DEF Sound, RuntimesEnd, OneEnding, Runtime, HasEnded
    <3> QED
      BY <1>1, <1>3, <2>1, <3>1, <3>2, HostKeeps
  <2>3. CASE ~(Runtime = 0 \/ HasEnded(runtimes[Runtime]))
    <3>1. runtimes' = [runtimes EXCEPT ![Runtime] = @ \cup {"INTERRUPTED"}]
      BY <1>4, <2>3 DEF Boot
    <3>2. Runtime > 0 /\ "CLEAN_STOP" \notin runtimes[Runtime]
      BY <1>1, <2>3 DEF HasEnded
    <3>3. /\ runtimes' \in Seq(Events) /\ Runtime' = Runtime
          /\ Len(runtimes') >= Runtime
          /\ runtimes'[Runtime] = runtimes[Runtime] \cup {"INTERRUPTED"}
          /\ \A r \in 1..Runtime : r # Runtime => runtimes'[r] = runtimes[r]
      BY <3>1, <3>2, EventAdded
    <3>4. DOMAIN runtimes' = 1..Runtime
      BY <1>1, <3>1
    <3>5. RuntimesEnd'
      BY <1>1, <1>2, <2>1, <3>2, <3>3, <3>4 DEF RuntimesEnd, OneEnding, HasEnded
    <3> QED
      BY <1>1, <1>3, <2>1, <3>3, <3>5, HostKeeps
  <2> QED
    BY <2>2, <2>3
<1>5. CASE Started
  <2>1. /\ host = "starting" /\ host' = "running" /\ UnchangedProgram
        /\ run' = run /\ request' = request
        /\ runtimes' = Append(runtimes, {"STARTED"})
    BY <1>5 DEF Started
  <2>2. {"STARTED"} \in Events
    BY DEF Events
  <2>3. /\ runtimes' \in Seq(Events) /\ Len(runtimes') = Runtime + 1
        /\ runtimes'[Runtime + 1] = {"STARTED"}
        /\ \A r \in 1..Runtime : runtimes'[r] = runtimes[r]
    BY <1>1, <2>1, <2>2, AppendProperties
  <2>4. DOMAIN runtimes' = 1..(Runtime + 1) /\ Runtime' = Runtime + 1
    BY <2>3, LenProperties DEF Runtime
  <2>5. Runtime > 0 => HasEnded(runtimes[Runtime])
    BY <2>1 DEF Sound, RuntimesEnd
  <2>6. RuntimesEnd'
    BY <1>1, <1>2, <2>1, <2>3, <2>4, <2>5 DEF RuntimesEnd, OneEnding, HasEnded
  <2> QED
    BY <1>1, <1>3, <2>1, <2>3, <2>6, HostKeeps
<1>6. CASE Quiesce
  <2>1. /\ host = "running" /\ host' = "quiescing" /\ UnchangedProgram
        /\ run' = run /\ request' = request /\ run.pc = "idle"
        /\ \A t \in Resumers : request[t] = NoRequest
        /\ runtimes' = [runtimes EXCEPT ![Runtime] = @ \cup {"QUIESCING"}]
    BY <1>6 DEF Quiesce, At
  <2>2. Runtime > 0 /\ ~HasEnded(runtimes[Runtime])
    BY <2>1 DEF Sound, RuntimesEnd
  <2>3. /\ runtimes' \in Seq(Events) /\ Runtime' = Runtime
        /\ Len(runtimes') >= Runtime
        /\ runtimes'[Runtime] = runtimes[Runtime] \cup {"QUIESCING"}
        /\ \A r \in 1..Runtime : r # Runtime => runtimes'[r] = runtimes[r]
    BY <2>1, <2>2, EventAdded
  <2>4. DOMAIN runtimes' = 1..Runtime
    BY <1>1, <2>1
  <2>5. RuntimesEnd'
    BY <1>1, <1>2, <2>1, <2>2, <2>3, <2>4 DEF RuntimesEnd, OneEnding, HasEnded
  <2>6. request' = [t \in Resumers |-> NoRequest]
    BY <2>1 DEF Sound, Typed
  <2> QED
    BY <1>1, <2>1, <2>3, <2>5, <2>6, HostKeeps
<1>7. CASE CleanStop
  <2>1. /\ host = "quiescing" /\ host' = "down" /\ UnchangedProgram
        /\ run' = run /\ request' = request
        /\ runtimes' = [runtimes EXCEPT ![Runtime] = @ \cup {"CLEAN_STOP"}]
    BY <1>7 DEF CleanStop
  <2>2. Runtime > 0 /\ ~HasEnded(runtimes[Runtime])
    BY <2>1 DEF Sound, RuntimesEnd
  <2>3. /\ runtimes' \in Seq(Events) /\ Runtime' = Runtime
        /\ Len(runtimes') >= Runtime
        /\ runtimes'[Runtime] = runtimes[Runtime] \cup {"CLEAN_STOP"}
        /\ \A r \in 1..Runtime : r # Runtime => runtimes'[r] = runtimes[r]
    BY <2>1, <2>2, EventAdded
  <2>4. DOMAIN runtimes' = 1..Runtime
    BY <1>1, <2>1
  <2>5. RuntimesEnd'
    BY <1>1, <1>2, <2>1, <2>2, <2>3, <2>4 DEF RuntimesEnd, OneEnding, HasEnded
  <2> QED
    BY <1>1, <1>3, <2>1, <2>3, <2>5, HostKeeps
<1>8. CASE Crash
  <2>1. /\ host' = "down" /\ UnchangedProgram /\ runtimes' = runtimes
        /\ run' = Idle /\ request' = [t \in Resumers |-> NoRequest]
    BY <1>8 DEF Crash
  <2>2. RuntimesEnd'
    BY <2>1 DEF Sound, RuntimesEnd, OneEnding, Runtime, HasEnded
  <2> QED
    BY <1>1, <2>1, <2>2, HostKeeps DEF Idle
<1> QED
  BY <1>4, <1>5, <1>6, <1>7, <1>8

-----------------------------------------------------------------------------
(* The invariant over the bookkeeping of the runner.                          *)

RecordType ==
    [revision : 0..MaxRevision, state : {"NONE", "PENDING", "RUNNING"} \cup Stops,
     runtime : 0..Runtime, checkpoint : 0..Latest]

\* A step of the program record, or the end of the run with the record as it is.
LEMMA UpdateSound ==
    ASSUME Sound, run.pc # "idle", UnchangedHost,
           UNCHANGED <<steps, checkpoints, claims, request, sent, continued>>,
           NEW changed \in RecordType, NEW next \in RunRecords,
           Update(changed, next),
           changed.revision = record.revision, changed.runtime = record.runtime,
           next.pc # "begin",
           run' = next => RunPlaced'
    PROVE  Sound'
<1>1. /\ program' = program /\ runtimes' = runtimes /\ host' = host
      /\ steps' = steps /\ checkpoints' = checkpoints /\ claims' = claims
      /\ request' = request /\ sent' = sent /\ continued' = continued
  BY DEF UnchangedHost
<1>2. /\ host = "running" /\ record.runtime = Runtime /\ record.revision > 0
      /\ record \in RecordType /\ record.revision \in Nat
  BY ProgramAssumption DEF Sound, Typed, TypeOK, RunOwned, RecordType
<1>3. /\ record' \in RecordType /\ record'.revision > 0
      /\ record'.runtime = Runtime
  <2>1. CASE record.revision < MaxRevision
    <3>1. record' = [changed EXCEPT !.revision = @ + 1]
      BY <2>1 DEF Update
    <3>2. changed.revision + 1 \in 0..MaxRevision
      BY <1>2, <2>1, ProgramAssumption
    <3> QED
      BY <1>2, <3>1, <3>2 DEF RecordType
  <2>2. CASE ~(record.revision < MaxRevision)
    BY <1>2, <2>2 DEF Update, Raise
  <2> QED
    BY <2>1, <2>2
<1>4. run' = next \/ run' = Idle
  BY DEF Update, Raise
<1>5. run' \in RunRecords /\ run'.pc # "begin"
  BY <1>4 DEF Idle, RunRecords
<1>6. RunPlaced'
  BY <1>4 DEF Idle, RunPlaced, Places, Pending
<1>7. TypeOK'
  BY <1>1, <1>3 DEF Sound, Typed, TypeOK, RecordType, StepRecords, Runtime, Latest
<1>8. RunOwned' /\ RequestsOwned' /\ RuntimesEnd'
  BY <1>1, <1>2, <1>3, <1>5 DEF Sound, RunOwned, RequestsOwned, RuntimesEnd, OneEnding,
     HasEnded, Runtime
<1> QED
  BY <1>1, <1>5, <1>6, <1>7, <1>8 DEF Sound, Typed

LEMMA StartProgramSound ==
    ASSUME Sound, StartProgram
    PROVE  Sound'
<1>1. /\ host = "running" /\ run.pc = "idle" /\ record = NoRecord
      /\ record' = [revision |-> 1, state |-> "PENDING", runtime |-> Runtime, checkpoint |-> 0]
      /\ run' = [Idle EXCEPT !.pc = "begin"]
      /\ program' = program /\ runtimes' = runtimes /\ host' = host
      /\ steps' = steps /\ checkpoints' = checkpoints /\ claims' = claims
      /\ request' = request /\ sent' = sent /\ continued' = continued
  BY DEF StartProgram, At, NoRecord, UnchangedHost
<1>2. record' \in RecordType
  BY <1>1, Shapes, ProgramAssumption DEF RecordType
<1>3. /\ run' \in RunRecords /\ run'.pc = "begin" /\ RunPlaced'
  BY <1>1 DEF Idle, RunRecords, RunPlaced, Places, Pending
<1>4. TypeOK'
  BY <1>1, <1>2 DEF Sound, Typed, TypeOK, RecordType, StepRecords, Runtime, Latest
<1>5. RunOwned' /\ RequestsOwned' /\ RuntimesEnd'
  BY <1>1, <1>3 DEF Sound, RunOwned, RequestsOwned, RuntimesEnd, OneEnding, HasEnded, Runtime
<1> QED
  BY <1>1, <1>3, <1>4, <1>5 DEF Sound, Typed

LEMMA BeginSound ==
    ASSUME Sound, Begin
    PROVE  Sound'
<1> DEFINE changed == [record EXCEPT !.state = "RUNNING"]
           next == [run EXCEPT !.pc = "node", !.at = 1]
<1>1. /\ run.pc = "begin" /\ UnchangedHost /\ Update(changed, next)
      /\ UNCHANGED <<steps, checkpoints, claims, request, sent, continued>>
  BY DEF Begin, At
<1>2. record \in RecordType /\ run \in RunRecords
  BY DEF Sound, Typed, TypeOK, RecordType
<1>3. /\ changed \in RecordType /\ changed.revision = record.revision
      /\ changed.runtime = record.runtime
  BY <1>2 DEF RecordType
<1>4. next \in RunRecords /\ next.pc = "node" /\ next.at = 1
  BY <1>2 DEF RunRecords, Places
<1>5. 1 \in DOMAIN program /\ program' = program
  BY <1>1, Shapes DEF UnchangedHost
<1>6. run' = next => RunPlaced'
  BY <1>4, <1>5 DEF RunPlaced, Pending
<1> HIDE DEF changed, next
<1> QED
  BY <1>1, <1>3, <1>4, <1>6, UpdateSound

\* The next node of the sequence, or its end.
LEMMA NextPlaced ==
    ASSUME Sound, run.pc \in Places, program' = program
    PROVE  /\ NextNode \in RunRecords /\ NextNode.pc \in {"node", "final"}
           /\ run' = NextNode => RunPlaced'
<1>1. /\ run \in RunRecords /\ run.at \in DOMAIN program
      /\ DOMAIN program = 1..Len(program) /\ Len(program) \in Nat
  BY Shapes DEF Sound, Typed, RunPlaced
<1>2. CASE run.at < Len(program)
  <2>1. NextNode = [run EXCEPT !.pc = "node", !.at = @ + 1]
    BY <1>2 DEF NextNode
  <2>2. run.at + 1 \in DOMAIN program /\ run.at + 1 \in Nat
    BY <1>1, <1>2
  <2>3. NextNode \in RunRecords /\ NextNode.pc = "node" /\ NextNode.at = run.at + 1
    BY <1>1, <2>1, <2>2 DEF RunRecords, Places
  <2> QED
    BY <2>2, <2>3 DEF RunPlaced, Pending
<1>3. CASE ~(run.at < Len(program))
  <2>1. NextNode = [run EXCEPT !.pc = "final", !.then = "FAILED"]
    BY <1>3 DEF NextNode
  <2>2. /\ NextNode \in RunRecords /\ NextNode.pc = "final" /\ NextNode.then = "FAILED"
        /\ NextNode.at = run.at
    BY <1>1, <2>1 DEF RunRecords, Places, Thens, Stops
  <2> QED
    BY <1>1, <2>2 DEF RunPlaced, Pending, Stops
<1> QED
  BY <1>2, <1>3

\* Where the update of the record leads.
AfterUpdate ==
    CASE run.then = "next" -> NextNode
      [] run.then \in {"body", "again", "mark"} -> [run EXCEPT !.pc = run.then]
      [] OTHER -> [run EXCEPT !.pc = "final"]

LEMMA AfterUpdatePlaced ==
    ASSUME Sound, run.pc = "update", program' = program, checkpoints' = checkpoints
    PROVE  /\ AfterUpdate \in RunRecords /\ AfterUpdate.pc # "begin"
           /\ run' = AfterUpdate => RunPlaced'
<1>1. run \in RunRecords /\ run.at \in DOMAIN program /\ run.then # "NONE"
  BY DEF Sound, Typed, RunPlaced, Places, Pending
<1>2. CASE run.then = "next"
  <2>1. AfterUpdate = NextNode
    BY <1>2 DEF AfterUpdate
  <2> QED
    BY <2>1, NextPlaced DEF Places
<1>3. CASE run.then \in {"body", "again", "mark"}
  <2>1. AfterUpdate = [run EXCEPT !.pc = run.then]
    BY <1>3 DEF AfterUpdate
  <2>2. /\ AfterUpdate \in RunRecords /\ AfterUpdate.pc = run.then
        /\ AfterUpdate.at = run.at
    BY <1>1, <1>3, <2>1 DEF RunRecords, Places
  <2>3. /\ run.then = "body" => Here = "choose"
        /\ run.then = "again" => Here = "repeat"
        /\ run.then = "mark" => AtCheckpoint
    BY DEF Sound, RunPlaced, Pending
  <2>4. ASSUME run' = AfterUpdate
        PROVE  RunPlaced'
    <3>1. Here' = Here /\ (AtCheckpoint => AtCheckpoint')
      BY <2>2, <2>4 DEF Here, AtCheckpoint, Latest
    <3> QED
      BY <1>1, <1>3, <2>2, <2>3, <2>4, <3>1 DEF RunPlaced, Pending
  <2> QED
    BY <1>3, <2>2, <2>4
<1>4. CASE run.then \notin {"next", "body", "again", "mark"}
  <2>1. AfterUpdate = [run EXCEPT !.pc = "final"]
    BY <1>4 DEF AfterUpdate
  <2>2. run.then \in Stops
    BY <1>1, <1>4 DEF RunRecords, Thens
  <2>3. /\ AfterUpdate \in RunRecords /\ AfterUpdate.pc = "final"
        /\ AfterUpdate.at = run.at /\ AfterUpdate.then = run.then
    BY <1>1, <2>1 DEF RunRecords, Places
  <2> QED
    BY <1>1, <2>2, <2>3 DEF RunPlaced, Pending
<1> QED
  BY <1>2, <1>3, <1>4

LEMMA UpdateRecordSound ==
    ASSUME Sound, UpdateRecord
    PROVE  Sound'
<1>1. /\ run.pc = "update" /\ UnchangedHost /\ Update(record, AfterUpdate)
      /\ UNCHANGED <<steps, checkpoints, claims, request, sent, continued>>
  BY DEF UpdateRecord, AfterUpdate, At, UnchangedEvidence
<1>2. record \in RecordType
  BY DEF Sound, Typed, TypeOK, RecordType
<1>3. program' = program /\ checkpoints' = checkpoints
  BY <1>1 DEF UnchangedHost
<1> QED
  BY <1>1, <1>2, <1>3, AfterUpdatePlaced, UpdateSound

LEMMA MarkSound ==
    ASSUME Sound, Mark
    PROVE  Sound'
<1> DEFINE changed == [record EXCEPT !.checkpoint = Latest]
<1>1. /\ run.pc = "mark" /\ UnchangedHost /\ Update(changed, NextNode)
      /\ UNCHANGED <<steps, checkpoints, claims, request, sent, continued>>
  BY DEF Mark, At, UnchangedEvidence
<1>2. /\ changed \in RecordType /\ changed.revision = record.revision
      /\ changed.runtime = record.runtime
  <2>1. record \in RecordType
    BY DEF Sound, Typed, TypeOK, RecordType
  <2>2. Latest \in 0..Latest
    BY Shapes
  <2> QED
    BY <2>1, <2>2 DEF RecordType
<1>3. program' = program
  BY <1>1 DEF UnchangedHost
<1> HIDE DEF changed
<1> QED
  BY <1>1, <1>2, <1>3, NextPlaced, UpdateSound DEF Places

LEMMA FinalizeSound ==
    ASSUME Sound, Finalize
    PROVE  Sound'
<1> DEFINE changed == [record EXCEPT !.state = run.then]
<1>1. /\ run.pc = "final" /\ UnchangedHost /\ Update(changed, Idle)
      /\ UNCHANGED <<steps, checkpoints, claims, request, sent, continued>>
  BY DEF Finalize, At, UnchangedEvidence
<1>2. run.then \in Stops
  BY <1>1 DEF Sound, RunPlaced
<1>3. /\ changed \in RecordType /\ changed.revision = record.revision
      /\ changed.runtime = record.runtime
  BY <1>2 DEF Sound, Typed, TypeOK, RecordType
<1>4. Idle \in RunRecords /\ Idle.pc = "idle"
  BY DEF Idle, RunRecords
<1>5. run' = Idle => RunPlaced'
  BY DEF Idle, RunPlaced, Places, Pending
<1> HIDE DEF changed
<1> QED
  BY <1>1, <1>3, <1>4, <1>5, UpdateSound

LEMMA RecordStepSound ==
    ASSUME Sound, RecordStep
    PROVE  Sound'
<1>1. /\ run.pc = "step" /\ steps' = Append(steps, run.step)
      /\ run' = [run EXCEPT !.pc = "update"] /\ record' = record
      /\ program' = program /\ runtimes' = runtimes /\ host' = host
      /\ checkpoints' = checkpoints /\ claims' = claims
      /\ request' = request /\ sent' = sent /\ continued' = continued
  BY DEF RecordStep, At, UnchangedEvidence, UnchangedHost
<1>2. /\ run \in RunRecords /\ run.at \in DOMAIN program /\ Room
      /\ run.step.state # "NONE" /\ run.step.at = run.at
  BY <1>1 DEF Sound, Typed, RunPlaced, Places
<1>3. run.step \in StepRecords
  BY <1>2 DEF RunRecords, StepRecords, StepStates
<1>4. /\ steps' \in Seq(StepRecords) /\ Len(steps') = Len(steps) + 1
      /\ Len(steps) \in Nat
  BY <1>1, <1>3, AppendProperties, Shapes DEF Sound, Typed, TypeOK
<1>5. Len(steps') <= MaxSteps
  BY <1>2, <1>4, ProgramAssumption DEF Room
<1>6. TypeOK'
  BY <1>1, <1>4, <1>5 DEF Sound, Typed, TypeOK, StepRecords, Runtime, Latest
<1>7. /\ run' \in RunRecords /\ run'.pc = "update" /\ run'.at = run.at
      /\ run'.then = run.then
  BY <1>1, <1>2 DEF RunRecords, Places
<1>8. RunPlaced'
  <2>1. Here' = Here /\ (AtCheckpoint => AtCheckpoint')
    BY <1>1, <1>7 DEF Here, AtCheckpoint, Latest
  <2> QED
    BY <1>1, <1>2, <1>7, <2>1 DEF Sound, RunPlaced, Pending
<1>9. RunOwned' /\ RequestsOwned' /\ RuntimesEnd'
  BY <1>1, <1>7 DEF Sound, RunOwned, RequestsOwned, RuntimesEnd, OneEnding, HasEnded, Runtime
<1> QED
  BY <1>1, <1>6, <1>7, <1>8, <1>9 DEF Sound, Typed

-----------------------------------------------------------------------------
(* The invariant over checkpoints and requests.                               *)

\* A step of the checkpoint node.
LEMMA CheckpointStepPlaced ==
    ASSUME Sound, run.pc \in Places, Room, program' = program, steps' = steps,
           NEW state \in StepStates, NEW then \in Stops \cup {"mark"},
           Steps(state, then),
           then = "mark" => AtCheckpoint'
    PROVE  /\ run' \in RunRecords /\ run'.pc = "step" /\ run'.at = run.at
           /\ run'.then = then /\ run'.step.state = state /\ run'.used = run.used
           /\ run'.step.authority = NoAuthority
           /\ RunPlaced'
<1>1. run \in RunRecords /\ run.at \in DOMAIN program /\ run.at \in Nat
  BY Shapes DEF Sound, Typed, RunPlaced
<1>2. /\ run' \in RunRecords /\ run'.pc = "step" /\ run'.at = run.at
      /\ run'.then = then /\ run'.step.state = state /\ run'.step.at = run.at
      /\ run'.used = run.used /\ run'.step.authority = NoAuthority
  BY <1>1 DEF Steps, RunRecords, Places, Thens
<1>3. RunPlaced'
  BY <1>1, <1>2 DEF RunPlaced, Pending, Places, Room, StepStates, Stops
<1> QED
  BY <1>2, <1>3

LEMMA PrepareSound ==
    ASSUME Sound, Prepare
    PROVE  Sound'
<1>1. /\ run.pc = "node" /\ Room /\ Here = "checkpoint" /\ host = "running"
      /\ record' = record /\ steps' = steps /\ sent' = sent
      /\ claims' = claims /\ request' = request
      /\ program' = program /\ runtimes' = runtimes /\ host' = host
  BY DEF Prepare, Visit, At, UnchangedRequests, UnchangedHost
<1>2. CASE Steps("BLOCKED", "BLOCKED") /\ UNCHANGED <<checkpoints, continued>>
  <2>1. run' \in RunRecords /\ run'.pc = "step" /\ RunPlaced'
    BY <1>1, <1>2, CheckpointStepPlaced DEF Places, StepStates, Stops
  <2>2. TypeOK'
    BY <1>1, <1>2 DEF Sound, Typed, TypeOK, StepRecords, Runtime, Latest
  <2>3. RunOwned' /\ RequestsOwned' /\ RuntimesEnd'
    BY <1>1, <1>2, <2>1 DEF Sound, RunOwned, RequestsOwned, RuntimesEnd, OneEnding,
       HasEnded, Runtime
  <2> QED
    BY <1>1, <2>1, <2>2, <2>3 DEF Sound, Typed
<1>3. CASE /\ checkpoints' = Append(checkpoints, [at |-> run.at, status |-> "PREPARED"])
           /\ continued' = Append(continued, 0)
           /\ run' = [run EXCEPT !.pc = "commit"]
  <2> DEFINE new == [at |-> run.at, status |-> "PREPARED"]
  <2>1. /\ run \in RunRecords /\ run.at \in DOMAIN program
        /\ checkpoints \in Seq(Checkpoints) /\ new \in Checkpoints
    BY <1>1 DEF Sound, Typed, TypeOK, RunPlaced, Places, Checkpoints
  <2>2. /\ checkpoints' \in Seq(Checkpoints) /\ Latest' = Latest + 1
        /\ checkpoints'[Latest + 1] = new
        /\ \A c \in 1..Latest : checkpoints'[c] = checkpoints[c]
        /\ DOMAIN checkpoints' = 1..(Latest + 1)
    <3> HIDE DEF new
    <3> QED
      BY <1>3, <2>1, AppendProperties, LenProperties DEF Latest, new
  <2>3. /\ Latest \in Nat /\ DOMAIN checkpoints = 1..Latest
    BY Shapes
  <2>4. continued' \in [DOMAIN checkpoints' -> Nat]
    <3>1. continued \in Seq(Nat) /\ Len(continued) = Latest
      <4>1. continued \in [1..Latest -> Nat]
        BY <2>3 DEF Sound, Typed, TypeOK
      <4> QED
        BY <2>3, <4>1, SeqDef, LenProperties
    <3>2. continued' \in Seq(Nat) /\ Len(continued') = Latest + 1
      BY <1>3, <3>1, AppendProperties
    <3> QED
      BY <2>2, <3>2, LenProperties
  <2>5. /\ run' \in RunRecords /\ run'.pc = "commit" /\ run'.at = run.at
    BY <1>3, <2>1 DEF RunRecords, Places
  <2>6. RunPlaced'
    <3>1. Here' = "checkpoint" /\ Room' /\ AtCheckpoint'
      BY <1>1, <2>2, <2>3, <2>5 DEF Here, Room, AtCheckpoint
    <3> QED
      BY <1>1, <2>1, <2>5, <3>1 DEF RunPlaced, Pending
  <2>7. 0..Latest \subseteq 0..Latest' /\ DOMAIN checkpoints \subseteq DOMAIN checkpoints'
    BY <2>2, <2>3
  <2>8. record' \in RecordType'
    BY <1>1, <2>7 DEF Sound, Typed, TypeOK, RecordType, Runtime
  <2>9. TypeOK'
    BY <1>1, <2>2, <2>4, <2>7, <2>8
       DEF Sound, Typed, TypeOK, RecordType, StepRecords, Checkpoints, Runtime
  <2>10. RunOwned'
    <3>1. record.revision # 0 /\ record.runtime = Runtime
      BY <1>1 DEF Sound, RunOwned
    <3>2. ASSUME NEW c \in DOMAIN checkpoints'
          PROVE  program'[checkpoints'[c].at] = "checkpoint"
      <4>1. CASE c = Latest + 1
        BY <1>1, <2>2, <4>1 DEF Here
      <4>2. CASE c \in 1..Latest
        BY <1>1, <2>2, <2>3, <4>2 DEF Sound, RunOwned
      <4> QED
        BY <2>2, <2>3, <4>1, <4>2
    <3> QED
      BY <1>1, <2>5, <3>1, <3>2 DEF RunOwned, Runtime
  <2>11. RequestsOwned' /\ RuntimesEnd'
    BY <1>1, <2>7 DEF Sound, RequestsOwned, RuntimesEnd, OneEnding, HasEnded, Runtime
  <2> QED
    BY <1>1, <2>5, <2>6, <2>9, <2>10, <2>11 DEF Sound, Typed
<1> QED
  BY <1>2, <1>3 DEF Prepare, CannotPrepare

\* A status of a checkpoint changes, and nothing else of it.
LEMMA StatusChanged ==
    ASSUME Sound, NEW c \in DOMAIN checkpoints, NEW s \in {"PREPARED", "COMMITTED", "INACTIVE"},
           checkpoints' = [checkpoints EXCEPT ![c].status = s]
    PROVE  /\ checkpoints' \in Seq(Checkpoints) /\ Latest' = Latest
           /\ DOMAIN checkpoints' = DOMAIN checkpoints
           /\ \A d \in DOMAIN checkpoints : checkpoints'[d].at = checkpoints[d].at
<1> DEFINE new == [checkpoints[c] EXCEPT !.status = s]
<1>1. /\ checkpoints \in Seq(Checkpoints) /\ DOMAIN checkpoints = 1..Latest
      /\ Latest = Len(checkpoints) /\ Latest \in Nat
      /\ \A d \in DOMAIN checkpoints : checkpoints[d] \in Checkpoints
  BY Shapes DEF Sound, Typed, TypeOK, Checkpoints, Latest
<1>2. new \in Checkpoints /\ new.at = checkpoints[c].at
  BY <1>1 DEF Checkpoints
<1>3. checkpoints' = [checkpoints EXCEPT ![c] = new]
  OBVIOUS
<1>4. c \in 1..Len(checkpoints)
  BY <1>1
<1> HIDE DEF new
<1>5. /\ checkpoints' \in Seq(Checkpoints) /\ Len(checkpoints') = Len(checkpoints)
      /\ \A d \in 1..Len(checkpoints) :
            checkpoints'[d] = IF d = c THEN new ELSE checkpoints[d]
  BY <1>1, <1>2, <1>3, <1>4, ExceptSeq
<1> QED
  BY <1>1, <1>2, <1>5, LenProperties DEF Latest

\* What the status of a checkpoint has to do with the invariant: nothing.
LEMMA StatusSound ==
    ASSUME Sound, checkpoints' \in Seq(Checkpoints), Latest' = Latest,
           DOMAIN checkpoints' = DOMAIN checkpoints,
           \A d \in DOMAIN checkpoints : checkpoints'[d].at = checkpoints[d].at,
           UNCHANGED <<record, steps, sent, continued>>, UnchangedRequests, UnchangedHost,
           run' \in RunRecords, RunPlaced', run'.pc = "begin" => run.pc = "begin",
           run'.pc # "idle" => run.pc # "idle"
    PROVE  Sound'
<1>1. /\ program' = program /\ runtimes' = runtimes /\ host' = host
      /\ record' = record /\ steps' = steps /\ sent' = sent /\ continued' = continued
      /\ claims' = claims /\ request' = request
  BY DEF UnchangedRequests, UnchangedHost
<1>2. record' \in RecordType'
  BY <1>1 DEF Sound, Typed, TypeOK, RecordType, Runtime
<1>3. TypeOK'
  BY <1>1, <1>2 DEF Sound, Typed, TypeOK, RecordType, StepRecords, Checkpoints, Runtime
<1>4. RunOwned'
  <2>1. checkpoints = <<>> => checkpoints' = <<>>
    <3>1. SUFFICES ASSUME checkpoints = <<>> PROVE checkpoints' = <<>>
      OBVIOUS
    <3>2. Len(checkpoints') = 0
      BY <3>1, LenProperties DEF Latest
    <3> QED
      BY <3>2, EmptySeq
  <2> QED
    BY <1>1, <2>1 DEF Sound, RunOwned, Runtime
<1>5. RequestsOwned' /\ RuntimesEnd'
  BY <1>1 DEF Sound, RequestsOwned, RuntimesEnd, OneEnding, HasEnded, Runtime
<1> QED
  BY <1>1, <1>3, <1>4, <1>5 DEF Sound, Typed

LEMMA CommitSound ==
    ASSUME Sound, Commit
    PROVE  Sound'
<1>1. /\ run.pc = "commit" /\ Room /\ AtCheckpoint /\ run.at \in DOMAIN program
      /\ UNCHANGED <<record, steps, sent, continued>> /\ UnchangedRequests /\ UnchangedHost
      /\ program' = program /\ steps' = steps
  BY DEF Commit, At, Sound, RunPlaced, Places, UnchangedHost
<1>2. Latest \in Nat /\ DOMAIN checkpoints = 1..Latest /\ checkpoints \in Seq(Checkpoints)
  BY Shapes DEF Sound, Typed, TypeOK, Checkpoints
<1>3. CASE Steps("BLOCKED", "BLOCKED") /\ UNCHANGED checkpoints
  <2>1. run' \in RunRecords /\ run'.pc = "step" /\ RunPlaced'
    BY <1>1, <1>3, CheckpointStepPlaced DEF Places, StepStates, Stops
  <2> QED
    BY <1>1, <1>2, <1>3, <2>1, StatusSound DEF Latest
<1>4. CASE /\ checkpoints' = [checkpoints EXCEPT ![Latest].status = "COMMITTED"]
           /\ Steps("SUCCEEDED", "mark")
  <2>1. Latest \in DOMAIN checkpoints
    BY <1>1, <1>2 DEF AtCheckpoint
  <2>2. /\ checkpoints' \in Seq(Checkpoints) /\ Latest' = Latest
        /\ DOMAIN checkpoints' = DOMAIN checkpoints
        /\ \A d \in DOMAIN checkpoints : checkpoints'[d].at = checkpoints[d].at
    BY <1>4, <2>1, StatusChanged
  <2>3. AtCheckpoint'
    <3>1. run'.at = run.at
      BY <1>4 DEF Steps, Sound, Typed, RunRecords
    <3> QED
      BY <1>1, <2>1, <2>2, <3>1 DEF AtCheckpoint, Here
  <2>4. run' \in RunRecords /\ run'.pc = "step" /\ RunPlaced'
    BY <1>1, <1>4, <2>3, CheckpointStepPlaced DEF Places, StepStates
  <2> QED
    BY <1>1, <2>2, <2>4, StatusSound
<1> QED
  BY <1>3, <1>4 DEF Commit

LEMMA DeactivateSound ==
    ASSUME Sound, NEW c \in DOMAIN checkpoints, Deactivate(c)
    PROVE  Sound'
<1>1. /\ checkpoints' = [checkpoints EXCEPT ![c].status = "INACTIVE"]
      /\ run' = run /\ program' = program /\ steps' = steps
      /\ UNCHANGED <<record, steps, sent, continued>> /\ UnchangedRequests /\ UnchangedHost
      /\ host = "running"
  BY DEF Deactivate, UnchangedHost
<1>2. /\ checkpoints' \in Seq(Checkpoints) /\ Latest' = Latest
      /\ DOMAIN checkpoints' = DOMAIN checkpoints
      /\ \A d \in DOMAIN checkpoints : checkpoints'[d].at = checkpoints[d].at
  BY <1>1, StatusChanged
<1>3. Here' = Here /\ (AtCheckpoint => AtCheckpoint') /\ Room' = Room
  <2>1. Latest \in Nat /\ DOMAIN checkpoints = 1..Latest
    BY Shapes
  <2> QED
    BY <1>1, <1>2, <2>1 DEF AtCheckpoint, Here, Room
<1>4. run' \in RunRecords /\ RunPlaced'
  BY <1>1, <1>3 DEF Sound, Typed, RunPlaced, Pending
<1> QED
  BY <1>1, <1>2, <1>4, StatusSound

\* A step of one resumer that leaves the program as it is.
LEMMA RequestSound ==
    ASSUME Sound, NEW t \in Resumers, host = "running",
           UNCHANGED <<record, steps, checkpoints, run, sent, continued>>, UnchangedHost,
           claims' \subseteq DOMAIN checkpoints,
           NEW r \in Requests, request' = [request EXCEPT ![t] = r],
           r # NoRequest => r.pc # "idle" /\ r.checkpoint \in DOMAIN checkpoints
    PROVE  Sound'
<1>1. /\ program' = program /\ runtimes' = runtimes /\ host' = host
      /\ record' = record /\ steps' = steps /\ sent' = sent /\ continued' = continued
      /\ checkpoints' = checkpoints /\ run' = run
  BY DEF UnchangedHost
<1>2. request' \in [Resumers -> Requests]
  BY DEF Sound, Typed
<1>3. TypeOK'
  BY <1>1 DEF Sound, Typed, TypeOK, StepRecords, Runtime, Latest
<1>4. RunPlaced' /\ RunOwned' /\ RuntimesEnd'
  BY <1>1 DEF Sound, RunPlaced, Pending, AtCheckpoint, Latest, Here, Room, RunOwned, Runtime,
     RuntimesEnd, OneEnding, HasEnded
<1>5. RequestsOwned'
  BY <1>1 DEF Sound, Typed, RequestsOwned
<1> QED
  BY <1>1, <1>2, <1>3, <1>4, <1>5 DEF Sound, Typed

LEMMA AssessSound ==
    ASSUME Sound, NEW t \in Resumers, Assess(t)
    PROVE  Sound'
<1> DEFINE r == [pc |-> "assessed", checkpoint |-> Latest]
<1>1. Latest \in Nat /\ DOMAIN checkpoints = 1..Latest
  BY Shapes
<1>2. r \in Requests /\ r.pc # "idle" /\ r.checkpoint \in DOMAIN checkpoints
  BY <1>1 DEF Assess, Requests
<1>3. claims' \subseteq DOMAIN checkpoints
  BY DEF Assess, Sound, Typed, TypeOK
<1>4. /\ host = "running" /\ UnchangedHost /\ request' = [request EXCEPT ![t] = r]
      /\ UNCHANGED <<record, steps, checkpoints, run, sent, continued>>
  BY DEF Assess
<1> HIDE DEF r
<1> QED
  BY <1>2, <1>3, <1>4, RequestSound

LEMMA ClaimSound ==
    ASSUME Sound, NEW t \in Resumers, Claim(t)
    PROVE  Sound'
<1> DEFINE r == IF request[t].checkpoint \in claims THEN NoRequest
                ELSE [request[t] EXCEPT !.pc = "claimed"]
<1>1. /\ request[t] \in Requests /\ request[t].pc = "assessed"
      /\ request[t].checkpoint \in DOMAIN checkpoints
  BY DEF Claim, Sound, Typed, RequestsOwned, NoRequest
<1>2. r \in Requests /\ (r # NoRequest => r.pc # "idle" /\ r.checkpoint \in DOMAIN checkpoints)
  BY <1>1 DEF Requests, NoRequest
<1>3. claims' \subseteq DOMAIN checkpoints
  BY <1>1 DEF Claim, Sound, Typed, TypeOK
<1>4. /\ host = "running" /\ UnchangedHost /\ request' = [request EXCEPT ![t] = r]
      /\ UNCHANGED <<record, steps, checkpoints, run, sent, continued>>
  BY DEF Claim
<1> HIDE DEF r
<1> QED
  BY <1>2, <1>3, <1>4, RequestSound

LEMMA DropSound ==
    ASSUME Sound, NEW t \in Resumers, Drop(t)
    PROVE  Sound'
<1>1. NoRequest \in Requests
  BY DEF NoRequest, Requests
<1>2. claims' \subseteq DOMAIN checkpoints
  BY DEF Drop, Sound, Typed, TypeOK
<1>3. /\ host = "running" /\ UnchangedHost /\ request' = [request EXCEPT ![t] = NoRequest]
      /\ UNCHANGED <<record, steps, checkpoints, run, sent, continued>>
  BY DEF Drop
<1> QED
  BY <1>1, <1>2, <1>3, RequestSound

\* Where a resume goes on: at a node after the checkpoint.
LEMMA ContinuationPlaced ==
    ASSUME Sound, NEW c \in DOMAIN checkpoints
    PROVE  /\ checkpoints[c].at \in Nat
           /\ Continuation(c) \in DOMAIN program /\ Continuation(c) \in Nat
<1>1. /\ checkpoints[c].at \in DOMAIN program /\ program[checkpoints[c].at] = "checkpoint"
      /\ DOMAIN program = 1..Len(program) /\ Len(program) \in Nat
      /\ program[Len(program)] # "checkpoint"
  BY Shapes DEF Sound, RunOwned, Checkpoints
<1> QED
  BY <1>1 DEF Continuation

LEMMA ConsumedTyped ==
    ASSUME Sound
    PROVE  Consumed \subseteq Authorities
<1>1. \A i \in DOMAIN steps : steps[i] \in StepRecords
  BY Shapes, ElementOfSeq DEF Sound, Typed, TypeOK
<1> QED
  BY <1>1 DEF Consumed, StepRecords

\* What a resume leaves.
LEMMA ResumeRun ==
    ASSUME Sound, NEW t \in Resumers, Resume(t)
    PROVE  /\ request[t].checkpoint \in DOMAIN checkpoints
           /\ record.checkpoint = request[t].checkpoint
           /\ run' \in RunRecords /\ RunPlaced'
           /\ \/ run' = Idle /\ record' = record
              \/ /\ run'.pc = "node" /\ run'.at = Continuation(request[t].checkpoint)
                 /\ run'.used = Consumed /\ record' \in RecordType /\ record'.revision > 0
                 /\ record'.runtime = Runtime /\ record'.checkpoint = record.checkpoint
                 /\ record'.state = "RUNNING"
<1> DEFINE c == request[t].checkpoint
           changed == [record EXCEPT !.state = "RUNNING", !.runtime = Runtime]
           next == [Idle EXCEPT !.pc = "node", !.at = Continuation(c), !.used = Consumed]
<1>1. /\ host = "running" /\ run.pc = "idle" /\ request[t].pc = "claimed"
      /\ record.checkpoint = c /\ Update(changed, next)
      /\ program' = program
  BY DEF Resume, At, UnchangedHost
<1>2. c \in DOMAIN checkpoints
  BY <1>1 DEF Sound, RequestsOwned, NoRequest
<1>3. /\ Continuation(c) \in DOMAIN program /\ Continuation(c) \in Nat
      /\ Consumed \subseteq Authorities
  BY <1>2, ContinuationPlaced, ConsumedTyped
<1>4. /\ next \in RunRecords /\ next.pc = "node" /\ next.at = Continuation(c)
      /\ next.used = Consumed
  BY <1>3 DEF Idle, RunRecords, Places
<1>5. Idle \in RunRecords
  BY DEF Idle, RunRecords
<1>6. CASE record.revision < MaxRevision
  <2>1. record' = [changed EXCEPT !.revision = @ + 1] /\ run' = next
    BY <1>1, <1>6 DEF Update
  <2>2. /\ record \in RecordType /\ record.revision \in 0..MaxRevision
        /\ Runtime \in 0..Runtime
    BY Shapes DEF Sound, Typed, TypeOK, RecordType
  <2>3. record.revision + 1 \in 0..MaxRevision /\ record.revision + 1 > 0
    BY <1>6, <2>2, ProgramAssumption
  <2>4. /\ record' \in RecordType /\ record'.revision > 0 /\ record'.runtime = Runtime
        /\ record'.checkpoint = record.checkpoint /\ record'.state = "RUNNING"
    BY <2>1, <2>2, <2>3 DEF RecordType
  <2>5. RunPlaced'
    BY <1>1, <1>3, <1>4, <2>1 DEF RunPlaced, Pending
  <2> QED
    BY <1>1, <1>2, <1>4, <2>1, <2>4, <2>5
<1>7. CASE ~(record.revision < MaxRevision)
  <2>1. record' = record /\ run' = Idle
    BY <1>1, <1>7 DEF Update, Raise
  <2>2. RunPlaced'
    BY <2>1 DEF Idle, RunPlaced, Places, Pending
  <2> QED
    BY <1>1, <1>2, <1>5, <2>1, <2>2
<1> QED
  BY <1>6, <1>7

LEMMA ResumeSound ==
    ASSUME Sound, NEW t \in Resumers, Resume(t)
    PROVE  Sound'
<1> DEFINE c == request[t].checkpoint
<1>1. /\ program' = program /\ runtimes' = runtimes /\ host' = host /\ host = "running"
      /\ steps' = steps /\ checkpoints' = checkpoints /\ claims' = claims /\ sent' = sent
      /\ continued' = [continued EXCEPT ![c] = @ + 1]
      /\ request' = [request EXCEPT ![t] = NoRequest]
  BY DEF Resume, At, UnchangedHost
<1>2. c \in DOMAIN checkpoints /\ run' \in RunRecords /\ RunPlaced'
  BY ResumeRun
<1>3. /\ record' \in RecordType
      /\ run'.pc # "idle" => record'.runtime = Runtime
      /\ record'.revision = 0 => record.revision = 0 /\ run'.pc = "idle"
      /\ run'.pc # "begin"
  BY ResumeRun DEF Idle, Sound, Typed, TypeOK, RecordType
<1>4. TypeOK'
  <2>1. continued' \in [DOMAIN checkpoints -> Nat]
    BY <1>1, <1>2 DEF Sound, Typed, TypeOK
  <2> QED
    BY <1>1, <1>3, <2>1 DEF Sound, Typed, TypeOK, RecordType, StepRecords, Runtime, Latest
<1>5. request' \in [Resumers -> Requests]
  BY <1>1 DEF Sound, Typed, NoRequest, Requests
<1>6. RunOwned'
  BY <1>1, <1>3 DEF Sound, RunOwned, Runtime
<1>7. RequestsOwned' /\ RuntimesEnd'
  BY <1>1 DEF Sound, Typed, RequestsOwned, RuntimesEnd, OneEnding, HasEnded, Runtime
<1> QED
  BY <1>1, <1>2, <1>4, <1>5, <1>6, <1>7 DEF Sound, Typed

-----------------------------------------------------------------------------
(* The theorems that rest on it.                                              *)

LEMMA InitSound ==
    ASSUME Init
    PROVE  Sound
<1>1. program \in Seq(NodeKinds) /\ program \in Programs
  BY ProgramAssumption DEF Init
<1>2. Len(program) \in Nat /\ DOMAIN program = 1..Len(program)
  BY <1>1, LenProperties
<1>3. /\ Latest = 0 /\ Runtime = 0 /\ Len(steps) = 0
      /\ DOMAIN checkpoints = {} /\ DOMAIN runtimes = {} /\ DOMAIN continued = {}
  BY DEF Init, Latest, Runtime
<1>4. TypeOK
  BY <1>2, <1>3, ProgramAssumption DEF Init, TypeOK, NoRecord
<1>5. run \in RunRecords /\ request \in [Resumers -> Requests]
  BY DEF Init, Idle, RunRecords, NoRequest, Requests
<1>6. RunPlaced /\ RunOwned /\ RequestsOwned /\ RuntimesEnd
  BY <1>3 DEF Init, Idle, NoRecord, RunPlaced, Places, Pending, RunOwned, RequestsOwned,
     RuntimesEnd, OneEnding
<1> QED
  BY <1>1, <1>4, <1>5, <1>6 DEF Sound, Typed

LEMMA StutterSound ==
    ASSUME Sound, UNCHANGED vars
    PROVE  Sound'
  BY DEF vars, durable, Sound, Typed, TypeOK, StepRecords, RunPlaced, Pending, AtCheckpoint,
     Here, Room, RunOwned, RequestsOwned, RuntimesEnd, OneEnding, HasEnded, Runtime, Latest

LEMMA StepSound ==
    ASSUME Sound, [Next]_vars
    PROVE  Sound'
<1>1. CASE Boot \/ Started \/ Quiesce \/ CleanStop \/ Crash
  BY <1>1, HostSound
<1>2. CASE \/ Call \/ ReadOnly \/ Choose \/ Repeat \/ Body \/ Verify \/ WaitFor
           \/ Recover \/ Return \/ OutOfSteps
  BY <1>2, NodesAreNodeSteps, NodeSound
<1>3. CASE StartProgram \/ Begin \/ RecordStep \/ UpdateRecord \/ Mark \/ Finalize
  BY <1>3, StartProgramSound, BeginSound, RecordStepSound, UpdateRecordSound, MarkSound,
     FinalizeSound
<1>4. CASE Prepare \/ Commit \/ \E c \in DOMAIN checkpoints : Deactivate(c)
  BY <1>4, PrepareSound, CommitSound, DeactivateSound
<1>5. CASE \E t \in Resumers : Assess(t) \/ Claim(t) \/ Resume(t) \/ Drop(t)
  BY <1>5, AssessSound, ClaimSound, ResumeSound, DropSound
<1>6. CASE UNCHANGED vars
  BY <1>6, StutterSound
<1> QED
  BY <1>1, <1>2, <1>3, <1>4, <1>5, <1>6 DEF Next

LEMMA AlwaysSound == Spec => []Sound
<1>1. Init => Sound
  BY InitSound
<1>2. Sound /\ [Next]_vars => Sound'
  BY StepSound
<1> QED
  BY <1>1, <1>2, PTL DEF Spec

\* The records keep their shape, and their bounds, over every crash and resume.
THEOREM ResumeTyped == Spec => []TypeOK
<1>1. Sound => TypeOK
  BY DEF Sound, Typed
<1> QED
  BY <1>1, AlwaysSound, PTL

\* Every runtime but the one that works has one end on record.
THEOREM EndsAreUnique == Spec => []OneEnding
<1>1. Sound => OneEnding
  BY DEF Sound, RuntimesEnd
<1> QED
  BY <1>1, AlwaysSound, PTL

-----------------------------------------------------------------------------
(* One continuation for a checkpoint.                                         *)

LEMMA PrepareClaims ==
    ASSUME Sound, ClaimsSound, Prepare
    PROVE  ClaimsSound'
<1>1. claims' = claims /\ request' = request
  BY DEF Prepare, UnchangedRequests
<1>2. CASE UNCHANGED <<checkpoints, continued>>
  BY <1>1, <1>2 DEF ClaimsSound
<1>3. CASE /\ checkpoints' = Append(checkpoints, [at |-> run.at, status |-> "PREPARED"])
           /\ continued' = Append(continued, 0)
  <2>1. /\ Latest \in Nat /\ DOMAIN checkpoints = 1..Latest
        /\ continued \in [1..Latest -> Nat]
    BY Shapes DEF Sound, Typed, TypeOK
  <2>2. continued \in Seq(Nat) /\ Len(continued) = Latest
    BY <2>1, SeqDef, LenProperties
  <2>3. /\ \A c \in 1..Latest : continued'[c] = continued[c]
        /\ continued'[Latest + 1] = 0
    BY <1>3, <2>2, AppendProperties
  <2>4. DOMAIN checkpoints' = 1..(Latest + 1)
    <3>1. checkpoints \in Seq(Checkpoints) /\ Len(checkpoints) = Latest
      BY DEF Sound, Typed, TypeOK, Checkpoints, Latest
    <3> QED
      BY <1>3, <3>1
  <2>5. \A t \in Resumers : request[t].pc = "claimed" => request[t].checkpoint \in 1..Latest
    BY <2>1 DEF Sound, RequestsOwned, NoRequest
  <2>6. \A c \in DOMAIN checkpoints' :
            continued'[c] <= 1 /\ (continued'[c] > 0 => c \in claims')
    <3>1. \A c \in 1..Latest : continued'[c] <= 1 /\ (continued'[c] > 0 => c \in claims')
      BY <1>1, <2>1, <2>3 DEF ClaimsSound
    <3> QED
      BY <2>1, <2>3, <2>4, <3>1
  <2>7. \A t \in Resumers : request'[t].pc = "claimed" =>
            /\ request'[t].checkpoint \in claims'
            /\ continued'[request'[t].checkpoint] = 0
            /\ \A u \in Resumers : u # t /\ request'[u].pc = "claimed" =>
                   request'[u].checkpoint # request'[t].checkpoint
    BY <1>1, <2>3, <2>5 DEF ClaimsSound
  <2> QED
    BY <2>6, <2>7 DEF ClaimsSound
<1> QED
  BY <1>2, <1>3 DEF Prepare, CannotPrepare

LEMMA RequestClaims ==
    ASSUME Sound, ClaimsSound, NEW t \in Resumers,
           Assess(t) \/ Claim(t) \/ Resume(t) \/ Drop(t)
    PROVE  ClaimsSound'
<1>1. /\ request \in [Resumers -> Requests] /\ continued \in [DOMAIN checkpoints -> Nat]
      /\ request[t].pc # "idle" => request[t].checkpoint \in DOMAIN checkpoints
  BY DEF Sound, Typed, TypeOK, RequestsOwned, NoRequest
<1>2. CASE Assess(t) \/ Drop(t)
  <2>1. /\ request'[t].pc # "claimed" /\ claims' = claims /\ continued' = continued
        /\ checkpoints' = checkpoints
        /\ \A u \in Resumers \ {t} : request'[u] = request[u]
    BY <1>1, <1>2 DEF Assess, Drop, NoRequest
  <2> QED
    BY <1>1, <2>1 DEF ClaimsSound
<1>3. CASE Claim(t)
  <2>1. /\ continued' = continued /\ checkpoints' = checkpoints
        /\ request[t].pc = "assessed" /\ claims' = claims \cup {request[t].checkpoint}
        /\ \A u \in Resumers \ {t} : request'[u] = request[u]
    BY <1>1, <1>3 DEF Claim
  <2>2. CASE request[t].checkpoint \in claims
    <3>1. request'[t].pc # "claimed"
      BY <1>1, <1>3, <2>2 DEF Claim, NoRequest
    <3> QED
      BY <1>1, <2>1, <3>1 DEF ClaimsSound
  <2>3. CASE request[t].checkpoint \notin claims
    <3>1. request'[t].checkpoint = request[t].checkpoint
      BY <1>1, <1>3, <2>3 DEF Claim, Requests
    <3>2. continued[request[t].checkpoint] = 0
      BY <1>1, <2>1, <2>3 DEF ClaimsSound
    <3>3. \A u \in Resumers : request[u].pc = "claimed" =>
              request[u].checkpoint # request[t].checkpoint
      BY <2>3 DEF ClaimsSound
    <3> QED
      BY <1>1, <2>1, <3>1, <3>2, <3>3 DEF ClaimsSound
  <2> QED
    BY <2>2, <2>3
<1>4. CASE Resume(t)
  <2> DEFINE c == request[t].checkpoint
  <2>1. /\ c \in DOMAIN checkpoints /\ request[t].pc = "claimed"
        /\ claims' = claims /\ checkpoints' = checkpoints
        /\ continued' = [continued EXCEPT ![c] = @ + 1]
        /\ request'[t].pc # "claimed"
        /\ \A u \in Resumers \ {t} : request'[u] = request[u]
    BY <1>1, <1>4 DEF Resume, NoRequest
  <2>2. /\ continued'[c] = 1 /\ c \in claims
        /\ \A d \in DOMAIN checkpoints : d # c => continued'[d] = continued[d]
    BY <1>1, <2>1 DEF ClaimsSound
  <2>3. \A u \in Resumers \ {t} : request[u].pc = "claimed" =>
            request[u].checkpoint \in DOMAIN checkpoints /\ request[u].checkpoint # c
    BY <2>1 DEF ClaimsSound, Sound, RequestsOwned, NoRequest
  <2> HIDE DEF c
  <2> QED
    BY <2>1, <2>2, <2>3 DEF ClaimsSound
<1> QED
  BY <1>2, <1>3, <1>4

LEMMA StepClaims ==
    ASSUME Sound, ClaimsSound, [Next]_vars
    PROVE  ClaimsSound'
<1>1. ASSUME UNCHANGED <<claims, continued, checkpoints>>,
             request' = request \/ request' = [t \in Resumers |-> NoRequest]
      PROVE  ClaimsSound'
  BY <1>1 DEF ClaimsSound, NoRequest
<1>2. CASE Boot \/ Started \/ Quiesce \/ CleanStop \/ Crash
  BY <1>1, <1>2 DEF Boot, Started, Quiesce, CleanStop, Crash, UnchangedProgram
<1>3. CASE \/ Call \/ ReadOnly \/ Choose \/ Repeat \/ Body \/ Verify \/ WaitFor
           \/ Recover \/ Return \/ OutOfSteps
  BY <1>1, <1>3, NodesAreNodeSteps DEF NodeStep, UnchangedStores
<1>4. CASE StartProgram \/ Begin \/ RecordStep \/ UpdateRecord \/ Mark \/ Finalize
  BY <1>1, <1>4 DEF StartProgram, Begin, RecordStep, UpdateRecord, Mark, Finalize,
     UnchangedEvidence
<1>5. CASE Prepare
  BY <1>5, PrepareClaims
<1>6. CASE Commit \/ \E c \in DOMAIN checkpoints : Deactivate(c)
  <2>1. /\ claims' = claims /\ request' = request /\ continued' = continued
        /\ DOMAIN checkpoints' = DOMAIN checkpoints
    BY <1>6 DEF Commit, Deactivate, UnchangedRequests
  <2> QED
    BY <2>1 DEF ClaimsSound
<1>7. CASE \E t \in Resumers : Assess(t) \/ Claim(t) \/ Resume(t) \/ Drop(t)
  BY <1>7, RequestClaims
<1>8. CASE UNCHANGED vars
  BY <1>1, <1>8 DEF vars, durable
<1> QED
  BY <1>2, <1>3, <1>4, <1>5, <1>6, <1>7, <1>8 DEF Next

\* However many resumers race over however many crashes, at most one of them
\* goes on from a checkpoint.
THEOREM OneContinuation == Spec => []ContinuedOnce
<1>1. Init => ClaimsSound
  BY DEF Init, ClaimsSound, NoRequest
<1>2. Sound /\ ClaimsSound /\ [Next]_vars => ClaimsSound'
  BY StepClaims
<1>3. Sound /\ ClaimsSound => ContinuedOnce
  BY DEF Sound, Typed, TypeOK, ClaimsSound, ContinuedOnce
<1> QED
  BY <1>1, <1>2, <1>3, AlwaysSound, PTL DEF Spec

-----------------------------------------------------------------------------
(* What the bookkeeping does with the thread.                                 *)

\* No step but that of a node, of a checkpoint or of a resume gives the thread
\* another authority or another step to record.
Keeps ==
    \/ run'.pc = "idle"
    \/ run'.pc # "step" /\ run.pc # "idle" /\ run'.used = run.used
    \/ run' = run

LEMMA BookkeepingKeeps ==
    ASSUME Sound, RecordStep \/ Begin \/ UpdateRecord \/ Mark \/ Finalize
    PROVE  /\ Keeps /\ run.pc # "idle"
           /\ run'.pc = "idle" \/ (run'.pc # "step" /\ run'.used = run.used)
<1>1. run \in RunRecords
  BY DEF Sound, Typed
<1>2. CASE RecordStep
  BY <1>1, <1>2 DEF RecordStep, At, RunRecords, Keeps
<1>3. CASE Begin
  <2> DEFINE next == [run EXCEPT !.pc = "node", !.at = 1]
  <2>1. next.pc = "node" /\ next.used = run.used
    BY <1>1 DEF RunRecords
  <2>2. run.pc = "begin" /\ (run' = next \/ run' = Idle)
    BY <1>3 DEF Begin, At, Update, Raise
  <2> HIDE DEF next
  <2> QED
    BY <2>1, <2>2 DEF Idle, Keeps
<1>4. CASE UpdateRecord
  <2>1. NextNode.pc # "step" /\ NextNode.used = run.used
    BY <1>1 DEF NextNode, RunRecords
  <2>2. AfterUpdate.pc # "step" /\ AfterUpdate.used = run.used
    BY <1>1, <2>1 DEF AfterUpdate, RunRecords
  <2>3. run' = AfterUpdate \/ run' = Idle
    BY <1>4 DEF UpdateRecord, Update, Raise, AfterUpdate
  <2> QED
    BY <1>4, <2>2, <2>3 DEF Idle, Keeps, UpdateRecord, At
<1>5. CASE Mark
  <2>1. NextNode.pc # "step" /\ NextNode.used = run.used
    BY <1>1 DEF NextNode, RunRecords
  <2> QED
    BY <1>5, <2>1 DEF Mark, At, Update, Raise, Idle, Keeps
<1>6. CASE Finalize
  BY <1>6 DEF Finalize, At, Update, Raise, Idle, Keeps
<1> QED
  BY <1>2, <1>3, <1>4, <1>5, <1>6

\* A checkpoint node consumes nothing and leaves no unknown outcome.
LEMMA CheckpointNodeKeeps ==
    ASSUME Sound, Prepare \/ Commit
    PROVE  /\ run.pc \in {"node", "commit"} /\ run'.at = run.at
           /\ run'.pc \in {"step", "commit"} /\ run'.used = run.used
           /\ run'.pc = "step" =>
                 /\ run'.step.authority = NoAuthority
                 /\ run'.step.state # "UNKNOWN_OUTCOME"
                 /\ run'.then \in {"mark", "BLOCKED"}
           /\ steps' = steps /\ record' = record /\ request' = request /\ sent' = sent
<1>1. run \in RunRecords
  BY DEF Sound, Typed
<1>2. ASSUME NEW state, NEW then, Steps(state, then)
      PROVE  /\ run'.pc = "step" /\ run'.at = run.at /\ run'.used = run.used
             /\ run'.then = then /\ run'.step.state = state
             /\ run'.step.authority = NoAuthority
  BY <1>1, <1>2 DEF Steps, RunRecords
<1>3. ASSUME run' = [run EXCEPT !.pc = "commit"]
      PROVE  run'.pc = "commit" /\ run'.at = run.at /\ run'.used = run.used
  BY <1>1, <1>3 DEF RunRecords
<1>4. CASE Prepare
  <2>1. /\ run.pc = "node" /\ steps' = steps /\ record' = record
        /\ request' = request /\ sent' = sent
    BY <1>4 DEF Prepare, Visit, At, UnchangedRequests
  <2>2. Steps("BLOCKED", "BLOCKED") \/ run' = [run EXCEPT !.pc = "commit"]
    BY <1>4 DEF Prepare, CannotPrepare
  <2> QED
    BY <1>2, <1>3, <2>1, <2>2
<1>5. CASE Commit
  <2>1. /\ run.pc = "commit" /\ steps' = steps /\ record' = record
        /\ request' = request /\ sent' = sent
    BY <1>5 DEF Commit, At, UnchangedRequests
  <2>2. Steps("BLOCKED", "BLOCKED") \/ Steps("SUCCEEDED", "mark")
    BY <1>5 DEF Commit
  <2> QED
    BY <1>2, <1>3, <2>1, <2>2
<1> QED
  BY <1>4, <1>5

-----------------------------------------------------------------------------
(* One step on record for an authority.                                       *)

LEMMA RecordStepAuthorities ==
    ASSUME Sound, AuthoritiesSound, RecordStep
    PROVE  AuthoritiesSound'
<1> DEFINE n == Len(steps) + 1
<1>1. /\ steps \in Seq(StepRecords) /\ DOMAIN steps = 1..Len(steps) /\ Len(steps) \in Nat
      /\ run \in RunRecords /\ run.pc = "step" /\ run.at \in DOMAIN program
      /\ run.step.state # "NONE" /\ run.step.at = run.at
      /\ steps' = Append(steps, run.step)
      /\ run' = [run EXCEPT !.pc = "update"]
  BY Shapes DEF Sound, Typed, TypeOK, RunPlaced, Places, RecordStep, At
<1>2. run.step \in StepRecords
  BY <1>1 DEF RunRecords, StepRecords, StepStates
<1>3. /\ DOMAIN steps' = 1..n /\ steps'[n] = run.step
      /\ \A i \in 1..Len(steps) : steps'[i] = steps[i]
  BY <1>1, <1>2, AppendProperties, LenProperties
<1>4. run'.pc = "update" /\ run'.used = run.used
  BY <1>1 DEF RunRecords
<1>5. \A i \in 1..Len(steps) : steps[i].authority # NoAuthority => steps[i].authority \in Consumed
  BY <1>1 DEF Consumed
<1>6. run.step.authority # NoAuthority =>
          run.step.authority \in run.used /\ run.step.authority \notin Consumed
  BY <1>1 DEF AuthoritiesSound
<1>7. AuthorityOnce'
  <2> SUFFICES ASSUME NEW i \in 1..n, NEW j \in 1..n, i # j, steps'[i].authority # NoAuthority
               PROVE  steps'[i].authority # steps'[j].authority
    BY <1>3 DEF AuthorityOnce
  <2>1. CASE i = n
    <3>1. j \in 1..Len(steps)
      BY <1>1, <2>1
    <3> QED
      BY <1>3, <1>5, <1>6, <2>1, <3>1
  <2>2. CASE j = n /\ i \in 1..Len(steps)
    BY <1>3, <1>5, <1>6, <2>2
  <2>3. CASE i \in 1..Len(steps) /\ j \in 1..Len(steps)
    BY <1>1, <1>3, <2>3 DEF AuthoritiesSound, AuthorityOnce
  <2> QED
    BY <1>1, <2>1, <2>2, <2>3
<1>8. Consumed' \subseteq run'.used
  <2> SUFFICES ASSUME NEW i \in 1..n, steps'[i].authority # NoAuthority
               PROVE  steps'[i].authority \in run.used
    BY <1>3, <1>4 DEF Consumed
  <2>1. CASE i = n
    BY <1>3, <1>6, <2>1
  <2>2. CASE i \in 1..Len(steps)
    BY <1>1, <1>3, <1>5, <2>2 DEF AuthoritiesSound
  <2> QED
    BY <1>1, <2>1, <2>2
<1> QED
  BY <1>4, <1>7, <1>8 DEF AuthoritiesSound

LEMMA StepAuthorities ==
    ASSUME Sound, AuthoritiesSound, [Next]_vars
    PROVE  AuthoritiesSound'
<1>1. ASSUME steps' = steps, Keeps
      PROVE  AuthoritiesSound'
  BY <1>1 DEF AuthoritiesSound, AuthorityOnce, Consumed, Keeps
<1>2. CASE Boot \/ Started \/ Quiesce \/ CleanStop \/ Crash
  <2>1. steps' = steps /\ (run' = run \/ run' = Idle)
    BY <1>2 DEF Boot, Started, Quiesce, CleanStop, Crash, UnchangedProgram
  <2> QED
    BY <1>1, <2>1 DEF Keeps, Idle
<1>3. CASE \/ Call \/ ReadOnly \/ Choose \/ Repeat \/ Body \/ Verify \/ WaitFor
           \/ Recover \/ Return \/ OutOfSteps
  <2>1. NodeStep /\ steps' = steps /\ run.pc # "idle" /\ run \in RunRecords
    BY <1>3, NodesAreNodeSteps DEF NodeStep, UnchangedStores, Sound, Typed
  <2>2. Consumed' = Consumed
    BY <2>1 DEF Consumed
  <2>3. CASE run'.pc = "step"
    BY <2>1, <2>2, <2>3, NodeRun DEF AuthoritiesSound, AuthorityOnce
  <2>4. CASE run'.pc # "step"
    <3>1. CASE \E state, then : Steps(state, then) \/ \E a : Takes(state, then, a)
      BY <2>1, <2>4, <3>1 DEF Steps, Takes, RunRecords
    <3>2. CASE run' = Idle
      BY <1>1, <2>1, <3>2 DEF Keeps, Idle
    <3>3. CASE \/ run' = [run EXCEPT !.pc = "body"]
               \/ run' = [run EXCEPT !.pc = "final", !.then = "BLOCKED"]
      <4>1. run'.used = run.used
        BY <2>1, <3>3 DEF RunRecords
      <4> QED
        BY <1>1, <2>1, <2>4, <4>1 DEF Keeps
    <3> QED
      BY <2>1, <3>1, <3>2, <3>3 DEF NodeStep, Outcome
  <2> QED
    BY <2>3, <2>4
<1>4. CASE StartProgram
  <2>1. /\ steps = <<>> /\ steps' = steps /\ run'.pc = "begin"
    BY <1>4 DEF StartProgram, NoRecord, Idle, Sound, RunOwned
  <2>2. DOMAIN steps = {}
    BY <2>1
  <2> QED
    BY <2>1, <2>2 DEF AuthoritiesSound, AuthorityOnce, Consumed
<1>5. CASE Begin \/ UpdateRecord \/ Mark \/ Finalize
  BY <1>1, <1>5, BookkeepingKeeps DEF Begin, UpdateRecord, Mark, Finalize
<1>6. CASE RecordStep
  BY <1>6, RecordStepAuthorities
<1>7. CASE Prepare \/ Commit
  <2>1. /\ run.pc # "idle" /\ run'.used = run.used /\ steps' = steps
        /\ run'.pc = "step" => run'.step.authority = NoAuthority
    BY <1>7, CheckpointNodeKeeps
  <2> QED
    BY <2>1 DEF AuthoritiesSound, AuthorityOnce, Consumed
<1>8. CASE \/ \E c \in DOMAIN checkpoints : Deactivate(c)
           \/ \E t \in Resumers : Assess(t) \/ Claim(t) \/ Drop(t)
  BY <1>1, <1>8 DEF Deactivate, Assess, Claim, Drop, Keeps
<1>9. CASE \E t \in Resumers : Resume(t)
  <2>1. PICK t \in Resumers : Resume(t)
    BY <1>9
  <2>2. steps' = steps
    BY <2>1 DEF Resume
  <2>3. run'.pc = "idle" \/ (run'.pc = "node" /\ run'.used = Consumed)
    BY <2>1, ResumeRun DEF Idle
  <2> QED
    BY <2>2, <2>3 DEF AuthoritiesSound, AuthorityOnce, Consumed
<1>10. CASE UNCHANGED vars
  BY <1>1, <1>10 DEF vars, durable, Keeps
<1> QED
  BY <1>2, <1>3, <1>4, <1>5, <1>6, <1>7, <1>8, <1>9, <1>10 DEF Next

\* However often the runner starts anew, no one-time authority carries two of
\* the steps on record.
THEOREM AuthoritiesAreOneTime == Spec => []AuthorityOnce
<1>1. Init => AuthoritiesSound
  BY DEF Init, AuthoritiesSound, AuthorityOnce, Idle
<1>2. Sound /\ AuthoritiesSound /\ [Next]_vars => AuthoritiesSound'
  BY StepAuthorities
<1>3. AuthoritiesSound => AuthorityOnce
  BY DEF AuthoritiesSound
<1> QED
  BY <1>1, <1>2, <1>3, AlwaysSound, PTL DEF Spec

-----------------------------------------------------------------------------
(* The runner is never behind its checkpoint.                                 *)

\* Where the bookkeeping leaves the place in the program.
LEMMA BookkeepingPlace ==
    ASSUME Sound, RecordStep \/ UpdateRecord \/ Mark \/ Finalize
    PROVE  /\ checkpoints' = checkpoints /\ sent' = sent /\ run.pc \in Places
           /\ run'.pc # "idle" => run'.at \in Nat /\ run'.at >= run.at
           /\ \/ record'.checkpoint = record.checkpoint
              \/ Mark /\ record'.checkpoint = Latest
<1>1. /\ run \in RunRecords /\ record \in RecordType
      /\ checkpoints' = checkpoints /\ sent' = sent
  BY DEF Sound, Typed, TypeOK, RecordType, RecordStep, UpdateRecord, Mark, Finalize,
     UnchangedEvidence
<1>2. /\ NextNode.at \in Nat /\ NextNode.at >= run.at
      /\ run.at \in Nat
  BY <1>1 DEF NextNode, RunRecords
<1>3. CASE RecordStep
  BY <1>1, <1>2, <1>3 DEF RecordStep, At, RunRecords, Places
<1>4. CASE UpdateRecord
  <2>1. AfterUpdate.at \in Nat /\ AfterUpdate.at >= run.at
    BY <1>1, <1>2 DEF AfterUpdate, RunRecords
  <2>2. run.pc = "update" /\ Update(record, AfterUpdate)
    BY <1>4 DEF UpdateRecord, AfterUpdate, At
  <2>3. run' = AfterUpdate \/ run' = Idle
    BY <2>2 DEF Update, Raise
  <2>4. record'.checkpoint = record.checkpoint
    BY <1>1, <2>2 DEF Update, Raise, RecordType
  <2> QED
    BY <1>1, <2>1, <2>2, <2>3, <2>4 DEF Idle, Places
<1>5. CASE Mark
  <2>1. run.pc = "mark" /\ (run' = NextNode \/ run' = Idle)
    BY <1>5 DEF Mark, At, Update, Raise
  <2>2. record'.checkpoint = Latest \/ record' = record
    BY <1>1, <1>5 DEF Mark, Update, Raise, RecordType
  <2> QED
    BY <1>1, <1>2, <1>5, <2>1, <2>2 DEF Idle, Places
<1>6. CASE Finalize
  <2>1. run.pc = "final" /\ run' = Idle
    BY <1>6 DEF Finalize, At, Update, Raise
  <2>2. record'.checkpoint = record.checkpoint
    BY <1>1, <1>6 DEF Finalize, Update, Raise, RecordType
  <2> QED
    BY <1>1, <2>1, <2>2 DEF Idle, Places
<1> QED
  BY <1>3, <1>4, <1>5, <1>6

LEMMA StepAhead ==
    ASSUME Sound, AheadOfCheckpoint, [Next]_vars
    PROVE  AheadOfCheckpoint'
<1>1. /\ run \in RunRecords /\ run.at \in Nat
      /\ \A c \in DOMAIN checkpoints : checkpoints[c].at \in Nat
      /\ record.checkpoint # 0 => record.checkpoint \in DOMAIN checkpoints
  BY Shapes, ContinuationPlaced DEF Sound, Typed, TypeOK, RunRecords
<1>2. CASE Boot \/ Started \/ Quiesce \/ CleanStop \/ Crash
  <2>1. /\ checkpoints' = checkpoints /\ record' = record
        /\ run' = run \/ run' = Idle
    BY <1>2 DEF Boot, Started, Quiesce, CleanStop, Crash, UnchangedProgram
  <2> QED
    BY <2>1 DEF AheadOfCheckpoint, Idle, Places
<1>3. CASE \/ Call \/ ReadOnly \/ Choose \/ Repeat \/ Body \/ Verify \/ WaitFor
           \/ Recover \/ Return \/ OutOfSteps
  <2>1. /\ checkpoints' = checkpoints /\ record' = record
        /\ run' = Idle \/ run'.at = run.at
        /\ run.pc \in Places
    BY <1>3, NodesAreNodeSteps, NodeRun DEF NodeStep, UnchangedStores, Places
  <2> QED
    BY <2>1 DEF AheadOfCheckpoint, Idle, Places
<1>4. CASE StartProgram
  <2>1. run'.pc = "begin"
    BY <1>4 DEF StartProgram, Idle
  <2> QED
    BY <2>1 DEF AheadOfCheckpoint, Places
<1>5. CASE Begin
  <2>1. record.checkpoint = 0 /\ record \in RecordType
    BY <1>5 DEF Begin, At, Sound, Typed, TypeOK, RecordType, RunOwned
  <2>2. record'.checkpoint = 0
    BY <1>5, <2>1 DEF Begin, Update, Raise, RecordType
  <2> QED
    BY <2>2 DEF AheadOfCheckpoint
<1>6. CASE RecordStep \/ UpdateRecord \/ Mark \/ Finalize
  <2>1. /\ checkpoints' = checkpoints /\ run.pc \in Places
        /\ run'.pc # "idle" => run'.at \in Nat /\ run'.at >= run.at
    BY <1>6, BookkeepingPlace
  <2>2. CASE record'.checkpoint = record.checkpoint
    BY <1>1, <2>1, <2>2 DEF AheadOfCheckpoint, Places
  <2>3. CASE Mark /\ record'.checkpoint = Latest
    <3>1. checkpoints[Latest].at = run.at
      BY <2>3 DEF Mark, At, Sound, RunPlaced, AtCheckpoint
    <3> QED
      BY <1>1, <2>1, <2>3, <3>1 DEF AheadOfCheckpoint, Places
  <2> QED
    BY <1>6, <2>2, <2>3, BookkeepingPlace
<1>7. CASE Prepare \/ Commit \/ \E c \in DOMAIN checkpoints : Deactivate(c)
  <2>1. /\ record' = record /\ run'.at = run.at
        /\ run'.pc \in Places => run.pc \in Places
    BY <1>7, CheckpointNodeKeeps DEF Deactivate, Places
  <2>2. \A c \in DOMAIN checkpoints : checkpoints'[c].at = checkpoints[c].at
    <3>1. CASE Prepare
      <4>1. /\ checkpoints \in Seq(Checkpoints) /\ DOMAIN checkpoints = 1..Len(checkpoints)
            /\ run.at \in DOMAIN program
        BY <3>1, Shapes DEF Prepare, Visit, At, Sound, Typed, TypeOK, RunPlaced, Places,
           Checkpoints, Latest
      <4>2. [at |-> run.at, status |-> "PREPARED"] \in Checkpoints
        BY <4>1 DEF Checkpoints
      <4> QED
        BY <3>1, <4>1, <4>2, AppendProperties DEF Prepare, CannotPrepare
    <3>2. CASE Commit
      <4>1. Latest \in DOMAIN checkpoints
        BY <3>2, Shapes DEF Commit, At, Sound, RunPlaced, AtCheckpoint
      <4> QED
        BY <3>2, <4>1, StatusChanged DEF Commit
    <3>3. CASE \E c \in DOMAIN checkpoints : Deactivate(c)
      BY <3>3, StatusChanged DEF Deactivate
    <3> QED
      BY <1>7, <3>1, <3>2, <3>3
  <2> QED
    BY <1>1, <2>1, <2>2 DEF AheadOfCheckpoint
<1>8. CASE \E t \in Resumers : Assess(t) \/ Claim(t) \/ Drop(t)
  BY <1>8 DEF Assess, Claim, Drop, AheadOfCheckpoint
<1>9. CASE \E t \in Resumers : Resume(t)
  <2>1. PICK t \in Resumers : Resume(t)
    BY <1>9
  <2>2. /\ checkpoints' = checkpoints
        /\ \/ run' = Idle
           \/ /\ run'.at = checkpoints[record.checkpoint].at + 1
              /\ record'.checkpoint = record.checkpoint
              /\ record.checkpoint \in DOMAIN checkpoints
    BY <2>1, ResumeRun DEF Resume, Continuation
  <2> QED
    BY <1>1, <2>2 DEF AheadOfCheckpoint, Idle, Places
<1>10. CASE UNCHANGED vars
  BY <1>10 DEF vars, durable, AheadOfCheckpoint
<1> QED
  BY <1>2, <1>3, <1>4, <1>5, <1>6, <1>7, <1>8, <1>9, <1>10 DEF Next

\* The port is asked to act by the nodes alone.
LEMMA OnlyNodesSend ==
    ASSUME Sound, [Next]_vars, sent' # sent
    PROVE  NodeStep
<1>1. CASE \/ Call \/ ReadOnly \/ Choose \/ Repeat \/ Body \/ Verify \/ WaitFor
           \/ Recover \/ Return \/ OutOfSteps
  BY <1>1, NodesAreNodeSteps
<1>2. CASE Boot \/ Started \/ Quiesce \/ CleanStop \/ Crash
  BY <1>2 DEF Boot, Started, Quiesce, CleanStop, Crash, UnchangedProgram
<1>3. CASE StartProgram \/ Begin \/ RecordStep \/ UpdateRecord \/ Mark \/ Finalize
  BY <1>3 DEF StartProgram, Begin, RecordStep, UpdateRecord, Mark, Finalize,
     UnchangedEvidence
<1>4. CASE Prepare \/ Commit \/ \E c \in DOMAIN checkpoints : Deactivate(c)
  BY <1>4 DEF Prepare, CannotPrepare, Commit, Deactivate
<1>5. CASE \E t \in Resumers : Assess(t) \/ Claim(t) \/ Resume(t) \/ Drop(t)
  BY <1>5 DEF Assess, Claim, Resume, Drop
<1>6. CASE UNCHANGED vars
  BY <1>6 DEF vars
<1> QED
  BY <1>1, <1>2, <1>3, <1>4, <1>5, <1>6 DEF Next

LEMMA AheadIsNotBehind ==
    ASSUME Sound, AheadOfCheckpoint, [Next]_vars
    PROVE  \A n \in DOMAIN program : Behind(n) => sent'[n] = sent[n]
<1> SUFFICES ASSUME NEW n \in DOMAIN program, Behind(n), sent' # sent
             PROVE  sent'[n] = sent[n]
  OBVIOUS
<1>1. NodeStep
  BY OnlyNodesSend
<1>2. /\ run.pc \in Places /\ record.checkpoint # 0
      /\ checkpoints[record.checkpoint].at <= run.at
  BY <1>1 DEF NodeStep, Places, AheadOfCheckpoint, Behind
<1>3. /\ n \in Nat /\ run.at \in Nat /\ checkpoints[record.checkpoint].at \in Nat
      /\ n < checkpoints[record.checkpoint].at
  <2>1. n \in Nat /\ run.at \in Nat
    BY Shapes DEF Sound, Typed, RunRecords
  <2>2. record.checkpoint \in DOMAIN checkpoints
    BY <1>2, Shapes DEF Sound, Typed, TypeOK
  <2> QED
    BY <2>1, <2>2, ContinuationPlaced DEF Behind
<1>4. n # run.at
  BY <1>2, <1>3
<1>5. sent \in [DOMAIN program -> Nat] /\ sent' = [sent EXCEPT ![run.at] = @ + 1]
  BY <1>1 DEF NodeStep, Sound, Typed, TypeOK
<1> QED
  BY <1>4, <1>5

\* Over every crash and resume, nothing before the checkpoint that a program
\* record names is called again.
THEOREM NothingBehindIsCalled == Spec => NeverBehind
<1>1. Init => AheadOfCheckpoint
  BY DEF Init, AheadOfCheckpoint, NoRecord
<1>2. Sound /\ AheadOfCheckpoint /\ [Next]_vars => AheadOfCheckpoint'
  BY StepAhead
<1>3. Sound /\ AheadOfCheckpoint /\ [Next]_vars
      => [\A n \in DOMAIN program : Behind(n) => sent'[n] = sent[n]]_vars
  BY AheadIsNotBehind
<1> QED
  BY <1>1, <1>2, <1>3, AlwaysSound, PTL DEF Spec, NeverBehind

-----------------------------------------------------------------------------
(* An unknown outcome is the end of the program's calls.                      *)

LEMMA StepUnknown ==
    ASSUME Sound, UnknownSound, [Next]_vars
    PROVE  UnknownSound'
<1>1. ASSUME steps' = steps, record'.runtime = record.runtime \/ ~Known("UNKNOWN_OUTCOME"),
             run' = run \/ run'.pc = "idle",
             \A t \in Resumers : request'[t].pc # "idle" =>
                 request[t].pc # "idle" \/ ~Known("UNKNOWN_OUTCOME"),
             Runtime' = Runtime \/ request' = [t \in Resumers |-> NoRequest]
      PROVE  UnknownSound'
  <2>1. Known("UNKNOWN_OUTCOME")' = Known("UNKNOWN_OUTCOME")
    BY <1>1 DEF Known
  <2> QED
    BY <1>1, <2>1 DEF UnknownSound, NoRequest
<1>2. CASE Boot \/ Started \/ Quiesce \/ CleanStop \/ Crash
  <2>1. /\ steps' = steps /\ record' = record /\ (run' = run \/ run' = Idle)
        /\ request' = request \/ request' = [t \in Resumers |-> NoRequest]
    BY <1>2 DEF Boot, Started, Quiesce, CleanStop, Crash, UnchangedProgram
  <2>2. request' = [t \in Resumers |-> NoRequest] \/ Runtime' = Runtime
    <3>1. CASE host # "running"
      <4>1. \A t \in Resumers : request[t] = NoRequest
        BY <3>1 DEF Sound, RequestsOwned
      <4>2. request = [t \in Resumers |-> NoRequest]
        BY <4>1 DEF Sound, Typed
      <4> QED
        BY <2>1, <4>2
    <3>2. CASE Quiesce
      <4>1. request = [t \in Resumers |-> NoRequest] /\ request' = request
        BY <3>2 DEF Quiesce, Sound, Typed
      <4> QED
        BY <4>1
    <3>3. CASE Crash
      BY <3>3 DEF Crash
    <3> QED
      BY <1>2, <3>1, <3>2, <3>3 DEF Boot, Started, CleanStop
  <2> QED
    BY <1>1, <2>1, <2>2 DEF Idle, NoRequest
<1>3. CASE \/ Call \/ ReadOnly \/ Choose \/ Repeat \/ Body \/ Verify \/ WaitFor
           \/ Recover \/ Return \/ OutOfSteps
  <2>1. NodeStep /\ ~Known("UNKNOWN_OUTCOME")
    BY <1>3, NodesAreNodeSteps DEF NodeStep, UnknownSound
  <2>2. ~Known("UNKNOWN_OUTCOME")'
    BY <2>1 DEF NodeStep, UnchangedStores, Known
  <2>3. run'.pc = "step" /\ run'.step.state = "UNKNOWN_OUTCOME" => run'.then = "UNKNOWN_OUTCOME"
    BY <2>1, NodeRun DEF Admissible
  <2> QED
    BY <2>2, <2>3 DEF UnknownSound
<1>4. CASE StartProgram \/ Begin
  <2>1. run'.pc # "step" /\ steps' = steps
    BY <1>4, BookkeepingKeeps DEF StartProgram, Begin, Idle
  <2>2. ~Known("UNKNOWN_OUTCOME")
    <3>1. CASE StartProgram
      BY <3>1 DEF StartProgram, NoRecord, Sound, RunOwned, Known
    <3>2. CASE Begin
      BY <3>2 DEF Begin, At, UnknownSound
    <3> QED
      BY <1>4, <3>1, <3>2
  <2> QED
    BY <2>1, <2>2 DEF UnknownSound, Known
<1>5. CASE RecordStep
  <2>1. /\ run.pc = "step" /\ run \in RunRecords /\ run' = [run EXCEPT !.pc = "update"]
        /\ steps' = Append(steps, run.step) /\ record' = record /\ runtimes' = runtimes
        /\ record.runtime = Runtime /\ ~Known("UNKNOWN_OUTCOME")
        /\ run.at \in DOMAIN program /\ run.step.state # "NONE" /\ run.step.at = run.at
    BY <1>5 DEF RecordStep, At, UnchangedHost, Sound, Typed, RunOwned, RunPlaced, Places,
       UnknownSound
  <2>2. run.step \in StepRecords /\ steps \in Seq(StepRecords)
    BY <2>1 DEF RunRecords, StepRecords, StepStates, Sound, Typed, TypeOK
  <2>3. run'.pc = "update" /\ run'.then = run.then
    BY <2>1 DEF RunRecords
  <2>4. Known("UNKNOWN_OUTCOME")' => run.step.state = "UNKNOWN_OUTCOME"
    <3>1. /\ DOMAIN steps = 1..Len(steps) /\ DOMAIN steps' = 1..(Len(steps) + 1)
          /\ Len(steps) \in Nat /\ steps'[Len(steps) + 1] = run.step
          /\ \A i \in 1..Len(steps) : steps'[i] = steps[i]
      BY <2>1, <2>2, AppendProperties, LenProperties
    <3> QED
      BY <2>1, <3>1 DEF Known
  <2> QED
    BY <2>1, <2>3, <2>4 DEF UnknownSound, Runtime
<1>6. CASE UpdateRecord \/ Mark \/ Finalize
  <2>1. /\ steps' = steps /\ request' = request /\ Runtime' = Runtime
        /\ run'.pc # "step" /\ run.pc # "idle" /\ run \in RunRecords
    BY <1>6, BookkeepingKeeps DEF UpdateRecord, Mark, Finalize, UnchangedEvidence,
       UnchangedHost, Runtime, Sound, Typed
  <2>2. record'.runtime = record.runtime
    <3>1. record \in RecordType
      BY DEF Sound, Typed, TypeOK, RecordType
    <3> QED
      BY <1>6, <3>1 DEF UpdateRecord, Mark, Finalize, Update, Raise, RecordType
  <2>3. Known("UNKNOWN_OUTCOME") => run'.pc \in {"idle", "final"}
    <3>1. CASE UpdateRecord /\ Known("UNKNOWN_OUTCOME")
      <4>1. run.then = "UNKNOWN_OUTCOME"
        BY <3>1 DEF UpdateRecord, At, UnknownSound
      <4>2. AfterUpdate = [run EXCEPT !.pc = "final"]
        BY <4>1 DEF AfterUpdate
      <4>3. run' = AfterUpdate \/ run' = Idle
        BY <3>1 DEF UpdateRecord, Update, Raise, AfterUpdate
      <4> QED
        BY <2>1, <4>2, <4>3 DEF Idle, RunRecords
    <3>2. CASE Mark
      BY <3>2 DEF Mark, At, UnknownSound
    <3>3. CASE Finalize
      BY <3>3 DEF Finalize, Update, Raise, Idle
    <3> QED
      BY <1>6, <3>1, <3>2, <3>3
  <2>4. Known("UNKNOWN_OUTCOME")' = Known("UNKNOWN_OUTCOME")
    BY <2>1 DEF Known
  <2> QED
    BY <2>1, <2>2, <2>3, <2>4 DEF UnknownSound
<1>7. CASE Prepare \/ Commit
  <2>1. /\ ~Known("UNKNOWN_OUTCOME") /\ steps' = steps
        /\ run'.pc = "step" => run'.step.state # "UNKNOWN_OUTCOME"
    BY <1>7, CheckpointNodeKeeps DEF UnknownSound
  <2> QED
    BY <2>1 DEF UnknownSound, Known
<1>8. CASE \E c \in DOMAIN checkpoints : Deactivate(c)
  BY <1>1, <1>8 DEF Deactivate, UnchangedRequests, UnchangedHost, Runtime
<1>9. CASE \E t \in Resumers : Assess(t) \/ Claim(t) \/ Drop(t)
  <2>1. PICK t \in Resumers : Assess(t) \/ Claim(t) \/ Drop(t)
    BY <1>9
  <2>2. /\ steps' = steps /\ record' = record /\ run' = run /\ Runtime' = Runtime
        /\ \A u \in Resumers \ {t} : request'[u] = request[u]
        /\ request[t].pc # "idle" \/ ~Known("UNKNOWN_OUTCOME")
    BY <2>1 DEF Assess, Claim, Drop, UnchangedHost, Runtime, Sound, Typed
  <2> QED
    BY <1>1, <2>2
<1>10. CASE \E t \in Resumers : Resume(t)
  <2>1. PICK t \in Resumers : Resume(t)
    BY <1>10
  <2>2. ~Known("UNKNOWN_OUTCOME") /\ steps' = steps
    BY <2>1 DEF Resume, UnknownSound
  <2>3. run'.pc # "step"
    BY <2>1, ResumeRun DEF Idle
  <2> QED
    BY <2>2, <2>3 DEF UnknownSound, Known
<1>11. CASE UNCHANGED vars
  BY <1>1, <1>11 DEF vars, durable, Runtime
<1> QED
  BY <1>2, <1>3, <1>4, <1>5, <1>6, <1>7, <1>8, <1>9, <1>10, <1>11 DEF Next

\* An unknown outcome on record is the last thing a program asks of the port,
\* whichever runtime takes it up.
THEOREM UnknownOutcomeStops == Spec => UnknownStops
<1>1. Init => UnknownSound
  BY DEF Init, UnknownSound, Known, Idle
<1>2. Sound /\ UnknownSound /\ [Next]_vars => UnknownSound'
  BY StepUnknown
<1>3. Sound /\ UnknownSound /\ [Next]_vars
      => [Known("UNKNOWN_OUTCOME") => UNCHANGED sent]_vars
  BY OnlyNodesSend DEF NodeStep, UnknownSound
<1> QED
  BY <1>1, <1>2, <1>3, AlwaysSound, PTL DEF Spec, UnknownStops

-----------------------------------------------------------------------------
(* A success is complete.                                                     *)

Verified(n) == \E i \in DOMAIN steps : steps[i].at = n /\ steps[i].state = "VERIFIED"

\* Every call before a place has a verified step on record.
Passed(m) == \A n \in DOMAIN program : n < m /\ program[n] = "call" => Verified(n)

CheckpointsPassed == \A c \in DOMAIN checkpoints : Passed(checkpoints[c].at)

\* Each place the runner or a resume may go on from has been come to by way of
\* what is before it.
ProgressSound ==
    /\ run.pc \in Places => Passed(run.at)
    /\ run.pc \in Places /\ Here = "call" =>
           /\ run.pc \in {"node", "step", "update", "final"}
           /\ run.pc = "step" /\ run.then = "next" => run.step.state = "VERIFIED"
           /\ run.pc = "update" /\ run.then = "next" => Verified(run.at)
    /\ run.pc \in {"step", "update", "final"} /\ run.then = "SUCCEEDED" => Here = "return"
    /\ CheckpointsPassed /\ SuccessIsComplete

\* A program returns at its end.
ReturnsLast == \A p \in Programs : \A n \in DOMAIN p : p[n] = "return" => n = Len(p)

\* What is on record stays there.
LEMMA VerifiedStays ==
    ASSUME program' = program,
           steps' = steps \/ (Sound /\ RecordStep)
    PROVE  /\ \A n : Verified(n) => Verified(n)'
           /\ \A m : Passed(m) => \A n \in DOMAIN program :
                  n < m /\ program[n] = "call" => Verified(n)'
<1>1. CASE steps' = steps
  BY <1>1 DEF Verified, Passed
<1>2. CASE Sound /\ RecordStep
  <2>1. /\ steps \in Seq(StepRecords) /\ run.step \in StepRecords
        /\ steps' = Append(steps, run.step)
    BY <1>2 DEF RecordStep, At, Sound, Typed, TypeOK, RunPlaced, Places, RunRecords,
       StepRecords, StepStates
  <2>2. /\ DOMAIN steps = 1..Len(steps) /\ DOMAIN steps' = 1..(Len(steps) + 1)
        /\ Len(steps) \in Nat
        /\ \A i \in 1..Len(steps) : steps'[i] = steps[i]
    BY <2>1, AppendProperties, LenProperties
  <2>3. \A n : Verified(n) => Verified(n)'
    BY <2>2 DEF Verified
  <2> QED
    BY <2>3 DEF Passed
<1> QED
  BY <1>1, <1>2

\* What has been passed stays passed, and a success stays complete.
LEMMA PastStays ==
    ASSUME ProgressSound, program' = program,
           steps' = steps \/ (Sound /\ RecordStep),
           DOMAIN checkpoints' = DOMAIN checkpoints,
           \A c \in DOMAIN checkpoints : checkpoints'[c].at = checkpoints[c].at
    PROVE  /\ \A n : Verified(n) => Verified(n)'
           /\ \A m : Passed(m) => Passed(m)'
           /\ CheckpointsPassed'
           /\ record'.state = record.state \/ record'.state # "SUCCEEDED" => SuccessIsComplete'
<1>1. \A n : Verified(n) => Verified(n)'
  BY VerifiedStays
<1>2. \A m : Passed(m) => Passed(m)'
  BY <1>1 DEF Passed
<1>3. CheckpointsPassed'
  BY <1>2 DEF ProgressSound, CheckpointsPassed
<1>4. SuccessIsComplete <=>
          (record.state = "SUCCEEDED" =>
              \A n \in DOMAIN program : program[n] = "call" => Verified(n))
  BY DEF SuccessIsComplete, Verified
<1>5. SuccessIsComplete' <=>
          (record'.state = "SUCCEEDED" =>
              \A n \in DOMAIN program' : program'[n] = "call" => Verified(n)')
  BY DEF SuccessIsComplete, Verified
<1> QED
  BY <1>1, <1>2, <1>3, <1>4, <1>5 DEF ProgressSound

LEMMA ProgressFrame ==
    ASSUME Sound, ProgressSound, program' = program, steps' = steps,
           DOMAIN checkpoints' = DOMAIN checkpoints,
           \A c \in DOMAIN checkpoints : checkpoints'[c].at = checkpoints[c].at,
           record'.state = record.state \/ record'.state # "SUCCEEDED",
           run' = run \/ run'.pc \notin Places
    PROVE  ProgressSound'
<1>1. /\ \A n : Verified(n) => Verified(n)'
      /\ \A m : Passed(m) => Passed(m)'
      /\ CheckpointsPassed'
      /\ SuccessIsComplete'
  BY PastStays
<1>2. CASE run' = run
  BY <1>1, <1>2 DEF ProgressSound, Here
<1>3. CASE run'.pc \notin Places
  BY <1>1, <1>3 DEF ProgressSound, Places
<1> QED
  BY <1>2, <1>3

LEMMA NodeProgress ==
    ASSUME Sound, ProgressSound, NodeStep
    PROVE  ProgressSound'
<1>1. /\ program' = program /\ steps' = steps /\ checkpoints' = checkpoints
      /\ record' = record /\ run.pc \in Places
  BY DEF NodeStep, UnchangedStores, UnchangedHost, Places
<1>2. CASE run' = Idle
  BY <1>1, <1>2, ProgressFrame DEF Idle, Places
<1>3. CASE run'.at = run.at /\ run'.pc \in {"body", "final", "step"}
  <2>1. /\ \A m : Passed(m) => Passed(m)'
        /\ CheckpointsPassed'
        /\ SuccessIsComplete'
    BY <1>1, PastStays
  <2>2. Here' = Here /\ Passed(run.at)
    BY <1>1, <1>3 DEF Here, ProgressSound
  <2>3. run'.pc = "body" => Here \in {"choose", "repeat"}
    BY <2>2, NodeRun DEF RunPlaced
  <2>4. run'.pc = "final" => run'.then = "BLOCKED"
    BY NodeRun
  <2>5. run'.pc = "step" =>
            /\ run'.then = "next" /\ Here = "call" => run'.step.state = "VERIFIED"
            /\ run'.then = "SUCCEEDED" => Here = "return"
    BY NodeRun DEF Admissible
  <2> QED
    BY <1>3, <2>1, <2>2, <2>3, <2>4, <2>5 DEF ProgressSound
<1> QED
  BY <1>2, <1>3, NodeRun

LEMMA RecordStepProgress ==
    ASSUME Sound, ProgressSound, RecordStep
    PROVE  ProgressSound'
<1>1. /\ run.pc = "step" /\ run \in RunRecords /\ steps' = Append(steps, run.step)
      /\ run' = [run EXCEPT !.pc = "update"] /\ record' = record
      /\ program' = program /\ checkpoints' = checkpoints
      /\ run.at \in DOMAIN program /\ run.step.state # "NONE" /\ run.step.at = run.at
  BY DEF RecordStep, At, UnchangedEvidence, UnchangedHost, Sound, Typed, RunPlaced, Places
<1>2. /\ run'.pc = "update" /\ run'.at = run.at /\ run'.then = run.then
  BY <1>1 DEF RunRecords
<1>3. /\ \A m : Passed(m) => Passed(m)'
      /\ CheckpointsPassed'
      /\ SuccessIsComplete'
  BY <1>1, PastStays
<1>4. run.step.state = "VERIFIED" => Verified(run.at)'
  <2>1. run.step \in StepRecords /\ steps \in Seq(StepRecords)
    BY <1>1 DEF RunRecords, StepRecords, StepStates, Sound, Typed, TypeOK
  <2>2. /\ Len(steps) + 1 \in DOMAIN steps' /\ steps'[Len(steps) + 1] = run.step
    BY <1>1, <2>1, AppendProperties, LenProperties
  <2> QED
    BY <1>1, <2>2 DEF Verified
<1>5. /\ Here' = Here /\ Passed(run.at)
      /\ Here = "call" /\ run.then = "next" => run.step.state = "VERIFIED"
      /\ run.then = "SUCCEEDED" => Here = "return"
  BY <1>1, <1>2 DEF Here, ProgressSound, Places
<1> QED
  BY <1>2, <1>3, <1>4, <1>5 DEF ProgressSound

\* The next node has been come to by way of this one.
LEMMA NextNodeProgress ==
    ASSUME Sound, ProgressSound, program' = program, steps' = steps,
           checkpoints' = checkpoints, run.pc \in Places,
           Here = "call" => Verified(run.at),
           record'.state = record.state \/ record'.state # "SUCCEEDED",
           run' = NextNode
    PROVE  ProgressSound'
<1>1. /\ run \in RunRecords /\ run.at \in Nat /\ Passed(run.at)
      /\ DOMAIN program = 1..Len(program) /\ Len(program) \in Nat
  BY Shapes DEF Sound, Typed, RunRecords, ProgressSound
<1>2. Passed(run.at + 1)
  <2> SUFFICES ASSUME NEW n \in DOMAIN program, n < run.at + 1, program[n] = "call"
               PROVE  Verified(n)
    BY DEF Passed
  <2>1. CASE n = run.at
    BY <2>1 DEF Here
  <2>2. CASE n < run.at
    BY <1>1, <2>2 DEF Passed
  <2> QED
    BY <1>1, <2>1, <2>2
<1>3. /\ \A m : Passed(m) => Passed(m)'
      /\ CheckpointsPassed'
      /\ SuccessIsComplete'
  BY PastStays
<1>4. \/ run'.pc = "node" /\ run'.at = run.at + 1
      \/ run'.pc = "final" /\ run'.then = "FAILED" /\ run'.at = run.at
  BY <1>1 DEF NextNode, RunRecords
<1> QED
  BY <1>1, <1>2, <1>3, <1>4 DEF ProgressSound

LEMMA UpdateRecordProgress ==
    ASSUME Sound, ProgressSound, UpdateRecord
    PROVE  ProgressSound'
<1>1. /\ run.pc = "update" /\ run \in RunRecords /\ Update(record, AfterUpdate)
      /\ steps' = steps /\ program' = program /\ checkpoints' = checkpoints
      /\ record \in RecordType
  BY DEF UpdateRecord, AfterUpdate, At, UnchangedEvidence, UnchangedHost, Sound, Typed,
     TypeOK, RecordType
<1>2. record'.state = record.state
  BY <1>1 DEF Update, Raise, RecordType
<1>3. /\ Passed(run.at)
      /\ Here = "call" /\ run.then = "next" => Verified(run.at)
      /\ run.then = "SUCCEEDED" => Here = "return"
      /\ run.then = "body" => Here = "choose"
      /\ run.then = "again" => Here = "repeat"
      /\ run.then = "mark" => Here = "checkpoint"
  BY <1>1 DEF ProgressSound, Places, Sound, RunPlaced, Pending, AtCheckpoint
<1>4. CASE run' = Idle
  BY <1>1, <1>2, <1>4, ProgressFrame DEF Idle, Places
<1>5. CASE run.then = "next" /\ run' = AfterUpdate
  BY <1>1, <1>2, <1>3, <1>5, NextNodeProgress DEF AfterUpdate, Places
<1>6. CASE run.then # "next" /\ run' = AfterUpdate
  <2>1. /\ run'.at = run.at
        /\ \/ run'.pc = run.then /\ run.then \in {"body", "again", "mark"}
           \/ run'.pc = "final" /\ run'.then = run.then
    BY <1>1, <1>6 DEF AfterUpdate, RunRecords
  <2>2. /\ \A m : Passed(m) => Passed(m)'
        /\ CheckpointsPassed'
        /\ SuccessIsComplete'
    BY <1>1, <1>2, PastStays
  <2>3. Here' = Here
    BY <1>1, <2>1 DEF Here
  <2> QED
    BY <1>3, <2>1, <2>2, <2>3 DEF ProgressSound
<1> QED
  BY <1>1, <1>4, <1>5, <1>6 DEF Update, Raise

LEMMA MarkProgress ==
    ASSUME Sound, ProgressSound, Mark
    PROVE  ProgressSound'
<1>1. /\ run.pc = "mark" /\ steps' = steps /\ program' = program
      /\ checkpoints' = checkpoints /\ record \in RecordType
      /\ Update([record EXCEPT !.checkpoint = Latest], NextNode)
  BY DEF Mark, At, UnchangedEvidence, UnchangedHost, Sound, Typed, TypeOK, RecordType
<1>2. record'.state = record.state
  BY <1>1 DEF Update, Raise, RecordType
<1>3. Here = "checkpoint"
  BY <1>1 DEF Sound, RunPlaced, AtCheckpoint
<1>4. CASE run' = Idle
  BY <1>1, <1>2, <1>4, ProgressFrame DEF Idle, Places
<1>5. CASE run' = NextNode
  BY <1>1, <1>2, <1>3, <1>5, NextNodeProgress DEF Places
<1> QED
  BY <1>1, <1>4, <1>5 DEF Update, Raise

LEMMA FinalizeProgress ==
    ASSUME Sound, ProgressSound, Finalize, ReturnsLast
    PROVE  ProgressSound'
<1>1. /\ run.pc = "final" /\ run'.pc = "idle" /\ steps' = steps /\ program' = program
      /\ checkpoints' = checkpoints /\ record \in RecordType
      /\ record'.state \in {record.state, run.then}
  <2>1. /\ run.pc = "final" /\ steps' = steps /\ program' = program
        /\ checkpoints' = checkpoints /\ run' = Idle
        /\ Update([record EXCEPT !.state = run.then], Idle)
    BY DEF Finalize, At, UnchangedEvidence, UnchangedHost, Update, Raise
  <2>2. record \in RecordType
    BY DEF Sound, Typed, TypeOK, RecordType
  <2>3. record'.state \in {record.state, run.then}
    BY <2>1, <2>2 DEF Update, Raise, RecordType
  <2> QED
    BY <2>1, <2>2, <2>3 DEF Idle
<1>2. CASE record'.state = record.state \/ record'.state # "SUCCEEDED"
  BY <1>1, <1>2, ProgressFrame DEF Places
<1>3. CASE run.then = "SUCCEEDED"
  <2>1. Here = "return" /\ Passed(run.at) /\ run.at \in DOMAIN program
    BY <1>1, <1>3 DEF ProgressSound, Places, Sound, RunPlaced
  <2>2. run.at = Len(program) /\ DOMAIN program = 1..Len(program) /\ Len(program) \in Nat
    BY <2>1, Shapes DEF ReturnsLast, Here, Sound, Typed
  <2>3. \A n \in DOMAIN program : program[n] = "call" => Verified(n)
    <3> SUFFICES ASSUME NEW n \in DOMAIN program, program[n] = "call"
                 PROVE  n < run.at
      BY <2>1 DEF Passed
    <3>1. n # run.at
      BY <2>1 DEF Here
    <3> QED
      BY <2>2, <3>1
  <2>4. SuccessIsComplete'
    BY <1>1, <2>3 DEF SuccessIsComplete, Verified
  <2>5. CheckpointsPassed'
    BY <1>1, PastStays
  <2> QED
    BY <1>1, <2>4, <2>5 DEF ProgressSound, Places
<1> QED
  BY <1>1, <1>2, <1>3

LEMMA CheckpointProgress ==
    ASSUME Sound, ProgressSound, Prepare \/ Commit
    PROVE  ProgressSound'
<1>1. /\ steps' = steps /\ record' = record /\ program' = program /\ run'.at = run.at
      /\ run'.pc \in {"step", "commit"} /\ run.pc \in {"node", "commit"}
      /\ run'.pc = "step" => run'.then \in {"mark", "BLOCKED"}
  BY CheckpointNodeKeeps DEF Prepare, Commit, UnchangedHost
<1>2. Here = "checkpoint" /\ Here' = Here
  BY <1>1 DEF Prepare, Visit, Commit, At, Sound, RunPlaced, AtCheckpoint, Here
<1>3. /\ \A n : Verified(n)' <=> Verified(n)
      /\ Passed(run.at)
  BY <1>1 DEF Verified, ProgressSound, Places
<1>4. \A c \in DOMAIN checkpoints' :
          \/ c \in DOMAIN checkpoints /\ checkpoints'[c].at = checkpoints[c].at
          \/ checkpoints'[c].at = run.at
  <2>1. /\ checkpoints \in Seq(Checkpoints) /\ DOMAIN checkpoints = 1..Latest
        /\ Latest \in Nat /\ Latest = Len(checkpoints) /\ run.at \in DOMAIN program
    BY <1>1, Shapes DEF Sound, Typed, TypeOK, RunPlaced, Places, Checkpoints, Latest
  <2>2. CASE checkpoints' = checkpoints
    BY <2>2
  <2>3. CASE checkpoints' = Append(checkpoints, [at |-> run.at, status |-> "PREPARED"])
    <3>1. [at |-> run.at, status |-> "PREPARED"] \in Checkpoints
      BY <2>1 DEF Checkpoints
    <3>2. /\ DOMAIN checkpoints' = 1..(Latest + 1)
          /\ checkpoints'[Latest + 1].at = run.at
          /\ \A c \in 1..Latest : checkpoints'[c] = checkpoints[c]
      BY <2>1, <2>3, <3>1, AppendProperties, LenProperties
    <3> QED
      BY <2>1, <3>2
  <2>4. CASE Commit /\ checkpoints' = [checkpoints EXCEPT ![Latest].status = "COMMITTED"]
    <3>1. Latest \in DOMAIN checkpoints
      BY <2>1, <2>4 DEF Commit, At, Sound, RunPlaced, AtCheckpoint
    <3> QED
      BY <2>4, <3>1, StatusChanged
  <2> QED
    BY <2>2, <2>3, <2>4 DEF Prepare, CannotPrepare, Commit
<1>5. CheckpointsPassed'
  BY <1>1, <1>3, <1>4 DEF ProgressSound, CheckpointsPassed, Passed
<1>6. SuccessIsComplete'
  BY <1>1 DEF ProgressSound, SuccessIsComplete
<1> QED
  BY <1>1, <1>2, <1>3, <1>5, <1>6 DEF ProgressSound, Passed

LEMMA ResumeProgress ==
    ASSUME Sound, ProgressSound, NEW t \in Resumers, Resume(t)
    PROVE  ProgressSound'
<1> DEFINE c == request[t].checkpoint
<1>1. /\ program' = program /\ steps' = steps /\ checkpoints' = checkpoints
      /\ c \in DOMAIN checkpoints
      /\ \/ run' = Idle /\ record' = record
         \/ run'.pc = "node" /\ run'.at = checkpoints[c].at + 1 /\ record'.state = "RUNNING"
  BY ResumeRun DEF Resume, UnchangedHost, Continuation
<1>2. CASE run' = Idle /\ record' = record
  BY <1>1, <1>2, ProgressFrame DEF Idle, Places
<1>3. CASE run'.pc = "node" /\ run'.at = checkpoints[c].at + 1 /\ record'.state = "RUNNING"
  <2>1. /\ \A m : Passed(m) => Passed(m)'
        /\ CheckpointsPassed'
        /\ SuccessIsComplete'
    BY <1>1, <1>3, PastStays
  <2>2. /\ checkpoints[c].at \in Nat /\ program[checkpoints[c].at] = "checkpoint"
        /\ DOMAIN program = 1..Len(program) /\ Len(program) \in Nat
        /\ Passed(checkpoints[c].at)
    BY <1>1, Shapes, ContinuationPlaced DEF Sound, RunOwned, ProgressSound, CheckpointsPassed
  <2> HIDE DEF c
  <2>3. Passed(checkpoints[c].at + 1)
    <3> SUFFICES ASSUME NEW n \in DOMAIN program, n < checkpoints[c].at + 1,
                        program[n] = "call"
                 PROVE  n < checkpoints[c].at
      BY <2>2 DEF Passed
    <3>1. n # checkpoints[c].at
      BY <2>2
    <3> QED
      BY <2>2, <3>1
  <2> QED
    BY <1>3, <2>1, <2>3 DEF ProgressSound
<1> QED
  BY <1>1, <1>2, <1>3

LEMMA StepProgress ==
    ASSUME Sound, ProgressSound, [Next]_vars, ReturnsLast
    PROVE  ProgressSound'
<1>1. CASE Boot \/ Started \/ Quiesce \/ CleanStop \/ Crash
  <2>1. /\ program' = program /\ steps' = steps /\ checkpoints' = checkpoints
        /\ record' = record /\ (run' = run \/ run' = Idle)
    BY <1>1 DEF Boot, Started, Quiesce, CleanStop, Crash, UnchangedProgram
  <2> QED
    BY <2>1, ProgressFrame DEF Idle, Places
<1>2. CASE \/ Call \/ ReadOnly \/ Choose \/ Repeat \/ Body \/ Verify \/ WaitFor
           \/ Recover \/ Return \/ OutOfSteps
  BY <1>2, NodesAreNodeSteps, NodeProgress
<1>3. CASE StartProgram
  <2>1. /\ program' = program /\ steps' = steps /\ checkpoints' = checkpoints
        /\ record'.state # "SUCCEEDED" /\ run'.pc \notin Places
    BY <1>3 DEF StartProgram, NoRecord, Idle, Places, UnchangedHost
  <2> QED
    BY <2>1, ProgressFrame
<1>4. CASE Begin
  <2> DEFINE next == [run EXCEPT !.pc = "node", !.at = 1]
  <2>1. next.pc = "node" /\ next.at = 1
    BY DEF Sound, Typed, RunRecords
  <2>2. /\ program' = program /\ steps' = steps /\ checkpoints' = checkpoints
        /\ record'.state = record.state \/ record'.state # "SUCCEEDED"
        /\ run' = next \/ run' = Idle
    BY <1>4 DEF Begin, Update, Raise, UnchangedHost, Sound, Typed, TypeOK
  <2> HIDE DEF next
  <2>3. CASE run' = Idle
    BY <2>2, <2>3, ProgressFrame DEF Idle, Places
  <2>4. CASE run' = next
    <3>1. /\ CheckpointsPassed'
          /\ SuccessIsComplete'
      BY <2>2, PastStays
    <3>2. DOMAIN program' = 1..Len(program) /\ Len(program) \in Nat
      BY <2>2, Shapes
    <3>3. Passed(run.at)'
      BY <2>1, <2>4, <3>2 DEF Passed
    <3> QED
      BY <2>1, <2>4, <3>1, <3>3 DEF ProgressSound
  <2> QED
    BY <2>2, <2>3, <2>4
<1>5. CASE RecordStep \/ UpdateRecord \/ Mark \/ Finalize
  BY <1>5, RecordStepProgress, UpdateRecordProgress, MarkProgress, FinalizeProgress
<1>6. CASE Prepare \/ Commit
  BY <1>6, CheckpointProgress
<1>7. CASE \E c \in DOMAIN checkpoints : Deactivate(c)
  <2>1. PICK c \in DOMAIN checkpoints : Deactivate(c)
    BY <1>7
  <2> QED
    BY <2>1, StatusChanged, ProgressFrame DEF Deactivate, UnchangedHost
<1>8. CASE \E t \in Resumers : Assess(t) \/ Claim(t) \/ Drop(t)
  BY <1>8, ProgressFrame DEF Assess, Claim, Drop, UnchangedHost
<1>9. CASE \E t \in Resumers : Resume(t)
  BY <1>9, ResumeProgress
<1>10. CASE UNCHANGED vars
  BY <1>10, ProgressFrame DEF vars, durable
<1> QED
  BY <1>1, <1>2, <1>3, <1>4, <1>5, <1>6, <1>7, <1>8, <1>9, <1>10 DEF Next

\* A program that returns at its end, and only there, has a verified step on
\* record for each of its calls when it has succeeded, whichever runtimes made
\* them.
THEOREM SuccessesAreComplete ==
    ASSUME ReturnsLast
    PROVE  Spec => []SuccessIsComplete
<1>1. Init => ProgressSound
  BY DEF Init, ProgressSound, CheckpointsPassed, SuccessIsComplete, NoRecord, Idle, Places
<1>2. Sound /\ ProgressSound /\ [Next]_vars => ProgressSound'
  BY StepProgress
<1>3. ProgressSound => SuccessIsComplete
  BY DEF ProgressSound
<1> QED
  BY <1>1, <1>2, <1>3, AlwaysSound, PTL DEF Spec

=============================================================================
