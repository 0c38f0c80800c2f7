----------------------------- MODULE WorkerService -----------------------------
(***************************************************************************)
(* One delegated task and the application of its patch                     *)
(* (src/worker/service.ts), with the agent loop it runs                    *)
(* (src/worker/agent-loop.ts), the task's journal                          *)
(* (src/artifacts/task-journal.ts) and the reports of its runs             *)
(* (src/artifacts/store.ts).                                               *)
(*                                                                         *)
(* delegate routes the task to workers, runs one attempt after another in  *)
(* a fresh worktree, evaluates it and records every step in the journal;   *)
(* applyRun checks a completed run against that journal and patches the    *)
(* repository.  Both hold the repository lease.  Environment: the caller's *)
(* abort, the deadline, a disk or a helper that fails, a crash, a user who *)
(* edits the repository.                                                   *)
(*                                                                         *)
(* An append is one step: the event is in the journal or not, and the      *)
(* caller is told so or gets an error; a crash falls before or after it.   *)
(* Commands run in the Docker backend.                                     *)
(***************************************************************************)
EXTENDS TaskEvents, Integers

CONSTANTS
    Tasks,              \* the resolved tasks a caller may delegate
    Reviews,            \* what the injected evaluators may say: sequences of results
    MaxIterations,      \* of the agent loop (task.maxIterations and the profile's)
    MaxTurnTools,       \* bound: tool calls of one model turn
    MaxTotalToolCalls,  \* limits.maxTotalToolCalls
    MaxFiles,           \* bound: files a worker changes
    MaxFaults,          \* bound: writes that fail and crashes of the process
    MaxApplies          \* bound: calls of applyRun

(* seed is the candidate the task starts from, the number of its changed   *)
(* files, and 0 when there is none.                                        *)
Task ==
    [mode : WorkerModes, commands : Seq(SUBSET CommandDimensions), criteria : BOOLEAN,
     seed : Nat, policy : Policies, route : Seq(Workers), maxAttempts : 1..8,
     fallback : BOOLEAN]

ASSUME TasksAssumption == Tasks \subseteq Task
ASSUME ReviewsAssumption ==
    \A others \in Reviews :
        /\ others \in Seq(Elements(others))
        /\ \A i \in 1..Len(others) : DOMAIN others[i] \subseteq Dimensions
ASSUME BoundsAssumption ==
    /\ MaxIterations \in Nat /\ MaxTurnTools \in Nat /\ MaxTotalToolCalls \in Nat
    /\ MaxFiles \in Nat /\ MaxFaults \in Nat /\ MaxApplies \in Nat

(* What the configuration and the tools' schemas allow: 64 iterations      *)
(* (config.ts), 32 calls a turn (provider/anthropic.ts), 10000 files       *)
(* (config.ts, policy/engine.ts), 20 commands (mcp/tools.ts).  A candidate *)
(* was a patch itself, and a route is one that the journal takes           *)
(* (Delegations, RouteIsRecordable).                                       *)
ASSUME LimitsAssumption ==
    /\ MaxIterations <= 64 /\ MaxTurnTools <= 32 /\ MaxFiles <= 10000
    /\ \A t \in Tasks : Len(t.commands) <= 20 /\ t.seed <= 10000 /\ ValidRoute(t)

Errors == FailureCodes \cup {"AbortError", "TimeoutError"}

VARIABLES
    clock,      \* the deadline: "early", "late" when it has passed, "fired" when its timer ran
    aborted,    \* the caller's signal
    faults, applies,    \* how many are left
    journal,    \* the task's journal, as its projection
    reports,    \* the published reports
    worktrees,  \* the runs whose worktree, or its directory, is on disk
    containers, \* the runs with a validation container that could not be removed
    holder,     \* of the repository lease
    call,       \* the delegation
    run,        \* the local variables of its attempt
    tree,       \* the repository: "base", "patched" by an apply, or "edited" by a user
    app,        \* the application
    late        \* ghost: the task was aborted or expired before an attempt was committed

vars == <<clock, aborted, faults, applies, journal, reports, worktrees, containers,
          holder, call, run, tree, app, late>>
environment == <<clock, aborted, applies, containers, late>>
application == <<tree, app>>

AttemptPcs == {"start", "turn", "tools", "work", "collect", "patch", "commands", "integrity",
               "validation", "evaluate", "evaluation", "persist", "attempt"}
Pcs == AttemptPcs \cup {"idle", "create", "route", "loop", "worktree", "complete", "expired",
                        "returned", "thrown", "uncleaned", "crashed"}

(* files is how many files of the worktree differ from the base, left the  *)
(* number of tool calls of the turn that are still to be answered.         *)
Run ==
    [iteration : Nat, left : Int, total : Nat, status : RunStatuses,
     code : FailureCodes \cup {"none"}, files : Nat, changed : Nat, patch : Nat,
     violations : SUBSET {"scope", "other"}, results : Seq(CommandResult),
     preserve : BOOLEAN, warned : BOOLEAN, evaluation : EvaluationOutcomes \cup {"none"},
     failed : SUBSET Dimensions, unknown : SUBSET Dimensions]

NoRun ==
    [iteration |-> 0, left |-> 0, total |-> 0, status |-> "completed", code |-> "none",
     files |-> 0, changed |-> 0, patch |-> 0, violations |-> {}, results |-> <<>>,
     preserve |-> FALSE, warned |-> FALSE, evaluation |-> "none", failed |-> {}, unknown |-> {}]

Report ==
    [run : Nat, worker : Workers, mode : WorkerModes, status : RunStatuses,
     code : FailureCodes \cup {"none"}, changed : Nat, patch : Nat, policy : Policies,
     evaluation : EvaluationOutcomes, failed : SUBSET Dimensions, unknown : SUBSET Dimensions]

NoTask   == [mode |-> "none"]
NoReport == [run |-> 0]

Call == [pc : Pcs, task : Tasks \cup {NoTask}, index : Nat, last : Report \cup {NoReport}]

ApplyPcs    == {"request", "check", "approve", "patch", "applied", "reject"}
Application ==
    [pc : ApplyPcs \cup {"idle"}, report : Report \cup {NoReport}, recording : BOOLEAN,
     patched : BOOLEAN, recorded : BOOLEAN]

-----------------------------------------------------------------------------
(* Errors and signals.                                                     *)

Signal == aborted \/ clock = "fired"

(* throwIfAbortedOrExpired                                                 *)
Stopped   == Signal \/ clock # "early"
StopError == IF Signal THEN "AbortError" ELSE "TimeoutError"

isPolicyCode(code) == code \in {"WORKER_LIMIT", "PROVIDER_TOOL_CALL_LIMIT"}

classifyRunError(error) ==
    IF aborted THEN "cancelled"
    ELSE IF clock = "fired" \/ error = "TimeoutError" THEN "timed_out"
    ELSE IF isPolicyCode(error) THEN "policy_violation"
    ELSE "failed"

(* Mutant: an error is known by its name.                                  *)
getFailureCodeByName(error) == error

getFailureCode(error) ==
    CASE error = "AbortError"   -> "WORKER_ABORTED"
      [] error = "TimeoutError" -> "WORKER_FAILED"
      [] OTHER                  -> error

(* The catch blocks of patch collection and of the integrity check.        *)
Caught(attempt, error) ==
    LET status == classifyRunError(error)
    IN [attempt EXCEPT
          !.status = status,
          !.code = IF status \in {"cancelled", "timed_out"} THEN "WORKER_ABORTED"
                   ELSE IF @ # "none" THEN @ ELSE getFailureCode(error),
          !.violations = IF status = "policy_violation" THEN @ \cup {"other"} ELSE @,
          !.warned = TRUE]

-----------------------------------------------------------------------------
(* Appending to the journal.  An append fails once the signal it was given *)
(* has fired (stopped); it may have linked the event by then, and so may a *)
(* helper that failed.                                                     *)

Appended(e, stopped) ==
    /\ EventAllowed(journal, e)
    /\ ~stopped
    /\ journal' = ProjectEvent(journal, e)
    /\ UNCHANGED faults

NotAppended(e, stopped) ==
    \/ ~EventAllowed(journal, e) /\ UNCHANGED <<journal, faults>>
    \/ /\ EventAllowed(journal, e)
       /\ \/ stopped /\ UNCHANGED faults
          \/ faults > 0 /\ faults' = faults - 1
       /\ journal' \in {journal, ProjectEvent(journal, e)}

Release == holder' = "none"

(* Mutant: the worktree is removed on success only.                        *)
ThrowLeavingWorktree ==
    /\ call' = [call EXCEPT !.pc = "thrown"]
    /\ run' = NoRun
    /\ Release
    /\ UNCHANGED worktrees

(* delegate throws what the creation or the removal of a worktree threw;   *)
(* left are the sets of worktrees that may be on disk then.                *)
ThrowUncleaned(left) ==
    /\ call' = [call EXCEPT !.pc = "uncleaned"]
    /\ worktrees' \in left
    /\ run' = NoRun
    /\ Release

(* An attempt ends with cleanup, unless its worktree is preserved.  When   *)
(* git cannot be run, or the directory not be removed, cleanup's error     *)
(* replaces the attempt's report or error.                                 *)
HasToClean    == call.pc \in AttemptPcs /\ ~run.preserve
CleanupThrows == HasToClean /\ ThrowUncleaned({worktrees, worktrees \ {call.index}})

(* An error that leaves delegate: the finally blocks remove the worktree,  *)
(* or fail to, and give the lease back.                                    *)
Throw ==
    \/ /\ call' = [call EXCEPT !.pc = "thrown"]
       /\ worktrees' = IF HasToClean THEN worktrees \ {call.index} ELSE worktrees
       /\ run' = NoRun
       /\ Release
    \/ CleanupThrows

Record(e, stopped, next, attempt) ==
    /\ \/ /\ Appended(e, stopped)
          /\ call' = [call EXCEPT !.pc = next]
          /\ run' = attempt
          /\ UNCHANGED <<worktrees, holder>>
       \/ NotAppended(e, stopped) /\ Throw
    /\ UNCHANGED <<environment, application, reports>>

(* A step of an attempt that writes nothing.                               *)
Continue(next, attempt) ==
    /\ call' = [call EXCEPT !.pc = next]
    /\ run' = attempt
    /\ UNCHANGED <<environment, application, faults, journal, reports, worktrees, holder>>

Worker == call.task.route[call.index]

-----------------------------------------------------------------------------
(* delegate: the lease and the policy, the task and its route.             *)

Delegate ==
    /\ call.pc = "idle" /\ holder = "none"
    /\ ~aborted
    /\ \E t \in Tasks : call' = [call EXCEPT !.pc = "create", !.task = t]
    /\ holder' = "delegate"
    /\ UNCHANGED <<environment, application, faults, journal, reports, worktrees, run>>

(* The base commit, the policy, the candidate, the routing evidence and    *)
(* TaskCreated; an error on the way leaves no task anyone is told of.      *)
Create ==
    /\ call.pc = "create"
    /\ \/ /\ ~aborted
          /\ call' = [call EXCEPT !.pc = "route"]
          /\ UNCHANGED <<faults, run, worktrees, holder>>
       \/ /\ \/ Stopped /\ UNCHANGED faults
             \/ faults > 0 /\ faults' = faults - 1
          /\ Throw
    /\ UNCHANGED <<environment, application, journal, reports>>

RouteEvent == [type |-> "RouteSelected", route |-> call.task.route,
               maxAttempts |-> call.task.maxAttempts]
Route == call.pc = "route" /\ Record(RouteEvent, FALSE, "loop", NoRun)

(* The head of the loop over the candidates.  A task out of time ends with *)
(* its last report, or with none.                                          *)
NextAttempt ==
    /\ call.pc = "loop"
    /\ IF aborted THEN Throw
       ELSE /\ call' = [call EXCEPT !.pc = IF clock = "early" THEN "worktree"
                                           ELSE IF call.last = NoReport THEN "expired"
                                           ELSE "complete",
                                    !.index = IF clock = "early" THEN @ + 1 ELSE @]
            /\ UNCHANGED <<run, worktrees, holder>>
    /\ UNCHANGED <<environment, application, faults, journal, reports>>

Expire ==
    /\ call.pc = "expired"
    /\ LET e == [type |-> "TaskCompleted", run |-> 0, status |-> "timed_out",
                 failureCode |-> "none"]
       IN Appended(e, FALSE) \/ NotAppended(e, FALSE)
    /\ Throw
    /\ UNCHANGED <<environment, application, reports>>

-----------------------------------------------------------------------------
(* executeInWorktree: one attempt.                                         *)

(* The worktree, with the candidate's patch in it when there is one; an    *)
(* error removes it again, if it is not one of create or of the removal.   *)
CreateWorktree ==
    /\ call.pc = "worktree"
    /\ \/ /\ call.task.seed = 0 \/ ~(aborted \/ clock # "early")
          /\ worktrees' = worktrees \cup {call.index}
          /\ call' = [call EXCEPT !.pc = "start"]
          /\ run' = [NoRun EXCEPT !.files = call.task.seed]
          /\ UNCHANGED <<faults, holder>>
       \/ /\ \/ call.task.seed # 0 /\ (aborted \/ clock # "early") /\ UNCHANGED faults
             \/ faults > 0 /\ faults' = faults - 1
          /\ Throw \/ ThrowUncleaned({worktrees \cup {call.index}})
    /\ UNCHANGED <<environment, application, journal, reports>>

StartEvent == [type |-> "WorkerStarted", run |-> call.index, worker |-> Worker,
               attempt |-> call.index]
Start == call.pc = "start" /\ Record(StartEvent, FALSE, "turn", run)

(* runAgentLoop: a turn of the model, and the tools it called.             *)
TurnEvent(outcome, toolCalls) ==
    [type |-> "ModelTurnCompleted", run |-> call.index, iteration |-> run.iteration + 1,
     outcome |-> outcome, toolCalls |-> toolCalls]

Failed(error) ==
    [run EXCEPT !.iteration = @ + 1, !.code = getFailureCode(error),
                !.status = classifyRunError(error)]

(* The provider's own errors, and those the loop raises at an answer.      *)
TurnErrors == {"PROVIDER_FAILURE", "PROVIDER_TOOL_CALL_LIMIT", "WORKER_LIMIT",
               "HARNESS_ERROR"}

(* A provider may take any time to answer.                                 *)
Answer ==
    /\ call.pc = "turn" /\ run.iteration < MaxIterations
    /\ \/ \E n \in 0..MaxTurnTools :
             /\ run.total + n <= MaxTotalToolCalls
             /\ Record(TurnEvent("succeeded", n), FALSE, IF n = 0 THEN "work" ELSE "tools",
                       [run EXCEPT !.iteration = @ + 1, !.left = n, !.total = @ + n])
       \/ \E error \in TurnErrors : Record(TurnEvent("failed", 0), FALSE, "work", Failed(error))

(* Mutant: the provider is given the caller's signal, not the deadline's.  *)
ProviderStopsOnAbort ==
    /\ call.pc = "turn" /\ run.iteration < MaxIterations
    /\ aborted
    /\ Record(TurnEvent("failed", 0), FALSE, "work", Failed("AbortError"))

(* It stops at the signal.                                                 *)
ProviderStops ==
    /\ call.pc = "turn" /\ run.iteration < MaxIterations
    /\ Signal
    /\ \E error \in {"AbortError", "PROVIDER_FAILURE"} :
           Record(TurnEvent("failed", 0), FALSE, "work", Failed(error))

(* The iterations are used up.                                             *)
IterationLimit ==
    /\ call.pc = "turn" /\ run.iteration = MaxIterations
    /\ Continue("work", [run EXCEPT !.code = "WORKER_LIMIT",
                                    !.status = classifyRunError("WORKER_LIMIT")])

(* The executor answers every call, a refused one too.                     *)
ToolEvent == [type |-> "ToolCalled", run |-> call.index, iteration |-> run.iteration]

Writable == call.task.mode \in {"implementation", "testing"}

Tool ==
    /\ call.pc = "tools"
    /\ \E files \in IF Writable THEN 0..MaxFiles ELSE {run.files}, refused \in SUBSET {"other"} :
           Record(ToolEvent, FALSE, IF run.left = 1 THEN "turn" ELSE "tools",
                  [run EXCEPT !.left = @ - 1, !.files = files,
                              !.violations = @ \cup refused])

WorkEvent ==
    [type |-> "WorkerCompleted", run |-> call.index,
     outcome |-> IF run.status = "completed" THEN "succeeded" ELSE "failed",
     failureCode |-> run.code]
Work == /\ call.pc = "work"
        /\ Record(WorkEvent, FALSE, "collect", [run EXCEPT !.iteration = 0, !.total = 0])

(* Policy violations fail the attempt, whatever happened before.           *)
Judged(attempt) ==
    IF attempt.violations # {} /\ attempt.status \notin {"cancelled", "timed_out"}
    THEN [attempt EXCEPT !.status = "policy_violation",
                         !.code = IF @ = "none" THEN "WORKER_POLICY_VIOLATION" ELSE @]
    ELSE attempt

(* collectPatchCandidate: a change outside the task's authority leaves no  *)
(* patch.                                                                  *)
Collect ==
    /\ call.pc = "collect"
    /\ \/ /\ ~Stopped
          /\ \/ Continue(IF run.files = 0 THEN "commands" ELSE "patch",
                         LET collected == [run EXCEPT !.changed = run.files, !.patch = run.files]
                         IN IF run.files = 0 THEN Judged(collected) ELSE collected)
             \/ /\ run.files # 0
                /\ Continue("commands", Judged([run EXCEPT !.changed = run.files,
                                                           !.violations = @ \cup {"scope"}]))
             \/ \E error \in {"HARNESS_ERROR", "PATCH_TOO_LARGE"} :
                    Continue("commands", Judged(Caught(run, error)))
       \/ Stopped /\ Continue("commands", Judged(Caught(run, StopError)))

(* An error of this append is caught with those of the collection.         *)
PatchEvent == [type |-> "PatchProduced", run |-> call.index, files |-> run.changed]
Patch ==
    /\ call.pc = "patch"
    /\ \/ Appended(PatchEvent, FALSE) /\ run' = Judged(run)
       \/ NotAppended(PatchEvent, FALSE) /\ run' = Judged(Caught(run, "HARNESS_ERROR"))
    /\ call' = [call EXCEPT !.pc = "commands"]
    /\ UNCHANGED <<environment, application, reports, worktrees, holder>>

(* A command that failed fails the attempt.                                *)
Settled(attempt) ==
    IF attempt.status = "completed" /\ \E r \in Elements(attempt.results) : ~r.ok
    THEN [attempt EXCEPT !.status = "failed", !.code = "VALIDATION_COMMAND_FAILED"]
    ELSE attempt

(* What the signal makes of an attempt that no error has told of it.       *)
Noticed(attempt) ==
    [attempt EXCEPT !.status = IF aborted THEN "cancelled"
                               ELSE IF clock = "fired" THEN "timed_out" ELSE @]

CommandsFailed(results, error) ==
    [run EXCEPT !.results = results, !.code = getFailureCode(error),
                !.status = classifyRunError(error), !.warned = TRUE]

(* runRequiredCommands: all ran, or one could not be run to its end.       *)
Commands ==
    /\ call.pc = "commands"
    /\ LET commands == call.task.commands
           Ends(n)  == [1..n -> CommandResult]
       IN \/ run.status # "completed" /\ Continue("validation", run)
          \/ /\ run.status = "completed" /\ commands = <<>>
             /\ Continue("validation", Noticed(run))
          \/ /\ run.status = "completed" /\ commands # <<>>
             /\ \E results \in Ends(Len(commands)) :
                    Continue("integrity", Noticed([run EXCEPT !.results = results]))
          \/ /\ run.status = "completed" /\ commands # <<>>
             /\ \E n \in 0..(Len(commands) - 1) : \E results \in Ends(n),
                    error \in {"HARNESS_ERROR"} \cup (IF Signal THEN {"AbortError"} ELSE {}) :
                    Continue("integrity", CommandsFailed(results, error))

(* A container that cannot be removed may still write to the worktree: it  *)
(* is kept, and its patch is given up.                                     *)
ContainerLeft ==
    /\ call.pc = "commands"
    /\ run.status = "completed"
    /\ \E n \in 0..(Len(call.task.commands) - 1) : \E results \in [1..n -> CommandResult] :
          run' = [CommandsFailed(results, "DOCKER_CONTAINER_CLEANUP_FAILED") EXCEPT
                    !.preserve = TRUE, !.patch = 0]
    /\ call' = [call EXCEPT !.pc = "validation"]
    /\ containers' = containers \cup {call.index}
    /\ UNCHANGED <<clock, aborted, applies, late, application, faults, journal,
                   reports, worktrees, holder>>

(* assertValidationPreservedCandidate                                      *)
Integrity ==
    /\ call.pc = "integrity"
    /\ \/ ~Stopped /\ Continue("validation", Settled(run))
       \/ ~Stopped /\ \E error \in {"HARNESS_ERROR", "PATCH_TOO_LARGE"} :
                         Continue("validation", Settled(Caught(run, error)))
       \/ Stopped /\ Continue("validation", Settled(Caught(run, StopError)))

ValidationEvent ==
    [type |-> "ValidationCompleted", run |-> call.index, commands |-> Len(run.results),
     outcome |-> IF call.task.commands = <<>> THEN "skipped"
                 ELSE IF run.status = "completed" THEN "passed" ELSE "failed"]

(* Mutant: an implementation may change nothing.                           *)
BlockedNever(attempt) == attempt

(* An implementation that changed nothing is blocked.                      *)
Blocked(attempt) ==
    IF /\ call.task.mode = "implementation"
       /\ attempt.changed = 0 /\ attempt.status = "completed"
    THEN [attempt EXCEPT !.status = "blocked", !.code = "WORKER_NO_CHANGES", !.warned = TRUE]
    ELSE attempt

Validation == call.pc = "validation" /\ Record(ValidationEvent, FALSE, "evaluate", Blocked(run))

Input(attempt) ==
    [status |-> attempt.status, failureCode |-> attempt.code,
     required |-> call.task.commands, results |-> attempt.results,
     changed |-> attempt.changed, maxChanged |-> MaxFiles, violations |-> attempt.violations,
     criteria |-> AcceptanceResults(call.task.criteria, attempt.results, attempt.status),
     patch |-> attempt.patch, maxPatch |-> MaxFiles, warned |-> attempt.warned]

(* The attempt with its evaluation; the gate applies to a completed one.   *)
Evaluated(attempt, results) ==
    LET code     == GatedCode(results, call.task.policy)
        rejected == attempt.status = "completed" /\ code # "none"
        tooLarge == results[1]["patch_size"] = "failed"
    IN [attempt EXCEPT !.status = IF rejected THEN "failed" ELSE @,
                       !.code = IF rejected THEN code ELSE @,
                       !.patch = IF tooLarge THEN 0 ELSE @,
                       !.warned = @ \/ tooLarge,
                       !.evaluation = Outcome(results),
                       !.failed = CollectDimensions(results, "failed"),
                       !.unknown = CollectDimensions(results, "unknown")]

(* evaluateAll, and evaluateInterrupted once the signal fired.  An         *)
(* evaluator that throws takes the delegation with it.                     *)
Evaluate ==
    /\ call.pc = "evaluate"
    /\ LET stopped == [run EXCEPT !.status = classifyRunError("AbortError"),
                                  !.code = "WORKER_ABORTED"]
           first   == DeterministicResult(Input(run))
       IN \/ /\ Signal
             /\ Continue("evaluation", Evaluated(stopped, <<DeterministicResult(Input(stopped))>>))
          \/ /\ ~Signal
             /\ \E others \in Reviews : Continue("evaluation", Evaluated(run, <<first>> \o others))
          \/ /\ ~Signal /\ faults > 0
             /\ faults' = faults - 1
             /\ Throw
             /\ UNCHANGED <<environment, application, journal, reports>>

(* Mutant: the profile's policy is not read.                               *)
EvaluationEventOfDefault ==
    [type |-> "EvaluationCompleted", run |-> call.index, outcome |-> run.evaluation,
     policy |-> "default", failed |-> run.failed, unknown |-> run.unknown]

EvaluationEvent ==
    [type |-> "EvaluationCompleted", run |-> call.index, outcome |-> run.evaluation,
     policy |-> call.task.policy, failed |-> run.failed, unknown |-> run.unknown]

(* Mutant: the signal is not watched after the evaluation.                 *)
WithdrawnNever == FALSE

(* publicationSignal: only a completed attempt is stopped by the signal.   *)
Withdrawn == run.status = "completed" /\ Signal

PublishEvaluation == call.pc = "evaluation" /\ Record(EvaluationEvent, Withdrawn, "persist", run)

-----------------------------------------------------------------------------
(* The report, the end of the attempt and of the task.                     *)

RunReport ==
    [run |-> call.index, worker |-> Worker, mode |-> call.task.mode, status |-> run.status,
     code |-> run.code, changed |-> run.changed, patch |-> run.patch,
     policy |-> call.task.policy, evaluation |-> run.evaluation,
     failed |-> run.failed, unknown |-> run.unknown]

(* isReportEvaluationConsistent                                            *)
Consistent(r) ==
    \/ /\ r.status = "completed"
       /\ r.evaluation # "failed"
       /\ r.policy = "strict" => r.evaluation = "passed"
    \/ r.status # "completed" /\ r.evaluation = "failed"
    \/ r.status = "failed" /\ r.code = "EVALUATION_INCONCLUSIVE" /\ r.policy = "strict"

(* ArtifactStore.persist: the report is published last.                    *)
Persist ==
    /\ call.pc = "persist"
    /\ \/ /\ Consistent(RunReport) /\ ~Withdrawn
          /\ reports' = reports \cup {RunReport}
          /\ call' = [call EXCEPT !.pc = "attempt"]
          /\ UNCHANGED <<faults, run, worktrees, holder>>
       \/ /\ \/ ~Consistent(RunReport) /\ UNCHANGED <<faults, reports>>
             \/ /\ Consistent(RunReport)
                /\ \/ Withdrawn /\ UNCHANGED faults
                   \/ faults > 0 /\ faults' = faults - 1
                /\ reports' \in {reports, reports \cup {RunReport}}
          /\ Throw
    /\ UNCHANGED <<environment, application, journal>>

AttemptEvent == [type |-> "AttemptCompleted", run |-> call.index, status |-> run.status,
                 failureCode |-> run.code]

shouldFallback ==
    /\ call.task.fallback
    /\ call.index < call.task.maxAttempts
    /\ run.status = "failed" /\ run.code \in FallbackCodes

(* The attempt is committed before its worktree is removed: a cleanup that *)
(* fails takes the report from delegate, and the task never ends.          *)
EndAttempt ==
    /\ call.pc = "attempt"
    /\ \/ /\ Appended(AttemptEvent, Withdrawn)
          /\ call' = [call EXCEPT !.pc = IF shouldFallback THEN "loop" ELSE "complete",
                                  !.last = RunReport]
          /\ worktrees' = IF run.preserve THEN worktrees ELSE worktrees \ {call.index}
          /\ run' = NoRun
          /\ UNCHANGED holder
       \/ Appended(AttemptEvent, Withdrawn) /\ CleanupThrows
       \/ NotAppended(AttemptEvent, Withdrawn) /\ Throw
    /\ UNCHANGED <<environment, application, reports>>

(* completeTask; a completed one has until the deadline.                   *)
CompleteEvent == [type |-> "TaskCompleted", run |-> call.last.run,
                  status |-> call.last.status, failureCode |-> "none"]
Overdue == call.last.status = "completed" /\ (aborted \/ clock # "early")

Complete ==
    /\ call.pc = "complete"
    /\ \/ /\ Appended(CompleteEvent, Overdue)
          /\ call' = [call EXCEPT !.pc = "returned"]
          /\ Release
          /\ UNCHANGED <<run, worktrees>>
       \/ NotAppended(CompleteEvent, Overdue) /\ Throw
    /\ UNCHANGED <<environment, application, reports>>

DelegateStep ==
    \/ Create \/ Route \/ NextAttempt \/ Expire \/ CreateWorktree \/ Start
    \/ ProviderStops \/ IterationLimit \/ Tool \/ Work \/ Collect \/ Patch
    \/ Commands \/ ContainerLeft \/ Integrity \/ Validation \/ Evaluate \/ PublishEvaluation
    \/ Persist \/ EndAttempt \/ Complete

-----------------------------------------------------------------------------
(* isRunLinked: the report and the journal tell the same story.            *)

PatchLinked(r) ==
    IF r.patch # 0 THEN journal.last.patch = r.patch /\ r.changed = r.patch
    ELSE IF r.changed = 0 THEN journal.last.patch = 0
    ELSE /\ r.status = "failed" /\ "patch_size" \in r.failed
         /\ journal.last.patch = r.changed

(* Mutant: any task that was routed is taken for the run's own.            *)
LinkedToTask(r) == journal.route # <<>>

Linked(r) ==
    /\ journal.status = r.status
    /\ LET last == journal.last
       IN /\ last.run = r.run /\ last.worker = r.worker
          /\ last.status = r.status /\ last.failureCode = r.code
          /\ last.evaluation = r.evaluation /\ last.policy = r.policy
          /\ last.failed = r.failed /\ last.unknown = r.unknown
    /\ PatchLinked(r)

-----------------------------------------------------------------------------
(* applyRun.  A run that did not complete, or has no patch, is turned away *)
(* before anything is written.                                             *)

Proceed(pc) == app' = [app EXCEPT !.pc = pc]
Finish      == Proceed("idle") /\ Release
delegation  == <<reports, worktrees, call, run>>

ApplyRun ==
    /\ holder = "none" /\ applies > 0
    /\ \E r \in reports :
          /\ r.status = "completed" /\ r.patch # 0
          /\ app' = [pc |-> "request", report |-> r, recording |-> FALSE,
                     patched |-> FALSE, recorded |-> FALSE]
    /\ holder' = "apply"
    /\ applies' = applies - 1
    /\ UNCHANGED <<clock, aborted, faults, journal, tree, containers, late, delegation>>

(* preparePatchHistory: an unlinked run is refused; an event that cannot be*)
(* recorded is only a warning.                                             *)
RequestApplication ==
    /\ app.pc = "request"
    /\ LET e == [type |-> "PatchApplicationRequested", run |-> app.report.run]
       IN \/ ~Linked(app.report) /\ Finish /\ UNCHANGED <<faults, journal>>
          \/ faults > 0 /\ faults' = faults - 1 /\ Finish /\ UNCHANGED journal
          \/ /\ Linked(app.report) /\ Appended(e, FALSE)
             /\ app' = [app EXCEPT !.pc = "check", !.recording = TRUE]
             /\ UNCHANGED holder
          \/ /\ Linked(app.report) /\ NotAppended(e, FALSE)
             /\ Proceed("check") /\ UNCHANGED holder
    /\ UNCHANGED <<environment, tree, delegation>>

(* A clean tree at the base commit, an intact patch that applies.          *)
CheckRepository ==
    /\ app.pc = "check"
    /\ \/ tree = "base" /\ Proceed("approve") /\ UNCHANGED faults
       \/ tree # "base" /\ Proceed("reject") /\ UNCHANGED faults
       \/ faults > 0 /\ faults' = faults - 1 /\ Proceed("reject")
    /\ UNCHANGED <<environment, journal, tree, holder, delegation>>

Approve ==
    /\ app.pc = "approve"
    /\ LET e == [type |-> "PatchApproved", run |-> app.report.run]
       IN \/ ~app.recording /\ Proceed("patch") /\ UNCHANGED <<faults, journal>>
          \/ app.recording /\ Appended(e, FALSE) /\ Proceed("patch")
          \/ /\ app.recording /\ NotAppended(e, FALSE)
             /\ app' = [app EXCEPT !.pc = "patch", !.recording = FALSE]
    /\ UNCHANGED <<environment, tree, holder, delegation>>

(* git apply; the tree may have been edited since it was checked.          *)
PatchRepository ==
    /\ app.pc = "patch"
    /\ \/ /\ app' = [app EXCEPT !.pc = "applied", !.patched = TRUE]
          /\ tree' = "patched" /\ UNCHANGED faults
       \/ tree # "base" /\ Proceed("reject") /\ UNCHANGED <<faults, tree>>
       \/ faults > 0 /\ faults' = faults - 1 /\ Proceed("reject") /\ UNCHANGED tree
    /\ UNCHANGED <<environment, journal, holder, delegation>>

(* Mutant: historyRecorded is set whether or not the append succeeded.     *)
RecordAppliedAlways ==
    /\ app.pc = "applied"
    /\ LET e == [type |-> "PatchApplied", run |-> app.report.run, files |-> app.report.changed]
       IN \/ ~app.recording /\ Proceed("idle") /\ UNCHANGED <<faults, journal>>
          \/ /\ app.recording /\ (Appended(e, FALSE) \/ NotAppended(e, FALSE))
             /\ app' = [app EXCEPT !.pc = "idle", !.recorded = TRUE]
    /\ Release
    /\ UNCHANGED <<environment, tree, delegation>>

RecordApplied ==
    /\ app.pc = "applied"
    /\ LET e == [type |-> "PatchApplied", run |-> app.report.run, files |-> app.report.changed]
       IN \/ ~app.recording /\ Proceed("idle") /\ UNCHANGED <<faults, journal>>
          \/ /\ app.recording /\ Appended(e, FALSE)
             /\ app' = [app EXCEPT !.pc = "idle", !.recorded = TRUE]
          \/ app.recording /\ NotAppended(e, FALSE) /\ Proceed("idle")
    /\ Release
    /\ UNCHANGED <<environment, tree, delegation>>

(* recordPatchRejection                                                    *)
Reject ==
    /\ app.pc = "reject"
    /\ LET e == [type |-> "PatchApplicationRejected", run |-> app.report.run]
       IN \/ ~app.recording /\ UNCHANGED <<faults, journal>>
          \/ app.recording /\ Appended(e, FALSE)
          \/ app.recording /\ NotAppended(e, FALSE)
    /\ Finish
    /\ UNCHANGED <<environment, tree, delegation>>

ApplyStep == \/ RequestApplication \/ CheckRepository \/ Approve \/ PatchRepository
             \/ RecordApplied \/ Reject

-----------------------------------------------------------------------------
(* The environment.                                                        *)

Uncommitted == call.pc \in AttemptPcs \cup {"create", "route", "loop", "worktree"}

Abort ==
    /\ holder = "delegate" /\ ~aborted
    /\ aborted' = TRUE
    /\ late' = (late \/ Uncommitted)
    /\ UNCHANGED <<clock, applies, containers, application, faults, journal, holder, delegation>>

(* The deadline passes; an attempt's timer fires a moment later.           *)
Deadline ==
    /\ holder = "delegate"
    /\ \/ clock = "early" /\ clock' = "late" /\ UNCHANGED late
       \/ /\ clock = "late" /\ call.pc \in AttemptPcs
          /\ clock' = "fired" /\ late' = TRUE
    /\ UNCHANGED <<aborted, applies, containers, application, faults, journal, holder, delegation>>

(* The process dies with the call it serves; its lease is free at once.    *)
Crash ==
    /\ faults > 0 /\ holder # "none"
    /\ faults' = faults - 1
    /\ IF holder = "delegate"
       THEN call' = [call EXCEPT !.pc = "crashed"] /\ run' = NoRun /\ UNCHANGED app
       ELSE Proceed("idle") /\ UNCHANGED <<call, run>>
    /\ Release
    /\ UNCHANGED <<clock, aborted, applies, journal, reports, worktrees, containers, tree, late>>

(* The user edits files, or commits and goes back to the base: once there  *)
(* is something to apply, as the tasks work in trees of their own.         *)
Edit ==
    /\ reports # {} /\ holder # "delegate"
    /\ tree' \in {"base", "edited"}
    /\ tree' # tree
    /\ UNCHANGED <<environment, app, faults, journal, holder, delegation>>

-----------------------------------------------------------------------------
Init ==
    /\ clock = "early" /\ aborted = FALSE
    /\ faults = MaxFaults /\ applies = MaxApplies
    /\ journal = InitialProjection
    /\ reports = {} /\ worktrees = {} /\ containers = {}
    /\ holder = "none"
    /\ call = [pc |-> "idle", task |-> NoTask, index |-> 0, last |-> NoReport]
    /\ run = NoRun
    /\ tree = "base"
    /\ app = [pc |-> "idle", report |-> NoReport, recording |-> FALSE,
              patched |-> FALSE, recorded |-> FALSE]
    /\ late = FALSE

Next == Delegate \/ DelegateStep \/ Answer \/ ApplyRun \/ ApplyStep
        \/ Abort \/ Deadline \/ Crash \/ Edit

Spec == Init /\ [][Next]_vars

(* The process keeps running what it started and timers fire; a provider   *)
(* need not answer, nobody need abort, crash or edit.                      *)
Fairness == WF_vars(DelegateStep) /\ WF_vars(ApplyStep) /\ WF_vars(Deadline)

FairSpec == Spec /\ Fairness

-----------------------------------------------------------------------------
(* Properties.                                                             *)

(* The variables hold what their declarations say.                         *)
TypeOK ==
    /\ clock \in {"early", "late", "fired"}
    /\ aborted \in BOOLEAN /\ late \in BOOLEAN
    /\ faults \in 0..MaxFaults /\ applies \in 0..MaxApplies
    /\ journal \in Projection
    /\ reports \subseteq Report
    /\ worktrees \subseteq Nat /\ containers \subseteq Nat
    /\ holder \in {"none", "delegate", "apply"}
    /\ call \in Call
    /\ run \in Run /\ run.patch \in {0, run.changed}
    /\ tree \in {"base", "patched", "edited"}
    /\ app \in Application

(* The events the service may ask the journal to take next.                *)
AskedEvents ==
    CASE call.pc = "route"      -> {RouteEvent}
      [] call.pc = "start"      -> {StartEvent}
      [] call.pc = "turn" /\ run.iteration < MaxIterations ->
            {TurnEvent("failed", 0)} \cup {TurnEvent("succeeded", n) : n \in 0..MaxTurnTools}
      [] call.pc = "tools"      -> {ToolEvent}
      [] call.pc = "work"       -> {WorkEvent}
      [] call.pc = "patch"      -> {PatchEvent}
      [] call.pc = "validation" -> {ValidationEvent}
      [] call.pc = "evaluation" -> {EvaluationEvent}
      [] call.pc = "attempt"    -> {AttemptEvent}
      [] call.pc = "complete"   -> {CompleteEvent}
      [] OTHER                  -> {}

AskedOfApplication ==
    LET Event(type) == [type |-> type, run |-> app.report.run]
    IN CASE app.pc = "approve" -> {Event("PatchApproved"), Event("PatchApplicationRejected")}
         [] app.pc = "reject"  -> {Event("PatchApplicationRejected")}
         [] app.pc = "applied" ->
               {[type |-> "PatchApplied", run |-> app.report.run, files |-> app.report.changed]}
         [] OTHER -> {}

(* The service never asks the journal for an event that the event model    *)
(* refuses, nor the store for a report its validation refuses: a refusal   *)
(* would throw a finished attempt away and leave its task open for good    *)
(* (executeInWorktree against projectTaskEvent and validateReport).        *)
AsksAllowedEvents ==
    /\ \A e \in AskedEvents : EventAllowed(journal, e)
    /\ app.recording => \A e \in AskedOfApplication : EventAllowed(journal, e)
    /\ call.pc = "persist" => Consistent(RunReport)

(* A run that delegate returns can be looked up in the task's history when *)
(* its caller goes on with it: a completed one is applied or is the next   *)
(* stage's candidate, one with a repairable or retryable failure is checked*)
(* before the repair or the retry (validateRunReportHistory, isRunLinked). *)
(* Only a history that could not be written loses a retryable run.         *)
ReturnedRunIsLinked ==
    /\ call.pc = "returned"
    /\ \/ call.last.status = "completed"
       \/ call.last.code \in {"VALIDATION_COMMAND_FAILED", "EVALUATION_FAILED",
                              "EVALUATION_INCONCLUSIVE"}
       \/ faults = MaxFaults /\ call.last.status \in {"failed", "blocked"}
             /\ call.last.code \in FallbackCodes \cup {"WORKER_NO_CHANGES"}
    => call.last \in reports /\ Linked(call.last)

(* What applyRun puts in the repository is the patch of a run that did its *)
(* work, passed its validation and was not failed by its evaluation, and   *)
(* whose task ended with it.                                               *)
AppliedRunPassed ==
    app.patched => /\ journal.status = "completed"
                   /\ journal.last.run = app.report.run
                   /\ journal.last.patch = app.report.patch
                   /\ Passed(journal.last)

(* The history of an application is true: applyRun reports it recorded only*)
(* when the journal says applied, the journal says applied only of a patch *)
(* that git applied, and an application it rejected patched nothing.       *)
HistoryIsTrue ==
    /\ app.recorded => journal.application = "applied"
    /\ app.pc = "idle" /\ app.recording /\ journal.application = "applied" => app.patched
    /\ app.pc = "reject" => ~app.patched

(* A task that was aborted, or whose deadline fired, before its attempt was*)
(* committed never completes: no late result becomes applicable            *)
(* (docs/evaluation.md, executeInWorktree's publicationSignal).            *)
LateRunIsNotApplicable == late => journal.status # "completed"

(* A delegation that returns, or throws an error of its attempts, has      *)
(* removed its worktrees, but for one that a container may still write to, *)
(* which is always kept and whose run has no patch.  Until then, or when   *)
(* the creation or the removal of a worktree throws, the one of the current*)
(* attempt may be there: "the failed worktree is cleaned and a new worktree*)
(* is created for the next candidate" (docs/architecture.md;               *)
(* executeInWorktree's finally, WorktreeManager).                          *)
WorktreesAreCleaned ==
    /\ containers \subseteq worktrees
    /\ call.pc \in {"returned", "thrown"} => worktrees \subseteq containers
    /\ call.pc # "crashed" => worktrees \subseteq containers \cup {call.index}
    /\ \A r \in reports : r.run \in containers => r.patch = 0 /\ r.status # "completed"

(* What the workflow service assumes of a run that it is given: of the     *)
(* completed ones only a research run or a test that took the candidate's  *)
(* changes back has no patch, and a repairable failure is a failed run's.  *)
OutcomesAsAssumed ==
    call.pc = "returned" =>
        /\ call.last.status = "completed" /\ call.last.patch = 0 =>
              \/ call.last.mode \in {"research", "testing"}
              \/ call.last.mode = "review" /\ call.task.seed = 0
        /\ call.last.code \in {"VALIDATION_COMMAND_FAILED", "EVALUATION_FAILED",
                              "EVALUATION_INCONCLUSIVE"}
              => call.last.status = "failed"

(* A run that was linked stays linked: nothing that happens to its task    *)
(* later, a rejected or a lost application included, takes it back.        *)
LinkedForGood == [][\A r \in reports : Linked(r) => Linked(r)']_vars

(* Whoever takes the repository lease gives it back: a delegation whose    *)
(* provider never answers is ended by its deadline.                        *)
LeaseIsReleased == holder # "none" ~> holder = "none"

(* docs/evaluation.md says of injected evaluators that any failure fails   *)
(* the aggregate, and that a failed evaluation makes a completed run       *)
(* failed: the event that says so is one the journal takes.                *)
FailedEvaluationIsRecorded ==
    call.pc = "evaluation" /\ run.evaluation = "failed" => EventAllowed(journal, EvaluationEvent)
=============================================================================
