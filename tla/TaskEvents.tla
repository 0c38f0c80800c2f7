------------------------------ MODULE TaskEvents ------------------------------
(***************************************************************************)
(* The events of a delegated task and the rules they obey                  *)
(* (src/artifacts/task-event-model.ts).  projectTaskEvent replays a journal*)
(* into a projection; EventAllowed says which event may come next and      *)
(* ProjectEvent what it changes.  Events have schema version 7, the one    *)
(* every new task gets; older versions are only read.                      *)
(*                                                                         *)
(* A run is a positive number and 0 is null.  A patch is the number of its *)
(* changed files: a run produces one patch, so its digest tells nothing    *)
(* more.  The sets of failed and unknown dimensions are kept in the attempt*)
(* because isRunLinked reads them back from the timeline.                  *)
(***************************************************************************)
EXTENDS Evaluation

CONSTANT Workers    \* the worker ids of the configuration

WorkerModes == {"research", "implementation", "testing", "review"}
RunStatuses == {"completed", "failed", "blocked", "policy_violation",
                "timed_out", "cancelled"}

(* PROVIDER_FAILURE stands for the transport and response failures of a    *)
(* provider and for WORKER_EMPTY_RESPONSE, which is treated alike,         *)
(* WORKER_LIMIT for the limits of the agent loop, and HARNESS_ERROR for    *)
(* every other code of a HarnessError.                                     *)
FailureCodes == {"PROVIDER_FAILURE", "PROVIDER_TOOL_CALL_LIMIT", "WORKER_LIMIT",
    "WORKER_FAILED", "WORKER_ABORTED", "WORKER_POLICY_VIOLATION",
    "WORKER_NO_CHANGES", "VALIDATION_COMMAND_FAILED", "PATCH_TOO_LARGE",
    "DOCKER_CONTAINER_CLEANUP_FAILED", "EVALUATION_FAILED", "EVALUATION_INCONCLUSIVE",
    "HARNESS_ERROR"}

Outcomes           == {"succeeded", "failed"}
ValidationOutcomes == {"passed", "failed", "skipped"}
Policies           == {"default", "strict"}
Applications       == {"not_requested", "pending", "approved", "applied", "rejected"}

(* isFallbackEligible, isFallbackEligibleCode.                             *)
FallbackCodes == {"PROVIDER_FAILURE", "PROVIDER_TOOL_CALL_LIMIT"}

-----------------------------------------------------------------------------
(* The projection.                                                         *)

Attempt ==
    [run : Nat, worker : Workers \cup {"none"},
     iteration : Nat, modelFailed : BOOLEAN, modelTerminal : BOOLEAN,
     expected : Nat, observed : Nat,
     worked : Outcomes \cup {"none"}, patch : Nat,
     validation : ValidationOutcomes \cup {"none"},
     evaluation : EvaluationOutcomes \cup {"none"}, policy : Policies \cup {"none"},
     failed : SUBSET Dimensions, unknown : SUBSET Dimensions,
     status : RunStatuses \cup {"none"}, failureCode : FailureCodes \cup {"none"}]

NoAttempt ==
    [run |-> 0, worker |-> "none", iteration |-> 0, modelFailed |-> FALSE,
     modelTerminal |-> FALSE, expected |-> 0, observed |-> 0, worked |-> "none", patch |-> 0,
     validation |-> "none", evaluation |-> "none", policy |-> "none",
     failed |-> {}, unknown |-> {}, status |-> "none", failureCode |-> "none"]

(* route is empty until RouteSelected.                                     *)
Projection ==
    [status : RunStatuses \cup {"in_progress"}, route : Seq(Workers), maxAttempts : Nat,
     attemptCount : Nat, known : SUBSET Nat, active : Attempt, last : Attempt,
     application : Applications, applicationRun : Nat]

(* TaskCreated.                                                            *)
InitialProjection ==
    [status |-> "in_progress", route |-> <<>>, maxAttempts |-> 0, attemptCount |-> 0,
     known |-> {}, active |-> NoAttempt, last |-> NoAttempt,
     application |-> "not_requested", applicationRun |-> 0]

FallbackEligible(attempt) ==
    attempt.status = "failed" /\ attempt.failureCode \in FallbackCodes

-----------------------------------------------------------------------------
(* What validateTaskEvent asks of an event's data.                         *)

ValidRoute(e) ==
    /\ e.route # <<>> /\ Len(e.route) <= 64
    /\ \A i, j \in 1..Len(e.route) : e.route[i] = e.route[j] => i = j
    /\ e.maxAttempts \in 1..8
    /\ e.maxAttempts <= Len(e.route)
ValidStart(e) == e.attempt \in 1..8
ValidTurn(e) ==
    /\ e.iteration \in 1..64
    /\ e.toolCalls \in 0..32
    /\ e.outcome = "failed" => e.toolCalls = 0
ValidToolCall(e) == e.iteration \in 1..64
ValidWork(e) == (e.outcome = "succeeded") <=> (e.failureCode = "none")
ValidPatch(e) == e.files \in 1..10000
ValidValidation(e) ==
    /\ e.commands \in 0..20
    /\ e.outcome = "skipped" => e.commands = 0
    /\ e.outcome = "passed" => e.commands # 0
ValidEvaluation(e) ==
    /\ e.failed \cap e.unknown = {}
    /\ e.outcome = "passed" => e.failed = {} /\ e.unknown = {}
    /\ e.outcome = "failed" => e.failed # {}
    /\ e.outcome = "inconclusive" => e.failed = {} /\ e.unknown # {}

(* The events after TaskCreated.                                           *)
TaskEvent ==
         [type : {"RouteSelected"}, route : Seq(Workers), maxAttempts : Nat]
    \cup [type : {"WorkerStarted"}, run : Nat, worker : Workers, attempt : Nat]
    \cup [type : {"ModelTurnCompleted"}, run : Nat, iteration : Nat, outcome : Outcomes,
          toolCalls : Nat]
    \cup [type : {"ToolCalled"}, run : Nat, iteration : Nat]
    \cup [type : {"WorkerCompleted"}, run : Nat, outcome : Outcomes,
          failureCode : FailureCodes \cup {"none"}]
    \cup [type : {"PatchProduced"}, run : Nat, files : Nat]
    \cup [type : {"ValidationCompleted"}, run : Nat, outcome : ValidationOutcomes,
          commands : Nat]
    \cup [type : {"EvaluationCompleted"}, run : Nat, outcome : EvaluationOutcomes,
          policy : Policies, failed : SUBSET Dimensions, unknown : SUBSET Dimensions]
    \cup [type : {"AttemptCompleted", "TaskCompleted"}, run : Nat, status : RunStatuses,
          failureCode : FailureCodes \cup {"none"}]
    \cup [type : {"PatchApplicationRequested", "PatchApproved", "PatchApplicationRejected"},
          run : Nat]
    \cup [type : {"PatchApplied"}, run : Nat, files : Nat]

-----------------------------------------------------------------------------
(* One pair of operators an event type: may it come next, and what then.   *)

Active(t, e) == t.active.run # 0 /\ t.active.run = e.run

RouteAllowed(t, e) ==
    /\ ValidRoute(e)
    /\ t.route = <<>> /\ t.active.run = 0 /\ t.last.run = 0
ProjectRoute(t, e) == [t EXCEPT !.route = e.route, !.maxAttempts = e.maxAttempts]

StartAllowed(t, e) ==
    /\ ValidStart(e)
    /\ e.run # 0
    /\ t.route # <<>> /\ t.active.run = 0
    /\ e.run \notin t.known
    /\ e.attempt = t.attemptCount + 1
    /\ e.attempt <= t.maxAttempts
    /\ e.worker = t.route[e.attempt]
    /\ t.last.run # 0 => FallbackEligible(t.last)
ProjectStart(t, e) ==
    [t EXCEPT !.active = [NoAttempt EXCEPT !.run = e.run, !.worker = e.worker],
              !.known = @ \cup {e.run},
              !.attemptCount = e.attempt]

TurnAllowed(t, e) ==
    /\ ValidTurn(e)
    /\ Active(t, e)
    /\ t.active.worked = "none"
    /\ ~t.active.modelTerminal
    /\ t.active.observed = t.active.expected
    /\ e.iteration = t.active.iteration + 1
ProjectTurn(t, e) ==
    [t EXCEPT !.active.iteration = e.iteration,
              !.active.modelFailed = (e.outcome = "failed"),
              !.active.modelTerminal = (e.outcome = "failed" \/ e.toolCalls = 0),
              !.active.expected = e.toolCalls,
              !.active.observed = 0]

ToolCallAllowed(t, e) ==
    /\ ValidToolCall(e)
    /\ Active(t, e)
    /\ t.active.worked = "none"
    /\ ~t.active.modelFailed
    /\ e.iteration = t.active.iteration
    /\ t.active.observed < t.active.expected
ProjectToolCall(t, e) == [t EXCEPT !.active.observed = @ + 1]

WorkAllowed(t, e) ==
    /\ ValidWork(e)
    /\ Active(t, e)
    /\ t.active.worked = "none"
    /\ t.active.observed = t.active.expected
    /\ t.active.modelFailed => e.outcome = "failed"
    /\ e.outcome = "succeeded" => t.active.modelTerminal
(* From here on nothing reads the turns of the attempt.                    *)
ProjectWork(t, e) ==
    [t EXCEPT !.active = [NoAttempt EXCEPT !.run = e.run, !.worker = t.active.worker,
                                           !.worked = e.outcome]]

PatchAllowed(t, e) ==
    /\ ValidPatch(e)
    /\ Active(t, e)
    /\ t.active.worked # "none"
    /\ t.active.validation = "none"
    /\ t.active.patch = 0
ProjectPatch(t, e) == [t EXCEPT !.active.patch = e.files]

ValidationAllowed(t, e) ==
    /\ ValidValidation(e)
    /\ Active(t, e)
    /\ t.active.worked # "none"
    /\ t.active.validation = "none"
ProjectValidation(t, e) == [t EXCEPT !.active.validation = e.outcome]

EvaluationAllowed(t, e) ==
    /\ ValidEvaluation(e)
    /\ Active(t, e)
    /\ t.active.validation # "none"
    /\ t.active.evaluation = "none"
ProjectEvaluation(t, e) ==
    [t EXCEPT !.active.evaluation = e.outcome, !.active.policy = e.policy,
              !.active.failed = e.failed, !.active.unknown = e.unknown]

(* An attempt completes only with evidence of success, and ends otherwise  *)
(* only with evidence of failure.                                          *)
Passed(attempt) ==
    /\ attempt.worked = "succeeded"
    /\ attempt.validation \in {"passed", "skipped"}
    /\ attempt.evaluation \in {"passed", "inconclusive"}
    /\ attempt.policy = "strict" => attempt.evaluation = "passed"
Inconclusive(attempt, e) ==
    /\ e.status = "failed" /\ e.failureCode = "EVALUATION_INCONCLUSIVE"
    /\ attempt.policy = "strict" /\ attempt.evaluation = "inconclusive"

AttemptEndAllowed(t, e) ==
    /\ Active(t, e)
    /\ t.active.validation # "none" /\ t.active.evaluation # "none"
    /\ e.status = "completed" => Passed(t.active)
    /\ (e.status = "completed") <=> (e.failureCode = "none")
    /\ e.status # "completed" => t.active.evaluation = "failed" \/ Inconclusive(t.active, e)
ProjectAttemptEnd(t, e) ==
    [t EXCEPT !.last = [t.active EXCEPT !.status = e.status, !.failureCode = e.failureCode],
              !.active = NoAttempt]

TaskEndAllowed(t, e) ==
    /\ t.route # <<>> /\ t.active.run = 0
    /\ e.run = t.last.run
    /\ e.status = (IF t.last.run = 0 THEN "timed_out" ELSE t.last.status)
ProjectTaskEnd(t, e) == [t EXCEPT !.status = e.status]

(* assertApplicableRun                                                     *)
ApplicableRun(t, run) ==
    /\ t.status = "completed"
    /\ run # 0 /\ t.last.run = run
    /\ t.last.status = "completed"
    /\ t.last.patch # 0

RequestAllowed(t, e) ==
    /\ ApplicableRun(t, e.run)
    /\ t.application \in {"not_requested", "rejected"}
ProjectRequest(t, e) == [t EXCEPT !.application = "pending", !.applicationRun = e.run]

ApprovalAllowed(t, e) == t.applicationRun = e.run /\ t.application = "pending"
ProjectApproval(t, e) == [t EXCEPT !.application = "approved"]

AppliedAllowed(t, e) ==
    /\ t.applicationRun = e.run /\ t.application = "approved"
    /\ e.files = t.last.patch
ProjectApplied(t, e) == [t EXCEPT !.application = "applied"]

RejectionAllowed(t, e) == t.applicationRun = e.run /\ t.application \in {"pending", "approved"}
(* Mutant: a rejected application fails the task.                          *)
ProjectRejectionOfTask(t, e) == [t EXCEPT !.application = "rejected", !.status = "failed"]

ProjectRejection(t, e) == [t EXCEPT !.application = "rejected"]

-----------------------------------------------------------------------------
ExecutionEvents == {"RouteSelected", "WorkerStarted", "ModelTurnCompleted", "ToolCalled",
    "WorkerCompleted", "PatchProduced", "ValidationCompleted", "EvaluationCompleted",
    "AttemptCompleted", "TaskCompleted"}

(* projectTaskEvent of an event that validateTaskEvent accepts.            *)
EventAllowed(t, e) ==
    /\ e.type \in ExecutionEvents => t.status = "in_progress"
    /\ CASE e.type = "RouteSelected"             -> RouteAllowed(t, e)
         [] e.type = "WorkerStarted"             -> StartAllowed(t, e)
         [] e.type = "ModelTurnCompleted"        -> TurnAllowed(t, e)
         [] e.type = "ToolCalled"                -> ToolCallAllowed(t, e)
         [] e.type = "WorkerCompleted"           -> WorkAllowed(t, e)
         [] e.type = "PatchProduced"             -> PatchAllowed(t, e)
         [] e.type = "ValidationCompleted"       -> ValidationAllowed(t, e)
         [] e.type = "EvaluationCompleted"       -> EvaluationAllowed(t, e)
         [] e.type = "AttemptCompleted"          -> AttemptEndAllowed(t, e)
         [] e.type = "TaskCompleted"             -> TaskEndAllowed(t, e)
         [] e.type = "PatchApplicationRequested" -> RequestAllowed(t, e)
         [] e.type = "PatchApproved"             -> ApprovalAllowed(t, e)
         [] e.type = "PatchApplied"              -> AppliedAllowed(t, e)
         [] e.type = "PatchApplicationRejected"  -> RejectionAllowed(t, e)

ProjectEvent(t, e) ==
    CASE e.type = "RouteSelected"             -> ProjectRoute(t, e)
      [] e.type = "WorkerStarted"             -> ProjectStart(t, e)
      [] e.type = "ModelTurnCompleted"        -> ProjectTurn(t, e)
      [] e.type = "ToolCalled"                -> ProjectToolCall(t, e)
      [] e.type = "WorkerCompleted"           -> ProjectWork(t, e)
      [] e.type = "PatchProduced"             -> ProjectPatch(t, e)
      [] e.type = "ValidationCompleted"       -> ProjectValidation(t, e)
      [] e.type = "EvaluationCompleted"       -> ProjectEvaluation(t, e)
      [] e.type = "AttemptCompleted"          -> ProjectAttemptEnd(t, e)
      [] e.type = "TaskCompleted"             -> ProjectTaskEnd(t, e)
      [] e.type = "PatchApplicationRequested" -> ProjectRequest(t, e)
      [] e.type = "PatchApproved"             -> ProjectApproval(t, e)
      [] e.type = "PatchApplied"              -> ProjectApplied(t, e)
      [] e.type = "PatchApplicationRejected"  -> ProjectRejection(t, e)
=============================================================================
