--------------------------- MODULE WorkflowEvents ---------------------------
(***************************************************************************)
(* The event model of a durable workflow (src/workflow/event-model.ts and  *)
(* src/workflow/transitions.ts): which event may follow a journal, and the *)
(* projection ("summary") that replaying the journal yields.               *)
(*                                                                         *)
(* The journal applies these rules twice: before it publishes an event     *)
(* (append) and whenever it replays the events it finds (readTimeline).    *)
(*                                                                         *)
(* A run and the task that holds it are born together, so "runId" stands   *)
(* for the pair (taskId, runId).  Runs and executions are numbered; 0 is   *)
(* the code's null.  "none" is the null stage, failure code and decision.  *)
(***************************************************************************)
EXTENDS Integers, Sequences, FiniteSets

WorkerStages == {"plan", "implement", "test", "review", "repair"}
StageNames   == WorkerStages \cup {"approval", "none"}

RunStatuses == {"completed", "failed", "blocked", "policy_violation",
                "timed_out", "cancelled"}
TerminalStatuses == {"completed", "failed", "blocked", "timed_out", "cancelled"}
WorkflowStatuses == TerminalStatuses \cup
    {"pending", "running", "waiting_for_dependency", "waiting_for_approval"}

(* "PROVIDER_ERROR" stands for every code with the prefix PROVIDER_.       *)
RetryableFailures  == {"PROVIDER_ERROR", "WORKER_EMPTY_RESPONSE", "WORKER_NO_CHANGES"}
RepairableFailures == {"VALIDATION_COMMAND_FAILED", "EVALUATION_FAILED",
                       "EVALUATION_INCONCLUSIVE"}
FailureCodes == RetryableFailures \cup RepairableFailures \cup
    {"WORKFLOW_STAGE_FAILED", "WORKFLOW_CANCELLED", "WORKFLOW_DEADLINE_EXCEEDED",
     "WORKFLOW_CANDIDATE_MISSING", "WORKFLOW_CANDIDATE_INVALID",
     "WORKFLOW_CANDIDATE_HISTORY_MISMATCH",
     "WORKFLOW_RUN_HISTORY_MISMATCH", "WORKFLOW_DEPENDENCY_FAILED",
     "WORKFLOW_TRANSITION_LIMIT", "WORKFLOW_STAGE_RETRY_LIMIT",
     "WORKFLOW_APPROVAL_REJECTED", "none"}

(* A definition, as validateWorkflowDefinition accepts it.  Every limit    *)
(* the validation states is here; the stages' objectives, paths, commands  *)
(* and routing are not.                                                    *)
ValidDefinition ==
    {d \in [stages            : SUBSET WorkerStages,
            retryLimit        : [WorkerStages -> 0..2],
            maxTransitions    : 1..64,
            maxRepairAttempts : 0..5,
            dependencies      : 0..16] :
        /\ "implement" \in d.stages
        /\ d.retryLimit["repair"] = 0
        /\ ("repair" \in d.stages) <=> (d.maxRepairAttempts > 0)}

NextCandidateStage(d) ==
    IF "test" \in d.stages THEN "test"
    ELSE IF "review" \in d.stages THEN "review" ELSE "approval"

NextSuccessfulStage(d, stage) ==
    CASE stage = "plan"                    -> "implement"
      [] stage = "test"                    -> IF "review" \in d.stages
                                              THEN "review" ELSE "approval"
      [] stage = "review"                  -> "approval"
      [] stage \in {"implement", "repair"} -> NextCandidateStage(d)

(***************************************************************************)
(* The projection.                                                         *)
(***************************************************************************)
Projection ==
    [status             : WorkflowStatuses,
     currentStage       : StageNames,
     activeExecutionId  : Nat,
     candidateRunId     : Nat,
     transitionCount    : Nat,
     repairAttemptCount : Nat,
     stageAttempts      : [WorkerStages -> Nat],
     retryTransitions   : [WorkerStages -> Nat],
     approvalRequested  : BOOLEAN,
     approvalDecision   : {"none", "approved", "rejected"},
     lastFailureCode    : FailureCodes]

InitialProjection(d) ==
    [status             |-> "pending",
     currentStage       |-> IF "plan" \in d.stages THEN "plan" ELSE "implement",
     activeExecutionId  |-> 0,
     candidateRunId     |-> 0,
     transitionCount    |-> 0,
     repairAttemptCount |-> 0,
     stageAttempts      |-> [s \in WorkerStages |-> 0],
     retryTransitions   |-> [s \in WorkerStages |-> 0],
     approvalRequested  |-> FALSE,
     approvalDecision   |-> "none",
     lastFailureCode    |-> "none"]

Terminal(p) == p.status \in TerminalStatuses

(***************************************************************************)
(* The events.                                                             *)
(***************************************************************************)
CreatedEvent == [type |-> "WorkflowCreated"]

DependencyEvent(state) ==
    [type |-> "WorkflowDependencyStateChanged", state |-> state]

StartedEvent(stage, execution, attempt, source) ==
    [type |-> "WorkflowStageStarted", stage |-> stage, executionId |-> execution,
     attemptNumber |-> attempt, sourceRunId |-> source]

InterruptedEvent(stage, execution, reason) ==
    [type |-> "WorkflowStageInterrupted", stage |-> stage,
     executionId |-> execution, reason |-> reason]

StageCompletedEvent(stage, execution, run, status, code, candidate, nextStage) ==
    [type |-> "WorkflowStageCompleted", stage |-> stage, executionId |-> execution,
     runId |-> run, status |-> status, failureCode |-> code,
     candidateRunId |-> candidate, nextStage |-> nextStage]

RequestedEvent(candidate) ==
    [type |-> "WorkflowApprovalRequested", candidateRunId |-> candidate]

DecidedEvent(decision, nextStage) ==
    [type |-> "WorkflowApprovalDecided", decision |-> decision, nextStage |-> nextStage]

CompletedEvent(status, code, candidate) ==
    [type |-> "WorkflowCompleted", status |-> status, failureCode |-> code,
     candidateRunId |-> candidate]

WorkflowEvent ==
    {CreatedEvent}
    \cup [type : {"WorkflowDependencyStateChanged"}, state : {"waiting", "ready"}]
    \cup [type : {"WorkflowStageStarted"}, stage : WorkerStages, executionId : Nat,
          attemptNumber : Nat, sourceRunId : Nat]
    \cup [type : {"WorkflowStageInterrupted"}, stage : WorkerStages,
          executionId : Nat, reason : {"resume", "cancel", "deadline"}]
    \cup [type : {"WorkflowStageCompleted"}, stage : WorkerStages, executionId : Nat,
          runId : Nat, status : RunStatuses, failureCode : FailureCodes,
          candidateRunId : Nat, nextStage : StageNames]
    \cup [type : {"WorkflowApprovalRequested"}, candidateRunId : Nat]
    \cup [type : {"WorkflowApprovalDecided"}, decision : {"approved", "rejected"},
          nextStage : StageNames]
    \cup [type : {"WorkflowCompleted"}, status : TerminalStatuses,
          failureCode : FailureCodes, candidateRunId : Nat]

(***************************************************************************)
(* Dependency waits.                                                       *)
(***************************************************************************)
DependencyAllowed(d, p, e) ==
    /\ d.dependencies > 0
    /\ p.activeExecutionId = 0
    /\ ~p.approvalRequested
    /\ e.state = "waiting" => p.status = "pending"
    /\ e.state = "ready" => p.status = "waiting_for_dependency"

(* Mutant: the wait is not recorded in the status.                         *)
ProjectDependencyWithoutWait(p, e) == [p EXCEPT !.status = "pending"]

ProjectDependency(p, e) ==
    [p EXCEPT !.status = IF e.state = "waiting" THEN "waiting_for_dependency"
                         ELSE "pending"]

(***************************************************************************)
(* Stages.                                                                 *)
(***************************************************************************)
ExpectedSource(p, stage) ==
    IF stage \in {"plan", "implement"} THEN 0 ELSE p.candidateRunId

StartAllowed(d, p, e) ==
    /\ e.stage \in d.stages
    /\ p.currentStage = e.stage
    /\ p.activeExecutionId = 0
    /\ ~p.approvalRequested
    /\ e.executionId # 0
    /\ e.attemptNumber = p.stageAttempts[e.stage] + 1
    /\ e.stage = "repair" => p.repairAttemptCount < d.maxRepairAttempts
    /\ e.sourceRunId = ExpectedSource(p, e.stage)
    /\ p.transitionCount < d.maxTransitions

(* Mutant: a repair attempt is charged when it starts.                     *)
ProjectStartChargingRepair(p, e) ==
    [p EXCEPT !.stageAttempts[e.stage] = e.attemptNumber,
              !.transitionCount = @ + 1,
              !.repairAttemptCount = @ + (IF e.stage = "repair" THEN 1 ELSE 0),
              !.activeExecutionId = e.executionId,
              !.status = "running"]

ProjectStart(p, e) ==
    [p EXCEPT !.stageAttempts[e.stage] = e.attemptNumber,
              !.transitionCount = @ + 1,
              !.activeExecutionId = e.executionId,
              !.status = "running"]

InterruptAllowed(d, p, e) ==
    /\ e.executionId # 0
    /\ p.activeExecutionId = e.executionId
    /\ p.currentStage = e.stage

ProjectInterrupt(p, e) ==
    [p EXCEPT !.activeExecutionId = 0, !.status = "pending"]

(* isAllowedNextStage: where a completion of each status may lead.         *)
RepairBudgetLeft(d, p, stage) ==
    p.repairAttemptCount + (IF stage = "repair" THEN 1 ELSE 0) < d.maxRepairAttempts

NextStageAllowed(d, p, e) ==
    CASE e.status \in {"cancelled", "timed_out", "policy_violation"} ->
            e.nextStage = "none"
      [] e.status = "completed" -> e.nextStage = NextSuccessfulStage(d, e.stage)
      [] e.status \in {"failed", "blocked"} ->
            \/ e.nextStage = "none"
            \/ /\ e.nextStage = "repair"
               /\ "repair" \in d.stages
               /\ e.failureCode \in RepairableFailures
               /\ RepairBudgetLeft(d, p, e.stage)
            \/ /\ e.nextStage = e.stage
               /\ e.stage # "repair"
               /\ e.failureCode \in RetryableFailures
               /\ p.retryTransitions[e.stage] < d.retryLimit[e.stage]

StageCompletionAllowed(d, p, e) ==
    /\ p.currentStage = e.stage
    /\ e.executionId # 0
    /\ p.activeExecutionId = e.executionId
    /\ (e.status = "completed") <=> (e.failureCode = "none")
    /\ e.status = "completed" => e.runId # 0
    /\ e.status = "completed" /\ e.stage # "plan" => e.candidateRunId = e.runId
    /\ e.stage = "plan" => e.candidateRunId = p.candidateRunId
    /\ e.status # "completed" /\ e.nextStage # "repair"
            => e.candidateRunId = p.candidateRunId
    /\ e.status # "completed" /\ e.nextStage \in {e.stage, "repair"} => e.runId # 0
    /\ e.status # "completed" /\ e.nextStage = "repair" => e.candidateRunId = e.runId
    /\ NextStageAllowed(d, p, e)

(* Mutant: only a completed stage hands over its candidate.                *)
ProjectStageCompletionOfSuccess(p, e) ==
    [p EXCEPT !.activeExecutionId = 0,
              !.retryTransitions[e.stage] =
                  @ + (IF e.stage # "repair" /\ e.nextStage = e.stage THEN 1 ELSE 0),
              !.repairAttemptCount = @ + (IF e.stage = "repair" THEN 1 ELSE 0),
              !.candidateRunId = IF e.status = "completed" THEN e.candidateRunId ELSE @,
              !.currentStage = e.nextStage,
              !.lastFailureCode = e.failureCode,
              !.status = "pending"]

ProjectStageCompletion(p, e) ==
    [p EXCEPT !.activeExecutionId = 0,
              !.retryTransitions[e.stage] =
                  @ + (IF e.stage # "repair" /\ e.nextStage = e.stage THEN 1 ELSE 0),
              !.repairAttemptCount = @ + (IF e.stage = "repair" THEN 1 ELSE 0),
              !.candidateRunId = e.candidateRunId,
              !.currentStage = e.nextStage,
              !.lastFailureCode = e.failureCode,
              !.status = "pending"]

(***************************************************************************)
(* Approval and completion.                                                *)
(***************************************************************************)
RequestAllowed(d, p, e) ==
    /\ p.currentStage = "approval"
    /\ p.activeExecutionId = 0
    /\ e.candidateRunId # 0
    /\ e.candidateRunId = p.candidateRunId
    /\ ~p.approvalRequested

ProjectRequest(p, e) ==
    [p EXCEPT !.approvalRequested = TRUE,
              !.approvalDecision = "none",
              !.status = "waiting_for_approval"]

DecisionAllowed(d, p, e) ==
    /\ p.approvalRequested
    /\ p.status = "waiting_for_approval"
    /\ p.currentStage = "approval"
    /\ e.decision = "approved" => e.nextStage = "none"
    /\ e.decision = "rejected" => e.nextStage \in {"none", "repair"}
    /\ e.nextStage = "repair" => /\ "repair" \in d.stages
                                 /\ p.repairAttemptCount < d.maxRepairAttempts

(* Mutant: an approval leaves the workflow in its approval stage.          *)
ProjectDecisionInStage(p, e) ==
    [p EXCEPT !.approvalRequested = FALSE,
              !.approvalDecision = e.decision,
              !.currentStage = IF e.decision = "approved" THEN @ ELSE e.nextStage,
              !.status = "pending",
              !.lastFailureCode = IF e.decision = "rejected"
                                  THEN "WORKFLOW_APPROVAL_REJECTED" ELSE @]

ProjectDecision(p, e) ==
    [p EXCEPT !.approvalRequested = FALSE,
              !.approvalDecision = e.decision,
              !.currentStage = e.nextStage,
              !.status = "pending",
              !.lastFailureCode = IF e.decision = "rejected"
                                  THEN "WORKFLOW_APPROVAL_REJECTED" ELSE @]

CompletionAllowed(d, p, e) ==
    /\ p.activeExecutionId = 0
    /\ e.candidateRunId = p.candidateRunId
    /\ (e.status = "completed") <=> (e.failureCode = "none")
    /\ e.status = "completed" => /\ ~p.approvalRequested
                                 /\ p.approvalDecision = "approved"
                                 /\ p.candidateRunId # 0

(* Mutant: a workflow that ends with a candidate counts as completed.      *)
ProjectCompletionByCandidate(p, e) ==
    [p EXCEPT !.currentStage = "none",
              !.approvalRequested = FALSE,
              !.status = IF p.candidateRunId # 0 THEN "completed" ELSE e.status,
              !.lastFailureCode = e.failureCode]

ProjectCompletion(p, e) ==
    [p EXCEPT !.currentStage = "none",
              !.approvalRequested = FALSE,
              !.status = e.status,
              !.lastFailureCode = e.failureCode]

(***************************************************************************)
(* projectWorkflowEvent: the rule and the effect of every event type.      *)
(***************************************************************************)
EventAllowed(d, p, e) ==
    /\ ~Terminal(p)
    /\ CASE e.type = "WorkflowDependencyStateChanged" -> DependencyAllowed(d, p, e)
         [] e.type = "WorkflowStageStarted"           -> StartAllowed(d, p, e)
         [] e.type = "WorkflowStageInterrupted"       -> InterruptAllowed(d, p, e)
         [] e.type = "WorkflowStageCompleted"         -> StageCompletionAllowed(d, p, e)
         [] e.type = "WorkflowApprovalRequested"      -> RequestAllowed(d, p, e)
         [] e.type = "WorkflowApprovalDecided"        -> DecisionAllowed(d, p, e)
         [] e.type = "WorkflowCompleted"              -> CompletionAllowed(d, p, e)
         [] OTHER                                     -> FALSE

ProjectEvent(p, e) ==
    CASE e.type = "WorkflowDependencyStateChanged" -> ProjectDependency(p, e)
      [] e.type = "WorkflowStageStarted"           -> ProjectStart(p, e)
      [] e.type = "WorkflowStageInterrupted"       -> ProjectInterrupt(p, e)
      [] e.type = "WorkflowStageCompleted"         -> ProjectStageCompletion(p, e)
      [] e.type = "WorkflowApprovalRequested"      -> ProjectRequest(p, e)
      [] e.type = "WorkflowApprovalDecided"        -> ProjectDecision(p, e)
      [] e.type = "WorkflowCompleted"              -> ProjectCompletion(p, e)
=============================================================================
