------------------------- MODULE MCWorkflowService -------------------------
(***************************************************************************)
(* Instances of WorkflowService for TLC: the processes that serve the      *)
(* calls, a few definitions, and one worker outcome for each way that      *)
(* stageResult can take.                                                   *)
(***************************************************************************)
EXTENDS WorkflowService, TLC

CONSTANTS c1, c2, p1, p2

SharedProcess == [c \in Calls |-> p1]
OwnProcesses  == (c1 :> p1) @@ (c2 :> p2)

Once(stages) == [s \in WorkerStages |-> IF s \in stages THEN 1 ELSE 0]

(* One retry, one repair, three starts.                                    *)
Repairable ==
    [stages |-> {"implement", "repair"}, retryLimit |-> Once({"implement"}),
     maxTransitions |-> 3, maxRepairAttempts |-> 1, dependencies |-> 0]
(* Every stage after the plan, and two repairs.                            *)
FullPipeline ==
    [stages |-> WorkerStages \ {"plan"}, retryLimit |-> Once({"implement", "test"}),
     maxTransitions |-> 6, maxRepairAttempts |-> 2, dependencies |-> 0]
(* Two dependencies before a planned implementation.                       *)
Dependent ==
    [stages |-> {"plan", "implement"}, retryLimit |-> Once({"plan"}),
     maxTransitions |-> 3, maxRepairAttempts |-> 0, dependencies |-> 2]
(* A test stage after the implementation.                                  *)
Tested ==
    [stages |-> {"implement", "test", "repair"}, retryLimit |-> Once({}),
     maxTransitions |-> 3, maxRepairAttempts |-> 1, dependencies |-> 0]

(* The smallest: one stage that may be retried once.                       *)
Retryable ==
    [stages |-> {"implement"}, retryLimit |-> Once({"implement"}),
     maxTransitions |-> 2, maxRepairAttempts |-> 0, dependencies |-> 0]

(* A test stage without a repair.                                          *)
TestedOnce ==
    [stages |-> {"implement", "test"}, retryLimit |-> Once({}),
     maxTransitions |-> 2, maxRepairAttempts |-> 0, dependencies |-> 0]

JustRetryable  == {Retryable}
SmallOnes      == {Retryable, TestedOnce}
JustRepairable == {Repairable}
Pipelines      == {FullPipeline, Dependent}
JustTested     == {Tested}

Report(status, code, patch) ==
    [report |-> TRUE, patch |-> patch, status |-> status, failureCode |-> code]
Thrown(status, code) ==
    [report |-> FALSE, patch |-> FALSE, status |-> status, failureCode |-> code]

FewOutcomes ==
    {Report("completed", "none", TRUE),
     Report("failed", "PROVIDER_ERROR", FALSE),
     Report("failed", "EVALUATION_FAILED", TRUE)}
SharedOutcomes == FewOutcomes \cup {Report("completed", "none", FALSE)}
AllOutcomes == FewOutcomes \cup
    {Report("completed", "none", FALSE),
     Report("blocked", "WORKER_NO_CHANGES", FALSE),
     Report("failed", "VALIDATION_COMMAND_FAILED", FALSE),
     Report("timed_out", "WORKFLOW_STAGE_FAILED", TRUE),
     Report("policy_violation", "WORKFLOW_STAGE_FAILED", FALSE),
     Thrown("failed", "WORKFLOW_STAGE_FAILED")}
=============================================================================
