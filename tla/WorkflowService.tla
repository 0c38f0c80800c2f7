--------------------------- MODULE WorkflowService ---------------------------
(***************************************************************************)
(* The workflow service (src/workflow/service.ts): concurrent calls of     *)
(* run, approve and cancel on one workflow, from several server processes, *)
(* over the workflow's append-only journal.                                *)
(*                                                                         *)
(* A call is a little process whose pc stands at the code's await points.  *)
(* Between two of them other calls run, a cancellation may abort the call, *)
(* the absolute deadline may pass, and its server process may die.         *)
(* Publishing an event is a step of its own (journal.append), so a signal  *)
(* can arrive between deciding on an event and publishing it.              *)
(*                                                                         *)
(* Only the holder of the workflow lease publishes, so a step that uses a  *)
(* timeline the code read earlier under the same lease reads "summary".    *)
(* The lease is the abstract lock that module WorkflowLease implements.    *)
(* A worker delegation is external: it returns any member of Outcomes.     *)
(***************************************************************************)
EXTENDS WorkflowEvents

CONSTANTS
    Calls,          \* identities of concurrent tool calls
    Processes,      \* server processes
    ProcessOf,      \* the process that serves each call
    Definitions,    \* the workflow definitions that create may have stored
    Outcomes,       \* what a delegation to a worker may end in
    TestsMayRevert, \* a worker of the test stage may undo the whole candidate
    NoCall

(* What delegate() returns: a report with or without a patch, or an        *)
(* exception ("report" FALSE), with the status classifyStageError gives it.*)
Outcome == [report : BOOLEAN, patch : BOOLEAN, status : RunStatuses,
            failureCode : FailureCodes]

ASSUME CallAssumption ==
    /\ ProcessOf \in [Calls -> Processes]
    /\ NoCall \notin Calls
ASSUME DefinitionAssumption == Definitions \subseteq ValidDefinition
(* executeInWorktree catches the errors of a provider, so a retryable      *)
(* failure comes with a report, and only a failed run has a repairable one.*)
ASSUME OutcomeAssumption ==
    /\ TestsMayRevert \in BOOLEAN
    /\ Outcomes \subseteq Outcome
    /\ \A o \in Outcomes :
          /\ (o.status = "completed") <=> (o.failureCode = "none")
          /\ o.patch => o.report
          /\ ~o.report => o.status # "completed" /\ o.failureCode \notin RetryableFailures
          /\ o.failureCode \in RepairableFailures => o.status = "failed"

VARIABLES
    definition,  \* the immutable definition, in the journal's first event
    events,      \* the journal: the published events, in order
    summary,     \* the projection that replaying the journal yields
    dependency,  \* status of each workflow this one depends on
    expired,     \* the absolute deadline has passed
    lease,       \* the call that holds the workflow lease
    active,      \* per process: the call registered in activeWorkflows
    calls        \* the state of each call

vars == <<definition, events, summary, dependency, expired, lease, active, calls>>
journal == <<definition, events, summary>>

(***************************************************************************)
(* Calls.                                                                  *)
(***************************************************************************)
Operations == {"run", "approve", "reject", "cancel"}

CallPoints == {"idle", "acquire", "load", "recover", "dependencies", "waited",
    "loop", "validate", "requested", "delegate", "settled", "decided", "append",
    "finalize", "await", "release", "unregister", "returned"}

NoEvent == [type |-> "none"]

(* aborted: the call's abort signal; event, guard, next: the append that   *)
(* last begun, the signals it obeys and where the call goes on; reason: why*)
(* finalizeInterruptedRun runs; awaits: the call a cancel waits for.       *)
IdleCall ==
    [op |-> "run", pc |-> "idle", aborted |-> FALSE, event |-> NoEvent,
     guard |-> "plain", next |-> "idle", reason |-> "none", awaits |-> NoCall,
     result |-> "none"]

Call == [op : Operations, pc : CallPoints, aborted : BOOLEAN,
         event : WorkflowEvent \cup {NoEvent},
         guard : {"plain", "deadline", "stage"}, next : CallPoints,
         reason : {"none", "cancel", "deadline"},
         awaits : Calls \cup {NoCall}, result : {"none", "ok", "busy", "error"}]

Deciding(c) == calls[c].op \in {"approve", "reject"}
Registered(c) == active[ProcessOf[c]] = c
LastEvent == events[Len(events)]

At(c, pc) == calls[c].pc = pc
Goto(c, pc) == calls' = [calls EXCEPT ![c].pc = pc]
Finish(c, result) ==
    calls' = [calls EXCEPT ![c].pc = "release", ![c].result = result]

(* Begin journal.append(e, signal); on success the call goes on at next.   *)
(* guard "plain": no signal; "deadline": appendBeforeDeadline's; "stage":  *)
(* the signal of the stage.                                                *)
Publish(c, e, guard, next) ==
    calls' = [calls EXCEPT ![c].pc = "append", ![c].event = e,
                           ![c].guard = guard, ![c].next = next]

Complete(c, status, code) ==
    Publish(c, CompletedEvent(status, code, summary.candidateRunId), "plain", "release")

Interrupted(c) == calls[c].aborted \/ expired

(* The end a cancelled or expired call records; cancellation has priority. *)
CompleteInterrupted(c) ==
    IF calls[c].aborted THEN Complete(c, "cancelled", "WORKFLOW_CANCELLED")
    ELSE Complete(c, "timed_out", "WORKFLOW_DEADLINE_EXCEEDED")

PublishBeforeDeadline(c, e, next) ==
    IF expired THEN CompleteInterrupted(c) ELSE Publish(c, e, "deadline", next)

CompleteBeforeDeadline(c, status, code) ==
    PublishBeforeDeadline(c, CompletedEvent(status, code, summary.candidateRunId), "release")

InterruptActive(c, reason, next) ==
    Publish(c, InterruptedEvent(summary.currentStage, summary.activeExecutionId, reason),
            "plain", next)

(***************************************************************************)
(* Entering and leaving a call.                                            *)
(***************************************************************************)
Init ==
    /\ definition \in Definitions
    /\ events = <<CreatedEvent>>
    /\ summary = InitialProjection(definition)
    /\ dependency = [i \in 1..definition.dependencies |-> "active"]
    /\ expired = FALSE
    /\ lease = NoCall
    /\ active = [p \in Processes |-> NoCall]
    /\ calls = [c \in Calls |-> IdleCall]

(* run and approve register in activeWorkflows, or fail with WORKFLOW_BUSY *)
(* when the process already works on this workflow.                        *)
Enter(c, op) ==
    /\ At(c, "idle")
    /\ op # "cancel"
    /\ active[ProcessOf[c]] = NoCall
    /\ active' = [active EXCEPT ![ProcessOf[c]] = c]
    /\ calls' = [calls EXCEPT ![c] = [IdleCall EXCEPT !.op = op, !.pc = "acquire"]]
    /\ UNCHANGED <<journal, dependency, expired, lease>>

(* cancel aborts the call this process works on and awaits its completion; *)
(* without one it takes the lease itself.                                  *)
Cancel(c) ==
    /\ At(c, "idle")
    /\ LET target == active[ProcessOf[c]] IN
       calls' = IF target = NoCall
                THEN [calls EXCEPT ![c] = [IdleCall EXCEPT !.op = "cancel", !.pc = "acquire"]]
                ELSE [calls EXCEPT ![c] = [IdleCall EXCEPT !.op = "cancel", !.pc = "await",
                                                           !.awaits = target],
                                   ![target].aborted = TRUE]
    /\ UNCHANGED <<journal, dependency, expired, lease, active>>

AwaitedCompletion(c) ==
    /\ At(c, "await")
    /\ calls[c].awaits = NoCall
    /\ calls' = [calls EXCEPT ![c].pc = "returned", ![c].result = "ok"]
    /\ UNCHANGED <<journal, dependency, expired, lease, active>>

(* Mutant: a contender that sees the lease taken goes on all the same.     *)
AcquireUnchecked(c) ==
    /\ At(c, "acquire")
    /\ lease' = c
    /\ Goto(c, "load")
    /\ UNCHANGED <<journal, dependency, expired, active>>

Acquire(c) ==
    /\ At(c, "acquire")
    /\ lease = NoCall
    /\ lease' = c
    /\ Goto(c, "load")
    /\ UNCHANGED <<journal, dependency, expired, active>>

(* WORKFLOW_BUSY: somebody holds the lease, or contends for it.            *)
Refuse(c) ==
    /\ At(c, "acquire")
    /\ \/ lease # NoCall
       \/ \E d \in Calls \ {c} : At(d, "acquire")
    /\ calls' = [calls EXCEPT ![c].pc = "unregister", ![c].result = "busy"]
    /\ UNCHANGED <<journal, dependency, expired, lease, active>>

Release(c) ==
    /\ At(c, "release")
    /\ lease' = IF lease = c THEN NoCall ELSE lease
    /\ calls' = [calls EXCEPT ![c] = [IdleCall EXCEPT !.op = calls[c].op, !.pc = "unregister",
                    !.result = IF calls[c].result = "none" THEN "ok" ELSE calls[c].result]]
    /\ UNCHANGED <<journal, dependency, expired, active>>

(* Mutant: the completion of the call is never resolved.                   *)
UnregisterSilently(c) ==
    /\ At(c, "unregister")
    /\ active' = IF Registered(c) THEN [active EXCEPT ![ProcessOf[c]] = NoCall] ELSE active
    /\ calls' = [calls EXCEPT ![c].pc = "returned"]
    /\ UNCHANGED <<journal, dependency, expired, lease>>

(* activeWorkflows.delete and resolveCompletion, which wakes every cancel  *)
(* that awaits this call; a cancel was never registered.                   *)
Unregister(c) ==
    /\ At(c, "unregister")
    /\ active' = IF Registered(c) THEN [active EXCEPT ![ProcessOf[c]] = NoCall] ELSE active
    /\ calls' = [d \in Calls |->
                    IF d = c THEN [calls[c] EXCEPT !.pc = "returned"]
                    ELSE IF calls[d].awaits = c THEN [calls[d] EXCEPT !.awaits = NoCall]
                    ELSE calls[d]]
    /\ UNCHANGED <<journal, dependency, expired, lease>>

(* The caller takes the result; the identity may serve another call.       *)
Return(c) ==
    /\ At(c, "returned")
    /\ calls' = [calls EXCEPT ![c] = IdleCall]
    /\ UNCHANGED <<journal, dependency, expired, lease, active>>

(***************************************************************************)
(* journal.append.                                                         *)
(***************************************************************************)
(* Mutant: append never looks at its signal before it publishes.           *)
AppendUnsignalled(c) == FALSE

AppendSignalled(c) ==
    /\ calls[c].guard # "plain"
    /\ calls[c].aborted

JournalAppend(c) ==
    /\ At(c, "append")
    /\ ~AppendSignalled(c)
    /\ EventAllowed(definition, summary, calls[c].event)
    /\ events' = events \o <<calls[c].event>>
    /\ summary' = ProjectEvent(summary, calls[c].event)
    /\ calls' = [calls EXCEPT ![c].pc = calls[c].next, ![c].guard = "plain",
                              ![c].next = "idle"]
    /\ UNCHANGED <<definition, dependency, expired, lease, active>>

(* The event contradicts the journal: append throws                        *)
(* INVALID_WORKFLOW_TRANSITION.  run finalizes when it was cancelled       *)
(* meanwhile; otherwise the call fails with the error.                     *)
AppendRejected(c) ==
    /\ At(c, "append")
    /\ ~AppendSignalled(c)
    /\ ~EventAllowed(definition, summary, calls[c].event)
    /\ IF calls[c].op = "run" /\ calls[c].aborted /\ calls[c].reason = "none"
       THEN calls' = [calls EXCEPT ![c].pc = "finalize", ![c].reason = "cancel"]
       ELSE Finish(c, "error")
    /\ UNCHANGED <<journal, dependency, expired, lease, active>>

(* The signal fires before the event is published.  The deadline's timer   *)
(* may lag behind the deadline, so an expired append may also succeed.     *)
(* appendBeforeDeadline gives up the event and the call completes the      *)
(* workflow; a stage's append throws into run's catch.                     *)
AppendInterrupted(c) ==
    /\ At(c, "append")
    /\ calls[c].guard # "plain"
    /\ Interrupted(c)
    /\ IF calls[c].guard = "deadline"
       THEN CompleteInterrupted(c)
       ELSE calls' = [calls EXCEPT ![c].pc = "finalize",
                 ![c].reason = IF calls[c].aborted THEN "cancel" ELSE "deadline"]
    /\ UNCHANGED <<journal, dependency, expired, lease, active>>

(* finalizeInterruptedRun: record the interrupted stage, then the end.     *)
Finalize(c) ==
    /\ At(c, "finalize")
    /\ IF Terminal(summary) THEN Finish(c, "ok")
       ELSE IF summary.activeExecutionId # 0
       THEN InterruptActive(c, calls[c].reason, "finalize")
       ELSE IF calls[c].reason = "cancel"
       THEN Complete(c, "cancelled", "WORKFLOW_CANCELLED")
       ELSE Complete(c, "timed_out", "WORKFLOW_DEADLINE_EXCEEDED")
    /\ UNCHANGED <<journal, dependency, expired, lease, active>>

(***************************************************************************)
(* run: resuming what the journal left unfinished.                         *)
(***************************************************************************)
Load(c) ==
    /\ At(c, "load")
    /\ calls[c].op = "run"
    /\ IF Terminal(summary) THEN Finish(c, "ok")
       ELSE IF summary.activeExecutionId = 0 THEN Goto(c, "recover")
       ELSE InterruptActive(c, IF calls[c].aborted THEN "cancel"
                               ELSE IF expired THEN "deadline" ELSE "resume", "recover")
    /\ UNCHANGED <<journal, dependency, expired, lease, active>>

(* Mutant: a stage's last status ends the workflow as it is.               *)
SameStatus(status) == status

(* workflowTerminalStatus: the end a stage's last status stands for.       *)
TerminalStatus(status) ==
    CASE status \in {"cancelled", "timed_out"}         -> status
      [] status \in {"blocked", "policy_violation"}    -> "blocked"
      [] status \in {"failed", "completed"}            -> "failed"

(* End the workflow as a stage that leads nowhere demands.                 *)
CompleteAfterStage(c, e) ==
    IF TerminalStatus(e.status) \in {"cancelled", "timed_out"}
    THEN Complete(c, TerminalStatus(e.status), e.failureCode)
    ELSE CompleteBeforeDeadline(c, TerminalStatus(e.status), e.failureCode)

(* Mutant: recovery overlooks a decision whose completion is missing.      *)
RecoverStagesOnly(c) ==
    /\ At(c, "recover")
    /\ IF LastEvent.type = "WorkflowStageCompleted" /\ LastEvent.nextStage = "none"
       THEN CompleteAfterStage(c, LastEvent)
       ELSE IF Interrupted(c) THEN CompleteInterrupted(c)
       ELSE Goto(c, "dependencies")
    /\ UNCHANGED <<journal, dependency, expired, lease, active>>

(* recoverPendingTerminal: the last event decided the end, and a crash or  *)
(* an error came before WorkflowCompleted.  Then the code's checks of the  *)
(* signal and the deadline.                                                *)
Recover(c) ==
    /\ At(c, "recover")
    /\ IF LastEvent.type = "WorkflowApprovalDecided" /\ LastEvent.nextStage = "none"
       THEN IF LastEvent.decision = "approved" THEN Goto(c, "validate")
            ELSE CompleteBeforeDeadline(c, "failed", "WORKFLOW_APPROVAL_REJECTED")
       ELSE IF LastEvent.type = "WorkflowStageCompleted" /\ LastEvent.nextStage = "none"
       THEN CompleteAfterStage(c, LastEvent)
       ELSE IF LastEvent.type = "WorkflowStageInterrupted" /\ LastEvent.reason = "cancel"
       THEN Complete(c, "cancelled", "WORKFLOW_CANCELLED")
       ELSE IF LastEvent.type = "WorkflowStageInterrupted" /\ LastEvent.reason = "deadline"
       THEN Complete(c, "timed_out", "WORKFLOW_DEADLINE_EXCEEDED")
       ELSE IF Interrupted(c) THEN CompleteInterrupted(c)
       ELSE Goto(c, "dependencies")
    /\ UNCHANGED <<journal, dependency, expired, lease, active>>

(* Mutant: only a dependency that still runs holds the workflow back.      *)
DependencyStateOfActive ==
    IF \E i \in DOMAIN dependency : dependency[i] = "active" THEN "waiting" ELSE "ready"

(* checkDependencies looks at them in order, up to the first that has not  *)
(* completed.                                                              *)
DependencyState ==
    LET open == {i \in DOMAIN dependency : dependency[i] # "completed"} IN
    IF open = {} THEN "ready"
    ELSE IF dependency[CHOOSE i \in open : \A j \in open : i <= j] = "active"
    THEN "waiting" ELSE "failed"

CheckDependencies(c) ==
    /\ At(c, "dependencies")
    /\ IF Interrupted(c) THEN CompleteInterrupted(c)
       ELSE CASE DependencyState = "waiting" ->
                    IF summary.status = "waiting_for_dependency" THEN Goto(c, "waited")
                    ELSE Publish(c, DependencyEvent("waiting"), "plain", "waited")
              [] DependencyState = "failed" ->
                    CompleteBeforeDeadline(c, "blocked", "WORKFLOW_DEPENDENCY_FAILED")
              [] DependencyState = "ready" ->
                    IF summary.status = "waiting_for_dependency"
                    THEN Publish(c, DependencyEvent("ready"), "plain", "loop")
                    ELSE Goto(c, "loop")
    /\ UNCHANGED <<journal, dependency, expired, lease, active>>

(* The end of a run that waits: for a dependency, or for an approval.      *)
Waited(c) ==
    /\ calls[c].pc \in {"waited", "requested"}
    /\ IF Interrupted(c) THEN CompleteInterrupted(c) ELSE Finish(c, "ok")
    /\ UNCHANGED <<journal, dependency, expired, lease, active>>

(***************************************************************************)
(* run: the stage loop.                                                    *)
(***************************************************************************)
(* validateBranchEvidence: before a retry or a repair starts, the failed   *)
(* run it follows is validated against its task history, which is outside  *)
(* this model and may turn out not to match.                               *)
BranchIsFailure(stage) ==
    LET branches == {i \in 1..Len(events) :
            events[i].type \in {"WorkflowStageCompleted", "WorkflowApprovalDecided"}}
        last == CHOOSE i \in branches : \A j \in branches : j <= i
    IN  /\ branches # {}
        /\ events[last].type = "WorkflowStageCompleted"
        /\ events[last].status # "completed"
        /\ events[last].nextStage = stage

(* The stage starts; otherwise a bound or the evidence ends the workflow.  *)
StartStage(c) ==
    /\ At(c, "loop")
    /\ ~Interrupted(c)
    /\ summary.currentStage \in WorkerStages
    /\ LET stage == summary.currentStage IN
       IF summary.transitionCount >= definition.maxTransitions
       THEN CompleteBeforeDeadline(c, "failed", "WORKFLOW_TRANSITION_LIMIT")
       ELSE IF stage = "repair" /\
               summary.repairAttemptCount >= definition.maxRepairAttempts
       THEN CompleteBeforeDeadline(c, "failed", "WORKFLOW_STAGE_RETRY_LIMIT")
       ELSE \/ /\ BranchIsFailure(stage)
               /\ CompleteBeforeDeadline(c, "blocked", "WORKFLOW_RUN_HISTORY_MISMATCH")
            \/ Publish(c, StartedEvent(stage, summary.transitionCount + 1,
                                       summary.stageAttempts[stage] + 1,
                                       ExpectedSource(summary, stage)),
                       "stage", "delegate")
    /\ UNCHANGED <<journal, dependency, expired, lease, active>>

(* The other ways through the head of the loop: cancelled, expired, at the *)
(* approval stage, or (INVALID_WORKFLOW_JOURNAL) without a stage.          *)
HeadOfLoop(c) ==
    /\ At(c, "loop")
    /\ Interrupted(c) \/ summary.currentStage \notin WorkerStages
    /\ IF Interrupted(c) THEN CompleteInterrupted(c)
       ELSE IF summary.currentStage = "none" THEN Finish(c, "error")
       ELSE IF summary.status = "waiting_for_approval" THEN Goto(c, "requested")
       ELSE Goto(c, "validate")
    /\ UNCHANGED <<journal, dependency, expired, lease, active>>

(* The events that made run r the candidate.                               *)
SourceEvents(r) ==
    {i \in 1..Len(events) : /\ events[i].type = "WorkflowStageCompleted"
                            /\ events[i].runId = r
                            /\ events[i].candidateRunId = r}

(* sourceCandidateRequirement and buildTask can throw before a worker is   *)
(* contacted; classifyStageError makes that a policy violation.            *)
SourceMismatch ==
    [report |-> FALSE, patch |-> FALSE, status |-> "policy_violation",
     failureCode |-> "WORKFLOW_CANDIDATE_HISTORY_MISMATCH"]

(* plan produces no patch.  A run of a later stage starts from the candidate*)
(* and its patch contains it; an implementation without changes is blocked,*)
(* a review is read-only, so only a test run can complete without a patch. *)
PossibleOutcome(stage, o) ==
    /\ stage = "plan" => ~o.patch
    /\ o.status = "completed" /\ ~o.patch
          => stage = "plan" \/ (stage = "test" /\ TestsMayRevert)

WorkerOutcomes(stage, source) ==
    IF source # 0 /\ Cardinality(SourceEvents(source)) # 1 THEN {SourceMismatch}
    ELSE {o \in Outcomes : PossibleOutcome(stage, o)}

(* stageResult: the stage's status, candidate and successor.  The event of *)
(* the call is the start it published; the run it leads to gets its number.*)
StageStatus(c, o) ==
    IF calls[c].aborted THEN "cancelled" ELSE IF expired THEN "timed_out" ELSE o.status

StageFailureCode(c, o) ==
    CASE StageStatus(c, o) = "cancelled" -> "WORKFLOW_CANCELLED"
      [] StageStatus(c, o) = "timed_out" -> "WORKFLOW_DEADLINE_EXCEEDED"
      [] OTHER                           -> o.failureCode

RetryableNow(stage, status, code) ==
    /\ stage # "repair"
    /\ status \in {"failed", "blocked"}
    /\ code \in RetryableFailures
    /\ Cardinality({i \in 1..Len(events) :
            /\ events[i].type = "WorkflowStageCompleted"
            /\ events[i].stage = stage
            /\ events[i].nextStage = stage}) < definition.retryLimit[stage]

RepairableNow(stage, code, o) ==
    /\ o.patch
    /\ code \in RepairableFailures
    /\ "repair" \in definition.stages
    /\ RepairBudgetLeft(definition, summary, stage)

StageResult(c, o) ==
    LET stage  == calls[c].event.stage
        status == StageStatus(c, o)
        code   == StageFailureCode(c, o)
        run    == IF o.report THEN calls[c].event.executionId ELSE 0
        prior  == summary.candidateRunId
        Result(s, f, candidate, nextStage) ==
            StageCompletedEvent(stage, calls[c].event.executionId, run, s, f, candidate, nextStage)
    IN  IF status = "completed" /\ stage = "plan"
        THEN Result("completed", "none", prior, "implement")
        ELSE IF status = "completed" /\ o.patch
        THEN Result("completed", "none", run, NextSuccessfulStage(definition, stage))
        ELSE IF status = "completed"
        THEN Result("failed", "WORKFLOW_CANDIDATE_MISSING", 0, "none")
        ELSE IF RetryableNow(stage, status, code) THEN Result(status, code, prior, stage)
        ELSE IF RepairableNow(stage, code, o) THEN Result(status, code, run, "repair")
        ELSE Result(status, code, prior, "none")

(* The worker delegation ends, and its result is published under the       *)
(* stage's signal.                                                         *)
Delegate(c) ==
    /\ At(c, "delegate")
    /\ \E o \in WorkerOutcomes(calls[c].event.stage, calls[c].event.sourceRunId) :
          Publish(c, StageResult(c, o), "stage", "settled")
    /\ UNCHANGED <<journal, dependency, expired, lease, active>>

StageSettled(c) ==
    /\ At(c, "settled")
    /\ IF calls[c].event.nextStage = "none" THEN CompleteAfterStage(c, calls[c].event)
       ELSE Goto(c, "loop")
    /\ UNCHANGED <<journal, dependency, expired, lease, active>>

(***************************************************************************)
(* Validating the candidate, for an approval request, for a decision, or   *)
(* for recovering an approved workflow's completion.                       *)
(***************************************************************************)
CandidateHasSource ==
    \E i \in SourceEvents(summary.candidateRunId) : events[i].status = "completed"

(* Mutant: a rejection may ask for a repair beyond the repair budget.      *)
CanRepairBeyondBudget ==
    /\ "repair" \in definition.stages
    /\ summary.transitionCount < definition.maxTransitions

CanRepair ==
    /\ "repair" \in definition.stages
    /\ summary.repairAttemptCount < definition.maxRepairAttempts
    /\ summary.transitionCount < definition.maxTransitions

(* What a call does with a valid candidate.                                *)
UseCandidate(c) ==
    CASE calls[c].op = "approve" ->
            PublishBeforeDeadline(c, DecidedEvent("approved", "none"), "decided")
      [] calls[c].op = "reject" ->
            PublishBeforeDeadline(c,
                DecidedEvent("rejected", IF CanRepair THEN "repair" ELSE "none"), "decided")
      [] calls[c].op = "run" /\ summary.currentStage = "approval" ->
            PublishBeforeDeadline(c, RequestedEvent(summary.candidateRunId), "requested")
      [] calls[c].op = "run" /\ summary.currentStage # "approval" ->
            CompleteBeforeDeadline(c, "completed", "none")

(* validateCandidateForApproval: every run the journal names is validated  *)
(* against artifacts outside this model, which may turn out not to match;  *)
(* without an originating stage the candidate is invalid in any case.      *)
ValidateCandidate(c) ==
    /\ At(c, "validate")
    /\ IF summary.candidateRunId = 0 THEN Finish(c, "error")
       ELSE IF Interrupted(c) THEN CompleteInterrupted(c)
       ELSE \/ CompleteBeforeDeadline(c, "blocked", "WORKFLOW_CANDIDATE_INVALID")
            \/ CandidateHasSource /\ UseCandidate(c)
    /\ UNCHANGED <<journal, dependency, expired, lease, active>>

(***************************************************************************)
(* approve.                                                                *)
(***************************************************************************)
LoadDecision(c) ==
    /\ At(c, "load")
    /\ Deciding(c)
    /\ IF summary.status # "waiting_for_approval" THEN Finish(c, "error")
       ELSE IF Interrupted(c) THEN CompleteInterrupted(c)
       ELSE Goto(c, "validate")
    /\ UNCHANGED <<journal, dependency, expired, lease, active>>

(* The decision is published: end the workflow, or leave the repair to run.*)
Decided(c) ==
    /\ At(c, "decided")
    /\ IF calls[c].event.decision = "approved" THEN CompleteBeforeDeadline(c, "completed", "none")
       ELSE IF calls[c].event.nextStage = "none"
       THEN CompleteBeforeDeadline(c, "failed", "WORKFLOW_APPROVAL_REJECTED")
       ELSE IF Interrupted(c) THEN CompleteInterrupted(c)
       ELSE Finish(c, "ok")
    /\ UNCHANGED <<journal, dependency, expired, lease, active>>

(***************************************************************************)
(* cancel, when no call of this process works on the workflow.             *)
(***************************************************************************)
LoadCancel(c) ==
    /\ At(c, "load")
    /\ calls[c].op = "cancel"
    /\ IF Terminal(summary) THEN Finish(c, "ok")
       ELSE IF summary.activeExecutionId # 0 THEN InterruptActive(c, "cancel", "load")
       ELSE Complete(c, "cancelled", "WORKFLOW_CANCELLED")
    /\ UNCHANGED <<journal, dependency, expired, lease, active>>

(***************************************************************************)
(* The environment.                                                        *)
(***************************************************************************)
(* The caller of a run or an approval cancels its request.                 *)
Abort(c) ==
    /\ Registered(c)
    /\ ~calls[c].aborted
    /\ calls' = [calls EXCEPT ![c].aborted = TRUE]
    /\ UNCHANGED <<journal, dependency, expired, lease, active>>

Expire ==
    /\ ~expired
    /\ expired' = TRUE
    /\ UNCHANGED <<journal, dependency, lease, active, calls>>

SettleDependency(i, status) ==
    /\ dependency[i] = "active"
    /\ dependency' = [dependency EXCEPT ![i] = status]
    /\ UNCHANGED <<journal, expired, lease, active, calls>>

(* A server process dies.  Its calls are gone; its lease claim is stale,   *)
(* so the next contender reclaims it.                                      *)
Crash(p) ==
    /\ \E c \in Calls : ProcessOf[c] = p /\ ~At(c, "idle")
    /\ calls' = [c \in Calls |-> IF ProcessOf[c] = p THEN IdleCall ELSE calls[c]]
    /\ active' = [active EXCEPT ![p] = NoCall]
    /\ lease' = IF lease # NoCall /\ ProcessOf[lease] = p THEN NoCall ELSE lease
    /\ UNCHANGED <<journal, dependency, expired>>

(* The steps a call takes by itself once it has been made.                 *)
Step(c) ==
    \/ AwaitedCompletion(c) \/ Acquire(c) \/ Refuse(c) \/ Release(c) \/ Unregister(c)
    \/ JournalAppend(c) \/ AppendRejected(c) \/ AppendInterrupted(c) \/ Finalize(c)
    \/ Load(c) \/ Recover(c) \/ CheckDependencies(c) \/ Waited(c)
    \/ StartStage(c) \/ HeadOfLoop(c) \/ Delegate(c) \/ StageSettled(c)
    \/ ValidateCandidate(c) \/ LoadDecision(c) \/ Decided(c) \/ LoadCancel(c)

Environment ==
    \/ \E c \in Calls : \/ \E op \in Operations : Enter(c, op)
                        \/ Cancel(c) \/ Return(c) \/ Abort(c)
    \/ Expire
    \/ \E i \in DOMAIN dependency, s \in {"completed", "failed"} : SettleDependency(i, s)
    \/ \E p \in Processes : Crash(p)

Next == (\E c \in Calls : Step(c)) \/ Environment

Spec == Init /\ [][Next]_vars

(* A call in a live process is scheduled again and again, and a worker     *)
(* delegation ends: it is bounded by the stage's timeout.                  *)
Fairness == \A c \in Calls : WF_vars(Step(c))
FairSpec == Spec /\ Fairness

(***************************************************************************)
(* What must hold.                                                         *)
(***************************************************************************)
TypeOK ==
    /\ definition \in Definitions
    /\ events \in Seq(WorkflowEvent)
    /\ summary \in Projection
    /\ dependency \in [1..definition.dependencies -> {"active", "completed", "failed"}]
    /\ expired \in BOOLEAN
    /\ lease \in Calls \cup {NoCall}
    /\ active \in [Processes -> Calls \cup {NoCall}]
    /\ calls \in [Calls -> Call]

Events(type) == {i \in 1..Len(events) : events[i].type = type}
StageCompletions == Events("WorkflowStageCompleted")

(* The budgets are accounted for exactly: the summary's counters are the   *)
(* journal's, every start ends at most once, an interrupted start costs a  *)
(* transition and neither a retry nor a repair attempt, and no counter     *)
(* exceeds its bound (docs: "Interrupted starts remain auditable but do    *)
(* not consume the stage retry or repair-attempt budget").                 *)
BudgetsAccounted ==
    /\ summary.transitionCount = Cardinality(Events("WorkflowStageStarted"))
    /\ summary.transitionCount <= definition.maxTransitions
    /\ summary.transitionCount =
          Cardinality(StageCompletions) + Cardinality(Events("WorkflowStageInterrupted"))
          + (IF summary.activeExecutionId = 0 THEN 0 ELSE 1)
    /\ summary.repairAttemptCount =
          Cardinality({i \in StageCompletions : events[i].stage = "repair"})
    /\ summary.repairAttemptCount <= definition.maxRepairAttempts
    /\ \A s \in WorkerStages \ {"repair"} :
          /\ summary.retryTransitions[s] = Cardinality({i \in StageCompletions :
                events[i].stage = s /\ events[i].nextStage = s})
          /\ summary.retryTransitions[s] <= definition.retryLimit[s]

(* The journal stays far below its limit of 512 events, whatever crashes   *)
(* and resumptions there are: with the largest definition the bound is     *)
(* 2 * 64 + 2 * (5 + 1) + 4 events, so WORKFLOW_EVENT_LIMIT cannot strand  *)
(* a workflow without a terminal event.                                    *)
JournalBounded ==
    Len(events) <= 2 * definition.maxTransitions
                   + 2 * (definition.maxRepairAttempts + 1) + 4

(* The candidate that a later stage starts from, or that is up for         *)
(* approval, has exactly one originating run in the journal, and one that  *)
(* is up for approval came out of a stage that completed.  Otherwise       *)
(* sourceCandidateRequirement and validateCandidateForApproval would       *)
(* refuse every resumption of the workflow.                                *)
CandidateHasOneSource ==
    /\ summary.candidateRunId # 0 => Cardinality(SourceEvents(summary.candidateRunId)) = 1
    /\ summary.currentStage = "approval" => CandidateHasSource
    /\ summary.currentStage \in {"test", "review", "repair"} => summary.candidateRunId # 0

(* A workflow completes only with the very candidate that approval was     *)
(* requested for and granted to: nothing came between the request, the     *)
(* decision and the completion, through any crash or resumption.           *)
CompletedAsApproved ==
    summary.status = "completed" =>
        LET n == Len(events) IN
        /\ n > 2
        /\ events[n] = CompletedEvent("completed", "none", summary.candidateRunId)
        /\ events[n - 1] = DecidedEvent("approved", "none")
        /\ events[n - 2] = RequestedEvent(summary.candidateRunId)

(* No stage ever starts before every dependency has completed.             *)
DependenciesFirst ==
    Events("WorkflowStageStarted") # {} =>
        \A i \in DOMAIN dependency : dependency[i] = "completed"

(* While a worker runs for a call, the journal shows that very execution   *)
(* as active: no other call interrupts it, and no second worker runs.      *)
WorkerOwnsExecution ==
    \A c \in Calls : At(c, "delegate") =>
        /\ summary.activeExecutionId = calls[c].event.executionId
        /\ summary.currentStage = calls[c].event.stage
        /\ \A d \in Calls \ {c} : ~At(d, "delegate")

(* The service never asks the journal for an event the journal refuses:    *)
(* stageResult, canRepair and the recovery agree with the event model.     *)
(* (Where they disagree, run fails and leaves its stage active.)           *)
JournalAgrees ==
    \A c \in Calls : At(c, "append") =>
        EventAllowed(definition, summary, calls[c].event)

(* run "runs or resumes until terminal, dependency wait, or approval"      *)
(* (docs/workflows.md): a run that got the lease does not fail, and has    *)
(* settled the workflow when it gives the lease back.                      *)
Settled == Terminal(summary) \/
    summary.status \in {"waiting_for_dependency", "waiting_for_approval"}
RunSettles ==
    \A c \in Calls : At(c, "release") /\ calls[c].op = "run"
        => calls[c].result # "error" /\ Settled

(* cancel "records cancellation" (docs/workflows.md): when it returns      *)
(* a timeline, the workflow has ended.                                     *)
CancelSettles ==
    \A c \in Calls : At(c, "returned") /\ calls[c].op = "cancel" /\ calls[c].result = "ok"
        => Terminal(summary)

(* Cancellation is authoritative: once a call is aborted it publishes no   *)
(* start, result, approval request or decision, and ends the workflow only *)
(* as cancelled, or as timed out.                                          *)
AbortedPublishesOnlyTheEnd ==
    [][events' # events /\ lease # NoCall /\ calls[lease].aborted =>
          LET e == events'[Len(events')] IN
          \/ e.type \in {"WorkflowStageInterrupted", "WorkflowDependencyStateChanged"}
          \/ e.type = "WorkflowCompleted" /\ e.status \in {"cancelled", "timed_out"}]_vars

(* The service implements the lifecycle a workflow promises.               *)
Phase ==
    CASE summary.status = "completed"                     -> "succeeded"
      [] Terminal(summary) /\ summary.status # "completed" -> "ended"
      [] ~Terminal(summary) /\ summary.approvalRequested   -> "reviewing"
      [] OTHER ->
            IF summary.currentStage = "none"
            THEN IF summary.approvalDecision = "approved" THEN "approved" ELSE "closing"
            ELSE IF summary.status = "waiting_for_dependency" THEN "parked" ELSE "working"

Lifecycle == INSTANCE WorkflowLifecycle
             WITH phase <- Phase, candidate <- summary.candidateRunId

(* Every step of every call, crash and timeout is a step of the abstract   *)
(* lifecycle, or leaves it alone.                                          *)
ImplementsLifecycle == Lifecycle!Spec

(* Every call ends: bounded stages, retries and repairs let the loop of    *)
(* run terminate, and a cancel that waits for another call is woken.       *)
EveryCallReturns ==
    \A c \in Calls : ~At(c, "idle") ~> calls[c].pc \in {"idle", "returned"}
=============================================================================
