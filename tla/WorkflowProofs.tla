--------------------------- MODULE WorkflowProofs ---------------------------
(***************************************************************************)
(* Theorems about WorkflowService, for every set of calls, processes,      *)
(* definitions and worker outcomes: its types, what the lease gives, what  *)
(* approval means and what a journal never takes back.                     *)
(***************************************************************************)
EXTENDS WorkflowService, TLAPS

(***************************************************************************)
(* The event model: an allowed event takes a projection to a projection.   *)
(***************************************************************************)
(* A worker executes only at a worker stage.                               *)
ActiveAtStage(p) == p.activeExecutionId # 0 => p.currentStage \in WorkerStages

LEMMA DependencyProjected ==
    ASSUME NEW p \in Projection, NEW e \in WorkflowEvent, ActiveAtStage(p),
           e.type = "WorkflowDependencyStateChanged"
    PROVE  ProjectDependency(p, e) \in Projection /\ ActiveAtStage(ProjectDependency(p, e))
BY DEF ProjectDependency, Projection, ActiveAtStage, WorkflowStatuses

LEMMA StartProjected ==
    ASSUME NEW d, NEW p \in Projection, NEW e \in WorkflowEvent, ActiveAtStage(p),
           e.type = "WorkflowStageStarted", StartAllowed(d, p, e)
    PROVE  ProjectStart(p, e) \in Projection /\ ActiveAtStage(ProjectStart(p, e))
<1>1. e.stage \in WorkerStages /\ e.executionId \in Nat /\ e.attemptNumber \in Nat
  BY DEF WorkflowEvent, CreatedEvent
<1> DEFINE attempts == [p.stageAttempts EXCEPT ![e.stage] = e.attemptNumber]
<1>2. attempts \in [WorkerStages -> Nat] /\ p.transitionCount + 1 \in Nat
  BY <1>1 DEF Projection
<1>3. ProjectStart(p, e) = [p EXCEPT !.stageAttempts = attempts,
                                     !.transitionCount = p.transitionCount + 1,
                                     !.activeExecutionId = e.executionId,
                                     !.status = "running"]
  BY DEF ProjectStart, Projection
<1> HIDE DEF attempts
<1>4. ProjectStart(p, e) \in Projection
  BY <1>1, <1>2, <1>3 DEF Projection, WorkflowStatuses
<1>5. ProjectStart(p, e).currentStage = e.stage
  BY <1>3 DEF StartAllowed, Projection
<1>6. QED BY <1>1, <1>4, <1>5 DEF ActiveAtStage

LEMMA InterruptProjected ==
    ASSUME NEW p \in Projection, NEW e \in WorkflowEvent
    PROVE  ProjectInterrupt(p, e) \in Projection /\ ActiveAtStage(ProjectInterrupt(p, e))
BY DEF ProjectInterrupt, Projection, ActiveAtStage, WorkflowStatuses

LEMMA StageCompletionProjected ==
    ASSUME NEW p \in Projection, NEW e \in WorkflowEvent, e.type = "WorkflowStageCompleted"
    PROVE  /\ ProjectStageCompletion(p, e) \in Projection
           /\ ActiveAtStage(ProjectStageCompletion(p, e))
<1>1. /\ e.stage \in WorkerStages /\ e.candidateRunId \in Nat
      /\ e.nextStage \in StageNames /\ e.failureCode \in FailureCodes
  BY DEF WorkflowEvent, CreatedEvent
<1> DEFINE retried == p.retryTransitions[e.stage]
                      + (IF e.stage # "repair" /\ e.nextStage = e.stage THEN 1 ELSE 0)
           retries == [p.retryTransitions EXCEPT ![e.stage] = retried]
           repairs == p.repairAttemptCount + (IF e.stage = "repair" THEN 1 ELSE 0)
<1>2. retries \in [WorkerStages -> Nat] /\ repairs \in Nat
  BY <1>1 DEF Projection
<1>3. ProjectStageCompletion(p, e) =
        [p EXCEPT !.activeExecutionId = 0,
                  !.retryTransitions = retries,
                  !.repairAttemptCount = repairs,
                  !.candidateRunId = e.candidateRunId,
                  !.currentStage = e.nextStage,
                  !.lastFailureCode = e.failureCode,
                  !.status = "pending"]
  BY DEF ProjectStageCompletion, Projection
<1> HIDE DEF retries, repairs
<1>4. ProjectStageCompletion(p, e) =
        [status             |-> "pending",
         currentStage       |-> e.nextStage,
         activeExecutionId  |-> 0,
         candidateRunId     |-> e.candidateRunId,
         transitionCount    |-> p.transitionCount,
         repairAttemptCount |-> repairs,
         stageAttempts      |-> p.stageAttempts,
         retryTransitions   |-> retries,
         approvalRequested  |-> p.approvalRequested,
         approvalDecision   |-> p.approvalDecision,
         lastFailureCode    |-> e.failureCode]
  BY <1>3 DEF Projection
<1>5. ProjectStageCompletion(p, e) \in Projection
  BY <1>1, <1>2, <1>4 DEF Projection, WorkflowStatuses
<1>6. QED BY <1>4, <1>5 DEF ActiveAtStage

LEMMA RequestProjected ==
    ASSUME NEW d, NEW p \in Projection, NEW e \in WorkflowEvent, RequestAllowed(d, p, e)
    PROVE  ProjectRequest(p, e) \in Projection /\ ActiveAtStage(ProjectRequest(p, e))
BY DEF RequestAllowed, ProjectRequest, Projection, ActiveAtStage, WorkflowStatuses

LEMMA DecisionProjected ==
    ASSUME NEW d, NEW p \in Projection, NEW e \in WorkflowEvent, ActiveAtStage(p),
           e.type = "WorkflowApprovalDecided", DecisionAllowed(d, p, e)
    PROVE  ProjectDecision(p, e) \in Projection /\ ActiveAtStage(ProjectDecision(p, e))
<1>1. e.decision \in {"approved", "rejected"} /\ e.nextStage \in StageNames
  BY DEF WorkflowEvent, CreatedEvent
<1>2. p.activeExecutionId = 0
  BY DEF DecisionAllowed, ActiveAtStage, WorkerStages
<1>3. QED BY <1>1, <1>2 DEF ProjectDecision, Projection, ActiveAtStage, WorkflowStatuses,
                        FailureCodes

LEMMA CompletionProjected ==
    ASSUME NEW d, NEW p \in Projection, NEW e \in WorkflowEvent,
           e.type = "WorkflowCompleted", CompletionAllowed(d, p, e)
    PROVE  ProjectCompletion(p, e) \in Projection /\ ActiveAtStage(ProjectCompletion(p, e))
<1>1. e.status \in TerminalStatuses /\ e.failureCode \in FailureCodes
  BY DEF WorkflowEvent, CreatedEvent
<1>2. QED BY <1>1 DEF CompletionAllowed, ProjectCompletion, Projection, ActiveAtStage,
                      WorkflowStatuses, StageNames

LEMMA EventProjected ==
    ASSUME NEW d, NEW p \in Projection, NEW e \in WorkflowEvent,
           ActiveAtStage(p), EventAllowed(d, p, e)
    PROVE  ProjectEvent(p, e) \in Projection /\ ActiveAtStage(ProjectEvent(p, e))
<1>1. CASE e.type = "WorkflowDependencyStateChanged"
  BY <1>1, DependencyProjected DEF EventAllowed, ProjectEvent
<1>2. CASE e.type = "WorkflowStageStarted"
  BY <1>2, StartProjected DEF EventAllowed, ProjectEvent
<1>3. CASE e.type = "WorkflowStageInterrupted"
  BY <1>3, InterruptProjected DEF EventAllowed, ProjectEvent
<1>4. CASE e.type = "WorkflowStageCompleted"
  BY <1>4, StageCompletionProjected DEF EventAllowed, ProjectEvent
<1>5. CASE e.type = "WorkflowApprovalRequested"
  BY <1>5, RequestProjected DEF EventAllowed, ProjectEvent
<1>6. CASE e.type = "WorkflowApprovalDecided"
  BY <1>6, DecisionProjected DEF EventAllowed, ProjectEvent
<1>7. CASE e.type = "WorkflowCompleted"
  BY <1>7, CompletionProjected DEF EventAllowed, ProjectEvent
<1>8. QED BY <1>1, <1>2, <1>3, <1>4, <1>5, <1>6, <1>7 DEF EventAllowed

(***************************************************************************)
(* Calls: what a call's point in the code tells of its operation and of the*)
(* event it published last.                                                *)
(***************************************************************************)
RunPoints == {"recover", "dependencies", "waited", "loop", "requested",
              "delegate", "settled"}

WellPlaced(op, e, reason, pc) ==
    /\ pc \in RunPoints => op = "run"
    /\ pc = "validate" => op # "cancel"
    /\ pc = "delegate" => e.type = "WorkflowStageStarted"
    /\ pc = "settled" => e.type = "WorkflowStageCompleted"
    /\ pc = "decided" => e.type = "WorkflowApprovalDecided"
    /\ pc = "finalize" => reason # "none"

CallOK(k) ==
    /\ WellPlaced(k.op, k.event, k.reason, k.pc)
    /\ k.pc = "append" => /\ k.event \in WorkflowEvent
                          /\ WellPlaced(k.op, k.event, k.reason, k.next)

CallsOK ==
    /\ calls \in [Calls -> Call]
    /\ \A c \in Calls : CallOK(calls[c])

LEMMA Moved ==
    ASSUME CallsOK, NEW c \in Calls, NEW k \in Call, CallOK(k),
           calls' = [calls EXCEPT ![c] = k]
    PROVE  CallsOK'
BY DEF CallsOK

LEMMA Went ==
    ASSUME CallsOK, NEW c \in Calls, NEW pc \in CallPoints, pc # "append",
           WellPlaced(calls[c].op, calls[c].event, calls[c].reason, pc), Goto(c, pc)
    PROVE  CallsOK'
<1> DEFINE k == [calls[c] EXCEPT !.pc = pc]
<1>1. k \in Call
  BY DEF CallsOK, Call
<1>2. CallOK(k)
  BY DEF CallsOK, Call, CallOK
<1>3. calls' = [calls EXCEPT ![c] = k]
  BY DEF Goto, CallsOK
<1>4. QED BY <1>1, <1>2, <1>3, Moved

LEMMA Finished ==
    ASSUME CallsOK, NEW c \in Calls, NEW result \in {"none", "ok", "busy", "error"},
           Finish(c, result)
    PROVE  CallsOK'
<1> DEFINE k == [calls[c] EXCEPT !.pc = "release", !.result = result]
<1>1. k \in Call
  <2>1. calls[c] \in Call /\ "release" \in CallPoints
    BY DEF CallsOK, CallPoints
  <2>2. QED BY <2>1 DEF Call
<1>2. CallOK(k)
  BY DEF CallsOK, Call, CallOK, WellPlaced, RunPoints
<1>3. calls' = [calls EXCEPT ![c] = k]
  BY DEF Finish, CallsOK
<1>4. QED BY <1>1, <1>2, <1>3, Moved

LEMMA Published ==
    ASSUME CallsOK, NEW c \in Calls, NEW e \in WorkflowEvent,
           NEW guard \in {"plain", "deadline", "stage"}, NEW next \in CallPoints,
           WellPlaced(calls[c].op, e, calls[c].reason, next),
           Publish(c, e, guard, next)
    PROVE  CallsOK'
<1> DEFINE k == [calls[c] EXCEPT !.pc = "append", !.event = e, !.guard = guard, !.next = next]
<1>1. k \in Call
  <2>1. calls[c] \in Call /\ "append" \in CallPoints
    BY DEF CallsOK, CallPoints
  <2>2. QED BY <2>1 DEF Call
<1>2. CallOK(k)
  BY DEF CallsOK, Call, CallOK, WellPlaced, RunPoints
<1>3. calls' = [calls EXCEPT ![c] = k]
  BY DEF Publish, CallsOK
<1>4. QED BY <1>1, <1>2, <1>3, Moved

LEMMA Completed ==
    ASSUME CallsOK, summary \in Projection, NEW c \in Calls,
           NEW status \in TerminalStatuses, NEW code \in FailureCodes,
           Complete(c, status, code)
    PROVE  CallsOK'
<1>1. CompletedEvent(status, code, summary.candidateRunId) \in WorkflowEvent
  BY DEF CompletedEvent, WorkflowEvent, Projection
<1>2. WellPlaced(calls[c].op, CompletedEvent(status, code, summary.candidateRunId),
                 calls[c].reason, "release")
  BY DEF WellPlaced, RunPoints
<1>3. QED BY <1>1, <1>2, Published DEF Complete, CallPoints

LEMMA InterruptionCompleted ==
    ASSUME CallsOK, summary \in Projection, NEW c \in Calls, CompleteInterrupted(c)
    PROVE  CallsOK'
BY Completed DEF CompleteInterrupted, TerminalStatuses, FailureCodes

LEMMA PublishedBeforeDeadline ==
    ASSUME CallsOK, summary \in Projection, NEW c \in Calls, NEW e \in WorkflowEvent,
           NEW next \in CallPoints, WellPlaced(calls[c].op, e, calls[c].reason, next),
           PublishBeforeDeadline(c, e, next)
    PROVE  CallsOK'
BY Published, InterruptionCompleted DEF PublishBeforeDeadline

LEMMA CompletedBeforeDeadline ==
    ASSUME CallsOK, summary \in Projection, NEW c \in Calls,
           NEW status \in TerminalStatuses, NEW code \in FailureCodes,
           CompleteBeforeDeadline(c, status, code)
    PROVE  CallsOK'
<1>1. CompletedEvent(status, code, summary.candidateRunId) \in WorkflowEvent
  BY DEF CompletedEvent, WorkflowEvent, Projection
<1>2. WellPlaced(calls[c].op, CompletedEvent(status, code, summary.candidateRunId),
                 calls[c].reason, "release")
  BY DEF WellPlaced, RunPoints
<1>3. QED BY <1>1, <1>2, PublishedBeforeDeadline DEF CompleteBeforeDeadline, CallPoints

LEMMA ActiveInterrupted ==
    ASSUME CallsOK, summary \in Projection, ActiveAtStage(summary),
           summary.activeExecutionId # 0, NEW c \in Calls,
           NEW reason \in {"resume", "cancel", "deadline"}, NEW next \in CallPoints,
           WellPlaced(calls[c].op,
               InterruptedEvent(summary.currentStage, summary.activeExecutionId, reason),
               calls[c].reason, next),
           InterruptActive(c, reason, next)
    PROVE  CallsOK'
<1>1. InterruptedEvent(summary.currentStage, summary.activeExecutionId, reason)
        \in WorkflowEvent
  BY DEF InterruptedEvent, WorkflowEvent, Projection, ActiveAtStage
<1>2. QED BY <1>1, Published DEF InterruptActive

LEMMA CompletedAfterStage ==
    ASSUME CallsOK, summary \in Projection, NEW c \in Calls, NEW e \in WorkflowEvent,
           e.type = "WorkflowStageCompleted", CompleteAfterStage(c, e)
    PROVE  CallsOK'
<1>1. e.status \in RunStatuses /\ e.failureCode \in FailureCodes
  BY DEF WorkflowEvent, CreatedEvent
<1>2. TerminalStatus(e.status) \in TerminalStatuses
  BY <1>1 DEF TerminalStatus, TerminalStatuses, RunStatuses
<1>3. QED BY <1>1, <1>2, Completed, CompletedBeforeDeadline DEF CompleteAfterStage

LEMMA StageResultTyped ==
    ASSUME summary \in Projection, NEW c \in Calls,
           calls[c].event \in WorkflowEvent, calls[c].event.type = "WorkflowStageStarted",
           NEW o \in Outcome
    PROVE  /\ StageResult(c, o) \in WorkflowEvent
           /\ StageResult(c, o).type = "WorkflowStageCompleted"
<1> DEFINE stage  == calls[c].event.stage
           status == StageStatus(c, o)
           code   == StageFailureCode(c, o)
           run    == IF o.report THEN calls[c].event.executionId ELSE 0
           prior  == summary.candidateRunId
           Result(s, f, candidate, nextStage) ==
               StageCompletedEvent(stage, calls[c].event.executionId, run, s, f, candidate,
                                   nextStage)
<1>1. stage \in WorkerStages /\ calls[c].event.executionId \in Nat
  BY DEF WorkflowEvent, CreatedEvent
<1>2. status \in RunStatuses
  BY DEF StageStatus, Outcome, RunStatuses
<1>3. code \in FailureCodes
  BY DEF StageFailureCode, Outcome, FailureCodes
<1>4. run \in Nat /\ prior \in Nat
  BY <1>1 DEF Projection
<1>5. ASSUME NEW s \in RunStatuses, NEW f \in FailureCodes, NEW candidate \in Nat,
             NEW nextStage \in StageNames
      PROVE  /\ Result(s, f, candidate, nextStage) \in WorkflowEvent
             /\ Result(s, f, candidate, nextStage).type = "WorkflowStageCompleted"
  BY <1>1, <1>4, <1>5 DEF StageCompletedEvent, WorkflowEvent
<1>6. status = "completed" /\ stage # "plan" => NextSuccessfulStage(definition, stage) \in StageNames
  BY <1>1 DEF NextSuccessfulStage, NextCandidateStage, StageNames, WorkerStages
<1>7. /\ {"completed", "failed"} \subseteq RunStatuses
      /\ {"none", "WORKFLOW_CANDIDATE_MISSING"} \subseteq FailureCodes
      /\ {"none", "implement", "repair"} \subseteq StageNames
      /\ stage \in StageNames
  BY <1>1 DEF RunStatuses, FailureCodes, StageNames, WorkerStages
<1>8. StageResult(c, o) =
        IF status = "completed" /\ stage = "plan"
        THEN Result("completed", "none", prior, "implement")
        ELSE IF status = "completed" /\ o.patch
        THEN Result("completed", "none", run, NextSuccessfulStage(definition, stage))
        ELSE IF status = "completed"
        THEN Result("failed", "WORKFLOW_CANDIDATE_MISSING", 0, "none")
        ELSE IF RetryableNow(stage, status, code) THEN Result(status, code, prior, stage)
        ELSE IF RepairableNow(stage, code, o) THEN Result(status, code, run, "repair")
        ELSE Result(status, code, prior, "none")
  BY DEF StageResult
<1> HIDE DEF stage, status, code, run, prior, Result
<1>9. QED BY <1>2, <1>3, <1>4, <1>5, <1>6, <1>7, <1>8

LEMMA OutcomesTyped ==
    ASSUME NEW stage, NEW source, NEW o \in WorkerOutcomes(stage, source)
    PROVE  o \in Outcome
<1>1. SourceMismatch \in Outcome
  BY DEF SourceMismatch, Outcome, RunStatuses, FailureCodes
<1>2. QED BY <1>1, OutcomeAssumption DEF WorkerOutcomes

(***************************************************************************)
(* Type correctness.  TypeOK alone is not inductive: a step that uses the  *)
(* last event, or the event a call published, needs to know its type.      *)
(***************************************************************************)
TypeInv ==
    /\ TypeOK
    /\ CallsOK
    /\ ActiveAtStage(summary)
    /\ events # <<>>

LEMMA InitTyped == Init => TypeInv
<1> SUFFICES ASSUME Init PROVE TypeInv
  OBVIOUS
<1>1. definition \in ValidDefinition /\ definition \in Definitions
  BY DefinitionAssumption DEF Init
<1>2. summary \in Projection
  BY <1>1 DEF Init, InitialProjection, Projection, WorkflowStatuses, StageNames, WorkerStages,
              FailureCodes
<1>3. ActiveAtStage(summary)
  BY DEF Init, InitialProjection, ActiveAtStage
<1>4. events \in Seq(WorkflowEvent) /\ events # <<>>
  BY DEF Init, WorkflowEvent
<1>5. CallsOK
  <2>1. IdleCall \in Call
    BY DEF IdleCall, Call, Operations, CallPoints
  <2>2. CallOK(IdleCall)
    BY DEF IdleCall, CallOK, WellPlaced, RunPoints
  <2>3. QED BY <2>1, <2>2 DEF Init, CallsOK
<1>6. dependency \in [1..definition.dependencies -> {"active", "completed", "failed"}]
  BY DEF Init
<1>7. lease \in Calls \cup {NoCall} /\ active \in [Processes -> Calls \cup {NoCall}]
      /\ expired \in BOOLEAN
  BY DEF Init
<1>8. QED BY <1>1, <1>2, <1>3, <1>4, <1>5, <1>6, <1>7 DEF TypeInv, TypeOK, CallsOK

LEMMA CallStepTyped ==
    ASSUME TypeInv, CallsOK', UNCHANGED <<journal, dependency, expired>>,
           lease' \in Calls \cup {NoCall}, active' \in [Processes -> Calls \cup {NoCall}]
    PROVE  TypeInv'
BY DEF TypeInv, TypeOK, CallsOK, journal, ActiveAtStage

(* The rest of a step of a call that only calls are changed by.            *)
LEMMA CallsOnlyTyped ==
    ASSUME TypeInv, CallsOK', UNCHANGED <<journal, dependency, expired, lease, active>>
    PROVE  TypeInv'
BY CallStepTyped DEF TypeInv, TypeOK

LEMMA LastEventTyped ==
    ASSUME TypeInv
    PROVE  LastEvent \in WorkflowEvent
BY DEF TypeInv, TypeOK, LastEvent

LEMMA AbortedTyped ==
    ASSUME NEW f \in [Calls -> Call], \A c \in Calls : CallOK(f[c]), NEW t \in Calls
    PROVE  /\ [f EXCEPT ![t].aborted = TRUE] \in [Calls -> Call]
           /\ \A c \in Calls : CallOK([f EXCEPT ![t].aborted = TRUE][c])
<1> DEFINE k == [f[t] EXCEPT !.aborted = TRUE]
<1>1. k \in Call
  BY DEF Call
<1>2. CallOK(k)
  BY DEF Call, CallOK
<1>3. QED BY <1>1, <1>2

(* Steps that enter, leave and hand over: no event is at stake.            *)
LEMMA EntryTyped ==
    ASSUME TypeInv, NEW c \in Calls,
           \/ \E op \in Operations : Enter(c, op)
           \/ Cancel(c) \/ AwaitedCompletion(c) \/ Acquire(c) \/ Refuse(c)
           \/ Release(c) \/ Unregister(c) \/ Return(c) \/ Abort(c)
    PROVE  TypeInv'
<1> USE DEF CallOK, WellPlaced, RunPoints
<1>1. /\ CallsOK /\ calls[c] \in Call /\ CallOK(calls[c]) /\ ProcessOf[c] \in Processes
      /\ lease \in Calls \cup {NoCall} /\ active \in [Processes -> Calls \cup {NoCall}]
  BY CallAssumption DEF TypeInv, TypeOK, CallsOK
<1>2. CASE \E op \in Operations : Enter(c, op)
  <2>1. PICK op \in Operations : Enter(c, op)
    BY <1>2
  <2> DEFINE k == [IdleCall EXCEPT !.op = op, !.pc = "acquire"]
  <2>2. k \in Call /\ CallOK(k)
    BY DEF IdleCall, Call, Operations, CallPoints
  <2>3. CallsOK'
    BY <1>1, <2>1, <2>2, Moved DEF Enter
  <2>4. active' \in [Processes -> Calls \cup {NoCall}]
    BY <1>1, <2>1 DEF Enter
  <2>5. QED BY <1>1, <2>1, <2>3, <2>4, CallStepTyped DEF Enter
<1>3. CASE Cancel(c)
  <2> DEFINE target == active[ProcessOf[c]]
  <2>1. CASE target = NoCall
    <3> DEFINE k == [IdleCall EXCEPT !.op = "cancel", !.pc = "acquire"]
    <3>1. k \in Call /\ CallOK(k)
      BY DEF IdleCall, Call, Operations, CallPoints
    <3>2. calls' = [calls EXCEPT ![c] = k]
      BY <1>3, <2>1 DEF Cancel
    <3>3. CallsOK'
      BY <1>1, <3>1, <3>2, Moved
    <3>4. QED BY <1>3, <3>3, CallsOnlyTyped DEF Cancel
  <2>2. CASE target # NoCall
    <3> DEFINE k == [IdleCall EXCEPT !.op = "cancel", !.pc = "await", !.awaits = target]
               f == [calls EXCEPT ![c] = k]
    <3>1. target \in Calls
      BY <1>1, <2>2
    <3>2. k \in Call /\ CallOK(k)
      BY <3>1 DEF IdleCall, Call, Operations, CallPoints
    <3>3. f \in [Calls -> Call] /\ \A d \in Calls : CallOK(f[d])
      BY <1>1, <3>2 DEF CallsOK
    <3>4. calls' = [f EXCEPT ![target].aborted = TRUE]
      BY <1>3, <2>2 DEF Cancel
    <3> HIDE DEF f, target, k
    <3>5. CallsOK'
      BY <3>1, <3>3, <3>4, AbortedTyped DEF CallsOK
    <3>6. QED BY <1>3, <3>5, CallsOnlyTyped DEF Cancel
  <2>3. QED BY <2>1, <2>2
<1>4. CASE AwaitedCompletion(c)
  <2> DEFINE k == [calls[c] EXCEPT !.pc = "returned", !.result = "ok"]
  <2>1. "returned" \in CallPoints
    BY DEF CallPoints
  <2>2. k \in Call /\ CallOK(k)
    BY <1>1, <2>1 DEF Call
  <2>3. calls' = [calls EXCEPT ![c] = k]
    BY <1>1, <1>4 DEF AwaitedCompletion, CallsOK
  <2>4. CallsOK'
    BY <1>1, <2>2, <2>3, Moved
  <2>5. QED BY <1>4, <2>4, CallsOnlyTyped DEF AwaitedCompletion
<1>5. CASE Acquire(c)
  <2>1. CallsOK'
    BY <1>1, <1>5, Went DEF Acquire, CallPoints
  <2>2. QED BY <1>1, <1>5, <2>1, CallStepTyped DEF Acquire
<1>6. CASE Refuse(c)
  <2> DEFINE k == [calls[c] EXCEPT !.pc = "unregister", !.result = "busy"]
  <2>1. "unregister" \in CallPoints
    BY DEF CallPoints
  <2>2. k \in Call /\ CallOK(k)
    BY <1>1, <2>1 DEF Call
  <2>3. calls' = [calls EXCEPT ![c] = k]
    BY <1>1, <1>6 DEF Refuse, CallsOK
  <2>4. CallsOK'
    BY <1>1, <2>2, <2>3, Moved
  <2>5. QED BY <1>6, <2>4, CallsOnlyTyped DEF Refuse
<1>7. CASE Release(c)
  <2> DEFINE result == IF calls[c].result = "none" THEN "ok" ELSE calls[c].result
             k == [IdleCall EXCEPT !.op = calls[c].op, !.pc = "unregister", !.result = result]
  <2>1. k \in Call /\ CallOK(k)
    <3>1. calls[c].op \in Operations /\ result \in {"none", "ok", "busy", "error"}
      <4>1. calls[c].op \in Operations /\ calls[c].result \in {"none", "ok", "busy", "error"}
        BY <1>1 DEF Call
      <4>2. QED BY <4>1
    <3> HIDE DEF result
    <3>2. IdleCall \in Call /\ "unregister" \in CallPoints
      BY DEF IdleCall, Call, Operations, CallPoints
    <3>3. k \in Call /\ k.pc = "unregister"
      BY <3>1, <3>2 DEF Call
    <3>4. QED BY <3>3
  <2>2. CallsOK'
    BY <1>1, <1>7, <2>1, Moved DEF Release
  <2>3. QED BY <1>1, <1>7, <2>2, CallStepTyped DEF Release
<1>8. CASE Unregister(c)
  <2>1. "unregister" \in CallPoints /\ "returned" \in CallPoints
    BY DEF CallPoints
  <2>2. ASSUME NEW d \in Calls
        PROVE  calls'[d] \in Call /\ CallOK(calls'[d])
    <3>1. calls[d] \in Call /\ CallOK(calls[d])
      BY <1>1 DEF CallsOK
    <3>2. CASE d = c
      <4>1. calls'[d] = [calls[c] EXCEPT !.pc = "returned"]
        BY <1>8, <3>2 DEF Unregister
      <4>2. QED BY <1>1, <2>1, <4>1 DEF Call
    <3>3. CASE d # c /\ calls[d].awaits = c
      <4>1. calls'[d] = [calls[d] EXCEPT !.awaits = NoCall]
        BY <1>8, <3>3 DEF Unregister
      <4>2. QED BY <3>1, <4>1 DEF Call
    <3>4. CASE d # c /\ calls[d].awaits # c
      BY <1>8, <3>1, <3>4 DEF Unregister
    <3>5. QED BY <3>2, <3>3, <3>4
  <2>3. calls' \in [Calls -> Call]
    BY <1>8, <2>2 DEF Unregister
  <2>4. CallsOK'
    BY <2>2, <2>3 DEF CallsOK
  <2>5. active' \in [Processes -> Calls \cup {NoCall}]
    BY <1>1, <1>8 DEF Unregister
  <2>6. QED BY <1>1, <1>8, <2>4, <2>5, CallStepTyped DEF Unregister
<1>9. CASE Return(c)
  <2>1. IdleCall \in Call /\ CallOK(IdleCall)
    BY DEF IdleCall, Call, Operations, CallPoints
  <2>2. CallsOK'
    BY <1>1, <1>9, <2>1, Moved DEF Return
  <2>3. QED BY <1>9, <2>2, CallsOnlyTyped DEF Return
<1>10. CASE Abort(c)
  <2>1. CallsOK'
    BY <1>1, <1>10, AbortedTyped DEF Abort, CallsOK
  <2>2. QED BY <1>10, <2>1, CallsOnlyTyped DEF Abort
<1>11. QED BY <1>2, <1>3, <1>4, <1>5, <1>6, <1>7, <1>8, <1>9, <1>10

(* The append, and what follows when it cannot be made.                    *)
LEMMA AppendTyped ==
    ASSUME TypeInv, NEW c \in Calls,
           JournalAppend(c) \/ AppendRejected(c) \/ AppendInterrupted(c) \/ Finalize(c)
    PROVE  TypeInv'
<1>1. /\ CallsOK /\ calls[c] \in Call /\ CallOK(calls[c])
      /\ summary \in Projection /\ ActiveAtStage(summary)
  BY DEF TypeInv, TypeOK, CallsOK
<1>2. CASE JournalAppend(c)
  <2> DEFINE e == calls[c].event
             k == [calls[c] EXCEPT !.pc = calls[c].next, !.guard = "plain", !.next = "idle"]
  <2>1. e \in WorkflowEvent /\ EventAllowed(definition, summary, e)
    BY <1>1, <1>2 DEF JournalAppend, At, CallOK
  <2>2. summary' \in Projection /\ ActiveAtStage(summary)'
    BY <1>1, <1>2, <2>1, EventProjected DEF JournalAppend, ActiveAtStage
  <2>3. events' \in Seq(WorkflowEvent) /\ events' # <<>>
    BY <1>2, <2>1 DEF JournalAppend, TypeInv, TypeOK
  <2>4. k \in Call
    <3>1. "idle" \in CallPoints
      BY DEF CallPoints
    <3>2. QED BY <1>1, <3>1 DEF Call
  <2>5. CallOK(k)
    BY <1>1, <1>2 DEF JournalAppend, At, Call, CallOK, WellPlaced, RunPoints
  <2>6. calls' = [calls EXCEPT ![c] = k]
    BY <1>1, <1>2 DEF JournalAppend, CallsOK
  <2>7. CallsOK'
    BY <1>1, <2>4, <2>5, <2>6, Moved
  <2>8. QED BY <1>2, <2>2, <2>3, <2>7 DEF JournalAppend, TypeInv, TypeOK, CallsOK
<1>3. CASE AppendRejected(c)
  <2>1. CASE calls[c].op = "run" /\ calls[c].aborted /\ calls[c].reason = "none"
    <3> DEFINE k == [calls[c] EXCEPT !.pc = "finalize", !.reason = "cancel"]
    <3>1. "finalize" \in CallPoints
      BY DEF CallPoints
    <3>2. k \in Call /\ CallOK(k)
      BY <1>1, <3>1 DEF Call, CallOK, WellPlaced, RunPoints
    <3>3. calls' = [calls EXCEPT ![c] = k]
      BY <1>1, <1>3, <2>1 DEF AppendRejected, CallsOK
    <3>4. QED BY <1>1, <1>3, <3>2, <3>3, Moved, CallsOnlyTyped DEF AppendRejected
  <2>2. CASE ~(calls[c].op = "run" /\ calls[c].aborted /\ calls[c].reason = "none")
    BY <1>1, <1>3, <2>2, Finished, CallsOnlyTyped DEF AppendRejected
  <2>3. QED BY <2>1, <2>2
<1>4. CASE AppendInterrupted(c)
  <2>1. CASE calls[c].guard = "deadline"
    BY <1>1, <1>4, <2>1, InterruptionCompleted, CallsOnlyTyped DEF AppendInterrupted
  <2>2. CASE calls[c].guard # "deadline"
    <3> DEFINE reason == IF calls[c].aborted THEN "cancel" ELSE "deadline"
               k == [calls[c] EXCEPT !.pc = "finalize", !.reason = reason]
    <3>1. "finalize" \in CallPoints /\ reason \in {"cancel", "deadline"}
      BY DEF CallPoints
    <3> HIDE DEF reason
    <3>2. k \in Call /\ CallOK(k)
      BY <1>1, <3>1 DEF Call, CallOK, WellPlaced, RunPoints
    <3>3. calls' = [calls EXCEPT ![c] = k]
      BY <1>1, <1>4, <2>2 DEF AppendInterrupted, CallsOK, reason
    <3>4. QED BY <1>1, <1>4, <3>2, <3>3, Moved, CallsOnlyTyped DEF AppendInterrupted
  <2>3. QED BY <2>1, <2>2
<1>5. CASE Finalize(c)
  <2>1. CallsOK'
    <3>1. CASE Terminal(summary)
      BY <1>1, <1>5, <3>1, Finished DEF Finalize
    <3>2. CASE ~Terminal(summary) /\ summary.activeExecutionId # 0
      <4>1. calls[c].reason \in {"cancel", "deadline"}
        BY <1>1, <1>5 DEF Finalize, At, CallOK, WellPlaced, Call
      <4>2. WellPlaced(calls[c].op,
              InterruptedEvent(summary.currentStage, summary.activeExecutionId, calls[c].reason),
              calls[c].reason, "finalize")
        BY <4>1 DEF WellPlaced, RunPoints
      <4>3. QED BY <1>1, <1>5, <3>2, <4>1, <4>2, ActiveInterrupted DEF Finalize, CallPoints
    <3>3. CASE ~Terminal(summary) /\ summary.activeExecutionId = 0
      BY <1>1, <1>5, <3>3, Completed DEF Finalize, TerminalStatuses, FailureCodes
    <3>4. QED BY <3>1, <3>2, <3>3
  <2>2. QED BY <1>5, <2>1, CallsOnlyTyped DEF Finalize
<1>6. QED BY <1>2, <1>3, <1>4, <1>5

(* The steps of run up to the stage loop.                                  *)
LEMMA ResumptionTyped ==
    ASSUME TypeInv, NEW c \in Calls,
           Load(c) \/ Recover(c) \/ CheckDependencies(c) \/ Waited(c)
    PROVE  TypeInv'
<1>1. /\ CallsOK /\ calls[c] \in Call /\ CallOK(calls[c])
      /\ summary \in Projection /\ ActiveAtStage(summary)
  BY DEF TypeInv, TypeOK, CallsOK
<1>2. CASE Load(c)
  <2>1. CallsOK'
    <3>1. CASE Terminal(summary)
      BY <1>1, <1>2, <3>1, Finished DEF Load
    <3>2. CASE ~Terminal(summary) /\ summary.activeExecutionId = 0
      BY <1>1, <1>2, <3>2, Went DEF Load, CallPoints, WellPlaced
    <3>3. CASE ~Terminal(summary) /\ summary.activeExecutionId # 0
      <4> DEFINE reason == IF calls[c].aborted THEN "cancel"
                           ELSE IF expired THEN "deadline" ELSE "resume"
      <4>1. reason \in {"resume", "cancel", "deadline"} /\ InterruptActive(c, reason, "recover")
        BY <1>2, <3>3 DEF Load
      <4>2. WellPlaced(calls[c].op,
              InterruptedEvent(summary.currentStage, summary.activeExecutionId, reason),
              calls[c].reason, "recover")
        BY <1>2 DEF Load, WellPlaced
      <4> HIDE DEF reason
      <4>3. QED BY <1>1, <3>3, <4>1, <4>2, ActiveInterrupted DEF CallPoints
    <3>4. QED BY <3>1, <3>2, <3>3
  <2>2. QED BY <1>2, <2>1, CallsOnlyTyped DEF Load
<1>3. CASE Recover(c)
  <2>1. calls[c].op = "run" /\ LastEvent \in WorkflowEvent
    BY <1>1, <1>3, LastEventTyped DEF Recover, At, CallOK, WellPlaced, RunPoints
  <2>2. Goto(c, "validate") \/ Goto(c, "dependencies") => CallsOK'
    BY <1>1, <2>1, Went DEF CallPoints, WellPlaced
  <2>3. ASSUME NEW status \in {"failed", "cancelled", "timed_out"},
               NEW code \in {"WORKFLOW_APPROVAL_REJECTED", "WORKFLOW_CANCELLED",
                             "WORKFLOW_DEADLINE_EXCEEDED"},
               Complete(c, status, code) \/ CompleteBeforeDeadline(c, status, code)
        PROVE  CallsOK'
    BY <1>1, <2>3, Completed, CompletedBeforeDeadline DEF TerminalStatuses, FailureCodes
  <2>4. CASE LastEvent.type = "WorkflowStageCompleted" /\ CompleteAfterStage(c, LastEvent)
    BY <1>1, <1>3, <2>1, <2>4, CompletedAfterStage, CallsOnlyTyped DEF Recover
  <2>5. CASE ~(LastEvent.type = "WorkflowStageCompleted" /\ CompleteAfterStage(c, LastEvent))
    <3>1. CallsOK'
      BY <1>1, <1>3, <2>2, <2>3, <2>5, InterruptionCompleted DEF Recover
    <3>2. QED BY <1>3, <3>1, CallsOnlyTyped DEF Recover
  <2>6. QED BY <2>4, <2>5
<1>4. CASE CheckDependencies(c)
  <2>1. calls[c].op = "run"
    BY <1>1, <1>4 DEF CheckDependencies, At, CallOK, WellPlaced, RunPoints
  <2>2. ASSUME NEW state \in {"waiting", "ready"}, NEW next \in {"waited", "loop"},
               Publish(c, DependencyEvent(state), "plain", next)
        PROVE  CallsOK'
    <3>1. DependencyEvent(state) \in WorkflowEvent
      BY DEF DependencyEvent, WorkflowEvent
    <3>2. next \in CallPoints /\ WellPlaced(calls[c].op, DependencyEvent(state),
                                            calls[c].reason, next)
      BY <2>1 DEF CallPoints, WellPlaced
    <3>3. QED BY <1>1, <2>2, <3>1, <3>2, Published
  <2>3. Goto(c, "waited") \/ Goto(c, "loop") => CallsOK'
    BY <1>1, <2>1, Went DEF CallPoints, WellPlaced
  <2>4. CompleteBeforeDeadline(c, "blocked", "WORKFLOW_DEPENDENCY_FAILED") => CallsOK'
    BY <1>1, CompletedBeforeDeadline DEF TerminalStatuses, FailureCodes
  <2>5. DependencyState \in {"waiting", "failed", "ready"}
    BY DEF DependencyState
  <2>6. CallsOK'
    BY <1>1, <1>4, <2>2, <2>3, <2>4, <2>5, InterruptionCompleted DEF CheckDependencies
  <2>7. QED BY <1>4, <2>6, CallsOnlyTyped DEF CheckDependencies
<1>5. CASE Waited(c)
  <2>1. CallsOK'
    BY <1>1, <1>5, InterruptionCompleted, Finished DEF Waited
  <2>2. QED BY <1>5, <2>1, CallsOnlyTyped DEF Waited
<1>6. QED BY <1>2, <1>3, <1>4, <1>5

(* The stage loop.                                                         *)
LEMMA StageTyped ==
    ASSUME TypeInv, NEW c \in Calls,
           StartStage(c) \/ HeadOfLoop(c) \/ Delegate(c) \/ StageSettled(c)
    PROVE  TypeInv'
<1>1. /\ CallsOK /\ calls[c] \in Call /\ CallOK(calls[c])
      /\ summary \in Projection /\ ActiveAtStage(summary)
  BY DEF TypeInv, TypeOK, CallsOK
<1>2. calls[c].op = "run"
  BY <1>1 DEF StartStage, HeadOfLoop, Delegate, StageSettled, At, CallOK, WellPlaced, RunPoints
<1>3. CASE StartStage(c)
  <2> DEFINE stage == summary.currentStage
             e == StartedEvent(stage, summary.transitionCount + 1,
                               summary.stageAttempts[stage] + 1, ExpectedSource(summary, stage))
  <2>1. stage \in WorkerStages
    BY <1>3 DEF StartStage
  <2>2. ExpectedSource(summary, stage) \in Nat /\ summary.transitionCount + 1 \in Nat
        /\ summary.stageAttempts[stage] + 1 \in Nat
    BY <1>1, <2>1 DEF Projection, ExpectedSource
  <2>3. e \in WorkflowEvent /\ e.type = "WorkflowStageStarted"
    BY <2>1, <2>2 DEF StartedEvent, WorkflowEvent
  <2>4. WellPlaced(calls[c].op, e, calls[c].reason, "delegate") /\ "delegate" \in CallPoints
    BY <1>2, <2>3 DEF WellPlaced, CallPoints
  <2>5. CompleteBeforeDeadline(c, "failed", "WORKFLOW_TRANSITION_LIMIT")
        \/ CompleteBeforeDeadline(c, "failed", "WORKFLOW_STAGE_RETRY_LIMIT")
        \/ CompleteBeforeDeadline(c, "blocked", "WORKFLOW_RUN_HISTORY_MISMATCH")
        => CallsOK'
    BY <1>1, CompletedBeforeDeadline DEF TerminalStatuses, FailureCodes
  <2>6. Publish(c, e, "stage", "delegate") => CallsOK'
    BY <1>1, <2>3, <2>4, Published
  <2>7. CallsOK'
    BY <1>3, <2>5, <2>6 DEF StartStage
  <2>8. QED BY <1>3, <2>7, CallsOnlyTyped DEF StartStage
<1>4. CASE HeadOfLoop(c)
  <2>1. Goto(c, "requested") \/ Goto(c, "validate") => CallsOK'
    BY <1>1, <1>2, Went DEF CallPoints, WellPlaced
  <2>2. CallsOK'
    BY <1>1, <1>4, <2>1, InterruptionCompleted, Finished DEF HeadOfLoop
  <2>3. QED BY <1>4, <2>2, CallsOnlyTyped DEF HeadOfLoop
<1>5. CASE Delegate(c)
  <2>1. calls[c].event \in WorkflowEvent /\ calls[c].event.type = "WorkflowStageStarted"
    BY <1>1, <1>5 DEF Delegate, At, CallOK, WellPlaced, Call, NoEvent
  <2>2. PICK o \in WorkerOutcomes(calls[c].event.stage, calls[c].event.sourceRunId) :
               Publish(c, StageResult(c, o), "stage", "settled")
    BY <1>5 DEF Delegate
  <2>3. /\ StageResult(c, o) \in WorkflowEvent
        /\ StageResult(c, o).type = "WorkflowStageCompleted"
    BY <1>1, <2>1, OutcomesTyped, StageResultTyped
  <2>4. WellPlaced(calls[c].op, StageResult(c, o), calls[c].reason, "settled")
        /\ "settled" \in CallPoints
    BY <1>2, <2>3 DEF WellPlaced, CallPoints
  <2>5. CallsOK'
    BY <1>1, <2>2, <2>3, <2>4, Published
  <2>6. QED BY <1>5, <2>5, CallsOnlyTyped DEF Delegate
<1>6. CASE StageSettled(c)
  <2>1. calls[c].event \in WorkflowEvent /\ calls[c].event.type = "WorkflowStageCompleted"
    BY <1>1, <1>6 DEF StageSettled, At, CallOK, WellPlaced, Call, NoEvent
  <2>2. Goto(c, "loop") => CallsOK'
    BY <1>1, <1>2, Went DEF CallPoints, WellPlaced
  <2>3. CallsOK'
    BY <1>1, <1>6, <2>1, <2>2, CompletedAfterStage DEF StageSettled
  <2>4. QED BY <1>6, <2>3, CallsOnlyTyped DEF StageSettled
<1>7. QED BY <1>3, <1>4, <1>5, <1>6

(* Candidates, decisions and cancellation.                                 *)
LEMMA ApprovalTyped ==
    ASSUME TypeInv, NEW c \in Calls,
           ValidateCandidate(c) \/ LoadDecision(c) \/ Decided(c) \/ LoadCancel(c)
    PROVE  TypeInv'
<1>1. /\ CallsOK /\ calls[c] \in Call /\ CallOK(calls[c])
      /\ summary \in Projection /\ ActiveAtStage(summary)
  BY DEF TypeInv, TypeOK, CallsOK
<1>2. ASSUME NEW status \in TerminalStatuses, NEW code \in FailureCodes,
             CompleteBeforeDeadline(c, status, code)
      PROVE  CallsOK'
  BY <1>1, <1>2, CompletedBeforeDeadline
<1>3. CASE ValidateCandidate(c)
  <2>1. calls[c].op \in {"run", "approve", "reject"}
    BY <1>1, <1>3 DEF ValidateCandidate, At, CallOK, WellPlaced, Call, Operations
  <2>2. ASSUME NEW decision \in {"approved", "rejected"}, NEW stage \in {"repair", "none"},
               PublishBeforeDeadline(c, DecidedEvent(decision, stage), "decided")
        PROVE  CallsOK'
    <3>1. DecidedEvent(decision, stage) \in WorkflowEvent
          /\ DecidedEvent(decision, stage).type = "WorkflowApprovalDecided"
      BY DEF DecidedEvent, WorkflowEvent, StageNames, WorkerStages
    <3>2. WellPlaced(calls[c].op, DecidedEvent(decision, stage), calls[c].reason, "decided")
          /\ "decided" \in CallPoints
      BY <3>1 DEF WellPlaced, RunPoints, CallPoints
    <3>3. QED BY <1>1, <2>2, <3>1, <3>2, PublishedBeforeDeadline
  <2>3. ASSUME calls[c].op = "run",
               PublishBeforeDeadline(c, RequestedEvent(summary.candidateRunId), "requested")
        PROVE  CallsOK'
    <3>1. RequestedEvent(summary.candidateRunId) \in WorkflowEvent
      BY <1>1 DEF RequestedEvent, WorkflowEvent, Projection
    <3>2. WellPlaced(calls[c].op, RequestedEvent(summary.candidateRunId), calls[c].reason,
                     "requested")
          /\ "requested" \in CallPoints
      BY <2>3 DEF WellPlaced, CallPoints
    <3>3. QED BY <1>1, <2>3, <3>1, <3>2, PublishedBeforeDeadline
  <2>4. {"blocked", "completed"} \subseteq TerminalStatuses
        /\ {"WORKFLOW_CANDIDATE_INVALID", "none"} \subseteq FailureCodes
    BY DEF TerminalStatuses, FailureCodes
  <2>5. UseCandidate(c) => CallsOK'
    BY <1>2, <2>1, <2>2, <2>3, <2>4 DEF UseCandidate
  <2>6. CallsOK'
    BY <1>1, <1>2, <1>3, <2>4, <2>5, InterruptionCompleted, Finished DEF ValidateCandidate
  <2>7. QED BY <1>3, <2>6, CallsOnlyTyped DEF ValidateCandidate
<1>4. CASE LoadDecision(c)
  <2>1. Goto(c, "validate") => CallsOK'
    BY <1>1, <1>4, Went DEF LoadDecision, Deciding, CallPoints, WellPlaced, RunPoints
  <2>2. CallsOK'
    BY <1>1, <1>4, <2>1, InterruptionCompleted, Finished DEF LoadDecision
  <2>3. QED BY <1>4, <2>2, CallsOnlyTyped DEF LoadDecision
<1>5. CASE Decided(c)
  <2>1. {"failed", "completed"} \subseteq TerminalStatuses
        /\ {"WORKFLOW_APPROVAL_REJECTED", "none"} \subseteq FailureCodes
    BY DEF TerminalStatuses, FailureCodes
  <2>2. CallsOK'
    BY <1>1, <1>2, <1>5, <2>1, InterruptionCompleted, Finished DEF Decided
  <2>3. QED BY <1>5, <2>2, CallsOnlyTyped DEF Decided
<1>6. CASE LoadCancel(c)
  <2>1. CASE Terminal(summary)
    BY <1>1, <1>6, <2>1, Finished, CallsOnlyTyped DEF LoadCancel
  <2>2. CASE ~Terminal(summary) /\ summary.activeExecutionId # 0
    <3>1. WellPlaced(calls[c].op,
            InterruptedEvent(summary.currentStage, summary.activeExecutionId, "cancel"),
            calls[c].reason, "load")
      BY DEF WellPlaced, RunPoints
    <3>2. CallsOK'
      BY <1>1, <1>6, <2>2, <3>1, ActiveInterrupted DEF LoadCancel, CallPoints
    <3>3. QED BY <1>6, <3>2, CallsOnlyTyped DEF LoadCancel
  <2>3. CASE ~Terminal(summary) /\ summary.activeExecutionId = 0
    <3>1. CallsOK'
      BY <1>1, <1>6, <2>3, Completed DEF LoadCancel, TerminalStatuses, FailureCodes
    <3>2. QED BY <1>6, <3>1, CallsOnlyTyped DEF LoadCancel
  <2>4. QED BY <2>1, <2>2, <2>3
<1>7. QED BY <1>3, <1>4, <1>5, <1>6

LEMMA EnvironmentTyped ==
    ASSUME TypeInv,
           \/ Expire
           \/ \E i \in DOMAIN dependency, s \in {"completed", "failed"} : SettleDependency(i, s)
           \/ \E p \in Processes : Crash(p)
    PROVE  TypeInv'
<1>1. CASE Expire
  BY <1>1 DEF Expire, TypeInv, TypeOK, CallsOK, journal, ActiveAtStage
<1>2. CASE \E i \in DOMAIN dependency, s \in {"completed", "failed"} : SettleDependency(i, s)
  <2>1. dependency' \in [1..definition.dependencies -> {"active", "completed", "failed"}]
    BY <1>2 DEF SettleDependency, TypeInv, TypeOK
  <2>2. QED BY <1>2, <2>1 DEF SettleDependency, TypeInv, TypeOK, CallsOK, journal, ActiveAtStage
<1>3. CASE \E p \in Processes : Crash(p)
  <2>1. PICK p \in Processes : Crash(p)
    BY <1>3
  <2>2. IdleCall \in Call /\ CallOK(IdleCall)
    BY DEF IdleCall, Call, Operations, CallPoints, CallOK, WellPlaced, RunPoints
  <2>3. CallsOK'
    BY <2>1, <2>2 DEF Crash, TypeInv, CallsOK
  <2>4. lease' \in Calls \cup {NoCall} /\ active' \in [Processes -> Calls \cup {NoCall}]
    BY <2>1 DEF Crash, TypeInv, TypeOK
  <2>5. QED BY <2>1, <2>3, <2>4, CallStepTyped DEF Crash
<1>4. QED BY <1>1, <1>2, <1>3

LEMMA NextTyped == TypeInv /\ [Next]_vars => TypeInv'
<1> SUFFICES ASSUME TypeInv, [Next]_vars PROVE TypeInv'
  OBVIOUS
<1>1. CASE \E c \in Calls : Step(c)
  BY <1>1, EntryTyped, AppendTyped, ResumptionTyped, StageTyped, ApprovalTyped DEF Step
<1>2. CASE Environment
  BY <1>2, EntryTyped, EnvironmentTyped DEF Environment
<1>3. CASE UNCHANGED vars
  BY <1>3 DEF vars, TypeInv, TypeOK, CallsOK, ActiveAtStage
<1>4. QED BY <1>1, <1>2, <1>3 DEF Next

LEMMA TypeInvariance == Spec => []TypeInv
BY InitTyped, NextTyped, PTL DEF Spec

(* Whatever calls, crashes and worker outcomes there are, every variable   *)
(* stays in its type; in particular every event a call publishes is an     *)
(* event of the code's schema, with a known status, stage and failure code.*)
THEOREM TypeCorrect == Spec => []TypeOK
<1>1. TypeInv => TypeOK
  BY DEF TypeInv
<1>2. QED BY <1>1, TypeInvariance, PTL

(* A call at one of these points holds the workflow lease.                 *)
LeasePoints == {"load", "recover", "dependencies", "waited", "loop", "validate",
    "requested", "delegate", "settled", "decided", "append", "finalize", "release"}

(* A step of the lease holder that publishes nothing yet: the call goes on *)
(* under the lease, and what it may publish next is no dependency state.   *)
(* The points "dependencies" and "delegate" are reached otherwise.         *)
Move(c) ==
    /\ \A d \in Calls \ {c} : calls'[d] = calls[d]
    /\ calls'[c].pc \in LeasePoints \ {"dependencies", "delegate"}
    /\ calls'[c].pc = "append" =>
          /\ calls'[c].next \in LeasePoints \ {"append", "dependencies"}
          /\ calls'[c].event.type # "WorkflowDependencyStateChanged"

LEMMA GotoMoves ==
    ASSUME CallsOK, NEW c \in Calls,
           NEW pc \in LeasePoints \ {"append", "dependencies", "delegate"}, Goto(c, pc)
    PROVE  Move(c)
<1>1. /\ \A d \in Calls \ {c} : calls'[d] = calls[d]
      /\ calls'[c].pc = pc
  BY DEF Goto, CallsOK, Call
<1>2. QED BY <1>1 DEF Move

LEMMA FinishMoves ==
    ASSUME CallsOK, NEW c \in Calls, NEW result, Finish(c, result)
    PROVE  Move(c)
<1>1. /\ \A d \in Calls \ {c} : calls'[d] = calls[d]
      /\ calls'[c].pc = "release"
  BY DEF Finish, CallsOK, Call
<1>2. QED BY <1>1 DEF Move, LeasePoints

LEMMA PublishSets ==
    ASSUME CallsOK, NEW c \in Calls, NEW e, NEW guard, NEW next, Publish(c, e, guard, next)
    PROVE  /\ \A d \in Calls \ {c} : calls'[d] = calls[d]
           /\ calls'[c].pc = "append"
           /\ calls'[c].event = e
           /\ calls'[c].next = next
BY DEF Publish, CallsOK, Call

LEMMA PublishMoves ==
    ASSUME CallsOK, NEW c \in Calls, NEW e, e.type # "WorkflowDependencyStateChanged",
           NEW guard, NEW next \in LeasePoints \ {"append", "dependencies"},
           Publish(c, e, guard, next)
    PROVE  Move(c)
BY PublishSets DEF Move, LeasePoints

LEMMA CompleteMoves ==
    ASSUME CallsOK, NEW c \in Calls
    PROVE  /\ \A status, code : Complete(c, status, code) => Move(c)
           /\ CompleteInterrupted(c) => Move(c)
           /\ \A status, code : CompleteBeforeDeadline(c, status, code) => Move(c)
           /\ \A e : CompleteAfterStage(c, e) => Move(c)
<1>1. ASSUME NEW status, NEW code
      PROVE  CompletedEvent(status, code, summary.candidateRunId).type
                # "WorkflowDependencyStateChanged"
  BY DEF CompletedEvent
<1>2. "release" \in LeasePoints \ {"append", "dependencies"}
  BY DEF LeasePoints
<1>3. ASSUME NEW status, NEW code, Complete(c, status, code)
      PROVE  Move(c)
  BY <1>1, <1>2, <1>3, PublishMoves DEF Complete
<1>4. CompleteInterrupted(c) => Move(c)
  BY <1>3 DEF CompleteInterrupted
<1>5. ASSUME NEW status, NEW code, CompleteBeforeDeadline(c, status, code)
      PROVE  Move(c)
  BY <1>1, <1>2, <1>4, <1>5, PublishMoves DEF CompleteBeforeDeadline, PublishBeforeDeadline
<1>6. ASSUME NEW e, CompleteAfterStage(c, e)
      PROVE  Move(c)
  BY <1>3, <1>5, <1>6 DEF CompleteAfterStage
<1>7. QED BY <1>3, <1>4, <1>5, <1>6

LEMMA PublishBeforeDeadlineMoves ==
    ASSUME CallsOK, NEW c \in Calls, NEW e, e.type # "WorkflowDependencyStateChanged",
           NEW next \in LeasePoints \ {"append", "dependencies"},
           PublishBeforeDeadline(c, e, next)
    PROVE  Move(c)
BY CompleteMoves, PublishMoves DEF PublishBeforeDeadline

LEMMA InterruptMoves ==
    ASSUME CallsOK, NEW c \in Calls, NEW reason,
           NEW next \in LeasePoints \ {"append", "dependencies"},
           InterruptActive(c, reason, next)
    PROVE  Move(c)
<1>1. InterruptedEvent(summary.currentStage, summary.activeExecutionId, reason).type
        # "WorkflowDependencyStateChanged"
  BY DEF InterruptedEvent
<1>2. QED BY <1>1, PublishMoves DEF InterruptActive

(* The steps of the lease holder other than an append, and the two that    *)
(* deal with dependencies.                                                 *)
HolderStep(c) ==
    \/ AppendRejected(c) \/ AppendInterrupted(c) \/ Finalize(c) \/ Load(c) \/ Waited(c)
    \/ StartStage(c) \/ HeadOfLoop(c) \/ Delegate(c) \/ StageSettled(c)
    \/ ValidateCandidate(c) \/ LoadDecision(c) \/ Decided(c) \/ LoadCancel(c)

LEMMA HolderStepMoves ==
    ASSUME TypeInv, NEW c \in Calls, HolderStep(c)
    PROVE  /\ calls[c].pc \in LeasePoints
           /\ Move(c)
           /\ UNCHANGED <<journal, dependency, expired, lease, active>>
<1>1. CallsOK /\ calls[c] \in Call /\ CallOK(calls[c])
  BY DEF TypeInv, CallsOK
<1>2. CASE AppendRejected(c) \/ AppendInterrupted(c)
  <2>1. calls' = [calls EXCEPT ![c].pc = "finalize", ![c].reason = "cancel"] => Move(c)
    BY <1>1 DEF CallsOK, Call, Move, LeasePoints
  <2>2. ASSUME NEW reason,
               calls' = [calls EXCEPT ![c].pc = "finalize", ![c].reason = reason]
        PROVE  Move(c)
    BY <1>1, <2>2 DEF CallsOK, Call, Move, LeasePoints
  <2>3. Move(c)
    BY <1>1, <1>2, <2>1, <2>2, FinishMoves, CompleteMoves DEF AppendRejected, AppendInterrupted
  <2>4. QED BY <1>2, <2>3 DEF AppendRejected, AppendInterrupted, At, LeasePoints
<1>3. CASE Finalize(c) \/ Load(c) \/ LoadCancel(c)
  <2>1. {"finalize", "recover", "load"} \subseteq LeasePoints \ {"append", "dependencies", "delegate"}
    BY DEF LeasePoints
  <2>2. Move(c)
    BY <1>1, <1>3, <2>1, FinishMoves, GotoMoves, InterruptMoves, CompleteMoves
       DEF Finalize, Load, LoadCancel
  <2>3. QED BY <1>3, <2>1, <2>2 DEF Finalize, Load, LoadCancel, At
<1>4. CASE Waited(c) \/ HeadOfLoop(c) \/ StageSettled(c) \/ LoadDecision(c) \/ Decided(c)
  <2>1. {"waited", "requested", "loop", "settled", "load", "decided", "validate"}
          \subseteq LeasePoints \ {"append", "dependencies", "delegate"}
    BY DEF LeasePoints
  <2>2. Move(c)
    BY <1>1, <1>4, <2>1, FinishMoves, GotoMoves, CompleteMoves
       DEF Waited, HeadOfLoop, StageSettled, LoadDecision, Decided
  <2>3. QED BY <1>4, <2>1, <2>2
               DEF Waited, HeadOfLoop, StageSettled, LoadDecision, Decided, At
<1>5. CASE StartStage(c)
  <2>1. ASSUME NEW stage, NEW n, NEW attempt, NEW source,
               Publish(c, StartedEvent(stage, n, attempt, source), "stage", "delegate")
        PROVE  Move(c)
    BY <1>1, <2>1, PublishMoves DEF StartedEvent, LeasePoints
  <2>2. Move(c)
    BY <1>1, <1>5, <2>1, CompleteMoves DEF StartStage
  <2>3. QED BY <1>5, <2>2 DEF StartStage, At, LeasePoints
<1>6. CASE Delegate(c)
  <2>1. calls[c].event \in WorkflowEvent /\ calls[c].event.type = "WorkflowStageStarted"
    BY <1>1, <1>6 DEF Delegate, At, CallOK, WellPlaced, Call, NoEvent
  <2>2. PICK o \in WorkerOutcomes(calls[c].event.stage, calls[c].event.sourceRunId) :
               Publish(c, StageResult(c, o), "stage", "settled")
    BY <1>6 DEF Delegate
  <2>3. StageResult(c, o).type = "WorkflowStageCompleted"
    BY <2>1, OutcomesTyped, StageResultTyped DEF TypeInv, TypeOK
  <2>4. Move(c)
    BY <1>1, <2>2, <2>3, PublishMoves DEF LeasePoints
  <2>5. QED BY <1>6, <2>4 DEF Delegate, At, LeasePoints
<1>7. CASE ValidateCandidate(c)
  <2>1. calls[c].op \in {"run", "approve", "reject"}
    BY <1>1, <1>7 DEF ValidateCandidate, At, CallOK, WellPlaced, Call, Operations
  <2>2. ASSUME NEW decision, NEW stage,
               PublishBeforeDeadline(c, DecidedEvent(decision, stage), "decided")
        PROVE  Move(c)
    BY <1>1, <2>2, PublishBeforeDeadlineMoves DEF DecidedEvent, LeasePoints
  <2>3. PublishBeforeDeadline(c, RequestedEvent(summary.candidateRunId), "requested") => Move(c)
    BY <1>1, PublishBeforeDeadlineMoves DEF RequestedEvent, LeasePoints
  <2>4. UseCandidate(c) => Move(c)
    BY <1>1, <2>1, <2>2, <2>3, CompleteMoves DEF UseCandidate
  <2>5. Move(c)
    BY <1>1, <1>7, <2>4, FinishMoves, CompleteMoves DEF ValidateCandidate
  <2>6. QED BY <1>7, <2>5 DEF ValidateCandidate, At, LeasePoints
<1>8. QED BY <1>2, <1>3, <1>4, <1>5, <1>6, <1>7 DEF HolderStep

(***************************************************************************)
(* The lease: who stands at a point under the lease holds it, so nobody    *)
(* else publishes.                                                         *)
(***************************************************************************)
HolderOK(c) ==
    /\ calls[c].pc \in LeasePoints => lease = c
    /\ calls[c].pc = "append" => calls[c].next \in LeasePoints \ {"append", "dependencies"}

LeaseInv == TypeInv /\ \A c \in Calls : HolderOK(c)

(* The steps of a call that enters, leaves, or is aborted, and the crash of*)
(* a process: the journal stays, and no call comes to stand at a point     *)
(* under the lease but by Acquire.                                         *)
Outside ==
    \/ \E c \in Calls : \/ \E op \in Operations : Enter(c, op)
                        \/ Cancel(c) \/ AwaitedCompletion(c) \/ Acquire(c) \/ Refuse(c)
                        \/ Release(c) \/ Unregister(c) \/ Return(c) \/ Abort(c)
    \/ \E p \in Processes : Crash(p)

(* What such a step does to one call.                                      *)
Kept(d) ==
    /\ calls'[d].pc \in LeasePoints \ {"load"}
          => /\ calls'[d].pc = calls[d].pc
             /\ calls'[d].event = calls[d].event
             /\ calls'[d].next = calls[d].next
             /\ calls'[d].op = calls[d].op
             /\ calls'[d].guard = calls[d].guard
             /\ calls'[d].result = calls[d].result
             /\ lease = d => lease' = d
    /\ calls'[d].pc = "load" => lease' = d \/ (calls[d].pc = "load" /\ lease' = lease)
    /\ calls'[d].pc \in {"acquire", "load"}
          => \/ calls'[d].result = "none"
             \/ calls[d].pc \in {"acquire", "load"} /\ calls'[d].result = calls[d].result

LEMMA OutsideKeeps ==
    ASSUME LeaseInv, Outside
    PROVE  /\ UNCHANGED <<journal, dependency, expired>>
           /\ \A d \in Calls : Kept(d)
<1>1. /\ CallsOK /\ calls \in [Calls -> Call] /\ ProcessOf \in [Calls -> Processes]
      /\ lease \in Calls \cup {NoCall} /\ active \in [Processes -> Calls \cup {NoCall}]
      /\ NoCall \notin Calls
  BY CallAssumption DEF LeaseInv, TypeInv, TypeOK, CallsOK
<1> USE DEF Kept
<1>2. ASSUME NEW c \in Calls, \E op \in Operations : Enter(c, op)
      PROVE  \A d \in Calls : Kept(d)
  BY <1>1, <1>2 DEF Enter, IdleCall, LeasePoints
<1>3. ASSUME NEW c \in Calls, Cancel(c)
      PROVE  \A d \in Calls : Kept(d)
  <2> DEFINE target == active[ProcessOf[c]]
  <2>1. CASE target = NoCall
    BY <1>1, <1>3, <2>1 DEF Cancel, IdleCall, LeasePoints
  <2>2. CASE target # NoCall
    <3> DEFINE k == [IdleCall EXCEPT !.op = "cancel", !.pc = "await", !.awaits = target]
               f == [calls EXCEPT ![c] = k]
    <3>1. calls' = [f EXCEPT ![target].aborted = TRUE] /\ lease' = lease
      BY <1>3, <2>2 DEF Cancel
    <3>2. target \in Calls /\ k.pc = "await" /\ DOMAIN f = Calls /\ f[c] = k
          /\ \A d \in Calls \ {c} : f[d] = calls[d]
      BY <1>1, <2>2 DEF IdleCall
    <3>3. k \in Call
      BY <3>2 DEF IdleCall, Call, Operations, CallPoints
    <3>4. \A d \in Calls : f[d] \in Call
      BY <1>1, <3>2, <3>3
    <3> HIDE DEF f, k, target
    <3>5. \A d \in Calls : /\ calls'[d].pc = f[d].pc
                           /\ calls'[d].event = f[d].event
                           /\ calls'[d].next = f[d].next
                           /\ calls'[d].op = f[d].op
                           /\ calls'[d].guard = f[d].guard
                           /\ calls'[d].result = f[d].result
      BY <3>1, <3>2, <3>4 DEF Call
    <3>6. QED BY <3>1, <3>2, <3>5 DEF LeasePoints
  <2>3. QED BY <2>1, <2>2
<1>4. ASSUME NEW c \in Calls, AwaitedCompletion(c) \/ Refuse(c)
      PROVE  \A d \in Calls : Kept(d)
  BY <1>1, <1>4 DEF AwaitedCompletion, Refuse, Call, LeasePoints
<1>5. ASSUME NEW c \in Calls, Acquire(c)
      PROVE  \A d \in Calls : Kept(d)
  <2>1. /\ calls[c].pc = "acquire" /\ calls'[c].pc = "load" /\ lease' = c
        /\ calls'[c].result = calls[c].result
        /\ \A d \in Calls \ {c} : calls'[d] = calls[d]
    BY <1>1, <1>5 DEF Acquire, Goto, At, Call
  <2>2. \A d \in Calls : calls[d].pc \notin LeasePoints
    BY <1>1, <1>5 DEF Acquire, LeaseInv, HolderOK
  <2>3. QED BY <2>1, <2>2 DEF LeasePoints
<1>6. ASSUME NEW c \in Calls, Release(c)
      PROVE  \A d \in Calls : Kept(d)
  <2>1. lease = c
    BY <1>6 DEF Release, At, LeaseInv, HolderOK, LeasePoints
  <2>2. calls'[c].pc = "unregister" /\ \A d \in Calls \ {c} : calls'[d] = calls[d]
    BY <1>1, <1>6 DEF Release, IdleCall
  <2>3. \A d \in Calls \ {c} : calls[d].pc \notin LeasePoints
    BY <2>1 DEF LeaseInv, HolderOK
  <2>4. QED BY <2>2, <2>3 DEF LeasePoints
<1>7. ASSUME NEW c \in Calls, Unregister(c)
      PROVE  \A d \in Calls : Kept(d)
  BY <1>1, <1>7 DEF Unregister, At, Call, LeasePoints
<1>8. ASSUME NEW c \in Calls, Return(c)
      PROVE  \A d \in Calls : Kept(d)
  BY <1>1, <1>8 DEF Return, IdleCall, LeasePoints
<1>9. ASSUME NEW c \in Calls, Abort(c)
      PROVE  \A d \in Calls : Kept(d)
  BY <1>1, <1>9 DEF Abort, Call
<1>10. ASSUME NEW p \in Processes, Crash(p)
       PROVE  \A d \in Calls : Kept(d)
  <2>1. ASSUME NEW d \in Calls
        PROVE  Kept(d)
    <3>1. CASE ProcessOf[d] = p
      BY <1>10, <3>1 DEF Crash, IdleCall, LeasePoints
    <3>2. CASE ProcessOf[d] # p
      <4>1. calls'[d] = calls[d] /\ (lease = d => lease' = d)
        BY <1>1, <1>10, <3>2 DEF Crash
      <4>2. calls[d].pc = "load" => lease = d
        BY DEF LeaseInv, HolderOK, LeasePoints
      <4>3. QED BY <4>1, <4>2
    <3>3. QED BY <3>1, <3>2
  <2>2. QED BY <2>1
<1>11. UNCHANGED <<journal, dependency, expired>>
  BY DEF Outside, Enter, Cancel, AwaitedCompletion, Acquire, Refuse, Release, Unregister,
         Return, Abort, Crash, journal
<1>12. QED BY <1>2, <1>3, <1>4, <1>5, <1>6, <1>7, <1>8, <1>9, <1>10, <1>11 DEF Outside

LEMMA OutsideHolder ==
    ASSUME LeaseInv, Outside, TypeInv'
    PROVE  LeaseInv'
<1>1. ASSUME NEW d \in Calls
      PROVE  HolderOK(d)'
  <2>1. Kept(d) /\ HolderOK(d)
    BY OutsideKeeps DEF LeaseInv
  <2>2. CASE calls'[d].pc = "load"
    BY <2>1, <2>2 DEF Kept, HolderOK, LeasePoints
  <2>3. CASE calls'[d].pc # "load"
    <3>1. CASE calls'[d].pc \notin LeasePoints
      BY <3>1 DEF HolderOK, LeasePoints
    <3>2. CASE calls'[d].pc \in LeasePoints
      BY <2>1, <2>3, <3>2 DEF Kept, HolderOK
    <3>3. QED BY <3>1, <3>2
  <2>4. QED BY <2>2, <2>3
<1>2. QED BY <1>1 DEF LeaseInv

(* The three kinds of steps a holder takes besides.                        *)
LEMMA NextCases ==
    ASSUME [Next]_vars
    PROVE  \/ Outside
           \/ \E c \in Calls : \/ JournalAppend(c) \/ HolderStep(c)
                               \/ Recover(c) \/ CheckDependencies(c)
           \/ Expire
           \/ \E i \in DOMAIN dependency, s \in {"completed", "failed"} : SettleDependency(i, s)
           \/ UNCHANGED vars
BY DEF Next, Step, Environment, Outside, HolderStep

LEMMA AppendSets ==
    ASSUME CallsOK, NEW c \in Calls, JournalAppend(c)
    PROVE  /\ \A d \in Calls \ {c} : calls'[d] = calls[d]
           /\ calls'[c].pc = calls[c].next
           /\ calls'[c].event = calls[c].event
BY DEF JournalAppend, CallsOK, Call

(* Recovery goes on to the dependencies, or it moves.                      *)
LEMMA RecoverMoves ==
    ASSUME TypeInv, NEW c \in Calls, Recover(c)
    PROVE  \/ Move(c)
           \/ /\ Goto(c, "dependencies")
              /\ ~(LastEvent.type = "WorkflowApprovalDecided" /\ LastEvent.nextStage = "none")
<1>1. CallsOK
  BY DEF TypeInv
<1>2. Goto(c, "validate") => Move(c)
  BY <1>1, GotoMoves DEF LeasePoints
<1>3. QED BY <1>1, <1>2, CompleteMoves DEF Recover

(* The check of the dependencies announces a change of state, or it moves. *)
LEMMA CheckMoves ==
    ASSUME TypeInv, NEW c \in Calls, CheckDependencies(c)
    PROVE  \/ Move(c)
           \/ \E state \in {"waiting", "ready"}, next \in {"waited", "loop"} :
                 Publish(c, DependencyEvent(state), "plain", next)
<1>1. CallsOK
  BY DEF TypeInv
<1>2. Goto(c, "waited") \/ Goto(c, "loop") => Move(c)
  BY <1>1, GotoMoves DEF LeasePoints
<1>3. DependencyState \in {"waiting", "failed", "ready"}
  BY DEF DependencyState
<1>4. QED BY <1>1, <1>2, <1>3, CompleteMoves DEF CheckDependencies

LEMMA NextLease == LeaseInv /\ [Next]_vars => LeaseInv'
<1> SUFFICES ASSUME LeaseInv, [Next]_vars PROVE LeaseInv'
  OBVIOUS
<1>1. TypeInv' /\ CallsOK
  BY NextTyped DEF LeaseInv, TypeInv
<1>2. CASE Outside
  BY <1>1, <1>2, OutsideHolder
<1>3. ASSUME NEW c \in Calls, calls[c].pc \in LeasePoints, lease' = lease,
             \A d \in Calls \ {c} : calls'[d] = calls[d],
             calls'[c].pc = "append" =>
                 calls'[c].next \in LeasePoints \ {"append", "dependencies"}
      PROVE  LeaseInv'
  BY <1>1, <1>3 DEF LeaseInv, HolderOK
<1>4. ASSUME NEW c \in Calls, JournalAppend(c)
      PROVE  LeaseInv'
  BY <1>1, <1>3, <1>4, AppendSets DEF JournalAppend, At, LeaseInv, HolderOK, LeasePoints
<1>5. ASSUME NEW c \in Calls, HolderStep(c)
      PROVE  LeaseInv'
  BY <1>3, <1>5, HolderStepMoves DEF LeaseInv, Move
<1>6. ASSUME NEW c \in Calls, Recover(c)
      PROVE  LeaseInv'
  <2>1. Goto(c, "dependencies") => /\ calls'[c].pc = "dependencies"
                                   /\ \A d \in Calls \ {c} : calls'[d] = calls[d]
    BY <1>1 DEF Goto, CallsOK, Call
  <2>2. QED BY <1>3, <1>6, <2>1, RecoverMoves DEF LeaseInv, Move, Recover, At, LeasePoints
<1>7. ASSUME NEW c \in Calls, CheckDependencies(c)
      PROVE  LeaseInv'
  <2>1. ASSUME NEW state, NEW next \in {"waited", "loop"},
               Publish(c, DependencyEvent(state), "plain", next)
        PROVE  /\ calls'[c].next \in LeasePoints \ {"append", "dependencies"}
               /\ \A d \in Calls \ {c} : calls'[d] = calls[d]
    BY <1>1, <2>1, PublishSets DEF LeasePoints
  <2>2. QED BY <1>3, <1>7, <2>1, CheckMoves
            DEF LeaseInv, Move, CheckDependencies, At, LeasePoints
<1>8. CASE \/ Expire \/ UNCHANGED vars
           \/ \E i \in DOMAIN dependency, s \in {"completed", "failed"} :
                  SettleDependency(i, s)
  BY <1>1, <1>8 DEF Expire, SettleDependency, vars, LeaseInv, HolderOK
<1>9. QED BY <1>2, <1>4, <1>5, <1>6, <1>7, <1>8, NextCases

(***************************************************************************)
(* What approval means.  An open request is the last event of the journal; *)
(* an approval follows its request, and nothing but the end follows it.    *)
(***************************************************************************)
Trail ==
    /\ summary.approvalRequested /\ ~Terminal(summary) =>
          /\ summary.currentStage = "approval"
          /\ summary.activeExecutionId = 0
          /\ LastEvent = RequestedEvent(summary.candidateRunId)
    /\ summary.approvalDecision = "approved" /\ ~Terminal(summary) =>
          /\ summary.currentStage = "none"
          /\ summary.activeExecutionId = 0
          /\ ~summary.approvalRequested
          /\ Len(events) > 1
          /\ LastEvent = DecidedEvent("approved", "none")
          /\ events[Len(events) - 1] = RequestedEvent(summary.candidateRunId)
    /\ CompletedAsApproved

LEMMA Extended ==
    ASSUME NEW S, NEW s \in Seq(S), NEW e \in S
    PROVE  /\ Len(s \o <<e>>) = Len(s) + 1
           /\ (s \o <<e>>)[Len(s) + 1] = e
           /\ \A i \in 1..Len(s) : (s \o <<e>>)[i] = s[i]
OBVIOUS

LEMMA TrailExtended ==
    ASSUME TypeInv, TypeInv', Trail, NEW e \in WorkflowEvent,
           EventAllowed(definition, summary, e),
           e.type = "WorkflowDependencyStateChanged" => summary.approvalDecision # "approved",
           events' = events \o <<e>>, summary' = ProjectEvent(summary, e)
    PROVE  Trail'
<1>1. /\ summary \in Projection /\ events \in Seq(WorkflowEvent) /\ Len(events) \in Nat
      /\ Len(events) > 0 /\ ~Terminal(summary)
  BY DEF TypeInv, TypeOK, EventAllowed
<1>2. /\ Len(events') = Len(events) + 1
      /\ events'[Len(events) + 1] = e
      /\ \A i \in 1..Len(events) : events'[i] = events[i]
  BY <1>1, Extended
<1>3. LastEvent' = e
  BY <1>2 DEF LastEvent
<1>4. CASE e.type = "WorkflowDependencyStateChanged"
  <2>1. /\ summary' = ProjectDependency(summary, e) /\ DependencyAllowed(definition, summary, e)
    BY <1>4 DEF EventAllowed, ProjectEvent
  <2>2. /\ summary'.approvalRequested = FALSE
        /\ summary'.approvalDecision # "approved"
        /\ summary'.status \in {"waiting_for_dependency", "pending"}
    BY <1>1, <1>4, <2>1 DEF DependencyAllowed, ProjectDependency, Projection
  <2>3. QED BY <2>2 DEF Trail, CompletedAsApproved
<1>5. CASE e.type = "WorkflowStageStarted"
  <2>1. /\ summary' = ProjectStart(summary, e) /\ StartAllowed(definition, summary, e)
        /\ e.stage \in WorkerStages
    BY <1>5 DEF EventAllowed, ProjectEvent, WorkflowEvent, CreatedEvent
  <2>2. summary.approvalDecision # "approved"
    BY <1>1, <2>1 DEF StartAllowed, Trail, WorkerStages
  <2>3. /\ summary'.approvalRequested = FALSE
        /\ summary'.approvalDecision # "approved"
        /\ summary'.status = "running"
    BY <1>1, <2>1, <2>2 DEF StartAllowed, ProjectStart, Projection
  <2>4. QED BY <2>3 DEF Trail, CompletedAsApproved
<1>6. CASE e.type = "WorkflowStageInterrupted"
  <2>1. /\ summary' = ProjectInterrupt(summary, e) /\ summary.activeExecutionId # 0
    BY <1>6 DEF EventAllowed, ProjectEvent, InterruptAllowed
  <2>2. ~summary.approvalRequested /\ summary.approvalDecision # "approved"
    BY <1>1, <2>1 DEF Trail
  <2>3. /\ summary'.approvalRequested = FALSE
        /\ summary'.approvalDecision # "approved"
        /\ summary'.status = "pending"
    BY <1>1, <2>1, <2>2 DEF ProjectInterrupt, Projection
  <2>4. QED BY <2>3 DEF Trail, CompletedAsApproved
<1>7. CASE e.type = "WorkflowStageCompleted"
  <2>1. /\ summary' = ProjectStageCompletion(summary, e) /\ summary.activeExecutionId # 0
    BY <1>7 DEF EventAllowed, ProjectEvent, StageCompletionAllowed
  <2>2. ~summary.approvalRequested /\ summary.approvalDecision # "approved"
    BY <1>1, <2>1 DEF Trail
  <2>3. /\ summary'.approvalRequested = FALSE
        /\ summary'.approvalDecision # "approved"
        /\ summary'.status = "pending"
    BY <1>1, <2>1, <2>2 DEF ProjectStageCompletion, Projection
  <2>4. QED BY <2>3 DEF Trail, CompletedAsApproved
<1>8. CASE e.type = "WorkflowApprovalRequested"
  <2>1. /\ summary' = ProjectRequest(summary, e) /\ RequestAllowed(definition, summary, e)
        /\ e = RequestedEvent(e.candidateRunId)
    BY <1>8 DEF EventAllowed, ProjectEvent, WorkflowEvent, CreatedEvent, RequestedEvent
  <2>2. /\ summary'.currentStage = "approval" /\ summary'.activeExecutionId = 0
        /\ summary'.candidateRunId = e.candidateRunId
        /\ summary'.approvalDecision = "none"
        /\ summary'.status = "waiting_for_approval"
    BY <1>1, <2>1 DEF RequestAllowed, ProjectRequest, Projection
  <2>3. QED BY <1>3, <2>1, <2>2 DEF Trail, CompletedAsApproved
<1>9. CASE e.type = "WorkflowApprovalDecided"
  <2>1. /\ summary' = ProjectDecision(summary, e) /\ DecisionAllowed(definition, summary, e)
        /\ e = DecidedEvent(e.decision, e.nextStage)
    BY <1>9 DEF EventAllowed, ProjectEvent, WorkflowEvent, CreatedEvent, DecidedEvent
  <2>2. /\ summary.activeExecutionId = 0
        /\ events[Len(events)] = RequestedEvent(summary.candidateRunId)
    BY <1>1, <2>1 DEF DecisionAllowed, Trail, LastEvent
  <2>3. /\ summary'.currentStage = e.nextStage /\ summary'.activeExecutionId = 0
        /\ summary'.candidateRunId = summary.candidateRunId
        /\ summary'.approvalRequested = FALSE
        /\ summary'.approvalDecision = e.decision
        /\ summary'.status = "pending"
    BY <1>1, <2>1, <2>2 DEF ProjectDecision, Projection
  <2>4. Len(events') > 1 /\ events'[Len(events') - 1] = RequestedEvent(summary'.candidateRunId)
    BY <1>1, <1>2, <2>2, <2>3
  <2>5. e.decision = "approved" => e.nextStage = "none"
    BY <2>1 DEF DecisionAllowed
  <2>6. QED BY <1>3, <2>1, <2>3, <2>4, <2>5 DEF Trail, CompletedAsApproved
<1>10. CASE e.type = "WorkflowCompleted"
  <2>1. /\ summary' = ProjectCompletion(summary, e)
        /\ CompletionAllowed(definition, summary, e)
        /\ e.status \in TerminalStatuses
        /\ e = CompletedEvent(e.status, e.failureCode, e.candidateRunId)
    BY <1>10 DEF EventAllowed, ProjectEvent, WorkflowEvent, CreatedEvent, CompletedEvent
  <2>2. /\ summary'.status = e.status /\ summary'.candidateRunId = summary.candidateRunId
        /\ Terminal(summary')
    BY <1>1, <2>1 DEF ProjectCompletion, Projection, Terminal
  <2>3. ASSUME e.status = "completed"
        PROVE  CompletedAsApproved'
    <3>1. /\ e.failureCode = "none" /\ e.candidateRunId = summary.candidateRunId
          /\ summary.approvalDecision = "approved"
      BY <2>1, <2>3 DEF CompletionAllowed
    <3>2. /\ Len(events) > 1
          /\ events[Len(events)] = DecidedEvent("approved", "none")
          /\ events[Len(events) - 1] = RequestedEvent(summary.candidateRunId)
      BY <1>1, <3>1 DEF Trail, LastEvent
    <3>3. /\ events'[Len(events')] = CompletedEvent("completed", "none", summary'.candidateRunId)
          /\ events'[Len(events') - 1] = DecidedEvent("approved", "none")
          /\ events'[Len(events') - 2] = RequestedEvent(summary'.candidateRunId)
          /\ Len(events') > 2
      BY <1>1, <1>2, <2>1, <2>2, <2>3, <3>1, <3>2
    <3>4. QED BY <3>3 DEF CompletedAsApproved
  <2>4. QED BY <2>2, <2>3 DEF Trail, CompletedAsApproved
<1>11. QED BY <1>4, <1>5, <1>6, <1>7, <1>8, <1>9, <1>10 DEF EventAllowed

(***************************************************************************)
(* The inductive invariant.                                                *)
(***************************************************************************)
(* The execution a worker runs for is the journal's active one.            *)
OwnsOK(c) ==
    calls[c].pc = "delegate" =>
        /\ summary.activeExecutionId = calls[c].event.executionId
        /\ summary.currentStage = calls[c].event.stage

AboutDependencies(c) ==
    \/ calls[c].pc = "dependencies"
    \/ calls[c].pc = "append" /\ calls[c].event.type = "WorkflowDependencyStateChanged"

(* Who is about to record a dependency state did not find an approval.     *)
UnapprovedOK(c) ==
    AboutDependencies(c) => Terminal(summary) \/ summary.approvalDecision # "approved"

SafeInv ==
    /\ LeaseInv
    /\ Trail
    /\ \A c \in Calls : OwnsOK(c) /\ UnapprovedOK(c)

LEMMA InitSafe == Init => SafeInv
<1> SUFFICES ASSUME Init PROVE SafeInv
  OBVIOUS
<1>1. LeaseInv
  BY InitTyped DEF Init, IdleCall, LeaseInv, HolderOK, LeasePoints
<1>2. Trail
  BY DEF Init, InitialProjection, Trail, CompletedAsApproved
<1>3. \A c \in Calls : OwnsOK(c) /\ UnapprovedOK(c)
  BY DEF Init, IdleCall, OwnsOK, UnapprovedOK, AboutDependencies
<1>4. QED BY <1>1, <1>2, <1>3 DEF SafeInv

(* Other calls than the lease holder stand at no point under the lease.    *)
LEMMA OthersOutside ==
    ASSUME LeaseInv, NEW c \in Calls, calls[c].pc \in LeasePoints
    PROVE  \A d \in Calls \ {c} : calls[d].pc \notin LeasePoints
BY DEF LeaseInv, HolderOK

LEMMA AppendSafe ==
    ASSUME SafeInv, LeaseInv', NEW c \in Calls, JournalAppend(c)
    PROVE  SafeInv'
<1>1. /\ CallsOK /\ CallOK(calls[c]) /\ TypeInv /\ TypeInv' /\ summary \in Projection
      /\ LeaseInv /\ HolderOK(c) /\ UnapprovedOK(c) /\ Trail
  BY DEF SafeInv, LeaseInv, TypeInv, TypeOK, CallsOK
<1> DEFINE e == calls[c].event
<1>2. /\ calls[c].pc = "append" /\ e \in WorkflowEvent
      /\ EventAllowed(definition, summary, e)
      /\ events' = events \o <<e>> /\ summary' = ProjectEvent(summary, e)
  BY <1>1 DEF JournalAppend, At, CallOK
<1>3. /\ calls'[c].event = e /\ calls'[c].pc = calls[c].next
      /\ \A d \in Calls \ {c} : calls'[d] = calls[d]
  BY <1>1, AppendSets
<1>4. e.type = "WorkflowDependencyStateChanged" => summary.approvalDecision # "approved"
  BY <1>1, <1>2 DEF UnapprovedOK, AboutDependencies, EventAllowed
<1>5. Trail'
  BY <1>1, <1>2, <1>4, TrailExtended
<1>6. ASSUME NEW d \in Calls \ {c}
      PROVE  (OwnsOK(d) /\ UnapprovedOK(d))'
  <2>1. calls'[d].pc \notin LeasePoints
    BY <1>1, <1>2, <1>3, OthersOutside DEF LeasePoints
  <2>2. QED BY <2>1 DEF OwnsOK, UnapprovedOK, AboutDependencies, LeasePoints
<1>7. OwnsOK(c)'
  <2> SUFFICES ASSUME calls[c].next = "delegate"
               PROVE  /\ summary'.activeExecutionId = e.executionId
                      /\ summary'.currentStage = e.stage
    BY <1>3 DEF OwnsOK
  <2>1. e.type = "WorkflowStageStarted"
    BY <1>1, <1>2 DEF CallOK, WellPlaced
  <2>2. summary' = ProjectStart(summary, e) /\ StartAllowed(definition, summary, e)
    BY <1>2, <2>1 DEF EventAllowed, ProjectEvent
  <2>3. QED BY <1>1, <2>2 DEF StartAllowed, ProjectStart, Projection
<1>8. UnapprovedOK(c)'
  BY <1>1, <1>2, <1>3 DEF HolderOK, UnapprovedOK, AboutDependencies
<1>9. QED BY <1>5, <1>6, <1>7, <1>8 DEF SafeInv

(* A step of the lease holder that leaves the journal alone.               *)
LEMMA HolderSafe ==
    ASSUME SafeInv, LeaseInv', NEW c \in Calls, calls[c].pc \in LeasePoints,
           UNCHANGED journal, \A d \in Calls \ {c} : calls'[d] = calls[d],
           calls'[c].pc # "delegate", UnapprovedOK(c)'
    PROVE  SafeInv'
<1>1. ASSUME NEW d \in Calls \ {c}
      PROVE  (OwnsOK(d) /\ UnapprovedOK(d))'
  <2>1. calls'[d].pc \notin LeasePoints
    BY OthersOutside DEF SafeInv
  <2>2. QED BY <2>1 DEF OwnsOK, UnapprovedOK, AboutDependencies, LeasePoints
<1>2. OwnsOK(c)'
  BY DEF OwnsOK
<1>3. Trail'
  BY DEF SafeInv, Trail, CompletedAsApproved, LastEvent, journal
<1>4. QED BY <1>1, <1>2, <1>3 DEF SafeInv

LEMMA NextSafe == SafeInv /\ [Next]_vars => SafeInv'
<1> SUFFICES ASSUME SafeInv, [Next]_vars PROVE SafeInv'
  OBVIOUS
<1>1. LeaseInv /\ TypeInv /\ CallsOK
  BY DEF SafeInv, LeaseInv, TypeInv
<1>2. LeaseInv'
  BY <1>1, NextLease
<1>3. CASE Outside
  <2>1. UNCHANGED journal /\ \A d \in Calls : Kept(d)
    BY <1>1, <1>3, OutsideKeeps
  <2>2. ASSUME NEW d \in Calls
        PROVE  (OwnsOK(d) /\ UnapprovedOK(d))'
    <3>1. Kept(d) /\ OwnsOK(d) /\ UnapprovedOK(d)
      BY <2>1 DEF SafeInv
    <3>2. {"delegate", "dependencies", "append"} \subseteq LeasePoints \ {"load"}
      BY DEF LeasePoints
    <3>3. QED BY <2>1, <3>1, <3>2 DEF Kept, OwnsOK, UnapprovedOK, AboutDependencies, journal
  <2>3. Trail'
    BY <2>1 DEF SafeInv, Trail, CompletedAsApproved, LastEvent, journal
  <2>4. QED BY <1>2, <2>2, <2>3 DEF SafeInv
<1>4. ASSUME NEW c \in Calls, JournalAppend(c)
      PROVE  SafeInv'
  BY <1>2, <1>4, AppendSafe
<1>5. ASSUME NEW c \in Calls, Move(c), calls[c].pc \in LeasePoints, UNCHANGED journal
      PROVE  SafeInv'
  BY <1>2, <1>5, HolderSafe DEF Move, UnapprovedOK, AboutDependencies
<1>6. ASSUME NEW c \in Calls, HolderStep(c)
      PROVE  SafeInv'
  BY <1>1, <1>5, <1>6, HolderStepMoves
<1>7. ASSUME NEW c \in Calls, Recover(c)
      PROVE  SafeInv'
  <2>1. UNCHANGED journal /\ calls[c].pc \in LeasePoints
    BY <1>7 DEF Recover, At, LeasePoints
  <2>2. CASE Goto(c, "dependencies") /\
             ~(LastEvent.type = "WorkflowApprovalDecided" /\ LastEvent.nextStage = "none")
    <3>1. calls'[c].pc = "dependencies" /\ \A d \in Calls \ {c} : calls'[d] = calls[d]
      BY <1>1, <2>2 DEF Goto, CallsOK, Call
    <3>2. Terminal(summary) \/ summary.approvalDecision # "approved"
      BY <2>2 DEF SafeInv, Trail, DecidedEvent
    <3>3. UnapprovedOK(c)'
      BY <2>1, <3>2 DEF UnapprovedOK, Terminal, journal
    <3>4. QED BY <1>2, <2>1, <3>1, <3>3, HolderSafe
  <2>3. QED BY <1>1, <1>5, <1>7, <2>1, <2>2, RecoverMoves
<1>8. ASSUME NEW c \in Calls, CheckDependencies(c)
      PROVE  SafeInv'
  <2>1. UNCHANGED journal /\ calls[c].pc = "dependencies"
    BY <1>8 DEF CheckDependencies, At
  <2>2. UnapprovedOK(c)'
    BY <2>1 DEF SafeInv, UnapprovedOK, AboutDependencies, Terminal, journal
  <2>3. ASSUME NEW state, NEW next, Publish(c, DependencyEvent(state), "plain", next)
        PROVE  SafeInv'
    <3>1. calls'[c].pc = "append" /\ \A d \in Calls \ {c} : calls'[d] = calls[d]
      BY <1>1, <2>3, PublishSets
    <3>2. QED BY <1>2, <2>1, <2>2, <3>1, HolderSafe DEF LeasePoints
  <2>4. QED BY <1>1, <1>5, <1>8, <2>1, <2>3, CheckMoves DEF LeasePoints
<1>9. CASE \/ Expire \/ UNCHANGED vars
           \/ \E i \in DOMAIN dependency, s \in {"completed", "failed"} : SettleDependency(i, s)
  <2>1. UNCHANGED <<journal, calls>>
    BY <1>9 DEF Expire, SettleDependency, vars, journal
  <2>2. QED BY <1>2, <2>1 DEF SafeInv, Trail, CompletedAsApproved, LastEvent, OwnsOK,
                              UnapprovedOK, AboutDependencies, Terminal, journal
<1>10. QED BY <1>3, <1>4, <1>6, <1>7, <1>8, <1>9, NextCases

LEMMA SafeInvariance == Spec => []SafeInv
BY InitSafe, NextSafe, PTL DEF Spec

(* While a worker runs for a call, the journal shows its execution as the  *)
(* active one, and no second worker runs.                                  *)
THEOREM WorkersOwnTheirExecution == Spec => []WorkerOwnsExecution
<1>1. SafeInv => WorkerOwnsExecution
  <2> SUFFICES ASSUME SafeInv, NEW c \in Calls, At(c, "delegate")
               PROVE  /\ summary.activeExecutionId = calls[c].event.executionId
                      /\ summary.currentStage = calls[c].event.stage
                      /\ \A d \in Calls \ {c} : ~At(d, "delegate")
    BY DEF WorkerOwnsExecution
  <2>1. OwnsOK(c) /\ LeaseInv
    BY DEF SafeInv
  <2>2. QED BY <2>1, OthersOutside DEF At, OwnsOK, LeasePoints
<1>2. QED BY <1>1, SafeInvariance, PTL

(* A workflow completes only with the candidate that approval was requested*)
(* for and granted to, whatever crashed, expired or was resumed in between.*)
THEOREM CompletionNeedsApproval == Spec => []CompletedAsApproved
<1>1. SafeInv => CompletedAsApproved
  BY DEF SafeInv, Trail
<1>2. QED BY <1>1, SafeInvariance, PTL
=============================================================================
