---------------------------- MODULE WorkerProofs ----------------------------
(***************************************************************************)
(* Theorems about WorkerService, for every set of workers, tasks and       *)
(* reviews and for all bounds: its types, then the safety of an            *)
(* application and of a late run.  The journal is only ever changed by an  *)
(* event that its event model allows; which events those may be, at each   *)
(* place of a delegation and of an application, gives the invariants.      *)
(***************************************************************************)
EXTENDS WorkerService, TLAPS

(***************************************************************************)
(* The event model: an event takes a projection to a projection.           *)
(***************************************************************************)
LEMMA NoAttemptTyped == NoAttempt \in Attempt
BY DEF NoAttempt, Attempt

LEMMA InitialProjectionTyped == InitialProjection \in Projection
BY NoAttemptTyped DEF InitialProjection, Projection, Applications

LEMMA RouteProjected ==
    ASSUME NEW t \in Projection, NEW e \in TaskEvent, e.type = "RouteSelected"
    PROVE  ProjectRoute(t, e) \in Projection
<1>1. e.route \in Seq(Workers) /\ e.maxAttempts \in Nat
  BY DEF TaskEvent
<1>2. QED BY <1>1 DEF ProjectRoute, Projection

LEMMA StartProjected ==
    ASSUME NEW t \in Projection, NEW e \in TaskEvent, e.type = "WorkerStarted"
    PROVE  ProjectStart(t, e) \in Projection
<1>1. e.run \in Nat /\ e.worker \in Workers /\ e.attempt \in Nat
  BY DEF TaskEvent
<1> DEFINE started == [NoAttempt EXCEPT !.run = e.run, !.worker = e.worker]
<1>2. started \in Attempt
  BY <1>1, NoAttemptTyped DEF Attempt
<1> HIDE DEF started
<1>3. ProjectStart(t, e) = [t EXCEPT !.active = started, !.known = t.known \cup {e.run},
                                     !.attemptCount = e.attempt]
  BY DEF ProjectStart, Projection, started
<1>4. t.known \cup {e.run} \in SUBSET Nat
  BY <1>1 DEF Projection
<1>5. QED BY <1>1, <1>2, <1>3, <1>4 DEF Projection

LEMMA TurnProjected ==
    ASSUME NEW t \in Projection, NEW e \in TaskEvent, e.type = "ModelTurnCompleted"
    PROVE  ProjectTurn(t, e) \in Projection
<1>1. e.iteration \in Nat /\ e.toolCalls \in Nat
  BY DEF TaskEvent
<1> DEFINE failed   == e.outcome = "failed"
           terminal == e.outcome = "failed" \/ e.toolCalls = 0
<1>2. failed \in BOOLEAN /\ terminal \in BOOLEAN
  OBVIOUS
<1>3. t.active \in Attempt
  BY DEF Projection
<1>4. ProjectTurn(t, e) =
        [t EXCEPT !.active = [t.active EXCEPT !.iteration = e.iteration, !.modelFailed = failed,
                                              !.modelTerminal = terminal,
                                              !.expected = e.toolCalls, !.observed = 0]]
  BY <1>3 DEF ProjectTurn, Projection, Attempt
<1> HIDE DEF failed, terminal
<1> DEFINE answered == [t.active EXCEPT !.iteration = e.iteration, !.modelFailed = failed,
                                        !.modelTerminal = terminal,
                                        !.expected = e.toolCalls, !.observed = 0]
<1>5. answered \in Attempt
  BY <1>1, <1>2, <1>3 DEF Attempt
<1> HIDE DEF answered
<1>6. [t EXCEPT !.active = answered] \in Projection
  BY <1>5 DEF Projection
<1>7. QED BY <1>4, <1>6 DEF answered

LEMMA ToolCallProjected ==
    ASSUME NEW t \in Projection, NEW e \in TaskEvent
    PROVE  ProjectToolCall(t, e) \in Projection
<1>1. t.active \in Attempt
  BY DEF Projection
<1>2. [t.active EXCEPT !.observed = @ + 1] \in Attempt
  BY <1>1 DEF Attempt
<1>3. QED BY <1>2 DEF ProjectToolCall, Projection

LEMMA WorkProjected ==
    ASSUME NEW t \in Projection, NEW e \in TaskEvent, e.type = "WorkerCompleted"
    PROVE  ProjectWork(t, e) \in Projection
<1>1. e.run \in Nat /\ e.outcome \in Outcomes
  BY DEF TaskEvent
<1>2. t.active.worker \in Workers \cup {"none"}
  BY DEF Projection, Attempt
<1>3. [NoAttempt EXCEPT !.run = e.run, !.worker = t.active.worker, !.worked = e.outcome]
         \in Attempt
  BY <1>1, <1>2, NoAttemptTyped DEF Attempt
<1>4. QED BY <1>3 DEF ProjectWork, Projection

LEMMA PatchProjected ==
    ASSUME NEW t \in Projection, NEW e \in TaskEvent, e.type = "PatchProduced"
    PROVE  ProjectPatch(t, e) \in Projection
<1>1. e.files \in Nat /\ t.active \in Attempt
  BY DEF TaskEvent, Projection
<1>2. [t.active EXCEPT !.patch = e.files] \in Attempt
  BY <1>1 DEF Attempt
<1>3. QED BY <1>2 DEF ProjectPatch, Projection

LEMMA ValidationProjected ==
    ASSUME NEW t \in Projection, NEW e \in TaskEvent, e.type = "ValidationCompleted"
    PROVE  ProjectValidation(t, e) \in Projection
<1>1. e.outcome \in ValidationOutcomes /\ t.active \in Attempt
  BY DEF TaskEvent, Projection
<1>2. [t.active EXCEPT !.validation = e.outcome] \in Attempt
  BY <1>1 DEF Attempt
<1>3. QED BY <1>2 DEF ProjectValidation, Projection

LEMMA EvaluationProjected ==
    ASSUME NEW t \in Projection, NEW e \in TaskEvent, e.type = "EvaluationCompleted"
    PROVE  ProjectEvaluation(t, e) \in Projection
<1>1. /\ e.outcome \in EvaluationOutcomes /\ e.policy \in Policies
      /\ e.failed \in SUBSET Dimensions /\ e.unknown \in SUBSET Dimensions
  BY DEF TaskEvent
<1>2. t.active \in Attempt
  BY DEF Projection
<1> DEFINE judged == [t.active EXCEPT !.evaluation = e.outcome, !.policy = e.policy,
                                      !.failed = e.failed, !.unknown = e.unknown]
<1>3. judged \in Attempt
  BY <1>1, <1>2 DEF Attempt
<1>4. ProjectEvaluation(t, e) = [t EXCEPT !.active = judged]
  BY <1>2 DEF ProjectEvaluation, Projection, Attempt
<1>5. QED BY <1>3, <1>4 DEF Projection

LEMMA AttemptEndProjected ==
    ASSUME NEW t \in Projection, NEW e \in TaskEvent, e.type = "AttemptCompleted"
    PROVE  ProjectAttemptEnd(t, e) \in Projection
<1>1. e.status \in RunStatuses /\ e.failureCode \in FailureCodes \cup {"none"}
  BY DEF TaskEvent
<1>2. t.active \in Attempt
  BY DEF Projection
<1>3. [t.active EXCEPT !.status = e.status, !.failureCode = e.failureCode] \in Attempt
  BY <1>1, <1>2 DEF Attempt
<1>4. QED BY <1>3, NoAttemptTyped DEF ProjectAttemptEnd, Projection

LEMMA TaskEndProjected ==
    ASSUME NEW t \in Projection, NEW e \in TaskEvent, e.type = "TaskCompleted"
    PROVE  ProjectTaskEnd(t, e) \in Projection
<1>1. e.status \in RunStatuses
  BY DEF TaskEvent
<1>2. QED BY <1>1 DEF ProjectTaskEnd, Projection

LEMMA ApplicationProjected ==
    ASSUME NEW t \in Projection, NEW e \in TaskEvent, e.type \notin ExecutionEvents
    PROVE  /\ ProjectRequest(t, e) \in Projection
           /\ ProjectApproval(t, e) \in Projection
           /\ ProjectApplied(t, e) \in Projection
           /\ ProjectRejection(t, e) \in Projection
<1>1. e.run \in Nat
  BY DEF TaskEvent, ExecutionEvents
<1>2. QED BY <1>1 DEF ProjectRequest, ProjectApproval, ProjectApplied, ProjectRejection,
                      Projection, Applications

LEMMA EventProjected ==
    ASSUME NEW t \in Projection, NEW e \in TaskEvent
    PROVE  ProjectEvent(t, e) \in Projection
<1>1. CASE e.type = "RouteSelected"
  BY <1>1, RouteProjected DEF ProjectEvent
<1>2. CASE e.type = "WorkerStarted"
  BY <1>2, StartProjected DEF ProjectEvent
<1>3. CASE e.type = "ModelTurnCompleted"
  BY <1>3, TurnProjected DEF ProjectEvent
<1>4. CASE e.type = "ToolCalled"
  BY <1>4, ToolCallProjected DEF ProjectEvent
<1>5. CASE e.type = "WorkerCompleted"
  BY <1>5, WorkProjected DEF ProjectEvent
<1>6. CASE e.type = "PatchProduced"
  BY <1>6, PatchProjected DEF ProjectEvent
<1>7. CASE e.type = "ValidationCompleted"
  BY <1>7, ValidationProjected DEF ProjectEvent
<1>8. CASE e.type = "EvaluationCompleted"
  BY <1>8, EvaluationProjected DEF ProjectEvent
<1>9. CASE e.type = "AttemptCompleted"
  BY <1>9, AttemptEndProjected DEF ProjectEvent
<1>10. CASE e.type = "TaskCompleted"
  BY <1>10, TaskEndProjected DEF ProjectEvent
<1>11. CASE e.type = "PatchApplicationRequested"
  BY <1>11, ApplicationProjected DEF ProjectEvent, ExecutionEvents
<1>12. CASE e.type = "PatchApproved"
  BY <1>12, ApplicationProjected DEF ProjectEvent, ExecutionEvents
<1>13. CASE e.type = "PatchApplied"
  BY <1>13, ApplicationProjected DEF ProjectEvent, ExecutionEvents
<1>14. CASE e.type = "PatchApplicationRejected"
  BY <1>14, ApplicationProjected DEF ProjectEvent, ExecutionEvents
<1>15. e.type \in ExecutionEvents \cup {"PatchApplicationRequested", "PatchApproved",
                                        "PatchApplied", "PatchApplicationRejected"}
  BY DEF TaskEvent, ExecutionEvents
<1>16. QED BY <1>1, <1>2, <1>3, <1>4, <1>5, <1>6, <1>7, <1>8, <1>9, <1>10, <1>11, <1>12,
              <1>13, <1>14, <1>15 DEF ExecutionEvents

(***************************************************************************)
(* The invariant: where the delegation and the application are, and what   *)
(* they then have.                                                         *)
(***************************************************************************)
Working == AttemptPcs \cup {"create", "route", "loop", "worktree", "complete", "expired"}

CallInv ==
    /\ call.pc \in Working => call.task \in Tasks
    /\ call.pc \in {"idle", "create", "route"} => call.index = 0
    /\ call.pc \in AttemptPcs \cup {"loop", "worktree"} =>
           call.task.maxAttempts <= Len(call.task.route)
    /\ call.pc = "loop" => call.index < call.task.maxAttempts
    /\ call.pc \in AttemptPcs \cup {"worktree"} => call.index \in 1..call.task.maxAttempts
    /\ call.pc = "complete" => call.last \in Report
    /\ call.pc \in {"start", "turn", "tools", "work", "collect"} => run.patch = 0
    /\ call.pc \in {"evaluation", "persist", "attempt"} => run.evaluation \in EvaluationOutcomes
    /\ app.pc # "idle" => app.report \in Report

Inv == TypeOK /\ CallInv

LEMMA NoRunTyped == NoRun \in Run /\ NoRun.patch \in {0, NoRun.changed}
<1>1. <<>> \in Seq(CommandResult)
  OBVIOUS
<1>2. QED BY <1>1 DEF NoRun, Run, RunStatuses

LEMMA TaskTyped ==
    ASSUME NEW t \in Tasks
    PROVE  /\ t.mode \in WorkerModes /\ t.policy \in Policies /\ t.seed \in Nat
           /\ t.commands \in Seq(SUBSET CommandDimensions)
           /\ t.route \in Seq(Workers) /\ t.maxAttempts \in 1..8 /\ t.fallback \in BOOLEAN
BY TasksAssumption DEF Task

LEMMA WorkerTyped ==
    ASSUME Inv, call.pc \in AttemptPcs
    PROVE  Worker \in Workers
<1>1. /\ call.index \in 1..call.task.maxAttempts
      /\ call.task.maxAttempts <= Len(call.task.route)
      /\ call.task \in Tasks
  BY DEF Inv, CallInv, Working
<1>2. call.task.route \in Seq(Workers) /\ call.task.maxAttempts \in Nat
  BY <1>1, TaskTyped
<1>3. QED BY <1>1, <1>2 DEF Worker

LEMMA AppendedTyped ==
    ASSUME Inv, NEW e \in TaskEvent, NEW stopped,
           Appended(e, stopped) \/ NotAppended(e, stopped)
    PROVE  journal' \in Projection /\ faults' \in 0..MaxFaults
<1>1. ProjectEvent(journal, e) \in Projection /\ journal \in Projection
  BY EventProjected DEF Inv, TypeOK
<1>2. faults \in 0..MaxFaults /\ MaxFaults \in Nat
  BY BoundsAssumption DEF Inv, TypeOK
<1>3. faults' = faults \/ (faults > 0 /\ faults' = faults - 1)
  BY DEF Appended, NotAppended
<1>4. journal' \in Projection
  BY <1>1 DEF Appended, NotAppended
<1>5. QED BY <1>2, <1>3, <1>4

(***************************************************************************)
(* What the steps are made of.                                             *)
(***************************************************************************)
(* The ways in which an error leaves delegate.                             *)
Gone   == {"thrown", "uncleaned"}
Thrown == Throw \/ ThrowUncleaned({worktrees \cup {call.index}})

LEMMA ThrownFacts ==
    ASSUME Inv, Thrown
    PROVE  /\ call'.pc \in Gone /\ call' = [call EXCEPT !.pc = call'.pc] /\ call' \in Call
           /\ call'.index = call.index /\ call'.task = call.task /\ call'.last = call.last
           /\ run' = NoRun /\ holder' = "none"
           /\ worktrees' \subseteq worktrees \cup {call.index}
<1>1. call \in Call
  BY DEF Inv, TypeOK
<1>2. run' = NoRun /\ holder' = "none"
  BY DEF Thrown, Throw, CleanupThrows, ThrowUncleaned, Release
<1>3. PICK pc \in Gone : call' = [call EXCEPT !.pc = pc]
  BY DEF Thrown, Throw, CleanupThrows, ThrowUncleaned, Gone
<1>4. worktrees' \subseteq worktrees \cup {call.index}
  BY DEF Thrown, Throw, CleanupThrows, ThrowUncleaned
<1>5. QED BY <1>1, <1>2, <1>3, <1>4 DEF Call, Pcs, Gone

LEMMA ThrowInv ==
    ASSUME Inv, Thrown, journal' \in Projection, faults' \in 0..MaxFaults,
           reports' \subseteq Report, UNCHANGED <<environment, application>>
    PROVE  Inv'
<1>1. /\ call' \in Call /\ call'.pc \in Gone /\ run' = NoRun /\ holder' = "none"
      /\ worktrees' \subseteq worktrees \cup {call.index}
  BY ThrownFacts
<1>3. worktrees' \subseteq Nat
  BY <1>1 DEF Inv, TypeOK, Call
<1>4. TypeOK'
  BY <1>1, <1>3, NoRunTyped DEF Inv, TypeOK, environment, application
<1>5. CallInv'
  BY <1>1 DEF Inv, CallInv, Working, AttemptPcs, Gone, application
<1>6. QED BY <1>4, <1>5 DEF Inv

(* A state of an attempt that fits the place it is in.                     *)
Fits(next, attempt) ==
    /\ attempt \in Run /\ attempt.patch \in {0, attempt.changed}
    /\ next \in {"start", "turn", "tools", "work", "collect"} => attempt.patch = 0
    /\ next \in {"evaluation", "persist", "attempt"} => attempt.evaluation \in EvaluationOutcomes

LEMMA GoOnInv ==
    ASSUME Inv, NEW next \in AttemptPcs, Fits(next, run'),
           call.pc \in AttemptPcs, call' = [call EXCEPT !.pc = next],
           journal' \in Projection, faults' \in 0..MaxFaults, reports' \subseteq Report,
           containers' \subseteq Nat,
           UNCHANGED <<clock, aborted, applies, late, application, worktrees, holder>>
    PROVE  Inv'
<1>1. call \in Call /\ next \in Pcs
  BY DEF Inv, TypeOK, Pcs
<1>2. /\ call' \in Call /\ call'.pc = next /\ call'.task = call.task
      /\ call'.index = call.index /\ call'.last = call.last
  BY <1>1 DEF Call
<1>3. run' \in Run /\ run'.patch \in {0, run'.changed}
  BY DEF Fits
<1>4. TypeOK'
  BY <1>2, <1>3 DEF Inv, TypeOK, application
<1>5. /\ call.task \in Tasks
      /\ call.task.maxAttempts <= Len(call.task.route)
      /\ call.index \in 1..call.task.maxAttempts
  BY DEF Inv, CallInv, Working
<1>6. app' = app /\ (app.pc # "idle" => app.report \in Report)
  BY DEF Inv, CallInv, application
<1>7. next \notin {"idle", "create", "route", "loop", "complete"}
  BY DEF AttemptPcs
<1>8. CallInv'
  BY <1>2, <1>5, <1>6, <1>7 DEF CallInv, Fits
<1>9. QED BY <1>4, <1>8 DEF Inv

LEMMA ContinueInv ==
    ASSUME Inv, NEW next \in AttemptPcs, NEW attempt, Fits(next, attempt),
           call.pc \in AttemptPcs, Continue(next, attempt)
    PROVE  Inv'
<1>1. /\ journal \in Projection /\ faults \in 0..MaxFaults /\ reports \subseteq Report
      /\ containers \subseteq Nat
  BY DEF Inv, TypeOK
<1>2. QED BY <1>1, GoOnInv DEF Continue, environment

LEMMA RecordInv ==
    ASSUME Inv, NEW next \in AttemptPcs, NEW attempt, Fits(next, attempt),
           call.pc \in AttemptPcs, NEW e \in TaskEvent, NEW stopped,
           Record(e, stopped, next, attempt)
    PROVE  Inv'
<1>1. reports \subseteq Report /\ containers \subseteq Nat
  BY DEF Inv, TypeOK
<1>2. CASE Appended(e, stopped) /\ call' = [call EXCEPT !.pc = next] /\ run' = attempt
           /\ UNCHANGED <<worktrees, holder>>
  BY <1>1, <1>2, AppendedTyped, GoOnInv DEF Record, environment
<1>3. CASE NotAppended(e, stopped) /\ Throw
  BY <1>1, <1>3, AppendedTyped, ThrowInv DEF Record, Thrown
<1>4. QED BY <1>2, <1>3 DEF Record

(***************************************************************************)
(* What becomes of an attempt: each helper takes a run to a run.           *)
(***************************************************************************)
Typed(attempt) == attempt \in Run /\ attempt.patch \in {0, attempt.changed}

LEMMA CodesTyped ==
    ASSUME NEW error \in Errors
    PROVE  getFailureCode(error) \in FailureCodes
BY DEF Errors, getFailureCode, FailureCodes

LEMMA StatusesTyped ==
    ASSUME NEW error
    PROVE  classifyRunError(error) \in RunStatuses
BY DEF classifyRunError, RunStatuses

LEMMA CaughtTyped ==
    ASSUME NEW attempt, Typed(attempt), NEW error \in Errors
    PROVE  /\ Typed(Caught(attempt, error))
           /\ Caught(attempt, error).patch = attempt.patch
           /\ Caught(attempt, error).changed = attempt.changed
<1> DEFINE status == classifyRunError(error)
           code   == IF status \in {"cancelled", "timed_out"} THEN "WORKER_ABORTED"
                     ELSE IF attempt.code # "none" THEN attempt.code ELSE getFailureCode(error)
           violations == IF status = "policy_violation" THEN attempt.violations \cup {"other"}
                         ELSE attempt.violations
<1>1. attempt \in Run
  BY DEF Typed
<1>2. status \in RunStatuses
  BY StatusesTyped
<1>3. code \in FailureCodes \cup {"none"}
  BY <1>1, CodesTyped DEF Run, FailureCodes
<1>4. violations \in SUBSET {"scope", "other"}
  BY <1>1 DEF Run
<1>5. Caught(attempt, error) = [attempt EXCEPT !.status = status, !.code = code,
                                               !.violations = violations, !.warned = TRUE]
  BY <1>1 DEF Caught, Run
<1> HIDE DEF status, code, violations
<1>6. PICK caught : caught = Caught(attempt, error)
  OBVIOUS
<1>7. caught = [iteration |-> attempt.iteration, left |-> attempt.left,
                total |-> attempt.total, status |-> status, code |-> code,
                files |-> attempt.files, changed |-> attempt.changed,
                patch |-> attempt.patch, violations |-> violations,
                results |-> attempt.results, preserve |-> attempt.preserve,
                warned |-> TRUE, evaluation |-> attempt.evaluation,
                failed |-> attempt.failed, unknown |-> attempt.unknown]
  <2>1. caught = [attempt EXCEPT !.status = status, !.code = code,
                                 !.violations = violations, !.warned = TRUE]
    BY <1>5, <1>6
  <2>2. QED BY <1>1, <2>1 DEF Run
<1>8. /\ caught \in Run
      /\ caught.patch = attempt.patch /\ caught.changed = attempt.changed
  BY <1>1, <1>2, <1>3, <1>4, <1>7 DEF Run
<1>9. QED BY <1>6, <1>8 DEF Typed

LEMMA JudgedTyped ==
    ASSUME NEW attempt, Typed(attempt)
    PROVE  Typed(Judged(attempt)) /\ Judged(attempt).patch = attempt.patch
<1>1. attempt \in Run
  BY DEF Typed
<1> DEFINE code == IF attempt.code = "none" THEN "WORKER_POLICY_VIOLATION" ELSE attempt.code
           judged == [attempt EXCEPT !.status = "policy_violation", !.code = code]
<1>2. code \in FailureCodes \cup {"none"}
  BY <1>1 DEF Run, FailureCodes
<1>3. Judged(attempt) \in {attempt, judged}
  BY <1>1 DEF Judged, Run
<1> HIDE DEF code
<1>4. judged \in Run /\ judged.patch = attempt.patch /\ judged.changed = attempt.changed
  BY <1>1, <1>2 DEF Run, RunStatuses
<1>5. QED BY <1>3, <1>4 DEF Typed

LEMMA SettledTyped ==
    ASSUME NEW attempt, Typed(attempt)
    PROVE  Typed(Settled(attempt))
<1> DEFINE settled == [attempt EXCEPT !.status = "failed", !.code = "VALIDATION_COMMAND_FAILED"]
<1>1. attempt \in Run
  BY DEF Typed
<1>2. Settled(attempt) \in {attempt, settled}
  BY DEF Settled
<1>3. settled \in Run /\ settled.patch = attempt.patch /\ settled.changed = attempt.changed
  BY <1>1 DEF Run, RunStatuses, FailureCodes
<1>4. QED BY <1>2, <1>3 DEF Typed

LEMMA NoticedTyped ==
    ASSUME NEW attempt, Typed(attempt)
    PROVE  Typed(Noticed(attempt))
<1>1. attempt \in Run
  BY DEF Typed
<1> DEFINE status == IF aborted THEN "cancelled" ELSE IF clock = "fired" THEN "timed_out"
                     ELSE attempt.status
<1>2. status \in RunStatuses
  BY <1>1 DEF Run, RunStatuses
<1>3. Noticed(attempt) = [attempt EXCEPT !.status = status]
  BY <1>1 DEF Noticed, Run
<1> HIDE DEF status
<1>4. QED BY <1>1, <1>2, <1>3 DEF Typed, Run

LEMMA BlockedTyped ==
    ASSUME NEW attempt, Typed(attempt)
    PROVE  Typed(Blocked(attempt))
<1> DEFINE blocked == [attempt EXCEPT !.status = "blocked", !.code = "WORKER_NO_CHANGES",
                                      !.warned = TRUE]
<1>1. attempt \in Run
  BY DEF Typed
<1>2. Blocked(attempt) \in {attempt, blocked}
  BY DEF Blocked
<1>3. blocked \in Run /\ blocked.patch = attempt.patch /\ blocked.changed = attempt.changed
  BY <1>1 DEF Run, RunStatuses, FailureCodes
<1>4. QED BY <1>2, <1>3 DEF Typed

LEMMA CommandsFailedTyped ==
    ASSUME Typed(run), NEW results \in Seq(CommandResult), NEW error \in Errors
    PROVE  Typed(CommandsFailed(results, error))
<1>1. run \in Run /\ getFailureCode(error) \in FailureCodes
      /\ classifyRunError(error) \in RunStatuses
  BY CodesTyped, StatusesTyped DEF Typed
<1>2. QED BY <1>1 DEF Typed, CommandsFailed, Run


LEMMA EvaluatedTyped ==
    ASSUME NEW attempt, Typed(attempt), NEW results,
           \A r \in Elements(results) : DOMAIN r \subseteq Dimensions
    PROVE  /\ Typed(Evaluated(attempt, results))
           /\ Evaluated(attempt, results).evaluation \in EvaluationOutcomes
<1> DEFINE code       == GatedCode(results, call.task.policy)
           rejected   == attempt.status = "completed" /\ code # "none"
           tooLarge   == results[1]["patch_size"] = "failed"
           status     == IF rejected THEN "failed" ELSE attempt.status
           final      == IF rejected THEN code ELSE attempt.code
           patch      == IF tooLarge THEN 0 ELSE attempt.patch
           warned     == attempt.warned \/ tooLarge
           evaluation == Outcome(results)
           failed     == CollectDimensions(results, "failed")
           unknown    == CollectDimensions(results, "unknown")
<1>1. attempt \in Run /\ attempt.patch \in {0, attempt.changed}
  BY DEF Typed
<1>2. evaluation \in EvaluationOutcomes
  BY DEF Outcome, EvaluationOutcomes
<1>3. failed \in SUBSET Dimensions /\ unknown \in SUBSET Dimensions
  BY DEF CollectDimensions, Having
<1>4. status \in RunStatuses /\ final \in FailureCodes \cup {"none"}
  BY <1>1 DEF Run, RunStatuses, FailureCodes, GatedCode
<1>5. patch \in {0, attempt.changed} /\ patch \in Nat /\ warned \in BOOLEAN
  BY <1>1 DEF Run
<1>6. Evaluated(attempt, results) =
        [attempt EXCEPT !.status = status, !.code = final, !.patch = patch, !.warned = warned,
                        !.evaluation = evaluation, !.failed = failed, !.unknown = unknown]
  BY <1>1 DEF Evaluated, Run
<1> HIDE DEF status, final, patch, warned, evaluation, failed, unknown
<1>7. Evaluated(attempt, results) =
        [iteration |-> attempt.iteration, left |-> attempt.left, total |-> attempt.total,
         status |-> status, code |-> final, files |-> attempt.files,
         changed |-> attempt.changed, patch |-> patch, violations |-> attempt.violations,
         results |-> attempt.results, preserve |-> attempt.preserve, warned |-> warned,
         evaluation |-> evaluation, failed |-> failed, unknown |-> unknown]
  <2>1. PICK gated : gated = [attempt EXCEPT !.status = status, !.code = final,
                                             !.patch = patch, !.warned = warned]
    OBVIOUS
  <2>2. gated = [iteration |-> attempt.iteration, left |-> attempt.left,
                 total |-> attempt.total, status |-> status, code |-> final,
                 files |-> attempt.files, changed |-> attempt.changed, patch |-> patch,
                 violations |-> attempt.violations, results |-> attempt.results,
                 preserve |-> attempt.preserve, warned |-> warned,
                 evaluation |-> attempt.evaluation, failed |-> attempt.failed,
                 unknown |-> attempt.unknown]
    BY <1>1, <2>1 DEF Run
  <2>3. Evaluated(attempt, results) =
          [gated EXCEPT !.evaluation = evaluation, !.failed = failed, !.unknown = unknown]
    BY <1>6, <2>1
  <2>4. QED BY <2>2, <2>3
<1>8. Evaluated(attempt, results) \in Run
  BY <1>1, <1>2, <1>3, <1>4, <1>5, <1>7 DEF Run
<1>9. QED BY <1>2, <1>5, <1>7, <1>8 DEF Typed

(***************************************************************************)
(* The events the service writes.                                          *)
(***************************************************************************)
LEMMA AttemptEventsTyped ==
    ASSUME Inv, call.pc \in AttemptPcs
    PROVE  /\ StartEvent \in TaskEvent /\ ToolEvent \in TaskEvent /\ WorkEvent \in TaskEvent
           /\ PatchEvent \in TaskEvent /\ ValidationEvent \in TaskEvent
           /\ AttemptEvent \in TaskEvent
           /\ \A outcome \in Outcomes, n \in Nat : TurnEvent(outcome, n) \in TaskEvent
           /\ run.evaluation \in EvaluationOutcomes => EvaluationEvent \in TaskEvent
<1>1. /\ call.index \in Nat /\ Worker \in Workers /\ call.task.policy \in Policies
  BY WorkerTyped, TaskTyped DEF Inv, TypeOK, CallInv, Call, Working
<1>2. /\ run.iteration \in Nat /\ run.iteration + 1 \in Nat /\ run.changed \in Nat
      /\ run.code \in FailureCodes \cup {"none"} /\ run.status \in RunStatuses
      /\ run.failed \in SUBSET Dimensions /\ run.unknown \in SUBSET Dimensions
      /\ Len(run.results) \in Nat
  BY DEF Inv, TypeOK, Run
<1>3. StartEvent \in TaskEvent
  BY <1>1 DEF StartEvent, TaskEvent
<1>4. ToolEvent \in TaskEvent
  BY <1>1, <1>2 DEF ToolEvent, TaskEvent
<1>5. WorkEvent \in TaskEvent
  BY <1>1, <1>2 DEF WorkEvent, TaskEvent, Outcomes
<1>6. PatchEvent \in TaskEvent
  BY <1>1, <1>2 DEF PatchEvent, TaskEvent
<1>7. ValidationEvent \in TaskEvent
  BY <1>1, <1>2 DEF ValidationEvent, TaskEvent, ValidationOutcomes
<1>8. AttemptEvent \in TaskEvent
  BY <1>1, <1>2 DEF AttemptEvent, TaskEvent
<1>9. \A outcome \in Outcomes, n \in Nat : TurnEvent(outcome, n) \in TaskEvent
  BY <1>1, <1>2 DEF TurnEvent, TaskEvent
<1>10. ASSUME run.evaluation \in EvaluationOutcomes
       PROVE  EvaluationEvent \in TaskEvent
  BY <1>1, <1>2, <1>10 DEF EvaluationEvent, TaskEvent
<1>11. QED BY <1>3, <1>4, <1>5, <1>6, <1>7, <1>8, <1>9, <1>10

LEMMA TaskEventsTyped ==
    ASSUME Inv
    PROVE  /\ call.pc \in Working => RouteEvent \in TaskEvent
           /\ call.pc = "complete" => CompleteEvent \in TaskEvent
           /\ [type |-> "TaskCompleted", run |-> 0, status |-> "timed_out",
               failureCode |-> "none"] \in TaskEvent
<1>1. ASSUME call.pc \in Working
      PROVE  RouteEvent \in TaskEvent
  BY <1>1, TaskTyped DEF Inv, CallInv, RouteEvent, TaskEvent
<1>2. ASSUME call.pc = "complete"
      PROVE  CompleteEvent \in TaskEvent
  <2>1. call.last.run \in Nat /\ call.last.status \in RunStatuses
    BY <1>2 DEF Inv, CallInv, Report
  <2>2. QED BY <2>1 DEF CompleteEvent, TaskEvent
<1>3. [type |-> "TaskCompleted", run |-> 0, status |-> "timed_out",
       failureCode |-> "none"] \in TaskEvent
  BY DEF TaskEvent, RunStatuses
<1>4. QED BY <1>1, <1>2, <1>3

LEMMA ApplicationEventsTyped ==
    ASSUME Inv, app.pc # "idle"
    PROVE  /\ [type |-> "PatchApplicationRequested", run |-> app.report.run] \in TaskEvent
           /\ [type |-> "PatchApproved", run |-> app.report.run] \in TaskEvent
           /\ [type |-> "PatchApplicationRejected", run |-> app.report.run] \in TaskEvent
           /\ [type |-> "PatchApplied", run |-> app.report.run,
               files |-> app.report.changed] \in TaskEvent
<1>1. app.report.run \in Nat /\ app.report.changed \in Nat
  BY DEF Inv, CallInv, Report
<1>2. QED BY <1>1 DEF TaskEvent

LEMMA ReportTyped ==
    ASSUME Inv, call.pc \in {"persist", "attempt"}
    PROVE  RunReport \in Report
<1>1. /\ call.index \in Nat /\ Worker \in Workers
      /\ call.task.policy \in Policies /\ call.task.mode \in WorkerModes
  BY WorkerTyped, TaskTyped DEF Inv, TypeOK, CallInv, Call, Working, AttemptPcs
<1>2. run.evaluation \in EvaluationOutcomes
  BY DEF Inv, CallInv
<1>3. /\ run.changed \in Nat /\ run.patch \in Nat
      /\ run.code \in FailureCodes \cup {"none"} /\ run.status \in RunStatuses
      /\ run.failed \in SUBSET Dimensions /\ run.unknown \in SUBSET Dimensions
  BY DEF Inv, TypeOK, Run
<1>4. QED BY <1>1, <1>2, <1>3 DEF RunReport, Report

(***************************************************************************)
(* Every step keeps the invariant: first the task and its route.           *)
(***************************************************************************)
LEMMA InitInv == Init => Inv
<1> SUFFICES ASSUME Init PROVE Inv
  OBVIOUS
<1>1. call \in Call /\ app \in Application
  BY DEF Init, Call, Application, Pcs
<1>2. faults \in 0..MaxFaults /\ applies \in 0..MaxApplies
  BY BoundsAssumption DEF Init
<1>3. run \in Run /\ run.patch \in {0, run.changed} /\ journal \in Projection
  BY NoRunTyped, InitialProjectionTyped DEF Init
<1>4. TypeOK
  BY <1>1, <1>2, <1>3 DEF Init, TypeOK
<1>5. CallInv
  BY DEF Init, CallInv, Working, AttemptPcs
<1>6. QED BY <1>4, <1>5 DEF Inv

LEMMA DelegateInv == ASSUME Inv, Delegate PROVE Inv'
<1>1. PICK t \in Tasks : call' = [call EXCEPT !.pc = "create", !.task = t]
  BY DEF Delegate
<1>2. call \in Call /\ call.pc = "idle" /\ call.index = 0
  BY DEF Inv, TypeOK, CallInv, Delegate
<1>3. /\ call' \in Call /\ call'.pc = "create" /\ call'.task \in Tasks /\ call'.index = 0
  BY <1>1, <1>2 DEF Call, Pcs
<1>4. TypeOK'
  BY <1>3 DEF Inv, TypeOK, Delegate, environment, application
<1>5. CallInv'
  BY <1>3 DEF Inv, CallInv, Delegate, Working, AttemptPcs, application
<1>6. QED BY <1>4, <1>5 DEF Inv

LEMMA CreateInv == ASSUME Inv, Create PROVE Inv'
<1>1. CASE /\ call' = [call EXCEPT !.pc = "route"]
           /\ UNCHANGED <<faults, run, worktrees, holder>>
  <2>1. call \in Call /\ call.pc = "create" /\ call.index = 0 /\ call.task \in Tasks
    BY DEF Inv, TypeOK, CallInv, Create, Working
  <2>2. call' \in Call /\ call'.pc = "route" /\ call'.task \in Tasks /\ call'.index = 0
    BY <1>1, <2>1 DEF Call, Pcs
  <2>3. TypeOK'
    BY <1>1, <2>2 DEF Inv, TypeOK, Create, environment, application
  <2>4. CallInv'
    BY <1>1, <2>2 DEF Inv, CallInv, Create, Working, AttemptPcs, application
  <2>5. QED BY <2>3, <2>4 DEF Inv
<1>2. CASE Throw /\ (faults' = faults \/ (faults > 0 /\ faults' = faults - 1))
  <2>1. faults \in 0..MaxFaults /\ MaxFaults \in Nat
    BY BoundsAssumption DEF Inv, TypeOK
  <2>2. faults' \in 0..MaxFaults
    BY <1>2, <2>1
  <2>3. journal' \in Projection /\ reports' \subseteq Report
    BY DEF Inv, TypeOK, Create
  <2>4. QED BY <1>2, <2>2, <2>3, ThrowInv DEF Create, Thrown
<1>3. QED BY <1>1, <1>2 DEF Create

LEMMA RouteInv == ASSUME Inv, Route PROVE Inv'
<1>1. /\ call \in Call /\ call.pc = "route" /\ call.index = 0 /\ call.task \in Tasks
      /\ RouteEvent \in TaskEvent /\ reports \subseteq Report
  BY TaskEventsTyped DEF Inv, TypeOK, CallInv, Route, Working
<1>2. CASE Appended(RouteEvent, FALSE) /\ call' = [call EXCEPT !.pc = "loop"]
           /\ run' = NoRun /\ UNCHANGED <<worktrees, holder>>
  <2>1. journal' \in Projection /\ faults' \in 0..MaxFaults
    BY <1>1, <1>2, AppendedTyped
  <2>2. ValidRoute(RouteEvent)
    BY <1>2 DEF Appended, EventAllowed, RouteAllowed, RouteEvent
  <2>3. call.task.maxAttempts <= Len(call.task.route) /\ call.task.maxAttempts \in 1..8
    BY <2>2 DEF ValidRoute, RouteEvent
  <2>4. /\ call' \in Call /\ call'.pc = "loop" /\ call'.task = call.task /\ call'.index = 0
    BY <1>1, <1>2 DEF Call, Pcs
  <2>5. TypeOK'
    BY <1>2, <2>1, <2>4, NoRunTyped DEF Inv, TypeOK, Route, Record, environment, application
  <2>6. CallInv'
    BY <1>1, <2>3, <2>4 DEF Inv, CallInv, Route, Record, Working, AttemptPcs, application
  <2>7. QED BY <2>5, <2>6 DEF Inv
<1>3. CASE NotAppended(RouteEvent, FALSE) /\ Throw
  BY <1>1, <1>3, AppendedTyped, ThrowInv DEF Route, Record, Thrown
<1>4. QED BY <1>2, <1>3 DEF Route, Record

LEMMA NextAttemptInv == ASSUME Inv, NextAttempt PROVE Inv'
<1>1. /\ call \in Call /\ call.pc = "loop" /\ call.task \in Tasks
      /\ call.task.maxAttempts <= Len(call.task.route)
      /\ call.index < call.task.maxAttempts
      /\ journal' \in Projection /\ faults' \in 0..MaxFaults /\ reports' \subseteq Report
  BY DEF Inv, TypeOK, CallInv, NextAttempt, Working
<1>2. CASE aborted
  BY <1>1, <1>2, ThrowInv DEF NextAttempt, Thrown
<1>3. CASE ~aborted
  <2>1. call.index \in Nat /\ call.index + 1 \in Nat /\ call.task.maxAttempts \in Nat
    BY <1>1, TaskTyped DEF Call
  <2>2. call.last \in Report \cup {NoReport}
    BY <1>1 DEF Call
  <2> DEFINE pc    == IF clock = "early" THEN "worktree"
                      ELSE IF call.last = NoReport THEN "expired" ELSE "complete"
             index == IF clock = "early" THEN call.index + 1 ELSE call.index
  <2>3. call' = [call EXCEPT !.pc = pc, !.index = index] /\ UNCHANGED <<run, worktrees, holder>>
    BY <1>1, <1>3 DEF NextAttempt, Call
  <2>4. /\ pc \in {"worktree", "expired", "complete"} /\ index \in Nat
        /\ pc = "worktree" => index \in 1..call.task.maxAttempts
        /\ pc = "complete" => call.last \in Report
    BY <1>1, <2>1, <2>2
  <2> HIDE DEF pc, index
  <2>5. /\ call' \in Call /\ call'.pc = pc /\ call'.index = index
        /\ call'.task = call.task /\ call'.last = call.last
    BY <1>1, <2>3, <2>4 DEF Call, Pcs
  <2>6. TypeOK'
    BY <2>3, <2>5 DEF Inv, TypeOK, NextAttempt, environment, application
  <2>7. CallInv'
    BY <1>1, <2>4, <2>5 DEF Inv, CallInv, NextAttempt, Working, AttemptPcs, application
  <2>8. QED BY <2>6, <2>7 DEF Inv
<1>4. QED BY <1>2, <1>3

LEMMA ExpireInv == ASSUME Inv, Expire PROVE Inv'
<1>1. journal' \in Projection /\ faults' \in 0..MaxFaults
  BY TaskEventsTyped, AppendedTyped DEF Expire
<1>2. reports' \subseteq Report
  BY DEF Inv, TypeOK, Expire
<1>3. QED BY <1>1, <1>2, ThrowInv DEF Expire, Thrown

LEMMA CreateWorktreeInv == ASSUME Inv, CreateWorktree PROVE Inv'
<1>1. /\ call \in Call /\ call.pc = "worktree" /\ call.task \in Tasks
      /\ call.task.maxAttempts <= Len(call.task.route)
      /\ call.index \in 1..call.task.maxAttempts
      /\ journal' \in Projection /\ reports' \subseteq Report
  BY DEF Inv, TypeOK, CallInv, CreateWorktree, Working
<1>2. CASE /\ worktrees' = worktrees \cup {call.index}
           /\ call' = [call EXCEPT !.pc = "start"]
           /\ run' = [NoRun EXCEPT !.files = call.task.seed]
           /\ UNCHANGED <<faults, holder>>
  <2>1. call.task.seed \in Nat /\ call.index \in Nat
    BY <1>1, TaskTyped DEF Call
  <2>2. run' \in Run /\ run'.patch = 0
    BY <1>2, <2>1, NoRunTyped DEF NoRun, Run
  <2>3. /\ call' \in Call /\ call'.pc = "start" /\ call'.task = call.task
        /\ call'.index = call.index
    BY <1>1, <1>2 DEF Call, Pcs, AttemptPcs
  <2>4. TypeOK'
    BY <1>1, <1>2, <2>1, <2>2, <2>3 DEF Inv, TypeOK, CreateWorktree, environment, application
  <2>5. CallInv'
    BY <1>1, <2>2, <2>3 DEF Inv, CallInv, CreateWorktree, Working, AttemptPcs, application
  <2>6. QED BY <2>4, <2>5 DEF Inv
<1>3. CASE Thrown /\ (faults' = faults \/ (faults > 0 /\ faults' = faults - 1))
  <2>1. faults \in 0..MaxFaults /\ MaxFaults \in Nat
    BY BoundsAssumption DEF Inv, TypeOK
  <2>2. faults' \in 0..MaxFaults
    BY <1>3, <2>1
  <2>3. QED BY <1>1, <1>3, <2>2, ThrowInv DEF CreateWorktree
<1>4. QED BY <1>2, <1>3 DEF CreateWorktree, Thrown

(***************************************************************************)
(* The steps of an attempt.                                                *)
(***************************************************************************)
LEMMA StartInv == ASSUME Inv, Start PROVE Inv'
<1>1. call.pc = "start" /\ run.patch = 0 /\ Typed(run)
  BY DEF Inv, TypeOK, CallInv, Start, Typed
<1>2. Fits("turn", run)
  BY <1>1 DEF Fits, Typed
<1>3. QED BY <1>1, <1>2, AttemptEventsTyped, RecordInv DEF Start, AttemptPcs

(* A failed turn.                                                          *)
LEMMA FailedFits ==
    ASSUME Inv, call.pc = "turn", NEW error \in Errors
    PROVE  Fits("work", Failed(error))
<1>1. run \in Run /\ run.patch = 0
  BY DEF Inv, TypeOK, CallInv
<1>2. /\ getFailureCode(error) \in FailureCodes /\ classifyRunError(error) \in RunStatuses
      /\ run.iteration + 1 \in Nat
  BY <1>1, CodesTyped, StatusesTyped DEF Run
<1>3. Failed(error) = [run EXCEPT !.iteration = run.iteration + 1,
                                  !.code = getFailureCode(error),
                                  !.status = classifyRunError(error)]
  BY <1>1 DEF Failed, Run
<1>4. Failed(error) =
        [iteration |-> run.iteration + 1, left |-> run.left, total |-> run.total,
         status |-> classifyRunError(error), code |-> getFailureCode(error),
         files |-> run.files, changed |-> run.changed, patch |-> run.patch,
         violations |-> run.violations, results |-> run.results, preserve |-> run.preserve,
         warned |-> run.warned, evaluation |-> run.evaluation, failed |-> run.failed,
         unknown |-> run.unknown]
  BY <1>1, <1>3 DEF Run
<1>5. Failed(error) \in Run
  BY <1>1, <1>2, <1>4 DEF Run
<1>6. Failed(error).patch = 0
  BY <1>1, <1>4
<1>7. QED BY <1>5, <1>6 DEF Fits

LEMMA AnswerInv == ASSUME Inv, Answer PROVE Inv'
<1>1. /\ call.pc = "turn" /\ run \in Run /\ run.patch = 0
      /\ call.pc \in AttemptPcs
  BY DEF Inv, TypeOK, CallInv, Answer, AttemptPcs
<1>2. ASSUME NEW n \in 0..MaxTurnTools,
             Record(TurnEvent("succeeded", n), FALSE, IF n = 0 THEN "work" ELSE "tools",
                    [run EXCEPT !.iteration = @ + 1, !.left = n, !.total = @ + n])
      PROVE  Inv'
  <2>1. n \in Nat /\ n \in Int /\ run.iteration + 1 \in Nat /\ run.total + n \in Nat
    BY <1>1, BoundsAssumption DEF Run
  <2> DEFINE iteration == run.iteration + 1
             total     == run.total + n
             answered  == [run EXCEPT !.iteration = iteration, !.left = n, !.total = total]
             next      == IF n = 0 THEN "work" ELSE "tools"
  <2>2. answered = [run EXCEPT !.iteration = @ + 1, !.left = n, !.total = @ + n]
    BY <1>1 DEF Run
  <2>3. iteration \in Nat /\ total \in Nat
    BY <2>1
  <2> HIDE DEF iteration, total
  <2>4. answered \in Run /\ answered.patch = 0
    BY <1>1, <2>1, <2>3 DEF Run
  <2>5. next \in {"work", "tools"} /\ next \in AttemptPcs
    BY DEF AttemptPcs
  <2>6. Record(TurnEvent("succeeded", n), FALSE, next, answered)
    BY <1>2, <2>2
  <2>7. TurnEvent("succeeded", n) \in TaskEvent
    BY <1>1, <2>1, AttemptEventsTyped DEF Outcomes
  <2> HIDE DEF answered, next
  <2>8. Fits(next, answered)
    BY <2>4, <2>5 DEF Fits
  <2>9. QED BY <1>1, <2>5, <2>6, <2>7, <2>8, RecordInv
<1>3. ASSUME NEW error \in TurnErrors,
             Record(TurnEvent("failed", 0), FALSE, "work", Failed(error))
      PROVE  Inv'
  <2>1. error \in Errors
    BY DEF TurnErrors, Errors, FailureCodes
  <2>2. TurnEvent("failed", 0) \in TaskEvent /\ "work" \in AttemptPcs
    BY <1>1, AttemptEventsTyped DEF Outcomes, AttemptPcs
  <2>3. QED BY <1>1, <1>3, <2>1, <2>2, FailedFits, RecordInv
<1>4. QED BY <1>2, <1>3 DEF Answer

LEMMA ProviderStopsInv == ASSUME Inv, ProviderStops PROVE Inv'
<1>1. call.pc = "turn" /\ call.pc \in AttemptPcs /\ "work" \in AttemptPcs
  BY DEF ProviderStops, AttemptPcs
<1>2. PICK error \in {"AbortError", "PROVIDER_FAILURE"} :
         Record(TurnEvent("failed", 0), FALSE, "work", Failed(error))
  BY DEF ProviderStops
<1>3. error \in Errors
  BY DEF Errors, FailureCodes
<1>4. TurnEvent("failed", 0) \in TaskEvent
  BY <1>1, AttemptEventsTyped DEF Outcomes
<1>5. QED BY <1>1, <1>2, <1>3, <1>4, FailedFits, RecordInv

LEMMA IterationLimitInv == ASSUME Inv, IterationLimit PROVE Inv'
<1>1. call.pc = "turn" /\ run \in Run /\ run.patch = 0
  BY DEF Inv, TypeOK, CallInv, IterationLimit
<1> DEFINE ended == [run EXCEPT !.code = "WORKER_LIMIT",
                                !.status = classifyRunError("WORKER_LIMIT")]
<1>2. ended \in Run /\ ended.patch = 0
  BY <1>1, StatusesTyped DEF Run, FailureCodes
<1>3. Fits("work", ended)
  BY <1>2 DEF Fits
<1>4. Continue("work", ended) /\ "work" \in AttemptPcs /\ call.pc \in AttemptPcs
  BY <1>1 DEF IterationLimit, AttemptPcs
<1>5. QED BY <1>3, <1>4, ContinueInv

LEMMA ToolInv == ASSUME Inv, Tool PROVE Inv'
<1>1. /\ call.pc = "tools" /\ run \in Run /\ run.patch = 0 /\ call.pc \in AttemptPcs
  BY DEF Inv, TypeOK, CallInv, Tool, AttemptPcs
<1>2. PICK files \in IF Writable THEN 0..MaxFiles ELSE {run.files},
           refused \in SUBSET {"other"} :
         Record(ToolEvent, FALSE, IF run.left = 1 THEN "turn" ELSE "tools",
                [run EXCEPT !.left = @ - 1, !.files = files,
                            !.violations = @ \cup refused])
  BY DEF Tool
<1> DEFINE next     == IF run.left = 1 THEN "turn" ELSE "tools"
           answered == [run EXCEPT !.left = run.left - 1, !.files = files,
                                   !.violations = run.violations \cup refused]
<1>3. Record(ToolEvent, FALSE, next, answered)
  BY <1>1, <1>2 DEF Run
<1>4. files \in Nat
  BY <1>1, BoundsAssumption DEF Run
<1>5. run.left - 1 \in Int /\ run.violations \in SUBSET {"scope", "other"}
  BY <1>1 DEF Run
<1>6. run.violations \cup refused \in SUBSET {"scope", "other"}
  BY <1>5
<1>7. answered \in Run /\ answered.patch = 0
  BY <1>1, <1>4, <1>5, <1>6 DEF Run
<1>8. next \in {"turn", "tools"} /\ next \in AttemptPcs
  BY DEF AttemptPcs
<1> HIDE DEF next, answered
<1>9. Fits(next, answered)
  BY <1>7, <1>8 DEF Fits
<1>10. ToolEvent \in TaskEvent
  BY <1>1, AttemptEventsTyped
<1>11. QED BY <1>1, <1>3, <1>8, <1>9, <1>10, RecordInv

LEMMA WorkInv == ASSUME Inv, Work PROVE Inv'
<1>1. /\ call.pc = "work" /\ run \in Run /\ run.patch = 0 /\ call.pc \in AttemptPcs
      /\ "collect" \in AttemptPcs
  BY DEF Inv, TypeOK, CallInv, Work, AttemptPcs
<1> DEFINE ended == [run EXCEPT !.iteration = 0, !.total = 0]
<1>2. ended \in Run /\ ended.patch = 0
  BY <1>1 DEF Run
<1>3. Fits("collect", ended)
  BY <1>2 DEF Fits
<1>4. Record(WorkEvent, FALSE, "collect", ended) /\ WorkEvent \in TaskEvent
  BY <1>1, AttemptEventsTyped DEF Work
<1>5. QED BY <1>1, <1>3, <1>4, RecordInv

(* What collection, commands and checks leave fits every later place of an *)
(* attempt that has no evaluation yet.                                     *)
Unevaluated == {"patch", "commands", "integrity", "validation", "evaluate"}

LEMMA TypedFits ==
    ASSUME NEW next \in Unevaluated, NEW attempt, Typed(attempt)
    PROVE  next \in AttemptPcs /\ Fits(next, attempt)
BY DEF Unevaluated, AttemptPcs, Typed, Fits

LEMMA CollectInv == ASSUME Inv, Collect PROVE Inv'
<1>1. /\ call.pc = "collect" /\ run \in Run /\ run.patch = 0 /\ call.pc \in AttemptPcs
      /\ Typed(run)
  BY DEF Inv, TypeOK, CallInv, Collect, AttemptPcs, Typed
<1> DEFINE collected == [run EXCEPT !.changed = run.files, !.patch = run.files]
           outside   == [run EXCEPT !.changed = run.files,
                                    !.violations = run.violations \cup {"scope"}]
<1>2. Typed(collected)
  BY <1>1 DEF Typed, Run
<1>3. Typed(outside)
  <2>1. run.files \in Nat /\ run.violations \cup {"scope"} \in SUBSET {"scope", "other"}
    BY <1>1 DEF Run
  <2>2. QED BY <1>1, <2>1 DEF Typed, Run
<1>4. [run EXCEPT !.changed = run.files, !.violations = @ \cup {"scope"}] = outside
  BY <1>1 DEF Run
<1> HIDE DEF collected, outside
<1>5. Typed(Judged(collected)) /\ Typed(Judged(outside))
  BY <1>2, <1>3, JudgedTyped
<1>6. \A error \in Errors : Typed(Judged(Caught(run, error)))
  BY <1>1, CaughtTyped, JudgedTyped
<1>7. StopError \in Errors /\ {"HARNESS_ERROR", "PATCH_TOO_LARGE"} \subseteq Errors
  BY DEF StopError, Errors, FailureCodes
<1>8. PICK next \in {"patch", "commands"}, attempt \in Run :
        Typed(attempt) /\ Continue(next, attempt)
  BY <1>2, <1>4, <1>5, <1>6, <1>7 DEF Collect, collected, outside, Typed
<1>9. QED BY <1>1, <1>8, TypedFits, ContinueInv DEF Unevaluated

LEMMA PatchInv == ASSUME Inv, Patch PROVE Inv'
<1>1. call.pc = "patch" /\ call.pc \in AttemptPcs /\ Typed(run) /\ PatchEvent \in TaskEvent
  BY AttemptEventsTyped DEF Inv, TypeOK, Patch, AttemptPcs, Typed
<1>2. journal' \in Projection /\ faults' \in 0..MaxFaults
  BY <1>1, AppendedTyped DEF Patch
<1>3. Typed(run')
  BY <1>1, JudgedTyped, CaughtTyped DEF Patch, Errors, FailureCodes
<1>4. Fits("commands", run') /\ "commands" \in AttemptPcs
  BY <1>3, TypedFits DEF Unevaluated
<1>5. reports' \subseteq Report /\ containers' \subseteq Nat
  BY DEF Inv, TypeOK, Patch, environment
<1>6. QED BY <1>1, <1>2, <1>4, <1>5, GoOnInv DEF Patch, environment

LEMMA CommandsInv == ASSUME Inv, Commands PROVE Inv'
<1>1. call.pc = "commands" /\ call.pc \in AttemptPcs /\ Typed(run) /\ run \in Run
  BY DEF Inv, TypeOK, Commands, AttemptPcs, Typed
<1>2. \A n \in Nat : [1..n -> CommandResult] \subseteq Seq(CommandResult)
  OBVIOUS
<1>3. Len(call.task.commands) \in Nat
  BY <1>1, TaskTyped DEF Inv, CallInv, Working
<1>4. CASE run.status # "completed" /\ Continue("validation", run)
  BY <1>1, <1>4, TypedFits, ContinueInv DEF Unevaluated
<1>5. CASE Continue("validation", Noticed(run))
  BY <1>1, <1>5, NoticedTyped, TypedFits, ContinueInv DEF Unevaluated
<1>6. ASSUME NEW results \in [1..Len(call.task.commands) -> CommandResult],
             Continue("integrity", Noticed([run EXCEPT !.results = results]))
      PROVE  Inv'
  <2>1. results \in Seq(CommandResult)
    BY <1>2, <1>3
  <2>2. Typed([run EXCEPT !.results = results])
    BY <1>1, <2>1 DEF Typed, Run
  <2>3. QED BY <1>1, <1>6, <2>2, NoticedTyped, TypedFits, ContinueInv DEF Unevaluated
<1>7. ASSUME NEW n \in 0..(Len(call.task.commands) - 1), NEW results \in [1..n -> CommandResult],
             NEW error \in {"HARNESS_ERROR"} \cup (IF Signal THEN {"AbortError"} ELSE {}),
             Continue("integrity", CommandsFailed(results, error))
      PROVE  Inv'
  <2>1. results \in Seq(CommandResult) /\ error \in Errors
    BY <1>2, <1>3 DEF Errors, FailureCodes
  <2>2. QED BY <1>1, <1>7, <2>1, CommandsFailedTyped, TypedFits, ContinueInv DEF Unevaluated
<1>8. QED BY <1>4, <1>5, <1>6, <1>7 DEF Commands

LEMMA ContainerLeftInv == ASSUME Inv, ContainerLeft PROVE Inv'
<1>1. call.pc = "commands" /\ call.pc \in AttemptPcs /\ Typed(run)
  BY DEF Inv, TypeOK, ContainerLeft, AttemptPcs, Typed
<1>2. PICK n \in 0..(Len(call.task.commands) - 1) : \E results \in [1..n -> CommandResult] :
          run' = [CommandsFailed(results, "DOCKER_CONTAINER_CLEANUP_FAILED") EXCEPT
                    !.preserve = TRUE, !.patch = 0]
  BY DEF ContainerLeft
<1>3. PICK results \in [1..n -> CommandResult] :
          run' = [CommandsFailed(results, "DOCKER_CONTAINER_CLEANUP_FAILED") EXCEPT
                    !.preserve = TRUE, !.patch = 0]
  BY <1>2
<1>4. Len(call.task.commands) \in Nat
  BY <1>1, TaskTyped DEF Inv, CallInv, Working
<1>5. results \in Seq(CommandResult)
  BY <1>4
<1> DEFINE failed == CommandsFailed(results, "DOCKER_CONTAINER_CLEANUP_FAILED")
<1>6. Typed(failed)
  BY <1>1, <1>5, CommandsFailedTyped DEF Errors, FailureCodes
<1> HIDE DEF failed
<1>7. run' = [failed EXCEPT !.preserve = TRUE, !.patch = 0]
  BY <1>3 DEF failed
<1>8. Typed(run')
  BY <1>6, <1>7 DEF Typed, Run
<1>9. Fits("validation", run') /\ "validation" \in AttemptPcs
  BY <1>8, TypedFits DEF Unevaluated
<1>10. /\ journal' \in Projection /\ faults' \in 0..MaxFaults /\ reports' \subseteq Report
       /\ containers' \subseteq Nat
  BY DEF Inv, TypeOK, ContainerLeft, Call
<1>11. QED BY <1>1, <1>9, <1>10, GoOnInv DEF ContainerLeft

LEMMA IntegrityInv == ASSUME Inv, Integrity PROVE Inv'
<1>1. call.pc = "integrity" /\ call.pc \in AttemptPcs /\ Typed(run)
  BY DEF Inv, TypeOK, Integrity, AttemptPcs, Typed
<1>2. StopError \in Errors /\ {"HARNESS_ERROR", "PATCH_TOO_LARGE"} \subseteq Errors
  BY DEF StopError, Errors, FailureCodes
<1>3. \A error \in Errors : Typed(Settled(Caught(run, error)))
  BY <1>1, CaughtTyped, SettledTyped
<1>4. PICK attempt : Typed(attempt) /\ Continue("validation", attempt)
  BY <1>1, <1>2, <1>3, SettledTyped DEF Integrity
<1>5. QED BY <1>1, <1>4, TypedFits, ContinueInv DEF Unevaluated

LEMMA ValidationInv == ASSUME Inv, Validation PROVE Inv'
<1>1. call.pc = "validation" /\ call.pc \in AttemptPcs /\ Typed(run)
  BY DEF Inv, TypeOK, Validation, AttemptPcs, Typed
<1>2. Fits("evaluate", Blocked(run)) /\ "evaluate" \in AttemptPcs
  BY <1>1, BlockedTyped, TypedFits DEF Unevaluated
<1>3. ValidationEvent \in TaskEvent
  BY <1>1, AttemptEventsTyped
<1>4. QED BY <1>1, <1>2, <1>3, RecordInv DEF Validation

(* A review speaks of dimensions only.                                     *)
LEMMA ResultsTyped ==
    ASSUME NEW input, NEW others \in Reviews \cup {<<>>}
    PROVE  \A r \in Elements(<<DeterministicResult(input)>> \o others) : DOMAIN r \subseteq Dimensions
<1> DEFINE first == DeterministicResult(input)
<1>1. DOMAIN first \subseteq Dimensions
  BY DEF DeterministicResult, Dimensions
<1> HIDE DEF first
<1>2. /\ others \in Seq(Elements(others))
      /\ \A i \in 1..Len(others) : DOMAIN others[i] \subseteq Dimensions
  <2>1. CASE others = <<>>
    BY <2>1 DEF Elements
  <2>2. QED BY <2>1, ReviewsAssumption
<1> DEFINE S == Elements(others) \cup {first}
<1>3. <<first>> \in Seq(S) /\ others \in Seq(S)
  BY <1>2
<1>4. /\ Len(<<first>> \o others) = Len(others) + 1
      /\ \A i \in 1..(Len(others) + 1) :
             (<<first>> \o others)[i] = IF i = 1 THEN first ELSE others[i - 1]
  BY <1>3
<1>5. ASSUME NEW i \in 1..(Len(others) + 1)
      PROVE  DOMAIN (<<first>> \o others)[i] \subseteq Dimensions
  <2>1. CASE i = 1
    BY <1>1, <1>4, <2>1
  <2>2. CASE i # 1
    <3>1. i - 1 \in 1..Len(others)
      BY <1>3, <2>2
    <3>2. QED BY <1>2, <1>4, <2>2, <3>1
  <2>3. QED BY <2>1, <2>2
<1>6. QED BY <1>4, <1>5 DEF first, Elements

LEMMA EvaluateInv == ASSUME Inv, Evaluate PROVE Inv'
<1>1. /\ call.pc = "evaluate" /\ call.pc \in AttemptPcs /\ Typed(run) /\ run \in Run
      /\ "evaluation" \in AttemptPcs
  BY DEF Inv, TypeOK, Evaluate, AttemptPcs, Typed
<1>2. \A attempt : Typed(attempt) /\ attempt.evaluation \in EvaluationOutcomes
                       => Fits("evaluation", attempt)
  BY DEF Fits, Typed
<1> DEFINE stopped == [run EXCEPT !.status = classifyRunError("AbortError"),
                                  !.code = "WORKER_ABORTED"]
           first   == DeterministicResult(Input(run))
<1>3. Typed(stopped)
  BY <1>1, StatusesTyped DEF Typed, Run, FailureCodes
<1> HIDE DEF stopped
<1>4. CASE Continue("evaluation", Evaluated(stopped, <<DeterministicResult(Input(stopped))>>))
  <2>1. \A r \in Elements(<<DeterministicResult(Input(stopped))>>) : DOMAIN r \subseteq Dimensions
    BY DEF Elements, DeterministicResult, Dimensions
  <2>2. QED BY <1>1, <1>2, <1>3, <1>4, <2>1, EvaluatedTyped, ContinueInv
<1>5. ASSUME NEW others \in Reviews, Continue("evaluation", Evaluated(run, <<first>> \o others))
      PROVE  Inv'
  <2>1. \A r \in Elements(<<first>> \o others) : DOMAIN r \subseteq Dimensions
    BY ResultsTyped
  <2> HIDE DEF first
  <2>2. QED BY <1>1, <1>2, <1>5, <2>1, EvaluatedTyped, ContinueInv
<1>6. CASE /\ faults > 0 /\ faults' = faults - 1 /\ Throw
           /\ UNCHANGED <<environment, application, journal, reports>>
  <2>1. faults \in 0..MaxFaults /\ MaxFaults \in Nat
    BY BoundsAssumption DEF Inv, TypeOK
  <2>2. faults' \in 0..MaxFaults
    BY <1>6, <2>1
  <2>3. journal' \in Projection /\ reports' \subseteq Report
    BY <1>6 DEF Inv, TypeOK
  <2>4. QED BY <1>6, <2>2, <2>3, ThrowInv DEF Thrown
<1>7. QED BY <1>4, <1>5, <1>6 DEF Evaluate, stopped

LEMMA PublishEvaluationInv == ASSUME Inv, PublishEvaluation PROVE Inv'
<1>1. /\ call.pc = "evaluation" /\ call.pc \in AttemptPcs /\ "persist" \in AttemptPcs
      /\ run.evaluation \in EvaluationOutcomes
  BY DEF Inv, CallInv, PublishEvaluation, AttemptPcs
<1>2. Fits("persist", run)
  BY <1>1 DEF Inv, TypeOK, Fits
<1>3. EvaluationEvent \in TaskEvent
  BY <1>1, AttemptEventsTyped
<1>4. QED BY <1>1, <1>2, <1>3, RecordInv DEF PublishEvaluation

(***************************************************************************)
(* The report, the end of the attempt and of the task.                     *)
(***************************************************************************)
LEMMA PersistInv == ASSUME Inv, Persist PROVE Inv'
<1>1. /\ call.pc = "persist" /\ call.pc \in AttemptPcs /\ "attempt" \in AttemptPcs
      /\ run.evaluation \in EvaluationOutcomes
  BY DEF Inv, CallInv, Persist, AttemptPcs
<1>2. RunReport \in Report
  BY <1>1, ReportTyped
<1>3. /\ journal' \in Projection /\ reports \subseteq Report /\ containers' \subseteq Nat
  BY DEF Inv, TypeOK, Persist, environment
<1>4. reports' \subseteq Report
  BY <1>2, <1>3 DEF Persist
<1>5. faults \in 0..MaxFaults /\ MaxFaults \in Nat
  BY BoundsAssumption DEF Inv, TypeOK
<1>6. CASE /\ call' = [call EXCEPT !.pc = "attempt"]
           /\ UNCHANGED <<faults, run, worktrees, holder>>
  <2>1. Fits("attempt", run')
    BY <1>1, <1>6 DEF Inv, TypeOK, Fits
  <2>2. QED BY <1>1, <1>3, <1>4, <1>5, <1>6, <2>1, GoOnInv DEF Persist, environment
<1>7. CASE Throw /\ (faults' = faults \/ (faults > 0 /\ faults' = faults - 1))
  <2>1. faults' \in 0..MaxFaults
    BY <1>5, <1>7
  <2>2. QED BY <1>3, <1>4, <1>7, <2>1, ThrowInv DEF Persist, Thrown
<1>8. QED BY <1>6, <1>7 DEF Persist

LEMMA EndAttemptInv == ASSUME Inv, EndAttempt PROVE Inv'
<1>1. /\ call.pc = "attempt" /\ call.pc \in AttemptPcs /\ call \in Call /\ call.task \in Tasks
      /\ call.task.maxAttempts <= Len(call.task.route)
      /\ worktrees \subseteq Nat
  BY DEF Inv, TypeOK, CallInv, EndAttempt, AttemptPcs, Working
<1>2. RunReport \in Report /\ AttemptEvent \in TaskEvent
  BY <1>1, ReportTyped, AttemptEventsTyped
<1>3. journal' \in Projection /\ faults' \in 0..MaxFaults /\ reports' \subseteq Report
  <2>1. reports' \subseteq Report
    BY DEF Inv, TypeOK, EndAttempt
  <2>2. QED BY <1>2, <2>1, AppendedTyped DEF EndAttempt
<1>4. CASE Throw
  BY <1>3, <1>4, ThrowInv DEF EndAttempt, Thrown
<1> DEFINE pc == IF shouldFallback THEN "loop" ELSE "complete"
<1>5. CASE /\ call' = [call EXCEPT !.pc = pc, !.last = RunReport]
           /\ worktrees' = (IF run.preserve THEN worktrees ELSE worktrees \ {call.index})
           /\ run' = NoRun
           /\ UNCHANGED holder
  <2>1. /\ pc \in {"loop", "complete"}
        /\ pc = "loop" => call.index < call.task.maxAttempts
    BY DEF shouldFallback
  <2> HIDE DEF pc
  <2>2. /\ call' \in Call /\ call'.pc = pc /\ call'.index = call.index
        /\ call'.task = call.task /\ call'.last \in Report
    BY <1>1, <1>2, <1>5, <2>1 DEF Call, Pcs
  <2>3. worktrees' \subseteq Nat
    BY <1>1, <1>5
  <2>4. TypeOK'
    BY <1>3, <1>5, <2>2, <2>3, NoRunTyped DEF Inv, TypeOK, EndAttempt, environment, application
  <2>5. CallInv'
    BY <1>1, <2>1, <2>2 DEF Inv, CallInv, EndAttempt, AttemptPcs, application
  <2>6. QED BY <2>4, <2>5 DEF Inv
<1>6. QED BY <1>4, <1>5 DEF EndAttempt, Throw

LEMMA CompleteInv == ASSUME Inv, Complete PROVE Inv'
<1>1. call.pc = "complete" /\ call \in Call /\ CompleteEvent \in TaskEvent
  BY TaskEventsTyped DEF Inv, TypeOK, Complete
<1>2. journal' \in Projection /\ faults' \in 0..MaxFaults /\ reports' \subseteq Report
  <2>1. reports' \subseteq Report
    BY DEF Inv, TypeOK, Complete
  <2>2. QED BY <1>1, <2>1, AppendedTyped DEF Complete
<1>3. CASE NotAppended(CompleteEvent, Overdue) /\ Throw
  BY <1>2, <1>3, ThrowInv DEF Complete, Thrown
<1>4. CASE /\ call' = [call EXCEPT !.pc = "returned"] /\ Release
           /\ UNCHANGED <<run, worktrees>>
  <2>1. call' \in Call /\ call'.pc = "returned"
    BY <1>1, <1>4 DEF Call, Pcs
  <2>2. TypeOK'
    BY <1>2, <1>4, <2>1 DEF Inv, TypeOK, Complete, Release, environment, application
  <2>3. CallInv'
    BY <2>1 DEF Inv, CallInv, Complete, Working, AttemptPcs, application
  <2>4. QED BY <2>2, <2>3 DEF Inv
<1>5. QED BY <1>3, <1>4 DEF Complete

(***************************************************************************)
(* The application.                                                        *)
(***************************************************************************)
LEMMA ApplyRunInv == ASSUME Inv, ApplyRun PROVE Inv'
<1>1. PICK r \in reports :
         app' = [pc |-> "request", report |-> r, recording |-> FALSE,
                 patched |-> FALSE, recorded |-> FALSE]
  BY DEF ApplyRun
<1>2. r \in Report
  BY DEF Inv, TypeOK
<1>3. app' \in Application /\ app'.report \in Report
  BY <1>1, <1>2 DEF Application, ApplyPcs
<1>4. applies' \in 0..MaxApplies
  <2>1. applies \in 0..MaxApplies /\ MaxApplies \in Nat
    BY BoundsAssumption DEF Inv, TypeOK
  <2>2. QED BY <2>1 DEF ApplyRun
<1>5. TypeOK'
  BY <1>3, <1>4 DEF Inv, TypeOK, ApplyRun, delegation
<1>6. CallInv'
  BY <1>3 DEF Inv, CallInv, ApplyRun, delegation, Working
<1>7. QED BY <1>5, <1>6 DEF Inv

(* A step of an application leaves the delegation alone.                   *)
LEMMA ApplyGoesOn ==
    ASSUME Inv, app.pc # "idle", app' \in Application, app'.report = app.report,
           journal' \in Projection, faults' \in 0..MaxFaults,
           tree' \in {"base", "patched", "edited"}, holder' \in {"none", holder},
           UNCHANGED <<environment, delegation>>
    PROVE  Inv'
<1>1. TypeOK'
  BY DEF Inv, TypeOK, environment, delegation
<1>2. CallInv'
  BY DEF Inv, CallInv, delegation, Working
<1>3. QED BY <1>1, <1>2 DEF Inv

LEMMA AppSet ==
    ASSUME Inv, NEW pc \in ApplyPcs \cup {"idle"}, NEW flag \in BOOLEAN
    PROVE  /\ [app EXCEPT !.pc = pc] \in Application
           /\ [app EXCEPT !.pc = pc].report = app.report
           /\ [app EXCEPT !.pc = pc, !.recording = flag] \in Application
           /\ [app EXCEPT !.pc = pc, !.recording = flag].report = app.report
           /\ [app EXCEPT !.pc = pc, !.patched = flag] \in Application
           /\ [app EXCEPT !.pc = pc, !.patched = flag].report = app.report
           /\ [app EXCEPT !.pc = pc, !.recorded = flag] \in Application
           /\ [app EXCEPT !.pc = pc, !.recorded = flag].report = app.report
<1>1. app \in Application
  BY DEF Inv, TypeOK
<1>2. QED BY <1>1 DEF Application

LEMMA ApplyStepInv == ASSUME Inv, ApplyStep PROVE Inv'
<1> DEFINE Event(type) == [type |-> type, run |-> app.report.run]
<1>1. app.pc # "idle"
  BY DEF ApplyStep, RequestApplication, CheckRepository, Approve, PatchRepository,
         RecordApplied, Reject
<1>2. /\ Event("PatchApplicationRequested") \in TaskEvent /\ Event("PatchApproved") \in TaskEvent
      /\ Event("PatchApplicationRejected") \in TaskEvent
      /\ [type |-> "PatchApplied", run |-> app.report.run,
          files |-> app.report.changed] \in TaskEvent
  BY <1>1, ApplicationEventsTyped
<1>3. /\ journal \in Projection /\ tree \in {"base", "patched", "edited"}
  BY DEF Inv, TypeOK
<1>4. faults \in 0..MaxFaults /\ (faults > 0 => faults - 1 \in 0..MaxFaults)
  <2>1. faults \in 0..MaxFaults /\ MaxFaults \in Nat
    BY BoundsAssumption DEF Inv, TypeOK
  <2>2. QED BY <2>1
<1>5. ASSUME NEW e \in TaskEvent, Appended(e, FALSE) \/ NotAppended(e, FALSE)
      PROVE  journal' \in Projection /\ faults' \in 0..MaxFaults
  BY <1>5, AppendedTyped
<1> HIDE DEF Event
<1>6. /\ "idle" \in ApplyPcs \cup {"idle"} /\ "check" \in ApplyPcs \cup {"idle"}
      /\ "approve" \in ApplyPcs \cup {"idle"} /\ "patch" \in ApplyPcs \cup {"idle"}
      /\ "applied" \in ApplyPcs \cup {"idle"} /\ "reject" \in ApplyPcs \cup {"idle"}
  BY DEF ApplyPcs
<1>6a. ASSUME NEW pc \in ApplyPcs \cup {"idle"}, NEW flag \in BOOLEAN,
              \/ Proceed(pc)
              \/ app' = [app EXCEPT !.pc = pc, !.recording = flag]
              \/ app' = [app EXCEPT !.pc = pc, !.patched = flag]
       PROVE  app' \in Application /\ app'.report = app.report
  <2>1. /\ [app EXCEPT !.pc = pc] \in Application
        /\ [app EXCEPT !.pc = pc].report = app.report
        /\ [app EXCEPT !.pc = pc, !.recording = flag] \in Application
        /\ [app EXCEPT !.pc = pc, !.recording = flag].report = app.report
        /\ [app EXCEPT !.pc = pc, !.patched = flag] \in Application
        /\ [app EXCEPT !.pc = pc, !.patched = flag].report = app.report
    BY AppSet
  <2>2. QED BY <1>6a, <2>1 DEF Proceed
<1>7. CASE RequestApplication
  <2>1. journal' \in Projection /\ faults' \in 0..MaxFaults
    BY <1>2, <1>3, <1>4, <1>5, <1>7 DEF RequestApplication, Event
  <2>2. app' \in Application /\ app'.report = app.report
    <3>1. \/ Proceed("idle") \/ Proceed("check")
          \/ app' = [app EXCEPT !.pc = "check", !.recording = TRUE]
      BY <1>7 DEF RequestApplication, Finish
    <3>2. QED BY <1>6, <1>6a, <3>1
  <2>3. holder' \in {"none", holder}
    BY <1>7 DEF RequestApplication, Finish, Release
  <2>4. QED BY <1>1, <1>3, <1>7, <2>1, <2>2, <2>3, ApplyGoesOn DEF RequestApplication
<1>8. CASE CheckRepository
  <2>1. journal' \in Projection /\ faults' \in 0..MaxFaults
    BY <1>3, <1>4, <1>8 DEF CheckRepository
  <2>2. app' \in Application /\ app'.report = app.report
    <3>1. Proceed("approve") \/ Proceed("reject")
      BY <1>8 DEF CheckRepository
    <3>2. QED BY <1>6, <1>6a, <3>1
  <2>3. QED BY <1>1, <1>3, <1>8, <2>1, <2>2, ApplyGoesOn DEF CheckRepository
<1>9. CASE Approve
  <2>1. journal' \in Projection /\ faults' \in 0..MaxFaults
    BY <1>2, <1>3, <1>4, <1>5, <1>9 DEF Approve, Event
  <2>2. app' \in Application /\ app'.report = app.report
    BY <1>6, <1>9, AppSet DEF Approve, Proceed
  <2>3. QED BY <1>1, <1>3, <1>9, <2>1, <2>2, ApplyGoesOn DEF Approve
<1>10. CASE PatchRepository
  <2>1. journal' \in Projection /\ faults' \in 0..MaxFaults
    BY <1>3, <1>4, <1>10 DEF PatchRepository
  <2>2. app' \in Application /\ app'.report = app.report
    <3>1. Proceed("reject") \/ app' = [app EXCEPT !.pc = "applied", !.patched = TRUE]
      BY <1>10 DEF PatchRepository
    <3>2. QED BY <1>6, <1>6a, <3>1
  <2>3. tree' \in {"base", "patched", "edited"}
    BY <1>3, <1>10 DEF PatchRepository
  <2>4. QED BY <1>1, <1>10, <2>1, <2>2, <2>3, ApplyGoesOn DEF PatchRepository
<1>11. CASE RecordApplied
  <2>1. journal' \in Projection /\ faults' \in 0..MaxFaults
    BY <1>2, <1>3, <1>4, <1>5, <1>11 DEF RecordApplied
  <2>2. app' \in Application /\ app'.report = app.report
    BY <1>6, <1>11, AppSet DEF RecordApplied, Proceed
  <2>3. holder' \in {"none", holder}
    BY <1>11 DEF RecordApplied, Release
  <2>4. QED BY <1>1, <1>3, <1>11, <2>1, <2>2, <2>3, ApplyGoesOn DEF RecordApplied
<1>12. CASE Reject
  <2>1. journal' \in Projection /\ faults' \in 0..MaxFaults
    BY <1>2, <1>3, <1>4, <1>5, <1>12 DEF Reject, Event
  <2>2. app' \in Application /\ app'.report = app.report
    BY <1>6, <1>12, AppSet DEF Reject, Finish, Proceed
  <2>3. holder' \in {"none", holder}
    BY <1>12 DEF Reject, Finish, Release
  <2>4. QED BY <1>1, <1>3, <1>12, <2>1, <2>2, <2>3, ApplyGoesOn DEF Reject
<1>13. QED BY <1>7, <1>8, <1>9, <1>10, <1>11, <1>12 DEF ApplyStep

(***************************************************************************)
(* The environment.                                                        *)
(***************************************************************************)
LEMMA AbortInv == ASSUME Inv, Abort PROVE Inv'
<1>1. late' \in BOOLEAN
  BY DEF Inv, TypeOK, Abort, Uncommitted
<1>2. TypeOK'
  BY <1>1 DEF Inv, TypeOK, Abort, application, delegation
<1>3. CallInv'
  BY DEF Inv, CallInv, Abort, application, delegation, Working
<1>4. QED BY <1>2, <1>3 DEF Inv

LEMMA DeadlineInv == ASSUME Inv, Deadline PROVE Inv'
<1>1. TypeOK'
  BY DEF Inv, TypeOK, Deadline, application, delegation
<1>2. CallInv'
  BY DEF Inv, CallInv, Deadline, application, delegation, Working
<1>3. QED BY <1>1, <1>2 DEF Inv

LEMMA CrashInv == ASSUME Inv, Crash PROVE Inv'
<1>1. faults' \in 0..MaxFaults
  <2>1. faults \in 0..MaxFaults /\ MaxFaults \in Nat
    BY BoundsAssumption DEF Inv, TypeOK
  <2>2. QED BY <2>1 DEF Crash
<1>2. CASE holder = "delegate"
  <2>1. call' = [call EXCEPT !.pc = "crashed"] /\ call \in Call
    BY <1>2 DEF Inv, TypeOK, Crash
  <2>2. call' \in Call /\ call'.pc = "crashed"
    BY <2>1 DEF Call, Pcs
  <2>3. run' = NoRun /\ app' = app
    BY <1>2 DEF Crash
  <2>4. TypeOK'
    BY <1>1, <2>2, <2>3, NoRunTyped DEF Inv, TypeOK, Crash, Release
  <2>5. CallInv'
    BY <2>2, <2>3 DEF Inv, CallInv, Working, AttemptPcs
  <2>6. QED BY <2>4, <2>5 DEF Inv
<1>3. CASE holder # "delegate"
  <2>1. app' = [app EXCEPT !.pc = "idle"] /\ UNCHANGED <<call, run>>
    BY <1>3 DEF Crash, Proceed
  <2>2. app' \in Application /\ app'.pc = "idle"
    BY <2>1 DEF Inv, TypeOK, Application
  <2>3. TypeOK'
    BY <1>1, <2>1, <2>2 DEF Inv, TypeOK, Crash, Release
  <2>4. CallInv'
    BY <2>1, <2>2 DEF Inv, CallInv, Working
  <2>5. QED BY <2>3, <2>4 DEF Inv
<1>4. QED BY <1>2, <1>3

LEMMA EditInv == ASSUME Inv, Edit PROVE Inv'
<1>1. TypeOK'
  BY DEF Inv, TypeOK, Edit, environment, delegation
<1>2. CallInv'
  BY DEF Inv, CallInv, Edit, delegation, Working
<1>3. QED BY <1>1, <1>2 DEF Inv

LEMMA StutterInv == ASSUME Inv, UNCHANGED vars PROVE Inv'
<1>1. TypeOK'
  BY DEF Inv, TypeOK, vars
<1>2. CallInv'
  BY DEF Inv, CallInv, vars, Working
<1>3. QED BY <1>1, <1>2 DEF Inv

-----------------------------------------------------------------------------
LEMMA NextInv == ASSUME Inv, [Next]_vars PROVE Inv'
<1>1. CASE Delegate
  BY <1>1, DelegateInv
<1>2. CASE DelegateStep
  BY <1>2, CreateInv, RouteInv, NextAttemptInv, ExpireInv, CreateWorktreeInv, StartInv,
     ProviderStopsInv, IterationLimitInv, ToolInv, WorkInv, CollectInv, PatchInv, CommandsInv,
     ContainerLeftInv, IntegrityInv, ValidationInv, EvaluateInv, PublishEvaluationInv,
     PersistInv, EndAttemptInv, CompleteInv DEF DelegateStep
<1>3. CASE Answer
  BY <1>3, AnswerInv
<1>4. CASE ApplyRun \/ ApplyStep
  BY <1>4, ApplyRunInv, ApplyStepInv
<1>5. CASE Abort \/ Deadline \/ Crash \/ Edit
  BY <1>5, AbortInv, DeadlineInv, CrashInv, EditInv
<1>6. CASE UNCHANGED vars
  BY <1>6, StutterInv
<1>7. QED BY <1>1, <1>2, <1>3, <1>4, <1>5, <1>6 DEF Next

LEMMA InvHolds == Spec => []Inv
<1>1. Init => Inv
  BY InitInv
<1>2. Inv /\ [Next]_vars => Inv'
  BY NextInv
<1>3. QED BY <1>1, <1>2, PTL DEF Spec

(* The journal, the reports and the attempt of a delegation always have    *)
(* their declared form (task-event-model.ts, worker/service.ts).           *)
THEOREM WorkerTypeCorrect == Spec => []TypeOK
<1>1. Inv => TypeOK
  BY DEF Inv
<1>2. QED BY <1>1, InvHolds, PTL

(***************************************************************************)
(* What an event leaves alone.                                             *)
(***************************************************************************)
AttemptEvents     == ExecutionEvents \ {"TaskCompleted"}
ApplicationEvents == {"PatchApplicationRequested", "PatchApproved", "PatchApplied",
                      "PatchApplicationRejected"}

LEMMA EventTypes ==
    ASSUME NEW e \in TaskEvent
    PROVE  e.type \in ExecutionEvents \cup ApplicationEvents
BY DEF TaskEvent, ExecutionEvents, ApplicationEvents

LEMMA ExecutionKeepsApplication ==
    ASSUME NEW t \in Projection, NEW e, e.type \in ExecutionEvents
    PROVE  ProjectEvent(t, e).application = t.application
BY DEF ExecutionEvents, ProjectEvent, Projection, ProjectRoute, ProjectStart, ProjectTurn,
       ProjectToolCall, ProjectWork, ProjectPatch, ProjectValidation, ProjectEvaluation,
       ProjectAttemptEnd, ProjectTaskEnd

LEMMA AttemptKeepsStatus ==
    ASSUME NEW t \in Projection, NEW e, e.type \in AttemptEvents
    PROVE  ProjectEvent(t, e).status = t.status
BY DEF AttemptEvents, ExecutionEvents, ProjectEvent, Projection, ProjectRoute, ProjectStart,
       ProjectTurn, ProjectToolCall, ProjectWork, ProjectPatch, ProjectValidation,
       ProjectEvaluation, ProjectAttemptEnd

LEMMA ApplicationKeepsTask ==
    ASSUME NEW t \in Projection, NEW e, e.type \in ApplicationEvents
    PROVE  ProjectEvent(t, e).status = t.status /\ ProjectEvent(t, e).last = t.last
BY DEF ApplicationEvents, ProjectEvent, Projection, ProjectRequest, ProjectApproval,
       ProjectApplied, ProjectRejection

LEMMA EndedTaskIsFinal ==
    ASSUME NEW t \in Projection, NEW e \in TaskEvent, EventAllowed(t, e),
           t.status # "in_progress"
    PROVE  ProjectEvent(t, e).status = t.status /\ ProjectEvent(t, e).last = t.last
<1>1. e.type \in ApplicationEvents
  BY EventTypes DEF EventAllowed
<1>2. QED BY <1>1, ApplicationKeepsTask

LEMMA AppliedIsFinal ==
    ASSUME NEW t \in Projection, NEW e \in TaskEvent, EventAllowed(t, e),
           t.application = "applied"
    PROVE  ProjectEvent(t, e).application = "applied"
<1>1. CASE e.type \in ExecutionEvents
  BY <1>1, ExecutionKeepsApplication
<1>2. CASE e.type \in ApplicationEvents
  <2>1. FALSE
    BY <1>2 DEF ApplicationEvents, EventAllowed, RequestAllowed, ApprovalAllowed,
                AppliedAllowed, RejectionAllowed
  <2>2. QED BY <2>1
<1>3. QED BY <1>1, <1>2, EventTypes

(* A task completes with an attempt that completed, which takes evidence.  *)
Sound(t) ==
    /\ t.status = "completed" => t.last.status = "completed"
    /\ t.last.status = "completed" => Passed(t.last)

LEMMA SoundProjected ==
    ASSUME NEW t \in Projection, NEW e \in TaskEvent, EventAllowed(t, e), Sound(t)
    PROVE  Sound(ProjectEvent(t, e))
<1>1. CASE e.type = "AttemptCompleted"
  <2>1. t.active \in Attempt /\ AttemptEndAllowed(t, e) /\ t.status = "in_progress"
    BY <1>1 DEF Projection, EventAllowed, ExecutionEvents
  <2> DEFINE ended == [t.active EXCEPT !.status = e.status, !.failureCode = e.failureCode]
  <2>2. /\ ended.status = e.status /\ ended.worked = t.active.worked
        /\ ended.validation = t.active.validation /\ ended.evaluation = t.active.evaluation
        /\ ended.policy = t.active.policy
    BY <2>1 DEF Attempt
  <2> HIDE DEF ended
  <2>3. ended.status = "completed" => Passed(ended)
    BY <2>1, <2>2 DEF AttemptEndAllowed, Passed
  <2>4. ProjectEvent(t, e).last = ended /\ ProjectEvent(t, e).status = "in_progress"
    BY <1>1, <2>1 DEF ProjectEvent, ProjectAttemptEnd, Projection, ended
  <2>5. QED BY <2>3, <2>4 DEF Sound
<1>2. CASE e.type = "TaskCompleted"
  <2>1. TaskEndAllowed(t, e)
    BY <1>2 DEF EventAllowed
  <2>2. ProjectEvent(t, e).last = t.last /\ ProjectEvent(t, e).status = e.status
    BY <1>2 DEF ProjectEvent, ProjectTaskEnd, Projection
  <2>3. e.status = "completed" => t.last.status = "completed"
    BY <2>1 DEF TaskEndAllowed
  <2>4. QED BY <2>2, <2>3 DEF Sound
<1>3. CASE e.type \in ApplicationEvents
  BY <1>3, ApplicationKeepsTask DEF Sound
<1>4. CASE e.type \in AttemptEvents \ {"AttemptCompleted"}
  <2>1. ProjectEvent(t, e).last = t.last
    BY <1>4 DEF AttemptEvents, ExecutionEvents, ProjectEvent, Projection, ProjectRoute,
                ProjectStart, ProjectTurn, ProjectToolCall, ProjectWork, ProjectPatch,
                ProjectValidation, ProjectEvaluation
  <2>2. QED BY <1>4, <2>1, AttemptKeepsStatus DEF Sound
<1>5. QED BY <1>1, <1>2, <1>3, <1>4, EventTypes DEF AttemptEvents

(***************************************************************************)
(* Which events a step may write.                                          *)
(***************************************************************************)
Writes(types) ==
    \/ journal' = journal
    \/ \E e \in TaskEvent : /\ e.type \in types
                            /\ EventAllowed(journal, e)
                            /\ journal' = ProjectEvent(journal, e)

LEMMA AppendWrites ==
    ASSUME NEW types, NEW e \in TaskEvent, e.type \in types, NEW stopped,
           Appended(e, stopped) \/ NotAppended(e, stopped)
    PROVE  Writes(types)
BY DEF Appended, NotAppended, Writes

(* Before its end a delegation writes events of its attempts, and goes on  *)
(* or is thrown out.                                                       *)
Early == AttemptPcs \cup {"idle", "create", "route", "loop", "worktree"}

GoesOn ==
    /\ call.pc \in Early
    /\ Writes(AttemptEvents)
    /\ UNCHANGED <<clock, aborted, late, app>>
    /\ call'.last = call.last
    /\ call'.pc \in Early \cup Gone

LEMMA CallSet ==
    ASSUME Inv, NEW pc
    PROVE  [call EXCEPT !.pc = pc].pc = pc /\ [call EXCEPT !.pc = pc].last = call.last
BY DEF Inv, TypeOK, Call

LEMMA RecordGoesOn ==
    ASSUME Inv, call.pc \in Early, NEW e \in TaskEvent, e.type \in AttemptEvents,
           NEW stopped, NEW next \in Early, NEW attempt, Record(e, stopped, next, attempt)
    PROVE  GoesOn
<1>1. Writes(AttemptEvents)
  BY AppendWrites DEF Record
<1>2. call'.last = call.last /\ call'.pc \in Early \cup Gone
  BY CallSet, ThrownFacts DEF Record, Thrown
<1>3. QED BY <1>1, <1>2 DEF GoesOn, Record, environment, application

LEMMA ContinueGoesOn ==
    ASSUME Inv, call.pc \in Early, NEW next \in Early, NEW attempt, Continue(next, attempt)
    PROVE  GoesOn
BY CallSet DEF Continue, GoesOn, Writes, environment, application

LEMMA SilentGoesOn ==
    ASSUME Inv, call.pc \in Early, NEW next \in Early,
           call' = [call EXCEPT !.pc = next] \/ Thrown,
           UNCHANGED <<clock, aborted, late, app, journal>>
    PROVE  GoesOn
<1>1. CASE call' = [call EXCEPT !.pc = next]
  BY <1>1, CallSet DEF GoesOn, Writes
<1>2. CASE Thrown
  <2>1. call'.pc \in Gone /\ call'.last = call.last
    BY <1>2, ThrownFacts
  <2>2. QED BY <2>1 DEF GoesOn, Writes
<1>3. QED BY <1>1, <1>2

AttemptStep ==
    \/ Delegate \/ Create \/ Route \/ CreateWorktree \/ Start \/ Answer \/ ProviderStops
    \/ IterationLimit \/ Tool \/ Work \/ Collect \/ Patch \/ Commands \/ ContainerLeft
    \/ Integrity \/ Validation \/ Evaluate \/ PublishEvaluation \/ Persist

LEMMA AttemptStepGoesOn ==
    ASSUME Inv, AttemptStep
    PROVE  GoesOn
<1> USE DEF Early, AttemptPcs
<1>1. ASSUME call.pc \in AttemptPcs
      PROVE  /\ {StartEvent, ToolEvent, WorkEvent, PatchEvent, ValidationEvent} \subseteq TaskEvent
             /\ TurnEvent("failed", 0) \in TaskEvent
             /\ \A n \in Nat : TurnEvent("succeeded", n) \in TaskEvent
             /\ run.evaluation \in EvaluationOutcomes => EvaluationEvent \in TaskEvent
  BY <1>1, AttemptEventsTyped DEF Outcomes
<1>2. /\ {StartEvent.type, ToolEvent.type, WorkEvent.type, PatchEvent.type,
          ValidationEvent.type, EvaluationEvent.type, RouteEvent.type} \subseteq AttemptEvents
      /\ \A outcome, n : TurnEvent(outcome, n).type \in AttemptEvents
  BY DEF AttemptEvents, ExecutionEvents, StartEvent, ToolEvent, WorkEvent, PatchEvent,
         ValidationEvent, EvaluationEvent, RouteEvent, TurnEvent
<1>3. CASE Delegate
  <2>1. call \in Call
    BY DEF Inv, TypeOK
  <2>2. call'.last = call.last /\ call'.pc = "create"
    BY <1>3, <2>1 DEF Delegate, Call
  <2>3. QED BY <1>3, <2>2 DEF Delegate, GoesOn, Writes, environment, application
<1>4. CASE Create
  <2>1. call.pc = "create" /\ (call' = [call EXCEPT !.pc = "route"] \/ Thrown)
    BY <1>4 DEF Create, Thrown
  <2>2. QED BY <1>4, <2>1, SilentGoesOn DEF Create, environment, application
<1>5. CASE Route
  BY <1>2, <1>5, TaskEventsTyped, RecordGoesOn DEF Route, Working
<1>6. CASE CreateWorktree
  <2>1. call.pc = "worktree" /\ (call' = [call EXCEPT !.pc = "start"] \/ Thrown)
    BY <1>6 DEF CreateWorktree, Thrown
  <2>2. QED BY <1>6, <2>1, SilentGoesOn DEF CreateWorktree, environment, application
<1>7. CASE Start
  BY <1>1, <1>2, <1>7, RecordGoesOn DEF Start
<1>8. CASE Answer
  <2>1. MaxTurnTools \in Nat
    BY BoundsAssumption
  <2>2. CASE \E n \in 0..MaxTurnTools :
                Record(TurnEvent("succeeded", n), FALSE, IF n = 0 THEN "work" ELSE "tools",
                       [run EXCEPT !.iteration = @ + 1, !.left = n, !.total = @ + n])
    <3>1. PICK n \in 0..MaxTurnTools :
                Record(TurnEvent("succeeded", n), FALSE, IF n = 0 THEN "work" ELSE "tools",
                       [run EXCEPT !.iteration = @ + 1, !.left = n, !.total = @ + n])
      BY <2>2
    <3>2. n \in Nat
      BY <2>1
    <3>3. (IF n = 0 THEN "work" ELSE "tools") \in Early /\ call.pc \in AttemptPcs
      BY <1>8 DEF Answer
    <3>4. TurnEvent("succeeded", n) \in TaskEvent
          /\ TurnEvent("succeeded", n).type \in AttemptEvents
      BY <1>1, <1>2, <3>2, <3>3
    <3>5. QED BY <3>1, <3>3, <3>4, RecordGoesOn
  <2>3. CASE \E error \in TurnErrors :
                Record(TurnEvent("failed", 0), FALSE, "work", Failed(error))
    BY <1>1, <1>2, <1>8, <2>3, RecordGoesOn DEF Answer
  <2>4. QED BY <1>8, <2>2, <2>3 DEF Answer
<1>9. CASE ProviderStops
  BY <1>1, <1>2, <1>9, RecordGoesOn DEF ProviderStops
<1>10. CASE IterationLimit
  BY <1>10, ContinueGoesOn DEF IterationLimit
<1>11. CASE Tool
  <2>1. (IF run.left = 1 THEN "turn" ELSE "tools") \in Early /\ call.pc = "tools"
    BY <1>11 DEF Tool
  <2>2. QED BY <1>1, <1>2, <1>11, <2>1, RecordGoesOn DEF Tool
<1>12. CASE Work
  BY <1>1, <1>2, <1>12, RecordGoesOn DEF Work
<1>13. CASE Collect
  BY <1>13, ContinueGoesOn DEF Collect
<1>14. CASE Patch
  <2>1. Writes(AttemptEvents)
    BY <1>1, <1>2, <1>14, AppendWrites DEF Patch
  <2>2. QED BY <1>14, <2>1, CallSet DEF Patch, GoesOn, environment, application
<1>15. CASE Commands
  BY <1>15, ContinueGoesOn DEF Commands
<1>16. CASE ContainerLeft
  BY <1>16, CallSet DEF ContainerLeft, GoesOn, Writes, application
<1>17. CASE Integrity
  BY <1>17, ContinueGoesOn DEF Integrity
<1>18. CASE Validation
  BY <1>1, <1>2, <1>18, RecordGoesOn DEF Validation
<1>19. CASE Evaluate
  <2>1. CASE Throw /\ UNCHANGED <<environment, application, journal, reports>>
    <3>1. call.pc = "evaluate"
      BY <1>19 DEF Evaluate
    <3>2. QED BY <2>1, <3>1, SilentGoesOn DEF Thrown, environment, application
  <2>2. CASE \E attempt : Continue("evaluation", attempt)
    BY <1>19, <2>2, ContinueGoesOn DEF Evaluate
  <2>3. QED BY <1>19, <2>1, <2>2 DEF Evaluate
<1>20. CASE PublishEvaluation
  <2>1. run.evaluation \in EvaluationOutcomes
    BY <1>20 DEF Inv, CallInv, PublishEvaluation
  <2>2. QED BY <1>1, <1>2, <1>20, <2>1, RecordGoesOn DEF PublishEvaluation
<1>21. CASE Persist
  <2>1. call.pc = "persist" /\ (call' = [call EXCEPT !.pc = "attempt"] \/ Thrown)
    BY <1>21 DEF Persist, Thrown
  <2>2. QED BY <1>21, <2>1, SilentGoesOn DEF Persist, environment, application
<1>22. QED BY <1>3, <1>4, <1>5, <1>6, <1>7, <1>8, <1>9, <1>10, <1>11, <1>12, <1>13, <1>14,
              <1>15, <1>16, <1>17, <1>18, <1>19, <1>20, <1>21 DEF AttemptStep

LEMMA DelegationWrites ==
    ASSUME Inv, AttemptStep \/ NextAttempt \/ Expire \/ EndAttempt \/ Complete
    PROVE  Writes(ExecutionEvents) /\ UNCHANGED app
<1>1. CASE AttemptStep
  BY <1>1, AttemptStepGoesOn DEF GoesOn, Writes, AttemptEvents
<1>2. CASE NextAttempt
  BY <1>2 DEF NextAttempt, Writes, application
<1>3. CASE Expire
  BY <1>3, TaskEventsTyped, AppendWrites DEF Expire, ExecutionEvents, application
<1>4. CASE EndAttempt
  <2>1. AttemptEvent \in TaskEvent /\ AttemptEvent.type \in ExecutionEvents
    BY <1>4, AttemptEventsTyped DEF EndAttempt, AttemptPcs, AttemptEvent, ExecutionEvents
  <2>2. QED BY <1>4, <2>1, AppendWrites DEF EndAttempt, application
<1>5. CASE Complete
  <2>1. CompleteEvent \in TaskEvent /\ CompleteEvent.type \in ExecutionEvents
    BY <1>5, TaskEventsTyped DEF Complete, CompleteEvent, ExecutionEvents
  <2>2. QED BY <1>5, <2>1, AppendWrites DEF Complete, application
<1>6. QED BY <1>1, <1>2, <1>3, <1>4, <1>5

LEMMA ApplicationWrites ==
    ASSUME Inv, ApplyStep
    PROVE  Writes(ApplicationEvents) /\ UNCHANGED delegation
<1> DEFINE Event(type) == [type |-> type, run |-> app.report.run]
           applied     == [type |-> "PatchApplied", run |-> app.report.run,
                           files |-> app.report.changed]
<1>1. app.pc # "idle"
  BY DEF ApplyStep, RequestApplication, CheckRepository, Approve, PatchRepository,
         RecordApplied, Reject
<1>2. /\ Event("PatchApplicationRequested") \in TaskEvent /\ Event("PatchApproved") \in TaskEvent
      /\ Event("PatchApplicationRejected") \in TaskEvent /\ applied \in TaskEvent
  BY <1>1, ApplicationEventsTyped
<1>3. /\ Event("PatchApplicationRequested").type \in ApplicationEvents
      /\ Event("PatchApproved").type \in ApplicationEvents
      /\ Event("PatchApplicationRejected").type \in ApplicationEvents
      /\ applied.type \in ApplicationEvents
  BY DEF ApplicationEvents
<1>4. \/ journal' = journal
      \/ \E e \in {Event("PatchApplicationRequested"), Event("PatchApproved"),
                   Event("PatchApplicationRejected"), applied} :
             Appended(e, FALSE) \/ NotAppended(e, FALSE)
  BY DEF ApplyStep, RequestApplication, CheckRepository, Approve, PatchRepository,
         RecordApplied, Reject
<1> HIDE DEF Event, applied
<1>5. Writes(ApplicationEvents)
  <2>1. CASE journal' = journal
    BY <2>1 DEF Writes
  <2>2. CASE journal' # journal
    BY <1>2, <1>3, <1>4, <2>2, AppendWrites
  <2>3. QED BY <2>1, <2>2
<1>6. UNCHANGED delegation
  BY DEF ApplyStep, RequestApplication, CheckRepository, Approve, PatchRepository,
         RecordApplied, Reject
<1>7. QED BY <1>5, <1>6

(* Next, with the steps of the delegation that write alike taken together. *)
LEMMA NextSteps ==
    ASSUME [Next]_vars
    PROVE  \/ AttemptStep \/ NextAttempt \/ Expire \/ EndAttempt \/ Complete
           \/ ApplyRun \/ ApplyStep \/ Abort \/ Deadline \/ Crash \/ Edit \/ UNCHANGED vars
BY DEF Next, DelegateStep, AttemptStep

LEMMA NextWrites ==
    ASSUME Inv, [Next]_vars
    PROVE  Writes(ExecutionEvents \cup ApplicationEvents)
<1>1. CASE AttemptStep \/ NextAttempt \/ Expire \/ EndAttempt \/ Complete
  BY <1>1, DelegationWrites DEF Writes
<1>2. CASE ApplyStep
  BY <1>2, ApplicationWrites DEF Writes
<1>3. CASE ApplyRun \/ Abort \/ Deadline \/ Crash \/ Edit \/ UNCHANGED vars
  BY <1>3 DEF Writes, ApplyRun, Abort, Deadline, Crash, Edit, vars
<1>4. QED BY <1>1, <1>2, <1>3, NextSteps

-----------------------------------------------------------------------------
(***************************************************************************)
(* A linked run stays linked.                                              *)
(***************************************************************************)
LEMMA LinkedStays ==
    ASSUME Inv, [Next]_vars, NEW r \in Report, Linked(r)
    PROVE  Linked(r)'
<1>1. journal \in Projection /\ journal.status = r.status /\ r.status \in RunStatuses
  BY DEF Inv, TypeOK, Linked, Report
<1>2. journal.status # "in_progress"
  BY <1>1 DEF RunStatuses
<1>3. journal'.status = journal.status /\ journal'.last = journal.last
  BY <1>1, <1>2, NextWrites, EndedTaskIsFinal DEF Writes
<1>4. PatchLinked(r)'
  BY <1>3 DEF Linked, PatchLinked
<1>5. QED BY <1>3, <1>4 DEF Linked

(* A run that was linked stays linked, whatever happens to its task later  *)
(* (isRunLinked against projectTaskEvent).                                 *)
THEOREM RunsStayLinked == Spec => LinkedForGood
<1>1. Inv /\ [Next]_vars => [\A r \in reports : Linked(r) => Linked(r)']_vars
  <2> SUFFICES ASSUME Inv, [Next]_vars, NEW r \in reports, Linked(r)
               PROVE  Linked(r)'
    OBVIOUS
  <2>1. r \in Report
    BY DEF Inv, TypeOK
  <2>2. QED BY <2>1, LinkedStays
<1>2. QED BY <1>1, InvHolds, PTL DEF Spec, LinkedForGood

(***************************************************************************)
(* What is applied has passed.                                             *)
(***************************************************************************)
PassedInv ==
    /\ Sound(journal)
    /\ \A r \in {app.report} \ {NoReport} : r \in Report /\ r.status = "completed" /\ r.patch # 0
    /\ app.pc # "idle" \/ app.patched => app.report # NoReport
    /\ app.pc \in ApplyPcs \ {"request"} \/ app.patched => Linked(app.report)

LEMMA PassedInvKept ==
    ASSUME Inv, PassedInv, [Next]_vars
    PROVE  PassedInv'
<1>1. Sound(journal')
  BY NextWrites, SoundProjected DEF PassedInv, Inv, TypeOK, Writes
<1>2. app \in Application
  BY DEF Inv, TypeOK
<1>3. ASSUME app.report # NoReport, Linked(app.report), app'.report = app.report
      PROVE  Linked(app.report)'
  <2>1. PICK r : r = app.report
    OBVIOUS
  <2>2. r \in Report /\ Linked(r)
    BY <1>3, <2>1 DEF PassedInv, Linked, PatchLinked
  <2>3. Linked(r)'
    BY <2>2, LinkedStays
  <2>4. QED BY <1>3, <2>1, <2>3 DEF Linked, PatchLinked
<1>4. CASE UNCHANGED app
  BY <1>1, <1>3, <1>4 DEF PassedInv, ApplyPcs
<1>5. CASE ApplyRun
  <2>1. PICK r \in reports :
           /\ r.status = "completed" /\ r.patch # 0
           /\ app' = [pc |-> "request", report |-> r, recording |-> FALSE,
                      patched |-> FALSE, recorded |-> FALSE]
    BY <1>5 DEF ApplyRun
  <2>2. r \in Report
    BY DEF Inv, TypeOK
  <2>3. r # NoReport
    BY <2>1, <2>2 DEF Report, NoReport
  <2>4. QED BY <1>1, <2>1, <2>2, <2>3 DEF PassedInv, ApplyPcs
<1>6. CASE ApplyStep
  <2>1. app'.report = app.report /\ app.pc # "idle"
    BY <1>2, <1>6 DEF Application, ApplyStep, RequestApplication, CheckRepository, Approve,
                      PatchRepository, RecordApplied, Reject, Finish, Proceed
  <2>2. app'.pc # "idle" \/ app'.patched =>
           Linked(app.report)
    <3>1. CASE app.pc # "request"
      BY <1>2, <2>1, <3>1 DEF PassedInv, Application
    <3>2. CASE app.pc = "request"
      <4>1. RequestApplication
        BY <1>6, <3>2 DEF ApplyStep, RequestApplication, CheckRepository, Approve,
                          PatchRepository, RecordApplied, Reject
      <4>2. \/ app'.pc = "idle" /\ app'.patched = app.patched
            \/ Linked(app.report)
        BY <1>2, <4>1 DEF RequestApplication, Finish, Proceed, Application
      <4>3. QED BY <4>2 DEF PassedInv
    <3>3. QED BY <3>1, <3>2
  <2>3. app.report # NoReport
    BY <2>1 DEF PassedInv
  <2>4. QED BY <1>1, <1>3, <2>1, <2>2, <2>3 DEF PassedInv, ApplyPcs
<1>7. CASE Crash /\ holder # "delegate"
  <2>1. app' = [app EXCEPT !.pc = "idle"]
    BY <1>7 DEF Crash, Proceed
  <2>2. app'.pc = "idle" /\ app'.patched = app.patched /\ app'.report = app.report
    BY <1>2, <2>1 DEF Application
  <2>3. QED BY <1>1, <1>3, <2>2 DEF PassedInv, ApplyPcs
<1>8. CASE Crash /\ holder = "delegate"
  BY <1>4, <1>8 DEF Crash
<1>9. CASE AttemptStep \/ NextAttempt \/ Expire \/ EndAttempt \/ Complete
  BY <1>4, <1>9, DelegationWrites
<1>10. CASE Abort \/ Deadline \/ Edit \/ UNCHANGED vars
  BY <1>4, <1>10 DEF Abort, Deadline, Edit, application, vars
<1>11. QED BY <1>5, <1>6, <1>7, <1>8, <1>9, <1>10, NextSteps

(* applyRun only patches with a run that did its work, passed its          *)
(* validation and was not failed by its evaluation, and with which its     *)
(* task ended (loadValidatedRun, preparePatchHistory, applyRun).           *)
THEOREM OnlyPassedRunsAreApplied == Spec => []AppliedRunPassed
<1>1. Init => PassedInv
  BY DEF Init, PassedInv, Sound, InitialProjection, NoAttempt, NoReport, ApplyPcs
<1>2. Inv /\ PassedInv /\ [Next]_vars => PassedInv'
  BY PassedInvKept
<1>3. PassedInv => AppliedRunPassed
  <2> SUFFICES ASSUME PassedInv, app.patched
               PROVE  /\ journal.status = "completed"
                      /\ journal.last.run = app.report.run
                      /\ journal.last.patch = app.report.patch
                      /\ Passed(journal.last)
    BY DEF AppliedRunPassed
  <2>1. app.report # NoReport /\ Linked(app.report)
    BY DEF PassedInv
  <2>2. app.report.status = "completed" /\ app.report.patch # 0
    BY <2>1 DEF PassedInv
  <2>3. journal.status = "completed" /\ journal.last.run = app.report.run
    BY <2>1, <2>2 DEF Linked
  <2>4. journal.last.patch = app.report.patch
    BY <2>1, <2>2 DEF Linked, PatchLinked
  <2>5. Passed(journal.last)
    BY <2>3 DEF PassedInv, Sound
  <2>6. QED BY <2>3, <2>4, <2>5
<1>4. QED BY <1>1, <1>2, <1>3, InvHolds, PTL DEF Spec

(***************************************************************************)
(* The history of an application is true.                                  *)
(***************************************************************************)
HistoryInv ==
    /\ app.recorded => journal.application = "applied"
    /\ app.recording /\ app.pc \in {"check", "approve"} => journal.application = "pending"
    /\ app.recording /\ app.pc \in {"patch", "applied"} => journal.application = "approved"
    /\ app.recording /\ app.pc = "reject" => journal.application \in {"pending", "approved"}
    /\ app.recording /\ app.pc = "idle" /\ journal.application = "applied" => app.patched
    /\ app.pc = "request" => ~app.recording
    /\ app.pc \in {"request", "check", "approve", "patch", "reject"} => ~app.patched
    /\ app.pc = "applied" => app.patched

LEMMA AppFields ==
    ASSUME app \in Application, NEW pc, NEW flag
    PROVE  /\ LET a == [app EXCEPT !.pc = pc]
              IN /\ a.pc = pc /\ a.recording = app.recording /\ a.patched = app.patched
                 /\ a.recorded = app.recorded
           /\ LET a == [app EXCEPT !.pc = pc, !.recording = flag]
              IN /\ a.pc = pc /\ a.recording = flag /\ a.patched = app.patched
                 /\ a.recorded = app.recorded
           /\ LET a == [app EXCEPT !.pc = pc, !.patched = flag]
              IN /\ a.pc = pc /\ a.recording = app.recording /\ a.patched = flag
                 /\ a.recorded = app.recorded
           /\ LET a == [app EXCEPT !.pc = pc, !.recorded = flag]
              IN /\ a.pc = pc /\ a.recording = app.recording /\ a.patched = app.patched
                 /\ a.recorded = flag
BY DEF Application

(* What the four events of an application make of it.                      *)
LEMMA ApplicationAfter ==
    ASSUME Inv, NEW e, NEW stopped, EventAllowed(journal, e),
           Appended(e, stopped) \/ NotAppended(e, stopped)
    PROVE  /\ e.type = "PatchApplicationRequested" =>
                  journal'.application \in {journal.application, "pending"}
           /\ e.type = "PatchApproved" =>
                  /\ journal.application = "pending"
                  /\ journal'.application \in {"pending", "approved"}
           /\ e.type = "PatchApplied" =>
                  /\ journal.application = "approved"
                  /\ journal'.application \in {"approved", "applied"}
           /\ e.type = "PatchApplicationRejected" =>
                  /\ journal.application \in {"pending", "approved"}
                  /\ journal'.application \in {journal.application, "rejected"}
<1>1. journal \in Projection
  BY DEF Inv, TypeOK
<1>2. journal' \in {journal, ProjectEvent(journal, e)}
  BY DEF Appended, NotAppended
<1>3. CASE e.type = "PatchApplicationRequested"
  BY <1>1, <1>2, <1>3 DEF ProjectEvent, ProjectRequest, Projection
<1>4. CASE e.type = "PatchApproved"
  BY <1>1, <1>2, <1>4 DEF ProjectEvent, ProjectApproval, Projection, EventAllowed, ApprovalAllowed
<1>5. CASE e.type = "PatchApplied"
  BY <1>1, <1>2, <1>5 DEF ProjectEvent, ProjectApplied, Projection, EventAllowed, AppliedAllowed
<1>6. CASE e.type = "PatchApplicationRejected"
  BY <1>1, <1>2, <1>6 DEF ProjectEvent, ProjectRejection, Projection, EventAllowed,
                          RejectionAllowed
<1>7. QED BY <1>3, <1>4, <1>5, <1>6

LEMMA AppendedAs ==
    ASSUME Inv, NEW e, NEW stopped, Appended(e, stopped)
    PROVE  /\ e.type = "PatchApplicationRequested" => journal'.application = "pending"
           /\ e.type = "PatchApproved" => journal'.application = "approved"
           /\ e.type = "PatchApplied" => journal'.application = "applied"
<1>1. journal \in Projection /\ journal' = ProjectEvent(journal, e)
  BY DEF Inv, TypeOK, Appended
<1>2. QED BY <1>1 DEF ProjectEvent, ProjectRequest, ProjectApproval, ProjectApplied, Projection

LEMMA HistoryInvKept ==
    ASSUME Inv, HistoryInv, [Next]_vars
    PROVE  HistoryInv'
<1>1. app \in Application /\ journal \in Projection
  BY DEF Inv, TypeOK
<1>2. journal.application = "applied" => journal'.application = "applied"
  BY <1>1, NextWrites, AppliedIsFinal DEF Writes
<1>3. CASE UNCHANGED app /\ journal'.application = journal.application
  BY <1>3 DEF HistoryInv
<1>4. CASE AttemptStep \/ NextAttempt \/ Expire \/ EndAttempt \/ Complete
  BY <1>1, <1>3, <1>4, DelegationWrites, ExecutionKeepsApplication DEF Writes
<1>5. CASE Abort \/ Deadline \/ Edit \/ UNCHANGED vars
  BY <1>3, <1>5 DEF Abort, Deadline, Edit, application, vars
<1>6. CASE ApplyRun
  <2>1. PICK r \in reports :
           app' = [pc |-> "request", report |-> r, recording |-> FALSE,
                   patched |-> FALSE, recorded |-> FALSE]
    BY <1>6 DEF ApplyRun
  <2>2. QED BY <2>1 DEF HistoryInv
<1>7. CASE Crash
  <2>1. journal' = journal
    BY <1>7 DEF Crash
  <2>2. CASE holder = "delegate"
    BY <1>3, <1>7, <2>1, <2>2 DEF Crash
  <2>3. CASE holder # "delegate"
    <3>1. app' = [app EXCEPT !.pc = "idle"]
      BY <1>7, <2>3 DEF Crash, Proceed
    <3>2. /\ app'.pc = "idle" /\ app'.recording = app.recording
          /\ app'.patched = app.patched /\ app'.recorded = app.recorded
      BY <1>1, <3>1, AppFields
    <3>3. app.pc \in {"idle", "request", "check", "approve", "patch", "applied", "reject"}
      BY <1>1 DEF Application, ApplyPcs
    <3>4. QED BY <2>1, <3>2, <3>3 DEF HistoryInv
  <2>4. QED BY <2>2, <2>3
<1>8. CASE RequestApplication
  <2> DEFINE e == [type |-> "PatchApplicationRequested", run |-> app.report.run]
  <2>1. app.pc = "request" /\ ~app.recording /\ ~app.patched
    BY <1>8 DEF RequestApplication, HistoryInv
  <2>2. \/ app' = [app EXCEPT !.pc = "idle"]
        \/ app' = [app EXCEPT !.pc = "check"]
        \/ app' = [app EXCEPT !.pc = "check", !.recording = TRUE] /\ Appended(e, FALSE)
    BY <1>8 DEF RequestApplication, Finish, Proceed
  <2>3. e.type = "PatchApplicationRequested"
    OBVIOUS
  <2> HIDE DEF e
  <2>4. CASE app' \in {[app EXCEPT !.pc = "idle"], [app EXCEPT !.pc = "check"]}
    <3>1. /\ app'.pc \in {"idle", "check"} /\ app'.recording = app.recording
          /\ app'.patched = app.patched /\ app'.recorded = app.recorded
      BY <1>1, <2>4 DEF Application
    <3>2. QED BY <1>2, <2>1, <3>1 DEF HistoryInv
  <2>5. CASE app' = [app EXCEPT !.pc = "check", !.recording = TRUE]
    <3>1. Appended(e, FALSE)
      BY <1>1, <2>1, <2>2, <2>5 DEF Application
    <3>2. journal'.application = "pending"
      BY <1>1, <2>3, <3>1 DEF Appended, ProjectEvent, ProjectRequest, Projection
    <3>3. QED BY <1>1, <1>2, <2>1, <2>5, <3>2, AppFields DEF HistoryInv
  <2>6. QED BY <2>2, <2>4, <2>5
<1>9. CASE CheckRepository
  <2>1. app.pc = "check" /\ journal' = journal
    BY <1>9 DEF CheckRepository
  <2>2. app' \in {[app EXCEPT !.pc = "approve"], [app EXCEPT !.pc = "reject"]}
    BY <1>9 DEF CheckRepository, Proceed
  <2>3. /\ app'.pc \in {"approve", "reject"} /\ app'.recording = app.recording
        /\ app'.patched = app.patched /\ app'.recorded = app.recorded
    BY <1>1, <2>2 DEF Application
  <2>4. QED BY <2>1, <2>3 DEF HistoryInv
<1>10. CASE Approve
  <2> DEFINE e == [type |-> "PatchApproved", run |-> app.report.run]
  <2>1. app.pc = "approve" /\ ~app.patched
    BY <1>10 DEF Approve, HistoryInv
  <2>2. \/ app' = [app EXCEPT !.pc = "patch"] /\ ~app.recording /\ journal' = journal
        \/ app' = [app EXCEPT !.pc = "patch"] /\ app.recording /\ Appended(e, FALSE)
        \/ app' = [app EXCEPT !.pc = "patch", !.recording = FALSE]
    BY <1>10 DEF Approve, Proceed
  <2>3. e.type = "PatchApproved"
    OBVIOUS
  <2> HIDE DEF e
  <2>4. CASE app' = [app EXCEPT !.pc = "patch"] /\ ~app.recording /\ journal' = journal
    BY <1>1, <2>1, <2>4, AppFields DEF HistoryInv
  <2>5. CASE app' = [app EXCEPT !.pc = "patch"] /\ app.recording /\ Appended(e, FALSE)
    <3>1. journal'.application = "approved"
      BY <2>3, <2>5, AppendedAs
    <3>2. QED BY <1>1, <1>2, <2>1, <2>5, <3>1, AppFields DEF HistoryInv
  <2>6. CASE app' = [app EXCEPT !.pc = "patch", !.recording = FALSE]
    BY <1>1, <1>2, <2>1, <2>6, AppFields DEF HistoryInv
  <2>7. QED BY <2>2, <2>4, <2>5, <2>6
<1>11. CASE PatchRepository
  <2>1. app.pc = "patch" /\ journal' = journal
    BY <1>11 DEF PatchRepository
  <2>2. \/ app' = [app EXCEPT !.pc = "applied", !.patched = TRUE]
        \/ app' = [app EXCEPT !.pc = "reject"]
    BY <1>11 DEF PatchRepository, Proceed
  <2>3. /\ app'.recording = app.recording /\ app'.recorded = app.recorded
        /\ \/ app'.pc = "applied" /\ app'.patched
           \/ app'.pc = "reject" /\ app'.patched = app.patched
    BY <1>1, <2>2 DEF Application
  <2>4. QED BY <2>1, <2>3 DEF HistoryInv
<1>12. CASE RecordApplied
  <2> DEFINE e == [type |-> "PatchApplied", run |-> app.report.run, files |-> app.report.changed]
  <2>1. app.pc = "applied" /\ app.patched
    BY <1>12 DEF RecordApplied, HistoryInv
  <2>2. \/ app' = [app EXCEPT !.pc = "idle"]
        \/ app' = [app EXCEPT !.pc = "idle", !.recorded = TRUE] /\ Appended(e, FALSE)
    BY <1>12 DEF RecordApplied, Proceed
  <2>3. e.type = "PatchApplied"
    OBVIOUS
  <2> HIDE DEF e
  <2>4. CASE app' = [app EXCEPT !.pc = "idle"]
    BY <1>1, <1>2, <2>1, <2>4, AppFields DEF HistoryInv
  <2>5. CASE app' = [app EXCEPT !.pc = "idle", !.recorded = TRUE] /\ Appended(e, FALSE)
    <3>1. journal'.application = "applied"
      BY <2>3, <2>5, AppendedAs
    <3>2. QED BY <1>1, <2>1, <2>5, <3>1, AppFields DEF HistoryInv
  <2>6. QED BY <2>2, <2>4, <2>5
<1>13. CASE Reject
  <2> DEFINE e == [type |-> "PatchApplicationRejected", run |-> app.report.run]
  <2>1. app.pc = "reject" /\ app' = [app EXCEPT !.pc = "idle"]
    BY <1>13 DEF Reject, Finish, Proceed
  <2>2. e.type = "PatchApplicationRejected"
    OBVIOUS
  <2>3. app.recording => \/ journal' = journal
                         \/ EventAllowed(journal, e)
                              /\ (Appended(e, FALSE) \/ NotAppended(e, FALSE))
    BY <1>13 DEF Reject, Appended, NotAppended
  <2> HIDE DEF e
  <2>4. app.recording => journal'.application # "applied"
    BY <2>1, <2>2, <2>3, ApplicationAfter DEF HistoryInv
  <2>5. QED BY <1>1, <1>2, <2>1, <2>4, AppFields DEF HistoryInv
<1>14. QED BY <1>4, <1>5, <1>6, <1>7, <1>8, <1>9, <1>10, <1>11, <1>12, <1>13, NextSteps
           DEF ApplyStep

(* applyRun's answer and the journal never claim an application that did   *)
(* not happen (recordPatchRejection, completePatchHistory).                *)
THEOREM ApplicationHistoryIsTrue == Spec => []HistoryIsTrue
<1>1. Init => HistoryInv
  BY DEF Init, HistoryInv
<1>2. Inv /\ HistoryInv /\ [Next]_vars => HistoryInv'
  BY HistoryInvKept
<1>3. HistoryInv => HistoryIsTrue
  BY DEF HistoryInv, HistoryIsTrue
<1>4. QED BY <1>1, <1>2, <1>3, InvHolds, PTL DEF Spec

(***************************************************************************)
(* No late run becomes applicable.                                         *)
(***************************************************************************)
LateInv ==
    /\ late => Signal
    /\ late => journal.status # "completed"
    /\ call.pc \in Early => /\ journal.status = "in_progress"
                            /\ call.last # NoReport => call.last.status # "completed"
    /\ call.pc = "complete" /\ late => call.last.status # "completed"

LEMMA SameTask ==
    ASSUME Inv, LateInv, journal'.status = journal.status, call'.pc = call.pc,
           call'.last = call.last, UNCHANGED <<clock, aborted, late>>
    PROVE  LateInv'
BY DEF LateInv, Signal

LEMMA LateInvKept ==
    ASSUME Inv, LateInv, [Next]_vars
    PROVE  LateInv'
<1>1. /\ journal \in Projection /\ call \in Call
      /\ aborted \in BOOLEAN /\ clock \in {"early", "late", "fired"}
  BY DEF Inv, TypeOK
<1>2. CASE AttemptStep
  <2>1. GoesOn
    BY <1>2, AttemptStepGoesOn
  <2>2. journal'.status = journal.status
    BY <1>1, <2>1, AttemptKeepsStatus DEF GoesOn, Writes
  <2>3. /\ call.pc \in Early /\ call'.last = call.last /\ call'.pc \in Early \cup Gone
        /\ late' = late /\ (Signal => Signal')
    BY <2>1 DEF GoesOn, Signal
  <2>4. call'.pc # "complete"
    BY <2>3 DEF Early, AttemptPcs, Gone
  <2>5. QED BY <2>2, <2>3, <2>4 DEF LateInv
<1>3. CASE NextAttempt
  <2>1. /\ call.pc = "loop" /\ journal' = journal /\ late' = late /\ (Signal => Signal')
    BY <1>3 DEF NextAttempt, environment, Signal
  <2>2. call.pc \in Early
    BY <2>1 DEF Early
  <2>3. call'.last = call.last
    BY <1>1, <1>3, ThrownFacts DEF NextAttempt, Thrown, Call
  <2>4. call'.pc = "complete" => call.last # NoReport
    BY <1>1, <1>3, ThrownFacts DEF NextAttempt, Thrown, Gone, Call
  <2>5. QED BY <2>1, <2>2, <2>3, <2>4 DEF LateInv
<1>4. CASE Expire
  <2> DEFINE e == [type |-> "TaskCompleted", run |-> 0, status |-> "timed_out",
                   failureCode |-> "none"]
  <2>1. /\ Throw /\ late' = late /\ (Signal => Signal')
        /\ Appended(e, FALSE) \/ NotAppended(e, FALSE)
    BY <1>4 DEF Expire, environment, Signal
  <2>2. journal' \in {journal, ProjectEvent(journal, e)}
    BY <2>1 DEF Appended, NotAppended
  <2>3. ProjectEvent(journal, e).status = "timed_out"
    BY <1>1 DEF ProjectEvent, ProjectTaskEnd, Projection
  <2> HIDE DEF e
  <2>4. call'.pc \in Gone
    BY <2>1, ThrownFacts DEF Thrown
  <2>5. QED BY <2>1, <2>2, <2>3, <2>4 DEF LateInv, Early, AttemptPcs, Gone
<1>5. CASE EndAttempt
  <2>1. /\ late' = late /\ (Signal => Signal') /\ call.pc \in Early
    BY <1>5 DEF EndAttempt, environment, Signal, Early, AttemptPcs
  <2>2. /\ AttemptEvent.type \in AttemptEvents /\ AttemptEvent \in TaskEvent
    BY <1>5, AttemptEventsTyped DEF EndAttempt, AttemptPcs, AttemptEvent, AttemptEvents,
                                    ExecutionEvents
  <2>3. journal'.status = journal.status
    <3>1. Writes(AttemptEvents)
      BY <1>5, <2>2, AppendWrites DEF EndAttempt
    <3>2. QED BY <1>1, <3>1, AttemptKeepsStatus DEF Writes
  <2>4. CASE Throw
    <3>1. call'.pc \in Gone /\ call'.last = call.last
      BY <2>4, ThrownFacts DEF Thrown
    <3>2. QED BY <2>1, <2>3, <3>1 DEF LateInv, Early, AttemptPcs, Gone
  <2>5. CASE /\ Appended(AttemptEvent, Withdrawn)
             /\ call' = [call EXCEPT !.pc = IF shouldFallback THEN "loop" ELSE "complete",
                                     !.last = RunReport]
    <3>1. call'.last = RunReport /\ call'.pc = IF shouldFallback THEN "loop" ELSE "complete"
      BY <1>1, <2>5 DEF Call
    <3>2. RunReport.status = run.status
      BY DEF RunReport
    <3>3. shouldFallback => run.status # "completed"
      BY DEF shouldFallback
    <3>4. late => run.status # "completed"
      BY <2>5 DEF LateInv, Appended, Withdrawn
    <3>5. QED BY <2>1, <2>3, <3>1, <3>2, <3>3, <3>4 DEF LateInv, Early, AttemptPcs
  <2>6. QED BY <1>5, <2>4, <2>5 DEF EndAttempt, Throw
<1>6. CASE Complete
  <2>1. /\ late' = late /\ (Signal => Signal') /\ call.pc = "complete"
    BY <1>6 DEF Complete, environment, Signal
  <2>2. journal' \in {journal, ProjectEvent(journal, CompleteEvent)}
    BY <1>6 DEF Complete, Appended, NotAppended
  <2>3. ProjectEvent(journal, CompleteEvent).status = call.last.status
    BY <1>1 DEF ProjectEvent, CompleteEvent, ProjectTaskEnd, Projection
  <2>4. call'.pc \in {"returned"} \cup Gone
    BY <1>1, <1>6, ThrownFacts DEF Complete, Thrown, Call
  <2>5. QED BY <2>1, <2>2, <2>3, <2>4 DEF LateInv, Early, AttemptPcs, Gone
<1>7. CASE ApplyRun
  BY <1>7, SameTask DEF ApplyRun, delegation
<1>8. CASE ApplyStep
  <2>1. journal'.status = journal.status
    BY <1>1, <1>8, ApplicationWrites, ApplicationKeepsTask DEF Writes
  <2>2. UNCHANGED <<clock, aborted, late, call>>
    BY <1>8 DEF ApplyStep, RequestApplication, CheckRepository, Approve, PatchRepository,
                RecordApplied, Reject, environment, delegation
  <2>3. QED BY <2>1, <2>2, SameTask
<1>9. CASE Abort
  <2>1. Uncommitted => call.pc \in Early
    BY DEF Uncommitted, Early
  <2>2. /\ UNCHANGED <<journal, call>> /\ Signal' /\ late' = (late \/ Uncommitted)
    BY <1>9 DEF Abort, Signal, delegation
  <2>3. call.pc = "complete" => ~Uncommitted
    BY DEF Uncommitted, AttemptPcs
  <2>4. QED BY <2>1, <2>2, <2>3 DEF LateInv
<1>10. CASE Deadline
  <2>1. UNCHANGED <<journal, call>>
    BY <1>10 DEF Deadline, delegation
  <2>2. CASE clock = "early" /\ clock' = "late" /\ UNCHANGED late
    BY <1>10, <2>1, <2>2 DEF Deadline, LateInv, Signal
  <2>3. CASE call.pc \in AttemptPcs /\ clock' = "fired" /\ late' = TRUE
    <3>1. call.pc \in Early /\ call.pc # "complete"
      BY <2>3 DEF Early, AttemptPcs
    <3>2. QED BY <2>1, <2>3, <3>1 DEF LateInv, Signal
  <2>4. QED BY <1>10, <2>2, <2>3 DEF Deadline
<1>11. CASE Crash
  <2>1. UNCHANGED <<clock, aborted, late, journal>>
    BY <1>11 DEF Crash
  <2>2. call' = call \/ call' = [call EXCEPT !.pc = "crashed"]
    BY <1>11 DEF Crash
  <2>3. call' = call \/ call'.pc = "crashed"
    BY <1>1, <2>2 DEF Call
  <2>4. QED BY <2>1, <2>3 DEF LateInv, Signal, Early, AttemptPcs
<1>12. CASE Edit \/ UNCHANGED vars
  BY <1>12, SameTask DEF Edit, environment, delegation, vars
<1>13. QED BY <1>2, <1>3, <1>4, <1>5, <1>6, <1>7, <1>8, <1>9, <1>10, <1>11, <1>12, NextSteps

(* A task that was aborted, or whose deadline fired, before its attempt was*)
(* committed never completes (executeInWorktree's publicationSignal,       *)
(* docs/evaluation.md).                                                    *)
THEOREM LateRunsAreNotApplicable == Spec => []LateRunIsNotApplicable
<1>1. Init => LateInv
  BY DEF Init, LateInv, InitialProjection, Early, AttemptPcs
<1>2. Inv /\ LateInv /\ [Next]_vars => LateInv'
  BY LateInvKept
<1>3. LateInv => LateRunIsNotApplicable
  BY DEF LateInv, LateRunIsNotApplicable
<1>4. QED BY <1>1, <1>2, <1>3, InvHolds, PTL DEF Spec
=============================================================================
