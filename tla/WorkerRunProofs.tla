-------------------------- MODULE WorkerRunProofs ---------------------------
(***************************************************************************)
(* What a run of WorkerService is worth to those that are given it: that   *)
(* the journal takes every event of it, that its report and the journal    *)
(* tell the same story, that its worktree is gone.  The invariant relates  *)
(* the local variables of an attempt to the attempt that the journal has   *)
(* open, place by place.                                                   *)
(***************************************************************************)
EXTENDS WorkerProofs

(* Codes that judge what an attempt did, and say nothing of the harness.   *)
Verdicts == {"VALIDATION_COMMAND_FAILED", "EVALUATION_FAILED", "EVALUATION_INCONCLUSIVE"}

(* The places of an attempt, in their order.                               *)
Thinking == {"start", "turn", "tools"}
Before   == Thinking \cup {"work", "collect"}
Checked  == {"integrity", "validation", "evaluate"}
Assessed == {"evaluation", "persist", "attempt"}

(***************************************************************************)
(* The attempt of a task t at a place pc, its local variables being r.     *)
(***************************************************************************)
RunForm(t, pc, r) ==
    /\ t.mode \notin {"implementation", "testing"} => r.files = t.seed
    /\ r.files <= 10000
    /\ Len(r.results) <= Len(t.commands)
    /\ r.iteration <= MaxIterations
    /\ pc = "start" => r.iteration = 0
    /\ pc \in {"start", "turn"} => r.left = 0
    /\ pc = "tools" => r.left > 0 /\ r.left <= MaxTurnTools /\ r.iteration > 0
    /\ pc \in Before \cup {"patch", "commands"} => r.results = <<>>

(* stopped: the signal fired; its error may not have reached the attempt.  *)
RunCodes(stopped, pc, r) ==
    /\ pc \in Thinking => r.status = "completed"
    /\ pc \in Before \cup {"patch", "commands", "integrity"}
          => r.code \notin Verdicts \cup {"WORKER_NO_CHANGES"}
    /\ pc = "integrity" => r.code \notin FallbackCodes
    /\ r.status = "completed" => r.code = "none"
    /\ r.code = "none" => r.status = "completed" \/ (pc \in Checked /\ stopped)
    /\ r.code \in Verdicts => r.status = "failed"
    /\ r.status = "blocked" => r.code = "WORKER_NO_CHANGES"

(* A completed attempt has all its changes in its patch.                   *)
RunChange(t, pc, r) ==
    /\ pc \in Before => r.changed = 0
    /\ pc \in Before \cup {"patch", "commands"} => ~r.preserve
    /\ pc = "patch" => r.changed = r.files /\ r.patch = r.files /\ r.files # 0
    /\ r.status = "completed" =>
          /\ pc \notin Before => r.changed = r.files /\ r.patch = r.files
          /\ pc \in Checked => Len(r.results) = Len(t.commands)
          /\ pc \in {"evaluate"} \cup Assessed /\ t.mode = "implementation" => r.changed # 0
    /\ r.code = "WORKER_NO_CHANGES" => r.changed = 0
    /\ r.preserve => r.patch = 0 /\ r.status # "completed"

RunVerdict(t, pc, r) ==
    pc \in Assessed =>
       /\ r.status = "completed" =>
             r.evaluation # "failed" /\ (t.policy = "strict" => r.evaluation = "passed")
       /\ r.status # "completed" =>
             \/ r.evaluation = "failed"
             \/ /\ r.status = "failed" /\ r.code = "EVALUATION_INCONCLUSIVE"
                /\ t.policy = "strict" /\ r.evaluation = "inconclusive"
       /\ r.evaluation = "passed" => r.failed = {} /\ r.unknown = {}
       /\ r.evaluation = "failed" => r.failed # {}
       /\ r.evaluation = "inconclusive" => r.failed = {} /\ r.unknown # {}

RunOK(t, stopped, pc, r) ==
    RunForm(t, pc, r) /\ RunCodes(stopped, pc, r) /\ RunChange(t, pc, r) /\ RunVerdict(t, pc, r)

(***************************************************************************)
(* The attempt that the journal has open.  Somebody may go on with a run   *)
(* that is due; f faults are left.                                         *)
(***************************************************************************)
Due(f, r) ==
    \/ r.status = "completed"
    \/ r.code \in Verdicts \cup {"WORKER_NO_CHANGES"}
    \/ f = MaxFaults /\ r.status = "failed" /\ r.code \in FallbackCodes

(* As PatchLinked: the journal has the patch, or the one that was too large.*)
PatchTold(r, a) ==
    IF r.patch # 0 THEN a.patch = r.patch /\ r.changed = r.patch
    ELSE IF r.changed = 0 THEN a.patch = 0
    ELSE r.status = "failed" /\ "patch_size" \in r.failed /\ a.patch = r.changed

TurnsTold(pc, r, a) ==
    /\ pc \in {"turn", "tools"} =>
          /\ ~a.modelFailed /\ ~a.modelTerminal
          /\ a.iteration = r.iteration
          /\ a.expected = a.observed + r.left
    /\ pc = "work" =>
          /\ a.observed = a.expected
          /\ a.modelFailed => r.status # "completed"
          /\ r.status = "completed" => a.modelTerminal

StagesTold(t, pc, r, a) ==
    /\ pc \in {"turn", "tools", "work"} => a.worked = "none"
    /\ pc \notin {"turn", "tools", "work"} =>
          a.worked # "none" /\ (r.status = "completed" => a.worked = "succeeded")
    /\ pc \in Before \cup {"patch", "commands", "integrity", "validation"} => a.validation = "none"
    /\ pc \in {"evaluate"} \cup Assessed =>
          a.validation # "none" /\ (r.status = "completed" => a.validation \in {"passed", "skipped"})
    /\ pc \notin {"persist", "attempt"} => a.evaluation = "none"
    /\ pc \in {"persist", "attempt"} =>
          /\ a.evaluation = r.evaluation /\ a.policy = t.policy
          /\ a.failed = r.failed /\ a.unknown = r.unknown

ChangeTold(f, pc, r, a) ==
    /\ pc \in Before \cup {"patch"} => a.patch = 0
    /\ pc \in {"commands"} \cup Checked /\ Due(f, r) => r.patch = r.changed /\ a.patch = r.changed
    /\ pc \in Assessed /\ Due(f, r) => PatchTold(r, a)

Told(t, i, f, pc, r, a) ==
    /\ a.run = i /\ a.worker = t.route[i]
    /\ TurnsTold(pc, r, a) /\ StagesTold(t, pc, r, a) /\ ChangeTold(f, pc, r, a)

(***************************************************************************)
(* The report of the last attempt, and the attempt the journal has of it.  *)
(***************************************************************************)
LastOK(t, r) ==
    /\ r.run # 0
    /\ r.status = "completed" /\ r.patch = 0 =>
          r.mode \in {"research", "testing"} \/ (r.mode = "review" /\ t.seed = 0)
    /\ r.code \in Verdicts => r.status = "failed"
    /\ r.status = "blocked" => r.code = "WORKER_NO_CHANGES"

LastTold(f, r, l) ==
    /\ l.run = r.run /\ l.worker = r.worker /\ l.status = r.status /\ l.failureCode = r.code
    /\ l.evaluation = r.evaluation /\ l.policy = r.policy
    /\ l.failed = r.failed /\ l.unknown = r.unknown
    /\ Due(f, r) => PatchTold(r, l)

Unrouted == {"idle", "create", "route"}
Routed   == AttemptPcs \cup {"loop", "worktree", "complete", "expired"}

(* The task in the journal, between the steps of the delegation.           *)
TaskTold ==
    /\ call.pc \in Unrouted => journal = InitialProjection /\ call.last = NoReport
    /\ call.pc \in Routed =>
          /\ journal.status = "in_progress" /\ journal.route = call.task.route
          /\ journal.maxAttempts = call.task.maxAttempts
          /\ \A k \in journal.known : k <= journal.attemptCount
          /\ journal.attemptCount = IF call.pc \in {"worktree", "start"} THEN call.index - 1
                                    ELSE call.index
          /\ call.last = NoReport => journal.last.run = 0
    /\ call.pc \in {"loop", "worktree", "start", "expired", "complete"} => journal.active.run = 0
    /\ call.pc \in {"loop", "worktree", "start"} /\ journal.last.run # 0
          => FallbackEligible(journal.last)
    /\ call.pc = "expired" => call.last = NoReport
    /\ call.pc = "complete" => call.last # NoReport

LastKnown ==
    /\ call.pc \in Routed \cup {"returned"} /\ call.last # NoReport =>
          /\ call.last \in reports
          /\ LastOK(call.task, call.last) /\ LastTold(faults, call.last, journal.last)
    /\ call.pc = "returned" => call.last # NoReport /\ journal.status = call.last.status

AttemptTold ==
    /\ call.pc \in AttemptPcs => RunOK(call.task, Signal, call.pc, run)
    /\ call.pc \in AttemptPcs \ {"start"} =>
          Told(call.task, call.index, faults, call.pc, run, journal.active)
    /\ call.pc = "attempt" => RunReport \in reports

StoryInv == TaskTold /\ LastKnown /\ AttemptTold

(***************************************************************************)
(* The worktrees.  A run whose container may still write keeps its own.    *)
(***************************************************************************)
WorktreeInv ==
    /\ containers \subseteq worktrees
    /\ \A i \in containers : i <= call.index
    /\ call.pc \in AttemptPcs =>
          /\ call.index \in worktrees
          /\ worktrees \subseteq containers \cup {call.index}
          /\ run.preserve <=> call.index \in containers
    /\ call.pc \notin AttemptPcs \cup {"crashed", "uncleaned"} => worktrees \subseteq containers
    /\ call.pc = "uncleaned" => worktrees \subseteq containers \cup {call.index}
    /\ call.pc = "worktree" => call.index \notin containers
    /\ \A r \in reports :
          /\ r.run <= call.index
          /\ call.pc \in {"worktree"} \cup (AttemptPcs \ {"attempt"}) => r.run < call.index
          /\ r.run \in containers => r.patch = 0 /\ r.status # "completed"

(* An application records its steps only after it was requested.           *)
RequestInv == app.recording => journal.applicationRun = app.report.run

-----------------------------------------------------------------------------
(***************************************************************************)
(* What the events of an attempt make of the task in the journal.          *)
(***************************************************************************)
TaskKept(t, u) ==
    /\ u.status = t.status /\ u.route = t.route /\ u.maxAttempts = t.maxAttempts
    /\ u.known = t.known /\ u.attemptCount = t.attemptCount /\ u.last = t.last

OpenEvents == {"ModelTurnCompleted", "ToolCalled", "WorkerCompleted", "PatchProduced",
               "ValidationCompleted", "EvaluationCompleted"}

LEMMA OpenEventsKeepTask ==
    ASSUME NEW t \in Projection, NEW e, e.type \in OpenEvents
    PROVE  TaskKept(t, ProjectEvent(t, e)) /\ ProjectEvent(t, e).applicationRun = t.applicationRun
BY DEF OpenEvents, ProjectEvent, Projection, TaskKept, ProjectTurn, ProjectToolCall, ProjectWork,
       ProjectPatch, ProjectValidation, ProjectEvaluation

LEMMA ApplicationsKeepTask ==
    ASSUME NEW t \in Projection, NEW e, e.type \in ApplicationEvents
    PROVE  TaskKept(t, ProjectEvent(t, e)) /\ ProjectEvent(t, e).active = t.active
BY DEF ApplicationEvents, ProjectEvent, Projection, TaskKept, ProjectRequest, ProjectApproval,
       ProjectApplied, ProjectRejection

LEMMA NoApplicationAtFirst ==
    ASSUME NEW e, e.type \in ApplicationEvents
    PROVE  ~EventAllowed(InitialProjection, e)
BY DEF ApplicationEvents, EventAllowed, InitialProjection, RequestAllowed, ApplicableRun,
       ApprovalAllowed, AppliedAllowed, RejectionAllowed

LEMMA RouteTells ==
    ASSUME NEW t \in Projection, NEW e, e.type = "RouteSelected"
    PROVE  LET u == ProjectEvent(t, e)
           IN /\ u.status = t.status /\ u.route = e.route /\ u.maxAttempts = e.maxAttempts
              /\ u.known = t.known /\ u.attemptCount = t.attemptCount /\ u.last = t.last
              /\ u.active = t.active
BY DEF ProjectEvent, Projection, ProjectRoute

LEMMA StartTells ==
    ASSUME NEW t \in Projection, NEW e, e.type = "WorkerStarted"
    PROVE  LET u == ProjectEvent(t, e)
               a == u.active
           IN /\ u.status = t.status /\ u.route = t.route /\ u.maxAttempts = t.maxAttempts
              /\ u.known = t.known \cup {e.run} /\ u.attemptCount = e.attempt /\ u.last = t.last
              /\ a.run = e.run /\ a.worker = e.worker /\ a.iteration = 0
              /\ ~a.modelFailed /\ ~a.modelTerminal /\ a.expected = 0 /\ a.observed = 0
              /\ a.worked = "none" /\ a.patch = 0 /\ a.validation = "none"
              /\ a.evaluation = "none"
<1> DEFINE a == [NoAttempt EXCEPT !.run = e.run, !.worker = e.worker]
<1>1. /\ a.run = e.run /\ a.worker = e.worker /\ a.iteration = 0
      /\ ~a.modelFailed /\ ~a.modelTerminal /\ a.expected = 0 /\ a.observed = 0
      /\ a.worked = "none" /\ a.patch = 0 /\ a.validation = "none" /\ a.evaluation = "none"
  BY DEF NoAttempt
<1>2. ProjectEvent(t, e) = [t EXCEPT !.active = a, !.known = t.known \cup {e.run},
                                     !.attemptCount = e.attempt]
  BY DEF ProjectEvent, ProjectStart, Projection
<1> HIDE DEF a
<1>3. QED BY <1>1, <1>2 DEF Projection

LEMMA TurnTells ==
    ASSUME NEW t \in Projection, NEW e, e.type = "ModelTurnCompleted"
    PROVE  LET a == ProjectEvent(t, e).active
           IN /\ a.iteration = e.iteration
              /\ a.modelFailed = (e.outcome = "failed")
              /\ a.modelTerminal = (e.outcome = "failed" \/ e.toolCalls = 0)
              /\ a.expected = e.toolCalls /\ a.observed = 0
              /\ a.run = t.active.run /\ a.worker = t.active.worker
              /\ a.worked = t.active.worked /\ a.patch = t.active.patch
              /\ a.validation = t.active.validation /\ a.evaluation = t.active.evaluation
<1>1. t.active \in Attempt
  BY DEF Projection
<1> DEFINE failed   == e.outcome = "failed"
           terminal == e.outcome = "failed" \/ e.toolCalls = 0
           a == [t.active EXCEPT !.iteration = e.iteration, !.modelFailed = failed,
                                 !.modelTerminal = terminal,
                                 !.expected = e.toolCalls, !.observed = 0]
<1>2. ProjectEvent(t, e).active = a
  BY <1>1 DEF ProjectEvent, ProjectTurn, Projection, Attempt
<1> HIDE DEF failed, terminal
<1>3. /\ a.iteration = e.iteration /\ a.modelFailed = failed /\ a.modelTerminal = terminal
      /\ a.expected = e.toolCalls /\ a.observed = 0
      /\ a.run = t.active.run /\ a.worker = t.active.worker
      /\ a.worked = t.active.worked /\ a.patch = t.active.patch
      /\ a.validation = t.active.validation /\ a.evaluation = t.active.evaluation
  BY <1>1 DEF Attempt
<1> HIDE DEF a
<1>4. QED BY <1>2, <1>3 DEF failed, terminal

LEMMA ToolTells ==
    ASSUME NEW t \in Projection, NEW e, e.type = "ToolCalled"
    PROVE  LET a == ProjectEvent(t, e).active
           IN /\ a.observed = t.active.observed + 1
              /\ a.iteration = t.active.iteration /\ a.expected = t.active.expected
              /\ a.modelFailed = t.active.modelFailed
              /\ a.modelTerminal = t.active.modelTerminal
              /\ a.run = t.active.run /\ a.worker = t.active.worker
              /\ a.worked = t.active.worked /\ a.patch = t.active.patch
              /\ a.validation = t.active.validation /\ a.evaluation = t.active.evaluation
<1>1. t.active \in Attempt
  BY DEF Projection
<1> DEFINE a == [t.active EXCEPT !.observed = t.active.observed + 1]
<1>2. ProjectEvent(t, e).active = a
  BY <1>1 DEF ProjectEvent, ProjectToolCall, Projection, Attempt
<1>3. QED BY <1>1, <1>2 DEF Attempt

LEMMA WorkTells ==
    ASSUME NEW t \in Projection, NEW e, e.type = "WorkerCompleted"
    PROVE  LET a == ProjectEvent(t, e).active
           IN /\ a.run = e.run /\ a.worker = t.active.worker /\ a.worked = e.outcome
              /\ a.patch = 0 /\ a.validation = "none" /\ a.evaluation = "none"
<1> DEFINE a == [NoAttempt EXCEPT !.run = e.run, !.worker = t.active.worker,
                                  !.worked = e.outcome]
<1>1. /\ a.run = e.run /\ a.worker = t.active.worker /\ a.worked = e.outcome
      /\ a.patch = 0 /\ a.validation = "none" /\ a.evaluation = "none"
  BY DEF NoAttempt
<1>2. ProjectEvent(t, e) = [t EXCEPT !.active = a]
  BY DEF ProjectEvent, ProjectWork
<1> HIDE DEF a
<1>3. QED BY <1>1, <1>2 DEF Projection

LEMMA PatchTells ==
    ASSUME NEW t \in Projection, NEW e, e.type = "PatchProduced"
    PROVE  LET a == ProjectEvent(t, e).active
           IN /\ a.patch = e.files
              /\ a.run = t.active.run /\ a.worker = t.active.worker
              /\ a.worked = t.active.worked /\ a.validation = t.active.validation
              /\ a.evaluation = t.active.evaluation
<1>1. t.active \in Attempt
  BY DEF Projection
<1>2. QED BY <1>1 DEF ProjectEvent, ProjectPatch, Projection, Attempt

LEMMA ValidationTells ==
    ASSUME NEW t \in Projection, NEW e, e.type = "ValidationCompleted"
    PROVE  LET a == ProjectEvent(t, e).active
           IN /\ a.validation = e.outcome
              /\ a.run = t.active.run /\ a.worker = t.active.worker
              /\ a.worked = t.active.worked /\ a.patch = t.active.patch
              /\ a.evaluation = t.active.evaluation
<1>1. t.active \in Attempt
  BY DEF Projection
<1>2. QED BY <1>1 DEF ProjectEvent, ProjectValidation, Projection, Attempt

LEMMA EvaluationTells ==
    ASSUME NEW t \in Projection, NEW e, e.type = "EvaluationCompleted"
    PROVE  LET a == ProjectEvent(t, e).active
           IN /\ a.evaluation = e.outcome /\ a.policy = e.policy
              /\ a.failed = e.failed /\ a.unknown = e.unknown
              /\ a.run = t.active.run /\ a.worker = t.active.worker
              /\ a.worked = t.active.worked /\ a.patch = t.active.patch
              /\ a.validation = t.active.validation
<1>1. t.active \in Attempt
  BY DEF Projection
<1> DEFINE a == [t.active EXCEPT !.evaluation = e.outcome, !.policy = e.policy,
                                 !.failed = e.failed, !.unknown = e.unknown]
<1>2. ProjectEvent(t, e).active = a
  BY <1>1 DEF ProjectEvent, ProjectEvaluation, Projection, Attempt
<1>3. /\ a.evaluation = e.outcome /\ a.policy = e.policy
      /\ a.failed = e.failed /\ a.unknown = e.unknown
      /\ a.run = t.active.run /\ a.worker = t.active.worker
      /\ a.worked = t.active.worked /\ a.patch = t.active.patch
      /\ a.validation = t.active.validation
  BY <1>1 DEF Attempt
<1> HIDE DEF a
<1>4. QED BY <1>2, <1>3

LEMMA AttemptEndTells ==
    ASSUME NEW t \in Projection, NEW e, e.type = "AttemptCompleted"
    PROVE  LET u == ProjectEvent(t, e)
               l == u.last
           IN /\ u.status = t.status /\ u.route = t.route /\ u.maxAttempts = t.maxAttempts
              /\ u.known = t.known /\ u.attemptCount = t.attemptCount /\ u.active = NoAttempt
              /\ l.status = e.status /\ l.failureCode = e.failureCode
              /\ l.run = t.active.run /\ l.worker = t.active.worker /\ l.patch = t.active.patch
              /\ l.evaluation = t.active.evaluation /\ l.policy = t.active.policy
              /\ l.failed = t.active.failed /\ l.unknown = t.active.unknown
<1>1. t.active \in Attempt
  BY DEF Projection
<1> DEFINE l == [t.active EXCEPT !.status = e.status, !.failureCode = e.failureCode]
<1>2. /\ l.status = e.status /\ l.failureCode = e.failureCode
      /\ l.run = t.active.run /\ l.worker = t.active.worker /\ l.patch = t.active.patch
      /\ l.evaluation = t.active.evaluation /\ l.policy = t.active.policy
      /\ l.failed = t.active.failed /\ l.unknown = t.active.unknown
  BY <1>1 DEF Attempt
<1>3. ProjectEvent(t, e) = [t EXCEPT !.last = l, !.active = NoAttempt]
  BY <1>1 DEF ProjectEvent, ProjectAttemptEnd, Projection
<1> HIDE DEF l
<1>4. QED BY <1>2, <1>3 DEF Projection

-----------------------------------------------------------------------------
(***************************************************************************)
(* Steps that keep the story.                                              *)
(***************************************************************************)
LEMMA CallMoved ==
    ASSUME Inv, NEW next
    PROVE  LET c == [call EXCEPT !.pc = next]
           IN c.pc = next /\ c.task = call.task /\ c.index = call.index /\ c.last = call.last
BY DEF Inv, TypeOK, Call

LEMMA FaultsFall ==
    ASSUME Inv, faults' = faults \/ (faults > 0 /\ faults' = faults - 1)
    PROVE  faults' = MaxFaults => faults' = faults
BY BoundsAssumption DEF Inv, TypeOK

LEMMA DueKept ==
    ASSUME NEW f, NEW g, g = MaxFaults => g = f, NEW r, Due(g, r)
    PROVE  Due(f, r)
BY DEF Due

LEMMA LastKept ==
    ASSUME faults' = MaxFaults => faults' = faults, NEW r, NEW l, LastTold(faults, r, l)
    PROVE  LastTold(faults', r, l)
BY DueKept DEF LastTold

LEMMA ToldKept ==
    ASSUME faults' = MaxFaults => faults' = faults, NEW t, NEW i, NEW pc, NEW r, NEW a,
           Told(t, i, faults, pc, r, a)
    PROVE  Told(t, i, faults', pc, r, a)
<1>1. Due(faults', r) => Due(faults, r)
  BY DueKept
<1>2. QED BY <1>1 DEF Told, ChangeTold

(* Nothing is said of a delegation that was thrown out.                    *)
LEMMA EndedStory ==
    ASSUME call'.pc \in Gone \cup {"crashed"}
    PROVE  StoryInv'
<1>1. call'.pc \in {"thrown", "uncleaned", "crashed"}
  BY DEF Gone
<1>2. call'.pc \notin Unrouted \cup Routed \cup AttemptPcs \cup {"returned"}
  BY <1>1 DEF Unrouted, Routed, AttemptPcs
<1>3. QED BY <1>1, <1>2 DEF StoryInv, TaskTold, LastKnown, AttemptTold, Unrouted, Routed

LEMMA ThrownStory == ASSUME Inv, Thrown PROVE StoryInv'
BY ThrownFacts, EndedStory

LEMMA ThrowStory == ASSUME Inv, Throw PROVE StoryInv'
BY ThrownStory DEF Thrown

(* A step within an attempt.                                               *)
LEMMA MoveStory ==
    ASSUME Inv, StoryInv, NEW next \in AttemptPcs \ {"start"},
           call.pc \in AttemptPcs \ {"start"}, call' = [call EXCEPT !.pc = next],
           TaskKept(journal, journal'), reports \subseteq reports',
           faults' = faults \/ (faults > 0 /\ faults' = faults - 1),
           UNCHANGED <<clock, aborted>>,
           RunOK(call.task, Signal, next, run'),
           Told(call.task, call.index, faults', next, run', journal'.active),
           next = "attempt" => RunReport' \in reports'
    PROVE  StoryInv'
<1>1. /\ call'.pc = next /\ call'.task = call.task /\ call'.index = call.index
      /\ call'.last = call.last
  BY CallMoved
<1>2. faults' = MaxFaults => faults' = faults
  BY FaultsFall
<1>3. Signal' = Signal
  BY DEF Signal
<1>4. next \notin Unrouted \cup {"loop", "worktree", "start", "expired", "complete", "returned"}
      /\ next \in Routed /\ call.pc \in Routed
      /\ call.pc \notin {"worktree", "start"}
  BY DEF AttemptPcs, Unrouted, Routed
<1>5. TaskTold'
  BY <1>1, <1>4 DEF StoryInv, TaskTold, TaskKept
<1>6. ASSUME call.last # NoReport
      PROVE  LastTold(faults', call.last, journal'.last)
  <2>1. LastTold(faults, call.last, journal.last)
    BY <1>4, <1>6 DEF StoryInv, LastKnown
  <2>2. journal'.last = journal.last
    BY DEF TaskKept
  <2>3. QED BY <1>2, <2>1, <2>2, LastKept
<1>7. LastKnown'
  BY <1>1, <1>4, <1>6 DEF StoryInv, LastKnown
<1>8. AttemptTold'
  BY <1>1, <1>3 DEF AttemptTold
<1>9. QED BY <1>5, <1>7, <1>8 DEF StoryInv

LEMMA ContinueStory ==
    ASSUME Inv, StoryInv, NEW next \in AttemptPcs \ {"start", "attempt"},
           call.pc \in AttemptPcs \ {"start"}, NEW attempt, Continue(next, attempt),
           RunOK(call.task, Signal, next, attempt),
           Told(call.task, call.index, faults, next, attempt, journal.active)
    PROVE  StoryInv'
<1>1. /\ TaskKept(journal, journal') /\ journal' = journal /\ run' = attempt
      /\ reports \subseteq reports' /\ faults' = faults
      /\ UNCHANGED <<clock, aborted>> /\ call' = [call EXCEPT !.pc = next]
  BY DEF Continue, TaskKept, environment
<1>2. QED BY <1>1, MoveStory

LEMMA RecordStory ==
    ASSUME Inv, StoryInv, NEW next \in AttemptPcs \ {"start", "attempt"},
           call.pc \in AttemptPcs \ {"start"}, NEW attempt, NEW e, NEW stopped,
           e.type \in OpenEvents, Record(e, stopped, next, attempt),
           RunOK(call.task, Signal, next, attempt),
           EventAllowed(journal, e) =>
               Told(call.task, call.index, faults, next, attempt, ProjectEvent(journal, e).active)
    PROVE  StoryInv'
<1>1. CASE Throw
  BY <1>1, ThrowStory
<1>2. CASE Appended(e, stopped) /\ call' = [call EXCEPT !.pc = next] /\ run' = attempt
  <2>1. journal \in Projection
    BY DEF Inv, TypeOK
  <2>2. journal' = ProjectEvent(journal, e) /\ EventAllowed(journal, e) /\ faults' = faults
    BY <1>2 DEF Appended
  <2>3. TaskKept(journal, journal')
    BY <2>1, <2>2, OpenEventsKeepTask
  <2>4. reports \subseteq reports' /\ UNCHANGED <<clock, aborted>>
    BY DEF Record, environment
  <2>5. QED BY <1>2, <2>2, <2>3, <2>4, MoveStory
<1>3. QED BY <1>1, <1>2 DEF Record

-----------------------------------------------------------------------------
(***************************************************************************)
(* The agent loop.                                                         *)
(***************************************************************************)
LEMMA AttemptFacts ==
    ASSUME Inv, StoryInv, call.pc \in AttemptPcs
    PROVE  /\ run \in Run /\ run.patch \in {0, run.changed} /\ journal \in Projection
           /\ run.iteration \in Nat /\ run.left \in Int /\ run.files \in Nat
           /\ run.changed \in Nat /\ run.patch \in Nat
           /\ call.task \in Tasks /\ call.index \in Nat
           /\ RunOK(call.task, Signal, call.pc, run)
           /\ call.pc # "start" =>
                 Told(call.task, call.index, faults, call.pc, run, journal.active)
BY DEF Inv, TypeOK, CallInv, Call, Working, StoryInv, AttemptTold, Run

(* The signal, and errors, as the attempt learns of them.                  *)
LEMMA ErrorsClassified ==
    ASSUME NEW error
    PROVE  /\ classifyRunError(error) \in {"cancelled", "timed_out", "policy_violation", "failed"}
           /\ Signal => classifyRunError(error) \in {"cancelled", "timed_out"}
BY DEF classifyRunError, Signal

LEMMA ErrorsCoded ==
    ASSUME NEW error, error \in TurnErrors \cup {"AbortError", "TimeoutError", "PATCH_TOO_LARGE",
                                                 "DOCKER_CONTAINER_CLEANUP_FAILED"}
    PROVE  /\ getFailureCode(error) # "none"
           /\ getFailureCode(error) \notin Verdicts \cup {"WORKER_NO_CHANGES"}
           /\ error \notin FallbackCodes => getFailureCode(error) \notin FallbackCodes
BY DEF TurnErrors, getFailureCode, Verdicts, FallbackCodes

LEMMA FailedOK ==
    ASSUME Inv, StoryInv, call.pc = "turn", run.iteration < MaxIterations,
           NEW error, error \in TurnErrors \cup {"AbortError"}
    PROVE  RunOK(call.task, Signal, "work", Failed(error)) /\ Failed(error).status # "completed"
<1>1. /\ run \in Run /\ run.iteration \in Nat /\ RunOK(call.task, Signal, "turn", run)
  BY AttemptFacts DEF AttemptPcs
<1> DEFINE code == getFailureCode(error)
           status == classifyRunError(error)
           r == [run EXCEPT !.iteration = run.iteration + 1, !.code = code, !.status = status]
<1>2. /\ status \in {"cancelled", "timed_out", "policy_violation", "failed"}
      /\ code # "none" /\ code \notin Verdicts \cup {"WORKER_NO_CHANGES"}
  BY ErrorsClassified, ErrorsCoded
<1>3. Failed(error) = r
  BY <1>1 DEF Failed, Run
<1> HIDE DEF code, status
<1>4. /\ r.iteration = run.iteration + 1 /\ r.left = run.left /\ r.status = status
      /\ r.code = code /\ r.files = run.files /\ r.changed = run.changed /\ r.patch = run.patch
      /\ r.results = run.results /\ r.preserve = run.preserve
  BY <1>1 DEF Run
<1> HIDE DEF r
<1>5. r.iteration <= MaxIterations
  BY <1>1, <1>4, BoundsAssumption
<1>6. RunForm(call.task, "work", r)
  BY <1>1, <1>4, <1>5 DEF RunOK, RunForm, Before, Thinking
<1>7. RunCodes(Signal, "work", r)
  BY <1>1, <1>2, <1>4 DEF RunOK, RunCodes, Before, Thinking
<1>8. RunChange(call.task, "work", r)
  BY <1>1, <1>2, <1>4 DEF RunOK, RunChange, Before, Thinking, Checked, Assessed
<1>9. QED BY <1>2, <1>3, <1>4, <1>6, <1>7, <1>8 DEF RunOK, RunVerdict, Assessed

LEMMA FailedTurnTold ==
    ASSUME Inv, StoryInv, call.pc = "turn", NEW r, r.status # "completed",
           EventAllowed(journal, TurnEvent("failed", 0))
    PROVE  Told(call.task, call.index, faults, "work", r,
                ProjectEvent(journal, TurnEvent("failed", 0)).active)
<1> DEFINE e == TurnEvent("failed", 0)
           a == ProjectEvent(journal, e).active
<1>1. /\ journal \in Projection
      /\ Told(call.task, call.index, faults, "turn", run, journal.active)
  BY AttemptFacts DEF AttemptPcs
<1>2. e.type = "ModelTurnCompleted" /\ e.outcome = "failed" /\ e.toolCalls = 0
  BY DEF TurnEvent
<1> HIDE DEF e
<1>3. /\ a.modelFailed /\ a.expected = 0 /\ a.observed = 0
      /\ a.run = journal.active.run /\ a.worker = journal.active.worker
      /\ a.worked = journal.active.worked /\ a.patch = journal.active.patch
      /\ a.validation = journal.active.validation /\ a.evaluation = journal.active.evaluation
  BY <1>1, <1>2, TurnTells
<1> HIDE DEF a
<1>4. TurnsTold("work", r, a)
  BY <1>3 DEF TurnsTold
<1>5. StagesTold(call.task, "work", r, a)
  BY <1>1, <1>3 DEF Told, StagesTold, Before, Thinking, Assessed
<1>6. ChangeTold(faults, "work", r, a)
  BY <1>1, <1>3 DEF Told, ChangeTold, Before, Thinking, Checked, Assessed
<1>7. Told(call.task, call.index, faults, "work", r, a)
  BY <1>1, <1>3, <1>4, <1>5, <1>6 DEF Told
<1>8. QED BY <1>7 DEF a, e

LEMMA AnswerStory == ASSUME Inv, StoryInv, Answer PROVE StoryInv'
<1>1. /\ call.pc = "turn" /\ run.iteration < MaxIterations
      /\ call.pc \in AttemptPcs \ {"start"} /\ {"work", "tools"} \subseteq AttemptPcs \ {"start", "attempt"}
  BY DEF Answer, AttemptPcs
<1>2. /\ run \in Run /\ run.iteration \in Nat /\ run.left \in Int /\ journal \in Projection
      /\ RunOK(call.task, Signal, "turn", run)
      /\ Told(call.task, call.index, faults, "turn", run, journal.active)
  BY <1>1, AttemptFacts
<1>3. MaxTurnTools \in Nat /\ MaxIterations \in Nat
  BY BoundsAssumption
<1>4. ASSUME NEW n \in 0..MaxTurnTools,
             Record(TurnEvent("succeeded", n), FALSE, IF n = 0 THEN "work" ELSE "tools",
                    [run EXCEPT !.iteration = @ + 1, !.left = n, !.total = @ + n])
      PROVE  StoryInv'
  <2> DEFINE next == IF n = 0 THEN "work" ELSE "tools"
             r == [run EXCEPT !.iteration = run.iteration + 1, !.left = n, !.total = run.total + n]
             e == TurnEvent("succeeded", n)
             a == ProjectEvent(journal, e).active
  <2>1. Record(e, FALSE, next, r)
    <3>1. r = [run EXCEPT !.iteration = @ + 1, !.left = n, !.total = @ + n]
      BY <1>2 DEF Run
    <3> HIDE DEF r
    <3>2. QED BY <1>4, <3>1
  <2>2. /\ r.iteration = run.iteration + 1 /\ r.left = n /\ r.status = run.status
        /\ r.code = run.code /\ r.files = run.files /\ r.changed = run.changed
        /\ r.patch = run.patch /\ r.results = run.results /\ r.preserve = run.preserve
    BY <1>2 DEF Run
  <2>3. /\ e.type = "ModelTurnCompleted" /\ e.outcome = "succeeded" /\ e.toolCalls = n
        /\ e.iteration = run.iteration + 1 /\ e.type \in OpenEvents
    BY DEF TurnEvent, OpenEvents
  <2>4. n \in Nat /\ n <= MaxTurnTools
    BY <1>3
  <2>5. next \in {"work", "tools"} /\ (next = "work" <=> n = 0)
    OBVIOUS
  <2> HIDE DEF r, e, next
  <2>6. /\ a.iteration = r.iteration /\ ~a.modelFailed /\ a.modelTerminal = (n = 0)
        /\ a.expected = n /\ a.observed = 0
        /\ a.run = journal.active.run /\ a.worker = journal.active.worker
        /\ a.worked = journal.active.worked /\ a.patch = journal.active.patch
        /\ a.validation = journal.active.validation /\ a.evaluation = journal.active.evaluation
    <3>1. journal \in Projection /\ e.type = "ModelTurnCompleted"
      BY <1>2, <2>3
    <3>2. /\ a.iteration = e.iteration
          /\ a.modelFailed = (e.outcome = "failed")
          /\ a.modelTerminal = (e.outcome = "failed" \/ e.toolCalls = 0)
          /\ a.expected = e.toolCalls /\ a.observed = 0
          /\ a.run = journal.active.run /\ a.worker = journal.active.worker
          /\ a.worked = journal.active.worked /\ a.patch = journal.active.patch
          /\ a.validation = journal.active.validation
          /\ a.evaluation = journal.active.evaluation
      BY <3>1, TurnTells
    <3> HIDE DEF a
    <3>3. e.outcome # "failed" /\ e.toolCalls = n /\ e.iteration = r.iteration
      BY <2>2, <2>3
    <3>4. ~a.modelFailed /\ a.modelTerminal = (n = 0)
      BY <3>2, <3>3
    <3>5. QED BY <3>2, <3>3, <3>4
  <2> HIDE DEF a
  <2>7. RunForm(call.task, next, r)
    <3>1. r.iteration <= MaxIterations /\ r.iteration > 0
      BY <1>1, <1>2, <1>3, <2>2
    <3>2. next = "tools" => r.left > 0 /\ r.left <= MaxTurnTools
      BY <2>2, <2>4, <2>5
    <3>3. QED BY <1>2, <2>2, <2>5, <3>1, <3>2 DEF RunOK, RunForm, Before, Thinking
  <2>8. RunCodes(Signal, next, r)
    BY <1>2, <2>2, <2>5 DEF RunOK, RunCodes, Before, Thinking
  <2>9. RunChange(call.task, next, r)
    BY <1>2, <2>2, <2>5 DEF RunOK, RunChange, Before, Thinking, Checked, Assessed
  <2>10. RunOK(call.task, Signal, next, r)
    BY <2>5, <2>7, <2>8, <2>9 DEF RunOK, RunVerdict, Assessed
  <2>11. TurnsTold(next, r, a)
    <3>1. a.expected = a.observed + r.left /\ (n = 0 => a.observed = a.expected)
      BY <2>2, <2>4, <2>6
    <3>2. QED BY <2>5, <2>6, <3>1 DEF TurnsTold
  <2>12. StagesTold(call.task, next, r, a)
    BY <1>2, <2>5, <2>6 DEF Told, StagesTold, Before, Thinking, Assessed
  <2>13. ChangeTold(faults, next, r, a)
    BY <1>2, <2>5, <2>6 DEF Told, ChangeTold, Before, Thinking, Checked, Assessed
  <2>14. Told(call.task, call.index, faults, next, r, a)
    BY <1>2, <2>6, <2>11, <2>12, <2>13 DEF Told
  <2>15. QED BY <1>1, <2>1, <2>3, <2>5, <2>10, <2>14, RecordStory DEF a
<1>5. ASSUME NEW error \in TurnErrors,
             Record(TurnEvent("failed", 0), FALSE, "work", Failed(error))
      PROVE  StoryInv'
  <2>1. TurnEvent("failed", 0).type \in OpenEvents
    BY DEF TurnEvent, OpenEvents
  <2>2. QED BY <1>1, <1>5, <2>1, FailedOK, FailedTurnTold, RecordStory
<1>6. QED BY <1>4, <1>5 DEF Answer

LEMMA ProviderStopsStory == ASSUME Inv, StoryInv, ProviderStops PROVE StoryInv'
<1>1. /\ call.pc = "turn" /\ run.iteration < MaxIterations
      /\ call.pc \in AttemptPcs \ {"start"} /\ "work" \in AttemptPcs \ {"start", "attempt"}
  BY DEF ProviderStops, AttemptPcs
<1>2. PICK error \in {"AbortError", "PROVIDER_FAILURE"} :
           Record(TurnEvent("failed", 0), FALSE, "work", Failed(error))
  BY DEF ProviderStops
<1>3. error \in TurnErrors \cup {"AbortError"} /\ TurnEvent("failed", 0).type \in OpenEvents
  BY DEF TurnErrors, TurnEvent, OpenEvents
<1>4. QED BY <1>1, <1>2, <1>3, FailedOK, FailedTurnTold, RecordStory

LEMMA IterationLimitStory == ASSUME Inv, StoryInv, IterationLimit PROVE StoryInv'
<1>1. /\ call.pc = "turn" /\ call.pc \in AttemptPcs \ {"start"}
      /\ "work" \in AttemptPcs \ {"start", "attempt"}
  BY DEF IterationLimit, AttemptPcs
<1>2. /\ run \in Run /\ RunOK(call.task, Signal, "turn", run) /\ journal \in Projection
      /\ Told(call.task, call.index, faults, "turn", run, journal.active)
  BY <1>1, AttemptFacts
<1> DEFINE status == classifyRunError("WORKER_LIMIT")
           r == [run EXCEPT !.code = "WORKER_LIMIT", !.status = status]
<1>3. status \in {"cancelled", "timed_out", "policy_violation", "failed"}
  BY ErrorsClassified
<1>4. Continue("work", r)
  BY DEF IterationLimit
<1> HIDE DEF status
<1>5. /\ r.iteration = run.iteration /\ r.left = run.left /\ r.status = status
      /\ r.code = "WORKER_LIMIT" /\ r.files = run.files /\ r.changed = run.changed
      /\ r.patch = run.patch /\ r.results = run.results /\ r.preserve = run.preserve
  BY <1>2 DEF Run
<1> HIDE DEF r
<1>6. RunForm(call.task, "work", r)
  BY <1>2, <1>5 DEF RunOK, RunForm, Before, Thinking
<1>7. RunCodes(Signal, "work", r)
  BY <1>3, <1>5 DEF RunCodes, Before, Thinking, Verdicts
<1>8. RunChange(call.task, "work", r)
  BY <1>2, <1>3, <1>5 DEF RunOK, RunChange, Before, Thinking, Checked, Assessed
<1>9. RunOK(call.task, Signal, "work", r)
  BY <1>6, <1>7, <1>8 DEF RunOK, RunVerdict, Assessed
<1>10. TurnsTold("work", r, journal.active)
  <2>1. run.left = 0 /\ journal.active.observed \in Nat
    BY <1>2 DEF RunOK, RunForm, Projection, Attempt
  <2>2. journal.active.expected = journal.active.observed + run.left /\ ~journal.active.modelFailed
    BY <1>2 DEF Told, TurnsTold
  <2>3. journal.active.expected = journal.active.observed
    BY <2>1, <2>2
  <2>4. QED BY <1>3, <1>5, <2>2, <2>3 DEF TurnsTold
<1>11. StagesTold(call.task, "work", r, journal.active)
  BY <1>2 DEF Told, StagesTold, Before, Thinking, Assessed
<1>12. ChangeTold(faults, "work", r, journal.active)
  BY <1>2 DEF Told, ChangeTold, Before, Thinking, Checked, Assessed
<1>13. Told(call.task, call.index, faults, "work", r, journal.active)
  BY <1>2, <1>10, <1>11, <1>12 DEF Told
<1>14. QED BY <1>1, <1>4, <1>9, <1>13, ContinueStory

LEMMA ToolStory == ASSUME Inv, StoryInv, Tool PROVE StoryInv'
<1>1. /\ call.pc = "tools" /\ call.pc \in AttemptPcs \ {"start"}
      /\ {"turn", "tools"} \subseteq AttemptPcs \ {"start", "attempt"}
  BY DEF Tool, AttemptPcs
<1>2. /\ run \in Run /\ run.left \in Int /\ run.files \in Nat
      /\ RunOK(call.task, Signal, "tools", run) /\ journal \in Projection
      /\ Told(call.task, call.index, faults, "tools", run, journal.active)
      /\ call.task \in Tasks
  BY <1>1, AttemptFacts
<1>3. PICK files \in (IF Writable THEN 0..MaxFiles ELSE {run.files}),
           refused \in SUBSET {"other"} :
           Record(ToolEvent, FALSE, IF run.left = 1 THEN "turn" ELSE "tools",
                  [run EXCEPT !.left = @ - 1, !.files = files, !.violations = @ \cup refused])
  BY DEF Tool
<1> DEFINE next == IF run.left = 1 THEN "turn" ELSE "tools"
           violations == run.violations \cup refused
           r == [run EXCEPT !.left = run.left - 1, !.files = files, !.violations = violations]
           e == ToolEvent
           a == ProjectEvent(journal, e).active
<1>4. Record(e, FALSE, next, r)
  <2>1. r = [run EXCEPT !.left = @ - 1, !.files = files, !.violations = @ \cup refused]
    BY <1>2 DEF Run
  <2> HIDE DEF r
  <2>2. QED BY <1>3, <2>1
<1> HIDE DEF violations
<1>5. /\ r.iteration = run.iteration /\ r.left = run.left - 1 /\ r.status = run.status
      /\ r.code = run.code /\ r.files = files /\ r.changed = run.changed
      /\ r.patch = run.patch /\ r.results = run.results /\ r.preserve = run.preserve
  BY <1>2 DEF Run
<1>6. e.type = "ToolCalled" /\ e.type \in OpenEvents
  BY DEF ToolEvent, OpenEvents
<1>7. next \in {"turn", "tools"} /\ (next = "turn" <=> run.left = 1)
  OBVIOUS
<1> HIDE DEF r, e, next
<1>8. /\ a.iteration = journal.active.iteration /\ a.observed = journal.active.observed + 1
      /\ a.modelFailed = journal.active.modelFailed
      /\ a.modelTerminal = journal.active.modelTerminal /\ a.expected = journal.active.expected
      /\ a.run = journal.active.run /\ a.worker = journal.active.worker
      /\ a.worked = journal.active.worked /\ a.patch = journal.active.patch
      /\ a.validation = journal.active.validation /\ a.evaluation = journal.active.evaluation
  BY <1>2, <1>6, ToolTells
<1> HIDE DEF a
<1>9. /\ files <= 10000
      /\ call.task.mode \notin {"implementation", "testing"} => files = call.task.seed
  <2>1. CASE Writable
    <3>1. files \in 0..MaxFiles
      BY <2>1
    <3>2. files <= 10000
      BY <3>1, BoundsAssumption, LimitsAssumption
    <3>3. QED BY <2>1, <3>2 DEF Writable
  <2>2. CASE ~Writable
    BY <1>2, <2>2 DEF RunOK, RunForm, Writable
  <2>3. QED BY <2>1, <2>2
<1>10. RunForm(call.task, next, r)
  <2>1. run.left > 0 /\ run.left <= MaxTurnTools /\ run.iteration > 0
    BY <1>2 DEF RunOK, RunForm
  <2>2. /\ next = "turn" => r.left = 0
        /\ next = "tools" => r.left > 0 /\ r.left <= MaxTurnTools /\ r.iteration > 0
    BY <1>2, <1>5, <1>7, <2>1, BoundsAssumption
  <2>3. QED BY <1>2, <1>5, <1>7, <1>9, <2>2 DEF RunOK, RunForm, Before, Thinking
<1>11. RunCodes(Signal, next, r)
  BY <1>2, <1>5, <1>7 DEF RunOK, RunCodes, Before, Thinking
<1>12. RunChange(call.task, next, r)
  BY <1>2, <1>5, <1>7 DEF RunOK, RunChange, Before, Thinking, Checked, Assessed
<1>13. RunOK(call.task, Signal, next, r)
  BY <1>7, <1>10, <1>11, <1>12 DEF RunOK, RunVerdict, Assessed
<1>14. TurnsTold(next, r, a)
  <2>1. journal.active.observed \in Nat /\ journal.active.expected \in Nat
    BY <1>2 DEF Projection, Attempt
  <2>2. journal.active.expected = journal.active.observed + run.left
    BY <1>2 DEF Told, TurnsTold
  <2>3. a.expected = a.observed + r.left
    BY <1>2, <1>5, <1>8, <2>1, <2>2
  <2>4. QED BY <1>2, <1>5, <1>7, <1>8, <2>3 DEF Told, TurnsTold
<1>15. StagesTold(call.task, next, r, a)
  BY <1>2, <1>7, <1>8 DEF Told, StagesTold, Before, Thinking, Assessed
<1>16. ChangeTold(faults, next, r, a)
  BY <1>2, <1>7, <1>8 DEF Told, ChangeTold, Before, Thinking, Checked, Assessed
<1>17. Told(call.task, call.index, faults, next, r, a)
  BY <1>2, <1>8, <1>14, <1>15, <1>16 DEF Told
<1>18. QED BY <1>1, <1>4, <1>6, <1>7, <1>13, <1>17, RecordStory DEF a

LEMMA WorkStory == ASSUME Inv, StoryInv, Work PROVE StoryInv'
<1>1. /\ call.pc = "work" /\ call.pc \in AttemptPcs \ {"start"}
      /\ "collect" \in AttemptPcs \ {"start", "attempt"}
  BY DEF Work, AttemptPcs
<1>2. /\ run \in Run /\ RunOK(call.task, Signal, "work", run) /\ journal \in Projection
      /\ Told(call.task, call.index, faults, "work", run, journal.active)
  BY <1>1, AttemptFacts
<1> DEFINE r == [run EXCEPT !.iteration = 0, !.total = 0]
           e == WorkEvent
           a == ProjectEvent(journal, e).active
<1>3. Record(e, FALSE, "collect", r)
  BY DEF Work
<1>4. /\ r.iteration = 0 /\ r.status = run.status /\ r.code = run.code /\ r.files = run.files
      /\ r.changed = run.changed /\ r.patch = run.patch /\ r.results = run.results
      /\ r.preserve = run.preserve
  BY <1>2 DEF Run
<1>5. /\ e.type = "WorkerCompleted" /\ e.type \in OpenEvents /\ e.run = call.index
      /\ e.outcome = (IF run.status = "completed" THEN "succeeded" ELSE "failed")
  BY DEF WorkEvent, OpenEvents
<1> HIDE DEF r, e
<1>6. /\ a.run = call.index /\ a.worker = journal.active.worker /\ a.worked = e.outcome
      /\ a.patch = 0 /\ a.validation = "none" /\ a.evaluation = "none"
  BY <1>2, <1>5, WorkTells
<1> HIDE DEF a
<1>7. RunForm(call.task, "collect", r)
  BY <1>2, <1>4, BoundsAssumption DEF RunOK, RunForm, Before, Thinking
<1>8. RunCodes(Signal, "collect", r)
  BY <1>2, <1>4 DEF RunOK, RunCodes, Before, Thinking, Checked
<1>9. RunChange(call.task, "collect", r)
  BY <1>2, <1>4 DEF RunOK, RunChange, Before, Thinking, Checked, Assessed
<1>10. RunOK(call.task, Signal, "collect", r)
  BY <1>7, <1>8, <1>9 DEF RunOK, RunVerdict, Assessed
<1>11. TurnsTold("collect", r, a)
  BY DEF TurnsTold
<1>12. StagesTold(call.task, "collect", r, a)
  BY <1>4, <1>5, <1>6 DEF StagesTold, Before, Thinking, Assessed
<1>13. ChangeTold(faults, "collect", r, a)
  BY <1>6 DEF ChangeTold, Before, Thinking, Checked, Assessed
<1>14. Told(call.task, call.index, faults, "collect", r, a)
  BY <1>2, <1>6, <1>11, <1>12, <1>13 DEF Told
<1>15. QED BY <1>1, <1>3, <1>5, <1>10, <1>14, RecordStory DEF a

-----------------------------------------------------------------------------
(***************************************************************************)
(* The patch.                                                              *)
(***************************************************************************)
SameWork(r, s) ==
    /\ s.iteration = r.iteration /\ s.left = r.left /\ s.files = r.files
    /\ s.changed = r.changed /\ s.patch = r.patch /\ s.results = r.results
    /\ s.preserve = r.preserve

LEMMA JudgedFields ==
    ASSUME NEW attempt \in Run
    PROVE  LET j == Judged(attempt)
           IN /\ SameWork(attempt, j)
              /\ attempt.violations # {} => j.status \in {"policy_violation", "cancelled", "timed_out"}
              /\ \/ j.status = attempt.status /\ j.code = attempt.code
                 \/ /\ j.status = "policy_violation"
                    /\ j.code = IF attempt.code = "none" THEN "WORKER_POLICY_VIOLATION"
                                ELSE attempt.code
<1> DEFINE code == IF attempt.code = "none" THEN "WORKER_POLICY_VIOLATION" ELSE attempt.code
           judged == [attempt EXCEPT !.status = "policy_violation", !.code = code]
<1>1. Judged(attempt) = IF attempt.violations # {} /\ attempt.status \notin {"cancelled", "timed_out"}
                        THEN judged ELSE attempt
  BY DEF Judged, Run
<1> HIDE DEF code
<1>2. SameWork(attempt, judged) /\ judged.status = "policy_violation" /\ judged.code = code
  BY DEF Run, SameWork
<1> HIDE DEF judged
<1>3. SameWork(attempt, attempt)
  BY DEF SameWork
<1>4. QED BY <1>1, <1>2, <1>3 DEF code

LEMMA CaughtFields ==
    ASSUME NEW attempt \in Run,
           NEW error, error \in TurnErrors \cup {"AbortError", "TimeoutError", "PATCH_TOO_LARGE"}
    PROVE  LET c == Caught(attempt, error)
           IN /\ c \in Run
              /\ SameWork(attempt, c)
              /\ c.status \in {"cancelled", "timed_out", "policy_violation", "failed"}
              /\ c.code # "none"
              /\ \/ c.code = attempt.code
                 \/ /\ c.code \notin Verdicts \cup {"WORKER_NO_CHANGES"}
                    /\ error \notin FallbackCodes => c.code \notin FallbackCodes
<1> DEFINE status == classifyRunError(error)
           code   == IF status \in {"cancelled", "timed_out"} THEN "WORKER_ABORTED"
                     ELSE IF attempt.code # "none" THEN attempt.code ELSE getFailureCode(error)
           violations == IF status = "policy_violation" THEN attempt.violations \cup {"other"}
                         ELSE attempt.violations
           c == [attempt EXCEPT !.status = status, !.code = code,
                                !.violations = violations, !.warned = TRUE]
<1>1. Caught(attempt, error) = c
  BY DEF Caught, Run
<1>2. status \in {"cancelled", "timed_out", "policy_violation", "failed"}
  BY ErrorsClassified
<1>3. /\ code # "none"
      /\ \/ code = attempt.code
         \/ /\ code \notin Verdicts \cup {"WORKER_NO_CHANGES"}
            /\ error \notin FallbackCodes => code \notin FallbackCodes
  <2>1. "WORKER_ABORTED" \notin Verdicts \cup {"WORKER_NO_CHANGES"} \cup FallbackCodes
    BY DEF Verdicts, FallbackCodes
  <2>2. /\ getFailureCode(error) # "none"
        /\ getFailureCode(error) \notin Verdicts \cup {"WORKER_NO_CHANGES"}
        /\ error \notin FallbackCodes => getFailureCode(error) \notin FallbackCodes
    BY ErrorsCoded
  <2> HIDE DEF status
  <2>3. QED BY <2>1, <2>2
<1> HIDE DEF status, code, violations
<1>4. SameWork(attempt, c) /\ c.status = status /\ c.code = code
  BY DEF Run, SameWork
<1> HIDE DEF c
<1>5. Caught(attempt, error) \in Run
  <2>1. violations \in SUBSET {"scope", "other"}
    BY DEF violations, Run
  <2>2. error \in Errors
    BY DEF Errors, TurnErrors, FailureCodes
  <2>3. status \in RunStatuses /\ code \in FailureCodes \cup {"none"}
    BY <2>2, CodesTyped, StatusesTyped DEF status, code, Run, FailureCodes
  <2>4. PICK caught : caught = c
    OBVIOUS
  <2>5. caught = [iteration |-> attempt.iteration, left |-> attempt.left,
                  total |-> attempt.total, status |-> status, code |-> code,
                  files |-> attempt.files, changed |-> attempt.changed,
                  patch |-> attempt.patch, violations |-> violations,
                  results |-> attempt.results, preserve |-> attempt.preserve, warned |-> TRUE,
                  evaluation |-> attempt.evaluation, failed |-> attempt.failed,
                  unknown |-> attempt.unknown]
    BY <2>4 DEF c, Run
  <2>6. caught \in Run
    BY <2>1, <2>3, <2>5 DEF Run
  <2>7. QED BY <1>1, <2>4, <2>6
<1>6. QED BY <1>1, <1>2, <1>3, <1>4, <1>5

LEMMA CommandsOK ==
    ASSUME NEW t, NEW stopped, NEW r, RunForm(t, "commands", r), RunCodes(stopped, "commands", r),
           ~r.preserve,
           r.status = "completed" => r.changed = r.files /\ r.patch = r.files
    PROVE  RunOK(t, stopped, "commands", r)
<1>1. RunChange(t, "commands", r)
  BY DEF RunCodes, RunChange, Before, Thinking, Checked, Assessed
<1>2. QED BY <1>1 DEF RunOK, RunVerdict, Assessed

LEMMA CommandsTold ==
    ASSUME NEW t, NEW i, NEW f, NEW g, NEW pc \in {"collect", "patch"}, NEW r, NEW a,
           Told(t, i, f, pc, r, a), NEW s, NEW b,
           b.run = a.run, b.worker = a.worker, b.worked = a.worked,
           b.validation = a.validation, b.evaluation = a.evaluation,
           s.status = "completed" => r.status = "completed",
           Due(g, s) => s.patch = s.changed /\ b.patch = s.changed
    PROVE  Told(t, i, g, "commands", s, b)
<1>1. TurnsTold("commands", s, b)
  BY DEF TurnsTold
<1>2. StagesTold(t, "commands", s, b)
  BY DEF Told, StagesTold, Before, Thinking, Assessed
<1>3. ChangeTold(g, "commands", s, b)
  BY DEF ChangeTold, Before, Thinking, Checked, Assessed
<1>4. QED BY <1>1, <1>2, <1>3 DEF Told

(* Judging an attempt keeps what is known of it.                           *)
LEMMA JudgedOK ==
    ASSUME NEW t, NEW stopped, NEW f, NEW r \in Run, RunForm(t, "commands", r),
           RunCodes(stopped, "commands", r), ~r.preserve,
           r.status = "completed" => r.changed = r.files /\ r.patch = r.files
    PROVE  /\ RunOK(t, stopped, "commands", Judged(r))
           /\ SameWork(r, Judged(r)) /\ (Due(f, Judged(r)) => Due(f, r))
           /\ Judged(r).status = "completed" => r.status = "completed"
<1> DEFINE j == Judged(r)
<1>1. /\ SameWork(r, j)
      /\ \/ j.status = r.status /\ j.code = r.code
         \/ /\ j.status = "policy_violation"
            /\ j.code = IF r.code = "none" THEN "WORKER_POLICY_VIOLATION" ELSE r.code
  BY JudgedFields
<1> HIDE DEF j
<1>2. RunForm(t, "commands", j)
  BY <1>1 DEF RunForm, SameWork, Before, Thinking
<1>3. RunCodes(stopped, "commands", j)
  BY <1>1 DEF RunCodes, Before, Thinking, Checked, Verdicts
<1>4. j.status = "completed" => r.status = "completed"
  BY <1>1
<1>5. ~j.preserve /\ (j.status = "completed" => j.changed = j.files /\ j.patch = j.files)
  BY <1>1, <1>4 DEF SameWork
<1>6. Due(f, j) => Due(f, r)
  BY <1>1, <1>4 DEF Due, Verdicts, FallbackCodes
<1>7. QED BY <1>1, <1>2, <1>3, <1>4, <1>5, <1>6, CommandsOK DEF j

LEMMA CaughtOK ==
    ASSUME NEW t, NEW stopped, NEW pc \in {"collect", "patch"}, NEW r \in Run,
           RunOK(t, stopped, pc, r),
           NEW error, error \in TurnErrors \cup {"AbortError", "TimeoutError", "PATCH_TOO_LARGE"}
    PROVE  LET c == Caught(r, error)
           IN /\ c \in Run /\ SameWork(r, c)
              /\ RunForm(t, "commands", c) /\ RunCodes(stopped, "commands", c) /\ ~c.preserve
              /\ c.status # "completed" /\ c.status # "blocked"
<1> DEFINE c == Caught(r, error)
<1>1. /\ c \in Run /\ SameWork(r, c)
      /\ c.status \in {"cancelled", "timed_out", "policy_violation", "failed"}
      /\ c.code # "none"
      /\ c.code = r.code \/ c.code \notin Verdicts \cup {"WORKER_NO_CHANGES"}
  BY CaughtFields
<1> HIDE DEF c
<1>2. r.code \notin Verdicts \cup {"WORKER_NO_CHANGES"} /\ ~r.preserve /\ r.results = <<>>
  BY DEF RunOK, RunForm, RunCodes, RunChange, Before, Thinking
<1>3. RunForm(t, "commands", c)
  BY <1>1, <1>2 DEF RunOK, RunForm, SameWork, Before, Thinking
<1>4. RunCodes(stopped, "commands", c)
  BY <1>1, <1>2 DEF RunCodes, Before, Thinking, Checked
<1>5. QED BY <1>1, <1>2, <1>3, <1>4 DEF c, SameWork

LEMMA CollectStory == ASSUME Inv, StoryInv, Collect PROVE StoryInv'
<1>1. /\ call.pc = "collect" /\ call.pc \in AttemptPcs \ {"start"}
      /\ {"commands", "patch"} \subseteq AttemptPcs \ {"start", "attempt"}
  BY DEF Collect, AttemptPcs
<1>2. /\ run \in Run /\ run.files \in Nat
      /\ RunOK(call.task, Signal, "collect", run) /\ journal \in Projection
      /\ Told(call.task, call.index, faults, "collect", run, journal.active)
      /\ journal.active.patch = 0 /\ run.changed = 0 /\ run.patch \in {0, run.changed}
      /\ ~run.preserve
  <2>1. RunOK(call.task, Signal, "collect", run)
        /\ Told(call.task, call.index, faults, "collect", run, journal.active)
    BY <1>1, AttemptFacts
  <2>2. journal.active.patch = 0
    BY <2>1 DEF Told, ChangeTold, Before
  <2>3. run.changed = 0 /\ ~run.preserve
    BY <2>1 DEF RunOK, RunChange, Before
  <2>4. QED BY <1>1, <2>1, <2>2, <2>3, AttemptFacts
<1>3. /\ RunForm(call.task, "commands", run) /\ RunCodes(Signal, "commands", run)
  BY <1>2 DEF RunOK, RunForm, RunCodes, Before, Thinking, Checked
<1>4. ASSUME NEW r \in Run, RunForm(call.task, "commands", r), RunCodes(Signal, "commands", r),
             ~r.preserve, r.changed = r.patch, r.changed = 0,
             r.status = "completed" => r.files = 0 /\ run.status = "completed",
             Continue("commands", Judged(r))
      PROVE  StoryInv'
  <2>1. /\ RunOK(call.task, Signal, "commands", Judged(r)) /\ SameWork(r, Judged(r))
        /\ Judged(r).status = "completed" => run.status = "completed"
    BY <1>4, JudgedOK
  <2>2. Judged(r).patch = Judged(r).changed /\ Judged(r).changed = 0
    BY <1>4, <2>1 DEF SameWork
  <2>3. Told(call.task, call.index, faults, "commands", Judged(r), journal.active)
    BY <1>2, <2>1, <2>2, CommandsTold
  <2>4. QED BY <1>1, <1>4, <2>1, <2>3, ContinueStory
<1>5. ASSUME NEW error \in {"HARNESS_ERROR", "PATCH_TOO_LARGE", "AbortError", "TimeoutError"},
             Continue("commands", Judged(Caught(run, error)))
      PROVE  StoryInv'
  <2> DEFINE c == Caught(run, error)
  <2>1. error \in TurnErrors \cup {"AbortError", "TimeoutError", "PATCH_TOO_LARGE"}
    BY DEF TurnErrors
  <2>2. /\ c \in Run /\ SameWork(run, c) /\ c.status # "completed" /\ ~c.preserve
        /\ RunForm(call.task, "commands", c) /\ RunCodes(Signal, "commands", c)
    BY <1>2, <2>1, CaughtOK
  <2>3. c.changed = 0 /\ c.changed = c.patch
    BY <1>2, <2>2 DEF SameWork
  <2>4. Continue("commands", Judged(c))
    BY <1>5
  <2> HIDE DEF c
  <2>5. QED BY <1>4, <2>2, <2>3, <2>4
<1> DEFINE collected == [run EXCEPT !.changed = run.files, !.patch = run.files]
           scoped    == [run EXCEPT !.changed = run.files, !.violations = @ \cup {"scope"}]
<1>6. /\ collected \in Run /\ collected.changed = run.files /\ collected.patch = run.files
      /\ collected.iteration = run.iteration /\ collected.left = run.left
      /\ collected.status = run.status /\ collected.code = run.code
      /\ collected.files = run.files /\ collected.results = run.results
      /\ collected.preserve = run.preserve
  BY <1>2 DEF Run
<1>7. /\ RunForm(call.task, "commands", collected) /\ RunCodes(Signal, "commands", collected)
  BY <1>3, <1>6 DEF RunForm, RunCodes, Before, Thinking, Checked
<1>8. CASE run.files = 0 /\ Continue("commands", Judged(collected))
  <2> HIDE DEF collected
  <2>1. QED BY <1>2, <1>4, <1>6, <1>7, <1>8
<1>9. CASE run.files # 0 /\ Continue("patch", collected)
  <2> HIDE DEF collected
  <2>1. RunForm(call.task, "patch", collected)
    BY <1>7 DEF RunForm, Before, Thinking
  <2>2. RunCodes(Signal, "patch", collected)
    BY <1>7 DEF RunCodes, Before, Thinking, Checked
  <2>3. RunChange(call.task, "patch", collected)
    BY <1>2, <1>6, <1>7, <1>9 DEF RunChange, RunCodes, Before, Thinking, Checked, Assessed
  <2>4. RunOK(call.task, Signal, "patch", collected)
    BY <2>1, <2>2, <2>3 DEF RunOK, RunVerdict, Assessed
  <2>5. TurnsTold("patch", collected, journal.active)
    BY DEF TurnsTold
  <2>6. StagesTold(call.task, "patch", collected, journal.active)
    BY <1>2, <1>6 DEF Told, StagesTold, Before, Thinking, Assessed
  <2>7. ChangeTold(faults, "patch", collected, journal.active)
    BY <1>2 DEF ChangeTold, Before, Thinking, Checked, Assessed
  <2>8. Told(call.task, call.index, faults, "patch", collected, journal.active)
    BY <1>2, <2>5, <2>6, <2>7 DEF Told
  <2>9. QED BY <1>1, <1>9, <2>4, <2>8, ContinueStory
<1>10. CASE run.files # 0 /\ Continue("commands", Judged(scoped))
  <2> DEFINE violations == run.violations \cup {"scope"}
             s == [run EXCEPT !.changed = run.files, !.violations = violations]
  <2>1. scoped = s
    BY <1>2 DEF Run
  <2>2. violations # {} /\ violations \in SUBSET {"scope", "other"}
    BY <1>2 DEF Run
  <2> HIDE DEF violations, scoped
  <2>3. /\ s \in Run /\ s.changed = run.files /\ s.patch = run.patch
        /\ s.iteration = run.iteration /\ s.left = run.left /\ s.violations = violations
        /\ s.status = run.status /\ s.code = run.code
        /\ s.files = run.files /\ s.results = run.results /\ s.preserve = run.preserve
    BY <1>2, <2>2 DEF Run
  <2> HIDE DEF s
  <2> DEFINE j == Judged(s)
  <2>4. /\ SameWork(s, j) /\ j.status \in {"policy_violation", "cancelled", "timed_out"}
        /\ \/ j.status = s.status /\ j.code = s.code
           \/ /\ j.status = "policy_violation"
              /\ j.code = IF s.code = "none" THEN "WORKER_POLICY_VIOLATION" ELSE s.code
    BY <2>2, <2>3, JudgedFields
  <2>5. Continue("commands", j)
    BY <1>10, <2>1
  <2> HIDE DEF j
  <2>6. RunForm(call.task, "commands", j)
    BY <1>3, <2>3, <2>4 DEF SameWork, RunForm, Before, Thinking
  <2>7. RunCodes(Signal, "commands", j)
    BY <1>3, <2>3, <2>4 DEF RunCodes, Before, Thinking, Checked, Verdicts
  <2>8. ~j.preserve /\ j.status # "completed"
    BY <1>2, <2>3, <2>4 DEF SameWork
  <2>9. RunOK(call.task, Signal, "commands", j)
    BY <2>6, <2>7, <2>8, CommandsOK
  <2>10. ~Due(faults, j)
    BY <2>4, <2>7 DEF Due, RunCodes, Before
  <2>11. Told(call.task, call.index, faults, "commands", j, journal.active)
    BY <1>2, <2>8, <2>10, CommandsTold
  <2>12. QED BY <1>1, <2>5, <2>9, <2>11, ContinueStory
<1>11. StopError \in {"AbortError", "TimeoutError"}
  BY DEF StopError
<1> HIDE DEF scoped
<1>12. \/ run.files = 0 /\ Continue("commands", Judged(collected))
       \/ run.files # 0 /\ Continue("patch", collected)
       \/ run.files # 0 /\ Continue("commands", Judged(scoped))
       \/ \E error \in {"HARNESS_ERROR", "PATCH_TOO_LARGE", "AbortError", "TimeoutError"} :
              Continue("commands", Judged(Caught(run, error)))
  <2>1. CASE ~Stopped
    <3>1. CASE Continue(IF run.files = 0 THEN "commands" ELSE "patch",
                        IF run.files = 0 THEN Judged(collected) ELSE collected)
      BY <3>1
    <3>2. QED BY <2>1, <3>1 DEF Collect, scoped
  <2>2. CASE Stopped
    BY <1>11, <2>2 DEF Collect
  <2>3. QED BY <2>1, <2>2
<1>13. QED BY <1>5, <1>8, <1>9, <1>10, <1>12

(* The attempt the journal has open is the delegation's.                   *)
LEMMA OpenAttempt ==
    ASSUME Inv, StoryInv, call.pc \in AttemptPcs
    PROVE  /\ journal.status = "in_progress"
           /\ call.index \in 1..call.task.maxAttempts /\ call.index # 0 /\ call.index <= 8
           /\ call.pc # "start" => \A e : e.run = call.index => Active(journal, e)
<1>1. call.pc \in Routed
  BY DEF Routed
<1>2. call.task \in Tasks /\ call.index \in 1..call.task.maxAttempts
  BY DEF Inv, CallInv, Working
<1>3. call.task.maxAttempts \in 1..8
  BY <1>2, TaskTyped
<1>4. call.index # 0 /\ call.index <= 8
  BY <1>2, <1>3
<1>5. call.pc # "start" => journal.active.run = call.index
  BY DEF StoryInv, AttemptTold, Told
<1>6. QED BY <1>1, <1>2, <1>4, <1>5 DEF StoryInv, TaskTold, Active

LEMMA PatchEventAllowed ==
    ASSUME Inv, StoryInv, call.pc = "patch"
    PROVE  EventAllowed(journal, PatchEvent)
<1>1. call.pc \in AttemptPcs /\ call.pc # "start"
  BY DEF AttemptPcs
<1>2. /\ RunOK(call.task, Signal, "patch", run) /\ run.changed \in Nat
      /\ Told(call.task, call.index, faults, "patch", run, journal.active)
  BY <1>1, AttemptFacts
<1>3. PatchEvent.type = "PatchProduced" /\ PatchEvent.run = call.index
      /\ PatchEvent.files = run.changed
  BY DEF PatchEvent
<1>4. journal.status = "in_progress" /\ Active(journal, PatchEvent)
  BY <1>1, <1>3, OpenAttempt
<1>5. run.files \in Nat /\ run.changed = run.files
  BY <1>1, <1>2, AttemptFacts DEF RunOK, RunChange
<1>6. run.files # 0 /\ run.files <= 10000
  BY <1>2 DEF RunOK, RunForm, RunChange
<1>7. /\ journal.active.worked # "none" /\ journal.active.validation = "none"
      /\ journal.active.patch = 0
  BY <1>2 DEF Told, StagesTold, ChangeTold, Before, Thinking
<1>8. ValidPatch(PatchEvent)
  <2>1. PICK n \in Nat : n = run.files /\ n = run.changed
    BY <1>5
  <2>2. n # 0 /\ n <= 10000
    BY <1>6, <2>1
  <2>3. n \in 1..10000
    BY <2>2
  <2>4. PatchEvent.files = n
    BY <1>3, <2>1
  <2> HIDE DEF PatchEvent
  <2>5. QED BY <2>3, <2>4 DEF ValidPatch
<1>9. PatchAllowed(journal, PatchEvent)
  BY <1>4, <1>7, <1>8 DEF PatchAllowed
<1>10. QED BY <1>3, <1>4, <1>9 DEF EventAllowed

LEMMA PatchStory == ASSUME Inv, StoryInv, Patch PROVE StoryInv'
<1>1. /\ call.pc = "patch" /\ call.pc \in AttemptPcs \ {"start"}
      /\ "commands" \in AttemptPcs \ {"start"}
  BY DEF Patch, AttemptPcs
<1>2. /\ run \in Run /\ run.files \in Nat /\ run.changed = run.files /\ run.patch = run.files
      /\ RunOK(call.task, Signal, "patch", run) /\ journal \in Projection
      /\ Told(call.task, call.index, faults, "patch", run, journal.active) /\ ~run.preserve
  <2>1. RunOK(call.task, Signal, "patch", run)
    BY <1>1, AttemptFacts
  <2>2. run.changed = run.files /\ run.patch = run.files /\ ~run.preserve
    BY <2>1 DEF RunOK, RunChange, Before
  <2>3. QED BY <1>1, <2>1, <2>2, AttemptFacts
<1>3. RunForm(call.task, "commands", run) /\ RunCodes(Signal, "commands", run)
  BY <1>2 DEF RunOK, RunForm, RunCodes, Before, Thinking, Checked
<1> DEFINE e == PatchEvent
           b == ProjectEvent(journal, e).active
<1>4. EventAllowed(journal, e)
  BY <1>1, PatchEventAllowed
<1>5. e.type = "PatchProduced" /\ e.files = run.changed /\ e.type \in OpenEvents
  BY DEF PatchEvent, OpenEvents
<1>6. call' = [call EXCEPT !.pc = "commands"] /\ reports \subseteq reports'
      /\ UNCHANGED <<clock, aborted>>
  BY DEF Patch, environment
<1>7. \/ Appended(e, FALSE) /\ run' = Judged(run)
      \/ NotAppended(e, FALSE) /\ run' = Judged(Caught(run, "HARNESS_ERROR"))
  BY DEF Patch
<1> HIDE DEF e
<1>8. /\ b.patch = run.changed
      /\ b.run = journal.active.run /\ b.worker = journal.active.worker
      /\ b.worked = journal.active.worked /\ b.validation = journal.active.validation
      /\ b.evaluation = journal.active.evaluation
  BY <1>2, <1>5, PatchTells
<1>9. TaskKept(journal, ProjectEvent(journal, e)) /\ TaskKept(journal, journal)
  BY <1>2, <1>5, OpenEventsKeepTask DEF TaskKept
<1> HIDE DEF b
<1>10. CASE Appended(e, FALSE) /\ run' = Judged(run)
  <2>1. journal' = ProjectEvent(journal, e) /\ faults' = faults
    BY <1>10 DEF Appended
  <2>2. /\ RunOK(call.task, Signal, "commands", run') /\ SameWork(run, run')
        /\ run'.status = "completed" => run.status = "completed"
    BY <1>2, <1>3, <1>10, JudgedOK
  <2>3. run'.patch = run'.changed /\ b.patch = run'.changed
    BY <1>2, <1>8, <2>2 DEF SameWork
  <2>4. Told(call.task, call.index, faults', "commands", run', b)
    BY <1>2, <1>8, <2>2, <2>3, CommandsTold
  <2>5. journal'.active = b
    BY <2>1 DEF b
  <2>6. QED BY <1>1, <1>6, <1>9, <2>1, <2>2, <2>4, <2>5, MoveStory
<1>11. CASE NotAppended(e, FALSE) /\ run' = Judged(Caught(run, "HARNESS_ERROR"))
  <2> DEFINE c == Caught(run, "HARNESS_ERROR")
  <2>1. /\ journal' \in {journal, ProjectEvent(journal, e)}
        /\ faults > 0 /\ faults' = faults - 1
    BY <1>4, <1>11 DEF NotAppended
  <2>2. /\ c \in Run /\ SameWork(run, c) /\ ~c.preserve /\ c.status # "completed"
        /\ RunForm(call.task, "commands", c) /\ RunCodes(Signal, "commands", c)
    BY <1>2, CaughtOK DEF TurnErrors
  <2>3. run' = Judged(c)
    BY <1>11
  <2> HIDE DEF c
  <2>4. /\ RunOK(call.task, Signal, "commands", run')
        /\ Due(faults', run') => Due(faults', c)
        /\ run'.status # "completed"
    BY <2>2, <2>3, JudgedOK
  <2>5. faults' # MaxFaults
    BY <2>1, BoundsAssumption DEF Inv, TypeOK
  <2>6. ~Due(faults', c)
    BY <2>2, <2>5 DEF Due, RunCodes, Before
  <2>7. /\ journal'.active.run = journal.active.run
        /\ journal'.active.worker = journal.active.worker
        /\ journal'.active.worked = journal.active.worked
        /\ journal'.active.validation = journal.active.validation
        /\ journal'.active.evaluation = journal.active.evaluation
    BY <1>8, <2>1 DEF b
  <2>8. Told(call.task, call.index, faults', "commands", run', journal'.active)
    BY <1>2, <2>4, <2>6, <2>7, CommandsTold
  <2>9. TaskKept(journal, journal')
    BY <1>9, <2>1
  <2>10. QED BY <1>1, <1>6, <2>1, <2>4, <2>8, <2>9, MoveStory
<1>12. QED BY <1>7, <1>10, <1>11

-----------------------------------------------------------------------------
(***************************************************************************)
(* The validation.  What the story says of an attempt depends on its       *)
(* status and code, its changes and its results only.                      *)
(***************************************************************************)
SameButResults(r, s) ==
    /\ s.iteration = r.iteration /\ s.left = r.left /\ s.files = r.files
    /\ s.changed = r.changed /\ s.patch = r.patch /\ s.preserve = r.preserve

LEMMA ValidatedOK ==
    ASSUME NEW t, NEW stopped, NEW pc \in {"commands", "integrity"}, NEW r,
           NEW next \in {"integrity", "validation"}, NEW s,
           RunOK(t, stopped, pc, r), SameButResults(r, s),
           Len(s.results) <= Len(t.commands),
           RunCodes(stopped, next, s), s.code # "WORKER_NO_CHANGES",
           s.status = "completed" => r.status = "completed" /\ Len(s.results) = Len(t.commands),
           s.preserve => s.status # "completed"
    PROVE  RunOK(t, stopped, next, s)
<1>1. RunForm(t, next, s)
  BY DEF RunOK, RunForm, SameButResults, Before, Thinking
<1>2. RunChange(t, next, s)
  BY DEF RunOK, RunChange, SameButResults, Before, Thinking, Checked, Assessed
<1>3. QED BY <1>1, <1>2 DEF RunOK, RunVerdict, Assessed

LEMMA ValidatedTold ==
    ASSUME NEW t, NEW i, NEW f, NEW pc \in {"commands", "integrity"}, NEW r, NEW a,
           NEW next \in {"integrity", "validation"}, NEW s, Told(t, i, f, pc, r, a),
           s.status = "completed" => r.status = "completed",
           Due(f, s) => Due(f, r) /\ s.patch = r.patch /\ s.changed = r.changed
    PROVE  Told(t, i, f, next, s, a)
<1>1. TurnsTold(next, s, a)
  BY DEF TurnsTold
<1>2. StagesTold(t, next, s, a)
  BY DEF Told, StagesTold, Before, Thinking, Assessed
<1>3. ChangeTold(f, next, s, a)
  BY DEF Told, ChangeTold, Before, Thinking, Checked, Assessed
<1>4. QED BY <1>1, <1>2, <1>3 DEF Told

LEMMA NoticedFields ==
    ASSUME NEW attempt \in Run
    PROVE  LET n == Noticed(attempt)
           IN /\ SameWork(attempt, n) /\ n.code = attempt.code
              /\ n.status = attempt.status \/ (Signal /\ n.status \in {"cancelled", "timed_out"})
<1> DEFINE status == IF aborted THEN "cancelled" ELSE IF clock = "fired" THEN "timed_out"
                     ELSE attempt.status
           n == [attempt EXCEPT !.status = status]
<1>1. Noticed(attempt) = n
  BY DEF Noticed, Run
<1>2. status = attempt.status \/ (Signal /\ status \in {"cancelled", "timed_out"})
  BY DEF Signal
<1> HIDE DEF status
<1>3. SameWork(attempt, n) /\ n.code = attempt.code /\ n.status = status
  BY DEF Run, SameWork
<1>4. QED BY <1>1, <1>2, <1>3

LEMMA CommandsFailedFields ==
    ASSUME run \in Run, NEW results, NEW error
    PROVE  LET s == CommandsFailed(results, error)
           IN /\ SameButResults(run, s) /\ s.results = results
              /\ s.code = getFailureCode(error) /\ s.status = classifyRunError(error)
<1> DEFINE code   == getFailureCode(error)
           status == classifyRunError(error)
           s == [run EXCEPT !.results = results, !.code = code, !.status = status, !.warned = TRUE]
<1>1. CommandsFailed(results, error) = s
  BY DEF CommandsFailed
<1> HIDE DEF code, status
<1>2. SameButResults(run, s) /\ s.results = results /\ s.code = code /\ s.status = status
  BY DEF Run, SameButResults
<1>3. QED BY <1>1, <1>2 DEF code, status

LEMMA SettledFields ==
    ASSUME NEW attempt \in Run
    PROVE  LET s == Settled(attempt)
           IN /\ SameWork(attempt, s)
              /\ \/ s.status = attempt.status /\ s.code = attempt.code
                 \/ /\ attempt.status = "completed"
                    /\ s.status = "failed" /\ s.code = "VALIDATION_COMMAND_FAILED"
<1> DEFINE settled == [attempt EXCEPT !.status = "failed", !.code = "VALIDATION_COMMAND_FAILED"]
<1>1. Settled(attempt) = attempt \/ (attempt.status = "completed" /\ Settled(attempt) = settled)
  BY DEF Settled
<1>2. /\ SameWork(attempt, settled)
      /\ settled.status = "failed" /\ settled.code = "VALIDATION_COMMAND_FAILED"
  BY DEF Run, SameWork
<1>3. SameWork(attempt, attempt)
  BY DEF SameWork
<1> HIDE DEF settled
<1>4. QED BY <1>1, <1>2, <1>3

(* Commands of which one could not be run to its end.                      *)
LEMMA CutShort ==
    ASSUME Inv, StoryInv, call.pc = "commands", run.status = "completed",
           NEW n \in 0..(Len(call.task.commands) - 1), NEW results \in [1..n -> CommandResult],
           NEW error \in {"HARNESS_ERROR", "AbortError", "DOCKER_CONTAINER_CLEANUP_FAILED"},
           NEW next \in {"integrity", "validation"}
    PROVE  LET s == CommandsFailed(results, error)
           IN /\ RunOK(call.task, Signal, next, s) /\ ~Due(faults, s)
              /\ s.status \notin {"completed", "blocked"} /\ s \in Run
<1>1. /\ run \in Run /\ call.task \in Tasks
      /\ RunOK(call.task, Signal, "commands", run)
  BY AttemptFacts DEF AttemptPcs
<1>2. Len(call.task.commands) \in Nat
  BY <1>1, TaskTyped
<1>3. n \in Nat /\ n <= Len(call.task.commands)
  BY <1>2
<1>4. results \in Seq(CommandResult) /\ Len(results) = n
  BY <1>3
<1> DEFINE s == CommandsFailed(results, error)
<1>5. /\ SameButResults(run, s) /\ s.results = results
      /\ s.status \in {"cancelled", "timed_out", "policy_violation", "failed"}
      /\ s.code # "none"
      /\ s.code \notin Verdicts \cup {"WORKER_NO_CHANGES"} \cup FallbackCodes
  BY <1>1, CommandsFailedFields, ErrorsClassified, ErrorsCoded DEF TurnErrors, FallbackCodes
<1>6. s \in Run
  BY <1>1, <1>4, CommandsFailedTyped, AttemptFacts DEF AttemptPcs, Typed, Errors, FailureCodes
<1> HIDE DEF s
<1>7. RunCodes(Signal, next, s)
  BY <1>5 DEF RunCodes, Before, Thinking, Checked
<1>8. Len(s.results) <= Len(call.task.commands)
  BY <1>3, <1>4, <1>5
<1>9. RunOK(call.task, Signal, next, s)
  <2>1. s.code # "WORKER_NO_CHANGES" /\ s.status # "completed" /\ SameButResults(run, s)
    BY <1>5
  <2>2. QED BY <1>1, <1>7, <1>8, <2>1, ValidatedOK
<1>10. ~Due(faults, s)
  BY <1>5 DEF Due
<1>11. QED BY <1>5, <1>6, <1>9, <1>10 DEF s

LEMMA CommandsStory == ASSUME Inv, StoryInv, Commands PROVE StoryInv'
<1>1. /\ call.pc = "commands" /\ call.pc \in AttemptPcs \ {"start"}
      /\ {"integrity", "validation"} \subseteq AttemptPcs \ {"start", "attempt"}
  BY DEF Commands, AttemptPcs
<1>2. /\ run \in Run /\ call.task \in Tasks
      /\ RunOK(call.task, Signal, "commands", run)
      /\ Told(call.task, call.index, faults, "commands", run, journal.active)
  BY <1>1, AttemptFacts
<1>3. /\ RunCodes(Signal, "commands", run) /\ run.results = <<>> /\ ~run.preserve
      /\ run.code # "WORKER_NO_CHANGES"
  BY <1>2 DEF RunOK, RunForm, RunCodes, RunChange, Before
<1>4. Len(call.task.commands) \in Nat /\ Len(run.results) = 0
  BY <1>2, <1>3, TaskTyped
<1>5. CASE run.status # "completed" /\ Continue("validation", run)
  <2>1. RunCodes(Signal, "validation", run)
    BY <1>3 DEF RunCodes, Before, Thinking, Checked
  <2>2. RunOK(call.task, Signal, "validation", run)
    BY <1>2, <1>3, <1>4, <1>5, <2>1, ValidatedOK DEF SameButResults
  <2>3. Told(call.task, call.index, faults, "validation", run, journal.active)
    BY <1>2, ValidatedTold
  <2>4. QED BY <1>1, <1>5, <2>2, <2>3, ContinueStory
<1>6. ASSUME run.status = "completed", NEW next \in {"integrity", "validation"},
             NEW results \in Seq(CommandResult), Len(results) = Len(call.task.commands),
             Continue(next, Noticed([run EXCEPT !.results = results]))
      PROVE  StoryInv'
  <2> DEFINE q == [run EXCEPT !.results = results]
             s == Noticed(q)
  <2>1. q \in Run /\ SameButResults(run, q) /\ q.results = results /\ q.status = run.status
        /\ q.code = run.code
    BY <1>2, <1>6 DEF Run, SameButResults
  <2>2. /\ SameWork(q, s) /\ s.code = q.code
        /\ s.status = q.status \/ (Signal /\ s.status \in {"cancelled", "timed_out"})
    BY <2>1, NoticedFields
  <2>3. Continue(next, s)
    BY <1>6
  <2> HIDE DEF q, s
  <2>4. SameButResults(run, s) /\ s.results = results /\ run.code = "none" /\ s.code = "none"
    BY <1>2, <1>6, <2>1, <2>2 DEF SameButResults, SameWork, RunOK, RunCodes
  <2>5. RunCodes(Signal, next, s)
    BY <1>6, <2>1, <2>2, <2>4 DEF RunCodes, Before, Thinking, Checked, Verdicts, FallbackCodes
  <2>6. Len(s.results) <= Len(call.task.commands) /\ Len(s.results) = Len(call.task.commands)
    BY <1>4, <1>6, <2>4
  <2>7. RunOK(call.task, Signal, next, s)
    BY <1>2, <1>3, <1>6, <2>4, <2>5, <2>6, ValidatedOK DEF SameButResults
  <2>8. Due(faults, run)
    BY <1>6 DEF Due
  <2>9. Told(call.task, call.index, faults, next, s, journal.active)
    BY <1>2, <1>6, <2>4, <2>8, ValidatedTold DEF SameButResults
  <2>10. QED BY <1>1, <2>3, <2>7, <2>9, ContinueStory
<1>7. CASE /\ run.status = "completed" /\ call.task.commands = <<>>
           /\ Continue("validation", Noticed(run))
  <2>1. run = [run EXCEPT !.results = <<>>] /\ <<>> \in Seq(CommandResult)
    BY <1>2, <1>3 DEF Run
  <2>2. QED BY <1>6, <1>7, <2>1
<1>8. ASSUME run.status = "completed", NEW results \in [1..Len(call.task.commands) -> CommandResult],
             Continue("integrity", Noticed([run EXCEPT !.results = results]))
      PROVE  StoryInv'
  <2>1. results \in Seq(CommandResult) /\ Len(results) = Len(call.task.commands)
    BY <1>4
  <2>2. QED BY <1>6, <1>8, <2>1
<1>9. ASSUME run.status = "completed", NEW n \in 0..(Len(call.task.commands) - 1),
             NEW results \in [1..n -> CommandResult],
             NEW error \in {"HARNESS_ERROR"} \cup (IF Signal THEN {"AbortError"} ELSE {}),
             Continue("integrity", CommandsFailed(results, error))
      PROVE  StoryInv'
  <2> DEFINE s == CommandsFailed(results, error)
  <2>1. error \in {"HARNESS_ERROR", "AbortError", "DOCKER_CONTAINER_CLEANUP_FAILED"}
    OBVIOUS
  <2>2. RunOK(call.task, Signal, "integrity", s) /\ ~Due(faults, s) /\ s.status # "completed"
    BY <1>1, <1>9, <2>1, CutShort
  <2>3. Continue("integrity", s)
    BY <1>9
  <2> HIDE DEF s
  <2>4. Told(call.task, call.index, faults, "integrity", s, journal.active)
    BY <1>2, <2>2, ValidatedTold
  <2>5. QED BY <1>1, <2>2, <2>3, <2>4, ContinueStory
<1>10. QED BY <1>5, <1>7, <1>8, <1>9 DEF Commands

LEMMA ContainerLeftStory == ASSUME Inv, StoryInv, ContainerLeft PROVE StoryInv'
<1>1. /\ call.pc = "commands" /\ call.pc \in AttemptPcs \ {"start"}
      /\ "validation" \in AttemptPcs \ {"start"} /\ run.status = "completed"
  BY DEF ContainerLeft, AttemptPcs
<1>2. /\ run \in Run /\ call.task \in Tasks /\ journal \in Projection
      /\ RunOK(call.task, Signal, "commands", run)
      /\ Told(call.task, call.index, faults, "commands", run, journal.active)
  BY <1>1, AttemptFacts
<1>3. PICK n \in 0..(Len(call.task.commands) - 1) : \E results \in [1..n -> CommandResult] :
          run' = [CommandsFailed(results, "DOCKER_CONTAINER_CLEANUP_FAILED") EXCEPT
                    !.preserve = TRUE, !.patch = 0]
  BY DEF ContainerLeft
<1>4. PICK results \in [1..n -> CommandResult] :
          run' = [CommandsFailed(results, "DOCKER_CONTAINER_CLEANUP_FAILED") EXCEPT
                    !.preserve = TRUE, !.patch = 0]
  BY <1>3
<1> DEFINE s == CommandsFailed(results, "DOCKER_CONTAINER_CLEANUP_FAILED")
<1>5. /\ RunOK(call.task, Signal, "validation", s) /\ ~Due(faults, s)
      /\ s.status \notin {"completed", "blocked"} /\ s \in Run
  BY <1>1, CutShort
<1>6. run' = [s EXCEPT !.preserve = TRUE, !.patch = 0]
  BY <1>4
<1> HIDE DEF s
<1>7. /\ run'.iteration = s.iteration /\ run'.left = s.left /\ run'.files = s.files
      /\ run'.changed = s.changed /\ run'.patch = 0 /\ run'.results = s.results
      /\ run'.status = s.status /\ run'.code = s.code /\ run'.preserve
  BY <1>5, <1>6 DEF Run
<1>8. RunForm(call.task, "validation", run')
  BY <1>5, <1>7 DEF RunOK, RunForm
<1>9. RunCodes(Signal, "validation", run')
  BY <1>5, <1>7 DEF RunOK, RunCodes
<1>10. RunChange(call.task, "validation", run')
  BY <1>5, <1>7 DEF RunOK, RunChange, Before, Thinking, Checked, Assessed
<1>11. RunOK(call.task, Signal, "validation", run')
  BY <1>8, <1>9, <1>10 DEF RunOK, RunVerdict, Assessed
<1>12. ~Due(faults, run') /\ run'.status # "completed"
  BY <1>5, <1>7 DEF Due
<1>13. Told(call.task, call.index, faults, "validation", run', journal.active)
  BY <1>2, <1>12, ValidatedTold
<1>14. /\ call' = [call EXCEPT !.pc = "validation"] /\ TaskKept(journal, journal')
       /\ journal' = journal /\ reports \subseteq reports' /\ faults' = faults
       /\ UNCHANGED <<clock, aborted>>
  BY DEF ContainerLeft, TaskKept
<1>15. QED BY <1>1, <1>11, <1>13, <1>14, MoveStory

LEMMA IntegrityStory == ASSUME Inv, StoryInv, Integrity PROVE StoryInv'
<1>1. /\ call.pc = "integrity" /\ call.pc \in AttemptPcs \ {"start"}
      /\ "validation" \in AttemptPcs \ {"start", "attempt"}
  BY DEF Integrity, AttemptPcs
<1>2. /\ run \in Run /\ call.task \in Tasks
      /\ RunOK(call.task, Signal, "integrity", run)
      /\ Told(call.task, call.index, faults, "integrity", run, journal.active)
  BY <1>1, AttemptFacts
<1>3. /\ RunCodes(Signal, "integrity", run) /\ Len(run.results) <= Len(call.task.commands)
      /\ run.status = "completed" => Len(run.results) = Len(call.task.commands)
      /\ run.preserve => run.status # "completed"
      /\ run.code \notin Verdicts \cup {"WORKER_NO_CHANGES"} \cup FallbackCodes
  BY <1>2 DEF RunOK, RunForm, RunCodes, RunChange, Before, Checked
<1>4. CASE Continue("validation", Settled(run))
  <2> DEFINE s == Settled(run)
  <2>1. /\ SameWork(run, s)
        /\ \/ s.status = run.status /\ s.code = run.code
           \/ /\ run.status = "completed"
              /\ s.status = "failed" /\ s.code = "VALIDATION_COMMAND_FAILED"
    BY <1>2, SettledFields
  <2>2. Continue("validation", s)
    BY <1>4
  <2> HIDE DEF s
  <2>3. RunCodes(Signal, "validation", s)
    BY <1>3, <2>1 DEF RunCodes, Before, Thinking, Checked, Verdicts
  <2>4. /\ SameButResults(run, s) /\ s.results = run.results
        /\ s.code # "WORKER_NO_CHANGES" /\ (s.status = "completed" => run.status = "completed")
    BY <1>3, <2>1 DEF SameWork, SameButResults
  <2>5. RunOK(call.task, Signal, "validation", s)
    BY <1>2, <1>3, <2>3, <2>4, ValidatedOK DEF SameButResults
  <2>6. Due(faults, s) => Due(faults, run)
    BY <2>1 DEF Due, Verdicts, FallbackCodes
  <2>7. Told(call.task, call.index, faults, "validation", s, journal.active)
    BY <1>2, <2>4, <2>6, ValidatedTold DEF SameButResults
  <2>8. QED BY <1>1, <2>2, <2>5, <2>7, ContinueStory
<1>5. ASSUME NEW error \in {"HARNESS_ERROR", "PATCH_TOO_LARGE", "AbortError", "TimeoutError"},
             Continue("validation", Settled(Caught(run, error)))
      PROVE  StoryInv'
  <2> DEFINE c == Caught(run, error)
             s == Settled(c)
  <2>1. error \in TurnErrors \cup {"AbortError", "TimeoutError", "PATCH_TOO_LARGE"}
        /\ error \notin FallbackCodes
    BY DEF TurnErrors, FallbackCodes
  <2>2. /\ c \in Run /\ SameWork(run, c)
        /\ c.status \in {"cancelled", "timed_out", "policy_violation", "failed"}
        /\ c.code # "none"
        /\ c.code \notin Verdicts \cup {"WORKER_NO_CHANGES"} \cup FallbackCodes
    BY <1>2, <1>3, <2>1, CaughtFields
  <2>3. Continue("validation", s)
    BY <1>5
  <2>4. SameWork(c, s) /\ s.status = c.status /\ s.code = c.code
    BY <2>2, SettledFields
  <2> HIDE DEF c, s
  <2>5. RunCodes(Signal, "validation", s)
    BY <2>2, <2>4 DEF RunCodes, Before, Thinking, Checked
  <2>6. SameButResults(run, s) /\ s.results = run.results /\ s.status # "completed"
    BY <2>2, <2>4 DEF SameWork, SameButResults
  <2>7. RunOK(call.task, Signal, "validation", s)
    BY <1>2, <1>3, <2>2, <2>4, <2>5, <2>6, ValidatedOK
  <2>8. ~Due(faults, s)
    BY <2>2, <2>4, <2>6 DEF Due
  <2>9. Told(call.task, call.index, faults, "validation", s, journal.active)
    BY <1>2, <2>6, <2>8, ValidatedTold
  <2>10. QED BY <1>1, <2>3, <2>7, <2>9, ContinueStory
<1>6. StopError \in {"AbortError", "TimeoutError"}
  BY DEF StopError
<1>7. QED BY <1>4, <1>5, <1>6 DEF Integrity

LEMMA BlockedFields ==
    ASSUME NEW attempt \in Run
    PROVE  LET b == Blocked(attempt)
           IN /\ SameWork(attempt, b)
              /\ \/ b.status = attempt.status /\ b.code = attempt.code
                 \/ /\ attempt.status = "completed" /\ attempt.changed = 0
                    /\ b.status = "blocked" /\ b.code = "WORKER_NO_CHANGES"
              /\ b.status = "completed" /\ call.task.mode = "implementation" => b.changed # 0
<1> DEFINE empty   == /\ call.task.mode = "implementation"
                      /\ attempt.changed = 0 /\ attempt.status = "completed"
           blocked == [attempt EXCEPT !.status = "blocked", !.code = "WORKER_NO_CHANGES",
                                      !.warned = TRUE]
<1>1. Blocked(attempt) = IF empty THEN blocked ELSE attempt
  BY DEF Blocked
<1>2. /\ SameWork(attempt, blocked)
      /\ blocked.status = "blocked" /\ blocked.code = "WORKER_NO_CHANGES"
  BY DEF Run, SameWork
<1>3. SameWork(attempt, attempt)
  BY DEF SameWork
<1> HIDE DEF blocked
<1>4. CASE empty
  BY <1>1, <1>2, <1>4
<1>5. CASE ~empty
  BY <1>1, <1>3, <1>5
<1>6. QED BY <1>4, <1>5

LEMMA ValidationStory == ASSUME Inv, StoryInv, Validation PROVE StoryInv'
<1>1. /\ call.pc = "validation" /\ call.pc \in AttemptPcs \ {"start"}
      /\ "evaluate" \in AttemptPcs \ {"start", "attempt"}
  BY DEF Validation, AttemptPcs
<1>2. /\ run \in Run /\ call.task \in Tasks /\ journal \in Projection
      /\ RunOK(call.task, Signal, "validation", run)
      /\ Told(call.task, call.index, faults, "validation", run, journal.active)
  BY <1>1, AttemptFacts
<1> DEFINE e == ValidationEvent
           a == ProjectEvent(journal, e).active
           r == Blocked(run)
<1>3. Record(e, FALSE, "evaluate", r)
  BY DEF Validation
<1>4. /\ SameWork(run, r)
      /\ \/ r.status = run.status /\ r.code = run.code
         \/ /\ run.status = "completed" /\ run.changed = 0
            /\ r.status = "blocked" /\ r.code = "WORKER_NO_CHANGES"
      /\ r.status = "completed" /\ call.task.mode = "implementation" => r.changed # 0
  BY <1>2, BlockedFields
<1>5. /\ e.type = "ValidationCompleted" /\ e.type \in OpenEvents
      /\ e.outcome \in ValidationOutcomes
      /\ run.status = "completed" => e.outcome \in {"passed", "skipped"}
  BY DEF ValidationEvent, OpenEvents, ValidationOutcomes
<1> HIDE DEF e, r
<1>6. /\ a.validation = e.outcome /\ a.run = journal.active.run
      /\ a.worker = journal.active.worker /\ a.worked = journal.active.worked
      /\ a.patch = journal.active.patch /\ a.evaluation = journal.active.evaluation
  BY <1>2, <1>5, ValidationTells
<1> HIDE DEF a
<1>7. RunForm(call.task, "evaluate", r)
  BY <1>2, <1>4 DEF RunOK, RunForm, SameWork, Before, Thinking
<1>8. RunCodes(Signal, "evaluate", r)
  BY <1>2, <1>4 DEF RunOK, RunCodes, Before, Thinking, Checked, Verdicts
<1>9. RunChange(call.task, "evaluate", r)
  BY <1>2, <1>4 DEF RunOK, RunChange, SameWork, Before, Thinking, Checked, Assessed
<1>10. RunOK(call.task, Signal, "evaluate", r)
  BY <1>7, <1>8, <1>9 DEF RunOK, RunVerdict, Assessed
<1>11. TurnsTold("evaluate", r, a)
  BY DEF TurnsTold
<1>12. StagesTold(call.task, "evaluate", r, a)
  BY <1>2, <1>4, <1>5, <1>6 DEF Told, StagesTold, Before, Thinking, Assessed, ValidationOutcomes
<1>13. Due(faults, r) => Due(faults, run)
  BY <1>4 DEF Due
<1>14. ChangeTold(faults, "evaluate", r, a)
  BY <1>2, <1>4, <1>6, <1>13 DEF Told, ChangeTold, SameWork, Before, Thinking, Checked, Assessed
<1>15. Told(call.task, call.index, faults, "evaluate", r, a)
  BY <1>2, <1>6, <1>11, <1>12, <1>14 DEF Told
<1>16. QED BY <1>1, <1>3, <1>5, <1>10, <1>15, RecordStory DEF a

-----------------------------------------------------------------------------
(***************************************************************************)
(* The evaluation.                                                         *)
(***************************************************************************)
(* The outcome of a summary and the dimensions it collects agree.          *)
LEMMA OutcomeCollected ==
    ASSUME NEW results
    PROVE  /\ Outcome(results) \in EvaluationOutcomes
           /\ Outcome(results) = "failed" <=> CollectDimensions(results, "failed") # {}
           /\ Outcome(results) = "inconclusive" => CollectDimensions(results, "unknown") # {}
           /\ Outcome(results) = "passed" => CollectDimensions(results, "unknown") = {}
<1> DEFINE Some(status) == \E i \in 1..Len(results) : Having(results[i], status) # {}
           outcomes == {ResultOutcome(results[i]) : i \in 1..Len(results)}
<1>1. ASSUME NEW status
      PROVE  CollectDimensions(results, status) # {} <=> Some(status)
  BY DEF CollectDimensions, Elements
<1>2. "failed" \in outcomes <=> Some("failed")
  BY DEF ResultOutcome
<1>3. /\ "inconclusive" \in outcomes => Some("unknown")
      /\ Some("unknown") => "inconclusive" \in outcomes \/ "failed" \in outcomes
  BY DEF ResultOutcome
<1>4. Outcome(results) = IF "failed" \in outcomes THEN "failed"
                         ELSE IF "inconclusive" \in outcomes THEN "inconclusive" ELSE "passed"
  BY DEF Outcome
<1> HIDE DEF outcomes, Some
<1>5. QED BY <1>1, <1>2, <1>3, <1>4 DEF EvaluationOutcomes

(* The deterministic result comes first, and its dimensions count.         *)
LEMMA HeadCollected ==
    ASSUME NEW first, NEW others, others \in Seq(Elements(others))
    PROVE  LET results == <<first>> \o others
           IN /\ results[1] = first
              /\ \A d \in DOMAIN first : d \in CollectDimensions(results, first[d])
<1> DEFINE S == Elements(others) \cup {first}
           results == <<first>> \o others
<1>1. <<first>> \in Seq(S) /\ others \in Seq(S)
  OBVIOUS
<1>2. results[1] = first /\ 1 \in 1..Len(results)
  <2>1. Len(<<first>>) = 1 /\ <<first>>[1] = first
    OBVIOUS
  <2> HIDE DEF S
  <2>2. QED BY <1>1, <2>1
<1> HIDE DEF results
<1>3. first \in Elements(results)
  BY <1>2 DEF Elements
<1>4. \A d \in DOMAIN first : d \in Having(first, first[d])
  BY DEF Having
<1>5. QED BY <1>2, <1>3, <1>4 DEF CollectDimensions, results

LEMMA DeterministicFields ==
    ASSUME NEW attempt
    PROVE  LET first == DeterministicResult(Input(attempt))
           IN /\ {"worker_execution", "patch_size"} \subseteq DOMAIN first
              /\ attempt.status # "completed" => first["worker_execution"] = "failed"
<1>1. "worker_execution" \notin CommandDimensions
      /\ {"worker_execution", "patch_size"} \subseteq DeterministicDimensions
  BY DEF CommandDimensions, DeterministicDimensions
<1>2. Input(attempt).status = attempt.status
  BY DEF Input
<1>3. QED BY <1>1, <1>2 DEF DeterministicResult

(* What the evaluation makes of an attempt.                                *)
LEMMA EvaluatedFields ==
    ASSUME NEW attempt \in Run, NEW results
    PROVE  LET s == Evaluated(attempt, results)
               code == GatedCode(results, call.task.policy)
           IN /\ s.iteration = attempt.iteration /\ s.left = attempt.left
              /\ s.files = attempt.files /\ s.changed = attempt.changed
              /\ s.results = attempt.results /\ s.preserve = attempt.preserve
              /\ IF attempt.status = "completed" /\ code # "none"
                 THEN s.status = "failed" /\ s.code = code
                 ELSE s.status = attempt.status /\ s.code = attempt.code
              /\ s.patch = IF results[1]["patch_size"] = "failed" THEN 0 ELSE attempt.patch
              /\ s.evaluation = Outcome(results)
              /\ s.failed = CollectDimensions(results, "failed")
              /\ s.unknown = CollectDimensions(results, "unknown")
<1> DEFINE code       == GatedCode(results, call.task.policy)
           rejected   == attempt.status = "completed" /\ code # "none"
           tooLarge   == results[1]["patch_size"] = "failed"
           status     == IF rejected THEN "failed" ELSE attempt.status
           final      == IF rejected THEN code ELSE attempt.code
           patch      == IF tooLarge THEN 0 ELSE attempt.patch
           warned     == attempt.warned \/ tooLarge
           evaluation == Outcome(results)
           failed     == CollectDimensions(results, "failed")
           unknown    == CollectDimensions(results, "unknown")
           s == [attempt EXCEPT !.status = status, !.code = final, !.patch = patch,
                                !.warned = warned, !.evaluation = evaluation,
                                !.failed = failed, !.unknown = unknown]
<1>1. Evaluated(attempt, results) = s
  BY DEF Evaluated, Run
<1> HIDE DEF status, final, patch, warned, evaluation, failed, unknown
<1>2. /\ s.iteration = attempt.iteration /\ s.left = attempt.left
      /\ s.files = attempt.files /\ s.changed = attempt.changed
      /\ s.results = attempt.results /\ s.preserve = attempt.preserve
      /\ s.status = status /\ s.code = final /\ s.patch = patch
      /\ s.evaluation = evaluation /\ s.failed = failed /\ s.unknown = unknown
  BY DEF Run
<1> HIDE DEF s, code
<1>3. QED BY <1>1, <1>2 DEF status, final, patch, evaluation, failed, unknown, code

(* An attempt that no signal stopped unseen, with its evaluation.          *)
LEMMA EvaluatedOK ==
    ASSUME NEW r \in Run, r.patch \in {0, r.changed}, NEW others,
           others \in Seq(Elements(others)), NEW t, t = call.task,
           NEW stopped, RunForm(t, "evaluate", r), RunCodes(FALSE, "evaluate", r),
           RunChange(t, "evaluate", r)
    PROVE  LET s == Evaluated(r, <<DeterministicResult(Input(r))>> \o others)
           IN /\ RunOK(t, stopped, "evaluation", s)
              /\ s.status = "completed" => r.status = "completed"
              /\ \A f, a : Due(f, s) /\ (Due(f, r) => r.patch = r.changed /\ a.patch = r.changed)
                               => PatchTold(s, a)
<1> DEFINE first   == DeterministicResult(Input(r))
           results == <<first>> \o others
           s       == Evaluated(r, results)
           code    == GatedCode(results, t.policy)
<1>1. /\ {"worker_execution", "patch_size"} \subseteq DOMAIN first
      /\ r.status # "completed" => first["worker_execution"] = "failed"
  BY DeterministicFields
<1> HIDE DEF first
<1>2. /\ results[1] = first
      /\ \A d \in DOMAIN first : d \in CollectDimensions(results, first[d])
  BY HeadCollected
<1> HIDE DEF results
<1>3. /\ s.iteration = r.iteration /\ s.left = r.left
      /\ s.files = r.files /\ s.changed = r.changed
      /\ s.results = r.results /\ s.preserve = r.preserve
      /\ IF r.status = "completed" /\ code # "none"
         THEN s.status = "failed" /\ s.code = code
         ELSE s.status = r.status /\ s.code = r.code
      /\ s.patch = IF results[1]["patch_size"] = "failed" THEN 0 ELSE r.patch
      /\ s.evaluation = Outcome(results)
      /\ s.failed = CollectDimensions(results, "failed")
      /\ s.unknown = CollectDimensions(results, "unknown")
  BY EvaluatedFields
<1>4. /\ Outcome(results) \in EvaluationOutcomes
      /\ s.evaluation = "failed" <=> s.failed # {}
      /\ s.evaluation = "inconclusive" => s.unknown # {}
      /\ s.evaluation = "passed" => s.unknown = {}
  BY <1>3, OutcomeCollected
<1>5. code = IF s.evaluation = "failed" THEN "EVALUATION_FAILED"
             ELSE IF t.policy = "strict" /\ s.evaluation = "inconclusive"
             THEN "EVALUATION_INCONCLUSIVE" ELSE "none"
  BY <1>3 DEF GatedCode
<1> HIDE DEF code
<1>6. r.status # "completed" => s.evaluation = "failed"
  BY <1>1, <1>2, <1>3, <1>4
<1>7. s.patch # r.patch => "patch_size" \in s.failed /\ s.evaluation = "failed" /\ s.patch = 0
  BY <1>1, <1>2, <1>3, <1>4
<1>8. s.evaluation \in EvaluationOutcomes
  BY <1>3, <1>4
<1> HIDE DEF s
<1>9. /\ s.status = "completed" => r.status = "completed" /\ code = "none" /\ s.code = r.code
                                  /\ s.patch = r.patch
      /\ s.code \in Verdicts => s.status = "failed"
      /\ \/ s.status = r.status /\ s.code = r.code
         \/ r.status = "completed" /\ s.status = "failed" /\ s.code \in Verdicts
  <2>1. code \in Verdicts \cup {"none"} /\ "none" \notin Verdicts
    BY <1>5 DEF Verdicts
  <2>2. r.code \in Verdicts => r.status = "failed"
    BY DEF RunCodes
  <2>3. s.evaluation = "failed" => code # "none"
    BY <1>5
  <2>4. QED BY <1>3, <1>7, <2>1, <2>2, <2>3
<1>10. RunForm(t, "evaluation", s)
  BY <1>3 DEF RunForm, Before, Thinking
<1>11. RunCodes(stopped, "evaluation", s)
  BY <1>9 DEF RunCodes, Before, Thinking, Checked, Verdicts
<1>12. RunChange(t, "evaluation", s)
  <2>1. s.code = "WORKER_NO_CHANGES" => r.code = "WORKER_NO_CHANGES"
    BY <1>9 DEF Verdicts
  <2>2. s.preserve => s.patch = 0 /\ s.status # "completed"
    BY <1>3, <1>7, <1>9 DEF RunChange
  <2>3. s.status = "completed" => /\ s.changed = s.files /\ s.patch = s.files
                                  /\ t.mode = "implementation" => s.changed # 0
    BY <1>3, <1>9 DEF RunChange, Before, Thinking
  <2>4. QED BY <1>3, <2>1, <2>2, <2>3 DEF RunChange, Before, Thinking, Checked, Assessed
<1>13. RunVerdict(t, "evaluation", s)
  <2>1. s.status = "completed" =>
            s.evaluation # "failed" /\ (t.policy = "strict" => s.evaluation = "passed")
    BY <1>5, <1>8, <1>9 DEF EvaluationOutcomes
  <2>2. s.status # "completed" =>
            \/ s.evaluation = "failed"
            \/ /\ s.status = "failed" /\ s.code = "EVALUATION_INCONCLUSIVE"
               /\ t.policy = "strict" /\ s.evaluation = "inconclusive"
    BY <1>3, <1>5, <1>6
  <2>3. QED BY <1>4, <2>1, <2>2 DEF RunVerdict
<1>14. ASSUME NEW f, NEW a, Due(f, s), Due(f, r) => r.patch = r.changed /\ a.patch = r.changed
       PROVE  PatchTold(s, a)
  <2>1. Due(f, r)
    BY <1>9, <1>14 DEF Due
  <2>2. r.patch = r.changed /\ a.patch = r.changed
    BY <1>14, <2>1
  <2>3. CASE s.patch = r.patch
    BY <1>3, <2>2, <2>3 DEF PatchTold
  <2>4. CASE s.patch # r.patch
    <3>1. s.patch = 0 /\ "patch_size" \in s.failed /\ s.evaluation = "failed"
      BY <1>7, <2>4
    <3>2. s.status = "failed" \/ s.code = "WORKER_NO_CHANGES"
      BY <1>9, <1>14, <3>1, <1>3, <1>5 DEF Due
    <3>3. s.code = "WORKER_NO_CHANGES" => r.changed = 0
      BY <1>9 DEF RunChange, Verdicts
    <3>4. QED BY <1>3, <2>2, <3>1, <3>2, <3>3 DEF PatchTold
  <2>5. QED BY <2>3, <2>4
<1>15. QED BY <1>9, <1>10, <1>11, <1>12, <1>13, <1>14 DEF RunOK, s, results, first

LEMMA EvaluateStory == ASSUME Inv, StoryInv, Evaluate PROVE StoryInv'
<1>1. /\ call.pc = "evaluate" /\ call.pc \in AttemptPcs \ {"start"}
      /\ "evaluation" \in AttemptPcs \ {"start", "attempt"}
  BY DEF Evaluate, AttemptPcs
<1>2. /\ run \in Run /\ run.patch \in {0, run.changed} /\ call.task \in Tasks
      /\ RunOK(call.task, Signal, "evaluate", run)
      /\ Told(call.task, call.index, faults, "evaluate", run, journal.active)
  BY <1>1, AttemptFacts
<1>3. /\ Due(faults, run) => run.patch = run.changed /\ journal.active.patch = run.changed
  BY <1>2 DEF Told, ChangeTold, Checked
<1>4. ASSUME NEW r \in Run, r.patch \in {0, r.changed}, NEW others,
             others \in Seq(Elements(others)),
             RunForm(call.task, "evaluate", r), RunCodes(FALSE, "evaluate", r),
             RunChange(call.task, "evaluate", r),
             r.status = "completed" => run.status = "completed",
             Due(faults, r) => r.patch = r.changed /\ journal.active.patch = r.changed,
             Continue("evaluation", Evaluated(r, <<DeterministicResult(Input(r))>> \o others))
      PROVE  StoryInv'
  <2> DEFINE s == Evaluated(r, <<DeterministicResult(Input(r))>> \o others)
  <2>1. /\ RunOK(call.task, Signal, "evaluation", s)
        /\ s.status = "completed" => r.status = "completed"
        /\ Due(faults, s) => PatchTold(s, journal.active)
    BY <1>4, EvaluatedOK
  <2>2. Continue("evaluation", s)
    BY <1>4
  <2> HIDE DEF s
  <2>3. TurnsTold("evaluation", s, journal.active)
    BY DEF TurnsTold
  <2>4. StagesTold(call.task, "evaluation", s, journal.active)
    BY <1>2, <1>4, <2>1 DEF Told, StagesTold, Before, Thinking, Assessed
  <2>5. ChangeTold(faults, "evaluation", s, journal.active)
    BY <2>1 DEF ChangeTold, Before, Thinking, Checked, Assessed
  <2>6. Told(call.task, call.index, faults, "evaluation", s, journal.active)
    BY <1>2, <2>3, <2>4, <2>5 DEF Told
  <2>7. QED BY <1>1, <2>1, <2>2, <2>6, ContinueStory
<1> DEFINE status  == classifyRunError("AbortError")
           stopped == [run EXCEPT !.status = status, !.code = "WORKER_ABORTED"]
<1>5. CASE /\ Signal
           /\ Continue("evaluation", Evaluated(stopped, <<DeterministicResult(Input(stopped))>>))
  <2>1. status \in {"cancelled", "timed_out"}
    BY <1>5, ErrorsClassified
  <2> HIDE DEF status
  <2>2. /\ stopped \in Run /\ SameWork(run, stopped)
        /\ stopped.status = status /\ stopped.code = "WORKER_ABORTED"
    BY <1>2, <2>1 DEF Run, RunStatuses, FailureCodes, SameWork
  <2> HIDE DEF stopped
  <2>3. RunForm(call.task, "evaluate", stopped)
    BY <1>2, <2>2 DEF RunOK, RunForm, SameWork, Before, Thinking
  <2>4. RunCodes(FALSE, "evaluate", stopped)
    BY <2>1, <2>2 DEF RunCodes, Before, Thinking, Checked, Verdicts
  <2>5. RunChange(call.task, "evaluate", stopped)
    BY <1>2, <2>1, <2>2 DEF RunOK, RunChange, SameWork, Before, Thinking, Checked, Assessed
  <2>6. ~Due(faults, stopped)
    BY <2>1, <2>2 DEF Due, Verdicts
  <2>7. <<>> \in Seq(Elements(<<>>))
    OBVIOUS
  <2> DEFINE first == DeterministicResult(Input(stopped))
  <2>8. <<first>> \o <<>> = <<first>>
    <3> HIDE DEF first
    <3>1. QED OBVIOUS
  <2>9. Continue("evaluation", Evaluated(stopped, <<first>> \o <<>>))
    BY <1>5, <2>8
  <2>10. stopped.patch \in {0, stopped.changed} /\ stopped.status # "completed"
    BY <1>2, <2>1, <2>2 DEF SameWork
  <2>11. QED BY <1>4, <2>2, <2>3, <2>4, <2>5, <2>6, <2>7, <2>9, <2>10
<1>6. ASSUME ~Signal, NEW others \in Reviews,
             Continue("evaluation", Evaluated(run, <<DeterministicResult(Input(run))>> \o others))
      PROVE  StoryInv'
  <2>1. RunCodes(FALSE, "evaluate", run)
    BY <1>2, <1>6 DEF RunOK, RunCodes
  <2>2. others \in Seq(Elements(others))
    BY ReviewsAssumption
  <2>3. QED BY <1>2, <1>3, <1>4, <1>6, <2>1, <2>2 DEF RunOK
<1>7. CASE Throw
  BY <1>7, ThrowStory
<1> HIDE DEF stopped
<1>8. QED BY <1>5, <1>6, <1>7 DEF Evaluate, stopped

LEMMA PublishEvaluationStory == ASSUME Inv, StoryInv, PublishEvaluation PROVE StoryInv'
<1>1. /\ call.pc = "evaluation" /\ call.pc \in AttemptPcs \ {"start"}
      /\ "persist" \in AttemptPcs \ {"start", "attempt"}
  BY DEF PublishEvaluation, AttemptPcs
<1>2. /\ journal \in Projection
      /\ RunOK(call.task, Signal, "evaluation", run)
      /\ Told(call.task, call.index, faults, "evaluation", run, journal.active)
  BY <1>1, AttemptFacts
<1> DEFINE e == EvaluationEvent
           a == ProjectEvent(journal, e).active
<1>3. Record(e, Withdrawn, "persist", run)
  BY DEF PublishEvaluation
<1>4. /\ e.type = "EvaluationCompleted" /\ e.type \in OpenEvents
      /\ e.outcome = run.evaluation /\ e.policy = call.task.policy
      /\ e.failed = run.failed /\ e.unknown = run.unknown
  BY DEF EvaluationEvent, OpenEvents
<1> HIDE DEF e
<1>5. /\ a.evaluation = run.evaluation /\ a.policy = call.task.policy
      /\ a.failed = run.failed /\ a.unknown = run.unknown
      /\ a.run = journal.active.run /\ a.worker = journal.active.worker
      /\ a.worked = journal.active.worked /\ a.patch = journal.active.patch
      /\ a.validation = journal.active.validation
  BY <1>2, <1>4, EvaluationTells
<1> HIDE DEF a
<1>6. RunOK(call.task, Signal, "persist", run)
  <2>1. RunForm(call.task, "persist", run)
    BY <1>2 DEF RunOK, RunForm, Before, Thinking
  <2>2. RunCodes(Signal, "persist", run)
    BY <1>2 DEF RunOK, RunCodes, Before, Thinking, Checked
  <2>3. RunChange(call.task, "persist", run)
    BY <1>2 DEF RunOK, RunChange, Before, Thinking, Checked, Assessed
  <2>4. RunVerdict(call.task, "persist", run)
    BY <1>2 DEF RunOK, RunVerdict, Assessed
  <2>5. QED BY <2>1, <2>2, <2>3, <2>4 DEF RunOK
<1>7. TurnsTold("persist", run, a)
  BY DEF TurnsTold
<1>8. StagesTold(call.task, "persist", run, a)
  BY <1>2, <1>5 DEF Told, StagesTold, Before, Thinking, Assessed
<1>9. ChangeTold(faults, "persist", run, a)
  BY <1>2, <1>5 DEF Told, ChangeTold, PatchTold, Before, Thinking, Checked, Assessed
<1>10. Told(call.task, call.index, faults, "persist", run, a)
  BY <1>2, <1>5, <1>7, <1>8, <1>9 DEF Told
<1>11. QED BY <1>1, <1>3, <1>4, <1>6, <1>10, RecordStory DEF a

-----------------------------------------------------------------------------
(***************************************************************************)
(* The report, the end of the attempt and of the task.                     *)
(***************************************************************************)
LEMMA SameReport ==
    ASSUME UNCHANGED run, call'.index = call.index, call'.task = call.task
    PROVE  RunReport' = RunReport
BY DEF RunReport, Worker

LEMMA PersistStory == ASSUME Inv, StoryInv, Persist PROVE StoryInv'
<1>1. /\ call.pc = "persist" /\ call.pc \in AttemptPcs \ {"start"}
      /\ "attempt" \in AttemptPcs \ {"start"}
  BY DEF Persist, AttemptPcs
<1>2. /\ RunOK(call.task, Signal, "persist", run)
      /\ Told(call.task, call.index, faults, "persist", run, journal.active)
  BY <1>1, AttemptFacts
<1>3. CASE Throw
  BY <1>3, ThrowStory
<1>4. CASE /\ reports' = reports \cup {RunReport}
           /\ call' = [call EXCEPT !.pc = "attempt"]
           /\ UNCHANGED <<faults, run, worktrees, holder>>
  <2>1. RunOK(call.task, Signal, "attempt", run)
    <3>1. RunForm(call.task, "attempt", run)
      BY <1>2 DEF RunOK, RunForm, Before, Thinking
    <3>2. RunCodes(Signal, "attempt", run)
      BY <1>2 DEF RunOK, RunCodes, Before, Thinking, Checked
    <3>3. RunChange(call.task, "attempt", run)
      BY <1>2 DEF RunOK, RunChange, Before, Thinking, Checked, Assessed
    <3>4. RunVerdict(call.task, "attempt", run)
      BY <1>2 DEF RunOK, RunVerdict, Assessed
    <3>5. QED BY <3>1, <3>2, <3>3, <3>4 DEF RunOK
  <2>2. TurnsTold("attempt", run, journal.active)
    BY DEF TurnsTold
  <2>3. StagesTold(call.task, "attempt", run, journal.active)
    BY <1>2 DEF Told, StagesTold, Before, Thinking, Assessed
  <2>4. ChangeTold(faults, "attempt", run, journal.active)
    BY <1>2 DEF Told, ChangeTold, Before, Thinking, Checked, Assessed
  <2>5. Told(call.task, call.index, faults, "attempt", run, journal.active)
    BY <1>2, <2>2, <2>3, <2>4 DEF Told
  <2>6. RunReport' = RunReport
    BY <1>4, CallMoved, SameReport
  <2>7. /\ journal' = journal /\ TaskKept(journal, journal') /\ run' = run /\ faults' = faults
        /\ UNCHANGED <<clock, aborted>>
    BY <1>4 DEF Persist, environment, TaskKept
  <2>8. QED BY <1>1, <1>4, <2>1, <2>5, <2>6, <2>7, MoveStory
<1>5. QED BY <1>3, <1>4 DEF Persist

(* What a report says of its run is what the attempt ended with.           *)
LEMMA ReportOfRun ==
    ASSUME Inv, StoryInv, call.pc = "attempt", EventAllowed(journal, AttemptEvent)
    PROVE  /\ RunReport # NoReport /\ LastOK(call.task, RunReport)
           /\ LastTold(faults, RunReport, ProjectEvent(journal, AttemptEvent).last)
<1>1. call.pc \in AttemptPcs /\ call.pc # "start"
  BY DEF AttemptPcs
<1>2. /\ run \in Run /\ journal \in Projection /\ call.task \in Tasks /\ call.index # 0
      /\ RunOK(call.task, Signal, "attempt", run)
      /\ Told(call.task, call.index, faults, "attempt", run, journal.active)
  BY <1>1, AttemptFacts, OpenAttempt
<1> DEFINE r == RunReport
           e == AttemptEvent
           l == ProjectEvent(journal, e).last
<1>3. /\ r.run = call.index /\ r.worker = call.task.route[call.index]
      /\ r.mode = call.task.mode /\ r.status = run.status /\ r.code = run.code
      /\ r.changed = run.changed /\ r.patch = run.patch /\ r.policy = call.task.policy
      /\ r.evaluation = run.evaluation /\ r.failed = run.failed /\ r.unknown = run.unknown
  BY DEF RunReport, Worker
<1>4. e.type = "AttemptCompleted" /\ e.status = run.status /\ e.failureCode = run.code
  BY DEF AttemptEvent
<1> HIDE DEF r, e
<1>5. /\ l.status = run.status /\ l.failureCode = run.code
      /\ l.run = journal.active.run /\ l.worker = journal.active.worker
      /\ l.patch = journal.active.patch
      /\ l.evaluation = journal.active.evaluation /\ l.policy = journal.active.policy
      /\ l.failed = journal.active.failed /\ l.unknown = journal.active.unknown
  BY <1>2, <1>4, AttemptEndTells
<1> HIDE DEF l
<1>6. r # NoReport
  BY <1>2, <1>3 DEF NoReport
<1>7. LastOK(call.task, r)
  <2>1. ASSUME r.status = "completed", r.patch = 0
        PROVE  r.mode \in {"research", "testing"} \/ (r.mode = "review" /\ call.task.seed = 0)
    <3>1. run.changed = run.files /\ run.patch = run.files
          /\ (call.task.mode = "implementation" => run.changed # 0)
      BY <1>2, <1>3, <2>1 DEF RunOK, RunChange, Assessed, Before, Thinking
    <3>2. call.task.mode \notin {"implementation", "testing"} => run.files = call.task.seed
      BY <1>2 DEF RunOK, RunForm
    <3>3. call.task.mode \in {"research", "implementation", "testing", "review"}
      BY <1>2, TaskTyped DEF WorkerModes
    <3>4. QED BY <1>3, <2>1, <3>1, <3>2, <3>3
  <2>2. /\ r.code \in Verdicts => r.status = "failed"
        /\ r.status = "blocked" => r.code = "WORKER_NO_CHANGES"
    BY <1>2, <1>3 DEF RunOK, RunCodes
  <2>3. QED BY <1>2, <1>3, <2>1, <2>2 DEF LastOK
<1>8. LastTold(faults, r, l)
  <2>1. Due(faults, r) => PatchTold(run, journal.active)
    BY <1>2, <1>3 DEF Due, Told, ChangeTold, Assessed
  <2>2. Due(faults, r) => PatchTold(r, l)
    BY <1>3, <1>5, <2>1 DEF PatchTold
  <2>3. QED BY <1>2, <1>3, <1>5, <2>2 DEF LastTold, Told, StagesTold
<1>9. QED BY <1>6, <1>7, <1>8 DEF r, l, e

LEMMA EndAttemptStory == ASSUME Inv, StoryInv, EndAttempt PROVE StoryInv'
<1>1. /\ call.pc = "attempt" /\ call.pc \in AttemptPcs /\ call.pc \in Routed
      /\ call.pc \notin {"worktree", "start"} /\ call \in Call
  BY DEF EndAttempt, AttemptPcs, Routed, Inv, TypeOK
<1>2. CASE Throw
  BY <1>2, ThrowStory
<1> DEFINE pc == IF shouldFallback THEN "loop" ELSE "complete"
           u  == ProjectEvent(journal, AttemptEvent)
<1>3. CASE /\ Appended(AttemptEvent, Withdrawn)
           /\ call' = [call EXCEPT !.pc = pc, !.last = RunReport]
  <2>1. /\ pc \in {"loop", "complete"}
        /\ pc = "loop" => run.status = "failed" /\ run.code \in FallbackCodes
    BY DEF shouldFallback
  <2> HIDE DEF pc
  <2>2. /\ call'.pc = pc /\ call'.last = RunReport /\ call'.task = call.task
        /\ call'.index = call.index
    BY <1>1, <1>3 DEF Call
  <2>3. /\ journal' = u /\ EventAllowed(journal, AttemptEvent) /\ faults' = faults
        /\ reports' = reports
    BY <1>3 DEF Appended, EndAttempt
  <2>4. journal \in Projection /\ RunReport \in reports
    BY <1>1 DEF Inv, TypeOK, StoryInv, AttemptTold
  <2>5. /\ RunReport # NoReport /\ LastOK(call.task, RunReport)
        /\ LastTold(faults, RunReport, u.last)
    BY <1>1, <2>3, ReportOfRun
  <2>6. /\ AttemptEvent.type = "AttemptCompleted" /\ AttemptEvent.status = run.status
        /\ AttemptEvent.failureCode = run.code
    BY DEF AttemptEvent
  <2>7. /\ u.status = journal.status /\ u.route = journal.route
        /\ u.maxAttempts = journal.maxAttempts /\ u.known = journal.known
        /\ u.attemptCount = journal.attemptCount /\ u.active = NoAttempt
        /\ u.last.status = run.status /\ u.last.failureCode = run.code
    BY <2>4, <2>6, AttemptEndTells
  <2> HIDE DEF u
  <2>8. call'.pc \notin Unrouted \cup AttemptPcs \cup {"worktree", "expired", "returned"}
        /\ call'.pc \in Routed
    BY <2>1, <2>2 DEF Unrouted, AttemptPcs, Routed
  <2>9. TaskTold'
    <3>1. /\ journal.status = "in_progress" /\ journal.route = call.task.route
          /\ journal.maxAttempts = call.task.maxAttempts
          /\ \A k \in journal.known : k <= journal.attemptCount
          /\ journal.attemptCount = call.index
      BY <1>1 DEF StoryInv, TaskTold
    <3>2. u.active.run = 0
      BY <2>7 DEF NoAttempt
    <3>3. call'.pc = "loop" => FallbackEligible(u.last)
      BY <2>1, <2>2, <2>7 DEF FallbackEligible
    <3>4. call'.pc # "start" /\ call'.last # NoReport
      BY <2>2, <2>5, <2>8 DEF AttemptPcs
    <3>5. QED BY <2>2, <2>3, <2>7, <2>8, <3>1, <3>2, <3>3, <3>4 DEF TaskTold
  <2>10. LastKnown'
    BY <2>2, <2>3, <2>4, <2>5, <2>8 DEF LastKnown
  <2>11. AttemptTold'
    BY <2>8 DEF AttemptTold, AttemptPcs
  <2>12. QED BY <2>9, <2>10, <2>11 DEF StoryInv
<1>4. QED BY <1>2, <1>3 DEF EndAttempt, Throw

LEMMA CompleteStory == ASSUME Inv, StoryInv, Complete PROVE StoryInv'
<1>1. CASE NotAppended(CompleteEvent, Overdue) /\ Throw
  BY <1>1, ThrowStory
<1>2. CASE Appended(CompleteEvent, Overdue) /\ call' = [call EXCEPT !.pc = "returned"]
  <2>1. /\ call.pc = "complete" /\ call.pc \in Routed
    BY DEF Complete, Routed
  <2>2. call'.pc = "returned" /\ call'.task = call.task /\ call'.last = call.last
    BY <1>2, CallMoved
  <2>3. /\ journal' = ProjectEvent(journal, CompleteEvent) /\ faults' = faults
        /\ reports' = reports /\ journal \in Projection
    BY <1>2 DEF Appended, Complete, Inv, TypeOK
  <2>4. CompleteEvent.type = "TaskCompleted" /\ CompleteEvent.status = call.last.status
    BY DEF CompleteEvent
  <2>5. journal'.status = call.last.status /\ journal'.last = journal.last
    BY <2>3, <2>4 DEF ProjectEvent, ProjectTaskEnd, Projection
  <2>6. call.last # NoReport /\ LastOK(call.task, call.last)
        /\ LastTold(faults, call.last, journal.last) /\ call.last \in reports
    BY <2>1 DEF StoryInv, TaskTold, LastKnown
  <2>7. LastKnown'
    BY <2>2, <2>3, <2>5, <2>6 DEF LastKnown
  <2>8. call'.pc \notin Unrouted \cup Routed \cup AttemptPcs
    BY <2>2 DEF Unrouted, Routed, AttemptPcs
  <2>9. TaskTold' /\ AttemptTold'
    BY <2>8 DEF TaskTold, AttemptTold, Unrouted, Routed, AttemptPcs
  <2>10. QED BY <2>7, <2>9 DEF StoryInv
<1>3. QED BY <1>1, <1>2 DEF Complete

-----------------------------------------------------------------------------
(***************************************************************************)
(* The task and its route, and the steps that leave the attempt alone.     *)
(***************************************************************************)
LEMMA QuietStory ==
    ASSUME Inv, StoryInv, UNCHANGED <<call, run, reports>>,
           faults' = faults \/ (faults > 0 /\ faults' = faults - 1), Signal => Signal',
           TaskKept(journal, journal'), journal'.active = journal.active,
           call.pc \in Unrouted => journal' = journal
    PROVE  StoryInv'
<1>1. faults' = MaxFaults => faults' = faults
  BY FaultsFall
<1>2. TaskTold'
  BY DEF StoryInv, TaskTold, TaskKept
<1>3. journal'.last = journal.last /\ journal'.status = journal.status
  BY DEF TaskKept
<1>4. LastTold(faults, call.last, journal.last) => LastTold(faults', call.last, journal'.last)
  BY <1>1, <1>3, LastKept
<1>5. LastKnown'
  BY <1>3, <1>4 DEF StoryInv, LastKnown
<1>6. \A pc : RunCodes(Signal, pc, run) => RunCodes(Signal', pc, run)
  BY DEF RunCodes
<1>7. \A pc : RunOK(call.task, Signal, pc, run) => RunOK(call.task, Signal', pc, run)
  BY <1>6 DEF RunOK
<1>8. \A t, i, pc, r, a : Told(t, i, faults, pc, r, a) => Told(t, i, faults', pc, r, a)
  BY <1>1, ToldKept
<1>9. RunReport' = RunReport
  BY SameReport
<1>10. call.pc \in AttemptPcs => RunOK(call.task, Signal', call.pc, run)
  BY <1>7 DEF StoryInv, AttemptTold
<1>11. call.pc \in AttemptPcs \ {"start"} =>
          Told(call.task, call.index, faults', call.pc, run, journal'.active)
  BY <1>8 DEF StoryInv, AttemptTold
<1>12. AttemptTold'
  BY <1>9, <1>10, <1>11 DEF StoryInv, AttemptTold
<1>13. QED BY <1>2, <1>5, <1>12 DEF StoryInv

LEMMA SilentStory ==
    ASSUME Inv, StoryInv, UNCHANGED <<call, run, reports, journal>>,
           faults' = faults \/ (faults > 0 /\ faults' = faults - 1), Signal => Signal'
    PROVE  StoryInv'
BY QuietStory DEF TaskKept

LEMMA InitStory == Init => StoryInv
<1> SUFFICES ASSUME Init PROVE StoryInv
  OBVIOUS
<1>1. call.pc = "idle" /\ call.last = NoReport /\ journal = InitialProjection
  BY DEF Init
<1>2. call.pc \notin Routed \cup AttemptPcs \cup {"returned", "loop", "worktree", "start",
                                                  "expired", "complete"}
  BY <1>1 DEF Routed, AttemptPcs
<1>3. QED BY <1>1, <1>2 DEF StoryInv, TaskTold, LastKnown, AttemptTold

LEMMA DelegateStory == ASSUME Inv, StoryInv, Delegate PROVE StoryInv'
<1>1. PICK t \in Tasks : call' = [call EXCEPT !.pc = "create", !.task = t]
  BY DEF Delegate
<1>2. call'.pc = "create" /\ call'.last = call.last
  BY <1>1 DEF Inv, TypeOK, Call
<1>3. journal' = InitialProjection /\ call'.last = NoReport
  BY <1>2 DEF Delegate, StoryInv, TaskTold, Unrouted
<1>4. call'.pc \notin Routed \cup AttemptPcs \cup {"returned", "loop", "worktree", "start",
                                                   "expired", "complete", "attempt"}
  BY <1>2 DEF Routed, AttemptPcs
<1>5. QED BY <1>3, <1>4 DEF StoryInv, TaskTold, LastKnown, AttemptTold

LEMMA CreateStory == ASSUME Inv, StoryInv, Create PROVE StoryInv'
<1>1. CASE Throw
  BY <1>1, ThrowStory
<1>2. CASE call' = [call EXCEPT !.pc = "route"]
  <2>1. call'.pc = "route" /\ call'.last = call.last
    BY <1>2, CallMoved
  <2>2. journal' = InitialProjection /\ call'.last = NoReport
    BY <2>1 DEF Create, StoryInv, TaskTold, Unrouted
  <2>3. call'.pc \notin Routed \cup AttemptPcs \cup {"returned", "loop", "worktree", "start",
                                                     "expired", "complete", "attempt"}
    BY <2>1 DEF Routed, AttemptPcs
  <2>4. QED BY <2>2, <2>3 DEF StoryInv, TaskTold, LastKnown, AttemptTold
<1>3. QED BY <1>1, <1>2 DEF Create

LEMMA RouteStory == ASSUME Inv, StoryInv, Route PROVE StoryInv'
<1>1. /\ call.pc = "route" /\ Record(RouteEvent, FALSE, "loop", NoRun)
  BY DEF Route
<1>2. CASE Throw
  BY <1>2, ThrowStory
<1>3. CASE Appended(RouteEvent, FALSE) /\ call' = [call EXCEPT !.pc = "loop"]
  <2>1. /\ call'.pc = "loop" /\ call'.task = call.task /\ call'.index = call.index
        /\ call'.last = call.last
    BY <1>3, CallMoved
  <2>2. journal = InitialProjection /\ call.last = NoReport /\ call.index = 0
    BY <1>1 DEF StoryInv, TaskTold, Unrouted, Inv, CallInv
  <2>3. journal' = ProjectEvent(journal, RouteEvent) /\ journal \in Projection
    BY <1>3 DEF Appended, Inv, TypeOK
  <2>4. /\ RouteEvent.type = "RouteSelected" /\ RouteEvent.route = call.task.route
        /\ RouteEvent.maxAttempts = call.task.maxAttempts
    BY DEF RouteEvent
  <2>5. /\ journal'.status = journal.status /\ journal'.route = call.task.route
        /\ journal'.maxAttempts = call.task.maxAttempts /\ journal'.known = journal.known
        /\ journal'.attemptCount = journal.attemptCount /\ journal'.last = journal.last
        /\ journal'.active = journal.active
    BY <2>3, <2>4, RouteTells
  <2>6. /\ journal.status = "in_progress" /\ journal.known = {} /\ journal.attemptCount = 0
        /\ journal.last.run = 0 /\ journal.active.run = 0
    BY <2>2 DEF InitialProjection, NoAttempt
  <2>7. call'.pc \notin AttemptPcs \cup Unrouted \cup {"returned", "worktree", "start",
                                                       "expired", "complete"}
    BY <2>1 DEF AttemptPcs, Unrouted
  <2>8. TaskTold'
    BY <2>1, <2>2, <2>5, <2>6, <2>7 DEF TaskTold
  <2>9. LastKnown' /\ AttemptTold'
    BY <2>1, <2>2, <2>7 DEF LastKnown, AttemptTold
  <2>10. QED BY <2>8, <2>9 DEF StoryInv
<1>4. QED BY <1>1, <1>2, <1>3 DEF Record

LEMMA NextAttemptStory == ASSUME Inv, StoryInv, NextAttempt PROVE StoryInv'
<1>1. CASE Throw
  BY <1>1, ThrowStory
<1> DEFINE pc == IF clock = "early" THEN "worktree"
                 ELSE IF call.last = NoReport THEN "expired" ELSE "complete"
           index == IF clock = "early" THEN call.index + 1 ELSE call.index
<1>2. CASE call' = [call EXCEPT !.pc = pc, !.index = index]
  <2>1. /\ pc \in {"worktree", "expired", "complete"}
        /\ pc = "worktree" => index = call.index + 1
        /\ pc # "worktree" => index = call.index
        /\ pc = "expired" => call.last = NoReport
        /\ pc = "complete" => call.last # NoReport
    OBVIOUS
  <2> HIDE DEF pc, index
  <2>2. call'.pc = pc /\ call'.task = call.task /\ call'.index = index /\ call'.last = call.last
    BY <1>2 DEF Inv, TypeOK, Call
  <2>3. call.pc = "loop" /\ call.pc \in Routed /\ call.index \in Nat
        /\ UNCHANGED <<journal, reports, faults>>
    BY DEF NextAttempt, Routed, Inv, TypeOK, Call
  <2>4. pc \notin AttemptPcs \cup Unrouted \cup {"returned", "loop", "start"} /\ pc \in Routed
    BY <2>1 DEF AttemptPcs, Unrouted, Routed
  <2>5. journal.attemptCount = IF pc \in {"worktree", "start"} THEN index - 1 ELSE index
    <3>1. journal.attemptCount = call.index
      BY <2>3 DEF StoryInv, TaskTold
    <3>2. QED BY <2>1, <2>3, <2>4, <3>1
  <2>6. /\ journal.status = "in_progress" /\ journal.route = call.task.route
        /\ journal.maxAttempts = call.task.maxAttempts
        /\ \A k \in journal.known : k <= journal.attemptCount
        /\ call.last = NoReport => journal.last.run = 0
        /\ journal.active.run = 0
        /\ journal.last.run # 0 => FallbackEligible(journal.last)
    BY <2>3 DEF StoryInv, TaskTold
  <2>7. TaskTold'
    BY <2>1, <2>2, <2>3, <2>4, <2>5, <2>6 DEF TaskTold
  <2>8. LastKnown'
    BY <2>2, <2>3, <2>4 DEF StoryInv, LastKnown
  <2>9. AttemptTold'
    BY <2>2, <2>4 DEF AttemptTold, AttemptPcs
  <2>10. QED BY <2>7, <2>8, <2>9 DEF StoryInv
<1>3. QED
  <2>1. CASE aborted
    BY <1>1, <2>1 DEF NextAttempt
  <2>2. CASE ~aborted
    <3>1. call' = [call EXCEPT !.pc = pc, !.index = index]
      BY <2>2 DEF NextAttempt, Inv, TypeOK, Call
    <3>2. QED BY <1>2, <3>1
  <2>3. QED BY <2>1, <2>2

LEMMA CreateWorktreeStory == ASSUME Inv, StoryInv, CreateWorktree PROVE StoryInv'
<1>1. CASE Thrown
  BY <1>1, ThrownStory
<1>2. CASE call' = [call EXCEPT !.pc = "start"] /\ run' = [NoRun EXCEPT !.files = call.task.seed]
  <2>1. /\ call'.pc = "start" /\ call'.task = call.task /\ call'.index = call.index
        /\ call'.last = call.last
    BY <1>2, CallMoved
  <2>2. call.pc = "worktree" /\ call.pc \in Routed /\ call.task \in Tasks
        /\ UNCHANGED <<journal, reports>>
    BY DEF CreateWorktree, Routed, Inv, CallInv, Working
  <2>3. faults' = MaxFaults => faults' = faults
    BY FaultsFall DEF CreateWorktree
  <2>4. "start" \in Routed /\ "start" \in AttemptPcs /\ "start" \notin Unrouted
    BY DEF Routed, AttemptPcs, Unrouted
  <2>5. TaskTold'
    BY <2>1, <2>2, <2>4 DEF StoryInv, TaskTold
  <2>6. call.last # NoReport => LastTold(faults', call.last, journal.last)
    BY <2>2, <2>3, LastKept DEF StoryInv, LastKnown
  <2>7. LastKnown'
    BY <2>1, <2>2, <2>6 DEF StoryInv, LastKnown
  <2> DEFINE r == [NoRun EXCEPT !.files = call.task.seed]
  <2>8. /\ r.iteration = 0 /\ r.left = 0 /\ r.status = "completed" /\ r.code = "none"
        /\ r.files = call.task.seed /\ r.changed = 0 /\ r.patch = 0 /\ r.results = <<>>
        /\ ~r.preserve
    BY DEF NoRun
  <2> HIDE DEF r
  <2>9. Len(r.results) = 0 /\ call.task.seed <= 10000 /\ Len(call.task.commands) \in Nat
        /\ MaxIterations \in Nat
    BY <2>2, <2>8, TaskTyped, LimitsAssumption, BoundsAssumption
  <2>10. RunForm(call.task, "start", r)
    BY <2>8, <2>9 DEF RunForm, Before, Thinking
  <2>11. RunCodes(Signal, "start", r) /\ RunChange(call.task, "start", r)
    BY <2>8 DEF RunCodes, RunChange, Before, Thinking, Checked, Assessed, Verdicts, FallbackCodes
  <2>12. \A stopped : RunOK(call.task, stopped, "start", r)
    BY <2>8, <2>10, <2>11 DEF RunOK, RunVerdict, RunCodes, Assessed
  <2>13. run' = r
    BY <1>2 DEF r
  <2>14. AttemptTold'
    BY <2>1, <2>12, <2>13 DEF AttemptTold
  <2>15. QED BY <2>5, <2>7, <2>14 DEF StoryInv
<1>3. QED BY <1>1, <1>2 DEF CreateWorktree, Thrown

LEMMA StartStory == ASSUME Inv, StoryInv, Start PROVE StoryInv'
<1>1. /\ call.pc = "start" /\ call.pc \in AttemptPcs /\ call.pc \in Routed
      /\ Record(StartEvent, FALSE, "turn", run)
  BY DEF Start, AttemptPcs, Routed
<1>2. CASE Throw
  BY <1>2, ThrowStory
<1>3. CASE Appended(StartEvent, FALSE) /\ call' = [call EXCEPT !.pc = "turn"] /\ run' = run
  <2>1. /\ call'.pc = "turn" /\ call'.task = call.task /\ call'.index = call.index
        /\ call'.last = call.last
    BY <1>3, CallMoved
  <2>2. /\ RunOK(call.task, Signal, "start", run) /\ journal \in Projection
        /\ call.index \in Nat
    BY <1>1, AttemptFacts
  <2>3. journal' = ProjectEvent(journal, StartEvent) /\ faults' = faults /\ reports' = reports
        /\ UNCHANGED <<clock, aborted>>
    BY <1>1, <1>3 DEF Appended, Record, environment
  <2>4. /\ StartEvent.type = "WorkerStarted" /\ StartEvent.run = call.index
        /\ StartEvent.worker = call.task.route[call.index] /\ StartEvent.attempt = call.index
    BY DEF StartEvent, Worker
  <2> DEFINE a == journal'.active
  <2>5. /\ journal'.status = journal.status /\ journal'.route = journal.route
        /\ journal'.maxAttempts = journal.maxAttempts /\ journal'.last = journal.last
        /\ journal'.known = journal.known \cup {call.index}
        /\ journal'.attemptCount = call.index
        /\ a.run = call.index /\ a.worker = call.task.route[call.index] /\ a.iteration = 0
        /\ ~a.modelFailed /\ ~a.modelTerminal /\ a.expected = 0 /\ a.observed = 0
        /\ a.worked = "none" /\ a.patch = 0 /\ a.validation = "none" /\ a.evaluation = "none"
    BY <2>2, <2>3, <2>4, StartTells
  <2> HIDE DEF a
  <2>6. /\ journal.status = "in_progress" /\ journal.route = call.task.route
        /\ journal.maxAttempts = call.task.maxAttempts
        /\ \A k \in journal.known : k <= journal.attemptCount
        /\ journal.attemptCount = call.index - 1
        /\ call.last = NoReport => journal.last.run = 0
    BY <1>1 DEF StoryInv, TaskTold
  <2>7. \A k \in journal'.known : k <= call.index
    <3>1. journal.known \subseteq Nat
      BY <2>2 DEF Projection
    <3>2. QED BY <2>2, <2>5, <2>6, <3>1
  <2>8. "turn" \in Routed /\ "turn" \in AttemptPcs \ {"start"} /\ "turn" \notin Unrouted
    BY DEF Routed, AttemptPcs, Unrouted
  <2>9. TaskTold'
    BY <2>1, <2>5, <2>6, <2>7, <2>8 DEF TaskTold
  <2>10. LastKnown'
    BY <1>1, <2>1, <2>3, <2>5, <2>8 DEF StoryInv, LastKnown
  <2>11. RunOK(call.task, Signal, "turn", run) /\ run.iteration = 0 /\ run.left = 0
    <3>1. RunForm(call.task, "turn", run) /\ run.iteration = 0 /\ run.left = 0
      BY <2>2 DEF RunOK, RunForm, Before, Thinking
    <3>2. RunCodes(Signal, "turn", run)
      BY <2>2 DEF RunOK, RunCodes, Before, Thinking, Checked
    <3>3. RunChange(call.task, "turn", run)
      BY <2>2 DEF RunOK, RunChange, Before, Thinking, Checked, Assessed
    <3>4. QED BY <3>1, <3>2, <3>3 DEF RunOK, RunVerdict, Assessed
  <2>12. TurnsTold("turn", run, a)
    BY <2>5, <2>11 DEF TurnsTold
  <2>13. StagesTold(call.task, "turn", run, a)
    BY <2>5 DEF StagesTold, Before, Thinking, Assessed
  <2>14. ChangeTold(faults, "turn", run, a)
    BY <2>5 DEF ChangeTold, Before, Thinking, Checked, Assessed
  <2>15. Told(call.task, call.index, faults, "turn", run, a)
    BY <2>5, <2>12, <2>13, <2>14 DEF Told
  <2>16. Signal' = Signal
    BY <2>3 DEF Signal
  <2>17. AttemptTold'
    BY <1>3, <2>1, <2>3, <2>11, <2>15, <2>16 DEF AttemptTold, a
  <2>18. QED BY <2>9, <2>10, <2>17 DEF StoryInv
<1>4. QED BY <1>1, <1>2, <1>3 DEF Record

LEMMA ApplyStepStory == ASSUME Inv, StoryInv, ApplyStep PROVE StoryInv'
<1>1. /\ Writes(ApplicationEvents) /\ UNCHANGED delegation
  BY ApplicationWrites
<1>2. /\ UNCHANGED <<clock, aborted>>
      /\ faults' = faults \/ (faults > 0 /\ faults' = faults - 1)
  BY DEF ApplyStep, RequestApplication, CheckRepository, Approve, PatchRepository, RecordApplied,
         Reject, environment, Appended, NotAppended
<1>3. journal \in Projection
  BY DEF Inv, TypeOK
<1>4. TaskKept(journal, journal') /\ journal'.active = journal.active
  BY <1>1, <1>3, ApplicationsKeepTask DEF Writes, TaskKept
<1>5. call.pc \in Unrouted => journal' = journal
  BY <1>1, NoApplicationAtFirst DEF Writes, StoryInv, TaskTold
<1>6. Signal' = Signal
  BY <1>2 DEF Signal
<1>7. UNCHANGED <<call, run, reports>>
  BY <1>1 DEF delegation
<1>8. QED BY <1>2, <1>4, <1>5, <1>6, <1>7, QuietStory

LEMMA CrashStory == ASSUME Inv, StoryInv, Crash PROVE StoryInv'
<1>1. CASE holder = "delegate"
  <2>1. call'.pc = "crashed"
    BY <1>1, CallMoved DEF Crash
  <2>2. QED BY <2>1, EndedStory
<1>2. CASE holder # "delegate"
  <2>1. UNCHANGED <<call, run, reports, journal, clock, aborted>> /\ faults > 0
        /\ faults' = faults - 1
    BY <1>2 DEF Crash
  <2>2. Signal' = Signal
    BY <2>1 DEF Signal
  <2>3. QED BY <2>1, <2>2, SilentStory
<1>3. QED BY <1>1, <1>2

LEMMA StoryKept ==
    ASSUME Inv, StoryInv, [Next]_vars
    PROVE  StoryInv'
<1>1. CASE AttemptStep
  <2>1. CASE Delegate
    BY <2>1, DelegateStory
  <2>2. CASE Create \/ Route \/ CreateWorktree \/ Start
    BY <2>2, CreateStory, RouteStory, CreateWorktreeStory, StartStory
  <2>3. CASE Answer \/ ProviderStops \/ IterationLimit \/ Tool \/ Work
    BY <2>3, AnswerStory, ProviderStopsStory, IterationLimitStory, ToolStory, WorkStory
  <2>4. CASE Collect \/ Patch \/ Commands \/ ContainerLeft \/ Integrity
    BY <2>4, CollectStory, PatchStory, CommandsStory, ContainerLeftStory, IntegrityStory
  <2>5. CASE Validation \/ Evaluate \/ PublishEvaluation \/ Persist
    BY <2>5, ValidationStory, EvaluateStory, PublishEvaluationStory, PersistStory
  <2>6. QED BY <1>1, <2>1, <2>2, <2>3, <2>4, <2>5 DEF AttemptStep
<1>2. CASE NextAttempt
  BY <1>2, NextAttemptStory
<1>3. CASE Expire
  BY <1>3, ThrowStory DEF Expire
<1>4. CASE EndAttempt \/ Complete
  BY <1>4, EndAttemptStory, CompleteStory
<1>5. CASE ApplyStep
  BY <1>5, ApplyStepStory
<1>6. CASE Crash
  BY <1>6, CrashStory
<1>7. CASE ApplyRun \/ Abort \/ Deadline \/ Edit \/ UNCHANGED vars
  <2>1. UNCHANGED <<call, run, reports, journal, faults>>
    BY <1>7 DEF ApplyRun, Abort, Deadline, Edit, vars, delegation
  <2>2. Signal => Signal'
    BY <1>7 DEF Signal, ApplyRun, Abort, Deadline, Edit, vars, environment
  <2>3. QED BY <2>1, <2>2, SilentStory
<1>8. QED BY <1>1, <1>2, <1>3, <1>4, <1>5, <1>6, <1>7, NextSteps

LEMMA StoryHolds == Spec => [](Inv /\ StoryInv)
<1>1. Init => StoryInv
  BY InitStory
<1>2. Inv /\ StoryInv /\ [Next]_vars => StoryInv'
  BY StoryKept
<1>3. QED BY <1>1, <1>2, InvHolds, PTL DEF Spec

(* A run that a delegation returned, and that somebody may go on with, is  *)
(* in the store and in the history of its task (executeInWorktree and      *)
(* completeTask against isRunLinked).                                      *)
THEOREM ReturnedRunsAreLinked == Spec => []ReturnedRunIsLinked
<1>1. Inv /\ StoryInv => ReturnedRunIsLinked
  <2> SUFFICES ASSUME StoryInv, call.pc = "returned",
                      \/ call.last.status = "completed"
                      \/ call.last.code \in Verdicts
                      \/ faults = MaxFaults /\ call.last.status \in {"failed", "blocked"}
                            /\ call.last.code \in FallbackCodes \cup {"WORKER_NO_CHANGES"}
               PROVE  call.last \in reports /\ Linked(call.last)
    BY DEF ReturnedRunIsLinked, Verdicts
  <2>1. /\ call.last # NoReport /\ journal.status = call.last.status /\ call.last \in reports
        /\ LastOK(call.task, call.last) /\ LastTold(faults, call.last, journal.last)
    BY DEF StoryInv, LastKnown
  <2>2. Due(faults, call.last)
    BY <2>1 DEF Due, LastOK, FallbackCodes
  <2>3. PatchTold(call.last, journal.last)
    BY <2>1, <2>2 DEF LastTold
  <2>4. PatchLinked(call.last)
    BY <2>3 DEF PatchTold, PatchLinked
  <2>5. QED BY <2>1, <2>4 DEF LastTold, Linked
<1>2. QED BY <1>1, StoryHolds, PTL

(* What the workflow service assumes of the runs it is given is true       *)
(* (executeInWorktree against WorkflowService.runDelegation).              *)
THEOREM OutcomesAreAsAssumed == Spec => []OutcomesAsAssumed
<1>1. Inv /\ StoryInv => OutcomesAsAssumed
  <2> SUFFICES ASSUME StoryInv, call.pc = "returned"
               PROVE  LastOK(call.task, call.last)
    BY DEF OutcomesAsAssumed, LastOK, Verdicts
  <2>1. QED BY DEF StoryInv, LastKnown
<1>2. QED BY <1>1, StoryHolds, PTL

-----------------------------------------------------------------------------
(***************************************************************************)
(* The worktrees.                                                          *)
(***************************************************************************)
LEMMA MoveTrees ==
    ASSUME Inv, WorktreeInv, call.pc \in AttemptPcs \ {"attempt"},
           NEW next \in AttemptPcs \ {"attempt"}, call' = [call EXCEPT !.pc = next],
           UNCHANGED <<worktrees, containers, reports>>, run'.preserve <=> run.preserve
    PROVE  WorktreeInv'
<1>1. call'.pc = next /\ call'.index = call.index
  BY CallMoved
<1>2. next # "worktree"
  BY DEF AttemptPcs
<1>3. QED BY <1>1, <1>2 DEF WorktreeInv

LEMMA ThrownTrees ==
    ASSUME Inv, StoryInv, WorktreeInv, Thrown, UNCHANGED containers,
           \/ reports' = reports
           \/ call.pc = "persist" /\ reports' = reports \cup {RunReport},
           call.pc \notin {"crashed", "uncleaned"}
    PROVE  WorktreeInv'
<1>1. call'.pc \in Gone /\ call'.index = call.index
  BY ThrownFacts
<1>2. call'.pc \notin AttemptPcs \cup {"crashed", "worktree"}
  BY <1>1 DEF AttemptPcs, Gone
<1>3. /\ containers \subseteq worktrees'
      /\ worktrees' \subseteq containers \cup {call.index}
      /\ call'.pc # "uncleaned" => worktrees' \subseteq containers
  <2>1. CASE call.pc \in AttemptPcs /\ ~run.preserve
    <3>1. call.index \notin containers /\ containers \subseteq worktrees
          /\ worktrees \subseteq containers \cup {call.index}
      BY <2>1 DEF WorktreeInv
    <3>2. \/ worktrees' = worktrees \ {call.index}
          \/ worktrees' \in {worktrees, worktrees \cup {call.index}} /\ call'.pc = "uncleaned"
      BY <2>1, CallMoved DEF Thrown, Throw, CleanupThrows, ThrowUncleaned, HasToClean
    <3>3. QED BY <3>1, <3>2
  <2>2. CASE ~(call.pc \in AttemptPcs /\ ~run.preserve)
    <3>1. containers \subseteq worktrees /\ worktrees \subseteq containers
      BY <2>2 DEF WorktreeInv
    <3>2. \/ worktrees' = worktrees
          \/ worktrees' = worktrees \cup {call.index} /\ call'.pc = "uncleaned"
      BY <2>2, CallMoved DEF Thrown, Throw, CleanupThrows, ThrowUncleaned, HasToClean
    <3>3. QED BY <3>1, <3>2
  <2>3. QED BY <2>1, <2>2
<1>4. ASSUME NEW r \in reports'
      PROVE  r.run <= call.index /\ (r.run \in containers => r.patch = 0 /\ r.status # "completed")
  <2>1. CASE r \in reports
    BY <2>1 DEF WorktreeInv
  <2>2. CASE call.pc = "persist" /\ r = RunReport
    <3>1. call.pc \in AttemptPcs /\ call.index \in Nat
      BY <2>2 DEF AttemptPcs, Inv, TypeOK, Call
    <3>2. r.run = call.index /\ r.patch = run.patch /\ r.status = run.status
      BY <2>2 DEF RunReport
    <3>3. call.index \in containers => run.preserve
      BY <3>1 DEF WorktreeInv
    <3>4. run.preserve => run.patch = 0 /\ run.status # "completed"
      BY <3>1 DEF StoryInv, AttemptTold, RunOK, RunChange
    <3>5. QED BY <3>1, <3>2, <3>3, <3>4
  <2>3. QED BY <2>1, <2>2
<1>5. QED BY <1>1, <1>2, <1>3, <1>4 DEF WorktreeInv

LEMMA ThrowTrees ==
    ASSUME Inv, StoryInv, WorktreeInv, Throw, UNCHANGED containers,
           \/ reports' = reports
           \/ call.pc = "persist" /\ reports' = reports \cup {RunReport},
           call.pc \notin {"crashed", "uncleaned"}
    PROVE  WorktreeInv'
BY ThrownTrees DEF Thrown

LEMMA RecordTrees ==
    ASSUME Inv, StoryInv, WorktreeInv, call.pc \in AttemptPcs \ {"attempt"},
           NEW next \in AttemptPcs \ {"attempt"}, NEW e, NEW stopped, NEW attempt,
           Record(e, stopped, next, attempt),
           call'.pc \notin Gone => (run'.preserve <=> run.preserve)
    PROVE  WorktreeInv'
<1>1. UNCHANGED <<containers, reports>> /\ call.pc \notin {"crashed", "uncleaned"} /\ next \notin Gone
  BY DEF Record, environment, AttemptPcs, Gone
<1>2. CASE Throw
  BY <1>1, <1>2, ThrowTrees
<1>3. CASE call' = [call EXCEPT !.pc = next] /\ UNCHANGED worktrees
  <2>1. call'.pc \notin Gone
    BY <1>1, <1>3, CallMoved
  <2>2. QED BY <1>1, <1>3, <2>1, MoveTrees
<1>4. QED BY <1>2, <1>3 DEF Record

LEMMA ContinueTrees ==
    ASSUME Inv, WorktreeInv, call.pc \in AttemptPcs \ {"attempt"},
           NEW next \in AttemptPcs \ {"attempt"}, NEW attempt, Continue(next, attempt),
           run'.preserve <=> run.preserve
    PROVE  WorktreeInv'
BY MoveTrees DEF Continue, environment

(* Up to the validation nothing is preserved.                              *)
LEMMA EarlyTrees ==
    ASSUME Inv, StoryInv, StoryInv', WorktreeInv,
           \/ Start \/ Answer \/ ProviderStops \/ IterationLimit \/ Tool \/ Work \/ Collect \/ Patch
    PROVE  WorktreeInv'
<1> DEFINE early == Before \cup {"patch", "commands"}
<1>1. early \subseteq AttemptPcs \ {"attempt"} /\ early \cap Gone = {}
  BY DEF Before, Thinking, AttemptPcs, Gone
<1>2. /\ call.pc \in early => ~run.preserve
      /\ call'.pc \in early => ~run'.preserve
  BY <1>1 DEF StoryInv, AttemptTold, RunOK, RunChange
<1>3. call.pc \in early
  BY DEF Start, Answer, ProviderStops, IterationLimit, Tool, Work, Collect, Patch, Before, Thinking
<1> HIDE DEF early
<1>4. ASSUME NEW next \in early, NEW e, NEW stopped, NEW attempt, Record(e, stopped, next, attempt)
      PROVE  WorktreeInv'
  <2>1. call'.pc \in {next} \cup Gone
    BY <1>4, CallMoved, ThrownFacts DEF Record, Thrown
  <2>2. call'.pc \notin Gone => (run'.preserve <=> run.preserve)
    BY <1>2, <1>3, <2>1
  <2>3. QED BY <1>1, <1>3, <1>4, <2>2, RecordTrees
<1>5. ASSUME NEW next \in early, NEW attempt, Continue(next, attempt)
      PROVE  WorktreeInv'
  <2>1. call'.pc = next
    BY <1>5, CallMoved DEF Continue
  <2>2. run'.preserve <=> run.preserve
    BY <1>2, <1>3, <2>1
  <2>3. QED BY <1>1, <1>3, <1>5, <2>2, ContinueTrees
<1>6. {"turn", "tools", "work", "collect", "patch", "commands"} \subseteq early
  BY DEF early, Before, Thinking
<1>7. CASE Start
  BY <1>4, <1>6, <1>7 DEF Start
<1>8. CASE Answer
  <2>1. CASE \E n \in 0..MaxTurnTools :
                 Record(TurnEvent("succeeded", n), FALSE, IF n = 0 THEN "work" ELSE "tools",
                        [run EXCEPT !.iteration = @ + 1, !.left = n, !.total = @ + n])
    <3>1. \A n \in 0..MaxTurnTools : (IF n = 0 THEN "work" ELSE "tools") \in early
      BY <1>6
    <3>2. QED BY <1>4, <2>1, <3>1
  <2>2. CASE \E error \in TurnErrors :
                 Record(TurnEvent("failed", 0), FALSE, "work", Failed(error))
    BY <1>4, <1>6, <2>2
  <2>3. QED BY <1>8, <2>1, <2>2 DEF Answer
<1>9. CASE ProviderStops \/ Work
  BY <1>4, <1>6, <1>9 DEF ProviderStops, Work
<1>10. CASE IterationLimit
  BY <1>5, <1>6, <1>10 DEF IterationLimit
<1>11. CASE Tool
  <2>1. (IF run.left = 1 THEN "turn" ELSE "tools") \in early
    BY <1>6
  <2>2. QED BY <1>4, <1>11, <2>1 DEF Tool
<1>12. CASE Collect
  <2>1. (IF run.files = 0 THEN "commands" ELSE "patch") \in early
    BY <1>6
  <2>2. QED BY <1>5, <1>6, <1>12, <2>1 DEF Collect
<1>13. CASE Patch
  <2>1. call' = [call EXCEPT !.pc = "commands"] /\ UNCHANGED <<worktrees, containers, reports>>
    BY <1>13 DEF Patch, environment
  <2>2. call'.pc = "commands"
    BY <2>1, CallMoved
  <2>3. QED BY <1>1, <1>2, <1>3, <1>6, <2>1, <2>2, MoveTrees
<1>14. QED BY <1>7, <1>8, <1>9, <1>10, <1>11, <1>12, <1>13

LEMMA CommandsTrees == ASSUME Inv, StoryInv, WorktreeInv, Commands PROVE WorktreeInv'
<1>1. /\ call.pc = "commands" /\ call.pc \in AttemptPcs \ {"attempt"}
      /\ {"integrity", "validation"} \subseteq AttemptPcs \ {"attempt"} /\ run \in Run
  BY DEF Commands, AttemptPcs, Inv, TypeOK
<1>2. Noticed(run).preserve = run.preserve
  BY <1>1, NoticedFields DEF SameWork
<1>3. Len(call.task.commands) \in Nat
  BY <1>1, TaskTyped DEF Inv, CallInv, Working
<1>4. \A results \in [1..Len(call.task.commands) -> CommandResult] :
          Noticed([run EXCEPT !.results = results]).preserve = run.preserve
  <2> TAKE results \in [1..Len(call.task.commands) -> CommandResult]
  <2> DEFINE q == [run EXCEPT !.results = results]
  <2>1. results \in Seq(CommandResult)
    BY <1>3
  <2>2. q \in Run /\ q.preserve = run.preserve
    BY <1>1, <2>1 DEF Run
  <2> HIDE DEF q
  <2>3. Noticed(q).preserve = run.preserve
    BY <2>2, NoticedFields DEF SameWork
  <2>4. QED BY <2>3 DEF q
<1>5. \A results, error : CommandsFailed(results, error).preserve = run.preserve
  BY <1>1, CommandsFailedFields DEF SameButResults
<1>6. PICK next \in {"integrity", "validation"} :
          \E attempt : Continue(next, attempt) /\ attempt.preserve = run.preserve
  BY <1>2, <1>4, <1>5 DEF Commands
<1>7. PICK attempt : Continue(next, attempt) /\ attempt.preserve = run.preserve
  BY <1>6
<1>8. run'.preserve <=> run.preserve
  BY <1>7 DEF Continue
<1>9. QED BY <1>1, <1>7, <1>8, ContinueTrees

LEMMA ContainerLeftTrees ==
    ASSUME Inv, StoryInv, WorktreeInv, ContainerLeft
    PROVE  WorktreeInv'
<1>1. /\ call.pc = "commands" /\ call.pc \in AttemptPcs \ {"attempt"}
      /\ call'.pc = "validation" /\ call'.index = call.index /\ call.index \in Nat
      /\ containers' = containers \cup {call.index} /\ UNCHANGED <<worktrees, reports>>
  BY CallMoved DEF ContainerLeft, AttemptPcs, Inv, TypeOK, Call
<1>2. PICK n \in 0..(Len(call.task.commands) - 1) : \E results \in [1..n -> CommandResult] :
          run' = [CommandsFailed(results, "DOCKER_CONTAINER_CLEANUP_FAILED") EXCEPT
                    !.preserve = TRUE, !.patch = 0]
  BY DEF ContainerLeft
<1>3. run'.preserve
  <2>1. PICK results \in [1..n -> CommandResult] :
          run' = [CommandsFailed(results, "DOCKER_CONTAINER_CLEANUP_FAILED") EXCEPT
                    !.preserve = TRUE, !.patch = 0]
    BY <1>2
  <2>2. CommandsFailed(results, "DOCKER_CONTAINER_CLEANUP_FAILED") \in Run
    BY <1>1, CutShort, <2>1 DEF ContainerLeft
  <2>3. QED BY <2>1, <2>2 DEF Run
<1>4. \A r \in reports : r.run < call.index /\ r.run \in Nat
  BY <1>1 DEF WorktreeInv, Inv, TypeOK, Report
<1>5. \A r \in reports : r.run \in containers' => r.run \in containers
  BY <1>1, <1>4
<1>6. "validation" \in AttemptPcs \ {"attempt", "worktree", "crashed"}
  BY DEF AttemptPcs
<1>7. QED BY <1>1, <1>3, <1>4, <1>5, <1>6 DEF WorktreeInv

LEMMA CheckedTrees ==
    ASSUME Inv, StoryInv, WorktreeInv, Integrity \/ Validation \/ Evaluate \/ PublishEvaluation
    PROVE  WorktreeInv'
<1>1. /\ call.pc \in AttemptPcs \ {"attempt"} /\ call.pc \notin {"crashed", "uncleaned"} /\ run \in Run
      /\ {"validation", "evaluate", "evaluation", "persist"} \subseteq AttemptPcs \ {"attempt"}
  BY DEF Integrity, Validation, Evaluate, PublishEvaluation, AttemptPcs, Inv, TypeOK
<1>2. CASE Integrity
  <2>1. StopError \in {"AbortError", "TimeoutError"}
    BY DEF StopError
  <2>2. ASSUME NEW error \in {"HARNESS_ERROR", "PATCH_TOO_LARGE", "AbortError", "TimeoutError"}
        PROVE  Settled(Caught(run, error)).preserve = run.preserve
    <3>1. error \in TurnErrors \cup {"AbortError", "TimeoutError", "PATCH_TOO_LARGE"}
      BY DEF TurnErrors
    <3>2. Caught(run, error) \in Run /\ Caught(run, error).preserve = run.preserve
      BY <1>1, <3>1, CaughtFields DEF SameWork
    <3>3. QED BY <3>2, SettledFields DEF SameWork
  <2>3. Settled(run).preserve = run.preserve
    BY <1>1, SettledFields DEF SameWork
  <2>4. PICK attempt : Continue("validation", attempt) /\ attempt.preserve = run.preserve
    BY <1>2, <2>1, <2>2, <2>3 DEF Integrity
  <2>5. run'.preserve <=> run.preserve
    BY <2>4 DEF Continue
  <2>6. QED BY <1>1, <2>4, <2>5, ContinueTrees
<1>3. CASE Validation
  <2>1. Blocked(run).preserve = run.preserve
    BY <1>1, BlockedFields DEF SameWork
  <2>2. Record(ValidationEvent, FALSE, "evaluate", Blocked(run))
    BY <1>3 DEF Validation
  <2>3. run' = Blocked(run) \/ call'.pc \in Gone
    BY <2>2, ThrownFacts DEF Record, Thrown
  <2>4. QED BY <1>1, <2>1, <2>2, <2>3, RecordTrees
<1>4. CASE Evaluate
  <2>1. ASSUME Throw, UNCHANGED <<environment, reports>>
        PROVE  WorktreeInv'
    BY <1>1, <2>1, ThrowTrees DEF environment
  <2>2. ASSUME NEW attempt \in Run, attempt.preserve = run.preserve, NEW results,
               Continue("evaluation", Evaluated(attempt, results))
        PROVE  WorktreeInv'
    <3>1. run' = Evaluated(attempt, results)
      BY <2>2 DEF Continue
    <3>2. run'.preserve <=> run.preserve
      BY <2>2, <3>1, EvaluatedFields
    <3>3. QED BY <1>1, <2>2, <3>2, ContinueTrees
  <2> DEFINE stopped == [run EXCEPT !.status = classifyRunError("AbortError"),
                                    !.code = "WORKER_ABORTED"]
  <2>3. stopped \in Run /\ stopped.preserve = run.preserve
    BY <1>1, StatusesTyped DEF Run, FailureCodes
  <2> HIDE DEF stopped
  <2>4. \/ Continue("evaluation", Evaluated(stopped, <<DeterministicResult(Input(stopped))>>))
        \/ \E others : Continue("evaluation",
                                Evaluated(run, <<DeterministicResult(Input(run))>> \o others))
        \/ Throw /\ UNCHANGED <<environment, reports>>
    BY <1>4 DEF Evaluate, stopped
  <2>5. QED BY <1>1, <2>1, <2>2, <2>3, <2>4
<1>5. CASE PublishEvaluation
  <2>1. Record(EvaluationEvent, Withdrawn, "persist", run)
    BY <1>5 DEF PublishEvaluation
  <2>2. run' = run \/ call'.pc \in Gone
    BY <2>1, ThrownFacts DEF Record, Thrown
  <2>3. QED BY <1>1, <2>1, <2>2, RecordTrees
<1>6. QED BY <1>2, <1>3, <1>4, <1>5

LEMMA OutsideTrees ==
    ASSUME WorktreeInv, call.pc \notin AttemptPcs \cup {"crashed", "uncleaned"},
           call'.pc \notin AttemptPcs \cup {"worktree"}, call'.index = call.index,
           UNCHANGED <<worktrees, containers, reports>>
    PROVE  WorktreeInv'
BY DEF WorktreeInv

LEMMA NextAttemptTrees == ASSUME Inv, StoryInv, WorktreeInv, NextAttempt PROVE WorktreeInv'
<1>1. /\ call.pc = "loop" /\ call \in Call /\ call.index \in Nat /\ reports \subseteq Report
      /\ UNCHANGED <<containers, reports>>
      /\ call.pc \notin AttemptPcs \cup {"crashed", "uncleaned"}
  BY DEF NextAttempt, Inv, TypeOK, Call, AttemptPcs, environment
<1>2. CASE Throw
  BY <1>1, <1>2, ThrowTrees
<1>3. CASE /\ ~aborted /\ clock = "early" /\ UNCHANGED worktrees
           /\ call' = [call EXCEPT !.pc = "worktree", !.index = call.index + 1]
  <2>1. call'.pc = "worktree" /\ call'.index = call.index + 1
    BY <1>1, <1>3 DEF Call
  <2>2. /\ containers \subseteq worktrees /\ worktrees \subseteq containers
        /\ \A i \in containers : i <= call.index
        /\ \A r \in reports : r.run <= call.index
        /\ \A r \in reports : r.run \in containers => r.patch = 0 /\ r.status # "completed"
    BY <1>1 DEF WorktreeInv
  <2>3. containers \subseteq Nat /\ \A r \in reports : r.run \in Nat
    BY <1>1 DEF Inv, TypeOK, Report
  <2>4. /\ \A i \in containers : i <= call'.index /\ i # call'.index
        /\ \A r \in reports : r.run <= call'.index /\ r.run < call'.index
    BY <1>1, <2>1, <2>2, <2>3
  <2>5. call'.pc \notin AttemptPcs \cup {"crashed", "uncleaned"}
    BY <2>1 DEF AttemptPcs
  <2>6. QED BY <1>1, <1>3, <2>1, <2>2, <2>4, <2>5 DEF WorktreeInv
<1>4. CASE /\ ~aborted /\ UNCHANGED worktrees
           /\ \E pc \in {"expired", "complete"} : call' = [call EXCEPT !.pc = pc, !.index = call.index]
  <2>1. call'.pc \in {"expired", "complete"} /\ call'.index = call.index
    BY <1>1, <1>4 DEF Call
  <2>2. call'.pc \notin AttemptPcs \cup {"worktree"}
    BY <2>1 DEF AttemptPcs
  <2>3. QED BY <1>1, <1>4, <2>1, <2>2, OutsideTrees
<1>5. QED
  <2>1. CASE aborted
    BY <1>2, <2>1 DEF NextAttempt
  <2>2. CASE ~aborted /\ clock = "early"
    BY <1>1, <1>3, <2>2 DEF NextAttempt, Call
  <2>3. CASE ~aborted /\ clock # "early"
    <3> DEFINE pc == IF call.last = NoReport THEN "expired" ELSE "complete"
    <3>1. call' = [call EXCEPT !.pc = pc, !.index = call.index] /\ UNCHANGED worktrees
      BY <1>1, <2>3 DEF NextAttempt, Call
    <3>2. pc \in {"expired", "complete"}
      OBVIOUS
    <3> HIDE DEF pc
    <3>3. QED BY <1>4, <2>3, <3>1, <3>2
  <2>4. QED BY <2>1, <2>2, <2>3

LEMMA CreateWorktreeTrees ==
    ASSUME Inv, StoryInv, WorktreeInv, CreateWorktree
    PROVE  WorktreeInv'
<1>1. /\ call.pc = "worktree" /\ UNCHANGED <<containers, reports>>
      /\ call.pc \notin AttemptPcs \cup {"crashed", "uncleaned"}
  BY DEF CreateWorktree, AttemptPcs, environment
<1>2. CASE Thrown
  BY <1>1, <1>2, ThrownTrees
<1>3. CASE /\ worktrees' = worktrees \cup {call.index}
           /\ call' = [call EXCEPT !.pc = "start"]
           /\ run' = [NoRun EXCEPT !.files = call.task.seed]
  <2>1. call'.pc = "start" /\ call'.index = call.index /\ ~run'.preserve
    BY <1>3, CallMoved DEF NoRun
  <2>2. "start" \in AttemptPcs
    BY DEF AttemptPcs
  <2>3. QED BY <1>1, <1>3, <2>1, <2>2 DEF WorktreeInv
<1>4. QED BY <1>2, <1>3 DEF CreateWorktree, Thrown

LEMMA PersistTrees == ASSUME Inv, StoryInv, WorktreeInv, Persist PROVE WorktreeInv'
<1>1. /\ call.pc = "persist" /\ call.pc \in AttemptPcs /\ UNCHANGED containers
      /\ call.pc \notin {"crashed", "uncleaned"} /\ call.index \in Nat
  BY DEF Persist, AttemptPcs, environment, Inv, TypeOK, Call
<1>2. CASE Throw
  BY <1>1, <1>2, ThrowTrees DEF Persist
<1>3. CASE /\ reports' = reports \cup {RunReport}
           /\ call' = [call EXCEPT !.pc = "attempt"]
           /\ UNCHANGED <<faults, run, worktrees, holder>>
  <2>1. call'.pc = "attempt" /\ call'.index = call.index
    BY <1>3, CallMoved
  <2>2. /\ RunReport.run = call.index /\ RunReport.patch = run.patch
        /\ RunReport.status = run.status
    BY DEF RunReport
  <2>3. run.preserve => run.patch = 0 /\ run.status # "completed"
    BY <1>1 DEF StoryInv, AttemptTold, RunOK, RunChange
  <2>4. ASSUME NEW r \in reports'
        PROVE  r.run <= call.index /\ (r.run \in containers => r.patch = 0 /\ r.status # "completed")
    BY <1>1, <1>3, <2>2, <2>3, <2>4 DEF WorktreeInv
  <2>5. call'.pc \in AttemptPcs /\ call'.pc \notin {"worktree"} \cup (AttemptPcs \ {"attempt"})
    BY <2>1 DEF AttemptPcs
  <2>6. QED BY <1>1, <1>3, <2>1, <2>4, <2>5 DEF WorktreeInv
<1>4. QED BY <1>2, <1>3 DEF Persist

LEMMA EndAttemptTrees == ASSUME Inv, StoryInv, WorktreeInv, EndAttempt PROVE WorktreeInv'
<1>1. /\ call.pc = "attempt" /\ call.pc \in AttemptPcs /\ UNCHANGED <<containers, reports>>
      /\ call.pc \notin {"crashed", "uncleaned"} /\ call \in Call
  BY DEF EndAttempt, AttemptPcs, environment, Inv, TypeOK
<1>2. CASE Throw
  BY <1>1, <1>2, ThrowTrees
<1>3. CASE /\ call' = [call EXCEPT !.pc = IF shouldFallback THEN "loop" ELSE "complete",
                                   !.last = RunReport]
           /\ worktrees' = IF run.preserve THEN worktrees ELSE worktrees \ {call.index}
  <2>1. call'.pc \in {"loop", "complete"} /\ call'.index = call.index
    BY <1>1, <1>3 DEF Call
  <2>2. containers' \subseteq worktrees' /\ worktrees' \subseteq containers'
    BY <1>1, <1>3 DEF WorktreeInv
  <2>3. call'.pc \notin AttemptPcs \cup {"crashed", "uncleaned", "worktree"}
    BY <2>1 DEF AttemptPcs
  <2>4. QED BY <1>1, <2>1, <2>2, <2>3 DEF WorktreeInv
<1>4. QED BY <1>2, <1>3 DEF EndAttempt, Throw

LEMMA TreesKept ==
    ASSUME Inv, StoryInv, WorktreeInv, [Next]_vars
    PROVE  WorktreeInv'
<1>1. StoryInv'
  BY StoryKept
<1>2. CASE Delegate \/ Create \/ Route \/ Complete
  <2>1. /\ call.pc \in {"idle", "create", "route", "complete"}
        /\ UNCHANGED <<containers, reports>>
    BY <1>2 DEF Delegate, Create, Route, Complete, Record, environment
  <2>2. call.pc \notin AttemptPcs \cup {"crashed", "uncleaned"} /\ call.pc \notin {"crashed", "uncleaned"}
    BY <2>1 DEF AttemptPcs
  <2>3. CASE Throw
    BY <2>1, <2>2, <2>3, ThrowTrees
  <2>4. CASE /\ \E next \in {"create", "route", "loop", "returned"} :
                    \/ call' = [call EXCEPT !.pc = next]
                    \/ \E t \in Tasks : call' = [call EXCEPT !.pc = next, !.task = t]
             /\ UNCHANGED worktrees
    <3>1. call'.pc \in {"create", "route", "loop", "returned"} /\ call'.index = call.index
      BY <2>4 DEF Inv, TypeOK, Call
    <3>2. call'.pc \notin AttemptPcs \cup {"worktree"}
      BY <3>1 DEF AttemptPcs
    <3>3. QED BY <2>1, <2>2, <2>4, <3>1, <3>2, OutsideTrees
  <2>5. QED BY <1>2, <2>3, <2>4 DEF Delegate, Create, Route, Complete, Record
<1>3. CASE Start \/ Answer \/ ProviderStops \/ IterationLimit \/ Tool \/ Work \/ Collect \/ Patch
  BY <1>1, <1>3, EarlyTrees
<1>4. CASE Commands \/ ContainerLeft \/ Integrity \/ Validation \/ Evaluate \/ PublishEvaluation
  BY <1>4, CommandsTrees, ContainerLeftTrees, CheckedTrees
<1>5. CASE NextAttempt \/ CreateWorktree \/ Persist \/ EndAttempt
  BY <1>5, NextAttemptTrees, CreateWorktreeTrees, PersistTrees, EndAttemptTrees
<1>6. CASE Expire
  <2>1. Throw /\ UNCHANGED <<containers, reports>> /\ call.pc \notin {"crashed", "uncleaned"}
    BY <1>6 DEF Expire, environment
  <2>2. QED BY <2>1, ThrowTrees
<1>7. CASE Crash /\ holder = "delegate"
  <2>1. call'.pc = "crashed" /\ call'.index = call.index
        /\ UNCHANGED <<worktrees, containers, reports>>
    BY <1>7, CallMoved DEF Crash
  <2>2. call'.pc \notin AttemptPcs \cup {"worktree"}
    BY <2>1 DEF AttemptPcs
  <2>3. QED BY <2>1, <2>2 DEF WorktreeInv
<1>8. CASE \/ Crash /\ holder # "delegate"
           \/ ApplyRun \/ ApplyStep \/ Abort \/ Deadline \/ Edit \/ UNCHANGED vars
  <2>1. UNCHANGED <<call, run, worktrees, containers, reports>>
    BY <1>8, ApplicationWrites DEF Crash, ApplyRun, ApplyStep, RequestApplication, CheckRepository,
       Approve, PatchRepository, RecordApplied, Reject, Abort, Deadline, Edit, vars, delegation,
       environment
  <2>2. QED BY <2>1 DEF WorktreeInv
<1>9. QED BY <1>2, <1>3, <1>4, <1>5, <1>6, <1>7, <1>8, NextSteps DEF AttemptStep

LEMMA InitTrees == Init => WorktreeInv
<1> SUFFICES ASSUME Init PROVE WorktreeInv
  OBVIOUS
<1>1. call.pc = "idle" /\ reports = {} /\ worktrees = {} /\ containers = {}
  BY DEF Init
<1>2. QED BY <1>1 DEF WorktreeInv, AttemptPcs

(* A delegation that returns, or throws an error of its attempts, has no   *)
(* worktree on disk but those that a container may still write to; until   *)
(* then, or when the creation or the removal of a worktree throws, there is*)
(* at most one besides (executeInWorktree's finally, WorktreeManager).     *)
THEOREM WorktreesGoAway == Spec => []WorktreesAreCleaned
<1>1. Init => WorktreeInv
  BY InitTrees
<1>2. Inv /\ StoryInv /\ WorktreeInv /\ [Next]_vars => WorktreeInv'
  BY TreesKept
<1>3. WorktreeInv => WorktreesAreCleaned
  BY DEF WorktreeInv, WorktreesAreCleaned, AttemptPcs
<1>4. QED BY <1>1, <1>2, <1>3, StoryHolds, PTL DEF Spec

-----------------------------------------------------------------------------
(***************************************************************************)
(* What the service asks the journal to take.                              *)
(***************************************************************************)
LEMMA ExecutionKeepsRequest ==
    ASSUME NEW t \in Projection, NEW e, e.type \in ExecutionEvents
    PROVE  ProjectEvent(t, e).applicationRun = t.applicationRun
BY DEF ExecutionEvents, ProjectEvent, Projection, ProjectRoute, ProjectStart, ProjectTurn,
       ProjectToolCall, ProjectWork, ProjectPatch, ProjectValidation, ProjectEvaluation,
       ProjectAttemptEnd, ProjectTaskEnd

LEMMA OnlyRequestsSetTheRun ==
    ASSUME NEW t \in Projection, NEW e, e.type \in ApplicationEvents
    PROVE  ProjectEvent(t, e).applicationRun =
              IF e.type = "PatchApplicationRequested" THEN e.run ELSE t.applicationRun
BY DEF ApplicationEvents, ProjectEvent, Projection, ProjectRequest, ProjectApproval,
       ProjectApplied, ProjectRejection

(* An application that is being recorded is the one the journal has.       *)
LEMMA RequestKept ==
    ASSUME Inv, RequestInv, [Next]_vars
    PROVE  RequestInv'
<1>1. app \in Application /\ journal \in Projection
  BY DEF Inv, TypeOK
<1>2. CASE UNCHANGED app /\ Writes(ExecutionEvents)
  BY <1>1, <1>2, ExecutionKeepsRequest DEF Writes, RequestInv
<1>3. CASE AttemptStep \/ NextAttempt \/ Expire \/ EndAttempt \/ Complete
  BY <1>2, <1>3, DelegationWrites
<1>4. CASE Abort \/ Deadline \/ Edit \/ UNCHANGED vars
  BY <1>2, <1>4 DEF Abort, Deadline, Edit, application, vars, Writes
<1>5. CASE ApplyRun
  BY <1>5 DEF ApplyRun, RequestInv
<1>6. ASSUME app'.recording => app.recording, app'.report = app.report,
             journal'.applicationRun \in {journal.applicationRun, app.report.run}
      PROVE  RequestInv'
  BY <1>6 DEF RequestInv
<1>7. CASE Crash
  <2>1. journal' = journal
    BY <1>7 DEF Crash
  <2>2. app' = app \/ app' = [app EXCEPT !.pc = "idle"]
    BY <1>7 DEF Crash, Proceed
  <2>3. app'.recording = app.recording /\ app'.report = app.report
    BY <1>1, <2>2 DEF Application
  <2>4. QED BY <1>6, <2>1, <2>3
<1>8. CASE ApplyStep
  <2> DEFINE Event(type) == [type |-> type, run |-> app.report.run]
             applied     == [type |-> "PatchApplied", run |-> app.report.run,
                             files |-> app.report.changed]
             events      == {Event("PatchApplicationRequested"), Event("PatchApproved"),
                             Event("PatchApplicationRejected"), applied}
  <2>1. \A e \in events : e.run = app.report.run /\ e.type \in ApplicationEvents
    BY DEF ApplicationEvents
  <2>2. \/ journal' = journal
        \/ \E e \in events : Appended(e, FALSE) \/ NotAppended(e, FALSE)
    BY <1>8 DEF ApplyStep, RequestApplication, CheckRepository, Approve, PatchRepository,
                RecordApplied, Reject
  <2> HIDE DEF events
  <2>3. journal'.applicationRun \in {journal.applicationRun, app.report.run}
    BY <1>1, <2>1, <2>2, OnlyRequestsSetTheRun DEF Appended, NotAppended
  <2>4. app'.report = app.report
    BY <1>1, <1>8 DEF Application, ApplyStep, RequestApplication, CheckRepository, Approve,
                      PatchRepository, RecordApplied, Reject, Finish, Proceed
  <2>5. CASE app'.recording => app.recording
    BY <1>6, <2>3, <2>4, <2>5
  <2>6. CASE app'.recording /\ ~app.recording
    <3>1. RequestApplication
      BY <1>1, <1>8, <2>6 DEF Application, ApplyStep, CheckRepository, Approve,
                              PatchRepository, RecordApplied, Reject, Finish, Proceed
    <3>2. Appended([type |-> "PatchApplicationRequested", run |-> app.report.run], FALSE)
      BY <1>1, <2>6, <3>1 DEF Application, RequestApplication, Finish, Proceed
    <3>3. journal'.applicationRun = app.report.run
      BY <1>1, <3>2, OnlyRequestsSetTheRun DEF Appended, ApplicationEvents
    <3>4. QED BY <2>4, <3>3 DEF RequestInv
  <2>7. QED BY <2>5, <2>6
<1>9. QED BY <1>3, <1>4, <1>5, <1>7, <1>8, NextSteps

LEMMA ApplicationEventsAllowed ==
    ASSUME Inv, PassedInv, HistoryInv, RequestInv, app.recording, NEW e \in AskedOfApplication
    PROVE  EventAllowed(journal, e)
<1>1. journal.applicationRun = app.report.run
  BY DEF RequestInv
<1> DEFINE Event(type) == [type |-> type, run |-> app.report.run]
           applied     == [type |-> "PatchApplied", run |-> app.report.run,
                           files |-> app.report.changed]
<1>2. CASE app.pc = "approve"
  <2>1. journal.application = "pending"
    BY <1>2 DEF HistoryInv
  <2>2. e.type \in {"PatchApproved", "PatchApplicationRejected"} /\ e.run = app.report.run
    BY <1>2 DEF AskedOfApplication
  <2>3. QED BY <1>1, <2>1, <2>2 DEF EventAllowed, ApprovalAllowed, RejectionAllowed, ExecutionEvents
<1>3. CASE app.pc = "reject"
  <2>1. journal.application \in {"pending", "approved"}
    BY <1>3 DEF HistoryInv
  <2>2. e.type = "PatchApplicationRejected" /\ e.run = app.report.run
    BY <1>3 DEF AskedOfApplication
  <2>3. QED BY <1>1, <2>1, <2>2 DEF EventAllowed, RejectionAllowed, ExecutionEvents
<1>4. CASE app.pc = "applied"
  <2>1. journal.application = "approved"
    BY <1>4 DEF HistoryInv
  <2>2. /\ e.type = "PatchApplied" /\ e.run = app.report.run
        /\ e.files = app.report.changed
    BY <1>4 DEF AskedOfApplication
  <2>3. Linked(app.report) /\ app.report.patch # 0
    BY <1>4 DEF PassedInv, ApplyPcs
  <2>4. journal.last.patch = app.report.changed
    BY <2>3 DEF Linked, PatchLinked
  <2>5. QED BY <1>1, <2>1, <2>2, <2>4 DEF EventAllowed, AppliedAllowed, ExecutionEvents
<1>5. QED BY <1>2, <1>3, <1>4 DEF AskedOfApplication

(***************************************************************************)
(* Evaluators that keep to dimensions of their own never say of one that it*)
(* failed and that it is unknown.                                          *)
(***************************************************************************)
ReviewsDisjoint ==
    \A others \in Reviews : \A i \in 1..Len(others) :
        /\ DOMAIN others[i] \cap DeterministicDimensions = {}
        /\ \A j \in 1..Len(others) : i # j => DOMAIN others[i] \cap DOMAIN others[j] = {}

DisjointInv == call.pc \in Assessed => run.failed \cap run.unknown = {}

LEMMA ElementsAfter ==
    ASSUME NEW first, NEW others, others \in Seq(Elements(others)),
           NEW r \in Elements(<<first>> \o others)
    PROVE  r = first \/ \E i \in 1..Len(others) : r = others[i]
<1> DEFINE S == Elements(others) \cup {first}
           results == <<first>> \o others
<1>1. <<first>> \in Seq(S) /\ others \in Seq(S) /\ Len(<<first>>) = 1 /\ <<first>>[1] = first
  OBVIOUS
<1> HIDE DEF S
<1>2. /\ Len(results) = 1 + Len(others) /\ Len(others) \in Nat
      /\ \A k \in 1..Len(results) : results[k] = IF k <= 1 THEN <<first>>[k] ELSE others[k - 1]
  BY <1>1
<1> HIDE DEF results
<1>3. PICK k \in 1..Len(results) : r = results[k]
  BY DEF Elements, results
<1>4. CASE k = 1
  BY <1>1, <1>2, <1>3, <1>4
<1>5. CASE k # 1
  BY <1>2, <1>3, <1>5
<1>6. QED BY <1>4, <1>5

LEMMA DimensionsDisjoint ==
    ASSUME ReviewsDisjoint, NEW others \in Reviews, NEW first,
           DOMAIN first = DeterministicDimensions
    PROVE  LET results == <<first>> \o others
           IN CollectDimensions(results, "failed") \cap CollectDimensions(results, "unknown") = {}
<1> DEFINE results == <<first>> \o others
<1>1. others \in Seq(Elements(others))
  BY ReviewsAssumption
<1>2. \A r \in Elements(results) : r = first \/ \E i \in 1..Len(others) : r = others[i]
  BY <1>1, ElementsAfter
<1> SUFFICES ASSUME NEW d, d \in CollectDimensions(results, "failed"),
                    d \in CollectDimensions(results, "unknown")
             PROVE  FALSE
  OBVIOUS
<1> HIDE DEF results
<1>3. PICK r \in Elements(results) : d \in Having(r, "failed")
  BY DEF CollectDimensions
<1>4. PICK q \in Elements(results) : d \in Having(q, "unknown")
  BY DEF CollectDimensions
<1>5. d \in DOMAIN r /\ r[d] = "failed" /\ d \in DOMAIN q /\ q[d] = "unknown"
  BY <1>3, <1>4 DEF Having
<1>6. r # q
  BY <1>5
<1>7. CASE r = first
  <2>1. PICK i \in 1..Len(others) : q = others[i]
    BY <1>2, <1>6, <1>7
  <2>2. QED BY <1>5, <1>7, <2>1 DEF ReviewsDisjoint
<1>8. CASE r # first
  <2>1. PICK i \in 1..Len(others) : r = others[i]
    BY <1>2, <1>8
  <2>2. CASE q = first
    BY <1>5, <2>1, <2>2 DEF ReviewsDisjoint
  <2>3. CASE q # first
    <3>1. PICK j \in 1..Len(others) : q = others[j]
      BY <1>2, <2>3
    <3>2. QED BY <1>5, <1>6, <2>1, <3>1 DEF ReviewsDisjoint
  <2>4. QED BY <2>2, <2>3
<1>9. QED BY <1>7, <1>8

(* Only the evaluation brings an attempt among the assessed ones.          *)
LEMMA MovesOutside ==
    ASSUME Inv, NEW next, next \notin Assessed, call' = [call EXCEPT !.pc = next] \/ Thrown
    PROVE  call'.pc \notin Assessed
BY CallMoved, ThrownFacts DEF Assessed, Gone

LEMMA AssessedByEvaluation ==
    ASSUME Inv, [Next]_vars, call'.pc \in Assessed
    PROVE  Evaluate \/ (call.pc \in Assessed /\ run' = run)
<1> DEFINE Outside == {"idle", "create", "route", "loop", "worktree", "expired", "complete",
                       "returned", "crashed", "start", "turn", "tools", "work", "collect",
                       "patch", "commands", "integrity", "validation", "evaluate"}
<1>1. \A next \in Outside : next \notin Assessed
  BY DEF Assessed
<1>2. CASE Create \/ Route \/ Start \/ Answer \/ ProviderStops \/ IterationLimit \/ Tool \/ Work
  <2>1. \E next \in Outside : call' = [call EXCEPT !.pc = next] \/ Thrown
    BY <1>2 DEF Create, Route, Start, Answer, ProviderStops, IterationLimit, Tool, Work, Record,
                Continue, Thrown
  <2> HIDE DEF Outside
  <2>2. QED BY <1>1, <2>1, MovesOutside
<1>3. CASE Collect \/ Patch \/ Commands \/ ContainerLeft \/ Integrity \/ Validation \/ Expire
  <2>1. \E next \in Outside : call' = [call EXCEPT !.pc = next] \/ Thrown
    BY <1>3 DEF Collect, Patch, Commands, ContainerLeft, Integrity, Validation, Expire, Record,
                Continue, Thrown
  <2> HIDE DEF Outside
  <2>2. QED BY <1>1, <2>1, MovesOutside
<1>4. CASE Delegate \/ NextAttempt \/ CreateWorktree \/ EndAttempt \/ Complete
  <2>1. \/ call'.pc \in Outside
        \/ Thrown
    BY <1>4 DEF Inv, TypeOK, Call, Delegate, NextAttempt, CreateWorktree, EndAttempt, Complete,
                Throw, Thrown
  <2> HIDE DEF Outside
  <2>2. Thrown => call'.pc \notin Assessed
    BY ThrownFacts DEF Assessed, Gone
  <2>3. QED BY <1>1, <2>1, <2>2
<1>5. CASE PublishEvaluation
  <2>1. call.pc \in Assessed /\ (Thrown \/ run' = run)
    BY <1>5 DEF PublishEvaluation, Record, Assessed, Thrown
  <2>2. Thrown => call'.pc \notin Assessed
    BY ThrownFacts DEF Assessed, Gone
  <2>3. QED BY <2>1, <2>2
<1>6. CASE Persist
  <2>1. call.pc \in Assessed /\ (Thrown \/ run' = run)
    BY <1>6 DEF Persist, Assessed, Thrown
  <2>2. Thrown => call'.pc \notin Assessed
    BY ThrownFacts DEF Assessed, Gone
  <2>3. QED BY <2>1, <2>2
<1>7. CASE Crash
  <2>1. \/ call' = [call EXCEPT !.pc = "crashed"]
        \/ UNCHANGED <<call, run>>
    BY <1>7 DEF Crash
  <2>2. [call EXCEPT !.pc = "crashed"].pc \notin Assessed
    BY CallMoved DEF Assessed
  <2>3. QED BY <2>1, <2>2
<1>8. CASE ApplyRun \/ ApplyStep \/ Abort \/ Deadline \/ Edit \/ UNCHANGED vars
  <2>1. UNCHANGED <<call, run>>
    BY <1>8, ApplicationWrites DEF ApplyRun, Abort, Deadline, Edit, vars, delegation
  <2>2. QED BY <2>1
<1>9. QED BY <1>2, <1>3, <1>4, <1>5, <1>6, <1>7, <1>8, NextSteps DEF AttemptStep

LEMMA DisjointKept ==
    ASSUME Inv, DisjointInv, ReviewsDisjoint, [Next]_vars
    PROVE  DisjointInv'
<1> SUFFICES ASSUME call'.pc \in Assessed
             PROVE  run'.failed \cap run'.unknown = {}
  BY DEF DisjointInv
<1>1. CASE call.pc \in Assessed /\ run' = run
  BY <1>1 DEF DisjointInv
<1>2. CASE Evaluate
  <2>1. run \in Run
    BY DEF Inv, TypeOK
  <2>2. ASSUME NEW attempt \in Run, NEW others \in Reviews \cup {<<>>},
               run' = Evaluated(attempt, <<DeterministicResult(Input(attempt))>> \o others)
        PROVE  run'.failed \cap run'.unknown = {}
    <3> DEFINE first   == DeterministicResult(Input(attempt))
               results == <<first>> \o others
    <3>1. DOMAIN first = DeterministicDimensions
      BY DEF DeterministicResult
    <3> HIDE DEF first
    <3>2. CollectDimensions(results, "failed") \cap CollectDimensions(results, "unknown") = {}
      <4>1. CASE others \in Reviews
        BY <3>1, <4>1, DimensionsDisjoint
      <4>2. CASE others = <<>>
        <5>1. others \in Seq(Elements(others)) /\ 1..Len(others) = {}
          BY <4>2
        <5>2. \A r \in Elements(results) : r = first
          BY <5>1, ElementsAfter
        <5> HIDE DEF results
        <5>3. QED BY <5>2 DEF CollectDimensions, Having
      <4>3. QED BY <4>1, <4>2
    <3> HIDE DEF results
    <3>3. /\ Evaluated(attempt, results).failed = CollectDimensions(results, "failed")
          /\ Evaluated(attempt, results).unknown = CollectDimensions(results, "unknown")
      BY EvaluatedFields
    <3>4. QED BY <2>2, <3>2, <3>3 DEF results, first
  <2> DEFINE status  == classifyRunError("AbortError")
             stopped == [run EXCEPT !.status = status, !.code = "WORKER_ABORTED"]
  <2>3. CASE Continue("evaluation", Evaluated(stopped, <<DeterministicResult(Input(stopped))>>))
    <3>1. status \in RunStatuses
      BY ErrorsClassified DEF RunStatuses
    <3> HIDE DEF status
    <3>2. stopped \in Run
      BY <2>1, <3>1 DEF Run, FailureCodes
    <3> HIDE DEF stopped
    <3> DEFINE first == DeterministicResult(Input(stopped))
    <3>3. <<first>> \o <<>> = <<first>>
      <4> HIDE DEF first
      <4>1. QED OBVIOUS
    <3>4. run' = Evaluated(stopped, <<first>> \o <<>>)
      BY <2>3, <3>3 DEF Continue
    <3>5. QED BY <2>2, <3>2, <3>4
  <2>4. ASSUME NEW others \in Reviews,
               Continue("evaluation", Evaluated(run, <<DeterministicResult(Input(run))>> \o others))
        PROVE  run'.failed \cap run'.unknown = {}
    BY <2>1, <2>2, <2>4 DEF Continue
  <2>5. ~Throw
    BY ThrownFacts DEF Thrown, Assessed, Gone
  <2> HIDE DEF stopped
  <2>6. QED BY <1>2, <2>3, <2>4, <2>5 DEF Evaluate, stopped
<1>3. QED BY <1>1, <1>2, AssessedByEvaluation

(***************************************************************************)
(* The events of the delegation, each where it is asked for.               *)
(***************************************************************************)
LEMMA RouteAsked ==
    ASSUME Inv, StoryInv, call.pc = "route"
    PROVE  EventAllowed(journal, RouteEvent)
<1>1. journal = InitialProjection
  BY DEF StoryInv, TaskTold, Unrouted
<1>2. call.task \in Tasks
  BY DEF Inv, CallInv, Working
<1>3. ValidRoute(call.task)
  BY <1>2, LimitsAssumption
<1>4. ValidRoute(RouteEvent) /\ RouteEvent.type = "RouteSelected"
  BY <1>3 DEF ValidRoute, RouteEvent
<1>5. QED BY <1>1, <1>4 DEF EventAllowed, RouteAllowed, InitialProjection, NoAttempt

LEMMA StartAsked ==
    ASSUME Inv, StoryInv, call.pc = "start"
    PROVE  EventAllowed(journal, StartEvent)
<1>1. /\ StartEvent.type = "WorkerStarted" /\ StartEvent.run = call.index
      /\ StartEvent.worker = call.task.route[call.index] /\ StartEvent.attempt = call.index
  BY DEF StartEvent, Worker
<1>2. /\ call.pc \in AttemptPcs /\ call.pc \in Routed
  BY DEF AttemptPcs, Routed
<1>3. /\ call.index \in Nat /\ call.index # 0 /\ call.index <= 8 /\ call.task \in Tasks
      /\ call.index \in 1..call.task.maxAttempts /\ journal \in Projection
  BY <1>2, AttemptFacts, OpenAttempt
<1>4. /\ journal.status = "in_progress" /\ journal.route = call.task.route
      /\ journal.maxAttempts = call.task.maxAttempts
      /\ \A k \in journal.known : k <= journal.attemptCount
      /\ journal.attemptCount = call.index - 1
      /\ journal.active.run = 0
      /\ journal.last.run # 0 => FallbackEligible(journal.last)
  BY <1>2 DEF StoryInv, TaskTold
<1>5. call.task.route # <<>>
  BY <1>3, LimitsAssumption DEF ValidRoute
<1>6. call.index \notin journal.known
  BY <1>3, <1>4
<1>7. /\ call.index \in 1..8 /\ call.index = journal.attemptCount + 1
      /\ call.index <= journal.maxAttempts
  BY <1>3, <1>4
<1>8. QED BY <1>1, <1>3, <1>4, <1>5, <1>6, <1>7 DEF EventAllowed, StartAllowed, ValidStart

LEMMA LoopLimits ==
    /\ MaxIterations \in Nat /\ MaxIterations <= 64
    /\ MaxTurnTools \in Nat /\ MaxTurnTools <= 32
BY LimitsAssumption, BoundsAssumption

LEMMA TurnAsked ==
    ASSUME Inv, StoryInv, call.pc = "turn", run.iteration < MaxIterations,
           NEW outcome \in Outcomes, NEW n \in 0..MaxTurnTools, outcome = "failed" => n = 0
    PROVE  EventAllowed(journal, TurnEvent(outcome, n))
<1> DEFINE e == TurnEvent(outcome, n)
<1>1. /\ e.type = "ModelTurnCompleted" /\ e.run = call.index /\ e.outcome = outcome
      /\ e.toolCalls = n /\ e.iteration = run.iteration + 1
  BY DEF TurnEvent
<1> HIDE DEF e
<1>2. call.pc \in AttemptPcs /\ call.pc # "start"
  BY DEF AttemptPcs
<1>3. /\ run.iteration \in Nat
      /\ RunOK(call.task, Signal, "turn", run)
      /\ Told(call.task, call.index, faults, "turn", run, journal.active)
      /\ journal \in Projection
  BY <1>2, AttemptFacts
<1>4. journal.status = "in_progress" /\ Active(journal, e)
  BY <1>1, <1>2, OpenAttempt
<1>5. n \in 0..32 /\ e.iteration \in 1..64
  BY <1>1, <1>3, LoopLimits
<1>6. /\ journal.active.worked = "none" /\ ~journal.active.modelTerminal
      /\ journal.active.iteration = run.iteration
      /\ journal.active.expected = journal.active.observed + run.left /\ run.left = 0
  BY <1>3 DEF Told, TurnsTold, StagesTold, RunOK, RunForm
<1>7. journal.active.observed \in Nat
  BY <1>3 DEF Projection, Attempt
<1>8. journal.active.observed = journal.active.expected
  BY <1>6, <1>7
<1>9. EventAllowed(journal, e)
  BY <1>1, <1>4, <1>5, <1>6, <1>8 DEF EventAllowed, TurnAllowed, ValidTurn
<1>10. QED BY <1>9 DEF e

LEMMA ToolAsked ==
    ASSUME Inv, StoryInv, call.pc = "tools"
    PROVE  EventAllowed(journal, ToolEvent)
<1>1. ToolEvent.type = "ToolCalled" /\ ToolEvent.run = call.index
      /\ ToolEvent.iteration = run.iteration
  BY DEF ToolEvent
<1>2. call.pc \in AttemptPcs /\ call.pc # "start"
  BY DEF AttemptPcs
<1>3. /\ run.iteration \in Nat /\ run.left \in Int
      /\ RunOK(call.task, Signal, "tools", run)
      /\ Told(call.task, call.index, faults, "tools", run, journal.active)
      /\ journal \in Projection
  BY <1>2, AttemptFacts
<1>4. journal.status = "in_progress" /\ Active(journal, ToolEvent)
  BY <1>1, <1>2, OpenAttempt
<1>5. run.iteration > 0 /\ run.iteration <= MaxIterations /\ run.left > 0
  BY <1>3 DEF RunOK, RunForm
<1>6. run.iteration \in 1..64
  BY <1>3, <1>5, LoopLimits
<1>7. /\ journal.active.worked = "none" /\ ~journal.active.modelFailed
      /\ journal.active.iteration = run.iteration
      /\ journal.active.expected = journal.active.observed + run.left
  BY <1>3 DEF Told, TurnsTold, StagesTold
<1>8. journal.active.observed \in Nat
  BY <1>3 DEF Projection, Attempt
<1>9. journal.active.observed < journal.active.expected
  BY <1>3, <1>5, <1>7, <1>8
<1>10. QED BY <1>1, <1>4, <1>6, <1>7, <1>9 DEF EventAllowed, ToolCallAllowed, ValidToolCall

LEMMA WorkAsked ==
    ASSUME Inv, StoryInv, call.pc = "work"
    PROVE  EventAllowed(journal, WorkEvent)
<1>1. /\ WorkEvent.type = "WorkerCompleted" /\ WorkEvent.run = call.index
      /\ WorkEvent.outcome = IF run.status = "completed" THEN "succeeded" ELSE "failed"
      /\ WorkEvent.failureCode = run.code
  BY DEF WorkEvent
<1>2. call.pc \in AttemptPcs /\ call.pc # "start"
  BY DEF AttemptPcs
<1>3. /\ RunOK(call.task, Signal, "work", run)
      /\ Told(call.task, call.index, faults, "work", run, journal.active)
  BY <1>2, AttemptFacts
<1>4. journal.status = "in_progress" /\ Active(journal, WorkEvent)
  BY <1>1, <1>2, OpenAttempt
<1>5. run.status = "completed" <=> run.code = "none"
  BY <1>3 DEF RunOK, RunCodes, Checked
<1>6. /\ journal.active.worked = "none"
      /\ journal.active.observed = journal.active.expected
      /\ journal.active.modelFailed => run.status # "completed"
      /\ run.status = "completed" => journal.active.modelTerminal
  BY <1>3 DEF Told, TurnsTold, StagesTold
<1>7. QED BY <1>1, <1>4, <1>5, <1>6 DEF EventAllowed, WorkAllowed, ValidWork

LEMMA ValidationAsked ==
    ASSUME Inv, StoryInv, call.pc = "validation"
    PROVE  EventAllowed(journal, ValidationEvent)
<1>1. /\ ValidationEvent.type = "ValidationCompleted" /\ ValidationEvent.run = call.index
      /\ ValidationEvent.commands = Len(run.results)
      /\ ValidationEvent.outcome = IF call.task.commands = <<>> THEN "skipped"
                                   ELSE IF run.status = "completed" THEN "passed" ELSE "failed"
  BY DEF ValidationEvent
<1>2. call.pc \in AttemptPcs /\ call.pc # "start"
  BY DEF AttemptPcs
<1>3. /\ RunOK(call.task, Signal, "validation", run) /\ run \in Run /\ call.task \in Tasks
      /\ Told(call.task, call.index, faults, "validation", run, journal.active)
  BY <1>2, AttemptFacts
<1>4. journal.status = "in_progress" /\ Active(journal, ValidationEvent)
  BY <1>1, <1>2, OpenAttempt
<1>5. Len(run.results) \in Nat
  <2>1. run.results \in Seq(CommandResult)
    BY <1>3 DEF Run
  <2>2. QED BY <2>1
<1>6. call.task.commands \in Seq(SUBSET CommandDimensions)
  BY <1>3, TaskTyped
<1>7. /\ Len(call.task.commands) \in Nat
      /\ call.task.commands = <<>> <=> Len(call.task.commands) = 0
  BY <1>6
<1>8. /\ Len(run.results) <= Len(call.task.commands) /\ Len(call.task.commands) <= 20
      /\ run.status = "completed" => Len(run.results) = Len(call.task.commands)
  BY <1>3, LimitsAssumption DEF RunOK, RunForm, RunChange, Checked
<1>9. Len(run.results) \in 0..20
  <2>1. PICK n \in Nat, m \in Nat : n = Len(run.results) /\ m = Len(call.task.commands)
    BY <1>5, <1>7
  <2>2. n <= m /\ m <= 20
    BY <1>8, <2>1
  <2>3. n \in 0..20
    BY <2>2
  <2>4. QED BY <2>1, <2>3
<1>10. ValidValidation(ValidationEvent)
  <2>1. call.task.commands = <<>> => Len(run.results) = 0
    BY <1>5, <1>7, <1>8
  <2>2. call.task.commands # <<>> /\ run.status = "completed" => Len(run.results) # 0
    BY <1>7, <1>8
  <2>3. QED BY <1>1, <1>9, <2>1, <2>2 DEF ValidValidation
<1>11. journal.active.worked # "none" /\ journal.active.validation = "none"
  BY <1>3 DEF Told, StagesTold, Before, Thinking
<1>12. QED BY <1>1, <1>4, <1>10, <1>11 DEF EventAllowed, ValidationAllowed

LEMMA EvaluationAsked ==
    ASSUME Inv, StoryInv, DisjointInv, call.pc = "evaluation"
    PROVE  EventAllowed(journal, EvaluationEvent)
<1>1. /\ EvaluationEvent.type = "EvaluationCompleted" /\ EvaluationEvent.run = call.index
      /\ EvaluationEvent.outcome = run.evaluation
      /\ EvaluationEvent.failed = run.failed /\ EvaluationEvent.unknown = run.unknown
  BY DEF EvaluationEvent
<1>2. call.pc \in AttemptPcs /\ call.pc # "start"
  BY DEF AttemptPcs
<1>3. /\ RunOK(call.task, Signal, "evaluation", run)
      /\ Told(call.task, call.index, faults, "evaluation", run, journal.active)
  BY <1>2, AttemptFacts
<1>4. journal.status = "in_progress" /\ Active(journal, EvaluationEvent)
  BY <1>1, <1>2, OpenAttempt
<1>5. run.failed \cap run.unknown = {}
  BY DEF DisjointInv, Assessed
<1>6. ValidEvaluation(EvaluationEvent)
  BY <1>1, <1>3, <1>5 DEF ValidEvaluation, RunOK, RunVerdict, Assessed
<1>7. journal.active.validation # "none" /\ journal.active.evaluation = "none"
  BY <1>3 DEF Told, StagesTold, Assessed
<1>8. QED BY <1>1, <1>4, <1>6, <1>7 DEF EventAllowed, EvaluationAllowed

LEMMA AttemptEndAsked ==
    ASSUME Inv, StoryInv, call.pc = "attempt"
    PROVE  EventAllowed(journal, AttemptEvent)
<1>1. /\ AttemptEvent.type = "AttemptCompleted" /\ AttemptEvent.run = call.index
      /\ AttemptEvent.status = run.status /\ AttemptEvent.failureCode = run.code
  BY DEF AttemptEvent
<1>2. call.pc \in AttemptPcs /\ call.pc # "start"
  BY DEF AttemptPcs
<1>3. /\ RunOK(call.task, Signal, "attempt", run)
      /\ Told(call.task, call.index, faults, "attempt", run, journal.active)
  BY <1>2, AttemptFacts
<1>4. journal.status = "in_progress" /\ Active(journal, AttemptEvent)
  BY <1>1, <1>2, OpenAttempt
<1>5. run.status = "completed" <=> run.code = "none"
  BY <1>3 DEF RunOK, RunCodes, Checked
<1>6. run.evaluation \in EvaluationOutcomes
  BY DEF Inv, CallInv
<1>7. /\ journal.active.validation # "none"
      /\ run.status = "completed" => /\ journal.active.worked = "succeeded"
                                     /\ journal.active.validation \in {"passed", "skipped"}
      /\ journal.active.evaluation = run.evaluation /\ journal.active.policy = call.task.policy
  BY <1>3 DEF Told, StagesTold, Assessed
<1>8. /\ run.status = "completed" =>
            run.evaluation # "failed" /\ (call.task.policy = "strict" => run.evaluation = "passed")
      /\ run.status # "completed" =>
            \/ run.evaluation = "failed"
            \/ /\ run.status = "failed" /\ run.code = "EVALUATION_INCONCLUSIVE"
               /\ call.task.policy = "strict" /\ run.evaluation = "inconclusive"
  BY <1>3 DEF RunOK, RunVerdict, Assessed
<1>9. run.status = "completed" => Passed(journal.active)
  BY <1>6, <1>7, <1>8 DEF Passed, EvaluationOutcomes
<1>10. run.status # "completed" =>
          journal.active.evaluation = "failed" \/ Inconclusive(journal.active, AttemptEvent)
  BY <1>1, <1>7, <1>8 DEF Inconclusive
<1>11. journal.active.evaluation # "none"
  BY <1>6, <1>7 DEF EvaluationOutcomes
<1>12. QED BY <1>1, <1>4, <1>5, <1>7, <1>9, <1>10, <1>11 DEF EventAllowed, AttemptEndAllowed

LEMMA TaskEndAsked ==
    ASSUME Inv, StoryInv, call.pc = "complete"
    PROVE  EventAllowed(journal, CompleteEvent)
<1>1. /\ CompleteEvent.type = "TaskCompleted" /\ CompleteEvent.run = call.last.run
      /\ CompleteEvent.status = call.last.status
  BY DEF CompleteEvent
<1>2. call.pc \in Routed
  BY DEF Routed
<1>3. /\ journal.status = "in_progress" /\ journal.route = call.task.route
      /\ journal.active.run = 0 /\ call.last # NoReport
  BY <1>2 DEF StoryInv, TaskTold
<1>4. LastOK(call.task, call.last) /\ LastTold(faults, call.last, journal.last)
  BY <1>2, <1>3 DEF StoryInv, LastKnown
<1>5. call.task \in Tasks
  BY DEF Inv, CallInv, Working
<1>6. call.task.route # <<>>
  BY <1>5, LimitsAssumption DEF ValidRoute
<1>7. QED BY <1>1, <1>3, <1>4, <1>6 DEF EventAllowed, TaskEndAllowed, LastOK, LastTold

LEMMA ReportAsked ==
    ASSUME Inv, StoryInv, call.pc = "persist"
    PROVE  Consistent(RunReport)
<1>1. call.pc \in AttemptPcs
  BY DEF AttemptPcs
<1>2. RunOK(call.task, Signal, "persist", run)
  BY <1>1, AttemptFacts
<1>3. /\ RunReport.status = run.status /\ RunReport.code = run.code
      /\ RunReport.policy = call.task.policy /\ RunReport.evaluation = run.evaluation
  BY DEF RunReport
<1>4. QED BY <1>2, <1>3 DEF RunOK, RunVerdict, Assessed, Consistent

LEMMA DelegationEventsAllowed ==
    ASSUME Inv, StoryInv, DisjointInv, NEW e \in AskedEvents
    PROVE  EventAllowed(journal, e)
<1>1. CASE call.pc = "route"
  BY <1>1, RouteAsked DEF AskedEvents
<1>2. CASE call.pc = "start"
  BY <1>2, StartAsked DEF AskedEvents
<1>3. CASE call.pc = "turn" /\ run.iteration < MaxIterations
  <2>1. 0 \in 0..MaxTurnTools
    BY BoundsAssumption
  <2>2. \/ e = TurnEvent("failed", 0)
        \/ \E n \in 0..MaxTurnTools : e = TurnEvent("succeeded", n)
    BY <1>3 DEF AskedEvents
  <2>3. QED BY <1>3, <2>1, <2>2, TurnAsked DEF Outcomes
<1>4. CASE call.pc = "tools"
  BY <1>4, ToolAsked DEF AskedEvents
<1>5. CASE call.pc = "work"
  BY <1>5, WorkAsked DEF AskedEvents
<1>6. CASE call.pc = "patch"
  BY <1>6, PatchEventAllowed DEF AskedEvents
<1>7. CASE call.pc = "validation"
  BY <1>7, ValidationAsked DEF AskedEvents
<1>8. CASE call.pc = "evaluation"
  BY <1>8, EvaluationAsked DEF AskedEvents
<1>9. CASE call.pc = "attempt"
  BY <1>9, AttemptEndAsked DEF AskedEvents
<1>10. CASE call.pc = "complete"
  BY <1>10, TaskEndAsked DEF AskedEvents
<1>11. QED BY <1>1, <1>2, <1>3, <1>4, <1>5, <1>6, <1>7, <1>8, <1>9, <1>10 DEF AskedEvents

(* With evaluators that keep to dimensions of their own, every event that  *)
(* the service asks its journal to take is one that the event model takes, *)
(* and every report one that the store takes: no finished attempt is lost  *)
(* to a refusal (executeInWorktree and applyRun against projectTaskEvent   *)
(* and validateReport).                                                    *)
THEOREM AskedEventsAreAllowed ==
    ASSUME ReviewsDisjoint
    PROVE  Spec => []AsksAllowedEvents
<1>1. Init => DisjointInv /\ RequestInv /\ PassedInv /\ HistoryInv
  BY DEF Init, DisjointInv, RequestInv, PassedInv, HistoryInv, Assessed, Sound,
         InitialProjection, NoAttempt, NoReport, ApplyPcs
<1>2. Inv /\ DisjointInv /\ [Next]_vars => DisjointInv'
  BY DisjointKept
<1>3. Inv /\ RequestInv /\ PassedInv /\ HistoryInv /\ [Next]_vars
        => (RequestInv /\ PassedInv /\ HistoryInv)'
  BY RequestKept, PassedInvKept, HistoryInvKept
<1>4. Inv /\ StoryInv /\ DisjointInv /\ RequestInv /\ PassedInv /\ HistoryInv
        => AsksAllowedEvents
  BY DelegationEventsAllowed, ApplicationEventsAllowed, ReportAsked DEF AsksAllowedEvents
<1>5. QED BY <1>1, <1>2, <1>3, <1>4, StoryHolds, PTL DEF Spec
=============================================================================
