------------------------------ MODULE Delegations ------------------------------
(***************************************************************************)
(* A history of delegations in one repository: what each task may do, who  *)
(* does it and what reaches its patch (delegate, shouldFallback,           *)
(* collectPatchCandidate and validateChangedPaths in src/worker/service.ts,*)
(* the file tools of src/worker/tool-executor.ts).                         *)
(*                                                                         *)
(* WorkerService models how one task is carried out and recorded; here a   *)
(* task is what was decided about it.  The policies may differ from one    *)
(* delegation to the next; the attempts of a task become the evidence that *)
(* routes the next one.                                                    *)
(***************************************************************************)
EXTENDS Router

CONSTANTS
    Scenarios,  \* an installation: its configuration, its workers, its repository, its history
                \* and what its callers ask
    Paths,      \* the paths a worker writes to
    Ends,       \* how an attempt may end
    MaxWrites   \* bound: writes of an attempt

(* A finished task, as the evidence of history and the store see it.       *)
FinishedAttempt ==
    [worker : Workers, status : RunStatuses, code : FailureCodes \cup {"none"},
     evaluation : EvaluationOutcomes \cup {"none"}, duration : Nat, cost : Nat,
     patch : SUBSET Paths, iterations : Nat]
FinishedTask == [mode : WorkerModes, attempts : Seq(FinishedAttempt)]

(* A scenario has
     config, fleet      the configuration and its workers
     past               the history it starts with
     tasks, policies    the tasks that are asked for and the sets of policy documents in force
     kind, real         what is at a path, and the path it really leads to
     delegations        bound: how many are made                                              *)
ASSUME ScenariosAssumption ==
    \A s \in Scenarios :
        /\ s.config \in Configuration
        /\ s.tasks \subseteq WorkerTask
        /\ s.policies \subseteq SUBSET PolicyDocument
        /\ DOMAIN s.fleet \subseteq Workers /\ s.fleet \in [DOMAIN s.fleet -> WorkerConfig]
        /\ IsFiniteSet(DOMAIN s.fleet) /\ Cardinality(DOMAIN s.fleet) <= 64
        /\ s.past \in Seq(FinishedTask)
        /\ s.kind \in [Paths -> FileKinds] /\ s.real \in [Paths -> Paths]

(* A path is a sequence of characters, as a pattern is.                    *)
ASSUME PathsAssumption == Paths \subseteq Seq(STRING)

ASSUME EndsAssumption ==
    Ends \subseteq [status : RunStatuses, code : FailureCodes \cup {"none"},
                   evaluation : EvaluationOutcomes \cup {"none"}, duration : Nat, cost : Nat]

VARIABLES
    scenario,   \* does not change
    history,    \* the finished tasks
    request,    \* the task as the caller asked for it
    documents,  \* the policies in force
    task,       \* the task with its policy
    evidence,   \* the routing evidence, and
    plan,       \* the route that was chosen with it
    pc,
    attempts,   \* the finished attempts of the task
    writes,     \* how many writes the attempt has made
    changed,    \* the files changed in its worktree
    refused     \* a tool was refused

vars == <<scenario, history, request, documents, task, evidence, plan, pc, attempts,
          writes, changed, refused>>

decision == <<request, documents, task, evidence, plan>>

NoTask     == [mode |-> "none"]
NoEvidence == [tasks |-> 0, workers |-> <<>>]
NoPlan     == [route |-> <<>>, maxAttempts |-> 0, fallback |-> FALSE]

Config == scenario.config
Fleet  == scenario.fleet
PathPolicyOf(t) == [allowed |-> t.allowed, prohibited |-> t.prohibited]

-----------------------------------------------------------------------------
(* A task that breaks its contract, by itself or once its policies are     *)
(* known, is turned away and leaves nothing behind.                        *)

(* Mutant: the contract is checked before the policies only.               *)
AcceptedBeforePolicies(t, resolved) == assertTaskContract(Config, t)

Accepted(t, resolved) == assertTaskContract(Config, t) /\ assertTaskContract(Config, resolved)

Delegate ==
    /\ pc = "idle"
    /\ Len(history) < Len(scenario.past) + scenario.delegations
    /\ \E t \in scenario.tasks, docs \in scenario.policies :
          LET resolved == resolveTaskPolicy(Config, t, docs)
          IN /\ Accepted(t, resolved)
             /\ request' = t /\ documents' = docs /\ task' = resolved
    /\ pc' = "route"
    /\ evidence' = NoEvidence /\ plan' = NoPlan
    /\ attempts' = <<>>
    /\ UNCHANGED <<scenario, history, writes, changed, refused>>

(* Without a route the task is turned away, too.                           *)
SelectRoute ==
    /\ pc = "route"
    /\ evidence' = collectEvidence(Fleet, history, task.mode, Config.evidenceTasks)
    /\ IF NoRouteFor(Fleet, task.mode, task.routing)
       THEN pc' = "idle" /\ plan' = NoPlan /\ task' = NoTask
       ELSE /\ pc' = "attempt"
            /\ plan' = routeWorkers(Config, Fleet, task.mode, task.routing, evidence'.workers)
            /\ UNCHANGED task
    /\ UNCHANGED <<scenario, history, request, documents, attempts, writes, changed, refused>>

-----------------------------------------------------------------------------
(* An attempt: the writes of the worker, the patch, the end.               *)

(* The worker of the attempt that is under way.                            *)
Attempting == plan.route[Len(attempts) + 1]

(* The tool writes where the path really leads.  What a policy denies is   *)
(* held against the attempt; a path that is none is a mistake of the call  *)
(* and a directory a failure of the write (isPolicyError).                 *)
Write ==
    /\ pc = "attempt"
    /\ writes < MaxWrites
    /\ writes' = writes + 1
    /\ \E path \in Paths :
          LET real     == scenario.real[path]
              kind     == scenario.kind[path]
              writable == task.mode \in {"implementation", "testing"}
              allowed  == writable /\ resolveForWrite(PathPolicyOf(task), path, kind, real)
              mistaken == writable /\ ~InsideRepository(path)
          IN /\ changed' = IF allowed /\ kind # "directory" THEN changed \cup {real} ELSE changed
             /\ refused' = (refused \/ (~allowed /\ ~mistaken))
    /\ UNCHANGED <<scenario, history, decision, pc, attempts>>

(* Mutant: the tools' own checks are relied on.                            *)
PatchOfTools(t, files) ==
    [files |-> files, violated |-> Cardinality(files) > t.maxChangedFiles]

(* collectPatchCandidate, validateChangedPaths                             *)
PatchOf(t, files) ==
    LET violated == \/ Cardinality(files) > t.maxChangedFiles
                    \/ \E f \in files :
                          ~assertSafeChangedPath(PathPolicyOf(t), f, scenario.kind[f])
    IN [files |-> IF violated THEN {} ELSE files, violated |-> violated]

(* The codes only an attempt without a violation comes to: of its commands,*)
(* of a patch without changes and of an evaluation that fails it.          *)
LateCodes ==
    {"VALIDATION_COMMAND_FAILED", "DOCKER_CONTAINER_CLEANUP_FAILED", "WORKER_NO_CHANGES",
     "EVALUATION_FAILED", "EVALUATION_INCONCLUSIVE"}

(* A violation makes the attempt a policy violation, unless it was         *)
(* cancelled or ran out of time; a code it had before stays.  Its          *)
(* evaluation fails in any case.                                           *)
Ended(end) ==
    LET worker   == Attempting
        patch    == PatchOf(task, changed)
        violated == refused \/ patch.violated
        decides  == violated /\ end.status \notin {"cancelled", "timed_out"}
    IN [worker |-> worker, duration |-> end.duration, cost |-> end.cost,
        patch |-> patch.files,
        iterations |-> IF Fleet[worker].role = "any" THEN task.maxIterations
                       ELSE strictest({task.maxIterations, Fleet[worker].maxIterations}),
        status |-> IF decides THEN "policy_violation" ELSE end.status,
        code |-> IF decides /\ end.code \in LateCodes \cup {"none"}
                 THEN "WORKER_POLICY_VIOLATION" ELSE end.code,
        evaluation |-> IF violated THEN "failed" ELSE end.evaluation]

(* Mutant: any failure is tried again elsewhere.                           *)
fallbackAfterFailure(attempt, number) ==
    plan.fallback /\ number < plan.maxAttempts /\ attempt.status = "failed"

shouldFallback(attempt, number) ==
    /\ plan.fallback
    /\ number < plan.maxAttempts
    /\ attempt.status = "failed" /\ attempt.code \in FallbackCodes

EndAttempt ==
    /\ pc = "attempt"
    /\ \E end \in Ends :
          LET done == Append(attempts, Ended(end))
          IN /\ attempts' = done
             /\ IF shouldFallback(Ended(end), Len(done))
                THEN UNCHANGED <<pc, history>>
                ELSE /\ pc' = "idle"
                     /\ history' = Append(history, [mode |-> task.mode, attempts |-> done])
    /\ writes' = 0 /\ changed' = {} /\ refused' = FALSE
    /\ UNCHANGED <<scenario, decision>>

-----------------------------------------------------------------------------
Init ==
    /\ scenario \in Scenarios
    /\ history = scenario.past
    /\ request = NoTask /\ documents = {} /\ task = NoTask
    /\ evidence = NoEvidence /\ plan = NoPlan
    /\ pc = "idle"
    /\ attempts = <<>>
    /\ writes = 0 /\ changed = {} /\ refused = FALSE

Next == Delegate \/ SelectRoute \/ Write \/ EndAttempt

Spec == Init /\ [][Next]_vars

-----------------------------------------------------------------------------
(* Properties.                                                             *)

Routed == plan # NoPlan /\ task # NoTask

(* A task never gets more than its caller asked for, and never more than   *)
(* any policy in force or the configuration gives: limits, network, paths, *)
(* tiers, fallback, attempts (docs/policies.md: policies only reduce task  *)
(* authority; resolveTaskPolicy).                                          *)
AuthorityOnlyNarrows ==
    task # NoTask =>
        /\ task.maxChangedFiles <= Config.maxChangedFiles
        /\ task.maxIterations <= request.maxIterations
        /\ task.timeoutSeconds <= request.timeoutSeconds
        /\ task.allowNetwork => request.allowNetwork
        /\ task.allowed = request.allowed /\ request.prohibited \subseteq task.prohibited
        /\ request.routing # NoRouting =>
              /\ request.routing.capabilities \subseteq task.routing.capabilities
              /\ task.routing.maxCostTier <= request.routing.maxCostTier
              /\ task.routing.maxLatencyTier <= request.routing.maxLatencyTier
              /\ task.routing.allowFallback => request.routing.allowFallback
              /\ task.routing.maxAttempts <= request.routing.maxAttempts
        /\ \A d \in documents :
              /\ \A limit \in {<<task.maxChangedFiles, d.maxChangedFiles>>,
                               <<task.maxIterations, d.maxIterations>>,
                               <<task.timeoutSeconds, d.maxTaskSeconds>>,
                               <<task.routing.maxAttempts, d.maxAttempts>>} :
                    limit[2] # 0 => limit[1] <= limit[2]
              /\ d.prohibited \subseteq task.prohibited
              /\ d.capabilities \subseteq task.routing.capabilities
              /\ task.routing.maxCostTier <= d.maxCostTier
              /\ task.routing.maxLatencyTier <= d.maxLatencyTier
              /\ d.allowNetwork = "no" => ~task.allowNetwork
              /\ d.allowFallback = "no" => ~task.routing.allowFallback

(* Commands run without a sandbox only when the operator allowed that and  *)
(* nobody, the caller or a policy, forbids the network that local commands *)
(* cannot be kept from (assertTaskContract is checked on both sides of the *)
(* policies).                                                              *)
LocalRunsAreConsented ==
    task # NoTask /\ task.commands # {} /\ Config.backend = "local" =>
        /\ Config.allowUnsandboxedLocal
        /\ request.allowNetwork
        /\ \A d \in documents : d.allowNetwork # "no"

(* No patch holds a file that the task does not allow, that the task, a    *)
(* policy in force or the defaults prohibit, or that is not a plain file,  *)
(* nor more files than any policy in force allows, wherever the tools were *)
(* led to write (PathPolicy; what patterns mean is Denotes, not the        *)
(* matcher).                                                               *)
PatchWithinAuthority ==
    \A i \in 1..Len(attempts) : \A f \in attempts[i].patch :
        /\ DenotedBy(f, request.allowed)
        /\ ~DenotedBy(f, request.prohibited \cup (UNION {d.prohibited : d \in documents})
                         \cup defaultProhibitedPaths \cup defaultWriteProhibitedPaths)
        /\ scenario.kind[f] \in {"missing", "file"}
        /\ \A d \in documents : d.maxChangedFiles # 0 =>
              Cardinality(attempts[i].patch) <= d.maxChangedFiles

(* The matcher finds a path in a pattern exactly when the pattern means it,*)
(* for every path and every pattern of the task, its policies and the      *)
(* defaults (matchNormalizedGlob).                                         *)
MatcherAgrees ==
    pc = "route" =>
        \A p \in Paths \ {<<>>} :
            \A g \in task.allowed \cup task.prohibited
                     \cup defaultProhibitedPaths \cup defaultWriteProhibitedPaths :
                matchGlob(p, g) = Denotes(p, g)

(* History only puts eligible workers in another order: the candidates are *)
(* those it would be without it, each once, and the preferred worker stays *)
(* ahead of them all (docs/routing-evidence.md; routeWorkers).             *)
HistoryOnlyReorders ==
    Routed =>
        /\ Elements(plan.route) = Eligible(Fleet, task.mode, task.routing)
        /\ Len(plan.route) = Cardinality(Elements(plan.route))
        /\ task.routing.preferred # "none" => plan.route[1] = task.routing.preferred

DeclaredScore(w) == scoreWorker(Config, Fleet, task.routing, w)

(* A worker that was seen to fail every time is not put before one that    *)
(* did everything right, and is declared no worse, for failing faster or   *)
(* more cheaply (docs/routing-evidence.md).  Right means completed with an *)
(* evaluation that passed: one that could not tell is not praised.         *)
FailureIsNotRewarded ==
    Routed =>
        \A i, j \in 1..Len(plan.route) :
            LET w == plan.route[i]
                v == plan.route[j]
            IN /\ {w, v} \subseteq DOMAIN evidence.workers
               /\ evidence.workers[w].sampleSize >= 20
               /\ evidence.workers[w].successCount = 0
               /\ evidence.workers[w].evaluationPassCount = 0
               /\ evidence.workers[v].successCount = evidence.workers[v].sampleSize
               /\ evidence.workers[v].evaluationPassCount = evidence.workers[v].evaluationCount
               /\ DeclaredScore(w) <= DeclaredScore(v)
               /\ w # task.routing.preferred
               => j < i

(* What a worker loses by a comparison of costs or durations is bounded by *)
(* what is known of those it is compared with: one sparse measurement      *)
(* cannot outweigh a well-known worker (docs/routing-evidence.md).         *)
SparseEvidenceIsWeak ==
    Routed =>
        \A w \in Elements(plan.route) \cap DOMAIN evidence.workers :
            LET candidates == Elements(plan.route) \cap DOMAIN evidence.workers
                weights    == evidenceWeights(task.routing.strategy)
                most       == evidenceConfidence(
                    Sum([v \in candidates \ {w} |-> evidence.workers[v].sampleSize]))
            IN MetricAdjustment(w, candidates, evidence.workers, weights) * 20
                   >= -((weights.cost + weights.latency) * most)

(* Whoever works on a task is eligible under every policy in force and has *)
(* not worked on it before; a second attempt needs a first that a provider *)
(* failed and the consent of the caller and of every policy; and there are *)
(* no more attempts than anyone allows (delegate, shouldFallback).         *)
AttemptsAreJustified ==
    /\ \A i \in 1..Len(attempts) :
          /\ \A d \in documents :
                LET worker == Fleet[attempts[i].worker]
                IN /\ d.capabilities \cup {task.mode} \subseteq worker.capabilities
                   /\ worker.costTier <= d.maxCostTier /\ worker.latencyTier <= d.maxLatencyTier
                   /\ d.maxIterations # 0 => attempts[i].iterations <= d.maxIterations
          /\ \A j \in 1..(i - 1) : attempts[j].worker # attempts[i].worker
          /\ i > 1 => /\ attempts[i - 1].status = "failed"
                      /\ attempts[i - 1].code \in FallbackCodes
                      /\ \A d \in documents : d.allowFallback # "no"
                      /\ request.routing # NoRouting => request.routing.allowFallback
    /\ Len(attempts) <= Config.maxAttempts
    /\ \A d \in documents : d.maxAttempts # 0 => Len(attempts) <= d.maxAttempts

(* Whatever route is chosen, the journal takes it, and the store takes the *)
(* routing that every attempt's report will have: the router, the event    *)
(* model and the store each decide on their own what a route is            *)
(* (validateTaskEvent, isOptionalRoutingMetadata).                         *)
RouteIsRecordable ==
    pc = "attempt" =>
        /\ ValidRoute([route |-> plan.route, maxAttempts |-> plan.maxAttempts])
        /\ isOptionalRoutingMetadata(plan, evidence, Config.evidenceTasks, attempts, Attempting)

(* The variables hold what their declarations say.                         *)
TypeOK ==
    /\ scenario \in Scenarios
    /\ pc \in {"idle", "route", "attempt"}
    /\ task = NoTask \/ (task.mode \in WorkerModes /\ task.routing \in WorkerRoutingPolicy)
    /\ plan.route \in Seq(Workers) /\ plan.maxAttempts \in 0..8 /\ plan.fallback \in BOOLEAN
    /\ \A i \in 1..Len(attempts) : attempts[i].status \in RunStatuses
    /\ changed \subseteq Paths /\ writes \in 0..MaxWrites /\ refused \in BOOLEAN
=============================================================================
