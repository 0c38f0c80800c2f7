-------------------------------- MODULE Router --------------------------------
(***************************************************************************)
(* Which workers a task goes to, and in which order (src/provider/         *)
(* router.ts), with the evidence that history gives of them                *)
(* (src/provider/routing-evidence.ts, recentTimelines of                   *)
(* src/artifacts/task-journal.ts).                                         *)
(*                                                                         *)
(* Averages and adjustments are rounded once, from exact fractions; the    *)
(* patch counts, latencies of providers and tokens, which no score reads,  *)
(* are left out.                                                           *)
(***************************************************************************)
EXTENDS TaskPolicy, Functions

CONSTANT IdRank     \* the order of the worker ids: Workers -> Nat

(* No two workers have one id.                                             *)
ASSUME IdRankAssumption ==
    IdRank \in [Workers -> Nat] /\ \A v, w \in Workers : IdRank[v] = IdRank[w] => v = w

(* The role and the iterations are the profile's; "any" has no profile.    *)
WorkerConfig ==
    [role : WorkerModes \cup {"any"}, capabilities : SUBSET Capabilities,
     configured : BOOLEAN, priority : 0..100, costTier : Tiers, latencyTier : Tiers,
     maxIterations : 1..64]

(* Math.round(numerator / denominator)                                     *)
Round(numerator, denominator) == (2 * numerator + denominator) \div (2 * denominator)

Sum(f) == FoldFunction(+, 0, f)

-----------------------------------------------------------------------------
(* Evidence.  A task of the history has its mode and its attempts; an      *)
(* attempt its worker, status, evaluation, duration and cost (0 when it is *)
(* unknown).  The newest tasks of the mode are read, limit of them at most.*)

RecentTasks(history, mode, limit) ==
    {t \in DOMAIN history :
        /\ history[t].mode = mode
        /\ Cardinality({u \in DOMAIN history : u > t /\ history[u].mode = mode}) < limit}

(* The k-th smallest value of f.                                           *)
Smallest(f, k) ==
    CHOOSE v \in {f[x] : x \in DOMAIN f} :
        /\ Cardinality({x \in DOMAIN f : f[x] < v}) < k
        /\ Cardinality({x \in DOMAIN f : f[x] <= v}) >= k

median(f) ==
    LET middle == Cardinality(DOMAIN f) \div 2
    IN IF Cardinality(DOMAIN f) % 2 = 1 THEN Smallest(f, middle + 1)
       ELSE Round(Smallest(f, middle) + Smallest(f, middle + 1), 2)

average(f) == Round(Sum(f), Cardinality(DOMAIN f))

(* observed maps the places of a worker's attempts to the attempts.        *)
Aggregate(observed) ==
    LET With(field, values) == {x \in DOMAIN observed : observed[x][field] \in values}
        evaluated == With("evaluation", EvaluationOutcomes)
        priced    == {x \in DOMAIN observed : observed[x].cost # 0}
    IN [sampleSize          |-> Cardinality(DOMAIN observed),
        successCount        |-> Cardinality(With("status", {"completed"})),
        evaluationCount     |-> Cardinality(evaluated),
        evaluationPassCount |-> Cardinality(With("evaluation", {"passed"})),
        medianDurationMs    |-> median([x \in DOMAIN observed |-> observed[x].duration]),
        costSampleCount     |-> Cardinality(priced),
        averageCost         |-> IF priced = {} THEN 0
                                ELSE average([x \in priced |-> observed[x].cost])]

(* The workers without an attempt have no evidence.                        *)
collectEvidence(fleet, history, mode, limit) ==
    LET tasks    == RecentTasks(history, mode, limit)
        places   == {x \in tasks \X (1..8) : x[2] <= Len(history[x[1]].attempts)}
        At(x)    == history[x[1]].attempts[x[2]]
        Of(w)    == {x \in places : At(x).worker = w}
        observed == {w \in DOMAIN fleet : Of(w) # {}}
    IN [tasks   |-> Cardinality(tasks),
        workers |-> [w \in observed |-> Aggregate([x \in Of(w) |-> At(x)])]]

-----------------------------------------------------------------------------
(* Who is eligible, and the score that the configuration gives.            *)

RequiredCapabilities(mode, routing) == {mode, "tool-calling"} \cup routing.capabilities

workerSatisfiesPolicy(worker, mode, routing) ==
    /\ worker.configured
    /\ worker.role \in {"any", mode}
    /\ RequiredCapabilities(mode, routing) \subseteq worker.capabilities
    /\ worker.costTier <= routing.maxCostTier
    /\ worker.latencyTier <= routing.maxLatencyTier

Eligible(fleet, mode, routing) ==
    {w \in DOMAIN fleet : workerSatisfiesPolicy(fleet[w], mode, routing)}

StrategyScore(worker, strategy) ==
    CASE strategy = "cost"     -> (2 - worker.costTier) * 20000 + (2 - worker.latencyTier) * 500
      [] strategy = "latency"  -> (2 - worker.latencyTier) * 20000 + (2 - worker.costTier) * 500
      [] strategy = "quality"  -> worker.priority * 20000
      [] strategy = "balanced" -> (2 - worker.costTier) * 5000 + (2 - worker.latencyTier) * 5000

(* The preferred worker, or else the default one, is ahead of the others.  *)
scoreWorker(config, fleet, routing, w) ==
    LET favoured == IF routing.preferred = "none" THEN config.defaultWorker ELSE routing.preferred
    IN fleet[w].priority * 100 + StrategyScore(fleet[w], routing.strategy)
       + IF w = favoured THEN 1000000 ELSE 0

-----------------------------------------------------------------------------
(* What evidence adds to the score.                                        *)

(* Mutant: under cost and latency the metric outweighs performance.        *)
evidenceWeightsOfMetrics(strategy) ==
    CASE strategy = "balanced" -> [performance |-> 75000, cost |-> 30000, latency |-> 30000]
      [] strategy = "cost"     -> [performance |-> 60000, cost |-> 100000, latency |-> 0]
      [] strategy = "latency"  -> [performance |-> 60000, cost |-> 0, latency |-> 100000]
      [] strategy = "quality"  -> [performance |-> 300000, cost |-> 0, latency |-> 0]

evidenceWeights(strategy) ==
    CASE strategy = "balanced" -> [performance |-> 75000, cost |-> 30000, latency |-> 30000]
      [] strategy = "cost"     -> [performance |-> 100000, cost |-> 60000, latency |-> 0]
      [] strategy = "latency"  -> [performance |-> 100000, cost |-> 0, latency |-> 60000]
      [] strategy = "quality"  -> [performance |-> 300000, cost |-> 0, latency |-> 0]

(* In twentieths.                                                          *)
evidenceConfidence(sampleSize) == IF sampleSize < 20 THEN sampleSize ELSE 20

(* The weights are multiples of 20.                                        *)
scorePerformance(e, weight) ==
    LET rated  == IF e.evaluationCount = 0 THEN e.sampleSize ELSE e.evaluationCount
        passed == IF e.evaluationCount = 0 THEN e.successCount ELSE e.evaluationPassCount
        above  == e.successCount * rated + passed * e.sampleSize - e.sampleSize * rated
    IN Round(above * (weight \div 20) * evidenceConfidence(e.sampleSize), e.sampleSize * rated)

(* Mutant: a comparison has the confidence of the worker's own sample.     *)
rankMetricByOwn(w, metric, samples, weight) ==
    LET others   == DOMAIN metric \ {w}
        Pull(o)  == IF metric[w] < metric[o] THEN evidenceConfidence(samples[w])
                    ELSE IF metric[w] > metric[o] THEN -evidenceConfidence(samples[w]) ELSE 0
    IN IF w \notin DOMAIN metric \/ others = {} THEN 0
       ELSE Round((weight \div 20) * Sum([o \in others |-> Pull(o)]), Cardinality(others))

(* The share of a metric: every pair is compared with the lower confidence *)
(* of the two.                                                             *)
rankMetric(w, metric, samples, weight) ==
    LET others   == DOMAIN metric \ {w}
        Trust(o) == evidenceConfidence(IF samples[w] < samples[o] THEN samples[w] ELSE samples[o])
        Pull(o)  == IF metric[w] < metric[o] THEN Trust(o)
                    ELSE IF metric[w] > metric[o] THEN -Trust(o) ELSE 0
    IN IF w \notin DOMAIN metric \/ others = {} THEN 0
       ELSE Round((weight \div 20) * Sum([o \in others |-> Pull(o)]), Cardinality(others))

MetricAdjustment(w, candidates, evidence, weights) ==
    LET known  == candidates \cap DOMAIN evidence
        priced == {c \in known : evidence[c].costSampleCount # 0}
    IN rankMetric(w, [c \in priced |-> evidence[c].averageCost],
                  [c \in priced |-> evidence[c].costSampleCount], weights.cost)
       + rankMetric(w, [c \in known |-> evidence[c].medianDurationMs],
                    [c \in known |-> evidence[c].sampleSize], weights.latency)

applyRoutingEvidence(score, candidates, evidence, strategy) ==
    [w \in candidates |->
        IF w \notin DOMAIN evidence THEN score[w]
        ELSE score[w] + scorePerformance(evidence[w], evidenceWeights(strategy).performance)
             + MetricAdjustment(w, candidates, evidence, evidenceWeights(strategy))]

-----------------------------------------------------------------------------
(* The route.                                                              *)

(* Mutant: the preferred worker counts by its score only.                  *)
comparesByScore(score, routing, left, right) ==
    \/ score[left] > score[right]
    \/ score[left] = score[right] /\ IdRank[left] < IdRank[right]

(* left is tried before right.                                             *)
comesBefore(score, routing, left, right) ==
    /\ left # right
    /\ right # routing.preferred
    /\ \/ left = routing.preferred
       \/ score[left] > score[right]
       \/ score[left] = score[right] /\ IdRank[left] < IdRank[right]

Sorted(score, routing) ==
    LET Rank(w) == Cardinality({v \in DOMAIN score : comesBefore(score, routing, v, w)})
    IN [i \in 1..Cardinality(DOMAIN score) |-> CHOOSE w \in DOMAIN score : Rank(w) = i - 1]

(* No route: the preferred worker does not satisfy it, or no worker does.  *)
NoRouteFor(fleet, mode, routing) ==
    \/ Eligible(fleet, mode, routing) = {}
    \/ routing.preferred \notin Eligible(fleet, mode, routing) \cup {"none"}

(* Mutant: the number of candidates does not bound the attempts.           *)
attemptsOfPolicy(config, routing, candidates) ==
    IF routing.allowFallback THEN strictest({routing.maxAttempts, config.maxAttempts}) ELSE 1

attemptsAllowed(config, routing, candidates) ==
    IF routing.allowFallback /\ candidates > 1
    THEN strictest({routing.maxAttempts, config.maxAttempts, candidates}) ELSE 1

routeWorkers(config, fleet, mode, routing, evidence) ==
    LET candidates == Eligible(fleet, mode, routing)
        declared   == [w \in candidates |-> scoreWorker(config, fleet, routing, w)]
        score      == applyRoutingEvidence(declared, candidates, evidence, routing.strategy)
    IN [route       |-> Sorted(score, routing),
        maxAttempts |-> attemptsAllowed(config, routing, Cardinality(candidates)),
        fallback    |-> routing.allowFallback /\ Cardinality(candidates) > 1]

-----------------------------------------------------------------------------
(* What the artifact store accepts of a route in the report of an attempt  *)
(* (src/artifacts/store.ts); the digests, which both sides compute alike,  *)
(* are left out.                                                           *)

isWorkerRoutingEvidence(e) ==
    /\ e.sampleSize \in 1..800
    /\ {e.successCount, e.evaluationCount, e.costSampleCount} \subseteq 0..e.sampleSize
    /\ e.evaluationPassCount \in 0..e.evaluationCount
    /\ e.costSampleCount = 0 <=> e.averageCost = 0

isRoutingEvidenceSnapshot(evidence, limit) ==
    /\ limit \in 0..100
    /\ evidence.tasks \in 0..limit
    /\ Cardinality(DOMAIN evidence.workers) <= 64
    /\ \A w \in DOMAIN evidence.workers : isWorkerRoutingEvidence(evidence.workers[w])
    /\ Sum([w \in DOMAIN evidence.workers |-> evidence.workers[w].sampleSize])
           <= 8 * evidence.tasks

isOptionalRoutingMetadata(plan, evidence, limit, previousAttempts, selected) ==
    LET attemptNumber == Len(previousAttempts) + 1
        workers       == {plan.route[i] : i \in 1..Len(plan.route)}
    IN /\ Len(plan.route) \in 1..64 /\ Cardinality(workers) = Len(plan.route)
       /\ plan.maxAttempts \in 1..8 /\ plan.maxAttempts <= Len(plan.route)
       /\ attemptNumber <= plan.maxAttempts
       /\ plan.route[attemptNumber] = selected
       /\ \A i \in 1..Len(previousAttempts) : previousAttempts[i].worker = plan.route[i]
       /\ isRoutingEvidenceSnapshot(evidence, limit)
=============================================================================
