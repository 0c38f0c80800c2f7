--------------------------- MODULE DelegationsProofs ---------------------------
(***************************************************************************)
(* Theorems about what a task may do and who does it (Delegations with     *)
(* TaskPolicy, PathPolicy and Router), for every installation: any         *)
(* configuration, history and fleet of up to 64 workers, any tasks, sets   *)
(* of policy documents, ends of attempts and writes.  The sections are the *)
(* resolution of a policy; sums, orders and scores; the evidence of a      *)
(* history; the routes; the attempts; the matcher; the patches; what       *)
(* history is worth.                                                       *)
(*                                                                         *)
(* A recursive definition is a CHOOSE.  That there is a function to choose *)
(* is a fixpoint (LeastFixpoint); what the matcher finds and what the      *)
(* pattern means then agree one step at a time (Right), since a step only  *)
(* goes up (Rank) and there are rounds enough.                             *)
(***************************************************************************)
EXTENDS Delegations, FiniteSetTheorems, SequenceTheorems, WellFoundedInduction, TLAPS

-----------------------------------------------------------------------------
(* The resolution of a policy.                                             *)

(* minimum and strictestTier pick the least of some numbers.               *)
LEMMA StrictestIsLeast ==
    ASSUME NEW values, values \subseteq Nat, values # {}
    PROVE  /\ strictest(values) \in values
           /\ \A k \in values : strictest(values) <= k
  <1> DEFINE R == {ss \in Nat \X Nat : ss[1] < ss[2]}
  <1>1. IsWellFoundedOn(R, Nat)
    BY NatLessThanWellFounded DEF OpToRel
  <1>2. \A k, n \in Nat : k < n => <<k, n>> \in R
    OBVIOUS
  <1> HIDE DEF R
  <1>3. PICK n \in values : \A k \in values : <<k, n>> \notin R
    BY <1>1, WFMin
  <1>4. ASSUME NEW k \in values PROVE n <= k
    <2>1. k \in Nat /\ n \in Nat
      OBVIOUS
    <2>2. ~(k < n)
      BY <1>2, <1>3, <2>1
    <2> QED
      BY <2>1, <2>2
  <1> QED
    BY <1>3, <1>4 DEF strictest

(* A number without a word on it, 0, does not limit; every other one does. *)
LEMMA MinimumNarrows ==
    ASSUME NEW own \in Nat, NEW docs, NEW field,
           \A d \in docs : d[field] \in Nat
    PROVE  /\ minimum(own, docs, field) \in Nat
           /\ minimum(own, docs, field) <= own
           /\ \A d \in docs : d[field] # 0 => minimum(own, docs, field) <= d[field]
  <1> DEFINE values == {own} \cup ({d[field] : d \in docs} \ {0})
  <1>1. values \subseteq Nat /\ values # {}
    OBVIOUS
  <1>2. own \in values /\ \A d \in docs : d[field] # 0 => d[field] \in values
    OBVIOUS
  <1>3. minimum(own, docs, field) = strictest(values)
    BY DEF minimum
  <1> HIDE DEF values
  <1>4. strictest(values) \in values /\ \A k \in values : strictest(values) <= k
    BY <1>1, StrictestIsLeast
  <1> QED
    BY <1>1, <1>2, <1>3, <1>4

(* A tier that is null is above every other.                               *)
LEMMA TierNarrows ==
    ASSUME NEW own \in Tiers \cup {NoTier}, NEW docs, NEW field,
           \A d \in docs : d[field] \in Tiers \cup {NoTier}
    PROVE  /\ strictestTier(own, docs, field) \in Nat
           /\ strictestTier(own, docs, field) <= own
           /\ \A d \in docs : strictestTier(own, docs, field) <= d[field]
  <1> DEFINE values == {own} \cup {d[field] : d \in docs}
  <1>1. values \subseteq Nat /\ values # {}
    BY DEF Tiers, NoTier
  <1>2. own \in values /\ \A d \in docs : d[field] \in values
    OBVIOUS
  <1>3. strictestTier(own, docs, field) = strictest(values)
    BY DEF strictestTier
  <1> HIDE DEF values
  <1>4. strictest(values) \in values /\ \A k \in values : strictest(values) <= k
    BY <1>1, StrictestIsLeast
  <1> QED
    BY <1>1, <1>2, <1>3, <1>4

(* What the resolution makes of commands, limits and network.              *)
LEMMA ResolvedTask ==
    ASSUME NEW config, NEW t \in WorkerTask, NEW docs
    PROVE  LET resolved == resolveTaskPolicy(config, t, docs)
           IN /\ resolved.commands = t.commands
              /\ resolved.maxChangedFiles
                     = minimum(config.maxChangedFiles, docs, "maxChangedFiles")
              /\ resolved.maxIterations = minimum(t.maxIterations, docs, "maxIterations")
              /\ resolved.timeoutSeconds = minimum(t.timeoutSeconds, docs, "maxTaskSeconds")
              /\ resolved.allowNetwork = permitted(t.allowNetwork, docs, "allowNetwork")
  BY DEF resolveTaskPolicy, WorkerTask

(* The routing that a task has of its own.                                 *)
OwnRouting(config, t) ==
    IF t.routing = NoRouting THEN defaultRouting(config) ELSE t.routing

LEMMA OwnRoutingType ==
    ASSUME NEW config \in Configuration, NEW t \in WorkerTask
    PROVE  OwnRouting(config, t) \in WorkerRoutingPolicy
  <1>1. CASE t.routing = NoRouting
    BY <1>1 DEF OwnRouting, defaultRouting, WorkerRoutingPolicy, Configuration
  <1>2. CASE t.routing # NoRouting
    BY <1>2 DEF OwnRouting, WorkerTask
  <1> QED
    BY <1>1, <1>2

LEMMA ResolvedRouting ==
    ASSUME NEW config \in Configuration, NEW t \in WorkerTask, NEW docs
    PROVE  LET own      == OwnRouting(config, t)
               resolved == effectiveTaskRouting(config, t, docs)
           IN /\ resolved.capabilities = own.capabilities \cup UNION {d.capabilities : d \in docs}
              /\ resolved.maxCostTier = strictestTier(own.maxCostTier, docs, "maxCostTier")
              /\ resolved.maxLatencyTier
                     = strictestTier(own.maxLatencyTier, docs, "maxLatencyTier")
              /\ resolved.allowFallback = permitted(own.allowFallback, docs, "allowFallback")
              /\ resolved.maxAttempts = minimum(own.maxAttempts, docs, "maxAttempts")
  <1>1. SUFFICES
          ASSUME NEW own \in WorkerRoutingPolicy,
                 own = OwnRouting(config, t)
          PROVE  LET resolved == effectiveTaskRouting(config, t, docs)
                 IN /\ resolved.capabilities
                           = own.capabilities \cup UNION {d.capabilities : d \in docs}
                    /\ resolved.maxCostTier = strictestTier(own.maxCostTier, docs, "maxCostTier")
                    /\ resolved.maxLatencyTier
                           = strictestTier(own.maxLatencyTier, docs, "maxLatencyTier")
                    /\ resolved.allowFallback = permitted(own.allowFallback, docs, "allowFallback")
                    /\ resolved.maxAttempts = minimum(own.maxAttempts, docs, "maxAttempts")
    BY OwnRoutingType
  <1>2. effectiveTaskRouting(config, t, docs)
          = [own EXCEPT !.capabilities = @ \cup UNION {d.capabilities : d \in docs},
                        !.maxCostTier = strictestTier(@, docs, "maxCostTier"),
                        !.maxLatencyTier = strictestTier(@, docs, "maxLatencyTier"),
                        !.allowFallback = permitted(@, docs, "allowFallback"),
                        !.maxAttempts = minimum(@, docs, "maxAttempts")]
    BY <1>1 DEF effectiveTaskRouting, OwnRouting
  <1> QED
    BY <1>2 DEF WorkerRoutingPolicy

-----------------------------------------------------------------------------
(* Every reachable task.                                                   *)

(* The task is what its request and the documents in force make of it, and *)
(* both kept the contract.                                                 *)
Decided ==
    /\ request \in scenario.tasks /\ documents \in scenario.policies
    /\ task = resolveTaskPolicy(Config, request, documents)
    /\ assertTaskContract(Config, request) /\ assertTaskContract(Config, task)

DecisionInv == scenario \in Scenarios /\ (task # NoTask => Decided)

LEMMA DecisionHolds == Spec => []DecisionInv
  <1>1. Init => DecisionInv
    BY DEF Init, DecisionInv
  <1>2. DecisionInv /\ [Next]_vars => DecisionInv'
    <2> SUFFICES ASSUME DecisionInv, [Next]_vars
                 PROVE  DecisionInv'
      OBVIOUS
    <2>1. CASE Delegate
      BY <2>1 DEF Delegate, Accepted, DecisionInv, Decided, Config
    <2>2. CASE SelectRoute
      BY <2>2 DEF SelectRoute, DecisionInv, Decided, Config
    <2>3. CASE Write
      BY <2>3 DEF Write, decision, DecisionInv, Decided, Config
    <2>4. CASE EndAttempt
      BY <2>4 DEF EndAttempt, decision, DecisionInv, Decided, Config
    <2>5. CASE UNCHANGED vars
      BY <2>5 DEF vars, DecisionInv, Decided, Config
    <2> QED
      BY <2>1, <2>2, <2>3, <2>4, <2>5 DEF Next
  <1> QED
    BY <1>1, <1>2, PTL DEF Spec

LEMMA DecidedTypes ==
    ASSUME DecisionInv, task # NoTask
    PROVE  /\ Config \in Configuration /\ request \in WorkerTask
           /\ \A d \in documents : d \in PolicyDocument
  <1>1. scenario \in Scenarios /\ request \in scenario.tasks /\ documents \in scenario.policies
    BY DEF DecisionInv, Decided
  <1> QED
    BY <1>1, ScenariosAssumption DEF Config

(* Commands run without a sandbox only with the operator's consent and     *)
(* where nobody forbids the network, for every installation: the contract  *)
(* is kept on both sides of the policies (assertTaskContract, delegate).   *)
THEOREM LocalRunsNeedConsent == Spec => []LocalRunsAreConsented
  <1>1. DecisionInv => LocalRunsAreConsented
    <2> SUFFICES ASSUME DecisionInv, task # NoTask, task.commands # {}, Config.backend = "local"
                 PROVE  /\ Config.allowUnsandboxedLocal
                        /\ request.allowNetwork
                        /\ \A d \in documents : d.allowNetwork # "no"
      BY DEF LocalRunsAreConsented
    <2>1. Decided
      BY DEF DecisionInv
    <2>2. request \in WorkerTask
      BY DecidedTypes
    <2>3. /\ task.commands = request.commands
          /\ task.allowNetwork = permitted(request.allowNetwork, documents, "allowNetwork")
      BY <2>1, <2>2, ResolvedTask DEF Decided
    <2>4. Config.allowUnsandboxedLocal /\ task.allowNetwork /\ request.allowNetwork
      BY <2>1, <2>3 DEF Decided, assertTaskContract
    <2> QED
      BY <2>3, <2>4 DEF permitted
  <1> QED
    BY <1>1, DecisionHolds, PTL

(* The parts of AuthorityOnlyNarrows.                                      *)
LEMMA LimitsNarrow ==
    ASSUME DecisionInv, task # NoTask
    PROVE  /\ task.maxChangedFiles <= Config.maxChangedFiles
           /\ task.maxIterations <= request.maxIterations
           /\ task.timeoutSeconds <= request.timeoutSeconds
           /\ \A d \in documents :
                 /\ d.maxChangedFiles # 0 => task.maxChangedFiles <= d.maxChangedFiles
                 /\ d.maxIterations # 0 => task.maxIterations <= d.maxIterations
                 /\ d.maxTaskSeconds # 0 => task.timeoutSeconds <= d.maxTaskSeconds
  <1>1. Config \in Configuration /\ request \in WorkerTask
        /\ \A d \in documents : d \in PolicyDocument
    BY DecidedTypes
  <1>2. task = resolveTaskPolicy(Config, request, documents)
    BY DEF DecisionInv, Decided
  <1>3. /\ task.maxChangedFiles = minimum(Config.maxChangedFiles, documents, "maxChangedFiles")
        /\ task.maxIterations = minimum(request.maxIterations, documents, "maxIterations")
        /\ task.timeoutSeconds = minimum(request.timeoutSeconds, documents, "maxTaskSeconds")
    BY <1>1, <1>2, ResolvedTask
  <1>4. /\ Config.maxChangedFiles \in Nat
        /\ request.maxIterations \in Nat /\ request.timeoutSeconds \in Nat
    BY <1>1 DEF Configuration, WorkerTask
  <1>5. \A d \in documents : /\ d["maxChangedFiles"] \in Nat /\ d["maxIterations"] \in Nat
                             /\ d["maxTaskSeconds"] \in Nat
    BY <1>1 DEF PolicyDocument
  <1>6. /\ task.maxChangedFiles <= Config.maxChangedFiles
        /\ \A d \in documents : d["maxChangedFiles"] # 0 => task.maxChangedFiles <= d["maxChangedFiles"]
    BY <1>3, <1>4, <1>5, MinimumNarrows
  <1>7. /\ task.maxIterations <= request.maxIterations
        /\ \A d \in documents : d["maxIterations"] # 0 => task.maxIterations <= d["maxIterations"]
    BY <1>3, <1>4, <1>5, MinimumNarrows
  <1>8. /\ task.timeoutSeconds <= request.timeoutSeconds
        /\ \A d \in documents : d["maxTaskSeconds"] # 0 => task.timeoutSeconds <= d["maxTaskSeconds"]
    BY <1>3, <1>4, <1>5, MinimumNarrows
  <1> QED
    BY <1>6, <1>7, <1>8

LEMMA PermissionsNarrow ==
    ASSUME DecisionInv, task # NoTask
    PROVE  /\ task.allowNetwork => request.allowNetwork
           /\ task.allowed = request.allowed /\ request.prohibited \subseteq task.prohibited
           /\ \A d \in documents : /\ d.prohibited \subseteq task.prohibited
                                   /\ d.allowNetwork = "no" => ~task.allowNetwork
  <1>1. request \in WorkerTask
    BY DecidedTypes
  <1>2. task = resolveTaskPolicy(Config, request, documents)
    BY DEF DecisionInv, Decided
  <1>3. /\ task.allowed = request.allowed
        /\ task.allowNetwork = permitted(request.allowNetwork, documents, "allowNetwork")
        /\ task.prohibited = request.prohibited \cup (UNION {d.prohibited : d \in documents})
    <2>1. LET resolved == resolveTaskPolicy(Config, request, documents)
          IN /\ resolved.allowed = request.allowed
             /\ resolved.allowNetwork = permitted(request.allowNetwork, documents, "allowNetwork")
             /\ resolved.prohibited = request.prohibited \cup (UNION {d.prohibited : d \in documents})
      BY <1>1 DEF resolveTaskPolicy, WorkerTask
    <2> QED
      BY <1>2, <2>1
  <1> QED
    BY <1>3 DEF permitted

LEMMA RoutingNarrows ==
    ASSUME DecisionInv, task # NoTask,
           NEW own, own = OwnRouting(Config, request)
    PROVE  /\ own.capabilities \subseteq task.routing.capabilities
           /\ task.routing.maxCostTier <= own.maxCostTier
           /\ task.routing.maxLatencyTier <= own.maxLatencyTier
           /\ task.routing.allowFallback => own.allowFallback
           /\ task.routing.maxAttempts <= own.maxAttempts
           /\ task.routing.maxCostTier \in Nat /\ task.routing.maxLatencyTier \in Nat
           /\ \A d \in documents :
                 /\ d.maxAttempts # 0 => task.routing.maxAttempts <= d.maxAttempts
                 /\ d.capabilities \subseteq task.routing.capabilities
                 /\ task.routing.maxCostTier <= d.maxCostTier
                 /\ task.routing.maxLatencyTier <= d.maxLatencyTier
                 /\ d.allowFallback = "no" => ~task.routing.allowFallback
  <1>1. Config \in Configuration /\ request \in WorkerTask
        /\ \A d \in documents : d \in PolicyDocument
    BY DecidedTypes
  <1>2. task.routing = effectiveTaskRouting(Config, request, documents)
    <2>1. task = resolveTaskPolicy(Config, request, documents)
      BY DEF DecisionInv, Decided
    <2>2. resolveTaskPolicy(Config, request, documents).routing
              = effectiveTaskRouting(Config, request, documents)
      BY <1>1 DEF resolveTaskPolicy, WorkerTask
    <2> QED
      BY <2>1, <2>2
  <1>3. /\ task.routing.capabilities = own.capabilities \cup UNION {d.capabilities : d \in documents}
        /\ task.routing.maxCostTier = strictestTier(own.maxCostTier, documents, "maxCostTier")
        /\ task.routing.maxLatencyTier
               = strictestTier(own.maxLatencyTier, documents, "maxLatencyTier")
        /\ task.routing.allowFallback = permitted(own.allowFallback, documents, "allowFallback")
        /\ task.routing.maxAttempts = minimum(own.maxAttempts, documents, "maxAttempts")
    BY <1>1, <1>2, ResolvedRouting
  <1>4. /\ own.maxCostTier \in Tiers \cup {NoTier} /\ own.maxLatencyTier \in Tiers \cup {NoTier}
        /\ own.maxAttempts \in Nat
    BY <1>1, OwnRoutingType DEF WorkerRoutingPolicy
  <1>5. \A d \in documents :
           /\ d["maxCostTier"] \in Tiers \cup {NoTier} /\ d["maxLatencyTier"] \in Tiers \cup {NoTier}
           /\ d["maxAttempts"] \in Nat
    BY <1>1 DEF PolicyDocument
  <1>6. /\ task.routing.maxCostTier \in Nat /\ task.routing.maxCostTier <= own.maxCostTier
        /\ \A d \in documents : task.routing.maxCostTier <= d["maxCostTier"]
    BY <1>3, <1>4, <1>5, TierNarrows
  <1>7. /\ task.routing.maxLatencyTier \in Nat
        /\ task.routing.maxLatencyTier <= own.maxLatencyTier
        /\ \A d \in documents : task.routing.maxLatencyTier <= d["maxLatencyTier"]
    BY <1>3, <1>4, <1>5, TierNarrows
  <1>8. /\ task.routing.maxAttempts <= own.maxAttempts
        /\ \A d \in documents : d["maxAttempts"] # 0 => task.routing.maxAttempts <= d["maxAttempts"]
    BY <1>3, <1>4, <1>5, MinimumNarrows
  <1>9. /\ task.routing.allowFallback => own.allowFallback
        /\ \A d \in documents : d.allowFallback = "no" => ~task.routing.allowFallback
    BY <1>3 DEF permitted
  <1>10. /\ own.capabilities \subseteq task.routing.capabilities
         /\ \A d \in documents : d.capabilities \subseteq task.routing.capabilities
    BY <1>3
  <1> QED
    BY <1>6, <1>7, <1>8, <1>9, <1>10

(* For every configuration, task and set of documents: a task never gets   *)
(* more than its caller asked for, nor more than the configuration or any  *)
(* document gives (resolveTaskPolicy, effectiveTaskRouting).               *)
THEOREM PoliciesOnlyNarrow == Spec => []AuthorityOnlyNarrows
  <1>1. ASSUME DecisionInv, task # NoTask
        PROVE  AuthorityOnlyNarrows
    <2>1. request.routing # NoRouting =>
              /\ request.routing.capabilities \subseteq task.routing.capabilities
              /\ task.routing.maxCostTier <= request.routing.maxCostTier
              /\ task.routing.maxLatencyTier <= request.routing.maxLatencyTier
              /\ task.routing.allowFallback => request.routing.allowFallback
              /\ task.routing.maxAttempts <= request.routing.maxAttempts
      BY <1>1, RoutingNarrows DEF OwnRouting
    <2>2. \A d \in documents :
              /\ d.maxAttempts # 0 => task.routing.maxAttempts <= d.maxAttempts
              /\ d.capabilities \subseteq task.routing.capabilities
              /\ task.routing.maxCostTier <= d.maxCostTier
              /\ task.routing.maxLatencyTier <= d.maxLatencyTier
              /\ d.allowFallback = "no" => ~task.routing.allowFallback
      BY <1>1, RoutingNarrows
    <2>3. \A d \in documents :
              \A limit \in {<<task.maxChangedFiles, d.maxChangedFiles>>,
                            <<task.maxIterations, d.maxIterations>>,
                            <<task.timeoutSeconds, d.maxTaskSeconds>>,
                            <<task.routing.maxAttempts, d.maxAttempts>>} :
                 limit[2] # 0 => limit[1] <= limit[2]
      BY <1>1, <2>2, LimitsNarrow
    <2> QED
      BY <1>1, <2>1, <2>2, <2>3, LimitsNarrow, PermissionsNarrow DEF AuthorityOnlyNarrows
  <1>2. DecisionInv => AuthorityOnlyNarrows
    BY <1>1 DEF AuthorityOnlyNarrows
  <1> QED
    BY <1>2, DecisionHolds, PTL


-----------------------------------------------------------------------------
(* Sums.                                                                   *)

(* Induction over the natural numbers, for a set.                          *)
LEMMA CountingUp ==
    ASSUME NEW T, 0 \in T, \A n \in Nat : n \in T => n + 1 \in T
    PROVE  \A n \in Nat : n \in T
  <1> DEFINE R == {ss \in Nat \X Nat : ss[1] < ss[2]}
             rest == {n \in Nat : n \notin T}
  <1>1. IsWellFoundedOn(R, Nat)
    BY NatLessThanWellFounded DEF OpToRel
  <1>2. \A k, n \in Nat : k < n => <<k, n>> \in R
    OBVIOUS
  <1> HIDE DEF R
  <1>3. ASSUME rest # {} PROVE FALSE
    <2>1. PICK n \in rest : \A k \in rest : <<k, n>> \notin R
      BY <1>1, <1>3, WFMin
    <2>2. n \in Nat /\ n # 0 /\ n - 1 \in Nat /\ n - 1 < n /\ n = (n - 1) + 1
      BY <2>1
    <2>3. n - 1 \in T
      BY <1>2, <2>1, <2>2
    <2> QED
      BY <2>1, <2>2, <2>3
  <1> QED
    BY <1>3

(* One step of the fold behind Sum.                                        *)
SumStep(f, F, s) ==
    IF s = {} THEN 0 ELSE LET x == CHOOSE x \in s : TRUE IN f[x] + F[s \ {x}]

LEMMA SumIsFold ==
    ASSUME NEW f
    PROVE  Sum(f) = (CHOOSE F : F = [s \in SUBSET DOMAIN f |-> SumStep(f, F, s)])[DOMAIN f]
  BY DEF Sum, FoldFunction, FoldFunctionOnSet, MapThenFoldSet, SumStep

(* The choice that removes an element from a set.                          *)
LEMMA SumIsRecursive ==
    ASSUME NEW f, IsFiniteSet(DOMAIN f)
    PROVE  \E F : /\ F = [s \in SUBSET DOMAIN f |-> SumStep(f, F, s)]
                  /\ Sum(f) = F[DOMAIN f]
  <1> DEFINE S == DOMAIN f
             Upto(n) == {s \in SUBSET S : Cardinality(s) <= n}
             Least(s) == CHOOSE x \in s : TRUE
             Ns == {n \in Nat : \E F : F = [s \in Upto(n) |-> SumStep(f, F, s)]}
  <1>1. \A s \in SUBSET S : IsFiniteSet(s) /\ Cardinality(s) \in Nat
    BY FS_Subset, FS_CardinalityType
  <1>2. \A s \in SUBSET S : s # {} =>
            /\ Least(s) \in s /\ s \ {Least(s)} \in SUBSET S
            /\ Cardinality(s \ {Least(s)}) = Cardinality(s) - 1
    <2> SUFFICES ASSUME NEW s \in SUBSET S, s # {}
                 PROVE  /\ Least(s) \in s /\ s \ {Least(s)} \in SUBSET S
                        /\ Cardinality(s \ {Least(s)}) = Cardinality(s) - 1
      OBVIOUS
    <2>1. Least(s) \in s
      OBVIOUS
    <2> QED
      BY <1>1, <2>1, FS_RemoveElement
  <1>3. \A F, s : SumStep(f, F, s) = IF s = {} THEN 0 ELSE f[Least(s)] + F[s \ {Least(s)}]
    BY DEF SumStep
  <1> HIDE DEF Least
  <1>4. 0 \in Ns
    <2> DEFINE F == [s \in Upto(0) |-> 0]
    <2>1. \A s \in Upto(0) : s = {}
      BY <1>1, FS_EmptySet
    <2>2. \A s \in Upto(0) : SumStep(f, F, s) = 0
      BY <1>3, <2>1
    <2>3. F = [s \in Upto(0) |-> SumStep(f, F, s)]
      BY <2>2
    <2> QED
      BY <2>3
  <1>5. ASSUME NEW n \in Nat, n \in Ns PROVE n + 1 \in Ns
    <2>1. PICK F : F = [s \in Upto(n) |-> SumStep(f, F, s)]
      BY <1>5
    <2> DEFINE G == [s \in Upto(n + 1) |-> SumStep(f, F, s)]
    <2>2. ASSUME NEW s \in Upto(n + 1) PROVE SumStep(f, F, s) = SumStep(f, G, s)
      <3>1. CASE s = {}
        BY <1>3, <3>1
      <3>2. CASE s # {}
        <4> DEFINE r == s \ {Least(s)}
        <4>1. r \in SUBSET S /\ Cardinality(r) <= n
          BY <1>1, <1>2, <3>2
        <4>2. r \in Upto(n) /\ r \in Upto(n + 1)
          BY <1>1, <4>1
        <4>3. F[r] = SumStep(f, F, r)
          BY <2>1, <4>2
        <4>4. G[r] = SumStep(f, F, r)
          BY <4>2
        <4>5. SumStep(f, F, s) = f[Least(s)] + F[r] /\ SumStep(f, G, s) = f[Least(s)] + G[r]
          BY <1>3, <3>2
        <4> QED
          BY <4>3, <4>4, <4>5
      <3> QED
        BY <3>1, <3>2
    <2> HIDE DEF G
    <2>3. G = [s \in Upto(n + 1) |-> SumStep(f, G, s)]
      <3>1. G = [s \in Upto(n + 1) |-> SumStep(f, F, s)]
        BY DEF G
      <3> QED
        BY <2>2, <3>1
    <2> QED
      BY <2>3
  <1> HIDE DEF Ns
  <1>6. \A n \in Nat : n \in Ns
    BY <1>4, <1>5, CountingUp
  <1>7. Cardinality(S) \in Ns
    BY <1>1, <1>6
  <1>8. PICK F : F = [s \in Upto(Cardinality(S)) |-> SumStep(f, F, s)]
    BY <1>7 DEF Ns
  <1>9. Upto(Cardinality(S)) = SUBSET S
    BY FS_Subset
  <1>10. \E H : H = [s \in SUBSET S |-> SumStep(f, H, s)]
    BY <1>8, <1>9
  <1> DEFINE C == CHOOSE H : H = [s \in SUBSET DOMAIN f |-> SumStep(f, H, s)]
  <1>11. C = [s \in SUBSET DOMAIN f |-> SumStep(f, C, s)]
    BY <1>10
  <1>12. Sum(f) = C[DOMAIN f]
    BY SumIsFold
  <1> QED
    BY <1>11, <1>12

(* What holds of the empty sum and is kept by adding an element holds of   *)
(* the whole one.                                                          *)
LEMMA SumInduction ==
    ASSUME NEW S, IsFiniteSet(S), NEW f, DOMAIN f = S,
           NEW P, <<{}, 0>> \in P,
           \A s, k : \A x \in S \ s :
               s \subseteq S /\ <<s, k>> \in P => <<s \cup {x}, f[x] + k>> \in P
    PROVE  <<S, Sum(f)>> \in P
  <1>1. PICK F : F = [s \in SUBSET S |-> SumStep(f, F, s)] /\ Sum(f) = F[S]
    BY SumIsRecursive
  <1> DEFINE Ns == {n \in Nat : \A s \in SUBSET S : Cardinality(s) = n => <<s, F[s]>> \in P}
  <1>2. \A s \in SUBSET S : IsFiniteSet(s) /\ Cardinality(s) \in Nat
    BY FS_Subset, FS_CardinalityType
  <1>3. 0 \in Ns
    <2> SUFFICES ASSUME NEW s \in SUBSET S, Cardinality(s) = 0
                 PROVE  <<s, F[s]>> \in P
      OBVIOUS
    <2>1. s = {}
      BY <1>2, FS_EmptySet
    <2>2. F[s] = 0
      BY <1>1, <2>1 DEF SumStep
    <2> QED
      BY <2>1, <2>2
  <1>4. ASSUME NEW n \in Nat, n \in Ns PROVE n + 1 \in Ns
    <2> SUFFICES ASSUME NEW s \in SUBSET S, Cardinality(s) = n + 1
                 PROVE  <<s, F[s]>> \in P
      BY <1>4
    <2>1. s # {}
      BY FS_EmptySet
    <2>2. PICK x : x = CHOOSE y \in s : TRUE
      OBVIOUS
    <2>3. x \in s
      BY <2>1, <2>2
    <2> DEFINE r == s \ {x}
    <2>4. F[s] = f[x] + F[r]
      BY <1>1, <2>1, <2>2 DEF SumStep
    <2>5. r \in SUBSET S /\ Cardinality(r) = n
      BY <1>2, <2>3, FS_RemoveElement
    <2>6. <<r, F[r]>> \in P
      BY <1>4, <2>5
    <2>7. x \in S \ r /\ r \cup {x} = s
      BY <2>3
    <2>8. <<r \cup {x}, f[x] + F[r]>> \in P
      BY <2>5, <2>6, <2>7
    <2> QED
      BY <2>4, <2>7, <2>8
  <1> HIDE DEF Ns
  <1>5. Cardinality(S) \in Ns
    BY <1>2, <1>3, <1>4, CountingUp
  <1>6. <<S, F[S]>> \in P
    BY <1>5 DEF Ns
  <1> QED
    BY <1>1, <1>6

LEMMA Distributes ==
    ASSUME NEW a \in Int, NEW n \in Int
    PROVE  a * n \in Int /\ a * (n + 1) = a * n + a
  OBVIOUS

(* A sum of numbers between two bounds.                                    *)
LEMMA SumBounds ==
    ASSUME NEW S, IsFiniteSet(S), NEW f \in [S -> Int], NEW a \in Int, NEW b \in Int,
           \A x \in S : a <= f[x] /\ f[x] <= b
    PROVE  /\ Sum(f) \in Int
           /\ a * Cardinality(S) <= Sum(f) /\ Sum(f) <= b * Cardinality(S)
  <1> DEFINE P == {sk \in (SUBSET S) \X Int : /\ a * Cardinality(sk[1]) <= sk[2]
                                              /\ sk[2] <= b * Cardinality(sk[1])}
  <1>1. <<{}, 0>> \in P
    BY FS_EmptySet
  <1>2. ASSUME NEW s, NEW k, NEW x \in S \ s, s \subseteq S, <<s, k>> \in P
        PROVE  <<s \cup {x}, f[x] + k>> \in P
    <2>1. PICK n \in Nat : n = Cardinality(s) /\ Cardinality(s \cup {x}) = n + 1
      BY <1>2, FS_Subset, FS_CardinalityType, FS_AddElement
    <2>2. k \in Int /\ a * n <= k /\ k <= b * n
      BY <1>2, <2>1
    <2>3. f[x] \in Int /\ a <= f[x] /\ f[x] <= b
      BY <1>2
    <2>4. a * (n + 1) = a * n + a /\ b * (n + 1) = b * n + b /\ a * n \in Int /\ b * n \in Int
      BY Distributes
    <2>5. a * (n + 1) <= f[x] + k /\ f[x] + k <= b * (n + 1)
      BY <2>2, <2>3, <2>4
    <2>6. s \cup {x} \in SUBSET S /\ f[x] + k \in Int
      BY <1>2, <2>2, <2>3
    <2> QED
      BY <2>1, <2>5, <2>6
  <1> HIDE DEF P
  <1>3. <<S, Sum(f)>> \in P
    <2>1. DOMAIN f = S
      OBVIOUS
    <2> QED
      BY <1>1, <1>2, <2>1, SumInduction
  <1> QED
    BY <1>3 DEF P

(* No number of a sum of natural numbers is above the sum.                 *)
LEMMA SumIsAboveEach ==
    ASSUME NEW S, IsFiniteSet(S), NEW f \in [S -> Nat]
    PROVE  Sum(f) \in Nat /\ \A x \in S : f[x] <= Sum(f)
  <1> DEFINE P == {sk \in (SUBSET S) \X Nat : \A x \in sk[1] : f[x] <= sk[2]}
  <1>1. <<{}, 0>> \in P
    OBVIOUS
  <1>2. ASSUME NEW s, NEW k, NEW x \in S \ s, s \subseteq S, <<s, k>> \in P
        PROVE  <<s \cup {x}, f[x] + k>> \in P
    <2>1. k \in Nat /\ f[x] \in Nat /\ \A y \in s : f[y] \in Nat /\ f[y] <= k
      BY <1>2
    <2>2. \A y \in s \cup {x} : f[y] <= f[x] + k
      BY <2>1
    <2> QED
      BY <1>2, <2>1, <2>2
  <1> HIDE DEF P
  <1>3. <<S, Sum(f)>> \in P
    <2>1. DOMAIN f = S
      OBVIOUS
    <2> QED
      BY <1>1, <1>2, <2>1, SumInduction
  <1> QED
    BY <1>3 DEF P

-----------------------------------------------------------------------------
(* The order of the route.                                                 *)

(* Of two workers exactly one comes before the other, and the order is     *)
(* transitive.                                                             *)
LEMMA OrderIsTotal ==
    ASSUME NEW S, S \subseteq Workers, NEW score \in [S -> Int], NEW routing,
           NEW u \in S, NEW v \in S, NEW w \in S
    PROVE  /\ ~comesBefore(score, routing, v, v)
           /\ v # w => comesBefore(score, routing, v, w) \/ comesBefore(score, routing, w, v)
           /\ comesBefore(score, routing, u, v) /\ comesBefore(score, routing, v, w)
                  => comesBefore(score, routing, u, w)
  <1>1. /\ score[u] \in Int /\ score[v] \in Int /\ score[w] \in Int
        /\ IdRank[u] \in Nat /\ IdRank[v] \in Nat /\ IdRank[w] \in Nat
    BY IdRankAssumption
  <1>2. v # w => IdRank[v] # IdRank[w]
    BY IdRankAssumption
  <1> QED
    BY <1>1, <1>2 DEF comesBefore

(* The number of workers that come before one.                             *)
RankOf(score, routing, w) ==
    Cardinality({v \in DOMAIN score : comesBefore(score, routing, v, w)})

LEMMA RankFollowsOrder ==
    ASSUME NEW S, S \subseteq Workers, IsFiniteSet(S), NEW score \in [S -> Int], NEW routing,
           NEW v \in S, NEW w \in S
    PROVE  /\ RankOf(score, routing, w) \in 0..(Cardinality(S) - 1)
           /\ comesBefore(score, routing, v, w)
                  => RankOf(score, routing, v) < RankOf(score, routing, w)
  <1> DEFINE Ahead(x) == {y \in S : comesBefore(score, routing, y, x)}
  <1>1. \A x \in S : RankOf(score, routing, x) = Cardinality(Ahead(x))
    BY DEF RankOf
  <1>2. \A x \in S : IsFiniteSet(Ahead(x)) /\ Cardinality(Ahead(x)) \in Nat
    BY FS_Subset, FS_CardinalityType
  <1>3. Cardinality(S) \in Nat
    BY FS_CardinalityType
  <1>4. w \notin Ahead(w) /\ v \notin Ahead(v)
    BY OrderIsTotal
  <1>5. comesBefore(score, routing, v, w) => v \in Ahead(w) /\ Ahead(v) \subseteq Ahead(w)
    BY OrderIsTotal
  <1> HIDE DEF Ahead
  <1>6. Ahead(w) \subseteq S
    BY DEF Ahead
  <1>7. Cardinality(Ahead(w)) <= Cardinality(S) /\ Cardinality(Ahead(w)) # Cardinality(S)
    BY <1>4, <1>6, FS_Subset
  <1>8. ASSUME comesBefore(score, routing, v, w)
        PROVE  Cardinality(Ahead(v)) < Cardinality(Ahead(w))
    <2>1. /\ Cardinality(Ahead(v)) <= Cardinality(Ahead(w))
          /\ Cardinality(Ahead(w)) = Cardinality(Ahead(v)) => Ahead(w) = Ahead(v)
      BY <1>2, <1>5, <1>8, FS_Subset
    <2> QED
      BY <1>2, <1>4, <1>5, <1>8, <2>1
  <1> QED
    BY <1>1, <1>2, <1>3, <1>7, <1>8

(* Sorted has every worker once, in the order.                             *)
LEMMA SortedInOrder ==
    ASSUME NEW S, S \subseteq Workers, IsFiniteSet(S), NEW score \in [S -> Int], NEW routing,
           NEW sorted, sorted = Sorted(score, routing)
    PROVE  /\ sorted \in [1..Cardinality(S) -> S]
           /\ \A w \in S : \E i \in 1..Cardinality(S) : sorted[i] = w
           /\ \A i, j \in 1..Cardinality(S) :
                 i < j <=> comesBefore(score, routing, sorted[i], sorted[j])
  <1> DEFINE Rank(w) == RankOf(score, routing, w)
             f == [w \in S |-> Rank(w) + 1]
  <1>1. PICK n \in Nat : n = Cardinality(S)
    BY FS_CardinalityType
  <1>2. \A w \in S : Rank(w) \in 0..(n - 1)
    BY <1>1, RankFollowsOrder
  <1>3. \A v, w \in S : comesBefore(score, routing, v, w) => Rank(v) < Rank(w)
    BY RankFollowsOrder
  <1>4. \A v, w \in S : v # w => comesBefore(score, routing, v, w) \/ comesBefore(score, routing, w, v)
    BY OrderIsTotal
  <1>5. sorted = [i \in 1..n |-> CHOOSE w \in S : Rank(w) = i - 1]
    <2>1. DOMAIN score = S
      OBVIOUS
    <2>2. sorted = [i \in 1..Cardinality(DOMAIN score) |-> CHOOSE w \in DOMAIN score : Rank(w) = i - 1]
      BY DEF Sorted, RankOf
    <2> QED
      BY <1>1, <2>1, <2>2
  <1> HIDE DEF Rank
  <1>6. \A v, w \in S : Rank(v) = Rank(w) => v = w
    BY <1>2, <1>3, <1>4
  <1>7. f \in Injection(S, 1..n)
    BY <1>2, <1>6 DEF Injection, IsInjective
  <1>8. IsFiniteSet(1..n) /\ Cardinality(1..n) = n
    BY FS_Interval
  <1>9. f \in Surjection(S, 1..n)
    BY <1>1, <1>7, <1>8, FS_Injection
  <1>10. \A i \in 1..n : \E w \in S : Rank(w) = i - 1
    <2> SUFFICES ASSUME NEW i \in 1..n PROVE \E w \in S : Rank(w) = i - 1
      OBVIOUS
    <2>1. PICK w \in S : f[w] = i
      BY <1>9 DEF Surjection
    <2>2. Rank(w) + 1 = i /\ Rank(w) \in Int
      BY <1>2, <2>1
    <2> QED
      BY <2>2
  <1>11. \A i \in 1..n : sorted[i] \in S /\ Rank(sorted[i]) = i - 1
    BY <1>5, <1>10
  <1>12. \A w \in S : \E i \in 1..n : sorted[i] = w
    <2> SUFFICES ASSUME NEW w \in S PROVE \E i \in 1..n : sorted[i] = w
      OBVIOUS
    <2>1. Rank(w) + 1 \in 1..n /\ Rank(w) = (Rank(w) + 1) - 1
      BY <1>2
    <2> QED
      BY <1>6, <1>11, <2>1
  <1>13. \A i, j \in 1..n : i < j <=> comesBefore(score, routing, sorted[i], sorted[j])
    <2> SUFFICES ASSUME NEW i \in 1..n, NEW j \in 1..n
                 PROVE  i < j <=> comesBefore(score, routing, sorted[i], sorted[j])
      OBVIOUS
    <2>1. /\ sorted[i] \in S /\ Rank(sorted[i]) = i - 1
          /\ sorted[j] \in S /\ Rank(sorted[j]) = j - 1
      BY <1>11
    <2>2. i < j => sorted[i] # sorted[j]
      BY <2>1
    <2> QED
      BY <1>3, <1>4, <2>1, <2>2
  <1>14. sorted \in [1..n -> S]
    BY <1>5, <1>11
  <1> QED
    BY <1>1, <1>12, <1>13, <1>14

-----------------------------------------------------------------------------
(* Scores.                                                                 *)

LEMMA Division ==
    ASSUME NEW a \in Int, NEW d \in Nat \ {0}
    PROVE  /\ a \div d \in Int
           /\ d * (a \div d) <= a /\ a < d * (a \div d) + d
  OBVIOUS

LEMMA Products ==
    ASSUME NEW a \in Int, NEW b \in Int, NEW n \in Nat
    PROVE  /\ a * n \in Int /\ n * a \in Int /\ n * a = a * n
           /\ a <= b => a * n <= b * n
  OBVIOUS

(* A rounded fraction stays between the integers the fraction is between.  *)
LEMMA RoundBounds ==
    ASSUME NEW k \in Int, NEW n \in Nat \ {0}
    PROVE  /\ Round(k, n) \in Int
           /\ \A m \in Int : /\ m * n <= k => m <= Round(k, n)
                             /\ k <= m * n => Round(k, n) <= m
  <1> DEFINE q == Round(k, n)
  <1>1. q = (2 * k + n) \div (2 * n)
    BY DEF Round
  <1>2. 2 * k + n \in Int /\ 2 * n \in Nat \ {0}
    OBVIOUS
  <1>3. /\ q \in Int
        /\ (2 * n) * q <= 2 * k + n /\ 2 * k + n < (2 * n) * q + 2 * n
    BY <1>1, <1>2, Division
  <1> HIDE DEF q
  <1>4. ASSUME NEW m \in Int, m * n <= k PROVE m <= q
    <2>1. ~(q + 1 <= m)
      <3> SUFFICES ASSUME q + 1 <= m PROVE FALSE
        OBVIOUS
      <3>1. (q + 1) * n <= m * n
        BY <1>3, Products
      <3>2. (q + 1) * n = q * n + n /\ (2 * n) * q = 2 * (q * n) /\ q * n \in Int /\ m * n \in Int
        BY <1>3
      <3> QED
        BY <1>3, <1>4, <3>1, <3>2
    <2> QED
      BY <1>3, <2>1
  <1>5. ASSUME NEW m \in Int, k <= m * n PROVE q <= m
    <2>1. ~(m + 1 <= q)
      <3> SUFFICES ASSUME m + 1 <= q PROVE FALSE
        OBVIOUS
      <3>1. (m + 1) * n <= q * n
        BY <1>3, Products
      <3>2. (m + 1) * n = m * n + n /\ (2 * n) * q = 2 * (q * n) /\ q * n \in Int /\ m * n \in Int
        BY <1>3
      <3> QED
        BY <1>3, <1>5, <3>1, <3>2
    <2> QED
      BY <1>3, <2>1
  <1> QED
    BY <1>3, <1>4, <1>5 DEF q

LEMMA Confidence ==
    ASSUME NEW m \in Nat, NEW n \in Nat
    PROVE  /\ evidenceConfidence(n) \in 0..20
           /\ m <= n => evidenceConfidence(m) <= evidenceConfidence(n)
           /\ n # 0 => evidenceConfidence(n) # 0
           /\ n >= 20 => evidenceConfidence(n) = 20
  BY DEF evidenceConfidence

(* Performance weighs more than cost and latency together.                 *)
LEMMA Weights ==
    ASSUME NEW strategy \in Strategies, NEW weights, weights = evidenceWeights(strategy)
    PROVE  \E p, c, l \in Nat :
              /\ weights.performance = 20 * p /\ weights.performance \div 20 = p
              /\ weights.cost = 20 * c /\ weights.cost \div 20 = c
              /\ weights.latency = 20 * l /\ weights.latency \div 20 = l
              /\ c + l < p
  <1>1. CASE strategy = "balanced"
    <2>1. weights
              = [performance |-> 75000, cost |-> 30000, latency |-> 30000]
      BY <1>1 DEF evidenceWeights
    <2> WITNESS 3750 \in Nat, 1500 \in Nat, 1500 \in Nat
    <2> QED
      BY <2>1
  <1>2. CASE strategy = "cost"
    <2>1. weights = [performance |-> 100000, cost |-> 60000, latency |-> 0]
      BY <1>2 DEF evidenceWeights
    <2> WITNESS 5000 \in Nat, 3000 \in Nat, 0 \in Nat
    <2> QED
      BY <2>1
  <1>3. CASE strategy = "latency"
    <2>1. weights = [performance |-> 100000, cost |-> 0, latency |-> 60000]
      BY <1>3 DEF evidenceWeights
    <2> WITNESS 5000 \in Nat, 0 \in Nat, 3000 \in Nat
    <2> QED
      BY <2>1
  <1>4. CASE strategy = "quality"
    <2>1. weights = [performance |-> 300000, cost |-> 0, latency |-> 0]
      BY <1>4 DEF evidenceWeights
    <2> WITNESS 15000 \in Nat, 0 \in Nat, 0 \in Nat
    <2> QED
      BY <2>1
  <1> QED
    BY <1>1, <1>2, <1>3, <1>4 DEF Strategies

(* A comparison moves a worker no further than the most trusted of its     *)
(* pairs, in either direction.                                             *)
LEMMA MetricIsBounded ==
    ASSUME NEW known, IsFiniteSet(known), NEW metric, DOMAIN metric = known,
           NEW samples \in [known -> Nat], NEW weight, NEW c \in Nat, weight \div 20 = c,
           NEW w, NEW most \in Nat,
           w \in known => \A o \in known \ {w} :
               evidenceConfidence(IF samples[w] < samples[o] THEN samples[w] ELSE samples[o]) <= most
    PROVE  LET moved == rankMetric(w, metric, samples, weight)
           IN moved \in Int /\ -(c * most) <= moved /\ moved <= c * most
  <1> DEFINE others == known \ {w}
             Trust(o) == evidenceConfidence(IF samples[w] < samples[o] THEN samples[w] ELSE samples[o])
             Pull(o) == IF metric[w] < metric[o] THEN Trust(o)
                        ELSE IF metric[w] > metric[o] THEN -Trust(o) ELSE 0
             f == [o \in others |-> Pull(o)]
             moved == rankMetric(w, metric, samples, weight)
  <1>1. moved = IF w \notin known \/ others = {} THEN 0
                ELSE Round(c * Sum(f), Cardinality(others))
    BY DEF rankMetric
  <1>2. CASE w \notin known \/ others = {}
    <2>1. moved = 0
      BY <1>1, <1>2
    <2>2. c * most \in Nat
      OBVIOUS
    <2> QED
      BY <2>1, <2>2
  <1>3. CASE w \in known /\ others # {}
    <2>1. \A o \in others : Trust(o) \in Nat /\ Trust(o) <= most
      BY <1>3, Confidence
    <2>2. \A o \in others : Pull(o) \in Int /\ -most <= Pull(o) /\ Pull(o) <= most
      <3> HIDE DEF Trust
      <3> QED
        BY <2>1
    <2> HIDE DEF Pull
    <2>3. f \in [others -> Int] /\ \A o \in others : -most <= f[o] /\ f[o] <= most
      BY <2>2
    <2>4. IsFiniteSet(others)
      BY FS_Subset
    <2>5. PICK n \in Nat \ {0} : n = Cardinality(others)
      BY <1>3, <2>4, FS_CardinalityType, FS_EmptySet
    <2> HIDE DEF f, others
    <2>6. Sum(f) \in Int /\ (-most) * n <= Sum(f) /\ Sum(f) <= most * n
      BY <2>3, <2>4, <2>5, SumBounds
    <2>7. moved = Round(c * Sum(f), n)
      BY <1>1, <1>3, <2>5
    <2> DEFINE k == c * Sum(f)
    <2>8. /\ k \in Int
          /\ c * ((-most) * n) <= k /\ k <= c * (most * n)
      BY <2>6, Products
    <2>9. /\ c * ((-most) * n) = (-(c * most)) * n /\ c * (most * n) = (c * most) * n
          /\ c * most \in Int
      OBVIOUS
    <2> HIDE DEF k
    <2>10. /\ Round(k, n) \in Int
           /\ -(c * most) <= Round(k, n) /\ Round(k, n) <= c * most
      BY <2>8, <2>9, RoundBounds
    <2> QED
      BY <2>7, <2>10 DEF k
  <1> QED
    BY <1>2, <1>3

-----------------------------------------------------------------------------
(* Evidence.                                                               *)

(* The counts of a worker's attempts.                                      *)
Counted(e) ==
    /\ e.sampleSize \in Nat \ {0}
    /\ e.successCount \in 0..e.sampleSize
    /\ e.evaluationCount \in 0..e.sampleSize
    /\ e.evaluationPassCount \in 0..e.evaluationCount
    /\ e.costSampleCount \in 0..e.sampleSize
    /\ e.costSampleCount = 0 <=> e.averageCost = 0

(* An average of positive numbers is positive.                             *)
LEMMA AverageIsPositive ==
    ASSUME NEW S, IsFiniteSet(S), S # {}, NEW f \in [S -> Nat \ {0}]
    PROVE  average(f) # 0
  <1>1. PICK n \in Nat \ {0} : n = Cardinality(S)
    BY FS_CardinalityType, FS_EmptySet
  <1>2. f \in [S -> Nat] /\ f \in [S -> Int]
    OBVIOUS
  <1>3. PICK b \in Nat : b = Sum(f) /\ \A x \in S : f[x] <= b
    BY <1>2, SumIsAboveEach
  <1>4. \A x \in S : 1 <= f[x]
    OBVIOUS
  <1>5. 1 * n <= b
    BY <1>1, <1>2, <1>3, <1>4, SumBounds
  <1>6. average(f) = Round(b, n)
    BY <1>1, <1>3 DEF average
  <1>7. 1 <= Round(b, n) /\ Round(b, n) \in Int
    BY <1>5, RoundBounds
  <1> QED
    BY <1>6, <1>7

LEMMA AggregatesCount ==
    ASSUME NEW D, IsFiniteSet(D), D # {}, NEW observed, DOMAIN observed = D,
           \A x \in D : observed[x].cost \in Nat
    PROVE  Counted(Aggregate(observed)) /\ Aggregate(observed).sampleSize = Cardinality(D)
  <1> DEFINE With(field, values) == {x \in D : observed[x][field] \in values}
             priced == {x \in D : observed[x].cost # 0}
             e == Aggregate(observed)
  <1>1. /\ e.sampleSize = Cardinality(D)
        /\ e.successCount = Cardinality(With("status", {"completed"}))
        /\ e.evaluationCount = Cardinality(With("evaluation", EvaluationOutcomes))
        /\ e.evaluationPassCount = Cardinality(With("evaluation", {"passed"}))
        /\ e.costSampleCount = Cardinality(priced)
        /\ e.averageCost = IF priced = {} THEN 0
                           ELSE average([x \in priced |-> observed[x].cost])
    BY DEF Aggregate
  <1>2. \A s \in SUBSET D : /\ IsFiniteSet(s) /\ Cardinality(s) \in Nat
                            /\ Cardinality(s) <= Cardinality(D)
    BY FS_Subset, FS_CardinalityType
  <1>3. Cardinality(D) \in Nat \ {0}
    BY FS_CardinalityType, FS_EmptySet
  <1>4. /\ With("status", {"completed"}) \in SUBSET D
        /\ With("evaluation", EvaluationOutcomes) \in SUBSET D
        /\ With("evaluation", {"passed"}) \in SUBSET With("evaluation", EvaluationOutcomes)
        /\ priced \in SUBSET D
    BY DEF EvaluationOutcomes
  <1>5. [x \in priced |-> observed[x].cost] \in [priced -> Nat \ {0}]
    OBVIOUS
  <1> HIDE DEF With, priced
  <1>6. Cardinality(priced) = 0 <=> e.averageCost = 0
    <2>1. CASE priced = {}
      BY <1>1, <2>1, FS_EmptySet
    <2>2. CASE priced # {}
      <3>1. IsFiniteSet(priced)
        BY <1>2, <1>4
      <3>2. e.averageCost # 0
        BY <1>1, <1>5, <2>2, <3>1, AverageIsPositive
      <3> QED
        BY <2>2, <3>1, <3>2, FS_EmptySet
    <2> QED
      BY <2>1, <2>2
  <1>7. /\ Cardinality(With("evaluation", {"passed"})) \in Nat
        /\ Cardinality(With("evaluation", {"passed"}))
               <= Cardinality(With("evaluation", EvaluationOutcomes))
    BY <1>2, <1>4, FS_Subset
  <1> HIDE DEF e
  <1>8. Counted(e)
    BY <1>1, <1>2, <1>3, <1>4, <1>7, <1>6 DEF Counted
  <1> QED
    BY <1>1, <1>8 DEF e

LEMMA SequencesAreFinite ==
    ASSUME NEW S, NEW s \in Seq(S)
    PROVE  IsFiniteSet(DOMAIN s) /\ DOMAIN s = 1..Len(s)
  <1>1. PICK n \in Nat : n = Len(s) /\ DOMAIN s = 1..n
    OBVIOUS
  <1> QED
    BY <1>1, FS_Interval

(* The attempts of a worker among the recent tasks.                        *)
Places(past, mode, limit) ==
    {x \in RecentTasks(past, mode, limit) \X (1..8) : x[2] <= Len(past[x[1]].attempts)}
PlacesOf(past, mode, limit, w) ==
    {x \in Places(past, mode, limit) : past[x[1]].attempts[x[2]].worker = w}

LEMMA PlacesAreFinite ==
    ASSUME NEW past, IsFiniteSet(DOMAIN past), NEW mode, NEW limit
    PROVE  /\ IsFiniteSet(RecentTasks(past, mode, limit))
           /\ IsFiniteSet(Places(past, mode, limit))
           /\ Cardinality(Places(past, mode, limit))
                  <= Cardinality(RecentTasks(past, mode, limit)) * 8
           /\ Cardinality(Places(past, mode, limit)) \in Nat
           /\ \A w : IsFiniteSet(PlacesOf(past, mode, limit, w))
  <1> DEFINE tasks == RecentTasks(past, mode, limit)
  <1>1. tasks \in SUBSET DOMAIN past
    BY DEF RecentTasks
  <1>2. IsFiniteSet(tasks)
    BY <1>1, FS_Subset
  <1>3. IsFiniteSet(1..8) /\ Cardinality(1..8) = 8
    <2>1. PICK n \in Nat : n = 8
      OBVIOUS
    <2>2. n # 0 => IsFiniteSet(1..n) /\ Cardinality(1..n) = n
      BY FS_Interval
    <2> QED
      BY <2>1, <2>2
  <1> HIDE DEF tasks
  <1>4. IsFiniteSet(tasks \X (1..8)) /\ Cardinality(tasks \X (1..8)) = Cardinality(tasks) * 8
    BY <1>2, <1>3, FS_Product
  <1>5. Places(past, mode, limit) \in SUBSET (tasks \X (1..8))
    BY DEF Places, tasks
  <1>6. /\ IsFiniteSet(Places(past, mode, limit))
        /\ Cardinality(Places(past, mode, limit)) <= Cardinality(tasks) * 8
    BY <1>4, <1>5, FS_Subset
  <1>7. \A w : PlacesOf(past, mode, limit, w) \in SUBSET Places(past, mode, limit)
    BY DEF PlacesOf
  <1> QED
    BY <1>2, <1>6, <1>7, FS_Subset, FS_CardinalityType DEF tasks

(* The evidence of a worker is what its attempts amount to.                *)
LEMMA EvidenceOfWorkers ==
    ASSUME NEW fleet, NEW past, NEW mode, NEW limit,
           NEW evidence0, evidence0 = collectEvidence(fleet, past, mode, limit)
    PROVE  /\ evidence0.tasks = Cardinality(RecentTasks(past, mode, limit))
           /\ DOMAIN evidence0.workers
                  = {w \in DOMAIN fleet : PlacesOf(past, mode, limit, w) # {}}
           /\ \A w \in DOMAIN evidence0.workers :
                 evidence0.workers[w]
                     = Aggregate([x \in PlacesOf(past, mode, limit, w)
                                    |-> past[x[1]].attempts[x[2]]])
  BY DEF collectEvidence, Places, PlacesOf

CountsPlaces(e, past, mode, limit) ==
    \A w \in DOMAIN e.workers :
       e.workers[w].sampleSize = Cardinality(PlacesOf(past, mode, limit, w))

LEMMA EvidenceCounts ==
    ASSUME NEW fleet, NEW past \in Seq(FinishedTask), NEW mode, NEW limit,
           NEW evidence0, evidence0 = collectEvidence(fleet, past, mode, limit)
    PROVE  /\ DOMAIN evidence0.workers \subseteq DOMAIN fleet
           /\ \A w \in DOMAIN evidence0.workers : Counted(evidence0.workers[w])
           /\ CountsPlaces(evidence0, past, mode, limit)
  <1>1. DOMAIN evidence0.workers \subseteq DOMAIN fleet
    BY EvidenceOfWorkers
  <1>2. ASSUME NEW w \in DOMAIN evidence0.workers
        PROVE  /\ Counted(evidence0.workers[w])
               /\ evidence0.workers[w].sampleSize = Cardinality(PlacesOf(past, mode, limit, w))
    <2> DEFINE D == PlacesOf(past, mode, limit, w)
               observed == [x \in D |-> past[x[1]].attempts[x[2]]]
    <2>1. IsFiniteSet(DOMAIN past)
      BY SequencesAreFinite
    <2>2. D # {} /\ IsFiniteSet(D)
      BY <2>1, EvidenceOfWorkers, PlacesAreFinite
    <2>3. evidence0.workers[w] = Aggregate(observed)
      BY EvidenceOfWorkers
    <2>4. DOMAIN observed = D
      OBVIOUS
    <2>5. \A x \in D : observed[x].cost \in Nat
      <3> SUFFICES ASSUME NEW x \in D PROVE past[x[1]].attempts[x[2]].cost \in Nat
        OBVIOUS
      <3>1. /\ x[1] \in DOMAIN past /\ x[2] \in 1..8
            /\ x[2] <= Len(past[x[1]].attempts)
        BY DEF PlacesOf, Places, RecentTasks
      <3>2. PICK t \in FinishedTask : t = past[x[1]]
        BY <3>1
      <3>3. PICK made \in Seq(FinishedAttempt) : made = t.attempts
        BY <3>2 DEF FinishedTask
      <3>4. made[x[2]] \in FinishedAttempt
        BY <3>1, <3>2, <3>3
      <3> QED
        BY <3>2, <3>3, <3>4 DEF FinishedAttempt
    <2> HIDE DEF D, observed
    <2> QED
      BY <2>2, <2>3, <2>4, <2>5, AggregatesCount DEF D
  <1> QED
    BY <1>1, <1>2 DEF CountsPlaces

(* What performance is worth: between all of its weight for the worst of a *)
(* well-known worker and what is trusted of the best.                      *)
LEMMA PerformanceIsBounded ==
    ASSUME NEW e, Counted(e), NEW weight, NEW p \in Nat, weight \div 20 = p
    PROVE  /\ scorePerformance(e, weight) \in Int
           /\ e.successCount = 0 /\ e.evaluationPassCount = 0 /\ e.sampleSize >= 20
                  => scorePerformance(e, weight) <= -(p * 20)
           /\ e.successCount = e.sampleSize /\ e.evaluationPassCount = e.evaluationCount
                  => p * evidenceConfidence(e.sampleSize) <= scorePerformance(e, weight)
  <1> DEFINE rated  == IF e.evaluationCount = 0 THEN e.sampleSize ELSE e.evaluationCount
             passed == IF e.evaluationCount = 0 THEN e.successCount ELSE e.evaluationPassCount
  <1>1. PICK s \in Nat \ {0} : s = e.sampleSize
    BY DEF Counted
  <1>2. PICK k \in Nat : k = e.successCount
    BY DEF Counted
  <1>3. PICK r \in Nat \ {0} : r = rated
    BY DEF Counted
  <1>4. PICK a \in Nat : a = passed
    BY DEF Counted
  <1>5. PICK c \in Nat : c = evidenceConfidence(s) /\ (s >= 20 => c = 20)
    BY Confidence
  <1> DEFINE above == k * r + a * s - s * r
  <1>6. scorePerformance(e, weight) = Round(above * p * c, s * r)
    BY <1>1, <1>2, <1>3, <1>4, <1>5 DEF scorePerformance
  <1>7. s * r \in Nat \ {0} /\ above \in Int /\ above * p * c \in Int
    OBVIOUS
  <1>8. e.successCount = 0 /\ e.evaluationPassCount = 0 => k = 0 /\ a = 0
    BY <1>2, <1>4
  <1>9. e.successCount = e.sampleSize /\ e.evaluationPassCount = e.evaluationCount
            => k = s /\ a = r
    BY <1>1, <1>2, <1>3, <1>4
  <1> HIDE DEF rated, passed
  <1>10. ASSUME k = 0, a = 0, s >= 20 PROVE Round(above * p * c, s * r) <= -(p * 20)
    <2>1. above = -(s * r)
      BY <1>10
    <2>2. above * p * c = (-(p * 20)) * (s * r)
      BY <1>5, <1>10, <2>1
    <2>3. -(p * 20) \in Int /\ above * p * c <= (-(p * 20)) * (s * r)
      BY <1>7, <2>2
    <2> HIDE DEF above
    <2> QED
      BY <1>7, <2>3, RoundBounds
  <1>11. ASSUME k = s, a = r PROVE p * c <= Round(above * p * c, s * r)
    <2>1. above = s * r
      BY <1>11
    <2>2. above * p * c = (p * c) * (s * r)
      BY <2>1
    <2>3. p * c \in Int /\ (p * c) * (s * r) <= above * p * c
      BY <1>7, <2>2
    <2> HIDE DEF above
    <2> QED
      BY <1>7, <2>3, RoundBounds
  <1>12. Round(above * p * c, s * r) \in Int
    <2> HIDE DEF above
    <2> QED
      BY <1>7, RoundBounds
  <1> HIDE DEF above
  <1> QED
    BY <1>1, <1>5, <1>6, <1>8, <1>9, <1>10, <1>11, <1>12

(* A worker and any other: what is known of one of them is little.         *)
ComparedByAtMost(candidates, evidence0, w, most) ==
    /\ IsFiniteSet(DOMAIN evidence0)
    /\ \A v \in DOMAIN evidence0 : Counted(evidence0[v])
    /\ \A o \in (candidates \cap DOMAIN evidence0) \ {w} :
          w \in DOMAIN evidence0 =>
             \/ evidenceConfidence(evidence0[w].sampleSize) <= most
             \/ evidenceConfidence(evidence0[o].sampleSize) <= most

(* What comparisons are worth, with a bound on the trust in each of them.  *)
LEMMA AdjustmentIsBounded ==
    ASSUME NEW candidates, NEW evidence0, NEW w, NEW most \in Nat,
           ComparedByAtMost(candidates, evidence0, w, most),
           NEW weights, NEW c \in Nat, weights.cost \div 20 = c,
           NEW l \in Nat, weights.latency \div 20 = l
    PROVE  LET moved == MetricAdjustment(w, candidates, evidence0, weights)
           IN moved \in Int /\ -((c + l) * most) <= moved /\ moved <= (c + l) * most
  <1> DEFINE known  == candidates \cap DOMAIN evidence0
             priced == {v \in known : evidence0[v].costSampleCount # 0}
             costs == [v \in priced |-> evidence0[v].averageCost]
             prices == [v \in priced |-> evidence0[v].costSampleCount]
             times == [v \in known |-> evidence0[v].medianDurationMs]
             samples == [v \in known |-> evidence0[v].sampleSize]
             Lower(f, o) == IF f[w] < f[o] THEN f[w] ELSE f[o]
             costly == rankMetric(w, costs, prices, weights.cost)
             slow == rankMetric(w, times, samples, weights.latency)
  <1>1. IsFiniteSet(known) /\ IsFiniteSet(priced)
    BY FS_Subset DEF ComparedByAtMost
  <1>2. \A v \in known : /\ samples[v] \in Nat /\ samples[v] = evidence0[v].sampleSize
    BY DEF Counted, ComparedByAtMost
  <1>3. \A v \in priced : /\ v \in known /\ prices[v] \in Nat /\ prices[v] <= samples[v]
    BY <1>2 DEF Counted, ComparedByAtMost
  <1>4. samples \in [known -> Nat] /\ prices \in [priced -> Nat]
    BY <1>2, <1>3
  <1>5. DOMAIN times = known /\ DOMAIN costs = priced
    OBVIOUS
  <1>6. ASSUME w \in known, NEW o \in known \ {w}
        PROVE  /\ evidenceConfidence(Lower(samples, o)) <= most
               /\ \A n \in Nat : n <= samples[w] /\ n <= samples[o] => evidenceConfidence(n) <= most
    <2>1. PICK a \in Nat : a = samples[w]
      BY <1>2, <1>6
    <2>2. PICK b \in Nat : b = samples[o]
      BY <1>2
    <2>3. evidenceConfidence(a) <= most \/ evidenceConfidence(b) <= most
      BY <1>2, <1>6, <2>1, <2>2 DEF ComparedByAtMost
    <2>4. ASSUME NEW n \in Nat, n <= a, n <= b PROVE evidenceConfidence(n) <= most
      <3>1. /\ evidenceConfidence(n) <= evidenceConfidence(a)
            /\ evidenceConfidence(n) <= evidenceConfidence(b)
            /\ evidenceConfidence(n) \in Int
            /\ evidenceConfidence(a) \in Int /\ evidenceConfidence(b) \in Int
        BY <2>4, Confidence
      <3> QED
        BY <2>3, <3>1
    <2>5. Lower(samples, o) \in Nat /\ Lower(samples, o) <= a /\ Lower(samples, o) <= b
      BY <2>1, <2>2
    <2> QED
      BY <2>1, <2>2, <2>4, <2>5
  <1>7. ASSUME w \in priced, NEW o \in priced \ {w}
        PROVE  evidenceConfidence(Lower(prices, o)) <= most
    <2>1. w \in known /\ o \in known \ {w}
      BY <1>3, <1>7
    <2>2. PICK a \in Nat : a = prices[w] /\ a <= samples[w]
      BY <1>3, <1>7
    <2>3. PICK b \in Nat : b = prices[o] /\ b <= samples[o]
      BY <1>3
    <2>4. samples[w] \in Nat /\ samples[o] \in Nat
      BY <1>2, <2>1
    <2> HIDE DEF known, priced, samples, prices
    <2>5. PICK n \in Nat : n = Lower(prices, o) /\ n <= a /\ n <= b
      BY <2>2, <2>3
    <2>6. n <= samples[w] /\ n <= samples[o]
      BY <2>2, <2>3, <2>4, <2>5
    <2> QED
      BY <1>6, <2>1, <2>5, <2>6
  <1> HIDE DEF known, priced, costs, prices, times, samples
  <1>8. costly \in Int /\ -(c * most) <= costly /\ costly <= c * most
    BY <1>1, <1>4, <1>5, <1>7, MetricIsBounded
  <1>9. slow \in Int /\ -(l * most) <= slow /\ slow <= l * most
    BY <1>1, <1>4, <1>5, <1>6, MetricIsBounded
  <1>10. MetricAdjustment(w, candidates, evidence0, weights) = costly + slow
    BY DEF MetricAdjustment, known, priced, costs, prices, times, samples
  <1>11. (c + l) * most = c * most + l * most /\ c * most \in Int /\ l * most \in Int
    OBVIOUS
  <1> HIDE DEF costly, slow
  <1> QED
    BY <1>8, <1>9, <1>10, <1>11

(* What a score is made of.                                                *)
LEMMA ScoresAreIntegers ==
    ASSUME NEW config, NEW fleet, fleet \in [DOMAIN fleet -> WorkerConfig],
           NEW routing, routing.strategy \in Strategies,
           NEW candidates, candidates \subseteq DOMAIN fleet, IsFiniteSet(candidates),
           NEW evidence0, IsFiniteSet(DOMAIN evidence0),
           \A v \in DOMAIN evidence0 : Counted(evidence0[v]),
           NEW declared, declared = [w \in candidates |-> scoreWorker(config, fleet, routing, w)]
    PROVE  /\ declared \in [candidates -> Int]
           /\ applyRoutingEvidence(declared, candidates, evidence0, routing.strategy)
                  \in [candidates -> Int]
  <1>1. ASSUME NEW w \in candidates PROVE declared[w] \in Int
    <2>1. fleet[w] \in WorkerConfig
      OBVIOUS
    <2>2. fleet[w].priority \in Int /\ fleet[w].costTier \in Int /\ fleet[w].latencyTier \in Int
      BY <2>1 DEF WorkerConfig, Tiers
    <2>3. StrategyScore(fleet[w], routing.strategy) \in Int
      <3>1. CASE routing.strategy = "cost"
        BY <2>2, <3>1 DEF StrategyScore
      <3>2. CASE routing.strategy = "latency"
        BY <2>2, <3>2 DEF StrategyScore
      <3>3. CASE routing.strategy = "quality"
        BY <2>2, <3>3 DEF StrategyScore
      <3>4. CASE routing.strategy = "balanced"
        BY <2>2, <3>4 DEF StrategyScore
      <3> QED
        BY <3>1, <3>2, <3>3, <3>4 DEF Strategies
    <2> QED
      BY <2>2, <2>3 DEF scoreWorker
  <1> DEFINE weights == evidenceWeights(routing.strategy)
  <1>2. PICK p \in Nat, c \in Nat, l \in Nat :
            /\ weights.performance \div 20 = p
            /\ weights.cost \div 20 = c /\ weights.latency \div 20 = l
    BY Weights
  <1> HIDE DEF weights
  <1>3. \A w \in DOMAIN evidence0 : scorePerformance(evidence0[w], weights.performance) \in Int
    BY <1>2, PerformanceIsBounded
  <1>4. ASSUME NEW w \in DOMAIN evidence0
        PROVE  MetricAdjustment(w, candidates, evidence0, weights) \in Int
    <2>1. \A v \in DOMAIN evidence0 : evidenceConfidence(evidence0[v].sampleSize) <= 20
      BY Confidence DEF Counted
    <2>2. ComparedByAtMost(candidates, evidence0, w, 20)
      BY <2>1 DEF ComparedByAtMost
    <2> QED
      BY <1>2, <2>2, AdjustmentIsBounded
  <1> QED
    BY <1>1, <1>3, <1>4 DEF applyRoutingEvidence, weights

-----------------------------------------------------------------------------
(* Every reachable route.                                                  *)

LEMMA DecidedRouting ==
    ASSUME DecisionInv, task # NoTask
    PROVE  /\ task.routing.strategy \in Strategies
           /\ task.routing.maxAttempts \in Nat \ {0}
           /\ task.mode = request.mode /\ task.mode \in WorkerModes
           /\ task.maxIterations \in Nat /\ task.maxChangedFiles \in Nat
  <1>1. Config \in Configuration /\ request \in WorkerTask
        /\ \A d \in documents : d \in PolicyDocument
    BY DecidedTypes
  <1>2. PICK own \in WorkerRoutingPolicy : own = OwnRouting(Config, request)
    BY <1>1, OwnRoutingType
  <1>3. task = resolveTaskPolicy(Config, request, documents)
    BY DEF DecisionInv, Decided
  <1>4. /\ task.routing = effectiveTaskRouting(Config, request, documents)
        /\ task.mode = request.mode
        /\ task.maxIterations = minimum(request.maxIterations, documents, "maxIterations")
        /\ task.maxChangedFiles = minimum(Config.maxChangedFiles, documents, "maxChangedFiles")
    <2>1. LET resolved == resolveTaskPolicy(Config, request, documents)
          IN /\ resolved.routing = effectiveTaskRouting(Config, request, documents)
             /\ resolved.mode = request.mode
             /\ resolved.maxChangedFiles
                    = minimum(Config.maxChangedFiles, documents, "maxChangedFiles")
             /\ resolved.maxIterations = minimum(request.maxIterations, documents, "maxIterations")
      BY <1>1 DEF resolveTaskPolicy, WorkerTask
    <2> QED
      BY <1>3, <2>1
  <1>5. task.routing = [own EXCEPT
            !.capabilities = @ \cup UNION {d.capabilities : d \in documents},
            !.maxCostTier = strictestTier(@, documents, "maxCostTier"),
            !.maxLatencyTier = strictestTier(@, documents, "maxLatencyTier"),
            !.allowFallback = permitted(@, documents, "allowFallback"),
            !.maxAttempts = minimum(@, documents, "maxAttempts")]
    BY <1>2, <1>4 DEF effectiveTaskRouting, OwnRouting
  <1>6. /\ task.routing.strategy = own.strategy
        /\ task.routing.maxAttempts = minimum(own.maxAttempts, documents, "maxAttempts")
    BY <1>2, <1>5 DEF WorkerRoutingPolicy
  <1>7. own.maxAttempts \in Nat \ {0} /\ own.strategy \in Strategies
    BY <1>2 DEF WorkerRoutingPolicy
  <1>8. \A d \in documents : d["maxAttempts"] \in Nat /\ d["maxIterations"] \in Nat
                          /\ d["maxChangedFiles"] \in Nat
    BY <1>1 DEF PolicyDocument
  <1>9. minimum(own.maxAttempts, documents, "maxAttempts") \in Nat \ {0}
    <2> DEFINE values == {own.maxAttempts} \cup ({d["maxAttempts"] : d \in documents} \ {0})
    <2>1. values \subseteq Nat /\ values # {} /\ 0 \notin values
      BY <1>7, <1>8
    <2>2. minimum(own.maxAttempts, documents, "maxAttempts") = strictest(values)
      BY DEF minimum
    <2> HIDE DEF values
    <2> QED
      BY <2>1, <2>2, StrictestIsLeast
  <1>10. request.maxIterations \in Nat /\ request.mode \in WorkerModes
    BY <1>1 DEF WorkerTask
  <1>11. task.maxIterations \in Nat
    BY <1>4, <1>8, <1>10, MinimumNarrows
  <1>12. task.maxChangedFiles \in Nat
    <2>1. Config.maxChangedFiles \in Nat
      BY <1>1 DEF Configuration
    <2> QED
      BY <1>4, <1>8, <2>1, MinimumNarrows
  <1> QED
    BY <1>4, <1>6, <1>7, <1>9, <1>10, <1>11, <1>12

(* The installation.                                                       *)
LEMMA Installed ==
    ASSUME DecisionInv
    PROVE  /\ Config \in Configuration
           /\ DOMAIN Fleet \subseteq Workers /\ Fleet \in [DOMAIN Fleet -> WorkerConfig]
           /\ IsFiniteSet(DOMAIN Fleet) /\ Cardinality(DOMAIN Fleet) <= 64
           /\ scenario.past \in Seq(FinishedTask)
           /\ scenario.kind \in [Paths -> FileKinds] /\ scenario.real \in [Paths -> Paths]
  BY ScenariosAssumption DEF DecisionInv, Config, Fleet

(* The route was chosen from the evidence of some history.                 *)
Candidates == Eligible(Fleet, task.mode, task.routing)
Declared == [w \in Candidates |-> scoreWorker(Config, Fleet, task.routing, w)]
Scores == applyRoutingEvidence(Declared, Candidates, evidence.workers, task.routing.strategy)

RouteHolds ==
    /\ task # NoTask
    /\ ~NoRouteFor(Fleet, task.mode, task.routing)
    /\ \E h \in Seq(FinishedTask) :
          evidence = collectEvidence(Fleet, h, task.mode, Config.evidenceTasks)
    /\ plan = routeWorkers(Config, Fleet, task.mode, task.routing, evidence.workers)

LEMMA EvidenceHolds ==
    ASSUME DecisionInv, RouteHolds
    PROVE  /\ IsFiniteSet(DOMAIN evidence.workers) /\ DOMAIN evidence.workers \subseteq DOMAIN Fleet
           /\ \A w \in DOMAIN evidence.workers : Counted(evidence.workers[w])
  <1>1. PICK h \in Seq(FinishedTask) :
            evidence = collectEvidence(Fleet, h, task.mode, Config.evidenceTasks)
    BY DEF RouteHolds
  <1>2. /\ DOMAIN evidence.workers \subseteq DOMAIN Fleet
        /\ \A w \in DOMAIN evidence.workers : Counted(evidence.workers[w])
    <2>1. \A e : e = collectEvidence(Fleet, h, task.mode, Config.evidenceTasks) =>
              /\ DOMAIN e.workers \subseteq DOMAIN Fleet
              /\ \A w \in DOMAIN e.workers : Counted(e.workers[w])
      BY EvidenceCounts
    <2> QED
      BY <1>1, <2>1
  <1> QED
    BY <1>2, Installed, FS_Subset

(* The route has every candidate once, in the order of the scores.         *)
LEMMA RouteInOrder ==
    ASSUME DecisionInv, RouteHolds
    PROVE  /\ Candidates \subseteq DOMAIN Fleet /\ IsFiniteSet(Candidates)
           /\ Candidates # {} /\ Cardinality(Candidates) \in 1..64
           /\ Declared \in [Candidates -> Int] /\ Scores \in [Candidates -> Int]
           /\ plan.route \in Seq(Candidates) /\ Len(plan.route) = Cardinality(Candidates)
           /\ plan.route \in [1..Cardinality(Candidates) -> Candidates]
           /\ \A w \in Candidates : \E i \in 1..Cardinality(Candidates) : plan.route[i] = w
           /\ \A i, j \in 1..Cardinality(Candidates) :
                 i < j <=> comesBefore(Scores, task.routing, plan.route[i], plan.route[j])
  <1>1. Candidates \subseteq DOMAIN Fleet
    BY DEF Candidates, Eligible
  <1>2. IsFiniteSet(Candidates) /\ Cardinality(Candidates) <= 64 /\ Candidates \subseteq Workers
    <2>1. /\ IsFiniteSet(Candidates) /\ Cardinality(Candidates) <= Cardinality(DOMAIN Fleet)
          /\ Cardinality(DOMAIN Fleet) <= 64 /\ Candidates \subseteq Workers
      BY <1>1, Installed, FS_Subset
    <2>2. Cardinality(Candidates) \in Nat /\ Cardinality(DOMAIN Fleet) \in Nat
      BY <2>1, Installed, FS_CardinalityType
    <2> QED
      BY <2>1, <2>2
  <1>3. Candidates # {} /\ Cardinality(Candidates) \in 1..64
    <2>1. Candidates # {}
      BY DEF RouteHolds, NoRouteFor, Candidates
    <2>2. Cardinality(Candidates) \in Nat /\ Cardinality(Candidates) # 0
      BY <1>2, <2>1, FS_CardinalityType, FS_EmptySet
    <2> QED
      BY <1>2, <2>1, <2>2
  <1>4. Declared \in [Candidates -> Int] /\ Scores \in [Candidates -> Int]
    <2>1. task.routing.strategy \in Strategies
      BY DecidedRouting DEF RouteHolds
    <2>2. Fleet \in [DOMAIN Fleet -> WorkerConfig]
      BY Installed
    <2> QED
      BY <1>1, <1>2, <2>1, <2>2, EvidenceHolds, ScoresAreIntegers DEF Declared, Scores
  <1>5. plan.route = Sorted(Scores, task.routing)
    BY DEF RouteHolds, routeWorkers, Scores, Declared, Candidates
  <1>6. /\ plan.route \in [1..Cardinality(Candidates) -> Candidates]
        /\ \A w \in Candidates : \E i \in 1..Cardinality(Candidates) : plan.route[i] = w
        /\ \A i, j \in 1..Cardinality(Candidates) :
              i < j <=> comesBefore(Scores, task.routing, plan.route[i], plan.route[j])
    BY <1>2, <1>4, <1>5, SortedInOrder
  <1>7. plan.route \in Seq(Candidates) /\ Len(plan.route) = Cardinality(Candidates)
    <2>1. PICK n \in Nat : n = Cardinality(Candidates)
      BY <1>3
    <2>2. plan.route \in [1..n -> Candidates]
      BY <1>6, <2>1
    <2> QED
      BY <2>1, <2>2
  <1> QED
    BY <1>1, <1>2, <1>3, <1>4, <1>6, <1>7

(* The bounds on attempts.                                                 *)
LEMMA RouteIsBounded ==
    ASSUME DecisionInv, RouteHolds
    PROVE  /\ plan.maxAttempts \in 1..8
           /\ plan.maxAttempts <= Len(plan.route)
           /\ plan.maxAttempts <= Config.maxAttempts
           /\ plan.maxAttempts <= task.routing.maxAttempts
           /\ plan.fallback => task.routing.allowFallback
  <1>1. PICK n \in Nat \ {0} : n = Cardinality(Candidates) /\ n = Len(plan.route)
    BY RouteInOrder
  <1>2. Config.maxAttempts \in 1..8
    BY Installed DEF Configuration
  <1>3. task.routing.maxAttempts \in Nat \ {0}
    BY DecidedRouting DEF RouteHolds
  <1>4. /\ plan.maxAttempts = attemptsAllowed(Config, task.routing, n)
        /\ plan.fallback => task.routing.allowFallback
    BY <1>1 DEF RouteHolds, routeWorkers, Candidates
  <1>5. CASE task.routing.allowFallback /\ n > 1
    <2> DEFINE values == {task.routing.maxAttempts, Config.maxAttempts, n}
    <2>1. plan.maxAttempts = strictest(values)
      BY <1>4, <1>5 DEF attemptsAllowed
    <2>2. values \subseteq Nat /\ values # {} /\ 0 \notin values
      BY <1>2, <1>3
    <2>3. task.routing.maxAttempts \in values /\ Config.maxAttempts \in values /\ n \in values
      OBVIOUS
    <2> HIDE DEF values
    <2>4. plan.maxAttempts \in values /\ \A k \in values : plan.maxAttempts <= k
      BY <2>1, <2>2, StrictestIsLeast
    <2>5. plan.maxAttempts \in Nat /\ plan.maxAttempts # 0
      BY <2>2, <2>4
    <2> QED
      BY <1>1, <1>2, <1>4, <2>3, <2>4, <2>5
  <1>6. CASE ~(task.routing.allowFallback /\ n > 1)
    <2>1. plan.maxAttempts = 1
      BY <1>4, <1>6 DEF attemptsAllowed
    <2> QED
      BY <1>1, <1>2, <1>3, <1>4, <2>1
  <1> QED
    BY <1>5, <1>6

(* The attempts are made in the order of the route, each after one that a  *)
(* provider failed.                                                        *)
AttemptsHold ==
    /\ attempts \in Seq(FinishedAttempt)
    /\ Len(attempts) <= plan.maxAttempts
    /\ pc = "attempt" => Len(attempts) < plan.maxAttempts
    /\ \A i \in 1..Len(attempts) :
          /\ attempts[i].worker = plan.route[i]
          /\ attempts[i].iterations <= task.maxIterations
          /\ i < Len(attempts) \/ pc = "attempt" =>
                plan.fallback /\ attempts[i].status = "failed" /\ attempts[i].code \in FallbackCodes

RoutingInv ==
    /\ DecisionInv
    /\ history \in Seq(FinishedTask)
    /\ changed \subseteq Paths /\ IsFiniteSet(changed)
    /\ \A d \in documents : d \in PolicyDocument
    /\ pc = "route" => task # NoTask /\ attempts = <<>>
    /\ pc = "attempt" \/ plan # NoPlan \/ attempts # <<>> => RouteHolds /\ AttemptsHold

LEMMA SeqAppend ==
    ASSUME NEW S, NEW s \in Seq(S), NEW e \in S
    PROVE  /\ Append(s, e) \in Seq(S) /\ Len(Append(s, e)) = Len(s) + 1 /\ Len(s) \in Nat
           /\ \A i \in 1..Len(s) : Append(s, e)[i] = s[i]
           /\ Append(s, e)[Len(s) + 1] = e
  OBVIOUS

(* An attempt that ends.                                                   *)
LEMMA EndedHolds ==
    ASSUME RoutingInv, pc = "attempt", NEW end \in Ends
    PROVE  /\ Ended(end) \in FinishedAttempt
           /\ Ended(end).worker = plan.route[Len(attempts) + 1]
           /\ Ended(end).iterations <= task.maxIterations
           /\ Ended(end).patch = PatchOf(task, changed).files
  <1>1. RouteHolds /\ AttemptsHold /\ DecisionInv /\ changed \subseteq Paths
    BY DEF RoutingInv
  <1>2. PICK n \in Nat : n = Len(attempts) /\ n < plan.maxAttempts
    BY <1>1 DEF AttemptsHold
  <1>3. PICK worker \in Candidates : worker = Attempting /\ worker = plan.route[Len(attempts) + 1]
    <2>1. PICK m \in Nat : /\ m = Cardinality(Candidates) /\ plan.maxAttempts <= m
                           /\ plan.route \in [1..m -> Candidates]
      BY <1>1, RouteInOrder, RouteIsBounded
    <2>2. plan.maxAttempts \in Nat
      BY <1>1, RouteIsBounded
    <2>3. n + 1 \in 1..m
      BY <1>2, <2>1, <2>2
    <2> QED
      BY <1>2, <2>1, <2>3 DEF Attempting
  <1>4. worker \in Workers /\ Fleet[worker] \in WorkerConfig
    BY <1>1, RouteInOrder, Installed
  <1>5. task.maxIterations \in Nat
    BY <1>1, DecidedRouting DEF RouteHolds
  <1> DEFINE patch == PatchOf(task, changed)
             violated == refused \/ patch.violated
             decides == violated /\ end.status \notin {"cancelled", "timed_out"}
             iterations == IF Fleet[worker].role = "any" THEN task.maxIterations
                           ELSE strictest({task.maxIterations, Fleet[worker].maxIterations})
             status == IF decides THEN "policy_violation" ELSE end.status
             code == IF decides /\ end.code \in LateCodes \cup {"none"}
                     THEN "WORKER_POLICY_VIOLATION" ELSE end.code
             evaluated == IF violated THEN "failed" ELSE end.evaluation
  <1>6. patch.files \in SUBSET Paths
    BY <1>1 DEF PatchOf
  <1>7. iterations \in Nat /\ iterations <= task.maxIterations
    <2>1. CASE Fleet[worker].role = "any"
      BY <1>5, <2>1
    <2>2. CASE Fleet[worker].role # "any"
      <3> DEFINE values == {task.maxIterations, Fleet[worker].maxIterations}
      <3>1. Fleet[worker].maxIterations \in Nat
        BY <1>4 DEF WorkerConfig
      <3>2. values \subseteq Nat /\ values # {} /\ task.maxIterations \in values
        BY <1>5, <3>1
      <3>3. iterations = strictest(values)
        BY <2>2
      <3> HIDE DEF values
      <3> QED
        BY <3>2, <3>3, StrictestIsLeast
    <2> QED
      BY <2>1, <2>2
  <1>8. /\ end.status \in RunStatuses /\ end.code \in FailureCodes \cup {"none"}
        /\ end.evaluation \in EvaluationOutcomes \cup {"none"}
        /\ end.duration \in Nat /\ end.cost \in Nat
    BY EndsAssumption
  <1>9. /\ status \in RunStatuses /\ code \in FailureCodes \cup {"none"}
        /\ evaluated \in EvaluationOutcomes \cup {"none"}
    BY <1>8 DEF RunStatuses, FailureCodes, EvaluationOutcomes
  <1>10. Ended(end) = [worker |-> worker, duration |-> end.duration, cost |-> end.cost,
                       patch |-> patch.files, iterations |-> iterations,
                       status |-> status, code |-> code, evaluation |-> evaluated]
    BY <1>3 DEF Ended
  <1> HIDE DEF patch, iterations, status, code, evaluated
  <1>11. Ended(end) \in FinishedAttempt
    BY <1>4, <1>6, <1>7, <1>8, <1>9, <1>10 DEF FinishedAttempt
  <1> QED
    BY <1>3, <1>7, <1>10, <1>11 DEF patch

LEMMA EndAttemptHolds ==
    ASSUME RoutingInv, EndAttempt, DecisionInv'
    PROVE  RoutingInv'
  <1>1. RouteHolds /\ AttemptsHold /\ DecisionInv /\ pc = "attempt"
    BY DEF RoutingInv, EndAttempt
  <1>2. PICK end \in Ends :
            LET done == Append(attempts, Ended(end))
            IN /\ attempts' = done
               /\ IF shouldFallback(Ended(end), Len(done))
                  THEN UNCHANGED <<pc, history>>
                  ELSE /\ pc' = "idle"
                       /\ history' = Append(history, [mode |-> task.mode, attempts |-> done])
    BY DEF EndAttempt
  <1>3. PICK e \in FinishedAttempt :
            /\ e = Ended(end)
            /\ e.worker = plan.route[Len(attempts) + 1]
            /\ e.iterations <= task.maxIterations
    BY <1>1, EndedHolds
  <1>4. UNCHANGED <<scenario, decision>> /\ changed' = {}
    BY DEF EndAttempt
  <1>5. RouteHolds' /\ plan' = plan /\ task' = task
    BY <1>1, <1>4 DEF RouteHolds, decision, Fleet, Config
  <1>6. PICK n \in Nat : n = Len(attempts) /\ n < plan.maxAttempts
    BY <1>1 DEF AttemptsHold
  <1>7. plan.maxAttempts \in Nat /\ attempts \in Seq(FinishedAttempt)
    BY <1>1, RouteIsBounded DEF AttemptsHold
  <1>8. /\ attempts' \in Seq(FinishedAttempt) /\ Len(attempts') = n + 1
        /\ \A i \in 1..n : attempts'[i] = attempts[i]
        /\ attempts'[n + 1] = e
    BY <1>2, <1>3, <1>6, <1>7, SeqAppend
  <1>9. pc' = "attempt" => /\ n + 1 < plan.maxAttempts /\ plan.fallback
                           /\ e.status = "failed" /\ e.code \in FallbackCodes
    BY <1>2, <1>3, <1>6, <1>8 DEF shouldFallback
  <1>10. AttemptsHold'
    <2>1. ASSUME NEW i \in 1..(n + 1)
          PROVE  /\ attempts'[i].worker = plan.route[i]
                 /\ attempts'[i].iterations <= task.maxIterations
                 /\ i < n + 1 \/ pc' = "attempt" =>
                       /\ plan.fallback /\ attempts'[i].status = "failed"
                       /\ attempts'[i].code \in FallbackCodes
      <3>1. CASE i = n + 1
        BY <1>3, <1>6, <1>8, <1>9, <3>1
      <3>2. CASE i # n + 1
        <4>1. i \in 1..n
          BY <3>2
        <4> QED
          BY <1>1, <1>6, <1>8, <4>1 DEF AttemptsHold
      <3> QED
        BY <3>1, <3>2
    <2>2. n + 1 <= plan.maxAttempts
      BY <1>6, <1>7
    <2> QED
      BY <1>5, <1>8, <1>9, <2>1, <2>2 DEF AttemptsHold
  <1>11. history' \in Seq(FinishedTask)
    <2>1. history \in Seq(FinishedTask)
      BY DEF RoutingInv
    <2>2. task.mode \in WorkerModes
      BY <1>1, DecidedRouting DEF RouteHolds
    <2>3. PICK finished \in FinishedTask : finished = [mode |-> task.mode, attempts |-> attempts']
      BY <1>8, <2>2 DEF FinishedTask
    <2>4. Append(history, finished) \in Seq(FinishedTask)
      BY <2>1, SeqAppend
    <2>5. history' \in {history, Append(history, finished)}
      BY <1>2, <2>3
    <2> QED
      BY <2>1, <2>4, <2>5
  <1>12. pc' # "route"
    BY <1>1, <1>2
  <1> QED
    BY <1>4, <1>5, <1>10, <1>11, <1>12, FS_EmptySet DEF RoutingInv, decision

LEMMA RoutingHolds == Spec => []RoutingInv
  <1>1. Init => RoutingInv
    <2> SUFFICES ASSUME Init PROVE RoutingInv
      OBVIOUS
    <2>1. DecisionInv
      BY DEF Init, DecisionInv
    <2>2. history \in Seq(FinishedTask)
      BY <2>1, Installed DEF Init
    <2> QED
      BY <2>1, <2>2, FS_EmptySet DEF Init, RoutingInv
  <1>2. DecisionInv /\ RouteHolds => plan.maxAttempts \in 1..8
    BY RouteIsBounded
  <1>3. DecisionInv' /\ RouteHolds' => (plan.maxAttempts \in 1..8)'
    BY <1>2, PTL
  <1>4. RoutingInv /\ DecisionInv' /\ [Next]_vars => RoutingInv'
    <2> SUFFICES ASSUME RoutingInv, DecisionInv', [Next]_vars
                 PROVE  RoutingInv'
      OBVIOUS
    <2>1. CASE Delegate
      <3>1. /\ pc' = "route" /\ plan' = NoPlan /\ attempts' = <<>>
            /\ UNCHANGED <<scenario, history, changed>> /\ task' # NoTask
            /\ \A d \in documents' : d \in PolicyDocument
        <4>1. task' # NoTask
          <5>1. PICK t \in scenario.tasks, docs \in scenario.policies :
                    task' = resolveTaskPolicy(Config, t, docs)
            BY <2>1 DEF Delegate
          <5>2. t \in WorkerTask
            BY ScenariosAssumption DEF RoutingInv, DecisionInv
          <5>3. task'.timeoutSeconds = minimum(t.timeoutSeconds, docs, "maxTaskSeconds")
                /\ "timeoutSeconds" \in DOMAIN task'
            BY <5>1, <5>2 DEF resolveTaskPolicy, WorkerTask
          <5>4. "timeoutSeconds" \notin DOMAIN NoTask
            BY DEF NoTask
          <5> QED
            BY <5>3, <5>4
        <4>2. \A d \in documents' : d \in PolicyDocument
          <5>1. documents' \in scenario.policies
            BY <2>1 DEF Delegate
          <5> QED
            BY <5>1, ScenariosAssumption DEF RoutingInv, DecisionInv
        <4> QED
          BY <2>1, <4>1, <4>2 DEF Delegate
      <3> QED
        BY <3>1 DEF RoutingInv
    <2>2. CASE SelectRoute
      <3>1. task # NoTask /\ attempts = <<>> /\ attempts' = <<>> /\ history' = history
            /\ changed' = changed /\ scenario' = scenario /\ documents' = documents
        BY <2>2 DEF SelectRoute, RoutingInv
      <3>2. CASE NoRouteFor(Fleet, task.mode, task.routing)
        <4>1. pc' = "idle" /\ plan' = NoPlan
          BY <2>2, <3>2 DEF SelectRoute
        <4> QED
          BY <3>1, <4>1 DEF RoutingInv
      <3>3. CASE ~NoRouteFor(Fleet, task.mode, task.routing)
        <4>1. /\ pc' = "attempt" /\ task' = task
              /\ evidence' = collectEvidence(Fleet, history, task.mode, Config.evidenceTasks)
              /\ plan' = routeWorkers(Config, Fleet, task.mode, task.routing, evidence'.workers)
          BY <2>2, <3>3 DEF SelectRoute
        <4>2. Config' = Config /\ Fleet' = Fleet
          BY <3>1 DEF Config, Fleet
        <4>3. RouteHolds'
          BY <3>1, <3>3, <4>1, <4>2 DEF RouteHolds, RoutingInv
        <4>4. (plan.maxAttempts)' \in 1..8
          BY <1>3, <4>3
        <4>5. AttemptsHold'
          BY <3>1, <4>4 DEF AttemptsHold
        <4> QED
          BY <3>1, <4>1, <4>3, <4>5 DEF RoutingInv
      <3> QED
        BY <3>2, <3>3
    <2>3. CASE Write
      <3>1. UNCHANGED <<scenario, history, decision, pc, attempts>>
        BY <2>3 DEF Write
      <3>2. changed' \subseteq Paths /\ IsFiniteSet(changed')
        <4>1. PICK path \in Paths : changed' \in {changed, changed \cup {scenario.real[path]}}
          BY <2>3 DEF Write
        <4>2. scenario.real[path] \in Paths
          BY Installed DEF RoutingInv
        <4> QED
          BY <4>1, <4>2, FS_AddElement DEF RoutingInv
      <3> QED
        BY <3>1, <3>2 DEF RoutingInv, RouteHolds, AttemptsHold, decision, Config, Fleet
    <2>4. CASE EndAttempt
      BY <2>4, EndAttemptHolds
    <2>5. CASE UNCHANGED vars
      BY <2>5 DEF vars, RoutingInv, RouteHolds, AttemptsHold, Config, Fleet
    <2> QED
      BY <2>1, <2>2, <2>3, <2>4, <2>5 DEF Next
  <1> QED
    BY <1>1, <1>4, DecisionHolds, PTL DEF Spec

(* For every installation and history: the route is the eligible workers,  *)
(* each once, and the preferred one first (routeWorkers, compareCandidates *)
(* of src/provider/router.ts).                                             *)
THEOREM HistoryNeverDecidesWho == Spec => []HistoryOnlyReorders
  <1>1. RoutingInv => HistoryOnlyReorders
    <2> SUFFICES ASSUME RoutingInv, plan # NoPlan
                 PROVE  /\ Elements(plan.route) = Candidates
                        /\ Len(plan.route) = Cardinality(Elements(plan.route))
                        /\ task.routing.preferred # "none" =>
                              plan.route[1] = task.routing.preferred
      BY DEF HistoryOnlyReorders, Routed, Candidates
    <2>1. RouteHolds /\ DecisionInv
      BY DEF RoutingInv
    <2> DEFINE n == Cardinality(Candidates)
    <2>2. /\ n \in 1..64 /\ n = Len(plan.route)
          /\ \A w \in Candidates : \E i \in 1..n : plan.route[i] = w
          /\ plan.route \in [1..n -> Candidates]
      BY <2>1, RouteInOrder
    <2>3. \A i, j \in 1..n :
             i < j <=> comesBefore(Scores, task.routing, plan.route[i], plan.route[j])
      BY <2>1, RouteInOrder
    <2> HIDE DEF n
    <2>4. Elements(plan.route) = Candidates
      BY <2>2 DEF Elements, n
    <2>5. ASSUME task.routing.preferred # "none"
          PROVE  plan.route[1] = task.routing.preferred
      <3>1. task.routing.preferred \in Candidates
        BY <2>1, <2>5 DEF RouteHolds, NoRouteFor, Candidates
      <3>2. PICK i \in 1..n : plan.route[i] = task.routing.preferred
        BY <2>2, <3>1
      <3>3. ~comesBefore(Scores, task.routing, plan.route[1], plan.route[i])
        BY <3>2 DEF comesBefore
      <3>4. 1 \in 1..n /\ i \in 1..n
        BY <2>2
      <3>5. ~(1 < i)
        BY <2>3, <3>3, <3>4
      <3> QED
        BY <3>2, <3>4, <3>5
    <2> QED
      BY <2>2, <2>4, <2>5 DEF n
  <1> QED
    BY <1>1, RoutingHolds, PTL

(* For every installation, history and set of policies: whoever works on a *)
(* task is eligible under all of them and works on it once; a second       *)
(* attempt needs a failed first and everybody's consent; and there are no  *)
(* more attempts than anyone allows (delegate, shouldFallback, route).     *)
THEOREM AttemptsNeedReasons == Spec => []AttemptsAreJustified
  <1>1. ASSUME RoutingInv, attempts # <<>>
        PROVE  AttemptsAreJustified
    <2>1. RouteHolds /\ AttemptsHold /\ DecisionInv /\ task # NoTask
      BY <1>1 DEF RoutingInv, RouteHolds
    <2>2. /\ Config \in Configuration /\ request \in WorkerTask
          /\ \A d \in documents : d \in PolicyDocument
      BY <2>1, DecidedTypes
    <2>3. PICK own : own = OwnRouting(Config, request)
      OBVIOUS
    <2>4. PICK n \in Nat : n = Len(attempts)
      BY <2>1 DEF AttemptsHold
    <2>5. PICK m \in Nat : /\ m = Cardinality(Candidates) /\ plan.maxAttempts <= m
                           /\ plan.route \in [1..m -> Candidates]
                           /\ \A i, j \in 1..m : i < j <=>
                                 comesBefore(Scores, task.routing, plan.route[i], plan.route[j])
      BY <2>1, RouteInOrder, RouteIsBounded
    <2>6. plan.maxAttempts \in Nat /\ n <= plan.maxAttempts
      BY <2>1, <2>4, RouteIsBounded DEF AttemptsHold
    <2>7. ASSUME NEW i \in 1..n, NEW d \in documents
          PROVE  LET worker == Fleet[attempts[i].worker]
                 IN /\ d.capabilities \cup {task.mode} \subseteq worker.capabilities
                    /\ worker.costTier <= d.maxCostTier /\ worker.latencyTier <= d.maxLatencyTier
                    /\ d.maxIterations # 0 => attempts[i].iterations <= d.maxIterations
      <3>1. i \in 1..m
        BY <2>5, <2>6
      <3>2. attempts[i].worker = plan.route[i] /\ attempts[i].iterations <= task.maxIterations
            /\ attempts[i] \in FinishedAttempt
        BY <2>1, <2>4 DEF AttemptsHold
      <3>3. PICK w \in Candidates : w = attempts[i].worker
        BY <2>5, <3>1, <3>2
      <3>4. w \in DOMAIN Fleet /\ workerSatisfiesPolicy(Fleet[w], task.mode, task.routing)
        BY <3>3 DEF Candidates, Eligible
      <3>5. Fleet[w] \in WorkerConfig
        BY <2>1, <3>4, Installed
      <3>6. /\ task.routing.maxCostTier \in Nat /\ task.routing.maxLatencyTier \in Nat
            /\ d.capabilities \subseteq task.routing.capabilities
            /\ task.routing.maxCostTier <= d.maxCostTier
            /\ task.routing.maxLatencyTier <= d.maxLatencyTier
        BY <2>1, <2>3, RoutingNarrows
      <3>7. /\ Fleet[w].costTier \in Nat /\ Fleet[w].latencyTier \in Nat
            /\ d.maxCostTier \in Nat /\ d.maxLatencyTier \in Nat /\ d.maxIterations \in Nat
        BY <2>2, <3>5 DEF WorkerConfig, PolicyDocument, Tiers, NoTier
      <3>8. /\ Fleet[w].costTier <= d.maxCostTier /\ Fleet[w].latencyTier <= d.maxLatencyTier
        BY <3>4, <3>6, <3>7 DEF workerSatisfiesPolicy
      <3>9. d.capabilities \cup {task.mode} \subseteq Fleet[w].capabilities
        BY <3>4, <3>6 DEF workerSatisfiesPolicy, RequiredCapabilities
      <3>10. d.maxIterations # 0 => attempts[i].iterations <= d.maxIterations
        <4>1. task.maxIterations \in Nat /\ attempts[i].iterations \in Nat
          BY <2>1, <3>2, DecidedRouting DEF FinishedAttempt
        <4>2. d.maxIterations # 0 => task.maxIterations <= d.maxIterations
          BY <2>1, LimitsNarrow
        <4> QED
          BY <3>2, <3>7, <4>1, <4>2
      <3> QED
        BY <3>3, <3>8, <3>9, <3>10
    <2>8. ASSUME NEW i \in 1..n, NEW j \in 1..(i - 1)
          PROVE  attempts[j].worker # attempts[i].worker
      <3>1. i \in 1..m /\ j \in 1..m /\ j \in 1..n /\ j < i
        BY <2>5, <2>6
      <3>2. attempts[i].worker = plan.route[i] /\ attempts[j].worker = plan.route[j]
        BY <2>1, <2>4, <3>1 DEF AttemptsHold
      <3>3. comesBefore(Scores, task.routing, plan.route[j], plan.route[i])
        BY <2>5, <3>1
      <3> QED
        BY <3>2, <3>3 DEF comesBefore
    <2>9. ASSUME NEW i \in 1..n, i > 1
          PROVE  /\ attempts[i - 1].status = "failed" /\ attempts[i - 1].code \in FallbackCodes
                 /\ \A d \in documents : d.allowFallback # "no"
                 /\ request.routing # NoRouting => request.routing.allowFallback
      <3>1. i - 1 \in 1..n /\ i - 1 < n
        BY <2>9
      <3>2. plan.fallback /\ attempts[i - 1].status = "failed"
            /\ attempts[i - 1].code \in FallbackCodes
        BY <2>1, <2>4, <3>1 DEF AttemptsHold
      <3>3. task.routing.allowFallback
        BY <2>1, <3>2, RouteIsBounded
      <3>4. own.allowFallback /\ \A d \in documents : d.allowFallback # "no"
        BY <2>1, <2>3, <3>3, RoutingNarrows
      <3> QED
        BY <2>3, <3>2, <3>4 DEF OwnRouting
    <2>10. n <= Config.maxAttempts
      <3>1. plan.maxAttempts <= Config.maxAttempts /\ Config.maxAttempts \in Nat
        BY <2>1, <2>2, RouteIsBounded DEF Configuration
      <3> QED
        BY <2>6, <3>1
    <2>11. \A d \in documents : d.maxAttempts # 0 => n <= d.maxAttempts
      <3> SUFFICES ASSUME NEW d \in documents, d.maxAttempts # 0 PROVE n <= d.maxAttempts
        OBVIOUS
      <3>1. task.routing.maxAttempts <= d.maxAttempts
        BY <2>1, <2>3, RoutingNarrows
      <3>2. plan.maxAttempts <= task.routing.maxAttempts
        BY <2>1, RouteIsBounded
      <3>3. task.routing.maxAttempts \in Nat /\ d.maxAttempts \in Nat
        BY <2>1, <2>2, DecidedRouting DEF PolicyDocument
      <3> QED
        BY <2>6, <3>1, <3>2, <3>3
    <2> QED
      BY <2>4, <2>7, <2>8, <2>9, <2>10, <2>11 DEF AttemptsAreJustified
  <1>2. ASSUME RoutingInv, attempts = <<>>
        PROVE  AttemptsAreJustified
    <2>1. Len(attempts) = 0
      BY <1>2
    <2>2. Config.maxAttempts \in Nat
      BY <1>2, Installed DEF RoutingInv, Configuration
    <2>3. \A d \in documents : d.maxAttempts \in Nat
      BY <1>2 DEF RoutingInv, PolicyDocument
    <2> QED
      BY <2>1, <2>2, <2>3 DEF AttemptsAreJustified
  <1>3. RoutingInv => AttemptsAreJustified
    BY <1>1, <1>2
  <1> QED
    BY <1>3, RoutingHolds, PTL

-----------------------------------------------------------------------------
(* The matcher.                                                           *)

(* What a monotone step on sets leaves as it is.                           *)
LEMMA LeastFixpoint ==
    ASSUME NEW X, NEW Step \in [SUBSET X -> SUBSET X],
           \A A, B \in SUBSET X : A \subseteq B => Step[A] \subseteq Step[B]
    PROVE  \E R \in SUBSET X : Step[R] = R
  <1> DEFINE Closed == {A \in SUBSET X : Step[A] \subseteq A}
             R == {x \in X : \A A \in Closed : x \in A}
  <1>1. R \in SUBSET X /\ \A A \in Closed : R \subseteq A
    OBVIOUS
  <1>2. Step[R] \subseteq R
    <2>1. \A A \in Closed : Step[R] \subseteq A
      BY <1>1
    <2>2. Step[R] \subseteq X
      BY <1>1
    <2> QED
      BY <2>1, <2>2
  <1>3. Step[R] \in Closed
    <2>1. Step[R] \in SUBSET X
      BY <1>1
    <2> QED
      BY <1>1, <1>2, <2>1
  <1>4. Step[R] = R
    BY <1>1, <1>2, <1>3
  <1> QED
    BY <1>1, <1>4

(* The meaning of a pattern as a set: <<i, j>> is in it when the pattern   *)
(* from j on means the value from i on.                                    *)
Grid(value, pattern) == (1..(Len(value) + 1)) \X (1..(Len(pattern) + 1))

(* The wildcards of a pattern, and a part of the value in one directory.   *)
IsDirectories(pattern, j) ==
    j + 2 <= Len(pattern) /\ pattern[j] = "*" /\ pattern[j + 1] = "*" /\ pattern[j + 2] = "/"
IsAnything(pattern, j) == j + 1 <= Len(pattern) /\ pattern[j] = "*" /\ pattern[j + 1] = "*"
Plain(value, i, k) == \A x \in i..(k - 1) : value[x] # "/"

(* What the definition says of <<i, j>> when R is the meaning.             *)
Tells(value, pattern, R, i, j) ==
    IF j > Len(pattern) THEN i > Len(value)
    ELSE IF IsDirectories(pattern, j)
    THEN \/ <<i, j + 3>> \in R
         \/ \E k \in i..Len(value) : value[k] = "/" /\ <<k + 1, j + 3>> \in R
    ELSE IF IsAnything(pattern, j)
    THEN \E k \in i..(Len(value) + 1) : <<k, j + 2>> \in R
    ELSE IF pattern[j] = "*"
    THEN \E k \in i..(Len(value) + 1) : Plain(value, i, k) /\ <<k, j + 1>> \in R
    ELSE /\ i <= Len(value)
         /\ value[i] = pattern[j] \/ (pattern[j] = "?" /\ value[i] # "/")
         /\ <<i + 1, j + 1>> \in R

Meaning(value, pattern, R) ==
    /\ R \in SUBSET Grid(value, pattern)
    /\ \A i \in 1..(Len(value) + 1), j \in 1..(Len(pattern) + 1) :
          <<i, j>> \in R <=> Tells(value, pattern, R, i, j)

LEMMA MeaningExists ==
    ASSUME NEW value, NEW pattern
    PROVE  \E R : Meaning(value, pattern, R)
  <1> DEFINE X == Grid(value, pattern)
             Step == [R \in SUBSET X |-> {x \in X : Tells(value, pattern, R, x[1], x[2])}]
  <1>1. Step \in [SUBSET X -> SUBSET X]
    OBVIOUS
  <1>2. ASSUME NEW A \in SUBSET X, NEW B \in SUBSET X, A \subseteq B
        PROVE  Step[A] \subseteq Step[B]
    <2>1. ASSUME NEW i, NEW j, Tells(value, pattern, A, i, j)
          PROVE  Tells(value, pattern, B, i, j)
      <3>1. \A x : x \in A => x \in B
        BY <1>2
      <3> HIDE DEF X, Step
      <3>2. CASE j > Len(pattern)
        BY <2>1, <3>2, Zenon DEF Tells
      <3>3. CASE ~(j > Len(pattern)) /\ IsDirectories(pattern, j)
        BY <2>1, <3>1, <3>3, Zenon DEF Tells
      <3>4. CASE ~(j > Len(pattern)) /\ ~IsDirectories(pattern, j)
        BY <2>1, <3>1, <3>4, Zenon DEF Tells
      <3> QED
        BY <3>2, <3>3, <3>4, Zenon
    <2> QED
      BY <2>1
  <1>3. PICK R \in SUBSET X : Step[R] = R
    <2> HIDE DEF Step, X
    <2> QED
      BY <1>1, <1>2, LeastFixpoint
  <1>4. R = {x \in X : Tells(value, pattern, R, x[1], x[2])}
    BY <1>3
  <1>5. ASSUME NEW i \in 1..(Len(value) + 1), NEW j \in 1..(Len(pattern) + 1)
        PROVE  <<i, j>> \in R <=> Tells(value, pattern, R, i, j)
    <2>1. <<i, j>> \in X /\ <<i, j>>[1] = i /\ <<i, j>>[2] = j
      BY DEF Grid
    <2> HIDE DEF X
    <2> QED
      BY <1>4, <2>1
  <1> QED
    BY <1>3, <1>5 DEF Meaning

LEMMA PairIs ==
    ASSUME NEW S, NEW t \in Seq(S), Len(t) = 2
    PROVE  t = <<t[1], t[2]>>
  <1> DEFINE u == <<t[1], t[2]>>
  <1>1. t[1] \in S /\ t[2] \in S
    <2>1. \A i \in 1..2 : t[i] \in S
      BY ElementOfSeq
    <2> QED
      BY <2>1
  <1>2. u \in Seq(S) /\ Len(u) = 2 /\ u[1] = t[1] /\ u[2] = t[2]
    BY <1>1
  <1>3. \A i \in 1..2 : t[i] = u[i]
    <2> HIDE DEF u
    <2> QED
      BY <1>2
  <1> HIDE DEF u
  <1>4. t = u
    BY <1>2, <1>3, SeqEqual
  <1> QED
    BY <1>4 DEF u

LEMMA TripleIs ==
    ASSUME NEW S, NEW t \in Seq(S), Len(t) = 3
    PROVE  t = <<t[1], t[2], t[3]>>
  <1> DEFINE u == <<t[1], t[2], t[3]>>
  <1>1. t[1] \in S /\ t[2] \in S /\ t[3] \in S
    <2>1. \A i \in 1..3 : t[i] \in S
      BY ElementOfSeq
    <2> QED
      BY <2>1
  <1>2. u \in Seq(S) /\ Len(u) = 3 /\ u[1] = t[1] /\ u[2] = t[2] /\ u[3] = t[3]
    BY <1>1
  <1>3. \A i \in 1..3 : t[i] = u[i]
    <2> HIDE DEF u
    <2> QED
      BY <1>2
  <1> HIDE DEF u
  <1>4. t = u
    BY <1>2, <1>3, SeqEqual
  <1> QED
    BY <1>4 DEF u

(* The wildcards of the definition, symbol by symbol.                      *)
LEMMA Wildcards ==
    ASSUME NEW Characters, NEW pattern \in Seq(Characters), NEW j \in 1..Len(pattern)
    PROVE  /\ (j + 2 <= Len(pattern) /\ SubSeq(pattern, j, j + 2) = <<"*", "*", "/">>)
                 <=> IsDirectories(pattern, j)
           /\ (j < Len(pattern) /\ SubSeq(pattern, j, j + 1) = <<"*", "*">>)
                 <=> IsAnything(pattern, j)
  <1>1. \A i \in 1..Len(pattern) : pattern[i] \in Characters
    OBVIOUS
  <1>2. PICK n \in Nat : n = Len(pattern)
    OBVIOUS
  <1>3. j \in Int /\ j + 1 \in Int /\ j + 2 \in Int
    OBVIOUS
  <1>4. ASSUME j + 2 <= n
        PROVE  SubSeq(pattern, j, j + 2) = <<pattern[j], pattern[j + 1], pattern[j + 2]>>
    <2>1. \A i \in j..(j + 2) : pattern[i] \in Characters
      BY <1>1, <1>2, <1>4
    <2>2. PICK t : t = SubSeq(pattern, j, j + 2)
      OBVIOUS
    <2>3. /\ t \in Seq(Characters) /\ Len(t) = (j + 2) - j + 1
          /\ \A i \in 1..((j + 2) - j + 1) : t[i] = pattern[j + i - 1]
      BY <1>3, <2>1, <2>2, SubSeqProperties
    <2>4. Len(t) = 3 /\ t[1] = pattern[j] /\ t[2] = pattern[j + 1] /\ t[3] = pattern[j + 2]
      BY <2>3
    <2> QED
      BY <2>2, <2>3, <2>4, TripleIs
  <1>5. ASSUME j < n
        PROVE  SubSeq(pattern, j, j + 1) = <<pattern[j], pattern[j + 1]>>
    <2>1. \A i \in j..(j + 1) : pattern[i] \in Characters
      BY <1>1, <1>2, <1>5
    <2>2. PICK t : t = SubSeq(pattern, j, j + 1)
      OBVIOUS
    <2>3. /\ t \in Seq(Characters) /\ Len(t) = (j + 1) - j + 1
          /\ \A i \in 1..((j + 1) - j + 1) : t[i] = pattern[j + i - 1]
      BY <1>3, <2>1, <2>2, SubSeqProperties
    <2>4. Len(t) = 2 /\ t[1] = pattern[j] /\ t[2] = pattern[j + 1]
      BY <2>3
    <2> QED
      BY <2>2, <2>3, <2>4, PairIs
  <1> QED
    BY <1>2, <1>4, <1>5 DEF IsDirectories, IsAnything

(* The function that Denotes chooses, and its body.                        *)
Body(value, pattern, m, i, j) ==
    IF j > Len(pattern) THEN i > Len(value)
    ELSE IF j + 2 <= Len(pattern) /\ SubSeq(pattern, j, j + 2) = <<"*", "*", "/">>
    THEN \/ m[<<i, j + 3>>]
         \/ \E k \in i..Len(value) : value[k] = "/" /\ m[<<k + 1, j + 3>>]
    ELSE IF j < Len(pattern) /\ SubSeq(pattern, j, j + 1) = <<"*", "*">>
    THEN \E k \in i..(Len(value) + 1) : m[<<k, j + 2>>]
    ELSE IF pattern[j] = "*"
    THEN \E k \in i..(Len(value) + 1) : Plain(value, i, k) /\ m[<<k, j + 1>>]
    ELSE /\ i <= Len(value)
         /\ value[i] = pattern[j] \/ (pattern[j] = "?" /\ value[i] # "/")
         /\ m[<<i + 1, j + 1>>]

LEMMA DenotesIsChosen ==
    ASSUME NEW value, NEW pattern
    PROVE  Denotes(value, pattern) =
             (CHOOSE m : m = [x \in Grid(value, pattern) |->
                                Body(value, pattern, m, x[1], x[2])])[<<1, 1>>]
  BY DEF Denotes, Body, Plain, Grid

(* The wildcards as the definition writes them are those above.            *)
Spelled(pattern) ==
    \A j \in 1..Len(pattern) :
        /\ (j + 2 <= Len(pattern) /\ SubSeq(pattern, j, j + 2) = <<"*", "*", "/">>)
              <=> IsDirectories(pattern, j)
        /\ (j < Len(pattern) /\ SubSeq(pattern, j, j + 1) = <<"*", "*">>)
              <=> IsAnything(pattern, j)

(* A function and a set that say the same.                                 *)
Agrees(value, pattern, m, R) ==
    \A a \in 1..(Len(value) + 1), b \in 1..(Len(pattern) + 1) : m[<<a, b>>] <=> <<a, b>> \in R

LEMMA BodyTells ==
    ASSUME NEW value, Len(value) \in Nat, NEW pattern, Len(pattern) \in Nat, Spelled(pattern),
           NEW m, NEW R, Agrees(value, pattern, m, R),
           NEW i \in 1..(Len(value) + 1), NEW j \in 1..(Len(pattern) + 1)
    PROVE  Body(value, pattern, m, i, j) <=> Tells(value, pattern, R, i, j)
  <1>1. PICK l \in Nat : l = Len(value)
    OBVIOUS
  <1>2. PICK n \in Nat : n = Len(pattern)
    OBVIOUS
  <1>3. CASE j > n
    BY <1>2, <1>3 DEF Body, Tells
  <1>4. CASE j <= n
    <2>1. /\ (j + 2 <= n /\ SubSeq(pattern, j, j + 2) = <<"*", "*", "/">>)
                <=> IsDirectories(pattern, j)
          /\ (j < n /\ SubSeq(pattern, j, j + 1) = <<"*", "*">>)
                <=> IsAnything(pattern, j)
      BY <1>2, <1>4 DEF Spelled
    <2>2. \A a \in 1..(l + 1), b \in 1..(n + 1) : m[<<a, b>>] <=> <<a, b>> \in R
      BY <1>1, <1>2 DEF Agrees
    <2>3. i \in 1..(l + 1) /\ j \in 1..n /\ ~(j > n)
      BY <1>1, <1>4
    <2>4. CASE IsDirectories(pattern, j)
      <3>1. j + 3 \in 1..(n + 1)
        BY <1>2, <2>3, <2>4 DEF IsDirectories
      <3>2. m[<<i, j + 3>>] <=> <<i, j + 3>> \in R
        BY <2>2, <2>3, <3>1
      <3>3. \A k \in i..l : m[<<k + 1, j + 3>>] <=> <<k + 1, j + 3>> \in R
        <4>1. \A k \in i..l : k + 1 \in 1..(l + 1)
          BY <2>3
        <4> QED
          BY <2>2, <3>1, <4>1
      <3> QED
        BY <1>1, <1>2, <2>1, <2>3, <2>4, <3>2, <3>3, Zenon DEF Body, Tells
    <2>5. CASE ~IsDirectories(pattern, j) /\ IsAnything(pattern, j)
      <3>1. j + 2 \in 1..(n + 1)
        BY <1>2, <2>3, <2>5 DEF IsAnything
      <3>2. \A k \in i..(l + 1) : m[<<k, j + 2>>] <=> <<k, j + 2>> \in R
        <4>1. \A k \in i..(l + 1) : k \in 1..(l + 1)
          BY <2>3
        <4> QED
          BY <2>2, <3>1, <4>1
      <3> QED
        BY <1>1, <1>2, <2>1, <2>3, <2>5, <3>2, Zenon DEF Body, Tells
    <2>6. CASE ~IsDirectories(pattern, j) /\ ~IsAnything(pattern, j) /\ pattern[j] = "*"
      <3>1. j + 1 \in 1..(n + 1)
        BY <2>3
      <3>2. \A k \in i..(l + 1) : m[<<k, j + 1>>] <=> <<k, j + 1>> \in R
        <4>1. \A k \in i..(l + 1) : k \in 1..(l + 1)
          BY <2>3
        <4> QED
          BY <2>2, <3>1, <4>1
      <3> QED
        BY <1>1, <1>2, <2>1, <2>3, <2>6, <3>2, Zenon DEF Body, Tells
    <2>7. CASE ~IsDirectories(pattern, j) /\ ~IsAnything(pattern, j) /\ pattern[j] # "*"
      <3>1. i <= l => (m[<<i + 1, j + 1>>] <=> <<i + 1, j + 1>> \in R)
        <4>1. j + 1 \in 1..(n + 1) /\ (i <= l => i + 1 \in 1..(l + 1))
          BY <2>3
        <4> QED
          BY <2>2, <4>1
      <3> QED
        BY <1>1, <1>2, <2>1, <2>3, <2>7, <3>1, Zenon DEF Body, Tells
    <2> QED
      BY <2>4, <2>5, <2>6, <2>7
  <1> QED
    BY <1>2, <1>3, <1>4

LEMMA BodyIsBoolean ==
    ASSUME NEW value, NEW pattern, NEW m, NEW i, NEW j
    PROVE  Body(value, pattern, m, i, j) \in BOOLEAN
  <1>1. (i > Len(value)) \in BOOLEAN
    OBVIOUS
  <1>2. (\/ m[<<i, j + 3>>]
         \/ \E k \in i..Len(value) : value[k] = "/" /\ m[<<k + 1, j + 3>>]) \in BOOLEAN
    OBVIOUS
  <1>3. (\E k \in i..(Len(value) + 1) : m[<<k, j + 2>>]) \in BOOLEAN
    OBVIOUS
  <1>4. (\E k \in i..(Len(value) + 1) : Plain(value, i, k) /\ m[<<k, j + 1>>]) \in BOOLEAN
    OBVIOUS
  <1>5. (/\ i <= Len(value)
         /\ value[i] = pattern[j] \/ (pattern[j] = "?" /\ value[i] # "/")
         /\ m[<<i + 1, j + 1>>]) \in BOOLEAN
    OBVIOUS
  <1> QED
    BY <1>1, <1>2, <1>3, <1>4, <1>5, Zenon DEF Body

LEMMA DenotesMeaning ==
    ASSUME NEW value, Len(value) \in Nat, NEW pattern, Len(pattern) \in Nat, Spelled(pattern)
    PROVE  \E R : Meaning(value, pattern, R) /\ Denotes(value, pattern) = (<<1, 1>> \in R)
  <1> DEFINE A == 1..(Len(value) + 1)
             B == 1..(Len(pattern) + 1)
             X == Grid(value, pattern)
             Solves(m) == m = [x \in X |-> Body(value, pattern, m, x[1], x[2])]
  <1>1. X = A \X B
    BY DEF Grid
  <1>2. PICK R : Meaning(value, pattern, R)
    BY MeaningExists
  <1> DEFINE f == [x \in X |-> x \in R]
  <1>3. Agrees(value, pattern, f, R)
    BY <1>1 DEF Agrees
  <1>4. ASSUME NEW x \in X PROVE Body(value, pattern, f, x[1], x[2]) = (x \in R)
    <2>1. PICK i \in A, j \in B : x = <<i, j>>
      BY <1>1
    <2>2. Body(value, pattern, f, i, j) <=> Tells(value, pattern, R, i, j)
      <3> HIDE DEF f
      <3> QED
        BY <1>3, BodyTells
    <2>3. <<i, j>> \in R <=> Tells(value, pattern, R, i, j)
      BY <1>2 DEF Meaning
    <2>4. Body(value, pattern, f, i, j) \in BOOLEAN
      BY BodyIsBoolean
    <2> HIDE DEF f
    <2> QED
      BY <2>1, <2>2, <2>3, <2>4
  <1>5. Solves(f)
    <2> HIDE DEF X
    <2> QED
      BY <1>4
  <1>6. PICK chosen : Solves(chosen) /\ Denotes(value, pattern) = chosen[<<1, 1>>]
    <2>1. Solves(CHOOSE m : Solves(m))
      <3> HIDE DEF Solves
      <3> QED
        BY <1>5
    <2>2. Denotes(value, pattern) = (CHOOSE m : Solves(m))[<<1, 1>>]
      BY DenotesIsChosen
    <2> HIDE DEF Solves
    <2> QED
      BY <2>1, <2>2
  <1>7. \A x \in X : chosen[x] = Body(value, pattern, chosen, x[1], x[2])
    <2> HIDE DEF X
    <2> QED
      BY <1>6
  <1> DEFINE Q == {x \in X : chosen[x]}
  <1>8. Agrees(value, pattern, chosen, Q)
    BY <1>1 DEF Agrees
  <1>9. ASSUME NEW i \in A, NEW j \in B
        PROVE  <<i, j>> \in Q <=> Tells(value, pattern, Q, i, j)
    <2>1. <<i, j>> \in X /\ <<i, j>>[1] = i /\ <<i, j>>[2] = j
      BY <1>1
    <2> HIDE DEF X
    <2>2. <<i, j>> \in Q <=> chosen[<<i, j>>]
      BY <2>1
    <2> HIDE DEF Q
    <2>3. Body(value, pattern, chosen, i, j) <=> Tells(value, pattern, Q, i, j)
      BY <1>8, BodyTells
    <2>4. chosen[<<i, j>>] = Body(value, pattern, chosen, i, j)
      BY <1>7, <2>1
    <2> QED
      BY <2>2, <2>3, <2>4
  <1>10. Q \in SUBSET Grid(value, pattern)
    OBVIOUS
  <1>11. Meaning(value, pattern, Q)
    <2> HIDE DEF Q
    <2> QED
      BY <1>9, <1>10 DEF Meaning
  <1>12. 1 \in A /\ 1 \in B
    OBVIOUS
  <1>13. <<1, 1>> \in X /\ <<1, 1>>[1] = 1 /\ <<1, 1>>[2] = 1
    BY <1>1, <1>12
  <1>14. chosen[<<1, 1>>] \in BOOLEAN
    BY <1>7, <1>13, BodyIsBoolean
  <1>15. <<1, 1>> \in Q <=> chosen[<<1, 1>>]
    <2> HIDE DEF X
    <2> QED
      BY <1>13
  <1> HIDE DEF Q, Solves
  <1> QED
    BY <1>6, <1>11, <1>14, <1>15

(* The search, state by state.                                             *)
States == [value : Nat, pattern : Nat, active : BOOLEAN]
Start  == GlobState(0, 0, FALSE)

LEMMA StateForms ==
    /\ \A v, p \in Nat, a \in BOOLEAN :
          /\ GlobState(v, p, a) \in States
          /\ GlobState(v, p, a).value = v /\ GlobState(v, p, a).pattern = p
          /\ GlobState(v, p, a).active = a
    /\ \A s \in States : /\ s.value \in Nat /\ s.pattern \in Nat /\ s.active \in BOOLEAN
                         /\ s = GlobState(s.value, s.pattern, s.active)
    /\ Start \in States
  BY DEF GlobState, States, Start

LEMMA SuccessorsTyped ==
    ASSUME NEW value, NEW pattern, NEW s \in States
    PROVE  Successors(value, pattern, s) \subseteq States
  <1>1. PICK v \in Nat, p \in Nat : v = s.value /\ p = s.pattern
    BY StateForms
  <1>2. v + 1 \in Nat /\ p + 1 \in Nat /\ p + 2 \in Nat /\ p + 3 \in Nat
    OBVIOUS
  <1>3. ASSUME NEW t \in Successors(value, pattern, s)
        PROVE  \E w \in {v, v + 1}, q \in {p, p + 1, p + 2, p + 3}, a \in BOOLEAN :
                   t = GlobState(w, q, a)
    BY <1>1, Zenon DEF Successors
  <1>4. ASSUME NEW t \in Successors(value, pattern, s)
        PROVE  t \in States
    <2>1. PICK w \in {v, v + 1}, q \in {p, p + 1, p + 2, p + 3}, a \in BOOLEAN :
                   t = GlobState(w, q, a)
      BY <1>3
    <2>2. w \in Nat /\ q \in Nat
      BY <1>2
    <2> QED
      BY <2>1, <2>2, StateForms
  <1> QED
    BY <1>4

(* The function of rounds that Visited chooses.                            *)
Grows(value, pattern, V) ==
    V = [n \in Nat |->
            IF n = 0 THEN {GlobState(0, 0, FALSE)}
            ELSE LET before == V[n - 1]
                 IN before \cup UNION {Successors(value, pattern, s) : s \in before}]

LEMMA VisitedIsChosen ==
    ASSUME NEW value, NEW pattern
    PROVE  Visited(value, pattern) =
             (CHOOSE V : Grows(value, pattern, V))[2 * (Len(value) + Len(pattern))]
  BY DEF Visited, Grows

LEMMA VisitedGrows ==
    ASSUME NEW value, NEW pattern
    PROVE  \E V : Grows(value, pattern, V)
  <1> DEFINE X == Nat \X States
             Reached(P, n, s) ==
                 \/ n = 0 /\ s = Start
                 \/ /\ n # 0
                    /\ \/ <<n - 1, s>> \in P
                       \/ \E t \in States : <<n - 1, t>> \in P /\ s \in Successors(value, pattern, t)
             Step == [P \in SUBSET X |-> {x \in X : Reached(P, x[1], x[2])}]
  <1>1. Step \in [SUBSET X -> SUBSET X]
    OBVIOUS
  <1>2. ASSUME NEW A \in SUBSET X, NEW B \in SUBSET X, A \subseteq B
        PROVE  Step[A] \subseteq Step[B]
    BY <1>2
  <1>3. PICK P \in SUBSET X : Step[P] = P
    <2> HIDE DEF Step, X
    <2> QED
      BY <1>1, <1>2, LeastFixpoint
  <1>4. \A n \in Nat, s \in States : <<n, s>> \in P <=> Reached(P, n, s)
    BY <1>3
  <1> DEFINE V == [n \in Nat |-> {s \in States : <<n, s>> \in P}]
  <1>5. ASSUME NEW n \in Nat, n = 0 PROVE V[n] = {Start}
    <2>1. V[n] = {s \in States : <<n, s>> \in P}
      OBVIOUS
    <2> HIDE DEF V
    <2>2. \A s \in States : <<n, s>> \in P <=> s = Start
      BY <1>4, <1>5
    <2>3. Start \in States
      BY StateForms
    <2> QED
      BY <2>1, <2>2, <2>3
  <1>6. ASSUME NEW n \in Nat, n # 0
        PROVE  V[n] = V[n - 1] \cup UNION {Successors(value, pattern, s) : s \in V[n - 1]}
    <2>1. n - 1 \in Nat
      BY <1>6
    <2>2. V[n] = {s \in States : <<n, s>> \in P}
      OBVIOUS
    <2>3. V[n - 1] = {s \in States : <<n - 1, s>> \in P}
      BY <2>1
    <2> HIDE DEF V
    <2>4. ASSUME NEW s PROVE s \in V[n] <=> \/ s \in V[n - 1]
                                            \/ \E t \in V[n - 1] : s \in Successors(value, pattern, t)
      <3>1. \A t \in States : s \in Successors(value, pattern, t) => s \in States
        BY SuccessorsTyped
      <3> QED
        BY <1>4, <1>6, <2>2, <2>3, <3>1
    <2> QED
      BY <2>4
  <1>7. Grows(value, pattern, V)
    <2> DEFINE New(n) == IF n = 0 THEN {GlobState(0, 0, FALSE)}
                         ELSE LET before == V[n - 1]
                              IN before \cup UNION {Successors(value, pattern, s) : s \in before}
    <2>1. \A n \in Nat : V[n] = New(n)
      <3> HIDE DEF V
      <3> QED
        BY <1>5, <1>6 DEF Start
    <2>2. V = [n \in Nat |-> New(n)]
      <3> HIDE DEF New
      <3>1. V = [n \in Nat |-> V[n]]
        OBVIOUS
      <3> HIDE DEF V
      <3> QED
        BY <2>1, <3>1
    <2> HIDE DEF V
    <2> QED
      BY <2>2 DEF Grows
  <1> QED
    BY <1>7

(* A state of the search: how much of the value and the pattern it has     *)
(* read.                                                                   *)
Proper(value, pattern, s) ==
    /\ s \in States
    /\ s.value <= Len(value) /\ s.pattern <= Len(pattern)
    /\ s.active => IsDirectories(pattern, s.pattern + 1)

(* What is left of the value can be what is left of the pattern.           *)
Open(value, R, s) ==
    IF s.active
    THEN \E k \in (s.value + 1)..Len(value) : value[k] = "/" /\ <<k + 1, s.pattern + 4>> \in R
    ELSE <<s.value + 1, s.pattern + 1>> \in R

Matched(value, pattern, s) == ~s.active /\ s.pattern >= Len(pattern) /\ s.value = Len(value)

(* What the matcher looks at.                                              *)
LEMMA Symbols ==
    ASSUME NEW value, NEW pattern, NEW l \in Nat, l = Len(value), NEW n \in Nat, n = Len(pattern),
           NEW v \in 0..l, NEW p \in 0..n
    PROVE  /\ Symbol(value, v) = "/" <=> v < l /\ value[v + 1] = "/"
           /\ v < l => Symbol(value, v) = value[v + 1]
           /\ p < n => Symbol(pattern, p) = pattern[p + 1]
           /\ (/\ Symbol(pattern, p) = "*" /\ Symbol(pattern, p + 1) = "*"
               /\ Symbol(pattern, p + 2) = "/") <=> IsDirectories(pattern, p + 1)
           /\ (Symbol(pattern, p) = "*" /\ Symbol(pattern, p + 1) = "*")
                 <=> IsAnything(pattern, p + 1)
  <1>1. p \in Nat /\ p <= n /\ v \in Nat /\ v <= l
    OBVIOUS
  <1>3. /\ p + 1 <= n => Symbol(pattern, p) = pattern[p + 1]
        /\ ~(p + 1 <= n) => Symbol(pattern, p) = "end"
        /\ p + 2 <= n => Symbol(pattern, p + 1) = pattern[p + 2]
        /\ ~(p + 2 <= n) => Symbol(pattern, p + 1) = "end"
        /\ p + 3 <= n => Symbol(pattern, p + 2) = pattern[p + 3]
        /\ ~(p + 3 <= n) => Symbol(pattern, p + 2) = "end"
    BY <1>1 DEF Symbol
  <1>4. IsDirectories(pattern, p + 1) <=>
           p + 3 <= n /\ pattern[p + 1] = "*" /\ pattern[p + 2] = "*" /\ pattern[p + 3] = "/"
    BY <1>1 DEF IsDirectories
  <1>5. IsAnything(pattern, p + 1) <=> p + 2 <= n /\ pattern[p + 1] = "*" /\ pattern[p + 2] = "*"
    BY <1>1 DEF IsAnything
  <1>6. p + 3 <= n => p + 2 <= n /\ p + 1 <= n
    BY <1>1
  <1>7. p + 2 <= n => p + 1 <= n
    BY <1>1
  <1>8. /\ Symbol(value, v) = "/" <=> v < l /\ value[v + 1] = "/"
        /\ v < l => Symbol(value, v) = value[v + 1]
    BY <1>1 DEF Symbol
  <1>9. p < n => Symbol(pattern, p) = pattern[p + 1]
    BY <1>1, <1>3
  <1>10. "end" # "*" /\ "end" # "/"
    OBVIOUS
  <1> QED
    BY <1>3, <1>4, <1>5, <1>6, <1>7, <1>8, <1>9, <1>10, Zenon

(* Every step of the search goes up.                                       *)
Rank(s) == 2 * (s.value + s.pattern) + (IF s.active THEN 1 ELSE 0)

(* A step of the search loses nothing and invents nothing.                 *)
Right(value, pattern, R, s) ==
    /\ \A t \in Successors(value, pattern, s) : Proper(value, pattern, t) /\ Rank(s) < Rank(t)
    /\ Open(value, R, s) <=> \/ Matched(value, pattern, s)
                             \/ \E t \in Successors(value, pattern, s) : Open(value, R, t)

(* What these say of a state that has read v and p.                        *)
ReadingFacts(value, pattern, R, v, p) ==
    LET s == GlobState(v, p, FALSE)
    IN /\ s.value = v /\ s.pattern = p /\ s.active = FALSE
       /\ Proper(value, pattern, s) <=> v <= Len(value) /\ p <= Len(pattern)
       /\ Open(value, R, s) <=> <<v + 1, p + 1>> \in R
       /\ Matched(value, pattern, s) <=> p >= Len(pattern) /\ v = Len(value)
       /\ Rank(s) = 2 * (v + p)

TakingFacts(value, pattern, R, v, p) ==
    LET s == GlobState(v, p, TRUE)
    IN /\ s.value = v /\ s.pattern = p /\ s.active = TRUE
       /\ Proper(value, pattern, s) <=>
             v <= Len(value) /\ p <= Len(pattern) /\ IsDirectories(pattern, p + 1)
       /\ Open(value, R, s) <=>
             \E k \in (v + 1)..Len(value) : value[k] = "/" /\ <<k + 1, p + 4>> \in R
       /\ ~Matched(value, pattern, s)
       /\ Rank(s) = 2 * (v + p) + 1

LEMMA OfReading ==
    ASSUME NEW value, NEW pattern, NEW R, NEW v \in Nat, NEW p \in Nat
    PROVE  ReadingFacts(value, pattern, R, v, p)
  <1>1. PICK s : s = GlobState(v, p, FALSE)
    OBVIOUS
  <1>2. s \in States /\ s.value = v /\ s.pattern = p /\ s.active = FALSE
    BY <1>1 DEF GlobState, States
  <1>3. Rank(s) = 2 * (v + p)
    BY <1>2 DEF Rank
  <1>4. /\ Proper(value, pattern, s) <=> v <= Len(value) /\ p <= Len(pattern)
        /\ Open(value, R, s) <=> <<v + 1, p + 1>> \in R
        /\ Matched(value, pattern, s) <=> p >= Len(pattern) /\ v = Len(value)
    BY <1>2 DEF Proper, Open, Matched
  <1> QED
    BY <1>1, <1>2, <1>3, <1>4 DEF ReadingFacts

LEMMA OfTaking ==
    ASSUME NEW value, NEW pattern, NEW R, NEW v \in Nat, NEW p \in Nat
    PROVE  TakingFacts(value, pattern, R, v, p)
  <1>1. PICK s : s = GlobState(v, p, TRUE)
    OBVIOUS
  <1>2. s \in States /\ s.value = v /\ s.pattern = p /\ s.active = TRUE
    BY <1>1 DEF GlobState, States
  <1>3. Rank(s) = 2 * (v + p) + 1
    BY <1>2 DEF Rank
  <1>4. /\ Proper(value, pattern, s) <=>
              v <= Len(value) /\ p <= Len(pattern) /\ IsDirectories(pattern, p + 1)
        /\ Open(value, R, s) <=>
              \E k \in (v + 1)..Len(value) : value[k] = "/" /\ <<k + 1, p + 4>> \in R
        /\ ~Matched(value, pattern, s)
    BY <1>2 DEF Proper, Open, Matched
  <1> QED
    BY <1>1, <1>2, <1>3, <1>4 DEF TakingFacts

(* A wildcard that takes in directories.                                   *)
LEMMA ActiveRight ==
    ASSUME NEW value, NEW pattern, NEW R, NEW l \in Nat, l = Len(value),
           NEW n \in Nat, n = Len(pattern), NEW v \in 0..l, NEW p \in 0..n,
           IsDirectories(pattern, p + 1)
    PROVE  Right(value, pattern, R, GlobState(v, p, TRUE))
  <1> DEFINE Slash == v < l /\ value[v + 1] = "/"
             Left(i) == \E k \in i..l : value[k] = "/" /\ <<k + 1, p + 4>> \in R
  <1>1. v \in Nat /\ p \in Nat /\ v + 1 \in Nat /\ p + 3 \in Nat /\ p <= n /\ v <= l
    OBVIOUS
  <1>2. /\ p + 3 <= n /\ (v < l <=> v + 1 <= l)
        /\ (v + 1) + 1 = v + 2 /\ (p + 3) + 1 = p + 4
    BY <1>1 DEF IsDirectories
  <1>3. PICK s : s = GlobState(v, p, TRUE)
    OBVIOUS
  <1>4. PICK t1 : t1 = GlobState(v + 1, p, TRUE)
    OBVIOUS
  <1>5. PICK t2 : t2 = GlobState(v + 1, p + 3, FALSE)
    OBVIOUS
  <1>6. /\ s.value = v /\ s.pattern = p /\ s.active = TRUE
        /\ Open(value, R, s) <=> Left(v + 1)
        /\ ~Matched(value, pattern, s) /\ Rank(s) = 2 * (v + p) + 1
    <2>1. TakingFacts(value, pattern, R, v, p)
      BY <1>1, OfTaking
    <2> QED
      BY <1>3, <2>1 DEF TakingFacts
  <1>7. /\ Proper(value, pattern, t1) <=> v < l
        /\ Open(value, R, t1) <=> Left(v + 2)
        /\ Rank(t1) = 2 * (v + 1 + p) + 1
    <2>1. TakingFacts(value, pattern, R, v + 1, p)
      BY <1>1, OfTaking
    <2> QED
      BY <1>1, <1>2, <1>4, <2>1 DEF TakingFacts
  <1>8. /\ Proper(value, pattern, t2) <=> v < l
        /\ Open(value, R, t2) <=> <<v + 2, p + 4>> \in R
        /\ Rank(t2) = 2 * (v + 1 + (p + 3))
    <2>1. ReadingFacts(value, pattern, R, v + 1, p + 3)
      BY <1>1, OfReading
    <2> QED
      BY <1>1, <1>2, <1>5, <2>1 DEF ReadingFacts
  <1>9. Symbol(value, v) = "/" <=> Slash
    BY Symbols
  <1>10. \A t : t \in Successors(value, pattern, s) <=> (v < l /\ t = t1) \/ (Slash /\ t = t2)
    <2> HIDE DEF Slash
    <2> QED
      BY <1>4, <1>5, <1>6, <1>9 DEF Successors
  <1>11. Left(v + 1) <=> (v < l /\ Left(v + 2)) \/ (Slash /\ <<v + 2, p + 4>> \in R)
    <2>1. \A k : k \in (v + 1)..l <=> (v < l /\ k \in (v + 2)..l) \/ (v < l /\ k = v + 1)
      BY <1>1
    <2> QED
      BY <1>2, <2>1
  <1>12. Rank(s) < Rank(t1) /\ Rank(s) < Rank(t2)
    BY <1>1, <1>6, <1>7, <1>8
  <1> HIDE DEF Left
  <1>13. Right(value, pattern, R, s)
    BY <1>6, <1>7, <1>8, <1>10, <1>11, <1>12 DEF Right
  <1> QED
    BY <1>3, <1>13

LEMMA MeaningHere ==
    ASSUME NEW value, NEW pattern, NEW R, NEW l \in Nat, l = Len(value),
           NEW n \in Nat, n = Len(pattern), Meaning(value, pattern, R),
           NEW v \in 0..l, NEW p \in 0..n
    PROVE  <<v + 1, p + 1>> \in R <=> Tells(value, pattern, R, v + 1, p + 1)
  <1>1. v + 1 \in 1..(Len(value) + 1) /\ p + 1 \in 1..(Len(pattern) + 1)
    OBVIOUS
  <1> QED
    BY <1>1 DEF Meaning

(* The end of the pattern.                                                 *)
LEMMA EndRight ==
    ASSUME NEW value, NEW pattern, NEW R, NEW l \in Nat, l = Len(value),
           NEW n \in Nat, n = Len(pattern), Meaning(value, pattern, R),
           NEW v \in 0..l, NEW p \in 0..n, p = n
    PROVE  Right(value, pattern, R, GlobState(v, p, FALSE))
  <1>1. v \in Nat /\ p \in Nat /\ v <= l /\ p >= n
    OBVIOUS
  <1>2. PICK s : s = GlobState(v, p, FALSE)
    OBVIOUS
  <1>3. /\ s.value = v /\ s.pattern = p /\ s.active = FALSE
        /\ Open(value, R, s) <=> <<v + 1, p + 1>> \in R
        /\ Matched(value, pattern, s) <=> v = l
    <2>1. ReadingFacts(value, pattern, R, v, p)
      BY <1>1, OfReading
    <2> QED
      BY <1>1, <1>2, <2>1 DEF ReadingFacts
  <1>4. <<v + 1, p + 1>> \in R <=> v = l
    <2>1. <<v + 1, p + 1>> \in R <=> Tells(value, pattern, R, v + 1, p + 1)
      BY MeaningHere
    <2>2. p + 1 > n /\ (v + 1 > l <=> v = l)
      BY <1>1
    <2> QED
      BY <2>1, <2>2 DEF Tells
  <1>5. \A t : t \notin Successors(value, pattern, s)
    BY <1>1, <1>3 DEF Successors
  <1>6. Right(value, pattern, R, s)
    BY <1>3, <1>4, <1>5 DEF Right
  <1> QED
    BY <1>2, <1>6

(* A directory wildcard.                                                   *)
LEMMA DirectoriesRight ==
    ASSUME NEW value, NEW pattern, NEW R, NEW l \in Nat, l = Len(value),
           NEW n \in Nat, n = Len(pattern), Meaning(value, pattern, R),
           NEW v \in 0..l, NEW p \in 0..n, IsDirectories(pattern, p + 1)
    PROVE  Right(value, pattern, R, GlobState(v, p, FALSE))
  <1> DEFINE Left(i) == \E k \in i..l : value[k] = "/" /\ <<k + 1, p + 4>> \in R
  <1>1. v \in Nat /\ p \in Nat /\ p + 3 \in Nat /\ p <= n /\ v <= l
    OBVIOUS
  <1>2. /\ p + 3 <= n /\ p < n /\ ~(p >= n) /\ (p + 3) + 1 = p + 4 /\ (p + 1) + 3 = p + 4
        /\ ~(p + 1 > n)
    BY <1>1 DEF IsDirectories
  <1>3. PICK s : s = GlobState(v, p, FALSE)
    OBVIOUS
  <1>4. PICK t1 : t1 = GlobState(v, p + 3, FALSE)
    OBVIOUS
  <1>5. PICK t2 : t2 = GlobState(v, p, TRUE)
    OBVIOUS
  <1>6. /\ s.value = v /\ s.pattern = p /\ s.active = FALSE
        /\ Open(value, R, s) <=> <<v + 1, p + 1>> \in R
        /\ ~Matched(value, pattern, s) /\ Rank(s) = 2 * (v + p)
    <2>1. ReadingFacts(value, pattern, R, v, p)
      BY <1>1, OfReading
    <2> QED
      BY <1>2, <1>3, <2>1 DEF ReadingFacts
  <1>7. /\ Proper(value, pattern, t1)
        /\ Open(value, R, t1) <=> <<v + 1, p + 4>> \in R
        /\ Rank(t1) = 2 * (v + (p + 3))
    <2>1. ReadingFacts(value, pattern, R, v, p + 3)
      BY <1>1, OfReading
    <2> QED
      BY <1>1, <1>2, <1>4, <2>1 DEF ReadingFacts
  <1>8. /\ Proper(value, pattern, t2)
        /\ Open(value, R, t2) <=> Left(v + 1)
        /\ Rank(t2) = 2 * (v + p) + 1
    <2>1. TakingFacts(value, pattern, R, v, p)
      BY <1>1, OfTaking
    <2> QED
      BY <1>1, <1>5, <2>1 DEF TakingFacts
  <1>9. /\ Symbol(pattern, p) = "*" /\ Symbol(pattern, p + 1) = "*"
        /\ Symbol(pattern, p + 2) = "/"
    BY Symbols
  <1>10. \A t : t \in Successors(value, pattern, s) <=> t = t1 \/ (v < l /\ t = t2)
    <2>1. Symbol(pattern, p + 0) = "*"
      BY <1>1, <1>9
    <2> QED
      BY <1>2, <1>4, <1>5, <1>6, <1>9, <2>1 DEF Successors
  <1>11. <<v + 1, p + 1>> \in R <=> <<v + 1, p + 4>> \in R \/ Left(v + 1)
    <2>1. <<v + 1, p + 1>> \in R <=> Tells(value, pattern, R, v + 1, p + 1)
      BY MeaningHere
    <2> QED
      BY <1>2, <2>1 DEF Tells
  <1>12. Left(v + 1) => v < l
    BY <1>1
  <1>13. Rank(s) < Rank(t1) /\ Rank(s) < Rank(t2)
    BY <1>1, <1>6, <1>7, <1>8
  <1> HIDE DEF Left
  <1>14. Right(value, pattern, R, s)
    BY <1>6, <1>7, <1>8, <1>10, <1>11, <1>12, <1>13 DEF Right
  <1> QED
    BY <1>3, <1>14

(* A wildcard for anything.                                                *)
LEMMA AnythingRight ==
    ASSUME NEW value, NEW pattern, NEW R, NEW l \in Nat, l = Len(value),
           NEW n \in Nat, n = Len(pattern), Meaning(value, pattern, R),
           NEW v \in 0..l, NEW p \in 0..n,
           ~IsDirectories(pattern, p + 1), IsAnything(pattern, p + 1)
    PROVE  Right(value, pattern, R, GlobState(v, p, FALSE))
  <1> DEFINE Left(i) == \E k \in i..(l + 1) : <<k, p + 3>> \in R
  <1>1. v \in Nat /\ p \in Nat /\ p + 2 \in Nat /\ v + 1 \in Nat /\ p <= n /\ v <= l
    OBVIOUS
  <1>2. /\ p + 2 <= n /\ p < n /\ ~(p >= n) /\ (p + 2) + 1 = p + 3 /\ (p + 1) + 2 = p + 3
        /\ ~(p + 1 > n) /\ (v + 1) + 1 = v + 2 /\ (v < l <=> v + 1 <= l)
    BY <1>1 DEF IsAnything
  <1>3. PICK s : s = GlobState(v, p, FALSE)
    OBVIOUS
  <1>4. PICK t1 : t1 = GlobState(v, p + 2, FALSE)
    OBVIOUS
  <1>5. PICK t2 : t2 = GlobState(v + 1, p, FALSE)
    OBVIOUS
  <1>6. /\ s.value = v /\ s.pattern = p /\ s.active = FALSE
        /\ Open(value, R, s) <=> <<v + 1, p + 1>> \in R
        /\ ~Matched(value, pattern, s) /\ Rank(s) = 2 * (v + p)
    <2>1. ReadingFacts(value, pattern, R, v, p)
      BY <1>1, OfReading
    <2> QED
      BY <1>2, <1>3, <2>1 DEF ReadingFacts
  <1>7. /\ Proper(value, pattern, t1)
        /\ Open(value, R, t1) <=> <<v + 1, p + 3>> \in R
        /\ Rank(t1) = 2 * (v + (p + 2))
    <2>1. ReadingFacts(value, pattern, R, v, p + 2)
      BY <1>1, OfReading
    <2> QED
      BY <1>1, <1>2, <1>4, <2>1 DEF ReadingFacts
  <1>8. /\ Proper(value, pattern, t2) <=> v < l
        /\ Open(value, R, t2) <=> <<v + 2, p + 1>> \in R
        /\ Rank(t2) = 2 * (v + 1 + p)
    <2>1. ReadingFacts(value, pattern, R, v + 1, p)
      BY <1>1, OfReading
    <2> QED
      BY <1>1, <1>2, <1>5, <2>1 DEF ReadingFacts
  <1>9. /\ Symbol(pattern, p) = "*" /\ Symbol(pattern, p + 1) = "*"
        /\ Symbol(pattern, p + 2) # "/"
    BY Symbols
  <1>10. \A t : t \in Successors(value, pattern, s) <=> t = t1 \/ (v < l /\ t = t2)
    <2>1. Symbol(pattern, p + 0) = "*"
      BY <1>1, <1>9
    <2> QED
      BY <1>2, <1>4, <1>5, <1>6, <1>9, <2>1 DEF Successors
  <1>11. \A w \in 0..l : <<w + 1, p + 1>> \in R <=> Left(w + 1)
    <2> SUFFICES ASSUME NEW w \in 0..l
                 PROVE  <<w + 1, p + 1>> \in R <=> Left(w + 1)
      OBVIOUS
    <2>1. <<w + 1, p + 1>> \in R <=> Tells(value, pattern, R, w + 1, p + 1)
      BY MeaningHere
    <2> QED
      BY <1>2, <2>1 DEF Tells
  <1>12. Left(v + 1) <=> <<v + 1, p + 3>> \in R \/ (v < l /\ Left(v + 2))
    <2>1. \A k : k \in (v + 1)..(l + 1) <=> k = v + 1 \/ (v < l /\ k \in (v + 2)..(l + 1))
      BY <1>1
    <2> QED
      BY <2>1
  <1>13. <<v + 1, p + 1>> \in R <=> <<v + 1, p + 3>> \in R \/ (v < l /\ <<v + 2, p + 1>> \in R)
    <2>1. <<v + 1, p + 1>> \in R <=> Left(v + 1)
      BY <1>11
    <2>2. v < l => (<<v + 2, p + 1>> \in R <=> Left(v + 2))
      <3>1. ASSUME v < l PROVE v + 1 \in 0..l
        BY <1>1, <3>1
      <3> HIDE DEF Left
      <3> QED
        BY <1>2, <1>11, <3>1
    <2> HIDE DEF Left
    <2> QED
      BY <1>12, <2>1, <2>2
  <1>14. Rank(s) < Rank(t1) /\ Rank(s) < Rank(t2)
    BY <1>1, <1>6, <1>7, <1>8
  <1>15. Right(value, pattern, R, s)
    BY <1>6, <1>7, <1>8, <1>10, <1>13, <1>14 DEF Right
  <1> QED
    BY <1>3, <1>15

(* A wildcard for a piece of a name.                                       *)
LEMMA StarRight ==
    ASSUME NEW value, NEW pattern, NEW R, NEW l \in Nat, l = Len(value),
           NEW n \in Nat, n = Len(pattern), Meaning(value, pattern, R),
           NEW v \in 0..l, NEW p \in 0..n, p < n, ~IsDirectories(pattern, p + 1),
           ~IsAnything(pattern, p + 1), pattern[p + 1] = "*"
    PROVE  Right(value, pattern, R, GlobState(v, p, FALSE))
  <1> DEFINE Left(i) == \E k \in i..(l + 1) : Plain(value, i, k) /\ <<k, p + 2>> \in R
             Name == v < l /\ value[v + 1] # "/"
  <1>1. v \in Nat /\ p \in Nat /\ p + 1 \in Nat /\ v + 1 \in Nat /\ p <= n /\ v <= l
    OBVIOUS
  <1>2. /\ p + 1 <= n /\ ~(p >= n) /\ (p + 1) + 1 = p + 2
        /\ ~(p + 1 > n) /\ (v + 1) + 1 = v + 2 /\ (v < l <=> v + 1 <= l)
    BY <1>1
  <1>3. PICK s : s = GlobState(v, p, FALSE)
    OBVIOUS
  <1>4. PICK t1 : t1 = GlobState(v, p + 1, FALSE)
    OBVIOUS
  <1>5. PICK t2 : t2 = GlobState(v + 1, p, FALSE)
    OBVIOUS
  <1>6. /\ s.value = v /\ s.pattern = p /\ s.active = FALSE
        /\ Open(value, R, s) <=> <<v + 1, p + 1>> \in R
        /\ ~Matched(value, pattern, s) /\ Rank(s) = 2 * (v + p)
    <2>1. ReadingFacts(value, pattern, R, v, p)
      BY <1>1, OfReading
    <2> QED
      BY <1>2, <1>3, <2>1 DEF ReadingFacts
  <1>7. /\ Proper(value, pattern, t1)
        /\ Open(value, R, t1) <=> <<v + 1, p + 2>> \in R
        /\ Rank(t1) = 2 * (v + (p + 1))
    <2>1. ReadingFacts(value, pattern, R, v, p + 1)
      BY <1>1, OfReading
    <2> QED
      BY <1>1, <1>2, <1>4, <2>1 DEF ReadingFacts
  <1>8. /\ Proper(value, pattern, t2) <=> v < l
        /\ Open(value, R, t2) <=> <<v + 2, p + 1>> \in R
        /\ Rank(t2) = 2 * (v + 1 + p)
    <2>1. ReadingFacts(value, pattern, R, v + 1, p)
      BY <1>1, OfReading
    <2> QED
      BY <1>1, <1>2, <1>5, <2>1 DEF ReadingFacts
  <1>9. /\ Symbol(pattern, p) = "*" /\ Symbol(pattern, p + 1) # "*"
        /\ Symbol(value, v) = "/" <=> v < l /\ value[v + 1] = "/"
    <2>1. Symbol(pattern, p) = pattern[p + 1]
      BY Symbols
    <2>2. ~(Symbol(pattern, p) = "*" /\ Symbol(pattern, p + 1) = "*")
      BY Symbols
    <2>3. Symbol(value, v) = "/" <=> v < l /\ value[v + 1] = "/"
      BY Symbols
    <2> QED
      BY <2>1, <2>2, <2>3
  <1>10. \A t : t \in Successors(value, pattern, s) <=> t = t1 \/ (Name /\ t = t2)
    <2>1. Symbol(pattern, p + 0) = "*"
      BY <1>1, <1>9
    <2> QED
      BY <1>2, <1>4, <1>5, <1>6, <1>9, <2>1 DEF Successors
  <1>11. \A w \in 0..l : <<w + 1, p + 1>> \in R <=> Left(w + 1)
    <2> SUFFICES ASSUME NEW w \in 0..l
                 PROVE  <<w + 1, p + 1>> \in R <=> Left(w + 1)
      OBVIOUS
    <2>1. <<w + 1, p + 1>> \in R <=> Tells(value, pattern, R, w + 1, p + 1)
      BY MeaningHere
    <2> QED
      BY <1>2, <2>1 DEF Tells
  <1>12. Left(v + 1) <=> <<v + 1, p + 2>> \in R \/ (Name /\ Left(v + 2))
    <2>1. \A k : k \in (v + 1)..(l + 1) <=> k = v + 1 \/ (v < l /\ k \in (v + 2)..(l + 1))
      BY <1>1
    <2>2. Plain(value, v + 1, v + 1)
      BY <1>1 DEF Plain
    <2>3. ASSUME NEW k \in (v + 2)..(l + 1)
          PROVE  Plain(value, v + 1, k) <=> value[v + 1] # "/" /\ Plain(value, v + 2, k)
      <3>1. \A x : x \in (v + 1)..(k - 1) <=> x = v + 1 \/ x \in (v + 2)..(k - 1)
        BY <1>1
      <3> QED
        BY <3>1 DEF Plain
    <2> QED
      BY <2>1, <2>2, <2>3
  <1>13. <<v + 1, p + 1>> \in R <=> <<v + 1, p + 2>> \in R \/ (Name /\ <<v + 2, p + 1>> \in R)
    <2>1. <<v + 1, p + 1>> \in R <=> Left(v + 1)
      BY <1>11
    <2>2. v < l => (<<v + 2, p + 1>> \in R <=> Left(v + 2))
      <3>1. ASSUME v < l PROVE v + 1 \in 0..l
        BY <1>1, <3>1
      <3> HIDE DEF Left
      <3> QED
        BY <1>2, <1>11, <3>1
    <2> HIDE DEF Left
    <2> QED
      BY <1>12, <2>1, <2>2
  <1>14. Rank(s) < Rank(t1) /\ Rank(s) < Rank(t2)
    BY <1>1, <1>6, <1>7, <1>8
  <1>15. Right(value, pattern, R, s)
    BY <1>6, <1>7, <1>8, <1>10, <1>13, <1>14 DEF Right
  <1> QED
    BY <1>3, <1>15

(* A symbol, or the wildcard for one.                                      *)
LEMMA SymbolRight ==
    ASSUME NEW value, NEW pattern, NEW R, NEW l \in Nat, l = Len(value),
           NEW n \in Nat, n = Len(pattern), Meaning(value, pattern, R),
           NEW v \in 0..l, NEW p \in 0..n, p < n, ~IsDirectories(pattern, p + 1),
           ~IsAnything(pattern, p + 1), pattern[p + 1] # "*"
    PROVE  Right(value, pattern, R, GlobState(v, p, FALSE))
  <1> DEFINE Reads == /\ v < l
                      /\ value[v + 1] = pattern[p + 1] \/ (pattern[p + 1] = "?" /\ value[v + 1] # "/")
  <1>1. v \in Nat /\ p \in Nat /\ p + 1 \in Nat /\ v + 1 \in Nat /\ p <= n /\ v <= l
    OBVIOUS
  <1>2. /\ p + 1 <= n /\ ~(p >= n) /\ (p + 1) + 1 = p + 2
        /\ ~(p + 1 > n) /\ (v + 1) + 1 = v + 2 /\ (v < l <=> v + 1 <= l)
    BY <1>1
  <1>3. PICK s : s = GlobState(v, p, FALSE)
    OBVIOUS
  <1>4. PICK t : t = GlobState(v + 1, p + 1, FALSE)
    OBVIOUS
  <1>5. /\ s.value = v /\ s.pattern = p /\ s.active = FALSE
        /\ Open(value, R, s) <=> <<v + 1, p + 1>> \in R
        /\ ~Matched(value, pattern, s) /\ Rank(s) = 2 * (v + p)
    <2>1. ReadingFacts(value, pattern, R, v, p)
      BY <1>1, OfReading
    <2> QED
      BY <1>2, <1>3, <2>1 DEF ReadingFacts
  <1>6. /\ Proper(value, pattern, t) <=> v < l
        /\ Open(value, R, t) <=> <<v + 2, p + 2>> \in R
        /\ Rank(t) = 2 * (v + 1 + (p + 1))
    <2>1. ReadingFacts(value, pattern, R, v + 1, p + 1)
      BY <1>1, OfReading
    <2> QED
      BY <1>1, <1>2, <1>4, <2>1 DEF ReadingFacts
  <1>7. /\ Symbol(pattern, p) = pattern[p + 1]
        /\ Symbol(value, v) = "/" <=> v < l /\ value[v + 1] = "/"
        /\ v < l => Symbol(value, v) = value[v + 1]
    BY Symbols
  <1>8. \A u : u \in Successors(value, pattern, s) <=> Reads /\ u = t
    <2>1. Symbol(pattern, p + 0) # "*"
      BY <1>1, <1>7
    <2> QED
      BY <1>2, <1>4, <1>5, <1>7, <2>1 DEF Successors
  <1>9. <<v + 1, p + 1>> \in R <=> Reads /\ <<v + 2, p + 2>> \in R
    <2>1. <<v + 1, p + 1>> \in R <=> Tells(value, pattern, R, v + 1, p + 1)
      BY MeaningHere
    <2> QED
      BY <1>2, <2>1 DEF Tells
  <1>10. Rank(s) < Rank(t)
    BY <1>1, <1>5, <1>6
  <1>11. Right(value, pattern, R, s)
    BY <1>5, <1>6, <1>8, <1>9, <1>10 DEF Right
  <1> QED
    BY <1>3, <1>11

(* Every step of the search is right: it leads on, to states from which a  *)
(* match can be found exactly when one can be found from where it starts.  *)
LEMMA StepsRight ==
    ASSUME NEW value, NEW pattern, NEW R, Len(value) \in Nat, Len(pattern) \in Nat,
           Meaning(value, pattern, R), NEW s, Proper(value, pattern, s)
    PROVE  Right(value, pattern, R, s)
  <1>1. PICK l \in Nat : l = Len(value)
    OBVIOUS
  <1>2. PICK n \in Nat : n = Len(pattern)
    OBVIOUS
  <1>3. PICK v, p, a : v = s.value /\ p = s.pattern /\ a = s.active
    OBVIOUS
  <1>4. s \in States /\ v <= l /\ p <= n /\ (a => IsDirectories(pattern, p + 1))
    BY <1>1, <1>2, <1>3 DEF Proper
  <1>5. v \in Nat /\ p \in Nat /\ a \in BOOLEAN /\ s = GlobState(v, p, a)
    BY <1>3, <1>4 DEF States, GlobState
  <1>6. v \in 0..l /\ p \in 0..n
    BY <1>4, <1>5
  <1>7. CASE a = TRUE
    BY <1>1, <1>2, <1>4, <1>5, <1>6, <1>7, ActiveRight
  <1>8. CASE a = FALSE
    <2>1. CASE p = n
      BY <1>1, <1>2, <1>5, <1>6, <1>8, <2>1, EndRight
    <2>2. CASE IsDirectories(pattern, p + 1)
      BY <1>1, <1>2, <1>5, <1>6, <1>8, <2>2, DirectoriesRight
    <2>3. CASE ~IsDirectories(pattern, p + 1) /\ IsAnything(pattern, p + 1)
      BY <1>1, <1>2, <1>5, <1>6, <1>8, <2>3, AnythingRight
    <2>4. CASE /\ p # n /\ ~IsDirectories(pattern, p + 1) /\ ~IsAnything(pattern, p + 1)
               /\ pattern[p + 1] = "*"
      <3>1. p < n
        BY <1>6, <2>4
      <3> QED
        BY <1>1, <1>2, <1>5, <1>6, <1>8, <2>4, <3>1, StarRight
    <2>5. CASE /\ p # n /\ ~IsDirectories(pattern, p + 1) /\ ~IsAnything(pattern, p + 1)
               /\ pattern[p + 1] # "*"
      <3>1. p < n
        BY <1>6, <2>5
      <3> QED
        BY <1>1, <1>2, <1>5, <1>6, <1>8, <2>5, <3>1, SymbolRight
    <2> QED
      BY <2>1, <2>2, <2>3, <2>4, <2>5
  <1> QED
    BY <1>5, <1>7, <1>8

(* The states the search has visited after n rounds.                       *)
LEMMA Rounds ==
    ASSUME NEW value, NEW pattern, Len(value) \in Nat, Len(pattern) \in Nat
    PROVE  \E V : /\ V[0] = {Start}
                  /\ \A n \in Nat : \A t : t \in V[n + 1] <=>
                        \/ t \in V[n]
                        \/ \E s \in V[n] : t \in Successors(value, pattern, s)
                  /\ Visited(value, pattern) = V[2 * (Len(value) + Len(pattern))]
  <1> DEFINE V == CHOOSE U : Grows(value, pattern, U)
  <1>1. Grows(value, pattern, V)
    BY VisitedGrows
  <1>2. Visited(value, pattern) = V[2 * (Len(value) + Len(pattern))]
    BY VisitedIsChosen
  <1> HIDE DEF V
  <1>3. V[0] = {Start}
    BY <1>1 DEF Grows, Start
  <1>4. ASSUME NEW n \in Nat
        PROVE  V[n + 1] = V[n] \cup UNION {Successors(value, pattern, s) : s \in V[n]}
    <2>1. n + 1 \in Nat /\ n + 1 # 0 /\ (n + 1) - 1 = n
      OBVIOUS
    <2> QED
      BY <1>1, <2>1 DEF Grows
  <1>5. ASSUME NEW n \in Nat, NEW t
        PROVE  t \in V[n + 1] <=> \/ t \in V[n]
                                  \/ \E s \in V[n] : t \in Successors(value, pattern, s)
    <2>1. t \in UNION {Successors(value, pattern, s) : s \in V[n]} <=>
              \E s \in V[n] : t \in Successors(value, pattern, s)
      OBVIOUS
    <2> QED
      BY <1>4, <2>1, Zenon
  <1> QED
    BY <1>2, <1>3, <1>5

(* A search that goes up with every round has read everything by then.     *)
LEMMA RoundsEnough ==
    ASSUME NEW l \in Nat, NEW n \in Nat, NEW v \in Nat, NEW p \in Nat, v <= l, p <= n
    PROVE  /\ ~(2 * (l + n) <= 2 * (v + p) + 1 /\ p + 3 <= n)
           /\ 2 * (l + n) <= 2 * (v + p) => v = l /\ p = n
  OBVIOUS

(* The search finds a match exactly when the pattern means the value.      *)
LEMMA SearchIsRight ==
    ASSUME NEW value, Len(value) \in Nat, NEW pattern, Len(pattern) \in Nat, Spelled(pattern)
    PROVE  matchGlob(value, pattern) = Denotes(value, pattern)
  <1>1. PICK R : Meaning(value, pattern, R) /\ Denotes(value, pattern) = (<<1, 1>> \in R)
    BY DenotesMeaning
  <1>2. PICK V : /\ V[0] = {Start}
                 /\ \A n \in Nat : \A t : t \in V[n + 1] <=>
                       \/ t \in V[n]
                       \/ \E s \in V[n] : t \in Successors(value, pattern, s)
                 /\ Visited(value, pattern) = V[2 * (Len(value) + Len(pattern))]
    BY Rounds
  <1>3. PICK l \in Nat : l = Len(value)
    OBVIOUS
  <1>4. PICK n \in Nat : n = Len(pattern)
    OBVIOUS
  <1>5. Proper(value, pattern, Start) /\ (Open(value, R, Start) <=> <<1, 1>> \in R)
    <2>1. ReadingFacts(value, pattern, R, 0, 0)
      BY OfReading
    <2>2. 0 <= Len(value) /\ 0 <= Len(pattern) /\ 0 + 1 = 1
      OBVIOUS
    <2> QED
      BY <2>1, <2>2 DEF ReadingFacts, Start
  <1>6. \A s : Proper(value, pattern, s) =>
           /\ \A t \in Successors(value, pattern, s) : Proper(value, pattern, t) /\ Rank(s) < Rank(t)
           /\ Open(value, R, s) <=> \/ Matched(value, pattern, s)
                                    \/ \E t \in Successors(value, pattern, s) : Open(value, R, t)
    BY <1>1, StepsRight DEF Right
  <1>7. \A s : Proper(value, pattern, s) => Rank(s) \in Nat
    BY DEF Proper, Rank, States
  (* Whatever is visited comes from the start.                             *)
  <1> DEFINE Sound == {k \in Nat : \A s \in V[k] : /\ Proper(value, pattern, s)
                                                   /\ Open(value, R, s) => Open(value, R, Start)}
  <1>8. \A k \in Nat : k \in Sound
    <2>1. 0 \in Sound
      BY <1>2, <1>5
    <2>2. ASSUME NEW k \in Nat, k \in Sound PROVE k + 1 \in Sound
      <3>1. ASSUME NEW t \in V[k + 1]
            PROVE  Proper(value, pattern, t) /\ (Open(value, R, t) => Open(value, R, Start))
        <4>1. CASE t \in V[k]
          BY <2>2, <4>1
        <4>2. CASE \E s \in V[k] : t \in Successors(value, pattern, s)
          BY <1>6, <2>2, <4>2
        <4> QED
          BY <1>2, <3>1, <4>1, <4>2
      <3> QED
        BY <3>1
    <2> HIDE DEF Sound
    <2> QED
      BY <2>1, <2>2, CountingUp
  (* A match that can be found comes nearer with every round.              *)
  <1> DEFINE Near == {k \in Nat : \E s \in V[k] : /\ Proper(value, pattern, s) /\ Open(value, R, s)
                                                  /\ Matched(value, pattern, s) \/ k <= Rank(s)}
  <1>9. ASSUME Open(value, R, Start) PROVE \A k \in Nat : k \in Near
    <2>1. 0 \in Near
      <3>1. Start \in V[0] /\ 0 <= Rank(Start)
        BY <1>2, <1>5, <1>7
      <3> QED
        BY <1>5, <1>9, <3>1
    <2>2. ASSUME NEW k \in Nat, k \in Near PROVE k + 1 \in Near
      <3>1. PICK s \in V[k] : /\ Proper(value, pattern, s) /\ Open(value, R, s)
                              /\ Matched(value, pattern, s) \/ k <= Rank(s)
        BY <2>2
      <3>2. CASE Matched(value, pattern, s)
        <4>1. s \in V[k + 1]
          BY <1>2
        <4> QED
          BY <3>1, <3>2, <4>1
      <3>3. CASE ~Matched(value, pattern, s)
        <4>1. PICK t \in Successors(value, pattern, s) : Open(value, R, t)
          BY <1>6, <3>1, <3>3
        <4>2. Proper(value, pattern, t) /\ Rank(s) < Rank(t) /\ t \in V[k + 1]
          BY <1>2, <1>6, <3>1, <4>1
        <4>3. k + 1 <= Rank(t)
          <5>1. Rank(s) \in Nat /\ Rank(t) \in Nat /\ k <= Rank(s)
            BY <1>7, <3>1, <3>3, <4>2
          <5> QED
            BY <4>2, <5>1
        <4> QED
          BY <4>1, <4>2, <4>3
      <3> QED
        BY <3>2, <3>3
    <2> HIDE DEF Near
    <2> QED
      BY <2>1, <2>2, CountingUp
  <1>10. 2 * (l + n) \in Nat
    OBVIOUS
  <1>11. ASSUME matchGlob(value, pattern) PROVE <<1, 1>> \in R
    <2>1. PICK s \in V[2 * (l + n)] : Matched(value, pattern, s)
      BY <1>2, <1>3, <1>4, <1>11 DEF matchGlob, Matched
    <2>2. Proper(value, pattern, s) /\ (Open(value, R, s) => Open(value, R, Start))
      BY <1>8, <1>10, <2>1
    <2> QED
      BY <1>5, <1>6, <2>1, <2>2
  <1>12. ASSUME <<1, 1>> \in R PROVE matchGlob(value, pattern)
    <2>1. 2 * (l + n) \in Near
      BY <1>5, <1>9, <1>10, <1>12
    <2>2. PICK s \in V[2 * (l + n)] : /\ Proper(value, pattern, s)
                                      /\ Matched(value, pattern, s) \/ 2 * (l + n) <= Rank(s)
      BY <2>1
    <2>3. Matched(value, pattern, s)
      <3>1. SUFFICES ASSUME 2 * (l + n) <= Rank(s) PROVE Matched(value, pattern, s)
        BY <2>2
      <3>2. PICK v \in Nat, p \in Nat : v = s.value /\ p = s.pattern /\ v <= l /\ p <= n
        BY <1>3, <1>4, <2>2 DEF Proper, States
      <3>3. s.active => p + 3 <= n
        BY <1>4, <2>2, <3>2 DEF Proper, IsDirectories
      <3>4. Rank(s) = 2 * (v + p) + (IF s.active THEN 1 ELSE 0)
        BY <3>2 DEF Rank
      <3>5. ASSUME s.active PROVE FALSE
        <4>1. 2 * (l + n) <= 2 * (v + p) + 1 /\ p + 3 <= n
          BY <3>1, <3>3, <3>4, <3>5
        <4> QED
          BY <3>2, <4>1, RoundsEnough
      <3>6. v = l /\ p = n
        <4>1. 2 * (l + n) <= 2 * (v + p)
          BY <3>1, <3>4, <3>5
        <4> QED
          BY <3>2, <4>1, RoundsEnough
      <3> QED
        BY <1>3, <1>4, <3>2, <3>5, <3>6 DEF Matched
    <2> QED
      BY <1>2, <1>3, <1>4, <2>3 DEF matchGlob, Matched
  <1>13. matchGlob(value, pattern) \in BOOLEAN
    BY DEF matchGlob
  <1> QED
    BY <1>1, <1>11, <1>12, <1>13

(* matchNormalizedGlob finds a path in a pattern exactly when the pattern  *)
(* means it, for every path and every pattern.                             *)
THEOREM MatcherFindsMeaning ==
    ASSUME NEW Names, NEW value \in Seq(Names),
           NEW Characters, NEW pattern \in Seq(Characters)
    PROVE  matchGlob(value, pattern) = Denotes(value, pattern)
  <1>1. Len(value) \in Nat /\ Len(pattern) \in Nat
    OBVIOUS
  <1>2. Spelled(pattern)
    BY Wildcards, Zenon DEF Spelled
  <1> QED
    BY <1>1, <1>2, SearchIsRight

-----------------------------------------------------------------------------
(* Patches.                                                                *)

(* What the matcher finds of the patterns of a task.                       *)
Understood ==
    \A p \in Paths \ {<<>>} :
        \A g \in task.allowed \cup task.prohibited
                 \cup defaultProhibitedPaths \cup defaultWriteProhibitedPaths :
            matchGlob(p, g) = Denotes(p, g)

(* The patterns of a task are its own, its policies' and the defaults.     *)
DefaultCharacters ==
    {"*", "/", ".git", ".env", ".pem", ".agent-os", ".github", "package.json"}

LEMMA PatternsAreSequences ==
    ASSUME DecisionInv, task # NoTask
    PROVE  /\ task.allowed \subseteq Seq(STRING) /\ task.prohibited \subseteq Seq(STRING)
           /\ defaultProhibitedPaths \subseteq Seq(DefaultCharacters)
           /\ defaultWriteProhibitedPaths \subseteq Seq(DefaultCharacters)
  <1>1. /\ request.allowed \in SUBSET Seq(STRING) /\ request.prohibited \in SUBSET Seq(STRING)
        /\ \A d \in documents : d.prohibited \in SUBSET Seq(STRING)
    BY DecidedTypes DEF WorkerTask, PolicyDocument
  <1>2. UNION {d.prohibited : d \in documents} \in SUBSET Seq(STRING)
    BY <1>1, Zenon
  <1>3. task = resolveTaskPolicy(Config, request, documents) /\ request \in WorkerTask
    BY DecidedTypes DEF DecisionInv, Decided
  <1>4. LET resolved == resolveTaskPolicy(Config, request, documents)
        IN /\ resolved.allowed = request.allowed
           /\ resolved.prohibited = request.prohibited \cup (UNION {d.prohibited : d \in documents})
    BY <1>3 DEF resolveTaskPolicy, WorkerTask
  <1>5. /\ task.allowed = request.allowed
        /\ task.prohibited = request.prohibited \cup (UNION {d.prohibited : d \in documents})
    BY <1>3, <1>4
  <1>6. task.allowed \subseteq Seq(STRING) /\ task.prohibited \subseteq Seq(STRING)
    BY <1>1, <1>2, <1>5, Zenon
  <1>7. defaultProhibitedPaths \subseteq Seq(DefaultCharacters)
    <2>1. <<".git">> \in Seq(DefaultCharacters)
      BY DEF DefaultCharacters
    <2>2. <<".git", "/", "*", "*">> \in Seq(DefaultCharacters)
      BY DEF DefaultCharacters
    <2>3. <<"*", "*", "/", ".git", "/", "*", "*">> \in Seq(DefaultCharacters)
      BY DEF DefaultCharacters
    <2>4. <<"*", "*", "/", ".env">> \in Seq(DefaultCharacters)
      BY DEF DefaultCharacters
    <2>5. <<"*", "*", "/", "*", ".pem">> \in Seq(DefaultCharacters)
      BY DEF DefaultCharacters
    <2>6. <<".agent-os", "/", "*", "*">> \in Seq(DefaultCharacters)
      BY DEF DefaultCharacters
    <2> QED
      BY <2>1, <2>2, <2>3, <2>4, <2>5, <2>6, Zenon DEF defaultProhibitedPaths
  <1>8. defaultWriteProhibitedPaths \subseteq Seq(DefaultCharacters)
    <2>1. <<".github", "/", "*", "*">> \in Seq(DefaultCharacters)
      BY DEF DefaultCharacters
    <2>2. <<"package.json">> \in Seq(DefaultCharacters)
      BY DEF DefaultCharacters
    <2>3. <<"*", "*", "/", "package.json">> \in Seq(DefaultCharacters)
      BY DEF DefaultCharacters
    <2> QED
      BY <2>1, <2>2, <2>3, Zenon DEF defaultWriteProhibitedPaths
  <1> QED
    BY <1>6, <1>7, <1>8

(* The alphabets of a task and of the defaults need not be the same.       *)
LEMMA PatternsAreUnderstood ==
    ASSUME DecisionInv, task # NoTask
    PROVE  Understood
  <1>1. ASSUME NEW p \in Paths \ {<<>>},
               NEW g \in task.allowed \cup task.prohibited
                         \cup defaultProhibitedPaths \cup defaultWriteProhibitedPaths
        PROVE  matchGlob(p, g) = Denotes(p, g)
    <2>1. p \in Paths
      BY <1>1
    <2>2. p \in Seq(STRING)
      BY <2>1, PathsAssumption, Zenon
    <2>3. \/ g \in task.allowed \/ g \in task.prohibited
          \/ g \in defaultProhibitedPaths \/ g \in defaultWriteProhibitedPaths
      BY <1>1
    <2>4. g \in Seq(STRING) \/ g \in Seq(DefaultCharacters)
      BY <2>3, PatternsAreSequences, Zenon
    <2> QED
      BY <2>2, <2>4, MatcherFindsMeaning, Zenon
  <1> QED
    BY <1>1, Zenon DEF Understood

(* The matcher finds a path in a pattern of a task, its policies or the    *)
(* defaults exactly when the pattern means it (matchNormalizedGlob of      *)
(* src/lib/glob.ts).                                                       *)
THEOREM MatcherFindsWhatIsMeant == Spec => []MatcherAgrees
  <1>1. RoutingInv => MatcherAgrees
    <2> SUFFICES ASSUME RoutingInv, pc = "route" PROVE MatcherAgrees
      BY DEF MatcherAgrees
    <2>1. DecisionInv /\ task # NoTask
      BY DEF RoutingInv, RouteHolds
    <2> QED
      BY <2>1, PatternsAreUnderstood, Zenon DEF Understood, MatcherAgrees
  <1> QED
    BY <1>1, RoutingHolds, PTL

LEMMA PatchOfHolds ==
    ASSUME RoutingInv, task # NoTask,
           NEW f \in PatchOf(task, changed).files
    PROVE  /\ DenotedBy(f, request.allowed)
           /\ ~DenotedBy(f, request.prohibited \cup (UNION {d.prohibited : d \in documents})
                            \cup defaultProhibitedPaths \cup defaultWriteProhibitedPaths)
           /\ scenario.kind[f] \in {"missing", "file"}
           /\ \A d \in documents : d.maxChangedFiles # 0 =>
                 Cardinality(PatchOf(task, changed).files) <= d.maxChangedFiles
  <1>1. DecisionInv /\ changed \subseteq Paths /\ IsFiniteSet(changed)
    BY DEF RoutingInv
  <1>2. /\ PatchOf(task, changed).files = changed /\ f \in changed
        /\ ~(Cardinality(changed) > task.maxChangedFiles)
        /\ assertSafeChangedPath(PathPolicyOf(task), f, scenario.kind[f])
    BY DEF PatchOf
  <1>3. /\ f # <<>> /\ f \in Paths
        /\ \E g \in task.allowed : matchGlob(f, g)
        /\ \A g \in defaultProhibitedPaths \cup task.prohibited \cup defaultWriteProhibitedPaths :
              ~matchGlob(f, g)
        /\ scenario.kind[f] \in {"missing", "file"}
    BY <1>1, <1>2 DEF assertSafeChangedPath, assertWritable, assertAllowed, matchesAnyGlob,
                      InsideRepository, PathPolicyOf
  <1>4. /\ task.allowed = request.allowed /\ request.prohibited \subseteq task.prohibited
        /\ \A d \in documents : d.prohibited \subseteq task.prohibited
    BY <1>1, PermissionsNarrow
  <1>5. Understood
    BY <1>1, PatternsAreUnderstood
  <1>6. \E g \in request.allowed : Denotes(f, g)
    BY <1>3, <1>4, <1>5 DEF Understood
  <1>7. \A g \in defaultProhibitedPaths \cup task.prohibited \cup defaultWriteProhibitedPaths :
            ~Denotes(f, g)
    BY <1>3, <1>5 DEF Understood
  <1>8. \A d \in documents : d.maxChangedFiles # 0 => Cardinality(changed) <= d.maxChangedFiles
    <2> SUFFICES ASSUME NEW d \in documents, d.maxChangedFiles # 0
                 PROVE  Cardinality(changed) <= d.maxChangedFiles
      OBVIOUS
    <2>1. task.maxChangedFiles <= d.maxChangedFiles
      BY <1>1, LimitsNarrow
    <2>2. d.maxChangedFiles \in Nat
      BY DEF RoutingInv, PolicyDocument
    <2>3. Cardinality(changed) \in Nat
      BY <1>1, FS_CardinalityType
    <2>4. task.maxChangedFiles \in Nat
      BY <1>1, DecidedRouting
    <2> QED
      BY <1>2, <2>1, <2>2, <2>3, <2>4
  <1>9. \A g \in request.prohibited \cup (UNION {d.prohibited : d \in documents})
                 \cup defaultProhibitedPaths \cup defaultWriteProhibitedPaths : ~Denotes(f, g)
    <2> SUFFICES ASSUME NEW g \in request.prohibited \cup (UNION {d.prohibited : d \in documents})
                                  \cup defaultProhibitedPaths \cup defaultWriteProhibitedPaths
                 PROVE  ~Denotes(f, g)
      OBVIOUS
    <2>1. UNION {d.prohibited : d \in documents} \subseteq task.prohibited
      BY <1>4
    <2>2. g \in defaultProhibitedPaths \cup task.prohibited \cup defaultWriteProhibitedPaths
      <3>1. CASE g \in request.prohibited
        BY <1>4, <3>1
      <3>2. CASE g \in UNION {d.prohibited : d \in documents}
        BY <2>1, <3>2
      <3>3. CASE g \in defaultProhibitedPaths \cup defaultWriteProhibitedPaths
        BY <3>3
      <3> QED
        BY <3>1, <3>2, <3>3
    <2> QED
      BY <1>7, <2>2
  <1> QED
    BY <1>2, <1>3, <1>6, <1>8, <1>9 DEF DenotedBy

(* For every installation, task, set of policies and behaviour of the      *)
(* tools, no patch has a file that anyone forbids, or more files than      *)
(* anyone allows (PatchOf: collectPatchCandidate, validateChangedPaths).   *)
THEOREM PatchesStayWithinAuthority == Spec => []PatchWithinAuthority
  <1>1. Init => PatchWithinAuthority
    BY DEF Init, PatchWithinAuthority
  <1>2. RoutingInv /\ PatchWithinAuthority /\ [Next]_vars => PatchWithinAuthority'
    <2> SUFFICES ASSUME RoutingInv, PatchWithinAuthority, [Next]_vars
                 PROVE  PatchWithinAuthority'
      OBVIOUS
    <2>1. CASE Delegate
      BY <2>1 DEF Delegate, PatchWithinAuthority
    <2>2. CASE SelectRoute
      <3>1. attempts' = <<>>
        BY <2>2 DEF SelectRoute, RoutingInv
      <3> QED
        BY <3>1 DEF PatchWithinAuthority
    <2>3. CASE Write
      BY <2>3 DEF Write, decision, PatchWithinAuthority
    <2>4. CASE EndAttempt
      <3>1. pc = "attempt" /\ UNCHANGED <<scenario, decision>>
        BY <2>4 DEF EndAttempt
      <3>2. PICK end \in Ends : attempts' = Append(attempts, Ended(end))
        BY <2>4 DEF EndAttempt
      <3>3. Ended(end) \in FinishedAttempt /\ Ended(end).patch = PatchOf(task, changed).files
        BY <3>1, EndedHolds
      <3>4. attempts \in Seq(FinishedAttempt) /\ task # NoTask
        BY <3>1 DEF RoutingInv, AttemptsHold, RouteHolds
      <3>5. PICK n \in Nat : n = Len(attempts)
        BY <3>4
      <3>6. /\ Len(attempts') = n + 1 /\ attempts'[n + 1].patch = PatchOf(task, changed).files
            /\ \A i \in 1..n : attempts'[i] = attempts[i]
        BY <3>2, <3>3, <3>4, <3>5, SeqAppend
      <3>7. ASSUME NEW i \in 1..(n + 1), NEW f \in attempts'[i].patch
            PROVE  /\ DenotedBy(f, request.allowed)
                   /\ ~DenotedBy(f, request.prohibited \cup (UNION {d.prohibited : d \in documents})
                                    \cup defaultProhibitedPaths \cup defaultWriteProhibitedPaths)
                   /\ scenario.kind[f] \in {"missing", "file"}
                   /\ \A d \in documents : d.maxChangedFiles # 0 =>
                         Cardinality(attempts'[i].patch) <= d.maxChangedFiles
        <4>1. CASE i = n + 1
          BY <3>1, <3>4, <3>6, <4>1, PatchOfHolds
        <4>2. CASE i # n + 1
          <5>1. i \in 1..n
            BY <4>2
          <5> QED
            BY <3>5, <3>6, <5>1 DEF PatchWithinAuthority
        <4> QED
          BY <4>1, <4>2
      <3>8. UNCHANGED <<scenario, request, documents, task>>
        BY <3>1 DEF decision
      <3> QED
        BY <3>6, <3>7, <3>8 DEF PatchWithinAuthority
    <2>5. CASE UNCHANGED vars
      BY <2>5 DEF vars, PatchWithinAuthority
    <2> QED
      BY <2>1, <2>2, <2>3, <2>4, <2>5 DEF Next
  <1> QED
    BY <1>1, <1>2, RoutingHolds, PTL DEF Spec

-----------------------------------------------------------------------------
(* What history is worth.                                                  *)

(* For every installation and history: what a worker loses by comparisons  *)
(* is bounded by what is known of the others (rankMetric of                *)
(* src/provider/router.ts).                                                *)
THEOREM ComparisonsAreTrustedByEvidence == Spec => []SparseEvidenceIsWeak
  <1>1. ASSUME RoutingInv, plan # NoPlan,
               NEW w \in Elements(plan.route) \cap DOMAIN evidence.workers
        PROVE  LET candidates == Elements(plan.route) \cap DOMAIN evidence.workers
                   weights    == evidenceWeights(task.routing.strategy)
                   most       == evidenceConfidence(
                       Sum([v \in candidates \ {w} |-> evidence.workers[v].sampleSize]))
               IN MetricAdjustment(w, candidates, evidence.workers, weights) * 20
                      >= -((weights.cost + weights.latency) * most)
    <2>1. RouteHolds /\ DecisionInv
      BY <1>1 DEF RoutingInv
    <2>2. /\ IsFiniteSet(DOMAIN evidence.workers)
          /\ \A v \in DOMAIN evidence.workers : Counted(evidence.workers[v])
      BY <2>1, EvidenceHolds
    <2>3. task.routing.strategy \in Strategies
      BY <2>1, DecidedRouting DEF RouteHolds
    <2> DEFINE candidates == Elements(plan.route) \cap DOMAIN evidence.workers
               weights == evidenceWeights(task.routing.strategy)
               others == candidates \ {w}
               samples == [v \in others |-> evidence.workers[v].sampleSize]
               most == evidenceConfidence(Sum(samples))
               moved == MetricAdjustment(w, candidates, evidence.workers, weights)
    <2>4. IsFiniteSet(others)
      BY <2>2, FS_Subset
    <2>5. samples \in [others -> Nat]
      BY <2>2 DEF Counted
    <2>6. Sum(samples) \in Nat /\ \A v \in others : samples[v] <= Sum(samples)
      <3> HIDE DEF samples, others
      <3> QED
        BY <2>4, <2>5, SumIsAboveEach
    <2>7. PICK m \in Nat : m = most
      BY <2>6, Confidence
    <2>8. \A v \in others : evidenceConfidence(evidence.workers[v].sampleSize) <= m
      <3> SUFFICES ASSUME NEW v \in others
                   PROVE  evidenceConfidence(evidence.workers[v].sampleSize) <= m
        OBVIOUS
      <3>1. samples[v] \in Nat /\ samples[v] = evidence.workers[v].sampleSize
        BY <2>5
      <3> HIDE DEF samples
      <3> QED
        BY <2>6, <2>7, <3>1, Confidence
    <2>9. PICK p \in Nat, c \in Nat, l \in Nat :
              /\ weights.cost = 20 * c /\ weights.cost \div 20 = c
              /\ weights.latency = 20 * l /\ weights.latency \div 20 = l
      BY <2>3, Weights
    <2> HIDE DEF weights
    <2>10. ComparedByAtMost(candidates, evidence.workers, w, m)
      BY <2>2, <2>8 DEF ComparedByAtMost
    <2> HIDE DEF candidates
    <2>11. moved \in Int /\ -((c + l) * m) <= moved
      BY <2>9, <2>10, AdjustmentIsBounded
    <2> HIDE DEF moved
    <2>12. moved * 20 >= -((20 * c + 20 * l) * m)
      <3>1. (20 * c + 20 * l) * m = 20 * ((c + l) * m) /\ (c + l) * m \in Int
        OBVIOUS
      <3> QED
        BY <2>11, <3>1
    <2> HIDE DEF most
    <2>13. moved * 20 >= -((weights.cost + weights.latency) * most)
      BY <2>7, <2>9, <2>12
    <2> QED
      BY <2>13 DEF moved, most, samples, others, candidates, weights
  <1>2. RoutingInv => SparseEvidenceIsWeak
    BY <1>1 DEF SparseEvidenceIsWeak, Routed
  <1> QED
    BY <1>2, RoutingHolds, PTL

(* A worker that always failed scores below one that did everything right  *)
(* and is declared no worse.                                               *)
LEMMA FailureScoresLower ==
    ASSUME DecisionInv, RouteHolds, NEW w \in Candidates, NEW v \in Candidates,
           w \in DOMAIN evidence.workers, v \in DOMAIN evidence.workers,
           evidence.workers[w].sampleSize >= 20,
           evidence.workers[w].successCount = 0,
           evidence.workers[w].evaluationPassCount = 0,
           evidence.workers[v].successCount = evidence.workers[v].sampleSize,
           evidence.workers[v].evaluationPassCount = evidence.workers[v].evaluationCount,
           Declared[w] <= Declared[v]
    PROVE  Scores[w] < Scores[v] /\ v # w
  <1> DEFINE weights == evidenceWeights(task.routing.strategy)
             Moved(x) == MetricAdjustment(x, Candidates, evidence.workers, weights)
             Performed(x) == scorePerformance(evidence.workers[x], weights.performance)
  <1>1. /\ IsFiniteSet(DOMAIN evidence.workers)
        /\ \A x \in DOMAIN evidence.workers : Counted(evidence.workers[x])
    BY EvidenceHolds
  <1>2. task.routing.strategy \in Strategies
    BY DecidedRouting DEF RouteHolds
  <1>3. PICK p \in Nat, c \in Nat, l \in Nat :
            /\ weights.performance \div 20 = p
            /\ weights.cost \div 20 = c /\ weights.latency \div 20 = l
            /\ c + l < p
    BY <1>2, Weights
  <1>4. Scores[w] = Declared[w] + Performed(w) + Moved(w)
        /\ Scores[v] = Declared[v] + Performed(v) + Moved(v)
    BY DEF Scores, applyRoutingEvidence
  <1> HIDE DEF weights
  <1>5. Performed(w) \in Int /\ Performed(w) <= -(p * 20)
    BY <1>1, <1>3, PerformanceIsBounded
  <1>6. PICK m \in Nat : m = evidenceConfidence(evidence.workers[v].sampleSize)
    BY <1>1, Confidence DEF Counted
  <1>7. Performed(v) \in Int /\ p * m <= Performed(v)
    BY <1>1, <1>3, <1>6, PerformanceIsBounded
  <1>8. Moved(w) \in Int /\ Moved(w) <= (c + l) * 20
    <2>1. \A x \in DOMAIN evidence.workers : evidenceConfidence(evidence.workers[x].sampleSize) <= 20
      BY <1>1, Confidence DEF Counted
    <2>2. ComparedByAtMost(Candidates, evidence.workers, w, 20)
      BY <1>1, <2>1 DEF ComparedByAtMost
    <2> QED
      BY <1>3, <2>2, AdjustmentIsBounded
  <1>9. Moved(v) \in Int /\ -((c + l) * m) <= Moved(v)
    <2>1. ComparedByAtMost(Candidates, evidence.workers, v, m)
      BY <1>1, <1>6 DEF ComparedByAtMost
    <2> QED
      BY <1>3, <2>1, AdjustmentIsBounded
  <1>10. Declared[w] \in Int /\ Declared[v] \in Int
    BY RouteInOrder
  <1> HIDE DEF Moved, Performed
  <1>11. Scores[w] < Declared[w]
    BY <1>3, <1>4, <1>5, <1>8, <1>10
  <1>12. Declared[v] <= Scores[v]
    <2>1. PICK k \in Nat : k = c + l /\ k <= p
      BY <1>3
    <2>2. k * m <= p * m /\ k * m \in Int /\ p * m \in Int
      BY <2>1, Products
    <2> QED
      BY <1>4, <1>7, <1>9, <1>10, <2>1, <2>2
  <1>13. Scores[w] \in Int /\ Scores[v] \in Int
    BY RouteInOrder
  <1> QED
    BY <1>10, <1>11, <1>12, <1>13

(* For every installation and history: who failed every time is not tried  *)
(* before one that did everything right and is declared no worse, however  *)
(* fast or cheap the failures were (evidenceWeights, scorePerformance).    *)
THEOREM FailureNeverPays == Spec => []FailureIsNotRewarded
  <1>1. ASSUME RoutingInv, plan # NoPlan,
               NEW i \in 1..Len(plan.route), NEW j \in 1..Len(plan.route),
               NEW w, w = plan.route[i], NEW v, v = plan.route[j],
               {w, v} \subseteq DOMAIN evidence.workers,
               evidence.workers[w].sampleSize >= 20,
               evidence.workers[w].successCount = 0,
               evidence.workers[w].evaluationPassCount = 0,
               evidence.workers[v].successCount = evidence.workers[v].sampleSize,
               evidence.workers[v].evaluationPassCount = evidence.workers[v].evaluationCount,
               DeclaredScore(w) <= DeclaredScore(v),
               w # task.routing.preferred
        PROVE  j < i
    <2>1. RouteHolds /\ DecisionInv
      BY <1>1 DEF RoutingInv
    <2>2. /\ i \in 1..Cardinality(Candidates) /\ j \in 1..Cardinality(Candidates)
          /\ w \in Candidates /\ v \in Candidates
      BY <1>1, <2>1, RouteInOrder
    <2>3. Declared[w] <= Declared[v]
      BY <1>1, <2>2 DEF Declared, DeclaredScore
    <2>4. Scores[w] < Scores[v] /\ v # w
      BY <1>1, <2>1, <2>2, <2>3, FailureScoresLower
    <2>5. Scores[w] \in Int /\ Scores[v] \in Int
      BY <2>1, <2>2, RouteInOrder
    <2>6. comesBefore(Scores, task.routing, v, w)
      BY <1>1, <2>4, <2>5 DEF comesBefore
    <2> QED
      BY <1>1, <2>1, <2>2, <2>6, RouteInOrder
  <1>2. RoutingInv => FailureIsNotRewarded
    BY <1>1 DEF FailureIsNotRewarded, Routed
  <1> QED
    BY <1>2, RoutingHolds, PTL

-----------------------------------------------------------------------------
(* What is recorded of a route.                                            *)

(* No more tasks are read than the limit: all but the oldest of them are   *)
(* newer than it.                                                          *)
LEMMA RecentTasksAreLimited ==
    ASSUME NEW past, IsFiniteSet(DOMAIN past), DOMAIN past \subseteq Nat,
           NEW mode, NEW limit \in Nat
    PROVE  Cardinality(RecentTasks(past, mode, limit)) \in 0..limit
  <1> DEFINE tasks == RecentTasks(past, mode, limit)
             Newer(t) == {u \in DOMAIN past : u > t /\ past[u].mode = mode}
  <1>1. IsFiniteSet(DOMAIN past) /\ DOMAIN past \subseteq Nat
    OBVIOUS
  <1>2. /\ tasks \subseteq DOMAIN past
        /\ \A t \in tasks : past[t].mode = mode /\ Cardinality(Newer(t)) < limit
    BY DEF RecentTasks
  <1>3. IsFiniteSet(tasks) /\ Cardinality(tasks) \in Nat
    BY <1>1, <1>2, FS_Subset, FS_CardinalityType
  <1> HIDE DEF tasks
  <1>4. CASE tasks = {}
    BY <1>4, FS_EmptySet DEF tasks
  <1>5. CASE tasks # {}
    <2>1. PICK oldest \in tasks : \A t \in tasks : oldest <= t
      BY <1>1, <1>2, <1>5, StrictestIsLeast
    <2>2. tasks \ {oldest} \subseteq Newer(oldest)
      <3> SUFFICES ASSUME NEW t \in tasks \ {oldest} PROVE t \in Newer(oldest)
        OBVIOUS
      <3>1. t \in Nat /\ oldest \in Nat /\ t \in DOMAIN past
        BY <1>1, <1>2, <2>1
      <3>2. t > oldest
        BY <2>1, <3>1
      <3> QED
        BY <1>2, <3>1, <3>2
    <2>3. IsFiniteSet(Newer(oldest))
      BY <1>1, FS_Subset
    <2>4. /\ Cardinality(tasks \ {oldest}) <= Cardinality(Newer(oldest))
          /\ Cardinality(Newer(oldest)) \in Nat
      <3> HIDE DEF Newer
      <3> QED
        BY <2>2, <2>3, FS_Subset, FS_CardinalityType
    <2>5. Cardinality(tasks \ {oldest}) = Cardinality(tasks) - 1
      BY <1>3, <2>1, FS_RemoveElement
    <2>6. Cardinality(Newer(oldest)) < limit
      BY <1>2, <2>1
    <2> HIDE DEF Newer
    <2>7. Cardinality(tasks) \in 0..limit
      BY <1>3, <2>4, <2>5, <2>6
    <2> QED
      BY <2>7 DEF tasks
  <1> QED
    BY <1>4, <1>5

LEMMA DisjointUnion ==
    ASSUME NEW A, NEW B, IsFiniteSet(A), IsFiniteSet(B), A \cap B = {}
    PROVE  /\ Cardinality(A) \in Nat /\ Cardinality(B) \in Nat
           /\ Cardinality(A \cup B) = Cardinality(A) + Cardinality(B)
  <1>1. Cardinality(A) \in Nat /\ Cardinality(B) \in Nat
    BY FS_CardinalityType
  <1>2. Cardinality(A \cap B) = 0
    BY FS_EmptySet
  <1>3. Cardinality(A \cup B) = Cardinality(A) + Cardinality(B) - Cardinality(A \cap B)
    BY FS_Union
  <1> QED
    BY <1>1, <1>2, <1>3

(* The attempts of different workers are different places.                 *)
LEMMA SamplesAreDisjoint ==
    ASSUME NEW past, IsFiniteSet(DOMAIN past), NEW mode, NEW limit,
           NEW W, IsFiniteSet(W), NEW f, DOMAIN f = W,
           \A w \in W : f[w] = Cardinality(PlacesOf(past, mode, limit, w))
    PROVE  Sum(f) \in Nat /\ Sum(f) <= Cardinality(Places(past, mode, limit))
  <1> DEFINE all == Places(past, mode, limit)
             Group(s) == {x \in all : past[x[1]].attempts[x[2]].worker \in s}
             P == {sk \in (SUBSET W) \X Nat : sk[2] = Cardinality(Group(sk[1]))}
  <1>1. IsFiniteSet(all) /\ Cardinality(all) \in Nat
    BY PlacesAreFinite
  <1>2. \A s : IsFiniteSet(Group(s)) /\ Cardinality(Group(s)) \in Nat
               /\ Cardinality(Group(s)) <= Cardinality(all)
    BY <1>1, FS_Subset, FS_CardinalityType
  <1>3. <<{}, 0>> \in P
    <2>1. Group({}) = {}
      OBVIOUS
    <2> HIDE DEF Group
    <2>2. Cardinality(Group({})) = 0
      BY <2>1, FS_EmptySet
    <2> QED
      BY <2>2
  <1>4. ASSUME NEW s, NEW k, NEW w \in W \ s, s \subseteq W, <<s, k>> \in P
        PROVE  <<s \cup {w}, f[w] + k>> \in P
    <2> DEFINE own == PlacesOf(past, mode, limit, w)
    <2>1. /\ Group(s \cup {w}) = own \cup Group(s)
          /\ own \cap Group(s) = {}
          /\ own = Group({w})
      BY <1>4 DEF PlacesOf
    <2> HIDE DEF Group, own
    <2>2. k \in Nat /\ k = Cardinality(Group(s))
      BY <1>4
    <2>3. f[w] = Cardinality(own) /\ f[w] \in Nat /\ IsFiniteSet(own)
      <3>1. f[w] = Cardinality(own)
        BY <1>4 DEF own
      <3> QED
        BY <1>2, <2>1, <3>1
    <2>4. IsFiniteSet(Group(s))
      BY <1>2
    <2>5. Cardinality(own \cup Group(s)) = Cardinality(own) + Cardinality(Group(s))
      <3>1. PICK A, B : A = own /\ B = Group(s)
        OBVIOUS
      <3>2. IsFiniteSet(A) /\ IsFiniteSet(B) /\ A \cap B = {}
        BY <2>1, <2>3, <2>4, <3>1
      <3>3. Cardinality(A \cup B) = Cardinality(A) + Cardinality(B)
        BY <3>2, DisjointUnion
      <3> QED
        BY <3>1, <3>3
    <2>6. Cardinality(Group(s \cup {w})) = f[w] + k
      <3>1. Group(s \cup {w}) = own \cup Group(s)
        BY <2>1
      <3>2. Cardinality(Group(s \cup {w})) = Cardinality(own \cup Group(s))
        BY <3>1
      <3>3. Cardinality(own) = f[w] /\ Cardinality(Group(s)) = k
        BY <2>2, <2>3
      <3> QED
        BY <2>5, <3>2, <3>3
    <2>7. s \cup {w} \in SUBSET W /\ f[w] + k \in Nat
      BY <1>4, <2>2, <2>3
    <2> QED
      BY <2>6, <2>7
  <1> HIDE DEF P
  <1>5. <<W, Sum(f)>> \in P
    BY <1>3, <1>4, SumInduction
  <1>6. Sum(f) \in Nat /\ Sum(f) = Cardinality(Group(W))
    BY <1>5 DEF P
  <1> HIDE DEF Group
  <1> QED
    BY <1>2, <1>6

(* A worker's evidence counts its attempts in the tasks that were read.    *)
LEMMA SamplesAreCounted ==
    ASSUME RouteHolds
    PROVE  \E h \in Seq(FinishedTask) :
              /\ evidence = collectEvidence(Fleet, h, task.mode, Config.evidenceTasks)
              /\ \A w \in DOMAIN evidence.workers : Counted(evidence.workers[w])
              /\ CountsPlaces(evidence, h, task.mode, Config.evidenceTasks)
  <1>1. PICK h \in Seq(FinishedTask) :
            evidence = collectEvidence(Fleet, h, task.mode, Config.evidenceTasks)
    BY DEF RouteHolds
  <1>2. \A e : e = collectEvidence(Fleet, h, task.mode, Config.evidenceTasks) =>
              /\ \A w \in DOMAIN e.workers : Counted(e.workers[w])
              /\ CountsPlaces(e, h, task.mode, Config.evidenceTasks)
    BY EvidenceCounts
  <1> QED
    BY <1>1, <1>2

(* The store takes the evidence that a route was chosen with.              *)
LEMMA EvidenceIsRecordable ==
    ASSUME DecisionInv, RouteHolds
    PROVE  isRoutingEvidenceSnapshot(evidence, Config.evidenceTasks)
  <1>1. PICK h : /\ h \in Seq(FinishedTask)
                 /\ evidence = collectEvidence(Fleet, h, task.mode, Config.evidenceTasks)
                 /\ \A w \in DOMAIN evidence.workers : Counted(evidence.workers[w])
                 /\ CountsPlaces(evidence, h, task.mode, Config.evidenceTasks)
    BY SamplesAreCounted
  <1>2. PICK limit \in 0..100 : limit = Config.evidenceTasks
    BY Installed DEF Configuration
  <1>3. PICK all : all = Places(h, task.mode, limit)
    OBVIOUS
  <1>4. evidence.tasks = Cardinality(RecentTasks(h, task.mode, limit))
    BY <1>1, <1>2, EvidenceOfWorkers
  <1>5. evidence.tasks \in 0..limit
    <2>1. limit \in Nat
      BY <1>2
    <2>2. IsFiniteSet(DOMAIN h) /\ DOMAIN h \subseteq Nat
      BY <1>1, SequencesAreFinite
    <2> QED
      BY <1>4, <2>1, <2>2, RecentTasksAreLimited
  <1>6. /\ IsFiniteSet(all) /\ Cardinality(all) \in Nat
        /\ Cardinality(all) <= evidence.tasks * 8
    <2>1. IsFiniteSet(DOMAIN h)
      BY <1>1, SequencesAreFinite
    <2> QED
      BY <1>3, <1>4, <2>1, PlacesAreFinite
  <1>7. PICK W : W = DOMAIN evidence.workers
    OBVIOUS
  <1>8. IsFiniteSet(W) /\ Cardinality(W) <= 64
    <2>1. IsFiniteSet(W) /\ W \subseteq DOMAIN Fleet
      BY <1>7, EvidenceHolds
    <2>2. /\ Cardinality(W) <= Cardinality(DOMAIN Fleet) /\ Cardinality(DOMAIN Fleet) <= 64
          /\ IsFiniteSet(DOMAIN Fleet)
      BY <2>1, Installed, FS_Subset
    <2>3. Cardinality(W) \in Nat /\ Cardinality(DOMAIN Fleet) \in Nat
      BY <2>1, <2>2, FS_CardinalityType
    <2> QED
      BY <2>1, <2>2, <2>3
  <1>9. \A w \in W : /\ Counted(evidence.workers[w])
                     /\ evidence.workers[w].sampleSize
                            = Cardinality(PlacesOf(h, task.mode, limit, w))
    BY <1>1, <1>2, <1>7 DEF CountsPlaces
  <1>10. ASSUME NEW w \in W PROVE isWorkerRoutingEvidence(evidence.workers[w])
    <2>1. PlacesOf(h, task.mode, limit, w) \subseteq all
      BY <1>3 DEF PlacesOf
    <2>2. Cardinality(PlacesOf(h, task.mode, limit, w)) <= Cardinality(all)
      BY <1>6, <2>1, FS_Subset
    <2>3. PICK e : e = evidence.workers[w]
      OBVIOUS
    <2>4. Counted(e) /\ e.sampleSize <= Cardinality(all)
      BY <1>9, <2>2, <2>3
    <2>5. e.sampleSize \in 1..800
      <3>1. e.sampleSize \in Nat \ {0}
        BY <2>4 DEF Counted
      <3>2. PICK k \in Nat \ {0} : k = e.sampleSize
        BY <3>1
      <3>3. PICK t \in Nat : t = evidence.tasks /\ t <= 100
        BY <1>2, <1>5
      <3>4. PICK a \in Nat : a = Cardinality(all)
        BY <1>6
      <3>5. k <= a /\ a <= t * 8
        BY <1>6, <2>4, <3>2, <3>3, <3>4
      <3>6. k <= 800
        BY <3>3, <3>5
      <3> QED
        BY <3>2, <3>6
    <2>6. {e.successCount, e.evaluationCount, e.costSampleCount} \subseteq 0..e.sampleSize
      BY <2>4 DEF Counted
    <2>7. e.evaluationPassCount \in 0..e.evaluationCount /\ (e.costSampleCount = 0 <=> e.averageCost = 0)
      BY <2>4 DEF Counted
    <2>8. isWorkerRoutingEvidence(e)
      BY <2>5, <2>6, <2>7 DEF isWorkerRoutingEvidence
    <2> QED
      BY <2>3, <2>8
  <1>11. Sum([w \in W |-> evidence.workers[w].sampleSize]) <= 8 * evidence.tasks
    <2> DEFINE f == [w \in W |-> evidence.workers[w].sampleSize]
    <2>1. DOMAIN f = W /\ \A w \in W : f[w] = Cardinality(PlacesOf(h, task.mode, limit, w))
      BY <1>9
    <2> HIDE DEF f
    <2>2. Sum(f) \in Nat /\ Sum(f) <= Cardinality(all)
      <3>1. IsFiniteSet(DOMAIN h)
        BY <1>1, SequencesAreFinite
      <3> QED
        BY <1>3, <1>8, <2>1, <3>1, SamplesAreDisjoint
    <2>3. Sum(f) <= 8 * evidence.tasks
      BY <1>2, <1>5, <1>6, <2>2
    <2> QED
      BY <2>3 DEF f
  <1> QED
    BY <1>2, <1>5, <1>7, <1>8, <1>10, <1>11 DEF isRoutingEvidenceSnapshot

(* For every installation and history: the journal takes the route that    *)
(* was chosen, and the store the routing of every attempt's report         *)
(* (routeWorkers and collect against isRouteSelectedData and               *)
(* isOptionalRoutingMetadata, which bound a route on their own).           *)
THEOREM RoutesAreRecordable == Spec => []RouteIsRecordable
  <1>1. ASSUME RoutingInv, pc = "attempt"
        PROVE  /\ ValidRoute([route |-> plan.route, maxAttempts |-> plan.maxAttempts])
               /\ isOptionalRoutingMetadata(plan, evidence, Config.evidenceTasks, attempts,
                                            Attempting)
    <2>1. RouteHolds /\ AttemptsHold /\ DecisionInv
      BY <1>1 DEF RoutingInv
    <2> DEFINE n == Cardinality(Candidates)
    <2>2. /\ n \in 1..64 /\ n = Len(plan.route) /\ IsFiniteSet(Candidates)
          /\ plan.route \in [1..n -> Candidates]
          /\ \A w \in Candidates : \E i \in 1..n : plan.route[i] = w
          /\ \A i, j \in 1..n :
                i < j <=> comesBefore(Scores, task.routing, plan.route[i], plan.route[j])
      BY <2>1, RouteInOrder
    <2>3. plan.maxAttempts \in 1..8 /\ plan.maxAttempts <= n
      BY <2>1, <2>2, RouteIsBounded
    <2>4. {plan.route[i] : i \in 1..n} = Candidates
      BY <2>2
    <2>5. Cardinality({plan.route[i] : i \in 1..n}) = n
      BY <2>4
    <2> HIDE DEF n
    <2>6. \A i, j \in 1..n : plan.route[i] = plan.route[j] => i = j
      <3> SUFFICES ASSUME NEW i \in 1..n, NEW j \in 1..n, plan.route[i] = plan.route[j]
                   PROVE  i = j
        OBVIOUS
      <3>1. ~comesBefore(Scores, task.routing, plan.route[i], plan.route[j])
            /\ ~comesBefore(Scores, task.routing, plan.route[j], plan.route[i])
        BY DEF comesBefore
      <3> QED
        BY <2>2, <3>1
    <2>7. PICK m \in Nat : m = Len(attempts) /\ m < plan.maxAttempts
      BY <1>1, <2>1 DEF AttemptsHold
    <2>8. \A i \in 1..m : attempts[i].worker = plan.route[i]
      BY <2>1, <2>7 DEF AttemptsHold
    <2>9. plan.route[m + 1] = Attempting
      BY <2>7 DEF Attempting
    <2>10. ValidRoute([route |-> plan.route, maxAttempts |-> plan.maxAttempts])
      <3> DEFINE e == [route |-> plan.route, maxAttempts |-> plan.maxAttempts]
      <3>1. e.route = plan.route /\ e.maxAttempts = plan.maxAttempts
        OBVIOUS
      <3>2. Len(<<>>) = 0
        OBVIOUS
      <3> HIDE DEF e
      <3>3. e.route # <<>> /\ Len(e.route) <= 64
        <4>1. Len(e.route) = n /\ n \in 1..64
          BY <2>2, <3>1
        <4>2. PICK k \in 1..64 : k = n
          BY <4>1
        <4>3. k # 0 /\ k <= 64
          OBVIOUS
        <4>4. ASSUME e.route = <<>> PROVE FALSE
          <5>1. Len(e.route) = 0
            BY <4>4, <3>2
          <5> QED
            BY <4>1, <4>2, <4>3, <5>1
        <4> QED
          BY <4>1, <4>2, <4>3, <4>4
      <3>4. ValidRoute(e)
        BY <2>2, <2>3, <2>6, <3>1, <3>3 DEF ValidRoute
      <3> QED
        BY <3>4 DEF e
    <2>11. isRoutingEvidenceSnapshot(evidence, Config.evidenceTasks)
      BY <2>1, EvidenceIsRecordable
    <2>12. m + 1 <= plan.maxAttempts
      BY <2>3, <2>7
    <2>13. isOptionalRoutingMetadata(plan, evidence, Config.evidenceTasks, attempts, Attempting)
      BY <2>2, <2>3, <2>5, <2>7, <2>8, <2>9, <2>11, <2>12 DEF isOptionalRoutingMetadata
    <2> QED
      BY <2>10, <2>13
  <1>2. RoutingInv => RouteIsRecordable
    BY <1>1 DEF RouteIsRecordable
  <1> QED
    BY <1>2, RoutingHolds, PTL
=============================================================================
