----------------------------- MODULE MCDelegations -----------------------------
(***************************************************************************)
(* Installations for TLC: one to look at histories, one at policies and    *)
(* one at paths.                                                           *)
(***************************************************************************)
EXTENDS Delegations, TLC

CONSTANTS w1, w2, w3

MCWorkers == {w1, w2, w3}
MCIdRank  == (w1 :> 1) @@ (w2 :> 2) @@ (w3 :> 3)

(* Paths: a source, a control file, a file in a directory that is a link to*)
(* the control files, a link, a file with two links, one in a directory    *)
(* that is a link to elsewhere, one that is none.                          *)
Source   == <<"src", "/", "a">>
Deep     == <<"src", "/", "infra", "/", "b.pem">>
Control  == <<".github", "/", "ci">>
Linked   == <<"src", "/", "l", "/", "ci">>
Link     == <<"src", "/", "s">>
Hard     == <<"src", "/", "h">>
Away     == <<"src", "/", "away", "/", "a">>
Nowhere  == <<>>
MCPaths  == {Source, Deep, Control, Linked, Link, Hard, Away, Nowhere}

MCKind == [p \in MCPaths |-> CASE p = Link -> "symlink" [] p = Hard -> "hardlink"
                               [] p = Source -> "file" [] OTHER -> "missing"]
MCReal == [p \in MCPaths |-> CASE p = Linked -> Control [] p = Away -> Nowhere [] OTHER -> p]

Anything == <<"*", "*">>
Sources  == <<"src", "/", "*", "*">>
Names    == <<"*", "/", "?">>

-----------------------------------------------------------------------------
AnyWorker ==
    [role |-> "any", capabilities |-> Capabilities, configured |-> TRUE, priority |-> 50,
     costTier |-> 1, latencyTier |-> 1, maxIterations |-> 20]

BaseConfig ==
    [defaultWorker |-> "none", strategy |-> "balanced", maxAttempts |-> 3,
     maxChangedFiles |-> 2, evidenceTasks |-> 100, backend |-> "docker", imageUsable |-> TRUE,
     allowUnsandboxedLocal |-> FALSE, allowedCommands |-> {"npm", "tsc"}]

AnyRouting ==
    [preferred |-> "none", capabilities |-> {}, strategy |-> "balanced", maxCostTier |-> NoTier,
     maxLatencyTier |-> NoTier, allowFallback |-> TRUE, maxAttempts |-> 8]

BaseTask ==
    [mode |-> "implementation", commands |-> {}, allowed |-> {Anything}, prohibited |-> {},
     maxChangedFiles |-> 2, maxIterations |-> 10, timeoutSeconds |-> 60, allowNetwork |-> TRUE,
     routing |-> NoRouting]

NoDocument ==
    [maxChangedFiles |-> 0, maxIterations |-> 0, maxTaskSeconds |-> 0, allowNetwork |-> "unset",
     prohibited |-> {}, capabilities |-> {}, maxCostTier |-> NoTier, maxLatencyTier |-> NoTier,
     allowFallback |-> "unset", maxAttempts |-> 0]

-----------------------------------------------------------------------------
(* Histories: each worker has done a number of tasks, all alike.           *)

Past(worker, status, evaluation, cost, duration) ==
    [worker |-> worker, status |-> status, evaluation |-> evaluation, cost |-> cost,
     duration |-> duration, patch |-> {}, iterations |-> 1, code |-> "none"]
Repeated(attempt, n) == [i \in 1..n |-> [mode |-> "review", attempts |-> <<attempt>>]]

(* Failed at once and for little; succeeded, slowly and dearly; succeeded  *)
(* once, fast and cheaply; an end no evaluation could tell; no history.    *)
Records(worker) ==
    {Repeated(Past(worker, "failed", "failed", 1, 1), 20),
     Repeated(Past(worker, "completed", "passed", 9, 9), 20),
     Repeated(Past(worker, "completed", "passed", 0, 9), 20),
     Repeated(Past(worker, "completed", "passed", 1, 1), 1),
     Repeated(Past(worker, "completed", "inconclusive", 5, 5), 10),
     <<>>}

HistoryScenarios ==
    {[config |-> BaseConfig, past |-> first \o second \o third,
      fleet |-> (w1 :> AnyWorker) @@ (w2 :> AnyWorker) @@
                (w3 :> [AnyWorker EXCEPT !.costTier = 0, !.role = "review"]),
      tasks |-> {[BaseTask EXCEPT !.mode = "review",
                                  !.routing = [AnyRouting EXCEPT !.strategy = s, !.preferred = p]] :
                    s \in Strategies, p \in {"none", w2}},
      policies |-> {{}}, kind |-> MCKind, real |-> MCReal, delegations |-> 1] :
        first \in Records(w1), second \in Records(w2),
        third \in {<<>>, Repeated(Past(w3, "completed", "passed", 1, 1), 1)}}

(* Policies of an organization and a repository over a fleet of three,     *)
(* with local commands.                                                    *)
Documents ==
    {[NoDocument EXCEPT !.allowNetwork = "no", !.maxCostTier = 1, !.maxIterations = 5],
     [NoDocument EXCEPT !.allowNetwork = "yes", !.allowFallback = "no",
                        !.capabilities = {"private"}, !.maxTaskSeconds = 30],
     [NoDocument EXCEPT !.allowFallback = "yes", !.maxAttempts = 2, !.maxCostTier = 2,
                        !.maxLatencyTier = 1, !.maxChangedFiles = 1, !.maxIterations = 50]}

Command(name, args) == [name |-> name, args |-> args]

PolicyScenario ==
    [config |-> [BaseConfig EXCEPT !.backend = "local", !.allowUnsandboxedLocal = TRUE,
                                   !.defaultWorker = w1, !.evidenceTasks = 1],
     past |-> <<>>,
     fleet |-> (w1 :> [AnyWorker EXCEPT !.capabilities = @ \ {"private"}, !.priority = 100]) @@
               (w2 :> [AnyWorker EXCEPT !.costTier = 2, !.role = "implementation", !.maxIterations = 3]) @@
               (w3 :> [AnyWorker EXCEPT !.latencyTier = 0]),
     tasks |-> {[BaseTask EXCEPT !.commands = c, !.routing = r] :
                   c \in {{}, {Command("npm", <<"--flag", "run", "build">>)},
                          {Command("npm", <<"run", "deploy">>)}, {Command("tsc", <<"--global">>)}},
                   r \in {NoRouting, [AnyRouting EXCEPT !.allowFallback = FALSE],
                          [AnyRouting EXCEPT !.preferred = w2, !.strategy = "quality"],
                          [AnyRouting EXCEPT !.maxCostTier = 1, !.strategy = "quality"]}},
     policies |-> {docs \in SUBSET Documents : Cardinality(docs) <= 2},
     kind |-> MCKind, real |-> MCReal, delegations |-> 1]

(* Patterns over the paths.                                                *)
PathScenario ==
    [config |-> BaseConfig, past |-> <<>>, fleet |-> w1 :> AnyWorker,
     tasks |-> {[BaseTask EXCEPT !.allowed = a, !.prohibited = p] :
                   a \in {{Anything}, {Sources}, {Names}},
                   p \in {{}, {<<"*", "*", "/", "a">>}}},
     policies |-> {{}, {[NoDocument EXCEPT !.prohibited = {<<"*", "*", "/", "infra", "/", "*">>},
                                           !.maxChangedFiles = 1]}},
     kind |-> MCKind, real |-> MCReal, delegations |-> 1]

(* Three delegations that build up a history of their own.                 *)
OwnHistoryScenario ==
    [config |-> [BaseConfig EXCEPT !.evidenceTasks = 1, !.defaultWorker = w1], past |-> <<>>,
     fleet |-> (w1 :> AnyWorker) @@ (w2 :> [AnyWorker EXCEPT !.costTier = 0]) @@ (w3 :> AnyWorker),
     tasks |-> {[BaseTask EXCEPT !.mode = m, !.routing = [AnyRouting EXCEPT !.strategy = "cost"]] :
                   m \in {"research", "review"}},
     policies |-> {{}}, kind |-> MCKind, real |-> MCReal, delegations |-> 3]

MCScenarios == HistoryScenarios \cup {PolicyScenario, PathScenario, OwnHistoryScenario}

MCEnds ==
    {[status |-> "completed", code |-> "none", evaluation |-> "passed", cost |-> 2, duration |-> 3],
     [status |-> "failed", code |-> "PROVIDER_FAILURE", evaluation |-> "failed", cost |-> 0,
      duration |-> 1],
     [status |-> "failed", code |-> "VALIDATION_COMMAND_FAILED", evaluation |-> "failed",
      cost |-> 1, duration |-> 1],
     [status |-> "policy_violation", code |-> "PROVIDER_TOOL_CALL_LIMIT",
      evaluation |-> "failed", cost |-> 1, duration |-> 2],
     [status |-> "cancelled", code |-> "WORKER_ABORTED", evaluation |-> "failed", cost |-> 0,
      duration |-> 1]}
=============================================================================
