------------------------------ MODULE TaskPolicy ------------------------------
(***************************************************************************)
(* What a task may do: the policies of the organization and of the         *)
(* repository resolved against the task and the configuration              *)
(* (src/policy/engine.ts), the contract of a task (assertTaskContract in   *)
(* src/worker/service.ts) and the command policy                           *)
(* (src/security/command-policy.ts).                                       *)
(*                                                                         *)
(* A policy document has been parsed: its schema, bounds and file checks   *)
(* only refuse.  0 is a number that is null, NoTier a tier that is.        *)
(***************************************************************************)
EXTENDS TaskEvents, PathPolicy

Capabilities == WorkerModes \cup {"tool-calling", "long-context", "private"}
Strategies   == {"balanced", "cost", "latency", "quality"}

(* low, medium and high cost; fast, standard and slow.                     *)
Tiers  == 0..2
NoTier == 3

(* A permission of a document; only "no" takes something away.             *)
Permissions == {"unset", "yes", "no"}

WorkerRoutingPolicy ==
    [preferred : Workers \cup {"none"}, capabilities : SUBSET Capabilities,
     strategy : Strategies, maxCostTier : Tiers \cup {NoTier},
     maxLatencyTier : Tiers \cup {NoTier}, allowFallback : BOOLEAN, maxAttempts : 1..8]

(* The routing of a task that names none.                                  *)
NoRouting == [preferred |-> "none"]

PolicyDocument ==
    [maxChangedFiles : Nat, maxIterations : Nat, maxTaskSeconds : Nat,
     allowNetwork : Permissions, prohibited : SUBSET Seq(STRING),
     capabilities : SUBSET Capabilities, maxCostTier : Tiers \cup {NoTier},
     maxLatencyTier : Tiers \cup {NoTier}, allowFallback : Permissions, maxAttempts : 0..8]

WorkerCommand == [name : STRING, args : Seq(STRING)]

(* A task as it is asked for; maxChangedFiles is set with its policy.      *)
WorkerTask ==
    [mode : WorkerModes, commands : SUBSET WorkerCommand, allowed : SUBSET Seq(STRING),
     prohibited : SUBSET Seq(STRING), maxChangedFiles : Nat, maxIterations : Nat,
     timeoutSeconds : Nat, allowNetwork : BOOLEAN, routing : WorkerRoutingPolicy \cup {NoRouting}]

Configuration ==
    [defaultWorker : Workers \cup {"none"}, strategy : Strategies, maxAttempts : 1..8,
     maxChangedFiles : Nat, evidenceTasks : 0..100, backend : {"docker", "local"},
     imageUsable : BOOLEAN, allowUnsandboxedLocal : BOOLEAN, allowedCommands : SUBSET STRING]

strictest(values) == CHOOSE n \in values : \A k \in values : n <= k

minimum(own, documents, field) ==
    strictest({own} \cup ({d[field] : d \in documents} \ {0}))

strictestTier(own, documents, field) == strictest({own} \cup {d[field] : d \in documents})

(* Mutant: a document without a word on it allows it.                      *)
permittedByAny(own, documents, field) ==
    own /\ (documents = {} \/ \E d \in documents : d[field] # "no")

permitted(own, documents, field) == own /\ \A d \in documents : d[field] # "no"

defaultRouting(config) ==
    [preferred |-> "none", capabilities |-> {}, strategy |-> config.strategy,
     maxCostTier |-> NoTier, maxLatencyTier |-> NoTier, allowFallback |-> TRUE,
     maxAttempts |-> config.maxAttempts]

effectiveTaskRouting(config, task, documents) ==
    LET own == IF task.routing = NoRouting THEN defaultRouting(config) ELSE task.routing
    IN [own EXCEPT !.capabilities = @ \cup UNION {d.capabilities : d \in documents},
                   !.maxCostTier = strictestTier(@, documents, "maxCostTier"),
                   !.maxLatencyTier = strictestTier(@, documents, "maxLatencyTier"),
                   !.allowFallback = permitted(@, documents, "allowFallback"),
                   !.maxAttempts = minimum(@, documents, "maxAttempts")]

(* The task as it is run; its changed-file limit is the configured one.    *)
resolveTaskPolicy(config, task, documents) ==
    [task EXCEPT
       !.maxChangedFiles = minimum(config.maxChangedFiles, documents, "maxChangedFiles"),
       !.maxIterations = minimum(@, documents, "maxIterations"),
       !.timeoutSeconds = minimum(@, documents, "maxTaskSeconds"),
       !.allowNetwork = permitted(@, documents, "allowNetwork"),
       !.prohibited = @ \cup UNION {d.prohibited : d \in documents},
       !.routing = effectiveTaskRouting(config, task, documents)]

-----------------------------------------------------------------------------
(* Commands.  An argument is a word, a flag, or a flag that changes what   *)
(* is outside the worktree; deploy stands for the scripts that do.         *)

Flags              == {"--", "--flag", "--global"}
ProhibitedFlags    == {"--global"}
ProhibitedScripts  == {"deploy"}
PackageManagers    == {"npm", "pnpm", "yarn", "bun"}
PackageActions(command) ==
    {"run", "test"} \cup IF command = "npm" THEN {"run-script", "t"} ELSE {}

PackageActionAllowed(command) ==
    LET words == {i \in 1..Len(command.args) : command.args[i] \notin Flags}
    IN words = {} \/
       LET first   == strictest(words)
           action  == command.args[first]
           scripts == IF action \in {"test", "t"} THEN {}
                      ELSE {command.args[i] : i \in words \ {first}}
       IN action \in PackageActions(command.name) /\ scripts \cap ProhibitedScripts = {}

assertCommandAllowed(config, command) ==
    /\ command.name \in config.allowedCommands
    /\ Elements(command.args) \cap ProhibitedFlags = {}
    /\ command.name \in PackageManagers => PackageActionAllowed(command)

(* assertTaskContract.                                                     *)
assertTaskContract(config, task) ==
    /\ task.allowed # {}
    /\ task.mode \in {"research", "review"} => task.commands = {}
    /\ \A c \in task.commands : assertCommandAllowed(config, c)
    /\ task.commands # {} /\ config.backend = "docker" => config.imageUsable
    /\ task.commands # {} /\ config.backend = "local" =>
          config.allowUnsandboxedLocal /\ task.allowNetwork
=============================================================================
