---------------------------- MODULE MCWorkerService ----------------------------
(* Instances of WorkerService for TLC.                                     *)
EXTENDS WorkerService

CONSTANTS w1, w2

MCWorkers == {w1, w2}

Base == [mode |-> "implementation", commands |-> <<>>, criteria |-> FALSE, seed |-> 0,
         policy |-> "default", route |-> <<w1>>, maxAttempts |-> 1, fallback |-> FALSE]

(* npm run unit:tests and biome check.                                     *)
MCCommands ==
    <<classifyValidationCommand("npm", <<<<"run">>, <<"unit", "tests">>>>),
      classifyValidationCommand("biome", <<<<"check">>>>)>>

(* An implementation with a fallback, a strict test of a candidate by two  *)
(* commands, a review of a candidate with criteria, a plan.                *)
MCTasks ==
    {[Base EXCEPT !.route = <<w1, w2>>, !.maxAttempts = 2, !.fallback = TRUE],
     [Base EXCEPT !.mode = "testing", !.commands = MCCommands, !.seed = 1, !.policy = "strict"],
     [Base EXCEPT !.mode = "review", !.criteria = TRUE, !.seed = 1],
     [Base EXCEPT !.mode = "research"]}

(* No evaluator, or a reviewer of the candidate's correctness.             *)
MCReviews == {<<>>} \cup {<<[correctness |-> s]>> : s \in {"failed", "unknown"}}

(* A reviewer that also judges the acceptance criteria.                    *)
MCStrictTask == {[Base EXCEPT !.criteria = TRUE]}
MCOverlap    == {<<[acceptance_criteria |-> s]>> : s \in {"passed", "failed", "unknown"}}
=============================================================================
