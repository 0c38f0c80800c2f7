------------------------------ MODULE Evaluation ------------------------------
(***************************************************************************)
(* The evaluation of a run (src/evaluation/deterministic.ts, schema.ts, and*)
(* evaluateAll and its helpers in src/worker/service.ts): what the         *)
(* deterministic evaluator says of the evidence the harness captured, and  *)
(* how the results of several evaluators become one outcome.               *)
(*                                                                         *)
(* A result gives each of its dimensions a status: it is a function from   *)
(* dimensions to statuses.  A summary is a sequence of results, the        *)
(* deterministic one first.                                                *)
(***************************************************************************)
EXTENDS Naturals, Sequences, FiniteSets

CommandDimensions       == {"tests", "lint", "typecheck"}
DeterministicDimensions == CommandDimensions \cup
    {"worker_execution", "changed_files_scope", "acceptance_criteria", "patch_size",
     "new_warnings", "security_policy_compliance"}
ModelDimensions == {"correctness", "maintainability", "architecture_fit", "test_quality"}
Dimensions      == DeterministicDimensions \cup ModelDimensions

DimensionStatuses  == {"passed", "failed", "unknown", "not_applicable"}
EvaluationOutcomes == {"passed", "failed", "inconclusive"}

Elements(s) == {s[i] : i \in 1..Len(s)}

-----------------------------------------------------------------------------
(* Which dimensions a command is evidence for.  A script name is the       *)
(* sequence of its words: the code looks for a keyword between the         *)
(* separators : _ and -.                                                   *)

HasWords(script, words) ==
    \E i \in 0..(Len(script) - Len(words)) :
        \A j \in 1..Len(words) : script[i + j] = words[j]

ScriptKeywords(dimension) ==
    CASE dimension = "tests"     -> {<<"test">>, <<"tests">>, <<"spec">>, <<"specs">>}
      [] dimension = "lint"      -> {<<"lint">>, <<"eslint">>, <<"stylelint">>}
      [] dimension = "typecheck" ->
            {<<"typecheck">>, <<"type", "check">>, <<"check", "types">>, <<"tsc">>}

(* The script a package manager runs, <<>> when there is none.             *)
PackageScript(command, args) ==
    IF command \notin {"npm", "pnpm", "yarn", "bun"} \/ args = <<>> THEN <<>>
    ELSE IF args[1] = <<"run">> THEN (IF Len(args) > 1 THEN args[2] ELSE <<>>)
    ELSE args[1]

(* A tool that is evidence by its own name.                                *)
DirectCommand(dimension, command, args) ==
    LET first == IF args = <<>> THEN <<>> ELSE args[1]
    IN CASE dimension = "tests" ->
              \/ command \in {"vitest", "jest", "mocha", "pytest"}
              \/ command \in {"cargo", "go", "dotnet"} /\ first = <<"test">>
              \/ command = "node" /\ <<"--test">> \in Elements(args)
         [] dimension = "lint" ->
              \/ command \in {"eslint", "stylelint", "ruff", "golangci-lint"}
              \/ command = "biome" /\ first \in {<<"check">>, <<"lint">>}
         [] dimension = "typecheck" -> command \in {"tsc", "mypy", "pyright"}

classifyValidationCommand(command, args) ==
    {d \in CommandDimensions :
        \/ DirectCommand(d, command, args)
        \/ \E words \in ScriptKeywords(d) : HasWords(PackageScript(command, args), words)}

-----------------------------------------------------------------------------
(* The deterministic evaluator.  An input has the run's status and failure *)
(* code; required, the dimensions each required command counts for;        *)
(* results, whether each command that ran succeeded and whether it warned; *)
(* changed, the number of changed files; violations, "scope" for one about *)
(* changed files and "other"; criteria, the statuses of the acceptance     *)
(* criteria; patch, the size of the patch; warned, whether the run warned. *)

CommandResult == [ok : BOOLEAN, warned : BOOLEAN]

CommandsStatus(dimension, input) ==
    LET matching == {i \in 1..Len(input.required) : dimension \in input.required[i]}
    IN IF matching = {} THEN "not_applicable"
       ELSE IF \E i \in matching : i > Len(input.results) \/ ~input.results[i].ok
            THEN "failed" ELSE "passed"

ChangedFilesStatus(input) ==
    IF input.changed = 0 /\ "scope" \notin input.violations THEN "not_applicable"
    ELSE IF input.changed > input.maxChanged \/ "scope" \in input.violations
         THEN "failed" ELSE "passed"

AcceptanceStatus(criteria) ==
    IF criteria = {} THEN "not_applicable"
    ELSE IF "failed" \in criteria THEN "failed"
    ELSE IF criteria = {"passed"} THEN "passed" ELSE "unknown"

PatchSizeStatus(input) ==
    IF input.failureCode \in {"PATCH_TOO_LARGE", "ARTIFACT_FILE_TOO_LARGE"} THEN "failed"
    ELSE IF input.patch = 0 THEN "not_applicable"
    ELSE IF input.patch <= input.maxPatch THEN "passed" ELSE "failed"

WarningsStatus(input) ==
    IF input.warned \/ \E r \in Elements(input.results) : r.warned THEN "unknown" ELSE "passed"

DeterministicResult(input) ==
    [d \in DeterministicDimensions |->
        CASE d = "worker_execution"    -> IF input.status = "completed" THEN "passed" ELSE "failed"
          [] d \in CommandDimensions   -> CommandsStatus(d, input)
          [] d = "changed_files_scope" -> ChangedFilesStatus(input)
          [] d = "acceptance_criteria" -> AcceptanceStatus(input.criteria)
          [] d = "patch_size"          -> PatchSizeStatus(input)
          [] d = "new_warnings"        -> WarningsStatus(input)
          [] d = "security_policy_compliance" ->
                IF input.violations = {} THEN "passed" ELSE "failed"]

(* buildAcceptanceResults: a criterion is never proved, only refuted.      *)
AcceptanceResults(hasCriteria, results, status) ==
    IF ~hasCriteria THEN {}
    ELSE IF status # "completed" \/ \E r \in Elements(results) : ~r.ok THEN {"failed"}
    ELSE {"unknown"}

-----------------------------------------------------------------------------
(* Results and summaries.                                                  *)

Having(result, status) == {d \in DOMAIN result : result[d] = status}

ResultOutcome(result) ==
    IF Having(result, "failed") # {} THEN "failed"
    ELSE IF Having(result, "unknown") # {} THEN "inconclusive" ELSE "passed"

(* validateEvaluationResult; an evaluator states its outcome itself.       *)
ValidResult(result, outcome) ==
    /\ DOMAIN result \subseteq Dimensions
    /\ Cardinality(DOMAIN result) \in 1..16
    /\ \A d \in DOMAIN result : result[d] \in DimensionStatuses
    /\ outcome = ResultOutcome(result)

Outcome(results) ==
    LET outcomes == {ResultOutcome(results[i]) : i \in 1..Len(results)}
    IN IF "failed" \in outcomes THEN "failed"
       ELSE IF "inconclusive" \in outcomes THEN "inconclusive" ELSE "passed"

(* validateEvaluationSummary, its evaluator ids being distinct.            *)
ValidSummary(results) ==
    /\ Len(results) \in 1..8
    /\ DOMAIN results[1] = DeterministicDimensions
    /\ \A i \in 1..Len(results) : ValidResult(results[i], ResultOutcome(results[i]))

CollectDimensions(results, status) == UNION {Having(r, status) : r \in Elements(results)}

(* Mutant: the profile's evaluation policy is ignored.                     *)
GatedCodeOfOutcome(results, policy) ==
    IF Outcome(results) = "failed" THEN "EVALUATION_FAILED" ELSE "none"

(* The gate: what a completed run becomes of its evaluation.               *)
GatedCode(results, policy) ==
    IF Outcome(results) = "failed" THEN "EVALUATION_FAILED"
    ELSE IF policy = "strict" /\ Outcome(results) = "inconclusive"
         THEN "EVALUATION_INCONCLUSIVE" ELSE "none"
=============================================================================
