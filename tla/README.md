# Agent Harness OS in TLA+

Agent Harness OS delegates coding tasks to AI workers in isolated Git
worktrees. An MCP client calls its tools; a *workflow* chains delegations
(plan, implement, test, review, repair) into a durable process that ends in a
human approval. This directory holds a TLA+ model of it, TLC configurations
that check the model on small instances, and theorems that the TLA+ proof
system checks for every instance. Paths below are relative to the repository
(`src/workflow/service.ts` is the file `src/src/workflow/service.ts` of
`PROJECT.json`).

## Contents

1. The system and its parts
2. The modules
3. The modules and the code
4. What the runs check
5. What is proved
6. What the model says about the code
7. What is not modelled
8. What could come next

## 1. The system and its parts

The system is one server process per MCP client; several may run on one host
(or on several, with shared storage) and meet only in the file system. All
durable state is files under an artifact root: journals of events, one file an
event, published by a helper process.

| part | state | operations | meets |
| --- | --- | --- | --- |
| workflow event model (`workflow/event-model.ts`, `transitions.ts`) | none; a projection is a function of the journal | validate and project an event; pick the next stage | used by journal and service |
| workflow journal (`workflow/journal.ts`) | the event files of a workflow | create, append, load, list | secure I/O |
| workflow lease (`workflow/lease.ts`) | one claim file an attempt | acquire, release | secure I/O; the event directory, which it reconciles |
| workflow service (`workflow/service.ts`) | `activeWorkflows` in memory | create, run, approve, cancel, get, list | lease, journal, worker service |
| workflow provenance (`workflow/provenance.ts`) | none | compares stored runs and reports with a workflow's journal | artifact store |
| secure artifact I/O (`artifacts/secure-io.ts`, `secure-fs-helper.ts`) | none; one helper process a write | exclusive and replacing publication, bounded reads, removal | every store |
| task event model and journal (`artifacts/task-*.ts`) | the event files of a task | create, append, load, list | secure I/O; worker service |
| artifact store (`artifacts/store.ts`) | runs, reports, patches | write, read, list, find | secure I/O; worker service |
| worker service (`worker/service.ts`) | `activeRepositories`, the semaphore | delegate, apply and reject a candidate, validate it, read reports | almost everything below |
| semaphore (`lib/semaphore.ts`) | free permits, queue | use | worker service |
| repository lock (`lib/repository-lock.ts`) | one lock file a repository | acquire, release | worker service |
| agent loop, tools, commands (`worker/*.ts`) | messages and counts of a run | a model turn, a tool call, a command | provider, worktree |
| provider registry, router, evidence, adapters (`provider/*.ts`) | none (configuration, past events) | choose workers, call a model | worker service |
| policy (`policy/engine.ts`, `security/*.ts`) | none | merge policies, check paths and commands | worker service, tools |
| evaluation (`evaluation/*.ts`) | none | judge a run | worker service |
| observability (`observability/service.ts`) | none | aggregate journals | journals |
| MCP server (`mcp/*.ts`) | requests in flight | call a tool, cancel a request | all services |
| git (`git/*.ts`) | worktrees, branches | resolve, add, remove, diff, apply | worker service |
| configuration, CLI, helpers | none | parse, format, log, redact | all |

What is hard in it, and what makes each part correct:

- **Workflow event model.** Retries, repairs and starts are counted by three
  different events. Correct when no journal it accepts overruns a budget,
  changes the candidate outside a completed writing stage, completes without
  approval of the current candidate, or starts before its dependencies.
- **Workflow service.** Two processes may run, approve and cancel one workflow;
  each step awaits; a crash may fall between any two events; a cancel waits for
  another call. Correct when one worker at a time runs for a workflow, a call
  that gets the lease settles the workflow, an aborted call publishes only the
  end, every call returns, and a resumption finds what a crash left.
- **Lease and publication.** A helper outlives its parent; claims and events may
  be half written, staged only, linked twice or complete. Correct when there is one
  holder, an event of a dead holder appears before the next holder reads the
  journal or never, what a dead process wrote to its end shuts nobody out, and
  what it did not is never taken for a stale claim.
- **Semaphore.** A signal may fire between release and the abort listener.
  Correct when permits are conserved and no waiter is forgotten or overtaken.
- **Repository lock.** A contender judges a lock and later renames it. Correct
  when two processes never hold a repository.
- **Task events, task journal, worker service.** A delegation falls back from
  one worker to the next and writes an event at each step; a patch application
  is requested and later completed. Service, event model and store each decide
  on their own what may follow. Correct when the service never asks for an
  event or a report the others refuse, a run that is returned is the one its
  task's history selects and stays so, only such a run is applied, the history
  of an application is true, no late result becomes applicable, and worktrees
  and lease are given back.
- **Agent loop, commands.** A provider may never answer; a container may outlive
  the command that started it. Correct when the deadline ends the loop and a
  worktree that something may still write to is kept and its patch thrown away.
- **Policy, paths.** A task, two documents, a configuration and lists of patterns
  limit the same things. Correct when nobody's limit is ever widened and a
  patch holds only what the patterns mean to allow, through whatever links the
  tools were led.
- **Router, evidence.** Correct when history changes the order of the eligible
  workers only, failing fast is not rewarded, a little evidence weighs little,
  and the attempts made are the ones everybody allowed.
- **Evaluation.** Pure. Correct when any failure fails the aggregate and what it
  says can be recorded.

## 2. The modules

| module | what it is |
| --- | --- |
| `WorkflowEvents` | definitions, projection, the event model's rules; no state |
| `WorkflowService` | EXTENDS it: calls, journal, lease, crashes, cancellation, deadline |
| `WorkflowLifecycle` | abstract: the phases a workflow promises |
| `WorkflowProofs` | theorems about `WorkflowService`: types, the lease, approvals |
| `WorkflowJournalProofs` | EXTENDS it: the order of stages, the lifecycle, budgets, what a call and the journal know of each other |
| `PublishedFile` | a file that a helper stages, links and acknowledges; no state |
| `WorkflowLease` | EXTENDS it: claims, reclamation, reconciliation, append |
| `ExclusiveJournal` | abstract: an exclusive lease on a journal, which is what `WorkflowService` takes for granted |
| `WorkflowLeaseProofs` | theorems about `WorkflowLease` |
| `Semaphore`, `SemaphoreProofs` | the semaphore, theorems about it |
| `RepositoryLock`, `RepositoryLockProofs` | the lock file of a repository, theorems about it |
| `Evaluation` | results, the deterministic evaluator, the aggregate and its gate; no state |
| `TaskEvents` | EXTENDS it: a task's projection and the event model's rules; no state |
| `WorkerService` | EXTENDS it: a delegation with its agent loop, the application of its patch, faults |
| `WorkerProofs` | theorems about `WorkerService`: types, the history of an application |
| `WorkerRunProofs` | EXTENDS it: what a run is worth to those that are given it |
| `PathPolicy` | paths, patterns, the matcher and what patterns mean; no state |
| `TaskPolicy` | EXTENDS it and `TaskEvents`: policy documents, their resolution, the contract of a task, commands; no state |
| `Router` | EXTENDS it: evidence, eligibility, scores, the route; no state |
| `Delegations` | EXTENDS it: one delegation after another, each decided with the history of the last |
| `DelegationsProofs` | theorems about `Delegations` |
| `MCWorkflowService`, `MCRepositoryLock`, `MCWorkerService`, `MCDelegations` | instances for TLC |

How they fit together. `WorkflowService` and `WorkflowLease` meet in
`ExclusiveJournal`: the former has a variable `lease` that one call holds and a
journal only the holder extends; the latter shows that claim files and helpers
give exactly that. `WorkflowService` and `WorkerService` meet in what a delegation
may return: the former assumes a set of outcomes, the latter shows of the
delegations it models that a completed run has its patch (`OutcomesAsAssumed`)
and is linked in its task's history (`ReturnedRunIsLinked`). `WorkerService` and
`Delegations` share the event model: the former carries out a task that was
decided on, with all that may go wrong; the latter decides, with the carrying
out reduced to writes and an end.

## 3. The modules and the code

### WorkflowEvents

`projectWorkflowEvent` replays a journal into a projection. The module keeps
its two halves apart: `EventAllowed` (which event may come next) and
`ProjectEvent` (what it changes); one pair of operators per event type. The
projection has the summary's status, stage, active execution, candidate,
counters and approval flags. A run and the task that holds it are created
together, so `runId` stands for the pair, and 0 for null. Failure codes are
the set of codes the workflow code itself compares or produces; `PROVIDER_ERROR`
stands for the prefix `PROVIDER_`. Timestamps, hashes, reports and routing
observations never influence which event may follow and are left out.

`ValidDefinition` has every limit `validateWorkflowDefinition` states: one to
64 transitions, up to two retries of a stage and none of a repair, up to five
repair attempts, a repair stage exactly when there are attempts, up to sixteen
dependencies, an implement stage always.

### WorkflowService

A call of `run`, `approve` or `cancel` is a small process. Its `pc` stands at the
points where the code awaits something another actor can overtake:

| pc | in the code |
| --- | --- |
| `acquire` | `acquireWorkflowLease` |
| `load` | the first timeline read under the lease |
| `recover` | `recoverPendingTerminal` |
| `dependencies`, `waited` | `checkDependencies` and the exit of a waiting run |
| `loop` | the head of the stage loop |
| `delegate`, `settled` | the worker's delegation and what follows its completion event |
| `validate`, `requested`, `decided` | candidate validation and the approval's two events |
| `append` | a `journal.append` in flight |
| `finalize` | `finalizeInterruptedRun` |
| `await` | a cancel that awaits another call's completion |
| `release`, `unregister`, `returned` | the two `finally` blocks and the result |

`append` is separate from the decision to append, so an abort, the deadline or
a crash can fall between the two. Its `guard` says which signal the append
obeys: none, `appendBeforeDeadline`'s, or the stage's. Only the holder of the
lease publishes, and every contender re-reads the timeline after it acquires;
a step that uses the timeline it read earlier under the same lease may thus
read the variable `summary`. (`WorkerOwnsExecution` would fail if this were
wrong: two publishers overtake each other.)

The environment calls operations, aborts them (`notifications/cancelled`), lets
the deadline pass, settles dependencies, and kills server processes. A killed
process forgets its calls and its `activeWorkflows`; the journal stays; its
lease claim becomes reclaimable. Identities of calls are reused, so a finite
set of calls stands for unboundedly many, up to that many at once.

Here a delegation is external: `Outcomes` is the set of what it may end in, a
report with or without a patch, or an exception with the status
`classifyStageError` gives it. `PossibleOutcome` excludes what the worker service
excludes. Every check of artifacts outside the journal (candidate evidence,
branch evidence) may succeed or fail.

### WorkflowLifecycle

The promise, without calls, budgets or codes: a candidate changes only while
work is done, success needs a review and an approval of the candidate as it
stands, a workflow that was given up can only end, and an end is final.
`ImplementsLifecycle` maps the service's state to it by `Phase`.

### WorkflowLease and PublishedFile

`writeExclusiveRegularFile` starts a helper that opens a file under a staging
name, writes it, waits for the parent's commit, links the final name,
acknowledges and removes the staging name. `PublishedFile` is that: `staging`,
`final`, whether the file is `whole`, and the helper's point; `HelperSteps` are the
moves it may make, also when its parent has died. A helper that is killed, or
fails, while it writes leaves a file that is `HalfWritten`; one whose parent has died
writes to the end and then takes its staging file away. `WorkflowLease` has such a
file for each attempt's claim and one for its event.

| action | in the code |
| --- | --- |
| `StageClaim`, `GrantClaim`, `Claimed` | the claim's publication in `acquireWorkflowLease` |
| `Scan`, `Inspect`, `Inspected` | listing the claims and judging one after the other |
| `ListEvents`, `CleanEvent`, `Cleaned` | `reconcileWorkflowEventPublications` |
| `RemoveStale`, `Reclaimed` | removing the stale claims, the lease is taken |
| `StageEvent`, `GrantEvent`, `Abort`, `EventAnswered` | `journal.append` by the holder |
| `Release` | `release` |
| `ClaimHelper`, `EventHelper`, `ClaimHelperDies`, `EventHelperDies`, `Crash` | helpers and deaths |

Claims are taken as those of processes on one host, so "live" means that the
process exists; a remote claim, live for 24 hours, and a reused process id are
not modelled. A directory listing is one step. Each attempt has a process of its
own and publishes one event; which events there are is `WorkflowService`'s
subject. The claim is written before the `try` of `acquireWorkflowLease`: when its
helper fails, `Claimed` ends the attempt and leaves the claim. A staging claim
without a record fails the attempt that inspects it (`Invalid`), as does a staged
event without its digest in the reconciliation (`CleanEvent`). `author` and `journal`
are history: who took the lease last, and whose event was linked when.

### Semaphore

The firing of a signal (`SignalFires`) and the run of its listener
(`AbortListener`) are two steps, because `release` may run in between; it then
rejects the waiter itself. The loop of `release` runs without an await and is one
step, `Finish`. `granted` is a waiter whose promise is resolved and whose operation
has not begun.

### RepositoryLock

Each file operation is a step: the exclusive open, the record's write, the read
and the stat of a lock that is in the way (they run side by side), the rename
that quarantines it, and the two operations of the release. `old` holds the
attempts whose lock is past the age limit that applies to it: 30 seconds without
a record, 24 hours with the record of another host. `Slow` limits who may get
that old. `robbed` is history: whose file was renamed or unlinked by another.

### Evaluation and TaskEvents

A result is a function from dimensions to statuses, a summary a sequence of
results with the deterministic one first. `classifyValidationCommand` works on
the words of a script's name, which is all the code's pattern looks at.
`DeterministicResult` has a case for each dimension, `GatedCode` is what the
outcome makes of a completed run.

`TaskEvents` is to a task what `WorkflowEvents` is to a workflow: `EventAllowed`
and `ProjectEvent`, with a pair of operators for each of the thirteen types of
event after creation. A patch is the number of its files, a run a number; failure
codes are those the code compares, with one for each group it treats alike.
Events have schema version 7, which every new task gets.

### WorkerService

One task, its journal as a projection, its reports on disk, its worktrees, the
repository and one lease. `call.pc` is where `delegate` stands; each place is a
point where it awaits:

| pc | in the code |
| --- | --- |
| `create`, `route`, `loop`, `worktree`, `start` | the task's creation, `RouteSelected`, the next attempt, its worktree, `WorkerStarted` |
| `turn`, `tools`, `work` | `runAgentLoop` with its observers: a model's turn, its tool calls, `WorkerCompleted` |
| `collect`, `patch` | `collectPatchCandidate`, `PatchProduced` |
| `commands`, `integrity`, `validation` | the required commands, `assertValidationPreservedCandidate`, `ValidationCompleted` |
| `evaluate`, `evaluation` | `evaluateAll`, `EvaluationCompleted` under `publicationSignal` |
| `persist`, `attempt` | `ArtifactStore.persist`, `AttemptCompleted` and the fallback |
| `complete`, `expired` | `TaskCompleted` after a result, or after the deadline |

`Continue`, `Record` and `Throw` are the three ways on from such a place. `Record`
appends an event that the event model allows, unless a signal or a fault stops
it; otherwise the attempt throws, through the `finally` that removes the worktree
(`Release`, `Throw`). That `cleanup` may throw itself, at any end of an attempt, a
committed one included: its error takes the place of the report or the error,
and `delegate` stands at `uncleaned`, with the worktree on disk or not
(`CleanupThrows`). A `create` that throws may leave its directory
(`ThrowUncleaned`). A cleanup that throws does not count as a fault, so that it can
follow one. `Caught`, `Noticed`, `CommandsFailed` and `Judged` are the
`catch` blocks and the classification between them.

`app.pc` is where `applyRun` stands: the request in the journal
(`RequestApplication`), the check of the repository, the approval, `git apply`, the
record of the result or of a rejection. A journal whose run is not linked refuses;
an append that fails leaves the application pending, as the code says.

Environment: `Abort`, `Deadline` (first `late`, then its timer has `fired`), a write
or a helper that fails and a crash (`MaxFaults` of both together), a user who
edits the repository (`Edit`). After a crash the task can be applied but is not
resumed: the code never continues a delegation. An append is one step here;
`WorkflowLease` has its halves.

### PathPolicy, TaskPolicy, Router, Delegations

A path is a sequence of symbols, with pieces of names for letters; `matchGlob`
is the code's search over positions, `Denotes` what a pattern means symbol by
symbol, and `MatcherAgrees` compares them. The lists of defaults are represented by one
pattern of each kind they have. `resolveForWrite`, `assertSafeChangedPath` and the
collection of the patch each look at a different name of a file, which is what
`Delegations` plays with: `scenario.kind` and `scenario.real` say what is at a path
and where it leads.

`TaskPolicy` has documents as `parsePolicyDocument` leaves them: 0 or `NoTier` for
null. `resolveTaskPolicy` and `assertTaskContract` are as in the code, and the
contract is checked before and after the resolution (`Accepted`).

`Router` aggregates the attempts of the newest tasks into evidence, scores the
eligible workers and sorts them. Numbers are exact fractions that are rounded
once, where the code rounds sums of floating-point numbers; weights and
confidence are the code's. `isOptionalRoutingMetadata` is the store's idea of a
route.

`Delegations`: `Delegate` (a task with its policies), `SelectRoute`, `Write` (a tool
that is led somewhere), `EndAttempt` (the patch, the end, and `shouldFallback`). A
write that a policy denies is a violation, one to a path that is none is not
(`isPolicyError`); a violation decides how an attempt ends unless it was cancelled
or timed out, and keeps the code of a loop that had failed before (`Ended`). The
attempts of a finished task join `history`, from which the next route is chosen.

## 4. What the runs check

Every bound is a constant of a cfg or a definition of an MC module. A property
of the lists below is a definition of the module, with its meaning above it.

| run | instance | shows |
| --- | --- | --- |
| `two_processes` | two calls in two processes, `Repairable` (implement with one retry, one repair, three starts), three worker outcomes | `WorkerOwnsExecution`, `CompletedAsApproved`, `ImplementsLifecycle` |
| `budgets` | one call, resumed for ever; every stage but the plan with two retries' and two repairs' worth of budget, and a plan with two dependencies; all nine outcomes; a test stage keeps the candidate | `TypeOK`, `BudgetsAccounted`, `JournalBounded`, `CandidateHasOneSource`, `DependenciesFirst`, `JournalAgrees`, `RunSettles` |
| `shared_process` | two calls in one process; one stage with one retry, and an implementation with a test that may undo it; fair | `EveryCallReturns`, `AbortedPublishesOnlyTheEnd` |
| `lost_cancel` | the first of these without fairness | a counterexample to `CancelSettles` |
| `reverted_candidate` | one call, an implementation and a test | a counterexample to `RunSettles` |
| `lease` | two attempts with their helpers, fair | `OneHolder`, `AnswerIsTrue`, `ImplementsExclusiveJournal`, `DeadLeaseIsReclaimed`, `InvalidFailsClosed` |
| `semaphore` | five callers, two permits, fair | `PermitsConserved`, `NoOvertaking`, `WaitersSettle` |
| `repository_lock` | three attempts on two hosts, two tries each, fair | `DeadLockIsReclaimed` |
| `repository_race` | three attempts on one host, five tries (the code's number), nobody slow | a counterexample to `OneRepositoryHolder` |
| `worker` | an implementation with a fallback, a strict test by two commands, a review with criteria, a plan; three reviews; two turns, two tool calls, one fault, two applications; fair | `TypeOK`, `AsksAllowedEvents`, `ReturnedRunIsLinked`, `AppliedRunPassed`, `HistoryIsTrue`, `LateRunIsNotApplicable`, `WorktreesAreCleaned`, `OutcomesAsAssumed`, `LinkedForGood`, `LeaseIsReleased` |
| `worker_overlap` | one implementation with criteria, an injected evaluator that judges them | a counterexample to `FailedEvaluationIsRecorded` |
| `decisions` | 75 installations: 72 histories, policies, paths, and a history that builds itself | `AuthorityOnlyNarrows`, `LocalRunsAreConsented`, `PatchWithinAuthority`, `MatcherAgrees`, `HistoryOnlyReorders`, `FailureIsNotRewarded`, `SparseEvidenceIsWeak`, `AttemptsAreJustified`, `RouteIsRecordable` |

Why these bounds are enough:

- Calls of a workflow exclude each other but for a cancel and the call it meets,
  so two calls reach every interaction of calls; what a single call does with a
  journal that any number of others have written needs one call that crashes and
  is called again, which is unbounded in all runs. `two_processes` has a start
  more than the retry and less than retry and repair together, so each limit is
  met. In `budgets` the number of journal events is not bounded by the model but
  by the event model itself; `JournalBounded` states the bound. The theorems below
  lift most of these properties to every definition and number of calls.
- In `lease`, an attempt that dies with a helper at work and one that comes after
  it meet in every way; an attempt happens once. The two limits of the code (128
  claims, passes of the reconciliation) are out of the reach of two attempts,
  because at the limits a dead lease is, rightly, not reclaimed; the theorems
  about `OneHolder`, `InvalidFailsClosed` and the refinement hold for every limit and
  any number of attempts. A helper may be killed before it has written its file;
  what that leaves is what `DeadLeaseIsReclaimed` excepts and `InvalidFailsClosed` is
  about.
- `semaphore` has more waiters than permits, with waiters in front, in the middle and
  behind of one that is aborted.
- In `repository_lock`, two tries let the loop end; `DeadLockIsReclaimed` speaks of
  an attempt that has tries left.
- In `worker`, two workers are a fallback; two turns of which the second is the
  last and two tool calls reach the limits of the loop; one fault is enough for
  every place where a write fails or the process dies (a worktree that is not
  removed costs none), and a second application
  may follow one that was lost or rejected. The tasks differ in what their
  mode, commands, candidate and evaluation policy lead to. Most of its
  invariants are theorems for all bounds.
- In `decisions`, a record of past work is one of six (failing fast, succeeding
  dearly, succeeding for nothing, a single success, ends nobody could tell, none),
  so every pair of workers meets every difference that a weight can turn; up to two
  of three policy documents meet in every pair, each field unset in one of them;
  two writes make a patch of two files with a limit of one.

Symmetry (of attempts) is used only in `repository_race`, which has no liveness
property.

Fairness. `WorkflowService`: the steps of each call are weakly fair, since the
event loop runs what is resolved, workers have deadlines and file operations
end; calls, aborts, crashes, and the deadline are not. `WorkflowLease`: the code
of an attempt and its helpers run on; no fairness of `Begin`-like steps, releases or
deaths. `Semaphore`: operations end (a delegation has a deadline), resolved
promises and listeners run. `RepositoryLock`: the steps of an acquisition run on.
`WorkerService`: the steps of the process and of the timer that it set are weakly
fair; a provider's answer is not (`Answer` is no part of `DelegateStep`), nor an
abort, an edit or a crash. That `LeaseIsReleased` holds is thus the deadline's
work.

Deadlock is checked in the workflow service and the semaphore, where a call can
always be made. Lease and lock attempts happen once, a task is delegated once,
and the delegations of a scenario are counted, so those models end.

## 5. What is proved

TLAPS checks every theorem below to its leaves, with SMT, Zenon and LS4. They hold
for every value of the constants that satisfies the named assumptions:

- `WorkflowService`: any calls, processes, definitions and outcomes that satisfy
  `CallAssumption`, `DefinitionAssumption` and `OutcomeAssumption`. The last one is
  what a delegation may end in; its half about reports is `OutcomesAreAsAssumed`
  of the worker, its half about exceptions what `classifyStageError` does.
- `WorkflowLease`, `RepositoryLock`: any attempts and limits.
- `Semaphore`: any finite set of callers and any limit.
- `WorkerService`: any workers, tasks, reviews, faults and applications.
  `TasksAssumption`, `ReviewsAssumption` and `BoundsAssumption` give types;
  `LimitsAssumption` gives the limits that configuration and tool schemas set, without
  which the event model would refuse a long attempt, and that a task's route is
  one the journal takes, which is `RoutesAreRecordable` of the delegations.
- `Delegations`: any configurations, fleets, histories, tasks, sets of policy
  documents, ends, paths and writes. `ScenariosAssumption`, `EndsAssumption` and
  `PathsAssumption` give types and the limit of 64 workers (`routing-evidence.ts`,
  `config.ts`); `IdRankAssumption` says that no two workers have one id.

TLC evaluates each assumption on the instances it checks, and has checked the
inductive invariants there, but for the part of `RoutingInv` that quantifies over
all histories.

**`TypeCorrect`** (`WorkflowProofs`): `TypeOK`. One lemma an event type shows that
`ProjectEvent` of an allowed event is a projection; the rest is one step an action.

**`WorkersOwnTheirExecution`, `CompletionNeedsApproval`** (`WorkflowProofs`). Neither
property is inductive. The first needs `LeaseInv`: a call between acquisition and
release is the one the variable `lease` names, so at most one call can append;
with it, that a delegating call's execution is the active one (`OwnsOK`) is kept by
every step. The second needs `Trail`: the projection's approval flags say what
the tail of the journal is (a pending approval means that the last event
requested it for the current candidate; an approval, that the last two events
requested and granted it), and `UnapprovedOK`: a call that is about to report a
dependency finds no approval, so that nothing is written between an approval
and the completion. Together they are `SafeInv`.

**`DependenciesComeFirst`** (`WorkflowJournalProofs`) adds `OrderInv`: a journal with a
started stage has a positive transition count, and no dependency wait follows one
(`Counts`); a call past its dependency check (`PastCheck`), like a workflow with a
transition, has all dependencies completed (`AllDone`).

**`ServiceImplementsLifecycle`**: the initial state maps to the initial state
and, under the invariants, each event's effect is one abstract action: one lemma
an event type; a step without an event leaves the phase alone.

**`BudgetsAreAccounted`, `JournalIsBounded`, `CandidateComesFromOneRun`,
`ServiceAgreesWithJournal`, `RunsSettle`, `AbortedCallsOnlyEnd`** (`WorkflowJournalProofs`) are
consequences of one invariant, `JournalInv`, whose parts need each other:

- `Budgets`: the counters are what the journal's events add up to, and a repair
  that runs has been budgeted for. `Shape`: status, stage and last event agree.
- `Sources`: an execution is numbered by the start that led to it, so a new
  candidate is the run of no earlier stage, and each candidate's source is a
  single completion.
- `Bounds`: how often each event can occur; with `Budgets` it gives the bound on the
  journal's length, 144 events for the largest definition, where the code allows
  512.
- `Placed`: what a call knows of the journal at each of its points, above all that
  the event it is about to publish is allowed now (`AskOK`). It is kept by the
  steps of other calls since only the lease holder publishes (`LeaseInv`).

`ServiceAgreesWithJournal` and `RunsSettle` assume `~TestsMayRevert`: no test worker undoes
its whole candidate. With `TestsMayRevert` both are false, and the run
`reverted_candidate` shows it (section 6). Everything else holds either way.

The proofs of `Budgets`, `Sources` and `Bounds` count events in a sequence by the
cardinality of a set of positions, with lemmas of their own about what an
appended event adds.

**`LeaseTypeCorrect`**, **`LeaseHasOneHolder`**, **`LeaseImplementsExclusiveJournal`**
(`WorkflowLeaseProofs`). The claim protocol is a bakery without numbers: each
attempt publishes before it looks, so of two attempts past their scan one has the
other still to look at, or has seen it and given up (`SomebodyLooks`). `OneInv` has
also that a live attempt's claim stands until it removes it (`ClaimsStand`), and
that a claim noted as stale is a dead process's (`StaleAreDead`). For the
refinement, `FlightInv` says where an event may still be in flight: an event
whose helper may yet link it belongs to the last author, and if that one is
dead, every attempt past its scan knows its claim, so that it reconciles before
it takes the lease (`Flights`, `Authored`). Every step is then `Take`, a link by the
last author, or leaves holder and journal alone (`Quiet`).

**`HalfWrittenFailsClosed`** (`WorkflowLeaseProofs`) is a theorem about two states, a
scan and any later one. Once a half-written claim lies there, the attempt that
scans has it to look at, and looking ends the attempt (`Barred`, `BarredStays`). Once
the holder of a half-written event has died, the scanning attempt has the
holder's claim to look at, finds it stale, and so must reconcile the events before
it takes the lease, where it fails (`Blocked`, `BlockedStays`, `NothingPending`). That
nothing else takes these files away is `LeftInv`: the owner of a half-written file
is past using it, and of all stale claims noted none is half written
(`SoundFiles`, `Unstarted`, `Validated`, `Known`, `Spent`).

**`AnswersAreTrue`** (`WorkflowLeaseProofs`) needs `AnswerInv`: an attempt answers when its
helper has ended, a helper links only with its parent's commit, and a final file
stays, so what was true of the file at the answer stays true.

**`RepositoryLockTypeCorrect`, `HoldersHaveTheLock`** (`RepositoryLockProofs`). An attempt
reclaims only with a try left (`TriesLeft`), which bounds the tries; one that has
opened its lock file owns the path or was robbed of it (`OwnsPath`), from the
open on and not only when it holds. How one can be robbed is section 6's
subject.

**`SemaphoreTypeCorrect`, `PermitsAreConserved`, `QueueHoldsTheWaiting`,
`PermitsAreUsed`** (`SemaphoreProofs`): the conjunction of the four properties is
inductive; none of the last three is so alone. The queue without one waiter and
behind one waiter have lemmas of their own, and a transfer of a permit one about
cardinalities.

**`NobodyOvertakes`** (`SemaphoreProofs`) follows: a newcomer is granted a permit only when
one is free, and then the queue is empty; `release` grants the first eligible
waiter and settles all it passes over.

**`WorkerTypeCorrect`** (`WorkerProofs`): `TypeOK`, one lemma an event type, an
action, and a helper of the attempt. It needs `CallInv`, what is known at each
place: which attempt of the route is under way (so that there is a worker),
where there is no patch yet, and where the evaluation has been made.

**`RunsStayLinked`, `OnlyPassedRunsAreApplied`, `ApplicationHistoryIsTrue`,
`LateRunsAreNotApplicable`** (`WorkerProofs`). Everything that happens to the
journal is an event its model allows (`NextWrites`), and which types of event
those may be depends on the place of the delegation and of the application.

- A linked run is the last attempt of a task that has ended, and only executions
  change that; they are refused from then on (`EndedTaskIsFinal`).
- A task ends as completed only after an attempt that passed (`Sound`), and an
  application that got past its request, or patched, has a linked report
  (`PassedInv`).
- While an application records, the journal is in the state its place says:
  pending until the approval, approved until the patch is recorded (`HistoryInv`).
  None of the property's conjuncts is inductive without it.
- Before an attempt is committed the task is in progress, and no attempt that
  the loop goes on from was completed (`LateInv`); the commit is refused by the
  signal that made the task late.

**`ReturnedRunsAreLinked`, `OutcomesAreAsAssumed`, `WorktreesGoAway`,
`AskedEventsAreAllowed`** (`WorkerRunProofs`). The first, second and fourth come from
`StoryInv`, which relates the local variables of `executeInWorktree`, place by
place, to the attempt that the journal has open.

- `RunOK`: which statuses, codes, changes and verdicts the local variables can have
  at a place. `Told`: what the journal has of each by then. A failed append leaves
  a gap between the two; `Due` says for which runs there is none: the completed
  ones, those with a verdict, and, as long as nothing failed, the retryable ones.
- `LastKnown`: once the attempt is committed, its report and the journal's last
  attempt tell the same. `TaskTold`: where the task stands between attempts.
- `RequestInv`: an application records only steps of the run it requested.
- `WorktreeInv`: at each place, whose worktree is on disk, with nothing promised of
  the current attempt's once its creation or removal has thrown (`ThrownFacts`); a
  run whose container may still write has no patch in its report.

`AskedEventsAreAllowed` has the hypothesis `ReviewsDisjoint`: injected evaluators judge
dimensions of their own. Without it the theorem is false; that is the finding
`worker_overlap` (section 6), whose evaluator judges a dimension of the
deterministic one.

**`PoliciesOnlyNarrow`, `LocalRunsNeedConsent`** (`DelegationsProofs`). The task is always
its request as the documents in force resolve it, and both kept the contract
(`DecisionInv`). The rest is about `resolveTaskPolicy`: `StrictestIsLeast`
(a set of numbers has a least one, by the well-foundedness of the natural
numbers) gives `MinimumNarrows` and `TierNarrows`, for any set of documents.

**`HistoryNeverDecidesWho`, `AttemptsNeedReasons`, `RoutesAreRecordable`,
`ComparisonsAreTrustedByEvidence`, `FailureNeverPays`** (`DelegationsProofs`). `RoutingInv`
says that evidence and plan are what `collectEvidence` and `routeWorkers` make of
some history (`RouteHolds`), and that the attempts so far are the first workers of
the route, each but the last failed in a way that allows a fallback
(`AttemptsHold`). What that amounts to is pure, and has lemmas in four layers:

- sums over a finite set, which the averages and shares are: `CountingUp` is
  induction for a *set* of natural numbers, from their well-foundedness, so it has
  no operator parameter; `SumIsRecursive` shows with it that the fold behind `Sum`
  is defined, `SumInduction` that what is kept by adding an element holds of the
  sum; `SumBounds`, `SumIsAboveEach`;
- orders: `comesBefore` is a strict total order of the candidates (`OrderIsTotal`), so
  the sorted sequence has each of them once (`RankFollowsOrder`, `SortedInOrder`);
- scores: rounding to an integer, products of weights (`Division`, `RoundBounds`,
  `Products`), what a comparison and the performance can add or take
  (`MetricIsBounded`, `AdjustmentIsBounded`, `PerformanceIsBounded`);
- evidence: it counts attempts (`EvidenceCounts`), of at most `evidenceTasks` tasks
  (`RecentTasksAreLimited`) of at most eight attempts, each of one worker
  (`SamplesAreDisjoint`), so the store's limits on a snapshot are met.

**`MatcherFindsMeaning`, `MatcherFindsWhatIsMeant`** (`DelegationsProofs`): for every path and
every pattern, over any alphabets, `matchGlob` is `Denotes`. Both are recursive, and
so a CHOOSE of a function; the argument is no induction over data.

- That there is a function to choose: `LeastFixpoint` (a monotone step on sets
  leaves one of them as it is) gives the meaning of a pattern as a set of pairs of
  positions (`MeaningExists`), and the rounds of the search (`VisitedGrows`).
  `DenotesMeaning` goes from the function to the set.
- `Right`, one lemma a branch of the matcher (`ActiveRight`, `DirectoriesRight`,
  `AnythingRight`, `StarRight`, `SymbolRight`): from a state of the search what is left of
  the value can be what is left of the pattern (`Open`) exactly when it has
  matched or this holds of a successor, and a successor has a higher `Rank`.
- `SearchIsRight`: so whatever is visited is open only if the start is, and, if
  the start is open, after k rounds there is an open state that has matched or
  has a rank of k (both with `CountingUp`). After twice the lengths of both no
  rank is left (`RoundsEnough`): the rounds of `Visited` are enough.

**`PatchesStayWithinAuthority`** (`DelegationsProofs`): neither the tools nor the links
they are led through get a forbidden file, or one too many, into a patch.
Its case for `EndAttempt` is what the matcher found of the changed files, which is
what the patterns mean by the theorem above (`PatternsAreUnderstood`), and what
`resolveTaskPolicy` made of the patterns of caller and policies.

Every invariant a passing run checks is a theorem. Only model-checked:

- the liveness properties `EveryCallReturns`, `DeadLeaseIsReclaimed`, `WaitersSettle`,
  `DeadLockIsReclaimed` and `LeaseIsReleased`, which need fairness and ENABLED.
- the four properties that are violated, which are no theorems.

No module uses RECURSIVE operators.

Only proved: `NoIdlePermit` and `QueueIsWaiting` of `Semaphore`, `HolderHasTheLock` of
`RepositoryLock`, and the type correctness of `Semaphore`, `WorkflowLease` and
`RepositoryLock`, which hold for every instance and are in no run's list.

## 6. What the model says about the code

Four runs end in a counterexample, because the code does not do what a document,
a comment or a test of the repository says. `PROJECT.json` has the quotations.

- `lost_cancel`: `cancel_workflow` "records cancellation" (docs/workflows.md:88). A
  cancel that meets another call of its process aborts it and waits for it. If
  that call no longer looks at its signal (an approve that fails, a run that is
  leaving), the cancel succeeds and the workflow is open.
- `reverted_candidate`: `run_workflow` "runs or resumes until terminal, dependency
  wait, or approval" (docs/workflows.md:85). A test worker that undoes the candidate
  ends its stage without a patch; `stageResult` asks for an event the event model
  refuses, and `run` fails with the stage left active.
- `repository_race`: the repository lease is "cross-process" (docs/threat-model.md:154).
  A lock that is released between a contender's open and its read counts as
  stale, and the contender renames whatever lock is there by then. Two
  processes hold the repository. `HoldersHaveTheLock` proves that this rename (or
  the unlink in a late release) is the only way to lose a lock.
- `worker_overlap`: embedders "may inject additional evaluators"
  (docs/evaluation.md:17) of which any failure fails the run. If one fails a
  dimension that another leaves unknown, the summary lists it under both, the event
  model wants the two disjoint, and `delegate` throws with the attempt open.

Besides, without a run of their own:

- A missing acknowledgment is "uncertain" and reconciled (comment,
  artifacts/secure-fs-helper.ts:260). That is so for an aborted publication; a helper
  that dies after its link by itself makes the append fail although its event is
  in the journal. `FailedMeansUnpublished` of `WorkflowLease` states the opposite;
  TLC refutes it with two attempts. `ImplementsExclusiveJournal` shows that the
  event is then published by its author before anybody else holds the lease.
- A helper that is killed between the open and the end of its write leaves a staging
  file nothing in the code removes. If it is a claim, nobody gets the workflow's
  lease again: "An invalid or live claim fails closed" (docs/workflows.md:75-76, and
  the test of an invalid lease in test/unit/workflow-lease.test.ts). If it is an
  event, its holder goes on, since reading the timeline passes over staging names;
  the lease is shut when that holder dies without having released it.
  `InvalidFailsClosed` states both; a crash in that moment needs an operator.
- The cleanup of a worktree runs in a `finally`, after the attempt was committed. When
  git cannot be run or the directory not be removed, `delegate` throws instead of
  returning the report: the attempt is in the journal and its report in the store,
  but its task never ends, so nobody can apply it, and no fallback follows. A
  `create` that throws before `git worktree add` has answered leaves its temporary
  directory.
- `PROVIDER_TOOL_CALL_LIMIT` looks like a failure of the provider to
  `isFallbackEligibleCode`, but ends in `_LIMIT` and so is a policy violation
  (`isPolicyCode`): an attempt that ends with it is never tried elsewhere.
- Evidence counts an evaluation that was inconclusive as one that did not pass, so
  a worker with criteria to meet never gets full marks: the deterministic
  evaluator never calls criteria passed. `FailureIsNotRewarded` therefore speaks of
  workers whose evaluations passed.
- A failed append of `PatchProduced` makes a run with a retryable failure that its
  history does not know; a workflow's retry then ends as an integrity failure.
  `ReturnedRunIsLinked` exempts that case.

## 7. What is not modelled

- **Workflow provenance, artifact checks.** They compare stored runs with a
  workflow's journal; a check in `WorkflowService` succeeds or fails freely.
- **Provider adapters.** Translation to and from wire formats; in `WorkerService` a
  provider answers, fails in one of the ways its callers distinguish, or never
  answers.
- **MCP server, protocol and tools.** Parsing and dispatch. Its table of requests in
  flight maps an id to a signal; what an abort does is in the services' models.
- **Observability.** Read-only aggregation of journals.
- **Configuration, CLI, helpers.** Parsing and formatting; of the configuration, what
  a rule reads is a constant or a scenario.
- **In the modelled parts:** contents of events that no rule reads; byte limits and
  decoding; the limit of 10,000 events and 8 MB of a task's journal
  (`artifacts/task-journal.ts`), at which an append fails as it may in `WorkerService`
  for a fault; the ready marker of a workflow or task directory; hosts other than one
  in `WorkflowLease`, and reused process ids; reading, searching and the form of
  tool arguments; how commands and containers are run (their outcomes and a
  container that stays are there); the local backend's processes, which have no
  container that could stay; the candidate of an earlier run, which a task starts
  from, is a number of files, and its checks are `WorkflowService`'s; the work
  limit of the matcher (200,000 states); the counts of patches, latencies of
  providers and tokens in evidence, which no score reads; the limit of 10,000
  tasks in the routing index; rounding of floating-point sums. A helper that
  outlives a crash is in `WorkflowLease`, which has the same publication; after a
  crash in `WorkerService` an event is there or not.

## 8. What could come next

- Remote claims and reused process ids in `WorkflowLease`.
- Several tasks of one repository in `WorkerService`, each the candidate of the next.
