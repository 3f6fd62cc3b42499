# A verification project for OpenDev

OpenDev turns a coding job into a merged pull request. A planner agent divides
the job into tasks, writer agents change code in worktrees, reviewer agents
judge it, OpenDev merges approved branches into an integration branch, waits for
CI on a draft pull request, has the whole reviewed ("holistic" review) and
merges. The specifications here are translated from the Go source and say what
must hold of a job whatever agents, GitHub, operators and crashes do.

Paths below are relative to the repository (`internal/...`).

## 1. Inventory

| Component | State it keeps | Operations | Talks to |
|---|---|---|---|
| `pipeline` (store.go, controller.go, operator.go) | jobs: status, plan, tasks, verdicts, CI record, counters; one JSON file | about forty Store and Controller methods; each validates, changes, saves and swaps under one mutex | called by `jobmcp` |
| `jobmcp` outcome.go | none of its own | `HandleOutcome`: applies an agent's answer | pipeline, dispatcher, manager, GitHub |
| `jobmcp` reconcile.go, ci.go | none | `ReconcileJobs`, `ObserveCI`: polls every 30 s | as above, ciobserver |
| `jobmcp` server.go, operator.go | none | the MCP tools: create, retry, reset, re-review, pause, resume, cancel, publish | as above |
| `jobmcp` foundation.go | none | holds planning until the repository has its foundation, then repeats the planner dispatch | dispatcher, repositories |
| `dispatcher` | a record per dispatch: run ID, status, result, applied marker; the tasks it watches | start, launch, watch, apply, Supersede, CancelJob, Reconcile | agentfoundry, outcome handler |
| `dispatchstore` | live records, archive by job | Get, Save, ListUnapplied, ListByJob, ArchiveJob | durable |
| `durable` | files | write temporary, sync, rename, sync directory | file system |
| `locks` | a table of reference-counted mutexes, one per key in use | Lock, RLock, Unlock, RUnlock, cancellation of waiters | stores, repositories, tools |
| `outbox` | notifications and how far their delivery is; one JSON file | Enqueue, Retry, the deliverer's Reconcile and Flush | pipeline (journal of a job), the receiver over HTTP |
| `repositories`, `foundation`, `repositorycatalog` | one record per repository | Ensure, Observe, Retry | GitHub, manager |
| `ciobserver` | none | reduces check runs to passed, failed or pending | GitHub |
| `tools` | worktree files, the approved revision of each | read, search_and_replace, create, with revision tokens | locks; `worktrees` commits under the same lock |
| `manager`, `worktree`, `gitops` | clones, worktrees, branches | create, commit, merge, push | git |
| `references`, `repositoryindex`, `graphiti`, `graphmcp`, `jobui`, `identity`, `limits`, `validation` | search index, presentation | no job state | HTTP, files |
| `cmd/opendev` | none | wiring, the 30 second loop | everything |

How they interact: an agent's answer reaches the dispatcher, whose `apply`
calls `HandleOutcome` and marks the dispatch applied only when it returns nil.
`HandleOutcome`, the polls and the tools take the same per-job lock, read the
job, and then make a *sequence* of durable store calls, git and GitHub effects
and further dispatches. Any of them can fail, and the process can die between
two; what is left is what the next poll or the next application of the same
answer has to start from.

What is hard: handlers interrupted half way and entered again from another
state; answers applied twice, late, or for a run that was superseded; GitHub
changing under a handler (pushes, merges, reruns of checks); operators pausing,
cancelling and retrying at any moment; three feedback loops (writer attempts,
CI repair and planner revisions, holistic remediation) that must end; polls
whose conditions must between them cover every state in which nothing else
would move a job. PROJECT.json lists each hazard at its line.

What makes each component correct:

- **pipeline**: its two plan orders agree; dependencies integrate first; ended
  jobs stay ended; a revision is applied once; an approval is about one head.
- **jobmcp**: owners are dispatched runs; nothing merges unreviewed, untested or
  unapproved; no job is stuck; loops end; pause freezes.
- **dispatcher, dispatchstore**: one agent per task ID; an answer is applied
  until it succeeds and then never again; cancelled runs stay cancelled;
  archived dispatches do not return.
- **durable**: after a crash a file holds its old or its new content, and a
  successful write survives.
- **locks**: writers exclude everybody, a cancelled waiter neither holds nor leaks,
  an entry lives exactly as long as somebody refers to it.
- **outbox**: every journaled transition is heard of by the receiver, under a name no
  other transition gets, even when a crash took one back; an archived job leaves
  nothing unsent.
- **repositories**: ready is recorded only for a foundation that was checked and
  merged; only a checked head is merged; a foundation once opened completes; jobs
  plan after it and not before.
- **tools**: an edit never loses another, replaces the one place its block can mean,
  and is never half in a commit; every call ends.
- **ciobserver**: a function of its input.

## 2. Plan

1. `Pipeline`, `Orchestration` and their proofs (done, described below).
2. `Delivery`, `Dispatch` and `DispatchProofs` (done, described below): start,
   watch, apply, supersede, cancel and archive as they interleave without a
   common lock. `Orchestration` takes a dispatch as one step and an answer as
   applied until it is marked; this module is what justifies it.
3. `Foundation` and `FoundationProofs` (done, described below): concurrent callers
   over one catalog record.
4. `StateDirectory`, `DurableDirectory` and `DurableDirectoryProofs` (done): the write
   protocol of a state file with a failure, a crash or a loss of power at each step
   implements a directory whose saves are atomic; `Outbox` builds on the abstract one.
5. `ReadWriteLock` and `KeyedLock` (done): the counted table of
   mutexes with cancelled waiters implements a read/write lock per key.
6. `Replacement`, `Edits` and `EditsProofs` (done): the file tools over that table.
7. `Outbox` and `OutboxProofs` (done): from the journaled transition to the receiver.
8. Left: `Checks`, the reduction of check runs in `ciobserver`, as a pure function
   against a reference definition.

## 3. The modules

### Pipeline

The record of **one** job and the transitions `internal/pipeline` allows on it.
Jobs do not share state, except the file they are saved in. Variables:

- `job`: the scalar fields of `pipeline.Job`, by their names;
- `plan`: `Plan.Tasks` and `Plan.IntegrationOrder` as sequences of keys;
- `tasks`: the state of each planned key, a function on the keys of `plan.Tasks`.

One action per Store or Controller method, with its name. The method's
validation is the guard; a call that is refused changes nothing and is left to
the caller; an idempotent replay (`ErrPlanExists`, the same run starting the
same work, a verdict already recorded) is the branch with `UNCHANGED`. All these
methods hold the store's mutex and save before they return, so each is one step.

Abstractions of data: a commit of the integration branch is a number, 0 is the
empty SHA; a run ID is the attempt number of its dispatch, 0 is none; a task key
is a record of origin, round and name in place of the string built from them; a
required-check failure is a fingerprint. Review texts, findings and history are
reduced to what is decided on them: which run reported last and how many
identical change requests end the history.

### Orchestration

How `internal/jobmcp` drives a job, on top of `Pipeline`. Added variables:

- `runs`: the dispatch records: an agent is running, has answered, or its answer
  is applied. A dispatch is identified by role, task and attempt, as its task ID is;
- `repo`: head of the integration worktree, branches merged into it, branches
  with commits of their own;
- `pr`: the remote branch and its pull request: head, draft, merged, checks;
- `call`: the handler that holds the job's lock: the next step it takes, the
  task and the run it works for, and how it ends;
- `left`: the budgets below.

A handler is split at each durable or external effect: `DispatchWriter` is the
launch and `OwnWriter` the `StartTaskWork` behind it. Three things can happen
between two such steps: another call of the environment (`Answer`,
`ChecksFinish`, `ForeignPush`, ...), `Abandon` (the next call fails and the error
is returned) and `Restart` (the process dies; `load` normalises the record).
Both leave the run unmarked, so it is applied again from wherever the job now
is. Nothing in the code orders this second application before other handlers,
and the model does not either.

| Code | Actions |
|---|---|
| dispatcher `apply`, `HandleOutcome` | `ApplySettled`, `ApplyFailure`, `ApplyPlan`, `ApplyWriter...`, `ApplyReview`, `ApplyHolistic`, then `Mark` |
| `applyPlan`, `startReadyWriters`, `startWriter` | `DispatchReady`, `OwnReady`, `NoneReady`, `DispatchWriter`, `OwnWriter` |
| `applyWriter`, `startReviewer`, `applyReview` | `Complete`, `DispatchReviewer`, `OwnReviewer`, `DecideReview`, `StopTask` |
| `integrateEligible` | `BeginIntegration`, `MergeTask`, `MergeConflict`, `Integrated`, `IntegrationRefused`, `NoneIntegrable` |
| `startDraftPRCI` | `PushBranch`, `CreatePR`, `SavePullRequest`, `BeginCI`, `DraftRefused` |
| `publishApprovedJob` | `Publish`, `Promote`, `PassGate`, `GateRefused`, `AlreadyMerged`, `MergePR`, `SaveMerge` |
| `applyHolistic` and its retries | `DispatchHolistic`, `OwnHolistic`, `NewHolisticRound`, `Reopen`, `StopJob` |
| CI failure | `RepairCI`, `EscalateCI`, `DispatchPlanner` |
| `reconcileJob`, `observeCIJob` | `Reconcile...`, `NextReviewer`, `ResumePlanner`, `Observe...` |
| the tools | `CreateAndPlan`, `RetryCodeTask`, `RetryCodePlanning`, `ResetHolisticReview`, `StartRereview`, `PublishApproved`, `PauseJob`, `ResumeJob`, `CancelCodeJob` and the steps that follow them |

`ResumePlanner` is the exception to the lock: `create_code_job` and
`ResumeFoundationPlanning` dispatch from a copy of the job, whatever has become
of it. Agents, git, GitHub and AgentFoundry are modelled from the way the code
calls them and are marked external in PROJECT.json's map.

Some definitions are commented `mutant`: a plausible slip in the definition next
to them (a dropped guard, a counter not counted, a result kept too long). They
are not part of any specification. PROJECT.json names, for every property, one
of these that the property catches under its own configuration.

### Delivery

What one dispatch promises to the job that waits for it, in two variables: the
`record` of the dispatch and the `outcome` the job has got. The record goes from
none to asked, running, an answer, closed; a job gets the answer on record, at
most once; a record closes only when nobody waits for its answer; an operator
may supersede an answer and then replaces the dispatch; a cancelled job's record
is void.

### Dispatch

One task ID of `internal/dispatcher` over `internal/dispatchstore`, where
`Orchestration` has one step. Variables: `live` and `archive` (the record in
`dispatch-runs.json` and in the job's archive file), `agents` (AgentFoundry's
runs of the task ID in the order it accepted them), `job` (its status),
`outcome` (as in `Delivery`), `th` (for each thread the step it takes next and
its *copy* of the record), `left`.

Four threads meet at the record. The `caller` is a handler that dispatches, the
`operator` a tool, the `poll` the 30 second loop of `cmd/opendev`, the `watcher`
the goroutine of `watch`. Every store and HTTP call is a step; a lock of the code
is the condition that no other thread is inside (`Nobody`).

| Code | Actions |
|---|---|
| `start`, `launch` | `CallStart`, `Start`, `SaveIntent`, `Lookup`, `ResolveServers`, `Submit`, `SaveRunID`, `Watch` |
| `watch` | `Check`, `Observe`, `SaveAnswer` |
| `apply` | `Apply`, `Handle`, `Mark` |
| the 30 s loop, `Reconcile` | `CallReconcile`, `List`, `Relaunch`, `ReconcileJob` |
| `lazyDispatcher.CancelJob`, `CancelJob` | `CancelList`, `CancelAgain`, `CancelSave` |
| the tools | `CallPause`, `CallResume`, `CallCancel`, `CallRetry`, `Supersede`, `SupersedeSave`, `Replace` |
| `ArchiveJob` | `ArchiveJob`, `ArchiveHalf`, `ArchiveRefused` |
| AgentFoundry | `Finish`, `Forget` |
| errors and crashes | `CallFails`, `ResponseLost`, `Restart` |

The other dispatches of a job appear only as time between the steps of a loop.
A job is active, paused or cancelled; published and failed jobs are refused and
archived as cancelled ones are. The handler is one step, `Handle`: the job takes
the answer, has no use for it, or is paused and returns an error; what a handler
does in detail is `Orchestration`. AgentFoundry keeps a finished run while
somebody polls it (client.go:114 says it forgets it some time later).

### Foundation

`internal/repositories` for one owned repository, its catalog entry, and one job
that waits for it. Variables: `entry` (`Record.Foundation`), `prs` and `checks`
(the foundation pull requests and the required check by commit, on GitHub),
`branch` and `worktree` (head of the foundation branch there and here), `job`
(created, planning, held), `th` (for each call the step it takes next, the record
it works on, and what `reconcileFoundation` has read of the pull request), `left`.

The calls are the MCP tools, any number at once, and the poll. `EnsureFoundation`
has no lock: a call reads the entry once (`Sync`) and saves what it concluded
from that copy after several git and GitHub calls (`Save`).

| Code | Actions |
|---|---|
| `provision_repository`, `migrate_repository_foundation`, `create_code_job`, `start_planning` | `CallProvision`, `CallMigrate`, `CallCreate`, `CallStart`, and behind them `CreateJob`, `MarkFoundationPending`, `StartPlanning` |
| `ReconcilePendingFoundations`, `ResumeFoundationPlanning` | `CallPoll`, `Resume` |
| `EnsureFoundation`, `MigrateFoundation` | `Sync` |
| `beginFoundation`, `CreateFoundationBranch` | `Branch`, `Find`, `CreatePR`, `EnsureRequiredCheck`, `Save` |
| `reconcileFoundation`, `markFoundationReady` | `ReadPR`, `ReadChecks`, `Promote`, `Reread`, `MergePR`, `Confirm`, `Save` |
| errors and crashes | `CallFails`, `PushFails`, `ResponseLost`, `Restart` |
| GitHub and people on it | `ChecksFinish`, `ChecksRerun`, `ForeignPush`, `ForeignEnd` |

Commits and pull requests are numbers, 0 is none. The head of a pull request
follows its branch while it is open. A commit has one result of the required
check; a passed one stays, a failed one may be run again. The foundation versions
are the current one and an earlier one, whose pull request was merged. A call
that waits for GitHub to show a change and gives up is a failed call.

### ReadWriteLock and KeyedLock

`ReadWriteLock` is what `internal/locks` promises: a request for a key asks, holds
or gives up, and nobody holds a key beside a request that wants it alone.
`KeyedLock` is the code: `locks` (`Manager.locks`), `refs` (`lockEntry.refs`), and
for each request the entry it refers to, how far its locking goroutine is with the
mutex of that entry and how far its caller is. A request is one call of `Lock` or
`RLock` with its release. `sync.RWMutex` is modelled by its rules: a waiting writer
keeps new readers out, and the readers it kept out go first when it leaves.

| Code (locks.go) | Actions |
|---|---|
| `acquireLock`, `getOrCreate` | `Ask` |
| the goroutine of `acquireLock` on `rwmu` | `MutexRLock`, `MutexAnnounce`, `MutexLock` |
| `select` | `Acquired`, `Cancel` (either, when both are ready) |
| the goroutine that cleans up after a cancelled caller | `Cleanup`, `Release` |
| `Unlock`, `RUnlock` | `Unlock`, then `Release` |

### Replacement and Edits

`Replacement` is the text side of `search_and_replace`: `Count` (which, as
`strings.Count`, does not count overlapping matches), the scan of Knuth, Morris and
Pratt over lines with their spacing normalized (`Prefix`, `Scan`), and `Edited`, the
texts the code may write. `OnlyMatch` says independently what "the one match" is.

`Edits` composes `KeyedLock` with the file tools on one file of one worktree: every
call locks the worktree (a commit for itself, the others shared) and then the file,
each lock being a request of `KeyedLock`, whose goroutines run as `Background`.
Variables: `file`, `temps` (temporary files in the directory), `tree` (what a commit
staged), `approved` (the revision authorizer), `tokens` (revisions handed out), and
for each call where it is, what it read and how its part went.

| Code | Actions |
|---|---|
| register.go, `search_and_replace` | `Begin`, stage "look": `Read`, `Verify` (`VerifyOrAdopt`); stage "do": `Match`, `Rename`, `Finish` (`Consume`) |
| register.go, `read_file` | `Begin`, `Read`, `Finish` (`Authorize`) |
| `CreateFile` | `Create`, `Fill` |
| `worktree.Coordinate`, the file locks of tools | `Selected`, `LockFile`, `GiveUp`, `LeaveFile`, `LeaveWorktree` |
| the commit of a worktree | `Stage`, `Commit` |
| a context that ends, a process that dies | `EndContext`, `Restart` |

### StateDirectory and DurableDirectory

`StateDirectory` is what saving a state file promises, with a save in one step: what
the process holds (`memory`), what it would read (`now`), and what a machine that
lost its power may come up with (`may`). `DurableDirectory` is the code step by step,
`WriteJSON` and `SyncDirectory` under each store's `saveLocked`: `Write`, `SyncFile`,
`Rename`, `SyncDirectory`, with `Fail`, `ProcessDies` and `PowerFails` between any
two. Assumed of the file system: a rename is atomic, a synced file is whole, and
renames of one directory survive a loss of power in their order.

### Outbox

One job's notifications, in the files of `StateDirectory` (instanced as `Files`).
Variables: `state` (the directory with `jobs.json` and the outbox's file),
`archive` (the directory of archived jobs), `unsent` (the copies of the job whose
handlers have yet to notify), `deliverer`, `archiver`, `receiver`, and
`acknowledged` (the longest journal a save was acknowledged for, history only).

| Code | Actions |
|---|---|
| a handler's save with `recordEvents`, then `Notify` | `Transition`, `FailAgain`, `Notify` (`eventFor`, `Enqueue`) |
| `Deliverer.Start`: its two tickers | `BeginReconcile`, `Reconcile`; `BeginFlush`, `Post`, `Ask`, `Record` |
| `Store.Retry`, the tool over it | `Retry` |
| `archive_code_job` | `BeginArchive`, `ReconcileArchived`, `Archive` (`Store.Archive`) |
| the receiver | `Process`; it knows an event by its ID |
| restarts and losses of power | `Restart` |

The name of an event is the job and its place in the journal, here that place.

### Proof modules

`PipelineProofs` has the lemmas on the record: what each transition preserves.
`OrchestrationProofs` has the inductive invariant and the theorems;
`OrchestrationSafetyProofs` builds on them: where the tasks of a job stand, the plan's
order, owners, revisions, bounded work and the merge gate. `DispatchProofs` has the theorems of
`Dispatch` and that it implements `Delivery`, `FoundationProofs` those of `Foundation`,
`EditsProofs` those of `KeyedLock`, of `Edits` on top of them, and of `Replacement`,
`DurableDirectoryProofs` those of `DurableDirectory`, `OutboxProofs` those of `Outbox`.

## 4. What the runs show

`MCOrchestration` names the proposals and budgets; each .cfg picks answers and
limits. `Budget` bounds what the environment may do beyond its duty: `faults`
(an interrupted handler or a restart), `operator` (tool calls), `foreign` (a
push, merge or rerun on GitHub by somebody else), `conflicts` (merge conflicts).
Attempts, rounds and heads need no other bound: the code's own limits, here 1 or
2 in place of 10, 3 and 2, end the loops. Deadlock is not checked, since a job
that ended stops for good.

| Run | Instance | Properties |
|---|---|---|
| tasks | two tasks, dependent or listed against their integration order, all writer answers, one fault, one operator call and one conflict together | `TypeOK`, `MergedWereApproved`, `PastIntegrationComplete`, `PlanOrderKept` |
| repair | failing CI, remediation, planner revisions (also without an order, or with a dependency integrated late), change requests of task and holistic reviews, repeated ones too, one fault | `OwnersPending`, `PlanWellFormed`, `ResultsBoundToHead`, `RevisionsApplied` |
| operator | two operator calls and one foreign action at any moment, both merge policies, answers that cannot be read | `MergeGate`, `TerminalAbsorbing`, `PausedFrozen`, `BlockedResumable` |
| steady | no faults, no operator: the automatic system | `WriterOwnerPending`, `AutomaticWorkBounded`, `Progress`, `HolisticRoundRuns` |
| dispatch | one task ID, at most two agents, two operator calls, one failed call, lost response, half archive or crash at any step | `TypeOK`, `OneAgentAtATime`, `ArchiveFinal`, `KeepsPromise` (implements `Delivery`), `AskedIsAnswered` |
| foundation | one tool at a time and the poll, two tool calls; one failed call, lost response or crash at any step; one push, merge, close or rerun by somebody else | `TypeOK`, `ReadyWasVerified`, `PlansOnReady`, `MergesOnlyVerified`, `FoundationCompletes`, `HeldJobStarts` |
| edits | two edits, an edit and a read, an edit and a commit, or a create, a read and a commit, of one file or none; one cancelled context, failed write or crash | `TypeOK`, `NoLostEdit`, `CommitSeesNoHalfEdit`, `Exclusion`, `EntriesCounted`, `EditsTheOnlyMatch`, `CallsEnd` |
| outbox | two transitions, an archiving, one retry by the operator; two failed saves or requests, restarts or losses of power | `TypeOK`, `IdentityNamesTransition`, `DeliveredWasDone`, `HistoryKept`, `ArchivedWereEnqueued`, `TransitionNotified` |
| lost_writer, stale_approval, stranded_round, lost_agent | see section 5 | one property each, violated |

`dispatch` and `lost_agent` are runs of `MCDispatch`, `foundation` is one of
`MCFoundation`, `edits` of `MCEdits`, `outbox` of `MCOutbox`, the others of
`MCOrchestration`. `MCEdits` also evaluates, as an assumption, that the scan finds
every match on all texts of up to five lines and blocks of up to three; `ScanFindsEvery`
is the same for all of them.
`ReadWriteLock` and `KeyedLock` are checked inside `Edits`; that one implements the
other, and all of `DurableDirectory`, is proved and needs no run.

Why the bounds suffice: one task shows every transition of a task, two show
order, dependency and listing. Limits of 1 and 2 let every loop be entered,
repeated and stopped. One fault can fall on every step of every handler, and the
recovery from it, replays included, runs to its end. Two operator calls give
pause with cancel, retry with reset, and publication with re-review. The two
budgets that multiply the states most, faults and operator, meet in `tasks` and
`stale_approval`, with fewer kinds of answers; `tasks` checks the properties that
hold under both. `OwnersPending`, `ResultsBoundToHead`, `MergeGate` and
`BlockedResumable` do not (section 5), and `PlanOrderKept` is about a job whose
tasks no operator reopened: a retry of a task without changes makes unfinished what
others were started or integrated on.

In `dispatch`, one task ID is all that the threads of `Dispatch` share; two agents
are enough for a second one to be wrong, and a correct launch never needs the
second unless the first is forgotten. Two operator calls give pause with resume,
cancel with archive, and retry against either; one fault can fall on every call.

In `foundation`, three commits are an earlier foundation, the current one and one
push on top of it; three pull requests an earlier one, one that somebody closed,
and one opened instead. Two tool calls give creation with a start of planning, and
a migration against either. The poll and one tool overlap; any number of tools at
once is what the theorems of section 6 add for the safety properties.

In `edits`, the first edit means its block only up to spacing, where it fits two
overlapping places, and the second one exactly; either may have been computed from an
earlier revision. Three entries are one more than two keys ever need: the third would
be the second one of a key. The sessions pair what meets on the locks in each way
(shared and alone, worktree and file); theorems give the safety properties for any
calls at once. In `outbox`, two transitions are one that a crash takes back or
leaves behind while another is told; two faults are a failed save followed by the
crash that shows it. Names, back-off times and the order of due events by time are
left out: any due event may be posted in any flush, the oldest first.

Three properties are checked where the code keeps them and violated where it
does not: `WriterOwnerPending` and `HolisticRoundRuns` hold without failures and
break with one; `MergeGate` holds under operators and foreign actions and breaks
with an operator call and a failure together.

### Fairness

`FairSpec` assumes what the process does by itself: a handler that started takes
its next step (weak fairness); agents and checks finish; the planner dispatch of
a planning job is repeated; the polls run every 30 seconds
(`cmd/opendev/main.go` 493-526) and an unapplied answer is applied again
(`internal/dispatcher/dispatcher.go` 339-508). Polls and answers need the job's
lock, which another handler may hold each time one of them looks, so their
fairness is strong: among handlers that release the lock every waiter gets it.
It is stated per role of answer and per poll, since each of those loops visits
every job. Nothing obliges an operator, a person on GitHub or a failure to act;
finitely many failures are the budget's doing, not fairness's.

`FairSpec` of `Dispatch` assumes that threads that began run on (weak fairness
only: nothing is assumed of who gets a lock that others want too), that the poll
comes round and that agents come to an end.
Calls, pauses, failures and AgentFoundry's forgetting are not assumed.

`FairSpec` of `Foundation` assumes that calls that began go on, that the poll comes
round, and that the checks of a pull request finish. `NeedsAttention` is what no
call of OpenDev can repair: the pull request on record was closed or its check
failed, or somebody moved the branch before there was a record.

`Fairness` of `Edits` is one weak fairness of the Go scheduler: while a call or a
goroutine of the lock table can go on, one does. Calls are finitely many, so that is
all `CallsEnd` needs. `Fairness` of `Outbox` assumes that the deliverer's goroutine
runs, that its `select` takes each ticker in the end (strong fairness: the other one
may be served each time in between), and that the receiver comes to an end with an
event it took. Nothing is assumed of handlers: a notification that is never sent is
what `Reconcile` is for.

`Progress` says a job ends or comes to a state its operator must act on
(`NeedsOperator`: paused, a blocked task, a manual approval, an answer nobody
can apply).

## 5. Findings

- **lost_writer.** A repeat writer (attempt n+1) is dispatched and the call
  fails before `StartTaskWork`. Its answer finds run n as owner; outcome.go:455
  recognises a dispatch that awaits its owner only when the task has no owner at
  all, so the answer is dropped as superseded. The next poll makes the consumed
  run the owner and the task stays `working`.
- **stale_approval.** `recordHolisticReview` compares the caller's SHA with the
  current head and not with the head the run was started for
  (controller.go:390). A retry of a `no_changes` task during the review and one
  failure before the next round's reset let the old approval publish the new head.
- **stranded_round.** The poll that resumes a round whose CI has passed requires
  a pending verdict (ci.go:42); when the reset that sets it to pending is the
  call that failed, the round is never opened.
- **lost_agent.** `CancelJob` saves the copies it listed. A run listed before its
  launch recorded the run ID is written back without it, cancelled and applied,
  after the launch recorded it (main.go:783 against dispatcher.go:415). Nobody
  looks at that record again: the agent is never told to stop and goes on in the
  worktree of a cancelled job.

No finding, but worth knowing of `Foundation`: a call saves what it made of an older
copy of the record (service.go:181), so one that began before the foundation was
ready can write `pending` or `blocked` over it, and jobs are held again.
`FoundationCompletes` shows that the poll repairs it, and `ReadyVerified` that the
opposite cannot happen: no race records as ready what was not merged.

Four more came out of attempts to prove what the runs had checked; TLC confirmed the
first three on instances with more faults than the listed runs have:

- `MergeGate` can fail without any operator, after two failures and a rerun of the
  checks. A process that dies after the last task integrates leaves its reviewer's
  approval to be applied again; that restarts CI under the holistic review of the head.
  If the checks, run again, now fail, a repair integrates a new head; if its CI passes
  and the process dies before the round is reset, the answer of the old round approves
  the new head. It is `stale_approval` on another way, and the same steps break
  `ResultsBoundToHead`; without the rerun neither can fail (section 6).
- `RoundPending`, a part of `OwnersPending`, can fail after three failures: a holistic
  run launched but not yet owned is settled as nobody's while CI runs again, a crash
  skips the reset, and the next launch finds the settled run and waits for it for ever.
  So `OwnersPending` is proved as long as nothing fails, and only its part
  `ReviewsPending` whatever fails (section 6).
- `RoundsBounded`, a part of `AutomaticWorkBounded`, needs that nothing fails: an approval
  applied again restarts CI and adds a round of holistic review that counts. So the whole
  is proved as long as nothing happens to the job (section 6).
- `RevisionsApplied` needs that no operator has intervened: `retry_code_task` of a task
  without changes sets a job that waits for a revision to `planned`, and a later revision
  takes the next round, so that the one begun stays without tasks.

Other observations, which no run of its own shows:

- GitHub refuses to merge another head than the one named, but somebody may merge that
  head while OpenDev's own call is on its way. `MergeGate` is about what OpenDev merges:
  in that window the merge is the other person's, and OpenDev records it later.
- A task approval applied again after its job went on runs `integrateEligible` to
  its end, restarts CI for the head already under holistic review and discards the
  round that is reviewing it. The round is begun again, so nothing is lost but work.
- An answer of the planner that is no valid plan is refused each time it is applied;
  the job stays `planning` until an operator retries its planning.
- `retry_code_task` of a task at work takes its writer run off the record; when the
  call fails before the dispatch, the poll finds the attempts at their limit and
  blocks the task, and `ResumeBlockedWriter` refuses a blocked task without a writer
  run, although the reason says to resume it with `retry_code_task`. It takes the
  retry and the failure together, so `BlockedResumable` holds in `operator`.
- `ReopenIncompleteTasks` after a holistic change request takes the writer run off a task
  that ended `no_changes`; with its attempts at the limit, `enforceWriterAttemptLimit`
  then blocks it without a writer run, and it cannot be resumed either. TLC shows it, and
  with no failure, when the holistic rounds are as many as the writer attempts. With the
  code's ten attempts and three rounds it takes seven operator retries of that task first,
  or failures that have a change request applied again, each of which reopens the task once
  more in its round (with limits of 2 and 1 TLC needs two). Without either it cannot
  happen: `BlockedCanResume` (section 6).
- A process that dies between an edit's temporary file and the rename leaves
  `.opendev-edit-...` in the worktree, and the next commit (`git add --all`) takes it.
- `strings.Count` does not count overlapping matches, so an exact block that fits two
  overlapping places is edited as if it were unique; `OnlyMatch` allows for that.
- A token "permits exactly one edit" (filesystem.go:108), but an edit whose token names
  the content the file has again is adopted, whatever was done in between.
- A create whose write fails leaves a part of the file, and a second create is refused.
- When the sync of the directory fails the store takes the change back in memory, but
  the file has it already: a restart shows it. `ImplementsDirectory` allows just this.
- The directory of archived jobs is created without a sync of its parent.
- Notifications that are not journaled ("started:revision", cancellations) have one
  constant name: they are lost with a crash before they are enqueued, and a second one
  is dropped as known. `Outbox` is about the journaled ones.
- A failed save of "delivered" posts the event again; the receiver knows it by its ID.

## 6. What is proved

For every planner, every answer set allowed by the assumptions, every limit and
every budget, with any number of tasks:

- `TypeCorrect`: `Spec => []TypeOK`;
- `EndedStays`: `Spec => TerminalAbsorbing`;
- `PauseFreezes`: `Spec => PausedFrozen`;
- `PlansWellFormed`: `Spec => []PlanWellFormed`;
- `NothingUnreviewed`: `Spec => []MergedWereApproved`;
- `WholeBeforeReview`: `Spec => []PastIntegrationComplete`;
- `OrderKept`: `Spec => PlanOrderKept`;
- `OwnersExist`: `Spec => []OwnersDispatched`, a part of `OwnersPending`;
- `ReviewersAwaited`: `Spec => [](Untouched => OwnersDispatched /\ ReviewsPending)`, the
  parts of `OwnersPending` that hold as long as no operator intervened, whatever fails;
- `OwnersAwaited`: `Spec => [](Steady => OwnersPending)` and `WritersAwaited`:
  `Spec => [](Steady => WriterOwnerPending)`, as long as nothing failed either;
- `RevisionsKept`: `Spec => [](left.operator = Budget.operator => RevisionsApplied)`,
  that is, as long as no operator intervened;
- `WorkBounded`: two parts of `AutomaticWorkBounded`, `ReplansBounded` always and
  `WritersBounded` as long as no operator intervened, whatever fails;
- `AutomaticWorkEnds`: `Spec => [](Uneventful => AutomaticWorkBounded)`, all three parts as
  long as nothing fails and neither an operator nor somebody else on GitHub acts;
- `BlockedCanResume`: `Spec => [](FewerRounds /\ Uneventful => BlockedResumable)`, under the
  same condition when fewer holistic rounds are allowed than writer attempts, as in the code;
- `MergesAreReady`: `Spec => [][MergesReady]_vars`, the part of `MergeGate` that holds
  whatever operators and others do;
- `GateHolds`: `Spec /\ []Undisturbed => MergeGate`, that is, as long as no operator
  and nobody else on GitHub acts;
- `ResultsBound`: `Spec => [](Undisturbed => ResultsBoundToHead)`.

Assumptions: `PipelineAssumption` and `OrchestrationAssumption` only (answers are
among those the code parses, limits are numbers, proposals are well-formed
records; nothing says that a proposal is a *valid* plan). TLC evaluates both on
every run.

`TypeOK` is not inductive. A handler that resumes at `ownWriter` indexes `tasks`
with the key it was given, so the key must be planned; one at `verdict` records
the answer of a run, so the run must exist and have answered a verdict. Nor do
the two action properties follow from types: they need that no handler is at
work on a paused job and that all a handler may still do on an ended one is its
bookkeeping. Hence

    IInv == TypeOK /\ KeyPlanned /\ VerdictKnown /\ Quiet

and the argument: `InitIInv`; `NextIInv`, one lemma per group of actions, each of
which shows that the record keeps its type (a lemma of `PipelineProofs` per
transition), the environment keeps its type, the task under work stays planned,
and the job either stays live (`StaysLive`) or its handler is left with
bookkeeping. `Quiet` is where the lock matters: pausing and cancelling need the
handler's place to be free. `NotLiveStep` then lists what a step can do to the
record of a job that is not live, and both action properties follow from it.

A plan grows in four places: a submission, a revision, and the task that a holistic
review or a failed check appends (`PlanGrows`). The first two validate what they save,
but only that the order is as long as the listing and names nothing else; that it
then names everything is a fact about finite sets (`SameMembers`). The appended task
must be a new one. For a review the code looks; for a failed check its key counts the
tasks, and that such a key is new is an invariant of its own:

    PlanInv == PlanWellFormed /\ RepairsCounted

Every other step leaves the listing, the order and the dependencies (`PlanStep`).

`MergedWereApproved` is not inductive either: a failed writer or reviewer blocks its
task whatever its status, and a verdict or a merge is applied several steps after it
was decided, by a handler that must still be right about the task. Hence

    MInv == (\A k : ApprovalBacked(k)) /\ HandlerKnows /\ MergedWereApproved

A task in or past review has owners whose runs answered and did not fail, and one past
it the approval (`ApprovalBacked`); a handler about to complete, judge, block, merge
or integrate a task knows what its place says of it (`HandlerKnows`). `Moves` lists the
ways a task may change at all, with one lemma per transition; `AnswersStay` says that
no step takes an answer back. That a conflict is reported only for a branch that is
not merged (`MergeConflict`) is needed: the proof fails without that guard.

`OrchestrationSafetyProofs` first lists what a step may do: to a task (`StepTransition`),
to the job (`JobTransition`), to the dispatch records (`StepRuns`), to the handler
(`StepArrives`). Each invariant below then goes through these lists and not through the
actions.

`PastIntegrationComplete` relates the job to all its tasks, and a late handler may still
hold one of them. What protects the finished ones is what a handler knows of its task
(`HandlerKnows`), that dispatches count from one and a task at work has no verdict, so
that nothing an old answer says fits it again (`Counted`, `UnreviewedWork`), and that the
place a paused job goes back to counts too:

    CInv == Counted /\ (\A k : UnreviewedWork(k)) /\ StoppedByVerdict /\ WholeInv

`PlanOrderKept` is about a step: what `DispatchReady` and `StartIntegration` saw must still
be so when the handler, several steps later or entered again, acts on it. `Underway` says
it of every task that has begun, `Ordered` of the task in a handler's hands, and both
survive because without an operator (`Untouched`) a finished task stays finished.
`OwnersDispatched` needs `AboutToOwn`: a handler at the save of an owner has launched it,
and launches are not undone. `RevisionsApplied` comes from the stronger `RevisionsCounted`:
the revisions in the plan are exactly the rounds up to the applied one, and a job waits in
`ci_replanning` exactly when one more was begun. `WritersBounded` needs `AttemptsLeft` of
the handler about to start a writer.

That whoever is waited for is still to be heard is about three records at once: the
owner a task or round names, the dispatch of that attempt, and what the handler at work
is about to write. The danger is a dispatch that is found and not made: `EnsureDispatch`
returns the old one if the attempt was launched before, and an old one may be applied.
So `HInv` says of every dispatch which attempt counts it: it is among the attempts of its
task, or it is the next one and the place of the handler, or of the task, says that it
will be recorded (`ReviewersLaunched`, `WritersLaunched`, `RoundsLaunched`). A handler
that applies an answer has moved its owner on before it marks the answer (`ReviewerCalls`,
`WriterCalls`, `JudgeCalls`), and all that is settled without a handler is owned by nobody
(`ApplySettled`). For reviewers this survives every failure, because a task stays
`Unreviewed` until the launched attempt is recorded and the handler is entered again. For
writers and rounds it does not: a launch whose save fails is nobody's until the poll comes
by, and what comes first in between may be its answer. `NoWork` is needed for a job that
ends without changes, `CancelEnded` for the runs a cancellation supersedes.

The rounds of holistic review are not bounded by their count alone: what asks for one more
looks at the count, what begins one when CI passes does not. So nobody may take a job in
its last round back to CI, and the one way there that is left when nothing happens to the
job is the approval of a task applied again, with the integration that follows it.
`ApprovalsMarked` says that the answer of an approved task's reviewer is marked as applied
or is being applied, and then it is never taken again. That the handler applying it does
reach its mark needs that nothing refuses it on the way: `ReviewerPath` lists the places of
that way, and `DraftSteps` and `PullKnown` show that GitHub has the draft with the head it
pushed. `RoundsLimited` and `RoundToSpare` join these to the count (`LInv`).

A task is blocked without a writer run only when its attempts run out before it has one,
so `BlockedCanResume` compares two counts of two loops. `TaskSpent` says it of each task:
one without a commit of its own had at most one attempt more than there were rounds, and
one that waits for its first writer none more. The hard step is a reopening, which turns
the first kind into the second: nothing may reopen a task in the round in which it ended
`no_changes`. `RoundFresh` says so: from the moment a round is reset until its answer is
applied, what has no changes has none from an earlier round. It holds because nobody works
on the tasks of a job whose round is still to be answered (`JudgeInRound`, `JudgePath`),
and because CI passes only as the handler goes on to reset the round (`PassesOnce`). All
of it is `KInv`, on top of `LInv`.

The merge gate rests on what a handler on its way to the merge saw many steps before.
What nobody can take from it (`GatesKnow`, with `ReadyApproved`: `RInv`) is that the job
is ready and approved, that the head is that of the recorded CI and that the merge is not
held; `StepComes` lists the ways to each of these steps. That the review was of this head
and that its CI passed is more than the gate looks at, and others can take it away. While
they do not, each round of review that has an owner, or whose CI passed, is either refused
or bound to the head:

    RoundBound == job.CI.State = "passed" \/ job.HolisticReviewRunID # 0 => Refused \/ Bound

`Bound` is the head that is integrated, pushed, recorded by CI and reviewed, with checks
that passed. `Refused` is a round whose reviewer answered and did not approve: it stays on
record while tasks are reopened and a new head is integrated, and since answers do not
change (`RefusalStays`) it can never approve that head. An approval therefore finds its round
bound. `StepRound` lists what a step does to the round; `RoundPlaces` says what a handler
that resets, opens or reopens one knows, and `HeadKnown` that the job's head is the
repository's, but for a merge that is still to be recorded.

For one dispatch, with any number of agents, failures and operator calls:

- `DispatchTyped`: `Spec => []TypeOK`;
- `OneAgent`: `Spec => []OneAgentAtATime`;
- `ArchiveStays`: `Spec => ArchiveFinal`;
- `PromiseKept`: `Spec => KeepsPromise`, the refinement of `Delivery`.

`OneAgentAtATime` is not inductive: a submission adds an agent whatever the others
do. What excludes a second one is the lookup before it, and that no other thread
can submit between the two. Hence

    IInv == TypeOK /\ LockExclusive /\ SubmitsAlone /\ OneAgentAtATime

where `LockExclusive` says that one thread at a time is between the lookup and the
saved run ID, and `SubmitsAlone` that whoever is past a lookup that found nothing
faces only forgotten runs. Forgotten runs have ended, and nothing but a submission
of the same thread can start one. `ArchiveStays` needs no more than the shape of
`Save` and `ArchiveJob`, for every copy any thread may hold. The only assumption
is `DispatchAssumption`; that AgentFoundry's lookup by task ID sees every run it
accepted and has not cleaned up is part of the model.

`PromiseKept` needs to know what a thread's copy of the record is still worth when
the thread uses it, while the job is not cancelled (afterwards the record is void):

    CopiesOK == job # "cancelled" => Copies

`Copies` has nothing archived and no agent stopped, `LiveOK` (an applied record is
one the job does not wait for, or a superseded one), and for each thread `CopyOK`
and `RoleOK`: a launch's copy is the record and its lock keeps it so; a copy that
carries an answer agrees with the record, which never changes an answer; an old
copy may still start a watcher, for then the record is pending, applied, or its
answer is with the watcher that heard it (`Watched`). `CopiesKept` reduces a step to
what it does to its own thread and to the record, `LiveStays` says what no step takes
back, and there is one lemma per action, then one per action that `Delivery` sees.

For one foundation, with any number of tools at once and any budget of failures
and foreign acts:

- `FoundationTyped`: `Spec => []TypeOK`;
- `ReadyVerified`: `Spec => []ReadyWasVerified`;
- `PlanningWaits`: `Spec => []PlansOnReady`;
- `MergesVerified`: `Spec => MergesOnlyVerified`.

`ReadyWasVerified` is not inductive: `Save` writes any call's copy. So what a call
knows at each step must be an invariant too (`CallOK`): a copy that says ready is
backed by a merged pull request whose head passed; past the read of the checks the
head it read has passed; at the confirmation the pull request is merged; planning
follows only what is verified. All of it is about GitHub, which other calls and
people change meanwhile, and survives because GitHub forgets neither a merge nor a
passed check (`Grows`): `CallStays` proves this once for every step. Then

    IInv == GitHub /\ CallsOK /\ EntryOK /\ JobOK /\ RestOK

with one lemma per action. The assumption is `FoundationAssumption`; that a passed
check stays passed and that a merge names its head are part of the model of GitHub.

For the table of locks, with any number of requests, keys and entries:

- `Excludes`: `LocksSpec => []Exclusion`;
- `Counts`: `LocksSpec => []EntriesCounted`;
- `Implements`: `LocksSpec => ImplementsLock`, the refinement of `ReadWriteLock`.

The mutexes exclude per *entry*, the promise is per *key*; what ties them is that a
request's entry is the one in the table, which is what the count is for. So

    LInv == LocksTypeOK /\ Phases /\ EntriesCounted /\ Finite /\ Distinct /\ MutexOK

where `Phases` says how far caller and goroutine can be apart, `Distinct` that an
entry has one key, `MutexOK` what the mutex excludes, and `Finite` that cardinalities
count. The assumption is `KeyedLockAssumption`.

For the file tools, with any number of calls, any texts and any faults:

- `EditsKept`: `Spec => []NoLostEdit`;
- `CommitsWhole`: `Spec => []CommitSeesNoHalfEdit`;
- `EditsTyped`: `Spec => []TypeOK`;
- `UsesLocks`: `Spec => LocksSpec`, and from it and the theorems above `EditsExclude`
  and `EditsCount`;
- `ScanFindsEvery`: `\A W : ScanIsExact(Seq(W), Seq(W) \ {<<>>})`, the scan of
  `Replacement` finds every place of every block in every text, and no other;
- `EditsMean`: `Spec => EditsTheOnlyMatch`.

    EInv == LInv /\ Shape /\ Kinds /\ Holds /\ NoLostEdit /\ CommitSeesNoHalfEdit

`Holds` says which locks a call holds where it is; a step of another call that would
change the file or start an edit then meets `Exclusion`. One lemma per action
preserves `Kept`, and `StepOfLocks` is one case per action too.

`ScanFindsEvery` is the correctness of Knuth, Morris and Pratt as the code has it. The
library's induction theorems cannot be used, so each induction is by the least number
that refutes the claim, which `LeastOf` finds through the well-founded order of finite
sets. `Ends(text, i, block, k)` says that the last `k` of the first `i` lines are the
first `k` of the block, `Longest` that no more are: `Falls` is what the inner loop
leaves (`FallenRight`), one more line makes the longest match the longest
(`AdvancedRight`), so the table of prefixes is right (`PrefixRight`), and so is every
line of the scan (`ScanStep`, `ScanRight`). A recursive function is first shown to
exist, by one that satisfies its equation. `Tally` says what `strings.Count` tells of
places that may overlap (`CountRight`): none when it is 0, and when it is 1 all of them
overlap the first. `EditsMean` joins `EditedMeans` with `NoLostEdit`: the text the match
was looked for in is still the file at the rename. `EditsAssumption` says of the texts
that they are sequences of lines and that no block is empty (filesystem.go:581).

For the state files, with any number of files, contents and failures:

- `ReadsWholeFiles`: `Spec => []NeverTorn`;
- `SavesAreDurable`: `Spec => ImplementsDirectory`, the refinement of `StateDirectory`.

`DInv` says that a temporary file is synced before its rename; drop the sync and `may`
holds a torn file. `Outbox` rests on this refinement, its files being two and one.

For the notifications of one job, with any number of transitions, retries and faults:

- `OutboxTyped`: `Spec => []TypeOK`;
- `NamesKept`: `Spec => []IdentityNamesTransition`;
- `OnlyDoneIsDelivered`: `Spec => []DeliveredWasDone`;
- `HistoryFoundAgain`: `Spec => []HistoryKept`;
- `ArchivedOnesEnqueued`: `Spec => []ArchivedWereEnqueued`.

None of the four is inductive as a statement about the memory: the next crash replaces the
memory by some content the files may have. So `DirInv` says of *every* such content what
the properties say of the memory: its outbox tells of its own journal (`Snapshots`), one
without the job comes with the archived job and all its events (`Archiving`), the files are
ahead of the memory and never aside of it (`Ahead`). `Delivering`, `Archives` and
`Waiting` say what the deliverer, the archiver and a handler still know at the step where
they use it; `OInv` is all of these.

## 7. What is only model-checked, and what is left out

Liveness under fairness and anything about ENABLED stay with TLC. Of the safety properties of `Orchestration`, these are checked and not proved:

- `BlockedResumable` is proved as long as nothing happens to the job and rounds are fewer
  than attempts; section 5 says what breaks it. That it holds with two operator calls and
  one foreign action, and no failure, is TLC's.
- `RoundsBounded` (in `AutomaticWorkBounded`) is proved as long as nothing happens to the
  job, which is all that can happen in its run, `steady`; a failure breaks it.
- `WriterOwnerPending` and `RoundPending` (in `OwnersPending`) are proved as long as
  nothing fails and no operator acts; a failure breaks the one and three the other. That
  `OwnersPending` holds with one failure is TLC's.
- `MergeGate` and `ResultsBoundToHead` are broken by an operator or a person on GitHub
  together with a failure (section 5), and proved as long as neither acts. That `MergeGate`
  holds with two operator calls and one foreign action, and no failure, is TLC's.

Not modelled: the components with status `not_modelled` in PROJECT.json, each
with its reason. Within the modelled ones: several jobs at once (they share
nothing but the save file and the repository's worktree lock), texts, refused calls
that change nothing, and the number of retries of a poll. `Orchestration` takes a
save as one step that succeeds or is not made; what a failed one may leave is in
`StateDirectory`. The foundation a job may wait for is taken as ready in
`Orchestration`; creating, forking and looking up a repository, and repositories that
are not owned, are left out of `Foundation`. Of the file tools, listing, searching and
path resolution are left out, of the outbox notifications that are not journaled and
back-off times, of `durable` `Acquire` (the lock file of the one process). `left`, `faults`
and `retries` are not part of the program.
