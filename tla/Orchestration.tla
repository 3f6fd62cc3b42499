--------------------------- MODULE Orchestration ---------------------------
(***************************************************************************)
(* How one coding job is driven (internal/jobmcp): the outcome handler the *)
(* dispatcher calls with an agent's answer, the reconciliation and CI      *)
(* polls, the operator's tools, and around them the agents, the dispatch   *)
(* records, the local repository and the pull request on GitHub.           *)
(*                                                                         *)
(* Handlers of a job exclude each other with Store.LockJob.  What the lock *)
(* does not exclude is what a handler can be interrupted by: agents answer,*)
(* GitHub moves, a call fails or the process dies between two durable      *)
(* steps.  So `call' is the handler that holds the lock and every store    *)
(* call or external effect of it is a step of its own.  An invocation that *)
(* only returns an error, or does nothing, is left out.                    *)
(***************************************************************************)
EXTENDS Pipeline

CONSTANTS PlanOf,            \* the proposals a planner may answer, by name
          PlannerAnswers, WriterAnswers, ReviewerAnswers, HolisticAnswers,
          MaxWriterAttempts,             \* maxWriterAttempts, 10 in the code
          MaxHolisticRemediationRounds,  \* maxHolisticRemediationRounds, 3
          RepeatLimit,                   \* identical reviews tolerated, 3
          Budget                         \* how often the environment misbehaves

VARIABLES runs,  \* dispatch records: run -> what the agent has answered
          repo,  \* the local repository
          pr,    \* the remote integration branch and its pull request
          call,  \* the handler holding the job's lock
          left   \* what remains of Budget

envVars == <<runs, repo, pr, left>>
vars == <<job, plan, tasks, runs, repo, pr, call, left>>

Roles == {"planner", "writer", "reviewer", "holistic"}
JobKey      == RemediationKey("job", 0)
RevisionKey == RemediationKey("revision", 0)
Run == [Role : Roles, Key : Key \cup {JobKey, RevisionKey}, Attempt : Nat]
RunOf(role, key, attempt) == [Role |-> role, Key |-> key, Attempt |-> attempt]
NoRun == RunOf("none", JobKey, 0)

Answers == [planner  |-> PlannerAnswers, writer |-> WriterAnswers,
            reviewer |-> ReviewerAnswers, holistic |-> HolisticAnswers]
AllAnswers == UNION {Answers[r] : r \in Roles}

ASSUME OrchestrationAssumption ==
  /\ PlannerAnswers \subseteq DOMAIN PlanOf \cup {"malformed", "failed"}
  /\ \A p \in DOMAIN PlanOf : PlanOf[p] \in Proposal
  /\ DOMAIN PlanOf \cap {"malformed", "failed", "running", "applied"} = {}
  /\ WriterAnswers \subseteq {"changes", "no_changes", "unclean", "blocked", "malformed", "failed"}
  /\ ReviewerAnswers \subseteq {"approved", "changes_requested", "repeated", "blocked",
                                "malformed", "failed"}
  /\ HolisticAnswers \subseteq {"approved", "changes_requested", "blocked", "malformed", "failed"}
  /\ MaxWriterAttempts \in Nat /\ MaxHolisticRemediationRounds \in Nat
  /\ RepeatLimit \in Nat \ {0}
  /\ Budget \in [faults : Nat, operator : Nat, foreign : Nat, conflicts : Nat]

Steps == {"idle", "mark", "reviewers", "reviewer", "ownReviewer", "complete", "verdict",
          "block", "writer", "ownWriter", "ready", "ownReady", "integrate", "merge",
          "integrated", "draft", "createPR", "recordPR", "draftCheck", "publish", "gate",
          "mergePR", "recordMerge", "holistic", "ownHolistic", "resetRound", "repair",
          "revision", "planner", "reopen", "fail", "retryWriter", "retryReview",
          "retryPlanning", "cancelRuns"}
Call == [at : Steps, key : Key \cup {JobKey}, run : Run \cup {NoRun},
         then : {"return", "reconcile", "draft", "publish", "approve"}]
Idle == [at |-> "idle", key |-> JobKey, run |-> NoRun, then |-> "return"]

Repo == [head : Nat,            \* head of the integration worktree
         last : Nat,            \* the last SHA made
         merged : SUBSET Key,   \* task branches merged into it
         ahead : SUBSET Key]    \* task branches with commits of their own
PullRequest == [head : Nat, foreign : BOOLEAN, exists : BOOLEAN, draft : BOOLEAN,
                merged : BOOLEAN, checks : {"pending", "passed"} \cup Fingerprint]

(* Type correctness of the whole state. *)
TypeOK ==
  /\ PipelineTypeOK
  /\ DOMAIN runs \subseteq Run
  /\ \A r \in DOMAIN runs : runs[r] \in {"running", "applied"} \cup Answers[r.Role]
  /\ repo \in Repo
  /\ pr \in PullRequest
  /\ call \in Call
  /\ left \in [faults : Nat, operator : Nat, foreign : Nat, conflicts : Nat]

Init ==
  /\ PipelineInit
  /\ runs = <<>>
  /\ repo = [head |-> 1, last |-> 1, merged |-> {}, ahead |-> {}]
  /\ pr = [head |-> 0, foreign |-> FALSE, exists |-> FALSE, draft |-> FALSE,
           merged |-> FALSE, checks |-> "pending"]
  /\ call = Idle
  /\ left = Budget

-----------------------------------------------------------------------------
(* Control of a handler. *)

At(step) == call.at = step
Go(step) == call' = [call EXCEPT !.at = step]
GoThen(step, then) == call' = [call EXCEPT !.at = step, !.then = then]
With(step, key) == call' = [call EXCEPT !.at = step, !.key = key]
Enter(step, key, run, then) ==
  /\ call = Idle
  /\ call' = [at |-> step, key |-> key, run |-> run, then |-> then]

(* A handler that returns nil lets apply mark its run; an error does not.   *)
Return == call' = IF call.run = NoRun THEN Idle ELSE [call EXCEPT !.at = "mark"]
Error == call' = Idle

(* The run a dispatch would create: attempt numbers are part of the task ID,*)
(* so starting the same attempt again finds the record that exists.         *)
WriterRun(k)   == RunOf("writer", k, tasks[k].WriterAttempts + 1)
ReviewerRun(k) == RunOf("reviewer", k, tasks[k].ReviewerAttempts + 1)
HolisticRun    == RunOf("holistic", JobKey, job.HolisticRounds + 1)
PlannerRun     == RunOf("planner", JobKey, 1 + job.PlannerRetry)
RevisionRun    == RunOf("planner", RevisionKey,
                        job.CIReplanRounds + 1 + job.PlannerRetry * 100)

Launch(run) ==
  runs' = IF run \in DOMAIN runs THEN runs
          ELSE [r \in DOMAIN runs \cup {run} |-> IF r = run THEN "running" ELSE runs[r]]
Marked(run) == [runs EXCEPT ![run] = "applied"]

(* The first of some keys in listing order. *)
FirstTask(keys) ==
  {plan.Tasks[i] : i \in {j \in DOMAIN plan.Tasks :
     plan.Tasks[j] \in keys /\ \A h \in 1..(j - 1) : plan.Tasks[h] \notin keys}}

DependenciesIntegrated(k) ==
  \A d \in tasks[k].DependsOn : d \in DOMAIN tasks /\ Done(tasks[d].Status)
Ready == {k \in DOMAIN tasks : /\ tasks[k].Status \in {"planned", "changes_requested"}
                             /\ DependenciesIntegrated(k)}
Integrable == {k \in DOMAIN tasks : tasks[k].Status \in {"integration_eligible", "integrating"}}
Unreviewed == {k \in DOMAIN tasks : tasks[k].Status = "reviewing" /\ tasks[k].ReviewerRunID = 0}

-----------------------------------------------------------------------------
(* The environment: agents answer, checks finish, people act on GitHub. *)

Answer(run) ==
  /\ runs[run] = "running"
  /\ \E a \in Answers[run.Role] : runs' = [runs EXCEPT ![run] = a]
  /\ UNCHANGED <<job, plan, tasks, repo, pr, call, left>>

ChecksFinish ==
  /\ pr.exists /\ pr.checks = "pending"
  /\ \E result \in {"passed"} \cup Fingerprint : pr' = [pr EXCEPT !.checks = result]
  /\ UNCHANGED <<job, plan, tasks, runs, repo, call, left>>

Spend(kind) == left[kind] > 0 /\ left' = [left EXCEPT ![kind] = @ - 1]

ChecksRerun ==
  /\ Spend("foreign")
  /\ pr.exists /\ pr.checks # "pending"
  /\ pr' = [pr EXCEPT !.checks = "pending"]
  /\ UNCHANGED <<job, plan, tasks, runs, repo, call>>

ForeignPush ==
  /\ Spend("foreign")
  /\ pr.exists /\ ~pr.merged
  /\ repo' = [repo EXCEPT !.last = @ + 1]
  /\ pr' = [pr EXCEPT !.head = repo.last + 1, !.foreign = TRUE, !.checks = "pending"]
  /\ UNCHANGED <<job, plan, tasks, runs, call>>

ForeignMerge ==
  /\ Spend("foreign")
  /\ pr.exists /\ ~pr.draft /\ ~pr.merged
  /\ pr' = [pr EXCEPT !.merged = TRUE]
  /\ UNCHANGED <<job, plan, tasks, runs, repo, call>>

-----------------------------------------------------------------------------
(* Failures.  A handler whose next call fails returns its error; a process  *)
(* that dies also loses what load does not keep.  Both leave every durable  *)
(* step taken so far, and a run that is not marked will be applied again.   *)

Abandon ==
  /\ Spend("faults")
  /\ ~At("idle")
  /\ Error
  /\ UNCHANGED <<job, plan, tasks, runs, repo, pr>>

Restart ==
  /\ Spend("faults")
  /\ Reload
  /\ Error
  /\ UNCHANGED <<runs, repo, pr>>

(* apply saves the marker after the handler has returned nil. *)
Mark ==
  /\ At("mark")
  /\ runs' = Marked(call.run)
  /\ Error
  /\ UNCHANGED <<job, plan, tasks, repo, pr, left>>

-----------------------------------------------------------------------------
(* Outcome application. *)

Owns(run) ==
  CASE run.Role = "planner" ->
         IF run.Key = RevisionKey THEN run = RevisionRun
         ELSE (job.Status = "planning" \/ HasPlan) /\ run = PlannerRun
    [] run.Role = "holistic" -> run.Attempt = job.HolisticReviewRunID /\ run = HolisticRun
    [] run.Role = "writer" -> /\ run.Key \in DOMAIN tasks
                              /\ tasks[run.Key].WriterRunID = run.Attempt
    [] OTHER -> /\ run.Key \in DOMAIN tasks
                /\ tasks[run.Key].ReviewerRunID = run.Attempt

AwaitsWriterOwnership(run) ==   \* mutant: reviewers are never waited for
  /\ run.Role = "writer" /\ run.Key \in DOMAIN tasks
  /\ tasks[run.Key].WriterRunID = 0 /\ run = WriterRun(run.Key)

(* Dispatched, but the crash came before ownership was recorded. *)
AwaitsOwnership(run) ==
  CASE run.Role = "planner" -> FALSE
    [] run.Role = "holistic" -> /\ job.Status = "holistic_reviewing"
                                /\ job.HolisticReviewRunID = 0 /\ run = HolisticRun
    [] run.Role = "writer" -> /\ run.Key \in DOMAIN tasks
                              /\ tasks[run.Key].WriterRunID = 0
                              /\ tasks[run.Key].Status \in {"planned", "changes_requested"}
                              /\ run = WriterRun(run.Key)
    [] OTHER -> run.Key \in Unreviewed /\ run = ReviewerRun(run.Key)

Answered(run) == runs[run] \notin {"running", "applied"}
ApplicablePaused(run) == Answered(run) /\ ~Terminal(job.Status) /\ Owns(run)   \* mutant

Applicable(run) ==
  /\ Answered(run)
  /\ ~Terminal(job.Status) /\ job.Status # "paused"
  /\ Owns(run)

(* Nothing is left to do for this answer: the job has ended, the run no     *)
(* longer owns anything, or an earlier application advanced the task.       *)
Settled(run) ==
  \/ Terminal(job.Status)
  \/ job.Status # "paused" /\ ~Owns(run) /\ ~AwaitsOwnership(run)
  \/ /\ Applicable(run) /\ run.Role = "writer"
     /\ runs[run] \notin {"malformed", "failed"}
     /\ tasks[run.Key].Status # "working"
     /\ ~(runs[run] # "blocked" /\ run.Key \in Unreviewed)

ApplySettled(run) ==
  /\ call = Idle
  /\ Answered(run) /\ Settled(run)
  /\ runs' = Marked(run)
  /\ UNCHANGED <<job, plan, tasks, repo, pr, call, left>>

(* recordTerminalFailure: the run ended as failed or cancelled. *)
ApplyFailure(run) ==
  /\ Applicable(run) /\ runs[run] = "failed"
  /\ Enter("mark", run.Key, run, "return")
  /\ IF run.Role \in {"planner", "holistic"} THEN FailJob ELSE BlockTask(run.Key)
  /\ UNCHANGED envVars

ApplyPlan(run) ==
  /\ Applicable(run) /\ run.Role = "planner" /\ runs[run] \in DOMAIN PlanOf
  /\ Enter("ready", JobKey, run, "return")
  /\ IF run.Key = RevisionKey THEN RevisePlan(PlanOf[runs[run]])
     ELSE SubmitPlan(PlanOf[runs[run]])
  /\ UNCHANGED envVars

Working(run) ==
  /\ Applicable(run) /\ run.Role = "writer"
  /\ tasks[run.Key].Status = "working"

(* The branch carries commits, or the worktree is dirty and is committed.   *)
Commits(run) ==
  \/ runs[run] = "changes"
  \/ runs[run] \in {"no_changes", "unclean"} /\ run.Key \in repo.ahead

ApplyWriterCommit(run) ==
  /\ Working(run) /\ Commits(run)
  /\ Enter("complete", run.Key, run, "return")
  /\ repo' = [repo EXCEPT !.ahead = @ \cup {run.Key}]
  /\ UNCHANGED <<job, plan, tasks, runs, pr, left>>

ApplyWriterNoChanges(run) ==
  /\ Working(run) /\ runs[run] = "no_changes" /\ ~Commits(run)
  /\ Enter("integrate", run.Key, run, "draft")
  /\ RecordNoChanges(run.Key, run.Attempt)
  /\ UNCHANGED envVars

ApplyWriterBlocked(run) ==
  /\ Working(run)
  /\ runs[run] = "blocked" \/ (runs[run] = "unclean" /\ ~Commits(run))
  /\ Enter("mark", run.Key, run, "return")
  /\ BlockTask(run.Key)
  /\ UNCHANGED envVars

(* A replayed completion whose reviewer was never recorded. *)
ApplyWriterHandoff(run) ==
  /\ Applicable(run) /\ run.Role = "writer"
  /\ runs[run] \in {"changes", "no_changes", "unclean"}
  /\ run.Key \in Unreviewed
  /\ Enter("reviewer", run.Key, run, "return")
  /\ UNCHANGED <<pipelineVars, envVars>>

VerdictOf(run) == IF runs[run] = "repeated" THEN "changes_requested" ELSE runs[run]

ApplyReview(run) ==
  /\ Applicable(run) /\ run.Role = "reviewer"
  /\ runs[run] \notin {"malformed", "failed"}
  /\ Enter("verdict", run.Key, run, "return")
  /\ RecordReviewReport(run.Key, run.Attempt, VerdictOf(run), runs[run] = "repeated")
  /\ UNCHANGED envVars

ApplyHolistic(run) ==
  /\ Applicable(run) /\ run.Role = "holistic"
  /\ runs[run] \notin {"malformed", "failed"}
  /\ RecordHolisticReview(run.Attempt, job.IntegrationSHA, runs[run])
  /\ Enter(CASE runs[run] = "approved" -> "publish"
             [] runs[run] = "changes_requested"
                /\ job.HolisticRounds <= MaxHolisticRemediationRounds -> "reopen"
             [] OTHER -> "fail",
           JobKey, run, "publish")
  /\ UNCHANGED envVars

ApplyOutcome(run) ==
  \/ ApplySettled(run)
  \/ ApplyFailure(run)
  \/ ApplyPlan(run)
  \/ ApplyWriterCommit(run)
  \/ ApplyWriterNoChanges(run)
  \/ ApplyWriterBlocked(run)
  \/ ApplyWriterHandoff(run)
  \/ ApplyReview(run)
  \/ ApplyHolistic(run)

(* recordWriterCommitAndReview, then the reviewer hand-off that             *)
(* reconciliation repeats for every task whose reviewer was not recorded.   *)
Complete ==
  /\ At("complete")
  /\ RecordWriterCompletion(call.key, call.run.Attempt)
  /\ Go("reviewer")
  /\ UNCHANGED envVars

DispatchReviewer ==
  /\ At("reviewer")
  /\ Launch(ReviewerRun(call.key))
  /\ Go("ownReviewer")
  /\ UNCHANGED <<pipelineVars, repo, pr, left>>

OwnReviewer ==
  /\ At("ownReviewer")
  /\ StartReviewer(call.key, tasks[call.key].ReviewerAttempts + 1)
  /\ IF call.then = "reconcile" THEN Go("reviewers") ELSE Return
  /\ UNCHANGED envVars

(* applyReview after its report is saved. *)
DecideReview ==
  LET verdict == VerdictOf(call.run)
      t == tasks[call.key]
      stop == t.Repeats >= RepeatLimit \/ t.WriterAttempts >= MaxWriterAttempts
  IN  /\ At("verdict")
      /\ RecordReview(call.key, call.run.Attempt, verdict)
      /\ CASE verdict = "approved" -> GoThen("integrate", "draft")
           [] verdict = "changes_requested" /\ ~stop -> Go("writer")
           [] OTHER -> Go("block")
      /\ UNCHANGED envVars

StopTask ==
  /\ At("block")
  /\ BlockTask(call.key)
  /\ Return
  /\ UNCHANGED envVars

-----------------------------------------------------------------------------
(* startWriter and startReadyWriters.  A writer's base is recorded before   *)
(* its dispatch; the run owns the task only once StartTaskWork is saved.    *)

LaunchWriter(k) ==
  /\ IF tasks[k].BaseSHA = 0 THEN RecordTaskBase(k, repo.head) ELSE UNCHANGED pipelineVars
  /\ Launch(WriterRun(k))
  /\ UNCHANGED <<repo, pr, left>>

DispatchWriter ==
  /\ At("writer")
  /\ LaunchWriter(call.key)
  /\ Go("ownWriter")

OwnWriter ==
  /\ At("ownWriter")
  /\ StartTaskWork(call.key, tasks[call.key].WriterAttempts + 1)
  /\ Return
  /\ UNCHANGED envVars

DispatchReady ==
  /\ At("ready")
  /\ \E k \in FirstTask(Ready) :
       IF tasks[k].WriterAttempts >= MaxWriterAttempts   \* enforceWriterAttemptLimit
       THEN BlockTask(k) /\ UNCHANGED <<envVars, call>>
       ELSE LaunchWriter(k) /\ With("ownReady", k)

OwnReady ==
  /\ At("ownReady")
  /\ StartTaskWork(call.key, tasks[call.key].WriterAttempts + 1)
  /\ Go("ready")
  /\ UNCHANGED envVars

NoneReady ==
  /\ At("ready") /\ FirstTask(Ready) = {}
  /\ IF call.then = "draft" /\ job.Status = "holistic_reviewing" THEN Go("draft") ELSE Return
  /\ UNCHANGED <<pipelineVars, envVars>>

-----------------------------------------------------------------------------
(* integrateEligible.  startWriter gives every task, remediations included, *)
(* a branch of its own, so integration is always a merge of that branch.    *)

BeginIntegration ==
  /\ At("integrate")
  /\ \E k \in FirstTask(Integrable) :
       /\ IF tasks[k].Status = "integrating" THEN UNCHANGED pipelineVars
          ELSE StartIntegration(k)
       /\ With("merge", k)
  /\ UNCHANGED envVars

(* StartIntegration refuses the listed task: ErrDependencyGate ends the call. *)
IntegrationRefused ==
  /\ At("integrate")
  /\ \E k \in FirstTask(Integrable) :
       tasks[k].Status = "integration_eligible" /\ ~PrerequisitesMet(tasks, k)
  /\ Error
  /\ UNCHANGED <<pipelineVars, envVars>>

NoneIntegrable ==
  /\ At("integrate") /\ FirstTask(Integrable) = {}
  /\ Go("ready")
  /\ UNCHANGED <<pipelineVars, envVars>>

MergeTask ==
  /\ At("merge")
  /\ repo' = IF call.key \in repo.merged THEN repo
             ELSE [repo EXCEPT !.head = repo.last + 1, !.last = @ + 1,
                               !.merged = @ \cup {call.key}]
  /\ Go("integrated")
  /\ UNCHANGED <<pipelineVars, runs, pr, left>>

MergeConflictAgain ==   \* mutant: a merged branch can conflict when retried
  /\ At("merge")
  /\ Spend("conflicts")
  /\ BlockTask(call.key)
  /\ Return
  /\ UNCHANGED <<runs, repo, pr>>

MergeConflict ==
  /\ At("merge") /\ call.key \notin repo.merged
  /\ Spend("conflicts")
  /\ BlockTask(call.key)
  /\ Return
  /\ UNCHANGED <<runs, repo, pr>>

Integrated ==
  /\ At("integrated")
  /\ RecordIntegration(call.key, repo.head)
  /\ Go("integrate")
  /\ UNCHANGED envVars

-----------------------------------------------------------------------------
(* startDraftPRCI: push, find or create the draft, bind CI to its head.     *)

PushBranch ==
  /\ At("draft") /\ ~pr.foreign
  /\ pr' = IF pr.head = repo.head THEN pr
           ELSE [pr EXCEPT !.head = repo.head, !.checks = "pending"]
  /\ Go(IF job.PullRequest THEN "draftCheck" ELSE "createPR")
  /\ UNCHANGED <<pipelineVars, runs, repo, left>>

CreatePR ==
  /\ At("createPR")
  /\ pr' = IF pr.exists THEN pr
           ELSE [pr EXCEPT !.exists = TRUE, !.draft = (call.then = "draft")]
  /\ Go("recordPR")
  /\ UNCHANGED <<pipelineVars, runs, repo, left>>

SavePullRequest ==
  /\ At("recordPR")
  /\ RecordPullRequest
  /\ Go(IF call.then = "draft" THEN "draftCheck" ELSE "gate")
  /\ UNCHANGED envVars

DraftUsable == pr.draft /\ ~pr.merged /\ pr.head = job.IntegrationSHA

BeginCI ==
  /\ At("draftCheck") /\ DraftUsable
  /\ StartCI(pr.head)
  /\ Return
  /\ UNCHANGED envVars

DraftRefused ==
  /\ \/ At("draft") /\ pr.foreign          \* push is not a fast-forward
     \/ At("draftCheck") /\ ~DraftUsable
  /\ Error
  /\ UNCHANGED <<pipelineVars, envVars>>

-----------------------------------------------------------------------------
(* publishApprovedJob. *)

Publish ==
  /\ At("publish")
  /\ Go(IF job.PullRequest THEN "gate" ELSE "createPR")
  /\ UNCHANGED <<pipelineVars, envVars>>

AnyChecksPass == pr.checks = "passed"   \* mutant: whatever head CI was recorded for

(* No recorded CI leaves the gate to the checks the PR reports.             *)
ChecksPass == /\ pr.checks = "passed"
              /\ job.CI # NoCI => job.CI.HeadSHA = pr.head
MergeHeld == job.MergePolicy = "manual" /\ call.then # "approve"
GateOpen == pr.head = job.IntegrationSHA /\ ChecksPass

Promote ==
  /\ At("gate") /\ ~pr.merged /\ pr.draft
  /\ pr' = [pr EXCEPT !.draft = FALSE]
  /\ UNCHANGED <<pipelineVars, runs, repo, call, left>>

PassGate ==
  /\ At("gate") /\ ~pr.merged /\ ~pr.draft /\ GateOpen
  /\ IF MergeHeld THEN Return ELSE Go("mergePR")
  /\ UNCHANGED <<pipelineVars, envVars>>

GateRefused ==
  /\ At("gate") /\ ~pr.merged /\ ~pr.draft /\ ~GateOpen
  /\ Error
  /\ UNCHANGED <<pipelineVars, envVars>>

AlreadyMerged ==
  /\ At("gate") /\ pr.merged
  /\ Go("recordMerge")
  /\ UNCHANGED <<pipelineVars, envVars>>

(* MergePR names the SHA that passed the gate; GitHub refuses another head. *)
MergePR ==
  /\ At("mergePR")
  /\ IF pr.head = job.IntegrationSHA /\ ~pr.merged
     THEN pr' = [pr EXCEPT !.merged = TRUE] /\ Go("recordMerge")
     ELSE UNCHANGED pr /\ Error
  /\ UNCHANGED <<pipelineVars, runs, repo, left>>

SaveMerge ==
  /\ At("recordMerge")
  /\ RecordMerge
  /\ Return
  /\ UNCHANGED envVars

-----------------------------------------------------------------------------
(* Holistic rounds, CI repair and planner dispatch, as shared tails.        *)

DispatchHolistic ==
  /\ At("holistic")
  /\ Launch(HolisticRun)
  /\ Go("ownHolistic")
  /\ UNCHANGED <<pipelineVars, repo, pr, left>>

OwnHolistic ==
  /\ At("ownHolistic")
  /\ StartHolisticReviewer(job.HolisticRounds + 1, job.IntegrationSHA)
  /\ Return
  /\ UNCHANGED envVars

NewHolisticRound ==
  /\ At("resetRound")
  /\ ResetHolisticRound
  /\ Go("holistic")
  /\ UNCHANGED envVars

(* Changes requested on the integrated job: redo what was not done, or add  *)
(* a task when everything was.                                              *)
Reopen ==
  /\ At("reopen")
  /\ IF \E k \in DOMAIN tasks : Incomplete(tasks[k]) THEN ReopenIncompleteTasks
     ELSE StartReviewRemediation
  /\ GoThen("ready", "return")
  /\ UNCHANGED envVars

StopJob ==
  /\ At("fail")
  /\ FailJob
  /\ Return
  /\ UNCHANGED envVars

RepeatedFailure == job.CIFailures[job.CI.FailureFingerprint] >= 2

RepairCI ==
  /\ At("repair") /\ ~RepeatedFailure
  /\ StartCIRemediation(job.CI.FailureFingerprint)
  /\ Go("ready")
  /\ UNCHANGED envVars

EscalateCI ==
  /\ At("repair") /\ RepeatedFailure
  /\ BeginCIReplan(job.CI.FailureFingerprint)
  /\ IF job.CIReplanRounds >= MaxCIReplanRounds THEN Return ELSE Go("revision")
  /\ UNCHANGED envVars

DispatchPlanner ==
  /\ call.at \in {"planner", "revision"}
  /\ Launch(IF At("planner") THEN PlannerRun ELSE RevisionRun)
  /\ Return
  /\ UNCHANGED <<pipelineVars, repo, pr, left>>

HandlerStep ==
  \/ Mark
  \/ Complete \/ DispatchReviewer \/ OwnReviewer \/ DecideReview \/ StopTask
  \/ DispatchWriter \/ OwnWriter \/ DispatchReady \/ OwnReady \/ NoneReady
  \/ BeginIntegration \/ IntegrationRefused \/ NoneIntegrable
  \/ MergeTask \/ MergeConflict \/ Integrated
  \/ PushBranch \/ CreatePR \/ SavePullRequest \/ BeginCI \/ DraftRefused
  \/ Publish \/ Promote \/ PassGate \/ GateRefused \/ AlreadyMerged \/ MergePR \/ SaveMerge
  \/ DispatchHolistic \/ OwnHolistic \/ NewHolisticRound \/ Reopen \/ StopJob
  \/ RepairCI \/ EscalateCI \/ DispatchPlanner

-----------------------------------------------------------------------------
(* The periodic reconciliation: reconcileJob by job status. *)

NextReviewer ==
  /\ At("reviewers")
  /\ IF FirstTask(Unreviewed) = {} THEN GoThen("integrate", "draft")
     ELSE \E k \in FirstTask(Unreviewed) : With("reviewer", k)
  /\ UNCHANGED <<pipelineVars, envVars>>

ReconcileTasks ==
  /\ job.Status \in {"planned", "working", "reviewing", "integrating", "ci_remediating"}
  /\ Unreviewed \cup Integrable \cup Ready # {}
  /\ Enter("reviewers", JobKey, NoRun, "reconcile")
  /\ UNCHANGED <<pipelineVars, envVars>>

ReconcileReplan ==
  /\ job.Status = "ci_replanning" /\ RevisionRun \notin DOMAIN runs
  /\ Enter("revision", JobKey, NoRun, "return")
  /\ UNCHANGED <<pipelineVars, envVars>>

CIPassedForHead == job.CI.HeadSHA = job.IntegrationSHA /\ job.CI.State = "passed"

ReconcileHolistic ==
  /\ job.Status = "holistic_reviewing" /\ job.HolisticReviewVerdict = "pending"
  /\ ~CIPassedForHead \/ job.HolisticReviewRunID = 0
  /\ Enter(IF CIPassedForHead THEN "holistic" ELSE "draft", JobKey, NoRun, "draft")
  /\ UNCHANGED <<pipelineVars, envVars>>

ReconcileCancelled ==
  /\ job.Status = "cancelled" /\ \E r \in DOMAIN runs : runs[r] # "applied"
  /\ Enter("cancelRuns", JobKey, NoRun, "return")
  /\ UNCHANGED <<pipelineVars, envVars>>

(* create_code_job, and ResumeFoundationPlanning after it, dispatch the      *)
(* planner without the lock and from a copy of the job: it may have been    *)
(* paused or cancelled since.                                               *)
ResumePlanner ==
  /\ job.Status # "created" /\ ~HasPlan /\ PlannerRun \notin DOMAIN runs
  /\ Launch(PlannerRun)
  /\ UNCHANGED <<pipelineVars, repo, pr, call, left>>

(* observeCIJob by job status. *)
ObservePublication ==
  /\ job.Status = "ready_to_publish" /\ job.HolisticReviewVerdict = "approved"
  /\ Enter("publish", JobKey, NoRun, "publish")
  /\ UNCHANGED <<pipelineVars, envVars>>

ObserveStrandedRound ==
  /\ job.Status = "holistic_reviewing" /\ job.CI.State = "passed"
  /\ job.HolisticReviewRunID = 0 /\ job.HolisticReviewVerdict = "pending"
  /\ Enter("holistic", JobKey, NoRun, "return")
  /\ UNCHANGED <<pipelineVars, envVars>>

ObserveForeignHead ==
  /\ job.Status = "awaiting_ci" /\ pr.head # job.CI.HeadSHA
  /\ call = Idle
  /\ FailJob
  /\ UNCHANGED <<call, envVars>>

(* Pending checks are blocked ones once the deadline has passed.            *)
ObserveChecks ==
  /\ job.Status = "awaiting_ci" /\ pr.head = job.CI.HeadSHA
  /\ \E state \in CASE pr.checks = "pending" -> {"pending", "blocked"}
                    [] pr.checks = "passed" -> {"passed"}
                    [] OTHER -> {"failed"} :
       /\ RecordCI(pr.head, state, IF state = "failed" THEN pr.checks ELSE NoPrint)
       /\ CASE state = "passed" -> Enter("resetRound", JobKey, NoRun, "return")
            [] state = "failed" -> Enter("repair", JobKey, NoRun, "return")
            [] OTHER -> call = Idle /\ UNCHANGED call
  /\ UNCHANGED envVars

-----------------------------------------------------------------------------
(* The operator's tools. *)

Operate(step, key, then) == Enter(step, key, NoRun, then) /\ Spend("operator")

CreateAndPlan ==
  /\ StartPlanning
  /\ UNCHANGED <<envVars, call>>

(* Supersede: the answer that could not be applied is retired first. *)
Supersede(run) ==
  /\ run \in DOMAIN runs /\ Answered(run)
  /\ runs' = Marked(run)

RetriesAllowed == job.Status \notin {"cancelled", "published", "failed", "paused"}

RetryCodeTask(k) ==
  /\ RetriesAllowed
  /\ \/ /\ tasks[k].Status = "reviewing" /\ tasks[k].ReviewerRunID # 0
        /\ Supersede(RunOf("reviewer", k, tasks[k].ReviewerAttempts))
        /\ Operate("retryReview", k, "return")
        /\ UNCHANGED pipelineVars
     \/ /\ tasks[k].Status = "working" /\ tasks[k].WriterRunID # 0
        /\ Supersede(RunOf("writer", k, tasks[k].WriterAttempts))
        /\ Operate("retryWriter", k, "return")
        /\ UNCHANGED pipelineVars
     \/ /\ ResumeBlockedWriter(k) /\ Operate("writer", k, "return")
        /\ UNCHANGED runs
     \/ /\ ReopenNoChangesTask(k) /\ Operate("writer", k, "return")
        /\ UNCHANGED runs
  /\ UNCHANGED <<repo, pr>>

ReleaseWriter ==
  /\ At("retryWriter")
  /\ RetryWriter(call.key, tasks[call.key].WriterRunID)
  /\ Go("writer")
  /\ UNCHANGED envVars

ReleaseReviewer ==
  /\ At("retryReview")
  /\ RetryReview(call.key, tasks[call.key].ReviewerRunID)
  /\ Go("reviewer")
  /\ UNCHANGED envVars

RetryCodePlanning ==
  /\ job.Status \in {"planning", "ci_replanning"}
  /\ Supersede(IF job.Status = "planning" THEN PlannerRun ELSE RevisionRun)
  /\ Operate("retryPlanning", JobKey, "return")
  /\ UNCHANGED <<pipelineVars, repo, pr>>

RenewPlanning ==
  /\ At("retryPlanning")
  /\ RetryPlanning
  /\ Go(IF job.Status = "planning" THEN "planner" ELSE "revision")
  /\ UNCHANGED envVars

ResetHolisticReview ==
  /\ ResetHolisticRound
  /\ Operate("holistic", JobKey, "return")
  /\ UNCHANGED <<runs, repo, pr>>

StartRereview ==
  /\ job.PullRequest /\ ~pr.merged /\ ~pr.draft
  /\ StartHolisticRereview(pr.head)
  /\ Operate("holistic", JobKey, "return")
  /\ UNCHANGED <<runs, repo, pr>>

PublishApproved ==
  /\ job.Status = "ready_to_publish" /\ job.HolisticReviewVerdict = "approved"
  /\ \E then \in {"publish", "approve"} : Operate("publish", JobKey, then)
  /\ UNCHANGED <<pipelineVars, runs, repo, pr>>

PauseJob ==
  /\ Pause
  /\ call = Idle /\ UNCHANGED call
  /\ Spend("operator")
  /\ UNCHANGED <<runs, repo, pr>>

ResumeJob ==
  /\ Resume
  /\ call = Idle /\ UNCHANGED call
  /\ UNCHANGED envVars

CancelCodeJob ==
  /\ Cancel
  /\ Operate("cancelRuns", JobKey, "return")
  /\ UNCHANGED <<runs, repo, pr>>

CancelRuns ==
  /\ At("cancelRuns")
  /\ runs' = [r \in DOMAIN runs |-> "applied"]
  /\ Error
  /\ UNCHANGED <<pipelineVars, repo, pr, left>>

-----------------------------------------------------------------------------
Poll == \/ ReconcileTasks \/ ReconcileReplan \/ ReconcileHolistic \/ ReconcileCancelled
        \/ ResumePlanner
        \/ ObservePublication \/ ObserveStrandedRound
        \/ ObserveForeignHead \/ ObserveChecks

Operator == \/ \E k \in DOMAIN tasks : RetryCodeTask(k)
            \/ RetryCodePlanning \/ ResetHolisticReview \/ StartRereview
            \/ PublishApproved \/ PauseJob \/ ResumeJob \/ CancelCodeJob

Continue == HandlerStep \/ NextReviewer \/ ReleaseWriter \/ ReleaseReviewer
            \/ RenewPlanning \/ CancelRuns

Next ==
  \/ CreateAndPlan
  \/ \E run \in DOMAIN runs : Answer(run) \/ ApplyOutcome(run)
  \/ Continue \/ Poll \/ Operator
  \/ ChecksFinish \/ ChecksRerun \/ ForeignPush \/ ForeignMerge
  \/ Abandon \/ Restart

Spec == Init /\ [][Next]_vars

(* Every handler returns, agents and checks finish, the polls run every 30  *)
(* seconds and an unapplied answer is applied again (main.go 493-526,       *)
(* dispatcher.go 339-508).  The polls and answers need strong fairness:     *)
(* another handler may hold the job's lock each time one of them looks.     *)
(* Nothing obliges the operator, GitHub users or failures to act.           *)
Applying(role) == \E run \in DOMAIN runs : run.Role = role /\ ApplyOutcome(run)

FairSpec ==
  /\ Spec
  /\ WF_vars(CreateAndPlan)
  /\ WF_vars(Continue)
  /\ WF_vars(\E run \in DOMAIN runs : Answer(run))
  /\ WF_vars(ChecksFinish)
  /\ WF_vars(job.Status = "planning" /\ ResumePlanner)
  /\ SF_vars(ReconcileTasks \/ ReconcileReplan \/ ReconcileHolistic)
  /\ SF_vars(ObservePublication \/ ObserveStrandedRound)
  /\ SF_vars(ObserveForeignHead \/ ObserveChecks)
  /\ \A role \in Roles : SF_vars(Applying(role))

-----------------------------------------------------------------------------
(* Invariants. *)

(* The listing and the integration order stay two orders of the same keys,  *)
(* each once, with every dependency integrated before its dependents, across*)
(* planner revisions and the tasks remediation appends (store.go 334-466,   *)
(* controller.go 646-662): a key missing from the order never integrates.   *)
PlanWellFormed ==
  /\ IsInjective(plan.Tasks) /\ IsInjective(plan.IntegrationOrder)
  /\ Range(plan.IntegrationOrder) = Range(plan.Tasks)
  /\ \A k \in DOMAIN tasks : \A d \in tasks[k].DependsOn :
       Precedes(plan.IntegrationOrder, d, k)

(* Every owner the job records is a dispatch that exists: it is recorded    *)
(* only after its launch, so that a crash between the two is harmless       *)
(* (server.go 781-810, dispatcher.go 150-230).                              *)
OwnersDispatched ==
  /\ \A k \in DOMAIN tasks :
       /\ tasks[k].WriterRunID > 0 => RunOf("writer", k, tasks[k].WriterRunID) \in DOMAIN runs
       /\ tasks[k].ReviewerRunID > 0 =>
            RunOf("reviewer", k, tasks[k].ReviewerRunID) \in DOMAIN runs
  /\ job.HolisticReviewRunID > 0 =>
       RunOf("holistic", JobKey, job.HolisticReviewRunID) \in DOMAIN runs

(* A review that waits for its owner waits for an answer that can still be  *)
(* applied: otherwise nothing, reconciliation included, would move it again.*)
ReviewsPending ==
  call = Idle /\ ~Terminal(job.Status) =>
    \A k \in DOMAIN tasks :
      tasks[k].Status = "reviewing" /\ tasks[k].ReviewerRunID > 0 =>
        runs[RunOf("reviewer", k, tasks[k].ReviewerRunID)] # "applied"

(* The same of a holistic round. *)
RoundPending ==
  /\ call = Idle /\ ~Terminal(job.Status)
  /\ job.Status = "holistic_reviewing" /\ job.HolisticReviewVerdict = "pending"
  /\ job.HolisticReviewRunID > 0
  => runs[RunOf("holistic", JobKey, job.HolisticReviewRunID)] # "applied"

(* Whoever a job waits for exists and will be heard (outcome.go 19-55,      *)
(* 211-223, server.go 781-810, reconcile.go 49-76).                         *)
OwnersPending == OwnersDispatched /\ ReviewsPending /\ RoundPending

(* The same of a task that waits for its writer. *)
WriterOwnerPending ==
  call = Idle /\ ~Terminal(job.Status) =>
    \A k \in DOMAIN tasks :
      tasks[k].Status = "working" =>
        runs[RunOf("writer", k, tasks[k].WriterRunID)] # "applied"

(* A job past integration has every task integrated or without changes, and *)
(* at least one integrated (controller.go 226-250, 348-369).                *)
PastIntegration == {"awaiting_ci", "ci_replanning", "holistic_reviewing",
                    "ready_to_publish", "published"}
PastIntegrationComplete ==
  job.Status \in PastIntegration =>
    /\ \A k \in DOMAIN tasks : tasks[k].Status \in {"integrated", "no_changes"}
    /\ \E k \in DOMAIN tasks : tasks[k].Status = "integrated"

(* Nothing reaches the integration branch unreviewed, and the job knows of  *)
(* everything that did: a merged branch belongs to a task that is           *)
(* integrating or integrated with an approving review, and an integrated    *)
(* task's branch is merged (server.go 812-869).                             *)
MergedWereApproved ==
  /\ \A k \in repo.merged : /\ k \in DOMAIN tasks
                            /\ tasks[k].Status \in {"integrating", "integrated"}
                            /\ tasks[k].ReviewVerdict = "approved"
  /\ \A k \in DOMAIN tasks : tasks[k].Status = "integrated" => k \in repo.merged

(* What is known of a revision is known of the head: a job that can be      *)
(* published was approved for exactly the revision it would publish, and CI *)
(* is awaited only for the head that is integrated (store.go 123-124,       *)
(* 284-303, controller.go 371-406, server.go 906-912).                      *)
ResultsBoundToHead ==
  /\ job.Status \in {"ready_to_publish", "published"} =>
       /\ job.HolisticReviewVerdict = "approved"
       /\ job.HolisticReviewSHA = job.IntegrationSHA
  /\ job.Status = "awaiting_ci" => job.PullRequest /\ job.CI.HeadSHA = job.IntegrationSHA

(* The rounds of planner revisions in the plan are exactly the applied ones *)
(* and a job waiting for a revision has one to apply (store.go 367-466).    *)
RevisionsApplied ==
  /\ {k.Round : k \in {x \in DOMAIN tasks : x.Origin = "revision"}}
       = 1..job.AppliedCIReplanRound
  /\ job.Status = "ci_replanning" => job.AppliedCIReplanRound < job.CIReplanRounds

(* The automatic loops end: writer attempts, planner revisions and holistic *)
(* rounds stay within their limits when no operator asks for more           *)
(* (server.go 730-747, store.go 388, outcome.go 386-410).                   *)
WritersBounded == \A k \in DOMAIN tasks : tasks[k].WriterAttempts <= MaxWriterAttempts
ReplansBounded == job.CIReplanRounds <= MaxCIReplanRounds
RoundsBounded  == job.HolisticRounds <= MaxHolisticRemediationRounds + 1
AutomaticWorkBounded == WritersBounded /\ ReplansBounded /\ RoundsBounded

(* Every blocked task names the writer whose worktree an operator resumes   *)
(* with retry_code_task (server.go 730-731, controller.go 147-160).         *)
BlockedResumable ==
  \A k \in DOMAIN tasks : tasks[k].Status = "blocked" => tasks[k].WriterRunID > 0

-----------------------------------------------------------------------------
(* Action properties. *)

(* OpenDev merges only what is ready: a job whose holistic review approved  *)
(* it, with every task integrated, at the head that is integrated and that  *)
(* recorded CI is of, and a manual job only when approved by its operator.  *)
MergesReady ==
  MergePR /\ pr' # pr =>
    /\ job.Status = "ready_to_publish" /\ AllIntegrated(tasks)
    /\ job.HolisticReviewVerdict = "approved"
    /\ pr.head = job.IntegrationSHA
    /\ job.CI # NoCI => job.CI.HeadSHA = pr.head
    /\ job.MergePolicy = "manual" => call.then = "approve"

(* What it merges is the head the review was of, and its CI passed.         *)
MergesReviewed ==
  MergePR /\ pr' # pr =>
    /\ pr.head = job.HolisticReviewSHA
    /\ job.CI # NoCI => job.CI.State = "passed"

(* OpenDev merges only a head that was reviewed, approved, integrated in    *)
(* full and passed the CI it recorded, and holds a manual job until it is   *)
(* approved (server.go 604-701).                                            *)
MergeGate == [][MergesReady /\ MergesReviewed]_vars

(* Published, failed and cancelled jobs stay what they are (operator.go     *)
(* 8-10, outcome.go 27-29).                                                 *)
TerminalAbsorbing ==
  [][job.Status \in {"published", "failed", "cancelled"} =>
       /\ job'.Status = job.Status /\ plan' = plan
       /\ \A k \in DOMAIN tasks : tasks'[k].Status = tasks[k].Status]_vars

(* While a job is paused no task moves and no answer is consumed; it leaves *)
(* the pause for where it was, or is cancelled (operator.go 12-36).         *)
PausedFrozen ==
  [][job.Status = "paused" =>
       /\ plan' = plan
       /\ \A k \in DOMAIN tasks : tasks'[k].Status = tasks[k].Status
       /\ job'.Status \in {"paused", job.PausedFrom, "cancelled"}
       /\ \A r \in DOMAIN runs : runs'[r] = "applied" => runs[r] = "applied"]_vars

(* A writer starts a task only when everything it depends on is integrated  *)
(* or needs no changes, also when the handler that found it ready failed in *)
(* between, and tasks integrate in the plan's order (server.go 759-779,     *)
(* 915-923, controller.go 590-612), as long as no operator reopens a task   *)
(* others already build on.                                                 *)
PlanOrderKept ==
  [][left.operator = Budget.operator => \A k \in DOMAIN tasks :
       /\ tasks[k].Status # "working" /\ tasks'[k].Status = "working" =>
            DependenciesIntegrated(k)
       /\ tasks[k].Status = "integrating" /\ tasks'[k].Status = "integrated" =>
            \A j \in DOMAIN tasks : Precedes(plan.IntegrationOrder, j, k) =>
              tasks[j].Status \in {"integrated", "no_changes"}]_vars

-----------------------------------------------------------------------------
(* Liveness. *)

(* What only an operator can move: a blocked task, a manual job's approval, *)
(* an answer nobody can apply.                                              *)
NeedsOperator ==
  \/ job.Status = "paused"
  \/ \E k \in DOMAIN tasks : tasks[k].Status = "blocked"
  \/ job.Status = "ready_to_publish" /\ job.MergePolicy = "manual"
  \/ \E r \in DOMAIN runs : runs[r] = "malformed"

(* A job ends, or it ends up waiting for its operator: no job is silently   *)
(* stuck between its handlers and its polls (reconcile.go 13-78, ci.go      *)
(* 29-144, outcome.go 19-55).                                               *)
Progress == <>[](Terminal(job.Status) \/ NeedsOperator)

(* CI has passed on the integrated head, so the holistic round runs to its  *)
(* verdict and the job leaves the review (ci.go 40-52, 100-116).            *)
HolisticRoundRuns ==
  (job.Status = "holistic_reviewing" /\ CIPassedForHead)
    ~> job.Status # "holistic_reviewing"
=============================================================================
