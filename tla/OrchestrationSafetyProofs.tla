---------------------- MODULE OrchestrationSafetyProofs ----------------------
(***************************************************************************)
(* What a step of Orchestration does to one task, to the job, to the       *)
(* dispatch records and to the handler under way, and the invariants that  *)
(* rest on it: what is past its integration is whole, the plan's order is  *)
(* kept, owners are dispatches that are still to be heard, the loops that  *)
(* run by themselves end, and only what is reviewed, tested and ready is   *)
(* merged.                                                                 *)
(***************************************************************************)
EXTENDS OrchestrationProofs

-----------------------------------------------------------------------------
(* The transitions of the record, by the handlers that make them. *)

(* Transitions of the task under work. *)
WorkOn(k) ==
  \/ At("writer") /\ RecordTaskBase(k, repo.head)
  \/ call.at \in {"ownWriter", "ownReady"} /\ StartTaskWork(k, tasks[k].WriterAttempts + 1)
  \/ At("complete") /\ RecordWriterCompletion(k, call.run.Attempt)
  \/ At("ownReviewer") /\ StartReviewer(k, tasks[k].ReviewerAttempts + 1)
  \/ At("verdict") /\ RecordReview(k, call.run.Attempt, VerdictOf(call.run))
  \/ (At("block") \/ (At("merge") /\ k \notin repo.merged)) /\ BlockTask(k)
  \/ At("integrated") /\ RecordIntegration(k, repo.head)
  \/ At("retryWriter") /\ RetryWriter(k, tasks[k].WriterRunID)
  \/ At("retryReview") /\ RetryReview(k, tasks[k].ReviewerRunID)

(* Transitions of a task the listing offers. *)
Pick(k) ==
  \/ At("ready") /\ k \in Ready /\ tasks[k].WriterAttempts < MaxWriterAttempts
     /\ RecordTaskBase(k, repo.head)
  \/ At("ready") /\ k \in Ready /\ tasks[k].WriterAttempts >= MaxWriterAttempts /\ BlockTask(k)
  \/ At("integrate") /\ StartIntegration(k)

(* Transitions of the task an answer is about. *)
Take(run, k) ==
  /\ Applicable(run)
  /\ \/ run.Role \in {"writer", "reviewer"} /\ runs[run] = "failed" /\ BlockTask(k)
     \/ Working(run) /\ BlockTask(k)
     \/ Working(run) /\ runs[run] = "no_changes" /\ k \notin repo.ahead
        /\ RecordNoChanges(k, run.Attempt)
     \/ run.Role = "reviewer" /\ runs[run] \notin {"malformed", "failed"}
        /\ RecordReviewReport(k, run.Attempt, VerdictOf(run), runs[run] = "repeated")

TaskTransition ==
  \/ call.key \in DOMAIN tasks /\ WorkOn(call.key)
  \/ \E k \in DOMAIN tasks : Pick(k)
  \/ \E run \in DOMAIN runs : run.Key \in DOMAIN tasks /\ Take(run, run.Key)

(* Transitions of the job as a whole. *)
JobTransition ==
  \/ StartPlanning
  \/ At("recordPR") /\ RecordPullRequest
  \/ At("recordMerge") /\ RecordMerge
  \/ At("fail") /\ FailJob
  \/ job.Status = "awaiting_ci" /\ call = Idle /\ FailJob
  \/ At("draftCheck") /\ DraftUsable /\ StartCI(pr.head)
  \/ At("repair") /\ BeginCIReplan(job.CI.FailureFingerprint)
  \/ At("resetRound") /\ ResetHolisticRound
  \/ At("ownHolistic") /\ StartHolisticReviewer(job.HolisticRounds + 1, job.IntegrationSHA)
  \/ At("retryPlanning") /\ RetryPlanning
  \/ /\ job.Status = "awaiting_ci" /\ call = Idle /\ pr.head = job.CI.HeadSHA
     /\ \E state \in {"pending", "blocked", "passed", "failed"} :
        \E print \in Fingerprint \cup {NoPrint} :
          /\ RecordCI(pr.head, state, print) /\ (state = "passed" <=> pr.checks = "passed")
          /\ state = "passed" => call'.at = "resetRound"
  \/ \E run \in DOMAIN runs : /\ Applicable(run) /\ run.Role \in {"planner", "holistic"}
                              /\ runs[run] = "failed" /\ FailJob
  \/ \E run \in DOMAIN runs :
       /\ Applicable(run) /\ run.Role = "holistic" /\ runs[run] \notin {"malformed", "failed"}
       /\ call = Idle
       /\ RecordHolisticReview(run.Attempt, job.IntegrationSHA, runs[run])

(* Transitions that extend the plan or start tasks again. *)
PlanTransition ==
  \/ \E run \in DOMAIN runs :
       /\ Applicable(run) /\ run.Role = "planner" /\ runs[run] \in DOMAIN PlanOf
       /\ \/ run.Key = RevisionKey /\ RevisePlan(PlanOf[runs[run]])
          \/ run.Key # RevisionKey /\ SubmitPlan(PlanOf[runs[run]])
  \/ At("repair") /\ StartCIRemediation(job.CI.FailureFingerprint)
  \/ At("reopen") /\ StartReviewRemediation
                  /\ \A k \in DOMAIN tasks : ~Incomplete(tasks[k])
  \/ At("reopen") /\ ReopenIncompleteTasks

(* Transitions an operator asks for. *)
OperatorTransition ==
  /\ call = Idle
  /\ \/ Resume
     \/ /\ left.operator > 0 /\ left' = [left EXCEPT !.operator = @ - 1]
        /\ \/ \E k \in DOMAIN tasks : ResumeBlockedWriter(k) \/ ReopenNoChangesTask(k)
           \/ ResetHolisticRound \/ Pause \/ Cancel
           \/ \E sha : StartHolisticRereview(sha)

(* What a step does to the record. *)
Transition ==
  \/ UNCHANGED pipelineVars
  \/ TaskTransition \/ JobTransition \/ PlanTransition \/ OperatorTransition
  \/ Reload

LEMMA LaunchTransition ==
  ASSUME NEW k, LaunchWriter(k)
  PROVE  UNCHANGED pipelineVars \/ RecordTaskBase(k, repo.head)
BY DEF LaunchWriter

(* The steps of a handler on one task. *)
LEMMA TaskStepTransition ==
  ASSUME IInv, \/ Complete \/ OwnReviewer \/ DecideReview \/ StopTask \/ DispatchWriter \/ OwnWriter
               \/ OwnReady \/ MergeConflict \/ Integrated \/ ReleaseWriter \/ ReleaseReviewer
  PROVE  Transition
<1>1. call.at \in TaskSteps
  BY DEF Complete, OwnReviewer, DecideReview, StopTask, DispatchWriter, OwnWriter, OwnReady,
         MergeConflict, Integrated, ReleaseWriter, ReleaseReviewer, At, TaskSteps
<1>2. call.key \in DOMAIN tasks
  BY <1>1, InvFacts DEF TaskSteps
<1>3. CASE DispatchWriter
  BY <1>2, <1>3, LaunchTransition DEF DispatchWriter, Transition, TaskTransition, WorkOn
<1>4. CASE \/ Complete \/ OwnReviewer \/ DecideReview \/ StopTask \/ OwnWriter \/ OwnReady
           \/ MergeConflict \/ Integrated \/ ReleaseWriter \/ ReleaseReviewer
  <2>1. WorkOn(call.key)
    BY <1>4 DEF Complete, OwnReviewer, DecideReview, StopTask, OwnWriter, OwnReady, MergeConflict,
                Integrated, ReleaseWriter, ReleaseReviewer, WorkOn, At
  <2> QED  BY <1>2, <2>1 DEF Transition, TaskTransition
<1> QED  BY <1>3, <1>4

(* Those that pick a task of the listing. *)
LEMMA PickTransition ==
  ASSUME IInv, DispatchReady \/ BeginIntegration
  PROVE  Transition
<1>1. TypeOK
  BY InvFacts
<1>2. CASE DispatchReady
  <2>1. PICK k \in FirstTask(Ready) :
          IF tasks[k].WriterAttempts >= MaxWriterAttempts THEN BlockTask(k) ELSE LaunchWriter(k)
    BY <1>2 DEF DispatchReady
  <2>2. k \in Ready
    BY DEF FirstTask
  <2>3. k \in DOMAIN tasks /\ tasks[k].WriterAttempts \in Nat
    BY <1>1, <2>2 DEF Ready, TypeOK, PipelineTypeOK, Task
  <2>4. \/ tasks[k].WriterAttempts >= MaxWriterAttempts /\ BlockTask(k)
        \/ tasks[k].WriterAttempts < MaxWriterAttempts /\ LaunchWriter(k)
    BY <2>1, <2>3, OrchestrationAssumption
  <2>5. UNCHANGED pipelineVars \/ Pick(k)
    BY <1>2, <2>2, <2>4, LaunchTransition DEF Pick, DispatchReady
  <2> QED  BY <2>3, <2>5 DEF Transition, TaskTransition
<1>3. CASE BeginIntegration
  <2>1. PICK k \in FirstTask(Integrable) : UNCHANGED pipelineVars \/ StartIntegration(k)
    BY <1>3 DEF BeginIntegration
  <2>2. k \in DOMAIN tasks
    BY <1>1, ListedPlanned
  <2> QED  BY <1>3, <2>1, <2>2 DEF BeginIntegration, Transition, TaskTransition, Pick
<1> QED  BY <1>2, <1>3

(* Every step of a handler. *)
LEMMA ContinueTransition ==
  ASSUME IInv, Continue
  PROVE  Transition
<1>1. CASE \/ Complete \/ OwnReviewer \/ DecideReview \/ StopTask \/ DispatchWriter \/ OwnWriter
           \/ OwnReady \/ MergeConflict \/ Integrated \/ ReleaseWriter \/ ReleaseReviewer
  BY <1>1, TaskStepTransition
<1>2. CASE DispatchReady \/ BeginIntegration
  BY <1>2, PickTransition
<1>3. CASE \/ SavePullRequest \/ BeginCI \/ SaveMerge \/ OwnHolistic \/ NewHolisticRound \/ StopJob
           \/ EscalateCI \/ RenewPlanning
  BY <1>3 DEF SavePullRequest, BeginCI, SaveMerge, OwnHolistic, NewHolisticRound, StopJob, EscalateCI,
              RenewPlanning, Transition, JobTransition
<1>4. CASE Reopen \/ RepairCI
  BY <1>4 DEF Reopen, RepairCI, Transition, PlanTransition
<1>5. CASE \/ Mark \/ DispatchReviewer \/ NoneReady \/ IntegrationRefused \/ NoneIntegrable \/ MergeTask
           \/ PushBranch \/ CreatePR \/ DraftRefused \/ Publish \/ Promote \/ PassGate \/ GateRefused
           \/ AlreadyMerged \/ MergePR \/ DispatchHolistic \/ DispatchPlanner \/ NextReviewer
           \/ CancelRuns
  <2>1. UNCHANGED pipelineVars
    BY <1>5 DEF Mark, DispatchReviewer, NoneReady, IntegrationRefused, NoneIntegrable, MergeTask,
                PushBranch, CreatePR, DraftRefused, Publish, Promote, PassGate, GateRefused,
                AlreadyMerged, MergePR, DispatchHolistic, DispatchPlanner, NextReviewer, CancelRuns,
                pipelineVars
  <2> QED  BY <2>1 DEF Transition
<1> QED  BY <1>1, <1>2, <1>3, <1>4, <1>5 DEF Continue, HandlerStep

(* Every application of an answer. *)
LEMMA OutcomeTransition ==
  ASSUME IInv, NEW run \in DOMAIN runs, ApplyOutcome(run)
  PROVE  Transition
<1>1. CASE ApplySettled(run) \/ ApplyWriterCommit(run) \/ ApplyWriterHandoff(run)
  BY <1>1 DEF ApplySettled, ApplyWriterCommit, ApplyWriterHandoff, Transition, pipelineVars
<1>2. CASE ApplyPlan(run)
  BY <1>2 DEF ApplyPlan, Transition, PlanTransition
<1>3. CASE ApplyHolistic(run)
  BY <1>3 DEF ApplyHolistic, Enter, Transition, JobTransition
<1>4. CASE ApplyFailure(run) /\ run.Role \in {"planner", "holistic"}
  BY <1>4 DEF ApplyFailure, Transition, JobTransition
<1>5. CASE \/ ApplyFailure(run) /\ run.Role \notin {"planner", "holistic"}
           \/ ApplyWriterNoChanges(run) \/ ApplyWriterBlocked(run) \/ ApplyReview(run)
  <2>1. Applicable(run) /\ run.Role \notin {"planner", "holistic"}
    BY <1>5 DEF ApplyFailure, ApplyWriterNoChanges, ApplyWriterBlocked, ApplyReview, Working
  <2>2. run.Role \in {"writer", "reviewer"} /\ run.Key \in DOMAIN tasks
    BY <2>1, ApplicableFacts DEF Roles
  <2>3. Take(run, run.Key)
    BY <1>5, <2>1, <2>2 DEF ApplyFailure, ApplyWriterNoChanges, ApplyWriterBlocked, ApplyReview,
       Commits, Take
  <2> QED  BY <2>2, <2>3 DEF Transition, TaskTransition
<1> QED  BY <1>1, <1>2, <1>3, <1>4, <1>5 DEF ApplyOutcome

(* Polls and tools. *)
LEMMA PollTransition ==
  ASSUME IInv, Poll
  PROVE  Transition
<1>1. CASE ObserveForeignHead
  BY <1>1 DEF ObserveForeignHead, Transition, JobTransition
<1>2. CASE ObserveChecks
  <2>1. PICK state : /\ state \in CASE pr.checks = "pending" -> {"pending", "blocked"}
                                    [] pr.checks = "passed" -> {"passed"}
                                    [] OTHER -> {"failed"}
                     /\ RecordCI(pr.head, state, IF state = "failed" THEN pr.checks ELSE NoPrint)
                     /\ CASE state = "passed" -> Enter("resetRound", JobKey, NoRun, "return")
                          [] state = "failed" -> Enter("repair", JobKey, NoRun, "return")
                          [] OTHER -> call = Idle /\ UNCHANGED call
    BY <1>2 DEF ObserveChecks
  <2>2. pr.checks \in {"pending", "passed"} \cup Fingerprint
    BY InvFacts DEF EnvTypeOK, PullRequest
  <2>7. state = "passed" => call'.at = "resetRound"
    BY <2>1 DEF Enter
  <2>3. /\ state \in {"pending", "blocked", "passed", "failed"}
        /\ (IF state = "failed" THEN pr.checks ELSE NoPrint) \in Fingerprint \cup {NoPrint}
        /\ state = "passed" <=> pr.checks = "passed"
        /\ state = "passed" => call'.at = "resetRound"
    <3>1. CASE pr.checks = "pending"
      BY <2>1, <2>7, <3>1
    <3>2. CASE pr.checks = "passed"
      BY <2>1, <2>7, <3>2
    <3>3. CASE pr.checks \notin {"pending", "passed"}
      BY <2>1, <2>2, <2>7, <3>3
    <3> QED  BY <3>1, <3>2, <3>3
  <2>4. call = Idle
    BY <2>1 DEF Enter
  <2>5. job.Status = "awaiting_ci" /\ pr.head = job.CI.HeadSHA
    BY <1>2 DEF ObserveChecks
  <2> QED  BY <2>1, <2>3, <2>4, <2>5 DEF Transition, JobTransition
<1>3. CASE ~ObserveForeignHead /\ ~ObserveChecks
  BY <1>3 DEF Poll, ReconcileTasks, ReconcileReplan, ReconcileHolistic, ReconcileCancelled,
              ResumePlanner, ObservePublication, ObserveStrandedRound, Transition
<1> QED  BY <1>1, <1>2, <1>3

LEMMA OperatorTransits ==
  ASSUME Operator
  PROVE  Transition
<1>1. CASE \E k \in DOMAIN tasks : RetryCodeTask(k)
  <2>1. PICK k \in DOMAIN tasks : RetryCodeTask(k)
    BY <1>1
  <2>2. \/ UNCHANGED pipelineVars
        \/ (ResumeBlockedWriter(k) \/ ReopenNoChangesTask(k)) /\ Operate("writer", k, "return")
    BY <2>1 DEF RetryCodeTask
  <2> QED  BY <2>2 DEF Operate, Enter, Spend, Transition, OperatorTransition
<1>2. CASE RetryCodePlanning \/ PublishApproved
  BY <1>2 DEF RetryCodePlanning, PublishApproved, Transition
<1>3. CASE ResetHolisticReview \/ StartRereview \/ PauseJob \/ ResumeJob \/ CancelCodeJob
  BY <1>3 DEF ResetHolisticReview, StartRereview, PauseJob, ResumeJob, CancelCodeJob, Operate, Enter,
              Spend, Transition, OperatorTransition
<1> QED  BY <1>1, <1>2, <1>3 DEF Operator

(* What every step does to the record. *)
LEMMA StepTransition ==
  ASSUME IInv, [Next]_vars
  PROVE  Transition
<1>1. CASE CreateAndPlan
  BY <1>1 DEF CreateAndPlan, Transition, JobTransition
<1>2. CASE \E run \in DOMAIN runs : ApplyOutcome(run)
  BY <1>2, OutcomeTransition
<1>3. CASE Continue \/ Poll \/ Operator
  BY <1>3, ContinueTransition, PollTransition, OperatorTransits
<1>4. CASE Restart
  BY <1>4 DEF Restart, Transition
<1>5. CASE \/ \E run \in DOMAIN runs : Answer(run)
           \/ ChecksFinish \/ ChecksRerun \/ ForeignPush \/ ForeignMerge \/ Abandon
           \/ UNCHANGED vars
  <2>1. UNCHANGED pipelineVars
    BY <1>5 DEF Answer, ChecksFinish, ChecksRerun, ForeignPush, ForeignMerge, Abandon, vars,
                pipelineVars
  <2> QED  BY <2>1 DEF Transition
<1> QED  BY <1>1, <1>2, <1>3, <1>4, <1>5 DEF Next

-----------------------------------------------------------------------------
(* Where a handler that is at a step that matters came from. *)

Watched == {"writer", "ownWriter", "ownReady", "ownReviewer", "ownHolistic", "block", "reopen",
            "retryWriter", "retryReview", "retryPlanning"}
Unwatched == {"idle", "mark", "reviewers", "reviewer", "complete", "verdict", "ready", "integrate",
              "merge", "integrated", "draft", "createPR", "recordPR", "draftCheck", "publish", "gate",
              "mergePR", "recordMerge", "holistic", "resetRound", "repair", "revision", "planner",
              "fail", "cancelRuns"}

(* The handler stays where it is: an agent, GitHub or a fault acts.         *)
Beside == /\ call' = call /\ UNCHANGED <<plan, tasks>>
          /\ job' = job \/ StartPlanning
          /\ DOMAIN runs \subseteq DOMAIN runs'

(* It moves on. *)
Keeping == call'.key = call.key /\ call'.run = call.run
Arrives ==
  \/ DecideReview /\ Keeping /\ call'.at \in {"writer", "block"}
  \/ DispatchWriter /\ Keeping /\ call'.at = "ownWriter"
  \/ DispatchReviewer /\ Keeping /\ call'.at = "ownReviewer"
  \/ DispatchHolistic /\ call'.at = "ownHolistic"
  \/ ReleaseWriter /\ call'.at = "writer"
  \/ \E k \in DOMAIN tasks : /\ At("ready") /\ k \in Ready /\ tasks[k].WriterAttempts < MaxWriterAttempts
                             /\ LaunchWriter(k) /\ call'.at = "ownReady" /\ call'.key = k
  \/ \E run \in DOMAIN runs : ApplyHolistic(run) /\ call'.at = "reopen"
  \/ /\ Operator /\ call = Idle /\ left'.operator = left.operator - 1
     /\ call'.at \in {"writer", "retryWriter", "retryReview", "retryPlanning"}

Unwatching == call'.at \in Unwatched

LEMMA Unwatchable == Unwatched \cap Watched = {} /\ Unwatched \cup Watched = Steps
BY DEF Unwatched, Watched, Steps

(* The steps of a handler. *)
LEMMA ContinueArrives ==
  ASSUME IInv, Continue
  PROVE  Unwatching \/ Arrives
<1>1. call \in Call /\ TypeOK
  BY InvFacts
<1>2. ASSUME NEW step, Go(step)  PROVE call'.at = step /\ Keeping
  BY <1>1, <1>2 DEF Go, Call, Keeping
<1>3. ASSUME Return \/ Error  PROVE Unwatching
  BY <1>1, <1>3, CallAt DEF Unwatching, Unwatched
<1>4. CASE \/ Mark \/ OwnReviewer \/ StopTask \/ OwnWriter \/ NoneReady \/ IntegrationRefused
           \/ MergeConflict \/ BeginCI \/ DraftRefused \/ PassGate \/ GateRefused \/ MergePR
           \/ SaveMerge \/ OwnHolistic \/ StopJob \/ EscalateCI \/ DispatchPlanner \/ CancelRuns
  <2>1. Return \/ Error \/ \E step \in Unwatched : Go(step)
    BY <1>4 DEF Mark, OwnReviewer, StopTask, OwnWriter, NoneReady, IntegrationRefused, MergeConflict,
       BeginCI, DraftRefused, PassGate, GateRefused, MergePR, SaveMerge, OwnHolistic, StopJob,
       EscalateCI, DispatchPlanner, CancelRuns, Unwatched
  <2> QED  BY <1>2, <1>3, <2>1 DEF Unwatching
<1>5. CASE \/ Complete \/ OwnReady \/ NoneIntegrable \/ BeginIntegration \/ MergeTask
           \/ Integrated \/ PushBranch \/ CreatePR \/ SavePullRequest \/ Publish \/ AlreadyMerged
           \/ NewHolisticRound \/ RepairCI \/ ReleaseReviewer \/ RenewPlanning \/ Reopen
  <2>1. \/ \E step \in Unwatched : Go(step)
        \/ GoThen("ready", "return") \/ \E k : With("merge", k)
    BY <1>5 DEF Complete, OwnReady, NoneIntegrable, BeginIntegration, MergeTask, Integrated,
       PushBranch, CreatePR, SavePullRequest, Publish, AlreadyMerged, NewHolisticRound, RepairCI,
       ReleaseReviewer, RenewPlanning, Reopen, Unwatched
  <2> QED  BY <1>1, <1>2, <2>1, CallAt DEF Unwatching, Unwatched
<1>6. CASE NextReviewer
  <2>1. GoThen("integrate", "draft") \/ \E k : With("reviewer", k)
    BY <1>6 DEF NextReviewer
  <2> QED  BY <1>1, <2>1, CallAt DEF Unwatching, Unwatched
<1>7. CASE DispatchReady
  <2>1. PICK k \in FirstTask(Ready) :
          IF tasks[k].WriterAttempts >= MaxWriterAttempts THEN UNCHANGED call
          ELSE LaunchWriter(k) /\ With("ownReady", k)
    BY <1>7 DEF DispatchReady
  <2>2. k \in Ready
    BY DEF FirstTask
  <2>3. k \in DOMAIN tasks /\ tasks[k].WriterAttempts \in Nat
    BY <1>1, <2>2 DEF Ready, TypeOK, PipelineTypeOK, Task
  <2>4. CASE UNCHANGED call
    BY <1>7, <2>4 DEF DispatchReady, At, Unwatching, Unwatched
  <2>5. CASE tasks[k].WriterAttempts < MaxWriterAttempts /\ LaunchWriter(k) /\ With("ownReady", k)
    BY <1>1, <1>7, <2>2, <2>3, <2>5, CallAt DEF DispatchReady, Arrives
  <2> QED  BY <2>1, <2>3, <2>4, <2>5, OrchestrationAssumption
<1>8. CASE Promote
  BY <1>8 DEF Promote, At, Unwatching, Unwatched
<1>9. CASE DispatchWriter \/ DispatchReviewer \/ DispatchHolistic \/ ReleaseWriter
  BY <1>2, <1>9 DEF DispatchWriter, DispatchReviewer, DispatchHolistic, ReleaseWriter, Arrives
<1>10. CASE DecideReview
  <2>1. GoThen("integrate", "draft") \/ Go("writer") \/ Go("block")
    BY <1>10 DEF DecideReview
  <2>2. CASE GoThen("integrate", "draft")
    BY <1>1, <2>2, CallAt DEF Unwatching, Unwatched
  <2> QED  BY <1>2, <1>10, <2>1, <2>2 DEF Arrives
<1> QED  BY <1>4, <1>5, <1>6, <1>7, <1>8, <1>9, <1>10 DEF Continue, HandlerStep

(* Answers, polls and tools. *)
LEMMA StartArrives ==
  ASSUME IInv, \/ \E run \in DOMAIN runs : ApplyOutcome(run)
               \/ (Poll /\ ~ResumePlanner) \/ Operator
  PROVE  Unwatching \/ Arrives
<1>1. ASSUME \E step \in Unwatched : \E key, run, then : Enter(step, key, run, then)
      PROVE  Unwatching
  BY <1>1 DEF Enter, Unwatching
<1>2. ASSUME call = Idle, UNCHANGED call \/ call' = Idle
      PROVE  Unwatching
  BY <1>2 DEF Idle, Unwatching, Unwatched
<1>3. CASE \E run \in DOMAIN runs : ApplyOutcome(run)
  <2> PICK run \in DOMAIN runs : ApplyOutcome(run)
    BY <1>3
  <2>1. CASE ApplySettled(run)
    BY <1>2, <2>1 DEF ApplySettled
  <2>2. CASE ApplyHolistic(run)
    <3>1. \E step \in {"publish", "reopen", "fail"} : Enter(step, JobKey, run, "publish")
      <4>1. \/ runs[run] = "approved"
            \/ runs[run] # "approved" /\ runs[run] = "changes_requested"
               /\ job.HolisticRounds <= MaxHolisticRemediationRounds
            \/ runs[run] # "approved" /\ ~(runs[run] = "changes_requested"
               /\ job.HolisticRounds <= MaxHolisticRemediationRounds)
        OBVIOUS
      <4> QED  BY <2>2, <4>1 DEF ApplyHolistic
    <3> QED  BY <2>2, <3>1 DEF Enter, Unwatching, Unwatched, Arrives
  <2>3. CASE \/ ApplyFailure(run) \/ ApplyPlan(run) \/ ApplyWriterNoChanges(run) \/ ApplyWriterBlocked(run)
             \/ ApplyWriterHandoff(run) \/ ApplyWriterCommit(run) \/ ApplyReview(run)
    <3>1. \E step \in {"mark", "ready", "integrate", "reviewer", "complete", "verdict"} :
            \E key, then : Enter(step, key, run, then)
      BY <2>3 DEF ApplyFailure, ApplyPlan, ApplyWriterNoChanges, ApplyWriterBlocked, ApplyWriterHandoff,
                  ApplyWriterCommit, ApplyReview
    <3> QED  BY <1>1, <3>1 DEF Unwatched
  <2> QED  BY <2>1, <2>2, <2>3 DEF ApplyOutcome
<1>4. CASE Poll /\ ~ResumePlanner
  <2>1. CASE ObserveChecks
    <3>1. \/ \E step \in {"resetRound", "repair"} : Enter(step, JobKey, NoRun, "return")
          \/ call = Idle /\ UNCHANGED call
      <4>1. PICK state : CASE state = "passed" -> Enter("resetRound", JobKey, NoRun, "return")
                           [] state = "failed" -> Enter("repair", JobKey, NoRun, "return")
                           [] OTHER -> call = Idle /\ UNCHANGED call
        BY <2>1 DEF ObserveChecks
      <4> QED  BY <4>1
    <3> QED  BY <1>1, <1>2, <3>1 DEF Unwatched
  <2>2. CASE ObserveForeignHead
    BY <1>2, <2>2 DEF ObserveForeignHead
  <2>3. CASE ReconcileHolistic
    <3>1. Enter("holistic", JobKey, NoRun, "draft") \/ Enter("draft", JobKey, NoRun, "draft")
      BY <2>3 DEF ReconcileHolistic
    <3> QED  BY <1>1, <3>1 DEF Unwatched
  <2>4. CASE \/ ReconcileTasks \/ ReconcileReplan \/ ReconcileCancelled \/ ObservePublication
             \/ ObserveStrandedRound
    <3>1. \E step \in {"reviewers", "revision", "cancelRuns", "publish", "holistic"} : \E then :
            Enter(step, JobKey, NoRun, then)
      BY <2>4 DEF ReconcileTasks, ReconcileReplan, ReconcileCancelled, ObservePublication,
         ObserveStrandedRound
    <3> QED  BY <1>1, <3>1 DEF Unwatched
  <2> QED  BY <1>4, <2>1, <2>2, <2>3, <2>4 DEF Poll
<1>5. CASE Operator
  <2>0. ASSUME Spend("operator")  PROVE left'.operator = left.operator - 1
    <3>1. left \in Budgets
      BY InvFacts DEF EnvTypeOK
    <3> QED  BY <2>0, <3>1 DEF Spend, Budgets
  <2>1. CASE PauseJob \/ ResumeJob
    BY <1>2, <2>1 DEF PauseJob, ResumeJob
  <2>2. CASE \E k \in DOMAIN tasks : RetryCodeTask(k)
    <3>1. \E step \in {"retryReview", "retryWriter", "writer"} : \E key : Operate(step, key, "return")
      BY <2>2 DEF RetryCodeTask
    <3> QED  BY <1>5, <2>0, <3>1 DEF Operate, Enter, Arrives
  <2>3. CASE RetryCodePlanning
    BY <1>5, <2>0, <2>3 DEF RetryCodePlanning, Operate, Enter, Arrives
  <2>4. CASE ResetHolisticReview \/ StartRereview \/ PublishApproved \/ CancelCodeJob
    <3>1. \E step \in {"holistic", "publish", "cancelRuns"} : \E then :
            Operate(step, JobKey, then)
      BY <2>4 DEF ResetHolisticReview, StartRereview, PublishApproved, CancelCodeJob
    <3> QED  BY <1>1, <3>1 DEF Operate, Unwatched
  <2> QED  BY <1>5, <2>1, <2>2, <2>3, <2>4 DEF Operator
<1> QED  BY <1>3, <1>4, <1>5

(* Every step. *)
LEMMA StepArrives ==
  ASSUME IInv, [Next]_vars, call'.at \in Watched
  PROVE  Beside \/ Arrives
<1>1. ~Unwatching
  BY Unwatchable DEF Unwatching
<1>2. CASE Continue
  BY <1>1, <1>2, ContinueArrives
<1>3. CASE (\E run \in DOMAIN runs : ApplyOutcome(run)) \/ (Poll /\ ~ResumePlanner) \/ Operator
  BY <1>1, <1>3, StartArrives
<1>4. CASE Abandon \/ Restart
  BY <1>4 DEF Abandon, Restart, Error, Idle, Watched
<1>5. CASE \/ CreateAndPlan \/ ResumePlanner \/ \E run \in DOMAIN runs : Answer(run)
           \/ ChecksFinish \/ ChecksRerun \/ ForeignPush \/ ForeignMerge \/ UNCHANGED vars
  <2>1. AnswersStay
    BY StepAnswers
  <2>2. /\ UNCHANGED <<call, plan, tasks>>
        /\ job' = job \/ StartPlanning
    BY <1>5 DEF CreateAndPlan, StartPlanning, ResumePlanner, Answer, ChecksFinish, ChecksRerun,
                ForeignPush, ForeignMerge, vars, pipelineVars
  <2> QED  BY <2>1, <2>2 DEF Beside, AnswersStay
<1> QED  BY <1>2, <1>3, <1>4, <1>5 DEF Next

-----------------------------------------------------------------------------
(* What a step does to one task: t is the task before, u after it. *)

SameCounts(t, u) == u.WriterAttempts = t.WriterAttempts /\ u.ReviewerAttempts = t.ReviewerAttempts
Rests(t, u) == u.Status = t.Status /\ SameOwners(t, u) /\ SameCounts(t, u)

Starts(k, t, u) ==
  /\ call.at \in {"ownWriter", "ownReady"} /\ call.key = k
  /\ t.Status \in {"planned", "changes_requested", "blocked"} /\ u.Status = "working"
  /\ u.WriterRunID = t.WriterAttempts + 1 /\ u.WriterAttempts = t.WriterAttempts + 1
  /\ u.ReviewerRunID = 0 /\ u.ReviewVerdict = "pending" /\ u.ReviewerAttempts = t.ReviewerAttempts
  /\ job'.Status = "working"
Completes(k, t, u) ==
  /\ At("complete") /\ call.key = k
  /\ t.Status = "working" /\ u.Status = "reviewing" /\ u.ReviewVerdict = "pending"
  /\ u.WriterRunID = t.WriterRunID /\ u.ReviewerRunID = t.ReviewerRunID /\ SameCounts(t, u)
  /\ job'.Status = "reviewing"
FindsNothing(k, t, u) ==
  /\ t.Status = "working" /\ u.Status = "no_changes" /\ SameOwners(t, u) /\ SameCounts(t, u)
  /\ Given(RunOf("writer", k, t.WriterRunID)) /\ k \notin repo.ahead
GetsReviewer(k, t, u) ==
  /\ At("ownReviewer") /\ call.key = k
  /\ t.Status = "reviewing" /\ t.ReviewerRunID = 0
  /\ u.Status = "reviewing" /\ u.ReviewerRunID = t.ReviewerAttempts + 1
  /\ u.ReviewerAttempts = t.ReviewerAttempts + 1
  /\ u.WriterRunID = t.WriterRunID /\ u.WriterAttempts = t.WriterAttempts
  /\ u.ReviewVerdict = t.ReviewVerdict
IsJudged(k, t, u) ==
  /\ At("verdict") /\ call.key = k
  /\ t.Status = "reviewing"
  /\ u.Status \in {"changes_requested", "blocked", "integration_eligible", "approved"}
  /\ u.Status = "integration_eligible" => PrerequisitesMet(tasks, k)
  /\ u.ReviewerRunID = call.run.Attempt /\ u.ReviewVerdict = VerdictOf(call.run)
  /\ u.WriterRunID = t.WriterRunID /\ u.WriterAttempts = t.WriterAttempts
  /\ t.ReviewerRunID = call.run.Attempt /\ call.run.Attempt > 0 =>
       u.ReviewerAttempts = t.ReviewerAttempts
IsBlocked(k, t, u) ==
  /\ u.Status = "blocked" /\ SameOwners(t, u) /\ SameCounts(t, u)
  /\ \/ At("block") /\ call.key = k
     \/ At("merge") /\ call.key = k /\ k \notin repo.merged
     \/ /\ t.Status \in {"planned", "changes_requested", "working"}
        /\ t.Status = "working" \/ t.WriterAttempts >= MaxWriterAttempts
     \/ \E run \in DOMAIN runs : /\ Applicable(run) /\ run.Role \in {"writer", "reviewer"}
                                 /\ runs[run] = "failed" /\ run.Key = k
BeginsIntegration(k, t, u) ==
  /\ t.Status = "integration_eligible" /\ u.Status = "integrating"
  /\ PrerequisitesMet(tasks, k) /\ SameOwners(t, u) /\ SameCounts(t, u)
  /\ job'.Status = "integrating"
EndsIntegration(k, t, u) ==
  /\ At("integrated") /\ call.key = k
  /\ t.Status = "integrating" /\ u.Status = "integrated" /\ SameOwners(t, u) /\ SameCounts(t, u)
  /\ job'.IntegrationSHA = repo.head
BecomesEligible(k, t, u) ==
  /\ t.Status = "approved" /\ u.Status = "integration_eligible"
  /\ SameOwners(t, u) /\ SameCounts(t, u)
  /\ \A j \in DOMAIN tasks : Precedes(plan.IntegrationOrder, j, k) => Done(tasks'[j].Status)
IsReleased(k, t, u) ==
  /\ At("retryWriter") /\ call.key = k
  /\ t.Status = "working" /\ u.Status = "planned" /\ u.WriterRunID = 0
  /\ u.ReviewerRunID = t.ReviewerRunID /\ u.ReviewVerdict = t.ReviewVerdict /\ SameCounts(t, u)
  /\ job'.Status = "planned"
LosesReviewer(k, t, u) ==
  /\ At("retryReview") /\ call.key = k
  /\ t.Status = "reviewing" /\ u.Status = "reviewing" /\ u.ReviewerRunID = 0
  /\ u.WriterRunID = t.WriterRunID /\ u.ReviewVerdict = t.ReviewVerdict /\ SameCounts(t, u)
IsReopened(k, t, u) ==
  /\ Incomplete(t) /\ u.Status = "planned" /\ u.WriterRunID = 0
  /\ u.ReviewerRunID = t.ReviewerRunID /\ u.ReviewVerdict = t.ReviewVerdict /\ SameCounts(t, u)
  /\ job'.Status = "planned"
  /\ \/ At("reopen")
     \/ left'.operator # left.operator

Changes(k, t, u) ==
  \/ Rests(t, u) \/ Starts(k, t, u) \/ Completes(k, t, u) \/ FindsNothing(k, t, u)
  \/ GetsReviewer(k, t, u) \/ IsJudged(k, t, u) \/ IsBlocked(k, t, u)
  \/ BeginsIntegration(k, t, u) \/ EndsIntegration(k, t, u) \/ BecomesEligible(k, t, u)
  \/ IsReleased(k, t, u) \/ LosesReviewer(k, t, u) \/ IsReopened(k, t, u)

TasksChange ==
  /\ DOMAIN tasks \subseteq DOMAIN tasks'
  /\ \A k \in DOMAIN tasks : Changes(k, tasks[k], tasks'[k])
  /\ \A k \in DOMAIN tasks' : k \notin DOMAIN tasks => Fresh(tasks'[k])

LEMMA OneChanges ==
  ASSUME NEW k \in DOMAIN tasks, NEW t, tasks' = Update(k, t), Changes(k, tasks[k], t)
  PROVE  TasksChange
<1>1. /\ DOMAIN tasks' = DOMAIN tasks /\ tasks'[k] = t
      /\ \A j \in DOMAIN tasks : j # k => tasks'[j] = tasks[j]
  BY DEF Update
<1>2. \A j \in DOMAIN tasks : j # k => Changes(j, tasks[j], tasks'[j])
  BY <1>1 DEF Changes, Rests, SameOwners, SameCounts
<1> QED  BY <1>1, <1>2 DEF TasksChange

LEMMA NoneChange ==
  ASSUME UNCHANGED tasks
  PROVE  TasksChange
BY DEF TasksChange, Changes, Rests, SameOwners, SameCounts

(* One task is done, and others become eligible. *)
LEMMA OneIsDone ==
  ASSUME PipelineTypeOK, NEW k \in DOMAIN tasks, NEW t \in Task, Changes(k, tasks[k], t),
         t.Status # "approved", tasks' = RefreshEligibility(Update(k, t))
  PROVE  TasksChange
<1> DEFINE ts == Update(k, t)
<1>1. /\ DOMAIN ts = DOMAIN tasks /\ ts[k] = t
      /\ \A j \in DOMAIN tasks : j # k => ts[j] = tasks[j]
      /\ \A j \in DOMAIN tasks : tasks[j] \in Task
  BY DEF Update, PipelineTypeOK
<1> HIDE DEF ts
<1>2. DOMAIN tasks' = DOMAIN tasks /\ tasks'[k] = t
  BY <1>1 DEF RefreshEligibility, ts
<1>3. \A j \in DOMAIN tasks : Done(ts[j].Status) => Done(tasks'[j].Status)
  <2>1. \A j \in DOMAIN tasks : Done(ts[j].Status) => tasks'[j] = ts[j]
    BY <1>1 DEF RefreshEligibility, ts, Done
  <2> QED  BY <2>1
<1>4. ASSUME NEW j \in DOMAIN tasks, j # k  PROVE Changes(j, tasks[j], tasks'[j])
  <2>1. \/ tasks'[j] = tasks[j]
        \/ /\ tasks[j].Status = "approved" /\ PrerequisitesMet(ts, j)
           /\ tasks'[j] = [tasks[j] EXCEPT !.Status = "integration_eligible"]
    BY <1>1, <1>4 DEF RefreshEligibility, ts
  <2>2. CASE tasks'[j] = tasks[j]
    BY <2>2 DEF Changes, Rests, SameOwners, SameCounts
  <2>3. CASE /\ tasks[j].Status = "approved" /\ PrerequisitesMet(ts, j)
             /\ tasks'[j] = [tasks[j] EXCEPT !.Status = "integration_eligible"]
    <3>1. \A i \in DOMAIN tasks : Precedes(plan.IntegrationOrder, i, j) => Done(tasks'[i].Status)
      BY <1>1, <1>3, <2>3 DEF PrerequisitesMet
    <3>2. SameOwners(tasks[j], tasks'[j]) /\ SameCounts(tasks[j], tasks'[j])
          /\ tasks'[j].Status = "integration_eligible"
      BY <1>1, <2>3 DEF SameOwners, SameCounts, Task
    <3> QED  BY <2>3, <3>1, <3>2 DEF Changes, BecomesEligible
  <2> QED  BY <2>1, <2>2, <2>3
<1> QED  BY <1>2, <1>4 DEF TasksChange

(* Transitions of the task under work. *)
LEMMA WorkChanges ==
  ASSUME IInv, call.key \in DOMAIN tasks, WorkOn(call.key)
  PROVE  TasksChange
<1> DEFINE k == call.key
           t == tasks[k]
<1>0. PipelineTypeOK /\ t \in Task /\ t.WriterAttempts \in Nat /\ t.ReviewerAttempts \in Nat
  BY InvFacts DEF PipelineTypeOK, Task
<1>1. CASE At("writer") /\ RecordTaskBase(k, repo.head)
  <2>1. tasks' = Update(k, [t EXCEPT !.BaseSHA = repo.head])
    BY <1>1 DEF RecordTaskBase, Update
  <2>2. Rests(t, [t EXCEPT !.BaseSHA = repo.head])
    BY <1>0 DEF Rests, SameOwners, SameCounts, Task
  <2> QED  BY <2>1, <2>2, OneChanges DEF Changes
<1>2. CASE call.at \in {"ownWriter", "ownReady"} /\ StartTaskWork(k, t.WriterAttempts + 1)
  <2> DEFINE u == [t EXCEPT !.Status = "working", !.WriterRunID = t.WriterAttempts + 1,
                            !.ReviewerRunID = 0, !.ReviewVerdict = "pending",
                            !.WriterAttempts = @ + 1]
  <2>1. CASE UNCHANGED pipelineVars
    BY <2>1, NoneChange DEF pipelineVars
  <2>2. CASE ~UNCHANGED pipelineVars
    <3>1. /\ t.Status \in {"planned", "changes_requested", "blocked"}
          /\ tasks' = Update(k, u) /\ job' = [job EXCEPT !.Status = "working"]
      BY <1>2, <2>2 DEF StartTaskWork
    <3>2. job'.Status = "working"
      BY <1>0, <3>1 DEF PipelineTypeOK, Job
    <3>3. Starts(k, t, u)
      BY <1>0, <1>2, <3>1, <3>2 DEF Starts, Task
    <3> QED  BY <3>1, <3>3, OneChanges DEF Changes
  <2> QED  BY <2>1, <2>2
<1>3. CASE At("complete") /\ RecordWriterCompletion(k, call.run.Attempt)
  <2> DEFINE u == [t EXCEPT !.Status = "reviewing", !.ReviewVerdict = "pending"]
  <2>1. /\ t.Status = "working" /\ tasks' = Update(k, u) /\ job' = [job EXCEPT !.Status = "reviewing"]
    BY <1>3 DEF RecordWriterCompletion
  <2>2. job'.Status = "reviewing"
    BY <1>0, <2>1 DEF PipelineTypeOK, Job
  <2>3. Completes(k, t, u)
    BY <1>0, <1>3, <2>1, <2>2 DEF Completes, SameCounts, Task
  <2> QED  BY <2>1, <2>3, OneChanges DEF Changes
<1>4. CASE At("ownReviewer") /\ StartReviewer(k, t.ReviewerAttempts + 1)
  <2> DEFINE u == [t EXCEPT !.ReviewerRunID = t.ReviewerAttempts + 1, !.ReviewerAttempts = @ + 1]
  <2>1. /\ t.Status = "reviewing"
        /\ UNCHANGED tasks \/ (t.ReviewerRunID = 0 /\ tasks' = Update(k, u))
    BY <1>4 DEF StartReviewer
  <2>2. t.ReviewerRunID = 0 => GetsReviewer(k, t, u)
    BY <1>0, <1>4, <2>1 DEF GetsReviewer, Task
  <2> QED  BY <2>1, <2>2, OneChanges, NoneChange DEF Changes
<1>5. CASE At("verdict") /\ RecordReview(k, call.run.Attempt, VerdictOf(call.run))
  <2> DEFINE a == call.run.Attempt
             v == VerdictOf(call.run)
             d == Adopted(t, a)
             s == CASE v = "changes_requested" -> "changes_requested"
                    [] v = "blocked" -> "blocked"
                    [] v = "approved" /\ PrerequisitesMet(tasks, k) -> "integration_eligible"
                    [] OTHER -> "approved"
             u == [d EXCEPT !.ReviewerAttempts = IF d.ReviewerRunID = 0 THEN @ + 1 ELSE @,
                            !.ReviewerRunID = a, !.ReviewVerdict = v, !.Status = s]
  <2>1. UNCHANGED tasks \/ (d.Status = "reviewing" /\ tasks' = Update(k, u))
    BY <1>5 DEF RecordReview, pipelineVars
  <2>2. /\ d.Status = t.Status /\ d.WriterRunID = t.WriterRunID /\ d.WriterAttempts = t.WriterAttempts
        /\ t.ReviewerRunID = a => d = t
    BY <1>0 DEF Adopted, Task
  <2>3. /\ s \in {"changes_requested", "blocked", "integration_eligible", "approved"}
        /\ s = "integration_eligible" => PrerequisitesMet(tasks, k)
    OBVIOUS
  <2>4. DOMAIN d = DOMAIN t
    BY <1>0 DEF Adopted, Task
  <2> HIDE DEF s, d
  <2>5. /\ u.Status = s /\ u.ReviewerRunID = a /\ u.ReviewVerdict = v
        /\ u.WriterRunID = t.WriterRunID /\ u.WriterAttempts = t.WriterAttempts
        /\ t.ReviewerRunID = a /\ a > 0 => u.ReviewerAttempts = t.ReviewerAttempts
    BY <1>0, <2>2, <2>4 DEF Task
  <2>6. d.Status = "reviewing" => IsJudged(k, t, u)
    BY <1>5, <2>2, <2>3, <2>5 DEF IsJudged
  <2> HIDE DEF u
  <2> QED  BY <2>1, <2>6, OneChanges, NoneChange DEF Changes
<1>6. CASE (At("block") \/ (At("merge") /\ k \notin repo.merged)) /\ BlockTask(k)
  <2> DEFINE u == IF t.Status = "blocked" THEN t
                  ELSE [t EXCEPT !.Status = "blocked", !.BlockReason = NoPrint]
  <2>1. tasks' = Update(k, u)
    BY <1>6 DEF BlockTask
  <2>2. IsBlocked(k, t, u)
    BY <1>0, <1>6 DEF IsBlocked, SameOwners, SameCounts, Task
  <2> QED  BY <2>1, <2>2, OneChanges DEF Changes
<1>7. CASE At("integrated") /\ RecordIntegration(k, repo.head)
  <2> DEFINE u == [t EXCEPT !.Status = "integrated"]
  <2>1. t.Status = "integrating" /\ tasks' = RefreshEligibility(Update(k, u))
    BY <1>7 DEF RecordIntegration, Update
  <2>0. job'.IntegrationSHA = repo.head
    <3>1. job \in Job /\ \E s : job' = [job EXCEPT !.IntegrationSHA = repo.head, !.Status = s]
      BY <1>0, <1>7 DEF RecordIntegration, PipelineTypeOK
    <3> QED  BY <3>1 DEF Job
  <2>2. EndsIntegration(k, t, u) /\ u \in Task /\ u.Status # "approved"
    BY <1>0, <1>7, <2>0, <2>1 DEF EndsIntegration, SameOwners, SameCounts, Task, TaskStatus
  <2> HIDE DEF u
  <2> QED  BY <1>0, <2>1, <2>2, OneIsDone DEF Changes
<1>8. CASE At("retryWriter") /\ RetryWriter(k, t.WriterRunID)
  <2> DEFINE u == [t EXCEPT !.WriterRunID = 0, !.Status = "planned"]
  <2>1. t.Status = "working" /\ tasks' = Update(k, u) /\ job' = [job EXCEPT !.Status = "planned"]
    BY <1>8 DEF RetryWriter
  <2>2. job'.Status = "planned"
    BY <1>0, <2>1 DEF PipelineTypeOK, Job
  <2>3. IsReleased(k, t, u)
    BY <1>0, <1>8, <2>1, <2>2 DEF IsReleased, SameCounts, Task
  <2> QED  BY <2>1, <2>3, OneChanges DEF Changes
<1>9. CASE At("retryReview") /\ RetryReview(k, t.ReviewerRunID)
  <2> DEFINE u == [t EXCEPT !.ReviewerRunID = 0]
  <2>1. t.Status = "reviewing" /\ tasks' = Update(k, u)
    BY <1>9 DEF RetryReview
  <2>2. LosesReviewer(k, t, u)
    BY <1>0, <1>9, <2>1 DEF LosesReviewer, SameCounts, Task
  <2> QED  BY <2>1, <2>2, OneChanges DEF Changes
<1> QED  BY <1>1, <1>2, <1>3, <1>4, <1>5, <1>6, <1>7, <1>8, <1>9 DEF WorkOn

(* Transitions of a task the listing offers. *)
LEMMA PickChanges ==
  ASSUME IInv, NEW k \in DOMAIN tasks, Pick(k)
  PROVE  TasksChange
<1> DEFINE t == tasks[k]
<1>0. PipelineTypeOK /\ t \in Task
  BY InvFacts DEF PipelineTypeOK
<1>1. CASE RecordTaskBase(k, repo.head)
  <2>1. tasks' = Update(k, [t EXCEPT !.BaseSHA = repo.head])
    BY <1>1 DEF RecordTaskBase, Update
  <2>2. Rests(t, [t EXCEPT !.BaseSHA = repo.head])
    BY <1>0 DEF Rests, SameOwners, SameCounts, Task
  <2> QED  BY <2>1, <2>2, OneChanges DEF Changes
<1>2. CASE k \in Ready /\ t.WriterAttempts >= MaxWriterAttempts /\ BlockTask(k)
  <2> DEFINE u == IF t.Status = "blocked" THEN t
                  ELSE [t EXCEPT !.Status = "blocked", !.BlockReason = NoPrint]
  <2>1. tasks' = Update(k, u)
    BY <1>2 DEF BlockTask
  <2>2. IsBlocked(k, t, u)
    BY <1>0, <1>2 DEF IsBlocked, Ready, SameOwners, SameCounts, Task
  <2> QED  BY <2>1, <2>2, OneChanges DEF Changes
<1>3. CASE StartIntegration(k)
  <2> DEFINE u == [t EXCEPT !.Status = "integrating"]
  <2>1. /\ t.Status = "integration_eligible" /\ PrerequisitesMet(tasks, k)
        /\ tasks' = Update(k, u) /\ job' = [job EXCEPT !.Status = "integrating"]
    BY <1>3 DEF StartIntegration, Update
  <2>2. job'.Status = "integrating"
    BY <1>0, <2>1 DEF PipelineTypeOK, Job
  <2>3. BeginsIntegration(k, t, u)
    BY <1>0, <2>1, <2>2 DEF BeginsIntegration, SameOwners, SameCounts, Task
  <2> QED  BY <2>1, <2>3, OneChanges DEF Changes
<1> QED  BY <1>1, <1>2, <1>3 DEF Pick

(* A writer's run that applies is the owner of its task. *)
LEMMA WriterOwner ==
  ASSUME IInv, NEW run \in DOMAIN runs, Applicable(run), run.Role = "writer"
  PROVE  /\ run.Key \in DOMAIN tasks /\ tasks[run.Key].WriterRunID = run.Attempt
         /\ run = RunOf("writer", run.Key, run.Attempt)
<1>1. run \in Run
  BY InvFacts DEF EnvTypeOK
<1> QED  BY <1>1 DEF Applicable, Owns, Run, RunOf

(* And a reviewer's. *)
LEMMA ReviewerOwner ==
  ASSUME IInv, NEW run \in DOMAIN runs, Applicable(run), run.Role = "reviewer"
  PROVE  /\ run.Key \in DOMAIN tasks /\ tasks[run.Key].ReviewerRunID = run.Attempt
         /\ run = RunOf("reviewer", run.Key, run.Attempt)
<1>1. run \in Run
  BY InvFacts DEF EnvTypeOK
<1> QED  BY <1>1 DEF Applicable, Owns, Run, RunOf

(* Transitions of the task an answer is about. *)
LEMMA TakeChanges ==
  ASSUME IInv, NEW run \in DOMAIN runs, run.Key \in DOMAIN tasks, Take(run, run.Key)
  PROVE  TasksChange
<1> DEFINE k == run.Key
           t == tasks[k]
<1>0. PipelineTypeOK /\ t \in Task /\ Applicable(run)
  BY InvFacts DEF PipelineTypeOK, Take
<1>1. CASE BlockTask(k) /\ \/ run.Role \in {"writer", "reviewer"} /\ runs[run] = "failed"
                           \/ Working(run)
  <2> DEFINE u == IF t.Status = "blocked" THEN t
                  ELSE [t EXCEPT !.Status = "blocked", !.BlockReason = NoPrint]
  <2>1. tasks' = Update(k, u)
    BY <1>1 DEF BlockTask
  <2>2. IsBlocked(k, t, u)
    BY <1>0, <1>1 DEF IsBlocked, Working, SameOwners, SameCounts, Task
  <2> QED  BY <2>1, <2>2, OneChanges DEF Changes
<1>2. CASE /\ Working(run) /\ runs[run] = "no_changes" /\ k \notin repo.ahead
           /\ RecordNoChanges(k, run.Attempt)
  <2> DEFINE u == [t EXCEPT !.Status = "no_changes"]
  <2>1. t.Status = "working" /\ tasks' = RefreshEligibility(Update(k, u))
    BY <1>2 DEF RecordNoChanges
  <2>2. run.Role = "writer"
    BY <1>2 DEF Working
  <2>3. Given(RunOf("writer", k, t.WriterRunID))
    BY <1>0, <1>2, <2>2, WriterOwner DEF Given
  <2>4. FindsNothing(k, t, u) /\ u \in Task /\ u.Status # "approved"
    BY <1>0, <1>2, <2>1, <2>3 DEF FindsNothing, SameOwners, SameCounts, Task, TaskStatus
  <2> HIDE DEF u
  <2> QED  BY <1>0, <2>1, <2>4, OneIsDone DEF Changes
<1>3. CASE /\ run.Role = "reviewer"
           /\ RecordReviewReport(k, run.Attempt, VerdictOf(run), runs[run] = "repeated")
  <2>1. Adopted(t, run.Attempt) = t
    BY <1>0, <1>3, ReviewerOwner DEF Adopted
  <2>2. PICK u : /\ tasks' = Update(k, u)
                 /\ u = t \/ \E n : u = [t EXCEPT !.Reported = run.Attempt, !.Repeats = n]
    BY <1>3, <2>1 DEF RecordReviewReport
  <2>3. Rests(t, u)
    BY <1>0, <2>2 DEF Rests, SameOwners, SameCounts, Task
  <2> QED  BY <2>2, <2>3, OneChanges DEF Changes
<1> QED  BY <1>1, <1>2, <1>3 DEF Take

(* Plans that grow, and tasks that start again. *)
LEMMA PlanChanges ==
  ASSUME IInv, PlanInv, PlanTransition
  PROVE  TasksChange
<1>0. PipelineTypeOK /\ \A k \in DOMAIN tasks : tasks[k] \in Task
  BY InvFacts DEF PipelineTypeOK
<1>1. CASE At("reopen") /\ ReopenIncompleteTasks
  <2>1. /\ DOMAIN tasks' = DOMAIN tasks /\ job' = [job EXCEPT !.Status = "planned"]
        /\ \A k \in DOMAIN tasks :
             IF ~Incomplete(tasks[k]) THEN tasks'[k] = tasks[k]
             ELSE \/ tasks'[k] = [Reopened(tasks[k]) EXCEPT !.BlockReason = NoPrint]
                  \/ tasks'[k] = Reopened(tasks[k])
    BY <1>1 DEF ReopenIncompleteTasks
  <2>2. job'.Status = "planned"
    BY <1>0, <2>1 DEF PipelineTypeOK, Job
  <2>3. ASSUME NEW k \in DOMAIN tasks  PROVE Changes(k, tasks[k], tasks'[k])
    <3>1. CASE ~Incomplete(tasks[k])
      BY <2>1, <3>1 DEF Changes, Rests, SameOwners, SameCounts
    <3>2. CASE Incomplete(tasks[k])
      <4>1. IsReopened(k, tasks[k], tasks'[k])
        BY <1>0, <1>1, <2>1, <2>2, <3>2 DEF IsReopened, Reopened, SameCounts, Task
      <4> QED  BY <4>1 DEF Changes
    <3> QED  BY <3>1, <3>2
  <2> QED  BY <2>1, <2>3 DEF TasksChange
<1>2. CASE ~(At("reopen") /\ ReopenIncompleteTasks)
  <2>1. ASSUME NEW run \in DOMAIN runs, runs[run] \in DOMAIN PlanOf
        PROVE  PlanOf[runs[run]] \in Proposal
    BY <2>1, OrchestrationAssumption
  <2>2. PlanGrows
    BY <1>2, <2>1 DEF PlanTransition, PlanGrows
  <2> QED  BY <1>0, <2>2, GrowAdds DEF PlanAdds, TasksChange, Changes, Rests, SameOwners, SameCounts
<1> QED  BY <1>1, <1>2

(* What an operator starts again. *)
LEMMA OperatorChanges ==
  ASSUME IInv, OperatorTransition
  PROVE  TasksChange
<1>0. PipelineTypeOK /\ left.operator \in Nat
  BY InvFacts DEF EnvTypeOK, Budgets
<1>1. CASE UNCHANGED tasks
  BY <1>1, NoneChange
<1>2. ASSUME NEW k \in DOMAIN tasks, ResumeBlockedWriter(k) \/ ReopenNoChangesTask(k),
             left' = [left EXCEPT !.operator = @ - 1]
      PROVE  TasksChange
  <2> DEFINE t == tasks[k]
             u == [Reopened(t) EXCEPT !.BlockReason = NoPrint]
  <2>1. /\ Incomplete(t) /\ tasks' = Update(k, u) /\ job' = [job EXCEPT !.Status = "planned"]
    BY <1>2 DEF ResumeBlockedWriter, ReopenNoChangesTask, Incomplete
  <2>2. job'.Status = "planned" /\ t \in Task
    BY <1>0, <2>1 DEF PipelineTypeOK, Job
  <2>3. left'.operator # left.operator
    BY <1>0, <1>2, InvFacts DEF EnvTypeOK, Budgets
  <2>4. IsReopened(k, t, u)
    BY <2>1, <2>2, <2>3 DEF IsReopened, Reopened, SameCounts, Task
  <2> QED  BY <2>1, <2>4, OneChanges DEF Changes
<1>3. \/ UNCHANGED tasks
      \/ /\ \E k \in DOMAIN tasks : ResumeBlockedWriter(k) \/ ReopenNoChangesTask(k)
         /\ left' = [left EXCEPT !.operator = @ - 1]
  BY DEF OperatorTransition, Resume, Pause, Cancel, ResetHolisticRound, StartHolisticRereview
<1> QED  BY <1>1, <1>2, <1>3

(* What every step does to the tasks. *)
LEMMA StepChanges ==
  ASSUME IInv, PlanInv, [Next]_vars
  PROVE  TasksChange
<1>1. Transition
  BY StepTransition
<1>2. CASE UNCHANGED pipelineVars \/ JobTransition
  <2>1. UNCHANGED tasks
    BY <1>2 DEF pipelineVars, JobTransition, StartPlanning, RecordPullRequest, RecordMerge, FailJob,
       StartCI, BeginCIReplan, ResetHolisticRound, StartHolisticReviewer, RetryPlanning, RecordCI,
       RecordHolisticReview
  <2> QED  BY <2>1, NoneChange
<1>3. CASE TaskTransition
  BY <1>3, WorkChanges, PickChanges, TakeChanges DEF TaskTransition
<1>4. CASE PlanTransition \/ OperatorTransition
  BY <1>4, PlanChanges, OperatorChanges
<1>5. CASE Reload
  <2>1. /\ DOMAIN tasks' = DOMAIN tasks
        /\ \A k \in DOMAIN tasks : \/ tasks'[k] = tasks[k]
                                   \/ tasks'[k] = [tasks[k] EXCEPT !.BlockReason = NoPrint]
    BY <1>5 DEF Reload
  <2>2. \A k \in DOMAIN tasks : tasks[k] \in Task
    BY InvFacts DEF PipelineTypeOK
  <2>3. \A k \in DOMAIN tasks : Rests(tasks[k], tasks'[k])
    BY <2>1, <2>2 DEF Rests, SameOwners, SameCounts, Task
  <2> QED  BY <2>1, <2>3 DEF TasksChange, Changes
<1> QED  BY <1>1, <1>2, <1>3, <1>4, <1>5 DEF Transition

-----------------------------------------------------------------------------
(* What a step does to the dispatch records. *)

Dispatches(run) ==
  \/ DispatchReviewer /\ run = ReviewerRun(call.key)
  \/ DispatchWriter /\ run = WriterRun(call.key)
  \/ \E k \in DOMAIN tasks : /\ DispatchReady /\ k \in Ready /\ run = WriterRun(k)
                             /\ call'.at = "ownReady" /\ call'.key = k
  \/ DispatchHolistic /\ run = HolisticRun
  \/ (DispatchPlanner \/ ResumePlanner) /\ run \in {PlannerRun, RevisionRun}

RunsStep ==
  \/ UNCHANGED runs
  \/ \E run \in Run : Launch(run) /\ Dispatches(run)
  \/ \E run \in DOMAIN runs : Answer(run)
  \/ Mark
  \/ \E run \in DOMAIN runs : ApplySettled(run)
  \/ \E run \in DOMAIN runs : Operator /\ Supersede(run) /\ left'.operator = left.operator - 1
  \/ CancelRuns

LEMMA StepRuns ==
  ASSUME IInv, [Next]_vars
  PROVE  RunsStep
<1>0. TypeOK /\ call \in Call /\ left \in Budgets
  BY InvFacts DEF EnvTypeOK
<1>1. CASE \/ DispatchReviewer \/ DispatchWriter
  <2>1. call.key \in DOMAIN tasks
    BY <1>1, InvFacts DEF DispatchReviewer, DispatchWriter, At, TaskSteps
  <2>2. WriterRun(call.key) \in Run /\ ReviewerRun(call.key) \in Run
    BY <1>0, <2>1, RunsTyped
  <2> QED  BY <1>1, <2>2 DEF DispatchReviewer, DispatchWriter, LaunchWriter, RunsStep, Dispatches
<1>2. CASE DispatchReady
  <2>1. PICK k \in FirstTask(Ready) :
          UNCHANGED runs \/ (LaunchWriter(k) /\ With("ownReady", k))
    BY <1>2 DEF DispatchReady, envVars
  <2>2. k \in Ready /\ k \in DOMAIN tasks
    BY DEF FirstTask, Ready
  <2>3. With("ownReady", k) => call'.at = "ownReady" /\ call'.key = k
    BY <1>0, CallAt
  <2> QED  BY <1>0, <1>2, <2>1, <2>2, <2>3, RunsTyped DEF LaunchWriter, RunsStep, Dispatches
<1>3. CASE DispatchHolistic \/ DispatchPlanner \/ ResumePlanner
  BY <1>0, <1>3, RunsTyped DEF DispatchHolistic, DispatchPlanner, ResumePlanner, RunsStep, Dispatches
<1>4. CASE Continue /\ ~(Mark \/ CancelRuns \/ DispatchReviewer \/ DispatchWriter \/ DispatchReady
                         \/ DispatchHolistic \/ DispatchPlanner)
  <2>1. UNCHANGED runs
    BY <1>4 DEF Continue, HandlerStep, Complete, OwnReviewer, DecideReview, StopTask, OwnWriter, OwnReady,
                NoneReady, BeginIntegration, IntegrationRefused, NoneIntegrable, MergeTask,
                MergeConflict, Integrated, PushBranch, CreatePR, SavePullRequest, BeginCI,
                DraftRefused, Publish, Promote, PassGate, GateRefused, AlreadyMerged, MergePR,
                SaveMerge, OwnHolistic, NewHolisticRound, Reopen, StopJob, RepairCI, EscalateCI,
                NextReviewer, ReleaseWriter, ReleaseReviewer, RenewPlanning, envVars
  <2> QED  BY <2>1 DEF RunsStep
<1>5. CASE Mark \/ CancelRuns \/ \E run \in DOMAIN runs : Answer(run)
  BY <1>5 DEF RunsStep
<1>6. CASE \E run \in DOMAIN runs : ApplyOutcome(run)
  <2> PICK run \in DOMAIN runs : ApplyOutcome(run)
    BY <1>6
  <2>1. ApplySettled(run) \/ UNCHANGED runs
    BY DEF ApplyOutcome, ApplyFailure, ApplyPlan, ApplyWriterCommit, ApplyWriterNoChanges,
           ApplyWriterBlocked, ApplyWriterHandoff, ApplyReview, ApplyHolistic, envVars
  <2> QED  BY <2>1 DEF RunsStep
<1>7. CASE Poll /\ ~ResumePlanner
  <2>1. UNCHANGED runs
    BY <1>7 DEF Poll, ReconcileTasks, ReconcileReplan, ReconcileHolistic, ReconcileCancelled,
                ObservePublication, ObserveStrandedRound, ObserveForeignHead, ObserveChecks, envVars
  <2> QED  BY <2>1 DEF RunsStep
<1>8. CASE Operator
  <2>0. Spend("operator") => left'.operator = left.operator - 1
    BY <1>0 DEF Spend, Budgets
  <2>1. UNCHANGED runs \/ \E run \in DOMAIN runs : Supersede(run) /\ Spend("operator")
    <3>1. CASE \E k \in DOMAIN tasks : RetryCodeTask(k)
      <4>1. UNCHANGED runs \/ \E run : Supersede(run) /\ Spend("operator")
        BY <3>1 DEF RetryCodeTask, Operate
      <4> QED  BY <4>1 DEF Supersede
    <3>2. CASE RetryCodePlanning
      <4>1. \E run : Supersede(run) /\ Spend("operator")
        BY <3>2 DEF RetryCodePlanning, Operate
      <4> QED  BY <4>1 DEF Supersede
    <3> QED  BY <1>8, <3>1, <3>2 DEF Operator, ResetHolisticReview, StartRereview, PublishApproved,
                PauseJob, ResumeJob, CancelCodeJob, envVars
  <2> QED  BY <1>8, <2>0, <2>1 DEF RunsStep
<1>9. CASE \/ CreateAndPlan \/ ChecksFinish \/ ChecksRerun \/ ForeignPush \/ ForeignMerge \/ Abandon
           \/ Restart \/ UNCHANGED vars
  <2>1. UNCHANGED runs
    BY <1>9 DEF CreateAndPlan, ChecksFinish, ChecksRerun, ForeignPush, ForeignMerge, Abandon, Restart,
                vars, envVars
  <2> QED  BY <2>1 DEF RunsStep
<1> QED  BY <1>1, <1>2, <1>3, <1>4, <1>5, <1>6, <1>7, <1>8, <1>9 DEF Next

(* Dispatches count from one. *)
Counted == \A r \in DOMAIN runs : r.Attempt > 0

LEMMA AttemptsCount ==
  ASSUME TypeOK, NEW run, Dispatches(run), IInv
  PROVE  run.Attempt > 0
<1>1. /\ \A k \in DOMAIN tasks : tasks[k].WriterAttempts \in Nat /\ tasks[k].ReviewerAttempts \in Nat
      /\ job.HolisticRounds \in Nat /\ job.CIReplanRounds \in Nat /\ job.PlannerRetry \in Nat
  BY DEF TypeOK, PipelineTypeOK, Task, Job
<1>2. DispatchReviewer \/ DispatchWriter => call.key \in DOMAIN tasks
  BY InvFacts DEF DispatchReviewer, DispatchWriter, At, TaskSteps
<1> QED  BY <1>1, <1>2 DEF Dispatches, ReviewerRun, WriterRun, HolisticRun, PlannerRun, RevisionRun, RunOf

(* The runs a step adds. *)
LEMMA RunsGrow ==
  ASSUME IInv, [Next]_vars
  PROVE  /\ DOMAIN runs \subseteq DOMAIN runs'
         /\ \A r \in DOMAIN runs' : r \notin DOMAIN runs =>
              Launch(r) /\ Dispatches(r) /\ runs'[r] = "running"
<1>1. RunsStep /\ AnswersStay
  BY StepRuns, StepAnswers
<1>2. ASSUME NEW r \in DOMAIN runs', r \notin DOMAIN runs
      PROVE  Launch(r) /\ Dispatches(r) /\ runs'[r] = "running"
  <2>1. PICK run \in Run : Launch(run) /\ Dispatches(run)
    BY <1>1, <1>2 DEF RunsStep, Answer, Mark, ApplySettled, Marked, Supersede, CancelRuns
  <2>2. r = run /\ runs'[r] = "running"
    BY <1>2, <2>1 DEF Launch
  <2> QED  BY <2>1, <2>2
<1> QED  BY <1>1, <1>2 DEF AnswersStay

LEMMA NextCounted ==
  ASSUME IInv, Counted, [Next]_vars
  PROVE  Counted'
BY RunsGrow, AttemptsCount, InvFacts DEF Counted

-----------------------------------------------------------------------------
(* A job past its integration. *)

(* A task at work, or that needs no changes, has no review, and nothing to  *)
(* change is what its writer answered.                                      *)
UnreviewedWork(k) ==
  /\ tasks[k].Status \in {"working", "no_changes"} =>
       tasks[k].ReviewerRunID = 0 /\ tasks[k].ReviewVerdict = "pending"
  /\ tasks[k].Status = "no_changes" => Given(RunOf("writer", k, tasks[k].WriterRunID))

(* A task is stopped by a verdict, *)
StoppedByVerdict == At("block") => tasks[call.key].ReviewVerdict # "pending"

(* and a job that comes to a point past its integration, or was paused      *)
(* there, is complete.                                                      *)
IntegratedWhole == /\ \A k \in DOMAIN tasks : Done(tasks[k].Status)
                   /\ \E k \in DOMAIN tasks : tasks[k].Status = "integrated"
PausedPast == job.Status = "paused" /\ job.PausedFrom \in PastIntegration
WholeInv == job.Status \in PastIntegration \/ PausedPast => IntegratedWhole

CInv == /\ Counted
        /\ \A k \in DOMAIN tasks : UnreviewedWork(k)
        /\ StoppedByVerdict
        /\ WholeInv

LEMMA GivenStays ==
  ASSUME AnswersStay, NEW r, Given(r)
  PROVE  r \in DOMAIN runs' /\ runs'[r] \notin {"running", "failed"}
BY DEF AnswersStay, Given

LEMMA NextUnreviewed ==
  ASSUME IInv, PlanInv, CInv, [Next]_vars
  PROVE  (\A k \in DOMAIN tasks : UnreviewedWork(k))'
<1>1. TasksChange /\ AnswersStay
  BY StepChanges, StepAnswers
<1>2. ASSUME NEW k \in DOMAIN tasks', k \notin DOMAIN tasks  PROVE UnreviewedWork(k)'
  BY <1>1, <1>2 DEF TasksChange, Fresh, UnreviewedWork
<1>3. ASSUME NEW k \in DOMAIN tasks  PROVE UnreviewedWork(k)'
  <2> DEFINE t == tasks[k]
             u == tasks'[k]
  <2>1. Changes(k, t, u) /\ UnreviewedWork(k)
    BY <1>1 DEF TasksChange, CInv
  <2>2. CASE Rests(t, u)
    BY <1>1, <2>1, <2>2, GivenStays DEF Rests, SameOwners, UnreviewedWork, Given
  <2>3. CASE FindsNothing(k, t, u)
    BY <1>1, <2>1, <2>3, GivenStays DEF FindsNothing, SameOwners, UnreviewedWork, Given
  <2>4. CASE Starts(k, t, u)
    BY <2>4 DEF Starts, UnreviewedWork
  <2>5. CASE ~Rests(t, u) /\ ~FindsNothing(k, t, u) /\ ~Starts(k, t, u)
    <3>1. u.Status \notin {"working", "no_changes"}
      BY <2>1, <2>5 DEF Changes, Completes, GetsReviewer, IsJudged, IsBlocked, BeginsIntegration,
         EndsIntegration, BecomesEligible, IsReleased, LosesReviewer, IsReopened
    <3> QED  BY <3>1 DEF UnreviewedWork
  <2> QED  BY <2>2, <2>3, <2>4, <2>5
<1> QED  BY <1>2, <1>3

(* The verdict under application is known. *)
LEMMA VerdictGiven ==
  ASSUME IInv, MInv, At("verdict")
  PROVE  VerdictOf(call.run) # "pending" /\ call.run.Role = "reviewer"
<1>1. call.run \in DOMAIN runs /\ call.run.Role = "reviewer"
  BY DEF IInv, VerdictKnown, MInv, HandlerKnows, RunOf
<1>2. runs[call.run] \in {"running", "applied"} \cup Answers["reviewer"]
  BY <1>1, InvFacts DEF EnvTypeOK
<1>3. Answers["reviewer"] = ReviewerAnswers
  BY DEF Answers, Roles
<1> QED  BY <1>1, <1>2, <1>3, OrchestrationAssumption DEF VerdictOf

LEMMA NextStopped ==
  ASSUME IInv, PlanInv, MInv, CInv, [Next]_vars
  PROVE  StoppedByVerdict'
<1> SUFFICES ASSUME call'.at = "block"  PROVE tasks'[call'.key].ReviewVerdict # "pending"
  BY DEF StoppedByVerdict, At
<1>1. Beside \/ Arrives
  BY StepArrives DEF Watched
<1>2. CASE Beside
  BY <1>2 DEF Beside, CInv, StoppedByVerdict, At
<1>3. CASE DecideReview /\ Keeping
  BY <1>3, DecideMoves, VerdictGiven DEF Keeping, DecideReview
<1> QED  BY <1>1, <1>2, <1>3 DEF Arrives

(* A task that is done stays as it is, unless it is started again.          *)
LEMMA DoneStays ==
  ASSUME IInv, MInv, CInv, NEW k \in DOMAIN tasks, Done(tasks[k].Status),
         Changes(k, tasks[k], tasks'[k])
  PROVE  tasks'[k].Status = tasks[k].Status \/ IsReopened(k, tasks[k], tasks'[k])
<1> DEFINE t == tasks[k]
           u == tasks'[k]
<1>1. /\ ApprovalBacked(k) /\ UnreviewedWork(k) /\ HandlerKnows /\ Counted /\ StoppedByVerdict
  BY DEF MInv, CInv
<1>2. ~IsBlocked(k, t, u)
  <2> SUFFICES ASSUME IsBlocked(k, t, u)  PROVE FALSE
    OBVIOUS
  <2>1. t.Status \in {"integrated", "no_changes"}
    BY DEF Done
  <2>2. CASE At("block") /\ call.key = k
    BY <1>1, <2>1, <2>2 DEF HandlerKnows, StoppedByVerdict, ApprovalBacked, UnreviewedWork, Reviewed,
       Integration
  <2>3. CASE At("merge") /\ call.key = k
    BY <1>1, <2>1, <2>3 DEF HandlerKnows, At
  <2>4. CASE \E run \in DOMAIN runs : /\ Applicable(run) /\ run.Role \in {"writer", "reviewer"}
                                      /\ runs[run] = "failed" /\ run.Key = k
    <3> PICK run \in DOMAIN runs : /\ Applicable(run) /\ run.Role \in {"writer", "reviewer"}
                                   /\ runs[run] = "failed" /\ run.Key = k
      BY <2>4
    <3>1. CASE run.Role = "writer"
      <4>1. run = RunOf("writer", k, t.WriterRunID)
        BY <3>1, WriterOwner
      <4> QED  BY <1>1, <2>1, <4>1 DEF ApprovalBacked, UnreviewedWork, Given, Reviewed, Integration
    <3>2. CASE run.Role = "reviewer"
      <4>1. run = RunOf("reviewer", k, t.ReviewerRunID) /\ run.Attempt = t.ReviewerRunID
        BY <3>2, ReviewerOwner
      <4> QED  BY <1>1, <2>1, <4>1
               DEF ApprovalBacked, UnreviewedWork, Given, Reviewed, Integration, Counted
    <3> QED  BY <3>1, <3>2
  <2> QED  BY <2>1, <2>2, <2>3, <2>4 DEF IsBlocked
<1> QED  BY <1>2 DEF Changes, Rests, Starts, Completes, FindsNothing, GetsReviewer, IsJudged,
            BeginsIntegration, EndsIntegration, BecomesEligible, IsReleased, LosesReviewer, Done

(* The tasks a step adds put the job back to work. *)
LEMMA AddedReopen ==
  ASSUME IInv, PlanTransition, ~UNCHANGED pipelineVars
  PROVE  job'.Status \in {"planned", "ci_remediating"}
<1>1. job \in Job
  BY InvFacts DEF PipelineTypeOK
<1>2. CASE \E p : SubmitPlan(p) \/ RevisePlan(p)
  BY <1>1, <1>2 DEF SubmitPlan, RevisePlan, Job
<1>3. CASE \E print : StartCIRemediation(print)
  BY <1>1, <1>3 DEF StartCIRemediation, Job
<1>4. CASE StartReviewRemediation \/ ReopenIncompleteTasks
  BY <1>1, <1>4 DEF StartReviewRemediation, ReopenIncompleteTasks, Job
<1> QED  BY <1>2, <1>3, <1>4 DEF PlanTransition

(* Only plans extend the plan. *)
LEMMA PlansExtend ==
  ASSUME IInv, [Next]_vars, plan' # plan
  PROVE  PlanTransition /\ ~UNCHANGED pipelineVars
<1>1. Transition
  BY StepTransition
<1>2. ~TaskTransition
  BY DEF TaskTransition, WorkOn, Pick, Take, RecordTaskBase, StartTaskWork, RecordWriterCompletion,
     StartReviewer, RecordReview, BlockTask, RecordIntegration, RetryWriter, RetryReview,
     StartIntegration, RecordNoChanges, RecordReviewReport, pipelineVars
<1>3. ~JobTransition /\ ~OperatorTransition
  BY DEF JobTransition, OperatorTransition, StartPlanning, RecordPullRequest, RecordMerge, FailJob,
     StartCI, BeginCIReplan, ResetHolisticRound, StartHolisticReviewer, RetryPlanning, RecordCI,
     RecordHolisticReview, pipelineVars, Resume, ResumeBlockedWriter, ReopenNoChangesTask, Pause, Cancel,
     StartHolisticRereview
<1> QED  BY <1>1, <1>2, <1>3 DEF Transition, Reload, pipelineVars

(* And add tasks. *)
LEMMA PlansAdd ==
  ASSUME IInv, [Next]_vars, DOMAIN tasks' # DOMAIN tasks
  PROVE  PlanTransition /\ ~UNCHANGED pipelineVars /\ plan' # plan
<1>1. PipelineTypeOK /\ PipelineTypeOK'
  BY InvFacts, NextIInv DEF IInv, TypeOK
<1>2. plan' # plan
  BY <1>1, SamePlan
<1> QED  BY <1>2, PlansExtend

(* The last task that is integrated, or needs no changes, takes the job     *)
(* past its integration.                                                    *)
LEMMA WholeComes ==
  ASSUME IInv, NEW k \in DOMAIN tasks, NEW s \in {"integrated", "no_changes"},
         LET ts == Update(k, [tasks[k] EXCEPT !.Status = s])
         IN  tasks' = RefreshEligibility(ts) /\ AllIntegrated(ts) /\ HasIntegrated(ts)
  PROVE  IntegratedWhole'
<1> DEFINE ts == Update(k, [tasks[k] EXCEPT !.Status = s])
<1>1. DOMAIN ts = DOMAIN tasks
  BY DEF Update
<1> HIDE DEF ts
<1>2. DOMAIN tasks' = DOMAIN ts /\ \A j \in DOMAIN ts : Done(ts[j].Status) => tasks'[j] = ts[j]
  BY DEF RefreshEligibility, Done, ts
<1>3. /\ \A j \in DOMAIN ts : Done(ts[j].Status)
      /\ \E j \in DOMAIN ts : ts[j].Status = "integrated"
  BY DEF AllIntegrated, HasIntegrated, ts
<1> QED  BY <1>2, <1>3 DEF IntegratedWhole

(* A live job comes to a point past its integration as a whole only. *)
LEMMA PastComes ==
  ASSUME IInv, [Next]_vars, Live(job.Status), job.Status \notin PastIntegration,
         job'.Status \in PastIntegration \/ PausedPast'
  PROVE  IntegratedWhole'
<1>0. PipelineTypeOK /\ job \in Job /\ job.Status # "paused"
  BY InvFacts DEF PipelineTypeOK, Live
<1>1. Transition
  BY StepTransition
<1>2. job'.Status \in PastIntegration \cup {"paused"}
  BY DEF PausedPast
<1>3. ~(UNCHANGED pipelineVars \/ Reload)
  BY <1>0, <1>2 DEF pipelineVars, Reload
<1>4. ~JobTransition
  <2>1. ~(StartPlanning \/ RecordPullRequest \/ RecordMerge \/ FailJob \/ ResetHolisticRound \/ RetryPlanning)
    BY <1>0, <1>2 DEF StartPlanning, RecordPullRequest, RecordMerge, FailJob, ResetHolisticRound,
                      RetryPlanning, PastIntegration, Job
  <2>2. ~(\E sha : StartCI(sha)) /\ ~(\E print : BeginCIReplan(print)) /\ job.Status # "awaiting_ci"
    BY <1>0, <1>2 DEF StartCI, BeginCIReplan, AwaitsRepair, PastIntegration
  <2>3. ~(\E run, sha : StartHolisticReviewer(run, sha))
        /\ ~(\E run, sha, verdict : RecordHolisticReview(run, sha, verdict))
    BY <1>0, <1>2 DEF StartHolisticReviewer, RecordHolisticReview, PastIntegration
  <2> QED  BY <2>1, <2>2, <2>3 DEF JobTransition
<1>5. ~OperatorTransition
  BY <1>0, <1>2 DEF OperatorTransition, Resume, ResumeBlockedWriter, ReopenNoChangesTask,
     ResetHolisticRound, Pause, Cancel, StartHolisticRereview, PastIntegration, PausedPast, Job
<1>6. ~PlanTransition
  BY <1>2, <1>3, AddedReopen DEF PastIntegration
<1>7. CASE TaskTransition
  <2>1. /\ ~(\E k, run : StartTaskWork(k, run) \/ RecordWriterCompletion(k, run) \/ RetryWriter(k, run))
        /\ ~(\E k : StartIntegration(k))
    BY <1>0, <1>2, <1>3 DEF StartTaskWork, RecordWriterCompletion, RetryWriter, StartIntegration,
       PastIntegration, Job
  <2>2. /\ ~(\E k, sha : RecordTaskBase(k, sha)) /\ ~(\E k : BlockTask(k))
        /\ ~(\E k, run : StartReviewer(k, run) \/ RetryReview(k, run))
        /\ ~(\E k, run, verdict : RecordReview(k, run, verdict))
        /\ ~(\E k, run, verdict, same : RecordReviewReport(k, run, verdict, same))
    BY <1>0, <1>2 DEF RecordTaskBase, BlockTask, StartReviewer, RetryReview, RecordReview,
       RecordReviewReport, pipelineVars
  <2>3. ASSUME NEW k \in DOMAIN tasks, NEW sha, RecordIntegration(k, sha)  PROVE IntegratedWhole'
    <3> DEFINE ts == Update(k, [tasks[k] EXCEPT !.Status = "integrated"])
    <3>1. ts = [tasks EXCEPT ![k].Status = "integrated"]
      BY DEF Update
    <3>2. tasks[k] \in Task
      BY <1>0 DEF PipelineTypeOK
    <3>3. ts[k].Status = "integrated" /\ k \in DOMAIN ts
      BY <3>2 DEF Update, Task
    <3>4. /\ tasks' = RefreshEligibility(ts)
          /\ job' = [job EXCEPT !.IntegrationSHA = sha,
                                !.Status = IF AllIntegrated(ts) THEN "holistic_reviewing" ELSE @]
      BY <2>3, <3>1 DEF RecordIntegration
    <3> HIDE DEF ts
    <3>5. AllIntegrated(ts)
      BY <1>0, <1>2, <3>4 DEF Job
    <3>6. HasIntegrated(ts)
      BY <3>3 DEF HasIntegrated
    <3> QED  BY <3>4, <3>5, <3>6, WholeComes DEF ts
  <2>4. ASSUME NEW k \in DOMAIN tasks, NEW run, RecordNoChanges(k, run)  PROVE IntegratedWhole'
    <3> DEFINE ts == Update(k, [tasks[k] EXCEPT !.Status = "no_changes"])
    <3>1. /\ tasks' = RefreshEligibility(ts)
          /\ job' = [job EXCEPT !.Status =
                       IF ~AllIntegrated(ts) THEN @
                       ELSE IF HasIntegrated(ts) THEN "holistic_reviewing" ELSE "no_changes"]
      BY <2>4 DEF RecordNoChanges
    <3> HIDE DEF ts
    <3>2. AllIntegrated(ts) /\ HasIntegrated(ts)
      BY <1>0, <1>2, <3>1 DEF Job, PastIntegration
    <3> QED  BY <3>1, <3>2, WholeComes DEF ts
  <2> QED  BY <1>7, <2>1, <2>2, <2>3, <2>4 DEF TaskTransition, WorkOn, Pick, Take
<1> QED  BY <1>1, <1>3, <1>4, <1>5, <1>6, <1>7 DEF Transition

LEMMA NextWhole ==
  ASSUME IInv, PlanInv, MInv, CInv, [Next]_vars
  PROVE  WholeInv'
<1> SUFFICES ASSUME job'.Status \in PastIntegration \/ PausedPast'  PROVE IntegratedWhole'
  BY DEF WholeInv
<1>0. PipelineTypeOK /\ PipelineTypeOK' /\ job \in Job
  BY InvFacts, NextIInv DEF IInv, TypeOK, PipelineTypeOK
<1>1. CASE ~Live(job.Status)
  <2>1. CASE UNCHANGED pipelineVars \/ Reload
    <3>1. /\ UNCHANGED <<job, plan>>
          /\ \A k \in DOMAIN tasks : tasks'[k].Status = tasks[k].Status
      BY <1>0, <2>1, StatusesKept
    <3>2. DOMAIN tasks' = DOMAIN tasks
      BY <1>0, <3>1, SamePlan
    <3>3. IntegratedWhole
      BY <3>1 DEF CInv, WholeInv, PausedPast
    <3> QED  BY <3>1, <3>2, <3>3 DEF IntegratedWhole
  <2>2. CASE job.Status = "paused" /\ (Resume \/ Cancel)
    <3>1. UNCHANGED tasks
      BY <2>2 DEF Resume, Cancel
    <3>2. job.PausedFrom \in PastIntegration
      BY <1>0, <2>2 DEF Resume, Cancel, PausedPast, PastIntegration, Job
    <3> QED  BY <2>2, <3>1, <3>2 DEF CInv, WholeInv, PausedPast, IntegratedWhole
  <2> QED  BY <1>1, <2>1, <2>2, NotLiveStep
<1>2. CASE Live(job.Status) /\ job.Status \notin PastIntegration
  BY <1>2, PastComes
<1>3. CASE Live(job.Status) /\ job.Status \in PastIntegration
  <2>1. IntegratedWhole /\ TasksChange
    BY <1>3, StepChanges DEF CInv, WholeInv
  <2>2. job'.Status \notin {"planned", "ci_remediating"}
    BY DEF PausedPast, PastIntegration
  <2>3. DOMAIN tasks' = DOMAIN tasks
    BY <2>2, PlansAdd, AddedReopen
  <2>4. \A k \in DOMAIN tasks : tasks'[k].Status = tasks[k].Status
    BY <2>1, <2>2, DoneStays DEF IntegratedWhole, TasksChange, IsReopened
  <2> QED  BY <2>1, <2>3, <2>4 DEF IntegratedWhole
<1> QED  BY <1>1, <1>2, <1>3

LEMMA InitialJob ==
  ASSUME Init
  PROVE  /\ job.Status = "created" /\ job.PausedFrom = "" /\ job.CI = NoCI
         /\ job.HolisticReviewVerdict = "pending" /\ job.HolisticReviewRunID = 0
         /\ job.HolisticRounds = 0 /\ job.CIReplanRounds = 0 /\ job.AppliedCIReplanRound = 0
         /\ job.PullRequest = FALSE /\ job.MergeState = "not_requested"
<1>1. PICK policy \in MergePolicies :
        job = [Status |-> "created", PausedFrom |-> "", IntegrationSHA |-> 0,
               HolisticReviewVerdict |-> "pending", HolisticReviewRunID |-> 0,
               HolisticReviewSHA |-> 0, HolisticRounds |-> 0, CI |-> NoCI,
               CIFailures |-> [f \in Fingerprint |-> 0], CIReplanRounds |-> 0,
               AppliedCIReplanRound |-> 0, PlannerRetry |-> 0, PullRequest |-> FALSE,
               MergeState |-> "not_requested", MergePolicy |-> policy]
  BY DEF Init, PipelineInit
<1> QED  BY <1>1

LEMMA InitCInv == Init => CInv
<1> SUFFICES ASSUME Init  PROVE CInv
  OBVIOUS
<1>1. DOMAIN tasks = {} /\ DOMAIN runs = {} /\ call.at = "idle" /\ job.Status = "created"
  <2>1. tasks = <<>> /\ runs = <<>>
    BY DEF Init, PipelineInit
  <2>2. job.Status = "created"
    BY InitialJob
  <2> QED  BY <2>1, <2>2 DEF Init, Idle
<1> QED  BY <1>1 DEF CInv, Counted, StoppedByVerdict, WholeInv, PausedPast, PastIntegration, At

LEMMA NextCInv == IInv /\ PlanInv /\ MInv /\ CInv /\ [Next]_vars => CInv'
BY NextCounted, NextUnreviewed, NextStopped, NextWhole DEF CInv

(* In every run, a job that awaits CI, is replanned after failed checks, is *)
(* reviewed as a whole, can be published or is published has all its tasks  *)
(* integrated or without changes, and at least one integrated: no late      *)
(* answer, interrupted handler or operator takes one back without taking    *)
(* the job back too (controller.go 226-250, 348-369, outcome.go 211-325).   *)
THEOREM WholeBeforeReview == Spec => []PastIntegrationComplete
<1>1. CInv => PastIntegrationComplete
  BY DEF CInv, WholeInv, IntegratedWhole, PastIntegrationComplete, Done
<1> QED  BY <1>1, InitPlanInv, NextPlanInv, InitMInv, NextMInv, InitCInv, NextCInv, Invariance, PTL
         DEF Spec

-----------------------------------------------------------------------------
(* What a step does to the job. *)

(* A transition of a task moves the job to the same stage of its work, or   *)
(* past its integration once every task is done.                            *)
TaskMovesJob ==
  \/ job' = job
  \/ \E s \in {"working", "reviewing", "planned", "integrating"} : job' = [job EXCEPT !.Status = s]
  \/ /\ \E k \in DOMAIN tasks : tasks[k].Status = "working"
     /\ \E s \in {"holistic_reviewing", "no_changes"} : job' = [job EXCEPT !.Status = s]
  \/ /\ At("integrated") /\ \E k \in DOMAIN tasks : tasks[k].Status = "integrating"
     /\ \E s \in {job.Status, "holistic_reviewing"} :
          job' = [job EXCEPT !.IntegrationSHA = repo.head, !.Status = s]

LEMMA TaskJob ==
  ASSUME IInv, TaskTransition
  PROVE  TaskMovesJob
<1>0. job \in Job
  BY InvFacts DEF PipelineTypeOK
<1>1. CASE \E k, run : StartTaskWork(k, run) \/ RecordWriterCompletion(k, run) \/ RetryWriter(k, run)
  BY <1>1 DEF StartTaskWork, RecordWriterCompletion, RetryWriter, TaskMovesJob, pipelineVars
<1>2. CASE \E k : StartIntegration(k) \/ BlockTask(k)
  BY <1>2 DEF StartIntegration, BlockTask, TaskMovesJob
<1>3. CASE \/ \E k, sha : RecordTaskBase(k, sha)
           \/ \E k, run : StartReviewer(k, run) \/ RetryReview(k, run)
           \/ \E k, run, verdict : RecordReview(k, run, verdict)
           \/ \E k, run, verdict, same : RecordReviewReport(k, run, verdict, same)
  BY <1>3 DEF RecordTaskBase, StartReviewer, RetryReview, RecordReview, RecordReviewReport, TaskMovesJob,
     pipelineVars
<1>4. ASSUME NEW k \in DOMAIN tasks, NEW run, RecordNoChanges(k, run)  PROVE TaskMovesJob
  <2>1. /\ tasks[k].Status = "working"
        /\ \E s \in {job.Status, "holistic_reviewing", "no_changes"} : job' = [job EXCEPT !.Status = s]
    BY <1>4 DEF RecordNoChanges
  <2>2. [job EXCEPT !.Status = job.Status] = job
    BY <1>0 DEF Job
  <2> QED  BY <2>1, <2>2 DEF TaskMovesJob
<1>5. ASSUME NEW k \in DOMAIN tasks, At("integrated"), RecordIntegration(k, repo.head)
      PROVE  TaskMovesJob
  BY <1>5 DEF RecordIntegration, TaskMovesJob
<1> QED  BY <1>1, <1>2, <1>3, <1>4, <1>5 DEF TaskTransition, WorkOn, Pick, Take

(* A transition of the plan takes the job back to its work. *)
PlanMovesJob ==
  \/ UNCHANGED pipelineVars
  \/ /\ ~HasPlan /\ job.Status = "planning" /\ job' = [job EXCEPT !.Status = "planned"]
  \/ /\ job.Status = "ci_replanning"
     /\ job' = [job EXCEPT !.AppliedCIReplanRound = job.CIReplanRounds, !.Status = "planned"]
  \/ /\ job.Status = "awaiting_ci" /\ job' = [job EXCEPT !.Status = "ci_remediating"]
  \/ /\ At("reopen") /\ job' = [job EXCEPT !.Status = "planned"]

LEMMA PlanJob ==
  ASSUME PlanTransition
  PROVE  PlanMovesJob
<1>1. CASE \E p : SubmitPlan(p) \/ RevisePlan(p)
  BY <1>1 DEF SubmitPlan, RevisePlan, PlanMovesJob
<1>2. CASE At("repair") /\ StartCIRemediation(job.CI.FailureFingerprint)
  BY <1>2 DEF StartCIRemediation, AwaitsRepair, PlanMovesJob
<1>3. CASE At("reopen") /\ (StartReviewRemediation \/ ReopenIncompleteTasks)
  BY <1>3 DEF StartReviewRemediation, ReopenIncompleteTasks, PlanMovesJob
<1> QED  BY <1>1, <1>2, <1>3 DEF PlanTransition

(* A plan grows when there is none yet, or when the job is past its         *)
(* integration.                                                             *)
LEMMA GrowsPast ==
  ASSUME IInv, [Next]_vars, plan' # plan
  PROVE  DOMAIN tasks = {} \/ job.Status \in PastIntegration
<1>1. PlanTransition
  BY PlansExtend
<1>2. ASSUME ~HasPlan  PROVE DOMAIN tasks = {}
  BY <1>2, InvFacts DEF HasPlan, NoPlan, PipelineTypeOK, Range
<1>3. CASE \E p : SubmitPlan(p) \/ RevisePlan(p)
  BY <1>2, <1>3 DEF SubmitPlan, RevisePlan, PastIntegration, pipelineVars
<1>4. CASE \E print : StartCIRemediation(print)
  BY <1>4 DEF StartCIRemediation, AwaitsRepair, PastIntegration
<1>5. CASE StartReviewRemediation \/ ReopenIncompleteTasks
  BY <1>5 DEF StartReviewRemediation, ReopenIncompleteTasks, PastIntegration
<1> QED  BY <1>1, <1>3, <1>4, <1>5 DEF PlanTransition

(* A job that can be published, or was, is approved.                        *)
CanPublish == \/ job.Status \in {"ready_to_publish", "published"}
              \/ job.Status = "paused" /\ job.PausedFrom \in {"ready_to_publish", "published"}
ReadyApproved == CanPublish => job.HolisticReviewVerdict = "approved"

LEMMA NextReady ==
  ASSUME IInv, ReadyApproved, [Next]_vars
  PROVE  ReadyApproved'
<1>0. job \in Job
  BY InvFacts DEF PipelineTypeOK
<1>1. Transition
  BY StepTransition
<1>2. CASE UNCHANGED pipelineVars \/ Reload
  BY <1>2 DEF pipelineVars, Reload, ReadyApproved, CanPublish
<1>3. CASE TaskTransition \/ PlanTransition
  <2>1. \/ job' = job
        \/ /\ job'.Status \notin {"ready_to_publish", "published", "paused"}
        \/ job'.Status = job.Status /\ job'.PausedFrom = job.PausedFrom
           /\ job'.HolisticReviewVerdict = job.HolisticReviewVerdict
    <3>1. CASE TaskTransition
      BY <1>0, <3>1, TaskJob DEF TaskMovesJob, Job
    <3>2. CASE PlanTransition
      BY <1>0, <3>2, PlanJob DEF PlanMovesJob, Job, pipelineVars
    <3> QED  BY <1>3, <3>1, <3>2
  <2> QED  BY <2>1 DEF ReadyApproved, CanPublish
<1>4. CASE JobTransition
  <2>1. CASE \/ StartPlanning \/ RecordPullRequest \/ RecordMerge \/ FailJob \/ ResetHolisticRound
             \/ RetryPlanning
    BY <1>0, <2>1 DEF StartPlanning, RecordPullRequest, RecordMerge, FailJob, ResetHolisticRound,
       RetryPlanning, ReadyApproved, CanPublish, Job
  <2>2. CASE (\E sha : StartCI(sha)) \/ (\E print : BeginCIReplan(print))
             \/ (\E run, sha : StartHolisticReviewer(run, sha))
    BY <1>0, <2>2 DEF StartCI, BeginCIReplan, StartHolisticReviewer, ReadyApproved, CanPublish, Job
  <2>3. CASE \E sha, state, print : RecordCI(sha, state, print) /\ job.Status = "awaiting_ci"
    BY <1>0, <2>3 DEF RecordCI, ReadyApproved, CanPublish, Job
  <2>4. CASE \E run, sha, verdict : RecordHolisticReview(run, sha, verdict)
    BY <1>0, <2>4 DEF RecordHolisticReview, ReadyApproved, CanPublish, Job, pipelineVars
  <2> QED  BY <1>4, <2>1, <2>2, <2>3, <2>4 DEF JobTransition
<1>5. CASE OperatorTransition
  BY <1>0, <1>5 DEF OperatorTransition, Resume, ResumeBlockedWriter, ReopenNoChangesTask,
     ResetHolisticRound, Pause, Cancel, StartHolisticRereview, ReadyApproved, CanPublish, Job
<1> QED  BY <1>1, <1>2, <1>3, <1>4, <1>5 DEF Transition

(* Tasks are started again from the review of the job as a whole.           *)
ReopensReviewed == At("reopen") => job.Status = "holistic_reviewing"

LEMMA NextReopens ==
  ASSUME IInv, ReadyApproved, ReopensReviewed, [Next]_vars
  PROVE  ReopensReviewed'
<1> SUFFICES ASSUME call'.at = "reopen"  PROVE job'.Status = "holistic_reviewing"
  BY DEF ReopensReviewed, At
<1>0. job \in Job
  BY InvFacts DEF PipelineTypeOK
<1>1. Beside \/ Arrives
  BY StepArrives DEF Watched
<1>2. CASE Beside
  BY <1>2 DEF Beside, ReopensReviewed, At, StartPlanning
<1>3. ASSUME NEW run \in DOMAIN runs, ApplyHolistic(run)  PROVE job'.Status = "holistic_reviewing"
  <2>1. runs[run] # "approved"
    BY <1>3 DEF ApplyHolistic, Enter
  <2>2. ~(job.Status \in {"ready_to_publish", "published"} /\ job.HolisticReviewVerdict = runs[run])
    BY <2>1 DEF ReadyApproved, CanPublish
  <2>3. RecordHolisticReview(run.Attempt, job.IntegrationSHA, runs[run])
    BY <1>3 DEF ApplyHolistic
  <2> QED  BY <1>0, <2>1, <2>2, <2>3 DEF RecordHolisticReview, Job
<1> QED  BY <1>1, <1>2, <1>3 DEF Arrives

-----------------------------------------------------------------------------
(* The order of the plan, as long as no operator intervenes. *)

Untouched == left.operator = Budget.operator

LEMMA BudgetTyped == Budget.operator \in Nat
BY OrchestrationAssumption

(* Only an operator's tools spend of the operator's budget. *)
LEMMA LeftStep ==
  ASSUME IInv, [Next]_vars
  PROVE  /\ left'.operator \in Nat
         /\ \/ left'.operator = left.operator
            \/ Operator /\ left'.operator = left.operator - 1
<1>0. left \in Budgets
  BY InvFacts DEF EnvTypeOK
<1>1. CASE UNCHANGED left
  BY <1>0, <1>1 DEF Budgets
<1>2. ASSUME NEW kind \in {"faults", "foreign", "conflicts"}, Spend(kind)
      PROVE  left'.operator = left.operator /\ left'.operator \in Nat
  BY <1>0, <1>2 DEF Spend, Budgets
<1>4. CASE Operator
  <2>1. UNCHANGED left \/ Spend("operator")
    BY <1>4 DEF Operator, RetryCodeTask, RetryCodePlanning, ResetHolisticReview, StartRereview,
       PublishApproved, PauseJob, ResumeJob, CancelCodeJob, Operate, envVars
  <2> QED  BY <1>0, <1>1, <1>4, <2>1 DEF Spend, Budgets
<1>5. CASE Continue
  <2>1. UNCHANGED left \/ Spend("conflicts")
    BY <1>5 DEF Continue, HandlerStep, Mark, Complete, DispatchReviewer, OwnReviewer, DecideReview,
      StopTask, DispatchWriter, OwnWriter, DispatchReady, OwnReady, NoneReady, BeginIntegration,
      IntegrationRefused, NoneIntegrable, MergeTask, MergeConflict, Integrated, PushBranch, CreatePR,
      SavePullRequest, BeginCI, DraftRefused, Publish, Promote, PassGate, GateRefused, AlreadyMerged,
      MergePR, SaveMerge, DispatchHolistic, OwnHolistic, NewHolisticRound, Reopen, StopJob, RepairCI,
      EscalateCI, DispatchPlanner, NextReviewer, ReleaseWriter, ReleaseReviewer, RenewPlanning,
      CancelRuns, LaunchWriter, envVars
  <2> QED  BY <1>1, <1>2, <2>1
<1>6. CASE \/ CreateAndPlan \/ \E run \in DOMAIN runs : Answer(run) \/ ApplyOutcome(run)
           \/ Poll \/ ChecksFinish \/ UNCHANGED vars
  <2>1. UNCHANGED left
    BY <1>6 DEF CreateAndPlan, Answer, ApplyOutcome, ApplySettled, ApplyFailure, ApplyPlan,
       ApplyWriterCommit, ApplyWriterNoChanges, ApplyWriterBlocked, ApplyWriterHandoff, ApplyReview,
       ApplyHolistic, Poll, ReconcileTasks, ReconcileReplan, ReconcileHolistic, ReconcileCancelled,
       ResumePlanner, ObservePublication, ObserveStrandedRound, ObserveForeignHead, ObserveChecks,
       ChecksFinish, vars, envVars
  <2> QED  BY <1>1, <2>1
<1>7. CASE ChecksRerun \/ ForeignPush \/ ForeignMerge \/ Abandon \/ Restart
  BY <1>2, <1>7 DEF ChecksRerun, ForeignPush, ForeignMerge, Abandon, Restart
<1> QED  BY <1>4, <1>5, <1>6, <1>7 DEF Next

(* No operator has intervened before if none has after. *)
NothingGained == left.operator <= Budget.operator

LEMMA UntouchedBefore ==
  ASSUME IInv, NothingGained, [Next]_vars
  PROVE  /\ NothingGained'
         /\ Untouched' => Untouched /\ left'.operator = left.operator
BY LeftStep, BudgetTyped, InvFacts DEF NothingGained, Untouched, EnvTypeOK, Budgets

(* A task that has been at work has all it depends on. *)
Begun(k) == /\ ~Done(tasks[k].Status)
            /\ \/ tasks[k].Status \in {"working", "reviewing", "changes_requested"}
               \/ tasks[k].ReviewVerdict # "pending"
Underway(k) ==
  /\ Begun(k) => DependenciesIntegrated(k)
  /\ tasks[k].Status \in {"integration_eligible", "integrating"} => PrerequisitesMet(tasks, k)

(* So does the task a handler is about to start. *)
Ordered ==
  /\ call.at \notin {"retryWriter", "retryReview", "retryPlanning"}
  /\ \A k \in DOMAIN tasks : Underway(k)
  /\ call.at \in {"writer", "ownWriter", "ownReady"} => DependenciesIntegrated(call.key)

OInv == /\ NothingGained /\ ReadyApproved /\ ReopensReviewed
        /\ Untouched => Ordered

LEMMA DependsStay ==
  ASSUME IInv, PlanInv, [Next]_vars
  PROVE  /\ DOMAIN tasks \subseteq DOMAIN tasks'
         /\ \A k \in DOMAIN tasks : tasks'[k].DependsOn = tasks[k].DependsOn
BY PlanStep, GrowAdds, InvFacts DEF PlanKept, PlanAdds

(* Unless tasks are started again, what is done stays done, and with it     *)
(* what a task depends on.                                                  *)
LEMMA DoneKept ==
  ASSUME IInv, PlanInv, MInv, CInv, [Next]_vars, ~At("reopen"), left'.operator = left.operator,
         NEW k \in DOMAIN tasks
  PROVE  /\ Done(tasks[k].Status) => k \in DOMAIN tasks' /\ Done(tasks'[k].Status)
         /\ ~IsReopened(k, tasks[k], tasks'[k])
BY StepChanges, DoneStays DEF TasksChange, IsReopened

LEMMA DependenciesStay ==
  ASSUME IInv, PlanInv, MInv, CInv, [Next]_vars, ~At("reopen"), left'.operator = left.operator,
         NEW k \in DOMAIN tasks, DependenciesIntegrated(k)
  PROVE  DependenciesIntegrated(k)'
<1>1. tasks'[k].DependsOn = tasks[k].DependsOn
  BY DependsStay
<1>2. ASSUME NEW d \in tasks[k].DependsOn  PROVE d \in DOMAIN tasks' /\ Done(tasks'[d].Status)
  BY DoneKept DEF DependenciesIntegrated
<1> QED  BY <1>1, <1>2 DEF DependenciesIntegrated

(* While the plan stays, a task under way stays in order. *)
LEMMA UnderwayStays ==
  ASSUME IInv, PlanInv, MInv, CInv, [Next]_vars, Ordered, ~At("reopen"),
         left'.operator = left.operator, plan' = plan, NEW k \in DOMAIN tasks
  PROVE  k \in DOMAIN tasks' /\ Underway(k)'
<1> DEFINE t == tasks[k]
           u == tasks'[k]
<1>1. /\ k \in DOMAIN tasks' /\ Changes(k, t, u) /\ Underway(k)
      /\ DOMAIN tasks' = DOMAIN tasks /\ ~IsReopened(k, t, u)
  BY StepChanges, PlansAdd, DoneKept DEF TasksChange, Ordered
<1>2. DependenciesIntegrated(k) => DependenciesIntegrated(k)'
  BY DependenciesStay
<1>3. PrerequisitesMet(tasks, k) => PrerequisitesMet(tasks, k)'
  BY <1>1, DoneKept DEF PrerequisitesMet
<1>4. ASSUME Begun(k)'  PROVE DependenciesIntegrated(k)
  <2>1. CASE Starts(k, t, u)
    BY <2>1 DEF Starts, Ordered
  <2>2. CASE ~Starts(k, t, u)
    <3>1. Begun(k)
      <4>1. ~Done(u.Status) /\ \/ u.Status \in {"working", "reviewing", "changes_requested"}
                               \/ u.ReviewVerdict # "pending"
        BY <1>4 DEF Begun
      <4>2. ~Done(t.Status)
        BY <1>1, <4>1, DoneKept
      <4>3. CASE Rests(t, u) \/ IsBlocked(k, t, u) \/ BeginsIntegration(k, t, u) \/ BecomesEligible(k, t, u)
        BY <4>1, <4>2, <4>3 DEF Rests, IsBlocked, BeginsIntegration, BecomesEligible, SameOwners, Begun
      <4>4. CASE \/ Completes(k, t, u) \/ GetsReviewer(k, t, u) \/ IsJudged(k, t, u)
                 \/ LosesReviewer(k, t, u) \/ IsReleased(k, t, u)
        BY <4>2, <4>4 DEF Completes, GetsReviewer, IsJudged, LosesReviewer, IsReleased, Begun
      <4>5. ~FindsNothing(k, t, u) /\ ~EndsIntegration(k, t, u)
        BY <4>1 DEF FindsNothing, EndsIntegration, Done
      <4> QED  BY <1>1, <2>2, <4>3, <4>4, <4>5 DEF Changes
    <3> QED  BY <1>1, <3>1 DEF Underway
  <2> QED  BY <2>1, <2>2
<1>5. ASSUME u.Status \in {"integration_eligible", "integrating"}  PROVE PrerequisitesMet(tasks, k)'
  <2>1. CASE BecomesEligible(k, t, u)
    BY <1>1, <2>1 DEF BecomesEligible, PrerequisitesMet
  <2>2. CASE IsJudged(k, t, u) \/ BeginsIntegration(k, t, u)
    BY <1>3, <1>5, <2>2 DEF IsJudged, BeginsIntegration
  <2>3. CASE Rests(t, u)
    BY <1>1, <1>3, <1>5, <2>3 DEF Rests, Underway
  <2> QED  BY <1>1, <1>5, <2>1, <2>2, <2>3 DEF Changes, Starts, Completes, FindsNothing, GetsReviewer,
           IsBlocked, EndsIntegration, IsReleased, LosesReviewer
<1> QED  BY <1>1, <1>2, <1>4, <1>5 DEF Underway

(* When the plan grows, or tasks start again, all tasks are done: none is   *)
(* under way after.                                                         *)
LEMMA UnderwayAnew ==
  ASSUME IInv, PlanInv, MInv, CInv, [Next]_vars, ReopensReviewed, At("reopen") \/ plan' # plan
  PROVE  \A k \in DOMAIN tasks' : Underway(k)'
<1>1. TasksChange
  BY StepChanges
<1>2. \A k \in DOMAIN tasks : Done(tasks[k].Status)
  <2>1. CASE At("reopen")
    BY <2>1 DEF ReopensReviewed, CInv, WholeInv, PastIntegration, IntegratedWhole
  <2>2. CASE plan' # plan
    BY <2>2, GrowsPast DEF CInv, WholeInv, IntegratedWhole
  <2> QED  BY <2>1, <2>2
<1>3. ASSUME NEW k \in DOMAIN tasks', k \notin DOMAIN tasks  PROVE Underway(k)'
  BY <1>1, <1>3 DEF TasksChange, Fresh, Underway, Begun
<1>4. ASSUME NEW k \in DOMAIN tasks  PROVE Underway(k)'
  <2>1. Changes(k, tasks[k], tasks'[k]) /\ Done(tasks[k].Status)
    BY <1>1, <1>2 DEF TasksChange
  <2>2. CASE tasks'[k].Status = tasks[k].Status
    BY <2>1, <2>2 DEF Done, Underway, Begun
  <2>3. CASE IsReopened(k, tasks[k], tasks'[k])
    <3>1. tasks[k].Status = "no_changes"
      BY <2>1, <2>3 DEF IsReopened, Incomplete, Done
    <3>2. tasks'[k].Status = "planned" /\ tasks'[k].ReviewVerdict = "pending"
      BY <2>3, <3>1 DEF IsReopened, CInv, UnreviewedWork
    <3> QED  BY <3>2 DEF Underway, Begun
  <2> QED  BY <2>1, <2>2, <2>3, DoneStays
<1> QED  BY <1>3, <1>4

(* A handler comes to start a task only if all it depends on is done. *)
LEMMA StartsInOrder ==
  ASSUME IInv, PlanInv, MInv, CInv, [Next]_vars, Ordered, ReopensReviewed,
         left'.operator = left.operator
  PROVE  /\ call'.at \notin {"retryWriter", "retryReview", "retryPlanning"}
         /\ call'.at \in {"writer", "ownWriter", "ownReady"} => DependenciesIntegrated(call.key)'
<1>0. left.operator \in Nat /\ IInv'
  BY InvFacts, NextIInv DEF EnvTypeOK, Budgets
<1>1. CASE call'.at \notin Watched
  BY <1>1 DEF Watched
<1>2. CASE Beside
  <2>1. DependenciesIntegrated(call.key) => DependenciesIntegrated(call.key)'
    BY <1>2 DEF Beside, DependenciesIntegrated
  <2> QED  BY <1>2, <2>1 DEF Beside, Ordered
<1>3. CASE Arrives
  <2>1. CASE DecideReview /\ Keeping /\ call'.at \in {"writer", "block"}
    <3>1. CASE call'.at = "block"
      BY <3>1
    <3>2. CASE call'.at = "writer"
      <4>0. PICK k \in DOMAIN tasks : k = call.key
        BY <2>1, DecideMoves
      <4> DEFINE t == tasks[k]
      <4>1. call.at = "verdict" /\ k \in DOMAIN tasks /\ call \in Call /\ t \in Task
        BY <2>1, InvFacts DEF DecideReview, At, PipelineTypeOK
      <4>2. VerdictOf(call.run) = "changes_requested"
        <5>1. ASSUME GoThen("integrate", "draft") \/ Go("block")  PROVE FALSE
          BY <3>2, <4>1, <5>1 DEF GoThen, Go, Call
        <5>2. VerdictOf(call.run) # "changes_requested" => GoThen("integrate", "draft") \/ Go("block")
          BY <2>1 DEF DecideReview
        <5> QED  BY <5>1, <5>2
      <4>3. RecordReview(k, call.run.Attempt, "changes_requested")
        BY <2>1, <4>0, <4>2 DEF DecideReview
      <4>4. t.Status = "reviewing" \/ (t.ReviewVerdict = "changes_requested" /\ t.Status # "reviewing")
        BY <4>1, <4>3 DEF RecordReview, ReviewRecorded, Adopted, Task
      <4>5. t.ReviewVerdict = "changes_requested" => ~Done(t.Status)
        BY <4>1 DEF MInv, ApprovalBacked, Reviewed, Integration, CInv, UnreviewedWork, Done
      <4>6. Begun(k)
        BY <4>4, <4>5 DEF Begun, Done
      <4>7. DependenciesIntegrated(k)
        BY <4>1, <4>6 DEF Ordered, Underway
      <4>8. DependenciesIntegrated(k)'
        BY <4>1, <4>7, DependenciesStay DEF At
      <4>9. call'.key = k
        BY <2>1, <4>0 DEF Keeping
      <4>10. DependenciesIntegrated(call.key)'
        BY <4>8, <4>9 DEF DependenciesIntegrated
      <4> QED  BY <2>1, <4>10
    <3> QED  BY <2>1, <3>1, <3>2
  <2>2. CASE DispatchWriter /\ Keeping /\ call'.at = "ownWriter"
    <3>1. call.at = "writer" /\ call.key \in DOMAIN tasks
      BY <2>2, InvFacts DEF DispatchWriter, At, TaskSteps
    <3> PICK k \in DOMAIN tasks : k = call.key
      BY <3>1
    <3>2. DependenciesIntegrated(k)
      BY <3>1 DEF Ordered
    <3>3. DependenciesIntegrated(k)'
      BY <3>1, <3>2, DependenciesStay DEF At
    <3>4. call'.key = k
      BY <2>2 DEF Keeping
    <3>5. DependenciesIntegrated(call.key)'
      BY <3>3, <3>4 DEF DependenciesIntegrated
    <3> QED  BY <2>2, <3>5
  <2>3. CASE (DispatchReviewer /\ call'.at = "ownReviewer") \/ (DispatchHolistic /\ call'.at = "ownHolistic")
             \/ call'.at = "reopen"
    BY <2>3
  <2>4. ~ReleaseWriter
    BY DEF ReleaseWriter, At, Ordered
  <2>5. ASSUME NEW k \in DOMAIN tasks, At("ready"), k \in Ready, call'.at = "ownReady", call'.key = k
        PROVE  DependenciesIntegrated(call.key)'
    <3>1. DependenciesIntegrated(k)
      BY <2>5 DEF Ready
    <3>2. DependenciesIntegrated(k)'
      BY <2>5, <3>1, DependenciesStay DEF At
    <3> QED  BY <2>5, <3>2 DEF DependenciesIntegrated
  <2>6. left'.operator # left.operator - 1
    BY <1>0
  <2> QED  BY <1>3, <2>1, <2>2, <2>3, <2>4, <2>5, <2>6 DEF Arrives
<1> QED  BY <1>1, <1>2, <1>3, StepArrives

LEMMA NextOInv == IInv /\ PlanInv /\ MInv /\ CInv /\ OInv /\ [Next]_vars => OInv'
<1> SUFFICES ASSUME IInv, PlanInv, MInv, CInv, OInv, [Next]_vars  PROVE OInv'
  OBVIOUS
<1>1. NothingGained' /\ ReadyApproved' /\ ReopensReviewed'
  BY UntouchedBefore, NextReady, NextReopens DEF OInv
<1>2. ASSUME Untouched'  PROVE Ordered'
  <2>1. Untouched /\ left'.operator = left.operator /\ Ordered /\ ReopensReviewed
    BY <1>2, UntouchedBefore DEF OInv
  <2>2. \A k \in DOMAIN tasks' : Underway(k)'
    <3>1. CASE At("reopen") \/ plan' # plan
      BY <2>1, <3>1, UnderwayAnew
    <3>2. CASE ~At("reopen") /\ plan' = plan
      <4>1. DOMAIN tasks' = DOMAIN tasks
        BY <3>2, PlansAdd
      <4> QED  BY <2>1, <3>2, <4>1, UnderwayStays
    <3> QED  BY <3>1, <3>2
  <2> QED  BY <2>1, <2>2, StartsInOrder DEF Ordered
<1> QED  BY <1>1, <1>2 DEF OInv

LEMMA InitOInv == Init => OInv
<1> SUFFICES ASSUME Init  PROVE OInv
  OBVIOUS
<1>1. tasks = <<>> /\ call = Idle /\ left = Budget
  BY DEF Init, PipelineInit
<1>2. DOMAIN tasks = {} /\ call.at = "idle"
  BY <1>1 DEF Idle
<1>3. NothingGained
  BY <1>1, BudgetTyped DEF NothingGained
<1>4. Ordered
  BY <1>2 DEF Ordered
<1> QED  BY <1>2, <1>3, <1>4, InitialJob DEF OInv, ReadyApproved, CanPublish, ReopensReviewed, At

(* As long as no operator intervenes, a writer starts a task only when all  *)
(* it depends on is integrated or needs no changes, and a task integrates   *)
(* only after everything before it in the plan's order, whichever handler   *)
(* was interrupted in between (server.go 759-779, 915-923, controller.go    *)
(* 590-612).                                                                *)
THEOREM OrderKept == Spec => PlanOrderKept
<1>1. IInv /\ PlanInv /\ OInv /\ [Next]_vars =>
        [left.operator = Budget.operator => \A k \in DOMAIN tasks :
           /\ tasks[k].Status # "working" /\ tasks'[k].Status = "working" =>
                DependenciesIntegrated(k)
           /\ tasks[k].Status = "integrating" /\ tasks'[k].Status = "integrated" =>
                \A j \in DOMAIN tasks : Precedes(plan.IntegrationOrder, j, k) =>
                  tasks[j].Status \in {"integrated", "no_changes"}]_vars
  <2> SUFFICES ASSUME IInv, PlanInv, OInv, [Next]_vars, left.operator = Budget.operator,
                      NEW k \in DOMAIN tasks
               PROVE  /\ tasks[k].Status # "working" /\ tasks'[k].Status = "working" =>
                           DependenciesIntegrated(k)
                      /\ tasks[k].Status = "integrating" /\ tasks'[k].Status = "integrated" =>
                           \A j \in DOMAIN tasks : Precedes(plan.IntegrationOrder, j, k) =>
                             tasks[j].Status \in {"integrated", "no_changes"}
    OBVIOUS
  <2>1. Ordered /\ Changes(k, tasks[k], tasks'[k])
    BY StepChanges DEF OInv, Untouched, TasksChange
  <2>2. ASSUME tasks[k].Status # "working", tasks'[k].Status = "working"
        PROVE  DependenciesIntegrated(k)
    <3>1. Starts(k, tasks[k], tasks'[k])
      BY <2>1, <2>2 DEF Changes, Rests, Completes, FindsNothing, GetsReviewer, IsJudged, IsBlocked,
         BeginsIntegration, EndsIntegration, BecomesEligible, IsReleased, LosesReviewer, IsReopened
    <3> QED  BY <2>1, <3>1 DEF Starts, Ordered
  <2>3. ASSUME tasks[k].Status = "integrating"
        PROVE  \A j \in DOMAIN tasks : Precedes(plan.IntegrationOrder, j, k) =>
                 tasks[j].Status \in {"integrated", "no_changes"}
    BY <2>1, <2>3 DEF Ordered, Underway, PrerequisitesMet, Done
  <2> QED  BY <2>2, <2>3
<1> QED  BY <1>1, InitPlanInv, NextPlanInv, InitMInv, NextMInv, InitCInv, NextCInv, InitOInv, NextOInv,
            Invariance, PTL DEF Spec, PlanOrderKept

-----------------------------------------------------------------------------
(* Owners are dispatches. *)

(* The dispatch a handler is about to record is there. *)
AboutToOwn ==
  /\ call.at \in {"ownWriter", "ownReady"} => WriterRun(call.key) \in DOMAIN runs
  /\ At("ownReviewer") => ReviewerRun(call.key) \in DOMAIN runs
  /\ At("ownHolistic") => HolisticRun \in DOMAIN runs

WInv == OwnersDispatched /\ AboutToOwn

LEMMA LaunchedHere ==
  ASSUME NEW run, Launch(run)
  PROVE  run \in DOMAIN runs'
BY DEF Launch

(* A writer's dispatch records at most the base of its task. *)
LEMMA LaunchCounts ==
  ASSUME IInv, NEW k \in DOMAIN tasks, LaunchWriter(k)
  PROVE  /\ DOMAIN tasks' = DOMAIN tasks
         /\ tasks'[k].WriterAttempts = tasks[k].WriterAttempts
         /\ WriterRun(k) \in DOMAIN runs'
<1>1. tasks[k] \in Task
  BY InvFacts DEF PipelineTypeOK
<1> QED  BY <1>1, LaunchedHere DEF LaunchWriter, RecordTaskBase, pipelineVars, Task

(* What changes the owner of the holistic round. *)
LEMMA RoundOwner ==
  ASSUME IInv, [Next]_vars
  PROVE  \/ job'.HolisticReviewRunID = job.HolisticReviewRunID
         \/ job'.HolisticReviewRunID = 0
         \/ At("ownHolistic") /\ job'.HolisticReviewRunID = job.HolisticRounds + 1
<1>0. job \in Job
  BY InvFacts DEF PipelineTypeOK
<1>1. CASE UNCHANGED pipelineVars \/ Reload
  BY <1>1 DEF pipelineVars, Reload
<1>2. CASE TaskTransition
  BY <1>0, <1>2, TaskJob DEF TaskMovesJob, Job
<1>3. CASE PlanTransition
  BY <1>0, <1>3, PlanJob DEF PlanMovesJob, Job, pipelineVars
<1>4. CASE JobTransition
  <2>1. CASE \/ StartPlanning \/ RecordPullRequest \/ RecordMerge \/ FailJob \/ ResetHolisticRound
             \/ RetryPlanning
    BY <1>0, <2>1 DEF StartPlanning, RecordPullRequest, RecordMerge, FailJob, ResetHolisticRound,
       RetryPlanning, Job
  <2>2. CASE (\E sha : StartCI(sha)) \/ (\E print : BeginCIReplan(print))
             \/ (\E sha, state, print : RecordCI(sha, state, print))
    BY <1>0, <2>2 DEF StartCI, BeginCIReplan, RecordCI, Job
  <2>3. CASE At("ownHolistic") /\ StartHolisticReviewer(job.HolisticRounds + 1, job.IntegrationSHA)
    BY <1>0, <2>3 DEF StartHolisticReviewer, Job
  <2>4. CASE \E run \in DOMAIN runs :
               /\ Applicable(run) /\ run.Role = "holistic"
               /\ RecordHolisticReview(run.Attempt, job.IntegrationSHA, runs[run])
    <3> PICK run \in DOMAIN runs :
               /\ Applicable(run) /\ run.Role = "holistic"
               /\ RecordHolisticReview(run.Attempt, job.IntegrationSHA, runs[run])
      BY <2>4
    <3>1. run.Attempt = job.HolisticReviewRunID
      BY DEF Applicable, Owns
    <3> QED  BY <1>0, <3>1 DEF RecordHolisticReview, Job, pipelineVars
  <2> QED  BY <1>4, <2>1, <2>2, <2>3, <2>4 DEF JobTransition
<1>5. CASE OperatorTransition
  BY <1>0, <1>5 DEF OperatorTransition, Resume, ResumeBlockedWriter, ReopenNoChangesTask,
     ResetHolisticRound, Pause, Cancel, StartHolisticRereview, Job
<1> QED  BY <1>1, <1>2, <1>3, <1>4, <1>5, StepTransition DEF Transition

LEMMA NextOwners ==
  ASSUME IInv, PlanInv, MInv, WInv, [Next]_vars
  PROVE  OwnersDispatched'
<1>1. TasksChange /\ DOMAIN runs \subseteq DOMAIN runs'
  BY StepChanges, RunsGrow
<1>2. ASSUME NEW k \in DOMAIN tasks'
      PROVE  /\ tasks'[k].WriterRunID > 0 =>
                  RunOf("writer", k, tasks'[k].WriterRunID) \in DOMAIN runs'
             /\ tasks'[k].ReviewerRunID > 0 =>
                  RunOf("reviewer", k, tasks'[k].ReviewerRunID) \in DOMAIN runs'
  <2> DEFINE t == tasks[k]
             u == tasks'[k]
  <2>1. CASE k \notin DOMAIN tasks
    BY <1>1, <2>1 DEF TasksChange, Fresh
  <2>2. CASE k \in DOMAIN tasks
    <3>1. Changes(k, t, u)
      BY <1>1, <2>2 DEF TasksChange
    <3>2. /\ t.WriterRunID > 0 => RunOf("writer", k, t.WriterRunID) \in DOMAIN runs
          /\ t.ReviewerRunID > 0 => RunOf("reviewer", k, t.ReviewerRunID) \in DOMAIN runs
      BY <2>2 DEF WInv, OwnersDispatched
    <3>3. CASE Starts(k, t, u)
      BY <1>1, <3>3 DEF Starts, WInv, AboutToOwn, WriterRun
    <3>4. CASE GetsReviewer(k, t, u)
      BY <1>1, <3>2, <3>4 DEF GetsReviewer, WInv, AboutToOwn, ReviewerRun, At
    <3>5. CASE IsJudged(k, t, u)
      BY <1>1, <3>2, <3>5 DEF IsJudged, MInv, HandlerKnows, Given
    <3>6. CASE ~Starts(k, t, u) /\ ~GetsReviewer(k, t, u) /\ ~IsJudged(k, t, u)
      <4>1. /\ u.WriterRunID = t.WriterRunID \/ u.WriterRunID = 0
            /\ u.ReviewerRunID = t.ReviewerRunID \/ u.ReviewerRunID = 0
        BY <3>1, <3>6 DEF Changes, Rests, Completes, FindsNothing, IsBlocked, BeginsIntegration,
           EndsIntegration, BecomesEligible, IsReleased, LosesReviewer, IsReopened, SameOwners
      <4> QED  BY <1>1, <3>2, <4>1
    <3> QED  BY <3>3, <3>4, <3>5, <3>6
  <2> QED  BY <2>1, <2>2
<1>3. job'.HolisticReviewRunID > 0 =>
        RunOf("holistic", JobKey, job'.HolisticReviewRunID) \in DOMAIN runs'
  BY <1>1, RoundOwner DEF WInv, OwnersDispatched, AboutToOwn, HolisticRun
<1> QED  BY <1>2, <1>3 DEF OwnersDispatched

LEMMA NextAboutToOwn ==
  ASSUME IInv, WInv, [Next]_vars
  PROVE  AboutToOwn'
<1>1. CASE call'.at \notin Watched
  BY <1>1 DEF Watched, AboutToOwn, At
<1>2. CASE Beside
  <2>1. /\ call' = call /\ tasks' = tasks /\ DOMAIN runs \subseteq DOMAIN runs'
        /\ job' = job \/ job' = [job EXCEPT !.Status = "planning"]
    BY <1>2 DEF Beside, StartPlanning
  <2>2. job'.HolisticRounds = job.HolisticRounds
    BY <2>1, InvFacts DEF PipelineTypeOK, Job
  <2> QED  BY <2>1, <2>2 DEF WInv, AboutToOwn, At, WriterRun, ReviewerRun, HolisticRun
<1>3. CASE Arrives
  <2>1. CASE DispatchWriter /\ Keeping /\ call'.at = "ownWriter"
    <3> PICK k \in DOMAIN tasks : k = call.key
      BY <2>1, InvFacts DEF DispatchWriter, At, TaskSteps
    <3>1. LaunchWriter(k) /\ call'.key = k
      BY <2>1 DEF DispatchWriter, Keeping
    <3>2. RunOf("writer", k, tasks'[k].WriterAttempts + 1) \in DOMAIN runs'
      BY <3>1, LaunchCounts DEF WriterRun
    <3> QED  BY <2>1, <3>1, <3>2 DEF AboutToOwn, At, WriterRun
  <2>2. CASE DispatchReviewer /\ Keeping /\ call'.at = "ownReviewer"
    <3>1. ReviewerRun(call.key) \in DOMAIN runs' /\ tasks' = tasks /\ call'.key = call.key
      BY <2>2, LaunchedHere DEF DispatchReviewer, pipelineVars, Keeping
    <3> QED  BY <2>2, <3>1 DEF AboutToOwn, At, ReviewerRun
  <2>3. CASE DispatchHolistic /\ call'.at = "ownHolistic"
    <3>1. HolisticRun \in DOMAIN runs' /\ job' = job
      BY <2>3, LaunchedHere DEF DispatchHolistic, pipelineVars
    <3> QED  BY <2>3, <3>1 DEF AboutToOwn, At, HolisticRun
  <2>4. ASSUME NEW k \in DOMAIN tasks, LaunchWriter(k), call'.at = "ownReady", call'.key = k
        PROVE  AboutToOwn'
    <3>1. RunOf("writer", k, tasks'[k].WriterAttempts + 1) \in DOMAIN runs'
      BY <2>4, LaunchCounts DEF WriterRun
    <3> QED  BY <2>4, <3>1 DEF AboutToOwn, At, WriterRun
  <2>5. CASE call'.at \notin {"ownWriter", "ownReady", "ownReviewer", "ownHolistic"}
    BY <2>5 DEF AboutToOwn, At
  <2> QED  BY <1>3, <2>1, <2>2, <2>3, <2>4, <2>5 DEF Arrives
<1> QED  BY <1>1, <1>2, <1>3, StepArrives

LEMMA NextWInv == IInv /\ PlanInv /\ MInv /\ WInv /\ [Next]_vars => WInv'
BY NextOwners, NextAboutToOwn DEF WInv

LEMMA InitWInv == Init => WInv
<1> SUFFICES ASSUME Init  PROVE WInv
  OBVIOUS
<1>1. tasks = <<>> /\ call = Idle
  BY DEF Init, PipelineInit
<1>2. DOMAIN tasks = {} /\ call.at = "idle"
  BY <1>1 DEF Idle
<1>3. job.HolisticReviewRunID = 0
  BY InitialJob
<1> QED  BY <1>2, <1>3 DEF WInv, OwnersDispatched, AboutToOwn, At

(* Every owner a job records is a dispatch that was made, whatever fails    *)
(* between a launch and the record of it (server.go 781-810).               *)
THEOREM OwnersExist == Spec => []OwnersDispatched
<1>1. WInv => OwnersDispatched
  BY DEF WInv
<1> QED  BY <1>1, InitPlanInv, NextPlanInv, InitMInv, NextMInv, InitWInv, NextWInv, Invariance,
            PTL DEF Spec

-----------------------------------------------------------------------------
(* The planner's revisions, and the other loops that run by themselves. *)

RevisionRounds == {k.Round : k \in {x \in DOMAIN tasks : x.Origin = "revision"}}

(* A job waits for a revision exactly when one more was begun than applied. *)
RevisionsCounted ==
  /\ job.Status # "paused"
  /\ RevisionRounds = 1..job.AppliedCIReplanRound
  /\ job.Status = "ci_replanning" => job.CIReplanRounds = job.AppliedCIReplanRound + 1
  /\ job.Status \notin Ended \cup {"ci_replanning"} =>
       job.CIReplanRounds = job.AppliedCIReplanRound

(* A handler starts a writer only while the task has attempts left. *)
AttemptsLeft ==
  call.at \in {"writer", "ownWriter", "ownReady"} =>
    tasks[call.key].WriterAttempts < MaxWriterAttempts

BInv == /\ ReplansBounded /\ NothingGained /\ ReadyApproved /\ ReopensReviewed
        /\ Untouched => RevisionsCounted /\ WritersBounded /\ AttemptsLeft

(* A transition of a task that moves the job finds work to do. *)
LEMMA TaskMovesUnfinished ==
  ASSUME IInv, TaskTransition, job' # job
  PROVE  \E k \in DOMAIN tasks : ~Done(tasks[k].Status)
<1>1. CASE \E k \in DOMAIN tasks : \E run : StartTaskWork(k, run) \/ RecordWriterCompletion(k, run)
                                           \/ RetryWriter(k, run) \/ RecordNoChanges(k, run)
  BY <1>1 DEF StartTaskWork, RecordWriterCompletion, RetryWriter, RecordNoChanges, Done, pipelineVars
<1>2. CASE \E k \in DOMAIN tasks : \E sha : StartIntegration(k) \/ RecordIntegration(k, sha)
  BY <1>2 DEF StartIntegration, RecordIntegration, Done
<1>3. ASSUME NEW k \in DOMAIN tasks, NEW run, NEW sha, NEW verdict, NEW same
      PROVE  ~(\/ BlockTask(k) \/ RecordTaskBase(k, sha) \/ StartReviewer(k, run) \/ RetryReview(k, run)
               \/ RecordReview(k, run, verdict) \/ RecordReviewReport(k, run, verdict, same))
  BY DEF BlockTask, RecordTaskBase, StartReviewer, RetryReview, RecordReview, RecordReviewReport,
     pipelineVars
<1> QED  BY <1>1, <1>2, <1>3 DEF TaskTransition, WorkOn, Pick, Take

(* How a step no operator takes moves the job among its revisions. *)
SameReplans == /\ job'.CIReplanRounds = job.CIReplanRounds
               /\ job'.AppliedCIReplanRound = job.AppliedCIReplanRound
Stays == /\ SameReplans
         /\ \/ job'.Status = job.Status
            \/ job'.Status \in Ended
            \/ job.Status # "ci_replanning" /\ job'.Status \notin {"ci_replanning", "paused"}
BeginsReplan == /\ job.Status = "awaiting_ci" /\ job'.Status = "ci_replanning"
                /\ job.CIReplanRounds < MaxCIReplanRounds
                /\ job'.CIReplanRounds = job.CIReplanRounds + 1
                /\ job'.AppliedCIReplanRound = job.AppliedCIReplanRound
Revises == job.Status = "ci_replanning" /\ \E p \in Proposal : RevisePlan(p)

LEMMA ReplanStep ==
  ASSUME IInv, CInv, ReopensReviewed, [Next]_vars,
         left'.operator = left.operator, job.Status # "paused"
  PROVE  Stays \/ BeginsReplan \/ Revises
<1>0. job \in Job /\ left.operator \in Nat
  BY InvFacts DEF PipelineTypeOK, EnvTypeOK, Budgets
<1>1. CASE UNCHANGED pipelineVars \/ Reload
  BY <1>1 DEF pipelineVars, Reload, Stays, SameReplans
<1>2. CASE TaskTransition
  <2>1. job' = job \/ job.Status # "ci_replanning"
    BY <1>2, TaskMovesUnfinished DEF CInv, WholeInv, IntegratedWhole, PastIntegration
  <2>2. /\ SameReplans
        /\ job'.Status \in {job.Status, "working", "reviewing", "planned", "integrating",
                            "holistic_reviewing", "no_changes"}
    BY <1>0, <1>2, TaskJob DEF TaskMovesJob, SameReplans, Job
  <2> QED  BY <2>1, <2>2 DEF Stays
<1>3. CASE PlanTransition
  <2>1. At("reopen") => job.Status # "ci_replanning"
    BY DEF ReopensReviewed
  <2>2. CASE \E p \in Proposal : RevisePlan(p) /\ job.Status # "ci_replanning"
    BY <2>2 DEF RevisePlan, Stays, SameReplans, pipelineVars
  <2>3. CASE \E p : SubmitPlan(p)
    BY <1>0, <2>3 DEF SubmitPlan, Stays, SameReplans, Job, pipelineVars
  <2>4. CASE (\E print : StartCIRemediation(print)) \/ StartReviewRemediation
             \/ (At("reopen") /\ ReopenIncompleteTasks)
    <3>1. \/ UNCHANGED pipelineVars
          \/ job.Status = "awaiting_ci" /\ job' = [job EXCEPT !.Status = "ci_remediating"]
          \/ job.Status # "ci_replanning" /\ job' = [job EXCEPT !.Status = "planned"]
      <4>1. CASE \E print : StartCIRemediation(print)
        BY <4>1 DEF StartCIRemediation, AwaitsRepair
      <4>2. CASE StartReviewRemediation
        BY <4>2 DEF StartReviewRemediation
      <4>3. CASE At("reopen") /\ ReopenIncompleteTasks
        BY <2>1, <4>3 DEF ReopenIncompleteTasks
      <4> QED  BY <2>4, <4>1, <4>2, <4>3
    <3> QED  BY <1>0, <3>1 DEF Stays, SameReplans, Job, pipelineVars
  <2> QED  BY <1>3, <2>2, <2>3, <2>4, OrchestrationAssumption DEF PlanTransition, Revises
<1>4. CASE JobTransition
  <2>1. CASE \/ StartPlanning \/ RecordPullRequest \/ RecordMerge \/ FailJob \/ ResetHolisticRound
             \/ RetryPlanning
    BY <1>0, <2>1 DEF StartPlanning, RecordPullRequest, RecordMerge, FailJob, ResetHolisticRound,
       RetryPlanning, Stays, SameReplans, Ended, Job
  <2>2. CASE (\E sha : StartCI(sha)) \/ (\E run, sha : StartHolisticReviewer(run, sha))
    BY <1>0, <2>2 DEF StartCI, StartHolisticReviewer, Stays, SameReplans, Job
  <2>3. CASE \E sha, state, print : RecordCI(sha, state, print) /\ job.Status = "awaiting_ci"
    BY <1>0, <2>3 DEF RecordCI, Stays, SameReplans, Job
  <2>4. CASE \E run, sha, verdict : RecordHolisticReview(run, sha, verdict)
    BY <1>0, <2>4 DEF RecordHolisticReview, Stays, SameReplans, Job, pipelineVars
  <2>5. CASE \E print : BeginCIReplan(print)
    <3>1. MaxCIReplanRounds \in Nat /\ job.CIReplanRounds \in Nat
      BY <1>0, PipelineAssumption DEF Job
    <3>2. CASE job' = [job EXCEPT !.Status = "failed"]
      BY <1>0, <3>2 DEF Stays, SameReplans, Ended, Job
    <3>3. CASE /\ job.Status = "awaiting_ci" /\ ~(job.CIReplanRounds >= MaxCIReplanRounds)
               /\ job' = [job EXCEPT !.CIReplanRounds = @ + 1, !.PlannerRetry = 0,
                                     !.Status = "ci_replanning"]
      <4>1. /\ job'.Status = "ci_replanning" /\ job'.CIReplanRounds = job.CIReplanRounds + 1
            /\ job'.AppliedCIReplanRound = job.AppliedCIReplanRound
        BY <1>0, <3>3 DEF Job
      <4>2. job.CIReplanRounds < MaxCIReplanRounds
        BY <3>1, <3>3
      <4> QED  BY <3>3, <4>1, <4>2 DEF BeginsReplan
    <3> QED  BY <2>5, <3>2, <3>3 DEF BeginCIReplan, AwaitsRepair
  <2> QED  BY <1>4, <2>1, <2>2, <2>3, <2>4, <2>5 DEF JobTransition
<1>5. ~OperatorTransition
  <2>1. left \in Budgets
    BY InvFacts DEF EnvTypeOK
  <2>2. left' = [left EXCEPT !.operator = @ - 1] => left'.operator = left.operator - 1
    BY <2>1 DEF Budgets
  <2>3. ~(left' = [left EXCEPT !.operator = @ - 1])
    BY <1>0, <2>2
  <2> QED  BY <2>3 DEF OperatorTransition, Resume
<1> QED  BY <1>1, <1>2, <1>3, <1>4, <1>5, StepTransition DEF Transition

(* The keys of a revision. *)
LEMMA RevisionKeyed ==
  ASSUME NEW p \in Proposal, NEW round \in Nat, p.Tasks # <<>>
  PROVE  LET draft == Keyed(p, round)
         IN  /\ Range(draft.Tasks) # {}
             /\ \A k \in Range(draft.Tasks) :
                  /\ k.Round = round
                  /\ k.Origin = IF round = 0 THEN "plan" ELSE "revision"
<1>1. /\ Keyed(p, round).Tasks = [i \in DOMAIN p.Tasks |->
            PlannedKey(IF p.Tasks[i] \in Range(p.Tasks) THEN round ELSE 0, p.Tasks[i])]
      /\ p.Tasks \in Seq(Name)
  BY DEF Keyed, Proposal
<1>2. \A i \in DOMAIN p.Tasks : p.Tasks[i] \in Range(p.Tasks)
  BY DEF Range
<1>3. Keyed(p, round).Tasks = [i \in DOMAIN p.Tasks |-> PlannedKey(round, p.Tasks[i])]
  BY <1>1, <1>2
<1>4. DOMAIN p.Tasks # {}
  <2>1. Len(p.Tasks) \in Nat /\ Len(p.Tasks) # 0 /\ DOMAIN p.Tasks = 1..Len(p.Tasks)
    BY <1>1, EmptySeq
  <2>2. 1 \in 1..Len(p.Tasks)
    BY <2>1
  <2> QED  BY <2>1, <2>2
<1> DEFINE keys == Keyed(p, round).Tasks
<1>5. /\ DOMAIN keys # {}
      /\ \A i \in DOMAIN keys : /\ keys[i].Round = round
                                /\ keys[i].Origin = IF round = 0 THEN "plan" ELSE "revision"
  BY <1>3, <1>4 DEF PlannedKey
<1> QED  BY <1>5 DEF Range

(* Only a revision adds a round to the plan. *)
LEMMA RoundsStay ==
  ASSUME IInv, PlanInv, [Next]_vars, ~Revises
  PROVE  RevisionRounds' = RevisionRounds
<1> SUFFICES {k \in DOMAIN tasks' : k.Origin = "revision"} = {k \in DOMAIN tasks : k.Origin = "revision"}
  BY DEF RevisionRounds
<1>1. CASE DOMAIN tasks' = DOMAIN tasks
  BY <1>1
<1>2. CASE DOMAIN tasks' # DOMAIN tasks
  <2>1. PlanTransition /\ ~UNCHANGED pipelineVars
    BY <1>2, PlansAdd
  <2>2. CASE \E p \in Proposal : SubmitPlan(p)
    <3> PICK p \in Proposal : SubmitPlan(p)
      BY <2>2
    <3>1. ~HasPlan /\ p.Tasks # <<>> /\ tasks' = Keyed(p, 0).Added
      BY <2>1 DEF SubmitPlan, ValidPlan, Keyed
    <3>2. DOMAIN tasks = {}
      BY <3>1, InvFacts DEF HasPlan, NoPlan, PipelineTypeOK, Range
    <3>3. DOMAIN tasks' = Range(Keyed(p, 0).Tasks)
      BY <3>1 DEF Keyed
    <3>4. \A k \in Range(Keyed(p, 0).Tasks) : k.Origin = "plan"
      BY <3>1, RevisionKeyed
    <3> QED  BY <3>2, <3>3, <3>4
  <2>3. CASE \E key : DOMAIN tasks' = DOMAIN tasks \cup {key} /\ key.Origin \in {"ci", "holistic"}
    BY <2>3
  <2>4. CASE (\E print : StartCIRemediation(print)) \/ StartReviewRemediation
    <3> DEFINE ci == RemediationKey("ci", Len(plan.Tasks) + 1)
               hol == RemediationKey("holistic", job.HolisticRounds)
               fresh(key, t) == [k \in {key} |-> t]
    <3>1. \E key \in {ci, hol} : \E t : tasks' = Extend(fresh(key, t))
      BY <2>1, <2>4 DEF StartCIRemediation, StartReviewRemediation
    <3>2. \A key, t : DOMAIN Extend(fresh(key, t)) = DOMAIN tasks \cup {key}
      BY DEF Extend
    <3>3. ci.Origin = "ci" /\ hol.Origin = "holistic"
      BY DEF RemediationKey
    <3> HIDE DEF ci, hol, fresh
    <3>4. \E key : DOMAIN tasks' = DOMAIN tasks \cup {key} /\ key.Origin \in {"ci", "holistic"}
      BY <3>1, <3>2, <3>3
    <3> QED  BY <2>3, <3>4
  <2>5. CASE ReopenIncompleteTasks
    BY <1>2, <2>5 DEF ReopenIncompleteTasks
  <2>6. CASE \E p \in Proposal : RevisePlan(p)
    BY <2>1, <2>6 DEF Revises, RevisePlan
  <2> QED  BY <2>1, <2>2, <2>4, <2>5, <2>6, OrchestrationAssumption DEF PlanTransition
<1> QED  BY <1>1, <1>2

LEMMA RoundAdded ==
  ASSUME IInv, PlanInv, Revises, job.CIReplanRounds > 0
  PROVE  /\ RevisionRounds' = RevisionRounds \cup {job.CIReplanRounds}
         /\ job'.Status = "planned" /\ job'.CIReplanRounds = job.CIReplanRounds
         /\ job'.AppliedCIReplanRound = job.CIReplanRounds
<1>0. job \in Job /\ job.CIReplanRounds \in Nat
  BY InvFacts DEF PipelineTypeOK, Job
<1> PICK p \in Proposal : RevisePlan(p) /\ job.Status = "ci_replanning"
  BY DEF Revises
<1> DEFINE draft == Keyed(p, job.CIReplanRounds)
<1>1. /\ p.Tasks # <<>> /\ tasks' = Extend(draft.Added)
      /\ job' = [job EXCEPT !.AppliedCIReplanRound = job.CIReplanRounds, !.Status = "planned"]
  BY DEF RevisePlan
<1>2. DOMAIN tasks' = DOMAIN tasks \cup Range(draft.Tasks)
  <2>1. DOMAIN draft.Added = Range(draft.Tasks)
    BY DEF Keyed
  <2> QED  BY <1>1, <2>1 DEF Extend
<1>3. /\ Range(draft.Tasks) # {}
      /\ \A k \in Range(draft.Tasks) : k.Round = job.CIReplanRounds /\ k.Origin = "revision"
  BY <1>0, <1>1, RevisionKeyed
<1> HIDE DEF draft
<1>4. RevisionRounds' = RevisionRounds \cup {job.CIReplanRounds}
  BY <1>2, <1>3 DEF RevisionRounds
<1> QED  BY <1>0, <1>1, <1>4 DEF Job

LEMMA NextRevisions ==
  ASSUME IInv, PlanInv, CInv, ReopensReviewed, RevisionsCounted, [Next]_vars,
         left'.operator = left.operator
  PROVE  RevisionsCounted'
<1>0. job \in Job /\ job.CIReplanRounds \in Nat /\ job.AppliedCIReplanRound \in Nat
  BY InvFacts DEF PipelineTypeOK, Job
<1>1. CASE job.Status \in Ended
  <2>1. UNCHANGED pipelineVars \/ Reload
    BY <1>1, NotLiveStep DEF Live, Ended
  <2>2. job' = job /\ ~Revises
    BY <1>1, <2>1 DEF pipelineVars, Reload, Revises, Ended
  <2> QED  BY <1>1, <2>2, RoundsStay DEF RevisionsCounted, Ended
<1>2. CASE Revises
  <2>1. job.CIReplanRounds = job.AppliedCIReplanRound + 1
    BY <1>2 DEF Revises, RevisionsCounted
  <2>2. /\ RevisionRounds' = (1..job.AppliedCIReplanRound) \cup {job.AppliedCIReplanRound + 1}
        /\ job'.Status = "planned" /\ job'.CIReplanRounds = job.CIReplanRounds
        /\ job'.AppliedCIReplanRound = job.CIReplanRounds
    BY <1>0, <1>2, <2>1, RoundAdded DEF RevisionsCounted
  <2>3. RevisionRounds' = 1..(job.AppliedCIReplanRound + 1)
    BY <1>0, <2>2
  <2> QED  BY <2>1, <2>2, <2>3 DEF RevisionsCounted
<1>3. CASE ~Revises /\ job.Status \notin Ended
  <2>1. RevisionRounds' = RevisionRounds
    BY <1>3, RoundsStay
  <2>2. Stays \/ BeginsReplan
    BY <1>3, ReplanStep DEF RevisionsCounted
  <2>3. "paused" \notin Ended /\ "ci_replanning" \notin Ended
    BY DEF Ended
  <2>4. CASE Stays
    BY <1>3, <2>1, <2>3, <2>4 DEF Stays, SameReplans, RevisionsCounted
  <2>5. CASE BeginsReplan
    BY <2>1, <2>3, <2>5 DEF BeginsReplan, RevisionsCounted, Ended
  <2> QED  BY <2>2, <2>4, <2>5
<1> QED  BY <1>1, <1>2, <1>3

(* Replans are counted by the one transition that checks their limit. *)
LEMMA NextReplans ==
  ASSUME IInv, ReplansBounded, [Next]_vars
  PROVE  ReplansBounded'
<1>0. job \in Job /\ job.CIReplanRounds \in Nat /\ MaxCIReplanRounds \in Nat
  BY InvFacts, PipelineAssumption DEF PipelineTypeOK, Job
<1> SUFFICES \/ job'.CIReplanRounds = job.CIReplanRounds
             \/ job'.CIReplanRounds = job.CIReplanRounds + 1 /\ job.CIReplanRounds < MaxCIReplanRounds
  BY <1>0 DEF ReplansBounded
<1>1. CASE UNCHANGED pipelineVars \/ Reload
  BY <1>1 DEF pipelineVars, Reload
<1>2. CASE TaskTransition
  BY <1>0, <1>2, TaskJob DEF TaskMovesJob, Job
<1>3. CASE PlanTransition
  BY <1>0, <1>3, PlanJob DEF PlanMovesJob, Job, pipelineVars
<1>4. CASE JobTransition
  <2>1. CASE \E print : BeginCIReplan(print)
    <3>1. \/ job' = [job EXCEPT !.Status = "failed"]
          \/ /\ ~(job.CIReplanRounds >= MaxCIReplanRounds)
             /\ job' = [job EXCEPT !.CIReplanRounds = @ + 1, !.PlannerRetry = 0,
                                  !.Status = "ci_replanning"]
      BY <2>1 DEF BeginCIReplan
    <3>2. \/ job'.CIReplanRounds = job.CIReplanRounds
          \/ /\ ~(job.CIReplanRounds >= MaxCIReplanRounds)
             /\ job'.CIReplanRounds = job.CIReplanRounds + 1
      BY <1>0, <3>1 DEF Job
    <3> QED  BY <1>0, <3>2
  <2>2. CASE \/ StartPlanning \/ RecordPullRequest \/ RecordMerge \/ FailJob \/ ResetHolisticRound
             \/ RetryPlanning \/ (\E sha : StartCI(sha)) \/ (\E run, sha : StartHolisticReviewer(run, sha))
             \/ (\E sha, state, print : RecordCI(sha, state, print))
             \/ (\E run, sha, verdict : RecordHolisticReview(run, sha, verdict))
    BY <1>0, <2>2 DEF StartPlanning, RecordPullRequest, RecordMerge, FailJob, ResetHolisticRound,
       RetryPlanning, StartCI, StartHolisticReviewer, RecordCI, RecordHolisticReview, Job, pipelineVars
  <2> QED  BY <1>4, <2>1, <2>2 DEF JobTransition
<1>5. CASE OperatorTransition
  BY <1>0, <1>5 DEF OperatorTransition, Resume, ResumeBlockedWriter, ReopenNoChangesTask,
     ResetHolisticRound, Pause, Cancel, StartHolisticRereview, Job
<1> QED  BY <1>1, <1>2, <1>3, <1>4, <1>5, StepTransition DEF Transition

(* Only a writer that starts counts an attempt. *)
LEMMA SameAttempts ==
  ASSUME NEW k, NEW t, NEW u, Changes(k, t, u), ~Starts(k, t, u)
  PROVE  u.WriterAttempts = t.WriterAttempts
BY DEF Changes, Rests, Completes, FindsNothing, GetsReviewer, IsJudged, IsBlocked, BeginsIntegration,
       EndsIntegration, BecomesEligible, IsReleased, LosesReviewer, IsReopened, SameCounts

(* A writer that starts uses up one of the attempts it had left. *)
LEMMA NextWriters ==
  ASSUME IInv, PlanInv, WritersBounded, AttemptsLeft, [Next]_vars
  PROVE  WritersBounded'
<1>1. TasksChange
  BY StepChanges
<1>2. ASSUME NEW k \in DOMAIN tasks'  PROVE tasks'[k].WriterAttempts <= MaxWriterAttempts
  <2>1. CASE k \notin DOMAIN tasks
    BY <1>1, <1>2, <2>1, OrchestrationAssumption DEF TasksChange, Fresh
  <2>2. CASE k \in DOMAIN tasks
    <3> DEFINE t == tasks[k]
               u == tasks'[k]
    <3>1. Changes(k, t, u) /\ t.WriterAttempts \in Nat /\ t.WriterAttempts <= MaxWriterAttempts
      BY <1>1, <2>2, InvFacts DEF TasksChange, PipelineTypeOK, Task, WritersBounded
    <3>2. CASE Starts(k, t, u)
      <4>1. t.WriterAttempts < MaxWriterAttempts /\ u.WriterAttempts = t.WriterAttempts + 1
        BY <3>2 DEF Starts, AttemptsLeft
      <4> QED  BY <3>1, <4>1, OrchestrationAssumption
    <3>3. CASE ~Starts(k, t, u)
      <4>1. u.WriterAttempts = t.WriterAttempts
        BY <3>1, <3>3, SameAttempts
      <4> QED  BY <3>1, <4>1
    <3> QED  BY <3>2, <3>3
  <2> QED  BY <2>1, <2>2
<1> QED  BY <1>2 DEF WritersBounded

LEMMA NextAttempts ==
  ASSUME IInv, PlanInv, MInv, WritersBounded, AttemptsLeft, Ordered, [Next]_vars,
         left'.operator = left.operator
  PROVE  AttemptsLeft'
<1>0. left.operator \in Nat
  BY InvFacts DEF EnvTypeOK, Budgets
<1>1. CASE call'.at \notin Watched
  BY <1>1 DEF Watched, AttemptsLeft
<1>2. CASE Beside
  BY <1>2 DEF Beside, AttemptsLeft
<1>3. CASE Arrives
  <2>1. CASE DecideReview /\ Keeping /\ call'.at \in {"writer", "block"}
    <3> PICK k \in DOMAIN tasks : k = call.key
      BY <2>1, DecideMoves
    <3>1. call'.at = "writer" => ~(tasks[k].WriterAttempts >= MaxWriterAttempts)
      <4>1. ASSUME call'.at = "writer", GoThen("integrate", "draft") \/ Go("block")  PROVE FALSE
        BY <4>1, InvFacts DEF GoThen, Go, Call
      <4>2. tasks[k].WriterAttempts >= MaxWriterAttempts => GoThen("integrate", "draft") \/ Go("block")
        BY <2>1 DEF DecideReview
      <4> QED  BY <4>1, <4>2
    <3>2. tasks'[k].WriterAttempts = tasks[k].WriterAttempts
      <4>1. Changes(k, tasks[k], tasks'[k]) /\ ~Starts(k, tasks[k], tasks'[k])
        BY <2>1, StepChanges DEF TasksChange, DecideReview, At, Starts
      <4> QED  BY <4>1, SameAttempts
    <3>3. tasks[k].WriterAttempts \in Nat
      BY InvFacts DEF PipelineTypeOK, Task
    <3> QED  BY <2>1, <3>1, <3>2, <3>3, OrchestrationAssumption DEF Keeping, AttemptsLeft
  <2>2. CASE DispatchWriter /\ Keeping /\ call'.at = "ownWriter"
    <3> PICK k \in DOMAIN tasks : k = call.key
      BY <2>2, InvFacts DEF DispatchWriter, At, TaskSteps
    <3>1. LaunchWriter(k) /\ tasks[k].WriterAttempts < MaxWriterAttempts
      BY <2>2 DEF DispatchWriter, At, AttemptsLeft
    <3> QED  BY <2>2, <3>1, LaunchCounts DEF Keeping, AttemptsLeft
  <2>3. CASE (DispatchReviewer /\ call'.at = "ownReviewer") \/ (DispatchHolistic /\ call'.at = "ownHolistic")
             \/ call'.at = "reopen"
    BY <2>3 DEF AttemptsLeft
  <2>4. ~ReleaseWriter
    BY DEF ReleaseWriter, At, Ordered
  <2>5. ASSUME NEW k \in DOMAIN tasks, tasks[k].WriterAttempts < MaxWriterAttempts, LaunchWriter(k),
               call'.at = "ownReady", call'.key = k
        PROVE  AttemptsLeft'
    BY <2>5, LaunchCounts DEF AttemptsLeft
  <2>6. left'.operator # left.operator - 1
    BY <1>0
  <2> QED  BY <1>3, <2>1, <2>2, <2>3, <2>4, <2>5, <2>6 DEF Arrives
<1> QED  BY <1>1, <1>2, <1>3, StepArrives

LEMMA NextBInv == IInv /\ PlanInv /\ MInv /\ CInv /\ OInv /\ BInv /\ [Next]_vars => BInv'
<1> SUFFICES ASSUME IInv, PlanInv, MInv, CInv, OInv, BInv, [Next]_vars  PROVE BInv'
  OBVIOUS
<1>1. ReplansBounded' /\ NothingGained' /\ ReadyApproved' /\ ReopensReviewed'
  BY NextReplans, UntouchedBefore, NextReady, NextReopens DEF BInv
<1>2. ASSUME Untouched'  PROVE RevisionsCounted' /\ WritersBounded' /\ AttemptsLeft'
  <2>1. Untouched /\ left'.operator = left.operator
    BY <1>2, UntouchedBefore DEF BInv
  <2>2. Ordered /\ ReopensReviewed /\ RevisionsCounted /\ WritersBounded /\ AttemptsLeft
    BY <2>1 DEF OInv, BInv
  <2> QED  BY <2>1, <2>2, NextRevisions, NextWriters, NextAttempts
<1> QED  BY <1>1, <1>2 DEF BInv

LEMMA InitBInv == Init => BInv
<1> SUFFICES ASSUME Init  PROVE BInv
  OBVIOUS
<1>1. NothingGained /\ ReadyApproved /\ ReopensReviewed
  BY InitOInv DEF OInv
<1>2. tasks = <<>> /\ call = Idle
  BY DEF Init, PipelineInit
<1>3. DOMAIN tasks = {} /\ call.at = "idle"
  BY <1>2 DEF Idle
<1>4. /\ job.Status = "created" /\ job.CIReplanRounds = 0 /\ job.AppliedCIReplanRound = 0
  BY InitialJob
<1>5. RevisionRounds = 1..0
  BY <1>3 DEF RevisionRounds
<1>6. RevisionsCounted
  BY <1>4, <1>5 DEF RevisionsCounted
<1>7. ReplansBounded
  BY <1>4, PipelineAssumption DEF ReplansBounded
<1> QED  BY <1>1, <1>3, <1>6, <1>7 DEF BInv, WritersBounded, AttemptsLeft

(* As long as no operator intervenes, the rounds in the plan are the        *)
(* applied ones and a job that waits for a revision has one to apply,       *)
(* however often its planner, its writers and its CI fail and whichever     *)
(* handler was interrupted (store.go 367-466).                              *)
THEOREM RevisionsKept == Spec => [](left.operator = Budget.operator => RevisionsApplied)
<1>1. IInv /\ BInv => (left.operator = Budget.operator => RevisionsApplied)
  <2> SUFFICES ASSUME IInv, BInv, Untouched  PROVE RevisionsApplied
    BY DEF Untouched
  <2>1. job.AppliedCIReplanRound \in Nat
    BY InvFacts DEF PipelineTypeOK, Job
  <2> QED  BY <2>1 DEF BInv, RevisionsCounted, RevisionRounds, RevisionsApplied
<1> QED  BY <1>1, InitPlanInv, NextPlanInv, InitMInv, NextMInv, InitCInv, NextCInv, InitOInv, NextOInv,
            InitBInv, NextBInv, Invariance, PTL DEF Spec

(* The planner is never asked for more revisions than it may make, and no   *)
(* writer starts again by itself more often than its task allows (server.go *)
(* 730-747, store.go 388).                                                  *)
THEOREM WorkBounded ==
  Spec => [](/\ ReplansBounded
             /\ left.operator = Budget.operator => WritersBounded)
<1>1. BInv => /\ ReplansBounded
              /\ left.operator = Budget.operator => WritersBounded
  BY DEF BInv, Untouched
<1> QED  BY <1>1, InitPlanInv, NextPlanInv, InitMInv, NextMInv, InitCInv, NextCInv, InitOInv, NextOInv,
            InitBInv, NextBInv, Invariance, PTL DEF Spec

-----------------------------------------------------------------------------
(* The merge gate, and what the job knows of the head it would merge.       *)

(* No operator's tool has been called and nobody else has acted on GitHub.  *)
Undisturbed == left.operator = Budget.operator /\ left.foreign = Budget.foreign
Alone == left'.operator = left.operator /\ left'.foreign = left.foreign

(* Only other people's actions spend of theirs. *)
LEMMA ForeignStep ==
  ASSUME IInv, [Next]_vars
  PROVE  /\ left'.foreign \in Nat
         /\ \/ left'.foreign = left.foreign
            \/ left'.foreign = left.foreign - 1 /\ (ChecksRerun \/ ForeignPush \/ ForeignMerge)
<1>0. left \in Budgets
  BY InvFacts DEF EnvTypeOK
<1>1. CASE UNCHANGED left
  BY <1>0, <1>1 DEF Budgets
<1>2. ASSUME NEW kind \in {"faults", "operator", "conflicts"}, Spend(kind)
      PROVE  left'.foreign = left.foreign /\ left'.foreign \in Nat
  BY <1>0, <1>2 DEF Spend, Budgets
<1>3. CASE ChecksRerun \/ ForeignPush \/ ForeignMerge
  <2>1. Spend("foreign")
    BY <1>3 DEF ChecksRerun, ForeignPush, ForeignMerge
  <2> QED  BY <1>0, <1>3, <2>1 DEF Spend, Budgets
<1>4. CASE Operator
  <2>1. UNCHANGED left \/ Spend("operator")
    BY <1>4 DEF Operator, RetryCodeTask, RetryCodePlanning, ResetHolisticReview, StartRereview,
       PublishApproved, PauseJob, ResumeJob, CancelCodeJob, Operate, envVars
  <2> QED  BY <1>1, <1>2, <2>1
<1>5. CASE Continue
  <2>1. UNCHANGED left \/ Spend("conflicts")
    BY <1>5 DEF Continue, HandlerStep, Mark, Complete, DispatchReviewer, OwnReviewer, DecideReview,
      StopTask, DispatchWriter, OwnWriter, DispatchReady, OwnReady, NoneReady, BeginIntegration,
      IntegrationRefused, NoneIntegrable, MergeTask, MergeConflict, Integrated, PushBranch, CreatePR,
      SavePullRequest, BeginCI, DraftRefused, Publish, Promote, PassGate, GateRefused, AlreadyMerged,
      MergePR, SaveMerge, DispatchHolistic, OwnHolistic, NewHolisticRound, Reopen, StopJob, RepairCI,
      EscalateCI, DispatchPlanner, NextReviewer, ReleaseWriter, ReleaseReviewer, RenewPlanning,
      CancelRuns, LaunchWriter, envVars
  <2> QED  BY <1>1, <1>2, <2>1
<1>6. CASE \/ CreateAndPlan \/ \E run \in DOMAIN runs : Answer(run) \/ ApplyOutcome(run)
           \/ Poll \/ ChecksFinish \/ UNCHANGED vars
  <2>1. UNCHANGED left
    BY <1>6 DEF CreateAndPlan, Answer, ApplyOutcome, ApplySettled, ApplyFailure, ApplyPlan,
       ApplyWriterCommit, ApplyWriterNoChanges, ApplyWriterBlocked, ApplyWriterHandoff, ApplyReview,
       ApplyHolistic, Poll, ReconcileTasks, ReconcileReplan, ReconcileHolistic, ReconcileCancelled,
       ResumePlanner, ObservePublication, ObserveStrandedRound, ObserveForeignHead, ObserveChecks,
       ChecksFinish, vars, envVars
  <2> QED  BY <1>1, <2>1
<1>7. CASE Abandon \/ Restart
  BY <1>2, <1>7 DEF Abandon, Restart
<1> QED  BY <1>3, <1>4, <1>5, <1>6, <1>7 DEF Next

(* Nobody has acted before if nobody has after. *)
ForeignKept == left.foreign <= Budget.foreign

LEMMA UndisturbedBefore ==
  ASSUME IInv, NothingGained, ForeignKept, [Next]_vars
  PROVE  /\ ForeignKept'
         /\ Undisturbed' => Undisturbed /\ Alone
<1>1. Budget.foreign \in Nat /\ left.foreign \in Nat
  BY InvFacts, OrchestrationAssumption DEF EnvTypeOK, Budgets
<1> QED  BY <1>1, ForeignStep, UntouchedBefore DEF ForeignKept, Undisturbed, Alone, Untouched

(* Only a merge of a task's branch moves the head of the repository.        *)
LEMMA HeadStays ==
  ASSUME IInv, [Next]_vars, ~MergeTask
  PROVE  repo'.head = repo.head
<1>1. repo \in Repo
  BY InvFacts DEF EnvTypeOK
<1>2. CASE ForeignPush
  BY <1>1, <1>2 DEF ForeignPush, Repo
<1>3. CASE \E run \in DOMAIN runs : ApplyWriterCommit(run)
  BY <1>1, <1>3 DEF ApplyWriterCommit, Repo
<1>4. CASE UNCHANGED repo
  BY <1>4
<1>5. CASE Continue
  <2>1. UNCHANGED repo
    BY <1>5 DEF Continue, HandlerStep, Mark, Complete, DispatchReviewer, OwnReviewer, DecideReview,
      StopTask, DispatchWriter, OwnWriter, DispatchReady, OwnReady, NoneReady, BeginIntegration,
      IntegrationRefused, NoneIntegrable, MergeConflict, Integrated, PushBranch, CreatePR,
      SavePullRequest, BeginCI, DraftRefused, Publish, Promote, PassGate, GateRefused, AlreadyMerged,
      MergePR, SaveMerge, DispatchHolistic, OwnHolistic, NewHolisticRound, Reopen, StopJob, RepairCI,
      EscalateCI, DispatchPlanner, NextReviewer, ReleaseWriter, ReleaseReviewer, RenewPlanning,
      CancelRuns, LaunchWriter, envVars
  <2> QED  BY <2>1
<1>6. CASE \E run \in DOMAIN runs : Answer(run) \/ ApplyOutcome(run)
  BY <1>3, <1>4, <1>6 DEF Answer, ApplyOutcome, ApplySettled, ApplyFailure, ApplyPlan,
     ApplyWriterNoChanges, ApplyWriterBlocked, ApplyWriterHandoff, ApplyReview, ApplyHolistic, envVars
<1>7. CASE Poll \/ Operator
  BY <1>4, <1>7 DEF Poll, ReconcileTasks, ReconcileReplan, ReconcileHolistic, ReconcileCancelled,
     ResumePlanner, ObservePublication, ObserveStrandedRound, ObserveForeignHead, ObserveChecks,
     Operator, RetryCodeTask, RetryCodePlanning, ResetHolisticReview, StartRereview,
     PublishApproved, PauseJob, ResumeJob, CancelCodeJob, envVars
<1>8. CASE \/ CreateAndPlan \/ ChecksFinish \/ ChecksRerun \/ ForeignMerge \/ Abandon
           \/ Restart \/ UNCHANGED vars
  BY <1>4, <1>8 DEF CreateAndPlan, ChecksFinish, ChecksRerun, ForeignMerge, Abandon, Restart, vars,
     envVars
<1> QED  BY <1>2, <1>5, <1>6, <1>7, <1>8 DEF Next

(* What moves the pull request when no other person does. *)
LEMMA PullStep ==
  ASSUME IInv, [Next]_vars, left'.foreign = left.foreign
  PROVE  pr' = pr \/ PushBranch \/ CreatePR \/ Promote \/ MergePR \/ ChecksFinish
<1>0. left \in Budgets
  BY InvFacts DEF EnvTypeOK
<1>1. ~Spend("foreign")
  BY <1>0 DEF Spend, Budgets
<1>2. ~(ChecksRerun \/ ForeignPush \/ ForeignMerge)
  BY <1>1 DEF ChecksRerun, ForeignPush, ForeignMerge
<1>3. CASE Continue
  BY <1>3 DEF Continue, HandlerStep, Mark, Complete, DispatchReviewer, OwnReviewer, DecideReview,
      StopTask, DispatchWriter, OwnWriter, DispatchReady, OwnReady, NoneReady, BeginIntegration,
      IntegrationRefused, NoneIntegrable, MergeTask, MergeConflict, Integrated,
      SavePullRequest, BeginCI, DraftRefused, Publish, PassGate, GateRefused, AlreadyMerged,
      SaveMerge, DispatchHolistic, OwnHolistic, NewHolisticRound, Reopen, StopJob, RepairCI,
      EscalateCI, DispatchPlanner, NextReviewer, ReleaseWriter, ReleaseReviewer, RenewPlanning,
      CancelRuns, LaunchWriter, envVars
<1>4. CASE \/ CreateAndPlan \/ \E run \in DOMAIN runs : Answer(run) \/ ApplyOutcome(run)
           \/ Poll \/ Operator \/ Abandon \/ Restart \/ UNCHANGED vars
  BY <1>4 DEF CreateAndPlan, Answer, ApplyOutcome, ApplySettled, ApplyFailure, ApplyPlan,
     ApplyWriterCommit, ApplyWriterNoChanges, ApplyWriterBlocked, ApplyWriterHandoff, ApplyReview,
     ApplyHolistic, Poll, ReconcileTasks, ReconcileReplan, ReconcileHolistic, ReconcileCancelled,
     ResumePlanner, ObservePublication, ObserveStrandedRound, ObserveForeignHead, ObserveChecks,
     Operator, RetryCodeTask, RetryCodePlanning, ResetHolisticReview, StartRereview,
     PublishApproved, PauseJob, ResumeJob, CancelCodeJob, Abandon, Restart, vars, envVars
<1> QED  BY <1>2, <1>3, <1>4 DEF Next

(* A head that was pushed and whose checks passed stays so while no task    *)
(* integrates.                                                              *)
LEMMA TestedHeadStays ==
  ASSUME IInv, MInv, [Next]_vars, Alone, IntegratedWhole, repo.head = pr.head, pr.checks = "passed"
  PROVE  repo'.head = repo.head /\ pr'.head = pr.head /\ pr'.checks = pr.checks
<1>1. ~MergeTask
  BY InvFacts DEF MergeTask, At, MInv, HandlerKnows, IntegratedWhole, Done, TaskSteps
<1>2. pr \in PullRequest
  BY InvFacts DEF EnvTypeOK
<1>3. CASE PushBranch \/ CreatePR \/ Promote \/ MergePR \/ ChecksFinish
  BY <1>2, <1>3 DEF PushBranch, CreatePR, Promote, MergePR, ChecksFinish, PullRequest
<1> QED  BY <1>1, <1>3, HeadStays, PullStep DEF Alone

(* An answer that is given and is no approval never becomes one. *)
LEMMA RefusalStays ==
  ASSUME IInv, [Next]_vars
  PROVE  \A r \in DOMAIN runs : runs[r] \notin {"running", "approved"} =>
           r \in DOMAIN runs' /\ runs'[r] \notin {"running", "approved"}
<1> SUFFICES ASSUME NEW r \in DOMAIN runs, runs[r] \notin {"running", "approved"}
             PROVE  r \in DOMAIN runs' /\ runs'[r] \notin {"running", "approved"}
  OBVIOUS
<1>1. r \in DOMAIN runs'
  BY RunsGrow
<1>2. CASE \E run \in Run : Launch(run)
  BY <1>2 DEF Launch
<1>3. CASE \E run \in DOMAIN runs : Answer(run)
  BY <1>3 DEF Answer
<1>4. CASE \E run : runs' = Marked(run)
  BY <1>4 DEF Marked
<1>5. CASE CancelRuns
  BY <1>5 DEF CancelRuns
<1> QED  BY <1>1, <1>2, <1>3, <1>4, <1>5, StepRuns DEF RunsStep, Mark, ApplySettled, Supersede

-----------------------------------------------------------------------------
(* How a handler comes to the steps that lead to a merge.                   *)

Gated == {"draft", "createPR", "recordPR", "draftCheck", "publish", "gate", "mergePR",
          "recordMerge", "holistic", "resetRound"}
Astray == call'.at \in Steps \ Gated
Onward == call'.run = call.run /\ call'.then = call.then

Comes ==
  \/ NoneReady /\ Onward /\ call'.at = "draft" /\ call.then = "draft"
  \/ ReconcileHolistic /\ call'.then = "draft"
     /\ (call'.at = "draft" \/ (call'.at = "holistic" /\ CIPassedForHead))
  \/ PushBranch /\ Onward /\ call'.at = IF job.PullRequest THEN "draftCheck" ELSE "createPR"
  \/ CreatePR /\ Onward /\ call'.at = "recordPR"
  \/ SavePullRequest /\ Onward
     /\ call'.at = IF call.then = "draft" THEN "draftCheck" ELSE "gate"
  \/ Publish /\ Onward /\ call'.at = IF job.PullRequest THEN "gate" ELSE "createPR"
  \/ PassGate /\ Onward /\ call'.at = "mergePR" /\ ~MergeHeld
  \/ (AlreadyMerged \/ MergePR) /\ Onward /\ call'.at = "recordMerge"
  \/ call'.at = "publish"
     /\ (ObservePublication \/ PublishApproved
         \/ \E run \in DOMAIN runs : ApplyHolistic(run) /\ runs[run] = "approved")
  \/ NewHolisticRound /\ call'.at = "holistic"
  \/ ObserveStrandedRound /\ call'.at = "holistic"
  \/ ObserveChecks /\ call'.at = "resetRound" /\ RecordCI(pr.head, "passed", NoPrint)
     /\ pr.checks = "passed"
  \/ Operator /\ left'.operator # left.operator /\ call'.at = "holistic"

LEMMA ContinueComes ==
  ASSUME IInv, Continue
  PROVE  Astray \/ Beside \/ Comes
<1>1. call \in Call /\ TypeOK
  BY InvFacts
<1>2. ASSUME NEW step \in Steps, Go(step)  PROVE call'.at = step /\ Onward
  BY <1>1, <1>2 DEF Go, Call, Onward
<1>3. ASSUME Return \/ Error  PROVE Astray
  BY <1>1, <1>3, CallAt DEF Astray, Gated, Steps
<1>4. CASE \/ Mark \/ OwnReviewer \/ StopTask \/ OwnWriter \/ IntegrationRefused
           \/ MergeConflict \/ BeginCI \/ DraftRefused \/ GateRefused
           \/ SaveMerge \/ OwnHolistic \/ StopJob \/ EscalateCI \/ DispatchPlanner \/ CancelRuns
           \/ Complete \/ OwnReady \/ NoneIntegrable \/ MergeTask \/ Integrated \/ RepairCI
           \/ ReleaseReviewer \/ ReleaseWriter \/ RenewPlanning
           \/ DispatchWriter \/ DispatchReviewer \/ DispatchHolistic
  <2>1. Return \/ Error \/ \E step \in Steps \ Gated : Go(step)
    BY <1>4 DEF Mark, OwnReviewer, StopTask, OwnWriter, IntegrationRefused, MergeConflict,
       BeginCI, DraftRefused, GateRefused, SaveMerge, OwnHolistic, StopJob,
       EscalateCI, DispatchPlanner, CancelRuns, Complete, OwnReady, NoneIntegrable, MergeTask,
       Integrated, RepairCI, ReleaseReviewer, ReleaseWriter, RenewPlanning, DispatchWriter,
       DispatchReviewer, DispatchHolistic, Gated, Steps
  <2> QED  BY <1>2, <1>3, <2>1 DEF Astray
<1>5. CASE BeginIntegration \/ NextReviewer \/ Reopen
  <2>1. \/ \E step \in {"merge", "reviewer"} : \E k : With(step, k)
        \/ \E step \in {"ready", "integrate"} : \E then : GoThen(step, then)
    BY <1>5 DEF BeginIntegration, NextReviewer, Reopen
  <2> QED  BY <1>1, <2>1, CallAt DEF Astray, Gated, Steps
<1>6. CASE DecideReview
  <2>1. \/ GoThen("integrate", "draft") \/ Go("writer") \/ Go("block")
    BY <1>6 DEF DecideReview
  <2>2. call'.at \in {"integrate", "writer", "block"}
    BY <1>1, <2>1, CallAt
  <2> QED  BY <2>2 DEF Astray, Gated, Steps
<1>7. CASE DispatchReady
  <2>1. UNCHANGED call \/ \E k : With("ownReady", k)
    BY <1>7 DEF DispatchReady
  <2> QED  BY <1>1, <1>7, <2>1, CallAt DEF DispatchReady, At, Astray, Gated, Steps
<1>8. CASE Promote
  BY <1>8 DEF Promote, Beside, pipelineVars
<1>9. CASE NoneReady \/ PassGate \/ MergePR
  <2>1. \/ Return \/ Error
        \/ NoneReady /\ Go("draft") /\ call.then = "draft"
        \/ PassGate /\ Go("mergePR") /\ ~MergeHeld
        \/ MergePR /\ Go("recordMerge")
    BY <1>9 DEF NoneReady, PassGate, MergePR
  <2> QED  BY <1>2, <1>3, <2>1 DEF Comes, Steps
<1>10. CASE PushBranch
  BY <1>2, <1>10 DEF PushBranch, Comes, Steps
<1>11. CASE CreatePR \/ AlreadyMerged \/ NewHolisticRound
  BY <1>2, <1>11 DEF CreatePR, AlreadyMerged, NewHolisticRound, Comes, Steps
<1>12. CASE SavePullRequest \/ Publish
  BY <1>2, <1>12 DEF SavePullRequest, Publish, Comes, Steps
<1> QED  BY <1>4, <1>5, <1>6, <1>7, <1>8, <1>9, <1>10, <1>11, <1>12 DEF Continue, HandlerStep

LEMMA StartComes ==
  ASSUME IInv, \/ \E run \in DOMAIN runs : ApplyOutcome(run)
               \/ (Poll /\ ~ResumePlanner) \/ Operator
  PROVE  Astray \/ Comes
<1>1. ASSUME \E step \in Steps \ Gated : \E key, run, then : Enter(step, key, run, then)
      PROVE  Astray
  BY <1>1 DEF Enter, Astray
<1>2. ASSUME call = Idle, UNCHANGED call \/ call' = Idle
      PROVE  Astray
  BY <1>2 DEF Idle, Astray, Gated, Steps
<1>3. CASE \E run \in DOMAIN runs : ApplyOutcome(run)
  <2> PICK run \in DOMAIN runs : ApplyOutcome(run)
    BY <1>3
  <2>1. CASE ApplySettled(run)
    BY <1>2, <2>1 DEF ApplySettled
  <2>2. CASE ApplyHolistic(run)
    <3>1. \/ runs[run] = "approved" /\ Enter("publish", JobKey, run, "publish")
          \/ \E step \in {"reopen", "fail"} : Enter(step, JobKey, run, "publish")
      <4>1. \/ runs[run] = "approved"
            \/ runs[run] # "approved" /\ runs[run] = "changes_requested"
               /\ job.HolisticRounds <= MaxHolisticRemediationRounds
            \/ runs[run] # "approved" /\ ~(runs[run] = "changes_requested"
               /\ job.HolisticRounds <= MaxHolisticRemediationRounds)
        OBVIOUS
      <4> QED  BY <2>2, <4>1 DEF ApplyHolistic
    <3> QED  BY <2>2, <3>1 DEF Enter, Astray, Gated, Steps, Comes
  <2>3. CASE \/ ApplyFailure(run) \/ ApplyPlan(run) \/ ApplyWriterNoChanges(run) \/ ApplyWriterBlocked(run)
             \/ ApplyWriterHandoff(run) \/ ApplyWriterCommit(run) \/ ApplyReview(run)
    <3>1. \E step \in {"mark", "ready", "integrate", "reviewer", "complete", "verdict"} :
            \E key, then : Enter(step, key, run, then)
      BY <2>3 DEF ApplyFailure, ApplyPlan, ApplyWriterNoChanges, ApplyWriterBlocked, ApplyWriterHandoff,
                  ApplyWriterCommit, ApplyReview
    <3> QED  BY <1>1, <3>1 DEF Gated, Steps
  <2> QED  BY <2>1, <2>2, <2>3 DEF ApplyOutcome
<1>4. CASE Poll /\ ~ResumePlanner
  <2>1. CASE ObserveChecks
    <3>1. PICK state : /\ state \in CASE pr.checks = "pending" -> {"pending", "blocked"}
                                      [] pr.checks = "passed" -> {"passed"}
                                      [] OTHER -> {"failed"}
                       /\ RecordCI(pr.head, state, IF state = "failed" THEN pr.checks ELSE NoPrint)
                       /\ CASE state = "passed" -> Enter("resetRound", JobKey, NoRun, "return")
                            [] state = "failed" -> Enter("repair", JobKey, NoRun, "return")
                            [] OTHER -> call = Idle /\ UNCHANGED call
      BY <2>1 DEF ObserveChecks
    <3>2. \/ state = "passed" /\ Enter("resetRound", JobKey, NoRun, "return")
          \/ Enter("repair", JobKey, NoRun, "return")
          \/ call = Idle /\ UNCHANGED call
      BY <3>1
    <3>3. state = "passed" => pr.checks = "passed" /\ RecordCI(pr.head, "passed", NoPrint)
      <4>1. CASE pr.checks = "pending"
        BY <3>1, <4>1
      <4>2. CASE pr.checks = "passed"
        BY <3>1, <4>2
      <4>3. CASE pr.checks \notin {"pending", "passed"}
        BY <3>1, <4>3
      <4> QED  BY <4>1, <4>2, <4>3
    <3>4. CASE state = "passed" /\ Enter("resetRound", JobKey, NoRun, "return")
      BY <2>1, <3>3, <3>4 DEF Enter, Comes
    <3> QED  BY <1>1, <1>2, <3>2, <3>4 DEF Gated, Steps
  <2>2. CASE ObserveForeignHead
    BY <1>2, <2>2 DEF ObserveForeignHead
  <2>3. CASE ReconcileHolistic
    <3>1. \/ CIPassedForHead /\ Enter("holistic", JobKey, NoRun, "draft")
          \/ Enter("draft", JobKey, NoRun, "draft")
      BY <2>3 DEF ReconcileHolistic
    <3>2. /\ call'.then = "draft"
          /\ call'.at = "draft" \/ (call'.at = "holistic" /\ CIPassedForHead)
      BY <3>1 DEF Enter
    <3> QED  BY <2>3, <3>2 DEF Comes
  <2>4. CASE ReconcileTasks \/ ReconcileReplan \/ ReconcileCancelled
    <3>1. \E step \in {"reviewers", "revision", "cancelRuns"} : \E then :
            Enter(step, JobKey, NoRun, then)
      BY <2>4 DEF ReconcileTasks, ReconcileReplan, ReconcileCancelled
    <3> QED  BY <1>1, <3>1 DEF Gated, Steps
  <2>5. CASE ObservePublication \/ ObserveStrandedRound
    BY <2>5 DEF ObservePublication, ObserveStrandedRound, Enter, Comes
  <2> QED  BY <1>4, <2>1, <2>2, <2>3, <2>4, <2>5 DEF Poll
<1>5. CASE Operator
  <2>0. ASSUME Spend("operator")  PROVE left'.operator # left.operator
    <3>1. left \in Budgets
      BY InvFacts DEF EnvTypeOK
    <3> QED  BY <2>0, <3>1 DEF Spend, Budgets
  <2>1. CASE PauseJob \/ ResumeJob
    BY <1>2, <2>1 DEF PauseJob, ResumeJob
  <2>2. CASE (\E k \in DOMAIN tasks : RetryCodeTask(k)) \/ RetryCodePlanning \/ CancelCodeJob
    <3>1. \E step \in {"retryReview", "retryWriter", "writer", "retryPlanning", "cancelRuns"} :
            \E key, then : Operate(step, key, then)
      BY <2>2 DEF RetryCodeTask, RetryCodePlanning, CancelCodeJob
    <3> QED  BY <1>1, <3>1 DEF Operate, Gated, Steps
  <2>3. CASE ResetHolisticReview \/ StartRereview
    BY <1>5, <2>0, <2>3 DEF ResetHolisticReview, StartRereview, Operate, Enter, Comes
  <2>4. CASE PublishApproved
    BY <2>4 DEF PublishApproved, Operate, Enter, Comes
  <2> QED  BY <1>5, <2>1, <2>2, <2>3, <2>4 DEF Operator
<1> QED  BY <1>3, <1>4, <1>5

LEMMA StepComes ==
  ASSUME IInv, [Next]_vars, call'.at \in Gated
  PROVE  Beside \/ Comes
<1>0. ~Astray
  BY DEF Astray
<1>1. CASE \/ Continue \/ (Poll /\ ~ResumePlanner) \/ Operator
           \/ \E run \in DOMAIN runs : ApplyOutcome(run)
  BY <1>0, <1>1, ContinueComes, StartComes
<1>2. CASE \/ CreateAndPlan \/ ResumePlanner \/ (\E run \in DOMAIN runs : Answer(run))
           \/ ChecksFinish \/ ChecksRerun \/ ForeignPush \/ ForeignMerge \/ UNCHANGED vars
  <2>1. DOMAIN runs \subseteq DOMAIN runs'
    BY RunsGrow
  <2> QED  BY <1>2, <2>1 DEF CreateAndPlan, ResumePlanner, Answer, ChecksFinish, ChecksRerun,
              ForeignPush, ForeignMerge, vars, envVars, pipelineVars, Beside, StartPlanning
<1>3. ~(Abandon \/ Restart)
  BY DEF Abandon, Restart, Error, Idle, Gated
<1> QED  BY <1>1, <1>2, <1>3 DEF Next, Poll

-----------------------------------------------------------------------------
(* A handler on its way to a merge knows that the job is ready for it, and  *)
(* one on its way to CI that there is a pull request, or that it makes one. *)

GatesKnow ==
  /\ At("draft") => call.then = "draft"
  /\ At("draftCheck") => job.PullRequest
  /\ call.at \in {"createPR", "recordPR"} =>
       call.then = "draft" \/ job.Status = "ready_to_publish"
  /\ call.at \in {"publish", "gate", "mergePR", "recordMerge"} => job.Status = "ready_to_publish"
  /\ At("mergePR") => ~MergeHeld /\ (job.CI # NoCI => job.CI.HeadSHA = job.IntegrationSHA)

LEMMA NextGates ==
  ASSUME IInv, GatesKnow, [Next]_vars
  PROVE  GatesKnow'
<1>0. /\ job \in Job
      /\ {"draft", "draftCheck", "createPR", "recordPR", "publish", "gate", "mergePR", "recordMerge"}
           \subseteq Gated
  BY InvFacts DEF PipelineTypeOK, Gated
<1>1. CASE call'.at \notin Gated
  BY <1>0, <1>1 DEF GatesKnow, At
<1>2. CASE Beside
  <2>1. call' = call /\ (job' = job \/ (job.Status = "created" /\ job' = [job EXCEPT !.Status = "planning"]))
    BY <1>2 DEF Beside, StartPlanning
  <2>2. CASE job' = job
    BY <2>1, <2>2 DEF GatesKnow, At, MergeHeld
  <2>3. CASE job.Status = "created" /\ job' = [job EXCEPT !.Status = "planning"]
    <3>1. job'.PullRequest = job.PullRequest
      BY <1>0, <2>3 DEF Job
    <3> QED  BY <2>1, <2>3, <3>1 DEF GatesKnow, At
  <2> QED  BY <2>1, <2>2, <2>3
<1>3. CASE \/ call'.at = "draft" /\ call'.then = "draft"
           \/ call'.at \in {"holistic", "resetRound"}
  BY <1>3 DEF GatesKnow, At
<1>4. CASE PushBranch /\ Onward /\ call'.at = IF job.PullRequest THEN "draftCheck" ELSE "createPR"
  BY <1>4 DEF PushBranch, pipelineVars, Onward, GatesKnow, At
<1>5. CASE CreatePR /\ Onward /\ call'.at = "recordPR"
  BY <1>5 DEF CreatePR, pipelineVars, Onward, GatesKnow, At
<1>6. CASE SavePullRequest /\ Onward /\ call'.at = IF call.then = "draft" THEN "draftCheck" ELSE "gate"
  <2>1. /\ At("recordPR")
        /\ job' = [job EXCEPT !.PullRequest = TRUE, !.MergeState = "open"]
    BY <1>6 DEF SavePullRequest, RecordPullRequest
  <2>2. job'.PullRequest = TRUE /\ job'.Status = job.Status
    BY <1>0, <2>1 DEF Job
  <2> QED  BY <1>6, <2>1, <2>2 DEF Onward, GatesKnow, At
<1>7. CASE Publish /\ Onward /\ call'.at = IF job.PullRequest THEN "gate" ELSE "createPR"
  BY <1>7 DEF Publish, pipelineVars, Onward, GatesKnow, At
<1>8. CASE PassGate /\ Onward /\ call'.at = "mergePR" /\ ~MergeHeld
  BY <1>8 DEF PassGate, GateOpen, ChecksPass, pipelineVars, Onward, GatesKnow, At, MergeHeld
<1>9. CASE (AlreadyMerged \/ MergePR) /\ call'.at = "recordMerge"
  BY <1>9 DEF AlreadyMerged, MergePR, pipelineVars, GatesKnow, At
<1>10. CASE call'.at = "publish" /\ (ObservePublication \/ PublishApproved)
  BY <1>10 DEF ObservePublication, PublishApproved, pipelineVars, GatesKnow, At
<1>11. CASE call'.at = "publish" /\ \E run \in DOMAIN runs : ApplyHolistic(run) /\ runs[run] = "approved"
  <2>1. PICK run \in DOMAIN runs : ApplyHolistic(run) /\ runs[run] = "approved"
    BY <1>11
  <2>2. Live(job.Status)
    BY <2>1, ApplicableFacts DEF ApplyHolistic
  <2>3. RecordHolisticReview(run.Attempt, job.IntegrationSHA, "approved")
    BY <2>1 DEF ApplyHolistic
  <2>4. job'.Status = "ready_to_publish"
    BY <1>0, <2>2, <2>3 DEF RecordHolisticReview, Job, Live, Ended, pipelineVars
  <2> QED  BY <1>11, <2>4 DEF GatesKnow, At
<1> QED  BY <1>1, <1>2, <1>3, <1>4, <1>5, <1>6, <1>7, <1>8, <1>9, <1>10, <1>11, StepComes
         DEF Comes, Onward

(* An approval is that of a round's reviewer. *)
ApprovalOwned == job.HolisticReviewVerdict = "approved" => job.HolisticReviewRunID # 0

LEMMA NextApproval ==
  ASSUME IInv, Counted, ApprovalOwned, [Next]_vars
  PROVE  ApprovalOwned'
<1>0. job \in Job
  BY InvFacts DEF PipelineTypeOK
<1>1. CASE UNCHANGED pipelineVars \/ Reload
  BY <1>1 DEF pipelineVars, Reload, ApprovalOwned
<1>2. CASE TaskTransition
  BY <1>0, <1>2, TaskJob DEF TaskMovesJob, ApprovalOwned, Job
<1>3. CASE PlanTransition
  BY <1>0, <1>3, PlanJob DEF PlanMovesJob, ApprovalOwned, Job, pipelineVars
<1>4. CASE JobTransition
  <2>1. CASE \/ StartPlanning \/ RecordPullRequest \/ RecordMerge \/ FailJob \/ ResetHolisticRound
             \/ RetryPlanning
    BY <1>0, <2>1 DEF StartPlanning, RecordPullRequest, RecordMerge, FailJob, ResetHolisticRound,
       RetryPlanning, ApprovalOwned, Job
  <2>2. CASE (\E sha : StartCI(sha)) \/ (\E print : BeginCIReplan(print))
             \/ (\E sha, state, print : RecordCI(sha, state, print))
    BY <1>0, <2>2 DEF StartCI, BeginCIReplan, RecordCI, ApprovalOwned, Job
  <2>3. CASE StartHolisticReviewer(job.HolisticRounds + 1, job.IntegrationSHA)
    BY <1>0, <2>3 DEF StartHolisticReviewer, ApprovalOwned, Job
  <2>4. CASE \E run \in DOMAIN runs : \E verdict :
               RecordHolisticReview(run.Attempt, job.IntegrationSHA, verdict)
    <3> PICK run \in DOMAIN runs : \E verdict :
               RecordHolisticReview(run.Attempt, job.IntegrationSHA, verdict)
      BY <2>4
    <3>1. run.Attempt # 0
      BY InvFacts DEF Counted, EnvTypeOK, Run
    <3> QED  BY <1>0, <3>1 DEF RecordHolisticReview, ApprovalOwned, Job, pipelineVars
  <2> QED  BY <1>4, <2>1, <2>2, <2>3, <2>4 DEF JobTransition
<1>5. CASE OperatorTransition
  BY <1>0, <1>5 DEF OperatorTransition, Resume, ResumeBlockedWriter, ReopenNoChangesTask,
     ResetHolisticRound, Pause, Cancel, StartHolisticRereview, ApprovalOwned, Job
<1> QED  BY <1>1, <1>2, <1>3, <1>4, <1>5, StepTransition DEF Transition

(* Such a handler therefore merges only what is ready, whatever operators   *)
(* and other people do.                                                     *)
RInv == ReadyApproved /\ GatesKnow /\ ApprovalOwned

LEMMA NextRInv == IInv /\ CInv /\ RInv /\ [Next]_vars => RInv'
BY NextReady, NextGates, NextApproval DEF RInv, CInv

LEMMA InitRInv == Init => RInv
<1> SUFFICES ASSUME Init  PROVE RInv
  OBVIOUS
<1>1. call.at = "idle"
  BY DEF Init, Idle
<1> QED  BY <1>1, InitialJob DEF RInv, ReadyApproved, CanPublish, GatesKnow, ApprovalOwned, At

LEMMA MergeIsReady ==
  ASSUME CInv, RInv
  PROVE  MergesReady
<1> SUFFICES ASSUME MergePR, pr' # pr
             PROVE  /\ job.Status = "ready_to_publish" /\ AllIntegrated(tasks)
                    /\ job.HolisticReviewVerdict = "approved"
                    /\ pr.head = job.IntegrationSHA
                    /\ job.CI # NoCI => job.CI.HeadSHA = pr.head
                    /\ job.MergePolicy = "manual" => call.then = "approve"
  BY DEF MergesReady
<1>1. /\ job.Status = "ready_to_publish" /\ ~MergeHeld
      /\ job.CI # NoCI => job.CI.HeadSHA = job.IntegrationSHA
      /\ job.HolisticReviewVerdict = "approved"
  BY DEF RInv, GatesKnow, ReadyApproved, CanPublish, MergePR, At
<1>2. pr.head = job.IntegrationSHA
  BY DEF MergePR
<1>3. IntegratedWhole
  BY <1>1 DEF CInv, WholeInv, PastIntegration
<1> QED  BY <1>1, <1>2, <1>3 DEF IntegratedWhole, AllIntegrated, MergeHeld

-----------------------------------------------------------------------------
(* What a step nobody else takes does to the round: the recorded CI and the *)
(* holistic review.                                                         *)

SameRound == /\ job'.CI = job.CI
             /\ job'.HolisticReviewRunID = job.HolisticReviewRunID
             /\ job'.HolisticReviewSHA = job.HolisticReviewSHA
             /\ job'.HolisticReviewVerdict = job.HolisticReviewVerdict
             /\ job'.HolisticRounds = job.HolisticRounds
             /\ job.PullRequest => job'.PullRequest
SameHead == job'.IntegrationSHA = job.IntegrationSHA

Rounds == {"awaiting_ci", "holistic_reviewing", "ready_to_publish"}
RoundRests == SameRound /\ SameHead /\ job'.Status = job.Status
RoundLeft == /\ SameRound /\ job'.Status \notin {"awaiting_ci", "ready_to_publish", "published", "paused"}
             /\ \/ job.Status \notin Rounds
                \/ job.Status = "awaiting_ci" /\ job.CI.State = "failed"
                \/ At("reopen")
RoundFails == job'.Status = "failed"
RoundPublished == /\ At("recordMerge") /\ SameRound /\ SameHead
                  /\ job.Status = "ready_to_publish" /\ job'.Status = "published"
CIBegins == At("draftCheck") /\ DraftUsable /\ StartCI(pr.head)
RoundResets == At("resetRound") /\ ResetHolisticRound
RoundOwned == At("ownHolistic") /\ StartHolisticReviewer(job.HolisticRounds + 1, job.IntegrationSHA)
CIObserved ==
  /\ job.Status = "awaiting_ci" /\ pr.head = job.CI.HeadSHA
  /\ \E state \in {"pending", "blocked", "passed", "failed"} :
     \E print \in Fingerprint \cup {NoPrint} :
       /\ RecordCI(pr.head, state, print) /\ (state = "passed" <=> pr.checks = "passed")
       /\ state = "passed" => call'.at = "resetRound"
RoundJudged ==
  \E run \in DOMAIN runs :
    /\ Applicable(run) /\ run.Role = "holistic" /\ runs[run] \notin {"malformed", "failed"}
    /\ call = Idle /\ RecordHolisticReview(run.Attempt, job.IntegrationSHA, runs[run])
RoundStep == \/ RoundRests \/ RoundLeft \/ RoundFails \/ RoundPublished \/ CIBegins \/ RoundResets
             \/ RoundOwned \/ CIObserved \/ RoundJudged

LEMMA StepRound ==
  ASSUME IInv, CInv, [Next]_vars, left'.operator = left.operator, Live(job.Status)
  PROVE  RoundStep
<1>0. job \in Job /\ left \in Budgets
  BY InvFacts DEF PipelineTypeOK, EnvTypeOK
<1>1. CASE job' = job
  BY <1>1 DEF RoundStep, RoundRests, SameRound, SameHead
<1>2. CASE TaskTransition /\ job' # job
  <2>1. job.Status \notin Rounds
    BY <1>2, TaskMovesUnfinished DEF CInv, WholeInv, IntegratedWhole, PastIntegration, Rounds
  <2>2. /\ SameRound
        /\ job'.Status \in {job.Status, "working", "reviewing", "planned", "integrating",
                            "holistic_reviewing", "no_changes"}
    BY <1>0, <1>2, TaskJob DEF TaskMovesJob, SameRound, Job
  <2> QED  BY <2>1, <2>2 DEF RoundStep, RoundLeft, Rounds, Live, Ended
<1>3. CASE PlanTransition
  <2>1. CASE \/ job.Status \in {"planning", "ci_replanning"} /\ job'.Status = "planned" /\ SameRound
             \/ At("reopen") /\ job'.Status = "planned" /\ SameRound
    BY <2>1 DEF RoundStep, RoundLeft, Rounds
  <2>2. CASE \E print : StartCIRemediation(print) /\ job' # job
    <3>1. /\ job.Status = "awaiting_ci" /\ job.CI.State = "failed"
          /\ job' = [job EXCEPT !.Status = "ci_remediating"]
      BY <2>2 DEF StartCIRemediation, AwaitsRepair, pipelineVars
    <3>2. SameRound /\ job'.Status = "ci_remediating"
      BY <1>0, <3>1 DEF SameRound, Job
    <3> QED  BY <3>1, <3>2 DEF RoundStep, RoundLeft
  <2>3. CASE \E p : SubmitPlan(p)
    BY <1>0, <1>1, <2>1, <2>3 DEF SubmitPlan, SameRound, Job, pipelineVars
  <2>4. CASE \E p : RevisePlan(p)
    BY <1>0, <1>1, <2>1, <2>4 DEF RevisePlan, SameRound, Job, pipelineVars
  <2>5. CASE At("reopen") /\ (StartReviewRemediation \/ ReopenIncompleteTasks)
    BY <1>0, <1>1, <2>1, <2>5 DEF StartReviewRemediation, ReopenIncompleteTasks, SameRound, Job, pipelineVars
  <2> QED  BY <1>1, <1>3, <2>2, <2>3, <2>4, <2>5 DEF PlanTransition
<1>4. CASE JobTransition
  <2>1. CASE StartPlanning
    BY <1>0, <2>1 DEF StartPlanning, RoundStep, RoundLeft, SameRound, Rounds, Job
  <2>2. CASE RecordPullRequest \/ RetryPlanning
    BY <1>0, <2>2 DEF RecordPullRequest, RetryPlanning, RoundStep, RoundRests, SameRound, SameHead, Job
  <2>3. CASE At("recordMerge") /\ RecordMerge
    BY <1>0, <2>3 DEF RecordMerge, RoundStep, RoundPublished, SameRound, SameHead, Job
  <2>4. CASE FailJob
    BY <1>0, <2>4 DEF FailJob, RoundStep, RoundFails, Job
  <2>5. CASE \E print : BeginCIReplan(print)
    <3>1. /\ job.Status = "awaiting_ci" /\ job.CI.State = "failed"
          /\ \/ job' = [job EXCEPT !.Status = "failed"]
             \/ job' = [job EXCEPT !.CIReplanRounds = @ + 1, !.PlannerRetry = 0,
                                   !.Status = "ci_replanning"]
      BY <2>5 DEF BeginCIReplan, AwaitsRepair
    <3>2. SameRound /\ job'.Status \in {"failed", "ci_replanning"}
      BY <1>0, <3>1 DEF SameRound, Job
    <3> QED  BY <3>1, <3>2 DEF RoundStep, RoundLeft
  <2>6. CASE CIBegins \/ RoundResets \/ RoundOwned \/ CIObserved \/ RoundJudged
    BY <2>6 DEF RoundStep
  <2> QED  BY <1>4, <2>1, <2>2, <2>3, <2>4, <2>5, <2>6
           DEF JobTransition, CIBegins, RoundResets, RoundOwned, CIObserved, RoundJudged
<1>5. ~OperatorTransition
  <2>1. left' = [left EXCEPT !.operator = @ - 1] => left'.operator = left.operator - 1
    BY <1>0 DEF Budgets
  <2>2. ~(left' = [left EXCEPT !.operator = @ - 1])
    BY <1>0, <2>1 DEF Budgets
  <2> QED  BY <2>2 DEF OperatorTransition, Resume, Live
<1> QED  BY <1>1, <1>2, <1>3, <1>4, <1>5, StepTransition DEF Transition, pipelineVars, Reload

-----------------------------------------------------------------------------
(* The job knows the head: it is what the last task to integrate made, save *)
(* for a branch that is merged while its record is still to be made.        *)
HeadKnown == HasIntegrated(tasks) =>
               \/ repo.head = job.IntegrationSHA
               \/ \E k \in repo.merged : tasks[k].Status = "integrating"

LEMMA ShaStep ==
  ASSUME IInv, [Next]_vars, Alone
  PROVE  job'.IntegrationSHA \in {job.IntegrationSHA, repo.head}
<1>0. job \in Job /\ left \in Budgets
  BY InvFacts DEF PipelineTypeOK, EnvTypeOK
<1>1. CASE job' = job
  BY <1>1
<1>2. CASE TaskTransition
  BY <1>0, <1>2, TaskJob DEF TaskMovesJob, Job
<1>3. CASE PlanTransition
  BY <1>0, <1>3, PlanJob DEF PlanMovesJob, Job, pipelineVars
<1>4. CASE JobTransition
  <2>1. CASE \/ StartPlanning \/ RecordPullRequest \/ RecordMerge \/ FailJob \/ ResetHolisticRound
             \/ RetryPlanning
    BY <1>0, <2>1 DEF StartPlanning, RecordPullRequest, RecordMerge, FailJob, ResetHolisticRound,
       RetryPlanning, Job
  <2>2. CASE (\E sha : StartCI(sha)) \/ (\E print : BeginCIReplan(print))
             \/ (\E sha, state, print : RecordCI(sha, state, print))
    BY <1>0, <2>2 DEF StartCI, BeginCIReplan, RecordCI, Job
  <2>3. CASE \/ \E run, sha : StartHolisticReviewer(run, sha)
             \/ \E run, sha, verdict : RecordHolisticReview(run, sha, verdict)
    BY <1>0, <2>3 DEF StartHolisticReviewer, RecordHolisticReview, Job, pipelineVars
  <2> QED  BY <1>4, <2>1, <2>2, <2>3 DEF JobTransition
<1>5. OperatorTransition => job' = [job EXCEPT !.Status = job.PausedFrom, !.PausedFrom = ""]
  <2>1. left' = [left EXCEPT !.operator = @ - 1] => left'.operator = left.operator - 1
    BY <1>0 DEF Budgets
  <2>2. ~(left' = [left EXCEPT !.operator = @ - 1])
    BY <1>0, <2>1 DEF Alone, Budgets
  <2> QED  BY <2>2 DEF OperatorTransition, Resume
<1>6. CASE OperatorTransition
  BY <1>0, <1>5, <1>6 DEF Job
<1> QED  BY <1>1, <1>2, <1>3, <1>4, <1>6, StepTransition DEF Transition, pipelineVars, Reload

LEMMA NextHeadKnown ==
  ASSUME IInv, PlanInv, MInv, HeadKnown, [Next]_vars, Alone
  PROVE  HeadKnown'
<1>1. TasksChange /\ MInv'
  BY StepChanges, NextMInv
<1>2. ASSUME NEW k \in DOMAIN tasks', tasks'[k].Status = "integrated"
      PROVE  /\ k \in DOMAIN tasks
             /\ tasks[k].Status = "integrated" \/ job'.IntegrationSHA = repo.head
  <2>1. k \in DOMAIN tasks
    BY <1>1, <1>2 DEF TasksChange, Fresh
  <2>2. Changes(k, tasks[k], tasks'[k])
    BY <1>1, <2>1 DEF TasksChange
  <2> QED  BY <1>2, <2>1, <2>2 DEF Changes, Rests, Starts, Completes, FindsNothing, GetsReviewer, IsJudged,
         IsBlocked, BeginsIntegration, EndsIntegration, BecomesEligible, IsReleased, LosesReviewer, IsReopened
<1>3. CASE MergeTask
  <2>1. repo \in Repo /\ call.key \in DOMAIN tasks /\ tasks[call.key].Status = "integrating"
    BY <1>3, InvFacts DEF EnvTypeOK, MergeTask, At, TaskSteps, MInv, HandlerKnows
  <2>2. UNCHANGED <<job, tasks>>
    BY <1>3 DEF MergeTask, pipelineVars
  <2>3. call.key \in repo'.merged
    BY <1>3, <2>1 DEF MergeTask, Repo
  <2> QED  BY <2>1, <2>2, <2>3 DEF HeadKnown
<1>4. CASE ~MergeTask
  <2> SUFFICES ASSUME NEW k \in DOMAIN tasks', tasks'[k].Status = "integrated"
               PROVE  \/ repo'.head = job'.IntegrationSHA
                      \/ \E j \in repo'.merged : tasks'[j].Status = "integrating"
    BY DEF HeadKnown, HasIntegrated
  <2>1. repo'.head = repo.head /\ repo'.merged = repo.merged
    BY <1>4, HeadStays, MergedStays
  <2>2. CASE job'.IntegrationSHA = repo.head
    BY <2>1, <2>2
  <2>3. CASE job'.IntegrationSHA = job.IntegrationSHA /\ job'.IntegrationSHA # repo.head
    <3>1. HasIntegrated(tasks)
      BY <1>2, <2>3 DEF HasIntegrated
    <3>2. PICK j \in repo.merged : tasks[j].Status = "integrating"
      BY <2>3, <3>1 DEF HeadKnown
    <3>3. j \in DOMAIN tasks' /\ tasks'[j].Status \in {"integrating", "integrated"}
      BY <1>1, <2>1 DEF MInv, MergedWereApproved
    <3>4. tasks'[j].Status # "integrated"
      BY <1>2, <2>3, <3>2, <3>3
    <3> QED  BY <2>1, <3>3, <3>4
  <2> QED  BY <2>2, <2>3, ShaStep
<1> QED  BY <1>3, <1>4

-----------------------------------------------------------------------------
(* What a merge gate relies on, while nobody else interferes: a round that  *)
(* has an owner or whose CI passed was either refused, and waits for the    *)
(* tasks it reopens, or is bound to the head.                               *)

(* The answer of the round's reviewer, and that it is not an approval.      *)
Judge == RunOf("holistic", JobKey, job.HolisticReviewRunID)
Refused == /\ job.HolisticReviewRunID # 0 /\ job.HolisticReviewVerdict # "approved"
           /\ Judge \in DOMAIN runs /\ runs[Judge] \notin {"running", "approved"}

(* The integrated head is the one that was pushed and the one CI passed on. *)
Tested == /\ repo.head = job.IntegrationSHA /\ pr.head = job.IntegrationSHA
          /\ job.CI.HeadSHA = job.IntegrationSHA /\ pr.checks = "passed"
Bound == /\ Tested
         /\ \/ job.Status = "awaiting_ci" /\ job.CI.State = "pending"
            \/ job.Status \in {"holistic_reviewing", "ready_to_publish"} /\ job.CI.State = "passed"
         /\ job.HolisticReviewRunID # 0 => job.HolisticReviewSHA = job.IntegrationSHA

RoundBound == job.CI.State = "passed" \/ job.HolisticReviewRunID # 0 => Refused \/ Bound
CIRecorded == job.Status = "awaiting_ci" =>
                job.PullRequest /\ job.CI.HeadSHA = job.IntegrationSHA
RoundPlaces ==
  /\ call.at \in {"resetRound", "holistic", "ownHolistic"} =>
       Tested /\ job.CI.State = "passed" /\ job.Status = "holistic_reviewing"
  /\ At("reopen") => Refused
PublishedReviewed == job.Status = "published" => job.HolisticReviewSHA = job.IntegrationSHA

GateKnows == /\ job.Status # "paused" /\ HeadKnown /\ RoundPlaces /\ PublishedReviewed
             /\ Live(job.Status) => RoundBound /\ CIRecorded
GInv == ForeignKept /\ NothingGained /\ (Undisturbed => GateKnows)

LEMMA RefusedStays ==
  ASSUME IInv, [Next]_vars, Refused, job'.HolisticReviewRunID = job.HolisticReviewRunID,
         job'.HolisticReviewVerdict # "approved"
  PROVE  Refused'
<1>1. Judge' = Judge
  BY DEF Judge, RunOf
<1> QED  BY <1>1, RefusalStays DEF Refused

LEMMA TestedStays ==
  ASSUME IInv, MInv, CInv, [Next]_vars, Alone, Tested, job.Status \in PastIntegration, SameHead,
         job'.CI.HeadSHA = job.CI.HeadSHA
  PROVE  Tested'
<1>1. IntegratedWhole
  BY DEF CInv, WholeInv
<1> QED  BY <1>1, TestedHeadStays DEF Tested, SameHead

(* The round, step by step. *)
RoundKept == /\ job'.Status # "paused" /\ PublishedReviewed'
             /\ Live(job'.Status) => RoundBound' /\ CIRecorded'

LEMMA RoundRested ==
  ASSUME IInv, MInv, CInv, GateKnows, [Next]_vars, Alone, Live(job.Status), RoundRests
  PROVE  RoundKept
<1>1. CASE Refused
  <2>1. Refused'
    BY <1>1, RefusedStays DEF RoundRests, SameRound, Refused
  <2> QED  BY <2>1 DEF GateKnows, RoundKept, RoundRests, SameRound, SameHead, RoundBound, CIRecorded,
              PublishedReviewed, Live, Ended
<1>2. CASE Bound
  <2>1. Tested'
    BY <1>2, TestedStays DEF Bound, PastIntegration, RoundRests, SameRound
  <2>2. Bound'
    BY <1>2, <2>1 DEF Bound, RoundRests, SameRound, SameHead
  <2> QED  BY <2>2 DEF GateKnows, RoundKept, RoundRests, SameRound, SameHead, RoundBound, CIRecorded,
              PublishedReviewed, Live, Ended
<1>3. CASE ~(job.CI.State = "passed" \/ job.HolisticReviewRunID # 0)
  BY <1>3 DEF GateKnows, RoundKept, RoundRests, SameRound, SameHead, RoundBound, CIRecorded,
              PublishedReviewed, Live, Ended
<1> QED  BY <1>1, <1>2, <1>3 DEF GateKnows, RoundBound

LEMMA RoundLeaves ==
  ASSUME IInv, MInv, CInv, GateKnows, [Next]_vars, Alone, Live(job.Status),
         RoundLeft \/ RoundFails \/ RoundPublished, ApprovalOwned, ReadyApproved
  PROVE  RoundKept
<1>1. CASE RoundLeft
  <2>1. job.CI.State = "passed" \/ job.HolisticReviewRunID # 0 => Refused
    BY <1>1 DEF GateKnows, RoundBound, Bound, RoundLeft, Rounds, RoundPlaces
  <2>2. job'.CI.State = "passed" \/ job'.HolisticReviewRunID # 0 => Refused'
    BY <1>1, <2>1, RefusedStays DEF RoundLeft, SameRound, Refused
  <2> QED  BY <1>1, <2>2 DEF RoundLeft, RoundKept, RoundBound, CIRecorded, PublishedReviewed
<1>2. CASE RoundFails
  BY <1>2 DEF RoundFails, RoundKept, PublishedReviewed, Live, Ended
<1>3. CASE RoundPublished
  <2>1. job.HolisticReviewVerdict = "approved" /\ job.HolisticReviewRunID # 0
    BY <1>3 DEF RoundPublished, ReadyApproved, CanPublish, ApprovalOwned
  <2>2. Bound
    BY <2>1 DEF GateKnows, RoundBound, Refused
  <2> QED  BY <1>3, <2>1, <2>2 DEF RoundPublished, RoundKept, SameRound, SameHead, Bound,
              PublishedReviewed, Live, Ended
<1> QED  BY <1>1, <1>2, <1>3

LEMMA CIKept ==
  ASSUME IInv, MInv, CInv, RInv, GateKnows, [Next]_vars, Alone, Live(job.Status), CIBegins
  PROVE  RoundKept
<1>0. job \in Job /\ pr \in PullRequest
  BY InvFacts DEF PipelineTypeOK, EnvTypeOK
<1>1. CASE job' = job
  BY <1>1, RoundRested DEF RoundRests, SameRound, SameHead
<1>2. CASE job' # job
  <2>1. /\ job.PullRequest /\ pr.head = job.IntegrationSHA /\ job.Status = "holistic_reviewing"
        /\ job' = [job EXCEPT !.Status = "awaiting_ci",
                             !.CI = [HeadSHA |-> pr.head, State |-> "pending",
                                     FailureFingerprint |-> NoPrint]]
    <3>1. job.Status = "awaiting_ci" => job.CI.HeadSHA = pr.head
      BY DEF CIBegins, DraftUsable, GateKnows, CIRecorded
    <3> QED  BY <1>2, <3>1 DEF CIBegins, DraftUsable, StartCI, RInv, GatesKnow
  <2>2. /\ job'.Status = "awaiting_ci" /\ job'.CI.State = "pending" /\ job'.CI.HeadSHA = pr.head
        /\ job'.PullRequest /\ job'.IntegrationSHA = job.IntegrationSHA
        /\ job'.HolisticReviewRunID = job.HolisticReviewRunID
        /\ job'.HolisticReviewSHA = job.HolisticReviewSHA
        /\ job'.HolisticReviewVerdict = job.HolisticReviewVerdict
    BY <1>0, <2>1 DEF Job
  <2>3. CASE Refused
    <3>1. Refused'
      BY <2>2, <2>3, RefusedStays DEF Refused
    <3> QED  BY <2>1, <2>2, <3>1 DEF RoundKept, RoundBound, CIRecorded, PublishedReviewed
  <2>4. CASE Bound
    <3>1. job'.CI.HeadSHA = job.CI.HeadSHA /\ SameHead
      BY <2>1, <2>2, <2>4 DEF Bound, Tested, SameHead
    <3>2. Tested'
      BY <2>1, <2>4, <3>1, TestedStays DEF Bound, PastIntegration
    <3>3. Bound'
      BY <2>2, <2>4, <3>2 DEF Bound
    <3> QED  BY <2>1, <2>2, <3>3 DEF RoundKept, RoundBound, CIRecorded, PublishedReviewed
  <2>5. CASE job.HolisticReviewRunID = 0
    BY <2>1, <2>2, <2>5 DEF RoundKept, RoundBound, CIRecorded, PublishedReviewed
  <2> QED  BY <2>3, <2>4, <2>5 DEF GateKnows, RoundBound
<1> QED  BY <1>1, <1>2

LEMMA RoundBegins ==
  ASSUME IInv, MInv, CInv, GateKnows, [Next]_vars, Alone, RoundResets \/ RoundOwned
  PROVE  RoundKept
<1>0. job \in Job
  BY InvFacts DEF PipelineTypeOK
<1>1. Tested /\ job.CI.State = "passed" /\ job.Status = "holistic_reviewing"
  BY DEF GateKnows, RoundPlaces, RoundResets, RoundOwned, At
<1>2. /\ job'.CI = job.CI /\ job'.Status = "holistic_reviewing" /\ SameHead
      /\ job'.HolisticReviewRunID # 0 => job'.HolisticReviewSHA = job.IntegrationSHA
  BY <1>0, <1>1 DEF RoundResets, RoundOwned, ResetHolisticRound, StartHolisticReviewer, SameHead, Job
<1>3. Tested'
  BY <1>1, <1>2, TestedStays DEF PastIntegration
<1>4. Bound'
  BY <1>1, <1>2, <1>3 DEF Bound, SameHead
<1> QED  BY <1>2, <1>4 DEF RoundKept, RoundBound, CIRecorded, PublishedReviewed

(* A head whose checks are looked at is the integrated one. *)
LEMMA ObservedHead ==
  ASSUME IInv, MInv, CInv, GateKnows, job.Status = "awaiting_ci", pr.head = job.CI.HeadSHA,
         pr.checks = "passed"
  PROVE  Tested
<1>1. IntegratedWhole
  BY DEF CInv, WholeInv, PastIntegration
<1>2. job.CI.HeadSHA = job.IntegrationSHA
  BY DEF GateKnows, CIRecorded, Live, Ended
<1>3. HasIntegrated(tasks) /\ \A k \in repo.merged : tasks[k].Status # "integrating"
  BY <1>1 DEF IntegratedWhole, HasIntegrated, Done, MInv, MergedWereApproved
<1>4. repo.head = job.IntegrationSHA
  BY <1>3 DEF GateKnows, HeadKnown
<1> QED  BY <1>2, <1>4 DEF Tested

LEMMA CILooked ==
  ASSUME IInv, MInv, CInv, GateKnows, [Next]_vars, Alone, CIObserved
  PROVE  RoundKept
<1>0. job \in Job
  BY InvFacts DEF PipelineTypeOK
<1>1. PICK state \in {"pending", "blocked", "passed", "failed"}, print \in Fingerprint \cup {NoPrint} :
        RecordCI(pr.head, state, print) /\ (state = "passed" <=> pr.checks = "passed")
  BY DEF CIObserved
<1>2. /\ job.Status = "awaiting_ci" /\ pr.head = job.CI.HeadSHA
      /\ job.PullRequest /\ job.CI.HeadSHA = job.IntegrationSHA
  BY DEF CIObserved, GateKnows, CIRecorded, Live, Ended
<1>3. /\ job'.Status = CASE state = "passed" -> "holistic_reviewing"
                         [] state = "blocked" -> "failed"
                         [] OTHER -> "awaiting_ci"
      /\ job'.CI.State = state /\ job'.CI.HeadSHA = job.CI.HeadSHA /\ SameHead
      /\ job'.HolisticReviewRunID = job.HolisticReviewRunID
      /\ job'.HolisticReviewSHA = job.HolisticReviewSHA
      /\ job'.HolisticReviewVerdict = job.HolisticReviewVerdict
      /\ job'.PullRequest
  <2>1. job.CI \in CIRecord
    BY <1>0 DEF Job
  <2> DEFINE status == CASE state = "passed" -> "holistic_reviewing"
                          [] state = "blocked" -> "failed"
                          [] OTHER -> job.Status
             ci == [job.CI EXCEPT !.State = state, !.FailureFingerprint = print]
  <2>2. PICK failures : job' = [job EXCEPT !.CI = ci, !.Status = status, !.CIFailures = failures]
    BY <1>1, <1>2 DEF RecordCI
  <2>3. ci.State = state /\ ci.HeadSHA = job.CI.HeadSHA
    BY <2>1 DEF CIRecord
  <2>4. status = CASE state = "passed" -> "holistic_reviewing"
                   [] state = "blocked" -> "failed"
                   [] OTHER -> "awaiting_ci"
    BY <1>2
  <2> HIDE DEF status, ci
  <2> QED  BY <1>0, <1>2, <2>2, <2>3, <2>4 DEF Job, SameHead
<1>4. CASE job'.Status = "failed"
  BY <1>4 DEF RoundKept, PublishedReviewed, Live, Ended
<1>5. CASE Refused
  <2>1. Refused'
    BY <1>3, <1>5, RefusedStays DEF Refused
  <2> QED  BY <1>1, <1>2, <1>3, <2>1 DEF RoundKept, RoundBound, CIRecorded, PublishedReviewed, SameHead, Live, Ended
<1>6. CASE state \in {"pending", "failed"} /\ ~Refused
  <2>1. job.HolisticReviewRunID # 0 => Bound
    BY <1>2, <1>6 DEF GateKnows, RoundBound, Live, Ended
  <2>2. job.HolisticReviewRunID = 0
    BY <1>1, <1>6, <2>1 DEF Bound, Tested
  <2> QED  BY <1>2, <1>3, <1>6, <2>2 DEF RoundKept, RoundBound, CIRecorded, PublishedReviewed, SameHead
<1>7. CASE state = "passed" /\ ~Refused
  <2>1. Tested
    BY <1>1, <1>2, <1>7, ObservedHead
  <2>2. Tested'
    BY <1>2, <1>3, <2>1, TestedStays DEF PastIntegration
  <2>3. job.HolisticReviewRunID # 0 => job.HolisticReviewSHA = job.IntegrationSHA
    BY <1>2, <1>7 DEF GateKnows, RoundBound, Bound, Live, Ended
  <2>4. Bound'
    BY <1>3, <1>7, <2>2, <2>3 DEF Bound, SameHead
  <2> QED  BY <1>3, <1>7, <2>4 DEF RoundKept, RoundBound, CIRecorded, PublishedReviewed
<1> QED  BY <1>1, <1>3, <1>4, <1>5, <1>6, <1>7

LEMMA RoundIsJudged ==
  ASSUME IInv, MInv, CInv, GateKnows, [Next]_vars, Alone, Live(job.Status), RoundJudged
  PROVE  RoundKept
<1>0. job \in Job
  BY InvFacts DEF PipelineTypeOK
<1>1. PICK run \in DOMAIN runs :
        /\ Applicable(run) /\ run.Role = "holistic" /\ runs[run] \notin {"malformed", "failed"}
        /\ RecordHolisticReview(run.Attempt, job.IntegrationSHA, runs[run])
  BY DEF RoundJudged
<1>2. run = Judge /\ job.HolisticReviewRunID = run.Attempt /\ run.Attempt # 0 /\ runs[run] # "running"
  <2>1. /\ job.HolisticReviewRunID = run.Attempt /\ run = HolisticRun
    BY <1>1 DEF Applicable, Owns, Roles
  <2>2. run = RunOf("holistic", JobKey, run.Attempt)
    BY <2>1 DEF HolisticRun, RunOf
  <2>3. run.Attempt # 0
    BY InvFacts DEF CInv, Counted, EnvTypeOK, Run
  <2> QED  BY <1>1, <2>1, <2>2, <2>3 DEF Judge, Applicable, Answered
<1>3. CASE job' = job
  BY <1>3, RoundRested DEF RoundRests, SameRound, SameHead
<1>4. CASE job' # job
  <2>1. /\ job.Status = "holistic_reviewing"
        /\ job' = [job EXCEPT !.HolisticReviewRunID = run.Attempt,
                              !.HolisticReviewSHA = job.HolisticReviewSHA,
                              !.HolisticReviewVerdict = runs[run],
                              !.Status = IF runs[run] = "approved" THEN "ready_to_publish" ELSE job.Status]
    BY <1>1, <1>2, <1>4 DEF RecordHolisticReview, pipelineVars
  <2>2. /\ job'.CI = job.CI /\ SameHead /\ job'.HolisticReviewRunID = job.HolisticReviewRunID
        /\ job'.HolisticReviewSHA = job.HolisticReviewSHA
        /\ job'.HolisticReviewVerdict = runs[run]
        /\ job'.Status = IF runs[run] = "approved" THEN "ready_to_publish" ELSE "holistic_reviewing"
    BY <1>0, <1>2, <2>1 DEF Job, SameHead
  <2>3. CASE runs[run] = "approved"
    <3>1. Bound
      BY <1>2, <2>3 DEF GateKnows, RoundBound, Refused
    <3>2. Tested'
      BY <2>1, <2>2, <3>1, TestedStays DEF Bound, PastIntegration
    <3>3. Bound'
      BY <2>1, <2>2, <2>3, <3>1, <3>2 DEF Bound, SameHead
    <3> QED  BY <2>2, <2>3, <3>3 DEF RoundKept, RoundBound, CIRecorded, PublishedReviewed
  <2>4. CASE runs[run] # "approved"
    <3>1. run \in DOMAIN runs' /\ runs'[run] \notin {"running", "approved"}
      BY <1>2, <2>4, RefusalStays
    <3>2. Judge' = Judge
      BY <2>2 DEF Judge
    <3>3. Refused'
      BY <1>2, <2>2, <2>4, <3>1, <3>2 DEF Refused
    <3> QED  BY <2>2, <2>4, <3>3 DEF RoundKept, RoundBound, CIRecorded, PublishedReviewed
  <2> QED  BY <2>3, <2>4
<1> QED  BY <1>3, <1>4

LEMMA NextRound ==
  ASSUME IInv, MInv, CInv, RInv, GateKnows, [Next]_vars, Alone
  PROVE  RoundKept
<1>1. CASE Live(job.Status)
  <2>1. RoundStep
    BY <1>1, StepRound DEF Alone
  <2> QED  BY <1>1, <2>1, RoundRested, RoundLeaves, CIKept, RoundBegins, CILooked, RoundIsJudged
           DEF RoundStep, RInv
<1>2. CASE ~Live(job.Status)
  <2>1. job' = job
    BY <1>2, NotLiveStep DEF GateKnows, pipelineVars, Reload
  <2> QED  BY <1>2, <2>1 DEF RoundKept, GateKnows, PublishedReviewed
<1> QED  BY <1>1, <1>2
(* A round starts only on a tested head, and one is reopened only when it   *)
(* was refused.                                                             *)
LEMMA PlaceStays ==
  ASSUME IInv, MInv, CInv, [Next]_vars, Alone, Tested, job.CI.State = "passed",
         job.Status = "holistic_reviewing",
         job'.CI = job.CI, SameHead, job'.Status = job.Status
  PROVE  Tested' /\ job'.CI.State = "passed" /\ job'.Status = "holistic_reviewing"
BY TestedStays DEF PastIntegration

LEMMA PlaceBeside ==
  ASSUME IInv, MInv, CInv, RoundPlaces, [Next]_vars, Alone, Beside
  PROVE  RoundPlaces'
<1>0. job \in Job /\ call' = call
  BY InvFacts DEF PipelineTypeOK, Beside
<1>1. CASE call.at \in {"resetRound", "holistic", "ownHolistic"}
  <2>1. job' = job
    BY <1>1 DEF RoundPlaces, Beside, StartPlanning
  <2>2. Tested' /\ job'.CI.State = "passed" /\ job'.Status = "holistic_reviewing"
    BY <1>1, <2>1, PlaceStays DEF RoundPlaces, SameHead
  <2> QED  BY <1>0, <1>1, <2>2 DEF RoundPlaces, At
<1>2. CASE At("reopen")
  <2>1. job'.HolisticReviewRunID = job.HolisticReviewRunID
        /\ job'.HolisticReviewVerdict = job.HolisticReviewVerdict
    BY <1>0 DEF Beside, StartPlanning, Job
  <2>2. Refused'
    BY <1>2, <2>1, RefusedStays DEF RoundPlaces, Refused
  <2> QED  BY <1>0, <1>2, <2>2 DEF RoundPlaces, At
<1> QED  BY <1>0, <1>1, <1>2 DEF RoundPlaces, At

LEMMA NextPlaces ==
  ASSUME IInv, MInv, CInv, GateKnows, [Next]_vars, Alone
  PROVE  RoundPlaces'
<1>0. job \in Job /\ RoundPlaces
  BY InvFacts DEF PipelineTypeOK, GateKnows
<1>1. CASE Beside
  BY <1>0, <1>1, PlaceBeside
<1>2. ASSUME call'.at \in {"resetRound", "holistic"}, Comes
      PROVE  Tested' /\ job'.CI.State = "passed" /\ job'.Status = "holistic_reviewing"
  <2>1. CASE ReconcileHolistic /\ call'.at = "holistic" /\ CIPassedForHead
    <3>1. job.Status = "holistic_reviewing" /\ job.CI.State = "passed" /\ job.HolisticReviewRunID = 0
      BY <2>1 DEF ReconcileHolistic, CIPassedForHead
    <3>2. Tested
      BY <3>1 DEF GateKnows, RoundBound, Refused, Bound, Live, Ended
    <3>3. job' = job
      BY <2>1 DEF ReconcileHolistic, pipelineVars
    <3> QED  BY <3>1, <3>2, <3>3, PlaceStays DEF SameHead
  <2>2. CASE ObserveStrandedRound
    <3>1. job.Status = "holistic_reviewing" /\ job.CI.State = "passed" /\ job.HolisticReviewRunID = 0
      BY <2>2 DEF ObserveStrandedRound
    <3>2. Tested
      BY <3>1 DEF GateKnows, RoundBound, Refused, Bound, Live, Ended
    <3>3. job' = job
      BY <2>2 DEF ObserveStrandedRound, pipelineVars
    <3> QED  BY <3>1, <3>2, <3>3, PlaceStays DEF SameHead
  <2>3. CASE NewHolisticRound
    <3>1. Tested /\ job.CI.State = "passed" /\ job.Status = "holistic_reviewing"
      BY <2>3, <1>0 DEF NewHolisticRound, RoundPlaces, At
    <3>2. job'.CI = job.CI /\ SameHead /\ job'.Status = job.Status
      BY <1>0, <2>3 DEF NewHolisticRound, ResetHolisticRound, SameHead, Job
    <3> QED  BY <3>1, <3>2, PlaceStays
  <2>4. CASE ObserveChecks /\ RecordCI(pr.head, "passed", NoPrint) /\ pr.checks = "passed"
    <3>1. job.Status = "awaiting_ci" /\ pr.head = job.CI.HeadSHA
      BY <2>4 DEF ObserveChecks
    <3>2. Tested
      BY <2>4, <3>1, ObservedHead
    <3>3. job'.CI.State = "passed" /\ job'.CI.HeadSHA = job.CI.HeadSHA
          /\ SameHead /\ job'.Status = "holistic_reviewing"
      <4> DEFINE ci == [job.CI EXCEPT !.State = "passed", !.FailureFingerprint = NoPrint]
      <4>1. job' = [job EXCEPT !.CI = ci, !.Status = "holistic_reviewing", !.CIFailures = job.CIFailures]
        BY <2>4, <3>1 DEF RecordCI
      <4>2. ci.State = "passed" /\ ci.HeadSHA = job.CI.HeadSHA
        <5>1. job.CI \in CIRecord
          BY <1>0 DEF Job
        <5> QED  BY <5>1 DEF CIRecord
      <4> HIDE DEF ci
      <4> QED  BY <1>0, <4>1, <4>2 DEF Job, SameHead
    <3> QED  BY <3>1, <3>2, <3>3, TestedStays DEF PastIntegration
  <2> QED  BY <1>2, <2>1, <2>2, <2>3, <2>4 DEF Comes, Alone
<1>3. ASSUME call'.at = "ownHolistic", Arrives
      PROVE  Tested' /\ job'.CI.State = "passed" /\ job'.Status = "holistic_reviewing"
  <2>1. DispatchHolistic
    BY <1>3 DEF Arrives
  <2>2. Tested /\ job.CI.State = "passed" /\ job.Status = "holistic_reviewing" /\ job' = job
    BY <1>0, <2>1 DEF DispatchHolistic, RoundPlaces, At, pipelineVars
  <2> QED  BY <2>2, PlaceStays DEF SameHead
<1>4. ASSUME call'.at = "reopen", Arrives
      PROVE  Refused'
  <2>1. PICK run \in DOMAIN runs : ApplyHolistic(run) /\ call'.at = "reopen"
    BY <1>4 DEF Arrives
  <2>2. /\ runs[run] = "changes_requested" /\ UNCHANGED runs
        /\ RecordHolisticReview(run.Attempt, job.IntegrationSHA, runs[run])
        /\ job.HolisticReviewRunID = run.Attempt /\ run = HolisticRun
    <3>1. CASE runs[run] = "approved"
      BY <2>1, <3>1 DEF ApplyHolistic, Enter
    <3>2. CASE runs[run] # "approved" /\ runs[run] # "changes_requested"
      BY <2>1, <3>2 DEF ApplyHolistic, Enter
    <3>3. CASE runs[run] = "changes_requested"
      BY <2>1, <3>3 DEF ApplyHolistic, Applicable, Owns, Roles, envVars
    <3> QED  BY <3>1, <3>2, <3>3
  <2>3. run.Attempt # 0
    BY InvFacts DEF CInv, Counted, EnvTypeOK, Run
  <2>4. job'.HolisticReviewRunID = run.Attempt /\ job'.HolisticReviewVerdict = "changes_requested"
    BY <1>0, <2>2 DEF RecordHolisticReview, Job, pipelineVars
  <2>5. Judge' = run
    BY <2>2, <2>4 DEF Judge, HolisticRun, RunOf
  <2> QED  BY <2>2, <2>3, <2>4, <2>5 DEF Refused
<1> QED  BY <1>0, <1>1, <1>2, <1>3, <1>4, StepComes, StepArrives DEF RoundPlaces, At, Gated, Watched

LEMMA NextGInv == IInv /\ PlanInv /\ MInv /\ CInv /\ RInv /\ GInv /\ [Next]_vars => GInv'
<1> SUFFICES ASSUME IInv, PlanInv, MInv, CInv, RInv, GInv, [Next]_vars
             PROVE  GInv'
  OBVIOUS
<1>1. ForeignKept' /\ NothingGained' /\ (Undisturbed' => Undisturbed /\ Alone)
  BY UndisturbedBefore, UntouchedBefore DEF GInv
<1>2. ASSUME Undisturbed, Alone  PROVE GateKnows'
  <2>1. GateKnows
    BY <1>2 DEF GInv
  <2>2. HeadKnown'
    BY <1>2, <2>1, NextHeadKnown DEF GateKnows
  <2> QED  BY <1>2, <2>1, <2>2, NextPlaces, NextRound DEF GateKnows, RoundKept
<1> QED  BY <1>1, <1>2 DEF GInv

LEMMA InitGInv == Init => GInv
<1> SUFFICES ASSUME Init  PROVE GInv
  OBVIOUS
<1>1. left = Budget /\ Budget.foreign \in Nat /\ Budget.operator \in Nat
  BY OrchestrationAssumption DEF Init
<1>2. call.at = "idle" /\ DOMAIN tasks = {}
  <2>1. tasks = <<>>
    BY DEF Init, PipelineInit
  <2> QED  BY <2>1 DEF Init, Idle
<1>3. /\ job.Status = "created" /\ job.CI.State = "none" /\ job.HolisticReviewRunID = 0
  <2>1. job.CI = NoCI /\ job.Status = "created" /\ job.HolisticReviewRunID = 0
    BY InitialJob
  <2>2. NoCI.State = "none"
    BY DEF NoCI
  <2> QED  BY <2>1, <2>2
<1>4. GateKnows
  BY <1>2, <1>3 DEF GateKnows, HeadKnown, HasIntegrated, RoundPlaces, PublishedReviewed, RoundBound,
     CIRecorded, At
<1> QED  BY <1>1, <1>4 DEF GInv, ForeignKept, NothingGained

-----------------------------------------------------------------------------
(* OpenDev merges only what is ready, whatever operators, other people on   *)
(* GitHub, late answers and interrupted handlers do: the job is approved as *)
(* a whole and ready to publish, all its tasks are integrated, the head is  *)
(* the integrated one and that of the recorded CI, and a manual job was     *)
(* approved by its operator (server.go 604-701).                            *)
THEOREM MergesAreReady == Spec => [][MergesReady]_vars
<1>1. IInv /\ CInv /\ RInv /\ [Next]_vars => [MergesReady]_vars
  BY MergeIsReady
<1> QED  BY <1>1, InitPlanInv, NextPlanInv, InitMInv, NextMInv, InitCInv, NextCInv, InitRInv, NextRInv,
            Invariance, PTL DEF Spec

(* What the gate relies on is an invariant. *)
LEMMA GateInvariance == Spec => [](IInv /\ CInv /\ RInv /\ GInv)
<1> QED  BY InitPlanInv, NextPlanInv, InitMInv, NextMInv, InitCInv, NextCInv, InitRInv, NextRInv,
            InitGInv, NextGInv, Invariance, PTL DEF Spec

(* As long as no operator and nobody else on GitHub interferes, what it     *)
(* merges is also the head the review was of, and its CI passed: with the   *)
(* theorem before, the whole gate.  An operator's rereview and somebody's   *)
(* push are what can come between (server.go 604-701, ci.go 29-144).        *)
LEMMA MergeIsReviewed ==
  ASSUME CInv, RInv, GInv, Undisturbed
  PROVE  MergesReviewed
<1> SUFFICES ASSUME MergePR, pr' # pr
             PROVE  pr.head = job.HolisticReviewSHA /\ job.CI.State = "passed"
  BY DEF MergesReviewed
<1>1. job.Status = "ready_to_publish" /\ job.HolisticReviewVerdict = "approved"
      /\ job.HolisticReviewRunID # 0
  BY DEF RInv, GatesKnow, ReadyApproved, CanPublish, ApprovalOwned, MergePR, At
<1>2. Bound
  BY <1>1 DEF GInv, GateKnows, RoundBound, Refused, Live, Ended
<1> QED  BY <1>1, <1>2 DEF Bound, Tested

THEOREM GateHolds == Spec /\ []Undisturbed => MergeGate
<1>1. IInv /\ CInv /\ RInv /\ GInv /\ Undisturbed => (MergesReady /\ MergesReviewed)
  BY MergeIsReady, MergeIsReviewed
<1> QED  BY <1>1, GateInvariance, PTL DEF MergeGate

(* As long as nobody interferes, a job that can be published, or is, was    *)
(* approved for exactly its integrated head, and CI is awaited only for     *)
(* that head, whichever handler was interrupted and however CI and the      *)
(* holistic rounds went before (store.go 284-303, controller.go 371-406,    *)
(* ci.go 29-144).                                                           *)
THEOREM ResultsBound == Spec => [](Undisturbed => ResultsBoundToHead)
<1>1. RInv /\ GInv => (Undisturbed => ResultsBoundToHead)
  <2> SUFFICES ASSUME RInv, GInv, Undisturbed  PROVE ResultsBoundToHead
    OBVIOUS
  <2>1. ASSUME job.Status \in {"ready_to_publish", "published"}
        PROVE  job.HolisticReviewVerdict = "approved" /\ job.HolisticReviewRunID # 0
    BY <2>1 DEF RInv, ReadyApproved, CanPublish, ApprovalOwned
  <2>2. ASSUME job.Status = "ready_to_publish"  PROVE job.HolisticReviewSHA = job.IntegrationSHA
    BY <2>1, <2>2 DEF GInv, GateKnows, RoundBound, Refused, Bound, Live, Ended
  <2>3. job.Status = "published" => job.HolisticReviewSHA = job.IntegrationSHA
    BY DEF GInv, GateKnows, PublishedReviewed
  <2>4. job.Status = "awaiting_ci" => job.PullRequest /\ job.CI.HeadSHA = job.IntegrationSHA
    BY DEF GInv, GateKnows, CIRecorded, Live, Ended
  <2> QED  BY <2>1, <2>2, <2>3, <2>4 DEF ResultsBoundToHead
<1> QED  BY <1>1, GateInvariance, PTL

-----------------------------------------------------------------------------
(* Who is waited for.  A steady run has met no failure and no operator: the *)
(* owner of what waits has not been applied, and its answer is still to     *)
(* come.                                                                    *)
Steady == Untouched /\ left.faults = Budget.faults
Smooth == left'.operator = left.operator /\ left'.faults = left.faults
FaultsKept == left.faults <= Budget.faults

(* Only failures spend of theirs. *)
LEMMA FaultStep ==
  ASSUME IInv, [Next]_vars
  PROVE  /\ left'.faults \in Nat
         /\ \/ left'.faults = left.faults /\ ~Abandon /\ ~Restart
            \/ left'.faults = left.faults - 1
<1>0. left \in Budgets
  BY InvFacts DEF EnvTypeOK
<1>1. CASE Abandon \/ Restart
  <2>1. Spend("faults")
    BY <1>1 DEF Abandon, Restart
  <2> QED  BY <1>0, <2>1 DEF Spend, Budgets
<1>2. CASE ~Abandon /\ ~Restart
  <2>1. \/ UNCHANGED left
        \/ \E kind \in {"operator", "foreign", "conflicts"} : Spend(kind)
    <3>1. CASE Operator
      BY <3>1 DEF Operator, RetryCodeTask, RetryCodePlanning, ResetHolisticReview, StartRereview,
         PublishApproved, PauseJob, ResumeJob, CancelCodeJob, Operate, envVars
    <3>2. CASE Continue
      BY <3>2 DEF Continue, HandlerStep, Mark, Complete, DispatchReviewer, OwnReviewer, DecideReview,
      StopTask, DispatchWriter, OwnWriter, DispatchReady, OwnReady, NoneReady, BeginIntegration,
      IntegrationRefused, NoneIntegrable, MergeTask, MergeConflict, Integrated, PushBranch, CreatePR,
      SavePullRequest, BeginCI, DraftRefused, Publish, Promote, PassGate, GateRefused, AlreadyMerged,
      MergePR, SaveMerge, DispatchHolistic, OwnHolistic, NewHolisticRound, Reopen, StopJob, RepairCI,
      EscalateCI, DispatchPlanner, NextReviewer, ReleaseWriter, ReleaseReviewer, RenewPlanning,
      CancelRuns, LaunchWriter, envVars
    <3>3. CASE \/ CreateAndPlan \/ \E run \in DOMAIN runs : Answer(run) \/ ApplyOutcome(run)
               \/ Poll \/ ChecksFinish \/ UNCHANGED vars
      BY <3>3 DEF CreateAndPlan, Answer, ApplyOutcome, ApplySettled, ApplyFailure, ApplyPlan,
         ApplyWriterCommit, ApplyWriterNoChanges, ApplyWriterBlocked, ApplyWriterHandoff, ApplyReview,
         ApplyHolistic, Poll, ReconcileTasks, ReconcileReplan, ReconcileHolistic, ReconcileCancelled,
         ResumePlanner, ObservePublication, ObserveStrandedRound, ObserveForeignHead, ObserveChecks,
         ChecksFinish, vars, envVars
    <3>4. CASE ChecksRerun \/ ForeignPush \/ ForeignMerge
      BY <3>4 DEF ChecksRerun, ForeignPush, ForeignMerge
    <3> QED  BY <1>2, <3>1, <3>2, <3>3, <3>4 DEF Next
  <2> QED  BY <1>0, <1>2, <2>1 DEF Spend, Budgets
<1> QED  BY <1>1, <1>2

(* A run is steady only if it has been so far. *)
LEMMA SteadyBefore ==
  ASSUME IInv, NothingGained, FaultsKept, [Next]_vars
  PROVE  /\ FaultsKept'
         /\ Steady' => Steady /\ Smooth /\ ~Abandon /\ ~Restart
<1>1. left \in Budgets /\ Budget.faults \in Nat
  BY InvFacts, OrchestrationAssumption DEF EnvTypeOK
<1> QED  BY <1>1, FaultStep, UntouchedBefore DEF FaultsKept, Steady, Smooth, Budgets

(* The answer a handler applies, and how it comes to one. *)
LEMMA StepRun ==
  ASSUME IInv, [Next]_vars
  PROVE  \/ call'.run = NoRun
         \/ call'.run = call.run /\ (call' = call \/ Continue)
         \/ \E run \in DOMAIN runs : /\ ApplyOutcome(run) /\ ~ApplySettled(run)
                                     /\ call = Idle /\ call'.run = run
<1>0. call \in Call
  BY InvFacts
<1>1. CASE Continue
  <2>1. ASSUME NEW step, NEW then, NEW key
        PROVE  /\ Go(step) \/ GoThen(step, then) \/ With(step, key) \/ UNCHANGED call =>
                    call'.run = call.run
               /\ Return \/ Error => call'.run \in {call.run, NoRun}
    <3>1. Idle.run = NoRun
      BY DEF Idle
    <3>2. Go(step) \/ GoThen(step, then) \/ With(step, key) \/ UNCHANGED call =>
            call'.run = call.run
      BY <1>0 DEF Call, Go, GoThen, With
    <3>3. Return => call'.run \in {call.run, NoRun}
      BY <1>0, <3>1 DEF Call, Return
    <3> QED  BY <3>1, <3>2, <3>3 DEF Error
  <2>2. \/ UNCHANGED call \/ Return \/ Error
        \/ \E step, then, key : Go(step) \/ GoThen(step, then) \/ With(step, key)
    <3>1. CASE Mark \/ CancelRuns
      BY <3>1 DEF Mark, CancelRuns
    <3>2. CASE \/ Complete \/ DispatchReviewer \/ OwnReviewer \/ DecideReview \/ StopTask
               \/ DispatchWriter \/ OwnWriter \/ DispatchReady \/ OwnReady \/ NoneReady
      BY <3>2 DEF Complete, DispatchReviewer, OwnReviewer, DecideReview, StopTask, DispatchWriter,
         OwnWriter, DispatchReady, OwnReady, NoneReady
    <3>3. CASE \/ BeginIntegration \/ IntegrationRefused \/ NoneIntegrable
               \/ MergeTask \/ MergeConflict \/ Integrated
               \/ PushBranch \/ CreatePR \/ SavePullRequest \/ BeginCI \/ DraftRefused
      BY <3>3 DEF BeginIntegration, IntegrationRefused, NoneIntegrable, MergeTask, MergeConflict,
         Integrated, PushBranch, CreatePR, SavePullRequest, BeginCI, DraftRefused
    <3>4. CASE \/ Publish \/ Promote \/ PassGate \/ GateRefused \/ AlreadyMerged \/ MergePR \/ SaveMerge
               \/ DispatchHolistic \/ OwnHolistic \/ NewHolisticRound \/ Reopen \/ StopJob
      BY <3>4 DEF Publish, Promote, PassGate, GateRefused, AlreadyMerged, MergePR, SaveMerge,
         DispatchHolistic, OwnHolistic, NewHolisticRound, Reopen, StopJob
    <3>5. CASE \/ RepairCI \/ EscalateCI \/ DispatchPlanner
               \/ NextReviewer \/ ReleaseWriter \/ ReleaseReviewer \/ RenewPlanning
      BY <3>5 DEF RepairCI, EscalateCI, DispatchPlanner, NextReviewer, ReleaseWriter, ReleaseReviewer,
         RenewPlanning
    <3> QED  BY <1>1, <3>1, <3>2, <3>3, <3>4, <3>5 DEF Continue, HandlerStep
  <2> QED  BY <1>1, <2>1, <2>2
<1>2. CASE \E run \in DOMAIN runs : ApplyOutcome(run)
  <2> PICK run \in DOMAIN runs : ApplyOutcome(run)
    BY <1>2
  <2>1. CASE ApplySettled(run)
    BY <2>1 DEF ApplySettled
  <2>2. CASE ~ApplySettled(run)
    <3>1. \E step, key, then : Enter(step, key, run, then)
      BY <2>2 DEF ApplyOutcome, ApplyFailure, ApplyPlan, ApplyWriterCommit, ApplyWriterNoChanges,
         ApplyWriterBlocked, ApplyWriterHandoff, ApplyReview, ApplyHolistic
    <3> QED  BY <2>2, <3>1 DEF Enter
  <2> QED  BY <2>1, <2>2
<1>3. CASE Poll \/ Operator
  <2>1. UNCHANGED call \/ \E step, key, then : Enter(step, key, NoRun, then)
    <3>1. CASE Poll
      BY <3>1 DEF Poll, ReconcileTasks, ReconcileReplan, ReconcileHolistic, ReconcileCancelled,
         ResumePlanner, ObservePublication, ObserveStrandedRound, ObserveForeignHead, ObserveChecks
    <3>2. CASE Operator
      BY <3>2 DEF Operator, RetryCodeTask, RetryCodePlanning, ResetHolisticReview, StartRereview,
         PublishApproved, PauseJob, ResumeJob, CancelCodeJob, Operate
    <3> QED  BY <1>3, <3>1, <3>2
  <2> QED  BY <2>1 DEF Enter
<1>4. CASE \/ CreateAndPlan \/ \E run \in DOMAIN runs : Answer(run)
           \/ ChecksFinish \/ ChecksRerun \/ ForeignPush \/ ForeignMerge \/ UNCHANGED vars
  BY <1>4 DEF CreateAndPlan, Answer, ChecksFinish, ChecksRerun, ForeignPush, ForeignMerge, vars, envVars
<1>5. CASE Abandon \/ Restart
  BY <1>5 DEF Abandon, Restart, Error, Idle
<1> QED  BY <1>1, <1>2, <1>3, <1>4, <1>5 DEF Next

(* A handler under way takes its own next step, unless it is cut short. *)
LEMMA StepBusy ==
  ASSUME IInv, [Next]_vars, call # Idle, ~Abandon, ~Restart
  PROVE  Beside \/ Continue
<1>1. ASSUME NEW step, NEW key, NEW run, NEW then, Enter(step, key, run, then)  PROVE FALSE
  BY <1>1 DEF Enter
<1>2. CASE \E run \in DOMAIN runs : ApplyOutcome(run)
  BY <1>1, <1>2 DEF ApplyOutcome, ApplySettled, ApplyFailure, ApplyPlan, ApplyWriterCommit,
     ApplyWriterNoChanges, ApplyWriterBlocked, ApplyWriterHandoff, ApplyReview, ApplyHolistic
<1>3. CASE Poll /\ ~ResumePlanner
  BY <1>1, <1>3 DEF Poll, ReconcileTasks, ReconcileReplan, ReconcileHolistic, ReconcileCancelled,
     ObservePublication, ObserveStrandedRound, ObserveForeignHead, ObserveChecks
<1>4. CASE Operator
  BY <1>1, <1>4 DEF Operator, RetryCodeTask, RetryCodePlanning, ResetHolisticReview, StartRereview,
     PublishApproved, PauseJob, ResumeJob, CancelCodeJob, Operate
<1>5. CASE \/ CreateAndPlan \/ ResumePlanner \/ \E run \in DOMAIN runs : Answer(run)
           \/ ChecksFinish \/ ChecksRerun \/ ForeignPush \/ ForeignMerge \/ UNCHANGED vars
  <2>1. UNCHANGED <<plan, tasks, call>> /\ (job' = job \/ StartPlanning)
    BY <1>5 DEF CreateAndPlan, ResumePlanner, Answer, ChecksFinish, ChecksRerun, ForeignPush,
       ForeignMerge, StartPlanning, vars, envVars, pipelineVars
  <2> QED  BY <2>1, RunsGrow DEF Beside
<1> QED  BY <1>2, <1>3, <1>4, <1>5 DEF Next

(* A job that ended without changes has no task that made any, and nothing  *)
(* but a tool of the operator gives it work again.                          *)
NoWork == job.Status = "no_changes" => \A k \in DOMAIN tasks : tasks[k].Status = "no_changes"

LEMMA NoWorkStays ==
  ASSUME IInv, MInv, CInv, ReopensReviewed, NoWork, job.Status = "no_changes",
         [Next]_vars, left'.operator = left.operator
  PROVE  NoWork' /\ job'.Status \in {"no_changes", "failed"}
<1>0. job \in Job /\ tasks \in [DOMAIN tasks -> Task] /\ left \in Budgets
  BY InvFacts DEF PipelineTypeOK, EnvTypeOK
<1>1. \A k \in DOMAIN tasks : tasks[k].Status = "no_changes" /\ tasks[k].ReviewVerdict = "pending"
  BY DEF NoWork, CInv, UnreviewedWork
<1>2. \A run \in DOMAIN runs : ~Applicable(run) /\ ~Working(run)
  BY DEF Applicable, Working, Terminal
<1>3. CASE UNCHANGED pipelineVars
  BY <1>3 DEF pipelineVars, NoWork
<1>4. CASE Reload
  BY <1>0, <1>1, <1>4 DEF Reload, NoWork, Task
<1>5. CASE TaskTransition
  <2>1. ASSUME NEW k \in DOMAIN tasks, WorkOn(k), call.key = k
        PROVE  RecordTaskBase(k, repo.head) \/ UNCHANGED pipelineVars
    <3>1. ~(At("block") \/ At("merge"))
      BY <1>1, <2>1 DEF CInv, StoppedByVerdict, MInv, HandlerKnows, At
    <3> QED  BY <1>1, <2>1, <3>1 DEF WorkOn, StartTaskWork, RecordWriterCompletion, StartReviewer,
                RecordReview, Adopted, RecordIntegration, RetryWriter, RetryReview, pipelineVars
  <2>2. ASSUME NEW k \in DOMAIN tasks  PROVE ~Pick(k)
    BY <1>1 DEF Pick, Ready, StartIntegration
  <2>3. \/ UNCHANGED pipelineVars
        \/ \E k \in DOMAIN tasks : RecordTaskBase(k, repo.head)
    BY <1>2, <1>5, <2>1, <2>2 DEF TaskTransition, Take
  <2>4. ASSUME NEW k \in DOMAIN tasks, RecordTaskBase(k, repo.head)
        PROVE  NoWork' /\ job'.Status = "no_changes"
    BY <1>0, <1>1, <2>4 DEF RecordTaskBase, NoWork, Task
  <2> QED  BY <1>3, <2>3, <2>4
<1>6. CASE JobTransition
  <2>1. FailJob
    BY <1>2, <1>6 DEF JobTransition, StartPlanning, RecordPullRequest, RecordMerge, StartCI,
       BeginCIReplan, AwaitsRepair, ResetHolisticRound, StartHolisticReviewer, RetryPlanning
  <2> QED  BY <1>0, <2>1 DEF FailJob, Job, NoWork
<1>7. CASE PlanTransition
  BY <1>2, <1>7 DEF PlanTransition, StartCIRemediation, AwaitsRepair, ReopensReviewed
<1>8. ~OperatorTransition
  <2>1. left' = [left EXCEPT !.operator = @ - 1] => left'.operator = left.operator - 1
    BY <1>0 DEF Budgets
  <2>2. ~(left' = [left EXCEPT !.operator = @ - 1])
    BY <1>0, <2>1 DEF Budgets
  <2> QED  BY <2>2 DEF OperatorTransition, Resume
<1> QED  BY <1>3, <1>4, <1>5, <1>6, <1>7, <1>8, StepTransition DEF Transition

LEMMA NoWorkComes ==
  ASSUME IInv, job.Status # "no_changes", job.Status # "paused", [Next]_vars,
         job'.Status = "no_changes"
  PROVE  NoWork'
<1>0. job \in Job /\ tasks \in [DOMAIN tasks -> Task] /\ call.run.Attempt \in Nat
  BY InvFacts DEF PipelineTypeOK
<1>1. TaskTransition /\ job' # job
  <2>1. ~UNCHANGED pipelineVars /\ ~Reload
    BY DEF pipelineVars, Reload
  <2>2. ~PlanTransition
    BY <1>0, PlanJob DEF PlanMovesJob, Job, pipelineVars
  <2>3. ~JobTransition
    BY <1>0 DEF JobTransition, StartPlanning, RecordPullRequest, RecordMerge, FailJob, StartCI,
       BeginCIReplan, ResetHolisticRound, StartHolisticReviewer, RetryPlanning, RecordCI,
       RecordHolisticReview, Job, pipelineVars
  <2>4. ~OperatorTransition
    BY <1>0 DEF OperatorTransition, Resume, ResumeBlockedWriter, ReopenNoChangesTask,
       ResetHolisticRound, Pause, Cancel, StartHolisticRereview, Job
  <2> QED  BY <2>1, <2>2, <2>3, <2>4, StepTransition DEF Transition
<1>2. PICK k \in DOMAIN tasks : \E run \in Nat : RecordNoChanges(k, run)
  <2>1. ASSUME NEW k \in DOMAIN tasks, WorkOn(k)  PROVE FALSE
    BY <1>0, <1>1, <2>1 DEF WorkOn, RecordTaskBase, StartTaskWork, RecordWriterCompletion, StartReviewer,
       RecordReview, BlockTask, RecordIntegration, RetryWriter, RetryReview, Job, pipelineVars
  <2>2. ASSUME NEW k \in DOMAIN tasks, Pick(k)  PROVE FALSE
    BY <1>0, <1>1, <2>2 DEF Pick, RecordTaskBase, BlockTask, StartIntegration, Job
  <2>3. PICK run \in DOMAIN runs : run.Key \in DOMAIN tasks /\ Take(run, run.Key)
    BY <1>1, <2>1, <2>2 DEF TaskTransition
  <2>4. RecordNoChanges(run.Key, run.Attempt)
    BY <1>0, <1>1, <2>3 DEF Take, BlockTask, RecordReviewReport
  <2>5. run.Attempt \in Nat
    BY <2>3, ApplicableFacts DEF Take
  <2> QED  BY <2>3, <2>4, <2>5
<1>3. LET ts == Update(k, [tasks[k] EXCEPT !.Status = "no_changes"])
      IN  tasks' = RefreshEligibility(ts) /\ AllIntegrated(ts) /\ ~HasIntegrated(ts)
  BY <1>0, <1>1, <1>2 DEF RecordNoChanges, Job
<1> DEFINE ts == Update(k, [tasks[k] EXCEPT !.Status = "no_changes"])
<1>4. DOMAIN ts = DOMAIN tasks /\ \A j \in DOMAIN ts : ts[j].Status = "no_changes"
  BY <1>3 DEF AllIntegrated, HasIntegrated, Done, Update
<1>5. DOMAIN tasks' = DOMAIN ts /\ \A j \in DOMAIN ts : tasks'[j] = ts[j]
  BY <1>3, <1>4 DEF RefreshEligibility
<1> QED  BY <1>4, <1>5 DEF NoWork

(* Who has been asked and not heard. *)
Unapplied(r) == r \in DOMAIN runs /\ runs[r] # "applied"

LEMMA UnappliedStays ==
  ASSUME IInv, [Next]_vars, left'.operator = left.operator, NEW r, Unapplied(r)
  PROVE  Unapplied(r)' \/ (Mark /\ call.run = r) \/ ApplySettled(r) \/ CancelRuns
<1>0. RunsStep /\ left \in Budgets /\ EnvTypeOK
  BY StepRuns, InvFacts DEF EnvTypeOK
<1>1. CASE UNCHANGED runs
  BY <1>1 DEF Unapplied
<1>2. CASE \E run \in Run : Launch(run)
  BY <1>2 DEF Unapplied, Launch
<1>3. ASSUME NEW run \in DOMAIN runs, Answer(run)  PROVE Unapplied(r)'
  <2>1. PICK a \in Answers[run.Role] : runs' = [runs EXCEPT ![run] = a]
    BY <1>3 DEF Answer
  <2>2. a # "applied"
    BY <1>0, <2>1, OrchestrationAssumption DEF EnvTypeOK, Run, Roles, Answers
  <2> QED  BY <2>1, <2>2 DEF Unapplied
<1>4. ASSUME NEW run, runs' = Marked(run), run # r  PROVE Unapplied(r)'
  BY <1>4 DEF Marked, Unapplied
<1>5. CASE Mark
  BY <1>4, <1>5 DEF Mark
<1>6. CASE \E run \in DOMAIN runs : ApplySettled(run)
  BY <1>4, <1>6 DEF ApplySettled
<1>7. ~(left'.operator = left.operator - 1)
  BY <1>0 DEF Budgets
<1> QED  BY <1>0, <1>1, <1>2, <1>3, <1>5, <1>6, <1>7 DEF RunsStep

(* A reviewer that was launched is among the attempts of its task, or is    *)
(* the next one of a task that waits for a reviewer and has not been        *)
(* applied: whatever fails, it will be recorded as the owner.  A review     *)
(* that has an owner can still hear it, since only the handler that records *)
(* its verdict marks its answer.                                            *)
ReviewersLaunched ==
  \A r \in DOMAIN runs : r.Role = "reviewer" =>
    /\ r.Key \in DOMAIN tasks
    /\ \/ r.Attempt <= tasks[r.Key].ReviewerAttempts
       \/ /\ r.Key \in Unreviewed /\ r.Attempt = tasks[r.Key].ReviewerAttempts + 1
          /\ runs[r] # "applied"
ReviewersCounted == \A k \in DOMAIN tasks : tasks[k].ReviewerRunID <= tasks[k].ReviewerAttempts
ReviewsOpen ==
  \A k \in DOMAIN tasks : tasks[k].Status = "reviewing" =>
    /\ tasks[k].ReviewVerdict = "pending"
    /\ tasks[k].ReviewerRunID > 0 => Unapplied(RunOf("reviewer", k, tasks[k].ReviewerRunID))
ReviewerSteps == call.at \in {"reviewer", "ownReviewer"} => call.key \in Unreviewed
ReviewerCalls ==
  /\ call.run.Role = "reviewer" =>
       /\ call.run.Key \in DOMAIN tasks
       /\ call.run.Attempt <= tasks[call.run.Key].ReviewerAttempts
       /\ \/ At("verdict")
          \/ tasks[call.run.Key].Status # "reviewing"
          \/ tasks[call.run.Key].ReviewerRunID # call.run.Attempt
  /\ At("verdict") => tasks[call.key].ReviewerRunID = call.run.Attempt

ReviewsAwaited ==
  ReviewersLaunched /\ ReviewersCounted /\ ReviewsOpen /\ ReviewerSteps /\ ReviewerCalls

(* Without failures the same holds of the writers and of the holistic       *)
(* rounds: what was launched is counted, or about to be recorded as the     *)
(* next one, so that a new launch is never an old record.                   *)
WritersLaunched ==
  \A r \in DOMAIN runs : r.Role = "writer" =>
    /\ r.Key \in DOMAIN tasks
    /\ \/ r.Attempt <= tasks[r.Key].WriterAttempts
       \/ /\ call.at \in {"ownWriter", "ownReady"} /\ call.key = r.Key
          /\ r.Attempt = tasks[r.Key].WriterAttempts + 1
RoundsLaunched ==
  \A r \in DOMAIN runs : r.Role = "holistic" =>
    \/ r.Attempt <= job.HolisticRounds
    \/ /\ r.Attempt = job.HolisticRounds + 1
       /\ job.HolisticReviewRunID = r.Attempt \/ At("ownHolistic")
OwnersCounted ==
  /\ \A k \in DOMAIN tasks : tasks[k].WriterRunID <= tasks[k].WriterAttempts
  /\ job.HolisticReviewRunID \in {0, job.HolisticRounds + 1}

(* What waits has an owner that has not been applied, and so has what is    *)
(* about to.                                                                *)
TasksHeard ==
  \A k \in DOMAIN tasks :
    tasks[k].Status = "working" => Unapplied(RunOf("writer", k, tasks[k].WriterRunID))
RoundHeard ==
  job.HolisticReviewVerdict = "pending" /\ job.HolisticReviewRunID > 0 => Unapplied(Judge)
OwnsHeard ==
  /\ call.at \in {"ownWriter", "ownReady"} => Unapplied(WriterRun(call.key))
  /\ At("ownHolistic") => Unapplied(HolisticRun)

(* A handler that applies an answer has taken its owner off what waited.    *)
WriterCalls ==
  call.run.Role = "writer" =>
    /\ call.run.Key \in DOMAIN tasks
    /\ call.run.Attempt <= tasks[call.run.Key].WriterAttempts
    /\ \/ At("complete")
       \/ tasks[call.run.Key].Status # "working"
       \/ tasks[call.run.Key].WriterRunID # call.run.Attempt
JudgeCalls ==
  call.run.Role = "holistic" =>
    /\ call.run.Attempt <= job.HolisticRounds + 1
    /\ job.HolisticReviewVerdict # "pending" \/ job.HolisticReviewRunID # call.run.Attempt
RoundStarts ==
  call.at \in {"resetRound", "holistic", "ownHolistic"} =>
    /\ call.run = NoRun
    /\ At("resetRound") \/ (job.HolisticReviewRunID = 0 /\ job.HolisticReviewVerdict = "pending")

Awaited == /\ WritersLaunched /\ RoundsLaunched /\ OwnersCounted
           /\ TasksHeard /\ RoundHeard /\ OwnsHeard
           /\ WriterCalls /\ JudgeCalls /\ RoundStarts

CallKnown == call.run # NoRun => call.run \in DOMAIN runs
CancelEnded == At("cancelRuns") => job.Status \in Ended
HInv == /\ NothingGained /\ FaultsKept /\ CallKnown /\ CancelEnded
        /\ Untouched => NoWork
        /\ Untouched /\ ~Terminal(job.Status) => ReviewsAwaited
        /\ Steady /\ ~Terminal(job.Status) => Awaited

LEMMA NextCallKnown ==
  ASSUME IInv, CallKnown, [Next]_vars
  PROVE  CallKnown'
BY StepRun, RunsGrow DEF CallKnown

LEMMA NextCancelEnded ==
  ASSUME IInv, CancelEnded, [Next]_vars
  PROVE  CancelEnded'
<1>0. call \in Call /\ job \in Job
  BY InvFacts DEF PipelineTypeOK
<1> SUFFICES ASSUME At("cancelRuns")'  PROVE job'.Status \in Ended
  BY DEF CancelEnded
<1>1. call'.at = "cancelRuns"
  BY DEF At
<1>2. CASE call = call' /\ ~Live(job.Status)
  <2>1. job.Status \in Ended /\ job.Status # "paused"
    BY <1>1, <1>2 DEF CancelEnded, At, Ended
  <2> QED  BY <1>2, <2>1, NotLiveStep DEF pipelineVars, Reload
<1>3. CASE call = call' /\ Live(job.Status)
  BY <1>1, <1>3 DEF CancelEnded, At, Live
<1>4. CASE call # call'
  <2>0. ~Return /\ ~Error
    <3>1. Return \/ Error => call'.at \in {"idle", "mark"}
      BY <1>0, CallAt
    <3> QED  BY <1>1, <3>1
  <2>1. ASSUME NEW step, step # "cancelRuns", NEW key, NEW run, NEW then
        PROVE  ~Go(step) /\ ~GoThen(step, then) /\ ~With(step, key) /\ ~Enter(step, key, run, then)
    BY <1>0, <1>1, <2>1, CallAt
  <2>2. CASE Continue
    <3>1. ~(\/ Mark \/ CancelRuns \/ Complete \/ DispatchReviewer \/ OwnReviewer \/ DecideReview
            \/ StopTask \/ DispatchWriter \/ OwnWriter \/ DispatchReady \/ OwnReady \/ NoneReady)
      BY <1>4, <2>0, <2>1 DEF Mark, CancelRuns, Complete, DispatchReviewer, OwnReviewer, DecideReview, StopTask,
         DispatchWriter, OwnWriter, DispatchReady, OwnReady, NoneReady
    <3>2. ~(\/ BeginIntegration \/ IntegrationRefused \/ NoneIntegrable
            \/ MergeTask \/ MergeConflict \/ Integrated
            \/ PushBranch \/ CreatePR \/ SavePullRequest \/ BeginCI \/ DraftRefused)
      BY <1>4, <2>0, <2>1 DEF BeginIntegration, IntegrationRefused, NoneIntegrable, MergeTask, MergeConflict,
         Integrated, PushBranch, CreatePR, SavePullRequest, BeginCI, DraftRefused
    <3>3. ~(\/ Publish \/ Promote \/ PassGate \/ GateRefused \/ AlreadyMerged \/ MergePR
            \/ SaveMerge \/ DispatchHolistic \/ OwnHolistic \/ NewHolisticRound \/ Reopen \/ StopJob)
      BY <1>4, <2>0, <2>1 DEF Publish, Promote, PassGate, GateRefused, AlreadyMerged, MergePR, SaveMerge,
         DispatchHolistic, OwnHolistic, NewHolisticRound, Reopen, StopJob
    <3>4. ~(\/ RepairCI \/ EscalateCI \/ DispatchPlanner
            \/ NextReviewer \/ ReleaseWriter \/ ReleaseReviewer \/ RenewPlanning)
      BY <1>4, <2>0, <2>1 DEF RepairCI, EscalateCI, DispatchPlanner, NextReviewer, ReleaseWriter,
         ReleaseReviewer, RenewPlanning
    <3> QED  BY <2>2, <3>1, <3>2, <3>3, <3>4 DEF Continue, HandlerStep
  <2>3. CASE \E run \in DOMAIN runs : ApplyOutcome(run)
    BY <1>4, <2>1, <2>3 DEF ApplyOutcome, ApplySettled, ApplyFailure, ApplyPlan, ApplyWriterCommit,
       ApplyWriterNoChanges, ApplyWriterBlocked, ApplyWriterHandoff, ApplyReview, ApplyHolistic
  <2>4. CASE Poll
    <3>1. ReconcileCancelled
      BY <1>4, <2>1, <2>4 DEF Poll, ReconcileTasks, ReconcileReplan, ReconcileHolistic, ResumePlanner,
         ObservePublication, ObserveStrandedRound, ObserveForeignHead, ObserveChecks
    <3> QED  BY <3>1 DEF ReconcileCancelled, pipelineVars, Ended
  <2>5. CASE Operator
    <3>1. CancelCodeJob
      BY <1>4, <2>1, <2>5 DEF Operator, RetryCodeTask, RetryCodePlanning, ResetHolisticReview,
         StartRereview, PublishApproved, PauseJob, ResumeJob, Operate
    <3> QED  BY <1>0, <3>1 DEF CancelCodeJob, Cancel, Job, Ended
  <2>6. CASE \/ CreateAndPlan \/ \E run \in DOMAIN runs : Answer(run)
             \/ ChecksFinish \/ ChecksRerun \/ ForeignPush \/ ForeignMerge \/ UNCHANGED vars
    BY <1>4, <2>6 DEF CreateAndPlan, Answer, ChecksFinish, ChecksRerun, ForeignPush, ForeignMerge,
       vars, envVars
  <2>7. CASE Abandon \/ Restart
    BY <2>0, <2>7 DEF Abandon, Restart
  <2> QED  BY <2>2, <2>3, <2>4, <2>5, <2>6, <2>7 DEF Next
<1> QED  BY <1>2, <1>3, <1>4

(* A step without an operator of a job that has not ended, and one of a     *)
(* steady run.                                                              *)
CalmStep ==
  /\ IInv /\ PlanInv /\ MInv /\ CInv /\ AboutToOwn /\ Ordered /\ CallKnown /\ CancelEnded
  /\ ReviewsAwaited
  /\ [Next]_vars /\ left'.operator = left.operator
  /\ Live(job.Status) /\ ~Terminal(job.Status) /\ ~Terminal(job'.Status)
SteadyStep == CalmStep /\ Awaited /\ ~Abandon /\ ~Restart

LEMMA CalmFacts ==
  ASSUME CalmStep
  PROVE  /\ IInv /\ PlanInv /\ MInv /\ CInv /\ CallKnown /\ ReviewsAwaited /\ [Next]_vars
         /\ left'.operator = left.operator
         /\ TasksChange /\ RoundStep /\ DOMAIN runs \subseteq DOMAIN runs'
         /\ job \in Job /\ tasks \in [DOMAIN tasks -> Task] /\ call \in Call /\ EnvTypeOK
         /\ ~CancelRuns
         /\ call.at \in TaskSteps => call.key \in DOMAIN tasks
         /\ \A r \in DOMAIN runs : r.Attempt \in Nat /\ r.Attempt > 0
<1>1. IInv /\ CInv /\ PlanInv
  BY DEF CalmStep
<1>2. ~CancelRuns
  BY DEF CalmStep, CancelEnded, CancelRuns, Live
<1>3. \A r \in DOMAIN runs : r.Attempt \in Nat /\ r.Attempt > 0
  BY <1>1, InvFacts DEF CInv, Counted, EnvTypeOK, Run
<1> QED  BY <1>1, <1>2, <1>3, InvFacts, StepChanges, StepRound, RunsGrow DEF CalmStep, PipelineTypeOK

LEMMA SteadyFacts ==
  ASSUME SteadyStep
  PROVE  /\ CalmStep /\ Awaited /\ ~Abandon /\ ~Restart
         /\ IInv /\ PlanInv /\ MInv /\ CInv /\ CallKnown /\ ReviewsAwaited /\ [Next]_vars
         /\ left'.operator = left.operator
         /\ TasksChange /\ RoundStep /\ DOMAIN runs \subseteq DOMAIN runs'
         /\ job \in Job /\ tasks \in [DOMAIN tasks -> Task] /\ call \in Call /\ EnvTypeOK
         /\ ~CancelRuns
         /\ call.at \in TaskSteps => call.key \in DOMAIN tasks
         /\ \A r \in DOMAIN runs : r.Attempt \in Nat /\ r.Attempt > 0
BY CalmFacts DEF SteadyStep

LEMMA AttemptsGrow ==
  ASSUME CalmStep, NEW k \in DOMAIN tasks
  PROVE  /\ k \in DOMAIN tasks'
         /\ tasks[k].WriterAttempts \in Nat /\ tasks[k].ReviewerAttempts \in Nat
         /\ \/ tasks'[k].WriterAttempts = tasks[k].WriterAttempts
            \/ tasks'[k].WriterAttempts = tasks[k].WriterAttempts + 1
         /\ \/ tasks'[k].ReviewerAttempts = tasks[k].ReviewerAttempts
            \/ tasks'[k].ReviewerAttempts = tasks[k].ReviewerAttempts + 1
<1> DEFINE t == tasks[k]
           u == tasks'[k]
<1>1. Changes(k, t, u) /\ k \in DOMAIN tasks'
  BY CalmFacts DEF TasksChange
<1>2. t.WriterAttempts \in Nat /\ t.ReviewerAttempts \in Nat
  BY CalmFacts DEF Task
<1>3. CASE IsJudged(k, t, u)
  <2>1. call.run \in DOMAIN runs /\ t.ReviewerRunID = call.run.Attempt
    BY <1>3, CalmFacts DEF IsJudged, MInv, HandlerKnows, Given, ReviewsAwaited, ReviewerCalls
  <2> QED  BY <1>1, <1>2, <1>3, <2>1, CalmFacts DEF IsJudged
<1>4. CASE ~IsJudged(k, t, u)
  BY <1>1, <1>2, <1>4 DEF Changes, Rests, Starts, Completes, FindsNothing, GetsReviewer, IsBlocked,
     BeginsIntegration, EndsIntegration, BecomesEligible, IsReleased, LosesReviewer, IsReopened, SameCounts
<1> QED  BY <1>3, <1>4

LEMMA RoundsGrow ==
  ASSUME CalmStep
  PROVE  /\ job.HolisticRounds \in Nat
         /\ job'.HolisticRounds = job.HolisticRounds \/ RoundResets
         /\ \/ job'.HolisticReviewRunID = job.HolisticReviewRunID
               /\ (job'.HolisticReviewVerdict = job.HolisticReviewVerdict \/ RoundJudged)
            \/ RoundResets \/ RoundOwned
         /\ RoundResets => /\ job'.HolisticRounds = job.HolisticRounds + 1
                           /\ job'.HolisticReviewRunID = 0
         /\ RoundOwned => /\ At("ownHolistic")
                          /\ job'.HolisticReviewRunID = job.HolisticRounds + 1
                          /\ job'.HolisticRounds = job.HolisticRounds
         /\ RoundJudged => job'.HolisticReviewVerdict # "pending"
<1>1. job \in Job /\ RoundStep
  BY CalmFacts
<1>2. /\ RoundResets => /\ job'.HolisticRounds = job.HolisticRounds + 1
                        /\ job'.HolisticReviewRunID = 0
      /\ RoundOwned => /\ At("ownHolistic")
                       /\ job'.HolisticReviewRunID = job.HolisticRounds + 1
                       /\ job'.HolisticRounds = job.HolisticRounds
  BY <1>1 DEF RoundResets, ResetHolisticRound, RoundOwned, StartHolisticReviewer, Job
<1>3. CASE RoundJudged
  <2> PICK run \in DOMAIN runs :
        /\ Applicable(run) /\ run.Role = "holistic" /\ runs[run] \notin {"malformed", "failed"}
        /\ RecordHolisticReview(run.Attempt, job.IntegrationSHA, runs[run])
    BY <1>3 DEF RoundJudged
  <2>1. run.Attempt = job.HolisticReviewRunID /\ run = HolisticRun
    BY DEF Applicable, Owns
  <2>2. runs[run] \in {"approved", "changes_requested", "blocked"}
    BY CalmFacts, ApplicableFacts, OrchestrationAssumption DEF Answers
  <2>3. CASE UNCHANGED pipelineVars
    <3>1. job.HolisticReviewVerdict = runs[run]
      BY <1>1, <2>2, <2>3 DEF RecordHolisticReview, pipelineVars, Job
    <3> QED  BY <1>1, <1>2, <2>2, <2>3, <3>1 DEF pipelineVars, Job
  <2>4. CASE ~UNCHANGED pipelineVars
    <3>1. /\ job'.HolisticReviewRunID = run.Attempt /\ job'.HolisticReviewVerdict = runs[run]
          /\ job'.HolisticRounds = job.HolisticRounds
      BY <1>1, <2>4 DEF RecordHolisticReview, Job
    <3> QED  BY <1>1, <1>2, <1>3, <2>1, <2>2, <3>1 DEF Job
  <2> QED  BY <2>3, <2>4
<1>4. CASE RoundRests \/ RoundLeft \/ RoundPublished
  BY <1>1, <1>2, <1>4, <1>3 DEF RoundRests, RoundLeft, RoundPublished, SameRound, Job
<1>5. CASE CIBegins
  BY <1>1, <1>2, <1>3, <1>5 DEF CIBegins, StartCI, Job
<1>6. CASE CIObserved
  BY <1>1, <1>2, <1>3, <1>6 DEF CIObserved, RecordCI, Job
<1>7. CASE RoundResets \/ RoundOwned
  BY <1>1, <1>2, <1>3, <1>7 DEF Job
<1>8. ~RoundFails
  BY DEF RoundFails, CalmStep, Terminal
<1> QED  BY <1>1, <1>3, <1>4, <1>5, <1>6, <1>7, <1>8 DEF RoundStep

(* The step of a handler, by where it is. *)
LEMMA HandlerAt ==
  ASSUME Continue
  PROVE  /\ call.at = "ownWriter" => OwnWriter
         /\ call.at = "ownReady" => OwnReady
         /\ call.at = "ownReviewer" => OwnReviewer
         /\ call.at = "ownHolistic" => OwnHolistic
         /\ call.at = "complete" => Complete
         /\ call.at = "verdict" => DecideReview
         /\ call.at = "mark" => Mark
BY DEF Continue, HandlerStep, Mark, Complete, DispatchReviewer, OwnReviewer, DecideReview,
      StopTask, DispatchWriter, OwnWriter, DispatchReady, OwnReady, NoneReady, BeginIntegration,
      IntegrationRefused, NoneIntegrable, MergeTask, MergeConflict, Integrated, PushBranch, CreatePR,
      SavePullRequest, BeginCI, DraftRefused, Publish, Promote, PassGate, GateRefused, AlreadyMerged,
      MergePR, SaveMerge, DispatchHolistic, OwnHolistic, NewHolisticRound, Reopen, StopJob, RepairCI,
      EscalateCI, DispatchPlanner, NextReviewer, ReleaseWriter, ReleaseReviewer, RenewPlanning,
      CancelRuns, At

LEMMA OwnsWriter ==
  ASSUME SteadyStep, OwnWriter \/ OwnReady
  PROVE  /\ call.key \in DOMAIN tasks
         /\ tasks'[call.key].WriterAttempts = tasks[call.key].WriterAttempts + 1
<1>1. call.key \in DOMAIN tasks /\ tasks[call.key] \in Task
  BY SteadyFacts DEF OwnWriter, OwnReady, At, TaskSteps
<1>2. tasks[call.key].WriterRunID # tasks[call.key].WriterAttempts + 1
  BY <1>1, SteadyFacts DEF Awaited, OwnersCounted, Task
<1>3. StartTaskWork(call.key, tasks[call.key].WriterAttempts + 1)
  BY DEF OwnWriter, OwnReady
<1> QED  BY <1>1, <1>2, <1>3, SteadyFacts DEF StartTaskWork, Update, Task

LEMMA LaunchedKinds ==
  ASSUME CalmStep, NEW r \in DOMAIN runs', r \notin DOMAIN runs
  PROVE  /\ r.Role = "writer" =>
              /\ r.Key \in DOMAIN tasks /\ r = WriterRun(r.Key)
              /\ call'.at \in {"ownWriter", "ownReady"} /\ call'.key = r.Key
              /\ tasks'[r.Key].WriterAttempts = tasks[r.Key].WriterAttempts
         /\ r.Role = "reviewer" =>
              /\ r.Key \in DOMAIN tasks /\ r = ReviewerRun(r.Key)
              /\ r.Key \in Unreviewed /\ tasks' = tasks
         /\ r.Role = "holistic" => /\ r = HolisticRun /\ call'.at = "ownHolistic"
                                   /\ job' = job
<1>1. Launch(r) /\ Dispatches(r) /\ call \in Call
  BY CalmFacts, RunsGrow
<1>2. CASE DispatchReviewer /\ r = ReviewerRun(call.key)
  <2>1. call.key \in DOMAIN tasks /\ tasks' = tasks
    BY <1>2, CalmFacts DEF DispatchReviewer, At, TaskSteps, pipelineVars
  <2>2. call.key \in Unreviewed
    BY <1>2, CalmFacts DEF DispatchReviewer, At, ReviewsAwaited, ReviewerSteps
  <2> QED  BY <1>2, <2>1, <2>2 DEF ReviewerRun, RunOf
<1>3. CASE DispatchWriter /\ r = WriterRun(call.key)
  <2>1. call.key \in DOMAIN tasks /\ LaunchWriter(call.key)
    BY <1>3, CalmFacts DEF DispatchWriter, At, TaskSteps
  <2>2. call'.at = "ownWriter" /\ call'.key = call.key
    BY <1>1, <1>3, CallAt DEF DispatchWriter
  <2> QED  BY <1>3, <2>1, <2>2, LaunchCounts, CalmFacts DEF WriterRun, RunOf
<1>4. ASSUME NEW k \in DOMAIN tasks, DispatchReady, k \in Ready, r = WriterRun(k),
             call'.at = "ownReady", call'.key = k
      PROVE  /\ r.Role = "writer" /\ r.Key = k
             /\ tasks'[k].WriterAttempts = tasks[k].WriterAttempts
  <2>1. r.Role = "writer" /\ r.Key = k
    BY <1>4 DEF WriterRun, RunOf
  <2>2. PICK h \in FirstTask(Ready) : LaunchWriter(h) /\ With("ownReady", h)
    <3>1. ~UNCHANGED call
      BY <1>4 DEF DispatchReady, At
    <3> QED  BY <1>4, <3>1 DEF DispatchReady
  <2>3. h = k /\ h \in DOMAIN tasks
    <3>1. call'.key = h
      BY <1>1, <2>2, CallAt
    <3> QED  BY <1>4, <3>1
  <2> QED  BY <2>1, <2>2, <2>3, LaunchCounts, CalmFacts
<1>5. CASE DispatchHolistic /\ r = HolisticRun
  <2>1. call'.at = "ownHolistic" /\ job' = job
    BY <1>1, <1>5, CallAt DEF DispatchHolistic, pipelineVars
  <2> QED  BY <1>5, <2>1 DEF HolisticRun, RunOf
<1>6. CASE r \in {PlannerRun, RevisionRun}
  BY <1>6 DEF PlannerRun, RevisionRun, RunOf
<1> QED  BY <1>1, <1>2, <1>3, <1>4, <1>5, <1>6 DEF Dispatches

LEMMA NextWritersLaunched ==
  ASSUME SteadyStep
  PROVE  WritersLaunched'
<1> SUFFICES ASSUME NEW r \in DOMAIN runs', r.Role = "writer"
             PROVE  /\ r.Key \in DOMAIN tasks'
                    /\ \/ r.Attempt <= tasks'[r.Key].WriterAttempts
                       \/ /\ call'.at \in {"ownWriter", "ownReady"} /\ call'.key = r.Key
                          /\ r.Attempt = tasks'[r.Key].WriterAttempts + 1
  BY DEF WritersLaunched
<1>1. CASE r \notin DOMAIN runs
  BY <1>1, LaunchedKinds, AttemptsGrow, SteadyFacts DEF WriterRun, RunOf
<1>2. CASE r \in DOMAIN runs
  <2>1. /\ r.Key \in DOMAIN tasks /\ r.Attempt \in Nat
        /\ \/ r.Attempt <= tasks[r.Key].WriterAttempts
           \/ /\ call.at \in {"ownWriter", "ownReady"} /\ call.key = r.Key
              /\ r.Attempt = tasks[r.Key].WriterAttempts + 1
    BY <1>2, SteadyFacts DEF Awaited, WritersLaunched
  <2>2. CASE r.Attempt <= tasks[r.Key].WriterAttempts
    BY <2>1, <2>2, AttemptsGrow, SteadyFacts
  <2>3. CASE /\ call.at \in {"ownWriter", "ownReady"} /\ call.key = r.Key
             /\ r.Attempt = tasks[r.Key].WriterAttempts + 1
    <3>1. Beside \/ OwnWriter \/ OwnReady
      <4>1. Beside \/ Continue
        BY <2>3, StepBusy, SteadyFacts DEF Idle
      <4> QED  BY <2>3, <4>1, SteadyFacts, HandlerAt
    <3>2. CASE Beside
      BY <2>1, <2>3, <3>2 DEF Beside
    <3>3. CASE OwnWriter \/ OwnReady
      BY <2>1, <2>3, <3>3, OwnsWriter, AttemptsGrow, SteadyFacts
    <3> QED  BY <3>1, <3>2, <3>3
  <2> QED  BY <2>1, <2>2, <2>3
<1> QED  BY <1>1, <1>2

LEMMA NextRoundsLaunched ==
  ASSUME SteadyStep
  PROVE  RoundsLaunched'
<1> SUFFICES ASSUME NEW r \in DOMAIN runs', r.Role = "holistic"
             PROVE  \/ r.Attempt <= job'.HolisticRounds
                    \/ /\ r.Attempt = job'.HolisticRounds + 1
                       /\ job'.HolisticReviewRunID = r.Attempt \/ call'.at = "ownHolistic"
  BY DEF RoundsLaunched, At
<1>1. CASE r \notin DOMAIN runs
  BY <1>1, LaunchedKinds, SteadyFacts DEF HolisticRun, RunOf
<1>2. CASE r \in DOMAIN runs
  <2>1. /\ r.Attempt \in Nat /\ job.HolisticRounds \in Nat
        /\ \/ r.Attempt <= job.HolisticRounds
           \/ /\ r.Attempt = job.HolisticRounds + 1
              /\ job.HolisticReviewRunID = r.Attempt \/ call.at = "ownHolistic"
    BY <1>2, SteadyFacts, RoundsGrow DEF Awaited, RoundsLaunched, At
  <2>2. CASE r.Attempt <= job.HolisticRounds \/ job.HolisticReviewRunID = r.Attempt
    BY <2>1, <2>2, RoundsGrow, SteadyFacts
  <2>3. CASE call.at = "ownHolistic" /\ r.Attempt = job.HolisticRounds + 1
    <3>1. Beside \/ OwnHolistic
      <4>1. Beside \/ Continue
        BY <2>3, StepBusy, SteadyFacts DEF Idle
      <4> QED  BY <2>3, <4>1, SteadyFacts, HandlerAt
    <3>2. CASE Beside
      BY <2>1, <2>3, <3>2, RoundsGrow, SteadyFacts DEF Beside
    <3>3. CASE OwnHolistic
      <4>1. RoundOwned
        BY <3>3 DEF OwnHolistic, RoundOwned
      <4> QED  BY <2>1, <2>3, <4>1, RoundsGrow, SteadyFacts
    <3> QED  BY <3>1, <3>2, <3>3
  <2> QED  BY <2>1, <2>2, <2>3
<1> QED  BY <1>1, <1>2

LEMMA NextOwnersCounted ==
  ASSUME SteadyStep
  PROVE  OwnersCounted'
<1>1. ASSUME NEW k \in DOMAIN tasks'
      PROVE  tasks'[k].WriterRunID <= tasks'[k].WriterAttempts
  <2> DEFINE t == tasks[k]
             u == tasks'[k]
  <2>1. CASE k \notin DOMAIN tasks
    BY <2>1, SteadyFacts DEF TasksChange, Fresh
  <2>2. CASE k \in DOMAIN tasks
    <3>1. Changes(k, t, u) /\ t \in Task /\ t.WriterRunID <= t.WriterAttempts
      BY <2>2, SteadyFacts DEF TasksChange, Awaited, OwnersCounted
    <3>2. t.WriterRunID \in Nat /\ t.WriterAttempts \in Nat
      BY <3>1 DEF Task
    <3> QED  BY <3>1, <3>2 DEF Changes, Rests, Starts, Completes, FindsNothing, GetsReviewer, IsJudged,
             IsBlocked, BeginsIntegration, EndsIntegration, BecomesEligible, IsReleased, LosesReviewer,
             IsReopened, SameCounts, SameOwners
  <2> QED  BY <2>1, <2>2
<1>2. job'.HolisticReviewRunID \in {0, job'.HolisticRounds + 1}
  BY SteadyFacts, RoundsGrow DEF Awaited, OwnersCounted
<1> QED  BY <1>1, <1>2 DEF OwnersCounted

LEMMA NextReviewersCounted ==
  ASSUME CalmStep
  PROVE  ReviewersCounted'
<1> SUFFICES ASSUME NEW k \in DOMAIN tasks'
             PROVE  tasks'[k].ReviewerRunID <= tasks'[k].ReviewerAttempts
  BY DEF ReviewersCounted
<1> DEFINE t == tasks[k]
           u == tasks'[k]
<1>1. CASE k \notin DOMAIN tasks
  BY <1>1, CalmFacts DEF TasksChange, Fresh
<1>2. CASE k \in DOMAIN tasks
  <2>1. Changes(k, t, u) /\ t \in Task /\ t.ReviewerRunID <= t.ReviewerAttempts
    BY <1>2, CalmFacts DEF TasksChange, ReviewsAwaited, ReviewersCounted
  <2>2. t.ReviewerRunID \in Nat /\ t.ReviewerAttempts \in Nat
    BY <2>1 DEF Task
  <2>3. CASE IsJudged(k, t, u)
    <3>1. call.run \in DOMAIN runs /\ t.ReviewerRunID = call.run.Attempt
      BY <2>3, CalmFacts DEF IsJudged, MInv, HandlerKnows, Given, ReviewsAwaited, ReviewerCalls
    <3> QED  BY <2>1, <2>3, <3>1, CalmFacts DEF IsJudged
  <2>4. CASE ~IsJudged(k, t, u)
    BY <2>1, <2>2, <2>4 DEF Changes, Rests, Starts, Completes, FindsNothing, GetsReviewer, IsBlocked,
       BeginsIntegration, EndsIntegration, BecomesEligible, IsReleased, LosesReviewer, IsReopened,
       SameCounts, SameOwners
  <2> QED  BY <2>3, <2>4
<1> QED  BY <1>1, <1>2

(* Only the handler that applies an owner's answer marks it. *)
LEMMA OwnerUnsettled ==
  ASSUME CalmStep, NEW r \in DOMAIN runs, ApplySettled(r)
  PROVE  /\ r.Role = "writer" =>
              ~(/\ r.Key \in DOMAIN tasks /\ tasks[r.Key].Status = "working"
                /\ tasks[r.Key].WriterRunID = r.Attempt)
         /\ r.Role = "reviewer" =>
              /\ ~(r.Key \in DOMAIN tasks /\ tasks[r.Key].ReviewerRunID = r.Attempt)
              /\ ~(r.Key \in Unreviewed /\ r = ReviewerRun(r.Key))
         /\ r.Role = "holistic" => ~(job.HolisticReviewRunID = r.Attempt /\ r = HolisticRun)
<1>1. ~Terminal(job.Status) /\ Settled(r)
  BY DEF CalmStep, ApplySettled
<1>2. r.Role = "writer" => (Owns(r) <=> /\ r.Key \in DOMAIN tasks
                                         /\ tasks[r.Key].WriterRunID = r.Attempt)
  BY DEF Owns
<1>3. r.Role = "reviewer" => (Owns(r) <=> /\ r.Key \in DOMAIN tasks
                                           /\ tasks[r.Key].ReviewerRunID = r.Attempt)
  BY DEF Owns
<1>4. r.Role = "holistic" => (Owns(r) <=> r.Attempt = job.HolisticReviewRunID /\ r = HolisticRun)
  BY DEF Owns
<1>5. r.Role = "reviewer" => (AwaitsOwnership(r) <=> r.Key \in Unreviewed /\ r = ReviewerRun(r.Key))
  BY DEF AwaitsOwnership
<1> QED  BY <1>1, <1>2, <1>3, <1>4, <1>5 DEF Settled

LEMMA OwnerStays ==
  ASSUME CalmStep, NEW r, Unapplied(r),
         ~(At("mark") /\ call.run = r), ~ApplySettled(r)
  PROVE  r \in DOMAIN runs' /\ runs'[r] # "applied"
BY CalmFacts, UnappliedStays DEF Mark, Unapplied

LEMMA NextTasksHeard ==
  ASSUME SteadyStep
  PROVE  TasksHeard'
<1> SUFFICES ASSUME NEW k \in DOMAIN tasks', tasks'[k].Status = "working"
             PROVE  LET r == RunOf("writer", k, tasks'[k].WriterRunID)
                    IN  r \in DOMAIN runs' /\ runs'[r] # "applied"
  BY DEF TasksHeard, Unapplied
<1> DEFINE t == tasks[k]
           u == tasks'[k]
           r == RunOf("writer", k, u.WriterRunID)
<1>0. r.Role = "writer" /\ r.Key = k /\ r.Attempt = u.WriterRunID
  BY DEF RunOf
<1>1. CASE k \notin DOMAIN tasks
  BY <1>1, SteadyFacts DEF TasksChange, Fresh
<1>2. CASE k \in DOMAIN tasks
  <2>1. Changes(k, t, u) /\ TasksHeard /\ OwnsHeard
    BY <1>2, SteadyFacts DEF TasksChange, Awaited
  <2>2. CASE Rests(t, u)
    <3>1. t.Status = "working" /\ t.WriterRunID = u.WriterRunID /\ Unapplied(r)
      BY <1>2, <2>1, <2>2 DEF Rests, SameOwners, TasksHeard
    <3>2. ~(At("mark") /\ call.run = r)
      BY <1>0, <3>1, SteadyFacts DEF Awaited, WriterCalls, At
    <3>3. ~ApplySettled(r)
      BY <1>0, <1>2, <3>1, OwnerUnsettled, SteadyFacts DEF Unapplied
    <3> QED  BY <3>1, <3>2, <3>3, OwnerStays, SteadyFacts
  <2>3. CASE Starts(k, t, u)
    <3>1. Unapplied(r) /\ call.at \in {"ownWriter", "ownReady"}
      BY <2>1, <2>3 DEF Starts, OwnsHeard, WriterRun
    <3>2. ~ApplySettled(r) /\ ~At("mark")
      BY <3>1 DEF ApplySettled, Idle, At
    <3> QED  BY <3>1, <3>2, OwnerStays, SteadyFacts
  <2>4. Rests(t, u) \/ Starts(k, t, u)
    BY <2>1 DEF Changes, Completes, FindsNothing, GetsReviewer, IsJudged, IsBlocked,
       BeginsIntegration, EndsIntegration, BecomesEligible, IsReleased, LosesReviewer, IsReopened
  <2> QED  BY <2>2, <2>3, <2>4
<1> QED  BY <1>1, <1>2

LEMMA NextRoundHeard ==
  ASSUME SteadyStep
  PROVE  RoundHeard'
<1> SUFFICES ASSUME job'.HolisticReviewVerdict = "pending", job'.HolisticReviewRunID > 0
             PROVE  LET r == RunOf("holistic", JobKey, job'.HolisticReviewRunID)
                    IN  r \in DOMAIN runs' /\ runs'[r] # "applied"
  BY DEF RoundHeard, Judge, Unapplied
<1> DEFINE r == RunOf("holistic", JobKey, job'.HolisticReviewRunID)
<1>1. r.Role = "holistic" /\ r.Attempt = job'.HolisticReviewRunID
  BY DEF RunOf
<1>2. CASE /\ job'.HolisticReviewRunID = job.HolisticReviewRunID
           /\ job'.HolisticReviewVerdict = job.HolisticReviewVerdict
  <2>1. Unapplied(r)
    BY <1>2, SteadyFacts DEF Awaited, RoundHeard, Judge
  <2>2. ~(At("mark") /\ call.run = r)
    BY <1>1, <1>2, SteadyFacts DEF Awaited, JudgeCalls
  <2>3. ~ApplySettled(r)
    <3>1. job.HolisticReviewRunID = r.Attempt /\ r = HolisticRun
      BY <1>1, <1>2, SteadyFacts DEF Awaited, OwnersCounted, HolisticRun
    <3> QED  BY <1>1, <2>1, <3>1, OwnerUnsettled, SteadyFacts DEF Unapplied
  <2> QED  BY <2>1, <2>2, <2>3, OwnerStays, SteadyFacts
<1>3. CASE RoundOwned
  <2>1. Unapplied(r) /\ At("ownHolistic")
    BY <1>3, RoundsGrow, SteadyFacts DEF Awaited, OwnsHeard, HolisticRun
  <2>2. ~ApplySettled(r) /\ ~At("mark")
    BY <2>1 DEF ApplySettled, Idle, At
  <2> QED  BY <2>1, <2>2, OwnerStays, SteadyFacts
<1> QED  BY <1>2, <1>3, RoundsGrow, SteadyFacts

(* A task that waits for a reviewer stays so, and its reviewer unheard,     *)
(* until the reviewer is recorded.                                          *)
LEMMA UnreviewedStays ==
  ASSUME CalmStep, Ordered, NEW k \in Unreviewed
  PROVE  k \in Unreviewed' \/ GetsReviewer(k, tasks[k], tasks'[k])
<1> DEFINE t == tasks[k]
           u == tasks'[k]
<1>0. k \in DOMAIN tasks /\ k \in DOMAIN tasks' /\ t.Status = "reviewing" /\ t.ReviewerRunID = 0
  BY CalmFacts DEF Unreviewed, TasksChange
<1>1. Changes(k, t, u) /\ t.ReviewVerdict = "pending" /\ ApprovalBacked(k)
  BY <1>0, CalmFacts DEF TasksChange, ReviewsAwaited, ReviewsOpen, MInv
<1>2. ~IsJudged(k, t, u)
  <2>1. ASSUME IsJudged(k, t, u)  PROVE call.run \in DOMAIN runs /\ call.run.Attempt = 0
    BY <1>0, <2>1, CalmFacts DEF IsJudged, MInv, HandlerKnows, Given, ReviewsAwaited, ReviewerCalls
  <2> QED  BY <2>1, CalmFacts
<1>3. ~IsBlocked(k, t, u)
  <2>1. ~(At("block") /\ call.key = k)
    BY <1>1, CalmFacts DEF CInv, StoppedByVerdict
  <2>2. ~(At("merge") /\ call.key = k)
    BY <1>0, CalmFacts DEF MInv, HandlerKnows, At
  <2>3. ASSUME NEW run \in DOMAIN runs, Applicable(run), run.Role = "writer",
               runs[run] = "failed", run.Key = k
        PROVE  FALSE
    <3>1. run = RunOf("writer", k, t.WriterRunID)
      BY <2>3, WriterOwner, CalmFacts
    <3> QED  BY <1>0, <1>1, <2>3, <3>1 DEF ApprovalBacked, Given
  <2>4. ASSUME NEW run \in DOMAIN runs, Applicable(run), run.Role = "reviewer", run.Key = k
        PROVE  FALSE
    BY <1>0, <2>4, ReviewerOwner, CalmFacts
  <2> QED  BY <1>0, <2>1, <2>2, <2>3, <2>4 DEF IsBlocked
<1>4. ~LosesReviewer(k, t, u)
  BY DEF LosesReviewer, Ordered, At
<1>5. Rests(t, u) \/ GetsReviewer(k, t, u)
  BY <1>0, <1>1, <1>2, <1>3, <1>4 DEF Changes, Starts, Completes, FindsNothing, BeginsIntegration,
     EndsIntegration, BecomesEligible, IsReleased, IsReopened, Incomplete
<1> QED  BY <1>0, <1>5 DEF Rests, SameOwners, Unreviewed

LEMMA NewlyLaunched ==
  ASSUME NEW r, Launch(r), r \notin DOMAIN runs
  PROVE  r \in DOMAIN runs' /\ runs'[r] # "applied"
BY DEF Launch

LEMMA NextReviewersLaunched ==
  ASSUME CalmStep
  PROVE  ReviewersLaunched'
<1> SUFFICES ASSUME NEW r \in DOMAIN runs', r.Role = "reviewer"
             PROVE  /\ r.Key \in DOMAIN tasks'
                    /\ \/ r.Attempt <= tasks'[r.Key].ReviewerAttempts
                       \/ /\ r.Key \in Unreviewed'
                          /\ r.Attempt = tasks'[r.Key].ReviewerAttempts + 1
                          /\ runs'[r] # "applied"
  BY DEF ReviewersLaunched
<1> DEFINE k == r.Key
           t == tasks[k]
           u == tasks'[k]
<1>1. CASE r \notin DOMAIN runs
  <2>1. k \in Unreviewed /\ k \in DOMAIN tasks /\ tasks' = tasks /\ r = ReviewerRun(k)
    BY <1>1, LaunchedKinds
  <2>2. r.Attempt = t.ReviewerAttempts + 1
    BY <2>1 DEF ReviewerRun, RunOf
  <2>3. runs'[r] = "running"
    BY <1>1, RunsGrow, CalmFacts
  <2> QED  BY <2>1, <2>2, <2>3 DEF Unreviewed
<1>2. CASE r \in DOMAIN runs
  <2>1. /\ k \in DOMAIN tasks /\ r.Attempt \in Nat
        /\ \/ r.Attempt <= t.ReviewerAttempts
           \/ /\ k \in Unreviewed /\ r.Attempt = t.ReviewerAttempts + 1
              /\ runs[r] # "applied"
    BY <1>2, CalmFacts DEF ReviewsAwaited, ReviewersLaunched
  <2>2. CASE r.Attempt <= t.ReviewerAttempts
    BY <2>1, <2>2, AttemptsGrow
  <2>3. CASE /\ k \in Unreviewed /\ r.Attempt = t.ReviewerAttempts + 1 /\ runs[r] # "applied"
    <3>1. CASE GetsReviewer(k, t, u)
      BY <2>1, <2>3, <3>1, AttemptsGrow DEF GetsReviewer
    <3>2. CASE ~GetsReviewer(k, t, u) /\ k \in Unreviewed'
      <4>1. r = ReviewerRun(k)
        <5>1. r \in Run
          BY <1>2, CalmFacts DEF EnvTypeOK
        <5> QED  BY <2>3, <5>1 DEF Run, ReviewerRun, RunOf
      <4>2. ~ApplySettled(r)
        BY <1>2, <2>3, <4>1, OwnerUnsettled
      <4>3. ~(At("mark") /\ call.run = r)
        BY <2>1, <2>3, CalmFacts, AttemptsGrow DEF ReviewsAwaited, ReviewerCalls
      <4>4. runs'[r] # "applied"
        BY <1>2, <2>3, <4>2, <4>3, OwnerStays DEF Unapplied
      <4>5. u.ReviewerAttempts = t.ReviewerAttempts
        <5>1. Changes(k, t, u) /\ u.Status = "reviewing" /\ t.Status = "reviewing"
          BY <2>1, <2>3, <3>2, CalmFacts DEF TasksChange, Unreviewed
        <5> QED  BY <3>2, <5>1 DEF Changes, Rests, Starts, Completes, FindsNothing, IsJudged, IsBlocked,
                 BeginsIntegration, EndsIntegration, BecomesEligible, IsReleased, LosesReviewer,
                 IsReopened, SameCounts
      <4> QED  BY <2>1, <2>3, <3>2, <4>4, <4>5, AttemptsGrow
    <3> QED  BY <2>3, <3>1, <3>2, UnreviewedStays DEF CalmStep
  <2> QED  BY <2>1, <2>2, <2>3
<1> QED  BY <1>1, <1>2

LEMMA NextReviewsOpen ==
  ASSUME CalmStep
  PROVE  ReviewsOpen'
<1> SUFFICES ASSUME NEW k \in DOMAIN tasks', tasks'[k].Status = "reviewing"
             PROVE  /\ tasks'[k].ReviewVerdict = "pending"
                    /\ tasks'[k].ReviewerRunID > 0 =>
                         LET r == RunOf("reviewer", k, tasks'[k].ReviewerRunID)
                         IN  r \in DOMAIN runs' /\ runs'[r] # "applied"
  BY DEF ReviewsOpen, Unapplied
<1> DEFINE t == tasks[k]
           u == tasks'[k]
           r == RunOf("reviewer", k, u.ReviewerRunID)
<1>0. r.Role = "reviewer" /\ r.Key = k /\ r.Attempt = u.ReviewerRunID
  BY DEF RunOf
<1>1. k \in DOMAIN tasks
  BY CalmFacts DEF TasksChange, Fresh
<1>2. Changes(k, t, u) /\ ReviewsOpen /\ ReviewerCalls /\ ReviewersLaunched
  BY <1>1, CalmFacts DEF TasksChange, ReviewsAwaited
<1>3. CASE Rests(t, u)
  <2>1. t.Status = "reviewing" /\ u.ReviewerRunID = t.ReviewerRunID /\ u.ReviewVerdict = "pending"
    BY <1>1, <1>2, <1>3 DEF Rests, SameOwners, ReviewsOpen
  <2>2. ASSUME u.ReviewerRunID > 0  PROVE r \in DOMAIN runs' /\ runs'[r] # "applied"
    <3>1. Unapplied(r)
      BY <1>1, <1>2, <2>1, <2>2 DEF ReviewsOpen
    <3>2. ~(At("mark") /\ call.run = r)
      BY <1>0, <1>2, <2>1 DEF ReviewerCalls, At
    <3>3. ~ApplySettled(r)
      BY <1>0, <1>1, <2>1, <3>1, OwnerUnsettled DEF Unapplied
    <3> QED  BY <3>1, <3>2, <3>3, OwnerStays
  <2> QED  BY <2>1, <2>2
<1>4. CASE GetsReviewer(k, t, u)
  <2>1. u.ReviewVerdict = "pending"
    BY <1>1, <1>2, <1>4 DEF GetsReviewer, ReviewsOpen
  <2>2. Unapplied(r)
    <3>1. r = ReviewerRun(k) /\ r \in DOMAIN runs
      BY <1>4 DEF GetsReviewer, CalmStep, AboutToOwn, At, ReviewerRun
    <3>2. r.Attempt = t.ReviewerAttempts + 1 /\ t.ReviewerAttempts \in Nat
      BY <1>0, <1>1, <1>4, AttemptsGrow DEF GetsReviewer
    <3> QED  BY <1>0, <1>2, <3>1, <3>2 DEF ReviewersLaunched, Unapplied
  <2>3. ~ApplySettled(r) /\ ~At("mark")
    BY <1>4 DEF GetsReviewer, ApplySettled, Idle, At
  <2> QED  BY <2>1, <2>2, <2>3, OwnerStays
<1>5. CASE Completes(k, t, u)
  BY <1>1, <1>5, CalmFacts DEF Completes, CInv, UnreviewedWork
<1>6. ~LosesReviewer(k, t, u)
  BY DEF LosesReviewer, CalmStep, Ordered, At
<1> QED  BY <1>2, <1>3, <1>4, <1>5, <1>6 DEF Changes, Starts, FindsNothing, IsJudged, IsBlocked,
         BeginsIntegration, EndsIntegration, BecomesEligible, IsReleased, IsReopened

LEMMA NextOwnsHeard ==
  ASSUME SteadyStep
  PROVE  OwnsHeard'
<1> DEFINE w == RunOf("writer", call'.key, tasks'[call'.key].WriterAttempts + 1)
           h == RunOf("holistic", JobKey, job'.HolisticRounds + 1)
<1> SUFFICES ASSUME call'.at \in {"ownWriter", "ownReady", "ownHolistic"}
             PROVE  /\ call'.at \in {"ownWriter", "ownReady"} => w \in DOMAIN runs' /\ runs'[w] # "applied"
                    /\ call'.at = "ownHolistic" => h \in DOMAIN runs' /\ runs'[h] # "applied"
  BY DEF OwnsHeard, Unapplied, WriterRun, HolisticRun, At
<1>0. OwnsHeard /\ WritersLaunched /\ RoundsLaunched /\ RoundStarts
  BY SteadyFacts DEF Awaited
<1>1. CASE Beside
  <2>1. call' = call /\ tasks' = tasks /\ job'.HolisticRounds = job.HolisticRounds
    BY <1>1, SteadyFacts DEF Beside, StartPlanning, Job
  <2>2. ASSUME NEW r, Unapplied(r)  PROVE r \in DOMAIN runs' /\ runs'[r] # "applied"
    <3>1. ~At("mark") /\ ~ApplySettled(r)
      BY <2>1 DEF At, ApplySettled, Idle
    <3> QED  BY <2>2, <3>1, OwnerStays, SteadyFacts
  <2> QED  BY <1>0, <2>1, <2>2 DEF OwnsHeard, WriterRun, HolisticRun, At
<1>2. ASSUME NEW k \in DOMAIN tasks, LaunchWriter(k), call'.key = k,
             call.at \notin {"ownWriter", "ownReady"}
      PROVE  w \in DOMAIN runs' /\ runs'[w] # "applied"
  <2>1. w = WriterRun(k) /\ Launch(w)
    BY <1>2, LaunchCounts, SteadyFacts DEF LaunchWriter, WriterRun
  <2>2. w \notin DOMAIN runs
    <3>1. w.Role = "writer" /\ w.Key = k /\ w.Attempt = tasks[k].WriterAttempts + 1
      BY <2>1 DEF WriterRun, RunOf
    <3>2. tasks[k].WriterAttempts \in Nat
      BY AttemptsGrow, SteadyFacts
    <3> QED  BY <1>0, <1>2, <3>1, <3>2 DEF WritersLaunched
  <2> QED  BY <2>1, <2>2, NewlyLaunched
<1>3. CASE DispatchWriter /\ Keeping /\ call'.at = "ownWriter"
  <2>1. call.key \in DOMAIN tasks /\ LaunchWriter(call.key) /\ call.at = "writer"
    BY <1>3, SteadyFacts DEF DispatchWriter, At, TaskSteps
  <2> QED  BY <1>2, <1>3, <2>1 DEF Keeping
<1>4. ASSUME NEW k \in DOMAIN tasks, At("ready"), LaunchWriter(k), call'.at = "ownReady", call'.key = k
      PROVE  w \in DOMAIN runs' /\ runs'[w] # "applied"
  BY <1>2, <1>4 DEF At
<1>5. CASE DispatchHolistic /\ call'.at = "ownHolistic"
  <2>1. Launch(HolisticRun) /\ job' = job /\ call.at = "holistic" /\ job.HolisticReviewRunID = 0
    BY <1>0, <1>5 DEF DispatchHolistic, At, pipelineVars, RoundStarts
  <2>2. h = HolisticRun /\ h.Role = "holistic" /\ h.Attempt = job.HolisticRounds + 1
    BY <2>1 DEF HolisticRun, RunOf
  <2>3. h \notin DOMAIN runs
    <3>1. job.HolisticRounds \in Nat
      BY RoundsGrow, SteadyFacts
    <3> QED  BY <1>0, <2>1, <2>2, <3>1 DEF RoundsLaunched, At
  <2> QED  BY <1>5, <2>1, <2>2, <2>3, NewlyLaunched
<1>6. Beside \/ Arrives
  BY StepArrives, SteadyFacts DEF Watched
<1> QED  BY <1>1, <1>3, <1>4, <1>5, <1>6 DEF Arrives

(* What the application of an answer does to its task. *)
LEMMA WriterApplied ==
  ASSUME SteadyStep, NEW r \in DOMAIN runs, ApplyOutcome(r), ~ApplySettled(r), r.Role = "writer"
  PROVE  /\ r.Key \in DOMAIN tasks /\ tasks[r.Key].WriterRunID = r.Attempt
         /\ call'.at = "complete" \/ tasks'[r.Key].Status # "working"
<1>1. Applicable(r)
  BY DEF ApplyOutcome, ApplyFailure, ApplyPlan, ApplyWriterCommit, ApplyWriterNoChanges,
     ApplyWriterBlocked, ApplyWriterHandoff, ApplyReview, ApplyHolistic, Working
<1>2. r.Key \in DOMAIN tasks /\ tasks[r.Key].WriterRunID = r.Attempt
  BY <1>1, WriterOwner, SteadyFacts
<1>3. CASE BlockTask(r.Key)
  BY <1>2, <1>3, SteadyFacts DEF BlockTask, Update
<1>4. CASE RecordNoChanges(r.Key, r.Attempt)
  <2> DEFINE ts == Update(r.Key, [tasks[r.Key] EXCEPT !.Status = "no_changes"])
  <2>1. tasks' = RefreshEligibility(ts)
    BY <1>4 DEF RecordNoChanges
  <2>2. r.Key \in DOMAIN ts /\ ts[r.Key].Status = "no_changes"
    BY <1>2, SteadyFacts DEF Update, Task
  <2> HIDE DEF ts
  <2>3. tasks'[r.Key] = ts[r.Key]
    BY <2>1, <2>2 DEF RefreshEligibility
  <2> QED  BY <1>2, <2>2, <2>3
<1>5. CASE ApplyWriterCommit(r)
  BY <1>2, <1>5 DEF ApplyWriterCommit, Enter
<1>6. CASE ApplyWriterHandoff(r)
  <2>1. tasks' = tasks /\ r.Key \in Unreviewed
    BY <1>6 DEF ApplyWriterHandoff, pipelineVars
  <2> QED  BY <1>2, <2>1 DEF Unreviewed
<1> QED  BY <1>2, <1>3, <1>4, <1>5, <1>6 DEF ApplyOutcome, ApplyFailure, ApplyPlan,
         ApplyWriterNoChanges, ApplyWriterBlocked, ApplyReview, ApplyHolistic

LEMMA NextWriterCalls ==
  ASSUME SteadyStep
  PROVE  WriterCalls'
<1> DEFINE r == call'.run
           k == r.Key
<1> SUFFICES ASSUME r.Role = "writer"
             PROVE  /\ k \in DOMAIN tasks'
                    /\ r.Attempt <= tasks'[k].WriterAttempts
                    /\ \/ call'.at = "complete"
                       \/ tasks'[k].Status # "working"
                       \/ tasks'[k].WriterRunID # r.Attempt
  BY DEF WriterCalls, At
<1>0. WriterCalls /\ OwnersCounted
  BY SteadyFacts DEF Awaited
<1>1. CASE r = call.run /\ (call' = call \/ Continue)
  <2>1. /\ k \in DOMAIN tasks /\ r.Attempt <= tasks[k].WriterAttempts /\ r.Attempt \in Nat
        /\ \/ call.at = "complete"
           \/ tasks[k].Status # "working"
           \/ tasks[k].WriterRunID # r.Attempt
    BY <1>0, <1>1, SteadyFacts, InvFacts DEF WriterCalls, At
  <2>2. k \in DOMAIN tasks' /\ r.Attempt <= tasks'[k].WriterAttempts
    BY <2>1, AttemptsGrow, SteadyFacts
  <2>3. ASSUME call'.at # "complete", tasks'[k].Status = "working", tasks'[k].WriterRunID = r.Attempt
        PROVE  FALSE
    <3> DEFINE t == tasks[k]
               u == tasks'[k]
    <3>1. Changes(k, t, u) /\ t.WriterAttempts \in Nat
      BY <2>1, SteadyFacts, AttemptsGrow DEF TasksChange
    <3>2. ~Starts(k, t, u)
      BY <2>1, <2>3, <3>1 DEF Starts
    <3>3. Rests(t, u)
      BY <2>3, <3>1, <3>2 DEF Changes, Completes, FindsNothing, GetsReviewer, IsJudged, IsBlocked,
         BeginsIntegration, EndsIntegration, BecomesEligible, IsReleased, LosesReviewer, IsReopened
    <3>4. call.at = "complete"
      BY <2>1, <2>3, <3>3 DEF Rests, SameOwners
    <3>5. Complete
      <4>1. Beside \/ Continue
        BY <3>4, StepBusy, SteadyFacts DEF Idle
      <4> QED  BY <2>3, <3>4, <4>1, HandlerAt, SteadyFacts DEF Beside
    <3>6. k = call.key
      BY <1>1, <3>4, SteadyFacts DEF MInv, HandlerKnows, At, RunOf
    <3>7. tasks' = Update(k, [t EXCEPT !.Status = "reviewing", !.ReviewVerdict = "pending"])
      BY <3>5, <3>6 DEF Complete, RecordWriterCompletion
    <3>8. u.Status = "reviewing"
      BY <2>1, <3>7, SteadyFacts DEF Update, Task
    <3> QED  BY <2>3, <3>8
  <2> QED  BY <2>2, <2>3
<1>2. r # NoRun
  BY DEF NoRun, RunOf
<1>3. CASE \E run \in DOMAIN runs : /\ ApplyOutcome(run) /\ ~ApplySettled(run)
                                    /\ call = Idle /\ r = run
  <2>1. /\ k \in DOMAIN tasks /\ tasks[k].WriterRunID = r.Attempt /\ r.Attempt \in Nat
        /\ call'.at = "complete" \/ tasks'[k].Status # "working"
    BY <1>3, WriterApplied, SteadyFacts
  <2>2. tasks[k].WriterRunID <= tasks[k].WriterAttempts
    BY <1>0, <2>1 DEF OwnersCounted
  <2> QED  BY <2>1, <2>2, AttemptsGrow, SteadyFacts
<1> QED  BY <1>1, <1>2, <1>3, StepRun, SteadyFacts

LEMMA ReviewApplied ==
  ASSUME CalmStep, NEW r \in DOMAIN runs, ApplyOutcome(r), ~ApplySettled(r), r.Role = "reviewer"
  PROVE  /\ r.Key \in DOMAIN tasks /\ tasks[r.Key].ReviewerRunID = r.Attempt
         /\ \/ tasks'[r.Key].Status # "reviewing"
            \/ ApplyReview(r) /\ call'.at = "verdict" /\ call'.key = r.Key
<1>1. Applicable(r)
  BY DEF ApplyOutcome, ApplyFailure, ApplyPlan, ApplyWriterCommit, ApplyWriterNoChanges,
     ApplyWriterBlocked, ApplyWriterHandoff, ApplyReview, ApplyHolistic, Working
<1>2. r.Key \in DOMAIN tasks /\ tasks[r.Key].ReviewerRunID = r.Attempt
  BY <1>1, ReviewerOwner, CalmFacts
<1>3. CASE BlockTask(r.Key)
  BY <1>2, <1>3, CalmFacts DEF BlockTask, Update
<1>4. CASE ApplyReview(r)
  BY <1>2, <1>4 DEF ApplyReview, Enter
<1> QED  BY <1>2, <1>3, <1>4 DEF ApplyOutcome, ApplyFailure, ApplyPlan, ApplyWriterCommit,
         ApplyWriterNoChanges, ApplyWriterBlocked, ApplyWriterHandoff, ApplyHolistic, Working

(* Reports are of the reviewer that owns the task. *)
LEMMA ReportOwned ==
  ASSUME CalmStep, NEW r \in DOMAIN runs, ApplyReview(r)
  PROVE  /\ call'.key = r.Key /\ r.Key \in DOMAIN tasks'
         /\ tasks'[r.Key].ReviewerRunID = r.Attempt
<1>1. Applicable(r) /\ r.Role = "reviewer"
  BY DEF ApplyReview
<1>2. r.Key \in DOMAIN tasks /\ tasks[r.Key].ReviewerRunID = r.Attempt
  BY <1>1, ReviewerOwner, CalmFacts
<1> DEFINE t == tasks[r.Key]
<1>3. Adopted(t, r.Attempt) = t
  BY <1>2 DEF Adopted
<1>4. PICK u : tasks' = Update(r.Key, u) /\ u.ReviewerRunID = r.Attempt
  <2>1. t \in Task /\ [t EXCEPT !.Reported = r.Attempt].ReviewerRunID = t.ReviewerRunID
    BY <1>2, CalmFacts DEF Task
  <2>2. PICK u \in {t} \cup {[t EXCEPT !.Reported = r.Attempt, !.Repeats = n] : n \in {0, 1, t.Repeats + 1}} :
          tasks' = Update(r.Key, u)
    BY <1>3 DEF ApplyReview, RecordReviewReport
  <2>3. u.ReviewerRunID = r.Attempt
    BY <1>2, <2>1, <2>2 DEF Task
  <2> QED  BY <2>2, <2>3
<1> QED  BY <1>2, <1>4 DEF Update, ApplyReview, Enter

LEMMA NextVerdictOwned ==
  ASSUME CalmStep, call'.at = "verdict"
  PROVE  tasks'[call'.key].ReviewerRunID = call'.run.Attempt
<1>1. CASE Beside
  BY <1>1, CalmFacts DEF Beside, ReviewsAwaited, ReviewerCalls, At
<1>2. CASE \E run \in DOMAIN runs : ApplyReview(run)
  BY <1>2, ReportOwned DEF ApplyReview, Enter
<1>3. ASSUME ~(\E run \in DOMAIN runs : ApplyReview(run)), ~Beside  PROVE FALSE
  <2>0. call'.at \in Knowing
    BY DEF Knowing
  <2>1. ASSUME Continue  PROVE FALSE
    <3>1. DecideReview \/ BeginIntegration \/ MergeTask
      BY <2>0, <2>1, ContinueAt, CalmFacts
    <3>2. call'.at # "verdict"
      <4>1. ASSUME NEW step, NEW key, NEW then, step # "verdict",
                   Go(step) \/ With(step, key) \/ GoThen(step, then)
            PROVE  call'.at # "verdict"
        BY <4>1, CallAt, CalmFacts
      <4> QED  BY <3>1, <4>1 DEF DecideReview, BeginIntegration, MergeTask
    <3> QED  BY <3>2
  <2>2. ASSUME NEW run \in DOMAIN runs, ApplyWriterCommit(run)  PROVE FALSE
    BY <2>2 DEF ApplyWriterCommit, Enter
  <2>3. ~(\/ \E run \in DOMAIN runs : ApplyOutcome(run)
          \/ (Poll /\ ~ResumePlanner) \/ Operator)
    BY <1>3, <2>0, <2>2, StartsAt, CalmFacts
  <2>4. CASE \/ CreateAndPlan \/ ResumePlanner \/ \E run \in DOMAIN runs : Answer(run)
             \/ ChecksFinish \/ ChecksRerun \/ ForeignPush \/ ForeignMerge \/ UNCHANGED vars
    <3>1. UNCHANGED <<plan, tasks, call>> /\ (job' = job \/ StartPlanning)
      BY <2>4 DEF CreateAndPlan, ResumePlanner, Answer, ChecksFinish, ChecksRerun, ForeignPush,
         ForeignMerge, StartPlanning, vars, envVars, pipelineVars
    <3> QED  BY <1>3, <3>1, CalmFacts DEF Beside
  <2>5. ~(Abandon \/ Restart)
    BY <2>0 DEF Abandon, Restart, Error, Idle, Knowing
  <2> QED  BY <2>1, <2>3, <2>4, <2>5, CalmFacts DEF Next
<1> QED  BY <1>1, <1>2, <1>3

LEMMA NextReviewerCalls ==
  ASSUME CalmStep
  PROVE  ReviewerCalls'
<1> DEFINE r == call'.run
           k == r.Key
<1> SUFFICES ASSUME r.Role = "reviewer"
             PROVE  /\ k \in DOMAIN tasks'
                    /\ r.Attempt <= tasks'[k].ReviewerAttempts
                    /\ \/ call'.at = "verdict"
                       \/ tasks'[k].Status # "reviewing"
                       \/ tasks'[k].ReviewerRunID # r.Attempt
  BY NextVerdictOwned DEF ReviewerCalls, At
<1>0. ReviewerCalls /\ ReviewersCounted
  BY CalmFacts DEF ReviewsAwaited
<1>1. CASE r = call.run /\ (call' = call \/ Continue)
  <2>1. /\ k \in DOMAIN tasks /\ r.Attempt <= tasks[k].ReviewerAttempts /\ r.Attempt \in Nat
        /\ \/ call.at = "verdict"
           \/ tasks[k].Status # "reviewing"
           \/ tasks[k].ReviewerRunID # r.Attempt
    BY <1>0, <1>1, CalmFacts, InvFacts DEF ReviewerCalls, At
  <2>2. k \in DOMAIN tasks' /\ r.Attempt <= tasks'[k].ReviewerAttempts
    BY <2>1, AttemptsGrow
  <2>3. ASSUME call'.at # "verdict", tasks'[k].Status = "reviewing", tasks'[k].ReviewerRunID = r.Attempt
        PROVE  FALSE
    <3> DEFINE t == tasks[k]
               u == tasks'[k]
    <3>1. Changes(k, t, u) /\ t.ReviewerAttempts \in Nat
      BY <2>1, CalmFacts, AttemptsGrow DEF TasksChange
    <3>2. ~GetsReviewer(k, t, u)
      BY <2>1, <2>3, <3>1 DEF GetsReviewer
    <3>3. ~Completes(k, t, u) /\ ~LosesReviewer(k, t, u)
      <4>1. r.Attempt > 0
        BY <1>1, CalmFacts DEF CallKnown, NoRun, RunOf
      <4> QED  BY <2>1, <2>3, <4>1, CalmFacts DEF Completes, LosesReviewer, CInv, UnreviewedWork
    <3>4. Rests(t, u)
      BY <2>3, <3>1, <3>2, <3>3 DEF Changes, Starts, FindsNothing, IsJudged, IsBlocked,
         BeginsIntegration, EndsIntegration, BecomesEligible, IsReleased, IsReopened
    <3>5. call.at = "verdict"
      BY <2>1, <2>3, <3>4 DEF Rests, SameOwners
    <3>6. DecideReview
      BY <1>1, <2>3, <3>5, HandlerAt
    <3>7. k = call.key
      BY <1>1, <3>5, CalmFacts DEF MInv, HandlerKnows, At, RunOf
    <3>8. RecordReview(k, r.Attempt, VerdictOf(call.run)) /\ ~ReviewRecorded(t, r.Attempt, VerdictOf(call.run))
      <4>1. t.Status = "reviewing"
        BY <2>3, <3>4 DEF Rests
      <4> QED  BY <1>1, <3>6, <3>7, <4>1 DEF DecideReview, ReviewRecorded
    <3> DEFINE v == VerdictOf(call.run)
               n == IF t.ReviewerRunID = 0 THEN t.ReviewerAttempts + 1 ELSE t.ReviewerAttempts
               s == CASE v = "changes_requested" -> "changes_requested"
                      [] v = "blocked" -> "blocked"
                      [] v = "approved" /\ PrerequisitesMet(tasks, k) -> "integration_eligible"
                      [] OTHER -> "approved"
               d == [t EXCEPT !.ReviewerAttempts = n, !.ReviewerRunID = r.Attempt,
                              !.ReviewVerdict = v, !.Status = s]
    <3>9. tasks' = Update(k, d) /\ s # "reviewing"
      <4>1. Adopted(t, r.Attempt) = t
        BY <2>3, <3>4 DEF Adopted, Rests, SameOwners
      <4> QED  BY <3>8, <4>1 DEF RecordReview
    <3> HIDE DEF s, n, v
    <3>10. u.Status = s
      BY <2>1, <3>9, CalmFacts DEF Update, Task
    <3> QED  BY <2>3, <3>9, <3>10
  <2> QED  BY <2>2, <2>3
<1>2. r # NoRun
  BY DEF NoRun, RunOf
<1>3. CASE \E run \in DOMAIN runs : /\ ApplyOutcome(run) /\ ~ApplySettled(run)
                                    /\ call = Idle /\ r = run
  <2>1. /\ k \in DOMAIN tasks /\ tasks[k].ReviewerRunID = r.Attempt /\ r.Attempt \in Nat
        /\ call'.at = "verdict" \/ tasks'[k].Status # "reviewing"
    BY <1>3, ReviewApplied, CalmFacts
  <2>2. tasks[k].ReviewerRunID <= tasks[k].ReviewerAttempts
    BY <1>0, <2>1 DEF ReviewersCounted
  <2> QED  BY <2>1, <2>2, AttemptsGrow
<1> QED  BY <1>1, <1>2, <1>3, StepRun, CalmFacts

(* Who goes to a task's reviewer: the handler that completes a writer, one  *)
(* that repeats its answer, and the reconciliation of the tasks.            *)
LEMMA StepReviewer ==
  ASSUME IInv, [Next]_vars, call'.at = "reviewer"
  PROVE  \/ Beside \/ Complete \/ ReleaseReviewer
         \/ NextReviewer /\ \E k \in FirstTask(Unreviewed) : With("reviewer", k)
         \/ \E run \in DOMAIN runs : ApplyWriterHandoff(run)
<1>0. call \in Call
  BY InvFacts
<1>1. ASSUME NEW step, step # "reviewer", NEW key, NEW run, NEW then
      PROVE  ~Go(step) /\ ~GoThen(step, then) /\ ~With(step, key) /\ ~Enter(step, key, run, then)
  BY <1>0, <1>1, CallAt
<1>2. ~Return /\ ~Error
  <2>1. Return \/ Error => call'.at \in {"idle", "mark"}
    BY <1>0, CallAt
  <2> QED  BY <2>1
<1>3. CASE call' = call /\ Continue
  <2>1. call.at = "reviewer"
    BY <1>3
  <2>2. DispatchReviewer
    BY <1>3, <2>1 DEF Continue, HandlerStep, Mark, Complete, DispatchReviewer, OwnReviewer, DecideReview,
      StopTask, DispatchWriter, OwnWriter, DispatchReady, OwnReady, NoneReady, BeginIntegration,
      IntegrationRefused, NoneIntegrable, MergeTask, MergeConflict, Integrated, PushBranch, CreatePR,
      SavePullRequest, BeginCI, DraftRefused, Publish, Promote, PassGate, GateRefused, AlreadyMerged,
      MergePR, SaveMerge, DispatchHolistic, OwnHolistic, NewHolisticRound, Reopen, StopJob, RepairCI,
      EscalateCI, DispatchPlanner, NextReviewer, ReleaseWriter, ReleaseReviewer, RenewPlanning,
      CancelRuns, At
  <2> QED  BY <1>1, <2>2 DEF DispatchReviewer
<1>4. CASE Continue /\ call' # call
  <2>1. ~(\/ Mark \/ CancelRuns \/ DispatchReviewer \/ OwnReviewer \/ DecideReview
          \/ StopTask \/ DispatchWriter \/ OwnWriter \/ DispatchReady \/ OwnReady \/ NoneReady)
    BY <1>1, <1>2, <1>4 DEF Mark, CancelRuns, DispatchReviewer, OwnReviewer, DecideReview, StopTask,
       DispatchWriter, OwnWriter, DispatchReady, OwnReady, NoneReady
  <2>2. ~(\/ BeginIntegration \/ IntegrationRefused \/ NoneIntegrable
          \/ MergeTask \/ MergeConflict \/ Integrated
          \/ PushBranch \/ CreatePR \/ SavePullRequest \/ BeginCI \/ DraftRefused)
    BY <1>1, <1>2, <1>4 DEF BeginIntegration, IntegrationRefused, NoneIntegrable, MergeTask, MergeConflict,
       Integrated, PushBranch, CreatePR, SavePullRequest, BeginCI, DraftRefused
  <2>3. ~(\/ Publish \/ Promote \/ PassGate \/ GateRefused \/ AlreadyMerged \/ MergePR
          \/ SaveMerge \/ DispatchHolistic \/ OwnHolistic \/ NewHolisticRound \/ Reopen \/ StopJob)
    BY <1>1, <1>2, <1>4 DEF Publish, Promote, PassGate, GateRefused, AlreadyMerged, MergePR, SaveMerge,
       DispatchHolistic, OwnHolistic, NewHolisticRound, Reopen, StopJob
  <2>4. ~(\/ RepairCI \/ EscalateCI \/ DispatchPlanner \/ ReleaseWriter \/ RenewPlanning)
    BY <1>1, <1>2, <1>4 DEF RepairCI, EscalateCI, DispatchPlanner, ReleaseWriter, RenewPlanning
  <2>5. NextReviewer => \E k \in FirstTask(Unreviewed) : With("reviewer", k)
    BY <1>1 DEF NextReviewer
  <2> QED  BY <1>4, <2>1, <2>2, <2>3, <2>4, <2>5 DEF Continue, HandlerStep
<1>5. CASE \E run \in DOMAIN runs : ApplyOutcome(run) /\ ~ApplySettled(run)
  BY <1>1, <1>5 DEF ApplyOutcome, ApplyFailure, ApplyPlan, ApplyWriterCommit,
     ApplyWriterNoChanges, ApplyWriterBlocked, ApplyWriterHandoff, ApplyReview, ApplyHolistic
<1>6. CASE (Poll /\ ~ResumePlanner) \/ Operator \/ \E run \in DOMAIN runs : ApplySettled(run)
  <2>1. call = Idle => call.at # "reviewer"
    BY DEF Idle
  <2>2. ~(Poll /\ ~ResumePlanner)
    BY <1>1, <2>1 DEF Poll, ReconcileTasks, ReconcileReplan, ReconcileHolistic, ReconcileCancelled,
       ObservePublication, ObserveStrandedRound, ObserveForeignHead, ObserveChecks
  <2>3. ~Operator
    BY <1>1, <2>1 DEF Operator, RetryCodeTask, RetryCodePlanning, ResetHolisticReview, StartRereview,
       PublishApproved, PauseJob, ResumeJob, CancelCodeJob, Operate
  <2>4. \A run : ~ApplySettled(run)
    BY <2>1 DEF ApplySettled
  <2> QED  BY <1>6, <2>2, <2>3, <2>4
<1>7. CASE \/ CreateAndPlan \/ ResumePlanner \/ \E run \in DOMAIN runs : Answer(run)
           \/ ChecksFinish \/ ChecksRerun \/ ForeignPush \/ ForeignMerge \/ UNCHANGED vars
  <2>1. UNCHANGED <<plan, tasks, call>> /\ (job' = job \/ StartPlanning)
    BY <1>7 DEF CreateAndPlan, ResumePlanner, Answer, ChecksFinish, ChecksRerun, ForeignPush,
       ForeignMerge, StartPlanning, vars, envVars, pipelineVars
  <2> QED  BY <2>1, RunsGrow DEF Beside
<1>8. ~(Abandon \/ Restart)
  BY <1>2 DEF Abandon, Restart, Error
<1> QED  BY <1>3, <1>4, <1>5, <1>6, <1>7, <1>8 DEF Next

LEMMA NextReviewerSteps ==
  ASSUME CalmStep
  PROVE  ReviewerSteps'
<1> SUFFICES ASSUME call'.at \in {"reviewer", "ownReviewer"}
             PROVE  /\ call'.key \in DOMAIN tasks'
                    /\ tasks'[call'.key].Status = "reviewing"
                    /\ tasks'[call'.key].ReviewerRunID = 0
  BY DEF ReviewerSteps, Unreviewed
<1>0. ReviewerSteps /\ IInv /\ [Next]_vars /\ call \in Call
  BY CalmFacts DEF ReviewsAwaited
<1>1. CASE Beside
  BY <1>0, <1>1 DEF Beside, ReviewerSteps, Unreviewed
<1>2. CASE DispatchReviewer /\ Keeping
  BY <1>0, <1>2 DEF DispatchReviewer, Keeping, At, ReviewerSteps, Unreviewed, pipelineVars
<1>3. CASE Complete
  <2>1. /\ call'.key = call.key /\ call.key \in DOMAIN tasks /\ tasks[call.key] \in Task
        /\ tasks[call.key].Status = "working"
        /\ tasks' = Update(call.key, [tasks[call.key] EXCEPT !.Status = "reviewing",
                                                            !.ReviewVerdict = "pending"])
    BY <1>0, <1>3, CallAt, CalmFacts DEF Complete, RecordWriterCompletion, At, TaskSteps
  <2>2. tasks[call.key].ReviewerRunID = 0
    BY <2>1, CalmFacts DEF CInv, UnreviewedWork
  <2> QED  BY <2>1, <2>2 DEF Update, Task
<1>4. CASE NextReviewer /\ \E k \in FirstTask(Unreviewed) : With("reviewer", k)
  <2>1. PICK k \in FirstTask(Unreviewed) : With("reviewer", k)
    BY <1>4
  <2>2. k \in Unreviewed /\ call'.key = k /\ tasks' = tasks
    BY <1>0, <1>4, <2>1, CallAt DEF FirstTask, NextReviewer, pipelineVars
  <2> QED  BY <2>2 DEF Unreviewed
<1>5. CASE \E run \in DOMAIN runs : ApplyWriterHandoff(run)
  BY <1>5 DEF ApplyWriterHandoff, Enter, Unreviewed, pipelineVars
<1>6. ~ReleaseReviewer
  BY DEF ReleaseReviewer, CalmStep, Ordered, At
<1>7. CASE call'.at = "ownReviewer"
  BY <1>0, <1>1, <1>2, <1>7, StepArrives DEF Arrives, Watched
<1> QED  BY <1>0, <1>1, <1>3, <1>4, <1>5, <1>6, <1>7, StepReviewer

LEMMA NextJudgeCalls ==
  ASSUME SteadyStep
  PROVE  JudgeCalls'
<1> DEFINE r == call'.run
<1> SUFFICES ASSUME r.Role = "holistic"
             PROVE  /\ r.Attempt <= job'.HolisticRounds + 1
                    /\ \/ job'.HolisticReviewVerdict # "pending"
                       \/ job'.HolisticReviewRunID # r.Attempt
  BY DEF JudgeCalls
<1>0. JudgeCalls /\ OwnersCounted /\ RoundStarts
  BY SteadyFacts DEF Awaited
<1>1. r # NoRun
  BY DEF NoRun, RunOf
<1>2. CASE r = call.run
  <2>1. /\ r.Attempt <= job.HolisticRounds + 1 /\ r.Attempt \in Nat /\ r.Attempt > 0
        /\ job.HolisticReviewVerdict # "pending" \/ job.HolisticReviewRunID # r.Attempt
    BY <1>0, <1>1, <1>2, SteadyFacts DEF JudgeCalls, CallKnown
  <2>2. ~RoundOwned
    BY <1>0, <1>1, <1>2, RoundsGrow, SteadyFacts DEF RoundStarts, At
  <2> QED  BY <2>1, <2>2, RoundsGrow, SteadyFacts
<1>3. CASE \E run \in DOMAIN runs : /\ ApplyOutcome(run) /\ ~ApplySettled(run)
                                    /\ call = Idle /\ r = run
  <2>1. r \in DOMAIN runs /\ ApplyOutcome(r) /\ ~ApplySettled(r)
    BY <1>3
  <2>2. ApplyHolistic(r)
    <3>1. ~FailJob
      BY SteadyFacts DEF FailJob, CalmStep, Terminal, Job
    <3> QED  BY <2>1, <3>1 DEF ApplyOutcome, ApplyFailure, ApplyPlan, ApplyWriterCommit,
             ApplyWriterNoChanges, ApplyWriterBlocked, ApplyWriterHandoff, ApplyReview, Applicable, Working
  <2>3. RoundJudged /\ Owns(r)
    BY <2>1, <2>2 DEF ApplyHolistic, RoundJudged, Applicable, Enter
  <2>4. r.Attempt = job.HolisticReviewRunID
    BY <2>3 DEF Owns
  <2> QED  BY <1>0, <2>3, <2>4, RoundsGrow, SteadyFacts DEF OwnersCounted
<1> QED  BY <1>1, <1>2, <1>3, StepRun, SteadyFacts

LEMMA NextRoundStarts ==
  ASSUME SteadyStep
  PROVE  RoundStarts'
<1> SUFFICES ASSUME call'.at \in {"resetRound", "holistic", "ownHolistic"}
             PROVE  /\ call'.run = NoRun
                    /\ \/ call'.at = "resetRound"
                       \/ job'.HolisticReviewRunID = 0 /\ job'.HolisticReviewVerdict = "pending"
  BY DEF RoundStarts, At
<1>0. RoundStarts /\ call \in Call
  BY SteadyFacts DEF Awaited
<1>1. CASE Beside
  <2>1. /\ call' = call /\ job'.HolisticReviewRunID = job.HolisticReviewRunID
        /\ job'.HolisticReviewVerdict = job.HolisticReviewVerdict
    BY <1>1, SteadyFacts DEF Beside, StartPlanning, Job
  <2> QED  BY <1>0, <2>1 DEF RoundStarts, At
<1>2. CASE call'.at = "ownHolistic" /\ ~Beside
  <2>1. DispatchHolistic
    BY <1>2, StepArrives, SteadyFacts DEF Arrives, Watched
  <2>2. call.at = "holistic" /\ call'.run = call.run /\ job' = job
    BY <1>0, <2>1, CallAt DEF DispatchHolistic, At, pipelineVars
  <2> QED  BY <1>0, <2>2 DEF RoundStarts, At
<1>3. CASE call'.at \in {"resetRound", "holistic"} /\ ~Beside
  <2>1. Comes
    BY <1>3, StepComes, SteadyFacts DEF Gated
  <2>2. \/ ReconcileHolistic /\ call'.at = "holistic" /\ CIPassedForHead
        \/ NewHolisticRound
        \/ ObserveStrandedRound
        \/ ObserveChecks /\ call'.at = "resetRound"
    BY <1>3, <2>1, SteadyFacts DEF Comes
  <2>3. CASE ReconcileHolistic /\ call'.at = "holistic" /\ CIPassedForHead
    BY <2>3 DEF ReconcileHolistic, Enter, pipelineVars
  <2>4. CASE NewHolisticRound
    <3>1. call.at = "resetRound" /\ call'.run = call.run
      BY <1>0, <2>4, CallAt DEF NewHolisticRound, At
    <3>2. job'.HolisticReviewRunID = 0 /\ job'.HolisticReviewVerdict = "pending"
      BY <2>4, SteadyFacts DEF NewHolisticRound, ResetHolisticRound, Job
    <3> QED  BY <1>0, <3>1, <3>2 DEF RoundStarts, At
  <2>5. CASE ObserveStrandedRound
    BY <2>5 DEF ObserveStrandedRound, Enter, pipelineVars
  <2>6. CASE ObserveChecks /\ call'.at = "resetRound"
    <3>1. call = Idle => call.at # "resetRound"
      BY DEF Idle
    <3> QED  BY <2>6, <3>1 DEF ObserveChecks, Enter
  <2> QED  BY <2>2, <2>3, <2>4, <2>5, <2>6
<1> QED  BY <1>1, <1>2, <1>3

LEMMA NextAwaited ==
  ASSUME SteadyStep
  PROVE  Awaited'
BY NextWritersLaunched, NextRoundsLaunched, NextOwnersCounted, NextTasksHeard, NextRoundHeard,
   NextOwnsHeard, NextWriterCalls, NextJudgeCalls, NextRoundStarts DEF Awaited

LEMMA NextReviewsAwaited ==
  ASSUME CalmStep
  PROVE  ReviewsAwaited'
BY NextReviewersLaunched, NextReviewersCounted, NextReviewsOpen, NextReviewerSteps, NextReviewerCalls
   DEF ReviewsAwaited

LEMMA NextNoWork ==
  ASSUME IInv, MInv, CInv, BInv, HInv, [Next]_vars, Untouched'
  PROVE  /\ NoWork'
         /\ job.Status = "no_changes" => job'.Status \in {"no_changes", "failed"}
<1>1. Untouched /\ left'.operator = left.operator
  BY UntouchedBefore DEF HInv
<1>2. NoWork /\ ReopensReviewed /\ job.Status # "paused"
  BY <1>1 DEF HInv, BInv, RevisionsCounted
<1>3. CASE job.Status = "no_changes"
  BY <1>1, <1>2, <1>3, NoWorkStays
<1>4. CASE job.Status # "no_changes"
  BY <1>2, <1>4, NoWorkComes DEF NoWork
<1> QED  BY <1>3, <1>4

(* A step to a job that has not ended is one of a job that had not. *)
LEMMA CalmComes ==
  ASSUME IInv, PlanInv, MInv, CInv, WInv, OInv, BInv, HInv, [Next]_vars,
         Untouched', ~Terminal(job'.Status)
  PROVE  CalmStep
<1>1. Untouched /\ left'.operator = left.operator
  BY UntouchedBefore DEF HInv
<1>2. job.Status # "paused" /\ job.Status # "no_changes"
  BY <1>1, NextNoWork DEF BInv, RevisionsCounted, Terminal
<1>3. Live(job.Status)
  <2>1. ASSUME ~Live(job.Status)  PROVE FALSE
    <3>1. job'.Status = job.Status
      BY <1>2, <2>1, NotLiveStep DEF pipelineVars, Reload
    <3> QED  BY <1>2, <2>1, <3>1 DEF Live, Ended, Terminal
  <2> QED  BY <2>1
<1>4. ~Terminal(job.Status)
  BY <1>2, <1>3 DEF Live, Ended, Terminal
<1> QED  BY <1>1, <1>3, <1>4 DEF CalmStep, HInv, WInv, OInv

LEMMA SteadyComes ==
  ASSUME IInv, PlanInv, MInv, CInv, WInv, OInv, BInv, HInv, [Next]_vars,
         Steady', ~Terminal(job'.Status)
  PROVE  SteadyStep
<1>1. Steady /\ ~Abandon /\ ~Restart
  BY SteadyBefore DEF HInv
<1>2. CalmStep
  BY CalmComes DEF Steady
<1> QED  BY <1>1, <1>2 DEF SteadyStep, CalmStep, HInv

LEMMA NextHInv ==
  IInv /\ PlanInv /\ MInv /\ CInv /\ WInv /\ OInv /\ BInv /\ HInv /\ [Next]_vars => HInv'
<1> SUFFICES ASSUME IInv, PlanInv, MInv, CInv, WInv, OInv, BInv, HInv, [Next]_vars  PROVE HInv'
  OBVIOUS
<1>1. NothingGained' /\ FaultsKept' /\ CallKnown' /\ CancelEnded'
  BY UntouchedBefore, SteadyBefore, NextCallKnown, NextCancelEnded DEF HInv
<1>2. Untouched' => NoWork'
  BY NextNoWork
<1>3. Untouched' /\ ~Terminal(job'.Status) => ReviewsAwaited'
  BY CalmComes, NextReviewsAwaited
<1>4. Steady' /\ ~Terminal(job'.Status) => Awaited'
  BY SteadyComes, NextAwaited
<1> QED  BY <1>1, <1>2, <1>3, <1>4 DEF HInv

LEMMA InitHInv == Init => HInv
<1> SUFFICES ASSUME Init  PROVE HInv
  OBVIOUS
<1>1. tasks = <<>> /\ runs = <<>> /\ call = Idle /\ left = Budget
  BY DEF Init, PipelineInit
<1>2. DOMAIN tasks = {} /\ DOMAIN runs = {} /\ call.at = "idle" /\ call.run = NoRun
  BY <1>1 DEF Idle
<1>3. call.run.Role = "none"
  BY <1>2 DEF NoRun, RunOf
<1>4. /\ job.Status = "created" /\ job.HolisticReviewRunID = 0 /\ job.HolisticRounds = 0
  BY InitialJob
<1>5. NothingGained /\ FaultsKept
  BY <1>1, OrchestrationAssumption DEF NothingGained, FaultsKept
<1>6. CallKnown /\ CancelEnded /\ NoWork
  BY <1>2, <1>4 DEF CallKnown, CancelEnded, NoWork, At
<1>7. ReviewersLaunched /\ ReviewersCounted /\ ReviewsOpen /\ ReviewerSteps /\ ReviewerCalls
  BY <1>2, <1>3 DEF ReviewersLaunched, ReviewersCounted, ReviewsOpen, ReviewerSteps, ReviewerCalls, At
<1>8. /\ WritersLaunched /\ RoundsLaunched /\ OwnersCounted /\ TasksHeard /\ RoundHeard /\ OwnsHeard
      /\ WriterCalls /\ JudgeCalls /\ RoundStarts
  BY <1>2, <1>3, <1>4 DEF WritersLaunched, RoundsLaunched, OwnersCounted, TasksHeard, RoundHeard,
     OwnsHeard, WriterCalls, JudgeCalls, RoundStarts, At
<1> QED  BY <1>5, <1>6, <1>7, <1>8 DEF HInv, ReviewsAwaited, Awaited

LEMMA OwnerInvariance ==
  Spec => [](IInv /\ PlanInv /\ MInv /\ CInv /\ WInv /\ OInv /\ BInv /\ HInv)
BY InitPlanInv, NextPlanInv, InitMInv, NextMInv, InitCInv, NextCInv, InitWInv, NextWInv, InitOInv, NextOInv,
   InitBInv, NextBInv, InitHInv, NextHInv, Invariance, PTL DEF Spec

(* Whatever fails, as long as no operator intervenes: a review under way    *)
(* has a reviewer that was dispatched and whose answer is still to be       *)
(* applied.  Only the handler that records the verdict of a task's reviewer *)
(* marks its answer, and a reviewer that a failure left unrecorded is       *)
(* neither settled as nobody's nor forgotten: its dispatch is repeated      *)
(* under the same attempt until it owns the task (outcome.go 19-55, 205-223,*)
(* 263-325 and 447-459, reconcile.go 46-57).                                *)
THEOREM ReviewersAwaited == Spec => [](Untouched => OwnersDispatched /\ ReviewsPending)
<1>1. WInv /\ HInv => (Untouched => OwnersDispatched /\ ReviewsPending)
  BY DEF WInv, HInv, ReviewsAwaited, ReviewsOpen, Unapplied, ReviewsPending
<1> QED  BY <1>1, OwnerInvariance, PTL

(* As long as nothing fails either, so does a holistic round: whoever a job *)
(* waits for exists and is still to be heard, also when the dispatcher      *)
(* delivers an answer early, late or between two steps of another handler   *)
(* (outcome.go 19-55 and 205-223, reconcile.go 46-76).  What an operator    *)
(* supersedes is given up on purpose.                                       *)
THEOREM OwnersAwaited == Spec => [](Steady => OwnersPending)
<1>1. IInv /\ WInv /\ HInv => (Steady => OwnersPending)
  <2> SUFFICES ASSUME IInv, WInv, HInv, Steady  PROVE OwnersPending
    OBVIOUS
  <2>1. OwnersDispatched
    BY DEF WInv
  <2>2. ReviewsPending
    BY DEF HInv, Steady, ReviewsAwaited, ReviewsOpen, Unapplied, ReviewsPending
  <2>3. RoundPending
    BY DEF HInv, Awaited, RoundHeard, Unapplied, RoundPending, Judge
  <2> QED  BY <2>1, <2>2, <2>3 DEF OwnersPending
<1> QED  BY <1>1, OwnerInvariance, PTL

(* The same of the writer of a task that is being worked on (outcome.go     *)
(* 19-55, 116-181, dispatcher.go 460-508).                                  *)
THEOREM WritersAwaited == Spec => [](Steady => WriterOwnerPending)
<1>1. HInv => (Steady => WriterOwnerPending)
  BY DEF HInv, Awaited, TasksHeard, Unapplied, WriterOwnerPending
<1> QED  BY <1>1, OwnerInvariance, PTL

-----------------------------------------------------------------------------
(* The rounds of holistic review end.  A round begins only when CI passes,  *)
(* and the last one allowed ends with an approval or with the job: nobody   *)
(* takes a job in its last round back to CI.  Only the handler of a task's  *)
(* reviewer could, by integrating, and it has its answer marked before.     *)

Uneventful == Undisturbed /\ left.faults = Budget.faults

(* A round under review: its handlers lead to the reviewer's launch, to the *)
(* end of the job, or nowhere.                                              *)
UnderReview == /\ job.Status = "holistic_reviewing" /\ CIPassedForHead
               /\ \/ call.at \in {"idle", "mark", "holistic", "ownHolistic", "fail"}
                  \/ At("ready") /\ call.then = "return"
RoundsLimited ==
  \/ job.HolisticRounds <= MaxHolisticRemediationRounds
  \/ /\ job.HolisticRounds = MaxHolisticRemediationRounds + 1
     /\ job.Status = "ready_to_publish" \/ UnderReview
RoundToSpare ==
  call.at \in {"resetRound", "reopen"} => job.HolisticRounds <= MaxHolisticRemediationRounds

(* The approval of a task is applied, or being applied. *)
ApprovalsMarked ==
  \A k \in DOMAIN tasks : tasks[k].Status \in Reviewed =>
    LET r == RunOf("reviewer", k, tasks[k].ReviewerRunID)
    IN  r = call.run \/ (r \in DOMAIN runs /\ runs[r] = "applied")

(* The way of a handler that applies a reviewer's answer. *)
ReviewerPlaces == {"verdict", "writer", "ownWriter", "block", "mark", "integrate", "merge", "integrated",
                   "ready", "ownReady", "draft", "createPR", "recordPR", "draftCheck"}
ReviewerPath ==
  call.run.Role = "reviewer" =>
    /\ call.at \in ReviewerPlaces
    /\ call.at \in {"createPR", "recordPR"} => call.then = "draft"

(* A handler on its way to CI pushed the integrated head, to a pull request *)
(* that is a draft until the job is ready.                                  *)
Drafting == \/ call.at \in {"draft", "draftCheck"}
            \/ call.at \in {"createPR", "recordPR"} /\ call.then = "draft"
DraftSteps ==
  /\ Drafting => job.Status = "holistic_reviewing" /\ call.then = "draft"
  /\ Drafting /\ ~At("draft") => pr.head = repo.head
  /\ At("recordPR") => pr.exists
  /\ At("publish") => call.then # "draft"
PullKnown == /\ ~pr.foreign
             /\ job.PullRequest => pr.exists
             /\ job.Status # "ready_to_publish" => ~pr.merged /\ (pr.exists => pr.draft)

RoundsEnd == RoundsLimited /\ RoundToSpare /\ ApprovalsMarked /\ ReviewerPath /\ DraftSteps /\ PullKnown
LInv == /\ Uneventful => RoundsBounded
        /\ Uneventful /\ ~Terminal(job.Status) => RoundsEnd

(* A step of a job that nothing has happened to. *)
PlainStep == /\ SteadyStep /\ RInv /\ GateKnows /\ ReopensReviewed /\ OwnersDispatched
             /\ RoundsEnd /\ Alone

LEMMA PlainFacts ==
  ASSUME PlainStep
  PROVE  /\ SteadyStep /\ CalmStep /\ Awaited /\ ~Abandon /\ ~Restart
         /\ IInv /\ PlanInv /\ MInv /\ CInv /\ CallKnown /\ ReviewsAwaited /\ [Next]_vars
         /\ left'.operator = left.operator /\ Alone /\ Ordered
         /\ TasksChange /\ RoundStep /\ DOMAIN runs \subseteq DOMAIN runs'
         /\ job \in Job /\ tasks \in [DOMAIN tasks -> Task] /\ call \in Call /\ EnvTypeOK
         /\ pr \in PullRequest /\ repo \in Repo
         /\ ~CancelRuns /\ Live(job.Status) /\ ~Terminal(job.Status) /\ ~Terminal(job'.Status)
         /\ GatesKnow /\ GateKnows /\ HeadKnown /\ RoundPlaces /\ ReopensReviewed /\ OwnersDispatched
         /\ RoundsLimited /\ RoundToSpare /\ ApprovalsMarked /\ ReviewerPath /\ DraftSteps /\ PullKnown
<1>1. SteadyStep /\ CalmStep /\ Live(job.Status) /\ ~Terminal(job.Status) /\ ~Terminal(job'.Status) /\ Ordered
  BY DEF PlainStep, SteadyStep, CalmStep
<1>2. GatesKnow /\ HeadKnown /\ RoundPlaces
  BY DEF PlainStep, RInv, GateKnows
<1>3. pr \in PullRequest /\ repo \in Repo
  BY <1>1, SteadyFacts DEF EnvTypeOK
<1> QED  BY <1>1, <1>2, <1>3, SteadyFacts DEF PlainStep, RoundsEnd

(* The handler at each place of a reviewer's way, and of a round. *)
LEMMA HandlersAt ==
  ASSUME Continue
  PROVE  /\ call.at # "idle"
         /\ call.at = "mark" => Mark
         /\ call.at = "verdict" => DecideReview
         /\ call.at = "block" => StopTask
         /\ call.at = "writer" => DispatchWriter
         /\ call.at = "ownWriter" => OwnWriter
         /\ call.at = "ready" => DispatchReady \/ NoneReady
         /\ call.at = "ownReady" => OwnReady
         /\ call.at = "integrate" => BeginIntegration \/ IntegrationRefused \/ NoneIntegrable
         /\ call.at = "merge" => MergeTask \/ MergeConflict
         /\ call.at = "integrated" => Integrated
         /\ call.at = "draft" => PushBranch \/ DraftRefused
         /\ call.at = "createPR" => CreatePR
         /\ call.at = "recordPR" => SavePullRequest
         /\ call.at = "draftCheck" => BeginCI \/ DraftRefused
         /\ call.at = "resetRound" => NewHolisticRound
         /\ call.at = "reopen" => Reopen
         /\ call.at = "holistic" => DispatchHolistic
         /\ call.at = "ownHolistic" => OwnHolistic
         /\ call.at = "fail" => StopJob
BY DEF Continue, HandlerStep, Mark, Complete, DispatchReviewer, OwnReviewer, DecideReview,
      StopTask, DispatchWriter, OwnWriter, DispatchReady, OwnReady, NoneReady, BeginIntegration,
      IntegrationRefused, NoneIntegrable, MergeTask, MergeConflict, Integrated, PushBranch, CreatePR,
      SavePullRequest, BeginCI, DraftRefused, Publish, Promote, PassGate, GateRefused, AlreadyMerged,
      MergePR, SaveMerge, DispatchHolistic, OwnHolistic, NewHolisticRound, Reopen, StopJob, RepairCI,
      EscalateCI, DispatchPlanner, NextReviewer, ReleaseWriter, ReleaseReviewer, RenewPlanning,
      CancelRuns, At

(* Nothing keeps a handler that pushed the integrated head from CI. *)
LEMMA WholeHead ==
  ASSUME CInv, MInv, HeadKnown, job.Status = "holistic_reviewing"
  PROVE  repo.head = job.IntegrationSHA
<1>1. IntegratedWhole
  BY DEF CInv, WholeInv, PastIntegration
<1>2. HasIntegrated(tasks) /\ \A k \in repo.merged : tasks[k].Status # "integrating"
  BY <1>1 DEF IntegratedWhole, HasIntegrated, Done, MInv, MergedWereApproved
<1> QED  BY <1>2 DEF HeadKnown

LEMMA DraftAccepted ==
  ASSUME PlainStep
  PROVE  ~DraftRefused
<1>1. ~pr.foreign
  BY PlainFacts DEF PullKnown
<1>2. At("draftCheck") => DraftUsable
  <2> SUFFICES ASSUME At("draftCheck")  PROVE DraftUsable
    OBVIOUS
  <2>1. job.Status = "holistic_reviewing" /\ pr.head = repo.head
    BY PlainFacts DEF DraftSteps, Drafting, At
  <2>2. pr.exists
    BY PlainFacts DEF GatesKnow, PullKnown
  <2>3. pr.draft /\ ~pr.merged
    BY <2>1, <2>2, PlainFacts DEF PullKnown
  <2>4. repo.head = job.IntegrationSHA
    BY <2>1, WholeHead, PlainFacts
  <2> QED  BY <2>1, <2>3, <2>4 DEF DraftUsable
<1> QED  BY <1>1, <1>2 DEF DraftRefused

LEMMA IntegrationAccepted ==
  ASSUME PlainStep
  PROVE  ~IntegrationRefused
<1>1. ASSUME NEW k \in DOMAIN tasks, tasks[k].Status = "integration_eligible"
      PROVE  PrerequisitesMet(tasks, k)
  BY <1>1, PlainFacts DEF Ordered, Underway
<1>2. FirstTask(Integrable) \subseteq DOMAIN tasks
  BY DEF FirstTask, Integrable
<1> QED  BY <1>1, <1>2 DEF IntegrationRefused

LEMMA ReviewerGoes ==
  ASSUME PlainStep, Continue, call.run.Role = "reviewer"
  PROVE  \/ Mark
         \/ /\ call'.run = call.run /\ call'.at \in ReviewerPlaces
            /\ call'.at \in {"createPR", "recordPR"} => call'.then = "draft"
<1>0. /\ call \in Call /\ call.run # NoRun /\ call.at \in ReviewerPlaces
      /\ call.at \in {"createPR", "recordPR"} => call.then = "draft"
      /\ Drafting => call.then = "draft"
  BY PlainFacts DEF ReviewerPath, DraftSteps, NoRun, RunOf
<1>1. ASSUME Return  PROVE call'.run = call.run /\ call'.at = "mark"
  BY <1>0, <1>1 DEF Return, Call
<1>2. ASSUME NEW step, NEW then, NEW key,
             \/ Go(step) \/ GoThen(step, then) \/ With(step, key)
      PROVE  /\ call'.run = call.run /\ call'.at = step
             /\ Go(step) \/ With(step, key) => call'.then = call.then
  BY <1>0, <1>2, CallAt DEF Call, Go, GoThen, With
<1>3. CASE DecideReview
  <2>1. Go("writer") \/ Go("block") \/ GoThen("integrate", "draft")
    BY <1>3 DEF DecideReview
  <2> QED  BY <1>2, <2>1 DEF ReviewerPlaces
<1>4. CASE StopTask \/ OwnWriter \/ MergeConflict \/ BeginCI
  BY <1>1, <1>4 DEF StopTask, OwnWriter, MergeConflict, BeginCI, ReviewerPlaces
<1>5. CASE DispatchWriter \/ OwnReady \/ MergeTask \/ Integrated \/ NoneIntegrable
  BY <1>2, <1>5 DEF DispatchWriter, OwnReady, MergeTask, Integrated, NoneIntegrable, ReviewerPlaces
<1>6. CASE DispatchReady \/ BeginIntegration
  <2>1. (call' = call /\ At("ready")) \/ \E k : With("ownReady", k) \/ With("merge", k)
    BY <1>6 DEF DispatchReady, BeginIntegration
  <2> QED  BY <1>0, <1>2, <2>1 DEF ReviewerPlaces, At
<1>7. CASE NoneReady
  <2>1. Go("draft") \/ Return
    BY <1>7 DEF NoneReady
  <2> QED  BY <1>1, <1>2, <2>1 DEF ReviewerPlaces
<1>8. CASE PushBranch \/ CreatePR \/ SavePullRequest
  <2>1. call.then = "draft"
    BY <1>0, <1>8 DEF PushBranch, CreatePR, SavePullRequest, At, Drafting
  <2>2. Go("draftCheck") \/ Go("createPR") \/ Go("recordPR")
    BY <1>8, <2>1 DEF PushBranch, CreatePR, SavePullRequest
  <2> QED  BY <1>2, <2>1, <2>2 DEF ReviewerPlaces
<1> QED  BY <1>0, <1>3, <1>4, <1>5, <1>6, <1>7, <1>8, HandlersAt, DraftAccepted, IntegrationAccepted
         DEF ReviewerPlaces

LEMMA ReviewerKept ==
  ASSUME PlainStep, call.run.Role = "reviewer"
  PROVE  Mark \/ call'.run = call.run
<1>1. call # Idle
  BY DEF Idle, NoRun, RunOf
<1>2. CASE Beside
  BY <1>2 DEF Beside
<1> QED  BY <1>1, <1>2, StepBusy, ReviewerGoes, PlainFacts

LEMMA NextReviewerPath ==
  ASSUME PlainStep
  PROVE  ReviewerPath'
<1> SUFFICES ASSUME call'.run.Role = "reviewer"
             PROVE  /\ call'.at \in ReviewerPlaces
                    /\ call'.at \in {"createPR", "recordPR"} => call'.then = "draft"
  BY DEF ReviewerPath
<1>1. call'.run # NoRun
  BY DEF NoRun, RunOf
<1>2. CASE call' = call
  BY <1>2, PlainFacts DEF ReviewerPath
<1>3. CASE Continue /\ call'.run = call.run
  <2>1. ~Mark
    BY <1>1 DEF Mark, Error, Idle
  <2> QED  BY <1>3, <2>1, ReviewerGoes
<1>4. CASE \E run \in DOMAIN runs : ApplyOutcome(run) /\ ~ApplySettled(run) /\ call = Idle /\ call'.run = run
  <2>1. PICK run \in DOMAIN runs : ApplyOutcome(run) /\ ~ApplySettled(run) /\ call'.run = run
    BY <1>4
  <2>2. ApplyFailure(run) \/ ApplyReview(run)
    BY <2>1 DEF ApplyOutcome, ApplyPlan, ApplyWriterCommit, ApplyWriterNoChanges, ApplyWriterBlocked,
       ApplyWriterHandoff, ApplyHolistic, Working
  <2> QED  BY <2>2 DEF ApplyFailure, ApplyReview, Enter, ReviewerPlaces
<1> QED  BY <1>1, <1>2, <1>3, <1>4, StepRun, PlainFacts

(* An answer once applied stays so. *)
LEMMA AppliedStays ==
  ASSUME IInv, [Next]_vars, NEW r \in DOMAIN runs, runs[r] = "applied"
  PROVE  r \in DOMAIN runs' /\ runs'[r] = "applied"
<1>1. r \in DOMAIN runs'
  BY RunsGrow
<1>2. CASE \E run \in Run : Launch(run)
  BY <1>2 DEF Launch
<1>3. CASE \E run \in DOMAIN runs : Answer(run)
  BY <1>3 DEF Answer
<1>4. CASE \E run : runs' = Marked(run)
  BY <1>4 DEF Marked
<1>5. CASE CancelRuns
  BY <1>5 DEF CancelRuns
<1> QED  BY <1>1, <1>2, <1>3, <1>4, <1>5, StepRuns DEF RunsStep, Mark, ApplySettled, Supersede

LEMMA NextApprovalsMarked ==
  ASSUME PlainStep
  PROVE  ApprovalsMarked'
<1> SUFFICES ASSUME NEW k \in DOMAIN tasks', tasks'[k].Status \in Reviewed
             PROVE  LET r == RunOf("reviewer", k, tasks'[k].ReviewerRunID)
                    IN  r = call'.run \/ (r \in DOMAIN runs' /\ runs'[r] = "applied")
  BY DEF ApprovalsMarked
<1> DEFINE r == RunOf("reviewer", k, tasks'[k].ReviewerRunID)
<1>1. k \in DOMAIN tasks
  BY PlainFacts DEF TasksChange, Fresh, Reviewed, Integration
<1> DEFINE t == tasks[k]
           u == tasks'[k]
<1>2. Changes(k, t, u)
  BY <1>1, PlainFacts DEF TasksChange
<1>3. CASE t.Status \in Reviewed /\ u.ReviewerRunID = t.ReviewerRunID
  <2>1. r = call.run \/ (r \in DOMAIN runs /\ runs[r] = "applied")
    BY <1>1, <1>3, PlainFacts DEF ApprovalsMarked
  <2>2. CASE r \in DOMAIN runs /\ runs[r] = "applied"
    BY <2>2, AppliedStays, PlainFacts
  <2>3. CASE r = call.run
    <3>1. call.run.Role = "reviewer" /\ call.run \in DOMAIN runs
      BY <2>3, PlainFacts DEF RunOf, CallKnown, NoRun
    <3>2. CASE Mark
      BY <2>3, <3>1, <3>2 DEF Mark, Marked
    <3> QED  BY <2>3, <3>1, <3>2, ReviewerKept
  <2> QED  BY <2>1, <2>2, <2>3
<1>4. CASE IsJudged(k, t, u)
  <2>1. call.run = r
    BY <1>4, PlainFacts DEF IsJudged, MInv, HandlerKnows
  <2>2. call.run.Role = "reviewer" /\ ~Mark
    BY <1>4, <2>1 DEF IsJudged, Mark, At, RunOf
  <2> QED  BY <2>1, <2>2, ReviewerKept
<1>5. CASE ~IsJudged(k, t, u)
  <2>1. t.Status \in Reviewed /\ u.ReviewerRunID = t.ReviewerRunID
    BY <1>2, <1>5 DEF Changes, Rests, Starts, Completes, FindsNothing, GetsReviewer, IsBlocked,
       BeginsIntegration, EndsIntegration, BecomesEligible, IsReleased, LosesReviewer, IsReopened,
       SameOwners, Reviewed, Integration
  <2> QED  BY <1>3, <2>1
<1> QED  BY <1>4, <1>5

(* What an undisturbed step does to the pull request. *)
LEMMA PullGrows ==
  ASSUME PlainStep
  PROVE  /\ pr'.foreign = pr.foreign /\ (pr.exists => pr'.exists)
         /\ pr'.head = pr.head \/ PushBranch
         /\ \/ pr'.draft = pr.draft /\ pr'.merged = pr.merged /\ pr'.exists = pr.exists
            \/ CreatePR \/ Promote \/ MergePR
<1>0. pr \in PullRequest
  BY PlainFacts
<1>1. CASE PushBranch
  BY <1>0, <1>1 DEF PushBranch, PullRequest
<1>2. CASE CreatePR
  BY <1>0, <1>2 DEF CreatePR, PullRequest
<1>3. CASE Promote
  BY <1>0, <1>3 DEF Promote, PullRequest
<1>4. CASE MergePR
  BY <1>0, <1>4 DEF MergePR, PullRequest
<1>5. CASE ChecksFinish
  BY <1>0, <1>5 DEF ChecksFinish, PullRequest
<1> QED  BY <1>1, <1>2, <1>3, <1>4, <1>5, PullStep, PlainFacts DEF Alone

(* A job that is ready to publish is published, or fails. *)
LEMMA ReadyKept ==
  ASSUME PlainStep, job.Status = "ready_to_publish"
  PROVE  job'.Status = "ready_to_publish"
<1>1. ~RoundLeft
  BY PlainFacts DEF RoundLeft, Rounds, ReopensReviewed
<1>2. ~RoundFails /\ ~RoundPublished
  BY PlainFacts DEF RoundFails, RoundPublished, Terminal
<1>3. ~CIBegins /\ ~RoundResets /\ ~RoundOwned /\ ~CIObserved
  BY DEF CIBegins, StartCI, RoundResets, ResetHolisticRound, RoundOwned, StartHolisticReviewer, CIObserved
<1>4. CASE RoundJudged
  BY <1>4 DEF RoundJudged, RecordHolisticReview, pipelineVars
<1> QED  BY <1>1, <1>2, <1>3, <1>4, PlainFacts DEF RoundStep, RoundRests

LEMMA NextDraftSteps ==
  ASSUME PlainStep
  PROVE  DraftSteps'
<1>0. /\ job \in Job /\ call \in Call /\ DraftSteps /\ GatesKnow
      /\ (pr.exists => pr'.exists) /\ (pr'.head = pr.head \/ PushBranch)
      /\ repo'.head = repo.head \/ MergeTask
  BY PlainFacts, PullGrows, HeadStays
<1>1. CASE call'.at \notin {"draft", "draftCheck", "createPR", "recordPR", "publish"}
  BY <1>1 DEF DraftSteps, Drafting, At
<1>2. CASE Beside
  <2>1. call' = call /\ (job' = job \/ job.Status = "created")
    BY <1>2 DEF Beside, StartPlanning
  <2>2. Drafting => job' = job
    BY <1>0, <2>1 DEF DraftSteps
  <2>3. PushBranch => call'.at # call.at
    BY <1>0, CallAt DEF PushBranch, At
  <2>4. MergeTask => call.at = "merge"
    BY DEF MergeTask, At
  <2> QED  BY <1>0, <2>1, <2>2, <2>3, <2>4 DEF DraftSteps, Drafting, At
<1>3. CASE NoneReady /\ Onward /\ call'.at = "draft" /\ call.then = "draft"
  <2>1. job.Status = "holistic_reviewing"
    <3>1. Return => call'.at \in {"idle", "mark"}
      BY <1>0, CallAt
    <3> QED  BY <1>3, <3>1 DEF NoneReady
  <2> QED  BY <1>3, <2>1 DEF NoneReady, Onward, pipelineVars, DraftSteps, Drafting, At
<1>4. CASE ReconcileHolistic /\ call'.then = "draft" /\ call'.at = "draft"
  BY <1>4 DEF ReconcileHolistic, pipelineVars, DraftSteps, Drafting, At
<1>5. CASE PushBranch /\ Onward
  <2>1. /\ job' = job /\ repo' = repo /\ call.at = "draft" /\ pr'.head = repo.head
        /\ call'.at \in {"draftCheck", "createPR"}
    BY <1>0, <1>5, PlainFacts, CallAt DEF PushBranch, pipelineVars, PullRequest, At
  <2> QED  BY <1>0, <1>5, <2>1 DEF Onward, DraftSteps, Drafting, At
<1>6. CASE CreatePR /\ Onward /\ call'.at = "recordPR"
  <2>1. job' = job /\ repo' = repo /\ call.at = "createPR" /\ pr'.head = pr.head /\ pr'.exists
    BY <1>0, <1>6, PlainFacts DEF CreatePR, pipelineVars, PullRequest, At
  <2> QED  BY <1>0, <1>6, <2>1 DEF Onward, DraftSteps, Drafting, At
<1>7. CASE SavePullRequest /\ Onward /\ call'.at = IF call.then = "draft" THEN "draftCheck" ELSE "gate"
  <2>1. pr' = pr /\ repo' = repo /\ call.at = "recordPR" /\ job'.Status = job.Status
    BY <1>0, <1>7 DEF SavePullRequest, RecordPullRequest, envVars, At, Job
  <2> QED  BY <1>0, <1>7, <2>1 DEF Onward, DraftSteps, Drafting, At
<1>8. CASE Publish /\ Onward
  <2>1. call.at = "publish" /\ call'.at \in {"gate", "createPR"}
    BY <1>0, <1>8, CallAt DEF Publish, At
  <2> QED  BY <1>0, <1>8, <2>1 DEF Onward, DraftSteps, Drafting, At
<1>9. CASE call'.at = "publish" /\ (ObservePublication \/ PublishApproved
                                    \/ \E run \in DOMAIN runs : ApplyHolistic(run))
  <2>1. call'.then # "draft"
    BY <1>9 DEF ObservePublication, PublishApproved, ApplyHolistic, Operate, Enter
  <2> QED  BY <1>9, <2>1 DEF DraftSteps, Drafting, At
<1> QED  BY <1>1, <1>2, <1>3, <1>4, <1>5, <1>6, <1>7, <1>8, <1>9, StepComes, PlainFacts DEF Comes, Gated

(* Who records a pull request, and who begins a round. *)
LEMMA RecordedOrReset ==
  ASSUME IInv, [Next]_vars, left'.operator = left.operator, job.Status # "paused"
  PROVE  /\ job'.PullRequest = job.PullRequest \/ At("recordPR")
         /\ job'.HolisticRounds = job.HolisticRounds \/ RoundResets
<1> DEFINE Same == job'.PullRequest = job.PullRequest /\ job'.HolisticRounds = job.HolisticRounds
<1>0. job \in Job /\ left \in Budgets
  BY InvFacts DEF PipelineTypeOK, EnvTypeOK
<1>1. CASE UNCHANGED pipelineVars \/ Reload
  BY <1>1 DEF pipelineVars, Reload
<1>2. CASE TaskTransition
  <2>1. Same
    BY <1>0, <1>2, TaskJob DEF TaskMovesJob, Job
  <2> QED  BY <2>1
<1>3. CASE PlanTransition
  <2>1. Same
    BY <1>0, <1>3, PlanJob DEF PlanMovesJob, Job, pipelineVars
  <2> QED  BY <2>1
<1>4. CASE OperatorTransition
  <2>1. Resume
    BY <1>0, <1>4 DEF OperatorTransition, Budgets
  <2> QED  BY <1>0, <2>1 DEF Resume
<1>5. CASE JobTransition
  <2>1. CASE StartPlanning \/ RecordMerge \/ FailJob \/ StartCI(pr.head) \/ RetryPlanning
             \/ BeginCIReplan(job.CI.FailureFingerprint)
             \/ StartHolisticReviewer(job.HolisticRounds + 1, job.IntegrationSHA)
    <3>1. Same
      BY <1>0, <2>1 DEF StartPlanning, RecordMerge, FailJob, StartCI, RetryPlanning,
         BeginCIReplan, StartHolisticReviewer, Job
    <3> QED  BY <3>1
  <2>2. ASSUME NEW state, NEW print, RecordCI(pr.head, state, print)
        PROVE  Same
    BY <1>0, <2>2 DEF RecordCI, Job
  <2>3. ASSUME NEW run, NEW sha, NEW verdict, RecordHolisticReview(run, sha, verdict)
        PROVE  Same
    BY <1>0, <2>3 DEF RecordHolisticReview, Job, pipelineVars
  <2>4. CASE At("recordPR") /\ RecordPullRequest
    BY <1>0, <2>4 DEF RecordPullRequest, Job
  <2>5. CASE RoundResets
    BY <1>0, <2>5 DEF RoundResets, ResetHolisticRound, Job
  <2> QED  BY <1>5, <2>1, <2>2, <2>3, <2>4, <2>5 DEF JobTransition, RoundResets
<1> QED  BY <1>1, <1>2, <1>3, <1>4, <1>5, StepTransition DEF Transition

LEMMA NextPullKnown ==
  ASSUME PlainStep
  PROVE  PullKnown'
<1>0. PullKnown /\ GatesKnow /\ DraftSteps /\ pr \in PullRequest
  BY PlainFacts
<1>1. ~pr'.foreign
  BY <1>0, PullGrows DEF PullKnown
<1>2. job'.PullRequest => pr'.exists
  BY <1>0, PullGrows, RecordedOrReset, PlainFacts DEF PullKnown, DraftSteps, GateKnows
<1>3. ASSUME job'.Status # "ready_to_publish"
      PROVE  ~pr'.merged /\ (pr'.exists => pr'.draft)
  <2>1. job.Status # "ready_to_publish"
    BY <1>3, ReadyKept
  <2>2. ~Promote /\ ~MergePR
    BY <1>0, <2>1 DEF Promote, MergePR, GatesKnow, At
  <2>3. CASE CreatePR
    <3>1. call.then = "draft"
      BY <1>0, <2>1, <2>3 DEF CreatePR, GatesKnow, At
    <3> QED  BY <1>0, <2>1, <2>3, <3>1 DEF CreatePR, PullRequest, PullKnown
  <2> QED  BY <1>0, <2>1, <2>2, <2>3, PullGrows DEF PullKnown
<1> QED  BY <1>1, <1>2, <1>3 DEF PullKnown

(* What a handler does to a job under review, when it stays so: only the    *)
(* answer to the round asks for more work.                                  *)
LEMMA RoundAnswer ==
  ASSUME PlainStep, UnderReview, call = Idle,
         job'.Status = "holistic_reviewing", NEW run \in DOMAIN runs, ApplyOutcome(run)
  PROVE  \/ call'.at \in {"idle", "mark", "fail"}
         \/ call'.at = "ready" /\ call'.then = "return"
         \/ call'.at = "reopen" /\ ApplyHolistic(run)
<1>0. \A k \in DOMAIN tasks : Done(tasks[k].Status)
  BY PlainFacts DEF UnderReview, CInv, WholeInv, PastIntegration, IntegratedWhole
<1>1. CASE ApplySettled(run)
  BY <1>1 DEF ApplySettled, Idle
<1>2. CASE ApplyFailure(run) \/ ApplyPlan(run)
  BY <1>2 DEF ApplyFailure, ApplyPlan, Enter
<1>3. CASE Working(run) \/ ApplyWriterHandoff(run)
  <2>1. run.Key \in DOMAIN tasks
    BY <1>3, WriterOwner, PlainFacts DEF Working, ApplyWriterHandoff
  <2> QED  BY <1>0, <1>3, <2>1 DEF Working, ApplyWriterHandoff, Unreviewed, Done
<1>4. CASE ApplyReview(run)
  <2>1. Applicable(run) /\ run.Role = "reviewer" /\ Answered(run)
    BY <1>4 DEF ApplyReview, Applicable
  <2>2. /\ run.Key \in DOMAIN tasks /\ tasks[run.Key].ReviewerRunID = run.Attempt
        /\ run = RunOf("reviewer", run.Key, run.Attempt)
    BY <2>1, ReviewerOwner, PlainFacts
  <2>3. run.Attempt > 0 /\ run.Attempt \in Nat
    BY PlainFacts, SteadyFacts
  <2>4. tasks[run.Key].Status # "no_changes"
    BY <2>2, <2>3, PlainFacts DEF CInv, UnreviewedWork
  <2>5. tasks[run.Key].Status \in Reviewed
    BY <1>0, <2>2, <2>4 DEF Done, Reviewed, Integration
  <2>6. run = call.run \/ runs[run] = "applied"
    BY <2>2, <2>5, PlainFacts DEF ApprovalsMarked
  <2> QED  BY <2>1, <2>6 DEF Answered, Idle, NoRun, RunOf
<1>5. CASE ApplyHolistic(run)
  <2>1. runs[run] # "approved"
    <3>1. RecordHolisticReview(run.Attempt, job.IntegrationSHA, runs[run]) /\ job.Status = "holistic_reviewing"
      BY <1>5 DEF ApplyHolistic, UnderReview
    <3> QED  BY <3>1, PlainFacts DEF RecordHolisticReview, Job
  <2>2. call'.at \in {"fail", "reopen"}
    BY <1>5, <2>1 DEF ApplyHolistic, Enter
  <2> QED  BY <1>5, <2>2
<1> QED  BY <1>1, <1>2, <1>3, <1>4, <1>5 DEF ApplyOutcome, ApplyWriterCommit, ApplyWriterNoChanges, ApplyWriterBlocked

Requested == call'.at = "reopen" /\ \E run \in DOMAIN runs : ApplyHolistic(run)

LEMMA RoundPlace ==
  ASSUME PlainStep, UnderReview, job'.Status = "holistic_reviewing"
  PROVE  \/ call'.at \in {"idle", "mark", "holistic", "ownHolistic", "fail"}
         \/ call'.at = "ready" /\ call'.then = "return"
         \/ Requested
<1>0. call \in Call /\ Idle.at = "idle"
  BY PlainFacts DEF Idle
<1>1. CASE call' = call
  BY <1>1 DEF UnderReview, At
<1>2. CASE Continue
  <2>1. ASSUME Return \/ Error  PROVE call'.at \in {"idle", "mark"}
    BY <1>0, <2>1, CallAt
  <2>2. Ready = {}
    BY PlainFacts DEF UnderReview, CInv, WholeInv, PastIntegration, IntegratedWhole, Ready, Done
  <2>3. ~DispatchReady
    BY <2>2 DEF DispatchReady, FirstTask
  <2>4. CASE call.at = "ready" /\ call.then = "return"
    <3>1. NoneReady
      BY <1>2, <2>3, <2>4, HandlersAt
    <3> QED  BY <2>1, <2>4, <3>1 DEF NoneReady
  <2>5. CASE call.at = "fail"
    <3>1. FailJob
      BY <1>2, <2>5, HandlersAt DEF StopJob
    <3> QED  BY <3>1, PlainFacts DEF FailJob, Job
  <2>6. CASE call.at \in {"mark", "ownHolistic"}
    BY <1>2, <2>1, <2>6, HandlersAt DEF Mark, OwnHolistic
  <2>7. CASE call.at = "holistic"
    <3>1. Go("ownHolistic")
      BY <1>2, <2>7, HandlersAt DEF DispatchHolistic
    <3> QED  BY <1>0, <3>1, CallAt
  <2> QED  BY <1>2, <2>4, <2>5, <2>6, <2>7, HandlersAt DEF UnderReview, At
<1>3. CASE call = Idle /\ \E run \in DOMAIN runs : ApplyOutcome(run)
  BY <1>3, RoundAnswer DEF Requested
<1>4. CASE Poll
  <2>1. \/ UNCHANGED call \/ \E then : Enter("holistic", JobKey, NoRun, then)
    BY <1>4 DEF Poll, ReconcileTasks, ReconcileReplan, ReconcileHolistic, ReconcileCancelled,
       ResumePlanner, ObservePublication, ObserveStrandedRound, ObserveForeignHead, ObserveChecks,
       UnderReview
  <2> QED  BY <1>1, <2>1 DEF Enter
<1>5. CASE Operator
  <2>1. ~Spend("operator")
    BY PlainFacts DEF Spend, EnvTypeOK, Budgets
  <2>2. UNCHANGED call
    BY <1>5, <2>1 DEF Operator, RetryCodeTask, RetryCodePlanning, ResetHolisticReview, StartRereview,
       PublishApproved, PauseJob, ResumeJob, CancelCodeJob, Operate
  <2> QED  BY <1>1, <2>2
<1>6. CASE \/ CreateAndPlan \/ \E run \in DOMAIN runs : Answer(run)
           \/ ChecksFinish \/ ChecksRerun \/ ForeignPush \/ ForeignMerge \/ UNCHANGED vars
  BY <1>1, <1>6 DEF CreateAndPlan, Answer, ChecksFinish, ChecksRerun, ForeignPush, ForeignMerge, vars, envVars
<1>7. CASE call # Idle
  BY <1>1, <1>2, <1>7, StepBusy, PlainFacts DEF Beside
<1> QED  BY <1>2, <1>3, <1>4, <1>5, <1>6, <1>7, PlainFacts DEF Next

LEMMA RoundStays ==
  ASSUME PlainStep, UnderReview
  PROVE  job'.Status = "ready_to_publish" \/ UnderReview' \/ Requested
<1>0. job \in Job
  BY PlainFacts
<1>1. ~RoundLeft
  BY DEF RoundLeft, Rounds, UnderReview, At
<1>2. ~RoundFails /\ ~RoundPublished /\ ~CIObserved
  BY PlainFacts DEF RoundFails, RoundPublished, CIObserved, Terminal, UnderReview
<1>3. ~CIBegins /\ ~RoundResets
  BY DEF CIBegins, RoundResets, UnderReview, At
<1>4. /\ job'.Status \in {"holistic_reviewing", "ready_to_publish"}
      /\ job'.CI = job.CI /\ job'.IntegrationSHA = job.IntegrationSHA
  <2>1. CASE RoundRests
    BY <2>1 DEF RoundRests, SameRound, SameHead, UnderReview
  <2>2. CASE RoundOwned
    BY <1>0, <2>2 DEF RoundOwned, StartHolisticReviewer, Job, UnderReview
  <2>3. CASE RoundJudged
    <3>1. PICK run \in DOMAIN runs : RecordHolisticReview(run.Attempt, job.IntegrationSHA, runs[run])
      BY <2>3 DEF RoundJudged
    <3> QED  BY <1>0, <3>1 DEF RecordHolisticReview, Job, UnderReview
  <2> QED  BY <1>1, <1>2, <1>3, <2>1, <2>2, <2>3, PlainFacts DEF RoundStep
<1>5. CIPassedForHead'
  BY <1>4 DEF UnderReview, CIPassedForHead
<1> QED  BY <1>4, <1>5, RoundPlace DEF UnderReview, At

LEMMA LastRoundStays ==
  ASSUME PlainStep, UnderReview, job.HolisticRounds > MaxHolisticRemediationRounds
  PROVE  job'.Status = "ready_to_publish" \/ UnderReview'
<1>1. job.HolisticRounds \in Nat /\ MaxHolisticRemediationRounds \in Nat
  BY PlainFacts, OrchestrationAssumption DEF Job
<1>2. ~Requested
  BY <1>1 DEF Requested, ApplyHolistic, Enter
<1> QED  BY <1>2, RoundStays

LEMMA NextRoundsLimited ==
  ASSUME PlainStep
  PROVE  RoundsLimited'
<1>0. /\ job \in Job /\ call \in Call /\ job.HolisticRounds \in Nat
      /\ MaxHolisticRemediationRounds \in Nat /\ RoundsLimited
  BY PlainFacts, OrchestrationAssumption DEF Job
<1>1. CASE RoundResets
  <2>1. call.at = "resetRound" /\ job.HolisticRounds <= MaxHolisticRemediationRounds
    BY <1>1, PlainFacts DEF RoundResets, RoundToSpare, At
  <2>2. /\ job'.HolisticRounds = job.HolisticRounds + 1 /\ job'.Status = "holistic_reviewing"
        /\ job'.CI = job.CI /\ job'.IntegrationSHA = job.IntegrationSHA
    BY <1>0, <1>1 DEF RoundResets, ResetHolisticRound, Job
  <2>3. CIPassedForHead'
    BY <2>1, <2>2, PlainFacts DEF RoundPlaces, Tested, CIPassedForHead
  <2>4. Continue
    <3>1. job' # job
      BY <1>0, <2>2
    <3>2. ~StartPlanning
      BY <1>1 DEF StartPlanning, RoundResets, ResetHolisticRound
    <3>3. ~Beside
      BY <3>1, <3>2 DEF Beside
    <3> QED  BY <2>1, <3>3, StepBusy, PlainFacts DEF Idle
  <2>5. call'.at = "holistic"
    BY <1>0, <2>1, <2>4, HandlersAt, CallAt DEF NewHolisticRound
  <2> QED  BY <1>0, <2>1, <2>2, <2>3, <2>5 DEF RoundsLimited, UnderReview
<1>2. CASE ~RoundResets
  <2>1. job'.HolisticRounds = job.HolisticRounds
    BY <1>2, RoundsGrow, PlainFacts
  <2> QED  BY <1>0, <2>1, ReadyKept, LastRoundStays DEF RoundsLimited
<1> QED  BY <1>1, <1>2

LEMMA NextRoundToSpare ==
  ASSUME PlainStep
  PROVE  RoundToSpare'
<1> SUFFICES ASSUME call'.at \in {"resetRound", "reopen"}
             PROVE  job'.HolisticRounds <= MaxHolisticRemediationRounds
  BY DEF RoundToSpare
<1>0. job \in Job /\ job.HolisticRounds \in Nat /\ MaxHolisticRemediationRounds \in Nat
  BY PlainFacts, OrchestrationAssumption DEF Job
<1>1. CASE Beside
  <2>1. call' = call /\ job'.HolisticRounds = job.HolisticRounds
    BY <1>0, <1>1 DEF Beside, StartPlanning, Job
  <2> QED  BY <2>1, PlainFacts DEF RoundToSpare
<1>2. CASE ObserveChecks
  <2>1. job.Status = "awaiting_ci"
    BY <1>2 DEF ObserveChecks
  <2>2. job'.HolisticRounds = job.HolisticRounds
    BY <2>1, RoundsGrow, PlainFacts DEF RoundResets, ResetHolisticRound
  <2> QED  BY <1>0, <2>1, <2>2, PlainFacts DEF RoundsLimited, UnderReview
<1>3. CASE \E run \in DOMAIN runs : ApplyHolistic(run) /\ call'.at = "reopen"
  <2>1. job.HolisticRounds <= MaxHolisticRemediationRounds /\ call = Idle
    BY <1>3 DEF ApplyHolistic, Enter
  <2>2. job'.HolisticRounds = job.HolisticRounds
    BY <2>1, RoundsGrow, PlainFacts DEF RoundResets, At, Idle
  <2> QED  BY <2>1, <2>2
<1>4. ASSUME ~Beside  PROVE ObserveChecks \/ \E run \in DOMAIN runs : ApplyHolistic(run) /\ call'.at = "reopen"
  <2>1. CASE call'.at = "resetRound"
    <3>1. Comes
      BY <1>4, <2>1, StepComes, PlainFacts DEF Gated
    <3> QED  BY <2>1, <3>1 DEF Comes
  <2>2. CASE call'.at = "reopen"
    <3>1. Arrives
      BY <1>4, <2>2, StepArrives, PlainFacts DEF Watched
    <3> QED  BY <2>2, <3>1 DEF Arrives
  <2> QED  BY <2>1, <2>2
<1> QED  BY <1>1, <1>2, <1>3, <1>4

LEMMA NextRoundsEnd ==
  ASSUME PlainStep
  PROVE  RoundsEnd'
BY NextRoundsLimited, NextRoundToSpare, NextApprovalsMarked, NextReviewerPath, NextDraftSteps,
   NextPullKnown DEF RoundsEnd

LEMMA NextRoundsBounded ==
  ASSUME IInv, CInv, GateKnows, RoundsBounded, [Next]_vars, left'.operator = left.operator,
         ~Terminal(job.Status) => RoundToSpare
  PROVE  RoundsBounded'
<1>0. job \in Job /\ job.HolisticRounds \in Nat /\ MaxHolisticRemediationRounds \in Nat
  BY InvFacts, OrchestrationAssumption DEF PipelineTypeOK, Job
<1>1. CASE ~Live(job.Status)
  <2>1. job' = job
    BY <1>1, NotLiveStep DEF GateKnows, pipelineVars, Reload
  <2> QED  BY <2>1 DEF RoundsBounded
<1>2. CASE Live(job.Status) /\ RoundResets
  <2>1. job.HolisticRounds <= MaxHolisticRemediationRounds
    BY <1>2 DEF RoundResets, ResetHolisticRound, Terminal, RoundToSpare, At
  <2>2. job'.HolisticRounds = job.HolisticRounds + 1
    BY <1>0, <1>2 DEF RoundResets, ResetHolisticRound, Job
  <2> QED  BY <1>0, <2>1, <2>2 DEF RoundsBounded
<1>3. CASE ~RoundResets
  BY <1>3, RecordedOrReset DEF GateKnows, RoundsBounded
<1> QED  BY <1>1, <1>2, <1>3

LEMMA NextLInv ==
  IInv /\ PlanInv /\ MInv /\ CInv /\ WInv /\ OInv /\ BInv /\ HInv /\ RInv /\ GInv /\ LInv
    /\ [Next]_vars => LInv'
<1> SUFFICES ASSUME IInv, PlanInv, MInv, CInv, WInv, OInv, BInv, HInv, RInv, GInv, LInv, [Next]_vars,
                    Uneventful'
             PROVE  RoundsBounded' /\ (~Terminal(job'.Status) => RoundsEnd')
  BY DEF LInv
<1>1. Uneventful /\ Alone /\ Steady'
  <2>1. Undisturbed' /\ Steady'
    BY DEF Uneventful, Undisturbed, Steady, Untouched
  <2>2. Undisturbed /\ Alone
    BY <2>1, UndisturbedBefore DEF GInv
  <2>3. Steady
    BY <2>1, SteadyBefore DEF HInv
  <2> QED  BY <2>1, <2>2, <2>3 DEF Uneventful, Steady
<1>2. GateKnows /\ ReopensReviewed /\ OwnersDispatched
  BY <1>1 DEF Uneventful, GInv, OInv, WInv
<1>3. RoundsBounded'
  BY <1>1, <1>2, NextRoundsBounded DEF LInv, RoundsEnd, Alone
<1>4. ASSUME ~Terminal(job'.Status)  PROVE RoundsEnd'
  <2>1. SteadyStep
    BY <1>1, <1>4, SteadyComes
  <2>2. ~Terminal(job.Status)
    BY <2>1 DEF SteadyStep, CalmStep
  <2>3. PlainStep
    BY <1>1, <1>2, <2>1, <2>2 DEF PlainStep, LInv
  <2> QED  BY <2>3, NextRoundsEnd
<1> QED  BY <1>3, <1>4

LEMMA InitLInv == Init => LInv
<1> SUFFICES ASSUME Init  PROVE LInv
  OBVIOUS
<1>1. tasks = <<>> /\ call = Idle /\ ~pr.foreign /\ ~pr.exists /\ ~pr.merged
  BY DEF Init, PipelineInit
<1>2. DOMAIN tasks = {} /\ call.at = "idle" /\ call.run.Role = "none"
  BY <1>1 DEF Idle, NoRun, RunOf
<1>3. job.HolisticRounds = 0 /\ job.PullRequest = FALSE
  BY InitialJob
<1>4. RoundsLimited /\ RoundsBounded
  BY <1>3, OrchestrationAssumption DEF RoundsLimited, RoundsBounded
<1>5. RoundToSpare /\ ApprovalsMarked /\ ReviewerPath /\ DraftSteps
  BY <1>2 DEF RoundToSpare, ApprovalsMarked, ReviewerPath, DraftSteps, Drafting, At
<1>6. PullKnown
  BY <1>1, <1>3 DEF PullKnown
<1> QED  BY <1>4, <1>5, <1>6 DEF LInv, RoundsEnd

LEMMA RoundInvariance == Spec => [](BInv /\ LInv)
BY InitPlanInv, NextPlanInv, InitMInv, NextMInv, InitCInv, NextCInv, InitRInv, NextRInv, InitGInv, NextGInv,
   InitLInv, NextLInv, OwnerInvariance, Invariance, PTL DEF Spec

(* The system by itself does a bounded amount of work: each task has a      *)
(* limited number of writers, each job a limited number of revisions and of *)
(* holistic rounds (server.go 730-747, store.go 388, outcome.go 386-410).   *)
(* That the rounds are limited rests on more than their count: nobody takes *)
(* a job in its last round back to CI, from where a new round would begin.  *)
THEOREM AutomaticWorkEnds == Spec => [](Uneventful => AutomaticWorkBounded)
<1>1. BInv /\ LInv => (Uneventful => AutomaticWorkBounded)
  BY DEF BInv, LInv, Uneventful, Undisturbed, Untouched, AutomaticWorkBounded
<1> QED  BY <1>1, RoundInvariance, PTL

-----------------------------------------------------------------------------
(* A task is not blocked before it has had a writer.  Only its attempts can *)
(* run out while it waits for one, and a task that waits has had at most    *)
(* one attempt in each round: whatever is reopened had nothing to change in *)
(* an earlier round.                                                        *)

FewerRounds == MaxHolisticRemediationRounds < MaxWriterAttempts

(* A task without a commit of its own had at most one attempt more than     *)
(* there were rounds, and one that waits for its first writer none more.    *)
TaskSpent(k) ==
  LET t == tasks[k] IN
  /\ t.Status = "planned" => k \notin repo.ahead /\ t.WriterAttempts <= job.HolisticRounds
  /\ t.Status = "no_changes" => k \notin repo.ahead /\ t.WriterAttempts <= job.HolisticRounds + 1
  /\ t.Status = "working" /\ k \notin repo.ahead => t.WriterAttempts <= job.HolisticRounds + 1
  /\ t.Status \in {"reviewing", "changes_requested"} \/ t.ReviewerRunID # 0 => k \in repo.ahead
  /\ t.Status # "planned" => t.WriterRunID # 0
AttemptsSpent == repo.ahead \subseteq DOMAIN tasks /\ \A k \in DOMAIN tasks : TaskSpent(k)

(* What a handler has in hand has commits, or waits for its writer.         *)
InHand ==
  /\ call.at \in {"complete", "verdict", "writer", "ownWriter", "block"} => call.key \in repo.ahead
  /\ At("ownReady") => tasks[call.key].Status \in {"planned", "changes_requested"}

(* The answer to a round is still to come, and nobody works on the job; the *)
(* handler that applies it reopens what had nothing to change, or publishes.*)
Judging == /\ job.HolisticReviewRunID # 0 /\ Judge \in DOMAIN runs /\ runs[Judge] # "applied"
           /\ call.run # Judge
JudgeInRound == Judging => UnderReview \/ job.Status = "ready_to_publish"
JudgePath == call.run.Role = "holistic" =>
  \/ call.at \in {"reopen", "fail", "mark"}
  \/ call.at \in {"ready", "ownReady"} /\ call.then = "return"
  \/ job.Status = "ready_to_publish"

(* From the start of a round until it is answered, a task without changes   *)
(* had no attempt in it.                                                    *)
InRound == \/ Judging \/ job.Status = "ready_to_publish"
           \/ job.HolisticReviewRunID = 0 /\ job.CI.State = "passed" /\ ~At("resetRound")
NoneInRound ==
  \A k \in DOMAIN tasks : tasks[k].Status = "no_changes" => tasks[k].WriterAttempts <= job.HolisticRounds
RoundFresh == InRound \/ At("reopen") => NoneInRound

ReworkEnds == AttemptsSpent /\ InHand /\ JudgeInRound /\ JudgePath /\ RoundFresh
KInv == FewerRounds /\ Uneventful =>
          /\ BlockedResumable
          /\ ~Terminal(job.Status) => ReworkEnds

ReworkStep == PlainStep /\ ReworkEnds /\ FewerRounds

(* Only a writer's commit makes a branch go ahead. *)
LEMMA AheadGrows ==
  ASSUME IInv, [Next]_vars
  PROVE  \/ repo'.ahead = repo.ahead
         \/ \E run \in DOMAIN runs : ApplyWriterCommit(run) /\ repo'.ahead = repo.ahead \cup {run.Key}
<1>1. repo \in Repo
  BY InvFacts DEF EnvTypeOK
<1>2. CASE ForeignPush
  BY <1>1, <1>2 DEF ForeignPush, Repo
<1>3. CASE MergeTask
  BY <1>1, <1>3 DEF MergeTask, Repo
<1>4. CASE \E run \in DOMAIN runs : ApplyWriterCommit(run)
  BY <1>1, <1>4 DEF ApplyWriterCommit, Repo
<1>5. CASE UNCHANGED repo
  BY <1>5
<1>6. CASE Continue
  <2>1. UNCHANGED repo \/ MergeTask
    BY <1>6 DEF Continue, HandlerStep, Mark, Complete, DispatchReviewer, OwnReviewer, DecideReview,
      StopTask, DispatchWriter, OwnWriter, DispatchReady, OwnReady, NoneReady, BeginIntegration,
      IntegrationRefused, NoneIntegrable, MergeConflict, Integrated, PushBranch, CreatePR,
      SavePullRequest, BeginCI, DraftRefused, Publish, Promote, PassGate, GateRefused, AlreadyMerged,
      MergePR, SaveMerge, DispatchHolistic, OwnHolistic, NewHolisticRound, Reopen, StopJob, RepairCI,
      EscalateCI, DispatchPlanner, NextReviewer, ReleaseWriter, ReleaseReviewer, RenewPlanning,
      CancelRuns, LaunchWriter, envVars
  <2> QED  BY <1>3, <1>5, <2>1
<1>7. CASE \E run \in DOMAIN runs : Answer(run) \/ ApplyOutcome(run)
  BY <1>4, <1>5, <1>7 DEF Answer, ApplyOutcome, ApplySettled, ApplyFailure, ApplyPlan,
     ApplyWriterNoChanges, ApplyWriterBlocked, ApplyWriterHandoff, ApplyReview, ApplyHolistic, envVars
<1>8. CASE Poll \/ Operator
  BY <1>5, <1>8 DEF Poll, ReconcileTasks, ReconcileReplan, ReconcileHolistic, ReconcileCancelled,
     ResumePlanner, ObservePublication, ObserveStrandedRound, ObserveForeignHead, ObserveChecks,
     Operator, RetryCodeTask, RetryCodePlanning, ResetHolisticReview, StartRereview,
     PublishApproved, PauseJob, ResumeJob, CancelCodeJob, envVars
<1>9. CASE \/ CreateAndPlan \/ ChecksFinish \/ ChecksRerun \/ ForeignMerge \/ Abandon
           \/ Restart \/ UNCHANGED vars
  BY <1>5, <1>9 DEF CreateAndPlan, ChecksFinish, ChecksRerun, ForeignMerge, Abandon, Restart, vars,
     envVars
<1> QED  BY <1>2, <1>6, <1>7, <1>8, <1>9 DEF Next

(* It is a task at work then. *)
LEMMA AheadWorks ==
  ASSUME ReworkStep
  PROVE  /\ repo.ahead \subseteq repo'.ahead /\ repo'.ahead \subseteq DOMAIN tasks'
         /\ \A k \in repo'.ahead : k \in repo.ahead \/ (tasks' = tasks /\ tasks[k].Status = "working")
<1>1. DOMAIN tasks \subseteq DOMAIN tasks' /\ repo.ahead \subseteq DOMAIN tasks /\ IInv /\ [Next]_vars
  BY PlainFacts DEF ReworkStep, ReworkEnds, AttemptsSpent, TasksChange
<1>2. ASSUME NEW run \in DOMAIN runs, ApplyWriterCommit(run)
      PROVE  run.Key \in DOMAIN tasks /\ tasks' = tasks /\ tasks[run.Key].Status = "working"
  BY <1>1, <1>2, WriterOwner DEF ApplyWriterCommit, Working
<1> QED  BY <1>1, <1>2, AheadGrows

(* While a round is open, and when its answer asks for more, every task is  *)
(* done.                                                                    *)
LEMMA AllDone ==
  ASSUME ReworkStep, InRound \/ At("reopen") \/ UnderReview \/ job.Status = "ready_to_publish"
  PROVE  \A k \in DOMAIN tasks : Done(tasks[k].Status)
<1>1. job.Status \in PastIntegration
  <2>1. CASE job.HolisticReviewRunID = 0 /\ job.CI.State = "passed"
    BY <2>1, PlainFacts DEF ReworkStep, GateKnows, RoundBound, Refused, Bound, PastIntegration
  <2> QED  BY <2>1, PlainFacts DEF InRound, ReopensReviewed, UnderReview, PastIntegration, ReworkStep,
              ReworkEnds, JudgeInRound
<1> QED  BY <1>1, PlainFacts DEF ReworkStep, CInv, WholeInv, IntegratedWhole

LEMMA SpentFacts ==
  ASSUME ReworkStep, NEW k \in DOMAIN tasks
  PROVE  /\ k \in DOMAIN tasks' /\ Changes(k, tasks[k], tasks'[k]) /\ TaskSpent(k)
         /\ tasks[k] \in Task /\ tasks[k].WriterAttempts \in Nat
         /\ job.HolisticRounds \in Nat /\ job'.HolisticRounds \in Nat
         /\ job.HolisticRounds <= job'.HolisticRounds
         /\ PlainStep /\ IInv
<1>1. k \in DOMAIN tasks' /\ Changes(k, tasks[k], tasks'[k]) /\ TaskSpent(k) /\ tasks[k] \in Task /\ IInv
  BY PlainFacts DEF TasksChange, ReworkStep, ReworkEnds, AttemptsSpent
<1>2. /\ job.HolisticRounds \in Nat
      /\ job'.HolisticRounds = job.HolisticRounds \/ job'.HolisticRounds = job.HolisticRounds + 1
  BY RoundsGrow, PlainFacts DEF ReworkStep
<1> QED  BY <1>1, <1>2 DEF Task, ReworkStep

(* Whoever is blocked has had a writer: the attempts of one that waits for  *)
(* its first have not run out.                                              *)
LEMMA BlockedHadWriter ==
  ASSUME ReworkStep, NEW k \in DOMAIN tasks, IsBlocked(k, tasks[k], tasks'[k])
  PROVE  tasks[k].WriterRunID # 0
<1> DEFINE t == tasks[k]
<1> SUFFICES ASSUME t.Status = "planned"  PROVE t.WriterRunID # 0
  BY SpentFacts DEF TaskSpent
<1>0. /\ t.WriterAttempts <= job.HolisticRounds /\ k \notin repo.ahead
      /\ t.WriterAttempts \in Nat /\ job.HolisticRounds \in Nat
      /\ t.ReviewerRunID # 0 => k \in repo.ahead
  BY SpentFacts DEF TaskSpent
<1>1. ~Done(t.Status)
  BY DEF Done
<1>2. ~UnderReview /\ job.Status # "ready_to_publish"
  BY <1>1, AllDone
<1>3. job.HolisticRounds <= MaxHolisticRemediationRounds
  BY <1>2, PlainFacts DEF ReworkStep, RoundsLimited
<1>4. ~(t.WriterAttempts >= MaxWriterAttempts)
  BY <1>0, <1>3, OrchestrationAssumption DEF ReworkStep, FewerRounds
<1>5. ~(At("block") /\ call.key = k)
  BY <1>0 DEF ReworkStep, ReworkEnds, InHand, At
<1>6. ~(At("merge") /\ call.key = k)
  BY PlainFacts DEF ReworkStep, MInv, HandlerKnows, At
<1>7. ASSUME NEW run \in DOMAIN runs, Applicable(run), run.Role \in {"writer", "reviewer"}, run.Key = k
      PROVE  t.WriterRunID # 0
  <2>1. run.Attempt \in Nat /\ run.Attempt > 0 /\ IInv
    BY PlainFacts, SteadyFacts DEF ReworkStep
  <2>2. CASE run.Role = "writer"
    BY <1>7, <2>1, <2>2, WriterOwner
  <2>3. CASE run.Role = "reviewer"
    <3>1. t.ReviewerRunID = run.Attempt
      BY <1>7, <2>1, <2>3, ReviewerOwner
    <3> QED  BY <1>0, <2>1, <3>1
  <2> QED  BY <1>7, <2>2, <2>3
<1> QED  BY <1>4, <1>5, <1>6, <1>7 DEF IsBlocked

LEMMA NextTaskSpent ==
  ASSUME ReworkStep, NEW k \in DOMAIN tasks
  PROVE  TaskSpent(k)'
<1> DEFINE t == tasks[k]
           u == tasks'[k]
<1>0. /\ Changes(k, t, u) /\ TaskSpent(k) /\ t.WriterAttempts \in Nat
      /\ job.HolisticRounds \in Nat /\ job'.HolisticRounds \in Nat
      /\ job.HolisticRounds <= job'.HolisticRounds
  BY SpentFacts
<1>1. /\ k \in repo.ahead => k \in repo'.ahead
      /\ u.Status # "working" /\ k \in repo'.ahead => k \in repo.ahead
  BY AheadWorks
<1>2. CASE Rests(t, u)
  BY <1>0, <1>1, <1>2 DEF Rests, SameOwners, SameCounts, TaskSpent
<1>3. CASE Starts(k, t, u)
  <2>1. k \in repo.ahead \/ t.Status = "planned"
    BY <1>0, <1>3 DEF Starts, ReworkStep, ReworkEnds, InHand, TaskSpent, At
  <2> QED  BY <1>0, <1>1, <1>3, <2>1 DEF Starts, TaskSpent
<1>4. CASE Completes(k, t, u) \/ GetsReviewer(k, t, u) \/ IsJudged(k, t, u)
  <2>1. k \in repo.ahead
    BY <1>0, <1>4 DEF Completes, GetsReviewer, IsJudged, ReworkStep, ReworkEnds, InHand, TaskSpent, At
  <2> QED  BY <1>0, <1>1, <1>4, <2>1 DEF Completes, GetsReviewer, IsJudged, TaskSpent
<1>5. CASE FindsNothing(k, t, u)
  BY <1>0, <1>1, <1>5 DEF FindsNothing, SameOwners, SameCounts, TaskSpent
<1>6. CASE IsBlocked(k, t, u)
  BY <1>0, <1>1, <1>6, BlockedHadWriter DEF IsBlocked, SameOwners, SameCounts, TaskSpent
<1>7. CASE BeginsIntegration(k, t, u) \/ EndsIntegration(k, t, u) \/ BecomesEligible(k, t, u)
  BY <1>0, <1>1, <1>7 DEF BeginsIntegration, EndsIntegration, BecomesEligible, SameOwners, SameCounts,
     TaskSpent
<1>8. ~IsReleased(k, t, u) /\ ~LosesReviewer(k, t, u)
  BY PlainFacts DEF ReworkStep, Ordered, IsReleased, LosesReviewer, At
<1>9. CASE IsReopened(k, t, u)
  <2>1. At("reopen")
    BY <1>9, PlainFacts DEF IsReopened, ReworkStep
  <2>2. t.Status = "no_changes"
    BY <1>9, <2>1, AllDone DEF IsReopened, Incomplete, Done
  <2>3. t.WriterAttempts <= job.HolisticRounds
    BY <2>1, <2>2 DEF ReworkStep, ReworkEnds, RoundFresh, NoneInRound
  <2> QED  BY <1>0, <1>1, <1>9, <2>2, <2>3 DEF IsReopened, SameCounts, TaskSpent
<1> QED  BY <1>0, <1>2, <1>3, <1>4, <1>5, <1>6, <1>7, <1>8, <1>9 DEF Changes

LEMMA NextAttemptsSpent ==
  ASSUME ReworkStep
  PROVE  AttemptsSpent'
<1>1. repo'.ahead \subseteq DOMAIN tasks'
  BY AheadWorks
<1>2. ASSUME NEW k \in DOMAIN tasks', k \notin DOMAIN tasks
      PROVE  TaskSpent(k)'
  <2>1. Fresh(tasks'[k])
    BY <1>2, PlainFacts DEF ReworkStep, TasksChange
  <2>2. k \notin repo.ahead /\ k \notin repo'.ahead
    BY <1>2, <2>1, AheadWorks DEF ReworkStep, ReworkEnds, AttemptsSpent
  <2>3. job'.HolisticRounds \in Nat
    BY RoundsGrow, PlainFacts DEF ReworkStep
  <2> QED  BY <2>1, <2>2, <2>3 DEF Fresh, TaskSpent
<1> QED  BY <1>1, <1>2, NextTaskSpent DEF AttemptsSpent

(* What a handler takes in hand. *)
LEMMA StepTakes ==
  ASSUME CalmStep, call'.at \in {"complete", "verdict"}
  PROVE  \/ Beside
         \/ \E run \in DOMAIN runs : ApplyWriterCommit(run) \/ ApplyReview(run)
<1> SUFFICES ASSUME ~(\E run \in DOMAIN runs : ApplyWriterCommit(run) \/ ApplyReview(run)), ~Beside
             PROVE  FALSE
  OBVIOUS
<1>0. call'.at \in Knowing
  BY DEF Knowing
<1>1. ASSUME Continue  PROVE FALSE
  <2>1. DecideReview \/ BeginIntegration \/ MergeTask
    BY <1>0, <1>1, ContinueAt, CalmFacts
  <2>2. call'.at \notin {"complete", "verdict"}
    <3>1. ASSUME NEW step, NEW key, NEW then, step # "complete", step # "verdict",
                 Go(step) \/ With(step, key) \/ GoThen(step, then)
          PROVE  call'.at \notin {"complete", "verdict"}
      <4>1. call \in Call
        BY CalmFacts
      <4>2. CASE Go(step) \/ With(step, key)
        BY <3>1, <4>1, <4>2, CallAt
      <4>3. CASE GoThen(step, then)
        BY <3>1, <4>1, <4>3 DEF GoThen, Call
      <4> QED  BY <3>1, <4>2, <4>3
    <3> QED  BY <2>1, <3>1 DEF DecideReview, BeginIntegration, MergeTask
  <2> QED  BY <2>2
<1>2. ~(\/ \E run \in DOMAIN runs : ApplyOutcome(run)
        \/ (Poll /\ ~ResumePlanner) \/ Operator)
  BY <1>0, StartsAt, CalmFacts
<1>3. CASE \/ CreateAndPlan \/ ResumePlanner \/ \E run \in DOMAIN runs : Answer(run)
           \/ ChecksFinish \/ ChecksRerun \/ ForeignPush \/ ForeignMerge \/ UNCHANGED vars
  <2>1. UNCHANGED <<plan, tasks, call>> /\ (job' = job \/ StartPlanning)
    BY <1>3 DEF CreateAndPlan, ResumePlanner, Answer, ChecksFinish, ChecksRerun, ForeignPush,
       ForeignMerge, StartPlanning, vars, envVars, pipelineVars
  <2> QED  BY <2>1, CalmFacts DEF Beside
<1>4. ~(Abandon \/ Restart)
  BY <1>0 DEF Abandon, Restart, Error, Idle, Knowing
<1> QED  BY <1>1, <1>2, <1>3, <1>4, CalmFacts DEF Next

LEMMA NextInHand ==
  ASSUME ReworkStep
  PROVE  InHand'
<1>0. /\ PlainStep /\ InHand /\ AttemptsSpent /\ call \in Call
      /\ repo.ahead \subseteq repo'.ahead
  BY AheadWorks, PlainFacts DEF ReworkStep, ReworkEnds
<1>1. CASE Beside
  BY <1>0, <1>1 DEF Beside, InHand, At
<1>2. ASSUME call'.at \in {"complete", "verdict"}, NEW run \in DOMAIN runs, ApplyWriterCommit(run)
      PROVE  call'.key \in repo'.ahead
  BY <1>0, <1>2, PlainFacts DEF ApplyWriterCommit, Enter, Repo
<1>3. ASSUME call'.at \in {"complete", "verdict"}, NEW run \in DOMAIN runs, ApplyReview(run)
      PROVE  call'.key \in repo'.ahead
  <2>1. Applicable(run) /\ run.Role = "reviewer" /\ call'.key = run.Key
    BY <1>3 DEF ApplyReview, Enter
  <2>2. run.Attempt \in Nat /\ run.Attempt > 0 /\ IInv
    BY <1>0, PlainFacts, SteadyFacts
  <2>3. run.Key \in DOMAIN tasks /\ tasks[run.Key].ReviewerRunID # 0
    BY <2>1, <2>2, ReviewerOwner
  <2> QED  BY <1>0, <2>1, <2>3 DEF AttemptsSpent, TaskSpent
<1>4. ASSUME call'.at \in {"writer", "ownWriter", "block"}, ~Beside
      PROVE  call'.key \in repo'.ahead
  <2>1. Arrives
    BY <1>0, <1>4, StepArrives, PlainFacts DEF Watched
  <2>2. ~(Operator /\ left'.operator = left.operator - 1)
    BY <1>0, PlainFacts DEF EnvTypeOK, Budgets
  <2>3. ~ReleaseWriter
    BY <1>0, PlainFacts DEF ReleaseWriter, Ordered, At
  <2>4. (DecideReview \/ DispatchWriter) /\ call'.key = call.key
    BY <1>4, <2>1, <2>2, <2>3 DEF Arrives, Keeping
  <2> QED  BY <1>0, <2>4 DEF DecideReview, DispatchWriter, InHand, At
<1>5. ASSUME call'.at = "ownReady", ~Beside
      PROVE  tasks'[call'.key].Status \in {"planned", "changes_requested"}
  <2>1. Arrives
    BY <1>0, <1>5, StepArrives, PlainFacts DEF Watched
  <2>2. PICK k \in DOMAIN tasks : k \in Ready /\ LaunchWriter(k) /\ call'.key = k
    BY <1>5, <2>1 DEF Arrives
  <2>3. tasks'[k].Status = tasks[k].Status
    BY <1>0, <2>2, LaunchTransition, PlainFacts DEF RecordTaskBase, pipelineVars, Task
  <2> QED  BY <2>2, <2>3 DEF Ready
<1>6. SteadyStep => CalmStep
  BY SteadyFacts
<1> QED  BY <1>0, <1>1, <1>2, <1>3, <1>4, <1>5, StepTakes, PlainFacts DEF InHand, At

LEMMA ReworkFacts ==
  ASSUME ReworkStep
  PROVE  /\ PlainStep /\ JudgeInRound /\ JudgePath /\ RoundFresh /\ AttemptsSpent
         /\ job.HolisticReviewRunID \in Nat /\ job.HolisticRounds \in Nat
         /\ job'.HolisticReviewRunID # 0 => job'.HolisticReviewRunID = job.HolisticReviewRunID \/ RoundOwned
         /\ Judge.Role = "holistic" /\ NoRun.Role # "holistic"
         /\ job.HolisticReviewRunID # 0 => Judge \in DOMAIN runs
<1>1. PlainStep /\ JudgeInRound /\ JudgePath /\ RoundFresh /\ AttemptsSpent
  BY DEF ReworkStep, ReworkEnds
<1>2. job.HolisticReviewRunID \in Nat /\ job.HolisticRounds \in Nat
  BY <1>1, PlainFacts DEF Job
<1>3. job'.HolisticReviewRunID # 0 => job'.HolisticReviewRunID = job.HolisticReviewRunID \/ RoundOwned
  BY <1>1, RoundsGrow, PlainFacts
<1>4. Judge.Role = "holistic" /\ NoRun.Role # "holistic"
  BY DEF Judge, NoRun, RunOf
<1>5. job.HolisticReviewRunID # 0 => Judge \in DOMAIN runs
  BY <1>1, <1>2, PlainFacts DEF OwnersDispatched, Judge
<1> QED  BY <1>1, <1>2, <1>3, <1>4, <1>5

(* The handler of the answer to a round. *)
LEMMA JudgeGoes ==
  ASSUME ReworkStep, Continue, call.run.Role = "holistic", job.Status # "ready_to_publish"
  PROVE  \/ Mark
         \/ /\ call'.run = call.run
            /\ \/ call'.at \in {"reopen", "fail", "mark"}
               \/ call'.at \in {"ready", "ownReady"} /\ call'.then = "return"
<1>0. /\ call \in Call /\ call.run # NoRun
      /\ \/ call.at \in {"reopen", "fail", "mark"}
         \/ call.at \in {"ready", "ownReady"} /\ call.then = "return"
  BY ReworkFacts, PlainFacts DEF JudgePath
<1>1. ASSUME Return  PROVE call'.run = call.run /\ call'.at = "mark"
  BY <1>0, <1>1 DEF Return, Call
<1>2. CASE Reopen
  BY <1>0, <1>2 DEF Reopen, GoThen, Call
<1>3. CASE StopJob
  BY <1>1, <1>3 DEF StopJob
<1>4. CASE call.then = "return" /\ DispatchReady
  <2>1. (call' = call /\ At("ready")) \/ \E k : With("ownReady", k)
    BY <1>4 DEF DispatchReady
  <2> QED  BY <1>0, <1>4, <2>1 DEF With, Call, At
<1>5. CASE call.then = "return" /\ OwnReady
  BY <1>0, <1>5 DEF OwnReady, Go, Call
<1>6. CASE call.then = "return" /\ NoneReady
  BY <1>1, <1>6 DEF NoneReady
<1> QED  BY <1>0, <1>2, <1>3, <1>4, <1>5, <1>6, HandlersAt

LEMMA JudgeKept ==
  ASSUME ReworkStep, call.run.Role = "holistic", job.Status # "ready_to_publish"
  PROVE  Mark \/ call'.run = call.run
<1>1. call # Idle
  BY DEF Idle, NoRun, RunOf
<1>2. CASE Beside
  BY <1>2 DEF Beside
<1> QED  BY <1>1, <1>2, StepBusy, JudgeGoes, PlainFacts, ReworkFacts

LEMMA NextJudgePath ==
  ASSUME ReworkStep
  PROVE  JudgePath'
<1> SUFFICES ASSUME call'.run.Role = "holistic"
             PROVE  \/ call'.at \in {"reopen", "fail", "mark"}
                    \/ call'.at \in {"ready", "ownReady"} /\ call'.then = "return"
                    \/ job'.Status = "ready_to_publish"
  BY DEF JudgePath
<1>0. call'.run # NoRun /\ PlainStep /\ JudgePath
  BY ReworkFacts
<1>1. CASE call' = call
  BY <1>0, <1>1, ReadyKept DEF JudgePath
<1>2. CASE Continue /\ call'.run = call.run
  <2>1. ~Mark
    BY <1>0 DEF Mark, Error, Idle
  <2> QED  BY <1>0, <1>2, <2>1, JudgeGoes, ReadyKept
<1>3. CASE \E run \in DOMAIN runs : ApplyOutcome(run) /\ ~ApplySettled(run) /\ call = Idle /\ call'.run = run
  <2>1. PICK run \in DOMAIN runs : ApplyOutcome(run) /\ ~ApplySettled(run) /\ call'.run = run
    BY <1>3
  <2>2. ApplyFailure(run) \/ ApplyHolistic(run)
    BY <2>1 DEF ApplyOutcome, ApplyPlan, ApplyWriterCommit, ApplyWriterNoChanges, ApplyWriterBlocked,
       ApplyWriterHandoff, ApplyReview, Working
  <2>3. CASE ApplyFailure(run)
    BY <2>3 DEF ApplyFailure, Enter
  <2>4. CASE ApplyHolistic(run) /\ runs[run] # "approved"
    BY <2>4 DEF ApplyHolistic, Enter
  <2>5. CASE ApplyHolistic(run) /\ runs[run] = "approved"
    <3>1. RecordHolisticReview(run.Attempt, job.IntegrationSHA, "approved")
      BY <2>5 DEF ApplyHolistic
    <3> QED  BY <1>0, <3>1, PlainFacts DEF RecordHolisticReview, Job, Terminal, pipelineVars
  <2> QED  BY <2>2, <2>3, <2>4, <2>5
<1> QED  BY <1>0, <1>1, <1>2, <1>3, StepRun, PlainFacts

(* A round whose answer is to come has its reviewer recorded at once with   *)
(* its launch, and is forgotten with its answer.                            *)
LEMMA JudgingComes ==
  ASSUME ReworkStep, ~Judging, Judging', job.Status # "ready_to_publish"
  PROVE  RoundOwned
<1> SUFFICES ASSUME ~RoundOwned  PROVE FALSE
  OBVIOUS
<1>0. PlainStep /\ IInv /\ [Next]_vars
  BY ReworkFacts, PlainFacts
<1>1. job'.HolisticReviewRunID = job.HolisticReviewRunID /\ job.HolisticReviewRunID # 0
  BY ReworkFacts DEF Judging
<1>2. Judge' = Judge /\ Judge \in DOMAIN runs
  BY <1>1, ReworkFacts DEF Judge, RunOf
<1>3. runs'[Judge] # "applied" /\ call'.run # Judge
  BY <1>2 DEF Judging
<1>4. runs[Judge] # "applied"
  BY <1>0, <1>2, <1>3, AppliedStays
<1>5. call.run = Judge
  BY <1>1, <1>2, <1>4 DEF Judging
<1>6. ~Mark
  BY <1>2, <1>3, <1>5 DEF Mark, Marked
<1> QED  BY <1>3, <1>5, <1>6, JudgeKept, ReworkFacts

LEMMA NextJudgeInRound ==
  ASSUME ReworkStep
  PROVE  JudgeInRound'
<1> SUFFICES ASSUME Judging'  PROVE UnderReview' \/ job'.Status = "ready_to_publish"
  BY DEF JudgeInRound
<1>0. PlainStep /\ job \in Job /\ JudgeInRound
  BY ReworkFacts, PlainFacts
<1>1. CASE job.Status = "ready_to_publish"
  BY <1>0, <1>1, ReadyKept
<1>2. CASE UnderReview
  <2>1. ASSUME Requested  PROVE FALSE
    <3>1. PICK run \in DOMAIN runs : ApplyHolistic(run)
      BY <2>1 DEF Requested
    <3>2. /\ call'.run = run /\ call = Idle /\ run.Attempt = job.HolisticReviewRunID
          /\ run = HolisticRun
      BY <3>1 DEF ApplyHolistic, Applicable, Owns, Enter
    <3>3. ~RoundOwned
      BY <3>2 DEF RoundOwned, At, Idle
    <3>4. job'.HolisticReviewRunID = job.HolisticReviewRunID
      BY <3>3, ReworkFacts DEF Judging
    <3>5. run = Judge'
      BY <3>2, <3>4 DEF HolisticRun, Judge, RunOf
    <3> QED  BY <3>2, <3>5 DEF Judging
  <2> QED  BY <1>0, <1>2, <2>1, RoundStays
<1>3. CASE ~UnderReview /\ job.Status # "ready_to_publish"
  <2>1. RoundOwned
    BY <1>0, <1>3, JudgingComes DEF JudgeInRound
  <2>2. UnderReview
    BY <1>0, <2>1, PlainFacts DEF RoundOwned, RoundPlaces, Tested, UnderReview, CIPassedForHead, At
  <2> QED  BY <1>3, <2>2
<1> QED  BY <1>1, <1>2, <1>3

(* CI passes only as the handler that observes it goes on to a new round. *)
LEMMA PassesOnce ==
  ASSUME PlainStep, job'.CI.State = "passed"
  PROVE  job.CI.State = "passed" \/ call'.at = "resetRound"
<1>0. job \in Job /\ ~RoundFails
  BY PlainFacts DEF RoundFails, Terminal
<1>1. CASE \/ RoundRests \/ RoundLeft \/ RoundPublished \/ RoundResets \/ RoundOwned
  BY <1>0, <1>1 DEF RoundRests, RoundLeft, RoundPublished, SameRound, RoundResets, ResetHolisticRound,
     RoundOwned, StartHolisticReviewer, Job
<1>2. CASE CIBegins
  BY <1>0, <1>2 DEF CIBegins, StartCI, Job
<1>3. CASE CIObserved
  <2>1. PICK state, print : RecordCI(pr.head, state, print) /\ (state = "passed" => call'.at = "resetRound")
    BY <1>3 DEF CIObserved
  <2>2. job' = job \/ job'.CI.State = state
    BY <1>0, <2>1 DEF RecordCI, Job, CIRecord
  <2> QED  BY <2>1, <2>2
<1>4. CASE RoundJudged
  BY <1>0, <1>4 DEF RoundJudged, RecordHolisticReview, Job, pipelineVars
<1> QED  BY <1>0, <1>1, <1>2, <1>3, <1>4, PlainFacts DEF RoundStep

(* The answer that a free handler applies is one that is waited for. *)
LEMMA JudgedInRound ==
  ASSUME ReworkStep, call = Idle, NEW run \in DOMAIN runs, Applicable(run), run.Role = "holistic"
  PROVE  Judging
<1>1. /\ run.Attempt = job.HolisticReviewRunID /\ run = HolisticRun /\ runs[run] # "applied"
  BY DEF Applicable, Owns, Answered
<1>2. run = Judge
  BY <1>1 DEF HolisticRun, Judge, RunOf
<1>3. run.Attempt # 0 /\ call.run # run
  BY ReworkFacts, PlainFacts, SteadyFacts DEF Idle
<1> QED  BY <1>1, <1>2, <1>3 DEF Judging

(* A round begins where it is reset; otherwise it stays. *)
LEMMA RoundEnters ==
  ASSUME ReworkStep, InRound' \/ call'.at = "reopen", ~InRound, ~At("reopen")
  PROVE  RoundResets
<1> SUFFICES ASSUME ~RoundResets  PROVE FALSE
  OBVIOUS
<1>0. PlainStep /\ job \in Job /\ job.Status # "ready_to_publish"
  BY ReworkFacts, PlainFacts DEF InRound
<1>1. ~RoundOwned
  <2> SUFFICES ASSUME RoundOwned  PROVE FALSE
    OBVIOUS
  <2>1. call.at = "ownHolistic"
    BY DEF RoundOwned, At
  <2>2. job.HolisticReviewRunID = 0 /\ job.CI.State = "passed"
    BY <1>0, <2>1, PlainFacts DEF Awaited, RoundStarts, RoundPlaces, At
  <2> QED  BY <2>1, <2>2 DEF InRound, At
<1>2. ~Judging'
  BY <1>0, <1>1, JudgingComes DEF InRound
<1>3. call'.at # "reopen"
  <2> SUFFICES ASSUME call'.at = "reopen"  PROVE FALSE
    OBVIOUS
  <2>1. ~Beside
    BY DEF Beside, At
  <2>2. Arrives
    BY <1>0, <2>1, StepArrives, PlainFacts DEF Watched
  <2>3. PICK run \in DOMAIN runs : ApplyHolistic(run)
    BY <2>2 DEF Arrives
  <2>4. call = Idle /\ Applicable(run) /\ run.Role = "holistic"
    BY <2>3 DEF ApplyHolistic, Enter
  <2> QED  BY <2>4, JudgedInRound DEF InRound
<1>4. ~RoundJudged
  BY JudgedInRound DEF RoundJudged, InRound
<1>5. job'.Status # "ready_to_publish"
  BY <1>0, <1>1, <1>4, PlainFacts DEF RoundStep, RoundRests, RoundLeft, RoundFails, RoundPublished, CIBegins,
     StartCI, CIObserved, RecordCI, Job
<1>6. ASSUME job'.HolisticReviewRunID = 0, job'.CI.State = "passed", call'.at # "resetRound"
      PROVE  FALSE
  <2>1. job.HolisticReviewRunID = 0
    BY <1>0, <1>1, <1>6, RoundsGrow, PlainFacts
  <2>2. At("resetRound")
    BY <1>0, <1>6, <2>1, PassesOnce DEF InRound
  <2>3. ~Beside /\ call # Idle
    BY <1>6, <2>2 DEF Beside, At, Idle
  <2>4. NewHolisticRound
    BY <1>0, <2>2, <2>3, StepBusy, HandlersAt, PlainFacts DEF At
  <2> QED  BY <2>2, <2>4 DEF NewHolisticRound, RoundResets
<1> QED  BY <1>2, <1>3, <1>5, <1>6 DEF InRound, At

LEMMA NextRoundFresh ==
  ASSUME ReworkStep
  PROVE  RoundFresh'
<1> SUFFICES ASSUME InRound' \/ call'.at = "reopen",
                    NEW k \in DOMAIN tasks', tasks'[k].Status = "no_changes"
             PROVE  tasks'[k].WriterAttempts <= job'.HolisticRounds
  BY DEF RoundFresh, NoneInRound, At
<1>1. k \in DOMAIN tasks /\ RoundFresh
  BY ReworkFacts, PlainFacts DEF TasksChange, Fresh
<1> DEFINE t == tasks[k]
           u == tasks'[k]
<1>2. /\ Changes(k, t, u) /\ TaskSpent(k) /\ t.WriterAttempts \in Nat
      /\ job.HolisticRounds \in Nat /\ job'.HolisticRounds \in Nat
      /\ job.HolisticRounds <= job'.HolisticRounds
  BY <1>1, SpentFacts
<1>3. CASE InRound \/ At("reopen")
  <2>1. Done(t.Status) /\ NoneInRound
    BY <1>1, <1>3, AllDone DEF RoundFresh
  <2>2. t.Status = "no_changes" /\ u.WriterAttempts = t.WriterAttempts
    BY <1>2, <2>1 DEF Done, Changes, Rests, Starts, Completes, FindsNothing, GetsReviewer, IsJudged, IsBlocked,
       BeginsIntegration, EndsIntegration, BecomesEligible, IsReleased, LosesReviewer, IsReopened,
       SameCounts, SameOwners
  <2> QED  BY <1>1, <1>2, <2>1, <2>2 DEF NoneInRound
<1>4. CASE ~(InRound \/ At("reopen"))
  <2>1. RoundResets
    BY <1>4, RoundEnters
  <2>2. tasks' = tasks /\ job'.HolisticRounds = job.HolisticRounds + 1
    BY <2>1, ReworkFacts, RoundsGrow, PlainFacts DEF RoundResets, ResetHolisticRound
  <2> QED  BY <1>2, <2>2 DEF TaskSpent
<1> QED  BY <1>3, <1>4

LEMMA NextReworkEnds ==
  ASSUME ReworkStep
  PROVE  ReworkEnds'
BY NextAttemptsSpent, NextInHand, NextJudgeInRound, NextJudgePath, NextRoundFresh DEF ReworkEnds

(* A job that ends, or has ended, leaves its tasks as they are. *)
LEMMA EndKeepsTasks ==
  ASSUME IInv, [Next]_vars, left'.operator = left.operator, job.Status # "paused",
         job'.Status \in Ended
  PROVE  /\ DOMAIN tasks' = DOMAIN tasks
         /\ \A k \in DOMAIN tasks : /\ tasks'[k].Status = tasks[k].Status
                                    /\ tasks'[k].WriterRunID = tasks[k].WriterRunID
<1> DEFINE Same == /\ DOMAIN tasks' = DOMAIN tasks
                   /\ \A k \in DOMAIN tasks : /\ tasks'[k].Status = tasks[k].Status
                                              /\ tasks'[k].WriterRunID = tasks[k].WriterRunID
<1>0. job \in Job /\ tasks \in [DOMAIN tasks -> Task] /\ left \in Budgets
  BY InvFacts DEF PipelineTypeOK, EnvTypeOK
<1>1. CASE UNCHANGED tasks
  BY <1>1
<1>2. CASE Reload
  BY <1>0, <1>2 DEF Reload, Task
<1>3. CASE job.Status \in Ended
  BY <1>1, <1>2, <1>3, NotLiveStep DEF Live, pipelineVars
<1>4. ASSUME job.Status \notin Ended  PROVE Same
  <2>1. CASE TaskTransition
    <3>1. FALSE
      BY <1>0, <1>4, <2>1, TaskJob DEF TaskMovesJob, Job, Ended
    <3> QED  BY <3>1
  <2>2. CASE PlanTransition
    <3>1. PlanMovesJob
      BY <2>2, PlanJob
    <3>2. UNCHANGED pipelineVars
      BY <1>0, <1>4, <3>1 DEF PlanMovesJob, Job, Ended
    <3> QED  BY <1>1, <3>2 DEF pipelineVars
  <2>3. CASE JobTransition
    <3>1. UNCHANGED tasks
      BY <2>3 DEF JobTransition, StartPlanning, RecordPullRequest, RecordMerge, FailJob, StartCI,
         BeginCIReplan, ResetHolisticRound, StartHolisticReviewer, RetryPlanning, RecordCI,
         RecordHolisticReview, pipelineVars
    <3> QED  BY <1>1, <3>1
  <2>4. CASE OperatorTransition
    <3>1. ~(left' = [left EXCEPT !.operator = @ - 1])
      BY <1>0 DEF Budgets
    <3>2. FALSE
      BY <2>4, <3>1 DEF OperatorTransition, Resume
    <3> QED  BY <3>2
  <2> QED  BY <1>1, <1>2, <2>1, <2>2, <2>3, <2>4, StepTransition DEF Transition, pipelineVars
<1> QED  BY <1>3, <1>4

LEMMA NextKInv ==
  IInv /\ PlanInv /\ MInv /\ CInv /\ WInv /\ OInv /\ BInv /\ HInv /\ RInv /\ GInv /\ LInv /\ KInv
    /\ [Next]_vars => KInv'
<1> SUFFICES ASSUME IInv, PlanInv, MInv, CInv, WInv, OInv, BInv, HInv, RInv, GInv, LInv, KInv, [Next]_vars,
                    FewerRounds, Uneventful'
             PROVE  BlockedResumable' /\ (~Terminal(job'.Status) => ReworkEnds')
  BY DEF KInv, FewerRounds
<1>1. Uneventful /\ Alone /\ Steady' /\ Untouched'
  <2>1. Undisturbed' /\ Steady' /\ Untouched'
    BY DEF Uneventful, Undisturbed, Steady, Untouched
  <2>2. Undisturbed /\ Alone
    BY <2>1, UndisturbedBefore DEF GInv
  <2>3. Steady
    BY <2>1, SteadyBefore DEF HInv
  <2> QED  BY <2>1, <2>2, <2>3 DEF Uneventful, Steady
<1>2. GateKnows /\ ReopensReviewed /\ OwnersDispatched
  BY <1>1 DEF Uneventful, GInv, OInv, WInv
<1>3. BlockedResumable /\ (~Terminal(job.Status) => ReworkEnds)
  BY <1>1 DEF KInv
<1>4. CASE ~Terminal(job'.Status)
  <2>1. SteadyStep
    BY <1>1, <1>4, SteadyComes
  <2>2. ~Terminal(job.Status)
    BY <2>1 DEF SteadyStep, CalmStep
  <2>3. ReworkStep
    BY <1>1, <1>2, <1>3, <2>1, <2>2 DEF ReworkStep, PlainStep, LInv
  <2>4. ReworkEnds'
    BY <2>3, NextReworkEnds
  <2>5. tasks' \in [DOMAIN tasks' -> Task]
    BY NextIInv DEF IInv, TypeOK, PipelineTypeOK
  <2>6. ASSUME NEW k \in DOMAIN tasks', tasks'[k].Status = "blocked"
        PROVE  tasks'[k].WriterRunID > 0
    <3>1. tasks'[k].WriterRunID # 0
      BY <2>4, <2>6 DEF ReworkEnds, AttemptsSpent, TaskSpent
    <3> QED  BY <2>5, <3>1 DEF Task
  <2> QED  BY <2>4, <2>6 DEF BlockedResumable
<1>5. CASE job'.Status = "no_changes"
  <2>1. NoWork'
    BY <1>1, NextNoWork
  <2> QED  BY <1>5, <2>1 DEF NoWork, BlockedResumable, Terminal
<1>6. CASE job'.Status \in Ended
  <2>1. /\ DOMAIN tasks' = DOMAIN tasks
        /\ \A k \in DOMAIN tasks : /\ tasks'[k].Status = tasks[k].Status
                                   /\ tasks'[k].WriterRunID = tasks[k].WriterRunID
    BY <1>1, <1>2, <1>6, EndKeepsTasks DEF Alone, GateKnows
  <2> QED  BY <1>3, <1>6, <2>1 DEF BlockedResumable, Terminal, Ended
<1> QED  BY <1>4, <1>5, <1>6 DEF Terminal, Ended

LEMMA InitKInv == Init => KInv
<1> SUFFICES ASSUME Init  PROVE KInv
  OBVIOUS
<1>1. tasks = <<>> /\ runs = <<>> /\ call = Idle /\ repo.ahead = {}
  BY DEF Init, PipelineInit
<1>2. DOMAIN tasks = {} /\ DOMAIN runs = {} /\ call.at = "idle" /\ call.run.Role = "none"
  BY <1>1 DEF Idle, NoRun, RunOf
<1>3. BlockedResumable /\ AttemptsSpent
  BY <1>1, <1>2 DEF BlockedResumable, AttemptsSpent
<1>4. InHand /\ JudgePath
  BY <1>2 DEF InHand, JudgePath, At
<1>5. JudgeInRound /\ RoundFresh
  BY <1>2 DEF JudgeInRound, Judging, RoundFresh, NoneInRound
<1> QED  BY <1>3, <1>4, <1>5 DEF KInv, ReworkEnds

(* As long as nothing fails and nobody intervenes, every blocked task has   *)
(* had a writer, whose worktree retry_code_task resumes.  The limit on      *)
(* attempts (server.go 730-747) is above the one on rounds (outcome.go      *)
(* 386-410), and what waits for its first writer has had at most one        *)
(* attempt in each round, since only a task without changes is reopened.    *)
THEOREM BlockedCanResume == Spec => [](FewerRounds /\ Uneventful => BlockedResumable)
<1>1. KInv => (FewerRounds /\ Uneventful => BlockedResumable)
  BY DEF KInv
<1>2. Spec => []KInv
  BY InitPlanInv, NextPlanInv, InitMInv, NextMInv, InitCInv, NextCInv, InitRInv, NextRInv, InitGInv, NextGInv,
     InitLInv, NextLInv, InitKInv, NextKInv, OwnerInvariance, Invariance, PTL DEF Spec
<1> QED  BY <1>1, <1>2, PTL
=============================================================================
