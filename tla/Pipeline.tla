------------------------------ MODULE Pipeline ------------------------------
(***************************************************************************)
(* The durable record of one coding job and the transitions the pipeline   *)
(* store allows on it (internal/pipeline).  Every action is one call of a  *)
(* Store or Controller method: it validates, mutates and saves under the   *)
(* store's mutex, so it is one atomic step.  A call that returns an error  *)
(* leaves the record alone; a call that replays a recorded decision is the *)
(* unchanged branch of the action.  Who calls what, and when, is module    *)
(* Orchestration.                                                          *)
(***************************************************************************)
EXTENDS Naturals, Sequences, FiniteSets, SequencesExt

CONSTANTS Name,              \* task names a planner uses
          NoName,            \* the name part of a key that needs none
          Fingerprint,       \* digests of a failed required check
          NoPrint,           \* the empty fingerprint
          MergePolicies,     \* policies create_code_job may record
          MaxCIReplanRounds  \* maxCIReplanRounds, 2 in the code

ASSUME PipelineAssumption ==
  /\ NoName \notin Name
  /\ NoPrint \notin Fingerprint
  /\ MergePolicies \subseteq {"auto", "manual"}
  /\ MaxCIReplanRounds \in Nat

VARIABLES job,    \* the job's scalar fields
          plan,   \* Plan.Tasks and Plan.IntegrationOrder as key sequences
          tasks   \* the controller-owned state of every planned key

pipelineVars == <<job, plan, tasks>>

-----------------------------------------------------------------------------
(* Statuses and records. *)

JobStatus == {"created", "planning", "planned", "working", "reviewing",
              "integrating", "awaiting_ci", "ci_remediating", "ci_replanning",
              "holistic_reviewing", "ready_to_publish", "published",
              "no_changes", "failed", "paused", "cancelled"}

TaskStatus == {"planned", "working", "reviewing", "changes_requested",
               "approved", "integration_eligible", "integrating", "integrated",
               "no_changes", "blocked"}

Verdict == {"pending", "approved", "changes_requested", "blocked"}

TerminalUncancelled(status) == status \in {"published", "no_changes", "failed"}   \* mutant

Terminal(status) == status \in {"published", "no_changes", "failed", "cancelled"}

(* Task keys.  The code builds strings ("rev2-api", "ci-remediation-3"); a  *)
(* key here is the triple such a string stands for.                         *)
Key == [Origin : {"plan", "revision", "ci", "holistic"}, Round : Nat,
        Name : Name \cup {NoName}]
PlannedKey(round, name) ==
  [Origin |-> IF round = 0 THEN "plan" ELSE "revision", Round |-> round, Name |-> name]
RemediationKey(origin, round) ==
  [Origin |-> origin, Round |-> round, Name |-> NoName]

(* A commit of the integration branch is a positive number; 0 is no SHA.    *)
(* A run ID is the attempt number of the dispatch that owns it, 0 is none.  *)
CIRecord == [HeadSHA : Nat, State : {"none", "pending", "passed", "failed", "blocked"},
             FailureFingerprint : Fingerprint \cup {NoPrint}]
NoCI == [HeadSHA |-> 0, State |-> "none", FailureFingerprint |-> NoPrint]

Job == [Status : JobStatus, PausedFrom : JobStatus \cup {""},
        IntegrationSHA : Nat, HolisticReviewVerdict : Verdict,
        HolisticReviewRunID : Nat, HolisticReviewSHA : Nat, HolisticRounds : Nat,
        CI : CIRecord, CIFailures : [Fingerprint -> Nat],
        CIReplanRounds : Nat, AppliedCIReplanRound : Nat, PlannerRetry : Nat,
        PullRequest : BOOLEAN, MergeState : {"not_requested", "open", "merged"},
        MergePolicy : {"auto", "manual"}]

Task == [Kind : {"implementation", "ci_remediation"}, DependsOn : SUBSET Key,
         Status : TaskStatus, WriterAttempts : Nat, ReviewerAttempts : Nat,
         WriterRunID : Nat, ReviewerRunID : Nat, ReviewVerdict : Verdict,
         BaseSHA : Nat, BlockReason : Fingerprint \cup {NoPrint},
         Reported : Nat,   \* reviewer run of the last report in ReviewHistory
         Repeats : Nat]    \* identical change requests at the end of ReviewHistory

PlannedTask(kind, dependsOn, base, reason) ==
  [Kind |-> kind, DependsOn |-> dependsOn, Status |-> "planned",
   WriterAttempts |-> 0, ReviewerAttempts |-> 0, WriterRunID |-> 0,
   ReviewerRunID |-> 0, ReviewVerdict |-> "pending", BaseSHA |-> base,
   BlockReason |-> reason, Reported |-> 0, Repeats |-> 0]

NoPlan == [Tasks |-> <<>>, IntegrationOrder |-> <<>>]
HasPlan == plan # NoPlan

(* Type correctness of the durable record. *)
PipelineTypeOK ==
  /\ job \in Job
  /\ plan \in [Tasks : Seq(Key), IntegrationOrder : Seq(Key)]
  /\ tasks \in [Range(plan.Tasks) -> Task]

PipelineInit ==
  /\ \E policy \in MergePolicies :
       job = [Status |-> "created", PausedFrom |-> "", IntegrationSHA |-> 0,
              HolisticReviewVerdict |-> "pending", HolisticReviewRunID |-> 0,
              HolisticReviewSHA |-> 0, HolisticRounds |-> 0, CI |-> NoCI,
              CIFailures |-> [f \in Fingerprint |-> 0], CIReplanRounds |-> 0,
              AppliedCIReplanRound |-> 0, PlannerRetry |-> 0, PullRequest |-> FALSE,
              MergeState |-> "not_requested", MergePolicy |-> policy]
  /\ plan = NoPlan
  /\ tasks = <<>>

-----------------------------------------------------------------------------
(* Plans.  A proposal is what a planner answers: task names, an integration *)
(* order and the names each task depends on.                                *)

Proposal == [Tasks : Seq(Name), IntegrationOrder : Seq(Name),
             DependsOn : [Name -> SUBSET Name]]

(* The proposal with its names turned into keys of the given revision round;*)
(* a dependency outside the revision names a task of the first plan.        *)
Keyed(p, round) ==
  LET key(n) == PlannedKey(IF n \in Range(p.Tasks) THEN round ELSE 0, n)
      keys(s) == [i \in DOMAIN s |-> key(s[i])]
      order == IF round > 0 /\ p.IntegrationOrder = <<>> THEN p.Tasks
               ELSE p.IntegrationOrder
  IN  [Tasks |-> keys(p.Tasks), IntegrationOrder |-> keys(order),
       Added |-> [k \in Range(keys(p.Tasks)) |->
                    PlannedTask("implementation",
                                {key(d) : d \in p.DependsOn[k.Name]}, 0, NoPrint)]]

Precedes(order, a, b) ==
  \E i, j \in DOMAIN order : i < j /\ order[i] = a /\ order[j] = b

(* validatePlan: every key listed once and ordered once, dependencies known,*)
(* never on oneself, and integrated first.                                  *)
ValidPlanUncounted(keys, order, dependsOn) ==   \* mutant: a short order passes
  keys # <<>> /\ IsInjective(keys) /\ IsInjective(order) /\ Range(order) \subseteq Range(keys)

ValidPlan(keys, order, dependsOn) ==
  /\ keys # <<>>
  /\ IsInjective(keys)
  /\ \A k \in Range(keys) : dependsOn[k] \subseteq Range(keys) \ {k}
  /\ Len(order) = Len(keys)
  /\ IsInjective(order)
  /\ Range(order) \subseteq Range(keys)
  /\ \A k \in Range(keys) : \A d \in dependsOn[k] : Precedes(order, d, k)

DoneOrBlocked(status) == status \in {"integrated", "no_changes", "blocked"}   \* mutant
DoneIntegrated(status) == status = "integrated"   \* mutant

Done(status) == status \in {"integrated", "no_changes"}

(* integrationPrerequisitesMet, over task states ts that may be mid-update. *)
PrerequisitesMet(ts, k) ==
  \A j \in DOMAIN ts : Precedes(plan.IntegrationOrder, j, k) => Done(ts[j].Status)

SomeIntegrated(ts) == \E k \in DOMAIN ts : Done(ts[k].Status)   \* mutant

AllIntegrated(ts) == DOMAIN ts # {} /\ \A k \in DOMAIN ts : Done(ts[k].Status)
HasIntegrated(ts) == \E k \in DOMAIN ts : ts[k].Status = "integrated"

(* Approved tasks whose turn has come.  Making one eligible completes no    *)
(* prerequisite, so the loop over the tasks is one simultaneous update.     *)
RefreshEligibility(ts) ==
  [k \in DOMAIN ts |->
     IF ts[k].Status = "approved" /\ PrerequisitesMet(ts, k)
     THEN [ts[k] EXCEPT !.Status = "integration_eligible"] ELSE ts[k]]

Update(k, t) == [tasks EXCEPT ![k] = t]
AppendToOrder(k) == [plan EXCEPT !.IntegrationOrder = Append(@, k)]   \* mutant

Append1(k) == [Tasks |-> Append(plan.Tasks, k),
               IntegrationOrder |-> Append(plan.IntegrationOrder, k)]
Extend(added) == [k \in DOMAIN tasks \cup DOMAIN added |->
                    IF k \in DOMAIN added THEN added[k] ELSE tasks[k]]

-----------------------------------------------------------------------------
(* Planning. *)

StartPlanning ==
  /\ job.Status = "created"
  /\ job' = [job EXCEPT !.Status = "planning"]
  /\ UNCHANGED <<plan, tasks>>

(* ErrPlanExists is not an error to applyPlan: it goes on with the plan the *)
(* job has.                                                                 *)
SubmitPlan(p) ==
  LET draft == Keyed(p, 0)
      dependsOn == [k \in DOMAIN draft.Added |-> draft.Added[k].DependsOn]
  IN  /\ ValidPlan(draft.Tasks, draft.IntegrationOrder, dependsOn)
      /\ IF HasPlan THEN UNCHANGED pipelineVars
         ELSE /\ job.Status = "planning"
              /\ job' = [job EXCEPT !.Status = "planned"]
              /\ plan' = [Tasks |-> draft.Tasks, IntegrationOrder |-> draft.IntegrationOrder]
              /\ tasks' = draft.Added

RevisePlan(p) ==
  LET draft == Keyed(p, job.CIReplanRounds)
      combined == [Tasks |-> plan.Tasks \o draft.Tasks,
                   IntegrationOrder |-> plan.IntegrationOrder \o draft.IntegrationOrder]
      extended == Extend(draft.Added)
      dependsOn == [k \in DOMAIN extended |-> extended[k].DependsOn]
  IN  /\ p.Tasks # <<>> /\ IsInjective(p.Tasks)
      /\ HasPlan
      /\ IF job.Status # "ci_replanning"
         THEN /\ job.CIReplanRounds > 0
              /\ job.AppliedCIReplanRound = job.CIReplanRounds
              /\ UNCHANGED pipelineVars
         ELSE /\ ValidPlan(combined.Tasks, combined.IntegrationOrder, dependsOn)
              /\ plan' = combined
              /\ tasks' = extended
              /\ job' = [job EXCEPT !.AppliedCIReplanRound = job.CIReplanRounds,
                                    !.Status = "planned"]

RetryPlanning ==
  /\ job.Status \in {"planning", "ci_replanning"}
  /\ job' = [job EXCEPT !.PlannerRetry = @ + 1]
  /\ UNCHANGED <<plan, tasks>>

-----------------------------------------------------------------------------
(* Writers and reviewers. *)

RecordTaskBase(k, sha) ==
  /\ tasks[k].BaseSHA \in {0, sha}
  /\ tasks' = [tasks EXCEPT ![k].BaseSHA = sha]
  /\ UNCHANGED <<job, plan>>

StartTaskWorkUncounted(k, run) ==   \* mutant: the attempt is not counted
  /\ tasks' = [tasks EXCEPT ![k].Status = "working", ![k].WriterRunID = run,
                            ![k].ReviewerRunID = 0]
  /\ job' = [job EXCEPT !.Status = "working"]
  /\ UNCHANGED plan

StartTaskWork(k, run) ==
  LET t == tasks[k] IN
  IF t.Status = "working" /\ t.WriterRunID = run THEN UNCHANGED pipelineVars
  ELSE /\ t.Status \in {"planned", "changes_requested", "blocked"}
       /\ tasks' = Update(k, [t EXCEPT !.Status = "working", !.WriterRunID = run,
                                       !.ReviewerRunID = 0, !.ReviewVerdict = "pending",
                                       !.WriterAttempts = @ + 1])
       /\ job' = [job EXCEPT !.Status = "working"]
       /\ UNCHANGED plan

RecordWriterRelease(k, run) ==   \* mutant: completion gives the owner up
  /\ tasks[k].Status = "working" /\ tasks[k].WriterRunID = run
  /\ tasks' = [tasks EXCEPT ![k].Status = "reviewing", ![k].WriterRunID = 0]
  /\ job' = [job EXCEPT !.Status = "reviewing"]
  /\ UNCHANGED plan

RecordWriterCompletion(k, run) ==
  LET t == tasks[k] IN
  /\ t.Status = "working" /\ t.WriterRunID = run
  /\ tasks' = Update(k, [t EXCEPT !.Status = "reviewing", !.ReviewVerdict = "pending"])
  /\ job' = [job EXCEPT !.Status = "reviewing"]
  /\ UNCHANGED plan

RecordNoChanges(k, run) ==
  LET t  == tasks[k]
      ts == Update(k, [t EXCEPT !.Status = "no_changes"])
  IN  /\ t.Status = "working" /\ t.WriterRunID = run
      /\ tasks' = RefreshEligibility(ts)
      /\ job' = [job EXCEPT !.Status =
                   IF ~AllIntegrated(ts) THEN @
                   ELSE IF HasIntegrated(ts) THEN "holistic_reviewing" ELSE "no_changes"]
      /\ UNCHANGED plan

StartReviewer(k, run) ==
  LET t == tasks[k] IN
  /\ t.Status = "reviewing"
  /\ t.ReviewerRunID \in {0, run}
  /\ tasks' = IF t.ReviewerRunID = run THEN tasks
              ELSE Update(k, [t EXCEPT !.ReviewerRunID = run, !.ReviewerAttempts = @ + 1])
  /\ UNCHANGED <<job, plan>>

(* The reviewer a late report makes the owner: a job saved before revision  *)
(* work cleared the superseded reviewer lets a newer one take over.         *)
Adopted(t, run) ==
  IF t.Status = "reviewing" /\ t.ReviewerRunID # run /\ t.ReviewerAttempts < t.WriterAttempts
  THEN [t EXCEPT !.ReviewerRunID = run, !.ReviewerAttempts = @ + 1] ELSE t

(* One report per run enters the history; same says whether it repeats the  *)
(* summary and the findings of the one before.                              *)
RecordReviewReport(k, run, verdict, same) ==
  LET t == Adopted(tasks[k], run) IN
  /\ tasks' = Update(k, IF t.ReviewerRunID # run \/ t.Reported = run THEN t
                        ELSE [t EXCEPT !.Reported = run,
                                       !.Repeats = IF verdict # "changes_requested" THEN 0
                                                   ELSE IF same THEN @ + 1 ELSE 1])
  /\ UNCHANGED <<job, plan>>

ReviewRecorded(t, run, verdict) ==
  t.ReviewerRunID = run /\ t.ReviewVerdict = verdict /\ t.Status # "reviewing"

RecordReview(k, run, verdict) ==
  LET t == Adopted(tasks[k], run) IN
  IF ReviewRecorded(tasks[k], run, verdict) THEN UNCHANGED pipelineVars
  ELSE /\ t.Status = "reviewing" /\ t.ReviewerRunID \in {0, run}
       /\ tasks' = Update(k,
            [t EXCEPT !.ReviewerAttempts = IF t.ReviewerRunID = 0 THEN @ + 1 ELSE @,
                      !.ReviewerRunID = run, !.ReviewVerdict = verdict,
                      !.Status = CASE verdict = "changes_requested" -> "changes_requested"
                                   [] verdict = "blocked" -> "blocked"
                                   [] verdict = "approved" /\ PrerequisitesMet(tasks, k)
                                        -> "integration_eligible"
                                   [] OTHER -> "approved"])
       /\ UNCHANGED <<job, plan>>

(* The stored reason is never a fingerprint once the task is blocked. *)
BlockTask(k) ==
  /\ tasks' = Update(k, IF tasks[k].Status = "blocked" THEN tasks[k]
                        ELSE [tasks[k] EXCEPT !.Status = "blocked", !.BlockReason = NoPrint])
  /\ UNCHANGED <<job, plan>>

RetryWriter(k, run) ==
  /\ tasks[k].Status = "working" /\ tasks[k].WriterRunID = run
  /\ tasks' = Update(k, [tasks[k] EXCEPT !.WriterRunID = 0, !.Status = "planned"])
  /\ job' = [job EXCEPT !.Status = "planned"]
  /\ UNCHANGED plan

RetryReview(k, run) ==
  /\ tasks[k].Status = "reviewing" /\ tasks[k].ReviewerRunID = run
  /\ tasks' = Update(k, [tasks[k] EXCEPT !.ReviewerRunID = 0])
  /\ UNCHANGED <<job, plan>>

Reopened(t) == [t EXCEPT !.Status = "planned", !.WriterRunID = 0]

ResumeBlockedWriter(k) ==
  /\ tasks[k].Status = "blocked" /\ tasks[k].WriterRunID # 0
  /\ tasks' = Update(k, [Reopened(tasks[k]) EXCEPT !.BlockReason = NoPrint])
  /\ job' = [job EXCEPT !.Status = "planned"]
  /\ UNCHANGED plan

ReopenNoChangesTask(k) ==
  /\ tasks[k].Status = "no_changes"
  /\ tasks' = Update(k, [Reopened(tasks[k]) EXCEPT !.BlockReason = NoPrint])
  /\ job' = [job EXCEPT !.Status = "planned"]
  /\ UNCHANGED plan

-----------------------------------------------------------------------------
(* Integration. *)

StartIntegration(k) ==
  /\ tasks[k].Status = "integration_eligible"
  /\ PrerequisitesMet(tasks, k)   \* else ErrDependencyGate
  /\ tasks' = [tasks EXCEPT ![k].Status = "integrating"]
  /\ job' = [job EXCEPT !.Status = "integrating"]
  /\ UNCHANGED plan

RecordIntegration(k, sha) ==
  LET ts == [tasks EXCEPT ![k].Status = "integrated"] IN
  /\ tasks[k].Status = "integrating"
  /\ tasks' = RefreshEligibility(ts)
  /\ job' = [job EXCEPT !.IntegrationSHA = sha,
                        !.Status = IF AllIntegrated(ts) THEN "holistic_reviewing" ELSE @]
  /\ UNCHANGED plan

-----------------------------------------------------------------------------
(* Required CI on the draft pull request. *)

RecordPullRequest ==
  /\ job.Status \in {"ready_to_publish", "holistic_reviewing"}
  /\ ~job.PullRequest /\ job.MergeState = "not_requested"
  /\ job' = [job EXCEPT !.PullRequest = TRUE, !.MergeState = "open"]
  /\ UNCHANGED <<plan, tasks>>

StartCIOnce(sha) ==   \* mutant: a recorded CI is kept for the next head
  /\ job.Status \in {"holistic_reviewing", "awaiting_ci"}
  /\ job' = [job EXCEPT !.Status = "awaiting_ci",
                        !.CI = IF @ = NoCI THEN [NoCI EXCEPT !.HeadSHA = sha, !.State = "pending"]
                               ELSE [@ EXCEPT !.State = "pending"]]
  /\ UNCHANGED <<plan, tasks>>

StartCI(sha) ==
  /\ job.Status \in {"holistic_reviewing", "awaiting_ci"}
  /\ job' = IF job.CI.HeadSHA = sha /\ job.Status = "awaiting_ci" THEN job
            ELSE [job EXCEPT !.Status = "awaiting_ci",
                             !.CI = [HeadSHA |-> sha, State |-> "pending",
                                     FailureFingerprint |-> NoPrint]]
  /\ UNCHANGED <<plan, tasks>>

(* Results for another head are ignored; a failure is counted once until    *)
(* the recorded state or fingerprint changes.                               *)
RecordCI(sha, state, print) ==
  LET counted == /\ state = "failed" /\ print # NoPrint
                 /\ (job.CI.State # "failed" \/ job.CI.FailureFingerprint # print)
      status  == CASE state = "passed" -> "holistic_reviewing"
                   [] state = "blocked" -> "failed"
                   [] OTHER -> job.Status
      ci == [job.CI EXCEPT !.State = state, !.FailureFingerprint = print]
      failures == IF counted THEN [job.CIFailures EXCEPT ![print] = @ + 1]
                  ELSE job.CIFailures
  IN  /\ job' = IF job.CI.HeadSHA # sha THEN job
                ELSE [job EXCEPT !.CI = ci, !.Status = status, !.CIFailures = failures]
      /\ UNCHANGED <<plan, tasks>>

AwaitsRepair(print) ==
  /\ job.Status = "awaiting_ci" /\ job.CI.State = "failed"
  /\ job.CI.FailureFingerprint = print

StartCIRemediation(print) ==
  LET key == RemediationKey("ci", Len(plan.Tasks) + 1)
      open(t) == /\ t.Kind = "ci_remediation"
                 /\ t.BaseSHA = job.CI.HeadSHA /\ t.BlockReason = print
  IN  /\ AwaitsRepair(print)
      /\ IF \E k \in DOMAIN tasks : open(tasks[k]) THEN UNCHANGED pipelineVars
         ELSE /\ plan' = Append1(key)
              /\ tasks' = Extend([k \in {key} |->
                            PlannedTask("ci_remediation", {}, job.CI.HeadSHA, print)])
              /\ job' = [job EXCEPT !.Status = "ci_remediating"]

BeginCIReplanUnbounded(print) ==   \* mutant: no limit
  /\ AwaitsRepair(print)
  /\ job' = [job EXCEPT !.CIReplanRounds = @ + 1, !.PlannerRetry = 0,
                        !.Status = "ci_replanning"]
  /\ UNCHANGED <<plan, tasks>>

BeginCIReplanUncounted(print) ==   \* mutant: the round is not counted
  /\ AwaitsRepair(print)
  /\ job' = [job EXCEPT !.PlannerRetry = 0, !.Status = "ci_replanning"]
  /\ UNCHANGED <<plan, tasks>>

BeginCIReplan(print) ==
  /\ AwaitsRepair(print)
  /\ job' = IF job.CIReplanRounds >= MaxCIReplanRounds
            THEN [job EXCEPT !.Status = "failed"]
            ELSE [job EXCEPT !.CIReplanRounds = @ + 1, !.PlannerRetry = 0,
                             !.Status = "ci_replanning"]
  /\ UNCHANGED <<plan, tasks>>

-----------------------------------------------------------------------------
(* Holistic review, publication and operator controls. *)

ResetHolisticVerdict ==   \* mutant: the old run stays the owner
  /\ job.Status = "holistic_reviewing"
  /\ job' = [job EXCEPT !.HolisticRounds = @ + 1, !.HolisticReviewVerdict = "pending"]
  /\ UNCHANGED <<plan, tasks>>

ResetHolisticRound ==
  /\ job.Status = "holistic_reviewing"
  /\ job' = [job EXCEPT !.HolisticRounds = @ + 1, !.HolisticReviewVerdict = "pending",
                        !.HolisticReviewRunID = 0, !.HolisticReviewSHA = 0]
  /\ UNCHANGED <<plan, tasks>>

StartHolisticReviewer(run, sha) ==
  /\ job.Status = "holistic_reviewing" /\ AllIntegrated(tasks)
  /\ job.IntegrationSHA = sha /\ job.HolisticReviewRunID \in {0, run}
  /\ job' = [job EXCEPT !.HolisticReviewRunID = run, !.HolisticReviewSHA = sha]
  /\ UNCHANGED <<plan, tasks>>

RecordHolisticReview(run, sha, verdict) ==
  LET owned == job.HolisticReviewRunID # 0 IN
  IF /\ job.Status \in {"ready_to_publish", "published"}
     /\ job.HolisticReviewRunID = run /\ job.HolisticReviewSHA = sha
     /\ job.HolisticReviewVerdict = verdict
  THEN UNCHANGED pipelineVars
  ELSE /\ job.Status = "holistic_reviewing" /\ AllIntegrated(tasks)
       /\ job.HolisticReviewRunID \in {0, run}
       /\ job.IntegrationSHA = sha
       /\ job' = [job EXCEPT !.HolisticReviewRunID = run,
                             !.HolisticReviewSHA = IF owned THEN @ ELSE sha,
                             !.HolisticReviewVerdict = verdict,
                             !.Status = IF verdict = "approved" THEN "ready_to_publish" ELSE @]
       /\ UNCHANGED <<plan, tasks>>

Incomplete(t) == t.Status = "no_changes" \/ (t.Status = "blocked" /\ t.WriterRunID # 0)

ReopenIncompleteTasks ==
  /\ \E k \in DOMAIN tasks : Incomplete(tasks[k])
  /\ tasks' = [k \in DOMAIN tasks |->
       IF ~Incomplete(tasks[k]) THEN tasks[k]
       ELSE IF tasks[k].Status = "blocked" THEN [Reopened(tasks[k]) EXCEPT !.BlockReason = NoPrint]
       ELSE Reopened(tasks[k])]
  /\ job' = [job EXCEPT !.Status = "planned"]
  /\ UNCHANGED plan

(* A second request in the same round finds its key in the plan and changes *)
(* nothing, the job's status included.                                      *)
StartReviewRemediation ==
  LET key == RemediationKey("holistic", job.HolisticRounds) IN
  /\ job.Status = "holistic_reviewing" /\ HasPlan
  /\ job.HolisticReviewVerdict = "changes_requested"
  /\ IF key \in DOMAIN tasks THEN UNCHANGED pipelineVars
     ELSE /\ plan' = Append1(key)
          /\ tasks' = Extend([k \in {key} |-> PlannedTask("implementation", {}, 0, NoPrint)])
          /\ job' = [job EXCEPT !.Status = "planned"]

StartHolisticRereview(sha) ==
  /\ job.Status = "ready_to_publish" /\ job.MergeState = "open" /\ job.PullRequest
  /\ job' = [job EXCEPT !.Status = "holistic_reviewing", !.HolisticRounds = @ + 1,
                        !.IntegrationSHA = sha, !.HolisticReviewRunID = 0,
                        !.HolisticReviewSHA = 0, !.HolisticReviewVerdict = "pending"]
  /\ UNCHANGED <<plan, tasks>>

RecordMerge ==
  /\ job.Status = "ready_to_publish" /\ job.MergeState = "open"
  /\ job.HolisticReviewVerdict = "approved"
  /\ job' = [job EXCEPT !.MergeState = "merged", !.Status = "published"]
  /\ UNCHANGED <<plan, tasks>>

FailJob ==
  /\ job' = [job EXCEPT !.Status = "failed"]
  /\ UNCHANGED <<plan, tasks>>

Pause ==
  /\ job.Status # "paused" /\ ~Terminal(job.Status)
  /\ job' = [job EXCEPT !.PausedFrom = job.Status, !.Status = "paused"]
  /\ UNCHANGED <<plan, tasks>>

Resume ==
  /\ job.Status = "paused" /\ job.PausedFrom # ""
  /\ job' = [job EXCEPT !.Status = job.PausedFrom, !.PausedFrom = ""]
  /\ UNCHANGED <<plan, tasks>>

Cancel ==
  /\ ~Terminal(job.Status)
  /\ job' = [job EXCEPT !.Status = "cancelled"]
  /\ UNCHANGED <<plan, tasks>>

(* load, after a restart: a block reason survives only on a blocked task. *)
Reload ==
  /\ tasks' = [k \in DOMAIN tasks |->
       IF tasks[k].Status = "blocked" THEN tasks[k]
       ELSE [tasks[k] EXCEPT !.BlockReason = NoPrint]]
  /\ UNCHANGED <<job, plan>>
=============================================================================
