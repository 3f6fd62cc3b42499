--------------------------- MODULE PipelineProofs ---------------------------
(***************************************************************************)
(* What every transition of the durable record preserves, for every set of *)
(* names, fingerprints and policies and every limit.                       *)
(***************************************************************************)
EXTENDS Pipeline, SequenceTheorems, TLAPS

-----------------------------------------------------------------------------
(* Records. *)

(* A key built for a planned task is a key. *)
LEMMA PlannedKeyTyped ==
  ASSUME NEW round \in Nat, NEW n \in Name
  PROVE  PlannedKey(round, n) \in Key /\ PlannedKey(round, n).Name = n
BY DEF PlannedKey, Key

(* A key built for a remediation is a key. *)
LEMMA RemediationKeyTyped ==
  ASSUME NEW origin \in {"plan", "revision", "ci", "holistic"}, NEW round \in Nat
  PROVE  RemediationKey(origin, round) \in Key
BY DEF RemediationKey, Key

(* A new task is a task. *)
LEMMA PlannedTaskTyped ==
  ASSUME NEW kind \in {"implementation", "ci_remediation"}, NEW deps \in SUBSET Key,
         NEW base \in Nat, NEW reason \in Fingerprint \cup {NoPrint}
  PROVE  PlannedTask(kind, deps, base, reason) \in Task
BY DEF PlannedTask, Task, TaskStatus, Verdict

(* Replacing one task of the map keeps the map's type. *)
LEMMA UpdateTyped ==
  ASSUME PipelineTypeOK, NEW k \in DOMAIN tasks, NEW t \in Task
  PROVE  Update(k, t) \in [Range(plan.Tasks) -> Task]
BY DEF Update, PipelineTypeOK

(* Refreshing eligibility keeps the map's type and its keys. *)
LEMMA RefreshTyped ==
  ASSUME NEW S, NEW ts \in [S -> Task]
  PROVE  RefreshEligibility(ts) \in [S -> Task]
<1>1. ASSUME NEW k \in S
      PROVE  [ts[k] EXCEPT !.Status = "integration_eligible"] \in Task
  BY DEF Task, TaskStatus
<1> QED  BY <1>1 DEF RefreshEligibility

(* The map of a plan to which one key and its task are appended. *)
LEMMA AppendTyped ==
  ASSUME PipelineTypeOK, NEW k \in Key, NEW t \in Task
  PROVE  /\ Append1(k) \in [Tasks : Seq(Key), IntegrationOrder : Seq(Key)]
         /\ Extend([x \in {k} |-> t]) \in [Range(Append1(k).Tasks) -> Task]
         /\ Range(Append1(k).Tasks) = Range(plan.Tasks) \cup {k}
<1>1. Append(plan.Tasks, k) = plan.Tasks \o <<k>> /\ <<k>> \in Seq(Key)
  BY AppendIsConcat DEF PipelineTypeOK
<1>2. Range(<<k>>) = {k}
  <2>1. Len(<<k>>) = 1 /\ <<k>>[1] = k
    OBVIOUS
  <2>2. Range(<<k>>) = {<<k>>[i] : i \in 1..1}
    BY <1>1, <2>1, RangeEquality
  <2> QED  BY <2>1, <2>2
<1>3. Range(Append1(k).Tasks) = Range(plan.Tasks) \cup {k}
  <2>1. Range(plan.Tasks \o <<k>>) = Range(plan.Tasks) \cup Range(<<k>>)
    <3>1. plan.Tasks \in Seq(Key)
      BY DEF PipelineTypeOK
    <3> QED  BY <1>1, <3>1, RangeConcatenation
  <2> QED  BY <1>1, <1>2, <2>1 DEF Append1
<1>4. Append1(k) \in [Tasks : Seq(Key), IntegrationOrder : Seq(Key)]
  BY AppendProperties DEF Append1, PipelineTypeOK
<1>5. Extend([x \in {k} |-> t]) \in [Range(plan.Tasks) \cup {k} -> Task]
  BY DEF Extend, PipelineTypeOK
<1> QED  BY <1>3, <1>4, <1>5

(* A proposal with keys for names has keys, and a task for each of them. *)
LEMMA KeyedTyped ==
  ASSUME NEW p \in Proposal, NEW round \in Nat, PipelineAssumption
  PROVE  /\ Keyed(p, round).Tasks \in Seq(Key)
         /\ Keyed(p, round).IntegrationOrder \in Seq(Key)
         /\ Keyed(p, round).Added \in [Range(Keyed(p, round).Tasks) -> Task]
<1> DEFINE key(n) == PlannedKey(IF n \in Range(p.Tasks) THEN round ELSE 0, n)
           keys(s) == [i \in DOMAIN s |-> key(s[i])]
           order == IF round > 0 /\ p.IntegrationOrder = <<>> THEN p.Tasks
                    ELSE p.IntegrationOrder
           task(k) == PlannedTask("implementation",
                                  {key(d) : d \in p.DependsOn[k.Name]}, 0, NoPrint)
<1>1. ASSUME NEW n \in Name  PROVE key(n) \in Key /\ key(n).Name = n
  BY PlannedKeyTyped
<1>2. ASSUME NEW s \in Seq(Name)
      PROVE  keys(s) \in Seq(Key) /\ \A k \in Range(keys(s)) : k.Name \in Name
  <2>1. s \in [1..Len(s) -> Name] /\ Len(s) \in Nat /\ DOMAIN s = 1..Len(s)
    BY LenProperties
  <2>2. keys(s) \in [1..Len(s) -> Key] /\ \A i \in 1..Len(s) : keys(s)[i].Name \in Name
    BY <1>1, <2>1
  <2>3. keys(s) \in Seq(Key)
    BY <2>1, <2>2, SeqDef
  <2> QED  BY <2>2, <2>3 DEF Range
<1>3. p.Tasks \in Seq(Name) /\ order \in Seq(Name) /\ p.DependsOn \in [Name -> SUBSET Name]
  BY DEF Proposal
<1>4. ASSUME NEW k \in Range(keys(p.Tasks))  PROVE task(k) \in Task
  <2>1. k.Name \in Name
    BY <1>2, <1>3
  <2>2. {key(d) : d \in p.DependsOn[k.Name]} \in SUBSET Key
    BY <1>1, <1>3, <2>1
  <2> QED  BY <2>2, PlannedTaskTyped
<1>5. Keyed(p, round) = [Tasks |-> keys(p.Tasks), IntegrationOrder |-> keys(order),
                         Added |-> [k \in Range(keys(p.Tasks)) |-> task(k)]]
  BY DEF Keyed
<1>6. [k \in Range(keys(p.Tasks)) |-> task(k)] \in [Range(keys(p.Tasks)) -> Task]
  BY <1>4
<1>7. keys(p.Tasks) \in Seq(Key) /\ keys(order) \in Seq(Key)
  BY <1>2, <1>3
<1> HIDE DEF keys, order, task
<1> QED  BY <1>5, <1>6, <1>7

-----------------------------------------------------------------------------
(* Type correctness of each transition. *)

(* A transition of the scalar fields. *)
LEMMA JobStep ==
  ASSUME PipelineTypeOK, job' \in Job, UNCHANGED <<plan, tasks>>
  PROVE  PipelineTypeOK'
BY DEF PipelineTypeOK

(* A transition of the scalar fields and of tasks already planned. *)
LEMMA TaskStep ==
  ASSUME PipelineTypeOK, job' \in Job, UNCHANGED plan,
         tasks' \in [Range(plan.Tasks) -> Task]
  PROVE  PipelineTypeOK'
BY DEF PipelineTypeOK

(* The counters of a job can be counted on. *)
LEMMA JobCounters ==
  ASSUME PipelineTypeOK
  PROVE  /\ job \in Job
         /\ job.HolisticRounds + 1 \in Nat /\ job.CIReplanRounds + 1 \in Nat
         /\ job.PlannerRetry + 1 \in Nat /\ job.CIReplanRounds \in Nat
         /\ job.HolisticRounds \in Nat /\ job.IntegrationSHA \in Nat
         /\ job.HolisticReviewSHA \in Nat
         /\ job.CI \in CIRecord /\ job.CIFailures \in [Fingerprint -> Nat]
<1>1. job \in Job
  BY DEF PipelineTypeOK
<1>2. /\ job.HolisticRounds \in Nat /\ job.CIReplanRounds \in Nat /\ job.PlannerRetry \in Nat
      /\ job.IntegrationSHA \in Nat /\ job.HolisticReviewSHA \in Nat
  BY <1>1 DEF Job
<1>3. job.CI \in CIRecord /\ job.CIFailures \in [Fingerprint -> Nat]
  BY <1>1 DEF Job
<1> QED  BY <1>1, <1>2, <1>3

(* So can those of a task. *)
LEMMA TaskCounters ==
  ASSUME PipelineTypeOK, NEW k \in DOMAIN tasks
  PROVE  /\ tasks[k] \in Task
         /\ tasks[k].WriterAttempts \in Nat /\ tasks[k].WriterAttempts + 1 \in Nat
         /\ tasks[k].ReviewerAttempts \in Nat /\ tasks[k].ReviewerAttempts + 1 \in Nat
         /\ tasks[k].Repeats + 1 \in Nat
         /\ tasks[k].WriterRunID \in Nat /\ tasks[k].ReviewerRunID \in Nat
<1>1. tasks[k] \in Task
  BY DEF PipelineTypeOK
<1> QED  BY <1>1 DEF Task

(* Changing only the status of a job. *)
LEMMA StatusTyped ==
  ASSUME NEW j \in Job, NEW s \in JobStatus
  PROVE  [j EXCEPT !.Status = s] \in Job
BY DEF Job

(* Transitions that change nothing but the scalar fields. *)
LEMMA ScalarTyped ==
  ASSUME PipelineAssumption, PipelineTypeOK,
         \/ StartPlanning \/ RetryPlanning \/ RecordPullRequest
         \/ ResetHolisticRound \/ RecordMerge \/ FailJob \/ Pause \/ Resume \/ Cancel
  PROVE  PipelineTypeOK'
<1>1. CASE StartPlanning
  BY <1>1, JobCounters, JobStep DEF StartPlanning, Job, JobStatus, Verdict
<1>2. CASE RetryPlanning
  BY <1>2, JobCounters, JobStep DEF RetryPlanning, Job, JobStatus, Verdict
<1>3. CASE RecordPullRequest
  BY <1>3, JobCounters, JobStep DEF RecordPullRequest, Job, JobStatus, Verdict
<1>4. CASE ResetHolisticRound
  BY <1>4, JobCounters, JobStep DEF ResetHolisticRound, Job, JobStatus, Verdict
<1>5. CASE RecordMerge
  BY <1>5, JobCounters, JobStep DEF RecordMerge, Job, JobStatus, Verdict
<1>6. CASE FailJob
  BY <1>6, JobCounters, JobStep DEF FailJob, Job, JobStatus, Verdict
<1>7. CASE Pause
  BY <1>7, JobCounters, JobStep DEF Pause, Job, JobStatus, Verdict
<1>8. CASE Resume
  BY <1>8, JobCounters, JobStep DEF Resume, Job, JobStatus, Verdict
<1>9. CASE Cancel
  BY <1>9, JobCounters, JobStep DEF Cancel, Job, JobStatus, Verdict
<1> QED  BY <1>1, <1>2, <1>3, <1>4, <1>5, <1>6, <1>7, <1>8, <1>9

(* Holistic runs and CI: the SHA is a commit, the run a dispatch number. *)
LEMMA HolisticTyped ==
  ASSUME PipelineAssumption, PipelineTypeOK, NEW sha \in Nat, NEW run \in Nat,
         NEW verdict \in Verdict,
         \/ StartCI(sha) \/ StartHolisticReviewer(run, sha)
         \/ RecordHolisticReview(run, sha, verdict) \/ StartHolisticRereview(sha)
  PROVE  PipelineTypeOK'
<1>1. CASE StartCI(sha)
  BY <1>1, JobCounters, JobStep DEF StartCI, Job, JobStatus, CIRecord
<1>2. CASE StartHolisticReviewer(run, sha)
  BY <1>2, JobCounters, JobStep DEF StartHolisticReviewer, Job
<1>3. CASE RecordHolisticReview(run, sha, verdict)
  <2>1. CASE UNCHANGED pipelineVars
    BY <2>1, JobCounters, JobStep DEF pipelineVars
  <2>2. CASE ~UNCHANGED pipelineVars
    <3> DEFINE newSHA == IF job.HolisticReviewRunID # 0 THEN job.HolisticReviewSHA ELSE sha
               newStatus == IF verdict = "approved" THEN "ready_to_publish" ELSE job.Status
    <3>1. /\ job' = [job EXCEPT !.HolisticReviewRunID = run, !.HolisticReviewSHA = newSHA,
                               !.HolisticReviewVerdict = verdict, !.Status = newStatus]
          /\ UNCHANGED <<plan, tasks>>
      BY <1>3, <2>2 DEF RecordHolisticReview
    <3>2. newSHA \in Nat /\ newStatus \in JobStatus
      BY JobCounters DEF Job, JobStatus
    <3> HIDE DEF newSHA, newStatus
    <3>3. job' \in Job
      BY <3>1, <3>2, JobCounters DEF Job
    <3> QED  BY <3>1, <3>3, JobStep
  <2> QED  BY <2>1, <2>2
<1>4. CASE StartHolisticRereview(sha)
  BY <1>4, JobCounters, JobStep DEF StartHolisticRereview, Job, JobStatus, Verdict
<1> QED  BY <1>1, <1>2, <1>3, <1>4

(* Recording a result of required CI. *)
LEMMA RecordCITyped ==
  ASSUME PipelineTypeOK, NEW sha \in Nat,
         NEW state \in {"pending", "passed", "failed", "blocked"},
         NEW print \in Fingerprint \cup {NoPrint}, RecordCI(sha, state, print)
  PROVE  PipelineTypeOK'
<1> DEFINE counted == /\ state = "failed" /\ print # NoPrint
                      /\ (job.CI.State # "failed" \/ job.CI.FailureFingerprint # print)
           ci == [job.CI EXCEPT !.State = state, !.FailureFingerprint = print]
           failures == IF counted THEN [job.CIFailures EXCEPT ![print] = @ + 1]
                       ELSE job.CIFailures
           status == CASE state = "passed" -> "holistic_reviewing"
                       [] state = "blocked" -> "failed"
                       [] OTHER -> job.Status
<1>1. CASE job.CI.HeadSHA # sha
  BY <1>1, JobCounters, JobStep DEF RecordCI
<1>2. CASE job.CI.HeadSHA = sha
  <2>1. ci \in CIRecord
    BY JobCounters DEF CIRecord
  <2>2. failures \in [Fingerprint -> Nat]
    BY JobCounters
  <2>3. status \in JobStatus
    BY JobCounters DEF Job, JobStatus
  <2>4. /\ job' = [job EXCEPT !.CI = ci, !.Status = status, !.CIFailures = failures]
        /\ UNCHANGED <<plan, tasks>>
    BY <1>2 DEF RecordCI
  <2> HIDE DEF failures, status, ci
  <2>5. job' \in Job
    BY <2>1, <2>2, <2>3, <2>4, JobCounters DEF Job
  <2> QED  BY <2>4, <2>5, JobStep
<1> QED  BY <1>1, <1>2

(* Escalating a repeated failure to a planner revision. *)
LEMMA BeginCIReplanTyped ==
  ASSUME PipelineTypeOK, NEW print, BeginCIReplan(print)
  PROVE  PipelineTypeOK'
<1>1. CASE job' = [job EXCEPT !.Status = "failed"]
  BY <1>1, JobCounters, JobStep, StatusTyped DEF BeginCIReplan, JobStatus
<1>2. CASE job' = [job EXCEPT !.CIReplanRounds = @ + 1, !.PlannerRetry = 0,
                              !.Status = "ci_replanning"]
  <2>1. job' \in Job
    BY <1>2, JobCounters DEF Job, JobStatus
  <2> QED  BY <2>1, JobStep DEF BeginCIReplan
<1> QED  BY <1>1, <1>2 DEF BeginCIReplan

(* A step that only saves one changed task. *)
LEMMA SaveTask ==
  ASSUME PipelineTypeOK, NEW k \in DOMAIN tasks, NEW t \in Task, NEW s \in JobStatus,
         tasks' = Update(k, t), job' = [job EXCEPT !.Status = s], UNCHANGED plan
  PROVE  PipelineTypeOK'
BY UpdateTyped, TaskStep, StatusTyped, JobCounters

(* The same, leaving the job alone. *)
LEMMA SaveTaskOnly ==
  ASSUME PipelineTypeOK, NEW k \in DOMAIN tasks, NEW t \in Task,
         tasks' = Update(k, t), UNCHANGED <<job, plan>>
  PROVE  PipelineTypeOK'
BY UpdateTyped, TaskStep, JobCounters

(* Transitions of one planned task. *)
LEMMA TaskTyped ==
  ASSUME PipelineAssumption, PipelineTypeOK, NEW k \in DOMAIN tasks, NEW run \in Nat,
         NEW sha \in Nat,
         \/ RecordTaskBase(k, sha) \/ RecordWriterCompletion(k, run) \/ BlockTask(k)
         \/ RetryWriter(k, run) \/ RetryReview(k, run) \/ ResumeBlockedWriter(k)
         \/ ReopenNoChangesTask(k) \/ StartIntegration(k)
  PROVE  PipelineTypeOK'
<1>1. CASE RecordTaskBase(k, sha)
  <2>1. [tasks[k] EXCEPT !.BaseSHA = sha] \in Task
    BY TaskCounters DEF Task, TaskStatus, Verdict
  <2>2. tasks' = Update(k, [tasks[k] EXCEPT !.BaseSHA = sha])
    BY <1>1 DEF RecordTaskBase, Update
  <2> QED  BY <1>1, <2>1, <2>2, SaveTaskOnly DEF RecordTaskBase
<1>2. CASE RecordWriterCompletion(k, run)
  <2>1. [tasks[k] EXCEPT !.Status = "reviewing", !.ReviewVerdict = "pending"] \in Task
    BY TaskCounters DEF Task, TaskStatus, Verdict
  <2>2. tasks' = Update(k, [tasks[k] EXCEPT !.Status = "reviewing", !.ReviewVerdict = "pending"])
    BY <1>2 DEF RecordWriterCompletion, Update
  <2> QED  BY <1>2, <2>1, <2>2, SaveTask DEF RecordWriterCompletion, JobStatus
<1>3. CASE BlockTask(k)
  <2>1. [tasks[k] EXCEPT !.Status = "blocked", !.BlockReason = NoPrint] \in Task
    BY TaskCounters DEF Task, TaskStatus
  <2> QED  BY <1>3, <2>1, TaskCounters, SaveTaskOnly DEF BlockTask
<1>4. CASE RetryWriter(k, run)
  <2>1. [tasks[k] EXCEPT !.WriterRunID = 0, !.Status = "planned"] \in Task
    BY TaskCounters DEF Task, TaskStatus, Verdict
  <2>2. tasks' = Update(k, [tasks[k] EXCEPT !.WriterRunID = 0, !.Status = "planned"])
    BY <1>4 DEF RetryWriter, Update
  <2> QED  BY <1>4, <2>1, <2>2, SaveTask DEF RetryWriter, JobStatus
<1>5. CASE RetryReview(k, run)
  <2>1. [tasks[k] EXCEPT !.ReviewerRunID = 0] \in Task
    BY TaskCounters DEF Task, TaskStatus, Verdict
  <2>2. tasks' = Update(k, [tasks[k] EXCEPT !.ReviewerRunID = 0])
    BY <1>5 DEF RetryReview, Update
  <2> QED  BY <1>5, <2>1, <2>2, SaveTaskOnly DEF RetryReview
<1>6. CASE ResumeBlockedWriter(k)
  <2>1. [Reopened(tasks[k]) EXCEPT !.BlockReason = NoPrint] \in Task
    BY TaskCounters DEF Reopened, Task, TaskStatus, Verdict
  <2>2. tasks' = Update(k, [Reopened(tasks[k]) EXCEPT !.BlockReason = NoPrint])
    BY <1>6 DEF ResumeBlockedWriter, Update
  <2> QED  BY <1>6, <2>1, <2>2, SaveTask DEF ResumeBlockedWriter, JobStatus
<1>7. CASE ReopenNoChangesTask(k)
  <2>1. [Reopened(tasks[k]) EXCEPT !.BlockReason = NoPrint] \in Task
    BY TaskCounters DEF Reopened, Task, TaskStatus, Verdict
  <2>2. tasks' = Update(k, [Reopened(tasks[k]) EXCEPT !.BlockReason = NoPrint])
    BY <1>7 DEF ReopenNoChangesTask, Update
  <2> QED  BY <1>7, <2>1, <2>2, SaveTask DEF ReopenNoChangesTask, JobStatus
<1>8. CASE StartIntegration(k)
  <2>1. [tasks[k] EXCEPT !.Status = "integrating"] \in Task
    BY TaskCounters DEF Task, TaskStatus, Verdict
  <2>2. tasks' = Update(k, [tasks[k] EXCEPT !.Status = "integrating"])
    BY <1>8 DEF StartIntegration, Update
  <2> QED  BY <1>8, <2>1, <2>2, SaveTask DEF StartIntegration, JobStatus
<1> QED  BY <1>1, <1>2, <1>3, <1>4, <1>5, <1>6, <1>7, <1>8

(* A writer takes a task over. *)
LEMMA StartTaskWorkTyped ==
  ASSUME PipelineTypeOK, NEW k \in DOMAIN tasks, NEW run \in Nat, StartTaskWork(k, run)
  PROVE  PipelineTypeOK'
<1> DEFINE t == [tasks[k] EXCEPT !.Status = "working", !.WriterRunID = run,
                                 !.ReviewerRunID = 0, !.ReviewVerdict = "pending",
                                 !.WriterAttempts = @ + 1]
<1>1. t \in Task
  BY TaskCounters DEF Task, TaskStatus, Verdict
<1>2. CASE UNCHANGED pipelineVars
  BY <1>2 DEF pipelineVars, PipelineTypeOK
<1>3. CASE ~UNCHANGED pipelineVars
  BY <1>1, <1>3, SaveTask DEF StartTaskWork, JobStatus
<1> QED  BY <1>2, <1>3

(* A reviewer takes a task over. *)
LEMMA StartReviewerTyped ==
  ASSUME PipelineTypeOK, NEW k \in DOMAIN tasks, NEW run \in Nat, StartReviewer(k, run)
  PROVE  PipelineTypeOK'
<1> DEFINE t == [tasks[k] EXCEPT !.ReviewerRunID = run, !.ReviewerAttempts = @ + 1]
<1>1. t \in Task
  BY TaskCounters DEF Task
<1>2. CASE tasks[k].ReviewerRunID = run
  BY <1>2 DEF StartReviewer, PipelineTypeOK
<1>3. CASE tasks[k].ReviewerRunID # run
  BY <1>1, <1>3, SaveTaskOnly DEF StartReviewer
<1> QED  BY <1>2, <1>3

(* The owner a late report adopts is a task. *)
LEMMA AdoptedTyped ==
  ASSUME PipelineTypeOK, NEW k \in DOMAIN tasks, NEW run \in Nat
  PROVE  /\ Adopted(tasks[k], run) \in Task
         /\ Adopted(tasks[k], run).Repeats + 1 \in Nat
         /\ Adopted(tasks[k], run).ReviewerAttempts + 1 \in Nat
<1>1. [tasks[k] EXCEPT !.ReviewerRunID = run, !.ReviewerAttempts = @ + 1] \in Task
  BY TaskCounters DEF Task
<1>2. Adopted(tasks[k], run) \in Task
  BY <1>1, TaskCounters DEF Adopted
<1>3. /\ Adopted(tasks[k], run).Repeats \in Nat
      /\ Adopted(tasks[k], run).ReviewerAttempts \in Nat
  BY <1>2 DEF Task
<1> QED  BY <1>2, <1>3

(* A report enters the review history. *)
LEMMA ReviewReportTyped ==
  ASSUME PipelineTypeOK, NEW k \in DOMAIN tasks, NEW run \in Nat, NEW verdict, NEW same,
         RecordReviewReport(k, run, verdict, same)
  PROVE  PipelineTypeOK'
<1> DEFINE t == Adopted(tasks[k], run)
           repeats == IF verdict # "changes_requested" THEN 0
                      ELSE IF same THEN t.Repeats + 1 ELSE 1
           reported == [t EXCEPT !.Reported = run, !.Repeats = repeats]
<1>1. t \in Task /\ repeats \in Nat
  BY AdoptedTyped
<1>2. reported \in Task
  <2> HIDE DEF t, repeats
  <2> QED  BY <1>1 DEF Task
<1>3. \/ tasks' = Update(k, t)
      \/ tasks' = Update(k, reported)
  BY DEF RecordReviewReport
<1> HIDE DEF t, reported
<1> QED  BY <1>1, <1>2, <1>3, SaveTaskOnly DEF RecordReviewReport

(* A verdict is recorded. *)
LEMMA ReviewTyped ==
  ASSUME PipelineTypeOK, NEW k \in DOMAIN tasks, NEW run \in Nat,
         NEW verdict \in Verdict, RecordReview(k, run, verdict)
  PROVE  PipelineTypeOK'
<1> DEFINE t == Adopted(tasks[k], run)
           attempts == IF t.ReviewerRunID = 0 THEN t.ReviewerAttempts + 1
                       ELSE t.ReviewerAttempts
           status == CASE verdict = "changes_requested" -> "changes_requested"
                       [] verdict = "blocked" -> "blocked"
                       [] verdict = "approved" /\ PrerequisitesMet(tasks, k)
                            -> "integration_eligible"
                       [] OTHER -> "approved"
           decided == [t EXCEPT !.ReviewerAttempts = attempts, !.ReviewerRunID = run,
                                !.ReviewVerdict = verdict, !.Status = status]
<1>1. CASE UNCHANGED pipelineVars
  BY <1>1 DEF pipelineVars, PipelineTypeOK
<1>2. CASE ~UNCHANGED pipelineVars
  <2>1. t \in Task /\ t.ReviewerAttempts + 1 \in Nat
    BY AdoptedTyped
  <2>2. t.ReviewerAttempts \in Nat
    BY <2>1 DEF Task
  <2>3. attempts \in Nat
    BY <2>1, <2>2
  <2>4. status \in TaskStatus
    BY DEF TaskStatus
  <2>5. tasks' = Update(k, decided) /\ UNCHANGED <<job, plan>>
    BY <1>2 DEF RecordReview
  <2>6. decided \in Task
    <3> HIDE DEF t, attempts, status
    <3> QED  BY <2>1, <2>3, <2>4 DEF Task
  <2> HIDE DEF decided
  <2> QED  BY <2>5, <2>6, SaveTaskOnly
<1> QED  BY <1>1, <1>2

(* A task integrates or turns out to need no changes. *)
LEMMA IntegrationTyped ==
  ASSUME PipelineTypeOK, NEW k \in DOMAIN tasks, NEW run \in Nat, NEW sha \in Nat,
         RecordNoChanges(k, run) \/ RecordIntegration(k, sha)
  PROVE  PipelineTypeOK'
<1>0. tasks \in [Range(plan.Tasks) -> Task] /\ tasks[k] \in Task
  BY DEF PipelineTypeOK
<1>1. CASE RecordNoChanges(k, run)
  <2> DEFINE ts == Update(k, [tasks[k] EXCEPT !.Status = "no_changes"])
             s == IF ~AllIntegrated(ts) THEN job.Status
                  ELSE IF HasIntegrated(ts) THEN "holistic_reviewing" ELSE "no_changes"
  <2>1. [tasks[k] EXCEPT !.Status = "no_changes"] \in Task
    BY <1>0 DEF Task, TaskStatus
  <2>2. ts \in [Range(plan.Tasks) -> Task]
    BY <2>1, UpdateTyped
  <2>3. tasks' = RefreshEligibility(ts) /\ UNCHANGED plan
    BY <1>1 DEF RecordNoChanges
  <2>4. job' = [job EXCEPT !.Status = s]
    BY <1>1 DEF RecordNoChanges
  <2>5. s \in JobStatus
    BY JobCounters DEF Job, JobStatus
  <2> HIDE DEF ts, s
  <2> QED  BY <2>2, <2>3, <2>4, <2>5, JobCounters, StatusTyped, RefreshTyped, TaskStep
<1>2. CASE RecordIntegration(k, sha)
  <2> DEFINE ts == [tasks EXCEPT ![k].Status = "integrated"]
             s == IF AllIntegrated(ts) THEN "holistic_reviewing" ELSE job.Status
  <2>1. ts \in [Range(plan.Tasks) -> Task]
    BY <1>0 DEF Task, TaskStatus
  <2>2. tasks' = RefreshEligibility(ts) /\ UNCHANGED plan
    BY <1>2 DEF RecordIntegration
  <2>3. job' = [job EXCEPT !.IntegrationSHA = sha, !.Status = s]
    BY <1>2 DEF RecordIntegration
  <2>4. s \in JobStatus
    BY JobCounters DEF Job, JobStatus
  <2> HIDE DEF ts, s
  <2>5. job' \in Job
    BY <2>3, <2>4, JobCounters DEF Job
  <2> QED  BY <2>1, <2>2, <2>5, RefreshTyped, TaskStep
<1> QED  BY <1>1, <1>2

(* Reopening what was not done, and reloading the record. *)
LEMMA ReopenTyped ==
  ASSUME PipelineAssumption, PipelineTypeOK, ReopenIncompleteTasks \/ Reload
  PROVE  PipelineTypeOK'
<1>0. tasks \in [Range(plan.Tasks) -> Task]
  BY DEF PipelineTypeOK
<1>1. CASE ReopenIncompleteTasks
  <2>1. ASSUME NEW k \in Range(plan.Tasks)
        PROVE  /\ Reopened(tasks[k]) \in Task
               /\ [Reopened(tasks[k]) EXCEPT !.BlockReason = NoPrint] \in Task
    BY <1>0 DEF Reopened, Task, TaskStatus
  <2>2. tasks' \in [Range(plan.Tasks) -> Task]
    BY <1>0, <1>1, <2>1 DEF ReopenIncompleteTasks
  <2>3. job' = [job EXCEPT !.Status = "planned"] /\ UNCHANGED plan
    BY <1>1 DEF ReopenIncompleteTasks
  <2> QED  BY <2>2, <2>3, JobCounters, StatusTyped, TaskStep DEF JobStatus
<1>2. CASE Reload
  <2>1. ASSUME NEW k \in Range(plan.Tasks)
        PROVE  [tasks[k] EXCEPT !.BlockReason = NoPrint] \in Task
    BY <1>0 DEF Task
  <2>2. tasks' \in [Range(plan.Tasks) -> Task]
    BY <1>0, <1>2, <2>1 DEF Reload
  <2> QED  BY <1>2, <2>2, JobCounters, TaskStep DEF Reload
<1> QED  BY <1>1, <1>2

(* A plan is submitted or revised. *)
LEMMA PlanTyped ==
  ASSUME PipelineAssumption, PipelineTypeOK, NEW p \in Proposal,
         SubmitPlan(p) \/ RevisePlan(p)
  PROVE  PipelineTypeOK'
<1>0. /\ plan \in [Tasks : Seq(Key), IntegrationOrder : Seq(Key)]
      /\ tasks \in [Range(plan.Tasks) -> Task]
  BY DEF PipelineTypeOK
<1>1. CASE UNCHANGED pipelineVars
  BY <1>1 DEF pipelineVars, PipelineTypeOK
<1>2. CASE SubmitPlan(p) /\ ~UNCHANGED pipelineVars
  <2>1. /\ job' = [job EXCEPT !.Status = "planned"]
        /\ plan' = [Tasks |-> Keyed(p, 0).Tasks,
                    IntegrationOrder |-> Keyed(p, 0).IntegrationOrder]
        /\ tasks' = Keyed(p, 0).Added
    BY <1>2 DEF SubmitPlan
  <2>2. /\ Keyed(p, 0).Tasks \in Seq(Key)
        /\ Keyed(p, 0).IntegrationOrder \in Seq(Key)
        /\ Keyed(p, 0).Added \in [Range(Keyed(p, 0).Tasks) -> Task]
    BY KeyedTyped
  <2>3. job' \in Job
    BY <2>1, JobCounters, StatusTyped DEF JobStatus
  <2> QED  BY <2>1, <2>2, <2>3 DEF PipelineTypeOK
<1>3. CASE RevisePlan(p) /\ ~UNCHANGED pipelineVars
  <2> DEFINE round == job.CIReplanRounds
             draft == Keyed(p, round)
  <2>1. /\ draft.Tasks \in Seq(Key) /\ draft.IntegrationOrder \in Seq(Key)
        /\ draft.Added \in [Range(draft.Tasks) -> Task]
    BY KeyedTyped, JobCounters
  <2>2. /\ job' = [job EXCEPT !.AppliedCIReplanRound = round, !.Status = "planned"]
        /\ plan' = [Tasks |-> plan.Tasks \o draft.Tasks,
                    IntegrationOrder |-> plan.IntegrationOrder \o draft.IntegrationOrder]
        /\ tasks' = Extend(draft.Added)
    BY <1>3 DEF RevisePlan
  <2> HIDE DEF draft
  <2>3. /\ plan.Tasks \o draft.Tasks \in Seq(Key)
        /\ plan.IntegrationOrder \o draft.IntegrationOrder \in Seq(Key)
    BY <1>0, <2>1, ConcatProperties
  <2>4. Range(plan.Tasks \o draft.Tasks) = Range(plan.Tasks) \cup Range(draft.Tasks)
    <3>1. plan.Tasks \in Seq(Key)
      BY <1>0
    <3> QED  BY <2>1, <3>1, RangeConcatenation
  <2>5. tasks' \in [Range(plan.Tasks) \cup Range(draft.Tasks) -> Task]
    BY <1>0, <2>1, <2>2 DEF Extend
  <2>6. job' \in Job
    BY <2>2, JobCounters DEF Job, JobStatus
  <2> QED  BY <2>2, <2>3, <2>4, <2>5, <2>6 DEF PipelineTypeOK
<1> QED  BY <1>1, <1>2, <1>3

(* CI and holistic remediations append one task. *)
LEMMA RemediationTyped ==
  ASSUME PipelineAssumption, PipelineTypeOK,
         \/ StartReviewRemediation
         \/ \E print \in Fingerprint \cup {NoPrint} : StartCIRemediation(print)
  PROVE  PipelineTypeOK'
<1>0. plan.Tasks \in Seq(Key)
  BY DEF PipelineTypeOK
<1>1. ASSUME NEW k \in Key, NEW t \in Task, NEW s \in JobStatus,
             plan' = Append1(k), tasks' = Extend([x \in {k} |-> t]),
             job' = [job EXCEPT !.Status = s]
      PROVE  PipelineTypeOK'
  BY <1>1, AppendTyped, JobCounters, StatusTyped DEF PipelineTypeOK
<1>2. CASE UNCHANGED pipelineVars
  BY <1>2 DEF pipelineVars, PipelineTypeOK
<1>3. CASE StartReviewRemediation /\ ~UNCHANGED pipelineVars
  <2>1. RemediationKey("holistic", job.HolisticRounds) \in Key
    BY RemediationKeyTyped, JobCounters
  <2>2. PlannedTask("implementation", {}, 0, NoPrint) \in Task
    BY PlannedTaskTyped
  <2> QED  BY <1>1, <1>3, <2>1, <2>2 DEF StartReviewRemediation, JobStatus
<1>4. CASE ~UNCHANGED pipelineVars
             /\ \E print \in Fingerprint \cup {NoPrint} : StartCIRemediation(print)
  <2> PICK print \in Fingerprint \cup {NoPrint} : StartCIRemediation(print)
    BY <1>4
  <2>1. RemediationKey("ci", Len(plan.Tasks) + 1) \in Key
    BY <1>0, LenProperties, RemediationKeyTyped
  <2>2. job.CI.HeadSHA \in Nat
    BY JobCounters DEF CIRecord
  <2>3. PlannedTask("ci_remediation", {}, job.CI.HeadSHA, print) \in Task
    BY <2>2, PlannedTaskTyped
  <2> QED  BY <1>1, <1>4, <2>1, <2>3 DEF StartCIRemediation, JobStatus
<1> QED  BY <1>2, <1>3, <1>4

(* The initial record. *)
LEMMA PipelineInitTyped ==
  ASSUME PipelineAssumption, PipelineInit
  PROVE  PipelineTypeOK
<1>1. job \in Job
  <2>1. PICK policy \in MergePolicies :
          job = [Status |-> "created", PausedFrom |-> "", IntegrationSHA |-> 0,
                 HolisticReviewVerdict |-> "pending", HolisticReviewRunID |-> 0,
                 HolisticReviewSHA |-> 0, HolisticRounds |-> 0, CI |-> NoCI,
                 CIFailures |-> [f \in Fingerprint |-> 0], CIReplanRounds |-> 0,
                 AppliedCIReplanRound |-> 0, PlannerRetry |-> 0, PullRequest |-> FALSE,
                 MergeState |-> "not_requested", MergePolicy |-> policy]
    BY DEF PipelineInit
  <2>2. policy \in {"auto", "manual"}
    BY DEF PipelineAssumption
  <2>3. NoCI \in CIRecord /\ [f \in Fingerprint |-> 0] \in [Fingerprint -> Nat]
    BY DEF NoCI, CIRecord
  <2> QED  BY <2>1, <2>2, <2>3 DEF Job, JobStatus, Verdict
<1>2. plan = [Tasks |-> <<>>, IntegrationOrder |-> <<>>] /\ tasks = <<>>
  BY DEF PipelineInit, NoPlan
<1>3. <<>> \in Seq(Key) /\ DOMAIN <<>> = {} /\ Range(<<>>) = {}
  BY DEF Range
<1> QED  BY <1>1, <1>2, <1>3 DEF PipelineTypeOK

-----------------------------------------------------------------------------
(* What the transitions do to the status of the job.                        *)

Ended == {"published", "failed", "cancelled"}
Live(status) == status \notin Ended \cup {"paused"}

(* Only Pause, Cancel, FailJob, RecordMerge and the two CI limits take a    *)
(* live job out of its life.                                                *)
LEMMA StaysLive ==
  ASSUME PipelineTypeOK, Live(job.Status), NEW k, NEW run, NEW sha, NEW verdict, NEW same,
         NEW p, NEW print,
         \/ StartPlanning \/ SubmitPlan(p) \/ RevisePlan(p) \/ RetryPlanning
         \/ RecordTaskBase(k, sha) \/ StartTaskWork(k, run) \/ RecordWriterCompletion(k, run)
         \/ RecordNoChanges(k, run) \/ StartReviewer(k, run)
         \/ RecordReviewReport(k, run, verdict, same) \/ RecordReview(k, run, verdict)
         \/ BlockTask(k) \/ RetryWriter(k, run) \/ RetryReview(k, run)
         \/ ResumeBlockedWriter(k) \/ ReopenNoChangesTask(k) \/ StartIntegration(k)
         \/ RecordIntegration(k, sha) \/ RecordPullRequest \/ StartCI(sha)
         \/ StartCIRemediation(print) \/ ResetHolisticRound \/ StartHolisticReviewer(run, sha)
         \/ RecordHolisticReview(run, sha, verdict) \/ ReopenIncompleteTasks
         \/ StartReviewRemediation \/ StartHolisticRereview(sha)
  PROVE  Live(job'.Status)
<1>0. job \in Job
  BY DEF PipelineTypeOK
<1>1. CASE StartPlanning
  BY <1>0, <1>1 DEF StartPlanning, pipelineVars, Live, Ended, Job
<1>2. CASE SubmitPlan(p)
  BY <1>0, <1>2 DEF SubmitPlan, pipelineVars, Live, Ended, Job
<1>3. CASE RevisePlan(p)
  BY <1>0, <1>3 DEF RevisePlan, pipelineVars, Live, Ended, Job
<1>4. CASE RetryPlanning
  BY <1>0, <1>4 DEF RetryPlanning, pipelineVars, Live, Ended, Job
<1>5. CASE RecordTaskBase(k, sha)
  BY <1>0, <1>5 DEF RecordTaskBase, pipelineVars, Live, Ended, Job
<1>6. CASE StartTaskWork(k, run)
  BY <1>0, <1>6 DEF StartTaskWork, pipelineVars, Live, Ended, Job
<1>7. CASE RecordWriterCompletion(k, run)
  BY <1>0, <1>7 DEF RecordWriterCompletion, pipelineVars, Live, Ended, Job
<1>8. CASE RecordNoChanges(k, run)
  BY <1>0, <1>8 DEF RecordNoChanges, pipelineVars, Live, Ended, Job
<1>9. CASE StartReviewer(k, run)
  BY <1>0, <1>9 DEF StartReviewer, pipelineVars, Live, Ended, Job
<1>10. CASE RecordReviewReport(k, run, verdict, same)
  BY <1>0, <1>10 DEF RecordReviewReport, pipelineVars, Live, Ended, Job
<1>11. CASE RecordReview(k, run, verdict)
  BY <1>0, <1>11 DEF RecordReview, pipelineVars, Live, Ended, Job
<1>12. CASE BlockTask(k)
  BY <1>0, <1>12 DEF BlockTask, pipelineVars, Live, Ended, Job
<1>13. CASE RetryWriter(k, run)
  BY <1>0, <1>13 DEF RetryWriter, pipelineVars, Live, Ended, Job
<1>14. CASE RetryReview(k, run)
  BY <1>0, <1>14 DEF RetryReview, pipelineVars, Live, Ended, Job
<1>15. CASE ResumeBlockedWriter(k)
  BY <1>0, <1>15 DEF ResumeBlockedWriter, pipelineVars, Live, Ended, Job
<1>16. CASE ReopenNoChangesTask(k)
  BY <1>0, <1>16 DEF ReopenNoChangesTask, pipelineVars, Live, Ended, Job
<1>17. CASE StartIntegration(k)
  BY <1>0, <1>17 DEF StartIntegration, pipelineVars, Live, Ended, Job
<1>18. CASE RecordIntegration(k, sha)
  BY <1>0, <1>18 DEF RecordIntegration, pipelineVars, Live, Ended, Job
<1>19. CASE RecordPullRequest
  BY <1>0, <1>19 DEF RecordPullRequest, pipelineVars, Live, Ended, Job
<1>20. CASE StartCI(sha)
  BY <1>0, <1>20 DEF StartCI, pipelineVars, Live, Ended, Job
<1>21. CASE StartCIRemediation(print)
  BY <1>0, <1>21 DEF StartCIRemediation, pipelineVars, Live, Ended, Job
<1>22. CASE ResetHolisticRound
  BY <1>0, <1>22 DEF ResetHolisticRound, pipelineVars, Live, Ended, Job
<1>23. CASE StartHolisticReviewer(run, sha)
  BY <1>0, <1>23 DEF StartHolisticReviewer, pipelineVars, Live, Ended, Job
<1>24. CASE RecordHolisticReview(run, sha, verdict)
  BY <1>0, <1>24 DEF RecordHolisticReview, pipelineVars, Live, Ended, Job
<1>25. CASE ReopenIncompleteTasks
  BY <1>0, <1>25 DEF ReopenIncompleteTasks, pipelineVars, Live, Ended, Job
<1>26. CASE StartReviewRemediation
  BY <1>0, <1>26 DEF StartReviewRemediation, pipelineVars, Live, Ended, Job
<1>27. CASE StartHolisticRereview(sha)
  BY <1>0, <1>27 DEF StartHolisticRereview, pipelineVars, Live, Ended, Job
<1> QED
  BY <1>1, <1>2, <1>3, <1>4, <1>5, <1>6, <1>7, <1>8, <1>9, <1>10, <1>11, <1>12, <1>13, <1>14, <1>15, <1>16, <1>17, <1>18, <1>19, <1>20, <1>21, <1>22, <1>23, <1>24, <1>25, <1>26, <1>27

=============================================================================
