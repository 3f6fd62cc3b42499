------------------------- MODULE OrchestrationProofs -------------------------
(***************************************************************************)
(* The inductive invariant of Orchestration, and what follows from it for  *)
(* every planner, every set of answers, every limit and every budget.      *)
(***************************************************************************)
EXTENDS Orchestration, PipelineProofs, FiniteSetTheorems

-----------------------------------------------------------------------------
(* The inductive invariant. *)

(* Steps that work on the task call.key. *)
TaskSteps == {"reviewer", "ownReviewer", "complete", "verdict", "block", "writer",
              "ownWriter", "ownReady", "merge", "integrated", "retryWriter", "retryReview"}

(* A handler only ever works on a task that is planned. *)
KeyPlanned == call.at \in TaskSteps => call.key \in DOMAIN tasks

(* A verdict under application is the verdict of a reviewer's recorded answer. *)
VerdictKnown ==
  At("verdict") => call.run \in DOMAIN runs /\ VerdictOf(call.run) \in Verdict

(* No handler is at work on a paused job, and what is left of one on an     *)
(* ended job is its bookkeeping.                                            *)
QuietSteps == {"idle", "mark", "cancelRuns"}
Quiet ==
  /\ job.Status = "paused" => call = Idle
  /\ job.Status \in Ended => call.at \in QuietSteps

IInv == TypeOK /\ KeyPlanned /\ VerdictKnown /\ Quiet

Budgets == [faults : Nat, operator : Nat, foreign : Nat, conflicts : Nat]

-----------------------------------------------------------------------------
(* Control. *)

(* A handler that moves on stays a handler. *)
LEMMA CallTyped ==
  ASSUME call \in Call, NEW step \in Steps, NEW key \in Key \cup {JobKey},
         NEW run \in Run \cup {NoRun},
         NEW then \in {"return", "reconcile", "draft", "publish", "approve"}
  PROVE  /\ [call EXCEPT !.at = step] \in Call
         /\ [call EXCEPT !.at = step, !.then = then] \in Call
         /\ [call EXCEPT !.at = step, !.key = key] \in Call
         /\ [at |-> step, key |-> key, run |-> run, then |-> then] \in Call
         /\ Idle \in Call
<1>1. [call EXCEPT !.at = step] \in Call
  BY DEF Call
<1>2. [call EXCEPT !.at = step, !.then = then] \in Call
  BY DEF Call
<1>3. [call EXCEPT !.at = step, !.key = key] \in Call
  BY DEF Call
<1>4. [at |-> step, key |-> key, run |-> run, then |-> then] \in Call
  BY DEF Call
<1>5. Idle \in Call
  BY DEF Call, Idle, Steps
<1> QED  BY <1>1, <1>2, <1>3, <1>4, <1>5

(* What returning leaves of a handler. *)
LEMMA Returned ==
  ASSUME call \in Call, Return \/ Error
  PROVE  call' \in Call /\ call'.at \in {"idle", "mark"}
<1>1. [call EXCEPT !.at = "mark"] \in Call /\ [call EXCEPT !.at = "mark"].at = "mark"
  BY DEF Call, Steps
<1>2. Idle \in Call /\ Idle.at = "idle"
  BY CallTyped DEF Idle, Call, Steps
<1> QED  BY <1>1, <1>2 DEF Return, Error

(* A handler that goes on keeps its task and its run. *)
LEMMA Went ==
  ASSUME call \in Call, NEW step \in Steps,
         NEW then \in {"return", "reconcile", "draft", "publish", "approve"},
         Go(step) \/ GoThen(step, then)
  PROVE  call' \in Call /\ call'.at = step /\ call'.key = call.key /\ call'.run = call.run
<1>1. CASE Go(step)
  BY <1>1 DEF Go, Call
<1>2. CASE GoThen(step, then)
  BY <1>2 DEF GoThen, Call
<1> QED  BY <1>1, <1>2

(* A handler that takes a task. *)
LEMMA Took ==
  ASSUME call \in Call, NEW step \in Steps, NEW key \in Key \cup {JobKey}, With(step, key)
  PROVE  call' \in Call /\ call'.at = step /\ call'.key = key /\ call'.run = call.run
BY DEF With, Call

(* A handler that starts. *)
LEMMA Entered ==
  ASSUME NEW step \in Steps, NEW key \in Key \cup {JobKey},
         NEW run \in Run \cup {NoRun},
         NEW then \in {"return", "reconcile", "draft", "publish", "approve"},
         Enter(step, key, run, then)
  PROVE  /\ call = Idle
         /\ call' \in Call /\ call'.at = step /\ call'.key = key /\ call'.run = run
BY DEF Enter, Call

(* A dispatch adds a running run unless it exists.                          *)
LEMMA Launched ==
  ASSUME TypeOK, NEW run \in Run, Launch(run)
  PROVE  /\ DOMAIN runs' = DOMAIN runs \cup {run}
         /\ \A r \in DOMAIN runs : runs'[r] = runs[r]
         /\ DOMAIN runs' \subseteq Run
         /\ \A r \in DOMAIN runs' : runs'[r] \in {"running", "applied"} \cup Answers[r.Role]
BY DEF Launch, TypeOK

(* The runs that dispatches create. *)
LEMMA RunsTyped ==
  ASSUME TypeOK
  PROVE  /\ PlannerRun \in Run /\ RevisionRun \in Run /\ HolisticRun \in Run
         /\ \A k \in DOMAIN tasks : WriterRun(k) \in Run /\ ReviewerRun(k) \in Run
         /\ DOMAIN tasks \subseteq Key
<1>1. PipelineTypeOK
  BY DEF TypeOK
<1>2. job.PlannerRetry \in Nat /\ job.CIReplanRounds \in Nat /\ job.HolisticRounds \in Nat
  BY <1>1 DEF PipelineTypeOK, Job
<1>3. DOMAIN tasks \subseteq Key
  <2>1. plan.Tasks \in Seq(Key) /\ DOMAIN tasks = Range(plan.Tasks)
    BY <1>1 DEF PipelineTypeOK
  <2> QED  BY <2>1, RangeOfSeq
<1>4. ASSUME NEW role \in Roles, NEW key \in Key \cup {JobKey, RevisionKey}, NEW n \in Nat
      PROVE  RunOf(role, key, n) \in Run
  BY DEF RunOf, Run
<1>5. PlannerRun \in Run
  BY <1>2, <1>4 DEF PlannerRun, Roles
<1>6. RevisionRun \in Run
  BY <1>2, <1>4 DEF RevisionRun, Roles
<1>7. HolisticRun \in Run
  BY <1>2, <1>4 DEF HolisticRun, Roles
<1>8. ASSUME NEW k \in DOMAIN tasks  PROVE WriterRun(k) \in Run /\ ReviewerRun(k) \in Run
  BY <1>1, <1>3, <1>4, TaskCounters DEF WriterRun, ReviewerRun, Roles
<1> QED  BY <1>3, <1>5, <1>6, <1>7, <1>8

-----------------------------------------------------------------------------
(* What the invariant gives a step, and what a step owes it. *)

EnvTypeOK ==
  /\ DOMAIN runs \subseteq Run
  /\ \A r \in DOMAIN runs : runs[r] \in {"running", "applied"} \cup Answers[r.Role]
  /\ repo \in Repo
  /\ pr \in PullRequest
  /\ left \in Budgets

(* The parts of the invariant a step starts from. *)
LEMMA InvFacts ==
  ASSUME IInv
  PROVE  /\ TypeOK /\ PipelineTypeOK /\ EnvTypeOK /\ call \in Call
         /\ call.at \notin QuietSteps => Live(job.Status)
         /\ call.at \in TaskSteps => call.key \in DOMAIN tasks
         /\ call.run \in Run \cup {NoRun} /\ call.run.Attempt \in Nat
         /\ call.key \in Key \cup {JobKey}
<1>1. TypeOK /\ PipelineTypeOK /\ EnvTypeOK /\ call \in Call
  BY DEF IInv, TypeOK, EnvTypeOK, Budgets
<1>2. ASSUME call.at \notin QuietSteps  PROVE Live(job.Status)
  BY <1>2 DEF IInv, Quiet, QuietSteps, Live, Idle
<1>3. call.run \in Run \cup {NoRun} /\ call.key \in Key \cup {JobKey}
  BY <1>1 DEF Call
<1>4. call.run.Attempt \in Nat
  BY <1>3 DEF Run, NoRun, RunOf
<1> QED  BY <1>1, <1>2, <1>3, <1>4 DEF IInv, KeyPlanned

(* A step that keeps the types, the task under work and the quiet preserves *)
(* the invariant, unless it starts to apply a verdict.                      *)
LEMMA StepPreserves ==
  ASSUME PipelineTypeOK', EnvTypeOK', call' \in Call, call'.at # "verdict",
         call'.at \in TaskSteps => call'.key \in DOMAIN tasks',
         Live(job'.Status) \/ Quiet'
  PROVE  IInv'
<1>1. Live(job'.Status) => Quiet'
  BY DEF Live, Quiet, Ended
<1> QED  BY <1>1 DEF IInv, TypeOK, EnvTypeOK, Budgets, KeyPlanned, VerdictKnown, At

(* Steps that leave the environment alone keep its type. *)
LEMMA SameEnv ==
  ASSUME EnvTypeOK, UNCHANGED <<runs, repo, pr, left>>
  PROVE  EnvTypeOK'
BY DEF EnvTypeOK

(* Steps that leave the record alone keep it. *)
LEMMA SameRecord ==
  ASSUME PipelineTypeOK, UNCHANGED <<job, plan, tasks>>
  PROVE  PipelineTypeOK'
BY DEF PipelineTypeOK

(* A plan that stays has the same tasks. *)
LEMMA SamePlan ==
  ASSUME PipelineTypeOK, PipelineTypeOK', UNCHANGED plan
  PROVE  DOMAIN tasks' = DOMAIN tasks
BY DEF PipelineTypeOK

(* A step of a handler that leaves the environment alone. *)
LEMMA HandlerPreserves ==
  ASSUME IInv, PipelineTypeOK', UNCHANGED envVars, call' \in Call,
         call'.at \notin TaskSteps \/ (/\ call'.at # "verdict" /\ UNCHANGED plan
                                     /\ call'.key \in DOMAIN tasks),
         Live(job'.Status) \/ Quiet'
  PROVE  IInv'
<1>1. EnvTypeOK'
  BY InvFacts, SameEnv DEF envVars
<1>2. call'.at # "verdict"
  BY DEF TaskSteps
<1>3. call'.at \in TaskSteps => call'.key \in DOMAIN tasks'
  BY InvFacts, SamePlan
<1> QED  BY <1>1, <1>2, <1>3, StepPreserves

(* A step of a handler that only dispatches a run. *)
LEMMA DispatchPreserves ==
  ASSUME IInv, PipelineTypeOK', UNCHANGED <<plan, repo, pr, left>>, NEW run \in Run, Launch(run),
         call' \in Call, call'.at # "verdict",
         call'.at \in TaskSteps => call'.key \in DOMAIN tasks,
         Live(job'.Status) \/ Quiet'
  PROVE  IInv'
<1>1. EnvTypeOK'
  BY InvFacts, Launched DEF EnvTypeOK
<1>2. call'.at \in TaskSteps => call'.key \in DOMAIN tasks'
  BY InvFacts, SamePlan
<1> QED  BY <1>1, <1>2, StepPreserves

-----------------------------------------------------------------------------
(* The steps of a handler. *)

(* Steps at which a handler is at work on a live job. *)
LEMMA AtWork ==
  ASSUME IInv, call.at \notin QuietSteps
  PROVE  /\ PipelineTypeOK /\ EnvTypeOK /\ TypeOK /\ call \in Call /\ Live(job.Status)
         /\ call.run.Attempt \in Nat
BY InvFacts

(* Steps on one task. *)
LEMMA TaskStepsPreserve ==
  ASSUME IInv,
         \/ Complete \/ OwnReviewer \/ StopTask
         \/ OwnWriter \/ OwnReady \/ ReleaseWriter
         \/ ReleaseReviewer
  PROVE  IInv'
<1>1. CASE Complete
  <2>0. call.at = "complete" /\ UNCHANGED envVars
    BY <1>1 DEF Complete, At
  <2>1. PipelineTypeOK /\ call \in Call /\ Live(job.Status) /\ call.run.Attempt \in Nat
    BY <2>0, AtWork DEF QuietSteps
  <2>2. call.key \in DOMAIN tasks
    BY <2>0, InvFacts DEF TaskSteps
  <2>3. RecordWriterCompletion(call.key, call.run.Attempt)
    BY <1>1 DEF Complete
  <2>4. PipelineTypeOK'
    BY <2>1, <2>2, <2>3, TaskTyped, PipelineAssumption, TaskCounters, JobCounters
  <2>5. Live(job'.Status)
    BY <2>1, <2>3, StaysLive
  <2>6. Go("reviewer")
    BY <1>1 DEF Complete
  <2>7. call' \in Call /\ call'.at \in {"reviewer"} /\ (call'.key = call.key \/ call'.at \in {"idle", "mark"})
    BY <2>1, <2>6, Went, Returned DEF Steps
  <2>8. UNCHANGED plan
    BY <2>3 DEF RecordWriterCompletion, pipelineVars
  <2> QED  BY <2>0, <2>2, <2>4, <2>5, <2>7, <2>8, HandlerPreserves DEF TaskSteps
<1>2. CASE OwnReviewer
  <2>0. call.at = "ownReviewer" /\ UNCHANGED envVars
    BY <1>2 DEF OwnReviewer, At
  <2>1. PipelineTypeOK /\ call \in Call /\ Live(job.Status) /\ call.run.Attempt \in Nat
    BY <2>0, AtWork DEF QuietSteps
  <2>2. call.key \in DOMAIN tasks
    BY <2>0, InvFacts DEF TaskSteps
  <2>3. StartReviewer(call.key, tasks[call.key].ReviewerAttempts + 1)
    BY <1>2 DEF OwnReviewer
  <2>4. PipelineTypeOK'
    BY <2>1, <2>2, <2>3, StartReviewerTyped, PipelineAssumption, TaskCounters, JobCounters
  <2>5. Live(job'.Status)
    BY <2>1, <2>3, StaysLive
  <2>6. Go("reviewers") \/ Return
    BY <1>2 DEF OwnReviewer
  <2>7. call' \in Call /\ call'.at \in {"idle", "mark", "reviewers"}
    BY <2>1, <2>6, Went, Returned DEF Steps
  <2> QED  BY <2>0, <2>2, <2>4, <2>5, <2>7, HandlerPreserves DEF TaskSteps
<1>3. CASE StopTask
  <2>0. call.at = "block" /\ UNCHANGED envVars
    BY <1>3 DEF StopTask, At
  <2>1. PipelineTypeOK /\ call \in Call /\ Live(job.Status) /\ call.run.Attempt \in Nat
    BY <2>0, AtWork DEF QuietSteps
  <2>2. call.key \in DOMAIN tasks
    BY <2>0, InvFacts DEF TaskSteps
  <2>3. BlockTask(call.key)
    BY <1>3 DEF StopTask
  <2>4. PipelineTypeOK'
    BY <2>1, <2>2, <2>3, TaskTyped, PipelineAssumption, TaskCounters, JobCounters
  <2>5. Live(job'.Status)
    BY <2>1, <2>3, StaysLive
  <2>6. Return
    BY <1>3 DEF StopTask
  <2>7. call' \in Call /\ call'.at \in {"idle", "mark"}
    BY <2>1, <2>6, Went, Returned DEF Steps
  <2> QED  BY <2>0, <2>2, <2>4, <2>5, <2>7, HandlerPreserves DEF TaskSteps
<1>4. CASE OwnWriter
  <2>0. call.at = "ownWriter" /\ UNCHANGED envVars
    BY <1>4 DEF OwnWriter, At
  <2>1. PipelineTypeOK /\ call \in Call /\ Live(job.Status) /\ call.run.Attempt \in Nat
    BY <2>0, AtWork DEF QuietSteps
  <2>2. call.key \in DOMAIN tasks
    BY <2>0, InvFacts DEF TaskSteps
  <2>3. StartTaskWork(call.key, tasks[call.key].WriterAttempts + 1)
    BY <1>4 DEF OwnWriter
  <2>4. PipelineTypeOK'
    BY <2>1, <2>2, <2>3, StartTaskWorkTyped, PipelineAssumption, TaskCounters, JobCounters
  <2>5. Live(job'.Status)
    BY <2>1, <2>3, StaysLive
  <2>6. Return
    BY <1>4 DEF OwnWriter
  <2>7. call' \in Call /\ call'.at \in {"idle", "mark"}
    BY <2>1, <2>6, Went, Returned DEF Steps
  <2> QED  BY <2>0, <2>2, <2>4, <2>5, <2>7, HandlerPreserves DEF TaskSteps
<1>5. CASE OwnReady
  <2>0. call.at = "ownReady" /\ UNCHANGED envVars
    BY <1>5 DEF OwnReady, At
  <2>1. PipelineTypeOK /\ call \in Call /\ Live(job.Status) /\ call.run.Attempt \in Nat
    BY <2>0, AtWork DEF QuietSteps
  <2>2. call.key \in DOMAIN tasks
    BY <2>0, InvFacts DEF TaskSteps
  <2>3. StartTaskWork(call.key, tasks[call.key].WriterAttempts + 1)
    BY <1>5 DEF OwnReady
  <2>4. PipelineTypeOK'
    BY <2>1, <2>2, <2>3, StartTaskWorkTyped, PipelineAssumption, TaskCounters, JobCounters
  <2>5. Live(job'.Status)
    BY <2>1, <2>3, StaysLive
  <2>6. Go("ready")
    BY <1>5 DEF OwnReady
  <2>7. call' \in Call /\ call'.at \in {"ready"}
    BY <2>1, <2>6, Went, Returned DEF Steps
  <2> QED  BY <2>0, <2>2, <2>4, <2>5, <2>7, HandlerPreserves DEF TaskSteps
<1>6. CASE ReleaseWriter
  <2>0. call.at = "retryWriter" /\ UNCHANGED envVars
    BY <1>6 DEF ReleaseWriter, At
  <2>1. PipelineTypeOK /\ call \in Call /\ Live(job.Status) /\ call.run.Attempt \in Nat
    BY <2>0, AtWork DEF QuietSteps
  <2>2. call.key \in DOMAIN tasks
    BY <2>0, InvFacts DEF TaskSteps
  <2>3. RetryWriter(call.key, tasks[call.key].WriterRunID)
    BY <1>6 DEF ReleaseWriter
  <2>4. PipelineTypeOK'
    BY <2>1, <2>2, <2>3, TaskTyped, PipelineAssumption, TaskCounters, JobCounters
  <2>5. Live(job'.Status)
    BY <2>1, <2>3, StaysLive
  <2>6. Go("writer")
    BY <1>6 DEF ReleaseWriter
  <2>7. call' \in Call /\ call'.at \in {"writer"} /\ (call'.key = call.key \/ call'.at \in {"idle", "mark"})
    BY <2>1, <2>6, Went, Returned DEF Steps
  <2>8. UNCHANGED plan
    BY <2>3 DEF RetryWriter, pipelineVars
  <2> QED  BY <2>0, <2>2, <2>4, <2>5, <2>7, <2>8, HandlerPreserves DEF TaskSteps
<1>7. CASE ReleaseReviewer
  <2>0. call.at = "retryReview" /\ UNCHANGED envVars
    BY <1>7 DEF ReleaseReviewer, At
  <2>1. PipelineTypeOK /\ call \in Call /\ Live(job.Status) /\ call.run.Attempt \in Nat
    BY <2>0, AtWork DEF QuietSteps
  <2>2. call.key \in DOMAIN tasks
    BY <2>0, InvFacts DEF TaskSteps
  <2>3. RetryReview(call.key, tasks[call.key].ReviewerRunID)
    BY <1>7 DEF ReleaseReviewer
  <2>4. PipelineTypeOK'
    BY <2>1, <2>2, <2>3, TaskTyped, PipelineAssumption, TaskCounters, JobCounters
  <2>5. Live(job'.Status)
    BY <2>1, <2>3, StaysLive
  <2>6. Go("reviewer")
    BY <1>7 DEF ReleaseReviewer
  <2>7. call' \in Call /\ call'.at \in {"reviewer"} /\ (call'.key = call.key \/ call'.at \in {"idle", "mark"})
    BY <2>1, <2>6, Went, Returned DEF Steps
  <2>8. UNCHANGED plan
    BY <2>3 DEF RetryReview, pipelineVars
  <2> QED  BY <2>0, <2>2, <2>4, <2>5, <2>7, <2>8, HandlerPreserves DEF TaskSteps
<1> QED  BY <1>1, <1>2, <1>3, <1>4, <1>5, <1>6, <1>7

(* Steps that only decide what comes next. *)
LEMMA ChoicesPreserve ==
  ASSUME IInv,
         \/ NoneReady \/ NoneIntegrable \/ IntegrationRefused
         \/ Publish \/ PassGate \/ GateRefused
         \/ AlreadyMerged
  PROVE  IInv'
<1>1. CASE NoneReady
  <2>0. call.at = "ready" /\ UNCHANGED envVars
    BY <1>1 DEF NoneReady, At
  <2>1. PipelineTypeOK /\ call \in Call /\ Live(job.Status) /\ call.run.Attempt \in Nat
    BY <2>0, AtWork DEF QuietSteps
  <2>3. UNCHANGED pipelineVars
    BY <1>1 DEF NoneReady
  <2>4. PipelineTypeOK'
    BY <2>1, <2>3, SameRecord DEF pipelineVars
  <2>5. Live(job'.Status)
    BY <2>1, <2>3 DEF pipelineVars
  <2>6. Go("draft") \/ Return
    BY <1>1 DEF NoneReady
  <2>7. call' \in Call /\ call'.at \in {"draft", "idle", "mark"}
    BY <2>1, <2>6, Went, Returned DEF Steps
  <2> QED  BY <2>0, <2>4, <2>5, <2>7, HandlerPreserves DEF TaskSteps
<1>2. CASE NoneIntegrable
  <2>0. call.at = "integrate" /\ UNCHANGED envVars
    BY <1>2 DEF NoneIntegrable, At
  <2>1. PipelineTypeOK /\ call \in Call /\ Live(job.Status) /\ call.run.Attempt \in Nat
    BY <2>0, AtWork DEF QuietSteps
  <2>3. UNCHANGED pipelineVars
    BY <1>2 DEF NoneIntegrable
  <2>4. PipelineTypeOK'
    BY <2>1, <2>3, SameRecord DEF pipelineVars
  <2>5. Live(job'.Status)
    BY <2>1, <2>3 DEF pipelineVars
  <2>6. Go("ready")
    BY <1>2 DEF NoneIntegrable
  <2>7. call' \in Call /\ call'.at \in {"ready"}
    BY <2>1, <2>6, Went, Returned DEF Steps
  <2> QED  BY <2>0, <2>4, <2>5, <2>7, HandlerPreserves DEF TaskSteps
<1>3. CASE IntegrationRefused
  <2>0. call.at = "integrate" /\ UNCHANGED envVars
    BY <1>3 DEF IntegrationRefused, At
  <2>1. PipelineTypeOK /\ call \in Call /\ Live(job.Status) /\ call.run.Attempt \in Nat
    BY <2>0, AtWork DEF QuietSteps
  <2>3. UNCHANGED pipelineVars
    BY <1>3 DEF IntegrationRefused
  <2>4. PipelineTypeOK'
    BY <2>1, <2>3, SameRecord DEF pipelineVars
  <2>5. Live(job'.Status)
    BY <2>1, <2>3 DEF pipelineVars
  <2>6. Error
    BY <1>3 DEF IntegrationRefused
  <2>7. call' \in Call /\ call'.at \in {"idle", "mark"}
    BY <2>1, <2>6, Went, Returned DEF Steps
  <2> QED  BY <2>0, <2>4, <2>5, <2>7, HandlerPreserves DEF TaskSteps
<1>4. CASE Publish
  <2>0. call.at = "publish" /\ UNCHANGED envVars
    BY <1>4 DEF Publish, At
  <2>1. PipelineTypeOK /\ call \in Call /\ Live(job.Status) /\ call.run.Attempt \in Nat
    BY <2>0, AtWork DEF QuietSteps
  <2>3. UNCHANGED pipelineVars
    BY <1>4 DEF Publish
  <2>4. PipelineTypeOK'
    BY <2>1, <2>3, SameRecord DEF pipelineVars
  <2>5. Live(job'.Status)
    BY <2>1, <2>3 DEF pipelineVars
  <2>6. Go("gate") \/ Go("createPR")
    BY <1>4 DEF Publish
  <2>7. call' \in Call /\ call'.at \in {"createPR", "gate"}
    BY <2>1, <2>6, Went, Returned DEF Steps
  <2> QED  BY <2>0, <2>4, <2>5, <2>7, HandlerPreserves DEF TaskSteps
<1>5. CASE PassGate
  <2>0. call.at = "gate" /\ UNCHANGED envVars
    BY <1>5 DEF PassGate, At
  <2>1. PipelineTypeOK /\ call \in Call /\ Live(job.Status) /\ call.run.Attempt \in Nat
    BY <2>0, AtWork DEF QuietSteps
  <2>3. UNCHANGED pipelineVars
    BY <1>5 DEF PassGate
  <2>4. PipelineTypeOK'
    BY <2>1, <2>3, SameRecord DEF pipelineVars
  <2>5. Live(job'.Status)
    BY <2>1, <2>3 DEF pipelineVars
  <2>6. Return \/ Go("mergePR")
    BY <1>5 DEF PassGate
  <2>7. call' \in Call /\ call'.at \in {"idle", "mark", "mergePR"}
    BY <2>1, <2>6, Went, Returned DEF Steps
  <2> QED  BY <2>0, <2>4, <2>5, <2>7, HandlerPreserves DEF TaskSteps
<1>6. CASE GateRefused
  <2>0. call.at = "gate" /\ UNCHANGED envVars
    BY <1>6 DEF GateRefused, At
  <2>1. PipelineTypeOK /\ call \in Call /\ Live(job.Status) /\ call.run.Attempt \in Nat
    BY <2>0, AtWork DEF QuietSteps
  <2>3. UNCHANGED pipelineVars
    BY <1>6 DEF GateRefused
  <2>4. PipelineTypeOK'
    BY <2>1, <2>3, SameRecord DEF pipelineVars
  <2>5. Live(job'.Status)
    BY <2>1, <2>3 DEF pipelineVars
  <2>6. Error
    BY <1>6 DEF GateRefused
  <2>7. call' \in Call /\ call'.at \in {"idle", "mark"}
    BY <2>1, <2>6, Went, Returned DEF Steps
  <2> QED  BY <2>0, <2>4, <2>5, <2>7, HandlerPreserves DEF TaskSteps
<1>7. CASE AlreadyMerged
  <2>0. call.at = "gate" /\ UNCHANGED envVars
    BY <1>7 DEF AlreadyMerged, At
  <2>1. PipelineTypeOK /\ call \in Call /\ Live(job.Status) /\ call.run.Attempt \in Nat
    BY <2>0, AtWork DEF QuietSteps
  <2>3. UNCHANGED pipelineVars
    BY <1>7 DEF AlreadyMerged
  <2>4. PipelineTypeOK'
    BY <2>1, <2>3, SameRecord DEF pipelineVars
  <2>5. Live(job'.Status)
    BY <2>1, <2>3 DEF pipelineVars
  <2>6. Go("recordMerge")
    BY <1>7 DEF AlreadyMerged
  <2>7. call' \in Call /\ call'.at \in {"recordMerge"}
    BY <2>1, <2>6, Went, Returned DEF Steps
  <2> QED  BY <2>0, <2>4, <2>5, <2>7, HandlerPreserves DEF TaskSteps
<1> QED  BY <1>1, <1>2, <1>3, <1>4, <1>5, <1>6, <1>7

(* Steps on the scalar fields of the job. *)
LEMMA ScalarStepsPreserve ==
  ASSUME IInv,
         \/ SavePullRequest \/ NewHolisticRound \/ RenewPlanning
  PROVE  IInv'
<1>1. CASE SavePullRequest
  <2>0. call.at = "recordPR" /\ UNCHANGED envVars
    BY <1>1 DEF SavePullRequest, At
  <2>1. PipelineTypeOK /\ call \in Call /\ Live(job.Status) /\ call.run.Attempt \in Nat
    BY <2>0, AtWork DEF QuietSteps
  <2>3. RecordPullRequest
    BY <1>1 DEF SavePullRequest
  <2>4. PipelineTypeOK'
    BY <2>1, <2>3, ScalarTyped, PipelineAssumption, TaskCounters, JobCounters
  <2>5. Live(job'.Status)
    BY <2>1, <2>3, StaysLive
  <2>6. Go("draftCheck") \/ Go("gate")
    BY <1>1 DEF SavePullRequest
  <2>7. call' \in Call /\ call'.at \in {"draftCheck", "gate"}
    BY <2>1, <2>6, Went, Returned DEF Steps
  <2> QED  BY <2>0, <2>4, <2>5, <2>7, HandlerPreserves DEF TaskSteps
<1>2. CASE NewHolisticRound
  <2>0. call.at = "resetRound" /\ UNCHANGED envVars
    BY <1>2 DEF NewHolisticRound, At
  <2>1. PipelineTypeOK /\ call \in Call /\ Live(job.Status) /\ call.run.Attempt \in Nat
    BY <2>0, AtWork DEF QuietSteps
  <2>3. ResetHolisticRound
    BY <1>2 DEF NewHolisticRound
  <2>4. PipelineTypeOK'
    BY <2>1, <2>3, ScalarTyped, PipelineAssumption, TaskCounters, JobCounters
  <2>5. Live(job'.Status)
    BY <2>1, <2>3, StaysLive
  <2>6. Go("holistic")
    BY <1>2 DEF NewHolisticRound
  <2>7. call' \in Call /\ call'.at \in {"holistic"}
    BY <2>1, <2>6, Went, Returned DEF Steps
  <2> QED  BY <2>0, <2>4, <2>5, <2>7, HandlerPreserves DEF TaskSteps
<1>3. CASE RenewPlanning
  <2>0. call.at = "retryPlanning" /\ UNCHANGED envVars
    BY <1>3 DEF RenewPlanning, At
  <2>1. PipelineTypeOK /\ call \in Call /\ Live(job.Status) /\ call.run.Attempt \in Nat
    BY <2>0, AtWork DEF QuietSteps
  <2>3. RetryPlanning
    BY <1>3 DEF RenewPlanning
  <2>4. PipelineTypeOK'
    BY <2>1, <2>3, ScalarTyped, PipelineAssumption, TaskCounters, JobCounters
  <2>5. Live(job'.Status)
    BY <2>1, <2>3, StaysLive
  <2>6. Go("planner") \/ Go("revision")
    BY <1>3 DEF RenewPlanning
  <2>7. call' \in Call /\ call'.at \in {"planner", "revision"}
    BY <2>1, <2>6, Went, Returned DEF Steps
  <2> QED  BY <2>0, <2>4, <2>5, <2>7, HandlerPreserves DEF TaskSteps
<1> QED  BY <1>1, <1>2, <1>3

(* A reviewer's verdict is recorded and decides what the task does next.    *)
LEMMA DecideReviewPreserves ==
  ASSUME IInv, DecideReview
  PROVE  IInv'
<1>1. call.at = "verdict" /\ UNCHANGED envVars
  BY DEF DecideReview, At
<1>2. PipelineTypeOK /\ call \in Call /\ Live(job.Status) /\ call.run.Attempt \in Nat
  BY <1>1, AtWork DEF QuietSteps
<1>3. call.key \in DOMAIN tasks /\ VerdictOf(call.run) \in Verdict
  BY <1>1, InvFacts DEF TaskSteps, IInv, VerdictKnown, At
<1>4. RecordReview(call.key, call.run.Attempt, VerdictOf(call.run))
  BY DEF DecideReview
<1>5. PipelineTypeOK' /\ Live(job'.Status)
  BY <1>2, <1>3, <1>4, ReviewTyped, StaysLive
<1>6. GoThen("integrate", "draft") \/ Go("writer") \/ Go("block")
  BY DEF DecideReview
<1>7. call' \in Call /\ call'.at \in {"integrate", "writer", "block"} /\ call'.key = call.key
  BY <1>2, <1>6, Went DEF Steps
<1>8. UNCHANGED plan
  BY <1>4 DEF RecordReview, pipelineVars
<1> QED  BY <1>1, <1>3, <1>5, <1>7, <1>8, HandlerPreserves DEF TaskSteps

(* Steps that dispatch a run for nobody's task. *)
LEMMA RoundDispatchPreserves ==
  ASSUME IInv, DispatchHolistic \/ DispatchPlanner
  PROVE  IInv'
<1>1. call.at \in {"holistic", "planner", "revision"} /\ UNCHANGED <<pipelineVars, repo, pr, left>>
  BY DEF DispatchHolistic, DispatchPlanner, At
<1>2. PipelineTypeOK /\ call \in Call /\ Live(job.Status) /\ TypeOK
  BY <1>1, AtWork DEF QuietSteps
<1>3. PipelineTypeOK' /\ Live(job'.Status)
  BY <1>1, <1>2, SameRecord DEF pipelineVars
<1>4. \E run \in Run : Launch(run)
  BY <1>2, RunsTyped DEF DispatchHolistic, DispatchPlanner
<1>5. Go("ownHolistic") \/ Return
  BY DEF DispatchHolistic, DispatchPlanner
<1>6. call' \in Call /\ call'.at \in {"ownHolistic", "idle", "mark"}
  BY <1>2, <1>5, Went, Returned DEF Steps
<1> QED  BY <1>1, <1>3, <1>4, <1>6, DispatchPreserves DEF TaskSteps, pipelineVars

(* A reviewer is dispatched for the task under work. *)
LEMMA DispatchReviewerPreserves ==
  ASSUME IInv, DispatchReviewer
  PROVE  IInv'
<1>1. call.at = "reviewer" /\ UNCHANGED <<pipelineVars, repo, pr, left>>
  BY DEF DispatchReviewer, At
<1>2. PipelineTypeOK /\ call \in Call /\ Live(job.Status) /\ TypeOK
  BY <1>1, AtWork DEF QuietSteps
<1>3. call.key \in DOMAIN tasks
  BY <1>1, InvFacts DEF TaskSteps
<1>4. PipelineTypeOK' /\ Live(job'.Status)
  BY <1>1, <1>2, SameRecord DEF pipelineVars
<1>5. ReviewerRun(call.key) \in Run /\ Launch(ReviewerRun(call.key))
  BY <1>2, <1>3, RunsTyped DEF DispatchReviewer
<1>6. call' \in Call /\ call'.at = "ownReviewer" /\ call'.key = call.key
  BY <1>2, Went DEF DispatchReviewer, Steps
<1> QED  BY <1>1, <1>3, <1>4, <1>5, <1>6, DispatchPreserves DEF pipelineVars

(* A writer is dispatched, its base recorded first. *)
LEMMA LaunchWriterTyped ==
  ASSUME IInv, NEW k \in DOMAIN tasks, LaunchWriter(k), Live(job.Status)
  PROVE  /\ PipelineTypeOK' /\ Live(job'.Status) /\ UNCHANGED <<plan, repo, pr, left>>
         /\ WriterRun(k) \in Run /\ Launch(WriterRun(k))
<1>1. PipelineTypeOK /\ TypeOK /\ repo.head \in Nat
  BY InvFacts DEF EnvTypeOK, Repo
<1>2. CASE RecordTaskBase(k, repo.head)
  <2>1. PipelineTypeOK' /\ Live(job'.Status)
    BY <1>1, <1>2, TaskTyped, StaysLive, PipelineAssumption
  <2> QED  BY <1>1, <1>2, <2>1, RunsTyped DEF LaunchWriter, RecordTaskBase
<1>3. CASE UNCHANGED pipelineVars
  <2>1. PipelineTypeOK' /\ Live(job'.Status)
    BY <1>1, <1>3, SameRecord DEF pipelineVars
  <2> QED  BY <1>1, <1>3, <2>1, RunsTyped DEF LaunchWriter, pipelineVars
<1> QED  BY <1>2, <1>3 DEF LaunchWriter

(* The writer of the handler's task, and of the first task that is ready. *)
LEMMA DispatchWriterPreserves ==
  ASSUME IInv, DispatchWriter \/ DispatchReady
  PROVE  IInv'
<1>0. call.at \in {"writer", "ready"}
  BY DEF DispatchWriter, DispatchReady, At
<1>1. PipelineTypeOK /\ call \in Call /\ Live(job.Status) /\ TypeOK
  BY <1>0, AtWork DEF QuietSteps
<1>2. CASE DispatchWriter
  <2>1. call.key \in DOMAIN tasks
    BY <1>2, InvFacts DEF TaskSteps, DispatchWriter, At
  <2>2. /\ PipelineTypeOK' /\ Live(job'.Status) /\ UNCHANGED <<plan, repo, pr, left>>
        /\ WriterRun(call.key) \in Run /\ Launch(WriterRun(call.key))
    BY <1>1, <1>2, <2>1, LaunchWriterTyped DEF DispatchWriter
  <2>3. call' \in Call /\ call'.at = "ownWriter" /\ call'.key = call.key
    BY <1>1, <1>2, Went DEF DispatchWriter, Steps
  <2> QED  BY <2>1, <2>2, <2>3, DispatchPreserves
<1>3. CASE DispatchReady
  <2>1. PICK k \in FirstTask(Ready) :
          IF tasks[k].WriterAttempts >= MaxWriterAttempts
          THEN BlockTask(k) /\ UNCHANGED <<envVars, call>>
          ELSE LaunchWriter(k) /\ With("ownReady", k)
    BY <1>3 DEF DispatchReady
  <2>2. k \in DOMAIN tasks /\ k \in Key
    <3>1. k \in Range(plan.Tasks)
      BY DEF FirstTask, Range
    <3> QED  BY <1>1, <3>1, RunsTyped DEF PipelineTypeOK
  <2>3. CASE BlockTask(k) /\ UNCHANGED <<envVars, call>>
    <3>1. PipelineTypeOK' /\ Live(job'.Status)
      BY <1>1, <2>2, <2>3, TaskTyped, StaysLive, PipelineAssumption
    <3>2. call'.at = "ready"
      BY <1>3, <2>3 DEF DispatchReady, At
    <3> QED  BY <1>1, <2>3, <3>1, <3>2, HandlerPreserves DEF TaskSteps
  <2>4. CASE LaunchWriter(k) /\ With("ownReady", k)
    <3>1. /\ PipelineTypeOK' /\ Live(job'.Status) /\ UNCHANGED <<plan, repo, pr, left>>
          /\ WriterRun(k) \in Run /\ Launch(WriterRun(k))
      BY <1>1, <2>2, <2>4, LaunchWriterTyped
    <3>2. call' \in Call /\ call'.at = "ownReady" /\ call'.key = k
      BY <1>1, <2>2, <2>4, Took DEF Steps
    <3> QED  BY <2>2, <3>1, <3>2, DispatchPreserves
  <2> QED  BY <2>1, <2>3, <2>4
<1> QED  BY <1>2, <1>3

(* A key found in the plan's listing is a planned task. *)
LEMMA FoundPlanned ==
  ASSUME TypeOK, NEW S \in SUBSET Range(plan.Tasks), NEW k \in S
  PROVE  k \in DOMAIN tasks /\ k \in Key
BY RunsTyped DEF TypeOK, PipelineTypeOK

(* So are the first task to integrate and the first without a reviewer. *)
LEMMA ListedPlanned ==
  ASSUME TypeOK
  PROVE  FirstTask(Integrable) \cup FirstTask(Unreviewed) \subseteq DOMAIN tasks \cap Key
<1>1. FirstTask(Integrable) \subseteq Range(plan.Tasks)
  BY DEF FirstTask, Range
<1>2. FirstTask(Unreviewed) \subseteq Range(plan.Tasks)
  BY DEF FirstTask, Range
<1> QED  BY <1>1, <1>2, FoundPlanned

(* Integration takes the first task that can be integrated. *)
LEMMA BeginIntegrationPreserves ==
  ASSUME IInv, BeginIntegration
  PROVE  IInv'
<1>1. call.at = "integrate" /\ UNCHANGED envVars
  BY DEF BeginIntegration, At
<1>2. PipelineTypeOK /\ call \in Call /\ Live(job.Status) /\ TypeOK
  BY <1>1, AtWork DEF QuietSteps
<1>3. PICK k \in FirstTask(Integrable) :
        /\ UNCHANGED pipelineVars \/ StartIntegration(k)
        /\ With("merge", k)
  BY DEF BeginIntegration
<1>4. k \in DOMAIN tasks /\ k \in Key
  BY <1>2, ListedPlanned
<1>5. PipelineTypeOK' /\ Live(job'.Status) /\ UNCHANGED plan
  <2>1. CASE UNCHANGED pipelineVars
    BY <1>2, <2>1, SameRecord DEF pipelineVars
  <2>2. CASE StartIntegration(k)
    <3>1. PipelineTypeOK'
      BY <1>2, <1>4, <2>2, TaskTyped, PipelineAssumption
    <3> QED  BY <1>2, <2>2, <3>1, StaysLive DEF StartIntegration
  <2> QED  BY <1>3, <2>1, <2>2
<1>6. call' \in Call /\ call'.at = "merge" /\ call'.key = k
  BY <1>2, <1>3, <1>4, Took DEF Steps
<1> QED  BY <1>1, <1>4, <1>5, <1>6, HandlerPreserves

(* Reconciliation takes the first task without a reviewer. *)
LEMMA NextReviewerPreserves ==
  ASSUME IInv, NextReviewer
  PROVE  IInv'
<1>1. call.at = "reviewers" /\ UNCHANGED envVars /\ UNCHANGED pipelineVars
  BY DEF NextReviewer, At
<1>2. PipelineTypeOK /\ call \in Call /\ Live(job.Status) /\ TypeOK
  BY <1>1, AtWork DEF QuietSteps
<1>3. PipelineTypeOK' /\ Live(job'.Status) /\ UNCHANGED plan
  BY <1>1, <1>2, SameRecord DEF pipelineVars
<1>4. CASE GoThen("integrate", "draft")
  <2>1. call' \in Call /\ call'.at = "integrate"
    BY <1>2, <1>4, Went DEF Steps
  <2> QED  BY <1>1, <1>3, <2>1, HandlerPreserves DEF TaskSteps
<1>5. CASE \E k \in FirstTask(Unreviewed) : With("reviewer", k)
  <2> PICK k \in FirstTask(Unreviewed) : With("reviewer", k)
    BY <1>5
  <2>1. k \in DOMAIN tasks /\ k \in Key
    BY <1>2, ListedPlanned
  <2>2. call' \in Call /\ call'.at = "reviewer" /\ call'.key = k
    BY <1>2, <2>1, Took DEF Steps
  <2> QED  BY <1>1, <1>3, <2>1, <2>2, HandlerPreserves
<1> QED  BY <1>4, <1>5 DEF NextReviewer

(* The merge in the integration worktree, its conflict and its record. *)
LEMMA MergePreserves ==
  ASSUME IInv, MergeTask \/ MergeConflict \/ Integrated
  PROVE  IInv'
<1>1. call.at \in {"merge", "integrated"}
  BY DEF MergeTask, MergeConflict, Integrated, At
<1>2. PipelineTypeOK /\ EnvTypeOK /\ call \in Call /\ Live(job.Status) /\ TypeOK
  BY <1>1, AtWork DEF QuietSteps
<1>3. call.key \in DOMAIN tasks /\ call.key \in Key
  BY <1>1, <1>2, InvFacts, RunsTyped DEF TaskSteps
<1>4. CASE MergeTask
  <2>1. PipelineTypeOK' /\ Live(job'.Status) /\ UNCHANGED <<plan, runs, pr, left>>
    BY <1>2, <1>4, SameRecord DEF MergeTask, pipelineVars
  <2>2. [repo EXCEPT !.head = repo.last + 1, !.last = @ + 1, !.merged = @ \cup {call.key}] \in Repo
    <3>1. repo \in Repo
      BY <1>2 DEF EnvTypeOK
    <3>2. repo.last + 1 \in Nat /\ repo.merged \cup {call.key} \in SUBSET Key
      BY <1>3, <3>1 DEF Repo
    <3> QED  BY <3>1, <3>2 DEF Repo
  <2>3. repo' \in Repo
    BY <1>2, <1>4, <2>2 DEF MergeTask, EnvTypeOK
  <2>4. EnvTypeOK'
    BY <1>2, <2>1, <2>3 DEF EnvTypeOK
  <2>5. call' \in Call /\ call'.at = "integrated" /\ call'.key = call.key
    BY <1>2, <1>4, Went DEF MergeTask, Steps
  <2>6. DOMAIN tasks' = DOMAIN tasks
    BY <1>2, <2>1, SamePlan
  <2> QED  BY <1>3, <2>1, <2>4, <2>5, <2>6, StepPreserves
<1>5. CASE MergeConflict
  <2>1. BlockTask(call.key) /\ UNCHANGED <<runs, repo, pr>> /\ Return /\ Spend("conflicts")
    BY <1>5 DEF MergeConflict
  <2>2. PipelineTypeOK' /\ Live(job'.Status)
    BY <1>2, <1>3, <2>1, TaskTyped, StaysLive, PipelineAssumption
  <2>3. left' \in Budgets
    BY <1>2, <2>1 DEF Spend, EnvTypeOK, Budgets
  <2>4. EnvTypeOK'
    BY <1>2, <2>1, <2>3 DEF EnvTypeOK
  <2>5. call' \in Call /\ call'.at \in {"idle", "mark"}
    BY <1>2, <2>1, Returned
  <2> QED  BY <2>2, <2>4, <2>5, StepPreserves DEF TaskSteps
<1>6. CASE Integrated
  <2>1. RecordIntegration(call.key, repo.head) /\ UNCHANGED envVars /\ repo.head \in Nat
    BY <1>2, <1>6 DEF Integrated, EnvTypeOK, Repo
  <2>2. PipelineTypeOK' /\ Live(job'.Status)
    BY <1>2, <1>3, <2>1, IntegrationTyped, StaysLive
  <2>3. call' \in Call /\ call'.at = "integrate"
    BY <1>2, <1>6, Went DEF Integrated, Steps
  <2> QED  BY <2>1, <2>2, <2>3, HandlerPreserves DEF TaskSteps
<1> QED  BY <1>4, <1>5, <1>6

(* Steps on the pull request. *)
LEMMA PullRequestPreserves ==
  ASSUME IInv, PushBranch \/ CreatePR \/ Promote \/ MergePR
  PROVE  IInv'
<1>1. /\ call.at \in {"draft", "createPR", "gate", "mergePR"}
      /\ UNCHANGED <<pipelineVars, runs, repo, left>>
  BY DEF PushBranch, CreatePR, Promote, MergePR, At
<1>2. PipelineTypeOK /\ EnvTypeOK /\ call \in Call /\ Live(job.Status)
  BY <1>1, AtWork DEF QuietSteps
<1>3. PipelineTypeOK' /\ Live(job'.Status)
  BY <1>1, <1>2, SameRecord DEF pipelineVars
<1>4. pr \in PullRequest /\ repo.head \in Nat
  BY <1>2 DEF EnvTypeOK, Repo
<1>5. pr' \in PullRequest
  BY <1>4 DEF PushBranch, CreatePR, Promote, MergePR, PullRequest
<1>6. EnvTypeOK'
  BY <1>1, <1>2, <1>5 DEF EnvTypeOK
<1>7. \/ Go("draftCheck") \/ Go("createPR") \/ Go("recordPR") \/ Go("recordMerge")
      \/ Error \/ UNCHANGED call
  BY DEF PushBranch, CreatePR, Promote, MergePR
<1>8. /\ call' \in Call
      /\ call'.at \in {"draftCheck", "createPR", "recordPR", "recordMerge", "idle", "mark",
                       "draft", "gate", "mergePR"}
  BY <1>1, <1>2, <1>7, Went, Returned DEF Steps
<1> QED  BY <1>3, <1>6, <1>8, StepPreserves DEF TaskSteps

(* CI is bound to the draft, or the draft is refused. *)
LEMMA DraftPreserves ==
  ASSUME IInv, BeginCI \/ DraftRefused
  PROVE  IInv'
<1>1. call.at \in {"draft", "draftCheck"} /\ UNCHANGED envVars
  BY DEF BeginCI, DraftRefused, At
<1>2. PipelineTypeOK /\ EnvTypeOK /\ call \in Call /\ Live(job.Status)
  BY <1>1, AtWork DEF QuietSteps
<1>3. pr.head \in Nat
  BY <1>2 DEF EnvTypeOK, PullRequest
<1>4. PipelineTypeOK' /\ Live(job'.Status)
  <2>1. CASE BeginCI
    <3>1. StartCI(pr.head) /\ "pending" \in Verdict /\ 0 \in Nat
      BY <2>1 DEF BeginCI, Verdict
    <3> QED  BY <1>2, <1>3, <3>1, HolisticTyped, StaysLive, PipelineAssumption
  <2>2. CASE DraftRefused
    BY <1>2, <2>2, SameRecord DEF DraftRefused, pipelineVars
  <2> QED  BY <2>1, <2>2
<1>5. call' \in Call /\ call'.at \in {"idle", "mark"}
  BY <1>2, Returned DEF BeginCI, DraftRefused
<1> QED  BY <1>1, <1>4, <1>5, HandlerPreserves DEF TaskSteps

(* Steps on the holistic round. *)
LEMMA RoundPreserves ==
  ASSUME IInv, OwnHolistic \/ Reopen
  PROVE  IInv'
<1>1. call.at \in {"ownHolistic", "reopen"} /\ UNCHANGED envVars
  BY DEF OwnHolistic, Reopen, At
<1>2. PipelineTypeOK /\ call \in Call /\ Live(job.Status)
  BY <1>1, AtWork DEF QuietSteps
<1>3. PipelineTypeOK' /\ Live(job'.Status)
  <2>1. CASE OwnHolistic
    <3>1. /\ StartHolisticReviewer(job.HolisticRounds + 1, job.IntegrationSHA)
          /\ "pending" \in Verdict
      BY <2>1 DEF OwnHolistic, Verdict
    <3> QED  BY <1>2, <3>1, HolisticTyped, StaysLive, JobCounters, PipelineAssumption
  <2>2. CASE Reopen
    <3>1. ReopenIncompleteTasks \/ StartReviewRemediation
      BY <2>2 DEF Reopen
    <3> QED  BY <1>2, <3>1, ReopenTyped, RemediationTyped, StaysLive, PipelineAssumption
  <2> QED  BY <2>1, <2>2
<1>4. Return \/ GoThen("ready", "return")
  BY DEF OwnHolistic, Reopen
<1>5. call' \in Call /\ call'.at \in {"idle", "mark", "ready"}
  BY <1>2, <1>4, Returned, Went DEF Steps
<1> QED  BY <1>1, <1>3, <1>5, HandlerPreserves DEF TaskSteps

(* Failing CI is repaired or escalated. *)
LEMMA RepairPreserves ==
  ASSUME IInv, RepairCI \/ EscalateCI
  PROVE  IInv'
<1>1. call.at = "repair" /\ UNCHANGED envVars
  BY DEF RepairCI, EscalateCI, At
<1>2. PipelineTypeOK /\ call \in Call /\ Live(job.Status)
  BY <1>1, AtWork DEF QuietSteps
<1>3. job.CI.FailureFingerprint \in Fingerprint \cup {NoPrint} /\ job \in Job
  BY <1>2, JobCounters DEF CIRecord
<1>4. CASE RepairCI
  <2>1. StartCIRemediation(job.CI.FailureFingerprint)
    BY <1>4 DEF RepairCI
  <2>2. PipelineTypeOK' /\ Live(job'.Status)
    BY <1>2, <1>3, <2>1, RemediationTyped, StaysLive, PipelineAssumption
  <2>3. call' \in Call /\ call'.at = "ready"
    BY <1>2, <1>4, Went DEF RepairCI, Steps
  <2> QED  BY <1>1, <2>2, <2>3, HandlerPreserves DEF TaskSteps
<1>5. CASE EscalateCI
  <2>1. BeginCIReplan(job.CI.FailureFingerprint)
    BY <1>5 DEF EscalateCI
  <2>2. PipelineTypeOK'
    BY <1>2, <2>1, BeginCIReplanTyped
  <2>3. CASE job.CIReplanRounds >= MaxCIReplanRounds
    <3>1. call' \in Call /\ call'.at \in {"idle", "mark"}
      BY <1>2, <1>5, <2>3, Returned DEF EscalateCI
    <3>2. job'.Status = "failed"
      BY <1>3, <2>1, <2>3 DEF BeginCIReplan, Job
    <3>3. Quiet'
      BY <3>1, <3>2 DEF Quiet, QuietSteps
    <3> QED  BY <1>1, <2>2, <3>1, <3>3, HandlerPreserves DEF TaskSteps
  <2>4. CASE ~(job.CIReplanRounds >= MaxCIReplanRounds)
    <3>1. call' \in Call /\ call'.at = "revision"
      BY <1>2, <1>5, <2>4, Went DEF EscalateCI, Steps
    <3>2. job'.Status = "ci_replanning"
      BY <1>3, <2>1, <2>4 DEF BeginCIReplan, Job
    <3>3. Live(job'.Status)
      BY <3>2 DEF Live, Ended
    <3> QED  BY <1>1, <2>2, <3>1, <3>3, HandlerPreserves DEF TaskSteps
  <2> QED  BY <2>3, <2>4
<1> QED  BY <1>4, <1>5

(* The steps that end a job. *)
LEMMA EndPreserves ==
  ASSUME IInv, StopJob \/ SaveMerge
  PROVE  IInv'
<1>1. call.at \in {"fail", "recordMerge"} /\ UNCHANGED envVars
  BY DEF StopJob, SaveMerge, At
<1>2. PipelineTypeOK /\ call \in Call /\ job \in Job
  BY <1>1, AtWork, JobCounters DEF QuietSteps
<1>3. FailJob \/ RecordMerge
  BY DEF StopJob, SaveMerge
<1>4. PipelineTypeOK'
  BY <1>2, <1>3, ScalarTyped, PipelineAssumption
<1>5. call' \in Call /\ call'.at \in {"idle", "mark"}
  BY <1>2, Returned DEF StopJob, SaveMerge
<1>6. job'.Status \in {"failed", "published"}
  BY <1>2, <1>3 DEF FailJob, RecordMerge, Job
<1>7. Quiet'
  BY <1>5, <1>6 DEF Quiet, QuietSteps
<1> QED  BY <1>1, <1>4, <1>5, <1>7, HandlerPreserves DEF TaskSteps

(* Bookkeeping: the marker, and the dispatches of a cancelled job.          *)
LEMMA BookkeepingPreserves ==
  ASSUME IInv, Mark \/ CancelRuns
  PROVE  IInv'
<1>1. Error /\ UNCHANGED <<pipelineVars, repo, pr, left>>
  BY DEF Mark, CancelRuns, pipelineVars
<1>2. PipelineTypeOK /\ EnvTypeOK /\ call \in Call
  BY InvFacts
<1>3. PipelineTypeOK'
  BY <1>1, <1>2, SameRecord DEF pipelineVars
<1>4. EnvTypeOK'
  BY <1>1, <1>2 DEF Mark, Marked, CancelRuns, EnvTypeOK
<1>5. call' = Idle /\ call' \in Call /\ call'.at = "idle"
  BY <1>1, CallTyped, <1>2, Returned DEF Error, Idle
<1>6. Quiet'
  BY <1>5 DEF Quiet, QuietSteps
<1> QED  BY <1>3, <1>4, <1>5, <1>6, StepPreserves DEF TaskSteps

(* Every step of a handler preserves the invariant. *)
LEMMA ContinuePreserves ==
  ASSUME IInv, Continue
  PROVE  IInv'
BY TaskStepsPreserve, ChoicesPreserve, ScalarStepsPreserve, DecideReviewPreserves,
   RoundDispatchPreserves, DispatchReviewerPreserves, DispatchWriterPreserves,
   BeginIntegrationPreserves, NextReviewerPreserves, MergePreserves, PullRequestPreserves,
   DraftPreserves, RoundPreserves, RepairPreserves, EndPreserves, BookkeepingPreserves
   DEF Continue, HandlerStep

-----------------------------------------------------------------------------
(* The answers of agents. *)

(* Marking a run that exists keeps the records typed. *)
LEMMA MarkedTyped ==
  ASSUME EnvTypeOK, NEW run \in DOMAIN runs, runs' = Marked(run)
  PROVE  /\ DOMAIN runs' = DOMAIN runs
         /\ \A r \in DOMAIN runs' : runs'[r] \in {"running", "applied"} \cup Answers[r.Role]
BY DEF EnvTypeOK, Marked

(* What an applicable answer tells. *)
LEMMA ApplicableFacts ==
  ASSUME IInv, NEW run \in DOMAIN runs, Applicable(run)
  PROVE  /\ Live(job.Status) /\ PipelineTypeOK /\ EnvTypeOK
         /\ run \in Run /\ run.Attempt \in Nat /\ run.Key \in Key \cup {JobKey}
         /\ run.Role \in Roles /\ runs[run] \in Answers[run.Role]
         /\ run.Role \in {"writer", "reviewer"} => run.Key \in DOMAIN tasks
<1>1. PipelineTypeOK /\ EnvTypeOK
  BY InvFacts
<1>2. run \in Run /\ runs[run] \in {"running", "applied"} \cup Answers[run.Role]
  BY <1>1 DEF EnvTypeOK
<1>3. RevisionKey \in Key
  BY RemediationKeyTyped DEF RevisionKey
<1>4. run.Attempt \in Nat /\ run.Key \in Key \cup {JobKey} /\ run.Role \in Roles
  BY <1>2, <1>3 DEF Run
<1>5. runs[run] \in Answers[run.Role] /\ Live(job.Status)
  BY <1>2 DEF Applicable, Answered, Live, Terminal, Ended
<1>6. run.Role \in {"writer", "reviewer"} => run.Key \in DOMAIN tasks
  BY DEF Applicable, Owns
<1> QED  BY <1>1, <1>2, <1>4, <1>5, <1>6

(* An answer that settles nothing is only marked.                           *)
LEMMA SettledPreserves ==
  ASSUME IInv, NEW run \in DOMAIN runs, ApplySettled(run)
  PROVE  IInv'
<1>1. /\ call' = Idle /\ runs' = Marked(run) /\ UNCHANGED <<pipelineVars, repo, pr, left>>
  BY DEF ApplySettled, pipelineVars
<1>2. PipelineTypeOK' /\ EnvTypeOK'
  <2>1. PipelineTypeOK /\ EnvTypeOK
    BY InvFacts
  <2>2. PipelineTypeOK'
    BY <1>1, <2>1, SameRecord DEF pipelineVars
  <2> QED  BY <1>1, <2>1, <2>2, MarkedTyped DEF EnvTypeOK
<1>3. Quiet' /\ call' \in Call /\ call'.at = "idle"
  <2>1. Idle.at = "idle" /\ Idle \in Call
    BY DEF Idle, Call, Steps
  <2> QED  BY <1>1, <2>1 DEF Quiet, QuietSteps
<1> QED  BY <1>2, <1>3, StepPreserves DEF TaskSteps

(* A failed run fails the job, or blocks its task. *)
LEMMA FailurePreserves ==
  ASSUME IInv, NEW run \in DOMAIN runs, ApplyFailure(run)
  PROVE  IInv'
<1>1. Applicable(run) /\ Enter("mark", run.Key, run, "return") /\ UNCHANGED envVars
  BY DEF ApplyFailure
<1>2. /\ Live(job.Status) /\ PipelineTypeOK /\ run \in Run /\ run.Key \in Key \cup {JobKey}
      /\ run.Role \in Roles
      /\ run.Role \in {"writer", "reviewer"} => run.Key \in DOMAIN tasks
  BY <1>1, ApplicableFacts
<1>3. call' \in Call /\ call'.at = "mark"
  BY <1>1, <1>2, Entered DEF Steps
<1>4. CASE run.Role \in {"planner", "holistic"}
  <2>1. FailJob
    BY <1>4 DEF ApplyFailure
  <2>2. PipelineTypeOK' /\ job'.Status = "failed"
    BY <1>2, <2>1, ScalarTyped, PipelineAssumption, JobCounters DEF FailJob, Job
  <2>3. Quiet'
    BY <1>3, <2>2 DEF Quiet, QuietSteps
  <2> QED  BY <1>1, <1>3, <2>2, <2>3, HandlerPreserves DEF TaskSteps
<1>5. CASE run.Role \in {"writer", "reviewer"}
  <2>1. BlockTask(run.Key)
    BY <1>5 DEF ApplyFailure
  <2>2. PipelineTypeOK' /\ Live(job'.Status)
    BY <1>2, <1>5, <2>1, TaskTyped, StaysLive, PipelineAssumption
  <2> QED  BY <1>1, <1>3, <2>2, HandlerPreserves DEF TaskSteps
<1> QED  BY <1>2, <1>4, <1>5 DEF Roles

(* A planner's proposal becomes the plan, or extends it. *)
LEMMA PlanPreserves ==
  ASSUME IInv, NEW run \in DOMAIN runs, ApplyPlan(run)
  PROVE  IInv'
<1>1. /\ Applicable(run) /\ Enter("ready", JobKey, run, "return") /\ UNCHANGED envVars
      /\ runs[run] \in DOMAIN PlanOf
      /\ RevisePlan(PlanOf[runs[run]]) \/ SubmitPlan(PlanOf[runs[run]])
  BY DEF ApplyPlan
<1>2. Live(job.Status) /\ PipelineTypeOK /\ run \in Run
  BY <1>1, ApplicableFacts
<1>3. call' \in Call /\ call'.at = "ready"
  BY <1>1, <1>2, Entered DEF Steps
<1>4. PlanOf[runs[run]] \in Proposal
  BY <1>1, OrchestrationAssumption
<1>5. PipelineTypeOK' /\ Live(job'.Status)
  BY <1>1, <1>2, <1>4, PlanTyped, StaysLive, PipelineAssumption
<1> QED  BY <1>1, <1>3, <1>5, HandlerPreserves DEF TaskSteps

(* A writer's answer commits, changes nothing, blocks or hands over. *)
LEMMA WriterPreserves ==
  ASSUME IInv, NEW run \in DOMAIN runs,
         \/ ApplyWriterCommit(run) \/ ApplyWriterNoChanges(run)
         \/ ApplyWriterBlocked(run) \/ ApplyWriterHandoff(run)
  PROVE  IInv'
<1>1. Applicable(run) /\ run.Role = "writer"
  BY DEF ApplyWriterCommit, ApplyWriterNoChanges, ApplyWriterBlocked, ApplyWriterHandoff,
         Working
<1>2. /\ Live(job.Status) /\ PipelineTypeOK /\ EnvTypeOK /\ run \in Run /\ run.Attempt \in Nat
      /\ run.Key \in DOMAIN tasks /\ run.Key \in Key
  <2>1. TypeOK
    BY DEF IInv
  <2> QED  BY <1>1, <2>1, ApplicableFacts, RunsTyped
<1>3. CASE ApplyWriterCommit(run)
  <2>1. Enter("complete", run.Key, run, "return") /\ UNCHANGED <<job, plan, tasks, runs, pr, left>>
    BY <1>3 DEF ApplyWriterCommit
  <2>2. call' \in Call /\ call'.at = "complete" /\ call'.key = run.Key
    BY <1>2, <2>1, Entered DEF Steps
  <2>3. repo' \in Repo
    BY <1>2, <1>3 DEF ApplyWriterCommit, EnvTypeOK, Repo
  <2>4. PipelineTypeOK' /\ EnvTypeOK' /\ Live(job'.Status) /\ run.Key \in DOMAIN tasks'
    <3>1. EnvTypeOK'
      BY <1>2, <2>1, <2>3 DEF EnvTypeOK
    <3> QED  BY <1>2, <2>1, <3>1, SameRecord
  <2> QED  BY <2>2, <2>4, StepPreserves
<1>4. CASE ApplyWriterNoChanges(run)
  <2>1. /\ Enter("integrate", run.Key, run, "draft") /\ RecordNoChanges(run.Key, run.Attempt)
        /\ UNCHANGED envVars
    BY <1>4 DEF ApplyWriterNoChanges
  <2>2. call' \in Call /\ call'.at = "integrate"
    BY <1>2, <2>1, Entered DEF Steps
  <2>3. PipelineTypeOK' /\ Live(job'.Status)
    BY <1>2, <2>1, IntegrationTyped, StaysLive, PipelineAssumption
  <2> QED  BY <2>1, <2>2, <2>3, HandlerPreserves DEF TaskSteps
<1>5. CASE ApplyWriterBlocked(run)
  <2>1. Enter("mark", run.Key, run, "return") /\ BlockTask(run.Key) /\ UNCHANGED envVars
    BY <1>5 DEF ApplyWriterBlocked
  <2>2. call' \in Call /\ call'.at = "mark"
    BY <1>2, <2>1, Entered DEF Steps
  <2>3. PipelineTypeOK' /\ Live(job'.Status)
    BY <1>2, <2>1, TaskTyped, StaysLive, PipelineAssumption
  <2> QED  BY <2>1, <2>2, <2>3, HandlerPreserves DEF TaskSteps
<1>6. CASE ApplyWriterHandoff(run)
  <2>1. Enter("reviewer", run.Key, run, "return") /\ UNCHANGED pipelineVars /\ UNCHANGED envVars
    BY <1>6 DEF ApplyWriterHandoff
  <2>2. call' \in Call /\ call'.at = "reviewer" /\ call'.key = run.Key
    BY <1>2, <2>1, Entered DEF Steps
  <2>3. PipelineTypeOK' /\ Live(job'.Status) /\ UNCHANGED plan
    BY <1>2, <2>1, SameRecord DEF pipelineVars
  <2> QED  BY <1>2, <2>1, <2>2, <2>3, HandlerPreserves
<1> QED  BY <1>3, <1>4, <1>5, <1>6

(* A reviewer's report is recorded before its verdict is applied. *)
LEMMA ReviewPreserves ==
  ASSUME IInv, NEW run \in DOMAIN runs, ApplyReview(run)
  PROVE  IInv'
<1>1. /\ Applicable(run) /\ run.Role = "reviewer" /\ runs[run] \notin {"malformed", "failed"}
      /\ Enter("verdict", run.Key, run, "return") /\ UNCHANGED envVars
      /\ RecordReviewReport(run.Key, run.Attempt, VerdictOf(run), runs[run] = "repeated")
  BY DEF ApplyReview
<1>2. /\ Live(job.Status) /\ PipelineTypeOK /\ EnvTypeOK /\ run \in Run /\ run.Attempt \in Nat
      /\ run.Key \in DOMAIN tasks /\ run.Key \in Key \cup {JobKey}
      /\ runs[run] \in Answers["reviewer"]
  BY <1>1, ApplicableFacts
<1>3. call' \in Call /\ call'.at = "verdict" /\ call'.key = run.Key /\ call'.run = run
  BY <1>1, <1>2, Entered DEF Steps
<1>4. PipelineTypeOK' /\ Live(job'.Status)
  BY <1>1, <1>2, ReviewReportTyped, StaysLive
<1>5. UNCHANGED plan /\ EnvTypeOK'
  BY <1>1, <1>2, SameEnv DEF RecordReviewReport, envVars
<1>6. KeyPlanned'
  BY <1>2, <1>3, <1>4, <1>5, SamePlan DEF KeyPlanned
<1>7. VerdictOf(run) \in Verdict
  <2>1. Answers["reviewer"] = ReviewerAnswers
    BY DEF Answers
  <2>2. runs[run] \in {"approved", "changes_requested", "repeated", "blocked"}
    BY <1>1, <1>2, <2>1, OrchestrationAssumption
  <2> QED  BY <2>2 DEF VerdictOf, Verdict
<1>8. VerdictKnown'
  <2>1. UNCHANGED runs
    BY <1>1 DEF envVars
  <2> QED  BY <1>3, <1>7, <2>1 DEF VerdictKnown, VerdictOf, Verdict
<1>9. Quiet'
  BY <1>4 DEF Live, Quiet, Ended
<1> QED  BY <1>3, <1>4, <1>5, <1>6, <1>8, <1>9 DEF IInv, TypeOK, EnvTypeOK, Budgets

(* A holistic verdict publishes, reopens or fails the job. *)
LEMMA HolisticPreserves ==
  ASSUME IInv, NEW run \in DOMAIN runs, ApplyHolistic(run)
  PROVE  IInv'
<1>1. /\ Applicable(run) /\ run.Role = "holistic" /\ runs[run] \notin {"malformed", "failed"}
      /\ RecordHolisticReview(run.Attempt, job.IntegrationSHA, runs[run])
      /\ \E step \in {"publish", "reopen", "fail"} : Enter(step, JobKey, run, "publish")
      /\ UNCHANGED envVars
  <2>1. \/ runs[run] = "approved"
        \/ runs[run] # "approved" /\ runs[run] = "changes_requested"
           /\ job.HolisticRounds <= MaxHolisticRemediationRounds
        \/ runs[run] # "approved" /\ ~(runs[run] = "changes_requested"
           /\ job.HolisticRounds <= MaxHolisticRemediationRounds)
    OBVIOUS
  <2>2. \E step \in {"publish", "reopen", "fail"} : Enter(step, JobKey, run, "publish")
    BY <2>1 DEF ApplyHolistic
  <2> QED  BY <2>2 DEF ApplyHolistic
<1>2. /\ Live(job.Status) /\ PipelineTypeOK /\ run \in Run /\ run.Attempt \in Nat
      /\ runs[run] \in Answers["holistic"]
  BY <1>1, ApplicableFacts
<1>3. PICK step \in {"publish", "reopen", "fail"} : Enter(step, JobKey, run, "publish")
  BY <1>1
<1>4. call' \in Call /\ call'.at = step
  BY <1>2, <1>3, Entered DEF Steps
<1>5. runs[run] \in Verdict
  <2>1. Answers["holistic"] = HolisticAnswers
    BY DEF Answers
  <2> QED  BY <1>1, <1>2, <2>1, OrchestrationAssumption DEF Verdict
<1>6. job.IntegrationSHA \in Nat
  BY <1>2, JobCounters
<1>7. PipelineTypeOK' /\ Live(job'.Status)
  BY <1>1, <1>2, <1>5, <1>6, HolisticTyped, StaysLive, PipelineAssumption
<1> QED  BY <1>1, <1>4, <1>7, HandlerPreserves DEF TaskSteps

(* Whatever an agent has answered, applying it preserves the invariant.     *)
LEMMA OutcomePreserves ==
  ASSUME IInv, NEW run \in DOMAIN runs, ApplyOutcome(run)
  PROVE  IInv'
BY SettledPreserves, FailurePreserves, PlanPreserves, WriterPreserves, ReviewPreserves,
   HolisticPreserves DEF ApplyOutcome

-----------------------------------------------------------------------------
(* Steps beside the handler: agents, GitHub, faults. *)

(* A step that leaves the record and the handler alone, and every answer    *)
(* that was given.                                                          *)
LEMMA BesidePreserves ==
  ASSUME IInv, EnvTypeOK', UNCHANGED pipelineVars, UNCHANGED call,
         DOMAIN runs \subseteq DOMAIN runs',
         \A r \in DOMAIN runs : runs[r] = "running" \/ runs'[r] = runs[r]
  PROVE  IInv'
<1>1. PipelineTypeOK'
  BY InvFacts, SameRecord DEF pipelineVars
<1>2. call' \in Call /\ KeyPlanned' /\ Quiet'
  BY InvFacts DEF IInv, KeyPlanned, Quiet, pipelineVars
<1>3. VerdictKnown'
  BY DEF IInv, VerdictKnown, VerdictOf, Verdict, At
<1> QED  BY <1>1, <1>2, <1>3 DEF IInv, TypeOK, EnvTypeOK, Budgets

(* Spending keeps a budget a budget. *)
LEMMA SpendTyped ==
  ASSUME left \in Budgets, NEW kind \in {"faults", "operator", "foreign", "conflicts"}, Spend(kind)
  PROVE  left' \in Budgets
BY DEF Spend, Budgets

(* An agent answers; the planner of a job without a plan is dispatched.     *)
LEMMA AgentsPreserve ==
  ASSUME IInv, ResumePlanner \/ \E run \in DOMAIN runs : Answer(run)
  PROVE  IInv'
<1>1. TypeOK /\ EnvTypeOK
  BY InvFacts
<1>2. CASE ResumePlanner
  <2>1. PlannerRun \in Run /\ Launch(PlannerRun) /\ UNCHANGED <<pipelineVars, repo, pr, call, left>>
    BY <1>1, <1>2, RunsTyped DEF ResumePlanner
  <2>2. /\ DOMAIN runs \subseteq DOMAIN runs' /\ \A r \in DOMAIN runs : runs'[r] = runs[r]
        /\ EnvTypeOK'
    BY <1>1, <2>1, Launched DEF EnvTypeOK
  <2> QED  BY <2>1, <2>2, BesidePreserves
<1>3. CASE \E run \in DOMAIN runs : Answer(run)
  <2> PICK run \in DOMAIN runs : Answer(run)
    BY <1>3
  <2>1. PICK a \in Answers[run.Role] : runs' = [runs EXCEPT ![run] = a]
    BY DEF Answer
  <2>2. runs[run] = "running" /\ UNCHANGED <<job, plan, tasks, repo, pr, call, left>>
    BY DEF Answer
  <2>3. EnvTypeOK'
    BY <1>1, <2>1, <2>2 DEF EnvTypeOK
  <2> QED  BY <2>1, <2>2, <2>3, BesidePreserves DEF pipelineVars
<1> QED  BY <1>2, <1>3

(* Checks finish, and people act on GitHub. *)
LEMMA ForeignPreserves ==
  ASSUME IInv, ChecksFinish \/ ChecksRerun \/ ForeignPush \/ ForeignMerge
  PROVE  IInv'
<1>1. EnvTypeOK /\ left \in Budgets /\ repo \in Repo /\ pr \in PullRequest
  BY InvFacts DEF EnvTypeOK
<1>2. UNCHANGED <<job, plan, tasks, runs, call>>
  BY DEF ChecksFinish, ChecksRerun, ForeignPush, ForeignMerge
<1>3. left' \in Budgets
  <2>1. UNCHANGED left \/ Spend("foreign")
    BY DEF ChecksFinish, ChecksRerun, ForeignPush, ForeignMerge
  <2> QED  BY <1>1, <2>1, SpendTyped
<1>4. repo' \in Repo /\ pr' \in PullRequest
  <2>1. repo.last + 1 \in Nat
    BY <1>1 DEF Repo
  <2>2. CASE ChecksFinish
    BY <1>1, <2>2 DEF ChecksFinish, PullRequest
  <2>3. CASE ChecksRerun
    BY <1>1, <2>3 DEF ChecksRerun, PullRequest
  <2>4. CASE ForeignPush
    BY <1>1, <2>1, <2>4 DEF ForeignPush, PullRequest, Repo
  <2>5. CASE ForeignMerge
    BY <1>1, <2>5 DEF ForeignMerge, PullRequest
  <2> QED  BY <2>2, <2>3, <2>4, <2>5
<1>5. EnvTypeOK'
  BY <1>1, <1>2, <1>3, <1>4 DEF EnvTypeOK
<1> QED  BY <1>2, <1>5, BesidePreserves DEF pipelineVars

(* A handler gives up, or the process restarts. *)
LEMMA FaultsPreserve ==
  ASSUME IInv, Abandon \/ Restart
  PROVE  IInv'
<1>1. /\ PipelineTypeOK /\ EnvTypeOK /\ left \in Budgets
  BY InvFacts DEF EnvTypeOK
<1>2. Error /\ Spend("faults") /\ UNCHANGED <<runs, repo, pr>>
  BY DEF Abandon, Restart
<1>3. PipelineTypeOK'
  <2>1. CASE Abandon
    BY <1>1, <2>1, SameRecord DEF Abandon
  <2>2. CASE Restart
    BY <1>1, <2>2, ReopenTyped, PipelineAssumption DEF Restart
  <2> QED  BY <2>1, <2>2
<1>4. EnvTypeOK'
  BY <1>1, <1>2, SpendTyped DEF EnvTypeOK
<1>5. call' \in Call /\ call'.at = "idle" /\ Quiet'
  <2>1. Idle.at = "idle" /\ Idle \in Call
    BY DEF Idle, Call, Steps
  <2> QED  BY <1>2, <2>1 DEF Error, Quiet, QuietSteps
<1> QED  BY <1>3, <1>4, <1>5, StepPreserves DEF TaskSteps

-----------------------------------------------------------------------------
(* Polls and tools: handlers that start. *)

(* A handler that starts on a live job, or to do an ended one's bookkeeping. *)
LEMMA StartPreserves ==
  ASSUME IInv, PipelineTypeOK', EnvTypeOK', NEW step \in Steps \ {"verdict"},
         NEW key \in Key \cup {JobKey},
         NEW then \in {"return", "reconcile", "draft", "publish", "approve"},
         Enter(step, key, NoRun, then),
         step \in TaskSteps => key \in DOMAIN tasks /\ UNCHANGED plan,
         Live(job'.Status) \/ (job'.Status # "paused" /\ step \in QuietSteps)
  PROVE  IInv'
<1>1. call' \in Call /\ call'.at = step /\ call'.key = key
  BY Entered
<1>2. call'.at \in TaskSteps => call'.key \in DOMAIN tasks'
  BY <1>1, InvFacts, SamePlan
<1>3. Live(job'.Status) \/ Quiet'
  BY <1>1 DEF Quiet
<1> QED  BY <1>1, <1>2, <1>3, StepPreserves

(* A poll or a tool that leaves the handler's place free. *)
LEMMA FreePreserves ==
  ASSUME IInv, PipelineTypeOK', EnvTypeOK', call = Idle, UNCHANGED call
  PROVE  IInv'
<1>1. call' \in Call /\ call'.at = "idle" /\ Quiet'
  <2>1. Idle.at = "idle" /\ Idle \in Call
    BY DEF Idle, Call, Steps
  <2> QED  BY <2>1 DEF Quiet, QuietSteps
<1> QED  BY <1>1, StepPreserves DEF TaskSteps

(* The polls that only start a handler. *)
LEMMA PollsPreserve ==
  ASSUME IInv,
         \/ ReconcileTasks \/ ReconcileReplan \/ ReconcileHolistic \/ ReconcileCancelled
         \/ ObservePublication \/ ObserveStrandedRound
  PROVE  IInv'
<1>1. UNCHANGED pipelineVars /\ UNCHANGED envVars
  BY DEF ReconcileTasks, ReconcileReplan, ReconcileHolistic, ReconcileCancelled,
         ObservePublication, ObserveStrandedRound
<1>2. PipelineTypeOK' /\ EnvTypeOK' /\ job' = job
  BY <1>1, InvFacts, SameRecord, SameEnv DEF pipelineVars, envVars
<1>3. CASE ReconcileCancelled
  <2>1. Enter("cancelRuns", JobKey, NoRun, "return") /\ job.Status = "cancelled"
    BY <1>3 DEF ReconcileCancelled
  <2>2. "cancelRuns" \in Steps \ {"verdict"} /\ "cancelRuns" \in QuietSteps
        /\ "cancelRuns" \notin TaskSteps
    BY DEF Steps, QuietSteps, TaskSteps
  <2> QED  BY <1>2, <2>1, <2>2, StartPreserves
<1>4. CASE \/ ReconcileTasks \/ ReconcileReplan \/ ReconcileHolistic
           \/ ObservePublication \/ ObserveStrandedRound
  <2>1. job.Status \in {"planned", "working", "reviewing", "integrating", "ci_remediating",
                        "ci_replanning", "holistic_reviewing", "ready_to_publish"}
    BY <1>4 DEF ReconcileTasks, ReconcileReplan, ReconcileHolistic, ObservePublication,
                ObserveStrandedRound
  <2>2. Live(job'.Status)
    BY <1>2, <2>1 DEF Live, Ended
  <2>3. \E step \in {"reviewers", "revision", "holistic", "draft", "publish"},
           then \in {"return", "reconcile", "draft", "publish"} :
          Enter(step, JobKey, NoRun, then)
    <3>1. CASE ReconcileHolistic
      <4>1. Enter("holistic", JobKey, NoRun, "draft") \/ Enter("draft", JobKey, NoRun, "draft")
        BY <3>1 DEF ReconcileHolistic
      <4> QED  BY <4>1
    <3>2. CASE ReconcileTasks \/ ReconcileReplan \/ ObservePublication \/ ObserveStrandedRound
      BY <3>2 DEF ReconcileTasks, ReconcileReplan, ObservePublication, ObserveStrandedRound
    <3> QED  BY <1>4, <3>1, <3>2
  <2>4. {"reviewers", "revision", "holistic", "draft", "publish"}
          \subseteq (Steps \ {"verdict"}) \ TaskSteps
    BY DEF Steps, TaskSteps
  <2> QED  BY <1>2, <2>2, <2>3, <2>4, StartPreserves
<1> QED  BY <1>3, <1>4

(* The CI poll records what it saw. *)
LEMMA ObservePreserves ==
  ASSUME IInv, ObserveForeignHead \/ ObserveChecks
  PROVE  IInv'
<1>1. PipelineTypeOK /\ EnvTypeOK /\ job \in Job /\ pr \in PullRequest
  BY InvFacts, JobCounters DEF EnvTypeOK
<1>2. EnvTypeOK'
  BY <1>1, SameEnv DEF ObserveForeignHead, ObserveChecks, envVars
<1>3. CASE ObserveForeignHead
  <2>1. FailJob /\ call = Idle /\ UNCHANGED call
    BY <1>3 DEF ObserveForeignHead
  <2>2. PipelineTypeOK'
    BY <1>1, <2>1, ScalarTyped, PipelineAssumption
  <2> QED  BY <1>2, <2>1, <2>2, FreePreserves
<1>4. CASE ObserveChecks
  <2> DEFINE seen == CASE pr.checks = "pending" -> {"pending", "blocked"}
                       [] pr.checks = "passed" -> {"passed"}
                       [] OTHER -> {"failed"}
             print(state) == IF state = "failed" THEN pr.checks ELSE NoPrint
  <2>1. PICK state \in seen :
          /\ RecordCI(pr.head, state, print(state))
          /\ CASE state = "passed" -> Enter("resetRound", JobKey, NoRun, "return")
               [] state = "failed" -> Enter("repair", JobKey, NoRun, "return")
               [] OTHER -> call = Idle /\ UNCHANGED call
    BY <1>4 DEF ObserveChecks
  <2>2. /\ state \in {"pending", "passed", "failed", "blocked"}
        /\ print(state) \in Fingerprint \cup {NoPrint}
    <3>1. pr.checks \in {"pending", "passed"} \cup Fingerprint
      BY <1>1 DEF PullRequest
    <3>2. CASE pr.checks = "pending"
      BY <3>2
    <3>3. CASE pr.checks # "pending" /\ pr.checks = "passed"
      BY <3>3
    <3>4. CASE pr.checks # "pending" /\ pr.checks # "passed"
      BY <3>1, <3>4
    <3> QED  BY <3>2, <3>3, <3>4
  <2>3. pr.head \in Nat
    BY <1>1 DEF PullRequest
  <2> HIDE DEF seen, print
  <2>4. PipelineTypeOK'
    BY <1>1, <2>1, <2>2, <2>3, RecordCITyped
  <2>5. CASE state \in {"passed", "failed"}
    <3>1. Live(job'.Status)
      <4>1. job.Status = "awaiting_ci" /\ state # "blocked"
        BY <1>4, <2>5 DEF ObserveChecks
      <4>2. job'.Status \in {"awaiting_ci", "holistic_reviewing"}
        BY <1>1, <2>1, <2>5, <4>1 DEF RecordCI, Job
      <4> QED  BY <4>2 DEF Live, Ended
    <3>2. \E step \in {"resetRound", "repair"} : Enter(step, JobKey, NoRun, "return")
      BY <2>1, <2>5
    <3>3. {"resetRound", "repair"} \subseteq (Steps \ {"verdict"}) \ TaskSteps
      BY DEF Steps, TaskSteps
    <3> QED  BY <1>2, <2>4, <3>1, <3>2, <3>3, StartPreserves
  <2>6. CASE state \notin {"passed", "failed"}
    <3>1. call = Idle /\ UNCHANGED call
      BY <2>1, <2>6
    <3> QED  BY <1>2, <2>4, <3>1, FreePreserves
  <2> QED  BY <2>5, <2>6
<1> QED  BY <1>3, <1>4

(* create_code_job plans. *)
LEMMA CreatePreserves ==
  ASSUME IInv, CreateAndPlan
  PROVE  IInv'
<1>1. /\ job.Status = "created" /\ job' = [job EXCEPT !.Status = "planning"]
      /\ UNCHANGED <<plan, tasks, call>> /\ UNCHANGED envVars /\ StartPlanning
  BY DEF CreateAndPlan, StartPlanning
<1>2. PipelineTypeOK' /\ EnvTypeOK' /\ Live(job'.Status)
  <2>1. PipelineTypeOK /\ EnvTypeOK /\ job \in Job
    BY InvFacts, JobCounters
  <2>2. job'.Status = "planning"
    BY <1>1, <2>1 DEF Job
  <2> QED  BY <1>1, <2>1, <2>2, ScalarTyped, SameEnv, PipelineAssumption DEF Live, Ended, envVars
<1>3. Quiet' /\ KeyPlanned' /\ VerdictKnown' /\ call' \in Call
  BY <1>1, <1>2, InvFacts DEF IInv, Quiet, Live, Ended, KeyPlanned, VerdictKnown, VerdictOf, At, envVars
<1> QED  BY <1>2, <1>3 DEF IInv, TypeOK, EnvTypeOK, Budgets

(* retry_code_task on one task. *)
LEMMA RetryTaskPreserves ==
  ASSUME IInv, NEW k \in DOMAIN tasks, RetryCodeTask(k)
  PROVE  IInv'
<1>1. PipelineTypeOK /\ EnvTypeOK /\ TypeOK /\ k \in Key
  BY InvFacts, RunsTyped
<1>2. Live(job.Status)
  BY DEF RetryCodeTask, RetriesAllowed, Live, Ended
<1>3. UNCHANGED <<repo, pr>>
  BY DEF RetryCodeTask
<1>4. ASSUME NEW step \in {"retryReview", "retryWriter", "writer"},
             Operate(step, k, "return"), PipelineTypeOK', UNCHANGED plan, Live(job'.Status),
             UNCHANGED runs \/ \E run \in DOMAIN runs : runs' = Marked(run)
      PROVE  IInv'
  <2>1. Enter(step, k, NoRun, "return") /\ Spend("operator")
    BY <1>4 DEF Operate
  <2>2. EnvTypeOK'
    <3>1. left' \in Budgets
      BY <1>1, <2>1, SpendTyped DEF EnvTypeOK
    <3>2. CASE UNCHANGED runs
      BY <1>1, <1>3, <3>1, <3>2 DEF EnvTypeOK
    <3>3. CASE \E run \in DOMAIN runs : runs' = Marked(run)
      BY <1>1, <1>3, <3>1, <3>3, MarkedTyped DEF EnvTypeOK
    <3> QED  BY <1>4, <3>2, <3>3
  <2>3. step \in Steps \ {"verdict"}
    BY DEF Steps
  <2> QED  BY <1>1, <1>4, <2>1, <2>2, <2>3, StartPreserves
<1>5. CASE /\ tasks[k].Status = "reviewing"
           /\ Supersede(RunOf("reviewer", k, tasks[k].ReviewerAttempts))
           /\ Operate("retryReview", k, "return")
           /\ UNCHANGED pipelineVars
  <2>1. PipelineTypeOK' /\ UNCHANGED plan /\ Live(job'.Status)
    BY <1>1, <1>2, <1>5, SameRecord DEF pipelineVars
  <2>2. \E run \in DOMAIN runs : runs' = Marked(run)
    BY <1>5 DEF Supersede
  <2> QED  BY <1>4, <1>5, <2>1, <2>2
<1>6. CASE /\ tasks[k].Status = "working"
           /\ Supersede(RunOf("writer", k, tasks[k].WriterAttempts))
           /\ Operate("retryWriter", k, "return")
           /\ UNCHANGED pipelineVars
  <2>1. PipelineTypeOK' /\ UNCHANGED plan /\ Live(job'.Status)
    BY <1>1, <1>2, <1>6, SameRecord DEF pipelineVars
  <2>2. \E run \in DOMAIN runs : runs' = Marked(run)
    BY <1>6 DEF Supersede
  <2> QED  BY <1>4, <1>6, <2>1, <2>2
<1>7. CASE /\ ResumeBlockedWriter(k) \/ ReopenNoChangesTask(k)
           /\ Operate("writer", k, "return") /\ UNCHANGED runs
  <2>1. PipelineTypeOK' /\ Live(job'.Status)
    BY <1>1, <1>2, <1>7, TaskTyped, StaysLive, PipelineAssumption
  <2>2. UNCHANGED plan
    BY <1>7 DEF ResumeBlockedWriter, ReopenNoChangesTask
  <2> QED  BY <1>4, <1>7, <2>1, <2>2
<1> QED  BY <1>5, <1>6, <1>7 DEF RetryCodeTask

(* The tools that act on the whole job. *)
LEMMA ToolsPreserve ==
  ASSUME IInv,
         RetryCodePlanning \/ ResetHolisticReview \/ StartRereview \/ PublishApproved
  PROVE  IInv'
<1>1. PipelineTypeOK /\ EnvTypeOK /\ pr.head \in Nat /\ 0 \in Nat /\ "pending" \in Verdict
  BY InvFacts DEF EnvTypeOK, PullRequest, Verdict
<1>2. PICK step \in {"retryPlanning", "holistic", "publish"},
           then \in {"return", "publish", "approve"} :
        Enter(step, JobKey, NoRun, then)
  BY DEF RetryCodePlanning, ResetHolisticReview, StartRereview, PublishApproved, Operate
<1>3. left' \in Budgets
  <2>1. Spend("operator")
    BY DEF RetryCodePlanning, ResetHolisticReview, StartRereview, PublishApproved, Operate
  <2> QED  BY <1>1, <2>1, SpendTyped DEF EnvTypeOK
<1>4. EnvTypeOK'
  <2>1. CASE RetryCodePlanning
    <3>1. \E run \in DOMAIN runs : runs' = Marked(run)
      BY <2>1 DEF RetryCodePlanning, Supersede
    <3>2. UNCHANGED <<repo, pr>>
      BY <2>1 DEF RetryCodePlanning
    <3> QED  BY <1>1, <1>3, <3>1, <3>2, MarkedTyped DEF EnvTypeOK
  <2>2. CASE ResetHolisticReview \/ StartRereview \/ PublishApproved
    BY <1>1, <1>3, <2>2 DEF ResetHolisticReview, StartRereview, PublishApproved, EnvTypeOK
  <2> QED  BY <2>1, <2>2
<1>5. Live(job.Status)
  BY DEF RetryCodePlanning, ResetHolisticReview, StartRereview, PublishApproved,
         ResetHolisticRound, StartHolisticRereview, Live, Ended
<1>6. PipelineTypeOK' /\ Live(job'.Status)
  <2>1. CASE RetryCodePlanning \/ PublishApproved
    BY <1>1, <1>5, <2>1, SameRecord DEF RetryCodePlanning, PublishApproved, pipelineVars
  <2>2. CASE ResetHolisticReview
    BY <1>1, <1>5, <2>2, ScalarTyped, StaysLive, PipelineAssumption DEF ResetHolisticReview
  <2>3. CASE StartRereview
    BY <1>1, <1>5, <2>3, HolisticTyped, StaysLive, PipelineAssumption DEF StartRereview
  <2> QED  BY <2>1, <2>2, <2>3
<1>7. step \in Steps \ {"verdict"} /\ step \notin TaskSteps
  BY DEF Steps, TaskSteps
<1> QED  BY <1>2, <1>4, <1>6, <1>7, StartPreserves

(* Pause, resume and cancel. *)
LEMMA ControlsPreserve ==
  ASSUME IInv, PauseJob \/ ResumeJob \/ CancelCodeJob
  PROVE  IInv'
<1>1. PipelineTypeOK /\ EnvTypeOK /\ left \in Budgets /\ job \in Job
  BY InvFacts, JobCounters DEF EnvTypeOK
<1>2. PipelineTypeOK'
  BY <1>1, ScalarTyped, PipelineAssumption DEF PauseJob, ResumeJob, CancelCodeJob
<1>3. EnvTypeOK'
  <2>1. UNCHANGED <<runs, repo, pr>> /\ (UNCHANGED left \/ Spend("operator"))
    BY DEF PauseJob, ResumeJob, CancelCodeJob, Operate, envVars
  <2> QED  BY <1>1, <2>1, SpendTyped DEF EnvTypeOK
<1>4. CASE PauseJob \/ ResumeJob
  BY <1>2, <1>3, <1>4, FreePreserves DEF PauseJob, ResumeJob
<1>5. CASE CancelCodeJob
  <2>1. Enter("cancelRuns", JobKey, NoRun, "return")
    BY <1>5 DEF CancelCodeJob, Operate
  <2>2. job'.Status = "cancelled"
    BY <1>1, <1>5 DEF CancelCodeJob, Cancel, Job
  <2>3. "cancelRuns" \in Steps \ {"verdict"} /\ "cancelRuns" \in QuietSteps
        /\ "cancelRuns" \notin TaskSteps
    BY DEF Steps, QuietSteps, TaskSteps
  <2> QED  BY <1>2, <1>3, <2>1, <2>2, <2>3, StartPreserves
<1> QED  BY <1>4, <1>5

-----------------------------------------------------------------------------
(* The theorems. *)

(* The invariant holds of a job that was just created. *)
LEMMA InitIInv == Init => IInv
<1> SUFFICES ASSUME Init  PROVE IInv
  OBVIOUS
<1>1. PipelineTypeOK
  BY PipelineInitTyped, PipelineAssumption DEF Init
<1>2. runs = <<>> /\ DOMAIN runs = {}
  BY DEF Init
<1>3. repo \in Repo /\ pr \in PullRequest
  BY DEF Init, Repo, PullRequest
<1>4. left \in Budgets
  BY OrchestrationAssumption DEF Init, Budgets
<1>5. call = Idle /\ call \in Call /\ call.at = "idle"
  BY DEF Init, Idle, Call, Steps
<1>6. Quiet /\ KeyPlanned /\ VerdictKnown
  BY <1>5 DEF Quiet, QuietSteps, KeyPlanned, VerdictKnown, TaskSteps, At
<1> QED  BY <1>1, <1>2, <1>3, <1>4, <1>5, <1>6 DEF IInv, TypeOK, Budgets

(* And every step keeps it. *)
LEMMA NextIInv == IInv /\ [Next]_vars => IInv'
<1> SUFFICES ASSUME IInv, [Next]_vars  PROVE IInv'
  OBVIOUS
<1>1. CASE CreateAndPlan
  BY <1>1, CreatePreserves
<1>2. CASE \E run \in DOMAIN runs : Answer(run)
  BY <1>2, AgentsPreserve
<1>3. CASE \E run \in DOMAIN runs : ApplyOutcome(run)
  BY <1>3, OutcomePreserves
<1>4. CASE Continue
  BY <1>4, ContinuePreserves
<1>5. CASE Poll
  BY <1>5, PollsPreserve, ObservePreserves, AgentsPreserve DEF Poll
<1>6. CASE Operator
  BY <1>6, RetryTaskPreserves, ToolsPreserve, ControlsPreserve DEF Operator
<1>7. CASE ChecksFinish \/ ChecksRerun \/ ForeignPush \/ ForeignMerge
  BY <1>7, ForeignPreserves
<1>8. CASE Abandon \/ Restart
  BY <1>8, FaultsPreserve
<1>9. CASE UNCHANGED vars
  BY <1>9 DEF vars, IInv, TypeOK, PipelineTypeOK, KeyPlanned, VerdictKnown, VerdictOf, Quiet, At
<1> QED  BY <1>1, <1>2, <1>3, <1>4, <1>5, <1>6, <1>7, <1>8, <1>9 DEF Next

(* The inductive invariant holds throughout. *)
THEOREM Invariance == Spec => []IInv
BY InitIInv, NextIInv, PTL DEF Spec

(* The record, the dispatches, the repository, the pull request and the     *)
(* handler keep their types in every run, whatever planners and agents      *)
(* answer and wherever the process dies (store.go, outcome.go).             *)
THEOREM TypeCorrect == Spec => []TypeOK
<1>1. IInv => TypeOK
  BY DEF IInv
<1> QED  BY <1>1, Invariance, PTL

-----------------------------------------------------------------------------
(* Jobs that ended or are paused. *)

(* No applicable answer belongs to a job that is not live.                  *)
LEMMA NoneApplicable ==
  ASSUME NEW run, ~Live(job.Status), ApplyOutcome(run)
  PROVE  /\ ApplySettled(run)
         /\ job.Status \in Ended
<1>1. ~Applicable(run)
  BY DEF Applicable, Terminal, Live, Ended
<1>2. ApplySettled(run)
  BY <1>1 DEF ApplyOutcome, ApplyFailure, ApplyPlan, ApplyWriterCommit, ApplyWriterNoChanges,
              ApplyWriterBlocked, ApplyWriterHandoff, ApplyReview, ApplyHolistic, Working
<1>3. job.Status # "paused"
  BY <1>1, <1>2 DEF ApplySettled, Settled, Terminal
<1> QED  BY <1>2, <1>3 DEF Live

(* Of a handler only the bookkeeping is left. *)
LEMMA OnlyBookkeeping ==
  ASSUME IInv, ~Live(job.Status), Continue
  PROVE  (Mark \/ CancelRuns) /\ job.Status \in Ended
<1>1. call.at \in QuietSteps
  BY InvFacts
<1>2. call.at # "idle"
  BY DEF Continue, HandlerStep, Mark, Complete, DispatchReviewer, OwnReviewer, DecideReview, StopTask,
     DispatchWriter, OwnWriter, DispatchReady, OwnReady, NoneReady, BeginIntegration,
     IntegrationRefused, NoneIntegrable, MergeTask, MergeConflict, Integrated, PushBranch, CreatePR,
     SavePullRequest, BeginCI, DraftRefused, Publish, Promote, PassGate, GateRefused, AlreadyMerged,
     MergePR, SaveMerge, DispatchHolistic, OwnHolistic, NewHolisticRound, Reopen, StopJob, RepairCI,
     EscalateCI, DispatchPlanner, NextReviewer, ReleaseWriter, ReleaseReviewer, RenewPlanning,
     CancelRuns, At
<1>3. Mark \/ CancelRuns
  BY <1>1 DEF QuietSteps, Continue, HandlerStep, Mark, Complete, DispatchReviewer, OwnReviewer,
     DecideReview, StopTask, DispatchWriter, OwnWriter, DispatchReady, OwnReady, NoneReady,
     BeginIntegration, IntegrationRefused, NoneIntegrable, MergeTask, MergeConflict, Integrated,
     PushBranch, CreatePR, SavePullRequest, BeginCI, DraftRefused, Publish, Promote, PassGate,
     GateRefused, AlreadyMerged, MergePR, SaveMerge, DispatchHolistic, OwnHolistic, NewHolisticRound,
     Reopen, StopJob, RepairCI, EscalateCI, DispatchPlanner, NextReviewer, ReleaseWriter,
     ReleaseReviewer, RenewPlanning, CancelRuns, At
<1>4. job.Status # "paused"
  <2>1. Idle.at = "idle"
    BY DEF Idle
  <2> QED  BY <1>2, <2>1 DEF IInv, Quiet
<1> QED  BY <1>3, <1>4 DEF Live

(* Of the polls, those that do not touch the record. *)
LEMMA OnlyQuietPolls ==
  ASSUME ~Live(job.Status), Poll
  PROVE  ResumePlanner \/ (ReconcileCancelled /\ job.Status \in Ended)
BY DEF Poll, Live, Ended, ReconcileTasks, ReconcileReplan, ReconcileHolistic, ReconcileCancelled,
       ObservePublication, ObserveStrandedRound, ObserveForeignHead, ObserveChecks

(* Of the tools, leaving a pause. *)
LEMMA OnlyLeavingPause ==
  ASSUME ~Live(job.Status), Operator
  PROVE  job.Status = "paused" /\ (ResumeJob \/ CancelCodeJob)
<1>1. ~(\E k \in DOMAIN tasks : RetryCodeTask(k))
  BY DEF RetryCodeTask, RetriesAllowed, Live, Ended
<1>2. ~RetryCodePlanning /\ ~ResetHolisticReview /\ ~StartRereview /\ ~PublishApproved
  BY DEF RetryCodePlanning, ResetHolisticReview, ResetHolisticRound, StartRereview,
         StartHolisticRereview, PublishApproved, Live, Ended
<1>3. ~PauseJob
  BY DEF PauseJob, Pause, Terminal, Live, Ended
<1>4. CancelCodeJob => job.Status = "paused"
  BY DEF CancelCodeJob, Cancel, Terminal, Live, Ended
<1>5. ResumeJob => job.Status = "paused"
  BY DEF ResumeJob, Resume
<1> QED  BY <1>1, <1>2, <1>3, <1>4, <1>5 DEF Operator

(* What a step can do to the record of a job that is not live.              *)
LEMMA NotLiveStep ==
  ASSUME IInv, [Next]_vars, ~Live(job.Status)
  PROVE  \/ UNCHANGED pipelineVars
         \/ Reload
         \/ job.Status = "paused" /\ (Resume \/ Cancel)
<1>1. CASE CreateAndPlan
  BY <1>1 DEF CreateAndPlan, StartPlanning, Live, Ended
<1>2. CASE \E run \in DOMAIN runs : Answer(run)
  BY <1>2 DEF Answer, pipelineVars
<1>3. CASE \E run \in DOMAIN runs : ApplyOutcome(run)
  BY <1>3, NoneApplicable DEF ApplySettled, pipelineVars
<1>4. CASE Continue
  BY <1>4, OnlyBookkeeping DEF Mark, CancelRuns, pipelineVars
<1>5. CASE Poll
  BY <1>5, OnlyQuietPolls DEF ResumePlanner, ReconcileCancelled
<1>6. CASE Operator
  BY <1>6, OnlyLeavingPause DEF ResumeJob, CancelCodeJob
<1>7. CASE ChecksFinish \/ ChecksRerun \/ ForeignPush \/ ForeignMerge
  BY <1>7 DEF ChecksFinish, ChecksRerun, ForeignPush, ForeignMerge, pipelineVars
<1>8. CASE Abandon \/ Restart
  BY <1>8 DEF Abandon, Restart, pipelineVars
<1>9. CASE UNCHANGED vars
  BY <1>9 DEF vars, pipelineVars
<1> QED  BY <1>1, <1>2, <1>3, <1>4, <1>5, <1>6, <1>7, <1>8, <1>9 DEF Next

(* Restarting or doing nothing moves no task. *)
LEMMA StatusesKept ==
  ASSUME PipelineTypeOK, UNCHANGED pipelineVars \/ Reload
  PROVE  /\ UNCHANGED <<job, plan>>
         /\ \A k \in DOMAIN tasks : tasks'[k].Status = tasks[k].Status
<1>1. CASE UNCHANGED pipelineVars
  BY <1>1 DEF pipelineVars
<1>2. CASE Reload
  <2> SUFFICES ASSUME NEW k \in DOMAIN tasks  PROVE tasks'[k].Status = tasks[k].Status
    BY <1>2 DEF Reload
  <2>1. tasks[k] \in Task
    BY TaskCounters
  <2>2. tasks'[k] = IF tasks[k].Status = "blocked" THEN tasks[k]
                    ELSE [tasks[k] EXCEPT !.BlockReason = NoPrint]
    BY <1>2 DEF Reload
  <2> QED  BY <2>1, <2>2 DEF Task
<1> QED  BY <1>1, <1>2

(* Published, failed and cancelled jobs stay what they are, whichever       *)
(* handler was interrupted and whichever late answer arrives (operator.go   *)
(* 8-10, outcome.go 27-29).                                                 *)
THEOREM EndedStays == Spec => TerminalAbsorbing
<1> DEFINE Absorbed ==
      job.Status \in {"published", "failed", "cancelled"} =>
        /\ job'.Status = job.Status /\ plan' = plan
        /\ \A k \in DOMAIN tasks : tasks'[k].Status = tasks[k].Status
<1>1. IInv /\ [Next]_vars => Absorbed
  <2> SUFFICES ASSUME IInv, [Next]_vars, job.Status \in Ended
               PROVE  Absorbed
    BY DEF Ended
  <2>1. ~Live(job.Status) /\ job.Status # "paused" /\ PipelineTypeOK
    BY InvFacts DEF Live, Ended
  <2>2. UNCHANGED pipelineVars \/ Reload
    BY <2>1, NotLiveStep
  <2> QED  BY <2>1, <2>2, StatusesKept
<1>2. IInv /\ [Next]_vars => [Absorbed]_vars
  BY <1>1
<1>3. Spec => [][Absorbed]_vars
  BY <1>2, Invariance, PTL DEF Spec
<1> QED  BY <1>3 DEF TerminalAbsorbing

(* What a paused job's answers can do. *)
LEMMA PausedAnswers ==
  ASSUME IInv, [Next]_vars, job.Status = "paused", NEW r \in DOMAIN runs,
         runs'[r] = "applied"
  PROVE  runs[r] = "applied"
<1>1. ~Live(job.Status) /\ job.Status \notin Ended /\ TypeOK /\ EnvTypeOK
  BY InvFacts DEF Live, Ended
<1>2. CASE \E run \in DOMAIN runs : Answer(run)
  <2> PICK run \in DOMAIN runs : Answer(run)
    BY <1>2
  <2>1. PICK a \in Answers[run.Role] : runs' = [runs EXCEPT ![run] = a]
    BY DEF Answer
  <2>2. run.Role \in Roles
    BY <1>1 DEF EnvTypeOK, Run
  <2>3. a # "applied"
    BY <2>1, <2>2, OrchestrationAssumption DEF Answers, Roles
  <2> QED  BY <2>1, <2>3
<1>3. CASE \E run \in DOMAIN runs : ApplyOutcome(run)
  BY <1>1, <1>3, NoneApplicable
<1>4. CASE Continue
  BY <1>1, <1>4, OnlyBookkeeping
<1>5. CASE Poll
  <2>1. ResumePlanner
    BY <1>1, <1>5, OnlyQuietPolls
  <2>2. PlannerRun \in Run /\ Launch(PlannerRun)
    BY <1>1, <2>1, RunsTyped DEF ResumePlanner
  <2> QED  BY <1>1, <2>2, Launched
<1>6. CASE Operator
  BY <1>1, <1>6, OnlyLeavingPause DEF ResumeJob, CancelCodeJob, envVars
<1>7. CASE UNCHANGED runs
  BY <1>7
<1>8. CASE CreateAndPlan
  BY <1>1, <1>8 DEF CreateAndPlan, envVars
<1> QED
  BY <1>2, <1>3, <1>4, <1>5, <1>6, <1>7, <1>8
     DEF Next, ChecksFinish, ChecksRerun, ForeignPush, ForeignMerge, Abandon, Restart, vars

(* While a job is paused no task moves and no answer is consumed, and it    *)
(* leaves the pause for where it was or is cancelled (operator.go 12-36).   *)
THEOREM PauseFreezes == Spec => PausedFrozen
<1> DEFINE Frozen ==
      job.Status = "paused" =>
        /\ plan' = plan
        /\ \A k \in DOMAIN tasks : tasks'[k].Status = tasks[k].Status
        /\ job'.Status \in {"paused", job.PausedFrom, "cancelled"}
        /\ \A r \in DOMAIN runs : runs'[r] = "applied" => runs[r] = "applied"
<1>1. IInv /\ [Next]_vars => Frozen
  <2> SUFFICES ASSUME IInv, [Next]_vars, job.Status = "paused"
               PROVE  Frozen
    OBVIOUS
  <2>1. ~Live(job.Status) /\ PipelineTypeOK /\ job \in Job
    BY InvFacts, JobCounters DEF Live
  <2>2. \A r \in DOMAIN runs : runs'[r] = "applied" => runs[r] = "applied"
    BY PausedAnswers
  <2>3. CASE UNCHANGED pipelineVars \/ Reload
    BY <2>1, <2>2, <2>3, StatusesKept
  <2>4. CASE Resume \/ Cancel
    BY <2>1, <2>2, <2>4 DEF Resume, Cancel, Job
  <2> QED  BY <2>1, <2>3, <2>4, NotLiveStep
<1>2. IInv /\ [Next]_vars => [Frozen]_vars
  BY <1>1
<1>3. Spec => [][Frozen]_vars
  BY <1>2, Invariance, PTL DEF Spec
<1> QED  BY <1>3 DEF PausedFrozen

-----------------------------------------------------------------------------
(* The plan. *)

(* Two lists without repetition, of one length, the second of members of    *)
(* the first, list the same.                                                *)
LEMMA SameMembers ==
  ASSUME NEW S, NEW s \in Seq(S), NEW r \in Seq(S), IsInjective(s), IsInjective(r),
         Len(s) = Len(r), Range(r) \subseteq Range(s)
  PROVE  Range(r) = Range(s)
<1>1. ASSUME NEW q \in Seq(S), IsInjective(q)
      PROVE  IsFiniteSet(Range(q)) /\ Cardinality(Range(q)) = Len(q)
  <2>1. DOMAIN q = 1..Len(q) /\ Len(q) \in Nat
    OBVIOUS
  <2>2. q \in Bijection(1..Len(q), Range(q))
    BY <1>1, <2>1 DEF Bijection, Injection, Surjection, IsInjective, Range
  <2> QED  BY <2>1, <2>2, FS_NatBijection, FS_CountingElements DEF ExistsBijection
<1> QED  BY <1>1, FS_Subset

(* Appending what is not there yet. *)
LEMMA Appended ==
  ASSUME NEW S, NEW s \in Seq(S), NEW x \in S
  PROVE  /\ Range(Append(s, x)) = Range(s) \cup {x}
         /\ IsInjective(s) /\ x \notin Range(s) => IsInjective(Append(s, x))
         /\ \A a, b : Precedes(s, a, b) => Precedes(Append(s, x), a, b)
<1>1. /\ DOMAIN s = 1..Len(s) /\ DOMAIN Append(s, x) = 1..(Len(s) + 1) /\ Len(s) \in Nat
      /\ \A i \in 1..Len(s) : Append(s, x)[i] = s[i]
      /\ Append(s, x)[Len(s) + 1] = x
  BY AppendProperties
<1>2. Range(Append(s, x)) = Range(s) \cup {x}
  <2>1. \A i \in DOMAIN Append(s, x) : i \in DOMAIN s \/ i = Len(s) + 1
    BY <1>1
  <2>2. \A i \in DOMAIN s : i \in DOMAIN Append(s, x)
    BY <1>1
  <2> QED  BY <1>1, <2>1, <2>2 DEF Range
<1>3. ASSUME IsInjective(s), x \notin Range(s) PROVE IsInjective(Append(s, x))
  <2>1. \A i \in 1..Len(s) : s[i] # x
    BY <1>1, <1>3 DEF Range
  <2> QED  BY <1>1, <1>3, <2>1 DEF IsInjective
<1>4. ASSUME NEW a, NEW b, Precedes(s, a, b) PROVE Precedes(Append(s, x), a, b)
  BY <1>1, <1>4 DEF Precedes
<1> QED  BY <1>2, <1>3, <1>4

(* The keys of remediations after failed checks count the tasks, so a key   *)
(* that is taken is one of fewer tasks.                                     *)
RepairsCounted == \A k \in DOMAIN tasks : k.Origin = "ci" => k.Round <= Len(plan.Tasks)

PlanInv == PlanWellFormed /\ RepairsCounted

(* What most transitions do to the plan. *)
PlanKept ==
  /\ plan' = plan /\ DOMAIN tasks' = DOMAIN tasks
  /\ \A k \in DOMAIN tasks : tasks'[k].DependsOn = tasks[k].DependsOn

LEMMA KeptStays ==
  ASSUME PlanInv, PlanKept
  PROVE  PlanInv'
BY DEF PlanInv, PlanKept, PlanWellFormed, RepairsCounted, Precedes

(* Transitions of one task. *)
LEMMA UpdateKeeps ==
  ASSUME NEW k, NEW t, UNCHANGED plan, tasks' = Update(k, t),
         k \in DOMAIN tasks => t.DependsOn = tasks[k].DependsOn
  PROVE  PlanKept
BY DEF PlanKept, Update

LEMMA RefreshKeeps ==
  ASSUME PipelineTypeOK, NEW ts, UNCHANGED plan, tasks' = RefreshEligibility(ts),
         ts \in [DOMAIN tasks -> Task],
         \A k \in DOMAIN tasks : ts[k].DependsOn = tasks[k].DependsOn
  PROVE  PlanKept
<1>1. ASSUME NEW k \in DOMAIN tasks
      PROVE  [ts[k] EXCEPT !.Status = "integration_eligible"].DependsOn = ts[k].DependsOn
  BY DEF Task
<1> QED  BY <1>1 DEF PlanKept, RefreshEligibility

(* A task of the map of tasks is a task. *)
LEMMA TaskOpsKeep ==
  ASSUME PipelineTypeOK, NEW k \in DOMAIN tasks,
         \/ \E sha : RecordTaskBase(k, sha)
         \/ \E run : StartTaskWork(k, run) \/ RecordWriterCompletion(k, run) \/ StartReviewer(k, run)
         \/ \E run : RetryWriter(k, run) \/ RetryReview(k, run)
         \/ BlockTask(k) \/ ResumeBlockedWriter(k) \/ ReopenNoChangesTask(k) \/ StartIntegration(k)
  PROVE  PlanKept
<1>1. tasks[k] \in Task
  BY DEF PipelineTypeOK
<1>2. CASE UNCHANGED <<plan, tasks>>
  BY <1>2 DEF PlanKept
<1>3. ASSUME NEW t, UNCHANGED plan, tasks' = Update(k, t), t.DependsOn = tasks[k].DependsOn
      PROVE  PlanKept
  BY <1>3, UpdateKeeps
<1>4. CASE \E sha : RecordTaskBase(k, sha)
  BY <1>1, <1>3, <1>4 DEF RecordTaskBase, Update, Task
<1>5. CASE \E run : StartTaskWork(k, run)
  BY <1>1, <1>2, <1>3, <1>5 DEF StartTaskWork, pipelineVars, Task
<1>6. CASE \E run : RecordWriterCompletion(k, run) \/ StartReviewer(k, run)
  BY <1>1, <1>2, <1>3, <1>6 DEF RecordWriterCompletion, StartReviewer, Task
<1>7. CASE \E run : RetryWriter(k, run) \/ RetryReview(k, run)
  BY <1>1, <1>3, <1>7 DEF RetryWriter, RetryReview, Task
<1>8. CASE BlockTask(k)
  BY <1>1, <1>3, <1>8 DEF BlockTask, Task
<1>9. CASE ResumeBlockedWriter(k) \/ ReopenNoChangesTask(k)
  BY <1>1, <1>3, <1>9 DEF ResumeBlockedWriter, ReopenNoChangesTask, Reopened, Task
<1>10. CASE StartIntegration(k)
  BY <1>1, <1>3, <1>10 DEF StartIntegration, Update, Task
<1> QED  BY <1>4, <1>5, <1>6, <1>7, <1>8, <1>9, <1>10

LEMMA ReviewOpsKeep ==
  ASSUME PipelineTypeOK, NEW k \in DOMAIN tasks, NEW run, NEW verdict, NEW same,
         RecordReviewReport(k, run, verdict, same) \/ RecordReview(k, run, verdict)
  PROVE  PlanKept
<1> DEFINE t == Adopted(tasks[k], run)
<1>1. tasks[k] \in Task
  BY DEF PipelineTypeOK
<1>2. t.DependsOn = tasks[k].DependsOn /\ DOMAIN t = DOMAIN tasks[k]
  BY <1>1 DEF Adopted, Task
<1>3. "DependsOn" \in DOMAIN tasks[k]
  BY <1>1 DEF Task
<1> HIDE DEF t
<1>4. CASE RecordReviewReport(k, run, verdict, same)
  <2> DEFINE u == IF t.ReviewerRunID # run \/ t.Reported = run THEN t
                  ELSE [t EXCEPT !.Reported = run,
                                 !.Repeats = IF verdict # "changes_requested" THEN 0
                                             ELSE IF same THEN @ + 1 ELSE 1]
  <2>1. tasks' = Update(k, u) /\ UNCHANGED plan
    BY <1>4 DEF RecordReviewReport, t
  <2>2. u.DependsOn = tasks[k].DependsOn
    BY <1>2
  <2> HIDE DEF u
  <2> QED  BY <2>1, <2>2, UpdateKeeps
<1>5. CASE RecordReview(k, run, verdict)
  <2>1. CASE UNCHANGED pipelineVars
    BY <2>1 DEF PlanKept, pipelineVars
  <2>2. CASE ~UNCHANGED pipelineVars
    <3>1. UNCHANGED plan /\ \E a, s : tasks' = Update(k,
            [t EXCEPT !.ReviewerAttempts = a, !.ReviewerRunID = run, !.ReviewVerdict = verdict,
                      !.Status = s])
      BY <1>5, <2>2 DEF RecordReview, t
    <3>2. \A a, s : [t EXCEPT !.ReviewerAttempts = a, !.ReviewerRunID = run, !.ReviewVerdict = verdict,
                             !.Status = s].DependsOn = t.DependsOn
      OBVIOUS
    <3> QED  BY <1>2, <3>1, <3>2, UpdateKeeps
  <2> QED  BY <2>1, <2>2
<1> QED  BY <1>4, <1>5

LEMMA BatchOpsKeep ==
  ASSUME PipelineTypeOK, NEW k \in DOMAIN tasks,
         \/ \E run : RecordNoChanges(k, run)
         \/ \E sha : RecordIntegration(k, sha)
  PROVE  PlanKept
<1>1. tasks \in [DOMAIN tasks -> Task]
  BY DEF PipelineTypeOK
<1>2. CASE \E run : RecordNoChanges(k, run)
  <2> DEFINE ts == Update(k, [tasks[k] EXCEPT !.Status = "no_changes"])
  <2>1. tasks' = RefreshEligibility(ts) /\ UNCHANGED plan
    BY <1>2 DEF RecordNoChanges
  <2>2. ts \in [DOMAIN tasks -> Task] /\ \A j \in DOMAIN tasks : ts[j].DependsOn = tasks[j].DependsOn
    BY <1>1 DEF Update, Task, TaskStatus
  <2> HIDE DEF ts
  <2> QED  BY <2>1, <2>2, RefreshKeeps
<1>3. CASE \E sha : RecordIntegration(k, sha)
  <2> DEFINE ts == [tasks EXCEPT ![k].Status = "integrated"]
  <2>1. tasks' = RefreshEligibility(ts) /\ UNCHANGED plan
    BY <1>3 DEF RecordIntegration
  <2>2. ts \in [DOMAIN tasks -> Task] /\ \A j \in DOMAIN tasks : ts[j].DependsOn = tasks[j].DependsOn
    BY <1>1 DEF Task, TaskStatus
  <2> HIDE DEF ts
  <2> QED  BY <2>1, <2>2, RefreshKeeps
<1> QED  BY <1>2, <1>3

LEMMA ReloadKeeps ==
  ASSUME PipelineTypeOK, ReopenIncompleteTasks \/ Reload
  PROVE  PlanKept
<1>1. \A k \in DOMAIN tasks : tasks[k] \in Task
  BY DEF PipelineTypeOK
<1>2. \A k \in DOMAIN tasks :
        /\ [tasks[k] EXCEPT !.BlockReason = NoPrint].DependsOn = tasks[k].DependsOn
        /\ Reopened(tasks[k]).DependsOn = tasks[k].DependsOn
        /\ [Reopened(tasks[k]) EXCEPT !.BlockReason = NoPrint].DependsOn = tasks[k].DependsOn
  BY <1>1 DEF Reopened, Task
<1>3. CASE Reload
  BY <1>2, <1>3 DEF Reload, PlanKept
<1>4. CASE ReopenIncompleteTasks
  BY <1>2, <1>4 DEF ReopenIncompleteTasks, PlanKept
<1> QED  BY <1>3, <1>4

LEMMA RoundsTyped ==
  ASSUME PipelineTypeOK
  PROVE  \A k \in DOMAIN tasks : k \in Key /\ k.Round \in Nat
<1>1. plan.Tasks \in Seq(Key) /\ DOMAIN tasks = Range(plan.Tasks)
  BY DEF PipelineTypeOK
<1>2. \A k \in DOMAIN tasks : k \in Key
  BY <1>1, RangeOfSeq
<1> QED  BY <1>2 DEF Key

(* Remediations append a task nobody depends on and that depends on none.   *)
LEMMA AppendKeeps ==
  ASSUME PipelineTypeOK, PlanInv, NEW k \in Key, NEW t, t.DependsOn = {}, k \notin DOMAIN tasks,
         k.Origin = "ci" => k.Round <= Len(plan.Tasks) + 1,
         plan' = Append1(k), tasks' = Extend([x \in {k} |-> t])
  PROVE  PlanInv'
<1>1. plan.Tasks \in Seq(Key) /\ plan.IntegrationOrder \in Seq(Key) /\ DOMAIN tasks = Range(plan.Tasks)
  BY DEF PipelineTypeOK
<1>2. /\ plan'.Tasks = Append(plan.Tasks, k)
      /\ plan'.IntegrationOrder = Append(plan.IntegrationOrder, k)
  BY DEF Append1
<1>3. /\ DOMAIN tasks' = DOMAIN tasks \cup {k} /\ tasks'[k].DependsOn = {}
      /\ \A j \in DOMAIN tasks : tasks'[j] = tasks[j]
  BY DEF Extend
<1>4. Range(plan.IntegrationOrder) = Range(plan.Tasks)
  BY DEF PlanInv, PlanWellFormed
<1>5. /\ Range(plan'.Tasks) = Range(plan.Tasks) \cup {k} /\ IsInjective(plan'.Tasks)
      /\ Range(plan'.IntegrationOrder) = Range(plan.Tasks) \cup {k}
      /\ IsInjective(plan'.IntegrationOrder)
  BY <1>1, <1>2, <1>4, Appended DEF PlanInv, PlanWellFormed
<1>6. \A j \in DOMAIN tasks' : \A d \in tasks'[j].DependsOn : Precedes(plan'.IntegrationOrder, d, j)
  <2>1. ASSUME NEW j \in DOMAIN tasks, NEW d \in tasks[j].DependsOn
        PROVE  Precedes(plan'.IntegrationOrder, d, j)
    BY <1>1, <1>2, Appended DEF PlanInv, PlanWellFormed
  <2> QED  BY <1>3, <2>1
<1>7. RepairsCounted'
  <2>1. Len(plan.Tasks) \in Nat /\ Len(plan'.Tasks) = Len(plan.Tasks) + 1
    BY <1>1, <1>2, AppendProperties
  <2>2. \A j \in DOMAIN tasks : j \in Key /\ j.Round \in Nat
    BY RoundsTyped
  <2> QED  BY <1>3, <2>1, <2>2 DEF PlanInv, RepairsCounted
<1> QED  BY <1>5, <1>6, <1>7 DEF PlanInv, PlanWellFormed

LEMMA RemediationKeeps ==
  ASSUME PipelineTypeOK, PlanInv,
         StartReviewRemediation \/ \E print : StartCIRemediation(print)
  PROVE  PlanInv'
<1>0. plan.Tasks \in Seq(Key) /\ Len(plan.Tasks) \in Nat
  BY DEF PipelineTypeOK
<1>1. CASE UNCHANGED pipelineVars
  <2>1. PlanKept
    BY <1>1 DEF PlanKept, pipelineVars
  <2> QED  BY <2>1, KeptStays
<1>2. CASE StartReviewRemediation /\ ~UNCHANGED pipelineVars
  <2> DEFINE k == RemediationKey("holistic", job.HolisticRounds)
             t == PlannedTask("implementation", {}, 0, NoPrint)
  <2>1. k \in Key /\ k.Origin = "holistic"
    BY RemediationKeyTyped, JobCounters DEF RemediationKey
  <2>2. k \notin DOMAIN tasks /\ plan' = Append1(k) /\ tasks' = Extend([x \in {k} |-> t])
    BY <1>2 DEF StartReviewRemediation
  <2>3. t.DependsOn = {}
    BY DEF PlannedTask
  <2> HIDE DEF k, t
  <2> QED  BY <2>1, <2>2, <2>3, AppendKeeps
<1>3. CASE (\E print : StartCIRemediation(print)) /\ ~UNCHANGED pipelineVars
  <2> DEFINE k == RemediationKey("ci", Len(plan.Tasks) + 1)
  <2>1. k \in Key /\ k.Origin = "ci" /\ k.Round = Len(plan.Tasks) + 1
    BY <1>0, RemediationKeyTyped DEF RemediationKey
  <2>2. k \notin DOMAIN tasks
    BY <1>0, <2>1 DEF PlanInv, RepairsCounted
  <2>3. plan' = Append1(k) /\ \E t : t.DependsOn = {} /\ tasks' = Extend([x \in {k} |-> t])
    <3>1. PICK print : StartCIRemediation(print)
      BY <1>3
    <3> DEFINE t == PlannedTask("ci_remediation", {}, job.CI.HeadSHA, print)
    <3>2. plan' = Append1(k) /\ tasks' = Extend([x \in {k} |-> t])
      BY <1>3, <3>1 DEF StartCIRemediation
    <3>3. t.DependsOn = {}
      BY DEF PlannedTask
    <3> HIDE DEF k, t
    <3> QED  BY <3>2, <3>3
  <2> HIDE DEF k
  <2>4. PICK t : t.DependsOn = {} /\ tasks' = Extend([x \in {k} |-> t])
    BY <2>3
  <2>5. plan' = Append1(k)
    BY <2>3
  <2>6. k \in Key /\ (k.Origin = "ci" => k.Round <= Len(plan.Tasks) + 1)
    BY <1>0, <2>1
  <2> QED  BY <2>2, <2>4, <2>5, <2>6, AppendKeeps
<1> QED  BY <1>1, <1>2, <1>3

(* The keys of a proposal are none of a remediation. *)
LEMMA ProposedKeys ==
  ASSUME NEW p, NEW round
  PROVE  \A k \in Range(Keyed(p, round).Tasks) : k.Origin # "ci"
<1> DEFINE key(n) == PlannedKey(IF n \in Range(p.Tasks) THEN round ELSE 0, n)
<1>1. Keyed(p, round).Tasks = [i \in DOMAIN p.Tasks |-> key(p.Tasks[i])]
  BY DEF Keyed
<1>2. \A n : key(n).Origin # "ci"
  BY DEF PlannedKey
<1> HIDE DEF key
<1> QED  BY <1>1, <1>2 DEF Range

(* A plan that passed validation is well formed. *)
LEMMA ValidIsWellFormed ==
  ASSUME NEW keys \in Seq(Key), NEW order \in Seq(Key), NEW ts, DOMAIN ts = Range(keys),
         ValidPlan(keys, order, [k \in DOMAIN ts |-> ts[k].DependsOn])
  PROVE  /\ IsInjective(keys) /\ IsInjective(order) /\ Range(order) = Range(keys)
         /\ \A k \in DOMAIN ts : \A d \in ts[k].DependsOn : Precedes(order, d, k)
<1>1. /\ IsInjective(keys) /\ IsInjective(order) /\ Len(order) = Len(keys)
      /\ Range(order) \subseteq Range(keys)
  BY DEF ValidPlan
<1>2. Range(order) = Range(keys)
  BY <1>1, SameMembers
<1>3. \A k \in DOMAIN ts : \A d \in ts[k].DependsOn : Precedes(order, d, k)
  BY DEF ValidPlan
<1> QED  BY <1>1, <1>2, <1>3

LEMMA SubmitKeeps ==
  ASSUME PipelineAssumption, PipelineTypeOK, PlanInv, NEW p \in Proposal, SubmitPlan(p)
  PROVE  PlanInv'
<1> DEFINE draft == Keyed(p, 0)
<1>1. CASE UNCHANGED pipelineVars
  <2>1. PlanKept
    BY <1>1 DEF PlanKept, pipelineVars
  <2> QED  BY <2>1, KeptStays
<1>2. CASE ~UNCHANGED pipelineVars
  <2>1. /\ draft.Tasks \in Seq(Key) /\ draft.IntegrationOrder \in Seq(Key)
        /\ draft.Added \in [Range(draft.Tasks) -> Task]
    BY KeyedTyped
  <2>2. /\ ValidPlan(draft.Tasks, draft.IntegrationOrder,
                     [k \in DOMAIN draft.Added |-> draft.Added[k].DependsOn])
        /\ plan' = [Tasks |-> draft.Tasks, IntegrationOrder |-> draft.IntegrationOrder]
        /\ tasks' = draft.Added
    BY <1>2 DEF SubmitPlan
  <2>3. \A k \in Range(draft.Tasks) : k.Origin # "ci"
    BY ProposedKeys
  <2> HIDE DEF draft
  <2>4. PlanWellFormed'
    BY <2>1, <2>2, ValidIsWellFormed DEF PlanWellFormed
  <2>5. RepairsCounted'
    BY <2>1, <2>2, <2>3 DEF RepairsCounted
  <2> QED  BY <2>4, <2>5 DEF PlanInv
<1> QED  BY <1>1, <1>2

LEMMA ReviseKeeps ==
  ASSUME PipelineAssumption, PipelineTypeOK, PlanInv, NEW p \in Proposal, RevisePlan(p)
  PROVE  PlanInv'
<1> DEFINE draft == Keyed(p, job.CIReplanRounds)
           keys == plan.Tasks \o draft.Tasks
           order == plan.IntegrationOrder \o draft.IntegrationOrder
           ts == Extend(draft.Added)
<1>1. CASE UNCHANGED pipelineVars
  <2>1. PlanKept
    BY <1>1 DEF PlanKept, pipelineVars
  <2> QED  BY <2>1, KeptStays
<1>2. CASE ~UNCHANGED pipelineVars
  <2>1. /\ draft.Tasks \in Seq(Key) /\ draft.IntegrationOrder \in Seq(Key)
        /\ draft.Added \in [Range(draft.Tasks) -> Task]
    BY KeyedTyped, JobCounters
  <2>2. /\ ValidPlan(keys, order, [k \in DOMAIN ts |-> ts[k].DependsOn])
        /\ plan' = [Tasks |-> keys, IntegrationOrder |-> order]
        /\ tasks' = ts
    BY <1>2 DEF RevisePlan
  <2>3. \A k \in Range(draft.Tasks) : k.Origin # "ci"
    BY ProposedKeys
  <2>4. plan.Tasks \in Seq(Key) /\ plan.IntegrationOrder \in Seq(Key) /\ DOMAIN tasks = Range(plan.Tasks)
    BY DEF PipelineTypeOK
  <2> HIDE DEF draft
  <2>5. /\ keys \in Seq(Key) /\ order \in Seq(Key) /\ Len(keys) = Len(plan.Tasks) + Len(draft.Tasks)
        /\ Range(keys) = Range(plan.Tasks) \cup Range(draft.Tasks)
    BY <2>1, <2>4, ConcatProperties, RangeConcatenation
  <2>6. DOMAIN ts = Range(keys)
    BY <2>1, <2>4, <2>5 DEF Extend
  <2> HIDE DEF keys, order, ts
  <2>7. PlanWellFormed'
    BY <2>2, <2>5, <2>6, ValidIsWellFormed DEF PlanWellFormed
  <2>8. RepairsCounted'
    <3>1. Len(plan.Tasks) \in Nat /\ Len(draft.Tasks) \in Nat
      BY <2>1, <2>4
    <3>2. \A k \in DOMAIN tasks : k.Round \in Nat
      BY RoundsTyped
    <3>3. ASSUME NEW k \in DOMAIN tasks', k.Origin = "ci" PROVE k.Round <= Len(plan'.Tasks)
      <4>1. k \in DOMAIN tasks
        BY <2>2, <2>3, <2>4, <2>5, <2>6, <3>3
      <4>2. k.Round <= Len(plan.Tasks)
        BY <3>3, <4>1 DEF PlanInv, RepairsCounted
      <4>3. plan'.Tasks = keys
        BY <2>2
      <4>4. Len(keys) = Len(plan.Tasks) + Len(draft.Tasks)
        BY <2>5
      <4>5. \A a, b, c \in Nat : a <= b => a <= b + c
        OBVIOUS
      <4>6. k.Round <= Len(plan.Tasks) + Len(draft.Tasks)
        BY <3>1, <3>2, <4>1, <4>2, <4>5
      <4> QED  BY <4>3, <4>4, <4>6
    <3> QED  BY <3>3 DEF RepairsCounted
  <2> QED  BY <2>7, <2>8 DEF PlanInv
<1> QED  BY <1>1, <1>2

(* The transitions that change the plan, and those that leave it. *)
PlanGrows ==
  \/ \E p \in Proposal : SubmitPlan(p) \/ RevisePlan(p)
  \/ StartReviewRemediation
  \/ \E print : StartCIRemediation(print)

LEMMA SameTasks ==
  ASSUME UNCHANGED <<plan, tasks>>
  PROVE  PlanKept
BY DEF PlanKept

(* Transitions of the job alone. *)
LEMMA ScalarsKeep ==
  ASSUME \/ StartPlanning \/ RetryPlanning \/ RecordPullRequest \/ RecordMerge \/ FailJob
         \/ ResetHolisticRound \/ Pause \/ Resume \/ Cancel
         \/ \E sha : StartCI(sha) \/ StartHolisticRereview(sha)
         \/ \E run, sha : StartHolisticReviewer(run, sha)
         \/ \E run, sha, verdict : RecordHolisticReview(run, sha, verdict)
         \/ \E sha, state, print : RecordCI(sha, state, print)
         \/ \E print : BeginCIReplan(print)
  PROVE  PlanKept
<1>1. UNCHANGED <<plan, tasks>>
  BY DEF StartPlanning, RetryPlanning, RecordPullRequest, RecordMerge, FailJob, ResetHolisticRound,
         Pause, Resume, Cancel, StartCI, StartHolisticRereview, StartHolisticReviewer,
         RecordHolisticReview, RecordCI, BeginCIReplan, pipelineVars
<1> QED  BY <1>1, SameTasks

LEMMA LaunchKeeps ==
  ASSUME PipelineTypeOK, NEW k \in DOMAIN tasks, LaunchWriter(k)
  PROVE  PlanKept
<1>1. UNCHANGED pipelineVars \/ RecordTaskBase(k, repo.head)
  BY DEF LaunchWriter
<1> QED  BY <1>1, SameTasks, TaskOpsKeep DEF pipelineVars

(* The steps of a handler on one task. *)
LEMMA TaskStepsKeep ==
  ASSUME IInv, \/ Complete \/ OwnReviewer \/ DecideReview \/ StopTask \/ DispatchWriter \/ OwnWriter
               \/ OwnReady \/ MergeConflict \/ Integrated \/ ReleaseWriter \/ ReleaseReviewer
  PROVE  PlanKept
<1>1. call.at \in TaskSteps
  BY DEF Complete, OwnReviewer, DecideReview, StopTask, DispatchWriter, OwnWriter, OwnReady,
         MergeConflict, Integrated, ReleaseWriter, ReleaseReviewer, At, TaskSteps
<1>2. PipelineTypeOK /\ call.key \in DOMAIN tasks
  BY <1>1, InvFacts DEF TaskSteps
<1>3. CASE DispatchWriter
  BY <1>2, <1>3, LaunchKeeps DEF DispatchWriter
<1>4. CASE DecideReview
  <2>1. UNCHANGED pipelineVars
        \/ \E run, verdict : RecordReview(call.key, run, verdict)
    BY <1>4 DEF DecideReview
  <2> QED  BY <1>2, <2>1, SameTasks, ReviewOpsKeep DEF pipelineVars
<1>5. CASE Integrated
  BY <1>2, <1>5, BatchOpsKeep DEF Integrated
<1>6. CASE \/ Complete \/ OwnReviewer \/ StopTask \/ OwnWriter \/ OwnReady \/ MergeConflict
           \/ ReleaseWriter \/ ReleaseReviewer
  <2>1. \/ \E run : RecordWriterCompletion(call.key, run) \/ StartReviewer(call.key, run)
        \/ \E run : StartTaskWork(call.key, run)
        \/ \E run : RetryWriter(call.key, run) \/ RetryReview(call.key, run)
        \/ BlockTask(call.key)
    BY <1>6 DEF Complete, OwnReviewer, StopTask, OwnWriter, OwnReady, MergeConflict, ReleaseWriter,
                ReleaseReviewer
  <2> QED  BY <1>2, <2>1, TaskOpsKeep
<1> QED  BY <1>3, <1>4, <1>5, <1>6

(* Those that pick a task of the listing. *)
LEMMA PickedKeep ==
  ASSUME IInv, DispatchReady \/ BeginIntegration
  PROVE  PlanKept
<1>1. PipelineTypeOK /\ TypeOK
  BY InvFacts
<1>2. CASE DispatchReady
  <2>1. PICK k \in FirstTask(Ready) : BlockTask(k) \/ LaunchWriter(k)
    BY <1>2 DEF DispatchReady
  <2>2. FirstTask(Ready) \subseteq Range(plan.Tasks)
    BY DEF FirstTask, Range
  <2>3. k \in DOMAIN tasks
    BY <1>1, <2>2, FoundPlanned
  <2> QED  BY <1>1, <2>1, <2>3, TaskOpsKeep, LaunchKeeps
<1>3. CASE BeginIntegration
  <2>1. PICK k \in FirstTask(Integrable) : UNCHANGED pipelineVars \/ StartIntegration(k)
    BY <1>3 DEF BeginIntegration
  <2>2. k \in DOMAIN tasks
    BY <1>1, ListedPlanned
  <2> QED  BY <1>1, <2>1, <2>2, SameTasks, TaskOpsKeep DEF pipelineVars
<1> QED  BY <1>2, <1>3

(* Every step of a handler. *)
LEMMA ContinueKeeps ==
  ASSUME IInv, Continue
  PROVE  PlanKept \/ PlanGrows
<1>1. CASE \/ Complete \/ OwnReviewer \/ DecideReview \/ StopTask \/ DispatchWriter \/ OwnWriter
           \/ OwnReady \/ MergeConflict \/ Integrated \/ ReleaseWriter \/ ReleaseReviewer
  BY <1>1, TaskStepsKeep
<1>2. CASE DispatchReady \/ BeginIntegration
  BY <1>2, PickedKeep
<1>3. CASE \/ SavePullRequest \/ BeginCI \/ SaveMerge \/ OwnHolistic \/ NewHolisticRound \/ StopJob
           \/ EscalateCI \/ RenewPlanning
  <2>1. \/ RecordPullRequest \/ RecordMerge \/ ResetHolisticRound \/ FailJob \/ RetryPlanning
        \/ \E sha : StartCI(sha)
        \/ \E run, sha : StartHolisticReviewer(run, sha)
        \/ \E print : BeginCIReplan(print)
    BY <1>3 DEF SavePullRequest, BeginCI, SaveMerge, OwnHolistic, NewHolisticRound, StopJob, EscalateCI,
                RenewPlanning
  <2> QED  BY <2>1, ScalarsKeep
<1>4. CASE Reopen
  <2>1. ReopenIncompleteTasks \/ StartReviewRemediation
    BY <1>4 DEF Reopen
  <2> QED  BY <2>1, InvFacts, ReloadKeeps DEF PlanGrows
<1>5. CASE RepairCI
  BY <1>5 DEF RepairCI, PlanGrows
<1>6. CASE \/ Mark \/ DispatchReviewer \/ NoneReady \/ IntegrationRefused \/ NoneIntegrable \/ MergeTask
           \/ PushBranch \/ CreatePR \/ DraftRefused \/ Publish \/ Promote \/ PassGate \/ GateRefused
           \/ AlreadyMerged \/ MergePR \/ DispatchHolistic \/ DispatchPlanner \/ NextReviewer
           \/ CancelRuns
  <2>1. UNCHANGED <<plan, tasks>>
    BY <1>6 DEF Mark, DispatchReviewer, NoneReady, IntegrationRefused, NoneIntegrable, MergeTask,
                PushBranch, CreatePR, DraftRefused, Publish, Promote, PassGate, GateRefused,
                AlreadyMerged, MergePR, DispatchHolistic, DispatchPlanner, NextReviewer, CancelRuns,
                pipelineVars
  <2> QED  BY <2>1, SameTasks
<1> QED  BY <1>1, <1>2, <1>3, <1>4, <1>5, <1>6 DEF Continue, HandlerStep

(* Every application of an answer. *)
LEMMA OutcomeKeeps ==
  ASSUME IInv, NEW run \in DOMAIN runs, ApplyOutcome(run)
  PROVE  PlanKept \/ PlanGrows
<1>1. PipelineTypeOK
  BY InvFacts
<1>2. CASE ApplySettled(run) \/ ApplyWriterCommit(run) \/ ApplyWriterHandoff(run)
  BY <1>2, SameTasks DEF ApplySettled, ApplyWriterCommit, ApplyWriterHandoff, pipelineVars
<1>3. CASE ApplyPlan(run)
  <2>1. PlanOf[runs[run]] \in Proposal
    BY <1>3, OrchestrationAssumption DEF ApplyPlan
  <2> QED  BY <1>3, <2>1 DEF ApplyPlan, PlanGrows
<1>4. CASE ApplyHolistic(run)
  BY <1>4, ScalarsKeep DEF ApplyHolistic
<1>5. CASE ApplyFailure(run) /\ run.Role \in {"planner", "holistic"}
  BY <1>5, ScalarsKeep DEF ApplyFailure
<1>6. CASE \/ ApplyFailure(run) /\ run.Role \notin {"planner", "holistic"}
           \/ ApplyWriterNoChanges(run) \/ ApplyWriterBlocked(run) \/ ApplyReview(run)
  <2>1. Applicable(run) /\ run.Role \notin {"planner", "holistic"}
    BY <1>6 DEF ApplyFailure, ApplyWriterNoChanges, ApplyWriterBlocked, ApplyReview, Working
  <2>2. run.Key \in DOMAIN tasks
    BY <2>1 DEF Applicable, Owns
  <2>3. \/ BlockTask(run.Key)
        \/ \E r : RecordNoChanges(run.Key, r)
        \/ \E r, verdict, same : RecordReviewReport(run.Key, r, verdict, same)
    BY <1>6 DEF ApplyFailure, ApplyWriterNoChanges, ApplyWriterBlocked, ApplyReview
  <2> QED  BY <1>1, <2>2, <2>3, TaskOpsKeep, BatchOpsKeep, ReviewOpsKeep
<1> QED  BY <1>2, <1>3, <1>4, <1>5, <1>6 DEF ApplyOutcome

(* Polls and tools. *)
LEMMA PollsKeep ==
  ASSUME Poll
  PROVE  PlanKept
<1>1. CASE ObserveForeignHead \/ ObserveChecks
  <2>1. FailJob \/ \E sha, state, print : RecordCI(sha, state, print)
    BY <1>1 DEF ObserveForeignHead, ObserveChecks
  <2> QED  BY <2>1, ScalarsKeep
<1>2. CASE ~(ObserveForeignHead \/ ObserveChecks)
  <2>1. UNCHANGED <<plan, tasks>>
    BY <1>2 DEF Poll, ReconcileTasks, ReconcileReplan, ReconcileHolistic, ReconcileCancelled,
                ResumePlanner, ObservePublication, ObserveStrandedRound, pipelineVars
  <2> QED  BY <2>1, SameTasks
<1> QED  BY <1>1, <1>2

LEMMA OperatorKeeps ==
  ASSUME PipelineTypeOK, Operator
  PROVE  PlanKept
<1>1. CASE \E k \in DOMAIN tasks : RetryCodeTask(k)
  <2>1. PICK k \in DOMAIN tasks : RetryCodeTask(k)
    BY <1>1
  <2>2. UNCHANGED pipelineVars \/ ResumeBlockedWriter(k) \/ ReopenNoChangesTask(k)
    BY <2>1 DEF RetryCodeTask
  <2> QED  BY <2>2, SameTasks, TaskOpsKeep DEF pipelineVars
<1>2. CASE RetryCodePlanning \/ PublishApproved
  BY <1>2, SameTasks DEF RetryCodePlanning, PublishApproved, pipelineVars
<1>3. CASE ResetHolisticReview \/ StartRereview \/ PauseJob \/ ResumeJob \/ CancelCodeJob
  <2>1. ResetHolisticRound \/ Pause \/ Resume \/ Cancel \/ \E sha : StartHolisticRereview(sha)
    BY <1>3 DEF ResetHolisticReview, StartRereview, PauseJob, ResumeJob, CancelCodeJob
  <2> QED  BY <2>1, ScalarsKeep
<1> QED  BY <1>1, <1>2, <1>3 DEF Operator

(* What a step does to the plan. *)
LEMMA PlanStep ==
  ASSUME IInv, [Next]_vars
  PROVE  PlanKept \/ PlanGrows
<1>1. PipelineTypeOK
  BY InvFacts
<1>2. CASE CreateAndPlan
  BY <1>2, ScalarsKeep DEF CreateAndPlan
<1>3. CASE \E run \in DOMAIN runs : ApplyOutcome(run)
  BY <1>3, OutcomeKeeps
<1>4. CASE Continue \/ Poll \/ Operator
  BY <1>1, <1>4, ContinueKeeps, PollsKeep, OperatorKeeps
<1>5. CASE Restart
  BY <1>1, <1>5, ReloadKeeps DEF Restart
<1>6. CASE \/ \E run \in DOMAIN runs : Answer(run)
           \/ ChecksFinish \/ ChecksRerun \/ ForeignPush \/ ForeignMerge \/ Abandon
           \/ UNCHANGED vars
  <2>1. UNCHANGED <<plan, tasks>>
    BY <1>6 DEF Answer, ChecksFinish, ChecksRerun, ForeignPush, ForeignMerge, Abandon, vars
  <2> QED  BY <2>1, SameTasks
<1> QED  BY <1>2, <1>3, <1>4, <1>5, <1>6 DEF Next

LEMMA InitPlanInv == Init => PlanInv
<1> SUFFICES ASSUME Init  PROVE PlanInv
  OBVIOUS
<1>1. plan = NoPlan /\ tasks = <<>>
  BY DEF Init, PipelineInit
<1>2. plan.Tasks = <<>> /\ plan.IntegrationOrder = <<>> /\ DOMAIN tasks = {}
  BY <1>1 DEF NoPlan
<1> QED  BY <1>2 DEF PlanInv, PlanWellFormed, RepairsCounted, IsInjective, Range

LEMMA NextPlanInv == IInv /\ PlanInv /\ [Next]_vars => PlanInv'
<1> SUFFICES ASSUME IInv, PlanInv, [Next]_vars  PROVE PlanInv'
  OBVIOUS
<1>1. PipelineTypeOK
  BY InvFacts
<1>2. CASE PlanKept
  BY <1>2, KeptStays
<1>3. CASE PlanGrows
  BY <1>1, <1>3, PipelineAssumption, SubmitKeeps, ReviseKeeps, RemediationKeeps DEF PlanGrows
<1> QED  BY <1>2, <1>3, PlanStep

(* The listing and the integration order of a job's plan list the same keys,*)
(* each once, and every dependency before its dependents, in every run:     *)
(* whatever a planner proposes, and whichever revisions and remediations    *)
(* follow each other (store.go 334-466, controller.go 646-662).             *)
THEOREM PlansWellFormed == Spec => []PlanWellFormed
<1>1. PlanInv => PlanWellFormed
  BY DEF PlanInv
<1> QED  BY <1>1, InitPlanInv, NextPlanInv, Invariance, PTL DEF Spec

-----------------------------------------------------------------------------
(* What is merged. *)

Integration == {"integrating", "integrated"}
Reviewed == {"approved", "integration_eligible"} \cup Integration

(* A run that has answered, and did not fail. *)
Given(r) == r \in DOMAIN runs /\ runs[r] \notin {"running", "failed"}

(* A task past its review has the approval, and its owners have answered.   *)
ApprovalBacked(k) ==
  /\ tasks[k].Status \in Reviewed =>
       /\ tasks[k].ReviewVerdict = "approved"
       /\ Given(RunOf("reviewer", k, tasks[k].ReviewerRunID))
  /\ tasks[k].Status \in Reviewed \cup {"reviewing"} =>
       Given(RunOf("writer", k, tasks[k].WriterRunID))

(* What a handler knows of its task at the steps that matter.               *)
HandlerKnows ==
  /\ At("complete") => /\ call.run = RunOf("writer", call.key, call.run.Attempt)
                       /\ Given(call.run)
  /\ At("verdict") => /\ call.run = RunOf("reviewer", call.key, call.run.Attempt)
                      /\ Given(call.run)
  /\ At("block") => tasks[call.key].ReviewVerdict # "approved"
  /\ call.at \in {"merge", "integrated"} => tasks[call.key].Status = "integrating"
  /\ At("integrated") => call.key \in repo.merged

MInv == /\ \A k \in DOMAIN tasks : ApprovalBacked(k)
        /\ HandlerKnows
        /\ MergedWereApproved

(* How the state t of a task may become u. *)
SameOwners(t, u) == /\ u.WriterRunID = t.WriterRunID /\ u.ReviewerRunID = t.ReviewerRunID
                    /\ u.ReviewVerdict = t.ReviewVerdict
Stands(t, u) == /\ SameOwners(t, u)
                /\ u.Status = t.Status \/ (t.Status = "approved" /\ u.Status = "integration_eligible")
Leaves(k, t, u) == /\ t.Status \notin Integration \/ k \notin repo.merged
                   /\ u.Status \notin Reviewed \cup {"reviewing"}
InReview(k, t, u) ==
  /\ u.Status = "reviewing" /\ u.WriterRunID = t.WriterRunID
  /\ t.Status = "reviewing" \/ (t.Status = "working" /\ Given(RunOf("writer", k, t.WriterRunID)))
Passes(k, t, u) ==
  /\ t.Status = "reviewing" /\ u.Status \in {"approved", "integration_eligible"}
  /\ u.ReviewVerdict = "approved" /\ u.WriterRunID = t.WriterRunID
  /\ Given(RunOf("reviewer", k, u.ReviewerRunID))
Integrates(k, t, u) ==
  /\ SameOwners(t, u)
  /\ \/ t.Status = "integration_eligible" /\ u.Status = "integrating"
     \/ t.Status = "integrating" /\ u.Status = "integrated" /\ k \in repo.merged
Moves(k, t, u) ==
  \/ Stands(t, u) \/ Leaves(k, t, u) \/ InReview(k, t, u) \/ Passes(k, t, u) \/ Integrates(k, t, u)

(* What a step does to the tasks, and to the answers.                       *)
TasksMove ==
  /\ DOMAIN tasks \subseteq DOMAIN tasks'
  /\ \A k \in DOMAIN tasks : Moves(k, tasks[k], tasks'[k])
  /\ \A k \in DOMAIN tasks' : k \notin DOMAIN tasks => tasks'[k].Status = "planned"
AnswersStay ==
  \A r \in DOMAIN runs : /\ r \in DOMAIN runs'
                         /\ runs[r] \notin {"running", "failed"} =>
                              runs'[r] \notin {"running", "failed"}

(* A step that obeys both keeps every approval backed, and what is merged   *)
(* approved.                                                                *)
LEMMA MovesKeep ==
  ASSUME MInv, TasksMove, AnswersStay, repo'.merged = repo.merged
  PROVE  (\A k \in DOMAIN tasks : ApprovalBacked(k))' /\ MergedWereApproved'
<1>1. ASSUME NEW k \in DOMAIN tasks  PROVE ApprovalBacked(k)'
  <2>1. ApprovalBacked(k) /\ Moves(k, tasks[k], tasks'[k])
    BY DEF MInv, TasksMove
  <2>2. \A r : r \in DOMAIN runs /\ runs[r] \notin {"running", "failed"} =>
               r \in DOMAIN runs' /\ runs'[r] \notin {"running", "failed"}
    BY DEF AnswersStay
  <2>3. CASE Stands(tasks[k], tasks'[k]) \/ Integrates(k, tasks[k], tasks'[k])
    BY <2>1, <2>2, <2>3 DEF Stands, Integrates, SameOwners, ApprovalBacked, Given, Reviewed, Integration
  <2>4. CASE Leaves(k, tasks[k], tasks'[k])
    BY <2>4 DEF Leaves, ApprovalBacked
  <2>5. CASE InReview(k, tasks[k], tasks'[k]) \/ Passes(k, tasks[k], tasks'[k])
    BY <2>1, <2>2, <2>5 DEF InReview, Passes, ApprovalBacked, Given, Reviewed, Integration
  <2> QED  BY <2>1, <2>3, <2>4, <2>5 DEF Moves
<1>2. ASSUME NEW k \in DOMAIN tasks', k \notin DOMAIN tasks  PROVE ApprovalBacked(k)'
  BY <1>2 DEF TasksMove, ApprovalBacked, Reviewed, Integration
<1>3. \A k \in DOMAIN tasks' : ApprovalBacked(k)'
  BY <1>1, <1>2
<1>4. ASSUME NEW k \in repo.merged
      PROVE  k \in DOMAIN tasks' /\ tasks'[k].Status \in Integration
  <2>1. k \in DOMAIN tasks /\ tasks[k].Status \in Integration
    BY DEF MInv, MergedWereApproved, Integration
  <2>2. k \in DOMAIN tasks' /\ Moves(k, tasks[k], tasks'[k])
    BY <2>1 DEF TasksMove
  <2> QED  BY <2>1, <2>2 DEF Moves, Stands, Leaves, InReview, Passes, Integrates, Integration
<1>5. \A k \in repo.merged : tasks'[k].ReviewVerdict = "approved"
  BY <1>3, <1>4 DEF ApprovalBacked, Reviewed
<1>6. ASSUME NEW k \in DOMAIN tasks', tasks'[k].Status = "integrated"  PROVE k \in repo.merged
  <2>1. k \in DOMAIN tasks /\ Moves(k, tasks[k], tasks'[k])
    BY <1>6 DEF TasksMove
  <2>2. tasks[k].Status = "integrated" => k \in repo.merged
    BY <2>1 DEF MInv, MergedWereApproved
  <2> QED
    BY <1>6, <2>1, <2>2 DEF Moves, Stands, Leaves, InReview, Passes, Integrates, Integration, Reviewed
<1> QED  BY <1>3, <1>4, <1>5, <1>6 DEF MergedWereApproved, Integration

(* One task changes. *)
LEMMA OneMoves ==
  ASSUME NEW k \in DOMAIN tasks, NEW t, tasks' = Update(k, t), Moves(k, tasks[k], t)
  PROVE  TasksMove
<1>1. /\ DOMAIN tasks' = DOMAIN tasks /\ tasks'[k] = t
      /\ \A j \in DOMAIN tasks : j # k => tasks'[j] = tasks[j]
  BY DEF Update
<1>2. \A j \in DOMAIN tasks : j # k => Moves(j, tasks[j], tasks'[j])
  BY <1>1 DEF Moves, Stands, SameOwners
<1> QED  BY <1>1, <1>2 DEF TasksMove

LEMMA NoneMoves ==
  ASSUME UNCHANGED tasks
  PROVE  TasksMove
BY DEF TasksMove, Moves, Stands, SameOwners

(* One task changes, and others become eligible. *)
LEMMA OneMovesSome ==
  ASSUME PipelineTypeOK, NEW k \in DOMAIN tasks, NEW t \in Task, Moves(k, tasks[k], t),
         t.Status # "approved", tasks' = RefreshEligibility(Update(k, t))
  PROVE  TasksMove
<1> DEFINE ts == Update(k, t)
<1>1. /\ DOMAIN ts = DOMAIN tasks /\ ts[k] = t
      /\ \A j \in DOMAIN tasks : j # k => ts[j] = tasks[j]
      /\ \A j \in DOMAIN tasks : tasks[j] \in Task
  BY DEF Update, PipelineTypeOK
<1> HIDE DEF ts
<1>2. DOMAIN tasks' = DOMAIN tasks /\ tasks'[k] = t
  BY <1>1 DEF RefreshEligibility, ts
<1>3. ASSUME NEW j \in DOMAIN tasks, j # k  PROVE Stands(tasks[j], tasks'[j])
  <2>1. \/ tasks'[j] = tasks[j]
        \/ /\ tasks[j].Status = "approved"
           /\ tasks'[j] = [tasks[j] EXCEPT !.Status = "integration_eligible"]
    BY <1>1, <1>3 DEF RefreshEligibility, ts
  <2> QED  BY <1>1, <2>1 DEF Stands, SameOwners, Task
<1> QED  BY <1>2, <1>3 DEF TasksMove, Moves

(* Transitions that send a task back, or leave its place in the review. *)
LEMMA BackMoves ==
  ASSUME PipelineTypeOK, NEW k \in DOMAIN tasks,
         \/ \E sha : RecordTaskBase(k, sha)
         \/ \E run : StartTaskWork(k, run) \/ StartReviewer(k, run)
         \/ \E run : RetryWriter(k, run) \/ RetryReview(k, run)
         \/ ResumeBlockedWriter(k) \/ ReopenNoChangesTask(k)
         \/ BlockTask(k) /\ (tasks[k].Status \notin Integration \/ k \notin repo.merged)
  PROVE  TasksMove
<1>1. tasks[k] \in Task
  BY DEF PipelineTypeOK
<1>2. CASE UNCHANGED tasks
  BY <1>2, NoneMoves
<1>3. ASSUME NEW t, tasks' = Update(k, t), Moves(k, tasks[k], t)
      PROVE  TasksMove
  BY <1>3, OneMoves
<1>4. CASE \E sha : RecordTaskBase(k, sha)
  BY <1>1, <1>3, <1>4 DEF RecordTaskBase, Update, Task, Moves, Stands, SameOwners
<1>5. CASE \E run : StartTaskWork(k, run)
  BY <1>1, <1>2, <1>3, <1>5 DEF StartTaskWork, pipelineVars, Task, Moves, Leaves, Reviewed, Integration
<1>6. CASE \E run : StartReviewer(k, run) \/ RetryReview(k, run)
  BY <1>1, <1>2, <1>3, <1>6 DEF StartReviewer, RetryReview, Task, Moves, InReview
<1>7. CASE \E run : RetryWriter(k, run)
  BY <1>1, <1>3, <1>7 DEF RetryWriter, Task, Moves, Leaves, Reviewed, Integration
<1>8. CASE BlockTask(k) /\ (tasks[k].Status \notin Integration \/ k \notin repo.merged)
  <2> DEFINE t == IF tasks[k].Status = "blocked" THEN tasks[k]
                  ELSE [tasks[k] EXCEPT !.Status = "blocked", !.BlockReason = NoPrint]
  <2>1. tasks' = Update(k, t)
    BY <1>8 DEF BlockTask
  <2>2. t.Status = "blocked"
    BY <1>1 DEF Task
  <2> HIDE DEF t
  <2> QED  BY <1>3, <1>8, <2>1, <2>2 DEF Moves, Leaves, Reviewed, Integration
<1>9. CASE ResumeBlockedWriter(k) \/ ReopenNoChangesTask(k)
  BY <1>1, <1>3, <1>9 DEF ResumeBlockedWriter, ReopenNoChangesTask, Reopened, Task, Moves, Leaves,
                          Reviewed, Integration
<1> QED  BY <1>4, <1>5, <1>6, <1>7, <1>8, <1>9

(* Transitions that take it on. *)
LEMMA OnMoves ==
  ASSUME PipelineTypeOK, NEW k \in DOMAIN tasks,
         \/ \E run : RecordWriterCompletion(k, run) /\ Given(RunOf("writer", k, run))
         \/ \E run : RecordNoChanges(k, run)
         \/ StartIntegration(k)
         \/ \E sha : RecordIntegration(k, sha) /\ k \in repo.merged
  PROVE  TasksMove
<1>1. tasks[k] \in Task
  BY DEF PipelineTypeOK
<1>2. CASE \E run : RecordWriterCompletion(k, run) /\ Given(RunOf("writer", k, run))
  <2> DEFINE t == [tasks[k] EXCEPT !.Status = "reviewing", !.ReviewVerdict = "pending"]
  <2>1. tasks' = Update(k, t) /\ tasks[k].Status = "working"
        /\ Given(RunOf("writer", k, tasks[k].WriterRunID))
    BY <1>2 DEF RecordWriterCompletion
  <2>2. t.Status = "reviewing" /\ t.WriterRunID = tasks[k].WriterRunID
    BY <1>1 DEF Task
  <2> HIDE DEF t
  <2> QED  BY <2>1, <2>2, OneMoves DEF Moves, InReview
<1>3. CASE \E run : RecordNoChanges(k, run)
  <2> DEFINE t == [tasks[k] EXCEPT !.Status = "no_changes"]
  <2>1. tasks' = RefreshEligibility(Update(k, t)) /\ tasks[k].Status = "working"
    BY <1>3 DEF RecordNoChanges
  <2>2. t \in Task /\ t.Status = "no_changes"
    BY <1>1 DEF Task, TaskStatus
  <2> HIDE DEF t
  <2> QED  BY <2>1, <2>2, OneMovesSome DEF Moves, Leaves, Reviewed, Integration
<1>4. CASE StartIntegration(k)
  <2> DEFINE t == [tasks[k] EXCEPT !.Status = "integrating"]
  <2>1. tasks' = Update(k, t) /\ tasks[k].Status = "integration_eligible"
    BY <1>1, <1>4 DEF StartIntegration, Update
  <2>2. t.Status = "integrating" /\ SameOwners(tasks[k], t)
    BY <1>1 DEF Task, SameOwners
  <2> HIDE DEF t
  <2> QED  BY <2>1, <2>2, OneMoves DEF Moves, Integrates
<1>5. CASE \E sha : RecordIntegration(k, sha) /\ k \in repo.merged
  <2> DEFINE t == [tasks[k] EXCEPT !.Status = "integrated"]
  <2>1. tasks' = RefreshEligibility(Update(k, t)) /\ tasks[k].Status = "integrating"
        /\ k \in repo.merged
    BY <1>1, <1>5 DEF RecordIntegration, Update
  <2>2. t \in Task /\ t.Status = "integrated" /\ SameOwners(tasks[k], t)
    BY <1>1 DEF Task, TaskStatus, SameOwners
  <2> HIDE DEF t
  <2> QED  BY <2>1, <2>2, OneMovesSome DEF Moves, Integrates
<1> QED  BY <1>2, <1>3, <1>4, <1>5

(* A report may change the owner of a review, nothing else that matters. *)
LEMMA ReportMoves ==
  ASSUME PipelineTypeOK, NEW k \in DOMAIN tasks, NEW run, NEW verdict, NEW same,
         RecordReviewReport(k, run, verdict, same)
  PROVE  TasksMove
<1> DEFINE t == Adopted(tasks[k], run)
           u == IF t.ReviewerRunID # run \/ t.Reported = run THEN t
                ELSE [t EXCEPT !.Reported = run,
                               !.Repeats = IF verdict # "changes_requested" THEN 0
                                           ELSE IF same THEN @ + 1 ELSE 1]
<1>1. tasks[k] \in Task
  BY DEF PipelineTypeOK
<1>2. /\ t.Status = tasks[k].Status /\ t.WriterRunID = tasks[k].WriterRunID
      /\ t.ReviewVerdict = tasks[k].ReviewVerdict
      /\ t.Status = "reviewing" \/ t.ReviewerRunID = tasks[k].ReviewerRunID
  BY <1>1 DEF Adopted, Task
<1>3. tasks' = Update(k, u)
  BY DEF RecordReviewReport
<1> HIDE DEF t
<1>4. /\ u.Status = t.Status /\ u.WriterRunID = t.WriterRunID
      /\ u.ReviewVerdict = t.ReviewVerdict /\ u.ReviewerRunID = t.ReviewerRunID
  OBVIOUS
<1> HIDE DEF u
<1>5. Moves(k, tasks[k], u)
  BY <1>2, <1>4 DEF Moves, InReview, Stands, SameOwners
<1> QED  BY <1>3, <1>5, OneMoves

(* A verdict moves the task as it says, the approving one for an answer     *)
(* that was given.                                                          *)
LEMMA VerdictMoves ==
  ASSUME PipelineTypeOK, NEW k \in DOMAIN tasks, NEW run, NEW verdict \in Verdict,
         RecordReview(k, run, verdict), Given(RunOf("reviewer", k, run)),
         verdict # "pending"
  PROVE  TasksMove /\ tasks'[k].ReviewVerdict = verdict
<1> DEFINE t == Adopted(tasks[k], run)
<1>1. tasks[k] \in Task
  BY DEF PipelineTypeOK
<1>2. CASE ReviewRecorded(tasks[k], run, verdict)
  BY <1>2, NoneMoves DEF RecordReview, pipelineVars, ReviewRecorded
<1>3. CASE ~ReviewRecorded(tasks[k], run, verdict)
  <2>1. t.Status = tasks[k].Status /\ t.WriterRunID = tasks[k].WriterRunID
    BY <1>1 DEF Adopted, Task
  <2>2. /\ t.Status = "reviewing"
        /\ \E a, s : /\ tasks' = Update(k, [t EXCEPT !.ReviewerAttempts = a, !.ReviewerRunID = run,
                                                  !.ReviewVerdict = verdict, !.Status = s])
                     /\ s \in {"changes_requested", "blocked"}
                        \/ (verdict = "approved" /\ s \in {"approved", "integration_eligible"})
    <3>1. verdict \in {"approved", "changes_requested", "blocked"}
      BY DEF Verdict
    <3>2. \/ verdict = "changes_requested" \/ verdict = "blocked"
          \/ verdict = "approved" /\ PrerequisitesMet(tasks, k)
          \/ verdict = "approved" /\ ~PrerequisitesMet(tasks, k)
      BY <3>1
    <3> QED  BY <1>3, <3>2 DEF RecordReview, t
  <2>3. /\ DOMAIN t = DOMAIN tasks[k]
        /\ {"ReviewerRunID", "ReviewVerdict", "Status", "WriterRunID", "ReviewerAttempts"}
             \subseteq DOMAIN tasks[k]
    BY <1>1 DEF Adopted, Task
  <2> HIDE DEF t
  <2>4. PICK a, s : /\ tasks' = Update(k, [t EXCEPT !.ReviewerAttempts = a, !.ReviewerRunID = run,
                                                   !.ReviewVerdict = verdict, !.Status = s])
                    /\ s \in {"changes_requested", "blocked"}
                       \/ (verdict = "approved" /\ s \in {"approved", "integration_eligible"})
    BY <2>2
  <2> DEFINE u == [t EXCEPT !.ReviewerAttempts = a, !.ReviewerRunID = run,
                            !.ReviewVerdict = verdict, !.Status = s]
  <2>5. /\ u.Status = s /\ u.ReviewVerdict = verdict /\ u.ReviewerRunID = run
        /\ u.WriterRunID = t.WriterRunID
    BY <2>3
  <2>6. tasks' = Update(k, u)
    BY <2>4
  <2> HIDE DEF u
  <2>7. Moves(k, tasks[k], u)
    BY <2>1, <2>2, <2>4, <2>5 DEF Moves, Passes, Leaves, Reviewed, Integration
  <2>8. tasks'[k] = u
    BY <2>6 DEF Update
  <2> QED  BY <2>5, <2>6, <2>7, <2>8, OneMoves
<1> QED  BY <1>2, <1>3

LEMMA ReloadMoves ==
  ASSUME PipelineTypeOK, ReopenIncompleteTasks \/ Reload
  PROVE  TasksMove
<1>1. \A k \in DOMAIN tasks : tasks[k] \in Task
  BY DEF PipelineTypeOK
<1>2. CASE Reload
  <2>1. ASSUME NEW k \in DOMAIN tasks  PROVE Stands(tasks[k], tasks'[k])
    BY <1>1, <1>2 DEF Reload, Stands, SameOwners, Task
  <2> QED  BY <1>2, <2>1 DEF Reload, TasksMove, Moves
<1>3. CASE ReopenIncompleteTasks
  <2>1. DOMAIN tasks' = DOMAIN tasks
    BY <1>3 DEF ReopenIncompleteTasks
  <2>2. ASSUME NEW k \in DOMAIN tasks, Incomplete(tasks[k])
        PROVE  Leaves(k, tasks[k], tasks'[k])
    <3>1. \/ tasks'[k] = Reopened(tasks[k])
          \/ tasks'[k] = [Reopened(tasks[k]) EXCEPT !.BlockReason = NoPrint]
      BY <1>3, <2>2 DEF ReopenIncompleteTasks
    <3>2. tasks'[k].Status = "planned"
      BY <1>1, <3>1 DEF Reopened, Task
    <3> QED  BY <2>2, <3>2 DEF Incomplete, Leaves, Reviewed, Integration
  <2>3. ASSUME NEW k \in DOMAIN tasks, ~Incomplete(tasks[k])
        PROVE  Stands(tasks[k], tasks'[k])
    <3>1. tasks'[k] = tasks[k]
      BY <1>3, <2>3 DEF ReopenIncompleteTasks
    <3> QED  BY <3>1 DEF Stands, SameOwners
  <2> QED  BY <2>1, <2>2, <2>3 DEF TasksMove, Moves
<1> QED  BY <1>2, <1>3

(* A plan that grows starts its new tasks and leaves the others. *)
Fresh(t) == /\ t.Status = "planned" /\ t.ReviewVerdict = "pending"
            /\ t.WriterRunID = 0 /\ t.ReviewerRunID = 0
            /\ t.WriterAttempts = 0 /\ t.ReviewerAttempts = 0
PlanAdds == /\ DOMAIN tasks \subseteq DOMAIN tasks'
            /\ \A k \in DOMAIN tasks : tasks'[k] = tasks[k]
            /\ \A k \in DOMAIN tasks' : k \notin DOMAIN tasks => Fresh(tasks'[k])

LEMMA Adds ==
  ASSUME NEW ts, \A k \in DOMAIN ts : Fresh(ts[k]),
         DOMAIN ts \cap DOMAIN tasks = {}, tasks' = Extend(ts)
  PROVE  PlanAdds
<1>1. /\ DOMAIN tasks' = DOMAIN tasks \cup DOMAIN ts
      /\ \A k \in DOMAIN tasks : tasks'[k] = tasks[k]
      /\ \A k \in DOMAIN ts : tasks'[k] = ts[k]
  BY DEF Extend
<1> QED  BY <1>1 DEF PlanAdds

LEMMA KeyedPlanned ==
  ASSUME NEW p, NEW round
  PROVE  \A k \in DOMAIN Keyed(p, round).Added : Fresh(Keyed(p, round).Added[k])
BY DEF Keyed, PlannedTask, Fresh

LEMMA GrowAdds ==
  ASSUME PipelineTypeOK, PlanInv, PlanGrows
  PROVE  PlanAdds
<1>1. plan.Tasks \in Seq(Key) /\ DOMAIN tasks = Range(plan.Tasks)
  BY DEF PipelineTypeOK
<1>2. CASE UNCHANGED pipelineVars
  BY <1>2 DEF pipelineVars, PlanAdds
<1>3. ASSUME NEW p \in Proposal, SubmitPlan(p), ~UNCHANGED pipelineVars
      PROVE  PlanAdds
  <2>1. tasks' = Keyed(p, 0).Added /\ plan = NoPlan
    BY <1>3 DEF SubmitPlan, HasPlan
  <2>2. DOMAIN tasks = {}
    BY <1>1, <2>1 DEF NoPlan, Range
  <2> QED  BY <2>1, <2>2, KeyedPlanned DEF PlanAdds
<1>4. ASSUME NEW p \in Proposal, RevisePlan(p), ~UNCHANGED pipelineVars
      PROVE  PlanAdds
  <2> DEFINE draft == Keyed(p, job.CIReplanRounds)
  <2>1. /\ tasks' = Extend(draft.Added) /\ IsInjective(plan.Tasks \o draft.Tasks)
        /\ draft.Tasks \in Seq(Key) /\ DOMAIN draft.Added = Range(draft.Tasks)
    BY <1>4, KeyedTyped, JobCounters, PipelineAssumption DEF RevisePlan, ValidPlan
  <2>2. \A k \in DOMAIN draft.Added : Fresh(draft.Added[k])
    BY KeyedPlanned
  <2> HIDE DEF draft
  <2>3. Range(draft.Tasks) \cap Range(plan.Tasks) = {}
    <3> DEFINE ours == plan.Tasks
               theirs == draft.Tasks
               n == Len(ours)
               both == ours \o theirs
    <3>0. ours \in Seq(Key) /\ theirs \in Seq(Key) /\ IsInjective(both)
      BY <1>1, <2>1
    <3> HIDE DEF ours, theirs
    <3>1. /\ n \in Nat /\ Len(theirs) \in Nat /\ DOMAIN ours = 1..n /\ DOMAIN theirs = 1..Len(theirs)
          /\ both \in Seq(Key) /\ Len(both) = n + Len(theirs)
          /\ \A i \in 1..(n + Len(theirs)) : both[i] = IF i <= n THEN ours[i] ELSE theirs[i - n]
      BY <3>0, ConcatProperties
    <3> HIDE DEF n, both
    <3>2. ASSUME NEW i \in DOMAIN ours, NEW j \in DOMAIN theirs
          PROVE  ours[i] # theirs[j]
      <4>1. /\ i \in 1..(n + Len(theirs)) /\ n + j \in 1..(n + Len(theirs)) /\ i # n + j
            /\ i <= n /\ ~(n + j <= n) /\ (n + j) - n = j
        BY <3>1
      <4>2. both[i] = ours[i] /\ both[n + j] = theirs[j]
        BY <3>1, <4>1
      <4>3. DOMAIN both = 1..(n + Len(theirs))
        BY <3>1
      <4> QED  BY <3>0, <4>1, <4>2, <4>3 DEF IsInjective
    <3>3. Range(theirs) \cap Range(ours) = {}
      BY <3>2 DEF Range
    <3> QED  BY <3>3 DEF ours, theirs
  <2> QED  BY <1>1, <2>1, <2>2, <2>3, Adds
<1>5. ASSUME StartReviewRemediation \/ \E print : StartCIRemediation(print), ~UNCHANGED pipelineVars
      PROVE  PlanAdds
  <2>1. CASE StartReviewRemediation
    <3> DEFINE k == RemediationKey("holistic", job.HolisticRounds)
               ts == [x \in {k} |-> PlannedTask("implementation", {}, 0, NoPrint)]
    <3>1. k \notin DOMAIN tasks /\ tasks' = Extend(ts)
      BY <1>5, <2>1 DEF StartReviewRemediation
    <3>2. DOMAIN ts = {k} /\ Fresh(ts[k])
      BY DEF PlannedTask, Fresh
    <3> HIDE DEF k, ts
    <3> QED  BY <3>1, <3>2, Adds
  <2>2. CASE \E print : StartCIRemediation(print)
    <3> PICK print : StartCIRemediation(print)
      BY <2>2
    <3> DEFINE k == RemediationKey("ci", Len(plan.Tasks) + 1)
               ts == [x \in {k} |-> PlannedTask("ci_remediation", {}, job.CI.HeadSHA, print)]
    <3>1. tasks' = Extend(ts)
      BY <1>5 DEF StartCIRemediation
    <3>2. DOMAIN ts = {k} /\ Fresh(ts[k])
      BY DEF PlannedTask, Fresh
    <3>3. Len(plan.Tasks) \in Nat /\ k.Origin = "ci" /\ k.Round = Len(plan.Tasks) + 1
      BY <1>1 DEF RemediationKey
    <3>4. k \notin DOMAIN tasks
      BY <3>3 DEF PlanInv, RepairsCounted
    <3> HIDE DEF k, ts
    <3> QED  BY <3>1, <3>2, <3>4, Adds
  <2> QED  BY <1>5, <2>1, <2>2
<1> QED  BY <1>2, <1>3, <1>4, <1>5 DEF PlanGrows

LEMMA GrowMoves ==
  ASSUME PipelineTypeOK, PlanInv, PlanGrows
  PROVE  TasksMove
BY GrowAdds DEF PlanAdds, Fresh, TasksMove, Moves, Stands, SameOwners

-----------------------------------------------------------------------------
(* What a step does to the answers: it launches, answers or marks a run.    *)
LEMMA MarkingStays ==
  ASSUME NEW run, runs' = Marked(run)
  PROVE  AnswersStay
BY DEF Marked, AnswersStay

LEMMA LaunchingStays ==
  ASSUME NEW run, Launch(run)
  PROVE  AnswersStay
BY DEF Launch, AnswersStay

LEMMA SameStays ==
  ASSUME UNCHANGED runs
  PROVE  AnswersStay
BY DEF AnswersStay

LEMMA ContinueAnswers ==
  ASSUME IInv, Continue
  PROVE  AnswersStay
<1>1. CASE Mark
  BY <1>1, MarkingStays DEF Mark
<1>2. CASE CancelRuns
  BY <1>2 DEF CancelRuns, AnswersStay
<1>3. CASE \/ DispatchReviewer \/ DispatchWriter \/ DispatchReady \/ DispatchHolistic \/ DispatchPlanner
  <2>1. UNCHANGED runs \/ \E run : Launch(run)
    BY <1>3 DEF DispatchReviewer, DispatchWriter, DispatchReady, DispatchHolistic, DispatchPlanner,
                LaunchWriter, envVars
  <2> QED  BY <2>1, SameStays, LaunchingStays
<1>4. CASE ~(Mark \/ CancelRuns \/ DispatchReviewer \/ DispatchWriter \/ DispatchReady
             \/ DispatchHolistic \/ DispatchPlanner)
  <2>1. UNCHANGED runs
    BY <1>4 DEF Continue, HandlerStep, Complete, OwnReviewer, DecideReview, StopTask, OwnWriter, OwnReady,
                NoneReady, BeginIntegration, IntegrationRefused, NoneIntegrable, MergeTask,
                MergeConflict, Integrated, PushBranch, CreatePR, SavePullRequest, BeginCI,
                DraftRefused, Publish, Promote, PassGate, GateRefused, AlreadyMerged, MergePR,
                SaveMerge, OwnHolistic, NewHolisticRound, Reopen, StopJob, RepairCI, EscalateCI,
                NextReviewer, ReleaseWriter, ReleaseReviewer, RenewPlanning, envVars
  <2> QED  BY <2>1, SameStays
<1> QED  BY <1>1, <1>2, <1>3, <1>4

LEMMA StepAnswers ==
  ASSUME IInv, [Next]_vars
  PROVE  AnswersStay
<1>1. CASE \E run \in DOMAIN runs : Answer(run)
  <2> PICK run \in DOMAIN runs : Answer(run)
    BY <1>1
  <2>1. runs[run] = "running" /\ \E a : runs' = [runs EXCEPT ![run] = a]
    BY DEF Answer
  <2> QED  BY <2>1 DEF AnswersStay
<1>2. CASE \E run \in DOMAIN runs : ApplyOutcome(run)
  <2> PICK run \in DOMAIN runs : ApplyOutcome(run)
    BY <1>2
  <2>1. runs' = Marked(run) \/ UNCHANGED runs
    BY DEF ApplyOutcome, ApplySettled, ApplyFailure, ApplyPlan, ApplyWriterCommit, ApplyWriterNoChanges,
           ApplyWriterBlocked, ApplyWriterHandoff, ApplyReview, ApplyHolistic, envVars
  <2> QED  BY <2>1, MarkingStays, SameStays
<1>3. CASE Continue
  BY <1>3, ContinueAnswers
<1>4. CASE Poll
  <2>1. UNCHANGED runs \/ \E run : Launch(run)
    BY <1>4 DEF Poll, ReconcileTasks, ReconcileReplan, ReconcileHolistic, ReconcileCancelled,
                ResumePlanner, ObservePublication, ObserveStrandedRound, ObserveForeignHead,
                ObserveChecks, envVars
  <2> QED  BY <2>1, SameStays, LaunchingStays
<1>5. CASE Operator
  <2>1. UNCHANGED runs \/ \E run \in DOMAIN runs : runs' = Marked(run)
    <3>1. CASE \E k \in DOMAIN tasks : RetryCodeTask(k)
      BY <3>1 DEF RetryCodeTask, Supersede
    <3>2. CASE RetryCodePlanning
      BY <3>2 DEF RetryCodePlanning, Supersede
    <3> QED  BY <1>5, <3>1, <3>2 DEF Operator, ResetHolisticReview, StartRereview, PublishApproved,
                PauseJob, ResumeJob, CancelCodeJob, envVars
  <2> QED  BY <2>1, MarkingStays, SameStays
<1>6. CASE \/ CreateAndPlan \/ ChecksFinish \/ ChecksRerun \/ ForeignPush \/ ForeignMerge \/ Abandon
           \/ Restart \/ UNCHANGED vars
  <2>1. UNCHANGED runs
    BY <1>6 DEF CreateAndPlan, ChecksFinish, ChecksRerun, ForeignPush, ForeignMerge, Abandon, Restart,
                vars, envVars
  <2> QED  BY <2>1, SameStays
<1> QED  BY <1>1, <1>2, <1>3, <1>4, <1>5, <1>6 DEF Next

(* Only a merge adds to what is merged. *)
LEMMA MergedStays ==
  ASSUME IInv, [Next]_vars, ~MergeTask
  PROVE  repo'.merged = repo.merged
<1>1. repo \in Repo
  BY InvFacts DEF EnvTypeOK
<1>2. CASE ForeignPush
  BY <1>1, <1>2 DEF ForeignPush, Repo
<1>3. CASE \E run \in DOMAIN runs : ApplyWriterCommit(run)
  BY <1>1, <1>3 DEF ApplyWriterCommit, Repo
<1>4. CASE UNCHANGED repo
  BY <1>4
<1>5. CASE Continue
  <2>1. UNCHANGED repo
    BY <1>5 DEF Continue, HandlerStep, Mark, Complete, DispatchReviewer, OwnReviewer, DecideReview,
      StopTask, DispatchWriter, OwnWriter, DispatchReady, OwnReady, NoneReady, BeginIntegration,
      IntegrationRefused, NoneIntegrable, MergeConflict, Integrated, PushBranch, CreatePR,
      SavePullRequest, BeginCI, DraftRefused, Publish, Promote, PassGate, GateRefused, AlreadyMerged,
      MergePR, SaveMerge, DispatchHolistic, OwnHolistic, NewHolisticRound, Reopen, StopJob, RepairCI,
      EscalateCI, DispatchPlanner, NextReviewer, ReleaseWriter, ReleaseReviewer, RenewPlanning,
      CancelRuns, LaunchWriter, envVars
  <2> QED  BY <2>1
<1>6. CASE \E run \in DOMAIN runs : Answer(run) \/ ApplyOutcome(run)
  BY <1>3, <1>4, <1>6 DEF Answer, ApplyOutcome, ApplySettled, ApplyFailure, ApplyPlan,
     ApplyWriterNoChanges, ApplyWriterBlocked, ApplyWriterHandoff, ApplyReview, ApplyHolistic, envVars
<1>7. CASE Poll \/ Operator
  BY <1>4, <1>7 DEF Poll, ReconcileTasks, ReconcileReplan, ReconcileHolistic, ReconcileCancelled,
     ResumePlanner, ObservePublication, ObserveStrandedRound, ObserveForeignHead, ObserveChecks,
     Operator, RetryCodeTask, RetryCodePlanning, ResetHolisticReview, StartRereview,
     PublishApproved, PauseJob, ResumeJob, CancelCodeJob, envVars
<1>8. CASE \/ CreateAndPlan \/ ChecksFinish \/ ChecksRerun \/ ForeignMerge \/ Abandon
           \/ Restart \/ UNCHANGED vars
  BY <1>4, <1>8 DEF CreateAndPlan, ChecksFinish, ChecksRerun, ForeignMerge, Abandon, Restart, vars,
     envVars
<1> QED  BY <1>2, <1>5, <1>6, <1>7, <1>8 DEF Next

-----------------------------------------------------------------------------
(* What a step does to the tasks. *)
(* A verdict under application is the answer of a reviewer.                  *)
LEMMA DecideMoves ==
  ASSUME IInv, MInv, DecideReview
  PROVE  /\ TasksMove
         /\ call.key \in DOMAIN tasks
         /\ tasks'[call.key].ReviewVerdict = VerdictOf(call.run)
<1>1. PipelineTypeOK /\ EnvTypeOK /\ call.at = "verdict"
      /\ RecordReview(call.key, call.run.Attempt, VerdictOf(call.run))
  BY InvFacts DEF DecideReview, At
<1>2. call.key \in DOMAIN tasks
  BY <1>1, InvFacts DEF TaskSteps
<1>3. call.run = RunOf("reviewer", call.key, call.run.Attempt) /\ Given(call.run)
  BY <1>1 DEF MInv, HandlerKnows, At
<1>4. VerdictOf(call.run) \in Verdict
  BY <1>1 DEF IInv, VerdictKnown, At
<1>5. VerdictOf(call.run) # "pending"
  <2>1. call.run.Role = "reviewer"
    BY <1>3 DEF RunOf
  <2>2. runs[call.run] \in {"running", "applied"} \cup ReviewerAnswers
    BY <1>1, <1>3, <2>1 DEF EnvTypeOK, Given, Answers
  <2> QED  BY <2>2, OrchestrationAssumption DEF VerdictOf
<1>6. Given(RunOf("reviewer", call.key, call.run.Attempt))
  BY <1>3
<1> QED  BY <1>1, <1>2, <1>4, <1>5, <1>6, VerdictMoves

LEMMA ContinueMoves ==
  ASSUME IInv, MInv, PlanInv, Continue
  PROVE  TasksMove
<1>0. PipelineTypeOK /\ TypeOK /\ EnvTypeOK
  BY InvFacts
<1>1. CASE \/ OwnReviewer \/ DispatchWriter \/ OwnWriter \/ OwnReady \/ ReleaseWriter \/ ReleaseReviewer
  <2>1. call.at \in TaskSteps
    BY <1>1 DEF OwnReviewer, DispatchWriter, OwnWriter, OwnReady, ReleaseWriter, ReleaseReviewer, At,
       TaskSteps
  <2>2. call.key \in DOMAIN tasks
    BY <2>1, InvFacts
  <2>3. \/ UNCHANGED tasks
        \/ \E sha : RecordTaskBase(call.key, sha)
        \/ \E run : StartTaskWork(call.key, run) \/ StartReviewer(call.key, run)
        \/ \E run : RetryWriter(call.key, run) \/ RetryReview(call.key, run)
    BY <1>1 DEF OwnReviewer, DispatchWriter, LaunchWriter, OwnWriter, OwnReady, ReleaseWriter,
       ReleaseReviewer, pipelineVars
  <2> QED  BY <1>0, <2>2, <2>3, BackMoves, NoneMoves
<1>2. CASE StopTask \/ MergeConflict
  <2>1. call.at \in {"block", "merge"} /\ BlockTask(call.key)
        /\ (At("block") \/ call.key \notin repo.merged)
    BY <1>2 DEF StopTask, MergeConflict, At
  <2>2. call.key \in DOMAIN tasks
    BY <2>1, InvFacts DEF TaskSteps
  <2>3. CASE StopTask
    <3>1. tasks[call.key].ReviewVerdict # "approved"
      BY <2>3 DEF StopTask, MInv, HandlerKnows
    <3>2. tasks[call.key].Status \notin Integration
      BY <2>2, <3>1 DEF MInv, ApprovalBacked, Reviewed
    <3> QED  BY <1>0, <2>1, <2>2, <3>2, BackMoves
  <2>4. CASE MergeConflict
    BY <1>0, <2>1, <2>2, <2>4, BackMoves DEF MergeConflict
  <2> QED  BY <1>2, <2>3, <2>4
<1>3. CASE DispatchReady
  <2>1. PICK k \in FirstTask(Ready) : BlockTask(k) \/ LaunchWriter(k)
    BY <1>3 DEF DispatchReady
  <2>2. FirstTask(Ready) \subseteq Range(plan.Tasks) \cap Ready
    BY DEF FirstTask, Range
  <2>3. k \in DOMAIN tasks /\ tasks[k].Status \notin Integration
    BY <1>0, <2>2, FoundPlanned DEF Ready, Integration
  <2> QED  BY <1>0, <2>1, <2>3, BackMoves, NoneMoves DEF LaunchWriter, pipelineVars
<1>4. CASE BeginIntegration
  <2>1. PICK k \in FirstTask(Integrable) : UNCHANGED pipelineVars \/ StartIntegration(k)
    BY <1>4 DEF BeginIntegration
  <2>2. k \in DOMAIN tasks
    BY <1>0, ListedPlanned
  <2> QED  BY <1>0, <2>1, <2>2, OnMoves, NoneMoves DEF pipelineVars
<1>5. CASE Complete
  <2>1. call.at = "complete" /\ RecordWriterCompletion(call.key, call.run.Attempt)
    BY <1>5 DEF Complete, At
  <2>2. call.key \in DOMAIN tasks
    BY <2>1, InvFacts DEF TaskSteps
  <2>3. Given(RunOf("writer", call.key, call.run.Attempt))
    BY <2>1 DEF MInv, HandlerKnows, At
  <2> QED  BY <1>0, <2>1, <2>2, <2>3, OnMoves
<1>6. CASE Integrated
  <2>1. call.at = "integrated" /\ RecordIntegration(call.key, repo.head)
    BY <1>6 DEF Integrated, At
  <2>2. call.key \in DOMAIN tasks
    BY <2>1, InvFacts DEF TaskSteps
  <2>3. call.key \in repo.merged
    BY <2>1 DEF MInv, HandlerKnows, At
  <2> QED  BY <1>0, <2>1, <2>2, <2>3, OnMoves
<1>7. CASE DecideReview
  BY <1>7, DecideMoves
<1>8. CASE Reopen
  <2>1. ReopenIncompleteTasks \/ StartReviewRemediation
    BY <1>8 DEF Reopen
  <2> QED  BY <1>0, <2>1, ReloadMoves, GrowMoves DEF PlanGrows
<1>9. CASE RepairCI
  BY <1>0, <1>9, GrowMoves DEF RepairCI, PlanGrows
<1>10. CASE \/ Mark \/ DispatchReviewer \/ NoneReady \/ IntegrationRefused \/ NoneIntegrable \/ MergeTask
            \/ PushBranch \/ CreatePR \/ DraftRefused \/ Publish \/ Promote \/ PassGate \/ GateRefused
            \/ AlreadyMerged \/ MergePR \/ DispatchHolistic \/ DispatchPlanner \/ NextReviewer
            \/ CancelRuns
  <2>1. UNCHANGED tasks
    BY <1>10 DEF Mark, DispatchReviewer, NoneReady, IntegrationRefused, NoneIntegrable, MergeTask,
                 PushBranch, CreatePR, DraftRefused, Publish, Promote, PassGate, GateRefused,
                 AlreadyMerged, MergePR, DispatchHolistic, DispatchPlanner, NextReviewer, CancelRuns,
                 pipelineVars
  <2> QED  BY <2>1, NoneMoves
<1>11. CASE \/ SavePullRequest \/ BeginCI \/ SaveMerge \/ OwnHolistic \/ NewHolisticRound \/ StopJob
            \/ EscalateCI \/ RenewPlanning
  <2>1. UNCHANGED tasks
    BY <1>11 DEF SavePullRequest, BeginCI, SaveMerge, OwnHolistic, NewHolisticRound, StopJob,
       EscalateCI, RenewPlanning, RecordPullRequest, StartCI, RecordMerge, StartHolisticReviewer,
       ResetHolisticRound, FailJob, BeginCIReplan, RetryPlanning
  <2> QED  BY <2>1, NoneMoves
<1> QED  BY <1>1, <1>2, <1>3, <1>4, <1>5, <1>6, <1>7, <1>8, <1>9, <1>10, <1>11 DEF Continue, HandlerStep

LEMMA OutcomeMoves ==
  ASSUME IInv, MInv, PlanInv, NEW run \in DOMAIN runs, ApplyOutcome(run)
  PROVE  TasksMove
<1>1. PipelineTypeOK /\ run \in Run
  BY InvFacts DEF EnvTypeOK
<1>2. CASE ApplySettled(run) \/ ApplyWriterCommit(run) \/ ApplyWriterHandoff(run)
  BY <1>2, NoneMoves DEF ApplySettled, ApplyWriterCommit, ApplyWriterHandoff, pipelineVars
<1>3. CASE ApplyPlan(run)
  <2>1. PlanOf[runs[run]] \in Proposal
    BY <1>3, OrchestrationAssumption DEF ApplyPlan
  <2> QED  BY <1>1, <1>3, <2>1, GrowMoves DEF ApplyPlan, PlanGrows
<1>4. CASE ApplyHolistic(run) \/ (ApplyFailure(run) /\ run.Role \in {"planner", "holistic"})
  BY <1>4, NoneMoves DEF ApplyHolistic, RecordHolisticReview, ApplyFailure, FailJob, pipelineVars
<1>5. CASE ApplyFailure(run) /\ run.Role \notin {"planner", "holistic"}
  <2>1. /\ BlockTask(run.Key) /\ runs[run] = "failed" /\ run.Key \in DOMAIN tasks
        /\ \/ run.Role = "writer" /\ tasks[run.Key].WriterRunID = run.Attempt
           \/ run.Role = "reviewer" /\ tasks[run.Key].ReviewerRunID = run.Attempt
    BY <1>1, <1>5 DEF ApplyFailure, Applicable, Owns, Run, Roles
  <2>2. run = RunOf(run.Role, run.Key, run.Attempt)
    BY <1>1 DEF Run, RunOf
  <2>3. tasks[run.Key].Status \notin Integration
    BY <2>1, <2>2 DEF MInv, ApprovalBacked, Given, Reviewed
  <2> QED  BY <1>1, <2>1, <2>3, BackMoves
<1>6. CASE ApplyWriterNoChanges(run)
  BY <1>1, <1>6, OnMoves DEF ApplyWriterNoChanges, Working, Applicable, Owns
<1>7. CASE ApplyWriterBlocked(run)
  <2>1. /\ BlockTask(run.Key) /\ run.Key \in DOMAIN tasks /\ tasks[run.Key].Status \notin Integration
    BY <1>7 DEF ApplyWriterBlocked, Working, Applicable, Owns, Integration
  <2> QED  BY <1>1, <2>1, BackMoves
<1>8. CASE ApplyReview(run)
  <2>1. run.Key \in DOMAIN tasks
    BY <1>8 DEF ApplyReview, Applicable, Owns
  <2> QED  BY <1>1, <1>8, <2>1, ReportMoves DEF ApplyReview
<1> QED  BY <1>2, <1>3, <1>4, <1>5, <1>6, <1>7, <1>8 DEF ApplyOutcome

LEMMA StepMoves ==
  ASSUME IInv, MInv, PlanInv, [Next]_vars
  PROVE  TasksMove
<1>1. PipelineTypeOK
  BY InvFacts
<1>2. CASE \E run \in DOMAIN runs : ApplyOutcome(run)
  BY <1>2, OutcomeMoves
<1>3. CASE Continue
  BY <1>3, ContinueMoves
<1>4. CASE \E k \in DOMAIN tasks : RetryCodeTask(k)
  <2>1. PICK k \in DOMAIN tasks : RetryCodeTask(k)
    BY <1>4
  <2>2. UNCHANGED pipelineVars \/ ResumeBlockedWriter(k) \/ ReopenNoChangesTask(k)
    BY <2>1 DEF RetryCodeTask
  <2> QED  BY <1>1, <2>2, BackMoves, NoneMoves DEF pipelineVars
<1>5. CASE Operator /\ ~\E k \in DOMAIN tasks : RetryCodeTask(k)
  BY <1>5, NoneMoves DEF Operator, RetryCodePlanning, PublishApproved, ResetHolisticReview, StartRereview,
     PauseJob, ResumeJob, CancelCodeJob, ResetHolisticRound, StartHolisticRereview, Pause, Resume,
     Cancel, pipelineVars
<1>6. CASE Poll
  BY <1>6, NoneMoves DEF Poll, ReconcileTasks, ReconcileReplan, ReconcileHolistic, ReconcileCancelled,
     ResumePlanner, ObservePublication, ObserveStrandedRound, ObserveForeignHead, ObserveChecks,
     FailJob, RecordCI, pipelineVars
<1>7. CASE Restart
  BY <1>1, <1>7, ReloadMoves DEF Restart
<1>8. CASE \/ CreateAndPlan \/ \E run \in DOMAIN runs : Answer(run)
           \/ ChecksFinish \/ ChecksRerun \/ ForeignPush \/ ForeignMerge \/ Abandon
           \/ UNCHANGED vars
  BY <1>8, NoneMoves DEF CreateAndPlan, StartPlanning, Answer, ChecksFinish, ChecksRerun, ForeignPush,
     ForeignMerge, Abandon, vars
<1> QED  BY <1>2, <1>3, <1>4, <1>5, <1>6, <1>7, <1>8 DEF Next

-----------------------------------------------------------------------------
(* What a handler knows: the steps that take one to where it matters.       *)

Knowing == {"complete", "verdict", "block", "merge", "integrated"}

LEMMA CallAt ==
  ASSUME call \in Call, NEW step, NEW key, NEW run, NEW then
  PROVE  /\ Go(step) => call'.at = step /\ call'.key = call.key /\ call'.run = call.run
         /\ GoThen(step, then) => call'.at = step
         /\ With(step, key) => call'.at = step /\ call'.key = key
         /\ Enter(step, key, run, then) => call'.at = step /\ call'.key = key /\ call'.run = run
         /\ Return \/ Error => call'.at \in {"idle", "mark"}
<1>1. Go(step) => call'.at = step /\ call'.key = call.key /\ call'.run = call.run
  BY DEF Go, Call
<1>2. GoThen(step, then) => call'.at = step
  BY DEF GoThen, Call
<1>3. With(step, key) => call'.at = step /\ call'.key = key
  BY DEF With, Call
<1>4. Enter(step, key, run, then) => call'.at = step /\ call'.key = key /\ call'.run = run
  BY DEF Enter
<1>5. Return \/ Error => call'.at \in {"idle", "mark"}
  BY DEF Return, Error, Idle, Call
<1> QED  BY <1>1, <1>2, <1>3, <1>4, <1>5

(* Steps of a handler that take it elsewhere. *)
LEMMA ContinueAt ==
  ASSUME IInv, Continue, ~DecideReview, ~BeginIntegration, ~MergeTask
  PROVE  call'.at \notin Knowing
<1>1. call \in Call
  BY InvFacts
<1>2. ASSUME \E step \in Steps \ Knowing : Go(step)
      PROVE  call'.at \notin Knowing
  BY <1>1, <1>2, CallAt
<1>3. ASSUME Return \/ Error
      PROVE  call'.at \notin Knowing
  BY <1>1, <1>3, CallAt DEF Knowing
<1>4. Steps \ Knowing = {"idle", "mark", "reviewers", "reviewer", "ownReviewer", "writer", "ownWriter",
        "ready", "ownReady", "integrate", "draft", "createPR", "recordPR", "draftCheck", "publish",
        "gate", "mergePR", "recordMerge", "holistic", "ownHolistic", "resetRound", "repair",
        "revision", "planner", "reopen", "fail", "retryWriter", "retryReview", "retryPlanning",
        "cancelRuns"}
  BY DEF Steps, Knowing
<1>5. CASE \/ Mark \/ OwnReviewer \/ StopTask \/ OwnWriter \/ NoneReady \/ IntegrationRefused
           \/ MergeConflict \/ BeginCI \/ DraftRefused \/ PassGate \/ GateRefused \/ MergePR
           \/ SaveMerge \/ OwnHolistic \/ StopJob \/ EscalateCI \/ DispatchPlanner \/ CancelRuns
  <2>1. Return \/ Error \/ \E step \in Steps \ Knowing : Go(step)
    BY <1>4, <1>5 DEF Mark, OwnReviewer, StopTask, OwnWriter, NoneReady, IntegrationRefused, MergeConflict,
       BeginCI, DraftRefused, PassGate, GateRefused, MergePR, SaveMerge, OwnHolistic, StopJob,
       EscalateCI, DispatchPlanner, CancelRuns
  <2> QED  BY <1>2, <1>3, <2>1
<1>6. CASE \/ Complete \/ DispatchReviewer \/ DispatchWriter \/ OwnReady \/ NoneIntegrable
           \/ Integrated \/ PushBranch \/ CreatePR \/ SavePullRequest \/ Publish \/ AlreadyMerged
           \/ DispatchHolistic \/ NewHolisticRound \/ RepairCI \/ ReleaseWriter \/ ReleaseReviewer
           \/ RenewPlanning
  <2>1. \E step \in Steps \ Knowing : Go(step)
    BY <1>4, <1>6 DEF Complete, DispatchReviewer, DispatchWriter, OwnReady, NoneIntegrable, Integrated,
       PushBranch, CreatePR, SavePullRequest, Publish, AlreadyMerged, DispatchHolistic,
       NewHolisticRound, RepairCI, ReleaseWriter, ReleaseReviewer, RenewPlanning
  <2> QED  BY <1>2, <2>1
<1>7. CASE Reopen
  BY <1>1, <1>7 DEF Reopen, GoThen, Call, Knowing
<1>8. CASE NextReviewer
  <2>1. GoThen("integrate", "draft") \/ \E k : With("reviewer", k)
    BY <1>8 DEF NextReviewer
  <2> QED  BY <1>1, <2>1 DEF GoThen, With, Call, Knowing
<1>9. CASE DispatchReady
  <2>1. (UNCHANGED call /\ call.at = "ready") \/ \E k : With("ownReady", k)
    BY <1>9 DEF DispatchReady, At
  <2> QED  BY <1>1, <2>1 DEF With, Call, Knowing
<1>10. CASE Promote
  BY <1>10 DEF Promote, At, Knowing
<1> QED  BY <1>5, <1>6, <1>7, <1>8, <1>9, <1>10 DEF Continue, HandlerStep

(* Of the answers, a commit and a review take a handler to where it matters,*)
(* and so does no poll and no tool.                                         *)
LEMMA StartsAt ==
  ASSUME IInv, \/ \E run \in DOMAIN runs :
                    ApplyOutcome(run) /\ ~ApplyWriterCommit(run) /\ ~ApplyReview(run)
               \/ (Poll /\ ~ResumePlanner) \/ Operator
  PROVE  call'.at \notin Knowing
<1>1. ASSUME \E step \in Steps \ Knowing : \E key, run, then : Enter(step, key, run, then)
      PROVE  call'.at \notin Knowing
  BY <1>1 DEF Enter
<1>2. ASSUME call = Idle, UNCHANGED call \/ call' = Idle
      PROVE  call'.at \notin Knowing
  BY <1>2 DEF Idle, Knowing
<1>3. Steps \ Knowing = {"idle", "mark", "reviewers", "reviewer", "ownReviewer", "writer", "ownWriter",
        "ready", "ownReady", "integrate", "draft", "createPR", "recordPR", "draftCheck", "publish",
        "gate", "mergePR", "recordMerge", "holistic", "ownHolistic", "resetRound", "repair",
        "revision", "planner", "reopen", "fail", "retryWriter", "retryReview", "retryPlanning",
        "cancelRuns"}
  BY DEF Steps, Knowing
<1>4. CASE \E run \in DOMAIN runs : ApplyOutcome(run) /\ ~ApplyWriterCommit(run) /\ ~ApplyReview(run)
  <2> PICK run \in DOMAIN runs : ApplyOutcome(run) /\ ~ApplyWriterCommit(run) /\ ~ApplyReview(run)
    BY <1>4
  <2>1. CASE ApplySettled(run)
    BY <1>2, <2>1 DEF ApplySettled
  <2>2. CASE ApplyHolistic(run)
    <3>1. \E step \in {"publish", "reopen", "fail"} : Enter(step, JobKey, run, "publish")
      <4>1. \/ runs[run] = "approved"
            \/ runs[run] # "approved" /\ runs[run] = "changes_requested"
               /\ job.HolisticRounds <= MaxHolisticRemediationRounds
            \/ runs[run] # "approved" /\ ~(runs[run] = "changes_requested"
               /\ job.HolisticRounds <= MaxHolisticRemediationRounds)
        OBVIOUS
      <4> QED  BY <2>2, <4>1 DEF ApplyHolistic
    <3> QED  BY <1>1, <1>3, <3>1
  <2>3. CASE \/ ApplyFailure(run) \/ ApplyPlan(run) \/ ApplyWriterNoChanges(run) \/ ApplyWriterBlocked(run)
             \/ ApplyWriterHandoff(run)
    <3>1. \E step \in {"mark", "ready", "integrate", "reviewer"} : \E key, then : Enter(step, key, run, then)
      BY <2>3 DEF ApplyFailure, ApplyPlan, ApplyWriterNoChanges, ApplyWriterBlocked, ApplyWriterHandoff
    <3> QED  BY <1>1, <1>3, <3>1
  <2> QED  BY <2>1, <2>2, <2>3 DEF ApplyOutcome
<1>5. CASE Poll /\ ~ResumePlanner
  <2>1. CASE ObserveChecks
    <3>1. \/ \E step \in {"resetRound", "repair"} : Enter(step, JobKey, NoRun, "return")
          \/ call = Idle /\ UNCHANGED call
      <4>1. PICK state : CASE state = "passed" -> Enter("resetRound", JobKey, NoRun, "return")
                           [] state = "failed" -> Enter("repair", JobKey, NoRun, "return")
                           [] OTHER -> call = Idle /\ UNCHANGED call
        BY <2>1 DEF ObserveChecks
      <4> QED  BY <4>1
    <3> QED  BY <1>1, <1>2, <1>3, <3>1
  <2>2. CASE ObserveForeignHead
    BY <1>2, <2>2 DEF ObserveForeignHead
  <2>3. CASE ReconcileHolistic
    <3>1. Enter("holistic", JobKey, NoRun, "draft") \/ Enter("draft", JobKey, NoRun, "draft")
      BY <2>3 DEF ReconcileHolistic
    <3> QED  BY <1>1, <1>3, <3>1
  <2>4. CASE \/ ReconcileTasks \/ ReconcileReplan \/ ReconcileCancelled \/ ObservePublication
             \/ ObserveStrandedRound
    <3>1. \E step \in {"reviewers", "revision", "cancelRuns", "publish", "holistic"} : \E then :
            Enter(step, JobKey, NoRun, then)
      BY <2>4 DEF ReconcileTasks, ReconcileReplan, ReconcileCancelled, ObservePublication,
         ObserveStrandedRound
    <3> QED  BY <1>1, <1>3, <3>1
  <2> QED  BY <1>5, <2>1, <2>2, <2>3, <2>4 DEF Poll
<1>6. CASE Operator
  <2>1. CASE PauseJob \/ ResumeJob
    BY <1>2, <2>1 DEF PauseJob, ResumeJob
  <2>2. CASE \E k \in DOMAIN tasks : RetryCodeTask(k)
    <3>1. \E step \in {"retryReview", "retryWriter", "writer"} : \E key : Operate(step, key, "return")
      BY <2>2 DEF RetryCodeTask
    <3> QED  BY <1>1, <1>3, <3>1 DEF Operate
  <2>3. CASE RetryCodePlanning \/ ResetHolisticReview \/ StartRereview \/ PublishApproved \/ CancelCodeJob
    <3>1. \E step \in {"retryPlanning", "holistic", "publish", "cancelRuns"} : \E then :
            Operate(step, JobKey, then)
      BY <2>3 DEF RetryCodePlanning, ResetHolisticReview, StartRereview, PublishApproved, CancelCodeJob
    <3> QED  BY <1>1, <1>3, <3>1 DEF Operate
  <2> QED  BY <1>6, <2>1, <2>2, <2>3 DEF Operator
<1> QED  BY <1>4, <1>5, <1>6

(* Where a handler's knowledge comes from. *)
LEMMA KnowledgeStays ==
  ASSUME IInv, MInv, PlanInv, [Next]_vars, AnswersStay
  PROVE  HandlerKnows'
<1>0. call \in Call /\ TypeOK /\ PipelineTypeOK /\ EnvTypeOK
  BY InvFacts
<1>1. CASE call'.at \notin Knowing
  BY <1>1 DEF Knowing, HandlerKnows, At
<1>2. ASSUME UNCHANGED <<call, tasks>>, repo'.merged = repo.merged
      PROVE  HandlerKnows'
  BY <1>2 DEF MInv, HandlerKnows, At, AnswersStay, Given
<1>3. CASE \/ CreateAndPlan \/ ResumePlanner \/ \E run \in DOMAIN runs : Answer(run)
           \/ ChecksFinish \/ ChecksRerun \/ ForeignPush \/ ForeignMerge \/ UNCHANGED vars
  <2>1. ~MergeTask => repo'.merged = repo.merged
    BY MergedStays
  <2>2. UNCHANGED <<call, tasks>>
    BY <1>3 DEF CreateAndPlan, StartPlanning, ResumePlanner, Answer, ChecksFinish, ChecksRerun,
       ForeignPush, ForeignMerge, vars, pipelineVars
  <2>3. ~MergeTask
    <3>1. MergeTask => call'.at # call.at
      BY <1>0, CallAt DEF MergeTask, At
    <3> QED  BY <2>2, <3>1
  <2> QED  BY <1>2, <2>1, <2>2, <2>3
<1>4. CASE Abandon \/ Restart
  BY <1>1, <1>4 DEF Abandon, Restart, Error, Idle, Knowing
<1>5. ASSUME NEW run \in DOMAIN runs, ApplyWriterCommit(run) \/ ApplyReview(run)
      PROVE  HandlerKnows'
  <2>1. run \in Run /\ UNCHANGED runs /\ Given(run)
    BY <1>0, <1>5 DEF EnvTypeOK, ApplyWriterCommit, ApplyReview, Working, Applicable, Answered, Commits,
       Given, envVars
  <2>2. run = RunOf(run.Role, run.Key, run.Attempt)
    BY <2>1 DEF Run, RunOf
  <2>3. \/ run.Role = "writer" /\ Enter("complete", run.Key, run, "return")
        \/ run.Role = "reviewer" /\ Enter("verdict", run.Key, run, "return")
    BY <1>5 DEF ApplyWriterCommit, ApplyReview, Working
  <2>4. /\ call'.key = run.Key /\ call'.run = run
        /\ \/ run.Role = "writer" /\ call'.at = "complete"
           \/ run.Role = "reviewer" /\ call'.at = "verdict"
    BY <2>3 DEF Enter
  <2> QED  BY <2>1, <2>2, <2>4 DEF HandlerKnows, At, Given
<1>6. CASE DecideReview
  <2>1. /\ call.key \in DOMAIN tasks
        /\ tasks'[call.key].ReviewVerdict = VerdictOf(call.run)
    BY <1>6, DecideMoves
  <2>2. \/ GoThen("integrate", "draft") \/ Go("writer")
        \/ VerdictOf(call.run) # "approved" /\ Go("block")
    BY <1>6 DEF DecideReview
  <2>3. \/ call'.at \in {"integrate", "writer"}
        \/ VerdictOf(call.run) # "approved" /\ call'.at = "block" /\ call'.key = call.key
    BY <1>0, <2>2 DEF GoThen, Go, Call
  <2> QED  BY <2>1, <2>3 DEF HandlerKnows, At
<1>7. CASE BeginIntegration
  <2>1. PICK k \in FirstTask(Integrable) :
          /\ IF tasks[k].Status = "integrating" THEN UNCHANGED pipelineVars ELSE StartIntegration(k)
          /\ With("merge", k)
    BY <1>7 DEF BeginIntegration
  <2>2. k \in DOMAIN tasks
    BY <1>0, ListedPlanned
  <2>3. tasks[k] \in Task
    BY <1>0, <2>2 DEF PipelineTypeOK
  <2>4. tasks'[k].Status = "integrating"
    BY <2>1, <2>2, <2>3 DEF StartIntegration, pipelineVars, Task
  <2>5. call'.at = "merge" /\ call'.key = k
    BY <1>0, <2>1 DEF With, Call
  <2> QED  BY <2>4, <2>5 DEF HandlerKnows, At
<1>8. CASE MergeTask
  <2>1. /\ call.at = "merge" /\ Go("integrated") /\ UNCHANGED tasks
        /\ repo' = IF call.key \in repo.merged THEN repo
                   ELSE [repo EXCEPT !.head = repo.last + 1, !.last = @ + 1,
                                     !.merged = @ \cup {call.key}]
    BY <1>8 DEF MergeTask, At, pipelineVars
  <2>2. repo \in Repo
    BY <1>0 DEF EnvTypeOK
  <2>3. call.key \in repo'.merged
    BY <2>1, <2>2 DEF Repo
  <2>4. call'.at = "integrated" /\ call'.key = call.key
    BY <1>0, <2>1 DEF Go, Call
  <2>5. tasks[call.key].Status = "integrating"
    BY <2>1 DEF MInv, HandlerKnows
  <2> QED  BY <2>1, <2>3, <2>4, <2>5 DEF HandlerKnows, At
<1>9. CASE \/ Continue /\ ~DecideReview /\ ~BeginIntegration /\ ~MergeTask
           \/ \E run \in DOMAIN runs : ApplyOutcome(run) /\ ~ApplyWriterCommit(run) /\ ~ApplyReview(run)
           \/ (Poll /\ ~ResumePlanner) \/ Operator
  BY <1>1, <1>9, ContinueAt, StartsAt
<1> QED  BY <1>3, <1>4, <1>5, <1>6, <1>7, <1>8, <1>9 DEF Next

LEMMA InitMInv == Init => MInv
<1> SUFFICES ASSUME Init  PROVE MInv
  OBVIOUS
<1>1. DOMAIN tasks = {} /\ call = Idle /\ repo.merged = {}
  <2>1. tasks = <<>>
    BY DEF Init, PipelineInit
  <2> QED  BY <2>1 DEF Init
<1>2. call.at = "idle"
  BY <1>1 DEF Idle
<1> QED  BY <1>1, <1>2 DEF MInv, HandlerKnows, MergedWereApproved, At

LEMMA NextMInv == IInv /\ PlanInv /\ MInv /\ [Next]_vars => MInv'
<1> SUFFICES ASSUME IInv, PlanInv, MInv, [Next]_vars  PROVE MInv'
  OBVIOUS
<1>1. TasksMove /\ AnswersStay /\ HandlerKnows'
  BY StepMoves, StepAnswers, KnowledgeStays
<1>2. CASE ~MergeTask
  BY <1>1, <1>2, MergedStays, MovesKeep DEF MInv
<1>3. CASE MergeTask
  <2>1. UNCHANGED <<tasks, runs>> /\ call.at = "merge"
    BY <1>3 DEF MergeTask, At, pipelineVars
  <2>2. call.key \in DOMAIN tasks /\ tasks[call.key].Status = "integrating"
    BY <2>1, InvFacts DEF TaskSteps, MInv, HandlerKnows
  <2>3. repo'.merged = repo.merged \cup {call.key}
    <3>1. repo \in Repo
      BY InvFacts DEF EnvTypeOK
    <3> QED  BY <1>3, <3>1 DEF MergeTask, Repo
  <2>4. tasks[call.key].ReviewVerdict = "approved"
    BY <2>2 DEF MInv, ApprovalBacked, Reviewed, Integration
  <2>5. MergedWereApproved'
    BY <2>1, <2>2, <2>3, <2>4 DEF MInv, MergedWereApproved
  <2>6. (\A k \in DOMAIN tasks : ApprovalBacked(k))'
    BY <2>1 DEF MInv, ApprovalBacked, Given
  <2> QED  BY <1>1, <2>5, <2>6 DEF MInv
<1> QED  BY <1>2, <1>3

(* In every run, whatever agents answer, fails or is retried, every branch  *)
(* merged into the integration branch belongs to a task that is integrating *)
(* or integrated with an approving review, and the branch of every          *)
(* integrated task is merged (server.go 812-869, outcome.go 263-325).       *)
THEOREM NothingUnreviewed == Spec => []MergedWereApproved
<1>1. MInv => MergedWereApproved
  BY DEF MInv
<1> QED  BY <1>1, InitPlanInv, NextPlanInv, InitMInv, NextMInv, Invariance, PTL DEF Spec

=============================================================================
