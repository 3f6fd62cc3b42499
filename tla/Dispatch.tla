------------------------------ MODULE Dispatch ------------------------------
(***************************************************************************)
(* One dispatch (one task ID) of internal/dispatcher over its record in    *)
(* internal/dispatchstore.  Orchestration launches, answers and marks a    *)
(* dispatch in single steps; here each of them is the sequence of store    *)
(* and HTTP calls the code makes.                                          *)
(*                                                                         *)
(* Four threads meet at the record: a caller of start, an operator's tool, *)
(* the 30 second poll and the watcher.  A thread works on a copy of the    *)
(* record it once read.  start and the relaunch of Reconcile exclude each  *)
(* other with startLocks, applications with applyLocks; CancelJob,         *)
(* Supersede, ArchiveJob and the watcher's Save take neither.              *)
(*                                                                         *)
(* The other dispatches of the job are only the time that passes between   *)
(* the steps of a loop.  A job is active, paused or cancelled; the other   *)
(* ended states are refused and archived as the cancelled one is.          *)
(***************************************************************************)
EXTENDS Integers, Sequences

CONSTANTS Endings,    \* how an agent ends by itself: terminal statuses
          MaxAgents,  \* bound: runs AgentFoundry accepts for the task ID
          Budget      \* bounds: failures and crashes, operator calls

VARIABLES live,     \* the record in dispatch-runs.json
          archive,  \* the record in the job's archive file
          agents,   \* AgentFoundry's runs of the task ID, in order
          job,      \* status of the job
          outcome,  \* what the job has got: see Delivery
          th,       \* the threads: where they are and their copies
          left      \* what remains of Budget

vars == <<live, archive, agents, job, outcome, th, left>>

Terminals == Endings \cup {"cancelled"}
Statuses  == {"none", "starting", "running"} \cup Terminals

ASSUME DispatchAssumption ==
  /\ Endings \subseteq {"completed", "failed"}
  /\ MaxAgents \in Nat
  /\ Budget \in [faults : Nat, operator : Nat]

Record == [RunID : 0..MaxAgents, Status : Statuses, Applied : BOOLEAN, Superseded : BOOLEAN]
NoRecord == [RunID |-> 0, Status |-> "none", Applied |-> FALSE, Superseded |-> FALSE]
Intent == [NoRecord EXCEPT !.Status = "starting"]

Threads == {"caller", "operator", "poll", "watcher"}
Launching == {"refresh", "lookup", "servers", "submit", "record", "watch"}
Applying  == {"handle", "mark"}
Cancelling == {"cancelList", "cancelAgain", "cancelSave"}
Steps == {"idle", "start", "list", "relaunch", "rewatch", "jobs", "check", "observe", "save", "apply",
          "supersede", "supersedeSave", "replace", "archive"} \cup Launching \cup Applying \cup Cancelling
Idle == [at |-> "idle", run |-> NoRecord]

AgentStates == {"running", "stopping", "forgotten"} \cup Terminals
Issued(r) == r.RunID <= Len(agents)   \* AgentFoundry gave out this run ID

(* Type correctness of the whole state, and every run ID on record or in a  *)
(* copy (DispatchRun, dispatcher.go 54-70) is one AgentFoundry gave out.    *)
TypeOK ==
  /\ live \in Record /\ archive \in Record
  /\ agents \in Seq(AgentStates) /\ Len(agents) <= MaxAgents
  /\ Issued(live) /\ Issued(archive) /\ \A t \in Threads : Issued(th[t].run)
  /\ job \in {"active", "paused", "cancelled"}
  /\ outcome \in {"awaited", "replaced"} \cup Statuses
  /\ th \in [Threads -> [at : Steps, run : Record]]
  /\ left \in [faults : Nat, operator : Nat]

Init ==
  /\ live = NoRecord /\ archive = NoRecord
  /\ agents = <<>>
  /\ job = "active" /\ outcome = "awaited"
  /\ th = [t \in Threads |-> Idle]
  /\ left = Budget

-----------------------------------------------------------------------------
(* The store. *)

Terminal(r) == r.Status \in Terminals

(* Get prefers the live record, ListByJob the archived one.                 *)
Stored == IF live # NoRecord THEN live ELSE archive
Listed == IF archive # NoRecord THEN archive ELSE live

SaveAnyway(r) == live' = r   \* mutant: an archived dispatch is written again

(* Save of an archived dispatch is dropped and reported as done.            *)
Save(r) == live' = IF live = NoRecord /\ archive # NoRecord THEN live ELSE r

Unhandled(r) == r # NoRecord /\ ~Terminal(r)  \* mutant: only running records are resumed

(* What ListUnapplied returns. *)
Unapplied(r) == r # NoRecord /\ (~Terminal(r) \/ ~r.Applied)

-----------------------------------------------------------------------------
(* Threads. *)

At(t, step) == th[t].at = step
Run(t) == th[t].run
Nobody(steps) == \A t \in Threads : th[t].at \notin steps   \* the lock is free

Go(t, step) == th' = [th EXCEPT ![t].at = step]
GoWith(t, step, r) == th' = [th EXCEPT ![t] = [at |-> step, run |-> r]]
(* The end of a call.  The poll goes on to its jobs after Reconcile.        *)
Left(t) == IF t = "poll" /\ ~At(t, "jobs") /\ th[t].at \notin Cancelling
           THEN [at |-> "jobs", run |-> NoRecord] ELSE Idle
Leave(t) == th' = [th EXCEPT ![t] = Left(t)]

-----------------------------------------------------------------------------
(* start and launch: one at a time, startLocks. *)

CallStart ==
  /\ At("caller", "idle") /\ job = "active"
  /\ Go("caller", "start")
  /\ UNCHANGED <<live, archive, agents, job, outcome, left>>

Start(t) ==
  /\ At(t, "start") /\ Nobody(Launching)
  /\ \/ Stored = NoRecord /\ GoWith(t, "refresh", Intent)
     \/ /\ Stored # NoRecord /\ Stored.RunID = 0
        /\ GoWith(t, "refresh", [Stored EXCEPT !.Status = "starting", !.Superseded = FALSE])
     \/ Stored.RunID # 0 /\ Unapplied(Stored) /\ GoWith(t, "watch", Stored)
     \/ Stored.RunID # 0 /\ ~Unapplied(Stored) /\ Leave(t)
  /\ UNCHANGED <<live, archive, agents, job, outcome, left>>

SaveIntent(t) ==
  /\ At(t, "refresh")
  /\ Save(Run(t))
  /\ Go(t, "lookup")
  /\ UNCHANGED <<archive, agents, job, outcome, left>>

(* The status AgentFoundry reports of its run i. *)
ReportedRaw(i) == agents[i]   \* mutant: a status the dispatcher does not know
Reported(i) == IF agents[i] = "stopping" THEN "running" ELSE agents[i]

Found(i) == i \in DOMAIN agents /\ agents[i] # "forgotten"

LookupBlind(t) ==   \* mutant: a launch does not ask for an earlier submission
  /\ At(t, "lookup")
  /\ Go(t, "servers")
  /\ UNCHANGED <<live, archive, agents, job, outcome, left>>

(* GetRunByTaskID: an earlier submission may have arrived.                  *)
Lookup(t) ==
  /\ At(t, "lookup")
  /\ \/ /\ \A i \in DOMAIN agents : ~Found(i)
        /\ Go(t, "servers")
     \/ \E i \in DOMAIN agents :
          /\ Found(i)
          /\ GoWith(t, "record", [Run(t) EXCEPT !.RunID = i, !.Status = Reported(i), !.Superseded = FALSE])
  /\ UNCHANGED <<live, archive, agents, job, outcome, left>>

(* mcpServersForRun: a paused or ended job is refused.                      *)
ResolveServers(t) ==
  /\ At(t, "servers")
  /\ IF job = "active" THEN Go(t, "submit") ELSE Leave(t)
  /\ UNCHANGED <<live, archive, agents, job, outcome, left>>

Submit(t) ==
  /\ At(t, "submit") /\ Len(agents) < MaxAgents
  /\ agents' = Append(agents, "running")
  /\ GoWith(t, "record", [Run(t) EXCEPT !.RunID = Len(agents'), !.Status = "running"])
  /\ UNCHANGED <<live, archive, job, outcome, left>>

SaveRunID(t) ==
  /\ At(t, "record")
  /\ Save(Run(t))
  /\ Go(t, "watch")
  /\ UNCHANGED <<archive, agents, job, outcome, left>>

(* watch: a second watcher of the same task ID is not started.              *)
Watching(threads, r) ==
  IF threads["watcher"] # Idle THEN threads
  ELSE [threads EXCEPT !["watcher"] = [at |-> "check", run |-> r]]

Watch(t) ==
  /\ th[t].at \in {"watch", "rewatch"}
  /\ th' = Watching([th EXCEPT ![t] = Left(t)], Run(t))
  /\ UNCHANGED <<live, archive, agents, job, outcome, left>>

-----------------------------------------------------------------------------
(* The watcher, and apply, which the poll calls as well. *)

Check ==
  /\ At("watcher", "check")
  /\ IF Stored.Applied THEN Leave("watcher")
     ELSE Go("watcher", IF Terminal(Run("watcher")) THEN "apply" ELSE "observe")
  /\ UNCHANGED <<live, archive, agents, job, outcome, left>>

(* GetRun: an answer, a run still going, or an error for a forgotten one.   *)
Observe ==
  LET i == Run("watcher").RunID IN
  /\ At("watcher", "observe")
  /\ IF Found(i) /\ Reported(i) # "running"
     THEN GoWith("watcher", "save", [Run("watcher") EXCEPT !.Status = Reported(i), !.Superseded = FALSE])
     ELSE Go("watcher", "check")
  /\ UNCHANGED <<live, archive, agents, job, outcome, left>>

SaveAnswer ==
  /\ At("watcher", "save")
  /\ Save(Run("watcher"))
  /\ Go("watcher", "apply")
  /\ UNCHANGED <<archive, agents, job, outcome, left>>

(* apply takes applyLocks and reads the marker again.                       *)
Apply(t) ==
  /\ At(t, "apply") /\ Nobody(Applying)
  /\ IF Stored.Applied \/ Run(t).Applied THEN Leave(t) ELSE Go(t, "handle")
  /\ UNCHANGED <<live, archive, agents, job, outcome, left>>

Unapply(t) == Go(t, IF t = "poll" THEN "rewatch" ELSE "check")   \* apply returned false

HandleAlways(t) ==   \* mutant: the answer of a paused job counts as handled
  /\ At(t, "handle")
  /\ outcome' = IF job = "active" /\ outcome = "awaited" THEN Run(t).Status ELSE outcome
  /\ Go(t, "mark")
  /\ UNCHANGED <<live, archive, agents, job, left>>

(* The outcome handler: nothing to do for an ended job or one that no       *)
(* longer waits for this dispatch, an error for a paused one.               *)
Handle(t) ==
  /\ At(t, "handle")
  /\ \/ /\ job = "active" /\ outcome = "awaited"
        /\ outcome' = Run(t).Status
        /\ Go(t, "mark")
     \/ /\ job = "cancelled" \/ (job = "active" /\ outcome # "awaited")
        /\ Go(t, "mark") /\ UNCHANGED outcome
     \/ job = "paused" /\ Unapply(t) /\ UNCHANGED outcome
  /\ UNCHANGED <<live, archive, agents, job, left>>

Mark(t) ==
  /\ At(t, "mark")
  /\ Save([Run(t) EXCEPT !.Applied = TRUE])
  /\ Leave(t)
  /\ UNCHANGED <<archive, agents, job, outcome, left>>

-----------------------------------------------------------------------------
(* The poll: Reconcile, then the job. *)

CallReconcile ==
  /\ At("poll", "idle")
  /\ Go("poll", "list")
  /\ UNCHANGED <<live, archive, agents, job, outcome, left>>

List ==
  /\ At("poll", "list")
  /\ IF ~Unapplied(live) THEN Leave("poll")
     ELSE GoWith("poll", IF live.RunID = 0 THEN "relaunch"
                         ELSE IF Terminal(live) THEN "apply" ELSE "rewatch", live)
  /\ UNCHANGED <<live, archive, agents, job, outcome, left>>

Relaunch ==
  /\ At("poll", "relaunch") /\ Nobody(Launching)
  /\ IF Stored.Applied THEN Leave("poll")
     ELSE GoWith("poll", IF Stored.RunID # 0 THEN "watch" ELSE "lookup", Stored)
  /\ UNCHANGED <<live, archive, agents, job, outcome, left>>

ReconcileJob ==
  /\ At("poll", "jobs")
  /\ IF job = "cancelled" THEN Go("poll", "cancelList") ELSE Leave("poll")
  /\ UNCHANGED <<live, archive, agents, job, outcome, left>>

-----------------------------------------------------------------------------
(* CancelJob: the wiring decides from a first listing whether a run must be *)
(* stopped remotely, and then the dispatcher lists again.                   *)

MarkCancelled(r) == [r EXCEPT !.Applied = TRUE, !.Status = IF Terminal(r) THEN @ ELSE "cancelled"]

(* A tool that cancelled has returned, or it goes on to archive.            *)
Cancelled(t) == \E step \in {"idle"} \cup (IF t = "operator" THEN {"archive"} ELSE {}) :
                  GoWith(t, step, NoRecord)

CancelList(t) ==
  /\ At(t, "cancelList")
  /\ \/ ~Terminal(Listed) /\ Listed.RunID # 0 /\ Go(t, "cancelAgain")
     \/ /\ Terminal(Listed) \/ Listed.RunID = 0
        /\ IF Listed = NoRecord \/ Listed.Applied THEN Cancelled(t)
           ELSE GoWith(t, "cancelSave", MarkCancelled(Listed))
  /\ UNCHANGED <<live, archive, agents, job, outcome, left>>

Stopped(i) == IF agents[i] = "running" THEN [agents EXCEPT ![i] = "stopping"] ELSE agents

CancelAgain(t) ==
  /\ At(t, "cancelAgain")
  /\ agents' = IF ~Terminal(Listed) /\ Listed.RunID # 0 THEN Stopped(Listed.RunID) ELSE agents
  /\ IF Terminal(Listed) /\ Listed.Applied THEN Cancelled(t)
     ELSE GoWith(t, "cancelSave", MarkCancelled(Listed))
  /\ UNCHANGED <<live, archive, job, outcome, left>>

CancelSave(t) ==
  /\ At(t, "cancelSave")
  /\ Save(Run(t))
  /\ Cancelled(t)
  /\ UNCHANGED <<archive, agents, job, outcome, left>>

-----------------------------------------------------------------------------
(* The operator's tools. *)

Tool(step) ==
  /\ At("operator", "idle")
  /\ left.operator > 0 /\ left' = [left EXCEPT !.operator = @ - 1]
  /\ Go("operator", step)
  /\ UNCHANGED <<live, archive, agents, outcome>>

CallPause  == job = "active" /\ job' = "paused" /\ Tool("idle")
CallResume == job = "paused" /\ job' = "active" /\ Tool("idle")
CallCancel == job' = "cancelled" /\ Tool("cancelList")   \* archive_code_job begins so too
CallRetry  == job = "active" /\ outcome = "awaited" /\ UNCHANGED job /\ Tool("supersede")

(* Only an answer that was not applied can be superseded.                   *)
Supersede ==
  /\ At("operator", "supersede")
  /\ IF Terminal(Stored) /\ ~Stored.Applied
     THEN GoWith("operator", "supersedeSave", [Stored EXCEPT !.Applied = TRUE, !.Superseded = TRUE])
     ELSE Leave("operator")
  /\ UNCHANGED <<live, archive, agents, job, outcome, left>>

SupersedeSave ==
  /\ At("operator", "supersedeSave")
  /\ Save(Run("operator"))
  /\ Go("operator", "replace")
  /\ UNCHANGED <<archive, agents, job, outcome, left>>

(* RetryPlanning, RetryWriter or RetryReview: refused if the job moved on.  *)
Replace ==
  /\ At("operator", "replace")
  /\ outcome' = IF job = "active" /\ outcome = "awaited" THEN "replaced" ELSE outcome
  /\ Leave("operator")
  /\ UNCHANGED <<live, archive, agents, job, left>>

(* ArchiveJob writes the archive and then the live file; the second write   *)
(* may fail, or the process die before it.                                  *)
ArchiveWrite(removed) ==
  /\ At("operator", "archive") /\ live # NoRecord
  /\ ~Unapplied(live)
  /\ archive' = IF archive = NoRecord THEN live ELSE archive
  /\ live' = IF removed THEN NoRecord ELSE live
  /\ Leave("operator")
  /\ UNCHANGED <<agents, job, outcome>>

ArchiveJob == ArchiveWrite(TRUE) /\ UNCHANGED left

(* Nothing to archive, or a dispatch that is still active or unapplied.     *)
ArchiveRefused ==
  /\ At("operator", "archive") /\ (live = NoRecord \/ Unapplied(live))
  /\ Leave("operator")
  /\ UNCHANGED <<live, archive, agents, job, outcome, left>>

-----------------------------------------------------------------------------
(* AgentFoundry, failures and crashes. *)

Finish(i) ==
  /\ agents[i] \in {"running", "stopping"}
  /\ \E ending \in Endings \cup (IF agents[i] = "stopping" THEN {"cancelled"} ELSE {}) :
       agents' = [agents EXCEPT ![i] = ending]
  /\ UNCHANGED <<live, archive, job, outcome, th, left>>

(* A finished run is cleaned up some time after it was last asked for.      *)
Forget(i) ==
  /\ agents[i] \in Terminals
  /\ \A r \in {live} \cup {th[t].run : t \in Threads} : r.RunID = i => Terminal(r)
  /\ agents' = [agents EXCEPT ![i] = "forgotten"]
  /\ UNCHANGED <<live, archive, job, outcome, th, left>>

Fault == left.faults > 0 /\ left' = [left EXCEPT !.faults = @ - 1]

Returning == (Launching \ {"watch"}) \cup
             {"cancelAgain", "cancelSave", "supersedeSave", "replace", "archive"}

(* A store, HTTP or handler call fails and the caller returns or retries.   *)
CallFails(t) ==
  /\ Fault
  /\ \/ th[t].at \in Returning /\ Leave(t)
     \/ th[t].at \in Applying /\ Unapply(t)
     \/ At(t, "save") /\ GoWith(t, "check", [Run(t) EXCEPT !.Status = "running"])
  /\ UNCHANGED <<live, archive, agents, job, outcome>>

(* The submission is accepted and its response lost.                        *)
ResponseLost(t) ==
  /\ Fault
  /\ At(t, "submit") /\ Len(agents) < MaxAgents
  /\ agents' = Append(agents, "running")
  /\ Leave(t)
  /\ UNCHANGED <<live, archive, job, outcome>>

ArchiveHalf == Fault /\ ArchiveWrite(FALSE)

Restart ==
  /\ Fault
  /\ th' = [t \in Threads |-> Idle]
  /\ UNCHANGED <<live, archive, agents, job, outcome>>

-----------------------------------------------------------------------------
ThreadStep(t) ==
  \/ Start(t) \/ SaveIntent(t) \/ Lookup(t) \/ ResolveServers(t) \/ Submit(t) \/ SaveRunID(t)
  \/ Watch(t) \/ Apply(t) \/ Handle(t) \/ Mark(t)
  \/ CancelList(t) \/ CancelAgain(t) \/ CancelSave(t)

WatcherStep == Check \/ Observe \/ SaveAnswer
PollStep == CallReconcile \/ List \/ Relaunch \/ ReconcileJob
OperatorStep == Supersede \/ SupersedeSave \/ Replace \/ ArchiveJob \/ ArchiveRefused

Next ==
  \/ CallStart \/ CallPause \/ CallResume \/ CallCancel \/ CallRetry
  \/ \E t \in Threads : ThreadStep(t)
  \/ WatcherStep \/ PollStep \/ OperatorStep
  \/ \E i \in DOMAIN agents : Finish(i) \/ Forget(i)
  \/ \E t \in Threads : CallFails(t) \/ ResponseLost(t)
  \/ ArchiveHalf \/ Restart

Spec == Init /\ [][Next]_vars

(* Threads that began run on, the poll comes round, agents come to an end.  *)
Fairness ==
  /\ \A t \in Threads : WF_vars(ThreadStep(t))
  /\ WF_vars(WatcherStep) /\ WF_vars(PollStep) /\ WF_vars(OperatorStep)
  /\ WF_vars(\E i \in DOMAIN agents : Finish(i))
FairSpec == Spec /\ Fairness

-----------------------------------------------------------------------------
(* At most one agent of a task ID is at work (dispatcher.go 292-335 and     *)
(* 382-420): two writers in one worktree would overwrite each other.        *)
OneAgentAtATime ==
  \A i, j \in DOMAIN agents : agents[i] \in {"running", "stopping"}
                              /\ agents[j] \in {"running", "stopping"} => i = j

(* What the job sees: the record of the dispatch as Delivery names it.      *)
RecordPhase ==
  IF job = "cancelled" THEN "void"
  ELSE IF live = NoRecord THEN "none"
  ELSE IF live.Superseded THEN "superseded"
  ELSE IF live.Applied THEN "closed"
  ELSE IF Terminal(live) THEN live.Status
  ELSE IF live.RunID # 0 THEN "running" ELSE "asked"

D == INSTANCE Delivery WITH Answers <- Endings, record <- RecordPhase

(* Whatever the threads do to each other's copies, the dispatch keeps what  *)
(* Delivery promises: its record never goes back, the answer delivered is   *)
(* the one recorded, and the marker is never saved over an answer the job   *)
(* still waits for (apply, dispatcher.go 485-508).                          *)
KeepsPromise == D!Spec

(* An archived dispatch does not come back to the live file, whoever still  *)
(* holds a copy of it, and its archived record does not change (Save and    *)
(* ArchiveJob, store.go 65-93 and 146-189).                                 *)
ArchiveFinal ==
  [][archive # NoRecord => /\ archive' = archive
                           /\ live = NoRecord => live' = NoRecord]_vars

(* A dispatch that was asked for by an active job brings it an answer,      *)
(* unless the operator pauses, cancels or supersedes it, however often      *)
(* calls fail and the process dies (Reconcile, dispatcher.go 337-380).      *)
AskedIsAnswered ==
  (live # NoRecord /\ job = "active" /\ outcome = "awaited")
    ~> (outcome # "awaited" \/ job # "active" \/ live.Superseded)

(* cancel_code_job "requests remote cancellation" (README.md): a run that   *)
(* no later CancelJob will look at was told to stop or has ended.           *)
CancelReachesAgents ==
  (job = "cancelled" /\ live # NoRecord /\ ~Unapplied(live) /\ \A t \in Threads : th[t] = Idle)
    => \A i \in DOMAIN agents : agents[i] # "running"
=============================================================================
