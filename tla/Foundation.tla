----------------------------- MODULE Foundation -----------------------------
(***************************************************************************)
(* The OpenDev foundation of one owned repository: internal/repositories   *)
(* over its entry in internal/repositorycatalog, the foundation branch and *)
(* its pull requests on GitHub, and one job that waits for it.             *)
(*                                                                         *)
(* Tools and the 30 second poll run EnsureFoundation at the same time and  *)
(* without a lock.  Each reads the entry once, in syncAndRefresh, and      *)
(* saves what it made of that copy several GitHub calls later.             *)
(***************************************************************************)
EXTENDS Integers, Sequences

CONSTANTS Tools,       \* tool calls that may run at once
          MaxCommits,  \* bound: commits of foundation branches
          MaxPRs,      \* bound: pull requests of foundation branches
          Budget       \* bounds: failures and crashes, tool calls, foreign acts

VARIABLES entry,     \* the foundation of the catalog record
          prs,       \* foundation pull requests, by number
          checks,    \* result of the required check, by commit
          branch,    \* head of the current foundation branch on GitHub
          worktree,  \* head of that branch in OpenDev's worktree
          job,       \* the job that wants to plan
          th,        \* the calls: where they are and their copies
          left       \* what remains of Budget

vars == <<entry, prs, checks, branch, worktree, job, th, left>>

ASSUME FoundationAssumption ==
  /\ MaxCommits \in Nat \ {0} /\ MaxPRs \in Nat \ {0}
  /\ Budget \in [faults : Nat, tools : Nat, foreign : Nat]
  /\ "poll" \notin Tools

Callers == Tools \cup {"poll"}
Roles == {"provision", "create", "start", "migrate", "poll", "resume"}
Begin  == {"branch", "find", "create", "rules"}
Review == {"read", "checks", "promote", "reread", "merge", "confirm"}
Steps  == {"idle", "held", "sync", "save", "newJob", "newHeldJob", "hold", "plan"} \cup Begin \cup Review

Foundations == [version : {"none", "old", "current"}, pr : 0..MaxPRs, sha : 0..MaxCommits,
                status : {"none", "pending", "blocked", "ready"}]
NoFoundation == [version |-> "none", pr |-> 0, sha |-> 0, status |-> "none"]
OldReady == [version |-> "old", pr |-> 1, sha |-> 1, status |-> "ready"]

PullRequests == [version : {"old", "current"}, state : {"open", "closed", "merged"},
                 draft : BOOLEAN, head : 1..MaxCommits]
Jobs == [status : {"none", "created", "planning"}, held : BOOLEAN]
Calls == [at : Steps, role : Roles, rec : Foundations, head : 0..MaxCommits, merged : BOOLEAN]
Fresh(step, role) == [at |-> step, role |-> role, rec |-> NoFoundation, head |-> 0, merged |-> FALSE]
Idle == Fresh("idle", "poll")

Commit(c) == c \in 1..Len(checks)
Opened(i) == i \in 1..Len(prs)

(* Type correctness; whatever is on record or in a copy exists on GitHub,   *)
(* and only a reviewed pull request is under review (Foundation,            *)
(* catalog.go 51-59).                                                       *)
TypeOK ==
  /\ entry \in Foundations /\ (entry.pr # 0 => Opened(entry.pr))
  /\ prs \in Seq(PullRequests) /\ Len(prs) <= MaxPRs
  /\ \A i \in DOMAIN prs : Commit(prs[i].head)
  /\ checks \in Seq({"pending", "passed", "failed"}) /\ Len(checks) <= MaxCommits
  /\ branch \in 0..Len(checks) /\ worktree \in 0..Len(checks)
  /\ job \in Jobs
  /\ th \in [Callers -> Calls]
  /\ \A c \in Callers : /\ th[c].rec.pr # 0 => Opened(th[c].rec.pr)
                        /\ th[c].at \in Review \cup {"rules"} => th[c].rec.pr # 0
                        /\ th[c].at \in Review \ {"read"} => Commit(th[c].head)
  /\ left \in [faults : Nat, tools : Nat, foreign : Nat]

(* A repository without a foundation, or with that of an earlier version.   *)
Init ==
  /\ \/ entry = NoFoundation /\ prs = <<>> /\ checks = <<>>
     \/ /\ entry = OldReady /\ checks = <<"passed">>
        /\ prs = <<[version |-> "old", state |-> "merged", draft |-> FALSE, head |-> 1]>>
  /\ branch = 0 /\ worktree = 0
  /\ job = [status |-> "none", held |-> FALSE]
  /\ th = [c \in Callers |-> Idle]
  /\ left = Budget

-----------------------------------------------------------------------------
(* Calls. *)

At(c, step) == th[c].at = step
Go(c, step) == th' = [th EXCEPT ![c].at = step]
GoWith(c, step, rec) == th' = [th EXCEPT ![c].at = step, ![c].rec = rec]

ProceedsPending(result) == result \in {"ready", "pending"}   \* mutant: a pending foundation will do
Proceeds(result) == result = "ready"

(* What a caller does with the result of EnsureFoundation: the poll goes on *)
(* to its jobs, a tool creates its job, holds it or starts its planning.    *)
After(role, result) ==
  IF role = "poll" THEN "held"
  ELSE IF result = "error" \/ role \in {"provision", "migrate"} THEN "idle"
  ELSE IF role = "create" THEN (IF Proceeds(result) THEN "newJob" ELSE "newHeldJob")
  ELSE IF Proceeds(result) THEN "plan"
  ELSE IF role = "start" THEN "hold" ELSE "idle"

Return(c, result) == Go(c, After(th[c].role, result))

-----------------------------------------------------------------------------
(* EnsureFoundation and MigrateFoundation: syncAndRefresh and the decision. *)

Migrates(c) == th[c].role = "migrate" /\ entry.version # "current"

Sync(c) ==
  /\ At(c, "sync")
  /\ \/ entry.status = "ready" /\ ~Migrates(c) /\ Return(c, "ready")
     \/ entry.status = "ready" /\ Migrates(c) /\ GoWith(c, "branch", NoFoundation)
     \/ entry.status # "ready" /\ Migrates(c) /\ Return(c, "error")
     \/ /\ entry.status # "ready" /\ ~Migrates(c)
        /\ GoWith(c, IF entry.pr # 0 THEN "read" ELSE "branch", entry)
  /\ UNCHANGED <<entry, prs, checks, branch, worktree, job, left>>

(* CreateFoundationBranch commits once and pushes; a branch that somebody   *)
(* else has moved refuses the push.                                         *)
Branch(c) ==
  LET sha == IF worktree = 0 THEN Len(checks) + 1 ELSE worktree IN
  /\ At(c, "branch") /\ (worktree = 0 => Len(checks) < MaxCommits)
  /\ worktree' = sha
  /\ checks' = IF worktree = 0 THEN Append(checks, "pending") ELSE checks
  /\ IF branch \in {0, sha}
     THEN branch' = sha /\ GoWith(c, "find", [version |-> "current", pr |-> 0, sha |-> sha, status |-> "pending"])
     ELSE Return(c, "error") /\ UNCHANGED branch
  /\ UNCHANGED <<entry, prs, job, left>>

Adoptable(i) == prs[i].version = "current" /\ prs[i].state = "open"

(* FindPR adopts an open pull request of the branch.                        *)
Find(c) ==
  /\ At(c, "find")
  /\ \/ \E i \in DOMAIN prs : Adoptable(i) /\ GoWith(c, "rules", [th[c].rec EXCEPT !.pr = i])
     \/ (\A i \in DOMAIN prs : ~Adoptable(i)) /\ Go(c, "create")
  /\ UNCHANGED <<entry, prs, checks, branch, worktree, job, left>>

NewPR == Append(prs, [version |-> "current", state |-> "open", draft |-> TRUE, head |-> branch])

(* GitHub refuses a second open pull request of one branch.                 *)
CreatePR(c) ==
  /\ At(c, "create") /\ Len(prs) < MaxPRs
  /\ IF \E i \in DOMAIN prs : Adoptable(i)
     THEN Return(c, "error") /\ UNCHANGED prs
     ELSE prs' = NewPR /\ GoWith(c, "rules", [th[c].rec EXCEPT !.pr = Len(prs')])
  /\ UNCHANGED <<entry, checks, branch, worktree, job, left>>

EnsureRequiredCheck(c) ==
  /\ At(c, "rules")
  /\ Go(c, "save")
  /\ UNCHANGED <<entry, prs, checks, branch, worktree, job, left>>

-----------------------------------------------------------------------------
(* reconcileFoundation. *)

PR(c) == prs[th[c].rec.pr]

Conclude(c, status) == GoWith(c, "save", [th[c].rec EXCEPT !.status = status])
ConcludeReady(c, head) == GoWith(c, "save", [th[c].rec EXCEPT !.status = "ready", !.sha = head])

ExamineNoHead(c) == [th[c] EXCEPT !.at = "checks"]   \* mutant: the head read is not kept
Examine(c) == [at |-> "checks", role |-> th[c].role, rec |-> th[c].rec,
               head |-> PR(c).head, merged |-> (PR(c).state = "merged")]

ReadPR(c) ==
  /\ At(c, "read")
  /\ IF PR(c).state = "closed" THEN Conclude(c, "blocked") ELSE th' = [th EXCEPT ![c] = Examine(c)]
  /\ UNCHANGED <<entry, prs, checks, branch, worktree, job, left>>

SucceededLoose(result) == result # "failed"   \* mutant: a check still running counts as passed
Succeeded(result) == result = "passed"

ReadChecks(c) ==
  LET result == checks[th[c].head] IN
  /\ At(c, "checks")
  /\ \/ result = "failed" /\ Conclude(c, "blocked")
     \/ result # "failed" /\ ~Succeeded(result) /\ Return(c, "pending")
     \/ Succeeded(result) /\ th[c].merged /\ ConcludeReady(c, th[c].head)
     \/ Succeeded(result) /\ ~th[c].merged /\ Go(c, "promote")
  /\ UNCHANGED <<entry, prs, checks, branch, worktree, job, left>>

Promote(c) ==
  /\ At(c, "promote")
  /\ IF PR(c).state = "open"
     THEN prs' = [prs EXCEPT ![th[c].rec.pr].draft = FALSE] /\ Go(c, "reread")
     ELSE Return(c, "error") /\ UNCHANGED prs
  /\ UNCHANGED <<entry, checks, branch, worktree, job, left>>

Reread(c) ==
  /\ At(c, "reread")
  /\ IF PR(c).head = th[c].head THEN Go(c, "merge") ELSE Return(c, "pending")
  /\ UNCHANGED <<entry, prs, checks, branch, worktree, job, left>>

MergeableAnyHead(c) == PR(c).state = "open" /\ ~PR(c).draft   \* mutant: merges whatever the head is
Mergeable(c) == PR(c).state = "open" /\ ~PR(c).draft /\ PR(c).head = th[c].head

Merged(c) == [prs EXCEPT ![th[c].rec.pr].state = "merged"]

(* MergePR names the verified head, and GitHub refuses another one.         *)
MergePR(c) ==
  /\ At(c, "merge")
  /\ IF Mergeable(c) THEN prs' = Merged(c) /\ Go(c, "confirm")
     ELSE Return(c, "error") /\ UNCHANGED prs
  /\ UNCHANGED <<entry, checks, branch, worktree, job, left>>

Confirm(c) ==
  /\ At(c, "confirm")
  /\ IF PR(c).head = th[c].head THEN ConcludeReady(c, th[c].head) ELSE Conclude(c, "blocked")
  /\ UNCHANGED <<entry, prs, checks, branch, worktree, job, left>>

(* Save of what the call has made of its copy, over whatever is there now.  *)
Save(c) ==
  /\ At(c, "save")
  /\ entry' = th[c].rec
  /\ Return(c, th[c].rec.status)
  /\ UNCHANGED <<prs, checks, branch, worktree, job, left>>

-----------------------------------------------------------------------------
(* The callers. *)

Call(c, role) ==
  /\ At(c, "idle")
  /\ left.tools > 0 /\ left' = [left EXCEPT !.tools = @ - 1]
  /\ th' = [th EXCEPT ![c] = Fresh("sync", role)]
  /\ UNCHANGED <<entry, prs, checks, branch, worktree, job>>

CallProvision(c) == Call(c, "provision")
CallMigrate(c)   == Call(c, "migrate")
CallCreate(c)    == job.status = "none" /\ Call(c, "create")
CallStart(c)     == job.status # "none" /\ Call(c, "start")

(* ReconcilePendingFoundations takes up every recorded pull request that    *)
(* is not ready, the blocked ones included.                                 *)
UnfinishedPending(f) == f.pr # 0 /\ f.status = "pending"   \* mutant: blocked ones are left alone
Unfinished(f) == f.pr # 0 /\ f.status # "ready"

CallPoll ==
  /\ At("poll", "idle")
  /\ th' = [th EXCEPT !["poll"] = Fresh(IF Unfinished(entry) THEN "sync" ELSE "held", "poll")]
  /\ UNCHANGED <<entry, prs, checks, branch, worktree, job, left>>

(* ResumeFoundationPlanning. *)
HeldUnfinished == job.status = "created" /\ job.held /\ Unfinished(entry)   \* mutant: only while unfinished
Held == job.status = "created" /\ job.held

Resume ==
  /\ At("poll", "held")
  /\ IF Held
     THEN th' = [th EXCEPT !["poll"] = Fresh("sync", "resume")]
     ELSE Go("poll", "idle")
  /\ UNCHANGED <<entry, prs, checks, branch, worktree, job, left>>

CreateJob(c) ==
  /\ th[c].at \in {"newJob", "newHeldJob"}
  /\ job' = IF job.status = "none" THEN [job EXCEPT !.status = "created"] ELSE job
  /\ Go(c, IF At(c, "newHeldJob") THEN "hold" ELSE "idle")
  /\ UNCHANGED <<entry, prs, checks, branch, worktree, left>>

MarkFoundationPending(c) ==
  /\ At(c, "hold")
  /\ job' = IF job.status = "created" THEN [job EXCEPT !.held = TRUE] ELSE job
  /\ Go(c, "idle")
  /\ UNCHANGED <<entry, prs, checks, branch, worktree, left>>

StartPlanning(c) ==
  /\ At(c, "plan")
  /\ job' = IF job.status = "created" THEN [status |-> "planning", held |-> FALSE] ELSE job
  /\ Go(c, "idle")
  /\ UNCHANGED <<entry, prs, checks, branch, worktree, left>>

-----------------------------------------------------------------------------
(* GitHub, failures and crashes. *)

ChecksFinish(c) ==
  /\ checks[c] = "pending" /\ \E i \in DOMAIN prs : prs[i].head = c
  /\ \E result \in {"passed", "failed"} : checks' = [checks EXCEPT ![c] = result]
  /\ UNCHANGED <<entry, prs, branch, worktree, job, th, left>>

Foreign == left.foreign > 0 /\ left' = [left EXCEPT !.foreign = @ - 1]

ChecksRerun(c) ==
  /\ Foreign /\ checks[c] = "failed"
  /\ checks' = [checks EXCEPT ![c] = "pending"]
  /\ UNCHANGED <<entry, prs, branch, worktree, job, th>>

ForeignPush ==
  /\ Foreign /\ branch # 0 /\ Len(checks) < MaxCommits
  /\ checks' = Append(checks, "pending")
  /\ branch' = Len(checks')
  /\ prs' = [i \in DOMAIN prs |-> IF Adoptable(i) THEN [prs[i] EXCEPT !.head = branch'] ELSE prs[i]]
  /\ UNCHANGED <<entry, worktree, job, th>>

ForeignEnd(i) ==
  /\ Foreign /\ prs[i].state = "open"
  /\ \E state \in {"closed", "merged"} : prs' = [prs EXCEPT ![i].state = state]
  /\ UNCHANGED <<entry, checks, branch, worktree, job, th>>

Fault == left.faults > 0 /\ left' = [left EXCEPT !.faults = @ - 1]

(* A git, GitHub or store call fails, or GitHub shows a change too late.    *)
CallFails(c) ==
  /\ Fault
  /\ \/ th[c].at \in {"sync", "save"} \cup Begin \cup Review /\ Return(c, "error")
     \/ th[c].at \in {"hold", "plan", "newJob", "newHeldJob"} /\ Go(c, "idle")
     \/ th[c].at \in {"reread", "confirm"} /\ Return(c, "pending")
  /\ UNCHANGED <<entry, prs, checks, branch, worktree, job>>

ResponseLost(c) ==
  /\ Fault /\ Return(c, "error")
  /\ \/ At(c, "create") /\ Len(prs) < MaxPRs /\ (\A i \in DOMAIN prs : ~Adoptable(i)) /\ prs' = NewPR
     \/ At(c, "merge") /\ Mergeable(c) /\ prs' = Merged(c)
  /\ UNCHANGED <<entry, checks, branch, worktree, job>>

(* The foundation is committed and its push fails.                          *)
PushFails(c) ==
  /\ Fault /\ Return(c, "error")
  /\ At(c, "branch") /\ worktree = 0 /\ Len(checks) < MaxCommits
  /\ worktree' = Len(checks) + 1 /\ checks' = Append(checks, "pending")
  /\ UNCHANGED <<entry, prs, branch, job>>

Restart ==
  /\ Fault
  /\ th' = [c \in Callers |-> Idle]
  /\ UNCHANGED <<entry, prs, checks, branch, worktree, job>>

-----------------------------------------------------------------------------
EnsureStep(c) ==
  \/ Sync(c) \/ Branch(c) \/ Find(c) \/ CreatePR(c) \/ EnsureRequiredCheck(c)
  \/ ReadPR(c) \/ ReadChecks(c) \/ Promote(c) \/ Reread(c) \/ MergePR(c) \/ Confirm(c)
  \/ Save(c) \/ CreateJob(c) \/ MarkFoundationPending(c) \/ StartPlanning(c)

Next ==
  \/ \E c \in Tools : CallProvision(c) \/ CallMigrate(c) \/ CallCreate(c) \/ CallStart(c)
  \/ CallPoll \/ Resume
  \/ \E c \in Callers : EnsureStep(c) \/ CallFails(c) \/ ResponseLost(c) \/ PushFails(c)
  \/ \E c \in DOMAIN checks : ChecksFinish(c) \/ ChecksRerun(c)
  \/ \E i \in DOMAIN prs : ForeignEnd(i)
  \/ ForeignPush \/ Restart

Spec == Init /\ [][Next]_vars

(* Calls that began go on, the poll comes round, checks finish.             *)
Fairness ==
  /\ \A c \in Callers : WF_vars(EnsureStep(c))
  /\ WF_vars(CallPoll) /\ WF_vars(Resume)
  /\ WF_vars(\E c \in DOMAIN checks : ChecksFinish(c))
FairSpec == Spec /\ Fairness

-----------------------------------------------------------------------------
Verified(i) == prs[i].state = "merged" /\ checks[prs[i].head] = "passed"

(* A repository is recorded as ready only with a merged pull request whose  *)
(* final head passed the required check, however calls overwrite each       *)
(* other's entries (reconcileFoundation, service.go 187-283).               *)
ReadyWasVerified ==
  entry.status = "ready" => Verified(entry.pr) /\ entry.sha = prs[entry.pr].head

(* "Jobs wait for its CI to pass and the PR to merge before planning        *)
(* starts" (README.md 89-90; start_planning, server.go 507-534, and         *)
(* ResumeFoundationPlanning, foundation.go 20-48).                          *)
PlansOnReady == job.status = "planning" => \E i \in DOMAIN prs : Verified(i)

(* OpenDev itself merges only what the required check has passed, whoever   *)
(* pushes between the check and the merge (service.go 203-250).             *)
MergesOnlyVerified ==
  [][left'.foreign = left.foreign =>
       \A i \in DOMAIN prs : prs[i].state = "open" /\ prs'[i].state = "merged"
                             => checks[prs[i].head] = "passed"]_vars

(* A person has to look: the pull request on record was closed or failed,   *)
(* or somebody moved the branch before there was a record.                  *)
NeedsAttention ==
  \/ entry.pr # 0 /\ (prs[entry.pr].state = "closed" \/ checks[prs[entry.pr].head] = "failed")
  \/ entry.pr = 0 /\ branch # worktree

(* A recorded foundation becomes ready, also after failures, crashes and    *)
(* calls that saved an older copy (ReconcilePendingFoundations).            *)
FoundationCompletes == entry.pr # 0 ~> (entry.status = "ready" \/ NeedsAttention)

(* A held job starts planning (foundation.go 13-48).                        *)
HeldJobStarts == job.held ~> (job.status = "planning" \/ NeedsAttention)
=============================================================================
