-------------------------- MODULE FoundationProofs --------------------------
(***************************************************************************)
(* Proofs about Foundation: its types, that ready means merged and         *)
(* verified, that OpenDev merges only what was verified, and that planning *)
(* waits for it.  What is on GitHub is a parameter of the operators here,  *)
(* p the pull requests, k the checks and b the head of the branch, so that *)
(* one lemma says how a claim about GitHub survives a step.                *)
(***************************************************************************)
EXTENDS Foundation, SequenceTheorems, TLAPS

Results == {"pending", "passed", "failed"}

World(p, k, b) ==
  /\ p \in Seq(PullRequests) /\ Len(p) <= MaxPRs
  /\ \A i \in 1..Len(p) : p[i].head \in 1..Len(k)
  /\ k \in Seq(Results) /\ Len(k) <= MaxCommits
  /\ b \in 0..Len(k)

VerifiedIn(p, k, i) == p[i].state = "merged" /\ k[p[i].head] = "passed"

Backed(f, p, k) ==
  /\ f \in Foundations /\ (f.pr # 0 => f.pr \in 1..Len(p))
  /\ f.status = "ready" => f.pr \in 1..Len(p) /\ VerifiedIn(p, k, f.pr) /\ f.sha = p[f.pr].head

SomeVerified(p, k) == \E i \in 1..Len(p) : VerifiedIn(p, k, i)

(* What a call knows when it comes to a step.                               *)
CallOK(x, p, k, b) ==
  /\ x \in Calls
  /\ Backed(x.rec, p, k)
  /\ x.at \in Review \cup {"rules"} => x.rec.pr # 0
  /\ x.at \in Review \ {"read"} => x.head \in 1..Len(k)
  /\ x.at \in {"find", "create"} => b # 0 /\ x.rec.status # "ready"
  /\ x.at \in {"promote", "reread", "merge", "confirm"} => k[x.head] = "passed"
  /\ x.at = "confirm" => p[x.rec.pr].state = "merged"
  /\ x.at = "checks" /\ x.merged => p[x.rec.pr].state = "merged" /\ p[x.rec.pr].head = x.head
  /\ x.at = "plan" => SomeVerified(p, k)

(* GitHub forgets neither a merge nor a passed check.                       *)
Grows(p, k, b, q, l, d) ==
  /\ Len(p) <= Len(q) /\ Len(k) <= Len(l)
  /\ \A i \in 1..Len(p) : p[i].state = "merged" => q[i].state = "merged" /\ q[i].head = p[i].head
  /\ \A c \in 1..Len(k) : k[c] = "passed" => l[c] = "passed"
  /\ b # 0 => d # 0

GitHub == World(prs, checks, branch)
Steady == Grows(prs, checks, branch, prs', checks', branch')
CallsOK == th \in [Callers -> Calls] /\ \A c \in Callers : CallOK(th[c], prs, checks, branch)
EntryOK == Backed(entry, prs, checks)
JobOK == job \in Jobs /\ (job.status = "planning" => SomeVerified(prs, checks))
RestOK == worktree \in 0..Len(checks) /\ left \in [faults : Nat, tools : Nat, foreign : Nat]

IInv == GitHub /\ CallsOK /\ EntryOK /\ JobOK /\ RestOK

-----------------------------------------------------------------------------
(* Claims about GitHub survive. *)

LEMMA VerifiedStays ==
  ASSUME NEW p, NEW k, NEW b, NEW q, NEW l, NEW d, World(p, k, b), World(q, l, d),
         Grows(p, k, b, q, l, d), NEW i \in 1..Len(p), VerifiedIn(p, k, i)
  PROVE  i \in 1..Len(q) /\ VerifiedIn(q, l, i) /\ q[i].head = p[i].head
<1>1. p[i].head \in 1..Len(k)  BY DEF World
<1>2. Len(p) \in Nat /\ Len(q) \in Nat  BY DEF World
<1> QED  BY <1>1, <1>2 DEF Grows, VerifiedIn

LEMMA BackedStays ==
  ASSUME NEW p, NEW k, NEW b, NEW q, NEW l, NEW d, World(p, k, b), World(q, l, d),
         Grows(p, k, b, q, l, d), NEW f, Backed(f, p, k)
  PROVE  Backed(f, q, l)
<1>1. Len(p) \in Nat /\ Len(q) \in Nat /\ Len(p) <= Len(q)  BY DEF World, Grows
<1>2. f \in Foundations /\ f.pr \in Int  BY DEF Backed, Foundations
<1>3. f.pr # 0 => f.pr \in 1..Len(q)  BY <1>1, <1>2 DEF Backed
<1>4. ASSUME f.status = "ready"
      PROVE  f.pr \in 1..Len(q) /\ VerifiedIn(q, l, f.pr) /\ f.sha = q[f.pr].head
  BY <1>4, VerifiedStays DEF Backed
<1> QED  BY <1>2, <1>3, <1>4 DEF Backed

LEMMA SomeStays ==
  ASSUME NEW p, NEW k, NEW b, NEW q, NEW l, NEW d, World(p, k, b), World(q, l, d),
         Grows(p, k, b, q, l, d), SomeVerified(p, k)
  PROVE  SomeVerified(q, l)
BY VerifiedStays DEF SomeVerified

LEMMA BackedIsSome ==
  ASSUME NEW p, NEW k, NEW f, Backed(f, p, k), f.status = "ready"
  PROVE  SomeVerified(p, k)
BY DEF Backed, SomeVerified

LEMMA CallStays ==
  ASSUME NEW p, NEW k, NEW b, NEW q, NEW l, NEW d, World(p, k, b), World(q, l, d),
         Grows(p, k, b, q, l, d), NEW x, CallOK(x, p, k, b)
  PROVE  CallOK(x, q, l, d)
<1>1. x \in Calls /\ Backed(x.rec, q, l)  BY BackedStays DEF CallOK
<1>2. Len(k) \in Nat /\ Len(l) \in Nat /\ Len(k) <= Len(l)  BY DEF World, Grows
<1>3. x.head \in Int /\ x.rec.pr \in Int  BY <1>1 DEF Calls, Foundations
<1>4. x.at \in Review \cup {"rules"} => x.rec.pr # 0 /\ x.rec.pr \in 1..Len(p)
  BY DEF CallOK, Backed
<1>5. x.at \in Review \ {"read"} => x.head \in 1..Len(k) /\ x.head \in 1..Len(l)
  BY <1>2, <1>3 DEF CallOK
<1>6. x.at \in {"promote", "reread", "merge", "confirm"} => l[x.head] = "passed"
  BY <1>5 DEF CallOK, Grows, Review
<1>7. x.at = "confirm" => q[x.rec.pr].state = "merged"
  BY <1>4 DEF CallOK, Grows, Review
<1>8. x.at = "checks" /\ x.merged => q[x.rec.pr].state = "merged" /\ q[x.rec.pr].head = x.head
  BY <1>4 DEF CallOK, Grows, Review
<1>9. x.at = "plan" => SomeVerified(q, l)  BY SomeStays DEF CallOK
<1>10. x.at \in {"find", "create"} => d # 0 /\ x.rec.status # "ready"  BY DEF CallOK, Grows
<1> QED  BY <1>1, <1>4, <1>5, <1>6, <1>7, <1>8, <1>9, <1>10 DEF CallOK

LEMMA SameGrows == GitHub /\ UNCHANGED <<prs, checks, branch>> => Steady
<1> SUFFICES ASSUME GitHub, UNCHANGED <<prs, checks, branch>> PROVE Steady  OBVIOUS
<1>1. Len(prs) \in Nat /\ Len(checks) \in Nat  BY DEF GitHub, World
<1> QED  BY <1>1 DEF Steady, Grows

-----------------------------------------------------------------------------
(* A step of one call, while GitHub moves on. *)

LEMMA CallMoves ==
  ASSUME GitHub, GitHub', Steady, CallsOK, NEW c \in Callers, NEW x,
         CallOK(x, prs', checks', branch'), th' = [th EXCEPT ![c] = x]
  PROVE  CallsOK'
<1>1. th' \in [Callers -> Calls]  BY DEF CallsOK, CallOK
<1>2. ASSUME NEW s \in Callers PROVE CallOK(th'[s], prs', checks', branch')
  <2>1. CASE s = c  BY <2>1 DEF CallsOK
  <2>2. CASE s # c
    <3>1. th'[s] = th[s] /\ CallOK(th[s], prs, checks, branch)  BY <2>2 DEF CallsOK
    <3>2. World(prs, checks, branch) /\ World(prs', checks', branch')  BY DEF GitHub
    <3> QED  BY <3>1, <3>2, CallStays DEF Steady
  <2> QED  BY <2>1, <2>2
<1> QED  BY <1>1, <1>2 DEF CallsOK

LEMMA CallsStand ==
  ASSUME GitHub, GitHub', Steady, CallsOK, th' = th
  PROVE  CallsOK'
<1>1. World(prs, checks, branch) /\ World(prs', checks', branch')  BY DEF GitHub
<1> QED  BY <1>1, CallStays DEF CallsOK, Steady

LEMMA EntryStands ==
  ASSUME GitHub, GitHub', Steady, EntryOK, entry' = entry
  PROVE  EntryOK'
<1>1. World(prs, checks, branch) /\ World(prs', checks', branch')  BY DEF GitHub
<1> QED  BY <1>1, BackedStays DEF EntryOK, Steady

LEMMA JobStands ==
  ASSUME GitHub, GitHub', Steady, JobOK, job' = job
  PROVE  JobOK'
<1>1. World(prs, checks, branch) /\ World(prs', checks', branch')  BY DEF GitHub
<1> QED  BY <1>1, SomeStays DEF JobOK, Steady

(* Going on with the same copy, or with another one.                        *)
LEMMA GoIs ==
  ASSUME CallsOK, NEW c \in Callers, NEW step \in Steps, Go(c, step)
  PROVE  /\ th' = [th EXCEPT ![c] = [th[c] EXCEPT !.at = step]]
         /\ [th[c] EXCEPT !.at = step]
              = [at |-> step, role |-> th[c].role, rec |-> th[c].rec, head |-> th[c].head, merged |-> th[c].merged]
<1>1. th[c] \in Calls  BY DEF CallsOK
<1> QED  BY <1>1 DEF Go, Calls

LEMMA GoWithIs ==
  ASSUME CallsOK, NEW c \in Callers, NEW step \in Steps, NEW rec, GoWith(c, step, rec)
  PROVE  th' = [th EXCEPT ![c] =
                  [at |-> step, role |-> th[c].role, rec |-> rec, head |-> th[c].head, merged |-> th[c].merged]]
<1>1. th[c] \in Calls  BY DEF CallsOK
<1> DEFINE z == [at |-> step, role |-> th[c].role, rec |-> th[c].rec, head |-> th[c].head, merged |-> th[c].merged]
           y == [at |-> step, role |-> th[c].role, rec |-> rec, head |-> th[c].head, merged |-> th[c].merged]
           W == [th EXCEPT ![c] = z]
<1>2. th \in [Callers -> Calls]  BY DEF CallsOK
<1>3. [th[c] EXCEPT !.at = step] = z  BY <1>1 DEF Calls
<1>4. W[c] = z /\ DOMAIN W = Callers  BY <1>2
<1>5. [z EXCEPT !.rec = rec] = y  OBVIOUS
<1>6. th' = [W EXCEPT ![c] = [W[c] EXCEPT !.rec = rec]]  BY <1>3 DEF GoWith
<1> HIDE DEF z, y
<1>7. th' = [W EXCEPT ![c] = y]  BY <1>4, <1>5, <1>6
<1>8. [W EXCEPT ![c] = y] = [th EXCEPT ![c] = y]  BY <1>2
<1> QED  BY <1>7, <1>8 DEF y

(* Steps at which a call needs to know nothing but its copy.                *)
Plain == {"idle", "held", "sync", "save", "newJob", "newHeldJob", "hold"}

LEMMA GoPlain ==
  ASSUME IInv, GitHub', Steady, NEW c \in Callers, NEW step \in Plain, Go(c, step)
  PROVE  CallsOK'
<1>1. step \in Steps /\ step \notin Review \cup {"rules", "find", "create", "plan"}
  BY DEF Plain, Steps, Begin, Review
<1>2. CallOK(th[c], prs', checks', branch')
  BY CallStays DEF IInv, GitHub, CallsOK, Steady
<1> DEFINE x == [th[c] EXCEPT !.at = step]
<1>3. /\ th' = [th EXCEPT ![c] = x]
      /\ x = [at |-> step, role |-> th[c].role, rec |-> th[c].rec, head |-> th[c].head, merged |-> th[c].merged]
  BY <1>1, GoIs DEF IInv
<1>4. CallOK(x, prs', checks', branch')
  BY <1>1, <1>2, <1>3 DEF CallOK, Calls, Review
<1> QED  BY <1>3, <1>4, CallMoves DEF IInv

LEMMA GoWithSave ==
  ASSUME IInv, GitHub', Steady, NEW c \in Callers, NEW rec, Backed(rec, prs', checks'), GoWith(c, "save", rec)
  PROVE  CallsOK'
<1> DEFINE x == [at |-> "save", role |-> th[c].role, rec |-> rec, head |-> th[c].head, merged |-> th[c].merged]
<1>1. th[c] \in Calls  BY DEF IInv, CallsOK
<1>2. "save" \in Steps  BY DEF Steps
<1>3. th' = [th EXCEPT ![c] = x]  BY <1>2, GoWithIs DEF IInv
<1>4. CallOK(x, prs', checks', branch')
  BY <1>1, <1>2 DEF CallOK, Calls, Review, Backed
<1> QED  BY <1>3, <1>4, CallMoves DEF IInv

(* Planning is started only on a result that says ready.                    *)
LEMMA Returns ==
  ASSUME IInv, GitHub', Steady, NEW c \in Callers, NEW result, Return(c, result),
         result = "ready" => SomeVerified(prs', checks')
  PROVE  CallsOK'
<1> DEFINE step == After(th[c].role, result)
<1>1. CASE step \in Plain  BY <1>1, GoPlain DEF Return
<1>2. CASE step = "plan"
  <2>1. result = "ready"  BY <1>2 DEF After, Proceeds
  <2>2. CallOK(th[c], prs', checks', branch')
    BY CallStays DEF IInv, GitHub, CallsOK, Steady
  <2> DEFINE x == [th[c] EXCEPT !.at = "plan"]
  <2>3. "plan" \in Steps  BY DEF Steps
  <2>4. /\ th' = [th EXCEPT ![c] = x]
        /\ x = [at |-> "plan", role |-> th[c].role, rec |-> th[c].rec, head |-> th[c].head, merged |-> th[c].merged]
    BY <1>2, <2>3, GoIs DEF IInv, Return
  <2>5. CallOK(x, prs', checks', branch')
    BY <2>1, <2>2, <2>3, <2>4 DEF CallOK, Calls, Review
  <2> QED  BY <2>4, <2>5, CallMoves DEF IInv
<1>3. step \in Plain \cup {"plan"}  BY DEF After, Plain
<1> QED  BY <1>1, <1>2, <1>3

(* What a step of a call leaves alone.                                      *)
LEMMA Frame ==
  ASSUME IInv, UNCHANGED <<entry, prs, checks, branch, worktree, job>>, CallsOK',
         left' \in [faults : Nat, tools : Nat, foreign : Nat]
  PROVE  IInv'
BY DEF IInv, GitHub, EntryOK, JobOK, RestOK

LEMMA Unmoved ==
  ASSUME IInv, UNCHANGED <<prs, checks, branch>>
  PROVE  GitHub' /\ Steady
BY SameGrows DEF IInv, GitHub

LEMMA GoKnowing ==
  ASSUME IInv, GitHub', Steady, NEW c \in Callers, NEW step \in Steps \ {"checks", "plan"}, Go(c, step),
         step \in Review \cup {"rules"} => th[c].rec.pr # 0,
         step \in Review \ {"read"} => th[c].head \in 1..Len(checks'),
         step \in {"find", "create"} => branch' # 0 /\ th[c].rec.status # "ready",
         step \in {"promote", "reread", "merge", "confirm"} => checks'[th[c].head] = "passed",
         step = "confirm" => prs'[th[c].rec.pr].state = "merged"
  PROVE  CallsOK'
<1> DEFINE x == [th[c] EXCEPT !.at = step]
<1>1. CallOK(th[c], prs', checks', branch')
  BY CallStays DEF IInv, GitHub, CallsOK, Steady
<1>2. /\ th' = [th EXCEPT ![c] = x]
      /\ x = [at |-> step, role |-> th[c].role, rec |-> th[c].rec, head |-> th[c].head, merged |-> th[c].merged]
  BY GoIs DEF IInv
<1>3. CallOK(x, prs', checks', branch')
  BY <1>1, <1>2 DEF CallOK, Calls
<1> QED  BY <1>2, <1>3, CallMoves DEF IInv

(* What an unchanged GitHub and a call's step leave to show.                *)
LEMMA OwnStep ==
  ASSUME IInv, NEW c \in Callers, UNCHANGED <<entry, prs, checks, branch, worktree, job, left>>
  PROVE  /\ GitHub' /\ Steady /\ (CallsOK' => IInv')
         /\ CallOK(th[c], prs', checks', branch')
<1>1. GitHub' /\ Steady  BY Unmoved
<1>2. CallsOK' => IInv'  BY Frame DEF IInv, RestOK
<1>3. CallOK(th[c], prs', checks', branch')  BY DEF IInv, CallsOK
<1> QED  BY <1>1, <1>2, <1>3

-----------------------------------------------------------------------------
(* The calls' own steps. *)

LEMMA SyncStep == IInv /\ (\E c \in Callers : Sync(c)) => IInv'
<1> SUFFICES ASSUME IInv, NEW c \in Callers, Sync(c) PROVE IInv'  OBVIOUS
<1>1. GitHub' /\ Steady /\ UNCHANGED <<entry, prs, checks, branch, worktree, job, left>>
  BY Unmoved DEF Sync
<1>2. th[c] \in Calls /\ Backed(entry, prs', checks')  BY <1>1 DEF IInv, CallsOK, EntryOK
<1> SUFFICES CallsOK'  BY <1>1, Frame DEF IInv, RestOK
<1>3. CASE entry.status = "ready" /\ Return(c, "ready")
  <2>1. SomeVerified(prs', checks')  BY <1>2, <1>3, BackedIsSome
  <2> QED  BY <1>1, <1>3, <2>1, Returns
<1>4. CASE Return(c, "error")  BY <1>1, <1>4, Returns
<1>5. ASSUME NEW step \in {"branch", "read"}, NEW rec, Backed(rec, prs', checks'),
             step = "read" => rec.pr # 0, GoWith(c, step, rec)
      PROVE  CallsOK'
  <2> DEFINE x == [at |-> step, role |-> th[c].role, rec |-> rec, head |-> th[c].head, merged |-> th[c].merged]
  <2>1. step \in Steps /\ step \notin (Review \ {"read"}) \cup {"rules", "find", "create", "plan"}
    BY DEF Steps, Begin, Review
  <2>2. th' = [th EXCEPT ![c] = x]  BY <1>5, <2>1, GoWithIs DEF IInv
  <2>3. CallOK(x, prs', checks', branch')
    BY <1>2, <1>5, <2>1 DEF CallOK, Calls, Review, Backed
  <2> QED  BY <1>1, <2>2, <2>3, CallMoves DEF IInv
<1>6. CASE GoWith(c, "branch", NoFoundation)
  <2>1. Backed(NoFoundation, prs', checks')
    <3>1. MaxPRs \in Nat /\ MaxCommits \in Nat  BY FoundationAssumption
    <3> QED  BY <3>1 DEF Backed, NoFoundation, Foundations
  <2> QED  BY <1>5, <1>6, <2>1
<1>7. CASE GoWith(c, IF entry.pr # 0 THEN "read" ELSE "branch", entry)
  <2>1. CASE entry.pr # 0  BY <1>2, <1>5, <1>7, <2>1
  <2>2. CASE entry.pr = 0  BY <1>2, <1>5, <1>7, <2>2
  <2> QED  BY <2>1, <2>2
<1> QED  BY <1>3, <1>4, <1>6, <1>7 DEF Sync

LEMMA FindStep == IInv /\ (\E c \in Callers : Find(c)) => IInv'
<1> SUFFICES ASSUME IInv, NEW c \in Callers, Find(c) PROVE IInv'  OBVIOUS
<1>1. GitHub' /\ Steady /\ (CallsOK' => IInv') /\ CallOK(th[c], prs', checks', branch')
  BY OwnStep DEF Find
<1> SUFFICES CallsOK'  BY <1>1
<1>2. ASSUME NEW i \in DOMAIN prs, GoWith(c, "rules", [th[c].rec EXCEPT !.pr = i]),
             th[c].rec.status # "ready"
      PROVE  CallsOK'
  <2> DEFINE rec == [th[c].rec EXCEPT !.pr = i]
             x == [at |-> "rules", role |-> th[c].role, rec |-> rec, head |-> th[c].head, merged |-> th[c].merged]
  <2>1. i \in 1..Len(prs') /\ i # 0 /\ i \in 0..MaxPRs
    <3>1. UNCHANGED prs /\ prs \in Seq(PullRequests) /\ Len(prs) <= MaxPRs  BY DEF Find, IInv, GitHub, World
    <3> QED  BY <3>1, FoundationAssumption
  <2>2. rec \in Foundations /\ rec.pr = i /\ rec.status # "ready"
    BY <1>1, <1>2, <2>1 DEF CallOK, Backed, Foundations
  <2> HIDE DEF rec
  <2>3. Backed(rec, prs', checks')  BY <2>1, <2>2 DEF Backed
  <2>4. "rules" \in Steps  BY DEF Steps, Begin
  <2>5. th' = [th EXCEPT ![c] = x]  BY <1>2, <2>4, GoWithIs DEF IInv, rec
  <2>6. CallOK(x, prs', checks', branch')
    BY <1>1, <2>1, <2>2, <2>3, <2>4 DEF CallOK, Calls, Review
  <2> QED  BY <1>1, <2>5, <2>6, CallMoves DEF IInv
<1>3. CASE Go(c, "create")
  <2>1. "create" \in Steps \ {"checks", "plan"} /\ "create" \notin Review \cup {"rules"}
    BY DEF Steps, Begin, Review
  <2>2. branch' # 0 /\ th[c].rec.status # "ready"  BY <1>1 DEF CallOK, Find, At
  <2> QED  BY <1>1, <1>3, <2>1, <2>2, GoKnowing
<1>4. th[c].rec.status # "ready"  BY <1>1 DEF CallOK, Find, At
<1> QED  BY <1>2, <1>3, <1>4 DEF Find

LEMMA EnsureRequiredCheckStep == IInv /\ (\E c \in Callers : EnsureRequiredCheck(c)) => IInv'
<1> SUFFICES ASSUME IInv, NEW c \in Callers, EnsureRequiredCheck(c) PROVE IInv'  OBVIOUS
<1>1. GitHub' /\ Steady /\ (CallsOK' => IInv')  BY OwnStep DEF EnsureRequiredCheck
<1> QED  BY <1>1, GoPlain DEF EnsureRequiredCheck, Plain

(* What reconcileFoundation concludes.                                      *)
LEMMA Concludes ==
  ASSUME IInv, GitHub', Steady, NEW c \in Callers, CallOK(th[c], prs', checks', branch'), th[c].rec.pr # 0,
         \/ Conclude(c, "blocked")
         \/ /\ ConcludeReady(c, th[c].head) /\ th[c].head \in 1..Len(checks')
            /\ VerifiedIn(prs', checks', th[c].rec.pr) /\ prs'[th[c].rec.pr].head = th[c].head
  PROVE  CallsOK'
<1>1. th[c].rec \in Foundations /\ th[c].rec.pr \in 1..Len(prs')  BY DEF CallOK, Backed
<1>2. CASE Conclude(c, "blocked")
  <2> DEFINE rec == [th[c].rec EXCEPT !.status = "blocked"]
  <2>1. Backed(rec, prs', checks')  BY <1>1 DEF Backed, Foundations
  <2> QED  BY <1>2, <2>1, GoWithSave DEF Conclude
<1>3. CASE ConcludeReady(c, th[c].head) /\ th[c].head \in 1..Len(checks')
           /\ VerifiedIn(prs', checks', th[c].rec.pr) /\ prs'[th[c].rec.pr].head = th[c].head
  <2> DEFINE rec == [th[c].rec EXCEPT !.status = "ready", !.sha = th[c].head]
  <2>1. th[c].head \in 0..MaxCommits  BY DEF CallOK, Calls
  <2>2. rec \in Foundations /\ rec.pr = th[c].rec.pr /\ rec.sha = th[c].head
    BY <1>1, <2>1 DEF Foundations
  <2>3. Backed(rec, prs', checks')  BY <1>1, <1>3, <2>2 DEF Backed
  <2> QED  BY <1>3, <2>3, GoWithSave DEF ConcludeReady
<1> QED  BY <1>2, <1>3

LEMMA ReadPRStep == IInv /\ (\E c \in Callers : ReadPR(c)) => IInv'
<1> SUFFICES ASSUME IInv, NEW c \in Callers, ReadPR(c) PROVE IInv'  OBVIOUS
<1>1. GitHub' /\ Steady /\ (CallsOK' => IInv') /\ CallOK(th[c], prs', checks', branch')
  BY OwnStep DEF ReadPR
<1> SUFFICES CallsOK'  BY <1>1
<1>2. th[c].rec.pr # 0 /\ th[c] \in Calls /\ th[c].rec.pr \in 1..Len(prs')
  BY <1>1 DEF ReadPR, At, CallOK, Review, Backed
<1>3. CASE Conclude(c, "blocked")  BY <1>1, <1>2, <1>3, Concludes
<1>4. CASE th' = [th EXCEPT ![c] = Examine(c)]
  <2> DEFINE i == th[c].rec.pr
             x == [at |-> "checks", role |-> th[c].role, rec |-> th[c].rec, head |-> prs[i].head,
                   merged |-> (prs[i].state = "merged")]
  <2>7. Examine(c) = x  BY DEF Examine, PR
  <2>2. UNCHANGED <<prs, checks>>  BY DEF ReadPR
  <2>3. prs'[i].head \in 1..Len(checks') /\ prs'[i].head \in 0..MaxCommits
    BY <1>1, <1>2, FoundationAssumption DEF GitHub, World
  <2>4. "checks" \in Steps  BY DEF Steps, Review
  <2>5. x \in Calls  BY <1>2, <2>2, <2>3, <2>4 DEF Calls
  <2>6. CallOK(x, prs', checks', branch')
    BY <1>1, <1>2, <2>2, <2>3, <2>5 DEF CallOK
  <2> QED  BY <1>1, <1>4, <2>6, <2>7, CallMoves DEF IInv
<1> QED  BY <1>3, <1>4 DEF ReadPR

LEMMA ReadChecksStep == IInv /\ (\E c \in Callers : ReadChecks(c)) => IInv'
<1> SUFFICES ASSUME IInv, NEW c \in Callers, ReadChecks(c) PROVE IInv'  OBVIOUS
<1>1. GitHub' /\ Steady /\ (CallsOK' => IInv') /\ CallOK(th[c], prs', checks', branch')
  BY OwnStep DEF ReadChecks
<1> SUFFICES CallsOK'  BY <1>1
<1>2. th[c].rec.pr # 0 /\ th[c].head \in 1..Len(checks') /\ UNCHANGED <<prs, checks>>
  BY <1>1 DEF ReadChecks, At, CallOK, Review
<1>3. CASE Conclude(c, "blocked")  BY <1>1, <1>2, <1>3, Concludes
<1>4. CASE Return(c, "pending")  BY <1>1, <1>4, Returns
<1>5. CASE Succeeded(checks[th[c].head]) /\ th[c].merged /\ ConcludeReady(c, th[c].head)
  <2>1. VerifiedIn(prs', checks', th[c].rec.pr) /\ prs'[th[c].rec.pr].head = th[c].head
    BY <1>1, <1>2, <1>5 DEF CallOK, ReadChecks, At, Succeeded, VerifiedIn
  <2> QED  BY <1>1, <1>2, <1>5, <2>1, Concludes
<1>6. CASE Succeeded(checks[th[c].head]) /\ Go(c, "promote")
  <2>1. "promote" \in Steps \ {"checks", "plan"}  BY DEF Steps, Review
  <2> QED  BY <1>1, <1>2, <1>6, <2>1, GoKnowing DEF Succeeded
<1> QED  BY <1>3, <1>4, <1>5, <1>6 DEF ReadChecks

LEMMA RereadStep == IInv /\ (\E c \in Callers : Reread(c)) => IInv'
<1> SUFFICES ASSUME IInv, NEW c \in Callers, Reread(c) PROVE IInv'  OBVIOUS
<1>1. GitHub' /\ Steady /\ (CallsOK' => IInv') /\ CallOK(th[c], prs', checks', branch')
  BY OwnStep DEF Reread
<1> SUFFICES CallsOK'  BY <1>1
<1>2. th[c].rec.pr # 0 /\ th[c].head \in 1..Len(checks') /\ checks'[th[c].head] = "passed"
  BY <1>1 DEF Reread, At, CallOK, Review
<1>3. CASE Return(c, "pending")  BY <1>1, <1>3, Returns
<1>4. CASE Go(c, "merge")
  <2>1. "merge" \in Steps \ {"checks", "plan"}  BY DEF Steps, Review
  <2> QED  BY <1>1, <1>2, <1>4, <2>1, GoKnowing
<1> QED  BY <1>3, <1>4 DEF Reread

LEMMA ConfirmStep == IInv /\ (\E c \in Callers : Confirm(c)) => IInv'
<1> SUFFICES ASSUME IInv, NEW c \in Callers, Confirm(c) PROVE IInv'  OBVIOUS
<1>1. GitHub' /\ Steady /\ (CallsOK' => IInv') /\ CallOK(th[c], prs', checks', branch') /\ UNCHANGED <<prs, checks>>
  BY OwnStep DEF Confirm
<1> SUFFICES CallsOK'  BY <1>1
<1>2. th[c].rec.pr # 0 /\ th[c].head \in 1..Len(checks') /\ checks'[th[c].head] = "passed"
      /\ prs'[th[c].rec.pr].state = "merged"
  BY <1>1 DEF Confirm, At, CallOK, Review
<1>3. CASE Conclude(c, "blocked")  BY <1>1, <1>2, <1>3, Concludes
<1>4. CASE PR(c).head = th[c].head /\ ConcludeReady(c, th[c].head)
  BY <1>1, <1>2, <1>4, Concludes DEF PR, VerifiedIn
<1> QED  BY <1>3, <1>4 DEF Confirm

-----------------------------------------------------------------------------
(* Steps that change what is on GitHub. *)

LEMMA PullRequestChanges ==
  ASSUME GitHub, NEW i \in DOMAIN prs, NEW y \in PullRequests, y.head \in 1..Len(checks),
         prs[i].state = "merged" => y.state = "merged" /\ y.head = prs[i].head,
         prs' = [prs EXCEPT ![i] = y], UNCHANGED <<checks, branch>>
  PROVE  GitHub' /\ Steady
<1>1. prs \in Seq(PullRequests) /\ Len(prs) \in Nat /\ DOMAIN prs = 1..Len(prs) /\ Len(checks) \in Nat
  BY DEF GitHub, World
<1>2. prs' \in Seq(PullRequests) /\ Len(prs') = Len(prs)  BY <1>1
<1>3. ASSUME NEW n \in 1..Len(prs)
      PROVE  /\ prs'[n].head \in 1..Len(checks')
             /\ prs[n].state = "merged" => prs'[n].state = "merged" /\ prs'[n].head = prs[n].head
  BY <1>1, <1>3 DEF GitHub, World
<1>4. GitHub'  BY <1>1, <1>2, <1>3 DEF GitHub, World
<1>5. Steady  BY <1>1, <1>2, <1>3 DEF Steady, Grows
<1> QED  BY <1>4, <1>5

LEMMA PullRequestOpens ==
  ASSUME GitHub, branch # 0, Len(prs) < MaxPRs, prs' = NewPR, UNCHANGED <<checks, branch>>
  PROVE  GitHub' /\ Steady /\ Len(prs') = Len(prs) + 1 /\ Len(prs') \in 1..MaxPRs
<1> DEFINE y == [version |-> "current", state |-> "open", draft |-> TRUE, head |-> branch]
<1>1. prs \in Seq(PullRequests) /\ Len(prs) \in Nat /\ Len(checks) \in Nat /\ MaxPRs \in Nat /\ MaxCommits \in Nat
      /\ Len(checks) <= MaxCommits /\ branch \in 1..Len(checks)
  BY FoundationAssumption DEF GitHub, World
<1>2. y \in PullRequests  BY <1>1 DEF PullRequests
<1> HIDE DEF y
<1>3. prs' = Append(prs, y)  BY DEF NewPR, y
<1>4. prs' \in Seq(PullRequests) /\ Len(prs') = Len(prs) + 1 /\ prs'[Len(prs) + 1] = y
      /\ \A i \in 1..Len(prs) : prs'[i] = prs[i]
  BY <1>1, <1>2, <1>3
<1>5. \A i \in 1..Len(prs') : prs'[i].head \in 1..Len(checks')
  <2> SUFFICES ASSUME NEW i \in 1..Len(prs') PROVE prs'[i].head \in 1..Len(checks')  OBVIOUS
  <2>1. CASE i \in 1..Len(prs)  BY <1>4, <2>1 DEF GitHub, World
  <2>2. CASE i = Len(prs) + 1  BY <1>1, <1>4, <2>2 DEF y
  <2> QED  BY <1>1, <1>4, <2>1, <2>2
<1>6. GitHub'  BY <1>1, <1>4, <1>5 DEF GitHub, World
<1>7. Steady  BY <1>1, <1>4 DEF Steady, Grows
<1> QED  BY <1>1, <1>4, <1>6, <1>7

LEMMA ChecksChange ==
  ASSUME GitHub, NEW c \in DOMAIN checks, NEW result \in Results, checks[c] # "passed",
         checks' = [checks EXCEPT ![c] = result], UNCHANGED <<prs, branch>>
  PROVE  GitHub' /\ Steady /\ Len(checks') = Len(checks)
<1>1. checks \in Seq(Results) /\ Len(checks) \in Nat /\ Len(prs) \in Nat  BY DEF GitHub, World
<1>2. checks' \in Seq(Results) /\ Len(checks') = Len(checks)  BY <1>1
<1>3. \A n \in 1..Len(checks) : checks[n] = "passed" => checks'[n] = "passed"  BY <1>1
<1>4. GitHub'  BY <1>1, <1>2 DEF GitHub, World
<1>5. Steady  BY <1>1, <1>2, <1>3 DEF Steady, Grows
<1> QED  BY <1>2, <1>4, <1>5

(* A commit is pushed; the open pull requests of the branch may follow.     *)
LEMMA CommitPushed ==
  ASSUME GitHub, Len(checks) < MaxCommits, checks' = Append(checks, "pending"),
         branch' \in {branch, Len(checks')}, DOMAIN prs' = DOMAIN prs, Len(prs') = Len(prs),
         prs' \in Seq(PullRequests),
         \A i \in DOMAIN prs : prs'[i] = prs[i] \/ (prs[i].state # "merged" /\ prs'[i].head = Len(checks'))
  PROVE  GitHub' /\ Steady /\ Len(checks') = Len(checks) + 1
<1>1. checks \in Seq(Results) /\ Len(checks) \in Nat /\ Len(prs) \in Nat /\ MaxCommits \in Nat
      /\ prs \in Seq(PullRequests) /\ branch \in 0..Len(checks)
      /\ DOMAIN prs = 1..Len(prs) /\ \A i \in 1..Len(prs) : prs[i].head \in 1..Len(checks)
  BY FoundationAssumption DEF GitHub, World
<1>2. checks' \in Seq(Results) /\ Len(checks') = Len(checks) + 1
      /\ \A n \in 1..Len(checks) : checks'[n] = checks[n]
  BY <1>1 DEF Results
<1>3. \A i \in 1..Len(prs) : prs'[i].head \in 1..Len(checks')
  BY <1>1, <1>2
<1>4. GitHub'  BY <1>1, <1>2, <1>3 DEF GitHub, World
<1>5. Steady
  <2>1. \A i \in 1..Len(prs) : prs[i].state = "merged" => prs'[i] = prs[i]  BY <1>1
  <2>2. branch # 0 => branch' # 0  BY <1>1, <1>2
  <2> QED  BY <1>1, <1>2, <2>1, <2>2 DEF Steady, Grows
<1> QED  BY <1>2, <1>4, <1>5

LEMMA WorldStep ==
  ASSUME IInv, GitHub', Steady, CallsOK', UNCHANGED <<entry, job>>,
         worktree' \in 0..Len(checks'), left' \in [faults : Nat, tools : Nat, foreign : Nat]
  PROVE  IInv'
BY EntryStands, JobStands DEF IInv, RestOK

LEMMA PromoteStep == IInv /\ (\E c \in Callers : Promote(c)) => IInv'
<1> SUFFICES ASSUME IInv, NEW c \in Callers, Promote(c) PROVE IInv'  OBVIOUS
<1>1. CallOK(th[c], prs, checks, branch) /\ At(c, "promote")  BY DEF IInv, CallsOK, Promote
<1>2. /\ th[c].rec.pr # 0 /\ th[c].rec.pr \in DOMAIN prs /\ th[c].head \in 1..Len(checks)
      /\ checks[th[c].head] = "passed" /\ prs \in Seq(PullRequests) /\ Len(prs) \in Nat
  BY <1>1 DEF CallOK, Backed, At, Review, IInv, GitHub, World
<1>3. UNCHANGED <<entry, checks, branch, worktree, job, left>>  BY DEF Promote
<1>4. CASE PR(c).state = "open"
  <2> DEFINE i == th[c].rec.pr
             y == [prs[i] EXCEPT !.draft = FALSE]
  <2>1. prs' = [prs EXCEPT ![i] = y] /\ Go(c, "reread")  BY <1>4 DEF Promote
  <2>2. prs[i] \in PullRequests /\ prs[i].state # "merged"  BY <1>2, <1>4 DEF PR
  <2>3. y \in PullRequests /\ y.head = prs[i].head  BY <2>2 DEF PullRequests
  <2>4. prs[i].head \in 1..Len(checks)  BY <1>2 DEF IInv, GitHub, World
  <2> HIDE DEF y
  <2>5. GitHub' /\ Steady  BY <1>2, <1>3, <2>1, <2>2, <2>3, <2>4, PullRequestChanges DEF IInv
  <2>6. "reread" \in Steps \ {"checks", "plan"}  BY DEF Steps, Review
  <2>7. CallsOK'  BY <1>2, <1>3, <2>1, <2>5, <2>6, GoKnowing
  <2> QED  BY <1>3, <2>5, <2>7, WorldStep DEF IInv, RestOK
<1>5. CASE UNCHANGED prs /\ Return(c, "error")
  BY <1>3, <1>5, OwnStep, Returns
<1> QED  BY <1>4, <1>5 DEF Promote

(* The merge of a pull request whose head the caller has verified.          *)
LEMMA Merges ==
  ASSUME IInv, NEW c \in Callers, At(c, "merge"), Mergeable(c), prs' = Merged(c), UNCHANGED <<checks, branch>>
  PROVE  /\ GitHub' /\ Steady
         /\ th[c].rec.pr # 0 /\ th[c].head \in 1..Len(checks')
         /\ checks'[th[c].head] = "passed" /\ prs'[th[c].rec.pr].state = "merged"
<1>1. CallOK(th[c], prs, checks, branch)  BY DEF IInv, CallsOK
<1>2. /\ th[c].rec.pr # 0 /\ th[c].rec.pr \in DOMAIN prs /\ th[c].head \in 1..Len(checks)
      /\ checks[th[c].head] = "passed" /\ prs \in Seq(PullRequests)
  BY <1>1 DEF CallOK, Backed, At, Review, IInv, GitHub, World
<1> DEFINE i == th[c].rec.pr
           y == [prs[i] EXCEPT !.state = "merged"]
<1>3. prs[i] \in PullRequests /\ prs[i].state = "open" /\ prs' = [prs EXCEPT ![i] = y]
  BY <1>2 DEF Mergeable, Merged, PR
<1>4. y \in PullRequests /\ y.head = prs[i].head /\ y.state = "merged"  BY <1>3 DEF PullRequests
<1>5. prs[i].head \in 1..Len(checks)  BY <1>2 DEF IInv, GitHub, World
<1> HIDE DEF y
<1>6. GitHub' /\ Steady  BY <1>2, <1>3, <1>4, <1>5, PullRequestChanges DEF IInv
<1> QED  BY <1>2, <1>3, <1>4, <1>6

LEMMA MergePRStep == IInv /\ (\E c \in Callers : MergePR(c)) => IInv'
<1> SUFFICES ASSUME IInv, NEW c \in Callers, MergePR(c) PROVE IInv'  OBVIOUS
<1>1. At(c, "merge") /\ UNCHANGED <<entry, checks, branch, worktree, job, left>>  BY DEF MergePR
<1>2. CASE Mergeable(c) /\ prs' = Merged(c) /\ Go(c, "confirm")
  <2>1. "confirm" \in Steps \ {"checks", "plan"}  BY DEF Steps, Review
  <2>2. GitHub' /\ Steady /\ CallsOK'  BY <1>1, <1>2, <2>1, Merges, GoKnowing
  <2> QED  BY <1>1, <2>2, WorldStep DEF IInv, RestOK
<1>3. CASE UNCHANGED prs /\ Return(c, "error")
  BY <1>1, <1>3, OwnStep, Returns
<1> QED  BY <1>2, <1>3 DEF MergePR

LEMMA CreatePRStep == IInv /\ (\E c \in Callers : CreatePR(c)) => IInv'
<1> SUFFICES ASSUME IInv, NEW c \in Callers, CreatePR(c) PROVE IInv'  OBVIOUS
<1>1. Len(prs) < MaxPRs /\ UNCHANGED <<entry, checks, branch, worktree, job, left>>  BY DEF CreatePR
<1>2. CallOK(th[c], prs, checks, branch) /\ branch # 0 /\ th[c].rec.status # "ready"
  BY DEF IInv, CallsOK, CreatePR, CallOK, At
<1>3. CASE prs' = NewPR /\ GoWith(c, "rules", [th[c].rec EXCEPT !.pr = Len(prs')])
  <2>1. GitHub' /\ Steady /\ Len(prs') \in 1..MaxPRs
    BY <1>1, <1>2, <1>3, PullRequestOpens DEF IInv
  <2>2. CallOK(th[c], prs', checks', branch')
    BY <2>1, CallStays DEF IInv, GitHub, CallsOK, Steady
  <2> DEFINE rec == [th[c].rec EXCEPT !.pr = Len(prs')]
             x == [at |-> "rules", role |-> th[c].role, rec |-> rec, head |-> th[c].head, merged |-> th[c].merged]
  <2>3. rec \in Foundations /\ rec.pr = Len(prs') /\ rec.status # "ready"
    BY <1>2, <2>1, <2>2, FoundationAssumption DEF CallOK, Backed, Foundations
  <2> HIDE DEF rec
  <2>4. Backed(rec, prs', checks')  BY <2>1, <2>3 DEF Backed
  <2>5. "rules" \in Steps  BY DEF Steps, Begin
  <2>6. th' = [th EXCEPT ![c] = x]  BY <1>3, <2>5, GoWithIs DEF IInv, rec
  <2>7. CallOK(x, prs', checks', branch')
    BY <2>1, <2>2, <2>3, <2>4, <2>5 DEF CallOK, Calls, Review
  <2>8. CallsOK'  BY <2>1, <2>6, <2>7, CallMoves DEF IInv
  <2> QED  BY <1>1, <2>1, <2>8, WorldStep DEF IInv, RestOK
<1>4. CASE UNCHANGED prs /\ Return(c, "error")
  BY <1>1, <1>4, OwnStep, Returns
<1> QED  BY <1>3, <1>4 DEF CreatePR

LEMMA BranchStep == IInv /\ (\E c \in Callers : Branch(c)) => IInv'
<1> SUFFICES ASSUME IInv, NEW c \in Callers, Branch(c) PROVE IInv'  OBVIOUS
<1> DEFINE sha == IF worktree = 0 THEN Len(checks) + 1 ELSE worktree
           rec == [version |-> "current", pr |-> 0, sha |-> sha, status |-> "pending"]
<1>1. UNCHANGED <<entry, prs, job, left>> /\ worktree' = sha  BY DEF Branch
<1>2. /\ Len(checks) \in Nat /\ worktree \in 0..Len(checks) /\ branch \in 0..Len(checks)
      /\ prs \in Seq(PullRequests) /\ MaxCommits \in Nat /\ MaxPRs \in Nat /\ Len(checks) <= MaxCommits
  BY FoundationAssumption DEF IInv, GitHub, World, RestOK
<1>3. branch' = branch \/ (branch' = sha /\ GoWith(c, "find", rec))  BY DEF Branch
<1>4. GitHub' /\ Steady /\ sha \in 1..Len(checks')
  <2>1. CASE worktree = 0
    <3>1. Len(checks) < MaxCommits /\ checks' = Append(checks, "pending")  BY <2>1 DEF Branch
    <3>2. Len(checks') = Len(checks) + 1  BY <1>2, <3>1
    <3>3. branch' \in {branch, Len(checks')}  BY <1>3, <2>1, <3>2
    <3>4. GitHub' /\ Steady  BY <1>1, <1>2, <3>1, <3>3, CommitPushed DEF IInv
    <3> QED  BY <1>2, <2>1, <3>2, <3>4
  <2>2. CASE worktree # 0
    <3>1. UNCHANGED checks  BY <2>2 DEF Branch
    <3>2. branch' \in 0..Len(checks) /\ (branch # 0 => branch' # 0)  BY <1>2, <1>3, <2>2
    <3>3. GitHub'  BY <1>1, <3>1, <3>2 DEF IInv, GitHub, World
    <3>4. Steady  BY <1>1, <1>2, <3>1, <3>2 DEF Steady, Grows
    <3> QED  BY <1>2, <2>2, <3>1, <3>3, <3>4
  <2> QED  BY <2>1, <2>2
<1>5. CallsOK'
  <2>1. CASE Return(c, "error")  BY <1>4, <2>1, Returns
  <2>2. CASE branch' = sha /\ GoWith(c, "find", rec)
    <3> DEFINE x == [at |-> "find", role |-> th[c].role, rec |-> rec, head |-> th[c].head, merged |-> th[c].merged]
    <3>1. "find" \in Steps  BY DEF Steps, Begin
    <3>2. th' = [th EXCEPT ![c] = x]  BY <2>2, <3>1, GoWithIs DEF IInv
    <3>3. th[c] \in Calls  BY DEF IInv, CallsOK
    <3>4. sha \in 0..MaxCommits  BY <1>2, <1>4 DEF GitHub, World
    <3>5. rec \in Foundations  BY <1>2, <3>4 DEF Foundations
    <3>6. Backed(rec, prs', checks')  BY <3>5 DEF Backed
    <3>7. branch' # 0  BY <1>2, <1>4, <2>2
    <3>8. CallOK(x, prs', checks', branch')
      BY <3>1, <3>3, <3>5, <3>6, <3>7 DEF CallOK, Calls, Review
    <3> QED  BY <1>4, <3>2, <3>8, CallMoves DEF IInv
  <2> QED  BY <2>1, <2>2 DEF Branch
<1>6. worktree' \in 0..Len(checks')  BY <1>1, <1>4
<1> QED  BY <1>1, <1>4, <1>5, <1>6, WorldStep DEF IInv, RestOK

-----------------------------------------------------------------------------
(* Records and jobs. *)

LEMMA SaveStep == IInv /\ (\E c \in Callers : Save(c)) => IInv'
<1> SUFFICES ASSUME IInv, NEW c \in Callers, Save(c) PROVE IInv'  OBVIOUS
<1>1. UNCHANGED <<prs, checks, branch, worktree, job, left>> /\ entry' = th[c].rec  BY DEF Save
<1>2. GitHub' /\ Steady  BY <1>1, Unmoved
<1>3. EntryOK'  BY <1>1 DEF IInv, CallsOK, CallOK, EntryOK
<1>4. th[c].rec.status = "ready" => SomeVerified(prs', checks')
  BY <1>1, BackedIsSome DEF IInv, CallsOK, CallOK
<1>5. CallsOK'  BY <1>2, <1>4, Returns DEF Save
<1> QED  BY <1>1, <1>2, <1>3, <1>5 DEF IInv, JobOK, RestOK

LEMMA JobStep ==
  ASSUME IInv, NEW c \in Callers, NEW step \in Plain, Go(c, step), JobOK',
         UNCHANGED <<entry, prs, checks, branch, worktree, left>>
  PROVE  IInv'
<1>1. GitHub' /\ Steady  BY Unmoved
<1>2. CallsOK'  BY <1>1, GoPlain
<1> QED  BY <1>1, <1>2 DEF IInv, EntryOK, RestOK

LEMMA CreateJobStep == IInv /\ (\E c \in Callers : CreateJob(c)) => IInv'
<1> SUFFICES ASSUME IInv, NEW c \in Callers, CreateJob(c) PROVE IInv'  OBVIOUS
<1>1. JobOK'  BY DEF CreateJob, IInv, JobOK, Jobs
<1> DEFINE step == IF At(c, "newHeldJob") THEN "hold" ELSE "idle"
<1>2. step \in Plain /\ Go(c, step)  BY DEF CreateJob, Plain
<1> HIDE DEF step
<1> QED  BY <1>1, <1>2, JobStep DEF CreateJob

LEMMA MarkFoundationPendingStep == IInv /\ (\E c \in Callers : MarkFoundationPending(c)) => IInv'
<1> SUFFICES ASSUME IInv, NEW c \in Callers, MarkFoundationPending(c) PROVE IInv'  OBVIOUS
<1>1. JobOK'  BY DEF MarkFoundationPending, IInv, JobOK, Jobs
<1>2. "idle" \in Plain /\ Go(c, "idle")  BY DEF MarkFoundationPending, Plain
<1> QED  BY <1>1, <1>2, JobStep DEF MarkFoundationPending

LEMMA StartPlanningStep == IInv /\ (\E c \in Callers : StartPlanning(c)) => IInv'
<1> SUFFICES ASSUME IInv, NEW c \in Callers, StartPlanning(c) PROVE IInv'  OBVIOUS
<1>1. SomeVerified(prs, checks)  BY DEF IInv, CallsOK, CallOK, StartPlanning, At
<1>2. JobOK'  BY <1>1 DEF StartPlanning, IInv, JobOK, Jobs
<1>3. "idle" \in Plain /\ Go(c, "idle")  BY DEF StartPlanning, Plain
<1> QED  BY <1>2, <1>3, JobStep DEF StartPlanning

-----------------------------------------------------------------------------
(* Calls begin, fail and are lost. *)

LEMMA NoRecord == Backed(NoFoundation, prs, checks)
<1>1. MaxPRs \in Nat /\ MaxCommits \in Nat  BY FoundationAssumption
<1> QED  BY <1>1 DEF Backed, NoFoundation, Foundations

LEMMA Begins ==
  ASSUME IInv, NEW c \in Callers, NEW step \in Plain, NEW role \in Roles,
         th' = [th EXCEPT ![c] = Fresh(step, role)],
         UNCHANGED <<entry, prs, checks, branch, worktree, job>>,
         left' \in [faults : Nat, tools : Nat, foreign : Nat]
  PROVE  IInv'
<1> DEFINE x == Fresh(step, role)
<1>1. step \in Steps /\ step \notin Review \cup {"rules", "find", "create", "plan"}
  BY DEF Plain, Steps, Begin, Review
<1>2. Backed(NoFoundation, prs', checks')  BY NoRecord
<1>3. 0 \in 0..MaxCommits  BY FoundationAssumption
<1>4. CallOK(x, prs', checks', branch')
  BY <1>1, <1>2, <1>3 DEF CallOK, Calls, Backed, Review, Fresh
<1>5. CallsOK'  BY <1>4, Unmoved, CallMoves DEF IInv
<1> QED  BY <1>5, Frame

LEMMA ToolStep == IInv /\ (\E c \in Tools : CallProvision(c) \/ CallMigrate(c) \/ CallCreate(c) \/ CallStart(c)) => IInv'
<1> SUFFICES ASSUME IInv, NEW c \in Callers, NEW role \in {"provision", "migrate", "create", "start"}, Call(c, role)
             PROVE  IInv'
  BY DEF CallProvision, CallMigrate, CallCreate, CallStart, Callers
<1>1. left' \in [faults : Nat, tools : Nat, foreign : Nat]  BY DEF Call, IInv, RestOK
<1>2. "sync" \in Plain /\ role \in Roles  BY DEF Plain, Roles
<1> QED  BY <1>1, <1>2, Begins DEF Call

LEMMA PollStep == IInv /\ (CallPoll \/ Resume) => IInv'
<1> SUFFICES ASSUME IInv, CallPoll \/ Resume PROVE IInv'  OBVIOUS
<1>1. UNCHANGED <<entry, prs, checks, branch, worktree, job, left>> /\ "poll" \in Callers
  BY DEF CallPoll, Resume, Callers
<1>2. left' \in [faults : Nat, tools : Nat, foreign : Nat]  BY <1>1 DEF IInv, RestOK
<1>3. {"idle", "sync", "held"} \subseteq Plain /\ {"poll", "resume"} \subseteq Roles  BY DEF Plain, Roles
<1>4. ASSUME NEW step \in {"sync", "held"}, NEW role \in {"poll", "resume"},
             th' = [th EXCEPT !["poll"] = Fresh(step, role)]
      PROVE  IInv'
  BY <1>1, <1>2, <1>3, <1>4, Begins
<1>5. CASE CallPoll
  <2> DEFINE step == IF Unfinished(entry) THEN "sync" ELSE "held"
  <2>1. step \in {"sync", "held"}  OBVIOUS
  <2> HIDE DEF step
  <2>2. th' = [th EXCEPT !["poll"] = Fresh(step, "poll")]  BY <1>5 DEF CallPoll, step
  <2> QED  BY <1>4, <2>1, <2>2
<1>6. CASE Resume
  <2>1. CASE th' = [th EXCEPT !["poll"] = Fresh("sync", "resume")]  BY <1>4, <2>1
  <2>2. CASE Go("poll", "idle")  BY <1>1, <1>3, <2>2, OwnStep, GoPlain
  <2> QED  BY <1>6, <2>1, <2>2 DEF Resume
<1> QED  BY <1>5, <1>6

LEMMA CallFailsStep == IInv /\ (\E c \in Callers : CallFails(c)) => IInv'
<1> SUFFICES ASSUME IInv, NEW c \in Callers, CallFails(c) PROVE IInv'  OBVIOUS
<1>1. UNCHANGED <<entry, prs, checks, branch, worktree, job>>  BY DEF CallFails
<1>2. left' \in [faults : Nat, tools : Nat, foreign : Nat]  BY DEF CallFails, Fault, IInv, RestOK
<1>3. GitHub' /\ Steady  BY <1>1, Unmoved
<1>4. "idle" \in Plain  BY DEF Plain
<1>5. CallsOK'
  <2>1. CASE Return(c, "error")  BY <1>3, <2>1, Returns
  <2>2. CASE Return(c, "pending")  BY <1>3, <2>2, Returns
  <2>3. CASE Go(c, "idle")  BY <1>3, <1>4, <2>3, GoPlain
  <2> QED  BY <2>1, <2>2, <2>3 DEF CallFails
<1> QED  BY <1>1, <1>2, <1>5, Frame

LEMMA ResponseLostStep == IInv /\ (\E c \in Callers : ResponseLost(c)) => IInv'
<1> SUFFICES ASSUME IInv, NEW c \in Callers, ResponseLost(c) PROVE IInv'  OBVIOUS
<1>1. UNCHANGED <<entry, checks, branch, worktree, job>> /\ Return(c, "error")  BY DEF ResponseLost
<1>2. left' \in [faults : Nat, tools : Nat, foreign : Nat]  BY DEF ResponseLost, Fault, IInv, RestOK
<1>3. GitHub' /\ Steady
  <2>1. CASE At(c, "create") /\ Len(prs) < MaxPRs /\ prs' = NewPR
    <3>1. branch # 0  BY <2>1 DEF IInv, CallsOK, CallOK, At
    <3> QED  BY <1>1, <2>1, <3>1, PullRequestOpens DEF IInv
  <2>2. CASE At(c, "merge") /\ Mergeable(c) /\ prs' = Merged(c)
    BY <1>1, <2>2, Merges
  <2> QED  BY <2>1, <2>2 DEF ResponseLost
<1>4. CallsOK'  BY <1>1, <1>3, Returns
<1> QED  BY <1>1, <1>2, <1>3, <1>4, WorldStep DEF IInv, RestOK

LEMMA PushFailsStep == IInv /\ (\E c \in Callers : PushFails(c)) => IInv'
<1> SUFFICES ASSUME IInv, NEW c \in Callers, PushFails(c) PROVE IInv'  OBVIOUS
<1>1. /\ UNCHANGED <<entry, prs, branch, job>> /\ Return(c, "error")
      /\ Len(checks) < MaxCommits /\ checks' = Append(checks, "pending") /\ worktree' = Len(checks) + 1
  BY DEF PushFails
<1>2. left' \in [faults : Nat, tools : Nat, foreign : Nat]  BY DEF PushFails, Fault, IInv, RestOK
<1>3. prs \in Seq(PullRequests) /\ Len(checks) \in Nat  BY DEF IInv, GitHub, World
<1>4. GitHub' /\ Steady /\ Len(checks') = Len(checks) + 1  BY <1>1, <1>3, CommitPushed DEF IInv
<1>5. CallsOK'  BY <1>1, <1>4, Returns
<1> QED  BY <1>1, <1>2, <1>3, <1>4, <1>5, WorldStep

LEMMA RestartStep == IInv /\ Restart => IInv'
<1> SUFFICES ASSUME IInv, Restart PROVE IInv'  OBVIOUS
<1>1. left' \in [faults : Nat, tools : Nat, foreign : Nat]  BY DEF Restart, Fault, IInv, RestOK
<1>2. CallOK(Idle, prs', checks', branch')
  <2>1. Backed(NoFoundation, prs', checks')  BY NoRecord DEF Restart
  <2>2. 0 \in 0..MaxCommits  BY FoundationAssumption
  <2> QED  BY <2>1, <2>2 DEF CallOK, Calls, Idle, Fresh, Steps, Roles, Review, Backed
<1>3. CallsOK'  BY <1>2 DEF Restart, CallsOK, CallOK
<1> QED  BY <1>1, <1>3, Frame DEF Restart

-----------------------------------------------------------------------------
(* GitHub on its own. *)

LEMMA ChecksStep == IInv /\ (\E c \in DOMAIN checks : ChecksFinish(c) \/ ChecksRerun(c)) => IInv'
<1> SUFFICES ASSUME IInv, NEW c \in DOMAIN checks, ChecksFinish(c) \/ ChecksRerun(c) PROVE IInv'  OBVIOUS
<1>1. UNCHANGED <<entry, prs, branch, worktree, job, th>>  BY DEF ChecksFinish, ChecksRerun
<1>2. left' \in [faults : Nat, tools : Nat, foreign : Nat]
  BY DEF ChecksFinish, ChecksRerun, Foreign, IInv, RestOK
<1>3. PICK result \in Results : checks[c] # "passed" /\ checks' = [checks EXCEPT ![c] = result]
  BY DEF ChecksFinish, ChecksRerun, Results
<1>4. GitHub' /\ Steady /\ Len(checks') = Len(checks)  BY <1>1, <1>3, ChecksChange DEF IInv
<1>5. CallsOK'  BY <1>1, <1>4, CallsStand DEF IInv
<1> QED  BY <1>1, <1>2, <1>4, <1>5, WorldStep DEF IInv, RestOK

LEMMA ForeignEndStep == IInv /\ (\E i \in DOMAIN prs : ForeignEnd(i)) => IInv'
<1> SUFFICES ASSUME IInv, NEW i \in DOMAIN prs, ForeignEnd(i) PROVE IInv'  OBVIOUS
<1>1. UNCHANGED <<entry, checks, branch, worktree, job, th>>  BY DEF ForeignEnd
<1>2. left' \in [faults : Nat, tools : Nat, foreign : Nat]  BY DEF ForeignEnd, Foreign, IInv, RestOK
<1>3. PICK state \in {"closed", "merged"} : prs' = [prs EXCEPT ![i].state = state]  BY DEF ForeignEnd
<1> DEFINE y == [prs[i] EXCEPT !.state = state]
<1>4. prs[i] \in PullRequests /\ prs[i].state = "open" /\ prs[i].head \in 1..Len(checks)
  BY DEF ForeignEnd, IInv, GitHub, World
<1>5. y \in PullRequests /\ y.head = prs[i].head  BY <1>4 DEF PullRequests
<1>6. prs' = [prs EXCEPT ![i] = y]  BY <1>3
<1> HIDE DEF y
<1>7. GitHub' /\ Steady  BY <1>1, <1>4, <1>5, <1>6, PullRequestChanges DEF IInv
<1>8. CallsOK'  BY <1>1, <1>7, CallsStand DEF IInv
<1> QED  BY <1>1, <1>2, <1>7, <1>8, WorldStep DEF IInv, RestOK

LEMMA ForeignPushStep == IInv /\ ForeignPush => IInv'
<1> SUFFICES ASSUME IInv, ForeignPush PROVE IInv'  OBVIOUS
<1>1. UNCHANGED <<entry, worktree, job, th>>  BY DEF ForeignPush
<1>2. left' \in [faults : Nat, tools : Nat, foreign : Nat]  BY DEF ForeignPush, Foreign, IInv, RestOK
<1>3. /\ Len(checks) < MaxCommits /\ checks' = Append(checks, "pending") /\ branch' = Len(checks')
      /\ prs' = [i \in DOMAIN prs |-> IF Adoptable(i) THEN [prs[i] EXCEPT !.head = branch'] ELSE prs[i]]
  BY DEF ForeignPush
<1>4. /\ prs \in Seq(PullRequests) /\ Len(prs) \in Nat /\ DOMAIN prs = 1..Len(prs)
      /\ checks \in Seq(Results) /\ Len(checks) \in Nat /\ MaxCommits \in Nat
  BY FoundationAssumption DEF IInv, GitHub, World
<1>5. branch' = Len(checks) + 1 /\ branch' \in 1..MaxCommits
  <2>1. "pending" \in Results  BY DEF Results
  <2>2. Len(checks') = Len(checks) + 1  BY <1>3, <1>4, <2>1
  <2> QED  BY <1>3, <1>4, <2>2
<1>6. ASSUME NEW i \in DOMAIN prs
      PROVE  /\ prs'[i] \in PullRequests
             /\ prs'[i] = prs[i] \/ (prs[i].state # "merged" /\ prs'[i].head = Len(checks'))
  <2>1. prs[i] \in PullRequests  BY <1>4
  <2>2. CASE Adoptable(i)
    <3>1. prs'[i] = [prs[i] EXCEPT !.head = branch']  BY <1>3, <2>2
    <3>2. prs'[i] \in PullRequests /\ prs'[i].head = branch'  BY <1>5, <2>1, <3>1 DEF PullRequests
    <3> QED  BY <1>3, <2>2, <3>2 DEF Adoptable
  <2>3. CASE ~Adoptable(i)  BY <1>3, <2>1, <2>3
  <2> QED  BY <2>2, <2>3
<1>7. prs' \in Seq(PullRequests) /\ Len(prs') = Len(prs) /\ DOMAIN prs' = DOMAIN prs
  <2>1. prs' \in [1..Len(prs) -> PullRequests]  BY <1>3, <1>4, <1>6
  <2> QED  BY <1>4, <2>1
<1>8. GitHub' /\ Steady /\ Len(checks') = Len(checks) + 1
  BY <1>3, <1>6, <1>7, CommitPushed DEF IInv
<1>9. CallsOK'  BY <1>1, <1>8, CallsStand DEF IInv
<1>10. worktree' \in 0..Len(checks')  BY <1>1, <1>4, <1>8 DEF IInv, RestOK
<1> QED  BY <1>1, <1>2, <1>8, <1>9, <1>10, WorldStep

-----------------------------------------------------------------------------
(* The invariant. *)

LEMMA InitIInv == Init => IInv
<1> SUFFICES ASSUME Init PROVE IInv  OBVIOUS
<1>1. MaxPRs \in Nat \ {0} /\ MaxCommits \in Nat \ {0}  BY FoundationAssumption
<1>2. GitHub
  <2>1. CASE prs = <<>> /\ checks = <<>>
    BY <1>1, <2>1 DEF Init, GitHub, World, Results
  <2>2. CASE prs = <<[version |-> "old", state |-> "merged", draft |-> FALSE, head |-> 1]>> /\ checks = <<"passed">>
    <3>1. prs[1] \in PullRequests /\ Len(prs) = 1 /\ Len(checks) = 1
      BY <1>1, <2>2 DEF PullRequests
    <3>2. prs \in Seq(PullRequests) /\ checks \in Seq(Results)  BY <2>2, <3>1 DEF Results
    <3> QED  BY <1>1, <2>2, <3>1, <3>2 DEF Init, GitHub, World
  <2> QED  BY <2>1, <2>2 DEF Init
<1>3. EntryOK
  <2>1. CASE entry = NoFoundation  BY <2>1, NoRecord DEF EntryOK
  <2>2. CASE /\ entry = OldReady /\ checks = <<"passed">>
             /\ prs = <<[version |-> "old", state |-> "merged", draft |-> FALSE, head |-> 1]>>
    BY <1>1, <2>2 DEF EntryOK, Backed, OldReady, Foundations, VerifiedIn
  <2> QED  BY <2>1, <2>2 DEF Init
<1>4. CallsOK
  <2>1. CallOK(Idle, prs, checks, branch)
    BY <1>1, NoRecord DEF CallOK, Calls, Idle, Fresh, Steps, Roles, Review, NoFoundation, Backed
  <2> QED  BY <2>1 DEF Init, CallsOK, CallOK
<1>5. JobOK  BY DEF Init, JobOK, Jobs
<1>6. RestOK
  <2>1. Len(checks) \in Nat  BY <1>2 DEF GitHub, World
  <2> QED  BY <2>1, FoundationAssumption DEF Init, RestOK
<1> QED  BY <1>2, <1>3, <1>4, <1>5, <1>6 DEF IInv

LEMMA NextIInv == IInv /\ [Next]_vars => IInv'
<1> SUFFICES ASSUME IInv, [Next]_vars PROVE IInv'  OBVIOUS
<1>1. CASE \E c \in Tools : CallProvision(c) \/ CallMigrate(c) \/ CallCreate(c) \/ CallStart(c)
  BY <1>1, ToolStep
<1>2. CASE CallPoll \/ Resume  BY <1>2, PollStep
<1>3. CASE \E c \in Callers : EnsureStep(c)
  <2>1. PICK c \in Callers : EnsureStep(c)  BY <1>3
  <2> QED
    BY <2>1, SyncStep, BranchStep, FindStep, CreatePRStep, EnsureRequiredCheckStep, ReadPRStep, ReadChecksStep,
       PromoteStep, RereadStep, MergePRStep, ConfirmStep, SaveStep, CreateJobStep, MarkFoundationPendingStep,
       StartPlanningStep
       DEF EnsureStep
<1>4. CASE \E c \in Callers : CallFails(c) \/ ResponseLost(c) \/ PushFails(c)
  BY <1>4, CallFailsStep, ResponseLostStep, PushFailsStep
<1>5. CASE \E c \in DOMAIN checks : ChecksFinish(c) \/ ChecksRerun(c)  BY <1>5, ChecksStep
<1>6. CASE \E i \in DOMAIN prs : ForeignEnd(i)  BY <1>6, ForeignEndStep
<1>7. CASE ForeignPush \/ Restart  BY <1>7, ForeignPushStep, RestartStep
<1>8. CASE UNCHANGED vars
  BY <1>8 DEF vars, IInv, GitHub, CallsOK, EntryOK, JobOK, RestOK
<1> QED  BY <1>1, <1>2, <1>3, <1>4, <1>5, <1>6, <1>7, <1>8 DEF Next

LEMMA Invariance == Spec => []IInv
BY InitIInv, NextIInv, PTL DEF Spec

-----------------------------------------------------------------------------
(* What calls, records and GitHub hold is of its type, and a copy or an     *)
(* entry names only what is on GitHub (Foundation, catalog.go 51-59).       *)
THEOREM FoundationTyped == Spec => []TypeOK
<1>1. IInv => TypeOK
  <2> SUFFICES ASSUME IInv PROVE TypeOK  OBVIOUS
  <2>1. Len(prs) \in Nat /\ Len(checks) \in Nat /\ DOMAIN prs = 1..Len(prs)  BY DEF IInv, GitHub, World
  <2>2. \A c \in Callers : /\ th[c].rec.pr # 0 => Opened(th[c].rec.pr)
                           /\ th[c].at \in Review \cup {"rules"} => th[c].rec.pr # 0
                           /\ th[c].at \in Review \ {"read"} => Commit(th[c].head)
    BY DEF IInv, CallsOK, CallOK, Backed, Opened, Commit
  <2>3. entry \in Foundations /\ (entry.pr # 0 => Opened(entry.pr))
    BY DEF IInv, EntryOK, Backed, Opened
  <2>4. /\ prs \in Seq(PullRequests) /\ Len(prs) <= MaxPRs /\ \A i \in DOMAIN prs : Commit(prs[i].head)
        /\ checks \in Seq({"pending", "passed", "failed"}) /\ Len(checks) <= MaxCommits
        /\ branch \in 0..Len(checks)
    BY <2>1 DEF IInv, GitHub, World, Commit, Results
  <2> QED  BY <2>2, <2>3, <2>4 DEF TypeOK, IInv, CallsOK, JobOK, RestOK
<1> QED  BY <1>1, Invariance, PTL

(* However many calls overwrite each other's entries, and wherever they     *)
(* fail: a repository recorded as ready has a merged foundation whose final *)
(* head passed the check (reconcileFoundation, service.go 187-283).         *)
THEOREM ReadyVerified == Spec => []ReadyWasVerified
<1>1. IInv => ReadyWasVerified
  BY DEF IInv, EntryOK, Backed, ReadyWasVerified, Verified, VerifiedIn
<1> QED  BY <1>1, Invariance, PTL

(* No job plans before a foundation is merged and verified, on every way to *)
(* planning (server.go 507-534, foundation.go 20-48).                       *)
THEOREM PlanningWaits == Spec => []PlansOnReady
<1>1. IInv => PlansOnReady
  <2> SUFFICES ASSUME IInv, job.status = "planning" PROVE \E i \in DOMAIN prs : Verified(i)
    BY DEF PlansOnReady
  <2>1. DOMAIN prs = 1..Len(prs)  BY DEF IInv, GitHub, World
  <2> QED  BY <2>1 DEF IInv, JobOK, SomeVerified, VerifiedIn, Verified
<1> QED  BY <1>1, Invariance, PTL

(* A step that uses up no foreign act is not one.                           *)
LEMMA ForeignCounts == IInv /\ (\E i \in DOMAIN prs : ForeignEnd(i)) => left'.foreign # left.foreign
BY DEF IInv, RestOK, ForeignEnd, Foreign

(* OpenDev merges only a head that passed the check, whoever pushes between *)
(* the check and the merge (reconcileFoundation, service.go 203-250).       *)
THEOREM MergesVerified == Spec => MergesOnlyVerified
<1> DEFINE Own == left'.foreign = left.foreign =>
              \A i \in DOMAIN prs : prs[i].state = "open" /\ prs'[i].state = "merged"
                                    => checks[prs[i].head] = "passed"
<1>1. ASSUME IInv, [Next]_vars PROVE [Own]_vars
  <2> SUFFICES ASSUME Next, left'.foreign = left.foreign, NEW i \in DOMAIN prs,
                      prs[i].state = "open", prs'[i].state = "merged"
               PROVE  checks[prs[i].head] = "passed"
    BY <1>1
  <2>1. prs \in Seq(PullRequests) /\ Len(prs) \in Nat /\ DOMAIN prs = 1..Len(prs) /\ i \in 1..Len(prs)
    BY <1>1 DEF IInv, GitHub, World
  <2>2. ASSUME NEW c \in Callers, At(c, "merge"), Mergeable(c), prs' = Merged(c)
        PROVE  checks[prs[i].head] = "passed"
    <3>1. CallOK(th[c], prs, checks, branch)  BY <1>1 DEF IInv, CallsOK
    <3>2. i = th[c].rec.pr  BY <2>1, <2>2 DEF Merged
    <3> QED  BY <2>2, <3>1, <3>2 DEF CallOK, At, Mergeable, PR
  <2>3. CASE \E c \in Callers : MergePR(c)
    BY <2>2, <2>3 DEF MergePR
  <2>4. CASE \E c \in Callers : CreatePR(c)
    <3>1. prs' = prs \/ prs' = NewPR  BY <2>4 DEF CreatePR
    <3>2. prs'[i] = prs[i]  BY <2>1, <3>1 DEF NewPR
    <3> QED  BY <3>2
  <2>5. CASE \E c \in Callers : Promote(c)
    <3>1. prs[i] \in PullRequests  BY <2>1
    <3>2. PICK n : prs' = prs \/ prs' = [prs EXCEPT ![n].draft = FALSE]  BY <2>5 DEF Promote
    <3>3. prs'[i] = prs[i] \/ prs'[i] = [prs[i] EXCEPT !.draft = FALSE]  BY <2>1, <3>2
    <3>4. prs'[i].state = prs[i].state  BY <3>1, <3>3 DEF PullRequests
    <3> QED  BY <3>4
  <2>6. CASE \E c \in Callers : ResponseLost(c)
    <3>1. PICK c \in Callers : ResponseLost(c)  BY <2>6
    <3>2. CASE prs' = NewPR
      <4>1. prs'[i] = prs[i]  BY <2>1, <3>2 DEF NewPR
      <4> QED  BY <4>1
    <3> QED  BY <2>2, <3>1, <3>2 DEF ResponseLost
  <2>7. CASE ForeignPush
    BY <1>1, <2>7 DEF ForeignPush, Foreign, IInv, RestOK
  <2>8. CASE \E n \in DOMAIN prs : ForeignEnd(n)  BY <1>1, <2>8, ForeignCounts
  <2>9. CASE UNCHANGED prs  BY <2>9
  <2>10. ASSUME NEW c \in Callers, EnsureStep(c)
         PROVE  MergePR(c) \/ CreatePR(c) \/ Promote(c) \/ UNCHANGED prs
    BY <2>10 DEF EnsureStep, Sync, Branch, Find, EnsureRequiredCheck, ReadPR, ReadChecks, Reread, Confirm, Save,
                 CreateJob, MarkFoundationPending, StartPlanning
  <2>11. \/ \E c \in Callers : EnsureStep(c) \/ ResponseLost(c)
         \/ \E n \in DOMAIN prs : ForeignEnd(n)
         \/ ForeignPush \/ UNCHANGED prs
    BY DEF Next, CallProvision, CallMigrate, CallCreate, CallStart, Call, CallPoll, Resume, CallFails,
           ChecksFinish, ChecksRerun, PushFails, Restart
  <2> QED  BY <2>3, <2>4, <2>5, <2>6, <2>7, <2>8, <2>9, <2>10, <2>11
<1> QED  BY <1>1, Invariance, PTL DEF Spec, MergesOnlyVerified
=============================================================================
