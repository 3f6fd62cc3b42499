--------------------------- MODULE DispatchProofs ---------------------------
(***************************************************************************)
(* Proofs about Dispatch: its types, that at most one agent of a task ID   *)
(* is at work, that an archived dispatch does not come back, and that      *)
(* Dispatch implements Delivery.                                           *)
(***************************************************************************)
EXTENDS Dispatch, SequenceTheorems, TLAPS

(* startLocks: one thread at a time between the lookup and the saved run.   *)
LockExclusive ==
  \A s, t \in Threads : th[s].at \in Launching /\ th[t].at \in Launching => s = t

NoAgent == \A i \in DOMAIN agents : agents[i] = "forgotten"

(* A launch that found nothing submits with nothing there.                  *)
SubmitsAlone == \A t \in Threads : th[t].at \in {"servers", "submit"} => NoAgent

IInv == TypeOK /\ LockExclusive /\ SubmitsAlone /\ OneAgentAtATime

-----------------------------------------------------------------------------
(* Types. *)

ThreadsTyped ==
  /\ th \in [Threads -> [at : Steps, run : Record]]
  /\ \A t \in Threads : Issued(th[t].run)

LEMMA RecordFields ==
  /\ NoRecord \in Record /\ Intent \in Record /\ NoRecord.RunID = 0 /\ Intent.RunID = 0
  /\ Idle \in [at : Steps, run : Record]
  /\ Launching \subseteq Steps /\ Applying \subseteq Steps /\ Cancelling \subseteq Steps
<1>1. 0 \in 0..MaxAgents  BY DispatchAssumption DEF DispatchAssumption
<1>2. NoRecord \in Record  BY <1>1 DEF NoRecord, Record, Statuses
<1>3. Intent.RunID = 0  BY DEF Intent, NoRecord
<1>4. Intent \in Record  BY <1>2 DEF Intent, Record, Statuses
<1>5. Idle \in [at : Steps, run : Record]  BY <1>2 DEF Idle, Steps
<1>6. Launching \subseteq Steps /\ Applying \subseteq Steps /\ Cancelling \subseteq Steps
  BY DEF Steps
<1> QED  BY <1>2, <1>3, <1>4, <1>5, <1>6 DEF NoRecord

(* A thread moves on with a record whose run was given out.                 *)
LEMMA MoveTyped ==
  ASSUME TypeOK, Len(agents') \in Nat, Len(agents) <= Len(agents'),
         NEW t \in Threads, NEW x \in [at : Steps, run : Record], x.run.RunID <= Len(agents'),
         th' = [th EXCEPT ![t] = x]
  PROVE  ThreadsTyped'
<1>1. \A s \in Threads : th'[s] = IF s = t THEN x ELSE th[s]
  BY DEF TypeOK
<1>2. th' \in [Threads -> [at : Steps, run : Record]]
  BY DEF TypeOK
<1>3. ASSUME NEW s \in Threads PROVE th'[s].run.RunID <= Len(agents')
  <2>1. CASE s = t  BY <1>1, <2>1
  <2>2. CASE s # t
    <3>1. th[s].run \in Record /\ th[s].run.RunID \in Int
      BY DEF TypeOK, Record
    <3>2. Len(agents) \in Nat  BY DEF TypeOK
    <3> QED  BY <1>1, <2>2, <3>1, <3>2 DEF TypeOK, Issued
  <2> QED  BY <2>1, <2>2
<1> QED  BY <1>2, <1>3 DEF ThreadsTyped, Issued

LEMMA GoTyped ==
  ASSUME TypeOK, UNCHANGED agents, NEW t \in Threads, NEW step \in Steps, Go(t, step)
  PROVE  ThreadsTyped'
<1> DEFINE x == [at |-> step, run |-> th[t].run]
<1>1. th[t] \in [at : Steps, run : Record]  BY DEF TypeOK
<1>2. [th[t] EXCEPT !.at = step] = x  BY <1>1
<1>3. th' = [th EXCEPT ![t] = x]  BY <1>2 DEF Go
<1>4. x \in [at : Steps, run : Record]  BY <1>1
<1>5. Len(agents') \in Nat /\ Len(agents) <= Len(agents')  BY DEF TypeOK
<1>6. x.run.RunID <= Len(agents')  BY DEF TypeOK, Issued
<1> QED  BY <1>3, <1>4, <1>5, <1>6, MoveTyped

LEMMA GoWithTyped ==
  ASSUME TypeOK, UNCHANGED agents, NEW t \in Threads, NEW step \in Steps,
         NEW r \in Record, Issued(r), GoWith(t, step, r)
  PROVE  ThreadsTyped'
<1> DEFINE x == [at |-> step, run |-> r]
<1>1. th' = [th EXCEPT ![t] = x]  BY DEF GoWith
<1>2. x \in [at : Steps, run : Record]  OBVIOUS
<1>3. Len(agents') \in Nat /\ Len(agents) <= Len(agents')  BY DEF TypeOK
<1>4. x.run.RunID <= Len(agents')  BY DEF Issued
<1> QED  BY <1>1, <1>2, <1>3, <1>4, MoveTyped

LEMMA LeaveTyped ==
  ASSUME TypeOK, UNCHANGED agents, NEW t \in Threads, Leave(t)
  PROVE  ThreadsTyped'
<1>1. Len(agents') \in Nat /\ Len(agents) <= Len(agents') /\ 0 <= Len(agents')  BY DEF TypeOK
<1>2. Left(t) \in [at : Steps, run : Record]  BY RecordFields DEF Left, Steps
<1>3. Left(t).run.RunID = 0  BY RecordFields DEF Left, Idle
<1>4. Left(t).run.RunID <= Len(agents')  BY <1>1, <1>3
<1>5. th' = [th EXCEPT ![t] = Left(t)]  BY DEF Leave
<1> QED  BY <1>1, <1>2, <1>4, <1>5, MoveTyped

LEMMA SaveTyped ==
  ASSUME TypeOK, NEW r \in Record, Issued(r), Save(r)
  PROVE  live' \in Record /\ live'.RunID <= Len(agents)
BY DEF TypeOK, Save, Issued

LEMMA CopyTyped ==
  ASSUME TypeOK, NEW t \in Threads
  PROVE  Run(t) \in Record /\ Issued(Run(t))
BY DEF TypeOK, Run

LEMMA StoredTyped ==
  ASSUME TypeOK
  PROVE  /\ Stored \in Record /\ Issued(Stored)
         /\ Listed \in Record /\ Issued(Listed)
BY DEF TypeOK, Stored, Listed

LEMMA RunIDs ==
  ASSUME TypeOK
  PROVE  /\ DOMAIN agents = 1..Len(agents) /\ Len(agents) \in Nat
         /\ \A i \in DOMAIN agents : i \in 0..MaxAgents /\ agents[i] \in AgentStates
BY DispatchAssumption DEF TypeOK, DispatchAssumption

(* What is left of the type of the state when the threads are typed.        *)
LEMMA QuietTyped ==
  ASSUME TypeOK, ThreadsTyped', UNCHANGED <<archive, agents, job, outcome, left>>,
         live' \in Record, live'.RunID <= Len(agents)
  PROVE  TypeOK'
BY DEF TypeOK, ThreadsTyped, Issued

LEMMA StartTyped ==
  ASSUME TypeOK, NEW t \in Threads,
         Start(t) \/ SaveIntent(t) \/ Lookup(t) \/ ResolveServers(t) \/ SaveRunID(t)
  PROVE  TypeOK'
<1>1. CASE Start(t)
  <2>1. [Stored EXCEPT !.Status = "starting", !.Superseded = FALSE] \in Record
    BY StoredTyped DEF Record, Statuses
  <2>2. Issued([Stored EXCEPT !.Status = "starting", !.Superseded = FALSE])
    BY StoredTyped DEF Issued, Record
  <2>3. Issued(Intent)  BY RecordFields, RunIDs DEF Issued
  <2>4. ThreadsTyped'
    BY <1>1, <2>1, <2>2, <2>3, RecordFields, StoredTyped, GoWithTyped, LeaveTyped
    DEF Start, Launching
  <2> QED  BY <1>1, <2>4, QuietTyped DEF Start, TypeOK, Issued
<1>2. CASE SaveIntent(t)
  <2>1. live' \in Record /\ live'.RunID <= Len(agents)
    BY <1>2, SaveTyped, CopyTyped DEF SaveIntent
  <2>2. ThreadsTyped'  BY <1>2, RecordFields, GoTyped DEF SaveIntent, Launching
  <2> QED  BY <1>2, <2>1, <2>2, QuietTyped DEF SaveIntent
<1>3. CASE Lookup(t)
  <2>1. ASSUME NEW i \in DOMAIN agents, Found(i),
               GoWith(t, "record", [Run(t) EXCEPT !.RunID = i, !.Status = Reported(i),
                                                  !.Superseded = FALSE])
        PROVE  ThreadsTyped'
    <3> DEFINE r == [Run(t) EXCEPT !.RunID = i, !.Status = Reported(i), !.Superseded = FALSE]
    <3>1. Reported(i) \in Statuses
      BY <2>1, RunIDs DEF Reported, Found, Statuses, AgentStates
    <3>2. r \in Record  BY <3>1, CopyTyped, RunIDs DEF Record
    <3>3. Issued(r)  BY CopyTyped, RunIDs DEF Issued, Record
    <3>4. "record" \in Steps  BY RecordFields DEF Launching
    <3> HIDE DEF r
    <3>5. GoWith(t, "record", r)  BY <2>1 DEF r
    <3> QED  BY <1>3, <3>2, <3>3, <3>4, <3>5, GoWithTyped DEF Lookup
  <2>2. ASSUME Go(t, "servers") PROVE ThreadsTyped'
    BY <1>3, <2>2, RecordFields, GoTyped DEF Lookup, Launching
  <2>3. ThreadsTyped'  BY <1>3, <2>1, <2>2 DEF Lookup
  <2> QED  BY <1>3, <2>3, QuietTyped DEF Lookup, TypeOK, Issued
<1>4. CASE ResolveServers(t)
  <2>1. ThreadsTyped'
    BY <1>4, RecordFields, GoTyped, LeaveTyped DEF ResolveServers, Launching
  <2> QED  BY <1>4, <2>1, QuietTyped DEF ResolveServers, TypeOK, Issued
<1>5. CASE SaveRunID(t)
  <2>1. live' \in Record /\ live'.RunID <= Len(agents)
    BY <1>5, SaveTyped, CopyTyped DEF SaveRunID
  <2>2. ThreadsTyped'  BY <1>5, RecordFields, GoTyped DEF SaveRunID, Launching
  <2> QED  BY <1>5, <2>1, <2>2, QuietTyped DEF SaveRunID
<1> QED  BY <1>1, <1>2, <1>3, <1>4, <1>5

(* A submission gives out one more run ID.                                  *)
LEMMA AppendTyped ==
  ASSUME TypeOK, Len(agents) < MaxAgents, agents' = Append(agents, "running")
  PROVE  /\ agents' \in Seq(AgentStates)
         /\ Len(agents') = Len(agents) + 1 /\ Len(agents') \in 0..MaxAgents
         /\ DOMAIN agents' = 1..Len(agents')
         /\ \A i \in DOMAIN agents : agents'[i] = agents[i]
<1>1. "running" \in AgentStates  BY DEF AgentStates
<1>2. Len(agents) \in Nat /\ MaxAgents \in Nat
  BY DispatchAssumption DEF TypeOK, DispatchAssumption
<1>3. agents' \in Seq(AgentStates) /\ Len(agents') = Len(agents) + 1
      /\ \A i \in 1..Len(agents) : agents'[i] = agents[i]
  BY <1>1, AppendProperties DEF TypeOK
<1> QED  BY <1>2, <1>3 DEF TypeOK

LEMMA SubmitTyped ==
  ASSUME TypeOK, NEW t \in Threads, Submit(t) \/ ResponseLost(t)
  PROVE  TypeOK'
<1>1. agents' = Append(agents, "running") /\ Len(agents) < MaxAgents
  BY DEF Submit, ResponseLost
<1>2. Len(agents') \in Nat /\ Len(agents) <= Len(agents')
  BY <1>1, AppendTyped, RunIDs
<1>3. ThreadsTyped'
  <2>1. CASE Submit(t)
    <3> DEFINE r == [Run(t) EXCEPT !.RunID = Len(agents'), !.Status = "running"]
               x == [at |-> "record", run |-> r]
    <3>1. r \in Record  BY <1>1, AppendTyped, CopyTyped DEF Record, Statuses
    <3>2. r.RunID <= Len(agents')  BY <1>2, CopyTyped DEF Record
    <3>3. th' = [th EXCEPT ![t] = x]  BY <2>1 DEF Submit, GoWith
    <3>4. x \in [at : Steps, run : Record]  BY <3>1, RecordFields DEF Launching
    <3>5. x.run.RunID <= Len(agents')  BY <3>2
    <3> QED  BY <1>2, <3>3, <3>4, <3>5, MoveTyped
  <2>2. CASE ResponseLost(t)
    <3>1. th' = [th EXCEPT ![t] = Left(t)]  BY <2>2 DEF ResponseLost, Leave
    <3>2. Left(t) \in [at : Steps, run : Record]  BY RecordFields DEF Left, Steps
    <3>3. Left(t).run.RunID <= Len(agents')  BY <1>2, RecordFields, RunIDs DEF Left, Idle
    <3> QED  BY <1>2, <3>1, <3>2, <3>3, MoveTyped
  <2> QED  BY <2>1, <2>2
<1>4. left' \in [faults : Nat, operator : Nat]
  BY DEF Submit, ResponseLost, Fault, TypeOK
<1>5. live' = live /\ archive' = archive /\ job' = job /\ outcome' = outcome
  BY DEF Submit, ResponseLost
<1>6. Issued(live)' /\ Issued(archive)'
  BY <1>2, <1>5, RunIDs DEF TypeOK, Issued, Record
<1> QED  BY <1>1, <1>3, <1>4, <1>5, <1>6, AppendTyped DEF TypeOK, ThreadsTyped

LEMMA WatchTyped ==
  ASSUME TypeOK, NEW t \in Threads, Watch(t)
  PROVE  TypeOK'
<1> DEFINE m == [th EXCEPT ![t] = Left(t)]
           y == [at |-> "check", run |-> Run(t)]
<1>1. "watcher" \in Threads  BY DEF Threads
<1>2. th' = m \/ th' = [m EXCEPT !["watcher"] = y]  BY DEF Watch, Watching
<1>3. Left(t) \in [at : Steps, run : Record] /\ Left(t).run.RunID = 0
  BY RecordFields DEF Left, Idle, Steps
<1>4. y \in [at : Steps, run : Record] /\ Issued(y.run)  BY CopyTyped DEF Steps
<1>5. m \in [Threads -> [at : Steps, run : Record]] /\ \A s \in Threads : Issued(m[s].run)
  BY <1>3, RunIDs DEF TypeOK, Issued
<1> HIDE DEF y, m
<1>6. th' \in [Threads -> [at : Steps, run : Record]]  BY <1>2, <1>4, <1>5
<1>7. \A s \in Threads : Issued(th'[s].run)  BY <1>2, <1>4, <1>5
<1>8. ThreadsTyped'  BY <1>6, <1>7 DEF ThreadsTyped, Issued, Watch
<1> QED  BY <1>8, QuietTyped DEF Watch, TypeOK, Issued

LEMMA WatcherTyped ==
  ASSUME TypeOK, Check \/ Observe \/ SaveAnswer
  PROVE  TypeOK'
<1>1. "watcher" \in Threads  BY DEF Threads
<1>2. {"check", "observe", "save", "apply"} \subseteq Steps  BY DEF Steps
<1>3. CASE Check
  <2>1. ThreadsTyped'  BY <1>1, <1>2, <1>3, GoTyped, LeaveTyped DEF Check
  <2> QED  BY <1>3, <2>1, QuietTyped DEF Check, TypeOK, Issued
<1>4. CASE Observe
  <2> DEFINE i == Run("watcher").RunID
             r == [Run("watcher") EXCEPT !.Status = Reported(i), !.Superseded = FALSE]
  <2>1. ASSUME Found(i), GoWith("watcher", "save", r) PROVE ThreadsTyped'
    <3>1. Reported(i) \in Statuses
      BY <2>1, RunIDs DEF Reported, Found, Statuses, AgentStates
    <3>2. r \in Record  BY <1>1, <3>1, CopyTyped DEF Record
    <3>3. Issued(r)  BY <1>1, CopyTyped DEF Issued, Record
    <3> HIDE DEF r
    <3> QED  BY <1>1, <1>2, <1>4, <2>1, <3>2, <3>3, GoWithTyped DEF Observe
  <2>2. ASSUME Go("watcher", "check") PROVE ThreadsTyped'
    BY <1>1, <1>2, <1>4, <2>2, GoTyped DEF Observe
  <2>3. ThreadsTyped'  BY <1>4, <2>1, <2>2 DEF Observe
  <2> QED  BY <1>4, <2>3, QuietTyped DEF Observe, TypeOK, Issued
<1>5. CASE SaveAnswer
  <2>1. live' \in Record /\ live'.RunID <= Len(agents)
    BY <1>1, <1>5, SaveTyped, CopyTyped DEF SaveAnswer
  <2>2. ThreadsTyped'  BY <1>1, <1>2, <1>5, GoTyped DEF SaveAnswer
  <2> QED  BY <1>5, <2>1, <2>2, QuietTyped DEF SaveAnswer
<1> QED  BY <1>3, <1>4, <1>5

LEMMA ApplyTyped ==
  ASSUME TypeOK, NEW t \in Threads, Apply(t) \/ Handle(t) \/ Mark(t)
  PROVE  TypeOK'
<1>1. {"handle", "mark", "rewatch", "check"} \subseteq Steps  BY RecordFields DEF Applying, Steps
<1>2. CASE Apply(t)
  <2>1. ThreadsTyped'  BY <1>1, <1>2, GoTyped, LeaveTyped DEF Apply
  <2> QED  BY <1>2, <2>1, QuietTyped DEF Apply, TypeOK, Issued
<1>3. CASE Handle(t)
  <2>1. ThreadsTyped'
    <3>1. ASSUME NEW step \in Steps, Go(t, step) PROVE ThreadsTyped'
      BY <1>3, <3>1, GoTyped DEF Handle
    <3>2. \E step \in Steps : Go(t, step)  BY <1>1, <1>3 DEF Handle, Unapply
    <3> QED  BY <3>1, <3>2
  <2>2. outcome' \in {"awaited", "replaced"} \cup Statuses
    BY <1>3, CopyTyped DEF Handle, TypeOK, Record
  <2> QED  BY <1>3, <2>1, <2>2 DEF Handle, TypeOK, ThreadsTyped, Issued
<1>4. CASE Mark(t)
  <2> DEFINE r == [Run(t) EXCEPT !.Applied = TRUE]
  <2>1. r \in Record /\ Issued(r)  BY CopyTyped DEF Record, Issued
  <2> HIDE DEF r
  <2>2. live' \in Record /\ live'.RunID <= Len(agents)
    BY <1>4, <2>1, SaveTyped DEF Mark, r
  <2>3. ThreadsTyped'  BY <1>4, LeaveTyped DEF Mark
  <2> QED  BY <1>4, <2>2, <2>3, QuietTyped DEF Mark
<1> QED  BY <1>2, <1>3, <1>4

LEMMA PollTyped ==
  ASSUME TypeOK, PollStep
  PROVE  TypeOK'
<1>1. "poll" \in Threads  BY DEF Threads
<1>2. {"list", "relaunch", "apply", "rewatch", "watch", "lookup", "cancelList"} \subseteq Steps
  BY RecordFields DEF Launching, Cancelling, Steps
<1>3. live \in Record /\ Issued(live)  BY DEF TypeOK
<1>4. CASE CallReconcile
  <2>1. ThreadsTyped'  BY <1>1, <1>2, <1>4, GoTyped DEF CallReconcile
  <2> QED  BY <1>4, <2>1, QuietTyped DEF CallReconcile, TypeOK, Issued
<1>5. CASE List
  <2>1. ThreadsTyped'  BY <1>1, <1>2, <1>3, <1>5, GoWithTyped, LeaveTyped DEF List
  <2> QED  BY <1>5, <2>1, QuietTyped DEF List, TypeOK, Issued
<1>6. CASE Relaunch
  <2>1. ThreadsTyped'
    BY <1>1, <1>2, <1>6, StoredTyped, GoWithTyped, LeaveTyped DEF Relaunch
  <2> QED  BY <1>6, <2>1, QuietTyped DEF Relaunch, TypeOK, Issued
<1>7. CASE ReconcileJob
  <2>1. ThreadsTyped'  BY <1>1, <1>2, <1>7, GoTyped, LeaveTyped DEF ReconcileJob
  <2> QED  BY <1>7, <2>1, QuietTyped DEF ReconcileJob, TypeOK, Issued
<1> QED  BY <1>4, <1>5, <1>6, <1>7 DEF PollStep

LEMMA CancelTyped ==
  ASSUME TypeOK, NEW t \in Threads, CancelList(t) \/ CancelAgain(t) \/ CancelSave(t)
  PROVE  TypeOK'
<1> DEFINE r == MarkCancelled(Listed)
<1>1. r \in Record /\ Issued(r)
  BY StoredTyped DEF MarkCancelled, Record, Issued, Statuses, Terminals
<1> HIDE DEF r
<1>2. {"cancelAgain", "cancelSave", "archive", "idle"} \subseteq Steps
  BY RecordFields DEF Cancelling, Steps
<1>3. Issued(NoRecord)  BY RecordFields, RunIDs DEF Issued
<1>4. ASSUME Cancelled(t), UNCHANGED agents PROVE ThreadsTyped'
  BY <1>2, <1>3, <1>4, RecordFields, GoWithTyped DEF Cancelled
<1>5. CASE CancelList(t)
  <2>1. ThreadsTyped'
    BY <1>1, <1>2, <1>4, <1>5, GoTyped, GoWithTyped DEF CancelList, r
  <2> QED  BY <1>5, <2>1, QuietTyped DEF CancelList, TypeOK, Issued
<1>6. CASE CancelAgain(t)
  <2>1. agents' \in Seq(AgentStates) /\ Len(agents') = Len(agents)
    <3> DEFINE i == Listed.RunID
    <3>1. CASE agents' = agents  BY <3>1 DEF TypeOK
    <3>2. CASE agents' # agents
      <4>1. i \in 1..Len(agents) /\ agents' = [agents EXCEPT ![i] = "stopping"]
        BY <1>6, <3>2, StoredTyped, RunIDs DEF CancelAgain, Stopped, Record, Issued
      <4>2. "stopping" \in AgentStates  BY DEF AgentStates
      <4> QED  BY <4>1, <4>2, ExceptSeq DEF TypeOK
    <3> QED  BY <3>1, <3>2
  <2>2. ThreadsTyped'
    <3>1. PICK step \in Steps, c \in Record : Issued(c) /\ GoWith(t, step, c)
      BY <1>1, <1>2, <1>3, <1>6, RecordFields DEF CancelAgain, Cancelled, r
    <3> DEFINE x == [at |-> step, run |-> c]
    <3>2. x \in [at : Steps, run : Record]  OBVIOUS
    <3>3. x.run.RunID <= Len(agents')  BY <2>1, <3>1 DEF Issued
    <3>4. th' = [th EXCEPT ![t] = x]  BY <3>1 DEF GoWith
    <3>5. Len(agents') \in Nat /\ Len(agents) <= Len(agents')  BY <2>1, RunIDs
    <3> HIDE DEF x
    <3> QED  BY <3>2, <3>3, <3>4, <3>5, MoveTyped
  <2> QED  BY <1>6, <2>1, <2>2 DEF CancelAgain, TypeOK, ThreadsTyped, Issued
<1>7. CASE CancelSave(t)
  <2>1. live' \in Record /\ live'.RunID <= Len(agents)
    BY <1>7, SaveTyped, CopyTyped DEF CancelSave
  <2> QED  BY <1>4, <1>7, <2>1, QuietTyped DEF CancelSave
<1> QED  BY <1>5, <1>6, <1>7

LEMMA ToolTyped ==
  ASSUME TypeOK, CallStart \/ CallPause \/ CallResume \/ CallCancel \/ CallRetry
  PROVE  TypeOK'
<1>1. "operator" \in Threads /\ "caller" \in Threads  BY DEF Threads
<1>2. {"start", "idle", "cancelList", "supersede"} \subseteq Steps
  BY RecordFields DEF Cancelling, Steps
<1>3. CASE CallStart
  <2>1. ThreadsTyped'  BY <1>1, <1>2, <1>3, GoTyped DEF CallStart
  <2> QED  BY <1>3, <2>1, QuietTyped DEF CallStart, TypeOK, Issued
<1>4. CASE CallPause \/ CallResume \/ CallCancel \/ CallRetry
  <2>1. ThreadsTyped'
    BY <1>1, <1>2, <1>4, GoTyped DEF CallPause, CallResume, CallCancel, CallRetry, Tool
  <2>2. job' \in {"active", "paused", "cancelled"}
    BY <1>4 DEF CallPause, CallResume, CallCancel, CallRetry, TypeOK
  <2>3. left' \in [faults : Nat, operator : Nat] /\ UNCHANGED <<live, archive, agents, outcome>>
    BY <1>4 DEF CallPause, CallResume, CallCancel, CallRetry, Tool, TypeOK
  <2> QED  BY <2>1, <2>2, <2>3 DEF TypeOK, ThreadsTyped, Issued
<1> QED  BY <1>3, <1>4

LEMMA ArchiveTyped ==
  ASSUME TypeOK, NEW removed \in BOOLEAN, ArchiveWrite(removed),
         left' \in [faults : Nat, operator : Nat]
  PROVE  TypeOK'
<1>1. "operator" \in Threads  BY DEF Threads
<1>2. ThreadsTyped'  BY <1>1, LeaveTyped DEF ArchiveWrite
<1>3. live' \in Record /\ archive' \in Record /\ Issued(live)' /\ Issued(archive)'
  BY RecordFields, RunIDs DEF ArchiveWrite, TypeOK, Issued
<1> QED  BY <1>2, <1>3 DEF ArchiveWrite, TypeOK, ThreadsTyped

LEMMA OperatorTyped ==
  ASSUME TypeOK, OperatorStep
  PROVE  TypeOK'
<1>1. "operator" \in Threads  BY DEF Threads
<1>2. {"supersedeSave", "replace"} \subseteq Steps  BY DEF Steps
<1>3. CASE Supersede
  <2> DEFINE r == [Stored EXCEPT !.Applied = TRUE, !.Superseded = TRUE]
  <2>1. r \in Record /\ Issued(r)  BY StoredTyped DEF Record, Issued
  <2> HIDE DEF r
  <2>2. ThreadsTyped'
    BY <1>1, <1>2, <1>3, <2>1, GoWithTyped, LeaveTyped DEF Supersede, r
  <2> QED  BY <1>3, <2>2, QuietTyped DEF Supersede, TypeOK, Issued
<1>4. CASE SupersedeSave
  <2>1. live' \in Record /\ live'.RunID <= Len(agents)
    BY <1>1, <1>4, SaveTyped, CopyTyped DEF SupersedeSave
  <2>2. ThreadsTyped'  BY <1>1, <1>2, <1>4, GoTyped DEF SupersedeSave
  <2> QED  BY <1>4, <2>1, <2>2, QuietTyped DEF SupersedeSave
<1>5. CASE Replace
  <2>1. ThreadsTyped'  BY <1>1, <1>5, LeaveTyped DEF Replace
  <2> QED  BY <1>5, <2>1 DEF Replace, TypeOK, ThreadsTyped, Issued
<1>6. CASE ArchiveJob
  BY <1>6, ArchiveTyped DEF ArchiveJob, TypeOK
<1>7. CASE ArchiveRefused
  <2>1. ThreadsTyped'  BY <1>1, <1>7, LeaveTyped DEF ArchiveRefused
  <2> QED  BY <1>7, <2>1, QuietTyped DEF ArchiveRefused, TypeOK, Issued
<1> QED  BY <1>3, <1>4, <1>5, <1>6, <1>7 DEF OperatorStep

LEMMA AgentTyped ==
  ASSUME TypeOK, NEW i \in DOMAIN agents, Finish(i) \/ Forget(i)
  PROVE  TypeOK'
<1>1. PICK ending \in AgentStates : agents' = [agents EXCEPT ![i] = ending]
  BY DEF Finish, Forget, AgentStates, Terminals
<1>2. agents' \in Seq(AgentStates) /\ Len(agents') = Len(agents)
  BY <1>1, ExceptSeq, RunIDs DEF TypeOK
<1> QED  BY <1>2 DEF Finish, Forget, TypeOK, Issued

LEMMA FaultTyped ==
  ASSUME TypeOK, (\E t \in Threads : CallFails(t)) \/ ArchiveHalf \/ Restart
  PROVE  TypeOK'
<1>1. left' \in [faults : Nat, operator : Nat]
  <2>1. Fault  BY DEF CallFails, ArchiveHalf, Restart
  <2> QED  BY <2>1 DEF Fault, TypeOK
<1>2. ASSUME NEW t \in Threads, CallFails(t) PROVE TypeOK'
  <2>1. {"check", "rewatch"} \subseteq Steps  BY DEF Steps
  <2> DEFINE r == [Run(t) EXCEPT !.Status = "running"]
  <2>2. r \in Record /\ Issued(r)  BY CopyTyped DEF Record, Issued, Statuses
  <2> HIDE DEF r
  <2>3. ThreadsTyped'
    BY <1>2, <2>1, <2>2, GoTyped, GoWithTyped, LeaveTyped DEF CallFails, Unapply, r
  <2> QED  BY <1>1, <1>2, <2>3 DEF CallFails, TypeOK, ThreadsTyped, Issued
<1>3. CASE ArchiveHalf
  BY <1>1, <1>3, ArchiveTyped DEF ArchiveHalf
<1>4. CASE Restart
  <2>1. Idle.run.RunID = 0  BY RecordFields DEF Idle
  <2>2. ThreadsTyped'
    BY <1>4, <2>1, RecordFields, RunIDs DEF Restart, ThreadsTyped, Issued
  <2> QED  BY <1>1, <1>4, <2>2 DEF Restart, TypeOK, ThreadsTyped, Issued
<1> QED  BY <1>2, <1>3, <1>4

LEMMA NextTyped ==
  ASSUME TypeOK, [Next]_vars
  PROVE  TypeOK'
<1>1. CASE UNCHANGED vars  BY <1>1 DEF vars, TypeOK, Issued
<1>2. ASSUME NEW t \in Threads, ThreadStep(t) PROVE TypeOK'
  BY <1>2, StartTyped, SubmitTyped, WatchTyped, ApplyTyped, CancelTyped DEF ThreadStep
<1>3. ASSUME NEW t \in Threads, CallFails(t) \/ ResponseLost(t) PROVE TypeOK'
  BY <1>3, FaultTyped, SubmitTyped
<1>4. CASE ArchiveHalf \/ Restart  BY <1>4, FaultTyped
<1> QED
  BY <1>1, <1>2, <1>3, <1>4, ToolTyped, WatcherTyped, PollTyped, OperatorTyped, AgentTyped
  DEF Next, WatcherStep

-----------------------------------------------------------------------------
(* One agent at a time. *)

(* No step but one that finds the lock free lets a thread in.               *)
EntersAlone(t) ==
  \A s \in Threads : th'[s].at \in Launching =>
    th[s].at \in Launching \/ (s = t /\ Nobody(Launching))

LEMMA OneLauncher ==
  ASSUME LockExclusive, NEW t \in Threads, EntersAlone(t)
  PROVE  LockExclusive'
BY DEF LockExclusive, EntersAlone, Nobody

(* Only the lookup that finds nothing leads to a submission.                *)
LooksFirst ==
  \A s \in Threads : th'[s].at \in {"servers", "submit"} =>
    th[s].at \in {"servers", "submit"} \/ NoAgent

LEMMA Moved ==
  ASSUME TypeOK, NEW t \in Threads, NEW at
  PROVE  /\ Go(t, at) => /\ th'[t].at = at
                         /\ \A s \in Threads \ {t} : th'[s] = th[s]
         /\ \A r : GoWith(t, at, r) => /\ th'[t].at = at
                                        /\ \A s \in Threads \ {t} : th'[s] = th[s]
         /\ Leave(t) => /\ th'[t].at \in {"jobs", "idle"}
                         /\ \A s \in Threads \ {t} : th'[s] = th[s]
BY DEF TypeOK, Go, GoWith, Leave, Left, Idle

(* A step of t to one of some places, none of them in a launch.             *)
LEMMA MovedOut ==
  ASSUME TypeOK, NEW t \in Threads, th'[t].at \notin Launching,
         \A s \in Threads \ {t} : th'[s] = th[s]
  PROVE  EntersAlone(t) /\ LooksFirst
BY DEF EntersAlone, LooksFirst, Launching

LEMMA LaunchMoves ==
  ASSUME TypeOK, NEW t \in Threads,
         Start(t) \/ SaveIntent(t) \/ Lookup(t) \/ ResolveServers(t) \/ Submit(t) \/ SaveRunID(t)
  PROVE  EntersAlone(t) /\ LooksFirst
<1>1. \A s \in Threads \ {t} : th'[s] = th[s]
  BY Moved DEF Start, SaveIntent, Lookup, ResolveServers, Submit, SaveRunID
<1>2. th'[t].at \in Launching => th[t].at \in Launching \/ Nobody(Launching)
  <2>1. CASE Start(t)  BY <2>1 DEF Start
  <2>2. CASE ~Start(t)
    BY <2>2 DEF SaveIntent, Lookup, ResolveServers, Submit, SaveRunID, At, Launching
  <2> QED  BY <2>1, <2>2
<1>3. th'[t].at \in {"servers", "submit"} => th[t].at \in {"servers", "submit"} \/ NoAgent
  <2>1. CASE Start(t)  BY <2>1 DEF Start, TypeOK, Go, GoWith, Leave, Left, Idle
  <2>2. CASE SaveIntent(t)
    <3>1. Go(t, "lookup")  BY <2>2 DEF SaveIntent
    <3>2. th'[t].at = "lookup"  BY <3>1 DEF Go, TypeOK
    <3> QED  BY <3>2
  <2>3. CASE Lookup(t)
    <3>1. (\A i \in DOMAIN agents : ~Found(i)) => NoAgent  BY DEF Found, NoAgent
    <3>2. NoAgent \/ th'[t].at = "record"  BY <2>3, <3>1, Moved DEF Lookup
    <3> QED  BY <3>2
  <2>4. CASE ResolveServers(t)  BY <2>4 DEF ResolveServers, At
  <2>5. CASE Submit(t)  BY <2>5 DEF Submit, At
  <2>6. CASE SaveRunID(t)  BY <2>6, Moved DEF SaveRunID
  <2> QED  BY <2>1, <2>2, <2>3, <2>4, <2>5, <2>6
<1> QED  BY <1>1, <1>2, <1>3 DEF EntersAlone, LooksFirst

LEMMA WatchMoves ==
  ASSUME TypeOK, NEW t \in Threads, Watch(t)
  PROVE  EntersAlone(t) /\ LooksFirst
<1> DEFINE m == [th EXCEPT ![t] = Left(t)]
<1>1. m[t].at \notin Launching /\ \A s \in Threads \ {t} : m[s] = th[s]
  BY DEF TypeOK, Left, Idle, Launching
<1>2. "watcher" \in Threads /\ m \in [Threads -> [at : Steps, run : Record]]
  BY RecordFields DEF Threads, TypeOK, Left, Steps
<1>3. th' = m \/ th' = [m EXCEPT !["watcher"] = [at |-> "check", run |-> Run(t)]]
  BY DEF Watch, Watching
<1> HIDE DEF m
<1>4. \A s \in Threads : th'[s].at = m[s].at \/ th'[s].at = "check"
  BY <1>2, <1>3
<1> QED  BY <1>1, <1>4 DEF EntersAlone, LooksFirst, Launching

LEMMA ApplyMoves ==
  ASSUME TypeOK, NEW t \in Threads, Apply(t) \/ Handle(t) \/ Mark(t)
  PROVE  EntersAlone(t) /\ LooksFirst
<1>1. th'[t].at \notin Launching /\ \A s \in Threads \ {t} : th'[s] = th[s]
  BY Moved DEF Apply, Handle, Mark, Unapply, Launching
<1> QED  BY <1>1, MovedOut

LEMMA CancelMoves ==
  ASSUME TypeOK, NEW t \in Threads, CancelList(t) \/ CancelAgain(t) \/ CancelSave(t)
  PROVE  EntersAlone(t) /\ LooksFirst
<1>1. ASSUME Cancelled(t)
      PROVE  th'[t].at \notin Launching /\ \A s \in Threads \ {t} : th'[s] = th[s]
  BY <1>1, Moved DEF Cancelled, Launching
<1>2. th'[t].at \notin Launching /\ \A s \in Threads \ {t} : th'[s] = th[s]
  BY <1>1 DEF CancelList, CancelAgain, CancelSave, Launching,
     TypeOK, Go, GoWith, Leave, Left, Idle
<1> QED  BY <1>2, MovedOut

LEMMA WatcherMoves ==
  ASSUME TypeOK, WatcherStep
  PROVE  EntersAlone("watcher") /\ LooksFirst
<1>1. "watcher" \in Threads  BY DEF Threads
<1>2. th'["watcher"].at \notin Launching /\ \A s \in Threads \ {"watcher"} : th'[s] = th[s]
  BY <1>1 DEF WatcherStep, Check, Observe, SaveAnswer, Launching,
     TypeOK, Go, GoWith, Leave, Left, Idle
<1> QED  BY <1>1, <1>2, MovedOut

LEMMA PollMoves ==
  ASSUME TypeOK, PollStep
  PROVE  EntersAlone("poll") /\ LooksFirst
<1>1. "poll" \in Threads  BY DEF Threads
<1>2. CASE Relaunch
  <2>1. \A s \in Threads \ {"poll"} : th'[s] = th[s]
    BY <1>1, <1>2, Moved DEF Relaunch
  <2>2. th'["poll"].at \notin {"servers", "submit"}
    BY <1>1, <1>2 DEF Relaunch, TypeOK, Go, GoWith, Leave, Left, Idle
  <2> QED  BY <1>2, <2>1, <2>2 DEF Relaunch, EntersAlone, LooksFirst
<1>3. CASE CallReconcile \/ List \/ ReconcileJob
  <2>1. th'["poll"].at \notin Launching /\ \A s \in Threads \ {"poll"} : th'[s] = th[s]
    BY <1>1, <1>3 DEF CallReconcile, List, ReconcileJob, Launching,
       TypeOK, Go, GoWith, Leave, Left, Idle
  <2> QED  BY <1>1, <2>1, MovedOut
<1> QED  BY <1>2, <1>3 DEF PollStep

LEMMA OperatorMoves ==
  ASSUME TypeOK, OperatorStep \/ CallPause \/ CallResume \/ CallCancel \/ CallRetry \/ ArchiveHalf
  PROVE  EntersAlone("operator") /\ LooksFirst
<1>1. "operator" \in Threads  BY DEF Threads
<1>2. th'["operator"].at \notin Launching /\ \A s \in Threads \ {"operator"} : th'[s] = th[s]
  <2>1. CASE OperatorStep \/ ArchiveHalf
    BY <1>1, <2>1, Moved
    DEF OperatorStep, Supersede, SupersedeSave, Replace, ArchiveJob, ArchiveHalf, ArchiveWrite,
        ArchiveRefused, Launching
  <2>2. CASE CallPause \/ CallResume \/ CallCancel \/ CallRetry
    BY <1>1, <2>2, Moved DEF CallPause, CallResume, CallCancel, CallRetry, Tool, Launching
  <2> QED  BY <2>1, <2>2
<1> QED  BY <1>1, <1>2, MovedOut

LEMMA FaultMoves ==
  ASSUME TypeOK, NEW t \in Threads, CallFails(t) \/ ResponseLost(t) \/ Restart
  PROVE  EntersAlone(t) /\ LooksFirst
<1>1. CASE CallFails(t) \/ ResponseLost(t)
  <2>1. th'[t].at \notin Launching /\ \A s \in Threads \ {t} : th'[s] = th[s]
    BY <1>1 DEF CallFails, ResponseLost, Unapply, Launching,
       TypeOK, Go, GoWith, Leave, Left, Idle
  <2> QED  BY <2>1, MovedOut
<1>2. CASE Restart
  BY <1>2 DEF Restart, Idle, Launching, EntersAlone, LooksFirst
<1> QED  BY <1>1, <1>2

(* What becomes of the agents: nothing new but by a submission.             *)
Active(i) == agents[i] \in {"running", "stopping"}
NothingStarts ==
  /\ DOMAIN agents' = DOMAIN agents
  /\ \A i \in DOMAIN agents : /\ Active(i)' => Active(i)
                              /\ agents[i] = "forgotten" => agents'[i] = "forgotten"

LEMMA SameAgents ==
  ASSUME UNCHANGED agents
  PROVE  NothingStarts
BY DEF NothingStarts, Active

LEMMA QuietAgents ==
  ASSUME LockExclusive, SubmitsAlone, OneAgentAtATime, NothingStarts, LooksFirst,
         NEW t \in Threads, EntersAlone(t)
  PROVE  LockExclusive' /\ SubmitsAlone' /\ OneAgentAtATime'
<1>1. LockExclusive'  BY OneLauncher
<1>2. NoAgent => NoAgent'  BY DEF NoAgent, NothingStarts
<1>3. SubmitsAlone'  BY <1>2 DEF SubmitsAlone, LooksFirst
<1>4. OneAgentAtATime'  BY DEF OneAgentAtATime, NothingStarts, Active
<1> QED  BY <1>1, <1>3, <1>4

(* The submitting thread is alone in a launch and finds nothing at work.    *)
LEMMA SubmitAgents ==
  ASSUME IInv, NEW t \in Threads, Submit(t) \/ ResponseLost(t)
  PROVE  LockExclusive' /\ SubmitsAlone' /\ OneAgentAtATime'
<1>1. At(t, "submit")  BY DEF Submit, ResponseLost
<1>2. EntersAlone(t)  BY LaunchMoves, FaultMoves DEF IInv
<1>3. LockExclusive'  BY <1>2, OneLauncher DEF IInv
<1>4. NoAgent  BY <1>1 DEF IInv, SubmitsAlone, At
<1>5. SubmitsAlone'
  <2>1. th'[t].at \notin {"servers", "submit"}
    BY DEF Submit, ResponseLost, IInv, TypeOK, GoWith, Leave, Left, Idle
  <2>2. ASSUME NEW s \in Threads, s # t PROVE th'[s].at \notin Launching
    <3>1. th[s].at \notin Launching
      BY <1>1, <2>2 DEF IInv, LockExclusive, At, Launching
    <3> QED  BY <1>2, <2>2, <3>1 DEF EntersAlone
  <2> QED  BY <2>1, <2>2 DEF SubmitsAlone, Launching
<1>6. OneAgentAtATime'
  <2>1. agents' = Append(agents, "running") /\ Len(agents) < MaxAgents
    BY DEF Submit, ResponseLost
  <2>2. /\ DOMAIN agents' = 1..(Len(agents) + 1) /\ Len(agents) \in Nat
        /\ DOMAIN agents = 1..Len(agents)
        /\ \A i \in 1..Len(agents) : agents'[i] = agents[i]
    BY <2>1, AppendTyped, RunIDs DEF IInv
  <2>3. \A i \in 1..Len(agents) : agents'[i] = "forgotten"
    BY <1>4, <2>2 DEF NoAgent
  <2>4. \A i \in DOMAIN agents' :
          agents'[i] \in {"running", "stopping"} => i = Len(agents) + 1
    BY <2>2, <2>3
  <2> QED  BY <2>4 DEF OneAgentAtATime
<1> QED  BY <1>3, <1>5, <1>6

LEMMA AgentsEnd ==
  ASSUME TypeOK, NEW i \in DOMAIN agents, Finish(i) \/ Forget(i)
  PROVE  NothingStarts
<1>1. CASE Finish(i)
  <2>1. PICK ending \in Terminals : agents' = [agents EXCEPT ![i] = ending]
    BY <1>1 DEF Finish, Terminals
  <2>2. ending \notin {"running", "stopping"} /\ agents[i] # "forgotten"
    BY <1>1, DispatchAssumption DEF Finish, Terminals, DispatchAssumption
  <2> QED  BY <2>1, <2>2 DEF TypeOK, NothingStarts, Active
<1>2. CASE Forget(i)
  BY <1>2 DEF Forget, TypeOK, NothingStarts, Active
<1> QED  BY <1>1, <1>2

LEMMA CancelAgents ==
  ASSUME TypeOK, NEW t \in Threads, CancelList(t) \/ CancelAgain(t) \/ CancelSave(t)
  PROVE  NothingStarts
<1>1. CASE CancelAgain(t)
  <2>1. agents' = agents \/ (\E i \in DOMAIN agents : agents[i] = "running"
                              /\ agents' = [agents EXCEPT ![i] = "stopping"])
    <3>1. Listed.RunID \in Nat /\ Listed.RunID <= Len(agents)
      BY StoredTyped DEF Record, Issued
    <3>2. Listed.RunID # 0 => Listed.RunID \in DOMAIN agents  BY <3>1, RunIDs
    <3> QED  BY <1>1, <3>2 DEF CancelAgain, Stopped
  <2> QED  BY <2>1 DEF TypeOK, NothingStarts, Active
<1>2. CASE CancelList(t) \/ CancelSave(t)
  BY <1>2, SameAgents DEF CancelList, CancelSave
<1> QED  BY <1>1, <1>2

LEMMA NextIInv ==
  ASSUME IInv, [Next]_vars
  PROVE  IInv'
<1> DEFINE Goal == LockExclusive' /\ SubmitsAlone' /\ OneAgentAtATime'
<1>1. TypeOK'  BY NextTyped DEF IInv
<1>2. ASSUME NEW t \in Threads, ThreadStep(t) PROVE Goal
  <2>1. CASE Submit(t)  BY <2>1, SubmitAgents
  <2>2. CASE Start(t) \/ SaveIntent(t) \/ Lookup(t) \/ ResolveServers(t) \/ SaveRunID(t)
    <3>1. UNCHANGED agents
      BY <2>2 DEF Start, SaveIntent, Lookup, ResolveServers, SaveRunID
    <3> QED  BY <2>2, <3>1, SameAgents, LaunchMoves, QuietAgents DEF IInv
  <2>3. CASE Watch(t)
    BY <2>3, SameAgents, WatchMoves, QuietAgents DEF IInv, Watch
  <2>4. CASE Apply(t) \/ Handle(t) \/ Mark(t)
    BY <2>4, SameAgents, ApplyMoves, QuietAgents DEF IInv, Apply, Handle, Mark
  <2>5. CASE CancelList(t) \/ CancelAgain(t) \/ CancelSave(t)
    BY <2>5, CancelAgents, CancelMoves, QuietAgents DEF IInv
  <2> QED  BY <1>2, <2>1, <2>2, <2>3, <2>4, <2>5 DEF ThreadStep
<1>3. ASSUME WatcherStep \/ PollStep PROVE Goal
  <2>1. UNCHANGED agents
    BY <1>3 DEF WatcherStep, Check, Observe, SaveAnswer, PollStep, CallReconcile, List,
       Relaunch, ReconcileJob
  <2>2. "watcher" \in Threads /\ "poll" \in Threads  BY DEF Threads
  <2> QED  BY <1>3, <2>1, <2>2, SameAgents, WatcherMoves, PollMoves, QuietAgents DEF IInv
<1>4. ASSUME OperatorStep \/ CallPause \/ CallResume \/ CallCancel \/ CallRetry \/ ArchiveHalf
      PROVE  Goal
  <2>1. UNCHANGED agents
    BY <1>4 DEF OperatorStep, Supersede, SupersedeSave, Replace, ArchiveJob, ArchiveHalf,
       ArchiveWrite, ArchiveRefused, CallPause, CallResume, CallCancel, CallRetry, Tool
  <2>2. "operator" \in Threads  BY DEF Threads
  <2> QED  BY <1>4, <2>1, <2>2, SameAgents, OperatorMoves, QuietAgents DEF IInv
<1>5. ASSUME CallStart PROVE Goal
  <2>1. "caller" \in Threads  BY DEF Threads
  <2>2. th'["caller"].at \notin Launching /\ \A s \in Threads \ {"caller"} : th'[s] = th[s]
    BY <1>5, <2>1 DEF IInv, TypeOK, CallStart, Go, Launching
  <2> QED  BY <1>5, <2>1, <2>2, MovedOut, SameAgents, QuietAgents DEF IInv, CallStart
<1>6. ASSUME NEW i \in DOMAIN agents, Finish(i) \/ Forget(i) PROVE Goal
  <2>1. UNCHANGED th  BY <1>6 DEF Finish, Forget
  <2>2. "poll" \in Threads /\ EntersAlone("poll") /\ LooksFirst
    BY <2>1 DEF EntersAlone, LooksFirst, Threads
  <2> QED  BY <1>6, <2>2, AgentsEnd, QuietAgents DEF IInv
<1>7. ASSUME NEW t \in Threads, CallFails(t) \/ Restart PROVE Goal
  BY <1>7, FaultMoves, SameAgents, QuietAgents DEF IInv, CallFails, Restart
<1>8. ASSUME NEW t \in Threads, ResponseLost(t) PROVE Goal  BY <1>8, SubmitAgents
<1>9. Goal
  <2>1. "poll" \in Threads  BY DEF Threads
  <2> HIDE DEF Goal
  <2>2. ASSUME Next PROVE Goal
    BY <2>1, <2>2, <1>2, <1>3, <1>4, <1>5, <1>6, <1>7, <1>8 DEF Next
  <2>3. ASSUME UNCHANGED vars PROVE Goal
    BY <2>3 DEF IInv, Goal, LockExclusive, SubmitsAlone, NoAgent, OneAgentAtATime, vars
  <2> QED  BY <2>2, <2>3
<1> QED  BY <1>1, <1>9 DEF IInv

LEMMA InitIInv ==
  ASSUME Init
  PROVE  IInv
<1>1. agents = <<>> /\ DOMAIN agents = {} /\ Len(agents) = 0  BY DEF Init
<1>2. \A t \in Threads : th[t] = Idle  BY DEF Init
<1>3. TypeOK
  <2>1. agents \in Seq(AgentStates)  BY <1>1
  <2>2. Len(agents) <= MaxAgents /\ left \in [faults : Nat, operator : Nat]
    BY <1>1, DispatchAssumption DEF Init, DispatchAssumption
  <2>3. th \in [Threads -> [at : Steps, run : Record]]  BY RecordFields DEF Init
  <2>4. Issued(live) /\ Issued(archive) /\ \A t \in Threads : Issued(th[t].run)
    BY <1>1, <1>2, RecordFields DEF Init, Issued, Idle
  <2> QED  BY <2>1, <2>2, <2>3, <2>4, RecordFields DEF Init, TypeOK
<1>4. LockExclusive /\ SubmitsAlone
  BY <1>2 DEF LockExclusive, SubmitsAlone, Idle, Launching
<1>5. OneAgentAtATime  BY <1>1 DEF OneAgentAtATime
<1> QED  BY <1>3, <1>4, <1>5 DEF IInv

(* The strengthened invariant: the lock of start admits one launch and a    *)
(* launch about to submit has found no agent.                               *)
THEOREM DispatchInvariance == Spec => []IInv
<1>1. Init => IInv  BY InitIInv
<1>2. IInv /\ [Next]_vars => IInv'  BY NextIInv
<1> QED  BY <1>1, <1>2, PTL DEF Spec

(* Type correctness, and every run ID on record is one AgentFoundry gave.   *)
THEOREM DispatchTyped == Spec => []TypeOK
<1>1. IInv => TypeOK  BY DEF IInv
<1> QED  BY <1>1, DispatchInvariance, PTL

(* At most one agent of a task ID is at work, however many callers, polls,  *)
(* failures, lost responses and restarts there are (dispatcher.go 292-420). *)
THEOREM OneAgent == Spec => []OneAgentAtATime
<1>1. IInv => OneAgentAtATime  BY DEF IInv
<1> QED  BY <1>1, DispatchInvariance, PTL

-----------------------------------------------------------------------------
(* The archive. *)

LEMMA SaveKeepsOut ==
  ASSUME NEW r, Save(r), archive # NoRecord
  PROVE  live = NoRecord => live' = NoRecord
BY DEF Save

(* An archived dispatch does not come back: only ArchiveJob writes the      *)
(* archive, once, and Save looks there first (store.go 65-93, 146-189).     *)
THEOREM ArchiveStays == Spec => ArchiveFinal
<1> DEFINE Kept == archive # NoRecord => archive' = archive /\ (live = NoRecord => live' = NoRecord)
<1>1. ASSUME [Next]_vars PROVE Kept
  <2>1. CASE UNCHANGED <<live, archive>>  BY <2>1
  <2>2. CASE UNCHANGED archive /\ \E r : Save(r)  BY <2>2, SaveKeepsOut
  <2>3. ASSUME NEW removed \in BOOLEAN, ArchiveWrite(removed) PROVE Kept
    BY <2>3 DEF ArchiveWrite
  <2>4. ASSUME NEW t \in Threads, ThreadStep(t)
        PROVE  UNCHANGED <<live, archive>> \/ (UNCHANGED archive /\ \E r : Save(r))
    BY <2>4 DEF ThreadStep, Start, SaveIntent, Lookup, ResolveServers, Submit, SaveRunID, Watch,
       Apply, Handle, Mark, CancelList, CancelAgain, CancelSave
  <2>5. ASSUME WatcherStep \/ PollStep
        PROVE  UNCHANGED <<live, archive>> \/ (UNCHANGED archive /\ \E r : Save(r))
    BY <2>5 DEF WatcherStep, Check, Observe, SaveAnswer, PollStep, CallReconcile, List, Relaunch,
       ReconcileJob
  <2>6. ASSUME CallStart \/ CallPause \/ CallResume \/ CallCancel \/ CallRetry
        PROVE  UNCHANGED <<live, archive>>
    BY <2>6 DEF CallStart, CallPause, CallResume, CallCancel, CallRetry, Tool
  <2>7. ASSUME OperatorStep PROVE Kept
    <3>1. CASE SupersedeSave
      <4>1. UNCHANGED archive /\ \E r : Save(r)  BY <3>1 DEF SupersedeSave
      <4> QED  BY <4>1, <2>2
    <3>2. CASE Supersede \/ Replace \/ ArchiveRefused
      BY <3>2, <2>1 DEF Supersede, Replace, ArchiveRefused
    <3>3. CASE ArchiveJob  BY <3>3, <2>3 DEF ArchiveJob
    <3> QED  BY <2>7, <3>1, <3>2, <3>3 DEF OperatorStep
  <2>8. ASSUME NEW i \in DOMAIN agents, Finish(i) \/ Forget(i) PROVE UNCHANGED <<live, archive>>
    BY <2>8 DEF Finish, Forget
  <2>9. ASSUME NEW t \in Threads, CallFails(t) \/ ResponseLost(t) \/ Restart
        PROVE  UNCHANGED <<live, archive>>
    BY <2>9 DEF CallFails, ResponseLost, Restart
  <2>10. ASSUME ArchiveHalf PROVE Kept  BY <2>10, <2>3 DEF ArchiveHalf
  <2>11. CASE UNCHANGED vars  BY <2>1, <2>11 DEF vars
  <2>12. CASE Next
    <3>1. "poll" \in Threads  BY DEF Threads
    <3> HIDE DEF Kept
    <3> QED
      BY <2>12, <3>1, <2>1, <2>2, <2>4, <2>5, <2>6, <2>7, <2>8, <2>9, <2>10 DEF Next
  <2> QED  BY <1>1, <2>11, <2>12
<1>2. [Next]_vars => [Kept]_vars  BY <1>1
<1> QED  BY <1>2, PTL DEF Spec, ArchiveFinal

-----------------------------------------------------------------------------
(***************************************************************************)
(* Dispatch implements Delivery.                                           *)
(*                                                                         *)
(* The invariant is about the copies.  Each thread works on a record it    *)
(* read some steps ago, while others write it; CopyOK says what is still   *)
(* true of the copy at the step where it is used.  Most of it is that a    *)
(* copy with an answer agrees with the record (Backed), because the record *)
(* never changes its answer and gets its run only from the launch that     *)
(* holds the lock of start.  Only Watched is about two threads: the copy   *)
(* that starts a watcher may be out of date because a watcher of the run   *)
(* has heard the answer, and then that watcher is still there.             *)
(***************************************************************************)

(* The invariant.                                                           *)
Known == {"running"} \cup Endings
Pending == live.RunID # 0 /\ ~Terminal(live)

LiveOK ==
  \/ live \in {NoRecord, Intent}
  \/ /\ live.RunID # 0 /\ live.Status \in Known
     /\ live.Superseded => live.Applied
     /\ live.Applied => Terminal(live) /\ (live.Superseded \/ outcome # "awaited")

(* A copy made before the record was applied, and one whose answer is the   *)
(* one on record.                                                           *)
Fresh(r) == r.RunID # 0 /\ r.Status \in Known /\ ~r.Applied /\ ~r.Superseded
Backed(r) == Terminal(r) /\ live.RunID # 0 /\ live.Status = r.Status

(* The watcher is about to apply the answer on record.                      *)
Watched ==
  /\ th["watcher"].at \in {"check", "apply", "handle", "mark"}
  /\ Backed(Run("watcher"))

CopyOK(t) ==
  LET r == Run(t) IN
  /\ th[t].at \notin Cancelling \cup {"archive"}
  /\ At(t, "refresh") => r = Intent /\ live \in {NoRecord, Intent}
  /\ th[t].at \in {"lookup", "servers", "submit"} => r = Intent /\ live = Intent
  /\ At(t, "record") => Fresh(r) /\ live = Intent
  /\ At(t, "relaunch") => live # NoRecord
  /\ th[t].at \in {"watch", "rewatch"} =>
       Fresh(r) /\ (Backed(r) \/ (~Terminal(r) /\ (Pending \/ live.Applied \/ Watched)))
  /\ At(t, "check") => Fresh(r) /\ (Backed(r) \/ (~Terminal(r) /\ (Pending \/ live.Applied)))
  /\ At(t, "observe") => Fresh(r) /\ ~Terminal(r) /\ Pending
  /\ At(t, "save") => Fresh(r) /\ Terminal(r) /\ Pending
  /\ th[t].at \in {"apply", "handle", "mark"} => Fresh(r) /\ Backed(r)
  /\ At(t, "mark") => outcome # "awaited"
  /\ At(t, "supersedeSave") => r.RunID # 0 /\ r.Applied /\ r.Superseded /\ Backed(r)
  /\ At(t, "replace") => live.Superseded \/ outcome # "awaited"

(* Who does what.                                                           *)
RoleOK(t) ==
  /\ th[t].at \in {"check", "observe", "save"} => t = "watcher"
  /\ th[t].at \in {"apply", "handle", "mark"} => t \in {"watcher", "poll"}
  /\ t = "watcher" => th[t].at \in {"idle", "check", "observe", "save", "apply", "handle", "mark"}

Unstopped == \A i \in DOMAIN agents : agents[i] \in Known \cup {"forgotten"}

Copies ==
  /\ archive = NoRecord /\ Unstopped /\ LiveOK
  /\ \A t \in Threads : CopyOK(t) /\ RoleOK(t)

CopiesOK == job # "cancelled" => Copies

-----------------------------------------------------------------------------
(* What a step may do to the record under the copies of others.             *)
LiveStays ==
  /\ live # NoRecord => live' # NoRecord
  /\ live.RunID # 0 => live'.RunID # 0
  /\ live.RunID # 0 /\ Terminal(live) => live'.Status = live.Status
  /\ live.Applied => live'.Applied
  /\ live.Superseded => live'.Superseded \/ outcome' # "awaited"
  /\ outcome # "awaited" => outcome' # "awaited"

LEMMA SameFields ==
  ASSUME NEW a \in Record, NEW b \in Record, a.RunID = b.RunID, a.Status = b.Status,
         a.Applied = b.Applied, a.Superseded = b.Superseded
  PROVE  a = b
BY DEF Record

LEMMA Facts ==
  /\ Endings \subseteq {"completed", "failed"}
  /\ \A r : Terminal(r) <=> r.Status \in Endings \cup {"cancelled"}
  /\ NoRecord.RunID = 0 /\ NoRecord.Status = "none" /\ ~NoRecord.Applied /\ ~NoRecord.Superseded
  /\ Intent.RunID = 0 /\ Intent.Status = "starting" /\ ~Intent.Applied /\ ~Intent.Superseded
  /\ Intent # NoRecord
<1>1. /\ Endings \subseteq {"completed", "failed"}
      /\ \A r : Terminal(r) <=> r.Status \in Endings \cup {"cancelled"}
  BY DispatchAssumption DEF DispatchAssumption, Terminal, Terminals
<1>2. NoRecord.RunID = 0 /\ NoRecord.Status = "none" /\ ~NoRecord.Applied /\ ~NoRecord.Superseded
  BY DEF NoRecord
<1>3. Intent.RunID = 0 /\ Intent.Status = "starting" /\ ~Intent.Applied /\ ~Intent.Superseded
  BY <1>2 DEF Intent, NoRecord
<1> QED BY <1>1, <1>2, <1>3

LEMMA IntentAgain ==
  [Intent EXCEPT !.Status = "starting", !.Superseded = FALSE] = Intent
<1> DEFINE r == [Intent EXCEPT !.Status = "starting", !.Superseded = FALSE]
<1>1. Intent \in Record
  BY RecordFields
<1>2. r \in Record
  BY <1>1 DEF Record, Statuses
<1>3. r.RunID = Intent.RunID /\ r.Status = Intent.Status /\ r.Applied = Intent.Applied
  BY <1>1, Facts DEF Record
<1>4. r.Superseded = Intent.Superseded
  <2>1. r.Superseded = FALSE
    BY <1>1 DEF Record
  <2>2. Intent.Superseded = FALSE
    BY DEF Intent, NoRecord
  <2> QED BY <2>1, <2>2
<1> QED BY <1>1, <1>2, <1>3, <1>4, SameFields

LEMMA BackedStays ==
  ASSUME LiveStays, NEW s \in Threads, th'[s] = th[s]
  PROVE  /\ Run(s)' = Run(s) /\ \A step : At(s, step)' <=> At(s, step)
         /\ Backed(Run(s)) => Backed(Run(s))'
         /\ Fresh(Run(s))' <=> Fresh(Run(s))
         /\ Terminal(Run(s))' <=> Terminal(Run(s))
<1>1. Run(s)' = Run(s) /\ \A step : At(s, step)' <=> At(s, step)
  BY DEF Run, At
<1>2. ASSUME Backed(Run(s)) PROVE Backed(Run(s))'
  <2>1. Terminal(live)
    BY <1>2 DEF Backed, Terminal
  <2> QED BY <1>1, <1>2, <2>1 DEF Backed, Terminal, LiveStays
<1> QED BY <1>1, <1>2 DEF Fresh, Terminal

LEMMA OtherStays ==
  ASSUME NEW s \in Threads, CopyOK(s), LiveStays, th'[s] = th[s],
         th[s].at \in {"refresh", "lookup", "servers", "submit", "record"} => live' = live,
         Pending => \/ Pending'
                    \/ s # "watcher" /\ live'.RunID # 0 /\ (live'.Applied \/ Watched'),
         Watched => Watched' \/ live'.Applied,
         RoleOK(s)
  PROVE  CopyOK(s)'
<1> DEFINE r == Run(s)
<1>1. r' = r /\ (\A step : At(s, step)' <=> At(s, step)) /\ (Backed(r) => Backed(r)')
      /\ (Fresh(r)' <=> Fresh(r)) /\ (Terminal(r)' <=> Terminal(r))
  BY BackedStays
<1> HIDE DEF r
<1>2. /\ th[s].at \notin Cancelling \cup {"archive"}
      /\ At(s, "refresh") => r = Intent /\ live \in {NoRecord, Intent}
      /\ th[s].at \in {"lookup", "servers", "submit"} => r = Intent /\ live = Intent
      /\ At(s, "record") => Fresh(r) /\ live = Intent
      /\ At(s, "relaunch") => live # NoRecord
  BY DEF CopyOK, r
<1>3. /\ th[s].at \in {"watch", "rewatch"} =>
           Fresh(r) /\ (Backed(r) \/ (~Terminal(r) /\ (Pending \/ live.Applied \/ Watched)))
      /\ At(s, "check") => Fresh(r) /\ (Backed(r) \/ (~Terminal(r) /\ (Pending \/ live.Applied)))
      /\ At(s, "observe") => Fresh(r) /\ ~Terminal(r) /\ Pending
      /\ At(s, "save") => Fresh(r) /\ Terminal(r) /\ Pending
  BY DEF CopyOK, r
<1>4. /\ th[s].at \in {"apply", "handle", "mark"} => Fresh(r) /\ Backed(r)
      /\ At(s, "mark") => outcome # "awaited"
      /\ At(s, "supersedeSave") => r.RunID # 0 /\ r.Applied /\ r.Superseded /\ Backed(r)
      /\ At(s, "replace") => live.Superseded \/ outcome # "awaited"
  BY DEF CopyOK, r
<1>5. th'[s].at = th[s].at
  OBVIOUS
<1>6. (/\ th[s].at \notin Cancelling \cup {"archive"}
       /\ At(s, "refresh") => r = Intent /\ live \in {NoRecord, Intent}
       /\ th[s].at \in {"lookup", "servers", "submit"} => r = Intent /\ live = Intent
       /\ At(s, "record") => Fresh(r) /\ live = Intent
       /\ At(s, "relaunch") => live # NoRecord)'
  BY <1>1, <1>2, <1>5 DEF LiveStays, At, Fresh
<1>7. (/\ th[s].at \in {"watch", "rewatch"} =>
           Fresh(r) /\ (Backed(r) \/ (~Terminal(r) /\ (Pending \/ live.Applied \/ Watched)))
       /\ At(s, "check") => Fresh(r) /\ (Backed(r) \/ (~Terminal(r) /\ (Pending \/ live.Applied)))
       /\ At(s, "observe") => Fresh(r) /\ ~Terminal(r) /\ Pending
       /\ At(s, "save") => Fresh(r) /\ Terminal(r) /\ Pending)'
  <2>1. th[s].at \in {"check", "observe", "save"} /\ Pending => Pending'
    BY DEF RoleOK
  <2>2. live.Applied => live'.Applied
    BY DEF LiveStays
  <2> QED BY <1>1, <1>3, <1>5, <2>1, <2>2 DEF At
<1>8. (/\ th[s].at \in {"apply", "handle", "mark"} => Fresh(r) /\ Backed(r)
       /\ At(s, "mark") => outcome # "awaited"
       /\ At(s, "supersedeSave") => r.RunID # 0 /\ r.Applied /\ r.Superseded /\ Backed(r)
       /\ At(s, "replace") => live.Superseded \/ outcome # "awaited")'
  BY <1>1, <1>4, <1>5 DEF LiveStays, At
<1> QED BY <1>6, <1>7, <1>8 DEF CopyOK, r

LEMMA WatchedStays ==
  ASSUME LiveStays, th'["watcher"] = th["watcher"]
  PROVE  Watched => Watched'
BY BackedStays DEF Watched, Threads

LEMMA CopiesKept ==
  ASSUME Copies, NEW t \in Threads, UNCHANGED archive, Unstopped', LiveOK', LiveStays,
         CopyOK(t)', RoleOK(t)', \A s \in Threads \ {t} : th'[s] = th[s],
         \A s \in Threads \ {t} : th[s].at \in {"refresh", "lookup", "servers", "submit", "record"}
                                    => live' = live,
         Pending => \/ Pending'
                    \/ t = "watcher" /\ live'.RunID # 0 /\ (live'.Applied \/ Watched'),
         t = "watcher" /\ Watched => Watched' \/ live'.Applied
  PROVE  Copies'
<1>1. Watched => Watched' \/ live'.Applied
  BY WatchedStays DEF Threads
<1>2. ASSUME NEW s \in Threads, s # t PROVE CopyOK(s)' /\ RoleOK(s)'
  <2>1. CopyOK(s) /\ RoleOK(s) /\ th'[s] = th[s]
    BY <1>2 DEF Copies
  <2>2. Pending => Pending' \/ (s # "watcher" /\ live'.RunID # 0 /\ (live'.Applied \/ Watched'))
    BY <1>2
  <2>3. th[s].at \in {"refresh", "lookup", "servers", "submit", "record"} => live' = live
    BY <1>2
  <2>4. CopyOK(s)'
    BY <1>1, <2>1, <2>2, <2>3, OtherStays
  <2> QED BY <2>1, <2>4 DEF RoleOK
<1> QED BY <1>2 DEF Copies

(* A step that writes no record and delivers nothing.                       *)
Silent == UNCHANGED <<live, archive, agents, outcome>>

LEMMA SilentKeeps ==
  ASSUME Copies, Silent, NEW t \in Threads, CopyOK(t)', RoleOK(t)',
         \A s \in Threads \ {t} : th'[s] = th[s],
         t = "watcher" /\ Watched => Watched' \/ live'.Applied
  PROVE  Copies'
<1>1. Unstopped' /\ LiveOK' /\ LiveStays /\ (Pending <=> Pending')
  BY DEF Silent, Copies, Unstopped, LiveOK, LiveStays, Pending, Terminal
<1> QED BY <1>1, CopiesKept DEF Silent

(* Where a thread has nothing to know.                                      *)
LEMMA RestsOK ==
  ASSUME NEW t \in Threads, th'[t].at \in {"idle", "start", "list", "jobs", "supersede"},
         t = "watcher" => th'[t].at = "idle"
  PROVE  CopyOK(t)' /\ RoleOK(t)'
BY DEF CopyOK, RoleOK, At, Cancelling

LEMMA Placed ==
  ASSUME TypeOK, NEW t \in Threads
  PROVE  /\ \A step : Go(t, step) => /\ th'[t].at = step /\ Run(t)' = Run(t)
                                     /\ \A s \in Threads \ {t} : th'[s] = th[s]
         /\ \A step, r : GoWith(t, step, r) => /\ th'[t].at = step /\ Run(t)' = r
                                              /\ \A s \in Threads \ {t} : th'[s] = th[s]
         /\ Leave(t) => /\ th'[t].at \in {"jobs", "idle"} /\ (t = "watcher" => th'[t].at = "idle")
                        /\ \A s \in Threads \ {t} : th'[s] = th[s]
BY DEF TypeOK, Go, GoWith, Leave, Left, Idle, Run

LEMMA LeaveKeeps ==
  ASSUME TypeOK, Copies, Silent, NEW t \in Threads, Leave(t),
         t = "watcher" /\ Watched => live.Applied
  PROVE  Copies'
<1>1. th'[t].at \in {"jobs", "idle"} /\ (t = "watcher" => th'[t].at = "idle")
      /\ \A s \in Threads \ {t} : th'[s] = th[s]
  BY Placed
<1>2. CopyOK(t)' /\ RoleOK(t)'
  BY <1>1, RestsOK
<1>3. live' = live
  BY DEF Silent
<1> QED BY <1>1, <1>2, <1>3, SilentKeeps

(* While the job is not cancelled nothing is archived.                      *)
LEMMA OnlyLive ==
  ASSUME Copies
  PROVE  /\ Stored = live /\ \A r : Save(r) => live' = r
         /\ live.RunID = 0 => live \in {NoRecord, Intent}
         /\ live.RunID # 0 => /\ live.Status \in Known
                              /\ live.Superseded => live.Applied
                              /\ live.Applied => Terminal(live)
         /\ ~Terminal(NoRecord) /\ ~Terminal(Intent)
<1>1. ~Terminal(NoRecord) /\ ~Terminal(Intent)
  BY Facts
<1>2. live.RunID = 0 => live \in {NoRecord, Intent}
  BY DEF Copies, LiveOK
<1>3. Intent.RunID = 0 /\ NoRecord.RunID = 0
  BY Facts
<1>4. live.RunID # 0 => /\ live.Status \in Known
                        /\ live.Superseded => live.Applied
                        /\ live.Applied => Terminal(live)
  BY <1>3 DEF Copies, LiveOK
<1>5. Stored = live /\ \A r : Save(r) => live' = r
  BY DEF Copies, Stored, Save
<1> QED BY <1>1, <1>2, <1>4, <1>5

-----------------------------------------------------------------------------
(* One lemma for each action.                                               *)
LEMMA CallStartKeeps ==
  ASSUME TypeOK, Copies, CallStart
  PROVE  Copies'
<1>1. "caller" \in Threads
  BY DEF Threads
<1>2. th'["caller"].at = "start" /\ \A s \in Threads \ {"caller"} : th'[s] = th[s]
  BY <1>1, Placed DEF CallStart
<1>3. CopyOK("caller")' /\ RoleOK("caller")'
  BY <1>1, <1>2, RestsOK
<1> QED BY <1>1, <1>2, <1>3, SilentKeeps DEF CallStart, Silent

LEMMA StartKeeps ==
  ASSUME TypeOK, Copies, NEW t \in Threads, Start(t)
  PROVE  Copies'
<1>1. Silent /\ At(t, "start") /\ t # "watcher"
  BY DEF Start, Silent, Copies, RoleOK, At
<1>2. CASE Leave(t)
  BY <1>1, <1>2, LeaveKeeps
<1>3. ASSUME NEW step \in {"refresh", "watch"}, NEW r, GoWith(t, step, r),
             step = "refresh" => r = Intent /\ live \in {NoRecord, Intent},
             step = "watch" => Fresh(r) /\ (Backed(r) \/ (~Terminal(r) /\ Pending))
      PROVE  Copies'
  <2>1. th'[t].at = step /\ Run(t)' = r /\ \A s \in Threads \ {t} : th'[s] = th[s]
    BY <1>3, Placed
  <2>2. live' = live
    BY <1>1 DEF Silent
  <2>3. Fresh(r)' = Fresh(r) /\ Backed(r)' = Backed(r) /\ Pending' = Pending
    BY <2>2 DEF Fresh, Backed, Pending, Terminal
  <2>4. CopyOK(t)' /\ RoleOK(t)'
    BY <1>1, <1>3, <2>1, <2>2 DEF CopyOK, RoleOK, At, Cancelling, Fresh, Backed, Pending, Terminal
  <2> QED BY <1>1, <2>1, <2>4, SilentKeeps
<1>4. CASE Stored = NoRecord /\ GoWith(t, "refresh", Intent)
  BY <1>3, <1>4, OnlyLive
<1>5. CASE /\ Stored # NoRecord /\ Stored.RunID = 0
           /\ GoWith(t, "refresh", [Stored EXCEPT !.Status = "starting", !.Superseded = FALSE])
  <2>1. live = Intent
    BY <1>5, OnlyLive
  <2>2. GoWith(t, "refresh", Intent)
    BY <1>5, <2>1, OnlyLive, IntentAgain
  <2> QED BY <1>3, <2>1, <2>2
<1>6. CASE Stored.RunID # 0 /\ Unapplied(Stored) /\ GoWith(t, "watch", Stored)
  <2>1. live.RunID # 0 /\ live.Status \in Known /\ ~live.Applied /\ ~live.Superseded
    BY <1>6, OnlyLive DEF Unapplied
  <2>2. Fresh(live) /\ (Backed(live) \/ (~Terminal(live) /\ Pending))
    BY <2>1 DEF Fresh, Backed, Pending
  <2>3. GoWith(t, "watch", live)
    BY <1>6, OnlyLive
  <2> QED BY <1>3, <2>2, <2>3
<1> QED BY <1>2, <1>4, <1>5, <1>6 DEF Start

(* A launching thread is alone: no copy of another rests on the record.     *)
LEMMA LaunchAlone ==
  ASSUME LockExclusive, NEW t \in Threads, th[t].at \in Launching
  PROVE  \A s \in Threads \ {t} : th[s].at \notin {"refresh", "lookup", "servers", "submit", "record"}
BY DEF LockExclusive, Launching

LEMMA SaveIntentKeeps ==
  ASSUME TypeOK, LockExclusive, Copies, NEW t \in Threads, SaveIntent(t)
  PROVE  Copies'
<1>1. At(t, "refresh") /\ Run(t) = Intent /\ live \in {NoRecord, Intent} /\ t # "watcher"
  BY DEF SaveIntent, Copies, CopyOK, RoleOK, At
<1>2. live' = Intent
  BY <1>1, OnlyLive DEF SaveIntent
<1>3. th'[t].at = "lookup" /\ Run(t)' = Intent /\ \A s \in Threads \ {t} : th'[s] = th[s]
  BY <1>1, Placed DEF SaveIntent
<1>4. UNCHANGED <<archive, agents, outcome>>
  BY DEF SaveIntent
<1>5. live.RunID = 0 /\ ~live.Applied /\ ~live.Superseded
  BY <1>1, Facts
<1>6. LiveStays /\ LiveOK' /\ Unstopped' /\ ~Pending
  BY <1>1, <1>2, <1>4, <1>5, Facts DEF LiveStays, LiveOK, Unstopped, Copies, Pending
<1>7. CopyOK(t)' /\ RoleOK(t)'
  BY <1>1, <1>2, <1>3 DEF CopyOK, RoleOK, At, Cancelling
<1>8. \A s \in Threads \ {t} : th[s].at \notin {"refresh", "lookup", "servers", "submit", "record"}
  BY <1>1, LaunchAlone DEF At, Launching
<1> QED BY <1>1, <1>3, <1>4, <1>6, <1>7, <1>8, CopiesKept

(* What AgentFoundry reports of a run it knows.                             *)
LEMMA ReportedKnown ==
  ASSUME TypeOK, Copies, NEW i \in DOMAIN agents, Found(i)
  PROVE  Reported(i) \in Known /\ i # 0
<1>1. agents[i] \in Known
  BY DEF Copies, Unstopped, Found
<1>2. agents[i] # "stopping"
  BY <1>1, Facts DEF Known
<1> QED BY <1>1, <1>2, RunIDs DEF Reported

LEMMA LookupKeeps ==
  ASSUME TypeOK, Copies, NEW t \in Threads, Lookup(t)
  PROVE  Copies'
<1>1. Silent /\ At(t, "lookup") /\ t # "watcher" /\ Run(t) = Intent /\ live = Intent
  BY DEF Lookup, Silent, Copies, CopyOK, RoleOK, At
<1>2. CASE Go(t, "servers")
  <2>1. th'[t].at = "servers" /\ Run(t)' = Intent /\ \A s \in Threads \ {t} : th'[s] = th[s]
    BY <1>1, <1>2, Placed
  <2>2. live' = Intent
    BY <1>1 DEF Silent
  <2>3. CopyOK(t)' /\ RoleOK(t)'
    BY <1>1, <2>1, <2>2 DEF CopyOK, RoleOK, At, Cancelling
  <2> QED BY <1>1, <2>1, <2>3, SilentKeeps
<1>3. ASSUME NEW i \in DOMAIN agents, Found(i),
             GoWith(t, "record", [Run(t) EXCEPT !.RunID = i, !.Status = Reported(i),
                                                !.Superseded = FALSE])
      PROVE  Copies'
  <2> DEFINE r == [Run(t) EXCEPT !.RunID = i, !.Status = Reported(i), !.Superseded = FALSE]
  <2>1. r.RunID = i /\ r.Status = Reported(i) /\ ~r.Superseded /\ r.Applied = Run(t).Applied
    BY CopyTyped DEF Record
  <2>2. ~Run(t).Applied
    BY <1>1, Facts
  <2>3. Fresh(r)
    BY <1>3, <2>1, <2>2, ReportedKnown DEF Fresh
  <2> HIDE DEF r
  <2>4. GoWith(t, "record", r)
    BY <1>3 DEF r
  <2>5. th'[t].at = "record" /\ Run(t)' = r /\ \A s \in Threads \ {t} : th'[s] = th[s]
    BY <2>4, Placed
  <2>6. Fresh(Run(t))' /\ live' = Intent
    BY <1>1, <2>3, <2>5 DEF Silent, Fresh
  <2>7. CopyOK(t)' /\ RoleOK(t)'
    BY <1>1, <2>5, <2>6 DEF CopyOK, RoleOK, At, Cancelling
  <2> QED BY <1>1, <2>5, <2>7, SilentKeeps
<1> QED BY <1>2, <1>3 DEF Lookup

LEMMA ResolveServersKeeps ==
  ASSUME TypeOK, Copies, NEW t \in Threads, ResolveServers(t)
  PROVE  Copies'
<1>1. Silent /\ At(t, "servers") /\ t # "watcher" /\ Run(t) = Intent /\ live = Intent
  BY DEF ResolveServers, Silent, Copies, CopyOK, RoleOK, At
<1>2. CASE Go(t, "submit")
  <2>1. th'[t].at = "submit" /\ Run(t)' = Intent /\ \A s \in Threads \ {t} : th'[s] = th[s]
    BY <1>1, <1>2, Placed
  <2>2. live' = Intent
    BY <1>1 DEF Silent
  <2>3. CopyOK(t)' /\ RoleOK(t)'
    BY <1>1, <2>1, <2>2 DEF CopyOK, RoleOK, At, Cancelling
  <2> QED BY <1>1, <2>1, <2>3, SilentKeeps
<1>3. CASE Leave(t)
  BY <1>1, <1>3, LeaveKeeps
<1> QED BY <1>2, <1>3 DEF ResolveServers

(* A submission adds a run that is at work and touches no record.           *)
LEMMA AddedRuns ==
  ASSUME TypeOK, Copies, Len(agents) < MaxAgents, agents' = Append(agents, "running")
  PROVE  Unstopped'
<1>1. /\ DOMAIN agents' = 1..Len(agents') /\ Len(agents') = Len(agents) + 1
      /\ \A i \in DOMAIN agents : agents'[i] = agents[i]
      /\ DOMAIN agents = 1..Len(agents) /\ Len(agents) \in Nat
  BY AppendTyped, RunIDs
<1>2. agents'[Len(agents) + 1] = "running"
  BY AppendProperties DEF TypeOK
<1>3. \A i \in DOMAIN agents' : i \in DOMAIN agents \/ i = Len(agents) + 1
  BY <1>1
<1> QED BY <1>1, <1>2, <1>3 DEF Copies, Unstopped, Known

LEMMA SubmitKeeps ==
  ASSUME TypeOK, Copies, NEW t \in Threads, Submit(t)
  PROVE  Copies'
<1>1. /\ At(t, "submit") /\ t # "watcher" /\ Run(t) = Intent /\ live = Intent
      /\ UNCHANGED <<live, archive, outcome>>
  BY DEF Submit, Copies, CopyOK, RoleOK, At
<1>2. Unstopped' /\ Len(agents') # 0
  BY AddedRuns, AppendTyped, RunIDs DEF Submit
<1> DEFINE r == [Run(t) EXCEPT !.RunID = Len(agents'), !.Status = "running"]
<1>3. /\ r.RunID = Len(agents') /\ r.Status = "running" /\ r.Applied = Run(t).Applied
      /\ r.Superseded = Run(t).Superseded
  BY CopyTyped DEF Record
<1>4. th'[t].at = "record" /\ Run(t)' = r /\ \A s \in Threads \ {t} : th'[s] = th[s]
  BY Placed DEF Submit
<1> HIDE DEF r
<1>5. Fresh(Run(t))'
  BY <1>1, <1>2, <1>3, <1>4, Facts DEF Fresh, Known
<1>6. CopyOK(t)' /\ RoleOK(t)'
  BY <1>1, <1>4, <1>5 DEF CopyOK, RoleOK, At, Cancelling
<1>7. LiveOK' /\ LiveStays /\ (Pending <=> Pending')
  BY <1>1 DEF Copies, LiveOK, LiveStays, Pending, Terminal
<1> QED BY <1>1, <1>2, <1>4, <1>6, <1>7, CopiesKept

LEMMA SaveRunIDKeeps ==
  ASSUME TypeOK, LockExclusive, Copies, NEW t \in Threads, SaveRunID(t)
  PROVE  Copies'
<1>1. At(t, "record") /\ Fresh(Run(t)) /\ live = Intent /\ t # "watcher"
  BY DEF SaveRunID, Copies, CopyOK, RoleOK, At
<1>2. live' = Run(t)
  BY <1>1, OnlyLive DEF SaveRunID
<1>3. th'[t].at = "watch" /\ Run(t)' = Run(t) /\ \A s \in Threads \ {t} : th'[s] = th[s]
  BY <1>1, Placed DEF SaveRunID
<1>4. UNCHANGED <<archive, agents, outcome>>
  BY DEF SaveRunID
<1>5. live.RunID = 0 /\ ~live.Applied /\ ~live.Superseded
  BY <1>1, Facts
<1>6. live'.RunID # 0 /\ live'.Status \in Known /\ ~live'.Applied /\ ~live'.Superseded
  BY <1>1, <1>2 DEF Fresh
<1>7. LiveStays /\ LiveOK' /\ Unstopped' /\ ~Pending
  <2>1. LiveOK'
    BY <1>6 DEF LiveOK
  <2>2. LiveStays
    BY <1>4, <1>5, <1>6, Facts DEF LiveStays
  <2> QED BY <1>4, <1>5, <2>1, <2>2 DEF Unstopped, Copies, Pending
<1>8. Fresh(Run(t))' /\ (Backed(Run(t))' \/ (~Terminal(Run(t))' /\ Pending'))
  BY <1>1, <1>2, <1>3 DEF Fresh, Backed, Pending, Terminal
<1>9. CopyOK(t)' /\ RoleOK(t)'
  BY <1>1, <1>3, <1>8 DEF CopyOK, RoleOK, At, Cancelling
<1>10. \A s \in Threads \ {t} : th[s].at \notin {"refresh", "lookup", "servers", "submit", "record"}
  BY <1>1, LaunchAlone DEF At, Launching
<1> QED BY <1>1, <1>3, <1>4, <1>7, <1>9, <1>10, CopiesKept

(* A watcher starts with the copy it is given, if there is none.            *)
LEMMA WatchKeeps ==
  ASSUME TypeOK, Copies, NEW t \in Threads, Watch(t)
  PROVE  Copies'
<1> DEFINE w == "watcher"
           m == [th EXCEPT ![t] = Left(t)]
           y == [at |-> "check", run |-> Run(t)]
<1>1. /\ Silent /\ t # w /\ w \in Threads
      /\ Fresh(Run(t))
      /\ Backed(Run(t)) \/ (~Terminal(Run(t)) /\ (Pending \/ live.Applied \/ Watched))
  BY DEF Watch, Silent, Copies, CopyOK, RoleOK, Threads
<1>2. LiveStays /\ LiveOK' /\ Unstopped' /\ (Pending <=> Pending') /\ live' = live
  BY <1>1 DEF Silent, Copies, Unstopped, LiveOK, LiveStays, Pending, Terminal
<1>3. /\ m[t] = Left(t) /\ \A s \in Threads \ {t} : m[s] = th[s]
      /\ m \in [Threads -> [at : Steps, run : Record]]
  BY RecordFields DEF TypeOK, Left, Steps
<1>4. th' = m \/ (th[w] = Idle /\ th' = [m EXCEPT ![w] = y])
  BY <1>1, <1>3 DEF Watch, Watching
<1>5. th'[t].at \in {"jobs", "idle"}
  <2>1. th'[t] = Left(t)
    BY <1>1, <1>3, <1>4
  <2> QED BY <2>1 DEF Left, Idle
<1>6. CopyOK(t)' /\ RoleOK(t)'
  BY <1>1, <1>5, RestsOK
<1>7. \A s \in Threads \ {t, w} : th'[s] = th[s]
  BY <1>1, <1>3, <1>4
<1>8. CASE th' = m
  <2>1. \A s \in Threads \ {t} : th'[s] = th[s]
    BY <1>3, <1>8
  <2> QED BY <1>1, <1>6, <2>1, SilentKeeps
<1>9. CASE th[w] = Idle /\ th' = [m EXCEPT ![w] = y]
  <2>1. th'[w] = y
    BY <1>1, <1>3, <1>9
  <2>2. ~Watched
    BY <1>9 DEF Watched, Idle
  <2>3. th'[w].at = "check" /\ Run(w)' = Run(t)
    BY <2>1 DEF Run
  <2>4. Fresh(Run(w))' /\ (Backed(Run(w))' \/ (~Terminal(Run(w))' /\ (Pending' \/ live'.Applied)))
    BY <1>1, <1>2, <2>2, <2>3 DEF Fresh, Backed, Terminal
  <2>5. CopyOK(w)' /\ RoleOK(w)'
    BY <2>3, <2>4 DEF CopyOK, RoleOK, At, Cancelling
  <2>6. ASSUME NEW s \in Threads \ {t, w} PROVE CopyOK(s)' /\ RoleOK(s)'
    <3>1. CopyOK(s) /\ RoleOK(s) /\ th'[s] = th[s] /\ s \in Threads
      BY <1>7, <2>6 DEF Copies
    <3>2. CopyOK(s)'
      BY <1>2, <2>2, <3>1, OtherStays
    <3> QED BY <3>1, <3>2 DEF RoleOK
  <2> QED BY <1>1, <1>2, <1>6, <2>5, <2>6 DEF Copies, Silent
<1> QED BY <1>4, <1>8, <1>9

LEMMA CheckKeeps ==
  ASSUME TypeOK, Copies, Check
  PROVE  Copies'
<1> DEFINE w == "watcher"
<1>1. /\ Silent /\ At(w, "check") /\ w \in Threads /\ Fresh(Run(w)) /\ Stored = live
      /\ Backed(Run(w)) \/ (~Terminal(Run(w)) /\ (Pending \/ live.Applied))
  BY OnlyLive DEF Check, Silent, Copies, CopyOK, Threads
<1>2. CASE live.Applied
  BY <1>1, <1>2, LeaveKeeps DEF Check
<1>3. ASSUME NEW step \in {"apply", "observe"}, Go(w, step), ~live.Applied,
             step = "apply" <=> Terminal(Run(w))
      PROVE  Copies'
  <2>1. th'[w].at = step /\ Run(w)' = Run(w) /\ \A s \in Threads \ {w} : th'[s] = th[s]
    BY <1>1, <1>3, Placed
  <2>2. live' = live
    BY <1>1 DEF Silent
  <2>3. /\ Fresh(Run(w))' /\ (Backed(Run(w))' <=> Backed(Run(w))) /\ (Pending' <=> Pending)
        /\ (Terminal(Run(w))' <=> Terminal(Run(w)))
    BY <1>1, <2>1, <2>2 DEF Fresh, Backed, Terminal, Pending
  <2>4. Backed(Run(w)) => Terminal(Run(w))
    BY DEF Backed
  <2>5. IF step = "apply" THEN Backed(Run(w))' ELSE ~Terminal(Run(w))' /\ Pending'
    BY <1>1, <1>3, <2>3, <2>4
  <2>6. CopyOK(w)' /\ RoleOK(w)'
    BY <1>1, <1>3, <2>1, <2>3, <2>5 DEF CopyOK, RoleOK, At, Cancelling
  <2>7. Watched => Watched'
    BY <1>1, <1>3, <2>1, <2>3, <2>4 DEF Watched
  <2> QED BY <1>1, <2>1, <2>6, <2>7, SilentKeeps
<1>4. CASE ~live.Applied
  <2>1. Go(w, IF Terminal(Run(w)) THEN "apply" ELSE "observe")
    BY <1>1, <1>4 DEF Check
  <2> QED BY <1>3, <1>4, <2>1
<1> QED BY <1>2, <1>4

LEMMA ObserveKeeps ==
  ASSUME TypeOK, Copies, Observe
  PROVE  Copies'
<1> DEFINE w == "watcher"
           i == Run(w).RunID
           r == [Run(w) EXCEPT !.Status = Reported(i), !.Superseded = FALSE]
<1>1. /\ Silent /\ At(w, "observe") /\ w \in Threads /\ Fresh(Run(w)) /\ ~Terminal(Run(w)) /\ Pending
      /\ live' = live
  BY DEF Observe, Silent, Copies, CopyOK, Threads
<1>2. ~Watched
  BY <1>1 DEF Watched, At
<1>3. CASE Go(w, "check")
  <2>1. th'[w].at = "check" /\ Run(w)' = Run(w) /\ \A s \in Threads \ {w} : th'[s] = th[s]
    BY <1>1, <1>3, Placed
  <2>2. Fresh(Run(w))' /\ ~Terminal(Run(w))' /\ Pending'
    BY <1>1, <2>1 DEF Fresh, Terminal, Pending
  <2>3. CopyOK(w)' /\ RoleOK(w)'
    BY <2>1, <2>2 DEF CopyOK, RoleOK, At, Cancelling
  <2> QED BY <1>1, <1>2, <2>1, <2>3, SilentKeeps
<1>4. CASE Found(i) /\ Reported(i) # "running" /\ GoWith(w, "save", r)
  <2>1. Reported(i) \in Endings
    BY <1>4, ReportedKnown DEF Found, Known
  <2>2. /\ r.RunID = Run(w).RunID /\ r.Status = Reported(i) /\ r.Applied = Run(w).Applied
        /\ ~r.Superseded
    BY <1>1, CopyTyped DEF Record
  <2> HIDE DEF r, i
  <2>3. Fresh(r) /\ Terminal(r)
    BY <1>1, <2>1, <2>2, Facts DEF Fresh, Known
  <2>4. th'[w].at = "save" /\ Run(w)' = r /\ \A s \in Threads \ {w} : th'[s] = th[s]
    BY <1>1, <1>4, Placed
  <2>5. Fresh(Run(w))' /\ Terminal(Run(w))' /\ Pending'
    BY <1>1, <2>3, <2>4 DEF Fresh, Terminal, Pending
  <2>6. CopyOK(w)' /\ RoleOK(w)'
    BY <2>4, <2>5 DEF CopyOK, RoleOK, At, Cancelling
  <2> QED BY <1>1, <1>2, <2>4, <2>6, SilentKeeps
<1> QED BY <1>3, <1>4 DEF Observe

LEMMA SaveAnswerKeeps ==
  ASSUME TypeOK, Copies, SaveAnswer
  PROVE  Copies'
<1> DEFINE w == "watcher"
<1>1. /\ At(w, "save") /\ w \in Threads /\ Fresh(Run(w)) /\ Terminal(Run(w)) /\ Pending
      /\ UNCHANGED <<archive, agents, outcome>>
  BY DEF SaveAnswer, Copies, CopyOK, Threads
<1>2. live' = Run(w)
  BY <1>1, OnlyLive DEF SaveAnswer
<1>3. th'[w].at = "apply" /\ Run(w)' = Run(w) /\ \A s \in Threads \ {w} : th'[s] = th[s]
  BY <1>1, Placed DEF SaveAnswer
<1>4. live.RunID # 0 /\ ~Terminal(live) /\ ~live.Applied /\ ~live.Superseded
  BY <1>1, OnlyLive DEF Pending
<1>5. live'.RunID # 0 /\ live'.Status \in Known /\ ~live'.Applied /\ ~live'.Superseded
  BY <1>1, <1>2 DEF Fresh
<1>6. LiveOK' /\ Unstopped'
  BY <1>1, <1>5 DEF LiveOK, Copies, Unstopped
<1>7. LiveStays
  BY <1>1, <1>4, <1>5, Facts DEF LiveStays
<1>8. Fresh(Run(w))' /\ Backed(Run(w))'
  BY <1>1, <1>2, <1>3 DEF Fresh, Backed, Terminal
<1>9. CopyOK(w)' /\ RoleOK(w)' /\ Watched'
  BY <1>3, <1>8 DEF CopyOK, RoleOK, At, Cancelling, Watched
<1>10. \A s \in Threads : th[s].at \notin {"refresh", "lookup", "servers", "submit", "record"}
  BY <1>4, Facts DEF Copies, CopyOK, At
<1> QED BY <1>1, <1>3, <1>5, <1>6, <1>7, <1>9, <1>10, CopiesKept

(* The thread goes on with the answer on record.                            *)
LEMMA AnswerCarried ==
  ASSUME Copies, NEW t \in Threads, UNCHANGED live, outcome # "awaited" => outcome' # "awaited",
         t \in {"watcher", "poll"}, Fresh(Run(t)), Backed(Run(t)), Run(t)' = Run(t),
         th'[t].at \in {"handle", "mark", "check", "rewatch"},
         th'[t].at = "mark" => outcome' # "awaited",
         th'[t].at = "check" <=> (t = "watcher" /\ th'[t].at \notin {"handle", "mark"})
  PROVE  CopyOK(t)' /\ RoleOK(t)' /\ (t = "watcher" /\ Watched => Watched')
<1>1. Fresh(Run(t))' /\ Backed(Run(t))'
  BY DEF Fresh, Backed, Terminal
<1>2. CopyOK(t)'
  BY <1>1 DEF CopyOK, At, Cancelling
<1>3. RoleOK(t)'
  BY DEF RoleOK
<1>4. t = "watcher" => Watched'
  BY <1>1 DEF Watched
<1> QED BY <1>2, <1>3, <1>4

LEMMA ApplyKeeps ==
  ASSUME TypeOK, Copies, NEW t \in Threads, Apply(t)
  PROVE  Copies'
<1>1. Silent /\ Fresh(Run(t)) /\ Backed(Run(t)) /\ t \in {"watcher", "poll"} /\ Stored = live
  BY OnlyLive DEF Apply, Silent, Copies, CopyOK, RoleOK, At
<1>2. CASE Leave(t)
  <2>1. live.Applied
    <3>1. ~Run(t).Applied
      BY <1>1 DEF Fresh
    <3>2. CASE Stored.Applied
      BY <1>1, <3>2
    <3>3. CASE ~Stored.Applied
      <4>1. Go(t, "handle")
        BY <3>1, <3>3 DEF Apply
      <4>2. th'[t].at = "handle"
        BY <4>1, Placed
      <4> QED BY <1>2, <4>2, Placed
    <3> QED BY <3>2, <3>3
  <2> QED BY <1>1, <1>2, <2>1, LeaveKeeps
<1>3. CASE Go(t, "handle")
  <2>1. th'[t].at = "handle" /\ Run(t)' = Run(t) /\ \A s \in Threads \ {t} : th'[s] = th[s]
    BY <1>3, Placed
  <2>2. CopyOK(t)' /\ RoleOK(t)' /\ (t = "watcher" /\ Watched => Watched')
    BY <1>1, <2>1, AnswerCarried DEF Silent
  <2> QED BY <1>1, <2>1, <2>2, SilentKeeps
<1> QED BY <1>2, <1>3 DEF Apply

LEMMA HandleKeeps ==
  ASSUME TypeOK, Copies, job # "cancelled", NEW t \in Threads, Handle(t)
  PROVE  Copies'
<1>1. /\ Fresh(Run(t)) /\ Backed(Run(t)) /\ t \in {"watcher", "poll"} /\ At(t, "handle")
      /\ UNCHANGED <<live, archive, agents>>
  BY DEF Handle, Copies, CopyOK, RoleOK, At
<1>2. \E step \in {"mark", "check", "rewatch"} :
        /\ Go(t, step)
        /\ step = "mark" => outcome' # "awaited"
        /\ step # "mark" => step = IF t = "poll" THEN "rewatch" ELSE "check"
        /\ outcome # "awaited" => outcome' # "awaited"
  <2>1. Run(t).Status # "awaited"
    BY <1>1, Facts DEF Backed
  <2> QED BY <2>1 DEF Handle, Unapply
<1>3. PICK step \in {"mark", "check", "rewatch"} :
        /\ Go(t, step)
        /\ step = "mark" => outcome' # "awaited"
        /\ step # "mark" => step = IF t = "poll" THEN "rewatch" ELSE "check"
        /\ outcome # "awaited" => outcome' # "awaited"
  BY <1>2
<1>4. th'[t].at = step /\ Run(t)' = Run(t) /\ \A s \in Threads \ {t} : th'[s] = th[s]
  BY <1>3, Placed
<1>5. CopyOK(t)' /\ RoleOK(t)' /\ (t = "watcher" /\ Watched => Watched')
  BY <1>1, <1>3, <1>4, AnswerCarried
<1>6. Unstopped' /\ LiveOK' /\ LiveStays /\ (Pending <=> Pending')
  BY <1>1, <1>3 DEF Copies, Unstopped, LiveOK, LiveStays, Pending, Terminal
<1> QED BY <1>1, <1>4, <1>5, <1>6, CopiesKept

LEMMA MarkKeeps ==
  ASSUME TypeOK, Copies, NEW t \in Threads, Mark(t)
  PROVE  Copies'
<1> DEFINE r == [Run(t) EXCEPT !.Applied = TRUE]
<1>1. /\ Fresh(Run(t)) /\ Backed(Run(t)) /\ t \in {"watcher", "poll"} /\ outcome # "awaited"
      /\ UNCHANGED <<archive, agents, outcome>>
  BY DEF Mark, Copies, CopyOK, RoleOK, At
<1>2. live' = r
  BY OnlyLive DEF Mark
<1>3. r.RunID = Run(t).RunID /\ r.Status = Run(t).Status /\ r.Applied /\ r.Superseded = Run(t).Superseded
  BY CopyTyped DEF Record
<1> HIDE DEF r
<1>4. live'.RunID # 0 /\ live'.Status = live.Status /\ live'.Applied /\ live.Status \in Known
      /\ live.RunID # 0 /\ Terminal(live) /\ ~live'.Superseded
  BY <1>1, <1>2, <1>3 DEF Fresh, Backed, Terminal
<1>5. LiveOK'
  BY <1>1, <1>4 DEF LiveOK, Terminal
<1>6. LiveStays /\ Unstopped' /\ ~Pending
  BY <1>1, <1>4, Facts DEF LiveStays, Copies, Unstopped, Pending
<1>7. Leave(t) /\ t \in {"watcher", "poll"}
  BY <1>1 DEF Mark
<1>8. th'[t].at \in {"jobs", "idle"} /\ (t = "watcher" => th'[t].at = "idle")
      /\ \A s \in Threads \ {t} : th'[s] = th[s]
  BY <1>7, Placed
<1>9. CopyOK(t)' /\ RoleOK(t)'
  BY <1>8, RestsOK
<1>10. \A s \in Threads : th[s].at \notin {"refresh", "lookup", "servers", "submit", "record"}
  BY <1>4, Facts DEF Copies, CopyOK, At
<1> QED BY <1>1, <1>4, <1>5, <1>6, <1>8, <1>9, <1>10, CopiesKept

LEMMA PollKeeps ==
  ASSUME TypeOK, Copies, job # "cancelled", PollStep
  PROVE  Copies'
<1> DEFINE p == "poll"
<1>1. p \in Threads /\ Silent /\ Stored = live
  BY OnlyLive DEF PollStep, CallReconcile, List, Relaunch, ReconcileJob, Silent, Threads
<1>2. CASE Leave(p)
  BY <1>1, <1>2, LeaveKeeps
<1>3. CASE Go(p, "list")
  <2>1. th'[p].at = "list" /\ \A s \in Threads \ {p} : th'[s] = th[s]
    BY <1>1, <1>3, Placed
  <2>2. CopyOK(p)' /\ RoleOK(p)'
    BY <1>1, <2>1, RestsOK
  <2> QED BY <1>1, <2>1, <2>2, SilentKeeps
<1>4. ASSUME NEW step \in {"relaunch", "apply", "rewatch", "watch", "lookup"}, GoWith(p, step, live),
             live # NoRecord, ~live.Applied,
             step = "lookup" => live.RunID = 0,
             step \in {"apply", "rewatch", "watch"} => live.RunID # 0,
             step = "apply" => Terminal(live)
      PROVE  Copies'
  <2>1. th'[p].at = step /\ Run(p)' = live /\ \A s \in Threads \ {p} : th'[s] = th[s]
    BY <1>1, <1>4, Placed
  <2>2. live' = live
    BY <1>1 DEF Silent
  <2>3. live.RunID = 0 => live = Intent
    BY <1>4, OnlyLive
  <2>4. live.RunID # 0 => Fresh(live) /\ (Backed(live) \/ (~Terminal(live) /\ Pending))
    BY <1>4, OnlyLive DEF Fresh, Backed, Pending
  <2>5. live.RunID # 0 => Fresh(Run(p))' /\ (Backed(Run(p))' \/ (~Terminal(Run(p))' /\ Pending'))
    BY <2>1, <2>2, <2>4 DEF Fresh, Backed, Terminal, Pending
  <2>6. step = "apply" => Backed(Run(p))'
    BY <1>4, <2>1, <2>2, <2>5 DEF Backed, Terminal
  <2>7. CopyOK(p)' /\ RoleOK(p)'
    BY <1>4, <2>1, <2>2, <2>3, <2>5, <2>6 DEF CopyOK, RoleOK, At, Cancelling
  <2> QED BY <1>1, <2>1, <2>7, SilentKeeps
<1>5. CASE List
  <2>1. CASE ~Unapplied(live)
    BY <1>2, <1>5, <2>1 DEF List
  <2>2. CASE Unapplied(live)
    <3> DEFINE step == IF live.RunID = 0 THEN "relaunch"
                       ELSE IF Terminal(live) THEN "apply" ELSE "rewatch"
    <3>1. GoWith(p, step, live)
      BY <1>5, <2>2 DEF List
    <3>2. live # NoRecord /\ ~live.Applied
      <4>1. live # NoRecord /\ (live.RunID # 0 => ~live.Applied)
        BY <2>2, OnlyLive DEF Unapplied
      <4>2. live.RunID = 0 => live = Intent
        BY <4>1, OnlyLive
      <4> QED BY <4>1, <4>2, Facts
    <3> QED BY <1>4, <3>1, <3>2
  <2> QED BY <2>1, <2>2
<1>6. CASE Relaunch
  <2>1. CASE live.Applied
    BY <1>1, <1>2, <1>6, <2>1 DEF Relaunch
  <2>2. CASE ~live.Applied
    <3>1. GoWith(p, IF live.RunID # 0 THEN "watch" ELSE "lookup", live)
      BY <1>1, <1>6, <2>2 DEF Relaunch
    <3>2. live # NoRecord
      BY <1>1, <1>6 DEF Relaunch, Copies, CopyOK
    <3> QED BY <1>4, <2>2, <3>1, <3>2
  <2> QED BY <2>1, <2>2
<1> QED BY <1>2, <1>3, <1>5, <1>6 DEF PollStep, CallReconcile, ReconcileJob

LEMMA ToolKeeps ==
  ASSUME TypeOK, Copies, CallPause \/ CallResume \/ CallRetry
  PROVE  Copies'
<1> DEFINE o == "operator"
<1>1. o \in Threads /\ Silent
  BY DEF CallPause, CallResume, CallRetry, Tool, Silent, Threads
<1>2. th'[o].at \in {"idle", "supersede"} /\ \A s \in Threads \ {o} : th'[s] = th[s]
  BY <1>1, Placed DEF CallPause, CallResume, CallRetry, Tool
<1>3. CopyOK(o)' /\ RoleOK(o)'
  BY <1>1, <1>2, RestsOK
<1> QED BY <1>1, <1>2, <1>3, SilentKeeps

LEMMA SupersedeKeeps ==
  ASSUME TypeOK, Copies, Supersede
  PROVE  Copies'
<1> DEFINE o == "operator"
           r == [live EXCEPT !.Applied = TRUE, !.Superseded = TRUE]
<1>1. o \in Threads /\ Silent /\ Stored = live /\ live \in Record
  BY OnlyLive DEF Supersede, Silent, Threads, TypeOK
<1>2. CASE Leave(o)
  BY <1>1, <1>2, LeaveKeeps
<1>3. CASE Terminal(live) /\ GoWith(o, "supersedeSave", r)
  <2>1. r.RunID = live.RunID /\ r.Status = live.Status /\ r.Applied /\ r.Superseded
    BY <1>1 DEF Record
  <2> HIDE DEF r
  <2>2. live.RunID # 0
    BY <1>3, OnlyLive
  <2>3. th'[o].at = "supersedeSave" /\ Run(o)' = r /\ \A s \in Threads \ {o} : th'[s] = th[s]
    BY <1>1, <1>3, Placed
  <2>4. Run(o)'.RunID # 0 /\ Run(o)'.Applied /\ Run(o)'.Superseded /\ Backed(Run(o))'
    BY <1>1, <1>3, <2>1, <2>2, <2>3 DEF Silent, Backed, Terminal
  <2>5. CopyOK(o)' /\ RoleOK(o)'
    BY <2>3, <2>4 DEF CopyOK, RoleOK, At, Cancelling
  <2> QED BY <1>1, <2>3, <2>5, SilentKeeps
<1> QED BY <1>1, <1>2, <1>3 DEF Supersede

LEMMA SupersedeSaveKeeps ==
  ASSUME TypeOK, Copies, SupersedeSave
  PROVE  Copies'
<1> DEFINE o == "operator"
           r == Run(o)
<1>1. /\ o \in Threads /\ r.RunID # 0 /\ r.Applied /\ r.Superseded /\ Backed(r)
      /\ UNCHANGED <<archive, agents, outcome>>
  BY DEF SupersedeSave, Copies, CopyOK, Threads
<1>2. live' = r
  BY OnlyLive DEF SupersedeSave
<1>3. live.RunID # 0 /\ Terminal(live) /\ live.Status = r.Status /\ live.Status \in Known
  BY <1>1, OnlyLive DEF Backed, Terminal
<1>4. live'.RunID # 0 /\ live'.Status = live.Status /\ live'.Applied /\ live'.Superseded
  BY <1>1, <1>2, <1>3
<1>5. LiveOK'
  BY <1>3, <1>4 DEF LiveOK, Terminal
<1>6. LiveStays /\ Unstopped' /\ ~Pending
  BY <1>1, <1>3, <1>4, Facts DEF LiveStays, Copies, Unstopped, Pending
<1>7. th'[o].at = "replace" /\ \A s \in Threads \ {o} : th'[s] = th[s]
  BY <1>1, Placed DEF SupersedeSave
<1>8. CopyOK(o)' /\ RoleOK(o)'
  BY <1>4, <1>7 DEF CopyOK, RoleOK, At, Cancelling
<1>9. \A s \in Threads : th[s].at \notin {"refresh", "lookup", "servers", "submit", "record"}
  BY <1>3, Facts DEF Copies, CopyOK, At
<1> QED BY <1>1, <1>5, <1>6, <1>7, <1>8, <1>9, CopiesKept

LEMMA ReplaceKeeps ==
  ASSUME TypeOK, Copies, Replace
  PROVE  Copies'
<1> DEFINE o == "operator"
<1>1. /\ o \in Threads /\ UNCHANGED <<live, archive, agents>>
      /\ outcome # "awaited" => outcome' # "awaited"
  BY DEF Replace, Threads
<1>2. th'[o].at = "idle" \/ th'[o].at = "jobs"
  BY <1>1, Placed DEF Replace
<1>3. CopyOK(o)' /\ RoleOK(o)' /\ \A s \in Threads \ {o} : th'[s] = th[s]
  BY <1>1, <1>2, RestsOK, Placed DEF Replace
<1>4. LiveOK' /\ LiveStays /\ Unstopped' /\ (Pending <=> Pending')
  BY <1>1 DEF LiveOK, LiveStays, Copies, Unstopped, Pending, Terminal
<1> QED BY <1>1, <1>3, <1>4, CopiesKept

LEMMA NoArchiving ==
  ASSUME Copies
  PROVE  /\ ~ArchiveJob /\ ~ArchiveRefused /\ ~ArchiveHalf
         /\ \A t \in Threads : ~CancelList(t) /\ ~CancelAgain(t) /\ ~CancelSave(t)
<1>1. \A t \in Threads : th[t].at \notin Cancelling \cup {"archive"}
  BY DEF Copies, CopyOK
<1> QED BY <1>1
  DEF ArchiveJob, ArchiveRefused, ArchiveHalf, ArchiveWrite, CancelList, CancelAgain, CancelSave,
      At, Cancelling, Threads

(* What the copies say depends on nothing else.                             *)
LEMMA SameCopies ==
  ASSUME Copies, UNCHANGED <<live, archive, outcome, th>>, Unstopped'
  PROVE  Copies'
<1>1. ASSUME NEW t \in Threads PROVE CopyOK(t)' /\ RoleOK(t)'
  <2>1. CopyOK(t)'
    BY OtherStays DEF Copies, LiveStays, Pending, Terminal, Watched, Backed, Run
  <2> QED BY <2>1 DEF Copies, RoleOK
<1> QED BY <1>1 DEF Copies, LiveOK, Terminal

LEMMA AgentsKeep ==
  ASSUME TypeOK, Copies, NEW i \in DOMAIN agents, Finish(i) \/ Forget(i)
  PROVE  Copies'
<1>1. \E ending \in Endings \cup {"forgotten"} : agents' = [agents EXCEPT ![i] = ending]
  <2>1. agents[i] # "stopping"
    BY Facts DEF Copies, Unstopped, Known
  <2> QED BY <2>1 DEF Finish, Forget
<1>2. Unstopped'
  BY <1>1 DEF Copies, Unstopped, Known, TypeOK
<1> QED BY <1>2, SameCopies DEF Finish, Forget

LEMMA CallFailsKeeps ==
  ASSUME TypeOK, Copies, NEW t \in Threads, CallFails(t)
  PROVE  Copies'
<1>1. Silent
  BY DEF CallFails, Silent
<1>2. CASE th[t].at \in Returning /\ Leave(t)
  <2>1. t # "watcher"
    BY <1>2 DEF Copies, RoleOK, Returning, Launching
  <2> QED BY <1>1, <1>2, <2>1, LeaveKeeps
<1>3. CASE th[t].at \in Applying /\ Unapply(t)
  <2>1. Fresh(Run(t)) /\ Backed(Run(t)) /\ t \in {"watcher", "poll"}
    BY <1>3 DEF Copies, CopyOK, RoleOK, Applying
  <2> DEFINE step == IF t = "poll" THEN "rewatch" ELSE "check"
  <2>2. th'[t].at = step /\ Run(t)' = Run(t) /\ \A s \in Threads \ {t} : th'[s] = th[s]
    BY <1>3, Placed DEF Unapply
  <2>3. CopyOK(t)' /\ RoleOK(t)' /\ (t = "watcher" /\ Watched => Watched')
    BY <1>1, <2>1, <2>2, AnswerCarried DEF Silent
  <2> QED BY <1>1, <2>2, <2>3, SilentKeeps
<1>4. CASE At(t, "save") /\ GoWith(t, "check", [Run(t) EXCEPT !.Status = "running"])
  <2> DEFINE r == [Run(t) EXCEPT !.Status = "running"]
  <2>1. Fresh(Run(t)) /\ Pending /\ t = "watcher"
    BY <1>4 DEF Copies, CopyOK, RoleOK, At
  <2>2. r.RunID = Run(t).RunID /\ r.Status = "running" /\ r.Applied = Run(t).Applied
        /\ r.Superseded = Run(t).Superseded
    BY CopyTyped DEF Record
  <2> HIDE DEF r
  <2>3. th'[t].at = "check" /\ Run(t)' = r /\ \A s \in Threads \ {t} : th'[s] = th[s]
    BY <1>4, Placed DEF r
  <2>4. Fresh(Run(t))' /\ ~Terminal(Run(t))' /\ Pending'
    BY <1>1, <2>1, <2>2, <2>3, Facts DEF Silent, Fresh, Known, Terminal, Terminals, Pending
  <2>5. CopyOK(t)' /\ RoleOK(t)'
    BY <2>1, <2>3, <2>4 DEF CopyOK, RoleOK, At, Cancelling
  <2>6. ~Watched
    BY <1>4, <2>1 DEF Watched, At
  <2> QED BY <1>1, <2>3, <2>5, <2>6, SilentKeeps
<1> QED BY <1>2, <1>3, <1>4 DEF CallFails

LEMMA ResponseLostKeeps ==
  ASSUME TypeOK, Copies, NEW t \in Threads, ResponseLost(t)
  PROVE  Copies'
<1>1. t # "watcher" /\ UNCHANGED <<live, archive, outcome>> /\ Leave(t)
  BY DEF ResponseLost, Copies, RoleOK, At
<1>2. Unstopped'
  BY AddedRuns DEF ResponseLost
<1>3. CopyOK(t)' /\ RoleOK(t)' /\ \A s \in Threads \ {t} : th'[s] = th[s]
  BY <1>1, RestsOK, Placed
<1>4. LiveOK' /\ LiveStays /\ (Pending <=> Pending')
  BY <1>1 DEF Copies, LiveOK, LiveStays, Pending, Terminal
<1> QED BY <1>1, <1>2, <1>3, <1>4, CopiesKept

LEMMA RestartKeeps ==
  ASSUME Copies, Restart
  PROVE  Copies'
<1>1. \A t \in Threads : th'[t].at = "idle"
  BY DEF Restart, Idle
<1>2. \A t \in Threads : CopyOK(t)' /\ RoleOK(t)'
  BY <1>1, RestsOK
<1> QED BY <1>2 DEF Restart, Copies, LiveOK, Unstopped, Terminal

LEMMA CopiesNext ==
  ASSUME IInv, CopiesOK, Next
  PROVE  CopiesOK'
<1> SUFFICES ASSUME job' # "cancelled" PROVE Copies'
  BY DEF CopiesOK
<1>1. ASSUME job = "cancelled" PROVE FALSE
  <2>1. UNCHANGED job
    BY <1>1 DEF Next, ThreadStep, WatcherStep, PollStep, OperatorStep, CallStart, CallPause, CallResume,
       CallCancel, CallRetry, Start, SaveIntent, Lookup, ResolveServers, Submit, SaveRunID, Watch,
       Apply, Handle, Mark, CancelList, CancelAgain, CancelSave, Check, Observe, SaveAnswer,
       CallReconcile, List, Relaunch, ReconcileJob, Supersede, SupersedeSave, Replace, ArchiveJob,
       ArchiveRefused, ArchiveHalf, ArchiveWrite, Finish, Forget, CallFails, ResponseLost, Restart
  <2> QED BY <1>1, <2>1
<1>2. TypeOK /\ LockExclusive /\ Copies /\ job # "cancelled"
  BY <1>1 DEF IInv, CopiesOK
<1>3. ASSUME NEW t \in Threads, ThreadStep(t) PROVE Copies'
  BY <1>2, <1>3, StartKeeps, SaveIntentKeeps, LookupKeeps, ResolveServersKeeps, SubmitKeeps,
     SaveRunIDKeeps, WatchKeeps, ApplyKeeps, HandleKeeps, MarkKeeps, NoArchiving DEF ThreadStep
<1>4. CASE WatcherStep
  BY <1>2, <1>4, CheckKeeps, ObserveKeeps, SaveAnswerKeeps DEF WatcherStep
<1>5. CASE PollStep
  BY <1>2, <1>5, PollKeeps
<1>6. CASE OperatorStep
  BY <1>2, <1>6, SupersedeKeeps, SupersedeSaveKeeps, ReplaceKeeps, NoArchiving DEF OperatorStep
<1>7. CASE CallStart \/ CallPause \/ CallResume \/ CallCancel \/ CallRetry
  <2>1. ~CallCancel
    BY DEF CallCancel
  <2> QED BY <1>2, <1>7, <2>1, CallStartKeeps, ToolKeeps
<1>8. ASSUME NEW i \in DOMAIN agents, Finish(i) \/ Forget(i) PROVE Copies'
  BY <1>2, <1>8, AgentsKeep
<1>9. ASSUME NEW t \in Threads, CallFails(t) \/ ResponseLost(t) PROVE Copies'
  BY <1>2, <1>9, CallFailsKeeps, ResponseLostKeeps
<1>10. CASE ArchiveHalf \/ Restart
  BY <1>2, <1>10, RestartKeeps, NoArchiving
<1> QED BY <1>3, <1>4, <1>5, <1>6, <1>7, <1>8, <1>9, <1>10 DEF Next

-----------------------------------------------------------------------------
(* Every step is one of Delivery or leaves the record and the outcome as    *)
(* the job sees them.                                                       *)
DeliveryStep == D!Next \/ UNCHANGED <<RecordPhase, outcome>>

PhaseIs ==
  /\ RecordPhase \in {"none", "asked", "running", "closed", "superseded"} \cup Endings
  /\ RecordPhase = "none" <=> live = NoRecord
  /\ RecordPhase = "asked" <=> live = Intent
  /\ RecordPhase = "superseded" <=> live.Superseded
  /\ RecordPhase = "closed" <=> live.Applied /\ ~live.Superseded
  /\ RecordPhase = "running" <=> Pending
  /\ RecordPhase \in Endings <=> Terminal(live) /\ ~live.Applied
  /\ RecordPhase \in Endings => RecordPhase = live.Status
  /\ D!Live

LEMMA Phases == Copies /\ job # "cancelled" => PhaseIs
<1> SUFFICES ASSUME Copies, job # "cancelled" PROVE PhaseIs
  OBVIOUS
<1>1. CASE live = NoRecord
  BY <1>1, Facts DEF PhaseIs, RecordPhase, Pending, D!Live
<1>2. CASE live = Intent
  BY <1>2, Facts DEF PhaseIs, RecordPhase, Pending, D!Live
<1>3. CASE live.RunID # 0
  <2>1. /\ live \notin {NoRecord, Intent}
        /\ live.Status \in Known /\ (live.Superseded => live.Applied) /\ (live.Applied => Terminal(live))
    BY <1>3, Facts, OnlyLive
  <2>2. Terminal(live) <=> live.Status \in Endings
    BY <2>1, Facts DEF Known
  <2> QED BY <1>3, <2>1, <2>2, Facts DEF PhaseIs, RecordPhase, Pending, D!Live
<1> QED BY <1>1, <1>2, <1>3, OnlyLive

LEMMA PhasesAfter == (Copies /\ job # "cancelled" => PhaseIs)'
BY Phases, PTL

LEMMA SamePhase ==
  ASSUME UNCHANGED <<live, job>>
  PROVE  RecordPhase' = RecordPhase
BY DEF RecordPhase, Terminal

LEMMA Writes ==
  ASSUME TypeOK, LockExclusive, Copies, job # "cancelled", job' = job,
         NEW t \in Threads, SaveIntent(t) \/ SaveRunID(t)
  PROVE  DeliveryStep
<1>1. Copies' /\ job' # "cancelled" /\ UNCHANGED outcome
  BY SaveIntentKeeps, SaveRunIDKeeps DEF SaveIntent, SaveRunID
<1>2. live' = Run(t)
  BY OnlyLive DEF SaveIntent, SaveRunID
<1>3. CASE SaveIntent(t)
  <2>1. live \in {NoRecord, Intent} /\ live' = Intent
    BY <1>2, <1>3 DEF SaveIntent, Copies, CopyOK
  <2>2. RecordPhase \in {"none", "asked"}
    BY <2>1, Phases DEF PhaseIs
  <2>3. RecordPhase' = "asked"
    BY <1>1, <2>1, PhasesAfter DEF PhaseIs
  <2> QED BY <1>1, <2>2, <2>3, Phases, Facts DEF PhaseIs, DeliveryStep, D!Next, D!Ask
<1>4. CASE SaveRunID(t)
  <2>1. live = Intent /\ Fresh(live')
    BY <1>2, <1>4 DEF SaveRunID, Copies, CopyOK
  <2>2. RecordPhase = "asked"
    BY <2>1, Phases DEF PhaseIs
  <2>3. RecordPhase' \in {"running"} \cup Endings
    <3>1. live'.RunID # 0 /\ live'.Status \in Known /\ ~live'.Applied /\ ~live'.Superseded
      BY <2>1 DEF Fresh
    <3>2. Pending' \/ (Terminal(live)' /\ ~live'.Applied)
      BY <3>1 DEF Pending
    <3> QED BY <1>1, <3>2, PhasesAfter DEF PhaseIs
  <2> QED BY <1>1, <2>2, <2>3, Phases, Facts DEF PhaseIs, DeliveryStep, D!Next, D!Run, D!Hear
<1> QED BY <1>3, <1>4

LEMMA Answered ==
  ASSUME TypeOK, Copies, job # "cancelled", job' = job, SaveAnswer
  PROVE  DeliveryStep
<1>1. Copies' /\ job' # "cancelled" /\ UNCHANGED outcome
  BY SaveAnswerKeeps DEF SaveAnswer
<1>2. Pending /\ Fresh(live') /\ Terminal(live')
  BY OnlyLive DEF SaveAnswer, Copies, CopyOK, Threads
<1>3. RecordPhase = "running"
  BY <1>2, Phases DEF PhaseIs
<1>4. RecordPhase' \in Endings
  <2>1. Terminal(live)' /\ ~live'.Applied
    BY <1>2 DEF Fresh, Terminal
  <2> QED BY <1>1, <2>1, PhasesAfter DEF PhaseIs
<1> QED BY <1>1, <1>3, <1>4, Phases, Facts DEF PhaseIs, DeliveryStep, D!Next, D!Hear

LEMMA Delivered ==
  ASSUME TypeOK, Copies, job # "cancelled", NEW t \in Threads, Handle(t)
  PROVE  DeliveryStep
<1>1. RecordPhase' = RecordPhase
  BY SamePhase DEF Handle
<1>2. CASE UNCHANGED outcome
  BY <1>1, <1>2 DEF DeliveryStep
<1>3. CASE outcome = "awaited" /\ outcome' = Run(t).Status
  <2>1. Backed(Run(t)) /\ Fresh(Run(t))
    BY DEF Handle, Copies, CopyOK, At
  <2>2. live.RunID # 0 /\ Terminal(live) /\ live.Status = Run(t).Status /\ live.Status \in Known
    BY <2>1 DEF Backed, Fresh, Terminal
  <2>3. live.Status \in Endings
    BY <2>2, Facts DEF Known
  <2>4. live.Applied => live.Superseded
    BY <1>3, <2>2, Facts DEF Copies, LiveOK
  <2>5. RecordPhase = live.Status \/ RecordPhase = "superseded"
    BY <2>2, <2>4, Phases DEF PhaseIs
  <2> QED BY <1>1, <1>3, <2>2, <2>3, <2>5, Phases, Facts DEF PhaseIs, DeliveryStep, D!Next, D!Deliver
<1> QED BY <1>2, <1>3 DEF Handle

LEMMA Closed ==
  ASSUME TypeOK, Copies, job # "cancelled", job' = job, NEW t \in Threads, Mark(t)
  PROVE  DeliveryStep
<1> DEFINE r == [Run(t) EXCEPT !.Applied = TRUE]
<1>1. Copies' /\ job' # "cancelled" /\ UNCHANGED outcome
  BY MarkKeeps DEF Mark
<1>2. Backed(Run(t)) /\ Fresh(Run(t)) /\ outcome # "awaited"
  BY DEF Mark, Copies, CopyOK, At
<1>3. live' = r
  BY OnlyLive DEF Mark
<1>4. r.Applied /\ r.Superseded = Run(t).Superseded
  BY CopyTyped DEF Record
<1>5. RecordPhase' = "closed"
  <2>1. live'.Applied /\ ~live'.Superseded
    BY <1>2, <1>3, <1>4 DEF Fresh
  <2> QED BY <1>1, <2>1, PhasesAfter DEF PhaseIs
<1>6. Terminal(live)
  BY <1>2 DEF Backed, Terminal
<1>7. RecordPhase \in Endings \cup {"superseded", "closed"}
  BY <1>6, Phases DEF PhaseIs
<1> QED BY <1>1, <1>2, <1>5, <1>7, Phases, Facts DEF PhaseIs, DeliveryStep, D!Next, D!Close

LEMMA Superseded ==
  ASSUME TypeOK, Copies, job # "cancelled", job' = job, SupersedeSave
  PROVE  DeliveryStep
<1> DEFINE r == Run("operator")
<1>1. Copies' /\ job' # "cancelled" /\ UNCHANGED outcome
  BY SupersedeSaveKeeps DEF SupersedeSave
<1>2. r.Superseded /\ Backed(r) /\ live' = r
  BY OnlyLive DEF SupersedeSave, Copies, CopyOK, Threads
<1>3. Terminal(live)
  BY <1>2 DEF Backed, Terminal
<1>4. RecordPhase \in Endings \cup {"superseded", "closed"}
  BY <1>3, Phases DEF PhaseIs
<1>5. RecordPhase' = "superseded"
  BY <1>1, <1>2, PhasesAfter DEF PhaseIs
<1> QED BY <1>1, <1>4, <1>5, Phases, Facts DEF PhaseIs, DeliveryStep, D!Next, D!Supersede

LEMMA Replaced ==
  ASSUME TypeOK, Copies, job # "cancelled", Replace
  PROVE  DeliveryStep
<1>1. RecordPhase' = RecordPhase
  BY SamePhase DEF Replace
<1>2. CASE UNCHANGED outcome
  BY <1>1, <1>2 DEF DeliveryStep
<1>3. CASE outcome = "awaited" /\ outcome' = "replaced"
  <2>1. live.Superseded
    BY <1>3 DEF Replace, Copies, CopyOK, Threads
  <2>2. RecordPhase = "superseded"
    BY <2>1, Phases DEF PhaseIs
  <2> QED BY <1>1, <1>3, <2>2, Phases, Facts DEF PhaseIs, DeliveryStep, D!Next, D!Replace
<1> QED BY <1>2, <1>3 DEF Replace

(* The steps that write no record, deliver nothing and cancel nothing.      *)
Unseen == UNCHANGED <<live, outcome>> /\ (job' = job \/ "cancelled" \notin {job, job'})

LEMMA UnseenStep ==
  ASSUME Unseen
  PROVE  DeliveryStep
BY DEF Unseen, DeliveryStep, RecordPhase, Terminal

LEMMA DeliveryNext ==
  ASSUME IInv, CopiesOK, Next
  PROVE  DeliveryStep
<1>1. CASE job = "cancelled"
  <2>1. job' = "cancelled" /\ UNCHANGED outcome
    BY <1>1 DEF Next, ThreadStep, WatcherStep, PollStep, OperatorStep, CallStart, CallPause, CallResume,
       CallCancel, CallRetry, Tool, Start, SaveIntent, Lookup, ResolveServers, Submit, SaveRunID, Watch,
       Apply, Handle, Mark, CancelList, CancelAgain, CancelSave, Check, Observe, SaveAnswer,
       CallReconcile, List, Relaunch, ReconcileJob, Supersede, SupersedeSave, Replace, ArchiveJob,
       ArchiveRefused, ArchiveHalf, ArchiveWrite, Finish, Forget, CallFails, ResponseLost, Restart
  <2> QED BY <1>1, <2>1 DEF DeliveryStep, RecordPhase
<1>2. CASE job # "cancelled"
  <2>1. TypeOK /\ LockExclusive /\ Copies
    BY <1>2 DEF IInv, CopiesOK
  <2>2. ASSUME NEW t \in Threads, ThreadStep(t) PROVE DeliveryStep
    <3>1. CASE Start(t) \/ Lookup(t) \/ ResolveServers(t) \/ Submit(t) \/ Watch(t) \/ Apply(t)
      <4>1. Unseen
        BY <3>1 DEF Unseen, Start, Lookup, ResolveServers, Submit, Watch, Apply
      <4> QED BY <4>1, UnseenStep
    <3>2. CASE SaveIntent(t) \/ SaveRunID(t)
      <4>1. job' = job
        BY <3>2 DEF SaveIntent, SaveRunID
      <4> QED BY <1>2, <2>1, <3>2, <4>1, Writes
    <3>3. CASE Handle(t)
      BY <1>2, <2>1, <3>3, Delivered
    <3>4. CASE Mark(t)
      BY <1>2, <2>1, <3>4, Closed DEF Mark
    <3> QED BY <2>1, <2>2, <3>1, <3>2, <3>3, <3>4, NoArchiving DEF ThreadStep
  <2>3. CASE WatcherStep
    <3>1. CASE SaveAnswer
      BY <1>2, <2>1, <3>1, Answered DEF SaveAnswer
    <3>2. CASE Check \/ Observe
      <4>1. Unseen
        BY <3>2 DEF Unseen, Check, Observe
      <4> QED BY <4>1, UnseenStep
    <3> QED BY <2>3, <3>1, <3>2 DEF WatcherStep
  <2>4. CASE PollStep
    <3>1. Unseen
      BY <2>4 DEF Unseen, PollStep, CallReconcile, List, Relaunch, ReconcileJob
    <3> QED BY <3>1, UnseenStep
  <2>5. CASE OperatorStep
    <3>1. CASE Supersede
      BY <3>1, UnseenStep DEF Supersede, Unseen
    <3>2. CASE SupersedeSave
      BY <1>2, <2>1, <3>2, Superseded DEF SupersedeSave
    <3>3. CASE Replace
      BY <1>2, <2>1, <3>3, Replaced
    <3> QED BY <2>1, <2>5, <3>1, <3>2, <3>3, NoArchiving DEF OperatorStep
  <2>6. CASE CallStart \/ CallPause \/ CallResume \/ CallRetry
    <3>1. Unseen
      BY <1>2, <2>6 DEF Unseen, CallStart, CallPause, CallResume, CallRetry, Tool
    <3> QED BY <3>1, UnseenStep
  <2>7. CASE CallCancel
    <3>1. RecordPhase' = "void" /\ UNCHANGED outcome
      BY <2>7 DEF CallCancel, Tool, RecordPhase
    <3> QED BY <1>2, <2>1, <3>1, Phases, Facts DEF PhaseIs, DeliveryStep, D!Next, D!Void
  <2>8. ASSUME NEW i \in DOMAIN agents, Finish(i) \/ Forget(i) PROVE DeliveryStep
    BY <2>8, UnseenStep DEF Finish, Forget, Unseen
  <2>9. ASSUME NEW t \in Threads, CallFails(t) \/ ResponseLost(t) PROVE DeliveryStep
    BY <2>9, UnseenStep DEF CallFails, ResponseLost, Unseen
  <2>10. CASE ArchiveHalf \/ Restart
    BY <2>1, <2>10, NoArchiving, UnseenStep DEF Restart, Unseen
  <2> QED BY <2>2, <2>3, <2>4, <2>5, <2>6, <2>7, <2>8, <2>9, <2>10 DEF Next
<1> QED BY <1>1, <1>2

LEMMA InitCopies ==
  ASSUME Init
  PROVE  CopiesOK /\ D!Init
<1>1. \A t \in Threads : th[t].at = "idle"
  BY DEF Init, Idle
<1>2. \A t \in Threads : CopyOK(t) /\ RoleOK(t)
  BY <1>1 DEF CopyOK, RoleOK, At, Cancelling
<1>3. Copies
  BY <1>2 DEF Init, Copies, Unstopped, LiveOK
<1> QED BY <1>3 DEF Init, CopiesOK, D!Init, RecordPhase

LEMMA StutterCopies ==
  ASSUME CopiesOK, UNCHANGED vars
  PROVE  CopiesOK' /\ UNCHANGED <<RecordPhase, outcome>>
<1>1. Copies => Copies'
  BY SameCopies DEF vars, Copies, Unstopped
<1> QED BY <1>1 DEF CopiesOK, vars, RecordPhase, Terminal

(* Dispatch implements Delivery: whatever the threads do to each other's    *)
(* copies, a record never goes back, the job gets the answer on record, at  *)
(* most once, and the marker is not saved over an answer it still waits     *)
(* for (apply, dispatcher.go 485-508; Supersede, 86-110).                   *)
THEOREM PromiseKept == Spec => KeepsPromise
<1>1. Init => CopiesOK /\ D!Init
  BY InitCopies
<1>2. IInv /\ CopiesOK /\ [Next]_vars => CopiesOK' /\ [D!Next]_<<RecordPhase, outcome>>
  BY CopiesNext, DeliveryNext, StutterCopies DEF DeliveryStep
<1> QED BY <1>1, <1>2, DispatchInvariance, PTL DEF Spec, KeepsPromise, D!Spec
=============================================================================
