------------------------------- MODULE Outbox -------------------------------
(* The notifications about a job, from the transition that is journaled in  *)
(* the job's record to the receiver that has processed it: the handler that *)
(* makes the transition and notifies, the outbox, its deliverer, the        *)
(* operator who archives the job or retries an event, and what fails.       *)
(* An event is named after its place in the journal (eventID of job:n), so  *)
(* here it is that number; a job that ended changes no more.                *)
EXTENDS Naturals, Sequences, FiniteSetsExt, SequencesExt

CONSTANTS
  MaxEvents,    \* bound on the transitions of the job
  Retries,      \* bound on the operator's retries
  Faults        \* bound on failed writes and requests, restarts and power losses

ASSUME OutboxAssumption == {MaxEvents, Retries, Faults} \subseteq Nat

EventNumber == 1..MaxEvents
EndOf == [failed |-> "failed", cancelled |-> "cancelled", blocked |-> "active"]
EventType == DOMAIN EndOf
Terminal == {"failed", "cancelled"}

Absent == [type |-> "none", state |-> "none"]
Stored(type, s) == [type |-> type, state |-> s]
NoJob == [status |-> "archived", log |-> <<>>]
NewJob == [status |-> "active", log |-> <<>>]

VARIABLES
  state,        \* the state directory, with jobs.json and the outbox's file
  archive,      \* the directory of archived jobs
  unsent,       \* copies of the job whose handlers have yet to notify
  deliverer,    \* where the goroutine of the deliverer is
  archiver,     \* where a call of archive_code_job is
  receiver,     \* what the receiver has done with each event
  acknowledged, \* the longest journal a save has been acknowledged for
  retries, faults

vars == <<state, archive, unsent, deliverer, archiver, receiver, acknowledged, retries, faults>>

Initial == [jobs |-> NewJob, box |-> [n \in EventNumber |-> Absent]]

Log == UNION {[1..n -> EventType] : n \in 0..MaxEvents}
Job == [status : {"active", "archived"} \cup Terminal, log : Log]
Box ==
  [EventNumber -> [type : EventType, state : {"due", "delivered", "failed"}] \cup {Absent}]

Files == INSTANCE StateDirectory WITH
  File <- {"jobs", "box"}, Content <- Job \cup Box, directory <- state

jobs == state.memory.jobs
box == state.memory.box
archived == archive.now.job
idle == [at |-> "idle", log |-> <<>>, todo |-> {}]

Init ==
  /\ state = Files!Holding(Initial)
  /\ archive = Files!Holding([job |-> NoJob])
  /\ unsent = {}
  /\ deliverer = [idle EXCEPT !.at = "reconcile"]
  /\ archiver = idle
  /\ receiver = [n \in EventNumber |-> "unknown"]
  /\ acknowledged = <<>>
  /\ retries = 0 /\ faults = 0

------------------------------------------------------------------------------
Fault == faults < Faults /\ faults' = faults + 1

Saves(f, c) == state' = Files!Saved(state, f, c) /\ UNCHANGED faults
SaveFails(f, c) == Fault /\ state' \in Files!NotSaved(state, f, c)

Known(n) == box[n] # Absent

(* Enqueue keeps what it has under the event's name. *)
Enqueues(n, type) ==
  IF Known(n) THEN UNCHANGED <<state, faults>>
  ELSE Saves("box", [box EXCEPT ![n] = Stored(type, "due")])
EnqueueFails(n, type) == ~Known(n) /\ SaveFails("box", [box EXCEPT ![n] = Stored(type, "due")])

(* The events of a copy of the journal that Reconcile has yet to enqueue.   *)
Missing(log) == {n \in DOMAIN log : ~Known(n)}
First(events) == {n \in events : \A m \in events : n <= m}

------------------------------------------------------------------------------
(* The handlers. *)

(* recordEvents finds the transition when the job is saved.                 *)
Journaled(type) == [status |-> EndOf[type], log |-> Append(jobs.log, type)]
Copy(log, type) == [log |-> log, type |-> type]

(* mutant: the handler notifies whether or not its transition was saved.    *)
TransitionUnchecked(type) ==
  /\ jobs.status = "active" /\ Len(jobs.log) < MaxEvents
  /\ LET new == Journaled(type) IN
       /\ \/ Saves("jobs", new) /\ acknowledged' = new.log
          \/ SaveFails("jobs", new) /\ UNCHANGED acknowledged
       /\ unsent' = unsent \cup {Copy(new.log, type)}
  /\ UNCHANGED <<archive, deliverer, archiver, receiver, retries>>

(* Nobody notifies of an operator's cancellation: Reconcile does. *)
Transition(type) ==
  /\ jobs.status = "active" /\ Len(jobs.log) < MaxEvents
  /\ LET new == Journaled(type) IN
       \/ /\ Saves("jobs", new)
          /\ acknowledged' = new.log
          /\ unsent' = IF type = "cancelled" THEN unsent ELSE unsent \cup {Copy(new.log, type)}
       \/ SaveFails("jobs", new) /\ UNCHANGED <<acknowledged, unsent>>
  /\ UNCHANGED <<archive, deliverer, archiver, receiver, retries>>

(* FailJob of a failed job saves nothing; its caller notifies once more. *)
FailAgain ==
  /\ jobs.status = "failed"
  /\ unsent' = unsent \cup {Copy(jobs.log, "failed")}
  /\ UNCHANGED <<state, archive, deliverer, archiver, receiver, acknowledged, retries, faults>>

(* eventFor: the last event of the type is the one meant. *)
EventFor(copy) == Max({n \in DOMAIN copy.log : copy.log[n] = copy.type})

(* A notification that cannot be saved is left to Reconcile. *)
Notify ==
  /\ \E copy \in unsent :
       /\ Enqueues(EventFor(copy), copy.type) \/ EnqueueFails(EventFor(copy), copy.type)
       /\ unsent' = unsent \ {copy}
  /\ UNCHANGED <<archive, deliverer, archiver, receiver, acknowledged, retries>>

------------------------------------------------------------------------------
(* The deliverer: one goroutine, which on one ticker reconciles the outbox  *)
(* with the active jobs and on the other flushes what is due.               *)

Goto(place) == deliverer' = [deliverer EXCEPT !.at = place]

(* mutant: the ticker of the reconciliation is never served. *)
NoReconcile == FALSE /\ UNCHANGED vars

BeginReconcile ==
  /\ deliverer.at = "idle"
  /\ deliverer' = [idle EXCEPT !.at = "reconcile", !.log = jobs.log]
  /\ UNCHANGED <<state, archive, unsent, archiver, receiver, acknowledged, retries, faults>>

Reconcile ==
  /\ deliverer.at = "reconcile"
  /\ IF Missing(deliverer.log) = {} THEN deliverer' = idle /\ UNCHANGED <<state, faults>>
     ELSE \E n \in First(Missing(deliverer.log)) :
            \/ Enqueues(n, deliverer.log[n]) /\ UNCHANGED deliverer
            \/ EnqueueFails(n, deliverer.log[n]) /\ deliverer' = idle
  /\ UNCHANGED <<archive, unsent, archiver, receiver, acknowledged, retries>>

BeginFlush ==
  LET due == {n \in EventNumber : box[n].state = "due"} IN
    /\ deliverer.at = "idle" /\ due # {}
    /\ deliverer' = [idle EXCEPT !.at = "post", !.todo = due]
    /\ UNCHANGED <<state, archive, unsent, archiver, receiver, acknowledged, retries, faults>>

(* The oldest first. *)
Current == Min(deliverer.todo)

(* The receiver knows an event posted again by its ID. *)
Posted(n) == receiver' = [receiver EXCEPT ![n] = IF @ = "unknown" THEN "pending" ELSE @]

(* mutant: an event the receiver has taken is delivered. *)
PostOnly ==
  /\ deliverer.at = "post"
  /\ Posted(Current)
  /\ Goto("delivered")
  /\ UNCHANGED <<state, archive, unsent, archiver, acknowledged, retries, faults>>

(* A POST fails on its way, or its answer on the way back. *)
Post ==
  /\ deliverer.at = "post"
  /\ \/ Posted(Current) /\ ((Goto("ask") /\ UNCHANGED faults) \/ (Goto("again") /\ Fault))
     \/ Goto("again") /\ Fault /\ UNCHANGED receiver
  /\ UNCHANGED <<state, archive, unsent, archiver, acknowledged, retries>>

(* What became of it: "pending" is asked again another time. *)
Ask ==
  /\ deliverer.at = "ask"
  /\ \/ /\ Goto(CASE receiver[Current] = "done" -> "delivered"
                  [] receiver[Current] = "failed" -> "failed"
                  [] OTHER -> "again")
        /\ UNCHANGED faults
     \/ Goto("again") /\ Fault
  /\ UNCHANGED <<state, archive, unsent, archiver, receiver, acknowledged, retries>>

(* mutant: whatever came of it is the new state of the event. *)
RecordedAlike == [box EXCEPT ![Current].state = deliverer.at]

(* The outcome is recorded over what the event has become meanwhile. *)
Recorded ==
  IF deliverer.at = "again" THEN box ELSE [box EXCEPT ![Current].state = deliverer.at]

(* The flush goes on whether or not it can be saved. *)
Record ==
  /\ deliverer.at \in {"delivered", "failed", "again"}
  /\ Saves("box", Recorded) \/ SaveFails("box", Recorded)
  /\ LET rest == deliverer.todo \ {Current} IN
       deliverer' = IF rest = {} THEN idle ELSE [idle EXCEPT !.at = "post", !.todo = rest]
  /\ UNCHANGED <<archive, unsent, archiver, receiver, acknowledged, retries>>

------------------------------------------------------------------------------
(* The operator. *)

(* The event is due again, and where the receiver failed it may be mended. *)
Retry(n) ==
  /\ Known(n) /\ box[n].state # "delivered"
  /\ IF box[n].state = "due" THEN UNCHANGED retries
     ELSE retries < Retries /\ retries' = retries + 1
  /\ LET new == [box EXCEPT ![n].state = "due"] IN Saves("box", new) \/ SaveFails("box", new)
  /\ \/ UNCHANGED receiver
     \/ /\ box[n].state = "failed" /\ receiver[n] = "failed"
        /\ receiver' = [receiver EXCEPT ![n] = "pending"]
  /\ UNCHANGED <<archive, unsent, deliverer, archiver, acknowledged>>

(* mutant: the job is archived without a look at the outbox. *)
ArchiveUnreconciled ==
  /\ archiver.at = "idle" /\ jobs.status \in Terminal
  /\ archiver' = [idle EXCEPT !.at = "archive"]
  /\ UNCHANGED <<state, archive, unsent, deliverer, receiver, acknowledged, retries, faults>>

(* archive_code_job gets a copy of the job, archived or not. *)
BeginArchive ==
  /\ archiver.at = "idle"
  /\ LET job == IF jobs.status = "archived" THEN archived ELSE jobs IN
       /\ job.status \in Terminal
       /\ archiver' = [idle EXCEPT !.at = "reconcile", !.log = job.log]
  /\ UNCHANGED <<state, archive, unsent, deliverer, receiver, acknowledged, retries, faults>>

ReconcileArchived ==
  /\ archiver.at = "reconcile"
  /\ IF Missing(archiver.log) = {}
     THEN archiver' = [idle EXCEPT !.at = "archive"] /\ UNCHANGED <<state, faults>>
     ELSE \E n \in First(Missing(archiver.log)) :
            \/ Enqueues(n, archiver.log[n]) /\ UNCHANGED archiver
            \/ EnqueueFails(n, archiver.log[n]) /\ archiver' = idle
  /\ UNCHANGED <<archive, unsent, deliverer, receiver, acknowledged, retries>>

(* Store.Archive: the record of its own first, then jobs.json without it.   *)
Archive ==
  /\ archiver.at = "archive" /\ archiver' = idle
  /\ IF jobs.status = "archived" THEN UNCHANGED <<state, archive, faults>>
     ELSE \/ /\ archive' = Files!Saved(archive, "job", jobs)
             /\ Saves("jobs", NoJob) \/ SaveFails("jobs", NoJob)
          \/ Fault /\ archive' \in Files!NotSaved(archive, "job", jobs) /\ UNCHANGED state
  /\ UNCHANGED <<unsent, deliverer, receiver, acknowledged, retries>>

------------------------------------------------------------------------------
(* The receiver, and what goes wrong. *)

Process(n) ==
  /\ receiver[n] = "pending"
  /\ \E s \in {"done", "failed"} : receiver' = [receiver EXCEPT ![n] = s]
  /\ UNCHANGED <<state, archive, unsent, deliverer, archiver, acknowledged, retries, faults>>

(* A new process, on the files there are, reconciles before all else. *)
Restart ==
  /\ Fault
  /\ \/ state' = Files!Restarted(state) /\ archive' = Files!Restarted(archive)
     \/ state' \in Files!PowerLost(state) /\ archive' \in Files!PowerLost(archive)
  /\ unsent' = {} /\ archiver' = idle
  /\ deliverer' = [idle EXCEPT !.at = "reconcile", !.log = state'.memory.jobs.log]
  /\ UNCHANGED <<receiver, acknowledged, retries>>

Deliverer == BeginReconcile \/ Reconcile \/ BeginFlush \/ Post \/ Ask \/ Record

Next ==
  \/ \E type \in EventType : Transition(type)
  \/ FailAgain \/ Notify
  \/ BeginReconcile \/ Reconcile \/ BeginFlush \/ Post \/ Ask \/ Record
  \/ BeginArchive \/ ReconcileArchived \/ Archive
  \/ Restart
  \/ \E n \in EventNumber : Retry(n) \/ Process(n)

(* Its goroutine runs; a select that has both tickers again and again takes *)
(* each in the end; the receiver comes to an end with an event it took.     *)
Fairness ==
  /\ WF_vars(Deliverer) /\ SF_vars(BeginReconcile) /\ SF_vars(BeginFlush)
  /\ WF_vars(\E n \in EventNumber : Process(n))

Spec == Init /\ [][Next]_vars /\ Fairness

------------------------------------------------------------------------------
Thread ==
  [at : {"idle", "reconcile", "archive", "post", "ask", "delivered", "failed", "again"},
   log : Log, todo : SUBSET EventNumber]

(* Every variable has its type: outbox.go Store, Event, Deliverer.          *)
TypeOK ==
  /\ \A content \in {state.memory, state.now} \cup state.may :
       content \in [jobs : Job, box : Box]
  /\ archived \in Job
  /\ unsent \subseteq [log : Log, type : EventType]
  /\ deliverer \in Thread /\ archiver \in Thread
  /\ receiver \in [EventNumber -> {"unknown", "pending", "done", "failed"}]
  /\ acknowledged \in Log
  /\ retries \in 0..Retries /\ faults \in 0..Faults

(* An event in the outbox tells of the transition whose name it bears, even *)
(* after a crash took back a transition that had been made: a name is never *)
(* given to two transitions of which the receiver hears only one            *)
(* (outbox.go 280-290, store.go 918-967).                                   *)
Found == IF jobs.status = "archived" THEN archived.log ELSE jobs.log
IdentityNamesTransition ==
  \A n \in EventNumber : Known(n) => n \in DOMAIN Found /\ Found[n] = box[n].type

(* An event counts as delivered only when the receiver has processed it     *)
(* (outbox.go 120-137, 385-440).                                            *)
DeliveredWasDone == \A n \in EventNumber : box[n].state = "delivered" => receiver[n] = "done"

(* The journal a save was acknowledged for is found again, in jobs.json or  *)
(* in the archive, whatever fails and whenever (store.go 620-644,           *)
(* durable.go 21-49).                                                       *)
HistoryKept == IsPrefix(acknowledged, Found)

(* Every transition of an archived job is in the outbox: the deliverer      *)
(* looks at active jobs only (operator.go 83-88, store.go 620-644).         *)
ArchivedWereEnqueued == jobs.status = "archived" => \A n \in DOMAIN archived.log : Known(n)

(* Every transition in the journal is processed by the receiver or given up *)
(* by it in the end, unless a crash takes the transition itself back        *)
(* (outbox.go 178-188, 331-383).                                            *)
Heard(n) == box[n].state \in {"delivered", "failed"}
TransitionNotified ==
  \A n \in EventNumber : n \in DOMAIN Found ~> (n \in DOMAIN Found => Heard(n))
=============================================================================
