---------------------------- MODULE OutboxProofs ----------------------------
(***************************************************************************)
(* Proofs about Outbox: for any number of events, retries and faults.      *)
(*                                                                         *)
(* The journal and the outbox are files of one directory, and a failed     *)
(* save leaves the memory behind the files.  So the invariant is about     *)
(* every content a crash may come up with: its outbox tells of its own     *)
(* journal (Snapshots), a content without the job comes with the archived  *)
(* record (Archiving), and the files are ahead of the memory, never aside  *)
(* of it (Ahead).  The rest is what the threads know at the step where     *)
(* they use it.                                                            *)
(***************************************************************************)
EXTENDS Outbox, FiniteSetTheorems, SequenceTheorems, TLAPS

-----------------------------------------------------------------------------
(* Numbers and journals.                                                    *)

(* The least and the greatest of some event numbers. *)
LEMMA LeastOf ==
  ASSUME NEW m \in Nat, NEW S, S \subseteq 1..m, S # {}
  PROVE  \E x \in S : \A y \in S : x <= y
<1> DEFINE below(x) == {y \in S : y < x}
<1> DEFINE F == {below(x) : x \in S}
<1>1. IsFiniteSet(1..m)
  BY FS_Interval
<1>2. F \subseteq FiniteSubsetsOf(1..m)
  <2> SUFFICES ASSUME NEW x \in S PROVE below(x) \in SUBSET (1..m) /\ IsFiniteSet(below(x))
    BY DEF FiniteSubsetsOf
  <2>1. below(x) \in SUBSET (1..m)
    OBVIOUS
  <2> QED  BY <1>1, <2>1, FS_Subset
<1>3. PICK B \in F : \A C \in F : ~(<<C, B>> \in StrictSubsetOrdering(1..m))
  <2> HIDE DEF F
  <2>1. F # {}
    BY DEF F
  <2> QED  BY <1>2, <2>1, FS_StrictSubsetOrderingWellFounded, WFMin
<1>4. PICK x \in S : B = below(x)
  OBVIOUS
<1>5. ASSUME NEW y \in S, y < x  PROVE FALSE
  <2>1. below(y) \in F
    OBVIOUS
  <2>2. below(y) \subseteq below(x)
    <3> SUFFICES ASSUME NEW z \in S, z < y  PROVE z < x
      OBVIOUS
    <3>1. z \in 1..m /\ y \in 1..m /\ x \in 1..m
      OBVIOUS
    <3>2. z < x
      BY <1>5, <3>1
    <3> QED  BY <3>1, <3>2
  <2>5. y \in below(x)
    BY <1>5
  <2>6. y \notin below(y)
    <3>1. y \in 1..m
      OBVIOUS
    <3>2. ~(y < y)
      BY <3>1
    <3> QED  BY <3>2
  <2>3. below(y) \in SUBSET (1..m) /\ below(x) \in SUBSET (1..m)
    OBVIOUS
  <2> HIDE DEF below, F
  <2>4. <<below(y), B>> \in StrictSubsetOrdering(1..m)
    BY <1>4, <2>2, <2>3, <2>5, <2>6 DEF StrictSubsetOrdering
  <2> QED  BY <1>3, <2>1, <2>4
<1> QED  BY <1>5

LEMMA MinIn ==
  ASSUME NEW m \in Nat, NEW S, S \subseteq 1..m, S # {}
  PROVE  Min(S) \in S
BY LeastOf DEF Min

LEMMA MaxIn ==
  ASSUME NEW m \in Nat, NEW S, S \subseteq 1..m, S # {}
  PROVE  Max(S) \in S
<1> DEFINE T == {m + 1 - x : x \in S}
<1>1. T \subseteq 1..m /\ T # {}
  <2>1. ASSUME NEW x \in S  PROVE m + 1 - x \in 1..m
    OBVIOUS
  <2>2. T # {}
    OBVIOUS
  <2> QED  BY <2>1, <2>2
<1>2. PICK t \in T : \A u \in T : t <= u
  <2> HIDE DEF T
  <2> QED  BY <1>1, LeastOf
<1>3. PICK x \in S : t = m + 1 - x
  OBVIOUS
<1>4. \A y \in S : x >= y
  <2> TAKE y \in S
  <2>1. m + 1 - y \in T
    OBVIOUS
  <2>2. t <= m + 1 - y
    BY <1>2, <2>1
  <2> QED  BY <1>3, <2>2
<1> QED  BY <1>4 DEF Max

(* A log that begins another, value by value. *)
Begins(s, t) == DOMAIN s \subseteq DOMAIN t /\ \A n \in DOMAIN s : t[n] = s[n]

LEMMA Prefix ==
  ASSUME NEW S, NEW s \in Seq(S), NEW t \in Seq(S), Begins(s, t)
  PROVE  IsPrefix(s, t)
<1>1. DOMAIN s = 1..Len(s) /\ DOMAIN t = 1..Len(t) /\ Len(s) \in Nat /\ Len(t) \in Nat
  OBVIOUS
<1>2. Len(s) <= Len(t)
  <2>1. CASE Len(s) = 0
    BY <1>1, <2>1
  <2>2. CASE Len(s) # 0
    <3>1. Len(s) \in DOMAIN s
      BY <1>1, <2>2
    <3> QED  BY <1>1, <3>1 DEF Begins
  <2> QED  BY <2>1, <2>2
<1>3. SubSeq(s, 1, Len(s)) = s
  OBVIOUS
<1>4. SubSeq(t, 1, Len(s)) = s
  BY <1>1, <1>2 DEF Begins
<1> QED  BY <1>2, <1>3, <1>4 DEF IsPrefix

-----------------------------------------------------------------------------
(* The inductive invariant. *)

(* A job that is not there is no job, and one that failed journaled it.     *)
RealJob ==
  {j \in Job : /\ j.status = "archived" => j = NoJob
               /\ j.status = "failed" => \E n \in DOMAIN j.log : j.log[n] = "failed"}
Dir == [jobs : RealJob, box : Box]
Contents == {state.memory, state.now} \cup state.may
Archived(c) == c.jobs.status = "archived"

(* The journal that goes with a content of the state directory. *)
LogOf(c) == IF Archived(c) THEN archived.log ELSE c.jobs.log

Tells(b, log) == \A n \in EventNumber : b[n] # Absent => n \in DOMAIN log /\ log[n] = b[n].type
Covers(b, log) == \A n \in DOMAIN log : b[n] # Absent

Shape ==
  /\ state \in [memory : Dir, now : Dir, may : SUBSET Dir]
  /\ archive.now \in [job : Job] /\ archive.may \subseteq [job : Job]

(* Whatever a crash comes up with tells of its own journal, and has what    *)
(* was acknowledged.                                                        *)
Snapshots == \A c \in Contents : Tells(c.box, LogOf(c)) /\ Begins(acknowledged, LogOf(c))

(* A content without the job comes with the archived job and with all its   *)
(* events, and so does what may be left of it.                              *)
Archiving ==
  /\ \A c \in Contents : Archived(c) => Archived(state.now) /\ Covers(c.box, archived.log)
  /\ Archived(state.now) =>
       /\ archive.may = {archive.now} /\ archived.status \in Terminal
       /\ jobs.status = "archived" \/ jobs = archived
       /\ Covers(box, archived.log)

(* A failed save leaves the files ahead of the memory, never aside of it.   *)
Ahead ==
  /\ Tells(state.now.box, Found) /\ Begins(Found, LogOf(state.now))
  /\ \A n \in EventNumber : Known(n) => state.now.box[n] # Absent

Delivered ==
  \A c \in Contents : \A n \in EventNumber : c.box[n].state = "delivered" => receiver[n] = "done"

DirInv == Shape /\ Snapshots /\ Archiving /\ Ahead /\ Delivered

Ended == jobs.status \in Terminal \cup {"archived"}
Flushing == {"post", "ask", "delivered", "failed", "again"}

(* What the threads still know at the step where they use it. *)
Delivering ==
  /\ deliverer.at = "reconcile" => Begins(deliverer.log, Found)
  /\ deliverer.at \in Flushing => deliverer.todo # {} /\ \A n \in deliverer.todo : Known(n)
  /\ deliverer.at = "delivered" => receiver[Current] = "done"
Archives ==
  /\ archiver.at = "reconcile" => Ended /\ archiver.log = Found
  /\ archiver.at = "archive" => Ended /\ Covers(box, Found)
Waiting ==
  \A copy \in unsent :
    Begins(copy.log, Found) /\ \E n \in DOMAIN copy.log : copy.log[n] = copy.type

OInv == TypeOK /\ DirInv /\ Delivering /\ Archives /\ Waiting

-----------------------------------------------------------------------------
(* Saves. *)

(* A box that may be saved: it tells of the journal, forgets nothing and    *)
(* calls delivered what was.                                                *)
Good(b) ==
  /\ b \in Box /\ Tells(b, Found)
  /\ \A n \in EventNumber : Known(n) => b[n] # Absent
  /\ \A n \in EventNumber : b[n].state = "delivered" => receiver[n] = "done"

DoneStays == \A n \in EventNumber : receiver[n] = "done" => receiver'[n] = "done"

LEMMA PutBox ==
  ASSUME NEW c \in Dir, NEW b \in Box
  PROVE  /\ [c EXCEPT !["box"] = b] \in Dir
         /\ [c EXCEPT !["box"] = b].box = b
         /\ [c EXCEPT !["box"] = b].jobs = c.jobs
BY DEF Dir

LEMMA PutJobs ==
  ASSUME NEW c \in Dir, NEW j \in RealJob
  PROVE  /\ [c EXCEPT !["jobs"] = j] \in Dir
         /\ [c EXCEPT !["jobs"] = j].jobs = j
         /\ [c EXCEPT !["jobs"] = j].box = c.box
BY DEF Dir

(* What a save of one file leaves: in memory the old or the new, before it  *)
(* on disk the new at the most, and what may be found is one of the two or  *)
(* was possible before.                                                     *)
LEMMA BoxWritten ==
  ASSUME Shape, NEW b \in Box, Saves("box", b) \/ SaveFails("box", b)
  PROVE  /\ state' \in [memory : Dir, now : Dir, may : SUBSET Dir]
         /\ jobs' = jobs
         /\ \/ box' = b /\ state'.now.box = b /\ state'.now.jobs = state.now.jobs
            \/ box' = box /\ state'.now.box = b /\ state'.now.jobs = state.now.jobs
            \/ UNCHANGED state
         /\ \A c \in state'.may : c \in state.may \/ (c.box = b /\ c.jobs = state.now.jobs)
<1> DEFINE new == [state.now EXCEPT !["box"] = b]
<1>1. new \in Dir /\ new.box = b /\ new.jobs = state.now.jobs
  BY PutBox DEF Shape
<1>2. CASE Saves("box", b)
  <2>1. state' = [memory |-> [state.memory EXCEPT !["box"] = b], now |-> new, may |-> {new}]
    BY <1>2 DEF Saves, Files!Saved, Files!Written
  <2>2. [state.memory EXCEPT !["box"] = b] \in Dir /\ [state.memory EXCEPT !["box"] = b].box = b
        /\ [state.memory EXCEPT !["box"] = b].jobs = state.memory.jobs
    BY PutBox DEF Shape
  <2> HIDE DEF new
  <2> QED  BY <1>1, <2>1, <2>2 DEF jobs, box
<1>3. CASE SaveFails("box", b) /\ state' # state
  <2>1. state' = [memory |-> state.memory, now |-> new, may |-> state.may \cup {new}]
    BY <1>3 DEF SaveFails, Files!NotSaved, Files!Written
  <2> HIDE DEF new
  <2> QED  BY <1>1, <2>1 DEF jobs, box, Shape
<1>4. CASE UNCHANGED state
  BY <1>4 DEF Shape, jobs
<1> QED  BY <1>2, <1>3, <1>4 

LEMMA JobsWritten ==
  ASSUME Shape, NEW j \in RealJob
  PROVE  /\ Saves("jobs", j) =>
              /\ state' \in [memory : Dir, now : Dir, may : SUBSET Dir]
              /\ box' = box /\ jobs' = j
              /\ state'.now.jobs = j /\ state'.now.box = state.now.box /\ state'.may = {state'.now}
         /\ SaveFails("jobs", j) =>
              /\ state' \in [memory : Dir, now : Dir, may : SUBSET Dir]
              /\ box' = box /\ jobs' = jobs
              /\ UNCHANGED state \/ (state'.now.jobs = j /\ state'.now.box = state.now.box)
              /\ \A c \in state'.may : c \in state.may \/ (c.jobs = j /\ c.box = state.now.box)
<1> DEFINE new == [state.now EXCEPT !["jobs"] = j]
<1>1. new \in Dir /\ new.jobs = j /\ new.box = state.now.box
  BY PutJobs DEF Shape
<1>2. ASSUME Saves("jobs", j)
      PROVE  /\ state' \in [memory : Dir, now : Dir, may : SUBSET Dir]
             /\ box' = box /\ jobs' = j
             /\ state'.now.jobs = j /\ state'.now.box = state.now.box /\ state'.may = {state'.now}
  <2>1. state' = [memory |-> [state.memory EXCEPT !["jobs"] = j], now |-> new, may |-> {new}]
    BY <1>2 DEF Saves, Files!Saved, Files!Written
  <2>2. [state.memory EXCEPT !["jobs"] = j] \in Dir /\ [state.memory EXCEPT !["jobs"] = j].jobs = j
        /\ [state.memory EXCEPT !["jobs"] = j].box = state.memory.box
    BY PutJobs DEF Shape
  <2> HIDE DEF new
  <2> QED  BY <1>1, <2>1, <2>2 DEF jobs, box
<1>3. ASSUME SaveFails("jobs", j)
      PROVE  /\ state' \in [memory : Dir, now : Dir, may : SUBSET Dir]
             /\ box' = box /\ jobs' = jobs
             /\ UNCHANGED state \/ (state'.now.jobs = j /\ state'.now.box = state.now.box)
             /\ \A c \in state'.may : c \in state.may \/ (c.jobs = j /\ c.box = state.now.box)
  <2>1. state' = state \/ state' = [memory |-> state.memory, now |-> new, may |-> state.may \cup {new}]
    BY <1>3 DEF SaveFails, Files!NotSaved, Files!Written
  <2> HIDE DEF new
  <2> QED  BY <1>1, <2>1 DEF jobs, box, Shape
<1> QED  BY <1>2, <1>3

-----------------------------------------------------------------------------
(* Saves keep what is true of the directory. *)

LEMMA BeginsOn ==
  ASSUME NEW r, NEW s, NEW t, Begins(r, s), Begins(s, t)
  PROVE  Begins(r, t)
BY DEF Begins

LEMMA TellsOn ==
  ASSUME NEW b, NEW s, NEW t, Tells(b, s), Begins(s, t)
  PROVE  Tells(b, t)
BY DEF Begins, Tells

(* The journal of a job names events.                                       *)
LEMMA LogTyped ==
  ASSUME NEW log \in Log
  PROVE  DOMAIN log \subseteq EventNumber /\ \A n \in DOMAIN log : log[n] \in EventType
BY OutboxAssumption DEF Log, EventNumber

LEMMA JobLogs ==
  ASSUME Shape
  PROVE  /\ archived.log \in Log /\ Found \in Log
         /\ \A c \in Contents : c \in Dir /\ c.jobs \in Job /\ c.box \in Box /\ LogOf(c) \in Log
BY DEF Shape, Contents, Dir, RealJob, Job, LogOf, Found, archived, jobs, Archived

(* The box. *)
LEMMA BoxKeeps ==
  ASSUME DirInv, NEW b, Good(b), Saves("box", b) \/ SaveFails("box", b),
         UNCHANGED <<archive, acknowledged>>, DoneStays
  PROVE  /\ DirInv' /\ UNCHANGED Found /\ UNCHANGED jobs
         /\ \A n \in EventNumber : Known(n) => Known(n)'
<1>1. Shape /\ b \in Box
  BY DEF DirInv, Good
<1>2. /\ state' \in [memory : Dir, now : Dir, may : SUBSET Dir]
      /\ jobs' = jobs
      /\ \/ box' = b /\ state'.now.box = b /\ state'.now.jobs = state.now.jobs
         \/ box' = box /\ state'.now.box = b /\ state'.now.jobs = state.now.jobs
         \/ UNCHANGED state
      /\ \A c \in state'.may : c \in state.may \/ (c.box = b /\ c.jobs = state.now.jobs)
  BY <1>1, BoxWritten
<1>3. archived' = archived /\ Found' = Found /\ UNCHANGED jobs
  BY <1>2 DEF archived, Found
<1>4. ASSUME NEW n \in EventNumber, Known(n)  PROVE Known(n)'
  BY <1>2, <1>4 DEF Good, Known, box
(* Every content is an old one, or has the new box beside old jobs. *)
<1>5. ASSUME NEW c \in Contents'
      PROVE  \/ \E o \in Contents : c.jobs = o.jobs /\ c.box = o.box
             \/ c.box = b /\ (c.jobs = state.now.jobs \/ c.jobs = jobs)
  BY <1>2 DEF Contents, jobs, box
<1>6. Tells(b, Found) /\ Tells(b, LogOf(state.now))
  BY TellsOn DEF Good, DirInv, Ahead
<1>7. ASSUME NEW c  PROVE LogOf(c)' = IF c.jobs.status = "archived" THEN archived.log ELSE c.jobs.log
  BY <1>3 DEF LogOf, Archived
<1>8. Found = LogOf(state.memory)
  BY DEF Found, LogOf, Archived, jobs
<1>9. Shape'
  BY <1>1, <1>2 DEF Shape
<1>10. Snapshots'
  <2> SUFFICES ASSUME NEW c \in Contents'
               PROVE  Tells(c.box, LogOf(c)') /\ Begins(acknowledged, LogOf(c)')
    BY DEF Snapshots, Tells, Begins
  <2>1. \A o \in Contents : Tells(o.box, LogOf(o)) /\ Begins(acknowledged, LogOf(o))
    BY DEF DirInv, Snapshots
  <2>2. CASE \E o \in Contents : c.jobs = o.jobs /\ c.box = o.box
    BY <1>7, <2>1, <2>2 DEF LogOf, Archived
  <2>3. CASE c.box = b /\ (c.jobs = state.now.jobs \/ c.jobs = jobs)
    <3>1. LogOf(c)' = LogOf(state.now) \/ LogOf(c)' = Found
      BY <1>7, <1>8, <2>3 DEF LogOf, Archived, jobs
    <3> QED  BY <1>6, <1>8, <2>1, <2>3, <3>1 DEF Contents
  <2> QED  BY <1>5, <2>2, <2>3
<1>11. Archived(state'.now) <=> Archived(state.now)
  BY <1>2 DEF Archived
<1>12. ASSUME Archived(state.now)  PROVE Covers(b, archived.log) /\ Covers(box, archived.log)
  <2>1. DOMAIN archived.log \subseteq EventNumber
    BY <1>1, JobLogs, LogTyped
  <2> QED  BY <1>12, <2>1 DEF Good, DirInv, Archiving, Covers, Known
<1>13. Archiving'
  <2>1. ASSUME NEW c \in Contents', Archived(c)
        PROVE  Archived(state.now) /\ Covers(c.box, archived.log)
    BY <1>5, <1>12, <2>1 DEF DirInv, Archiving, Contents, Archived, jobs
  <2>2. ASSUME Archived(state.now)
        PROVE  Covers(box', archived.log)
    BY <1>2, <1>12, <2>2 DEF box
  <2> QED  BY <1>3, <1>11, <2>1, <2>2 DEF Archiving, DirInv, Archived, Covers
<1>14. Ahead'
  <2>1. Tells(state'.now.box, Found)
    BY <1>2 DEF DirInv, Ahead, Good
  <2>2. LogOf(state.now)' = LogOf(state.now)
    BY <1>2, <1>3 DEF LogOf, Archived
  <2>3. \A n \in EventNumber : Known(n)' => state'.now.box[n] # Absent
    BY <1>2 DEF DirInv, Ahead, Good, Known, box
  <2> QED  BY <1>3, <2>1, <2>2, <2>3 DEF DirInv, Ahead, Tells, Begins
<1>15. Delivered'
  BY <1>5 DEF DirInv, Delivered, Good, DoneStays
<1> QED  BY <1>3, <1>4, <1>9, <1>10, <1>13, <1>14, <1>15 DEF DirInv

(* Steps that save nothing. *)
LEMMA NothingKeeps ==
  ASSUME DirInv, UNCHANGED <<state, archive, acknowledged>>, DoneStays
  PROVE  DirInv' /\ UNCHANGED <<Found, jobs, box>>
<1>1. UNCHANGED <<Found, jobs, box, archived, Contents>>
  BY DEF Found, jobs, box, archived, Contents
<1>2. Shape' /\ Ahead'
  BY <1>1 DEF DirInv, Shape, Ahead, Tells, Begins, LogOf, Archived, Known
<1>3. Snapshots' /\ Archiving'
  BY <1>1 DEF DirInv, Snapshots, Archiving, Tells, Begins, Covers, LogOf, Archived
<1>4. Delivered'
  BY <1>1 DEF DirInv, Delivered, DoneStays
<1> QED  BY <1>1, <1>2, <1>3, <1>4 DEF DirInv

(* While the job is there no content is without it, except that the saved   *)
(* record of an ended one may have outrun its removal.                      *)
LEMMA ActiveAlone ==
  ASSUME DirInv, jobs.status = "active"
  PROVE  \A c \in Contents : ~Archived(c) /\ LogOf(c) = c.jobs.log
BY DEF DirInv, Archiving, LogOf, Archived, Terminal

(* A transition is journaled.                                               *)
LEMMA TransitionKeeps ==
  ASSUME DirInv, NEW type \in EventType, jobs.status = "active", Len(jobs.log) < MaxEvents,
         UNCHANGED <<archive, receiver>>,
         \/ Saves("jobs", Journaled(type)) /\ acknowledged' = Journaled(type).log
         \/ SaveFails("jobs", Journaled(type)) /\ UNCHANGED acknowledged
  PROVE  /\ DirInv' /\ UNCHANGED box
         /\ \/ UNCHANGED Found /\ UNCHANGED jobs
            \/ Found' = Journaled(type).log
         /\ Journaled(type).log \in Log /\ Begins(Found, Journaled(type).log)
         /\ \E n \in DOMAIN Journaled(type).log : Journaled(type).log[n] = type
         /\ Saves("jobs", Journaled(type)) => Found' = Journaled(type).log
<1> DEFINE new == Journaled(type)
<1>1. Shape /\ jobs \in Job /\ jobs.log \in Log /\ Found = jobs.log
  BY DEF DirInv, Shape, Dir, RealJob, Job, jobs, Found
<1>2. PICK n \in 0..MaxEvents : jobs.log \in [1..n -> EventType]
  BY <1>1 DEF Log
<1>3. jobs.log \in Seq(EventType) /\ Len(jobs.log) = n /\ n \in Nat /\ n < MaxEvents
  BY <1>2, OutboxAssumption
<1>4. /\ new.log = Append(jobs.log, type) /\ new.status = EndOf[type]
      /\ new = [status |-> EndOf[type], log |-> Append(jobs.log, type)]
  BY DEF Journaled
<1>5. Append(jobs.log, type) \in [1..(n + 1) -> EventType] /\ n + 1 \in 0..MaxEvents
  <2>1. Append(jobs.log, type) \in Seq(EventType) /\ Len(Append(jobs.log, type)) = n + 1
    BY <1>3
  <2>2. Append(jobs.log, type) \in [1..(n + 1) -> EventType]
    BY <2>1, LenProperties
  <2>3. n + 1 \in 0..MaxEvents
    BY <1>3, OutboxAssumption
  <2> QED  BY <2>2, <2>3
<1>6. new.log \in Log
  BY <1>4, <1>5 DEF Log
<1>8. Begins(Found, new.log) /\ \E i \in DOMAIN new.log : new.log[i] = type
  BY <1>1, <1>3, <1>4 DEF Begins
<1>7. new \in RealJob /\ new.status # "archived"
  <2>1. new \in Job /\ new.status # "archived" /\ (new.status = "failed" => type = "failed")
    BY <1>4, <1>6 DEF Job, EndOf, EventType, Terminal
  <2> QED  BY <1>8, <2>1 DEF RealJob
<1> HIDE DEF new
<1>9. /\ state' \in [memory : Dir, now : Dir, may : SUBSET Dir]
      /\ box' = box
      /\ \/ /\ Saves("jobs", new) /\ acknowledged' = new.log
            /\ jobs' = new /\ state'.now.jobs = new /\ state'.now.box = state.now.box
            /\ state'.may = {state'.now}
         \/ /\ SaveFails("jobs", new) /\ UNCHANGED acknowledged
            /\ jobs' = jobs
            /\ UNCHANGED state \/ (state'.now.jobs = new /\ state'.now.box = state.now.box)
            /\ \A c \in state'.may : c \in state.may \/ (c.jobs = new /\ c.box = state.now.box)
  <2>1. \/ Saves("jobs", new) /\ acknowledged' = new.log
        \/ SaveFails("jobs", new) /\ UNCHANGED acknowledged
    BY DEF new
  <2> QED  BY <1>1, <1>7, <2>1, JobsWritten
<1>10. archived' = archived
  BY DEF archived
<1>11. ASSUME NEW c \in Contents'
       PROVE  \/ /\ \E o \in Contents : c.jobs = o.jobs /\ c.box = o.box
                 /\ UNCHANGED acknowledged
              \/ c.jobs = new /\ (c.box = state.now.box \/ c.box = box)
  BY <1>9 DEF Contents, jobs, box
<1>12. \A c \in Contents : ~Archived(c) /\ LogOf(c) = c.jobs.log
  BY ActiveAlone
<1>13. ASSUME NEW c \in Contents'  PROVE ~Archived(c) /\ LogOf(c)' = c.jobs.log
  BY <1>7, <1>11, <1>12 DEF Archived, LogOf
<1>14. Begins(acknowledged, Found) /\ Tells(box, Found) /\ Tells(state.now.box, Found)
       /\ Begins(acknowledged, new.log) /\ Begins(acknowledged', new.log)
  <2>1. Begins(acknowledged, Found) /\ Tells(box, Found) /\ Tells(state.now.box, Found)
    BY <1>1, <1>12 DEF DirInv, Snapshots, Contents, Ahead, jobs, box
  <2>2. Begins(acknowledged, new.log)
    BY <1>8, <2>1, BeginsOn
  <2>3. Begins(new.log, new.log)
    BY DEF Begins
  <2> QED  BY <2>1, <2>2, <2>3 DEF new
<1>15. Shape'
  BY <1>1, <1>9 DEF Shape
<1>16. Snapshots'
  <2> SUFFICES ASSUME NEW c \in Contents'
               PROVE  Tells(c.box, c.jobs.log) /\ Begins(acknowledged', c.jobs.log)
    BY <1>13 DEF Snapshots, Tells, Begins
  <2>1. CASE (\E o \in Contents : c.jobs = o.jobs /\ c.box = o.box) /\ UNCHANGED acknowledged
    BY <1>12, <2>1 DEF DirInv, Snapshots
  <2>2. CASE c.jobs = new /\ (c.box = state.now.box \/ c.box = box)
    BY <1>8, <1>14, <2>2, TellsOn
  <2> QED  BY <1>11, <2>1, <2>2
<1>17. Archiving'
  BY <1>13 DEF Archiving, Contents
<1>18. Found' = jobs'.log
  BY <1>13 DEF Found, Contents, Archived, jobs
<1>19. Ahead'
  <2>1. jobs' = jobs \/ jobs' = new
    BY <1>9 DEF jobs
  <2>2. Begins(new.log, new.log) /\ Begins(Found, Found)
    BY DEF Begins
  <2>3. Tells(state'.now.box, Found')
    BY <1>1, <1>8, <1>9, <1>14, <1>18, <2>1, TellsOn
  <2>4. LogOf(state.now)' = state'.now.jobs.log
    BY <1>13 DEF LogOf, Contents, Archived
  <2>5. Begins(Found', state'.now.jobs.log)
    <3>1. CASE UNCHANGED state
      BY <1>1, <1>12, <1>18, <3>1 DEF DirInv, Ahead, Contents, jobs
    <3>2. CASE state'.now.jobs = new
      BY <1>1, <1>8, <1>18, <2>1, <2>2, <3>2
    <3> QED  BY <1>9, <3>1, <3>2
  <2>6. \A i \in EventNumber : Known(i)' => state'.now.box[i] # Absent
    BY <1>9 DEF DirInv, Ahead, Known
  <2> QED  BY <2>3, <2>4, <2>5, <2>6 DEF Ahead, Tells, Begins
<1>20. Delivered'
  BY <1>11 DEF DirInv, Delivered, Contents, box
<1>21. (UNCHANGED Found /\ UNCHANGED jobs) \/ Found' = new.log
  BY <1>1, <1>9, <1>18 DEF jobs
<1>22. Saves("jobs", new) => Found' = new.log
  BY <1>1, <1>7, <1>18, JobsWritten
<1> QED  BY <1>6, <1>8, <1>9, <1>15, <1>16, <1>17, <1>19, <1>20, <1>21, <1>22 DEF DirInv, new

(* The record of its own, then the job's removal.                           *)
LEMMA ArchiveKeeps ==
  ASSUME DirInv, Ended, Covers(box, Found), Archive
  PROVE  DirInv' /\ UNCHANGED <<Found, box>> /\ Ended'
<1>1. UNCHANGED <<acknowledged, receiver>>
  BY DEF Archive
<1>2. CASE jobs.status = "archived"
  <2>1. UNCHANGED <<state, archive, acknowledged>> /\ DoneStays
    BY <1>1, <1>2 DEF Archive, DoneStays
  <2> QED  BY <2>1, NothingKeeps DEF Ended, jobs
<1>3. CASE jobs.status # "archived"
  <2>1. Shape /\ jobs \in Job /\ jobs.status \in Terminal /\ Found = jobs.log
    BY <1>3 DEF DirInv, Shape, Dir, RealJob, jobs, Ended, Found
  <2>2. NoJob \in RealJob /\ NoJob.status = "archived"
    BY OutboxAssumption, EmptySeq DEF NoJob, Job, Log, RealJob
  <2>3. [archive.now EXCEPT !["job"] = jobs] = [job |-> jobs]
        /\ (archived = jobs => archive.now = [job |-> jobs])
    BY <2>1 DEF Shape, archived
  (* Where a content has lost the job, the record is of the same job.       *)
  <2>4. \A o \in Contents : Archived(o) => jobs = archived /\ Archived(state.now)
    BY <1>3 DEF DirInv, Archiving
  <2>5. Tells(box, Found) /\ Tells(state.now.box, Found) /\ Begins(acknowledged, Found)
        /\ Covers(state.now.box, Found)
    <3>1. Tells(box, Found) /\ Begins(acknowledged, Found)
      BY <1>3, <2>1 DEF DirInv, Snapshots, Contents, LogOf, Archived, jobs, box
    <3>2. DOMAIN Found \subseteq EventNumber
      BY <2>1, JobLogs, LogTyped
    <3> QED  BY <3>1, <3>2 DEF DirInv, Ahead, Covers, Known
  <2>6. CASE archive' = Files!Saved(archive, "job", jobs)
             /\ (Saves("jobs", NoJob) \/ SaveFails("jobs", NoJob))
    <3>1. archived' = jobs /\ archive'.now = [job |-> jobs] /\ archive'.may = {[job |-> jobs]}
      BY <2>3, <2>6 DEF Files!Saved, Files!Written, archived
    <3>2. /\ state' \in [memory : Dir, now : Dir, may : SUBSET Dir]
          /\ box' = box /\ state'.now.box = state.now.box
          /\ (jobs' = NoJob /\ state'.now.jobs = NoJob)
             \/ (jobs' = jobs /\ (UNCHANGED state \/ state'.now.jobs = NoJob))
          /\ \A c \in state'.may : c \in state.may \/ (c.jobs = NoJob /\ c.box = state.now.box)
      BY <2>1, <2>2, <2>6, JobsWritten
    <3>3. ASSUME NEW c \in Contents'
          PROVE  \/ \E o \in Contents : c.jobs = o.jobs /\ c.box = o.box
                 \/ c.jobs = NoJob /\ (c.box = box \/ c.box = state.now.box)
      BY <3>2 DEF Contents, jobs, box
    <3>4. ASSUME NEW c
          PROVE  LogOf(c)' = IF c.jobs.status = "archived" THEN jobs.log ELSE c.jobs.log
      BY <3>1 DEF LogOf, Archived
    <3>5. Found' = Found /\ Ended'
      BY <2>1, <2>2, <3>1, <3>2 DEF Found, Ended
    <3>6. Shape'
      BY <2>1, <3>1, <3>2 DEF Shape
    <3>7. Snapshots'
      <4> SUFFICES ASSUME NEW c \in Contents'
                   PROVE  Tells(c.box, LogOf(c)') /\ Begins(acknowledged, LogOf(c)')
        BY <1>1 DEF Snapshots, Tells, Begins
      <4>1. CASE \E o \in Contents : c.jobs = o.jobs /\ c.box = o.box
        <5>1. PICK o \in Contents : c.jobs = o.jobs /\ c.box = o.box
          BY <4>1
        <5>2. LogOf(c)' = LogOf(o)
          BY <2>4, <3>4, <5>1 DEF LogOf, Archived
        <5> QED  BY <5>1, <5>2 DEF DirInv, Snapshots
      <4>2. CASE c.jobs = NoJob /\ (c.box = box \/ c.box = state.now.box)
        BY <2>1, <2>2, <2>5, <3>4, <4>2
      <4> QED  BY <3>3, <4>1, <4>2
    <3>8. ASSUME NEW c \in Contents', Archived(c)
          PROVE  Archived(state'.now) /\ Covers(c.box, jobs.log)
      <4>1. CASE \E o \in Contents : c.jobs = o.jobs /\ c.box = o.box
        <5>1. PICK o \in Contents : c.jobs = o.jobs /\ c.box = o.box
          BY <4>1
        <5>2. Archived(o) /\ jobs = archived /\ Archived(state.now) /\ Covers(o.box, archived.log)
          BY <2>4, <3>8, <5>1 DEF Archived, DirInv, Archiving
        <5> QED  BY <2>2, <3>2, <5>1, <5>2 DEF Archived
      <4>2. CASE c.jobs = NoJob /\ (c.box = box \/ c.box = state.now.box)
        <5>1. Covers(c.box, jobs.log)
          BY <2>1, <2>5, <4>2
        <5>2. CASE UNCHANGED state
          <6>1. c \in Contents
            BY <5>2 DEF Contents
          <6> QED  BY <2>4, <3>8, <5>1, <5>2, <6>1
        <5>3. CASE state'.now.jobs = NoJob
          BY <2>2, <5>1, <5>3 DEF Archived
        <5> QED  BY <3>2, <5>2, <5>3
      <4> QED  BY <3>3, <4>1, <4>2
    <3>9. Archiving'
      <4>1. Covers(box, jobs.log)
        BY <2>1
      <4>2. jobs'.status = "archived" \/ jobs' = archived'
        BY <2>2, <3>1, <3>2
      <4> QED  BY <2>1, <3>1, <3>2, <3>8, <4>1, <4>2 DEF Archiving, Archived, Covers
    <3>10. Ahead'
      <4>1. Begins(Found, LogOf(state.now)')
        <5>1. CASE UNCHANGED state /\ ~Archived(state.now)
          BY <3>4, <5>1 DEF DirInv, Ahead, LogOf, Archived
        <5>2. CASE Archived(state'.now)
          BY <2>1, <5>2, <3>1 DEF Begins, LogOf, Archived
        <5> QED  BY <2>2, <3>2, <5>1, <5>2 DEF Archived
      <4> QED  BY <3>2, <3>5, <4>1 DEF DirInv, Ahead, Tells, Begins, Known
    <3>11. Delivered'
      BY <1>1, <3>3 DEF DirInv, Delivered, Contents, box
    <3> QED  BY <3>2, <3>5, <3>6, <3>7, <3>9, <3>10, <3>11 DEF DirInv
  <2>7. CASE archive' \in Files!NotSaved(archive, "job", jobs) /\ UNCHANGED state
    <3>1. \/ UNCHANGED archive
          \/ archive'.now = [job |-> jobs] /\ archive'.may = archive.may \cup {[job |-> jobs]}
      BY <2>3, <2>7 DEF Files!NotSaved, Files!Written
    <3>2. UNCHANGED <<jobs, box, Contents>>
      BY <2>7 DEF jobs, box, Contents
    <3>3. Shape'
      BY <2>1, <2>7, <3>1 DEF Shape
    <3>4. Found' = Found
      BY <2>1, <3>2, <1>3 DEF Found
    <3>5. CASE jobs = archived
      <4>1. archived' = archived /\ archive'.now = archive.now
        BY <2>3, <3>1, <3>5 DEF archived
      <4>2. archive.may = {archive.now} => archive'.may = {archive'.now}
        BY <2>3, <3>1, <3>5, <4>1
      <4>3. Snapshots'
        BY <1>1, <3>2, <4>1 DEF DirInv, Snapshots, Tells, Begins, LogOf, Archived
      <4>4. Archiving'
        BY <2>7, <3>2, <4>1, <4>2 DEF DirInv, Archiving, Covers, Archived
      <4>5. Ahead' /\ Delivered'
        BY <1>1, <2>7, <3>2, <3>4, <4>1
           DEF DirInv, Ahead, Delivered, Tells, Begins, LogOf, Archived, Known
      <4> QED  BY <3>2, <3>3, <3>4, <4>3, <4>4, <4>5 DEF DirInv, Ended
    <3>6. CASE jobs # archived
      <4>1. \A c \in Contents : ~Archived(c) /\ LogOf(c) = c.jobs.log /\ LogOf(c)' = c.jobs.log
        BY <2>4, <3>6 DEF LogOf, Archived
      <4>2. Snapshots' /\ Archiving'
        BY <1>1, <2>7, <3>2, <4>1
           DEF DirInv, Snapshots, Archiving, Tells, Begins, Contents, Archived
      <4>3. state.now \in Contents
        BY DEF Contents
      <4>4. LogOf(state.now)' = LogOf(state.now)
        BY <2>7, <4>1, <4>3 DEF LogOf, Archived
      <4>5. Ahead' /\ Delivered'
        BY <1>1, <2>7, <3>2, <3>4, <4>4 DEF DirInv, Ahead, Delivered, Tells, Begins, Known
      <4> QED  BY <3>2, <3>3, <3>4, <4>2, <4>5 DEF DirInv, Ended
    <3> QED  BY <3>5, <3>6
  <2> QED  BY <1>3, <2>6, <2>7 DEF Archive
<1> QED  BY <1>2, <1>3

(* The next process, with the files it finds.                               *)
LEMMA RestartKeeps ==
  ASSUME DirInv, UNCHANGED <<acknowledged, receiver>>,
         \/ state' = Files!Restarted(state) /\ archive' = Files!Restarted(archive)
         \/ state' \in Files!PowerLost(state) /\ archive' \in Files!PowerLost(archive)
  PROVE  DirInv'
<1>1. CASE state' = Files!Restarted(state) /\ archive' = Files!Restarted(archive)
  <2>1. /\ state' = [memory |-> state.now, now |-> state.now, may |-> state.may]
        /\ archive'.now = archive.now /\ archive'.may = archive.may /\ archived' = archived
        /\ jobs' = state.now.jobs /\ box' = state.now.box
    BY <1>1 DEF Files!Restarted, archived, jobs, box
  <2>2. Contents' \subseteq Contents /\ state.now \in Contents
    BY <2>1 DEF Contents
  <2>3. \A c : LogOf(c)' = LogOf(c)
    BY <2>1 DEF LogOf, Archived
  <2>4. Found' = LogOf(state.now) /\ LogOf(state.now)' = LogOf(state.now)
    BY <2>1 DEF Found, LogOf, Archived
  <2>5. Shape'
    BY <2>1 DEF DirInv, Shape
  <2>6. Snapshots'
    BY <2>2, <2>3 DEF DirInv, Snapshots, Tells, Begins
  <2>7. Archiving'
    BY <2>1, <2>2 DEF DirInv, Archiving, Covers, Archived
  <2>8. Ahead'
    BY <2>1, <2>2, <2>4 DEF DirInv, Snapshots, Ahead, Tells, Begins, Known
  <2>9. Delivered'
    BY <2>2 DEF DirInv, Delivered
  <2> QED  BY <2>5, <2>6, <2>7, <2>8, <2>9 DEF DirInv
<1>2. CASE state' \in Files!PowerLost(state) /\ archive' \in Files!PowerLost(archive)
  <2>1. PICK c \in state.may : state' = [memory |-> c, now |-> c, may |-> {c}]
    BY <1>2 DEF Files!PowerLost, Files!Holding
  <2>2. PICK a \in archive.may : archive' = [memory |-> a, now |-> a, may |-> {a}]
    BY <1>2 DEF Files!PowerLost, Files!Holding
  <2>3. c \in Contents /\ Contents' = {c} /\ jobs' = c.jobs /\ box' = c.box /\ archived' = a.job
    BY <2>1, <2>2 DEF Contents, jobs, box, archived
  <2>4. Archived(c) => archived' = archived /\ archived.status \in Terminal
                       /\ Covers(c.box, archived.log)
    BY <2>2, <2>3 DEF DirInv, Archiving, archived
  <2>5. LogOf(c)' = LogOf(c) /\ Found' = LogOf(c) /\ LogOf(state.now)' = LogOf(c)
    BY <2>1, <2>3, <2>4 DEF LogOf, Archived, Found
  <2>6. Shape'
    BY <2>1, <2>2 DEF DirInv, Shape
  <2>7. Snapshots'
    BY <2>3, <2>5 DEF DirInv, Snapshots, Tells, Begins
  <2>8. Archiving'
    BY <2>1, <2>2, <2>3, <2>4 DEF Archiving, Covers, Archived
  <2>9. Ahead'
    BY <2>1, <2>3, <2>5 DEF DirInv, Snapshots, Ahead, Tells, Begins, Known
  <2>10. Delivered'
    BY <2>3 DEF DirInv, Delivered
  <2> QED  BY <2>6, <2>7, <2>8, <2>9, <2>10 DEF DirInv
<1> QED  BY <1>1, <1>2

-----------------------------------------------------------------------------
(* What the threads know stays true while the others act. *)

Grows == Begins(Found, Found') /\ (\A n \in EventNumber : Known(n) => Known(n)') /\ DoneStays

LEMMA CurrentIn ==
  ASSUME deliverer \in Thread, deliverer.todo # {}
  PROVE  Current \in deliverer.todo /\ Current \in EventNumber
<1>1. deliverer.todo \subseteq 1..MaxEvents /\ MaxEvents \in Nat
  BY OutboxAssumption DEF Thread, EventNumber
<1> QED  BY <1>1, MinIn DEF Current, EventNumber

LEMMA DeliveringOn ==
  ASSUME deliverer \in Thread, Delivering, Grows, UNCHANGED deliverer
  PROVE  Delivering'
<1>1. ASSUME deliverer.at = "reconcile"  PROVE Begins(deliverer.log, Found')
  BY <1>1, BeginsOn DEF Delivering, Grows
<1>2. ASSUME deliverer.at \in Flushing  PROVE \A n \in deliverer.todo : Known(n)'
  BY <1>2 DEF Delivering, Grows, Thread
<1>3. ASSUME deliverer.at = "delivered"  PROVE receiver'[Current] = "done" /\ Current' = Current
  <2>1. Current \in EventNumber /\ receiver[Current] = "done"
    BY <1>3, CurrentIn DEF Delivering, Flushing
  <2> QED  BY <2>1 DEF Grows, DoneStays, Current
<1> QED  BY <1>1, <1>2, <1>3 DEF Delivering, Begins

LEMMA ArchivesOn ==
  ASSUME DirInv, Archives, Grows, UNCHANGED archiver, Ended => Ended' /\ UNCHANGED Found
  PROVE  Archives'
<1>1. DOMAIN Found \subseteq EventNumber
  BY JobLogs, LogTyped DEF DirInv
<1>2. ASSUME Ended, Covers(box, Found)  PROVE Covers(box', Found')
  BY <1>1, <1>2 DEF Covers, Grows, Known
<1> QED  BY <1>2 DEF Archives, Covers

LEMMA WaitingOn ==
  ASSUME Waiting, Grows,
         \A copy \in unsent' :
           copy \in unsent \/ (Begins(copy.log, Found')
                               /\ \E n \in DOMAIN copy.log : copy.log[n] = copy.type)
  PROVE  Waiting'
<1> SUFFICES ASSUME NEW copy \in unsent'
             PROVE  Begins(copy.log, Found') /\ \E n \in DOMAIN copy.log : copy.log[n] = copy.type
  BY DEF Waiting, Begins
<1>1. CASE copy \in unsent
  BY <1>1, BeginsOn DEF Waiting, Grows
<1> QED  BY <1>1

(* The rest of the types. *)
ThreadTypes ==
  /\ unsent \subseteq [log : Log, type : EventType]
  /\ deliverer \in Thread /\ archiver \in Thread
  /\ receiver \in [EventNumber -> {"unknown", "pending", "done", "failed"}]
  /\ acknowledged \in Log
  /\ retries \in 0..Retries /\ faults \in 0..Faults

LEMMA Typed ==
  ASSUME Shape', ThreadTypes'
  PROVE  TypeOK'
BY DEF Shape, ThreadTypes, TypeOK, Dir, RealJob, archived

LEMMA FaultCounted ==
  ASSUME faults \in 0..Faults, Fault
  PROVE  faults' \in 0..Faults
BY OutboxAssumption DEF Fault

LEMMA IdleTyped ==
  /\ idle \in Thread /\ idle.at = "idle"
  /\ \A place \in {"idle", "reconcile", "archive", "post"} : [idle EXCEPT !.at = place] \in Thread
<1>1. <<>> \in Log
  BY OutboxAssumption, EmptySeq DEF Log
<1> QED  BY <1>1 DEF idle, Thread

(* The jobs of a content and its journal. *)
LEMMA JobsOfDir ==
  ASSUME Shape
  PROVE  /\ jobs \in RealJob /\ jobs \in Job /\ jobs.log \in Log /\ Begins(jobs.log, Found)
         /\ box \in Box /\ archived \in Job /\ archived.log \in Log
         /\ jobs.status # "archived" => Found = jobs.log
<1>1. jobs \in RealJob /\ box \in Box /\ archived \in Job
  BY DEF Shape, Dir, jobs, box, archived
<1>2. jobs \in Job /\ jobs.log \in Log /\ archived.log \in Log
  BY <1>1 DEF RealJob, Job
<1>3. Begins(jobs.log, Found)
  <2>1. CASE jobs.status = "archived"
    BY <1>1, <2>1, EmptySeq DEF RealJob, NoJob, Begins
  <2>2. CASE jobs.status # "archived"
    BY <2>2 DEF Found, Begins
  <2> QED  BY <2>1, <2>2
<1> QED  BY <1>1, <1>2, <1>3 DEF Found

(* Enqueueing an event of the journal. *)
LEMMA EnqueueKeeps ==
  ASSUME DirInv, ThreadTypes, NEW n, NEW type,
         n \in DOMAIN Found, type = Found[n],
         Enqueues(n, type) \/ EnqueueFails(n, type),
         UNCHANGED <<archive, acknowledged, receiver>>
  PROVE  DirInv' /\ UNCHANGED <<Found, jobs>> /\ Grows /\ faults' \in 0..Faults
<1> DEFINE new == [box EXCEPT ![n] = Stored(type, "due")]
<1>1. Shape /\ box \in Box /\ n \in EventNumber /\ type \in EventType
  BY JobLogs, LogTyped, JobsOfDir DEF DirInv
<1>2. DoneStays /\ Begins(Found, Found)
  BY DEF DoneStays, Begins
<1>3. CASE UNCHANGED <<state, faults>>
  BY <1>2, <1>3, NothingKeeps DEF Grows, Known, ThreadTypes
<1>4. CASE ~UNCHANGED <<state, faults>>
  <2>1. ~Known(n) /\ (Saves("box", new) \/ SaveFails("box", new)) /\ (UNCHANGED faults \/ Fault)
    BY <1>4 DEF Enqueues, EnqueueFails, Saves, SaveFails
  <2>2. Stored(type, "due") \in [type : EventType, state : {"due", "delivered", "failed"}]
        /\ Stored(type, "due").type = type /\ Stored(type, "due").state = "due"
        /\ Stored(type, "due") # Absent
    BY <1>1 DEF Stored, Absent
  <2>3. Tells(box, Found) /\ \A i \in EventNumber : box[i].state = "delivered" => receiver[i] = "done"
    BY DEF DirInv, Snapshots, Delivered, Contents, Found, LogOf, Archived, jobs, box
  <2>4. /\ new \in Box /\ new[n] = Stored(type, "due")
        /\ \A i \in EventNumber : i # n => new[i] = box[i]
    BY <1>1, <2>2 DEF Box
  <2> HIDE DEF new
  <2>5. Good(new)
    BY <2>2, <2>3, <2>4 DEF Good, Tells, Known
  <2>6. DirInv' /\ UNCHANGED Found /\ UNCHANGED jobs /\ \A i \in EventNumber : Known(i) => Known(i)'
    BY <1>2, <2>1, <2>5, BoxKeeps
  <2> QED  BY <1>2, <2>1, <2>6, FaultCounted DEF Grows, ThreadTypes, Begins
<1> QED  BY <1>3, <1>4

(* An event in the outbox whose state changes. *)
LEMMA MarkedGood ==
  ASSUME DirInv, NEW n \in EventNumber, Known(n), NEW s \in {"due", "delivered", "failed"},
         s = "delivered" => receiver[n] = "done"
  PROVE  Good([box EXCEPT ![n].state = s]) /\ Good(box)
<1> DEFINE new == [box EXCEPT ![n].state = s]
<1>1. Shape /\ box \in Box
  BY JobsOfDir DEF DirInv
<1>2. box[n] \in [type : EventType, state : {"due", "delivered", "failed"}]
  BY <1>1 DEF Box, Known
<1>3. /\ [box[n] EXCEPT !.state = s] \in [type : EventType, state : {"due", "delivered", "failed"}]
      /\ [box[n] EXCEPT !.state = s].type = box[n].type
      /\ [box[n] EXCEPT !.state = s].state = s
      /\ [box[n] EXCEPT !.state = s] # Absent
  BY <1>2 DEF Absent
<1>4. /\ new \in Box /\ new[n] = [box[n] EXCEPT !.state = s]
      /\ \A i \in EventNumber : i # n => new[i] = box[i]
  BY <1>1, <1>3 DEF Box
<1>5. Tells(box, Found) /\ \A i \in EventNumber : box[i].state = "delivered" => receiver[i] = "done"
  BY DEF DirInv, Snapshots, Delivered, Contents, Found, LogOf, Archived, jobs, box
<1> HIDE DEF new
<1>6. Good(new)
  BY <1>3, <1>4, <1>5 DEF Good, Tells, Known
<1>7. Good(box)
  BY <1>1, <1>5 DEF Good, Known
<1> QED  BY <1>6, <1>7 DEF new

LEMMA SavesCounted ==
  ASSUME faults \in 0..Faults, NEW f, NEW c, Saves(f, c) \/ SaveFails(f, c)
  PROVE  faults' \in 0..Faults
BY FaultCounted DEF Saves, SaveFails

-----------------------------------------------------------------------------
(* One step. *)

LEMMA GrowsStill ==
  ASSUME UNCHANGED <<state, archive>>, DoneStays
  PROVE  Grows /\ UNCHANGED <<Found, jobs, box>> /\ (Ended => Ended')
BY DEF Grows, Begins, Found, Known, jobs, box, archived, Ended

LEMMA TransitionStep ==
  ASSUME OInv, NEW type \in EventType, Transition(type)
  PROVE  OInv'
<1> DEFINE new == Journaled(type)
<1>1. /\ DirInv /\ ThreadTypes /\ Delivering /\ Archives /\ Waiting
      /\ jobs.status = "active" /\ Len(jobs.log) < MaxEvents
      /\ UNCHANGED <<archive, deliverer, archiver, receiver, retries>>
  BY DEF OInv, TypeOK, ThreadTypes, Transition
<1>2. \/ /\ Saves("jobs", new) /\ acknowledged' = new.log
         /\ unsent' \subseteq unsent \cup {Copy(new.log, type)}
      \/ SaveFails("jobs", new) /\ UNCHANGED <<acknowledged, unsent>>
  BY DEF Transition
<1>3. /\ DirInv' /\ UNCHANGED box
      /\ \/ UNCHANGED Found /\ UNCHANGED jobs
         \/ Found' = new.log
      /\ new.log \in Log /\ Begins(Found, new.log)
      /\ \E n \in DOMAIN new.log : new.log[n] = type
      /\ Saves("jobs", new) => Found' = new.log
  <2>1. \/ Saves("jobs", new) /\ acknowledged' = new.log
        \/ SaveFails("jobs", new) /\ UNCHANGED acknowledged
    BY <1>2
  <2> QED  BY <1>1, <2>1, TransitionKeeps
<1> HIDE DEF new
<1>4. Grows
  BY <1>1, <1>3 DEF Grows, DoneStays, Begins, Known
<1>5. Archives'
  BY <1>1 DEF Archives, Ended, Terminal
<1>6. Delivering'
  BY <1>1, <1>4, DeliveringOn DEF ThreadTypes
<1>7. Copy(new.log, type) = [log |-> new.log, type |-> type]
  BY DEF Copy
<1>8. Waiting'
  <2>1. ASSUME NEW copy \in unsent', copy \notin unsent
        PROVE  Begins(copy.log, Found') /\ \E n \in DOMAIN copy.log : copy.log[n] = copy.type
    <3>1. copy.log = new.log /\ copy.type = type /\ Found' = new.log
      BY <1>2, <1>3, <1>7, <2>1
    <3> QED  BY <1>3, <3>1 DEF Begins
  <2> QED  BY <1>1, <1>4, <2>1, WaitingOn
<1>9. ThreadTypes'
  <2>1. faults' \in 0..Faults
    BY <1>1, <1>2, SavesCounted DEF ThreadTypes
  <2>2. unsent' \subseteq [log : Log, type : EventType]
    BY <1>1, <1>2, <1>3, <1>7 DEF ThreadTypes
  <2> QED  BY <1>1, <1>2, <1>3, <2>1, <2>2 DEF ThreadTypes
<1> QED  BY <1>3, <1>5, <1>6, <1>8, <1>9, Typed DEF OInv, DirInv

LEMMA FailAgainStep ==
  ASSUME OInv, FailAgain
  PROVE  OInv'
<1>1. /\ DirInv /\ ThreadTypes /\ Delivering /\ Archives /\ Waiting /\ jobs.status = "failed"
      /\ unsent' = unsent \cup {Copy(jobs.log, "failed")}
      /\ UNCHANGED <<state, archive, deliverer, archiver, receiver, acknowledged, retries, faults>>
  BY DEF OInv, TypeOK, ThreadTypes, FailAgain
<1>2. DoneStays
  BY <1>1 DEF DoneStays
<1>3. DirInv' /\ Grows /\ UNCHANGED <<Found, jobs>> /\ (Ended => Ended')
  BY <1>1, <1>2, NothingKeeps, GrowsStill
<1>4. /\ jobs.log \in Log /\ Begins(jobs.log, Found)
      /\ \E n \in DOMAIN jobs.log : jobs.log[n] = "failed"
  BY <1>1, JobsOfDir DEF DirInv, RealJob
<1>5. Copy(jobs.log, "failed") = [log |-> jobs.log, type |-> "failed"] /\ "failed" \in EventType
  BY DEF Copy, EventType, EndOf
<1>6. Waiting'
  BY <1>1, <1>3, <1>4, <1>5, WaitingOn DEF Begins
<1>7. Delivering' /\ Archives'
  BY <1>1, <1>3, DeliveringOn, ArchivesOn DEF ThreadTypes
<1>8. ThreadTypes'
  BY <1>1, <1>4, <1>5 DEF ThreadTypes
<1> QED  BY <1>3, <1>6, <1>7, <1>8, Typed DEF OInv, DirInv

LEMMA NotifyStep ==
  ASSUME OInv, Notify
  PROVE  OInv'
<1>1. /\ DirInv /\ ThreadTypes /\ Delivering /\ Archives /\ Waiting
      /\ UNCHANGED <<archive, deliverer, archiver, receiver, acknowledged, retries>>
  BY DEF OInv, TypeOK, ThreadTypes, Notify
<1>2. PICK copy \in unsent :
        /\ Enqueues(EventFor(copy), copy.type) \/ EnqueueFails(EventFor(copy), copy.type)
        /\ unsent' = unsent \ {copy}
  BY DEF Notify
<1>3. EventFor(copy) \in DOMAIN Found /\ Found[EventFor(copy)] = copy.type
  <2> DEFINE meant == {n \in DOMAIN copy.log : copy.log[n] = copy.type}
  <2>1. meant \subseteq 1..MaxEvents /\ MaxEvents \in Nat /\ meant # {}
    BY <1>1, LogTyped, OutboxAssumption DEF ThreadTypes, Waiting, EventNumber
  <2>2. EventFor(copy) \in meant
    BY <2>1, MaxIn DEF EventFor
  <2> QED  BY <1>1, <2>2 DEF Waiting, Begins
<1>4. DirInv' /\ UNCHANGED <<Found, jobs>> /\ Grows /\ faults' \in 0..Faults
  BY <1>1, <1>2, <1>3, EnqueueKeeps
<1>5. Delivering' /\ Archives' /\ Waiting'
  BY <1>1, <1>2, <1>4, DeliveringOn, ArchivesOn, WaitingOn DEF ThreadTypes, Ended
<1>6. ThreadTypes'
  BY <1>1, <1>2, <1>4 DEF ThreadTypes
<1> QED  BY <1>4, <1>5, <1>6, Typed DEF OInv, DirInv

LEMMA DelivererStep ==
  ASSUME OInv, BeginReconcile \/ BeginFlush \/ Post \/ Ask
  PROVE  OInv'
<1>1. /\ DirInv /\ ThreadTypes /\ Delivering /\ Archives /\ Waiting
      /\ UNCHANGED <<state, archive, unsent, archiver, acknowledged, retries>>
  BY DEF OInv, TypeOK, ThreadTypes, BeginReconcile, BeginFlush, Post, Ask
<1>2. UNCHANGED receiver \/ (Posted(Current) /\ Current \in EventNumber /\ deliverer.at = "post")
  BY <1>1, CurrentIn
     DEF BeginReconcile, BeginFlush, Post, Ask, Delivering, Flushing, ThreadTypes
<1>3. DoneStays /\ receiver' \in [EventNumber -> {"unknown", "pending", "done", "failed"}]
  BY <1>1, <1>2 DEF DoneStays, Posted, ThreadTypes
<1>4. DirInv' /\ Grows /\ UNCHANGED <<Found, jobs, box>> /\ (Ended => Ended')
  BY <1>1, <1>3, NothingKeeps, GrowsStill
<1>5. Archives' /\ Waiting'
  BY <1>1, <1>4, ArchivesOn, WaitingOn
<1>6. faults' \in 0..Faults
  BY <1>1, FaultCounted DEF BeginReconcile, BeginFlush, Post, Ask, ThreadTypes
<1>7. deliverer' \in Thread /\ Delivering'
  <2>1. CASE BeginReconcile
    <3>1. /\ deliverer' = [idle EXCEPT !.at = "reconcile", !.log = jobs.log]
          /\ Begins(jobs.log, Found) /\ jobs.log \in Log
      BY <1>1, <2>1, JobsOfDir DEF BeginReconcile, DirInv
    <3>2. deliverer' \in Thread /\ deliverer'.at = "reconcile" /\ deliverer'.log = jobs.log
      BY <3>1 DEF idle, Thread
    <3> QED  BY <1>4, <3>1, <3>2 DEF Delivering, Begins, Flushing
  <2>2. CASE BeginFlush
    <3>1. PICK due \in SUBSET EventNumber :
            /\ due # {} /\ deliverer' = [idle EXCEPT !.at = "post", !.todo = due]
            /\ \A n \in due : box[n].state = "due"
      BY <2>2 DEF BeginFlush
    <3>2. deliverer' \in Thread /\ deliverer'.at = "post" /\ deliverer'.todo = due
      BY <3>1, IdleTyped DEF idle, Thread
    <3>3. \A n \in due : Known(n)'
      BY <1>4, <3>1 DEF Known, Absent
    <3> QED  BY <3>1, <3>2, <3>3 DEF Delivering, Flushing
  <2>3. CASE Post \/ Ask
    <3>1. PICK place \in {"ask", "again", "delivered", "failed"} :
            /\ deliverer' = [deliverer EXCEPT !.at = place]
            /\ place = "delivered" => receiver[Current] = "done" /\ UNCHANGED receiver
      BY <2>3 DEF Post, Ask, Goto
    <3>2. deliverer.at \in Flushing
      BY <2>3 DEF Post, Ask, Flushing
    <3>3. deliverer' \in Thread /\ deliverer'.at = place /\ deliverer'.todo = deliverer.todo
      BY <1>1, <3>1 DEF Thread, ThreadTypes
    <3>4. Current' = Current
      BY <3>3 DEF Current
    <3>5. \A n \in deliverer.todo : Known(n)'
      BY <1>1, <1>4, <3>2 DEF Known, Delivering
    <3> QED  BY <1>1, <3>1, <3>2, <3>3, <3>4, <3>5 DEF Delivering, Flushing
  <2> QED  BY <2>1, <2>2, <2>3
<1>8. ThreadTypes'
  BY <1>1, <1>3, <1>6, <1>7 DEF ThreadTypes
<1> QED  BY <1>4, <1>5, <1>7, <1>8, Typed DEF OInv, DirInv

LEMMA ReconcileStep ==
  ASSUME OInv, Reconcile
  PROVE  OInv'
<1>1. /\ DirInv /\ ThreadTypes /\ Delivering /\ Archives /\ Waiting
      /\ UNCHANGED <<archive, unsent, archiver, receiver, acknowledged, retries>>
      /\ Begins(deliverer.log, Found)
  BY DEF OInv, TypeOK, ThreadTypes, Reconcile, Delivering
<1>2. /\ DirInv' /\ UNCHANGED <<Found, jobs>> /\ Grows /\ faults' \in 0..Faults
      /\ deliverer' = idle \/ UNCHANGED deliverer
  <2>1. CASE UNCHANGED <<state, faults>> /\ deliverer' = idle
    <3>1. DoneStays
      BY <1>1 DEF DoneStays
    <3> QED  BY <1>1, <2>1, <3>1, NothingKeeps, GrowsStill DEF ThreadTypes
  <2>2. CASE ~(UNCHANGED <<state, faults>> /\ deliverer' = idle)
    <3>1. PICK n \in First(Missing(deliverer.log)) :
            /\ Enqueues(n, deliverer.log[n]) \/ EnqueueFails(n, deliverer.log[n])
            /\ deliverer' = idle \/ UNCHANGED deliverer
      BY <2>2 DEF Reconcile
    <3>2. n \in DOMAIN Found /\ deliverer.log[n] = Found[n]
      BY <1>1, <3>1 DEF First, Missing, Begins
    <3> QED  BY <1>1, <3>1, <3>2, EnqueueKeeps
  <2> QED  BY <2>1, <2>2
<1>3. Archives' /\ Waiting'
  BY <1>1, <1>2, ArchivesOn, WaitingOn DEF Ended
<1>4. deliverer' \in Thread /\ Delivering'
  <2>1. CASE deliverer' = idle
    BY <2>1, IdleTyped DEF Delivering, idle, Flushing
  <2>2. CASE UNCHANGED deliverer
    BY <1>1, <1>2, <2>2, DeliveringOn DEF ThreadTypes
  <2> QED  BY <1>2, <2>1, <2>2
<1>5. ThreadTypes'
  BY <1>1, <1>2, <1>4 DEF ThreadTypes
<1> QED  BY <1>2, <1>3, <1>4, <1>5, Typed DEF OInv, DirInv

LEMMA RecordStep ==
  ASSUME OInv, Record
  PROVE  OInv'
<1>1. /\ DirInv /\ ThreadTypes /\ Delivering /\ Archives /\ Waiting
      /\ UNCHANGED <<archive, unsent, archiver, receiver, acknowledged, retries>>
      /\ deliverer.at \in {"delivered", "failed", "again"}
      /\ Saves("box", Recorded) \/ SaveFails("box", Recorded)
  BY DEF OInv, TypeOK, ThreadTypes, Record
<1>2. /\ Current \in deliverer.todo /\ Current \in EventNumber /\ Known(Current)
      /\ \A n \in deliverer.todo : Known(n)
      /\ deliverer.at = "delivered" => receiver[Current] = "done"
  BY <1>1, CurrentIn DEF Delivering, Flushing, ThreadTypes
<1>3. Good(Recorded)
  <2>1. CASE deliverer.at = "again"
    <3>1. Recorded = box
      BY <2>1 DEF Recorded
    <3> QED  BY <1>1, <1>2, <3>1, MarkedGood
  <2>2. CASE deliverer.at # "again"
    <3>1. Recorded = [box EXCEPT ![Current].state = deliverer.at]
      BY <2>2 DEF Recorded
    <3>2. Good([box EXCEPT ![Current].state = deliverer.at])
      BY <1>1, <1>2, <2>2, MarkedGood
    <3> QED  BY <3>1, <3>2
  <2> QED  BY <2>1, <2>2
<1>4. DoneStays /\ Begins(Found, Found)
  BY <1>1 DEF DoneStays, Begins
<1>5. DirInv' /\ UNCHANGED Found /\ UNCHANGED jobs /\ \A n \in EventNumber : Known(n) => Known(n)'
  BY <1>1, <1>3, <1>4, BoxKeeps
<1>6. Grows /\ faults' \in 0..Faults
  BY <1>1, <1>4, <1>5, SavesCounted DEF Grows, ThreadTypes, Begins
<1>7. Archives' /\ Waiting'
  BY <1>1, <1>5, <1>6, ArchivesOn, WaitingOn DEF Ended
<1>8. deliverer' \in Thread /\ Delivering'
  <2> DEFINE rest == deliverer.todo \ {Current}
  <2>1. CASE rest = {}
    <3>1. deliverer' = idle
      BY <2>1 DEF Record
    <3> QED  BY <3>1, IdleTyped DEF Delivering, idle, Flushing
  <2>2. CASE rest # {}
    <3>1. deliverer' = [idle EXCEPT !.at = "post", !.todo = rest]
      BY <2>2 DEF Record
    <3>2. rest \subseteq EventNumber /\ \A n \in rest : Known(n)'
      BY <1>1, <1>2, <1>5 DEF ThreadTypes, Thread
    <3>3. deliverer' \in Thread /\ deliverer'.at = "post" /\ deliverer'.todo = rest
      BY <3>1, <3>2, IdleTyped DEF idle, Thread
    <3> HIDE DEF rest
    <3> QED  BY <2>2, <3>2, <3>3 DEF Delivering, Flushing
  <2> QED  BY <2>1, <2>2
<1>9. ThreadTypes'
  BY <1>1, <1>6, <1>8 DEF ThreadTypes
<1> QED  BY <1>5, <1>7, <1>8, <1>9, Typed DEF OInv, DirInv

LEMMA RetryStep ==
  ASSUME OInv, NEW n \in EventNumber, Retry(n)
  PROVE  OInv'
<1>1. /\ DirInv /\ ThreadTypes /\ Delivering /\ Archives /\ Waiting /\ Known(n)
      /\ UNCHANGED <<archive, unsent, deliverer, archiver, acknowledged>>
      /\ \/ Saves("box", [box EXCEPT ![n].state = "due"])
         \/ SaveFails("box", [box EXCEPT ![n].state = "due"])
      /\ \/ UNCHANGED receiver
         \/ receiver[n] = "failed" /\ receiver' = [receiver EXCEPT ![n] = "pending"]
      /\ UNCHANGED retries \/ (retries < Retries /\ retries' = retries + 1)
  BY DEF OInv, TypeOK, ThreadTypes, Retry
<1>2. Good([box EXCEPT ![n].state = "due"])
  BY <1>1, MarkedGood
<1>3. DoneStays /\ Begins(Found, Found)
      /\ receiver' \in [EventNumber -> {"unknown", "pending", "done", "failed"}]
  BY <1>1 DEF DoneStays, Begins, ThreadTypes
<1>4. DirInv' /\ UNCHANGED Found /\ UNCHANGED jobs /\ \A i \in EventNumber : Known(i) => Known(i)'
  BY <1>1, <1>2, <1>3, BoxKeeps
<1>5. Grows /\ faults' \in 0..Faults
  BY <1>1, <1>3, <1>4, SavesCounted DEF Grows, ThreadTypes, Begins
<1>6. Delivering' /\ Archives' /\ Waiting'
  BY <1>1, <1>4, <1>5, DeliveringOn, ArchivesOn, WaitingOn DEF Ended, ThreadTypes
<1>7. retries' \in 0..Retries
  BY <1>1, OutboxAssumption DEF ThreadTypes
<1>8. ThreadTypes'
  BY <1>1, <1>3, <1>5, <1>7 DEF ThreadTypes
<1> QED  BY <1>4, <1>6, <1>8, Typed DEF OInv, DirInv

LEMMA ProcessStep ==
  ASSUME OInv, NEW n \in EventNumber, Process(n)
  PROVE  OInv'
<1>1. /\ DirInv /\ ThreadTypes /\ Delivering /\ Archives /\ Waiting
      /\ UNCHANGED <<state, archive, unsent, deliverer, archiver, acknowledged, retries, faults>>
      /\ receiver[n] = "pending"
      /\ \E s \in {"done", "failed"} : receiver' = [receiver EXCEPT ![n] = s]
  BY DEF OInv, TypeOK, ThreadTypes, Process
<1>2. DoneStays /\ receiver' \in [EventNumber -> {"unknown", "pending", "done", "failed"}]
  BY <1>1 DEF DoneStays, ThreadTypes
<1>3. DirInv' /\ Grows /\ UNCHANGED Found /\ (Ended => Ended')
  BY <1>1, <1>2, NothingKeeps, GrowsStill
<1>4. Delivering' /\ Archives' /\ Waiting'
  BY <1>1, <1>3, DeliveringOn, ArchivesOn, WaitingOn DEF ThreadTypes
<1>5. ThreadTypes'
  BY <1>1, <1>2 DEF ThreadTypes
<1> QED  BY <1>3, <1>4, <1>5, Typed DEF OInv, DirInv

LEMMA ArchiverStep ==
  ASSUME OInv, BeginArchive \/ ReconcileArchived \/ Archive
  PROVE  OInv'
<1>1. /\ DirInv /\ ThreadTypes /\ Delivering /\ Archives /\ Waiting
      /\ UNCHANGED <<unsent, deliverer, receiver, acknowledged, retries>>
  BY DEF OInv, TypeOK, ThreadTypes, BeginArchive, ReconcileArchived, Archive
<1>2. DoneStays
  BY <1>1 DEF DoneStays
<1>3. /\ DirInv' /\ Grows /\ faults' \in 0..Faults /\ archiver' \in Thread /\ Archives'
  <2>1. CASE BeginArchive
    <3>1. DirInv' /\ Grows /\ UNCHANGED <<Found, jobs>>
      BY <1>1, <1>2, <2>1, NothingKeeps, GrowsStill DEF BeginArchive
    <3>2. PICK job : /\ job = IF jobs.status = "archived" THEN archived ELSE jobs
                     /\ job.status \in Terminal
                     /\ archiver' = [idle EXCEPT !.at = "reconcile", !.log = job.log]
      BY <2>1 DEF BeginArchive
    <3>3. job.log = Found /\ job.log \in Log /\ Ended
      BY <1>1, <3>2, JobsOfDir DEF DirInv, Found, Ended
    <3>4. archiver' \in Thread /\ archiver'.at = "reconcile" /\ archiver'.log = Found
      BY <3>2, <3>3 DEF idle, Thread
    <3>5. Archives'
      BY <3>1, <3>3, <3>4 DEF Archives, Ended
    <3> QED  BY <1>1, <2>1, <3>1, <3>4, <3>5 DEF BeginArchive, ThreadTypes
  <2>2. CASE ReconcileArchived
    <3>1. UNCHANGED archive /\ Ended /\ archiver.log = Found
      BY <1>1, <2>2 DEF ReconcileArchived, Archives
    <3>2. CASE /\ Missing(archiver.log) = {} /\ archiver' = [idle EXCEPT !.at = "archive"]
               /\ UNCHANGED <<state, faults>>
      <4>1. DirInv' /\ Grows /\ UNCHANGED <<Found, jobs, box>>
        BY <1>1, <1>2, <3>1, <3>2, NothingKeeps, GrowsStill
      <4>2. archiver' \in Thread /\ archiver'.at = "archive"
        BY <3>2, IdleTyped DEF idle
      <4>3. Covers(box, Found)
        BY <3>1, <3>2 DEF Missing, Covers, Known
      <4>4. Archives'
        BY <3>1, <4>1, <4>2, <4>3 DEF Archives, Ended, Covers
      <4> QED  BY <1>1, <3>2, <4>1, <4>2, <4>4 DEF ThreadTypes
    <3>3. CASE \E n \in First(Missing(archiver.log)) :
                 \/ Enqueues(n, archiver.log[n]) /\ UNCHANGED archiver
                 \/ EnqueueFails(n, archiver.log[n]) /\ archiver' = idle
      <4>1. PICK n \in First(Missing(archiver.log)) :
              /\ Enqueues(n, archiver.log[n]) \/ EnqueueFails(n, archiver.log[n])
              /\ UNCHANGED archiver \/ archiver' = idle
        BY <3>3
      <4>2. n \in DOMAIN Found /\ archiver.log[n] = Found[n]
        BY <3>1, <4>1 DEF First, Missing
      <4>3. DirInv' /\ UNCHANGED <<Found, jobs>> /\ Grows /\ faults' \in 0..Faults
        BY <1>1, <3>1, <4>1, <4>2, EnqueueKeeps
      <4>4. Archives'
        <5>1. CASE UNCHANGED archiver
          BY <1>1, <4>3, <5>1, ArchivesOn DEF Ended
        <5>2. CASE archiver' = idle
          BY <5>2 DEF Archives, idle
        <5> QED  BY <4>1, <5>1, <5>2
      <4> QED  BY <1>1, <4>1, <4>3, <4>4, IdleTyped DEF ThreadTypes
    <3> QED  BY <2>2, <3>2, <3>3 DEF ReconcileArchived
  <2>3. CASE Archive
    <3>1. Ended /\ Covers(box, Found) /\ archiver' = idle
      BY <1>1, <2>3 DEF Archive, Archives
    <3>2. DirInv' /\ UNCHANGED <<Found, box>>
      BY <1>1, <2>3, <3>1, ArchiveKeeps
    <3>3. Grows
      BY <1>2, <3>2 DEF Grows, Begins, Known
    <3>4. Archives' /\ archiver' \in Thread
      BY <3>1, IdleTyped DEF Archives, idle
    <3>5. faults' \in 0..Faults
      BY <1>1, <2>3, SavesCounted, FaultCounted DEF Archive, ThreadTypes
    <3> QED  BY <3>2, <3>3, <3>4, <3>5
  <2> QED  BY <2>1, <2>2, <2>3
<1>4. Delivering' /\ Waiting'
  BY <1>1, <1>3, DeliveringOn, WaitingOn DEF ThreadTypes
<1>5. ThreadTypes'
  BY <1>1, <1>3 DEF ThreadTypes
<1> QED  BY <1>3, <1>4, <1>5, Typed DEF OInv, DirInv

LEMMA RestartStep ==
  ASSUME OInv, Restart
  PROVE  OInv'
<1>1. /\ DirInv /\ ThreadTypes /\ Fault
      /\ unsent' = {} /\ archiver' = idle
      /\ deliverer' = [idle EXCEPT !.at = "reconcile", !.log = jobs'.log]
      /\ UNCHANGED <<receiver, acknowledged, retries>>
  BY DEF OInv, TypeOK, ThreadTypes, Restart, jobs
<1>2. DirInv'
  BY <1>1, RestartKeeps DEF Restart
<1>3. jobs' \in RealJob
  BY <1>2 DEF DirInv, Shape, Dir, jobs
<1>4. jobs'.log \in Log /\ Begins(jobs'.log, Found')
  <2>1. jobs'.log \in Log
    BY <1>3 DEF RealJob, Job
  <2>2. CASE jobs'.status = "archived"
    BY <1>3, <2>1, <2>2, EmptySeq DEF RealJob, NoJob, Begins
  <2>3. CASE jobs'.status # "archived"
    BY <2>1, <2>3 DEF Found, Begins
  <2> QED  BY <2>1, <2>2, <2>3
<1>5. deliverer' \in Thread /\ deliverer'.at = "reconcile" /\ deliverer'.log = jobs'.log
  BY <1>1, <1>4 DEF idle, Thread
<1>6. Delivering' /\ Archives' /\ Waiting'
  BY <1>1, <1>4, <1>5 DEF Delivering, Archives, Waiting, Flushing, idle, Begins
<1>7. ThreadTypes'
  BY <1>1, <1>5, FaultCounted, IdleTyped DEF ThreadTypes
<1> QED  BY <1>2, <1>6, <1>7, Typed DEF OInv, DirInv

-----------------------------------------------------------------------------
(* The theorems. *)

LEMMA InitInv == Init => OInv
<1> SUFFICES ASSUME Init PROVE OInv
  OBVIOUS
<1>1. <<>> \in Log /\ DOMAIN <<>> = {}
  BY OutboxAssumption, EmptySeq DEF Log
<1>2. NewJob \in RealJob /\ NoJob \in Job /\ NewJob \in Job
  BY <1>1 DEF RealJob, NewJob, NoJob, Job
<1>3. [n \in EventNumber |-> Absent] \in Box
  BY DEF Box
<1>4. Initial \in Dir /\ Initial.jobs = NewJob /\ Initial.box = [n \in EventNumber |-> Absent]
  BY <1>2, <1>3 DEF Initial, Dir
<1>5. state = [memory |-> Initial, now |-> Initial, may |-> {Initial}]
      /\ archive = [memory |-> [job |-> NoJob], now |-> [job |-> NoJob], may |-> {[job |-> NoJob]}]
  BY DEF Init, Files!Holding
<1>6. /\ Contents = {Initial} /\ jobs = NewJob /\ box = [n \in EventNumber |-> Absent]
      /\ archived = NoJob
  BY <1>4, <1>5 DEF Contents, jobs, box, archived
<1>7. ~Archived(Initial) /\ LogOf(Initial) = <<>> /\ Found = <<>> /\ acknowledged = <<>>
  BY <1>4, <1>6 DEF Archived, LogOf, Found, NewJob, Init
<1>8. Shape
  BY <1>2, <1>4, <1>5 DEF Shape
<1>9. Snapshots /\ Archiving /\ Ahead /\ Delivered
  BY <1>1, <1>4, <1>5, <1>6, <1>7
     DEF Snapshots, Archiving, Ahead, Delivered, Tells, Begins, Absent, Known
<1>10. deliverer \in Thread /\ deliverer.at = "reconcile" /\ deliverer.log = <<>>
       /\ archiver \in Thread /\ archiver.at = "idle"
  BY <1>1, IdleTyped DEF Init, idle, Thread
<1>11. Delivering /\ Archives /\ Waiting
  BY <1>1, <1>10 DEF Delivering, Archives, Waiting, Flushing, Begins, Init
<1>12. TypeOK
  BY <1>1, <1>2, <1>4, <1>5, <1>6, <1>10, OutboxAssumption DEF TypeOK, Init, Dir, RealJob
<1> QED  BY <1>8, <1>9, <1>11, <1>12 DEF OInv, DirInv

LEMMA NextInv == OInv /\ [Next]_vars => OInv'
<1> SUFFICES ASSUME OInv, [Next]_vars PROVE OInv'
  OBVIOUS
<1>1. CASE UNCHANGED vars
  <2>1. /\ DirInv /\ Delivering /\ Archives /\ Waiting /\ ThreadTypes
        /\ UNCHANGED <<state, archive, acknowledged, receiver, deliverer, archiver, unsent>>
        /\ UNCHANGED <<retries, faults>>
    BY <1>1 DEF OInv, TypeOK, ThreadTypes, vars
  <2>2. DoneStays
    BY <2>1 DEF DoneStays
  <2>3. DirInv' /\ Grows /\ UNCHANGED Found /\ (Ended => Ended')
    BY <2>1, <2>2, NothingKeeps, GrowsStill
  <2>4. Delivering' /\ Archives' /\ Waiting'
    BY <2>1, <2>3, DeliveringOn, ArchivesOn, WaitingOn DEF ThreadTypes
  <2>5. ThreadTypes'
    BY <2>1 DEF ThreadTypes
  <2> QED  BY <2>3, <2>4, <2>5, Typed DEF OInv, DirInv
<1>2. CASE \E type \in EventType : Transition(type)
  BY <1>2, TransitionStep
<1>3. CASE FailAgain
  BY <1>3, FailAgainStep
<1>4. CASE Notify
  BY <1>4, NotifyStep
<1>5. CASE BeginReconcile \/ BeginFlush \/ Post \/ Ask
  BY <1>5, DelivererStep
<1>6. CASE Reconcile
  BY <1>6, ReconcileStep
<1>7. CASE Record
  BY <1>7, RecordStep
<1>8. CASE BeginArchive \/ ReconcileArchived \/ Archive
  BY <1>8, ArchiverStep
<1>9. CASE Restart
  BY <1>9, RestartStep
<1>10. CASE \E n \in EventNumber : Retry(n) \/ Process(n)
  BY <1>10, RetryStep, ProcessStep
<1> QED
  BY <1>1, <1>2, <1>3, <1>4, <1>5, <1>6, <1>7, <1>8, <1>9, <1>10 DEF Next

LEMMA OutboxInvariance == Spec => []OInv
BY InitInv, NextInv, PTL DEF Spec

LEMMA MemoryTells ==
  ASSUME OInv
  PROVE  /\ Tells(box, Found) /\ Begins(acknowledged, Found)
         /\ \A n \in EventNumber : box[n].state = "delivered" => receiver[n] = "done"
BY DEF OInv, DirInv, Snapshots, Delivered, Contents, Found, LogOf, Archived, jobs, box

(* Every variable has its type: outbox.go Store, Event, Deliverer.          *)
THEOREM OutboxTyped == Spec => []TypeOK
<1>1. OInv => TypeOK
  BY DEF OInv
<1> QED  BY <1>1, OutboxInvariance, PTL

(* An event in the outbox tells of the transition whose name it bears,      *)
(* whatever crash took back a transition that had been made: journal and    *)
(* outbox are files of one directory, and the journal is saved first        *)
(* (outbox.go 280-290, store.go 918-967).                                   *)
THEOREM NamesKept == Spec => []IdentityNamesTransition
<1>1. OInv => IdentityNamesTransition
  BY MemoryTells DEF Tells, IdentityNamesTransition, Known
<1> QED  BY <1>1, OutboxInvariance, PTL

(* An event counts as delivered only when the receiver has processed it,    *)
(* whatever was lost between the two (outbox.go 120-137, 385-440).          *)
THEOREM OnlyDoneIsDelivered == Spec => []DeliveredWasDone
<1>1. OInv => DeliveredWasDone
  BY MemoryTells DEF DeliveredWasDone
<1> QED  BY <1>1, OutboxInvariance, PTL

(* The journal a save was acknowledged for is found again, in jobs.json or  *)
(* in the archive, whatever fails and whenever (store.go 620-644,           *)
(* durable.go 21-49).                                                       *)
THEOREM HistoryFoundAgain == Spec => []HistoryKept
<1>1. OInv => HistoryKept
  <2> SUFFICES ASSUME OInv PROVE HistoryKept
    OBVIOUS
  <2>1. acknowledged \in Log /\ Found \in Log /\ Begins(acknowledged, Found)
    BY MemoryTells, JobLogs DEF OInv, DirInv, TypeOK
  <2>2. acknowledged \in Seq(EventType) /\ Found \in Seq(EventType)
    <3>1. \A log \in Log : log \in Seq(EventType)
      BY OutboxAssumption DEF Log
    <3> QED  BY <2>1, <3>1
  <2> QED  BY <2>1, <2>2, Prefix DEF HistoryKept
<1> QED  BY <1>1, OutboxInvariance, PTL

(* Every transition of an archived job is in the outbox: the deliverer      *)
(* looks at active jobs only (operator.go 83-88, store.go 620-644).         *)
THEOREM ArchivedOnesEnqueued == Spec => []ArchivedWereEnqueued
<1>1. OInv => ArchivedWereEnqueued
  <2> SUFFICES ASSUME OInv, jobs.status = "archived"
               PROVE  \A n \in DOMAIN archived.log : Known(n)
    BY DEF ArchivedWereEnqueued
  <2>1. state.memory \in Contents /\ Archived(state.memory)
    BY DEF Contents, Archived, jobs
  <2>2. Covers(state.memory.box, archived.log)
    BY <2>1 DEF OInv, DirInv, Archiving
  <2> QED  BY <2>2 DEF Covers, Known, box
<1> QED  BY <1>1, OutboxInvariance, PTL

=============================================================================
