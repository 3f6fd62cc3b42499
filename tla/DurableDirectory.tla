-------------------------- MODULE DurableDirectory --------------------------
(* Saving the state files of a directory step by step: saveLocked of the    *)
(* stores and WriteJSON, with SyncDirectory. Each file has a lock of its    *)
(* own, so that saves of two files of the directory interleave. A failed    *)
(* step ends the save; the process may die and the machine lose its power   *)
(* between any two.                                                         *)

CONSTANTS
  File,
  Content       \* of a file

(* A file of which not all was on the disk when the power went. *)
Torn == CHOOSE c : c \notin Content

VARIABLES
  memory,       \* what the process holds, and gives to its callers
  now,          \* what the names of the files refer to
  may,          \* what they may refer to after a loss of power
  step,         \* the last step of the save in progress
  temporary     \* its temporary file: the content, and whether it is synced

vars == <<memory, now, may, step, temporary>>

NoFile == [content |-> Torn, synced |-> FALSE]

Init ==
  /\ now \in [File -> Content] /\ memory = now /\ may = {now}
  /\ step = [f \in File |-> "none"]
  /\ temporary = [f \in File |-> NoFile]

Ends(f) == step' = [step EXCEPT ![f] = "none"] /\ temporary' = [temporary EXCEPT ![f] = NoFile]
Reaches(f, place) == step' = [step EXCEPT ![f] = place]

(* The content is changed in memory, under the lock, and written. *)
Write(f) ==
  /\ step[f] = "none"
  /\ \E c \in Content : temporary' = [temporary EXCEPT ![f] = [content |-> c, synced |-> FALSE]]
  /\ Reaches(f, "written")
  /\ UNCHANGED <<memory, now, may>>

SyncFile(f) ==
  /\ step[f] = "written"
  /\ temporary' = [temporary EXCEPT ![f].synced = TRUE]
  /\ Reaches(f, "synced")
  /\ UNCHANGED <<memory, now, may>>

(* A name given to what is not on the disk may come to be one of less.      *)
Landed(file) == IF file.synced THEN {file.content} ELSE {file.content, Torn}

Rename(f) ==
  /\ step[f] = "synced"
  /\ now' = [now EXCEPT ![f] = temporary[f].content]
  /\ may' = may \cup {[now EXCEPT ![f] = c] : c \in Landed(temporary[f])}
  /\ Reaches(f, "renamed")
  /\ UNCHANGED <<memory, temporary>>

(* Every rename in the directory is on the disk; the lock is released. *)
SyncDirectory(f) ==
  /\ step[f] = "renamed"
  /\ may' = {now}
  /\ memory' = [memory EXCEPT ![f] = temporary[f].content]
  /\ Ends(f)
  /\ UNCHANGED now

(* The error is returned and the change taken back in memory only.          *)
Fail(f) == step[f] # "none" /\ Ends(f) /\ UNCHANGED <<memory, now, may>>

NewProcess(files) ==
  /\ now' = files /\ memory' = files
  /\ step' = [f \in File |-> "none"]
  /\ temporary' = [f \in File |-> NoFile]

ProcessDies == NewProcess(now) /\ UNCHANGED may
PowerFails == \E files \in may : NewProcess(files) /\ may' = {files}

Next ==
  \/ ProcessDies \/ PowerFails
  \/ \E f \in File : Write(f) \/ SyncFile(f) \/ Rename(f) \/ SyncDirectory(f) \/ Fail(f)

Spec == Init /\ [][Next]_vars

------------------------------------------------------------------------------
TypeOK ==
  /\ memory \in [File -> Content] /\ now \in [File -> Content]
  /\ may \subseteq [File -> Content]
  /\ step \in [File -> {"none", "written", "synced", "renamed"}]
  /\ temporary \in [File -> [content : Content \cup {Torn}, synced : BOOLEAN]]

(* No process ever reads a file of which a part is missing: what a loss of  *)
(* power may leave is always what some save had written whole.              *)
NeverTorn == \A files \in may \cup {now} : \A f \in File : files[f] # Torn

(* A save is one step of the state directory.                               *)
Directory == INSTANCE StateDirectory WITH
  directory <- [memory |-> memory, now |-> now, may |-> may]
ImplementsDirectory == Directory!DirectorySpec
=============================================================================
