----------------------- MODULE DurableDirectoryProofs -----------------------
(* Saving as the stores do it keeps every promise of StateDirectory, with   *)
(* any number of files, saved at the same time, and any contents.           *)
EXTENDS DurableDirectory, TLAPS

(* What is renamed has been synced, and stays what it is until the sync of  *)
(* the directory: nobody else saves the file.                               *)
Whole ==
  /\ \A f \in File : step[f] \in {"written", "synced", "renamed"} => temporary[f].content \in Content
  /\ \A f \in File : step[f] \in {"synced", "renamed"} => temporary[f].synced
  /\ \A f \in File : step[f] = "renamed" => now[f] = temporary[f].content

DInv == TypeOK /\ Whole

LEMMA TornIsNoContent == Torn \notin Content
BY NoSetContainsEverything DEF Torn

LEMMA InitDInv == Init => DInv
BY DEF Init, DInv, TypeOK, Whole, NoFile

LEMMA WriteDInv == ASSUME DInv, NEW f \in File, Write(f) PROVE DInv'
BY DEF Write, Reaches, DInv, TypeOK, Whole

LEMMA SyncFileDInv == ASSUME DInv, NEW f \in File, SyncFile(f) PROVE DInv'
BY DEF SyncFile, Reaches, DInv, TypeOK, Whole

LEMMA RenameLands ==
  ASSUME DInv, NEW f \in File, Rename(f)
  PROVE  may' = may \cup {now'}
BY DEF Rename, Landed, DInv, TypeOK, Whole

LEMMA RenameDInv == ASSUME DInv, NEW f \in File, Rename(f) PROVE DInv'
<1>1. may' = may \cup {now'} BY RenameLands
<1>2. now' \in [File -> Content] BY DEF Rename, DInv, TypeOK, Whole
<1>3. TypeOK' BY <1>1, <1>2 DEF Rename, Reaches, DInv, TypeOK
<1>4. Whole' BY DEF Rename, Reaches, DInv, TypeOK, Whole
<1> QED BY <1>3, <1>4 DEF DInv

LEMMA SyncDirectoryDInv == ASSUME DInv, NEW f \in File, SyncDirectory(f) PROVE DInv'
<1>1. TypeOK' BY DEF SyncDirectory, Ends, NoFile, DInv, TypeOK, Whole
<1>2. Whole' BY DEF SyncDirectory, Ends, NoFile, DInv, TypeOK, Whole
<1> QED BY <1>1, <1>2 DEF DInv

LEMMA FailDInv == ASSUME DInv, NEW f \in File, Fail(f) PROVE DInv'
BY DEF Fail, Ends, NoFile, DInv, TypeOK, Whole

LEMMA CrashDInv == ASSUME DInv, ProcessDies \/ PowerFails PROVE DInv'
<1>1. PICK files \in [File -> Content] : NewProcess(files) /\ may' \in {may, {files}}
  BY DEF ProcessDies, PowerFails, DInv, TypeOK
<1>2. TypeOK' BY <1>1 DEF NewProcess, NoFile, DInv, TypeOK
<1>3. Whole' BY <1>1 DEF NewProcess, Whole
<1> QED BY <1>2, <1>3 DEF DInv

LEMMA NextDInv == DInv /\ [Next]_vars => DInv'
<1> SUFFICES ASSUME DInv, [Next]_vars PROVE DInv' OBVIOUS
<1>1. CASE UNCHANGED vars BY <1>1 DEF vars, DInv, TypeOK, Whole
<1>2. CASE ProcessDies \/ PowerFails BY <1>2, CrashDInv
<1>3. ASSUME NEW f \in File, Write(f) \/ SyncFile(f) \/ Rename(f) \/ SyncDirectory(f) \/ Fail(f)
      PROVE DInv'
  BY <1>3, WriteDInv, SyncFileDInv, RenameDInv, SyncDirectoryDInv, FailDInv
<1> QED BY <1>1, <1>2, <1>3 DEF Next

THEOREM AlwaysDInv == Spec => []DInv
<1>1. Init => DInv BY InitDInv
<1>2. DInv /\ [Next]_vars => DInv' BY NextDInv
<1> QED BY <1>1, <1>2, PTL DEF Spec

(* Whatever fails between two steps of a save, nobody reads a file of which *)
(* a part is missing (store.go 876-916, outbox.go 458-497, durable.go).     *)
THEOREM ReadsWholeFiles == Spec => []NeverTorn
<1>1. DInv => NeverTorn BY TornIsNoContent DEF DInv, TypeOK, NeverTorn
<1> QED BY <1>1, AlwaysDInv, PTL

------------------------------------------------------------------------------
(* Every step of a save is one of the state directory's, or none.           *)

dir == [memory |-> memory, now |-> now, may |-> may]

LEMMA RenameIsUnfinishedSave ==
  ASSUME DInv, NEW f \in File, Rename(f)
  PROVE  Directory!DirectoryNext
<1> DEFINE c == temporary[f].content
<1>1. c \in Content BY DEF Rename, DInv, Whole
<1>2. now' = Directory!Written(dir, f, c) BY DEF Rename, Directory!Written, dir
<1>3. may' = may \cup {now'} BY RenameLands
<1>4. memory' = memory BY DEF Rename
<1>5. dir' \in Directory!NotSaved(dir, f, c) BY <1>2, <1>3, <1>4 DEF Directory!NotSaved, dir
<1> QED BY <1>1, <1>5 DEF Directory!DirectoryNext, dir

LEMMA SyncDirectoryIsSave ==
  ASSUME DInv, NEW f \in File, SyncDirectory(f)
  PROVE  Directory!DirectoryNext
<1> DEFINE c == temporary[f].content
<1>1. c \in Content BY DEF SyncDirectory, DInv, Whole
<1>2. now = Directory!Written(dir, f, c)
  BY DEF SyncDirectory, DInv, TypeOK, Whole, Directory!Written, dir
<1>3. dir' = Directory!Saved(dir, f, c)
  BY <1>2 DEF SyncDirectory, Directory!Saved, dir
<1> QED BY <1>1, <1>3 DEF Directory!DirectoryNext, dir

LEMMA CrashIsCrash ==
  ASSUME ProcessDies \/ PowerFails
  PROVE  Directory!DirectoryNext
<1>1. CASE ProcessDies
  BY <1>1 DEF ProcessDies, NewProcess, Directory!DirectoryNext, Directory!Restarted
<1>2. CASE PowerFails
  BY <1>2 DEF PowerFails, NewProcess, Directory!DirectoryNext, Directory!PowerLost, Directory!Holding
<1> QED BY <1>1, <1>2

LEMMA StepIsDirectoryStep ==
  ASSUME DInv, [Next]_vars
  PROVE  [Directory!DirectoryNext]_dir
<1>1. CASE UNCHANGED vars BY <1>1 DEF vars, dir
<1>2. CASE ProcessDies \/ PowerFails BY <1>2, CrashIsCrash
<1>3. ASSUME NEW f \in File, Write(f) \/ SyncFile(f) \/ Fail(f) PROVE UNCHANGED dir
  BY <1>3 DEF Write, SyncFile, Fail, dir
<1>4. ASSUME NEW f \in File, Rename(f) \/ SyncDirectory(f) PROVE Directory!DirectoryNext
  BY <1>4, RenameIsUnfinishedSave, SyncDirectoryIsSave
<1> QED BY <1>1, <1>2, <1>3, <1>4 DEF Next

(* A save that was acknowledged outlives every crash; one that failed       *)
(* leaves the memory as it was, and the file old or new.                    *)
THEOREM SavesAreDurable == Spec => ImplementsDirectory
<1>1. Init => Directory!DirectoryInit
  BY DEF Init, Directory!DirectoryInit, Directory!Holding
<1>2. DInv /\ [Next]_vars => [Directory!DirectoryNext]_dir BY StepIsDirectoryStep
<1> QED BY <1>1, <1>2, AlwaysDInv, PTL DEF Spec, ImplementsDirectory, Directory!DirectorySpec, dir
=============================================================================
