--------------------------- MODULE StateDirectory ---------------------------
(* What saving a state file promises. The stores (jobs, dispatch runs,      *)
(* notifications) hold their content in memory and save it whole: a         *)
(* temporary file beside the old one is written, synced and renamed over    *)
(* it, then the directory is synced. Here a save is one step. One that      *)
(* fails leaves the memory as it was, and the file old or new.              *)

(* A directory of state files: what the process holds, what it would read   *)
(* now, and what a machine that lost power may come up with.                *)
Holding(content) == [memory |-> content, now |-> content, may |-> {content}]

Written(d, f, c) == [d.now EXCEPT ![f] = c]

(* mutant: the directory is not synced. *)
SavedUnsynced(d, f, c) ==
  [memory |-> [d.memory EXCEPT ![f] = c], now |-> Written(d, f, c),
   may |-> d.may \cup {Written(d, f, c)}]

(* The sync of the directory is of every rename in it, of this file or not. *)
Saved(d, f, c) ==
  [memory |-> [d.memory EXCEPT ![f] = c], now |-> Written(d, f, c), may |-> {Written(d, f, c)}]

(* Before the rename, or after it. Renames in a directory survive a loss of *)
(* power in their order, so that it may have to itself those up to this one. *)
NotSaved(d, f, c) ==
  {d, [memory |-> d.memory, now |-> Written(d, f, c), may |-> d.may \cup {Written(d, f, c)}]}

(* A new process reads what is there. *)
Restarted(d) == [memory |-> d.now, now |-> d.now, may |-> d.may]
PowerLost(d) == {Holding(content) : content \in d.may}

------------------------------------------------------------------------------
CONSTANTS File, Content
VARIABLE directory

DirectoryInit == \E files \in [File -> Content] : directory = Holding(files)

DirectoryNext ==
  \/ \E f \in File, c \in Content :
       directory' = Saved(directory, f, c) \/ directory' \in NotSaved(directory, f, c)
  \/ directory' = Restarted(directory)
  \/ directory' \in PowerLost(directory)

DirectorySpec == DirectoryInit /\ [][DirectoryNext]_directory
=============================================================================
