------------------------------- MODULE Edits -------------------------------
(* The file tools of a worktree: read_file, search_and_replace and          *)
(* create_file on one file, and the commit of the worktree, as concurrent   *)
(* calls. Every one locks the worktree, shared or for itself, and then the  *)
(* file. The two tables of locks are one here, their keys being different.  *)
EXTENDS KeyedLock, Replacement

CONSTANTS
  Call,
  Kind,         \* "read", "edit", "create" or "commit"
  Line,         \* the lines of texts and blocks: words and their spacing
  Search,       \* the block an edit looks for
  Replace,      \* the block it puts there, the text a create writes
  Session,      \* the sets of calls made together
  FileAtStart,  \* what the file may be: texts and NoFile
  ReadBefore,   \* texts it had when it was read before the session
  Faults        \* bound on cancelled contexts, failed writes and crashes

NoFile == <<<<"no file", 0>>>>
Half == <<<<"half", 0>>>>       \* created, not yet all written
NoToken == <<<<"no token", 0>>>>
Worktree == "worktree"
File == "file"

EditRequest ==
  {r \in Call \X {"look", "do"} \X {Worktree, File} :
     (r[2] = "look" => Kind[r[1]] = "edit") /\ (r[3] = File => Kind[r[1]] # "commit")}

ASSUME EditsAssumption ==
  /\ Kind \in [Call -> {"read", "edit", "create", "commit"}]
  /\ Key = {Worktree, File} /\ Request = EditRequest
  /\ KeyOf = [r \in Request |-> r[3]]
  /\ Exclusive = {r \in Request : r[2] = "do" /\
       CASE Kind[r[1]] = "commit" -> r[3] = Worktree
         [] Kind[r[1]] \in {"edit", "create"} -> r[3] = File
         [] OTHER -> FALSE}
  /\ Search \in [Call -> Seq(Line)] /\ Replace \in [Call -> Seq(Line)]
  /\ \A c \in Call : Kind[c] = "edit" => Search[c] # <<>>
  /\ FileAtStart \subseteq Seq(Line) \cup {NoFile}
  /\ Session \subseteq SUBSET Call
  /\ Faults \in Nat

VARIABLES
  file,       \* what the name refers to
  temps,      \* calls whose temporary file is in the directory
  tree,       \* what "git add --all" staged for a commit
  approved,   \* RevisionAuthorizer.approved of the file
  tokens,     \* revisions read_file returned; a revision is its text
  calls,      \* the calls of this session
  at,         \* where each call is
  stage,      \* whether it looks or does
  token,      \* the expected_revision of an edit
  seen,       \* the text it read
  fate,       \* how the part it is in went
  ended,      \* calls whose context ended
  faults

editVars == <<file, temps, tree, approved, tokens, calls, at, stage, token, seen, fate,
              ended, faults>>
vars == <<lockVars, editVars>>

Init ==
  /\ LocksInit
  /\ file \in FileAtStart
  /\ temps = {}
  /\ tree = [c \in Call |-> <<>>]
  /\ approved = NoToken
  /\ tokens = ReadBefore
  /\ calls \in Session
  /\ at = [c \in Call |-> "idle"]
  /\ stage = [c \in Call |-> IF Kind[c] = "edit" THEN "look" ELSE "do"]
  /\ token = [c \in Call |-> NoToken]
  /\ seen = [c \in Call |-> <<>>]
  /\ fate = [c \in Call |-> "ok"]
  /\ ended = {}
  /\ faults = 0

------------------------------------------------------------------------------
On(c, key) == <<c, stage[c], key>>

Goto(c, place) == at' = [at EXCEPT ![c] = place]
Went(c, how) == fate' = [fate EXCEPT ![c] = how]

(* The local variables of calls that are over. *)
Forget(over) ==
  /\ token' = [c \in Call |-> IF c \in over THEN NoToken ELSE token[c]]
  /\ seen' = [c \in Call |-> IF c \in over THEN <<>> ELSE seen[c]]
  /\ fate' = [c \in Call |-> IF c \in over THEN "ok" ELSE fate[c]]

Fault == faults < Faults /\ faults' = faults + 1

Begin(c) ==
  /\ c \in calls /\ at[c] = "idle"
  /\ \E t \in IF Kind[c] = "edit" THEN tokens ELSE {NoToken} :
       token' = [token EXCEPT ![c] = t]
  /\ Goto(c, "worktree")
  /\ Ask(On(c, Worktree))
  /\ UNCHANGED <<file, temps, tree, approved, tokens, calls, stage, seen, fate, ended, faults>>

(* The caller's context ends; a commit runs in the context of the server. *)
EndContext(c) ==
  /\ at[c] \notin {"idle", "done"} /\ Kind[c] # "commit" /\ c \notin ended
  /\ Fault
  /\ ended' = ended \cup {c}
  /\ UNCHANGED <<lockVars, file, temps, tree, approved, tokens, calls, at, stage, token, seen, fate>>

Selected(c) ==
  /\ \/ at[c] = "worktree" /\ Acquired(On(c, Worktree))
     \/ at[c] = "file" /\ Acquired(On(c, File))
  /\ UNCHANGED editVars

(* The worktree is locked: the file is next, except for a commit. *)
LockFile(c) ==
  /\ at[c] = "worktree" /\ caller[On(c, Worktree)] = "holding" /\ Kind[c] # "commit"
  /\ Ask(On(c, File))
  /\ Goto(c, "file")
  /\ UNCHANGED <<file, temps, tree, approved, tokens, calls, stage, token, seen, fate, ended, faults>>

(* mutant: a call that gives up on the file forgets that it has the worktree. *)
GiveUpHolding(c) ==
  /\ c \in ended
  /\ \/ at[c] = "worktree" /\ Cancel(On(c, Worktree))
     \/ at[c] = "file" /\ Cancel(On(c, File))
  /\ Goto(c, "over")
  /\ Went(c, "failed")
  /\ UNCHANGED <<file, temps, tree, approved, tokens, calls, stage, token, seen, ended, faults>>

GiveUp(c) ==
  /\ c \in ended
  /\ \/ at[c] = "worktree" /\ Cancel(On(c, Worktree)) /\ Goto(c, "over")
     \/ at[c] = "file" /\ Cancel(On(c, File)) /\ Goto(c, "leaving")
  /\ Went(c, "failed")
  /\ UNCHANGED <<file, temps, tree, approved, tokens, calls, stage, token, seen, ended, faults>>

------------------------------------------------------------------------------
(* What a call does with its locks held. *)

(* mutant: a commit does not wait for the edits. *)
InsideUnlocked(c) ==
  IF Kind[c] = "commit" THEN at[c] = "worktree"
                        ELSE at[c] = "file" /\ caller[On(c, File)] = "holding"

Inside(c) ==
  IF Kind[c] = "commit" THEN at[c] = "worktree" /\ caller[On(c, Worktree)] = "holding"
                        ELSE at[c] = "file" /\ caller[On(c, File)] = "holding"

Read(c) ==
  /\ Inside(c) /\ (Kind[c] = "read" \/ stage[c] = "look")
  /\ IF file = NoFile THEN Went(c, "failed") /\ UNCHANGED seen
     ELSE Went(c, "ok") /\ seen' = [seen EXCEPT ![c] = file]
  /\ Goto(c, "read")
  /\ UNCHANGED <<lockVars, file, temps, tree, approved, tokens, calls, stage, token, ended, faults>>

(* mutant: the revision was checked before, without the lock. *)
MatchUnchecked(c) ==
  LET to == Edited(file, Search[c], Replace[c]) IN
  /\ Inside(c) /\ Kind[c] = "edit" /\ stage[c] = "do"
  /\ IF file # NoFile /\ to # {}
     THEN seen' = [seen EXCEPT ![c] = file] /\ temps' = temps \cup {c} /\ Goto(c, "written")
          /\ UNCHANGED fate
     ELSE Goto(c, "read") /\ Went(c, "failed") /\ UNCHANGED <<seen, temps>>
  /\ UNCHANGED <<lockVars, file, tree, approved, tokens, calls, stage, token, ended, faults>>

(* SearchAndReplace up to the temporary file, synced, with the new text.    *)
(* The search up to spacing stops when the context has ended.               *)
Match(c) ==
  LET exact == Count(file, Search[c]) # 0
      fits == file # NoFile /\ token[c] = file /\ (exact \/ c \notin ended)
              /\ Edited(file, Search[c], Replace[c]) # {} IN
  /\ Inside(c) /\ Kind[c] = "edit" /\ stage[c] = "do"
  /\ \/ /\ fits
        /\ seen' = [seen EXCEPT ![c] = file] /\ temps' = temps \cup {c} /\ Goto(c, "written")
        /\ UNCHANGED <<fate, faults>>
     \/ /\ IF fits THEN Fault ELSE UNCHANGED faults
        /\ Goto(c, "read") /\ Went(c, "failed") /\ UNCHANGED <<seen, temps>>
  /\ UNCHANGED <<lockVars, file, tree, approved, tokens, calls, stage, token, ended>>

(* The rename, or its failure, after which the temporary file is removed. *)
Rename(c) ==
  /\ at[c] = "written"
  /\ \/ file' \in Edited(seen[c], Search[c], Replace[c]) /\ Went(c, "ok") /\ UNCHANGED faults
     \/ Fault /\ Went(c, "failed") /\ UNCHANGED file
  /\ temps' = temps \ {c}
  /\ Goto(c, "read")
  /\ UNCHANGED <<lockVars, tree, approved, tokens, calls, stage, token, seen, ended>>

(* CreateFile: the name is taken first, the text written in place. *)
Create(c) ==
  /\ Inside(c) /\ Kind[c] = "create"
  /\ IF file = NoFile THEN file' = Half /\ Goto(c, "created") /\ UNCHANGED fate
     ELSE Goto(c, "read") /\ Went(c, "failed") /\ UNCHANGED file
  /\ UNCHANGED <<lockVars, temps, tree, approved, tokens, calls, stage, token, seen, ended, faults>>

Fill(c) ==
  /\ at[c] = "created"
  /\ \/ file' = Replace[c] /\ Went(c, "ok") /\ UNCHANGED faults
     \/ Fault /\ Went(c, "failed") /\ UNCHANGED file
  /\ Goto(c, "read")
  /\ UNCHANGED <<lockVars, temps, tree, approved, tokens, calls, stage, token, seen, ended>>

(* git add --all, then git commit. *)
Stage(c) ==
  /\ Inside(c) /\ Kind[c] = "commit"
  /\ tree' = [tree EXCEPT ![c] = <<file, temps>>]
  /\ Goto(c, "staged")
  /\ UNCHANGED <<lockVars, file, temps, approved, tokens, calls, stage, token, seen, fate, ended, faults>>

Commit(c) ==
  /\ at[c] = "staged"
  /\ tree' = [tree EXCEPT ![c] = <<>>]
  /\ Goto(c, "leaving")
  /\ UNCHANGED <<lockVars, file, temps, approved, tokens, calls, stage, token, seen, fate, ended, faults>>

------------------------------------------------------------------------------
(* The deferred unlocks, each over before the next. *)

LeaveFile(c) ==
  /\ at[c] = "read"
  /\ Unlock(On(c, File))
  /\ Goto(c, "closing")
  /\ UNCHANGED <<file, temps, tree, approved, tokens, calls, stage, token, seen, fate, ended, faults>>

LeaveWorktree(c) ==
  /\ at[c] \in {"leaving", "closing"}
  /\ at[c] = "closing" => caller[On(c, File)] = "idle"
  /\ Unlock(On(c, Worktree))
  /\ Goto(c, "left")
  /\ UNCHANGED <<file, temps, tree, approved, tokens, calls, stage, token, seen, fate, ended, faults>>

Left(c) ==
  /\ at[c] \in {"left", "over"}
  /\ at[c] = "left" => caller[On(c, Worktree)] = "idle"

(* VerifyOrAdopt, which an error of the look skips, and the edit itself. *)
Verify(c) ==
  LET known == approved = token[c] \/ seen[c] = token[c] IN
  /\ Left(c) /\ stage[c] = "look"
  /\ IF fate[c] = "failed" \/ known
     THEN /\ approved' = IF fate[c] = "ok" /\ known THEN token[c] ELSE approved
          /\ stage' = [stage EXCEPT ![c] = "do"]
          /\ Ask(<<c, "do", Worktree>>)
          /\ Goto(c, "worktree") /\ Went(c, "ok")
          /\ UNCHANGED <<token, seen>>
     ELSE Goto(c, "done") /\ Forget({c}) /\ UNCHANGED <<lockVars, approved, stage>>
  /\ UNCHANGED <<file, temps, tree, tokens, calls, ended, faults>>

(* mutant: an edit authorizes the next one with the revision it made. *)
FinishAuthorizes(c) ==
  /\ Left(c) /\ stage[c] = "do"
  /\ approved' = IF fate[c] = "ok" /\ Kind[c] \in {"read", "edit"} THEN file ELSE approved
  /\ tokens' = IF Kind[c] = "read" /\ fate[c] = "ok" THEN tokens \cup {seen[c]} ELSE tokens
  /\ Goto(c, "done") /\ Forget({c})
  /\ UNCHANGED <<lockVars, file, temps, tree, calls, stage, ended, faults>>

(* Authorize after a read, Consume after an edit, both outside the locks. *)
Finish(c) ==
  /\ Left(c) /\ stage[c] = "do"
  /\ approved' = IF Kind[c] = "read" /\ fate[c] = "ok" THEN seen[c]
                 ELSE IF Kind[c] = "edit" /\ fate[c] = "ok" /\ approved = token[c] THEN NoToken
                 ELSE approved
  /\ tokens' = IF Kind[c] = "read" /\ fate[c] = "ok" THEN tokens \cup {seen[c]} ELSE tokens
  /\ Goto(c, "done") /\ Forget({c})
  /\ UNCHANGED <<lockVars, file, temps, tree, calls, stage, ended, faults>>

(* The process dies and starts again: what is in the directory stays. *)
Restart ==
  /\ Fault
  /\ Discard
  /\ approved' = NoToken
  /\ at' = [c \in Call |-> IF at[c] = "idle" THEN "idle" ELSE "done"]
  /\ ended' = {} /\ Forget(Call)
  /\ UNCHANGED <<file, temps, tree, tokens, calls, stage>>

CallStep(c) ==
  \/ Selected(c) \/ LockFile(c) \/ GiveUp(c)
  \/ Read(c) \/ Match(c) \/ Rename(c) \/ Create(c) \/ Fill(c) \/ Stage(c) \/ Commit(c)
  \/ LeaveFile(c) \/ LeaveWorktree(c) \/ Verify(c) \/ Finish(c)

Background(r) == Goroutine(r) /\ UNCHANGED editVars

Next ==
  \/ \E c \in Call : Begin(c) \/ EndContext(c) \/ CallStep(c)
  \/ \E r \in Request : Background(r)
  \/ Restart

(* The Go scheduler does not stop while a goroutine can go on. That is all  *)
(* the calls of a session need: they are finitely many.                     *)
Fairness == WF_vars((\E c \in Call : CallStep(c)) \/ \E r \in Request : Background(r))

Spec == Init /\ [][Next]_vars /\ Fairness

------------------------------------------------------------------------------
(* Of the tokens: only revisions that read_file returned are approved. *)
TypeOK ==
  /\ LocksTypeOK
  /\ calls \in Session /\ temps \subseteq calls /\ ended \subseteq calls
  /\ at \in [Call -> {"idle", "worktree", "file", "written", "created", "staged",
                       "read", "closing", "leaving", "left", "over", "done"}]
  /\ stage \in [Call -> {"look", "do"}] /\ fate \in [Call -> {"ok", "failed"}]
  /\ token \in [Call -> tokens \cup {NoToken}] /\ approved \in tokens \cup {NoToken}
  /\ faults \in 0..Faults

(* Between the check of its revision and the rename, the file still is what *)
(* the edit was computed from and what its token names: no edit is lost     *)
(* under another, whatever was approved, adopted or skipped before          *)
(* (filesystem.go 587-612, register.go 258-272).                            *)
NoLostEdit == \A c \in Call : at[c] = "written" => file = seen[c] /\ token[c] = seen[c]

(* While a commit has the tree staged nothing is half way: no edit before   *)
(* its rename, no created file not yet written, and the tree is still what  *)
(* was staged (coordination.go 13-33, manager.go 320-333).                  *)
CommitSeesNoHalfEdit ==
  \A m \in Call : at[m] = "staged" =>
    /\ tree[m] = <<file, temps>>
    /\ \A c \in Call : at[c] \notin {"written", "created"}

(* An edit replaces the one place its block can mean and nothing else       *)
(* (filesystem.go 601-662).                                                 *)
EditsTheOnlyMatch ==
  [][\A c \in Call : at[c] = "written" /\ at'[c] = "read" /\ fate'[c] = "ok" =>
       \E i \in DOMAIN file :
         /\ OnlyMatch(file, Search[c], i)
         /\ file' = Spliced(file, i, Len(Search[c]), Replace[c])]_at

(* Again and again every call that began is over, and with none in progress *)
(* the tables of locks are empty, whatever was cancelled while it waited    *)
(* (locks.go 97-137).                                                       *)
CallsEnd ==
  []<>(/\ \A c \in Call : at[c] \in {"idle", "done"}
       /\ \A k \in Key : locks[k] = NoEntry)
=============================================================================
