----------------------------- MODULE KeyedLock -----------------------------
(* internal/locks: a table of reference-counted read/write mutexes, one for *)
(* every key somebody is interested in. A request is one call of Lock or    *)
(* RLock and what follows it. It is two threads: the caller, which waits    *)
(* for the lock or for the end of its context, and the goroutine that locks *)
(* the mutex for it. When the caller gives up, the goroutine still gets the *)
(* mutex some time and has to hand it back.                                 *)
EXTENDS Naturals, FiniteSets

CONSTANTS
  Key,
  Request,      \* the calls of Lock and RLock
  KeyOf,        \* the key each asks for
  Exclusive,    \* those that call Lock
  Entry,        \* the lockEntry values, numbered
  NoEntry

ASSUME KeyedLockAssumption ==
  /\ KeyOf \in [Request -> Key]
  /\ NoEntry \notin Entry /\ Entry \subseteq Nat

VARIABLES
  locks,    \* Manager.locks
  refs,     \* lockEntry.refs
  ent,      \* the entry a request has a reference to
  mutex,    \* how far the locking goroutine of a request is with rwmu
  caller    \* how far its caller is

lockVars == <<locks, refs, ent, mutex, caller>>

LocksInit ==
  /\ locks = [k \in Key |-> NoEntry]
  /\ refs = [e \in Entry |-> 0]
  /\ ent = [r \in Request |-> NoEntry]
  /\ mutex = [r \in Request |-> "none"]
  /\ caller = [r \in Request |-> "idle"]

Users(e) == {r \in Request : ent[r] = e}

------------------------------------------------------------------------------
(* sync.RWMutex. A writer announces itself when no other writer has, waits  *)
(* for the readers inside, and lets no new reader in; readers that came     *)
(* meanwhile are all let in when it leaves.                                 *)

WriterOn(e) == \E q \in Users(e) \cap Exclusive : mutex[q] \in {"announced", "granted"}

MutexRLock(r) ==
  /\ mutex[r] = "starting" /\ r \notin Exclusive
  /\ mutex' = [mutex EXCEPT ![r] = IF WriterOn(ent[r]) THEN "blocked" ELSE "granted"]
  /\ UNCHANGED <<locks, refs, ent, caller>>

MutexAnnounce(r) ==
  /\ mutex[r] = "starting" /\ r \in Exclusive
  /\ ~WriterOn(ent[r])
  /\ mutex' = [mutex EXCEPT ![r] = "announced"]
  /\ UNCHANGED <<locks, refs, ent, caller>>

MutexLock(r) ==
  /\ mutex[r] = "announced"
  /\ \A q \in Users(ent[r]) \ Exclusive : mutex[q] # "granted"
  /\ mutex' = [mutex EXCEPT ![r] = "granted"]
  /\ UNCHANGED <<locks, refs, ent, caller>>

(* Request r unlocks the mutex of entry e. *)
MutexUnlocked(r, e) ==
  [q \in Request |->
     IF q = r /\ ent[r] = e THEN "none"
     ELSE IF r \in Exclusive /\ ent[q] = e /\ mutex[q] = "blocked" THEN "granted"
     ELSE mutex[q]]

------------------------------------------------------------------------------
(* The lock manager. *)

Unused(e) == Users(e) = {} /\ e \notin {locks[o] : o \in Key}

(* acquireLock up to the select: getOrCreate, and the goroutine started.    *)
(* Which unused entry a new one is makes no difference: it is the first.    *)
Ask(r) ==
  LET k == KeyOf[r] IN
  /\ caller[r] = "idle"
  /\ \E e \in Entry :
       /\ IF locks[k] = NoEntry THEN Unused(e) /\ \A f \in Entry : Unused(f) => e <= f
                                ELSE e = locks[k]
       /\ locks' = [locks EXCEPT ![k] = e]
       /\ refs' = [refs EXCEPT ![e] = IF locks[k] = NoEntry THEN 1 ELSE @ + 1]
       /\ ent' = [ent EXCEPT ![r] = e]
  /\ mutex' = [mutex EXCEPT ![r] = "starting"]
  /\ caller' = [caller EXCEPT ![r] = "waiting"]

Acquired(r) ==
  /\ caller[r] = "waiting" /\ mutex[r] = "granted"
  /\ caller' = [caller EXCEPT ![r] = "holding"]
  /\ UNCHANGED <<locks, refs, ent, mutex>>

(* mutant: the caller drops the reference and the goroutine does so again. *)
CancelReleases(r) ==
  /\ caller[r] = "waiting"
  /\ caller' = [caller EXCEPT ![r] = "gone"]
  /\ refs' = [refs EXCEPT ![ent[r]] = @ - 1]
  /\ UNCHANGED <<locks, ent, mutex>>

(* The context ended; when the mutex is ready as well, select picks either. *)
Cancel(r) ==
  /\ caller[r] = "waiting"
  /\ caller' = [caller EXCEPT ![r] = "gone"]
  /\ UNCHANGED <<locks, refs, ent, mutex>>

(* Unlock and RUnlock, which find the entry by its key ... *)
Unlock(r) ==
  /\ caller[r] = "holding"
  /\ mutex' = MutexUnlocked(r, locks[KeyOf[r]])
  /\ caller' = [caller EXCEPT ![r] = "releasing"]
  /\ UNCHANGED <<locks, refs, ent>>

(* mutant: the waiter that gave up is forgotten. *)
CleanupForgotten(r) ==
  /\ caller[r] = "gone" /\ mutex[r] = "granted"
  /\ caller' = [caller EXCEPT ![r] = "releasing"]
  /\ UNCHANGED <<locks, refs, ent, mutex>>

(* ... and the goroutine a cancelled caller left, which has it at hand. *)
Cleanup(r) ==
  /\ caller[r] = "gone" /\ mutex[r] = "granted"
  /\ mutex' = MutexUnlocked(r, ent[r])
  /\ caller' = [caller EXCEPT ![r] = "releasing"]
  /\ UNCHANGED <<locks, refs, ent>>

Release(r) ==
  LET k == KeyOf[r]
      e == locks[k] IN
  /\ caller[r] = "releasing"
  /\ \/ e = NoEntry /\ UNCHANGED <<locks, refs>>
     \/ /\ e # NoEntry
        /\ refs' = [refs EXCEPT ![e] = @ - 1]
        /\ locks' = [locks EXCEPT ![k] = IF refs[e] <= 1 THEN NoEntry ELSE e]
  /\ ent' = [ent EXCEPT ![r] = NoEntry]
  /\ caller' = [caller EXCEPT ![r] = "idle"]
  /\ UNCHANGED mutex

(* What the goroutines do, whatever the callers want. *)
Goroutine(r) == MutexRLock(r) \/ MutexAnnounce(r) \/ MutexLock(r) \/ Cleanup(r) \/ Release(r)

(* The process ends: the table is in memory only. *)
Discard ==
  /\ locks' = [k \in Key |-> NoEntry]
  /\ refs' = [e \in Entry |-> 0]
  /\ ent' = [r \in Request |-> NoEntry]
  /\ mutex' = [r \in Request |-> "none"]
  /\ caller' = [r \in Request |-> "idle"]

LocksNext ==
  Discard \/ \E r \in Request : Ask(r) \/ Acquired(r) \/ Cancel(r) \/ Unlock(r) \/ Goroutine(r)

LocksSpec == LocksInit /\ [][LocksNext]_lockVars

------------------------------------------------------------------------------
LocksTypeOK ==
  /\ locks \in [Key -> Entry \cup {NoEntry}]
  /\ refs \in [Entry -> Nat]
  /\ ent \in [Request -> Entry \cup {NoEntry}]
  /\ mutex \in [Request -> {"none", "starting", "blocked", "announced", "granted"}]
  /\ caller \in [Request -> {"idle", "waiting", "holding", "gone", "releasing"}]

Granted == {r \in Request : mutex[r] = "granted"}

(* Two requests have the lock of a key at the same time only to read, the   *)
(* ones that gave up and have yet to hand it back included, and even when   *)
(* the entry of the key was dropped and made again (locks.go 42-65, 97-136).*)
Exclusion ==
  \A r, q \in Granted : r # q /\ KeyOf[r] = KeyOf[q] => {r, q} \cap Exclusive = {}

(* An entry is in the table as long as a request has a reference to it and  *)
(* not longer: the count is exact, nobody works on a forgotten entry and    *)
(* none is left behind (locks.go 42-65, 125-134).                           *)
EntriesCounted ==
  /\ \A r \in Request : ent[r] # NoEntry => locks[KeyOf[r]] = ent[r]
  /\ \A k \in Key : locks[k] # NoEntry =>
       /\ refs[locks[k]] = Cardinality(Users(locks[k]))
       /\ Users(locks[k]) # {}

------------------------------------------------------------------------------
Promise == INSTANCE ReadWriteLock WITH
  phase <- [r \in Request |->
              CASE caller[r] = "waiting" -> "asking"
                [] caller[r] = "holding" -> "holding"
                [] OTHER -> "idle"]

(* The table of counted mutexes is a read/write lock for every key: callers *)
(* see of it what ReadWriteLock says, whatever is cancelled and dropped.    *)
ImplementsLock == Promise!LockSpec
=============================================================================
