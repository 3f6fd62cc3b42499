--------------------------- MODULE ReadWriteLock ---------------------------
(* What internal/locks promises to its callers: a read/write lock for every *)
(* key. A request asks, then holds the lock of its key or gives up; nobody  *)
(* holds a key beside a request that wants it for itself.                   *)

CONSTANTS
  Request,      \* the calls of Lock and RLock
  KeyOf,        \* the key each asks for
  Exclusive     \* those that call Lock

VARIABLE phase  \* of each request

LockTypeOK == phase \in [Request -> {"idle", "asking", "holding"}]

LockInit == phase = [r \in Request |-> "idle"]

Compatible(r) ==
  \A q \in Request \ {r} :
    phase[q] = "holding" /\ KeyOf[q] = KeyOf[r] => {q, r} \cap Exclusive = {}

AskFor(r) == phase[r] = "idle" /\ phase' = [phase EXCEPT ![r] = "asking"]

Grant(r) ==
  /\ phase[r] = "asking"
  /\ Compatible(r)
  /\ phase' = [phase EXCEPT ![r] = "holding"]

GiveUp(r) == phase[r] = "asking" /\ phase' = [phase EXCEPT ![r] = "idle"]

Drop(r) == phase[r] = "holding" /\ phase' = [phase EXCEPT ![r] = "idle"]

(* The process ends, and its locks with it. *)
Reset == phase' = [r \in Request |-> "idle"]

LockNext == Reset \/ \E r \in Request : AskFor(r) \/ Grant(r) \/ GiveUp(r) \/ Drop(r)

LockSpec == LockInit /\ [][LockNext]_phase
=============================================================================
