---------------------------- MODULE EditsProofs ----------------------------
(* The locks, for any number of requests, keys and entries: the manager     *)
(* excludes, counts exactly, and is the read/write lock its callers take it *)
(* for.  The edits on top of them, for any calls, texts and number of       *)
(* faults: no edit is lost, and a commit sees no edit half made.  And the   *)
(* search of an edit, for every text and block: it finds what it should.    *)
EXTENDS Edits, FiniteSetTheorems, TLAPS, WellFoundedInduction

-----------------------------------------------------------------------------
(* The lock manager. *)

(* How far a request and its goroutine can be at the same time. *)
Phases ==
  \A r \in Request :
    /\ ent[r] = NoEntry <=> caller[r] = "idle"
    /\ mutex[r] = "none" <=> caller[r] \in {"idle", "releasing"}
    /\ caller[r] = "holding" => mutex[r] = "granted"
    /\ mutex[r] = "blocked" => r \notin Exclusive
    /\ mutex[r] = "announced" => r \in Exclusive

(* No entry serves two keys. *)
Distinct ==
  \A k, o \in Key : locks[k] # NoEntry /\ locks[k] = locks[o] => k = o

OnMutex(r) == mutex[r] \in {"announced", "granted"}

(* On one entry: at most one writer is announced, and none is beside readers. *)
MutexOK ==
  \A r, q \in Request :
    r # q /\ ent[r] = ent[q] /\ r \in Exclusive =>
      /\ q \in Exclusive => ~(OnMutex(r) /\ OnMutex(q))
      /\ mutex[r] = "granted" => mutex[q] # "granted"

Finite == \A e \in Entry : IsFiniteSet(Users(e))

LInv == LocksTypeOK /\ Phases /\ EntriesCounted /\ Finite /\ Distinct /\ MutexOK

------------------------------------------------------------------------------
THEOREM InitLInv == LocksInit => LInv
<1> SUFFICES ASSUME LocksInit PROVE LInv
  OBVIOUS
<1> USE KeyedLockAssumption DEF LocksInit
<1>1. LocksTypeOK
  BY DEF LocksTypeOK
<1>2. Phases /\ Distinct /\ MutexOK
  BY DEF Phases, Distinct, MutexOK, OnMutex
<1>3. EntriesCounted
  BY DEF EntriesCounted
<1>4. Finite
  <2> SUFFICES ASSUME NEW e \in Entry PROVE IsFiniteSet(Users(e))
    BY DEF Finite
  <2>1. Users(e) = {}
    BY DEF Users
  <2> QED BY <2>1, FS_EmptySet
<1> QED BY <1>1, <1>2, <1>3, <1>4 DEF LInv

(* The steps that leave the table and the references alone cannot disturb   *)
(* what is counted.                                                         *)
LEMMA TableKept ==
  ASSUME LInv, UNCHANGED <<locks, refs, ent>>
  PROVE  EntriesCounted' /\ Finite' /\ Distinct'
BY DEF LInv, EntriesCounted, Finite, Distinct, Users

LEMMA AskKeeps ==
  ASSUME LInv, NEW r \in Request, Ask(r)
  PROVE  LInv'
<1> DEFINE k == KeyOf[r]
<1> USE KeyedLockAssumption
<1>1. PICK e \in Entry :
        /\ IF locks[k] = NoEntry THEN Users(e) = {} /\ e \notin {locks[o] : o \in Key}
                                 ELSE e = locks[k]
        /\ locks' = [locks EXCEPT ![k] = e]
        /\ refs' = [refs EXCEPT ![e] = IF locks[k] = NoEntry THEN 1 ELSE @ + 1]
        /\ ent' = [ent EXCEPT ![r] = e]
  BY DEF Ask, Unused
<1>2. /\ caller[r] = "idle"
      /\ mutex' = [mutex EXCEPT ![r] = "starting"]
      /\ caller' = [caller EXCEPT ![r] = "waiting"]
      /\ ent[r] = NoEntry /\ k \in Key
  BY DEF Ask, LInv, Phases
<1>3. LocksTypeOK'
  BY <1>1, <1>2 DEF LInv, LocksTypeOK
<1>4. Phases'
  BY <1>1, <1>2 DEF LInv, LocksTypeOK, Phases
<1>5. Distinct'
  BY <1>1, <1>2 DEF LInv, LocksTypeOK, Distinct
<1>6. /\ Users(e)' = Users(e) \cup {r}
      /\ \A o \in Entry \ {e} : Users(o)' = Users(o)
  BY <1>1, <1>2 DEF LInv, LocksTypeOK, Users
<1>7. r \notin Users(e)
  BY <1>2 DEF Users
<1>8. Finite'
  <2> SUFFICES ASSUME NEW o \in Entry PROVE IsFiniteSet(Users(o)')
    BY DEF Finite
  <2>1. IsFiniteSet(Users(o))
    BY DEF LInv, Finite
  <2> QED BY <1>6, <2>1, FS_AddElement
<1>9. EntriesCounted'
  <2>1. ASSUME NEW q \in Request, ent'[q] # NoEntry
        PROVE  locks'[KeyOf[q]] = ent'[q]
    <3>1. CASE q = r
      BY <1>1, <1>2, <3>1 DEF LInv, LocksTypeOK
    <3>2. CASE q # r
      <4>1. ent'[q] = ent[q] /\ locks[KeyOf[q]] = ent[q] /\ KeyOf[q] \in Key
        BY <1>1, <2>1, <3>2 DEF LInv, LocksTypeOK, EntriesCounted
      <4>2. KeyOf[q] = k => ent[q] = e
        BY <1>1, <2>1, <4>1
      <4> QED BY <1>1, <4>1, <4>2 DEF LInv, LocksTypeOK
    <3> QED BY <3>1, <3>2
  <2>2. ASSUME NEW o \in Key, locks'[o] # NoEntry
        PROVE  (refs[locks[o]] = Cardinality(Users(locks[o])) /\ Users(locks[o]) # {})'
    <3>1. CASE o = k
      <4>1. locks'[o] = e /\ Users(locks[o])' = Users(e) \cup {r}
        BY <1>1, <1>2, <1>6, <3>1 DEF LInv, LocksTypeOK, Users
      <4>2. IsFiniteSet(Users(e)) /\ Cardinality(Users(e) \cup {r}) = Cardinality(Users(e)) + 1
        BY <1>7, FS_AddElement DEF LInv, Finite
      <4>3. CASE locks[k] = NoEntry
        <5>1. refs'[e] = 1
          BY <1>1, <4>3 DEF LInv, LocksTypeOK
        <5>2. Users(e) \cup {r} = {r} /\ Cardinality({r}) = 1
          BY <1>1, <4>3, FS_Singleton
        <5> QED BY <4>1, <5>1, <5>2
      <4>4. CASE locks[k] # NoEntry
        <5>1. refs[e] = Cardinality(Users(e)) /\ refs'[e] = refs[e] + 1
          BY <1>1, <1>2, <4>4 DEF LInv, LocksTypeOK, EntriesCounted
        <5> QED BY <4>1, <4>2, <5>1
      <4> QED BY <4>3, <4>4
    <3>2. CASE o # k
      <4>1. locks'[o] = locks[o] /\ locks[o] # NoEntry /\ locks[o] \in Entry
        BY <1>1, <2>2, <3>2 DEF LInv, LocksTypeOK
      <4>2. locks[o] # e
        BY <1>1, <1>2, <3>2, <4>1 DEF LInv, Distinct
      <4>3. \A q \in Request : ent'[q] = locks[o] <=> ent[q] = locks[o]
        BY <1>1, <1>2, <4>1, <4>2 DEF LInv, LocksTypeOK
      <4>4. refs'[locks[o]] = refs[locks[o]]
        BY <1>1, <4>1, <4>2 DEF LInv, LocksTypeOK
      <4>5. Users(locks[o])' = Users(locks[o])
        BY <4>1, <4>3 DEF Users
      <4> QED BY <4>1, <4>4, <4>5 DEF LInv, EntriesCounted
    <3> QED BY <3>1, <3>2
  <2> QED BY <2>1, <2>2 DEF EntriesCounted
<1>10. MutexOK'
  BY <1>1, <1>2 DEF LInv, LocksTypeOK, MutexOK, OnMutex
<1> QED BY <1>3, <1>4, <1>5, <1>8, <1>9, <1>10 DEF LInv

LEMMA MutexStepKeeps ==
  ASSUME LInv, NEW r \in Request, MutexRLock(r) \/ MutexAnnounce(r) \/ MutexLock(r)
  PROVE  LInv'
<1>1. EntriesCounted' /\ Finite' /\ Distinct'
  BY TableKept DEF MutexRLock, MutexAnnounce, MutexLock
<1>2. CASE MutexRLock(r)
  <2>1. LocksTypeOK' /\ Phases'
    BY <1>2 DEF MutexRLock, LInv, LocksTypeOK, Phases
  <2>2. MutexOK'
    BY <1>2 DEF MutexRLock, LInv, LocksTypeOK, MutexOK, OnMutex, WriterOn, Users
  <2> QED BY <1>1, <2>1, <2>2 DEF LInv
<1>3. CASE MutexAnnounce(r)
  <2>1. LocksTypeOK' /\ Phases'
    BY <1>3 DEF MutexAnnounce, LInv, LocksTypeOK, Phases
  <2>2. MutexOK'
    BY <1>3 DEF MutexAnnounce, LInv, LocksTypeOK, MutexOK, OnMutex, WriterOn, Users
  <2> QED BY <1>1, <2>1, <2>2 DEF LInv
<1>4. CASE MutexLock(r)
  <2>1. LocksTypeOK' /\ Phases'
    BY <1>4 DEF MutexLock, LInv, LocksTypeOK, Phases
  <2>2. MutexOK'
    BY <1>4 DEF MutexLock, LInv, LocksTypeOK, Phases, MutexOK, OnMutex, Users
  <2> QED BY <1>1, <2>1, <2>2 DEF LInv
<1> QED BY <1>2, <1>3, <1>4

LEMMA CallerStepKeeps ==
  ASSUME LInv, NEW r \in Request, Acquired(r) \/ Cancel(r)
  PROVE  LInv'
<1>1. EntriesCounted' /\ Finite' /\ Distinct'
  BY TableKept DEF Acquired, Cancel
<1>2. LocksTypeOK' /\ Phases'
  BY DEF Acquired, Cancel, LInv, LocksTypeOK, Phases
<1>3. MutexOK'
  BY DEF Acquired, Cancel, LInv, MutexOK, OnMutex
<1> QED BY <1>1, <1>2, <1>3 DEF LInv

(* Who hands the mutex back lets in the readers that wait behind a writer.  *)
LEMMA HandBackKeeps ==
  ASSUME LInv, NEW r \in Request,
         mutex[r] = "granted", caller[r] \in {"holding", "gone"},
         mutex' = MutexUnlocked(r, ent[r]),
         caller' = [caller EXCEPT ![r] = "releasing"],
         UNCHANGED <<locks, refs, ent>>
  PROVE  LInv'
<1>1. EntriesCounted' /\ Finite' /\ Distinct'
  BY TableKept
<1>2. LocksTypeOK'
  BY DEF MutexUnlocked, LInv, LocksTypeOK
<1>3. /\ mutex'[r] = "none"
      /\ \A q \in Request \ {r} :
           \/ mutex'[q] = mutex[q]
           \/ /\ r \in Exclusive /\ ent[q] = ent[r] /\ mutex[q] = "blocked"
              /\ mutex'[q] = "granted"
  BY DEF MutexUnlocked
<1>4. \A q \in Request \ {r} : caller'[q] = caller[q]
  BY DEF LInv, LocksTypeOK
<1>5. caller'[r] = "releasing"
  BY DEF LInv, LocksTypeOK
<1>6. Phases'
  <2> SUFFICES ASSUME NEW q \in Request
               PROVE  /\ ent[q] = NoEntry <=> caller'[q] = "idle"
                      /\ mutex'[q] = "none" <=> caller'[q] \in {"idle", "releasing"}
                      /\ caller'[q] = "holding" => mutex'[q] = "granted"
                      /\ mutex'[q] = "blocked" => q \notin Exclusive
                      /\ mutex'[q] = "announced" => q \in Exclusive
    BY DEF Phases
  <2>1. CASE q = r
    BY <1>3, <1>5, <2>1 DEF LInv, Phases
  <2>2. CASE q # r
    BY <1>3, <1>4, <2>2 DEF LInv, Phases
  <2> QED BY <2>1, <2>2
<1>7. MutexOK'
  <2> SUFFICES ASSUME NEW p \in Request, NEW q \in Request,
                      p # q, ent[p] = ent[q], p \in Exclusive
               PROVE  /\ q \in Exclusive => ~(OnMutex(p)' /\ OnMutex(q)')
                      /\ mutex'[p] = "granted" => mutex'[q] # "granted"
    BY DEF MutexOK
  <2>1. OnMutex(p)' => OnMutex(p) /\ mutex'[p] = mutex[p] /\ p # r
    BY <1>3 DEF OnMutex, LInv, Phases
  <2>2. q \in Exclusive /\ OnMutex(q)' => OnMutex(q)
    BY <1>3 DEF OnMutex, LInv, Phases
  <2>3. ASSUME mutex'[p] = "granted", mutex'[q] = "granted" PROVE FALSE
    <3>1. mutex[p] = "granted" /\ p # r /\ q # r
      BY <1>3, <2>1, <2>3 DEF OnMutex
    <3>2. mutex[q] # "granted"
      BY <3>1 DEF LInv, MutexOK
    <3>3. r \in Exclusive /\ ent[q] = ent[r]
      BY <1>3, <2>3, <3>1, <3>2
    <3> QED BY <3>1, <3>3 DEF LInv, MutexOK, OnMutex
  <2> QED BY <2>1, <2>2, <2>3 DEF LInv, MutexOK
<1> QED BY <1>1, <1>2, <1>6, <1>7 DEF LInv

LEMMA UnlockKeeps ==
  ASSUME LInv, NEW r \in Request, Unlock(r) \/ Cleanup(r)
  PROVE  LInv'
<1>1. CASE Unlock(r)
  <2>1. caller[r] = "holding" /\ mutex[r] = "granted" /\ locks[KeyOf[r]] = ent[r]
    BY <1>1 DEF Unlock, LInv, Phases, EntriesCounted
  <2> QED BY <1>1, <2>1, HandBackKeeps DEF Unlock
<1>2. CASE Cleanup(r)
  BY <1>2, HandBackKeeps DEF Cleanup
<1> QED BY <1>1, <1>2

LEMMA ReleaseKeeps ==
  ASSUME LInv, NEW r \in Request, Release(r)
  PROVE  LInv'
<1> DEFINE k == KeyOf[r]
<1> USE KeyedLockAssumption
<1>0. caller[r] = "releasing" /\ ent[r] \in Entry /\ k \in Key
  <2>1. caller[r] = "releasing"
    BY DEF Release
  <2>2. ent[r] \in Entry \cup {NoEntry} /\ k \in Key
    BY DEF LInv, LocksTypeOK
  <2>3. ent[r] # NoEntry
    BY <2>1 DEF LInv, Phases
  <2> QED BY <2>1, <2>2, <2>3
<1>a. PICK e \in Entry : e = ent[r]
  BY <1>0
<1>b. locks[k] = e /\ e # NoEntry
  BY <1>a DEF LInv, EntriesCounted
<1>1. /\ locks[k] = e /\ ent[r] = e /\ k \in Key /\ mutex[r] = "none"
      /\ refs' = [refs EXCEPT ![e] = @ - 1]
      /\ locks' = [locks EXCEPT ![k] = IF refs[e] <= 1 THEN NoEntry ELSE e]
      /\ ent' = [ent EXCEPT ![r] = NoEntry]
      /\ caller' = [caller EXCEPT ![r] = "idle"]
      /\ mutex' = mutex
  BY <1>0, <1>a, <1>b DEF Release, LInv, Phases
<1>2. refs[e] = Cardinality(Users(e)) /\ IsFiniteSet(Users(e)) /\ r \in Users(e)
  BY <1>1, <1>b DEF LInv, EntriesCounted, Finite, Users
<1>3. /\ IsFiniteSet(Users(e) \ {r})
      /\ refs[e] \in Nat
      /\ Cardinality(Users(e) \ {r}) = refs[e] - 1
      /\ Cardinality(Users(e) \ {r}) \in Nat
      /\ Cardinality(Users(e) \ {r}) = 0 <=> Users(e) \ {r} = {}
  <2>1. IsFiniteSet(Users(e) \ {r})
    BY <1>2, FS_RemoveElement
  <2>2. Cardinality(Users(e) \ {r}) = refs[e] - 1
    BY <1>2, FS_RemoveElement
  <2>3. Cardinality(Users(e) \ {r}) \in Nat
    BY <2>1, FS_CardinalityType
  <2> QED BY <2>1, <2>2, <2>3, FS_EmptySet DEF LInv, LocksTypeOK
<1>4. LocksTypeOK'
  <2>1. refs[e] - 1 \in Nat
    BY <1>3
  <2>2. refs' \in [Entry -> Nat]
    BY <1>1, <2>1 DEF LInv, LocksTypeOK
  <2> QED BY <1>1, <2>2 DEF LInv, LocksTypeOK
<1>5. Phases'
  BY <1>1 DEF LInv, LocksTypeOK, Phases
<1>6. Distinct'
  BY <1>1 DEF LInv, LocksTypeOK, Distinct
<1>7. MutexOK'
  BY <1>1 DEF LInv, LocksTypeOK, MutexOK, OnMutex
<1>8. /\ Users(e)' = Users(e) \ {r}
      /\ \A o \in Entry \ {e} : Users(o)' = Users(o)
  BY <1>1 DEF LInv, LocksTypeOK, Users
<1>9. Finite'
  <2> SUFFICES ASSUME NEW o \in Entry PROVE IsFiniteSet(Users(o)')
    BY DEF Finite
  <2>1. IsFiniteSet(Users(o))
    BY DEF LInv, Finite
  <2> QED BY <1>3, <1>8, <2>1
<1>10. EntriesCounted'
  <2>1. ASSUME NEW q \in Request, ent'[q] # NoEntry
        PROVE  locks'[KeyOf[q]] = ent'[q]
    <3>1. q # r /\ ent'[q] = ent[q] /\ locks[KeyOf[q]] = ent[q] /\ KeyOf[q] \in Key
      BY <1>1, <2>1 DEF LInv, LocksTypeOK, EntriesCounted
    <3>2. CASE KeyOf[q] = k
      <4>1. q \in Users(e) \ {r}
        BY <1>1, <3>1, <3>2 DEF Users
      <4>2. ~(refs[e] <= 1)
        <5>1. Cardinality(Users(e) \ {r}) # 0
          BY <1>3, <4>1
        <5> QED BY <1>3, <5>1
      <4> QED BY <1>1, <3>1, <3>2, <4>2 DEF LInv, LocksTypeOK
    <3>3. CASE KeyOf[q] # k
      BY <1>1, <3>1, <3>3 DEF LInv, LocksTypeOK
    <3> QED BY <3>2, <3>3
  <2>2. ASSUME NEW o \in Key, locks'[o] # NoEntry
        PROVE  (refs[locks[o]] = Cardinality(Users(locks[o])) /\ Users(locks[o]) # {})'
    <3>1. CASE o = k
      <4>1. ~(refs[e] <= 1) /\ locks'[o] = e
        BY <1>1, <2>2, <3>1 DEF LInv, LocksTypeOK
      <4>2. Users(locks[o])' = Users(e) \ {r}
        BY <1>8, <4>1 DEF Users
      <4>3. refs'[e] = refs[e] - 1
        BY <1>1 DEF LInv, LocksTypeOK
      <4>4. Users(e) \ {r} # {}
        BY <1>3, <4>1
      <4> QED BY <1>3, <4>1, <4>2, <4>3, <4>4
    <3>2. CASE o # k
      <4>1. locks'[o] = locks[o] /\ locks[o] # NoEntry /\ locks[o] \in Entry
        BY <1>1, <2>2, <3>2 DEF LInv, LocksTypeOK
      <4>2. locks[o] # e
        BY <1>1, <3>2, <4>1 DEF LInv, Distinct
      <4>3. \A q \in Request : ent'[q] = locks[o] <=> ent[q] = locks[o]
        BY <1>1, <4>1, <4>2 DEF LInv, LocksTypeOK
      <4>4. refs'[locks[o]] = refs[locks[o]]
        BY <1>1, <4>1, <4>2 DEF LInv, LocksTypeOK
      <4>5. Users(locks[o])' = Users(locks[o])
        BY <4>1, <4>3 DEF Users
      <4> QED BY <4>1, <4>4, <4>5 DEF LInv, EntriesCounted
    <3> QED BY <3>1, <3>2
  <2> QED BY <2>1, <2>2 DEF EntriesCounted
<1> QED BY <1>4, <1>5, <1>6, <1>7, <1>9, <1>10 DEF LInv

THEOREM NextLInv == LInv /\ [LocksNext]_lockVars => LInv'
<1> SUFFICES ASSUME LInv, [LocksNext]_lockVars PROVE LInv'
  OBVIOUS
<1>1. CASE UNCHANGED lockVars
  BY <1>1 DEF lockVars, LInv, LocksTypeOK, Phases, EntriesCounted, Finite, Distinct,
              MutexOK, OnMutex, Users
<1>2. CASE Discard
  <2>1. LocksInit' => LInv'
    BY InitLInv, PTL
  <2> QED BY <1>2, <2>1 DEF Discard, LocksInit
<1>3. CASE LocksNext /\ ~Discard
  <2>1. PICK r \in Request : Ask(r) \/ Acquired(r) \/ Cancel(r) \/ Unlock(r) \/ Goroutine(r)
    BY <1>3 DEF LocksNext
  <2> QED BY <2>1, AskKeeps, CallerStepKeeps, UnlockKeeps, MutexStepKeeps, ReleaseKeeps
          DEF Goroutine
<1> QED BY <1>1, <1>2, <1>3

THEOREM AlwaysLInv == LocksSpec => []LInv
BY InitLInv, NextLInv, PTL DEF LocksSpec

LEMMA LInvExcludes == LInv => Exclusion
<1> SUFFICES ASSUME LInv, NEW r \in Request, NEW q \in Request, r # q,
                    KeyOf[r] = KeyOf[q], mutex[r] = "granted", mutex[q] = "granted"
             PROVE  {r, q} \cap Exclusive = {}
  BY DEF Exclusion, Granted
<1>1. ent[r] = ent[q]
  BY DEF LInv, Phases, EntriesCounted
<1> QED BY <1>1 DEF LInv, MutexOK

(* Two requests have the lock of a key at once only to read, for any number *)
(* of requests, cancellations and re-made entries (locks.go 41-136).        *)
THEOREM Excludes == LocksSpec => []Exclusion
BY AlwaysLInv, LInvExcludes, PTL

(* The reference count of an entry is the number of requests that refer to  *)
(* it, and it is in the table exactly as long as there is one               *)
(* (locks.go 41-64, 125-134).                                               *)
THEOREM Counts == LocksSpec => []EntriesCounted
<1>1. LInv => EntriesCounted
  BY DEF LInv
<1> QED BY AlwaysLInv, <1>1, PTL

------------------------------------------------------------------------------
(* The refinement: a step of a request is its step of ReadWriteLock or none. *)
Phase(c) == CASE c = "waiting" -> "asking" [] c = "holding" -> "holding" [] OTHER -> "idle"

Mapped == [r \in Request |-> Phase(caller[r])]

LEMMA MappedStep ==
  ASSUME LInv, NEW r \in Request, NEW c, caller' = [caller EXCEPT ![r] = c]
  PROVE  Mapped' = [Mapped EXCEPT ![r] = Phase(c)]
BY DEF LInv, LocksTypeOK, Mapped

LEMMA StepImplements ==
  ASSUME LInv, LocksNext, ~Discard
  PROVE  \/ Mapped' = Mapped
         \/ \E r \in Request :
              \/ Mapped[r] = "idle" /\ Mapped' = [Mapped EXCEPT ![r] = "asking"]
              \/ /\ Mapped[r] = "asking"
                 /\ \A q \in Request \ {r} :
                      Mapped[q] = "holding" /\ KeyOf[q] = KeyOf[r] => {q, r} \cap Exclusive = {}
                 /\ Mapped' = [Mapped EXCEPT ![r] = "holding"]
              \/ Mapped[r] \in {"asking", "holding"} /\ Mapped' = [Mapped EXCEPT ![r] = "idle"]
<1>1. PICK r \in Request : Ask(r) \/ Acquired(r) \/ Cancel(r) \/ Unlock(r) \/ Goroutine(r)
  BY DEF LocksNext
<1>2. CASE Ask(r)
  <2>1. Mapped' = [Mapped EXCEPT ![r] = Phase("waiting")]
    BY <1>2, MappedStep DEF Ask
  <2>2. Mapped[r] = "idle" /\ Phase("waiting") = "asking"
    BY <1>2 DEF Ask, Mapped, Phase
  <2> QED BY <2>1, <2>2
<1>3. CASE Acquired(r)
  <2>1. Mapped' = [Mapped EXCEPT ![r] = Phase("holding")]
    BY <1>3, MappedStep DEF Acquired
  <2>2. Mapped[r] = "asking" /\ Phase("holding") = "holding"
    BY <1>3 DEF Acquired, Mapped, Phase
  <2>3. ASSUME NEW q \in Request \ {r}, Mapped[q] = "holding", KeyOf[q] = KeyOf[r]
        PROVE  {q, r} \cap Exclusive = {}
    <3>1. caller[q] = "holding"
      BY <2>3 DEF Mapped, Phase
    <3>2. mutex[q] = "granted" /\ mutex[r] = "granted"
      BY <1>3, <3>1 DEF Acquired, LInv, Phases
    <3> QED BY <2>3, <3>2, LInvExcludes DEF Exclusion, Granted
  <2> QED BY <2>1, <2>2, <2>3
<1>4. CASE Cancel(r)
  <2>1. Mapped' = [Mapped EXCEPT ![r] = Phase("gone")]
    BY <1>4, MappedStep DEF Cancel
  <2>2. Mapped[r] = "asking" /\ Phase("gone") = "idle"
    BY <1>4 DEF Cancel, Mapped, Phase
  <2> QED BY <2>1, <2>2
<1>5. CASE Unlock(r)
  <2>1. Mapped' = [Mapped EXCEPT ![r] = Phase("releasing")]
    BY <1>5, MappedStep DEF Unlock
  <2>2. Mapped[r] = "holding" /\ Phase("releasing") = "idle"
    BY <1>5 DEF Unlock, Mapped, Phase
  <2> QED BY <2>1, <2>2
<1>6. CASE Cleanup(r)
  <2>1. Mapped' = [Mapped EXCEPT ![r] = Phase("releasing")]
    BY <1>6, MappedStep DEF Cleanup
  <2>2. Mapped[r] = Phase("releasing") /\ Mapped = [q \in Request |-> Mapped[q]]
    BY <1>6 DEF Cleanup, Mapped, Phase
  <2> QED BY <2>1, <2>2
<1>7. CASE Release(r)
  <2>1. Mapped' = [Mapped EXCEPT ![r] = Phase("idle")]
    BY <1>7, MappedStep DEF Release
  <2>2. Mapped[r] = Phase("idle") /\ Mapped = [q \in Request |-> Mapped[q]]
    BY <1>7 DEF Release, Mapped, Phase
  <2> QED BY <2>1, <2>2
<1>8. CASE MutexRLock(r) \/ MutexAnnounce(r) \/ MutexLock(r)
  BY <1>8 DEF MutexRLock, MutexAnnounce, MutexLock, Mapped
<1> QED BY <1>1, <1>2, <1>3, <1>4, <1>5, <1>6, <1>7, <1>8 DEF Goroutine

(* The lock manager is a read/write lock for every key: what a caller sees  *)
(* is a behaviour of ReadWriteLock (locks.go 70-136).                       *)
THEOREM Implements == LocksSpec => ImplementsLock
<1> DEFINE ph == [r \in Request |->
                    CASE caller[r] = "waiting" -> "asking"
                      [] caller[r] = "holding" -> "holding"
                      [] OTHER -> "idle"]
<1>1. ph = Mapped
  BY DEF Mapped, Phase
<1>2. LocksInit => Promise!LockInit
  BY DEF LocksInit, Promise!LockInit
<1>3. ASSUME LInv, [LocksNext]_lockVars PROVE [Promise!LockNext]_ph
  <2>1. CASE UNCHANGED lockVars
    BY <2>1 DEF lockVars
  <2>2. CASE Discard
    <3>1. ph' = [r \in Request |-> "idle"]
      BY <2>2 DEF Discard
    <3> QED BY <3>1 DEF Promise!LockNext, Promise!Reset
  <2>3. CASE LocksNext /\ ~Discard
    <3>1. ph' = Mapped'
      BY DEF Mapped, Phase
    <3> HIDE DEF ph
    <3>2. CASE Mapped' = Mapped
      BY <1>1, <3>1, <3>2
    <3>3. ASSUME NEW r \in Request,
                 \/ ph[r] = "idle" /\ ph' = [ph EXCEPT ![r] = "asking"]
                 \/ /\ ph[r] = "asking"
                    /\ \A q \in Request \ {r} :
                         ph[q] = "holding" /\ KeyOf[q] = KeyOf[r] => {q, r} \cap Exclusive = {}
                    /\ ph' = [ph EXCEPT ![r] = "holding"]
                 \/ ph[r] \in {"asking", "holding"} /\ ph' = [ph EXCEPT ![r] = "idle"]
          PROVE  Promise!LockNext
      BY <3>3 DEF Promise!LockNext, Promise!AskFor, Promise!Grant, Promise!Compatible,
                  Promise!GiveUp, Promise!Drop, ph
    <3>4. CASE Mapped' # Mapped
      <4>1. PICK r \in Request :
              \/ ph[r] = "idle" /\ ph' = [ph EXCEPT ![r] = "asking"]
              \/ /\ ph[r] = "asking"
                 /\ \A q \in Request \ {r} :
                      ph[q] = "holding" /\ KeyOf[q] = KeyOf[r] => {q, r} \cap Exclusive = {}
                 /\ ph' = [ph EXCEPT ![r] = "holding"]
              \/ ph[r] \in {"asking", "holding"} /\ ph' = [ph EXCEPT ![r] = "idle"]
        BY <1>1, <1>3, <2>3, <3>1, <3>4, StepImplements
      <4> QED BY <3>3, <4>1
    <3> QED BY <3>2, <3>4
  <2> QED BY <1>3, <2>1, <2>2, <2>3
<1> QED BY <1>2, <1>3, AlwaysLInv, PTL DEF LocksSpec, ImplementsLock, Promise!LockSpec

-----------------------------------------------------------------------------
(* The edits. *)

Places == {"idle", "worktree", "file", "written", "created", "staged", "read", "closing",
           "leaving", "left", "over", "done"}

(* Where a call is says which locks its caller holds. *)
Holds ==
  \A c \in Call :
    /\ at[c] \in {"file", "written", "created", "staged", "read", "closing", "leaving"}
         => caller[On(c, Worktree)] = "holding"
    /\ at[c] \in {"written", "created", "read"} => caller[On(c, File)] = "holding"

(* And what kind of call it is. *)
Kinds ==
  \A c \in Call :
    /\ stage[c] \in {"look", "do"} /\ (stage[c] = "look" => Kind[c] = "edit")
    /\ at[c] \in Places
    /\ at[c] \in {"file", "written", "created", "read", "closing"} => Kind[c] # "commit"
    /\ at[c] = "written" => Kind[c] = "edit" /\ stage[c] = "do"
    /\ at[c] = "created" => Kind[c] = "create"
    /\ at[c] = "staged" => Kind[c] = "commit"

Shape ==
  /\ at \in [Call -> Places] /\ stage \in [Call -> {"look", "do"}]
  /\ DOMAIN seen = Call /\ DOMAIN token = Call /\ DOMAIN tree = Call

EInv == LInv /\ Shape /\ Kinds /\ Holds /\ NoLostEdit /\ CommitSeesNoHalfEdit

------------------------------------------------------------------------------
LEMMA Requests ==
  ASSUME Kinds, NEW c \in Call
  PROVE  /\ On(c, Worktree) \in Request
         /\ Kind[c] # "commit" => On(c, File) \in Request
         /\ <<c, "do", Worktree>> \in Request
BY EditsAssumption DEF EditRequest, Kinds, On, Worktree, File

LEMMA Mutating ==
  ASSUME Kinds, NEW c \in Call
  PROVE  /\ Kind[c] = "commit" => On(c, Worktree) \in Exclusive
         /\ Kind[c] \in {"edit", "create"} /\ stage[c] = "do" => On(c, File) \in Exclusive
         /\ KeyOf[On(c, Worktree)] = Worktree
         /\ Kind[c] # "commit" => KeyOf[On(c, File)] = File
<1>1. Kind[c] = "commit" => stage[c] = "do"
  BY DEF Kinds
<1> QED BY <1>1, Requests, EditsAssumption DEF On, Worktree, File

(* Nobody holds a lock beside a caller that has it for itself. *)
LEMMA Alone ==
  ASSUME LInv, NEW r \in Request, NEW q \in Request, r # q, KeyOf[r] = KeyOf[q],
         caller[r] = "holding", caller[q] = "holding", r \in Exclusive
  PROVE  FALSE
BY LInvExcludes DEF Exclusion, Granted, LInv, Phases

LEMMA OthersRequests ==
  ASSUME NEW c \in Call, NEW d \in Call, c # d
  PROVE  On(c, Worktree) # On(d, Worktree) /\ On(c, File) # On(d, File)
BY DEF On

(* A call that changes the file is inside alone, and not beside a commit. *)
LEMMA FileAlone ==
  ASSUME LInv, Kinds, Holds, NEW c \in Call, NEW d \in Call, c # d,
         Kind[c] \in {"edit", "create"}, stage[c] = "do",
         caller[On(c, File)] = "holding", caller[On(c, Worktree)] = "holding"
  PROVE  at[d] \notin {"written", "created", "staged"}
<1>1. CASE at[d] \in {"written", "created"}
  <2>1. caller[On(d, File)] = "holding" /\ Kind[d] # "commit"
    BY <1>1 DEF Holds, Kinds
  <2>2. On(c, File) \in Request /\ On(d, File) \in Request /\ On(c, File) # On(d, File)
    BY <2>1, Requests, OthersRequests
  <2>3. On(c, File) \in Exclusive /\ KeyOf[On(c, File)] = KeyOf[On(d, File)]
    BY <2>1, Mutating
  <2> QED BY <2>1, <2>2, <2>3, Alone
<1>2. CASE at[d] = "staged"
  <2>1. caller[On(d, Worktree)] = "holding" /\ Kind[d] = "commit"
    BY <1>2 DEF Holds, Kinds
  <2>2. /\ On(c, Worktree) \in Request /\ On(d, Worktree) \in Request
        /\ On(c, Worktree) # On(d, Worktree)
    BY Requests, OthersRequests
  <2>3. On(d, Worktree) \in Exclusive /\ KeyOf[On(c, Worktree)] = KeyOf[On(d, Worktree)]
    BY <2>1, Mutating
  <2> QED BY <2>1, <2>2, <2>3, Alone
<1> QED BY <1>1, <1>2

LEMMA CommitAlone ==
  ASSUME LInv, Kinds, Holds, NEW c \in Call, Kind[c] = "commit",
         caller[On(c, Worktree)] = "holding", NEW d \in Call
  PROVE  at[d] \notin {"written", "created"}
<1> SUFFICES ASSUME at[d] \in {"written", "created"} PROVE FALSE
  OBVIOUS
<1>1. caller[On(d, Worktree)] = "holding" /\ c # d
  BY DEF Holds, Kinds
<1>2. /\ On(c, Worktree) \in Request /\ On(d, Worktree) \in Request
      /\ On(c, Worktree) # On(d, Worktree)
  BY <1>1, Requests, OthersRequests
<1>3. On(c, Worktree) \in Exclusive /\ KeyOf[On(c, Worktree)] = KeyOf[On(d, Worktree)]
  BY Mutating
<1> QED BY <1>1, <1>2, <1>3, Alone

------------------------------------------------------------------------------
(* Every step is a step of the locks or leaves them alone. *)
LEMMA StepOfLocks ==
  ASSUME Kinds, [Next]_vars
  PROVE  [LocksNext]_lockVars
<1>1. CASE UNCHANGED vars
  BY <1>1 DEF vars
<1>2. CASE Restart
  BY <1>2 DEF Restart, LocksNext
<1>3. ASSUME NEW r \in Request, Background(r) PROVE LocksNext
  BY <1>3 DEF Background, LocksNext
<1>4. ASSUME NEW c \in Call, Begin(c) \/ EndContext(c) \/ CallStep(c)
      PROVE  [LocksNext]_lockVars
  <2>1. CASE Begin(c)
    BY <2>1, Requests DEF Begin, LocksNext
  <2>2. CASE EndContext(c) \/ Read(c) \/ Match(c) \/ Rename(c) \/ Create(c) \/ Fill(c)
             \/ Stage(c) \/ Commit(c) \/ Finish(c)
    BY <2>2 DEF EndContext, Read, Match, Rename, Create, Fill, Stage, Commit, Finish
  <2>3. CASE Selected(c)
    BY <2>3, Requests DEF Selected, LocksNext, Kinds
  <2>4. CASE LockFile(c)
    BY <2>4, Requests DEF LockFile, LocksNext
  <2>5. CASE GiveUp(c)
    BY <2>5, Requests DEF GiveUp, LocksNext, Kinds
  <2>6. CASE LeaveFile(c)
    BY <2>6, Requests DEF LeaveFile, LocksNext, Kinds
  <2>7. CASE LeaveWorktree(c)
    BY <2>7, Requests DEF LeaveWorktree, LocksNext
  <2>8. CASE Verify(c)
    BY <2>8, Requests DEF Verify, LocksNext
  <2> QED BY <1>4, <2>1, <2>2, <2>3, <2>4, <2>5, <2>6, <2>7, <2>8 DEF CallStep
<1> QED BY <1>1, <1>2, <1>3, <1>4 DEF Next

------------------------------------------------------------------------------
(* What one call does leaves the others the locks they hold. *)
OthersHold(c) ==
  \A d \in Call \ {c}, q \in Request :
    q[1] = d /\ caller[q] = "holding" => caller'[q] = "holding"

LEMMA LockStep ==
  ASSUME LInv, NEW c \in Call, NEW r \in Request, r[1] = c,
         Ask(r) \/ Acquired(r) \/ Cancel(r) \/ Unlock(r)
  PROVE  OthersHold(c)
BY DEF OthersHold, LInv, LocksTypeOK, Ask, Acquired, Cancel, Unlock

LEMMA NoLockStep ==
  ASSUME UNCHANGED lockVars, NEW c \in Call
  PROVE  OthersHold(c)
BY DEF OthersHold, lockVars

(* A call goes from one place to another with the locks it then should hold. *)
LEMMA Moves ==
  ASSUME EInv, NEW c \in Call, NEW place \in Places, NEW s \in {"look", "do"},
         at' = [at EXCEPT ![c] = place], stage' = [stage EXCEPT ![c] = s],
         OthersHold(c),
         s = "look" => Kind[c] = "edit",
         place \in {"file", "written", "created", "read", "closing"} => Kind[c] # "commit",
         place = "written" => Kind[c] = "edit" /\ s = "do",
         place = "created" => Kind[c] = "create",
         place = "staged" => Kind[c] = "commit",
         place \in {"file", "written", "created", "staged", "read", "closing", "leaving"}
           => caller'[<<c, s, Worktree>>] = "holding",
         place \in {"written", "created", "read"} => caller'[<<c, s, File>>] = "holding"
  PROVE  Kinds' /\ Holds' /\ at' \in [Call -> Places] /\ stage' \in [Call -> {"look", "do"}]
<1>1. /\ at' \in [Call -> Places] /\ stage' \in [Call -> {"look", "do"}]
      /\ at'[c] = place /\ stage'[c] = s
      /\ \A d \in Call \ {c} : at'[d] = at[d] /\ stage'[d] = stage[d]
  BY DEF EInv, Shape
<1>2. Kinds'
  BY <1>1 DEF EInv, Kinds
<1>3. ASSUME NEW d \in Call PROVE Holds!(d)'
  <2>1. CASE d = c
    BY <1>1, <2>1 DEF On
  <2>2. CASE d # c
    <3>1. On(d, Worktree)' = On(d, Worktree) /\ On(d, File)' = On(d, File)
      BY <1>1, <2>2 DEF On
    <3>2. /\ On(d, Worktree) \in Request /\ (Kind[d] # "commit" => On(d, File) \in Request)
          /\ On(d, Worktree)[1] = d /\ On(d, File)[1] = d
      BY Requests DEF EInv, On
    <3>3. at[d] \in {"written", "created", "read"} => Kind[d] # "commit"
      BY DEF EInv, Kinds
    <3> QED BY <1>1, <2>2, <3>1, <3>2, <3>3 DEF EInv, Holds, OthersHold
  <2> QED BY <2>1, <2>2
<1>4. Holds'
  BY <1>3 DEF Holds
<1> QED BY <1>1, <1>2, <1>4

(* A step that leaves the directory alone and ends up in none of the places *)
(* the data invariants speak of.                                            *)
LEMMA DataKept ==
  ASSUME EInv, NEW c \in Call, NEW place \in Places \ {"written", "created", "staged"},
         at' = [at EXCEPT ![c] = place], UNCHANGED <<file, temps>>,
         \A d \in Call \ {c} : token'[d] = token[d] /\ seen'[d] = seen[d] /\ tree'[d] = tree[d]
  PROVE  NoLostEdit' /\ CommitSeesNoHalfEdit'
<1>1. at'[c] = place /\ \A d \in Call \ {c} : at'[d] = at[d]
  BY DEF EInv, Shape
<1>2. NoLostEdit'
  BY <1>1 DEF EInv, NoLostEdit
<1>3. CommitSeesNoHalfEdit'
  BY <1>1 DEF EInv, CommitSeesNoHalfEdit
<1> QED BY <1>2, <1>3

------------------------------------------------------------------------------
Kept == Shape /\ Kinds /\ Holds /\ NoLostEdit /\ CommitSeesNoHalfEdit

(* The two lemmas together: a step of a call that only walks on. *)
LEMMA Walks ==
  ASSUME EInv, NEW c \in Call, NEW place \in Places \ {"written", "created", "staged"},
         at' = [at EXCEPT ![c] = place], UNCHANGED <<file, temps, stage>>, OthersHold(c),
         DOMAIN seen' = Call, DOMAIN token' = Call, DOMAIN tree' = Call,
         \A d \in Call \ {c} : token'[d] = token[d] /\ seen'[d] = seen[d] /\ tree'[d] = tree[d],
         place \in {"file", "read", "closing"} => Kind[c] # "commit",
         place \in {"file", "read", "closing", "leaving"} => caller'[On(c, Worktree)] = "holding",
         place = "read" => caller'[On(c, File)] = "holding"
  PROVE  Kept'
<1>1. NoLostEdit' /\ CommitSeesNoHalfEdit'
  BY DataKept
<1>2. stage' = [stage EXCEPT ![c] = stage[c]] /\ stage[c] \in {"look", "do"}
      /\ (stage[c] = "look" => Kind[c] = "edit")
  BY DEF EInv, Shape, Kinds
<1>3. Kinds' /\ Holds' /\ at' \in [Call -> Places] /\ stage' \in [Call -> {"look", "do"}]
  BY <1>2, Moves, Zenon DEF On
<1> QED BY <1>1, <1>3 DEF Kept, Shape

LEMMA LockSteps ==
  ASSUME EInv, NEW c \in Call,
         Begin(c) \/ Selected(c) \/ LockFile(c) \/ GiveUp(c) \/ LeaveFile(c) \/ LeaveWorktree(c)
  PROVE  Kept'
<1>1. /\ On(c, Worktree) \in Request /\ (Kind[c] # "commit" => On(c, File) \in Request)
      /\ On(c, Worktree)[1] = c /\ On(c, File)[1] = c /\ On(c, Worktree) # On(c, File)
      /\ caller \in [Request -> {"idle", "waiting", "holding", "gone", "releasing"}]
  BY Requests DEF EInv, On, LInv, LocksTypeOK, Worktree, File
<1>2. CASE Begin(c)
  <2>1. OthersHold(c)
    BY <1>1, <1>2, LockStep DEF Begin, EInv
  <2>2. at' = [at EXCEPT ![c] = "worktree"] /\ DOMAIN token' = Call
        /\ \A d \in Call \ {c} : token'[d] = token[d]
    BY <1>2 DEF Begin, Goto, EInv, Shape
  <2> QED BY <1>2, <2>1, <2>2, Walks DEF Begin, EInv, Shape, Places
<1>3. CASE Selected(c)
  <2>1. OthersHold(c)
    BY <1>1, <1>3, LockStep DEF Selected, EInv, Kinds
  <2>2. PICK r \in {On(c, Worktree), On(c, File)} : Acquired(r) /\ r \in Request
    BY <1>1, <1>3 DEF Selected, EInv, Kinds
  <2>3. \A q \in Request : caller[q] = "holding" => caller'[q] = "holding"
    BY <1>1, <2>2 DEF Acquired
  <2>4. UNCHANGED editVars /\ at' = [at EXCEPT ![c] = at[c]] /\ at[c] \in {"worktree", "file"}
    BY <1>3 DEF Selected, EInv, Shape, editVars
  <2>5. at[c] = "file" => caller'[On(c, Worktree)] = "holding" /\ Kind[c] # "commit"
    BY <1>1, <2>3 DEF EInv, Holds, Kinds
  <2> QED BY <2>1, <2>4, <2>5, Walks DEF EInv, Shape, Places, editVars
<1>4. CASE LockFile(c)
  <2>1. OthersHold(c)
    BY <1>1, <1>4, LockStep DEF LockFile, EInv
  <2>2. caller'[On(c, Worktree)] = "holding"
    BY <1>1, <1>4 DEF LockFile, Ask
  <2> QED BY <1>4, <2>1, <2>2, Walks DEF LockFile, Goto, EInv, Shape, Places
<1>5. CASE GiveUp(c)
  <2>1. OthersHold(c)
    BY <1>1, <1>5, LockStep DEF GiveUp, EInv, Kinds
  <2>2. CASE at[c] = "worktree" /\ Goto(c, "over")
    BY <1>5, <2>1, <2>2, Walks DEF GiveUp, Goto, EInv, Shape, Places
  <2>3. CASE at[c] = "file" /\ Cancel(On(c, File)) /\ Goto(c, "leaving")
    <3>1. caller'[On(c, Worktree)] = "holding"
      BY <1>1, <2>3 DEF Cancel, EInv, Holds
    <3> QED BY <1>5, <2>1, <2>3, <3>1, Walks DEF GiveUp, Goto, EInv, Shape, Places
  <2> QED BY <1>5, <2>2, <2>3 DEF GiveUp
<1>6. CASE LeaveFile(c)
  <2>1. OthersHold(c) /\ Kind[c] # "commit"
    BY <1>1, <1>6, LockStep DEF LeaveFile, EInv, Kinds
  <2>2. caller'[On(c, Worktree)] = "holding"
    BY <1>1, <1>6, <2>1 DEF LeaveFile, Unlock, EInv, Holds
  <2> QED BY <1>6, <2>1, <2>2, Walks DEF LeaveFile, Goto, EInv, Shape, Places
<1>7. CASE LeaveWorktree(c)
  <2>1. OthersHold(c)
    BY <1>1, <1>7, LockStep DEF LeaveWorktree, EInv
  <2> QED BY <1>7, <2>1, Walks DEF LeaveWorktree, Goto, EInv, Shape, Places
<1> QED BY <1>2, <1>3, <1>4, <1>5, <1>6, <1>7

LEMMA WalkSteps ==
  ASSUME EInv, NEW c \in Call, EndContext(c) \/ Read(c) \/ Finish(c) \/ Commit(c)
  PROVE  Kept'
<1>1. CASE EndContext(c)
  <2>1. UNCHANGED <<lockVars, file, temps, tree, at, stage, token, seen>>
    BY <1>1 DEF EndContext
  <2> QED BY <2>1 DEF Kept, EInv, Shape, Kinds, Holds, NoLostEdit, CommitSeesNoHalfEdit, On,
                      lockVars
<1>2. CASE Read(c)
  <2>1. OthersHold(c) /\ caller' = caller
    BY <1>2, NoLockStep DEF Read, lockVars
  <2>2. Kind[c] # "commit"
    BY <1>2 DEF Read, EInv, Kinds
  <2>3. caller[On(c, File)] = "holding" /\ caller[On(c, Worktree)] = "holding"
    BY <1>2, <2>2 DEF Read, Inside, EInv, Holds
  <2>4. DOMAIN seen' = Call /\ \A d \in Call \ {c} : seen'[d] = seen[d]
    BY <1>2 DEF Read, EInv, Shape
  <2>5. On(c, File)' = On(c, File) /\ On(c, Worktree)' = On(c, Worktree)
    BY <1>2 DEF Read, On
  <2> QED BY <1>2, <2>1, <2>2, <2>3, <2>4, Walks DEF Read, Goto, EInv, Shape, Places
<1>3. CASE Finish(c)
  <2>1. OthersHold(c)
    BY <1>3, NoLockStep DEF Finish
  <2>2. /\ DOMAIN seen' = Call /\ DOMAIN token' = Call
        /\ \A d \in Call \ {c} : seen'[d] = seen[d] /\ token'[d] = token[d]
    BY <1>3 DEF Finish, Forget
  <2> QED BY <1>3, <2>1, <2>2, Walks DEF Finish, Goto, EInv, Shape, Places
<1>4. CASE Commit(c)
  <2>1. OthersHold(c) /\ caller' = caller
    BY <1>4, NoLockStep DEF Commit, lockVars
  <2>2. caller[On(c, Worktree)] = "holding"
    BY <1>4 DEF Commit, EInv, Holds
  <2>3. DOMAIN tree' = Call /\ \A d \in Call \ {c} : tree'[d] = tree[d]
    BY <1>4 DEF Commit, EInv, Shape
  <2> QED BY <1>4, <2>1, <2>2, <2>3, Walks DEF Commit, Goto, EInv, Shape, Places
<1> QED BY <1>1, <1>2, <1>3, <1>4

------------------------------------------------------------------------------
(* The steps that change the directory: nobody else is where it matters. *)

LEMMA MatchKeeps ==
  ASSUME EInv, NEW c \in Call, Match(c)
  PROVE  Kept'
<1>1. /\ OthersHold(c) /\ caller' = caller /\ Kind[c] = "edit" /\ stage[c] = "do"
      /\ UNCHANGED <<file, stage, token, tree>>
  BY NoLockStep DEF Match, lockVars
<1>2. caller[On(c, File)] = "holding" /\ caller[On(c, Worktree)] = "holding"
  BY <1>1 DEF Match, Inside, EInv, Holds
<1>3. CASE at' = [at EXCEPT ![c] = "read"] /\ UNCHANGED <<seen, temps>>
  BY <1>1, <1>2, <1>3, Walks DEF EInv, Shape, Places
<1>4. CASE /\ at' = [at EXCEPT ![c] = "written"] /\ token[c] = file
           /\ seen' = [seen EXCEPT ![c] = file]
  <2>1. \A d \in Call \ {c} : at[d] \notin {"written", "created", "staged"}
    BY <1>1, <1>2, FileAlone DEF EInv
  <2>2. stage' = [stage EXCEPT ![c] = stage[c]] /\ "written" \in Places
    BY <1>1 DEF EInv, Shape, Places
  <2>3. Kinds' /\ Holds' /\ at' \in [Call -> Places] /\ stage' \in [Call -> {"look", "do"}]
    BY <1>1, <1>2, <1>4, <2>2, Moves DEF On
  <2>4. /\ at'[c] = "written" /\ seen'[c] = file /\ DOMAIN seen' = Call
        /\ \A d \in Call \ {c} : at'[d] = at[d]
    BY <1>4 DEF EInv, Shape
  <2>5. NoLostEdit'
    BY <1>1, <1>4, <2>1, <2>4 DEF NoLostEdit
  <2>6. CommitSeesNoHalfEdit'
    BY <2>1, <2>4 DEF CommitSeesNoHalfEdit
  <2> QED BY <1>1, <2>3, <2>4, <2>5, <2>6 DEF Kept, Shape, EInv
<1> QED BY <1>3, <1>4 DEF Match, Goto

LEMMA StageKeeps ==
  ASSUME EInv, NEW c \in Call, Stage(c)
  PROVE  Kept'
<1>1. /\ OthersHold(c) /\ caller' = caller /\ Kind[c] = "commit"
      /\ caller[On(c, Worktree)] = "holding" /\ at' = [at EXCEPT ![c] = "staged"]
      /\ UNCHANGED <<file, temps, stage, token, seen>>
      /\ tree' = [tree EXCEPT ![c] = <<file, temps>>]
  BY NoLockStep DEF Stage, lockVars, Inside, Goto
<1>2. \A d \in Call : at[d] \notin {"written", "created"}
  BY <1>1, CommitAlone DEF EInv
<1>3. stage' = [stage EXCEPT ![c] = stage[c]] /\ "staged" \in Places /\ stage[c] \in {"look", "do"}
  BY <1>1 DEF EInv, Shape, Places
<1>4. (stage[c] = "look" => Kind[c] = "edit") /\ caller'[<<c, stage[c], Worktree>>] = "holding"
  BY <1>1 DEF EInv, Kinds, On
<1>5. Kinds' /\ Holds' /\ at' \in [Call -> Places] /\ stage' \in [Call -> {"look", "do"}]
  BY <1>1, <1>3, <1>4, Moves
<1>6. /\ at'[c] = "staged" /\ tree'[c] = <<file, temps>> /\ DOMAIN tree' = Call
      /\ \A d \in Call \ {c} : at'[d] = at[d] /\ tree'[d] = tree[d]
  BY <1>1 DEF EInv, Shape
<1>7. NoLostEdit' /\ CommitSeesNoHalfEdit'
  BY <1>1, <1>2, <1>6 DEF EInv, NoLostEdit, CommitSeesNoHalfEdit
<1> QED BY <1>1, <1>5, <1>6, <1>7 DEF Kept, Shape, EInv

(* The file or a temporary file changes, and the call walks on from there. *)
LEMMA FileStep ==
  ASSUME EInv, NEW c \in Call, NEW place \in {"created", "read"},
         at' = [at EXCEPT ![c] = place], UNCHANGED <<lockVars, stage, tree, token, seen>>,
         Kind[c] \in {"edit", "create"}, stage[c] = "do", place = "created" => Kind[c] = "create",
         caller[On(c, File)] = "holding", caller[On(c, Worktree)] = "holding"
  PROVE  Kept'
<1>1. OthersHold(c) /\ caller' = caller
  BY NoLockStep DEF lockVars
<1>2. \A d \in Call \ {c} : at[d] \notin {"written", "created", "staged"}
  BY FileAlone DEF EInv
<1>3. stage' = [stage EXCEPT ![c] = stage[c]] /\ place \in Places /\ stage[c] \in {"look", "do"}
  BY DEF EInv, Shape, Places
<1>4. caller'[<<c, stage[c], Worktree>>] = "holding" /\ caller'[<<c, stage[c], File>>] = "holding"
  BY <1>1 DEF On
<1>5. Kinds' /\ Holds' /\ at' \in [Call -> Places] /\ stage' \in [Call -> {"look", "do"}]
  BY <1>1, <1>3, <1>4, Moves
<1>6. at'[c] = place /\ \A d \in Call \ {c} : at'[d] = at[d]
  BY DEF EInv, Shape
<1>7. NoLostEdit' /\ CommitSeesNoHalfEdit'
  BY <1>2, <1>6 DEF NoLostEdit, CommitSeesNoHalfEdit
<1> QED BY <1>5, <1>7 DEF Kept, Shape, EInv

LEMMA FileSteps ==
  ASSUME EInv, NEW c \in Call, Rename(c) \/ Create(c) \/ Fill(c)
  PROVE  Kept'
<1>1. CASE Rename(c)
  <2>1. Kind[c] = "edit" /\ stage[c] = "do"
        /\ caller[On(c, File)] = "holding" /\ caller[On(c, Worktree)] = "holding"
    BY <1>1 DEF Rename, EInv, Kinds, Holds
  <2> QED BY <1>1, <2>1, FileStep DEF Rename, Goto
<1>2. CASE Create(c)
  <2>1. Kind[c] = "create" /\ stage[c] = "do"
        /\ caller[On(c, File)] = "holding" /\ caller[On(c, Worktree)] = "holding"
    BY <1>2 DEF Create, Inside, EInv, Kinds, Holds
  <2> QED BY <1>2, <2>1, FileStep DEF Create, Goto
<1>3. CASE Fill(c)
  <2>1. Kind[c] = "create" /\ stage[c] = "do"
        /\ caller[On(c, File)] = "holding" /\ caller[On(c, Worktree)] = "holding"
    BY <1>3 DEF Fill, EInv, Kinds, Holds
  <2> QED BY <1>3, <2>1, FileStep DEF Fill, Goto
<1> QED BY <1>1, <1>2, <1>3

LEMMA VerifyKeeps ==
  ASSUME EInv, NEW c \in Call, Verify(c)
  PROVE  Kept'
<1>1. CASE UNCHANGED <<lockVars, stage>> /\ Goto(c, "done") /\ Forget({c})
  <2>1. OthersHold(c)
    BY <1>1, NoLockStep
  <2>2. /\ DOMAIN seen' = Call /\ DOMAIN token' = Call
        /\ \A d \in Call \ {c} : seen'[d] = seen[d] /\ token'[d] = token[d]
    BY <1>1 DEF Forget
  <2> QED BY <1>1, <2>1, <2>2, Walks DEF Verify, Goto, EInv, Shape, Places
<1>2. CASE /\ stage' = [stage EXCEPT ![c] = "do"] /\ Ask(<<c, "do", Worktree>>)
           /\ Goto(c, "worktree") /\ UNCHANGED <<token, seen>>
  <2>1. <<c, "do", Worktree>> \in Request /\ <<c, "do", Worktree>>[1] = c
    BY Requests DEF EInv
  <2>2. OthersHold(c)
    BY <1>2, <2>1, LockStep DEF EInv
  <2>3. Kinds' /\ Holds' /\ at' \in [Call -> Places] /\ stage' \in [Call -> {"look", "do"}]
    BY <1>2, <2>2, Moves DEF Goto, Places
  <2>4. NoLostEdit' /\ CommitSeesNoHalfEdit'
    BY <1>2, DataKept DEF Verify, Goto, Places
  <2> QED BY <1>2, <2>3, <2>4 DEF Verify, Kept, Shape, EInv
<1> QED BY <1>1, <1>2 DEF Verify

LEMMA OtherSteps ==
  ASSUME EInv, Restart \/ \E r \in Request : Background(r)
  PROVE  Kept'
<1>1. CASE Restart
  <2>1. /\ \A c \in Call : at'[c] \in {"idle", "done"}
        /\ at' \in [Call -> Places] /\ DOMAIN seen' = Call /\ DOMAIN token' = Call
        /\ UNCHANGED <<tree, stage>>
    BY <1>1 DEF Restart, Forget, Places
  <2> QED BY <2>1 DEF Kept, EInv, Shape, Kinds, Holds, NoLostEdit, CommitSeesNoHalfEdit
<1>2. ASSUME NEW r \in Request, Background(r) PROVE Kept'
  <2>1. \A q \in Request : caller[q] = "holding" => caller'[q] = "holding"
    BY <1>2 DEF Background, Goroutine, MutexRLock, MutexAnnounce, MutexLock, Cleanup, Release,
                EInv, LInv, LocksTypeOK
  <2>2. UNCHANGED <<file, temps, tree, at, stage, token, seen>>
    BY <1>2 DEF Background, editVars
  <2>3. \A c \in Call : On(c, Worktree) \in Request /\ (Kind[c] # "commit" => On(c, File) \in Request)
    BY Requests DEF EInv
  <2>4. Holds'
    BY <2>1, <2>2, <2>3 DEF EInv, Holds, Kinds, On
  <2> QED BY <2>2, <2>4 DEF Kept, EInv, Shape, Kinds, NoLostEdit, CommitSeesNoHalfEdit
<1> QED BY <1>1, <1>2

------------------------------------------------------------------------------
LEMMA InitEInv == Init => EInv
<1> SUFFICES ASSUME Init PROVE EInv
  OBVIOUS
<1>1. LInv
  BY InitLInv DEF Init
<1>2. Shape /\ Kinds /\ Holds /\ NoLostEdit /\ CommitSeesNoHalfEdit
  BY EditsAssumption DEF Init, Shape, Kinds, Holds, NoLostEdit, CommitSeesNoHalfEdit, Places
<1> QED BY <1>1, <1>2 DEF EInv

LEMMA NextEInv == EInv /\ [Next]_vars => EInv'
<1> SUFFICES ASSUME EInv, [Next]_vars PROVE EInv'
  OBVIOUS
<1>1. LInv'
  BY StepOfLocks, NextLInv DEF EInv
<1>2. CASE UNCHANGED vars
  BY <1>1, <1>2 DEF vars, lockVars, editVars, EInv, Shape, Kinds, Holds, NoLostEdit,
                    CommitSeesNoHalfEdit, On
<1>3. CASE Next
  <2>1. Kept'
    BY <1>3, LockSteps, WalkSteps, MatchKeeps, StageKeeps, FileSteps, VerifyKeeps, OtherSteps
       DEF Next, CallStep
  <2> QED BY <1>1, <2>1 DEF Kept, EInv
<1> QED BY <1>2, <1>3

THEOREM AlwaysEInv == Spec => []EInv
BY InitEInv, NextEInv, PTL DEF Spec

(* No edit is lost under another, for any calls, texts and faults           *)
(* (filesystem.go 574-616, register.go 204-222).                            *)
THEOREM EditsKept == Spec => []NoLostEdit
<1>1. EInv => NoLostEdit
  BY DEF EInv
<1> QED BY AlwaysEInv, <1>1, PTL

(* A commit never has an edit half made in its tree, and nothing changes    *)
(* under it (coordination.go 13-33, manager.go 318-331).                    *)
THEOREM CommitsWhole == Spec => []CommitSeesNoHalfEdit
<1>1. EInv => CommitSeesNoHalfEdit
  BY DEF EInv
<1> QED BY AlwaysEInv, <1>1, PTL

(* The file tools use the tables of locks as requests of locks.go would, so *)
(* that what is proved of the locks holds of them.                          *)
THEOREM UsesLocks == Spec => LocksSpec
<1>1. Init => LocksInit
  BY DEF Init
<1>2. EInv /\ [Next]_vars => [LocksNext]_lockVars
  BY StepOfLocks DEF EInv
<1> QED BY <1>1, <1>2, AlwaysEInv, PTL DEF Spec, LocksSpec

THEOREM EditsExclude == Spec => []Exclusion
BY UsesLocks, Excludes, PTL

THEOREM EditsCount == Spec => []EntriesCounted
BY UsesLocks, Counts, PTL

------------------------------------------------------------------------------
(* Types, and that only a call of this session has begun. *)

Begun == \A c \in Call : at[c] # "idle" => c \in calls

Values ==
  /\ calls \in Session /\ temps \subseteq calls /\ ended \subseteq calls
  /\ fate \in [Call -> {"ok", "failed"}]
  /\ token \in [Call -> tokens \cup {NoToken}] /\ approved \in tokens \cup {NoToken}
  /\ faults \in 0..Faults

(* A step that hands out no revision and ends no call. *)
LEMMA StepValues ==
  ASSUME EInv, Values, Begun, NEW c \in Call,
         \/ Begin(c) \/ EndContext(c) \/ Selected(c) \/ LockFile(c) \/ GiveUp(c)
         \/ Read(c) \/ Match(c) \/ Rename(c) \/ Create(c) \/ Fill(c) \/ Stage(c) \/ Commit(c)
         \/ LeaveFile(c) \/ LeaveWorktree(c)
  PROVE  Values' /\ Begun'
<1>1. /\ at \in [Call -> Places] /\ Faults \in Nat
      /\ UNCHANGED <<calls, tokens, approved>>
      /\ c \in calls
  BY EditsAssumption DEF EInv, Shape, Begun, Begin, EndContext, Selected, LockFile, GiveUp, Read,
     Match, Rename, Create, Fill, Stage, Commit, LeaveFile, LeaveWorktree, Inside, editVars
<1>2. \/ at' = at
      \/ \E p \in Places : Goto(c, p)
  BY DEF Begin, EndContext, Selected, LockFile, GiveUp, Read, Match, Rename, Create, Fill,
     Stage, Commit, LeaveFile, LeaveWorktree, Goto, editVars, Places
<1>3. Begun'
  BY <1>1, <1>2 DEF Begun, Goto
<1>4. temps' \subseteq calls /\ ended' \subseteq calls
  BY <1>1 DEF Values, Begin, EndContext, Selected, LockFile, GiveUp, Read, Match, Rename, Create,
     Fill, Stage, Commit, LeaveFile, LeaveWorktree, editVars
<1>5. fate' \in [Call -> {"ok", "failed"}]
  <2>1. fate' = fate \/ Went(c, "ok") \/ Went(c, "failed")
    BY DEF Begin, EndContext, Selected, LockFile, GiveUp, Read, Match, Rename, Create,
       Fill, Stage, Commit, LeaveFile, LeaveWorktree, editVars
  <2> QED  BY <2>1 DEF Values, Went
<1>6. token' \in [Call -> tokens \cup {NoToken}]
  <2>1. token' = token \/ \E t \in tokens \cup {NoToken} : token' = [token EXCEPT ![c] = t]
    BY DEF Begin, EndContext, Selected, LockFile, GiveUp, Read, Match, Rename, Create,
       Fill, Stage, Commit, LeaveFile, LeaveWorktree, editVars
  <2> QED  BY <2>1 DEF Values
<1>7. faults' \in 0..Faults
  <2>1. faults' = faults \/ Fault
    BY DEF Begin, EndContext, Selected, LockFile, GiveUp, Read, Match, Rename, Create,
       Fill, Stage, Commit, LeaveFile, LeaveWorktree, editVars, Fault
  <2> QED  BY <1>1, <2>1 DEF Values, Fault
<1> QED  BY <1>1, <1>3, <1>4, <1>5, <1>6, <1>7 DEF Values

LEMMA EndValues ==
  ASSUME EInv, Values, Begun, NEW c \in Call, Verify(c) \/ Finish(c)
  PROVE  Values' /\ Begun'
<1>1. at \in [Call -> Places] /\ c \in calls
  BY DEF EInv, Shape, Begun, Verify, Finish, Left
<1>2. /\ Goto(c, "worktree") \/ Goto(c, "done")
      /\ UNCHANGED <<calls, temps, ended, faults>>
  BY DEF Verify, Finish
<1>3. Begun'
  BY <1>1, <1>2 DEF Begun, Goto
<1>4. fate' \in [Call -> {"ok", "failed"}]
  BY DEF Values, Verify, Finish, Forget, Went
<1>5. tokens \subseteq tokens' /\ token' \in [Call -> tokens \cup {NoToken}]
  BY DEF Values, Verify, Finish, Forget
<1>6. approved' \in tokens' \cup {NoToken}
  <2>1. CASE Verify(c)
    BY <2>1 DEF Values, Verify
  <2>2. CASE Finish(c)
    BY <2>2 DEF Values, Finish
  <2> QED  BY <2>1, <2>2
<1>7. token' \in [Call -> tokens' \cup {NoToken}]
  BY <1>5
<1> QED  BY <1>2, <1>3, <1>4, <1>6, <1>7 DEF Values

LEMMA NextValues ==
  ASSUME EInv, Values, Begun, [Next]_vars
  PROVE  Values' /\ Begun'
<1>1. CASE UNCHANGED vars
  BY <1>1 DEF vars, editVars, Values, Begun
<1>2. CASE \E r \in Request : Background(r)
  BY <1>2 DEF Background, editVars, Values, Begun
<1>3. CASE Restart
  BY <1>3, EditsAssumption DEF Restart, Forget, Fault, Values, Begun
<1>4. CASE \E c \in Call : Begin(c) \/ EndContext(c) \/ CallStep(c)
  BY <1>4, StepValues, EndValues DEF CallStep
<1> QED  BY <1>1, <1>2, <1>3, <1>4 DEF Next

(* Every reachable state is well typed; only revisions that a read returned *)
(* are ever approved, whatever edits adopt, skip or consume (filesystem.go  *)
(* 95-180).                                                                 *)
THEOREM EditsTyped == Spec => []TypeOK
<1>1. Init => Values /\ Begun
  BY EditsAssumption DEF Init, Values, Begun
<1>2. EInv /\ Values /\ Begun /\ [Next]_vars => Values' /\ Begun'
  BY NextValues
<1>3. EInv /\ Values => TypeOK
  BY DEF EInv, LInv, Shape, Places, Values, TypeOK
<1> QED  BY <1>1, <1>2, <1>3, AlwaysEInv, PTL DEF Spec

------------------------------------------------------------------------------
(* The search of an edit, for every text and every block: Knuth, Morris and *)
(* Pratt's scan of the lines, and strings.Count before it.                  *)

(* Induction on a number, by the least one that would refute it.            *)
LEMMA LeastOf ==
  ASSUME NEW n \in Nat, NEW S \in SUBSET (0..n), S # {}
  PROVE  \E x \in S : \A y \in S : x <= y
<1> DEFINE F == {0..x : x \in S}
<1>1. F \subseteq FiniteSubsetsOf(0..n)
  <2> SUFFICES ASSUME NEW x \in S PROVE 0..x \in SUBSET (0..n) /\ IsFiniteSet(0..x)
    BY DEF FiniteSubsetsOf
  <2>1. x \in Int /\ 0 \in Int /\ x <= n
    OBVIOUS
  <2> QED BY <2>1, FS_Interval
<1>2. PICK B \in F : \A C \in F : <<C, B>> \notin StrictSubsetOrdering(0..n)
  <2>1. F # {}
    OBVIOUS
  <2> QED BY <1>1, <2>1, FS_StrictSubsetOrderingWellFounded, WFMin
<1>3. PICK x \in S : B = 0..x
  OBVIOUS
<1>4. ASSUME NEW y \in S, y < x PROVE FALSE
  <2>1. 0..y \in F /\ 0..y \in SUBSET (0..n) /\ 0..x \in SUBSET (0..n)
    OBVIOUS
  <2>2. 0..y \subseteq 0..x /\ x \in 0..x /\ x \notin 0..y
    BY <1>4
  <2> QED BY <1>2, <1>3, <2>1, <2>2 DEF StrictSubsetOrdering
<1> QED BY <1>4

LEMMA GreatestOf ==
  ASSUME NEW n \in Nat, NEW S \in SUBSET (0..n), S # {}
  PROVE  \E j \in S : \A k \in S : k <= j
<1> DEFINE R == {n - k : k \in S}
<1>1. R \in SUBSET (0..n) /\ R # {}
  OBVIOUS
<1>2. PICK r \in R : \A k \in R : r <= k
  BY <1>1, LeastOf
<1>3. PICK j \in S : r = n - j
  OBVIOUS
<1>4. ASSUME NEW k \in S PROVE k <= j
  <2>1. n - k \in R
    OBVIOUS
  <2>2. n - j <= n - k
    BY <1>2, <1>3, <2>1
  <2>3. j \in Int /\ k \in Int
    OBVIOUS
  <2> QED BY <2>2, <2>3
<1> QED BY <1>4

(* The last k of the first i lines of the text are the first k of the block.*)
Ends(text, i, block, k) ==
  /\ k \in 0..Len(block) /\ k <= i
  /\ \A p \in 1..k : block[p] = text[i - k + p]

(* No more of them, up to a bound, are. *)
Longest(text, i, block, bound, k) ==
  /\ k \in 0..bound /\ Ends(text, i, block, k)
  /\ \A l \in 0..bound : Ends(text, i, block, l) => l <= k

RightUpTo(block, prefix, n) ==
  \A i \in 1..n : Longest(block, i, block, i - 1, prefix[i])

LEMMA EndsWithin ==
  ASSUME NEW W, NEW text \in Seq(W), NEW block \in Seq(W), NEW i \in 0..Len(text),
         NEW k \in Nat, Ends(text, i, block, k), NEW l \in 0..k
  PROVE  Ends(text, i, block, l) <=> Ends(block, k, block, l)
<1>1. l \in 0..Len(block) /\ l <= i /\ k \in 0..Len(block) /\ k <= i
  BY DEF Ends
<1>2. ASSUME NEW p \in 1..l PROVE block[k - l + p] = text[i - l + p]
  <2>1. k - l + p \in 1..k /\ i - k + (k - l + p) = i - l + p
    BY <1>1
  <2> QED BY <2>1 DEF Ends
<1> QED BY <1>1, <1>2 DEF Ends

LEMMA EndsNext ==
  ASSUME NEW W, NEW text \in Seq(W), NEW block \in Seq(W), NEW i \in 1..Len(text),
         NEW k \in 1..Len(block)
  PROVE  Ends(text, i, block, k) <=> Ends(text, i - 1, block, k - 1) /\ block[k] = text[i]
<1>1. \A p \in 1..k - 1 : (i - 1) - (k - 1) + p = i - k + p
  OBVIOUS
<1>2. i - k + k = i /\ k - 1 \in 0..Len(block) /\ (k - 1 <= i - 1 <=> k <= i)
  OBVIOUS
<1>3. \A p : p \in 1..k <=> p \in 1..k - 1 \/ p = k
  OBVIOUS
<1>4. (\A p \in 1..k : block[p] = text[i - k + p])
        <=> (\A p \in 1..k - 1 : block[p] = text[(i - 1) - (k - 1) + p]) /\ block[k] = text[i]
  BY <1>1, <1>2, <1>3
<1>5. k \in 0..Len(block)
  OBVIOUS
<1> QED BY <1>2, <1>4, <1>5 DEF Ends

LEMMA LongestUnique ==
  ASSUME NEW text, NEW i, NEW block, NEW bound \in Nat, NEW k, NEW l,
         Longest(text, i, block, bound, k), Longest(text, i, block, bound, l)
  PROVE  k = l
<1>1. k \in 0..bound /\ l \in 0..bound /\ k <= l /\ l <= k
  BY DEF Longest
<1> QED BY <1>1

LEMMA LongestExists ==
  ASSUME NEW text, NEW i \in Nat, NEW block, Len(block) \in Nat, NEW bound \in Nat
  PROVE  \E k : Longest(text, i, block, bound, k)
<1> DEFINE S == {k \in 0..bound : Ends(text, i, block, k)}
<1>1. 0 \in S
  BY DEF Ends
<1>2. S \in SUBSET (0..bound) /\ S # {}
  BY <1>1
<1>3. PICK k \in S : \A l \in S : l <= k
  BY <1>2, GreatestOf
<1> QED BY <1>3 DEF Longest

(* How many of k matched lines still are when the next must be "line".      *)
Falls(block, line, k, f) ==
  /\ f \in 0..k /\ Ends(block, k, block, f)
  /\ f = 0 \/ block[f + 1] = line
  /\ \A l \in 0..k : Ends(block, k, block, l) /\ block[l + 1] = line => l <= f

LEMMA FallsUnique ==
  ASSUME NEW block, NEW line, NEW k \in Nat, NEW f, NEW g,
         Falls(block, line, k, f), Falls(block, line, k, g)
  PROVE  f = g
<1>1. f \in 0..k /\ g \in 0..k /\ f <= g /\ g <= f
  BY DEF Falls
<1> QED BY <1>1

LEMMA FallsExists ==
  ASSUME NEW W, NEW block \in Seq(W), NEW line, NEW k \in 0..Len(block)
  PROVE  \E f : Falls(block, line, k, f)
<1> DEFINE S == {f \in 0..k : Ends(block, k, block, f) /\ (f = 0 \/ block[f + 1] = line)}
<1>1. 0 \in S
  BY DEF Ends
<1>2. k \in Nat /\ S \in SUBSET (0..k) /\ S # {}
  BY <1>1
<1>3. PICK f \in S : \A l \in S : l <= f
  BY <1>2, GreatestOf
<1> QED BY <1>3 DEF Falls

(* One step of the fall, and where it stops.                                *)
LEMMA FallsStep ==
  ASSUME NEW W, NEW block \in Seq(W), NEW line, NEW k \in 0..Len(block) - 1
  PROVE  /\ k = 0 \/ line = block[k + 1] => Falls(block, line, k, k)
         /\ \A p, f :
              /\ k > 0 /\ line # block[k + 1]
              /\ Longest(block, k, block, k - 1, p) /\ Falls(block, line, p, f)
              => Falls(block, line, k, f)
<1>1. ASSUME k = 0 \/ line = block[k + 1] PROVE Falls(block, line, k, k)
  BY <1>1 DEF Falls, Ends
<1>2. ASSUME NEW p, NEW f, k > 0, line # block[k + 1],
             Longest(block, k, block, k - 1, p), Falls(block, line, p, f)
      PROVE  Falls(block, line, k, f)
  <2>1. p \in 0..k - 1 /\ Ends(block, k, block, p) /\ f \in 0..p /\ k \in 0..Len(block) /\ p \in Nat
    BY <1>2 DEF Longest, Falls
  <2>2. \A l \in 0..p : Ends(block, k, block, l) <=> Ends(block, p, block, l)
    BY <2>1, EndsWithin
  <2>3. ASSUME NEW l \in 0..k, Ends(block, k, block, l), block[l + 1] = line PROVE l <= f
    <3>1. l \in 0..k - 1
      BY <1>2, <2>3
    <3>2. l <= p
      BY <1>2, <2>3, <3>1 DEF Longest
    <3>3. l \in 0..p
      BY <2>1, <3>1, <3>2
    <3> QED BY <1>2, <2>2, <2>3, <3>3 DEF Falls
  <2>4. f \in 0..k
    BY <2>1
  <2> QED BY <1>2, <2>1, <2>2, <2>3, <2>4 DEF Falls
<1> QED BY <1>1, <1>2

LEMMA FallenRight ==
  ASSUME NEW W, NEW block \in Seq(W), NEW prefix, NEW line, NEW j \in 0..Len(block) - 1,
         RightUpTo(block, prefix, j)
  PROVE  Falls(block, line, j, Fallen(block, prefix, j, line))
<1> DEFINE Fall(f) == [k \in 0..j |->
                         IF k > 0 /\ line # block[k + 1] THEN f[prefix[k]] ELSE k]
           right == [k \in 0..j |-> CHOOSE f : Falls(block, line, k, f)]
           fall == CHOOSE f : f = Fall(f)
<1>1. \A k \in 0..j : k \in 0..Len(block) /\ k \in 0..Len(block) - 1 /\ k \in Nat
  OBVIOUS
<1>2. \A k \in 0..j : Falls(block, line, k, right[k])
  BY <1>1, FallsExists
<1>3. ASSUME NEW k \in 0..j, k > 0
      PROVE  Longest(block, k, block, k - 1, prefix[k]) /\ prefix[k] \in 0..j /\ prefix[k] < k
  <2>1. Longest(block, k, block, k - 1, prefix[k])
    BY <1>3 DEF RightUpTo
  <2> QED BY <2>1 DEF Longest
<1>4. ASSUME NEW k \in 0..j PROVE right[k] = Fall(right)[k]
  <2>1. CASE k > 0 /\ line # block[k + 1]
    <3>1. Falls(block, line, k, right[prefix[k]])
      BY <1>1, <1>2, <1>3, <2>1, FallsStep
    <3>2. right[k] = right[prefix[k]]
      BY <1>1, <1>2, <3>1, FallsUnique
    <3> QED BY <2>1, <3>2
  <2>2. CASE ~ (k > 0 /\ line # block[k + 1])
    <3>1. Falls(block, line, k, k)
      BY <1>1, <2>2, FallsStep
    <3>2. right[k] = k
      BY <1>1, <1>2, <3>1, FallsUnique
    <3> QED BY <2>2, <3>2
  <2> QED BY <2>1, <2>2
<1>5. right = Fall(right)
  BY <1>4
<1>6. fall = Fall(fall)
  <2> HIDE DEF Fall, right
  <2> QED BY <1>5
<1> DEFINE Wrong == {k \in 0..j : ~ Falls(block, line, k, fall[k])}
<1>7. Wrong = {}
  <2> SUFFICES ASSUME Wrong # {} PROVE FALSE
    OBVIOUS
  <2> HIDE DEF fall
  <2>1. j \in Nat /\ Wrong \in SUBSET (0..j)
    OBVIOUS
  <2>2. PICK k \in Wrong : \A l \in Wrong : k <= l
    <3> HIDE DEF Wrong
    <3> QED BY <2>1, LeastOf
  <2>3. k \in 0..j /\ ~ Falls(block, line, k, fall[k])
    OBVIOUS
  <2>4. \A l \in 0..j : l < k => Falls(block, line, l, fall[l])
    BY <2>2, <2>3
  <2>5. fall[k] = IF k > 0 /\ line # block[k + 1] THEN fall[prefix[k]] ELSE k
    BY <1>6, <2>3
  <2> HIDE DEF Wrong, Fall
  <2>6. CASE k > 0 /\ line # block[k + 1]
    BY <1>1, <1>3, <2>3, <2>4, <2>5, <2>6, FallsStep
  <2>7. CASE ~ (k > 0 /\ line # block[k + 1])
    BY <1>1, <2>3, <2>5, <2>7, FallsStep
  <2> QED BY <2>6, <2>7
<1>8. Fallen(block, prefix, j, line) = fall[j]
  BY DEF Fallen
<1> QED BY <1>7, <1>8

(* One more line, of a text or of the block itself.                         *)
LEMMA AdvancedRight ==
  ASSUME NEW W, NEW text \in Seq(W), NEW block \in Seq(W), NEW prefix,
         NEW i \in 1..Len(text), NEW bound \in 0..Len(block) - 1, NEW j,
         Longest(text, i - 1, block, bound, j), RightUpTo(block, prefix, j)
  PROVE  Longest(text, i, block, bound + 1, Advanced(block, prefix, j, text[i]))
<1> DEFINE line == text[i]
           f == Fallen(block, prefix, j, line)
<1>1. /\ j \in 0..Len(block) - 1 /\ j \in Nat /\ j <= bound /\ bound \in Nat
      /\ i - 1 \in 0..Len(text) /\ Ends(text, i - 1, block, j)
  BY DEF Longest
<1>2. Falls(block, line, j, f)
  BY <1>1, FallenRight
<1> HIDE DEF f
<1>3. f \in 0..j /\ f + 1 \in 1..Len(block) /\ f + 1 \in 0..bound + 1 /\ (f + 1) - 1 = f
  BY <1>1, <1>2 DEF Falls
<1>4. \A l \in 0..j : Ends(text, i - 1, block, l) <=> Ends(block, j, block, l)
  BY <1>1, EndsWithin
<1>5. ASSUME NEW l \in 1..bound + 1, Ends(text, i, block, l)
      PROVE  l - 1 <= f /\ block[l] = line /\ l - 1 \in 0..j
  <2>1. l \in 1..Len(block) /\ l - 1 \in 0..bound /\ (l - 1) + 1 = l
    OBVIOUS
  <2>2. Ends(text, i - 1, block, l - 1) /\ block[l] = line
    BY <1>5, <2>1, EndsNext
  <2>3. l - 1 \in 0..j
    <3>1. l - 1 <= j
      BY <2>1, <2>2 DEF Longest
    <3> QED BY <1>1, <2>1, <3>1
  <2> QED BY <1>2, <1>4, <2>1, <2>2, <2>3 DEF Falls
<1>6. CASE line = block[f + 1]
  <2>1. Ends(text, i - 1, block, f)
    BY <1>2, <1>3, <1>4 DEF Falls
  <2>2. Ends(text, i, block, f + 1)
    BY <1>3, <1>6, <2>1, EndsNext
  <2>3. \A l \in 0..bound + 1 : Ends(text, i, block, l) => l <= f + 1
    BY <1>1, <1>3, <1>5
  <2> QED BY <1>3, <1>6, <2>2, <2>3 DEF Longest, Advanced, f
<1>7. CASE line # block[f + 1]
  <2>1. f = 0
    BY <1>2, <1>7 DEF Falls
  <2>2. \A l \in 0..bound + 1 : Ends(text, i, block, l) => l <= 0
    <3> SUFFICES ASSUME NEW l \in 1..bound + 1, Ends(text, i, block, l) PROVE FALSE
      BY <1>1
    <3>1. l - 1 = 0
      BY <1>5, <2>1
    <3>2. l = f + 1
      BY <2>1, <3>1
    <3> QED BY <1>5, <1>7, <3>2
  <2>3. Ends(text, i, block, 0) /\ 0 \in 0..bound + 1
    BY <1>1 DEF Ends
  <2> QED BY <1>7, <2>1, <2>2, <2>3 DEF Longest, Advanced, f
<1> QED BY <1>6, <1>7

LEMMA PrefixRight ==
  ASSUME NEW W, NEW block \in Seq(W), Len(block) > 0
  PROVE  RightUpTo(block, Prefix(block), Len(block))
<1> DEFINE n == Len(block)
           Table(p) == [i \in 1..n |-> IF i = 1 THEN 0 ELSE Advanced(block, p, p[i - 1], block[i])]
           right == [i \in 1..n |-> CHOOSE k : Longest(block, i, block, i - 1, k)]
           prefix == CHOOSE p : p = Table(p)
<1>1. ASSUME NEW p, NEW i \in 2..n, RightUpTo(block, p, i - 1)
      PROVE  Longest(block, i, block, i - 1, Advanced(block, p, p[i - 1], block[i]))
  <2>1. /\ i - 1 \in 1..i - 1 /\ i \in 1..Len(block) /\ i - 2 \in 0..Len(block) - 1
        /\ (i - 1) - 1 = i - 2 /\ (i - 2) + 1 = i - 1
    OBVIOUS
  <2>2. Longest(block, i - 1, block, i - 2, p[i - 1])
    BY <1>1, <2>1 DEF RightUpTo
  <2>3. RightUpTo(block, p, p[i - 1])
    <3>1. p[i - 1] \in 0..i - 2
      BY <2>2 DEF Longest
    <3>2. 1..p[i - 1] \subseteq 1..i - 1
      BY <3>1
    <3> QED BY <1>1, <3>2 DEF RightUpTo
  <2> HIDE DEF n
  <2>4. Longest(block, i, block, (i - 2) + 1, Advanced(block, p, p[i - 1], block[i]))
    BY <2>1, <2>2, <2>3, AdvancedRight
  <2> QED BY <2>1, <2>4
<1>2. \A k : Longest(block, 1, block, 0, k) <=> k = 0
  BY DEF Longest, Ends
<1>3. RightUpTo(block, right, n)
  <2> SUFFICES ASSUME NEW i \in 1..n PROVE Longest(block, i, block, i - 1, right[i])
    BY DEF RightUpTo
  <2>1. i \in Nat /\ i - 1 \in Nat /\ n \in Nat
    OBVIOUS
  <2>2. \E k : Longest(block, i, block, i - 1, k)
    BY <2>1, LongestExists
  <2> QED BY <2>2
<1>4. right = Table(right)
  <2> SUFFICES ASSUME NEW i \in 1..n PROVE right[i] = Table(right)[i]
    OBVIOUS
  <2>1. Longest(block, i, block, i - 1, right[i]) /\ i - 1 \in Nat
    BY <1>3 DEF RightUpTo
  <2>2. CASE i = 1
    <3>1. Table(right)[1] = 0
      OBVIOUS
    <3> HIDE DEF right, Table
    <3> QED BY <1>2, <2>1, <2>2, <3>1
  <2>3. CASE i # 1
    <3>1. i \in 2..n /\ RightUpTo(block, right, i - 1)
      BY <1>3, <2>3 DEF RightUpTo
    <3> HIDE DEF right
    <3>2. right[i] = Advanced(block, right, right[i - 1], block[i])
      BY <1>1, <2>1, <3>1, LongestUnique
    <3> QED BY <2>3, <3>2
  <2> QED BY <2>2, <2>3
<1>5. prefix = Table(prefix)
  <2> HIDE DEF Table, right
  <2> QED BY <1>4
<1> DEFINE Wrong == {i \in 1..n : ~ Longest(block, i, block, i - 1, prefix[i])}
<1>6. Wrong = {}
  <2> SUFFICES ASSUME Wrong # {} PROVE FALSE
    OBVIOUS
  <2> HIDE DEF prefix
  <2>1. n \in Nat /\ Wrong \in SUBSET (0..n)
    OBVIOUS
  <2>2. PICK i \in Wrong : \A l \in Wrong : i <= l
    <3> HIDE DEF Wrong, n
    <3> QED BY <2>1, LeastOf
  <2>3. i \in 1..n /\ ~ Longest(block, i, block, i - 1, prefix[i])
    OBVIOUS
  <2>4. RightUpTo(block, prefix, i - 1)
    <3> SUFFICES ASSUME NEW l \in 1..i - 1 PROVE Longest(block, l, block, l - 1, prefix[l])
      BY DEF RightUpTo
    <3>1. l \in 1..n /\ l < i
      BY <2>3
    <3> QED BY <2>2, <3>1
  <2>5. prefix[i] = IF i = 1 THEN 0 ELSE Advanced(block, prefix, prefix[i - 1], block[i])
    BY <1>5, <2>3
  <2> HIDE DEF Wrong, Table, n
  <2>6. CASE i = 1
    BY <1>2, <2>3, <2>5, <2>6
  <2>7. CASE i # 1
    <3>1. i \in 2..n
      BY <2>3, <2>7
    <3> QED BY <1>1, <2>3, <2>4, <2>5, <2>7, <3>1
  <2> QED BY <2>6, <2>7
<1>7. Prefix(block) = prefix
  BY DEF Prefix
<1> HIDE DEF prefix
<1> QED BY <1>6, <1>7 DEF RightUpTo

(* The places of the block in the first i lines. *)
PlacesIn(text, block, i) == {s \in 1..i - Len(block) + 1 : Block(text, s, Len(block)) = block}

LEMMA EndsAtPlace ==
  ASSUME NEW W, NEW text \in Seq(W), NEW block \in Seq(W), NEW i \in 0..Len(text)
  PROVE  Ends(text, i, block, Len(block)) <=>
           Len(block) <= i /\ Block(text, i - Len(block) + 1, Len(block)) = block
<1> DEFINE n == Len(block)
           s == i - n + 1
<1>1. CASE n > i
  BY <1>1 DEF Ends
<1>2. CASE n <= i
  <2> DEFINE part == Block(text, s, n)
  <2>1. part \in Seq(W) /\ Len(part) = n /\ \A p \in 1..n : part[p] = text[i - n + p]
    <3>1. /\ s \in 1..Len(text) + 1 /\ s + n - 1 = i /\ i \in Nat /\ i <= Len(text)
          /\ n \in Nat /\ \A p \in 1..n : s + p - 1 = i - n + p
      BY <1>2
    <3>2. part = SubSeq(text, s, i)
      BY <3>1 DEF Block
    <3>3. i - s + 1 = n /\ s \in Int /\ \A p \in 1..n : s + p - 1 \in 1..Len(text)
      BY <3>1
    <3> HIDE DEF part, s, n
    <3>4. part = [p \in 1..n |-> text[s + p - 1]]
      BY <3>1, <3>2, <3>3
    <3>5. \A p \in 1..n : part[p] = text[i - n + p] /\ part[p] \in W
      BY <3>1, <3>3, <3>4
    <3>6. part \in [1..n -> W]
      BY <3>4, <3>5
    <3> QED BY <3>1, <3>5, <3>6
  <2>2. Block(text, s, n) = block <=> \A p \in 1..n : block[p] = Block(text, s, n)[p]
    BY <2>1
  <2> QED BY <1>2, <2>1, <2>2 DEF Ends
<1> QED BY <1>1, <1>2

(* One line of the scan. *)
LEMMA ScanStep ==
  ASSUME NEW W, NEW text \in Seq(W), NEW block \in Seq(W), Len(block) > 0,
         NEW prefix, RightUpTo(block, prefix, Len(block)),
         NEW i \in 1..Len(text), NEW matched,
         Longest(text, i - 1, block, Len(block) - 1, matched)
  PROVE  LET j == Advanced(block, prefix, matched, text[i]) IN
         /\ j = Len(block) =>
              /\ Longest(text, i, block, Len(block) - 1, prefix[j])
              /\ PlacesIn(text, block, i) = PlacesIn(text, block, i - 1) \cup {i - j + 1}
         /\ j # Len(block) =>
              /\ Longest(text, i, block, Len(block) - 1, j)
              /\ PlacesIn(text, block, i) = PlacesIn(text, block, i - 1)
<1> DEFINE n == Len(block)
           j == Advanced(block, prefix, matched, text[i])
<1>1. n \in Nat \ {0} /\ n - 1 \in 0..Len(block) - 1 /\ (n - 1) + 1 = n /\ i \in 0..Len(text)
  OBVIOUS
<1>2. Longest(text, i, block, n, j)
  <2>1. RightUpTo(block, prefix, matched)
    <3>1. matched \in 0..n - 1
      BY DEF Longest
    <3>2. 1..matched \subseteq 1..n
      BY <1>1, <3>1
    <3> QED BY <3>2 DEF RightUpTo
  <2>2. Longest(text, i, block, (n - 1) + 1, j)
    <3> HIDE DEF n
    <3> QED BY <1>1, <2>1, AdvancedRight DEF n
  <2> QED BY <1>1, <2>2
<1> HIDE DEF j
<1>3. Ends(text, i, block, n) <=> n <= i /\ Block(text, i - n + 1, n) = block
  BY <1>1, EndsAtPlace
<1>4. \A s : s \in 1..i - n + 1 <=> s \in 1..(i - 1) - n + 1 \/ (s = i - n + 1 /\ n <= i)
  BY <1>1
<1>5. CASE j = n
  <2>1. Ends(text, i, block, n)
    BY <1>2, <1>5 DEF Longest
  <2>2. \A l \in 0..n - 1 : Ends(text, i, block, l) <=> Ends(block, n, block, l)
    <3>1. \A l \in 0..n - 1 : l \in 0..n
      OBVIOUS
    <3> QED BY <1>1, <2>1, <3>1, EndsWithin
  <2>3. Longest(block, n, block, n - 1, prefix[n])
    BY <1>1 DEF RightUpTo
  <2>4. Longest(text, i, block, n - 1, prefix[n])
    BY <2>2, <2>3 DEF Longest
  <2>5. PlacesIn(text, block, i) = PlacesIn(text, block, i - 1) \cup {i - n + 1}
    BY <1>3, <1>4, <2>1 DEF PlacesIn
  <2> QED BY <1>5, <2>4, <2>5 DEF j
<1>6. CASE j # n
  <2>1. j \in 0..n - 1 /\ \A l \in 0..n - 1 : l \in 0..n
    <3>1. j \in 0..n
      BY <1>2 DEF Longest
    <3>2. n \in Nat \ {0}
      BY <1>1
    <3> HIDE DEF n
    <3>3. j \in 0..n - 1
      BY <1>6, <3>1, <3>2
    <3>4. \A l \in 0..n - 1 : l \in 0..n
      BY <3>2
    <3> QED BY <3>3, <3>4
  <2>2. Longest(text, i, block, n - 1, j)
    BY <1>2, <2>1 DEF Longest
  <2>3. ~ Ends(text, i, block, n)
    BY <1>1, <1>2, <2>1 DEF Longest
  <2>4. PlacesIn(text, block, i) = PlacesIn(text, block, i - 1)
    BY <1>3, <1>4, <2>3 DEF PlacesIn
  <2> QED BY <1>6, <2>2, <2>4 DEF j
<1> QED BY <1>5, <1>6

LEMMA ScanRight ==
  ASSUME NEW W, NEW text \in Seq(W), NEW block \in Seq(W), Len(block) > 0
  PROVE  Scan(text, block) = Matches(text, block)
<1> DEFINE n == Len(text)
           m == Len(block)
           prefix == Prefix(block)
           Step(f, i) ==
             LET j == Advanced(block, prefix, f[i - 1].matched, text[i]) IN
             IF j = Len(block)
             THEN [matched |-> prefix[j], starts |-> f[i - 1].starts \cup {i - j + 1}]
             ELSE [matched |-> j, starts |-> f[i - 1].starts]
           Table(f) == [i \in 0..n |-> IF i = 0 THEN [matched |-> 0, starts |-> {}] ELSE Step(f, i)]
           Right(i, r) == /\ r = [matched |-> r.matched, starts |-> PlacesIn(text, block, i)]
                          /\ Longest(text, i, block, m - 1, r.matched)
           right == [i \in 0..n |-> [matched |-> CHOOSE k : Longest(text, i, block, m - 1, k),
                                     starts |-> PlacesIn(text, block, i)]]
           scan == CHOOSE f : f = Table(f)
<1>1. RightUpTo(block, prefix, m) /\ m - 1 \in Nat /\ n \in Nat /\ m \in Nat \ {0}
  BY PrefixRight
<1>2. Right(0, [matched |-> 0, starts |-> {}])
  <2>1. PlacesIn(text, block, 0) = {}
    BY <1>1 DEF PlacesIn
  <2>2. Longest(text, 0, block, m - 1, 0)
    BY <1>1 DEF Longest, Ends
  <2> QED BY <2>1, <2>2
<1>3. ASSUME NEW f, NEW i \in 1..n, Right(i - 1, f[i - 1]) PROVE Right(i, Step(f, i))
  <2> DEFINE j == Advanced(block, prefix, f[i - 1].matched, text[i])
  <2>1. /\ Longest(text, i - 1, block, Len(block) - 1, f[i - 1].matched)
        /\ f[i - 1].starts = PlacesIn(text, block, i - 1)
    BY <1>3
  <2> HIDE DEF prefix
  <2>2. /\ j = Len(block) =>
              /\ Longest(text, i, block, Len(block) - 1, prefix[j])
              /\ PlacesIn(text, block, i) = PlacesIn(text, block, i - 1) \cup {i - j + 1}
        /\ j # Len(block) =>
              /\ Longest(text, i, block, Len(block) - 1, j)
              /\ PlacesIn(text, block, i) = PlacesIn(text, block, i - 1)
    BY <1>1, <2>1, ScanStep
  <2> HIDE DEF j
  <2>3. Step(f, i) = IF j = Len(block)
             THEN [matched |-> prefix[j], starts |-> f[i - 1].starts \cup {i - j + 1}]
             ELSE [matched |-> j, starts |-> f[i - 1].starts]
    BY DEF j
  <2> HIDE DEF Step
  <2>4. CASE j = Len(block)
    <3>1. Step(f, i) = [matched |-> prefix[j], starts |-> PlacesIn(text, block, i)]
      BY <2>1, <2>2, <2>3, <2>4
    <3> QED BY <2>2, <2>4, <3>1
  <2>5. CASE j # Len(block)
    <3>1. Step(f, i) = [matched |-> j, starts |-> PlacesIn(text, block, i)]
      BY <2>1, <2>2, <2>3, <2>5
    <3> QED BY <2>2, <2>5, <3>1
  <2> QED BY <2>4, <2>5
<1>4. ASSUME NEW i \in 0..n, NEW r, NEW s, Right(i, r), Right(i, s) PROVE r = s
  <2>1. r.matched = s.matched
    BY <1>1, <1>4, LongestUnique
  <2> QED BY <1>4, <2>1
<1>5. ASSUME NEW i \in 0..n PROVE Right(i, right[i])
  <2>1. i \in Nat /\ m \in Nat /\ m - 1 \in Nat
    BY <1>1
  <2>2. \E k : Longest(text, i, block, m - 1, k)
    BY <2>1, LongestExists
  <2> QED BY <2>2
<1> HIDE DEF Step, Right, right, m, n, prefix
<1>6. right = Table(right)
  <2>1. ASSUME NEW i \in 0..n PROVE right[i] = Table(right)[i]
    <3>1. CASE i = 0
      BY <1>2, <1>4, <1>5, <3>1
    <3>2. CASE i # 0
      <4>1. i \in 1..n /\ i - 1 \in 0..n
        BY <1>1, <3>2
      <4>2. Right(i, Step(right, i))
        BY <1>3, <1>5, <4>1
      <4> QED BY <1>4, <1>5, <3>2, <4>2
    <3> QED BY <3>1, <3>2
  <2>2. right = [i \in 0..n |-> right[i]]
    BY DEF right
  <2> QED BY <2>1, <2>2
<1>7. scan = Table(scan)
  <2> HIDE DEF Table
  <2> QED BY <1>6
<1> DEFINE Wrong == {i \in 0..n : ~ Right(i, scan[i])}
<1>8. Wrong = {}
  <2> SUFFICES ASSUME Wrong # {} PROVE FALSE
    OBVIOUS
  <2> HIDE DEF scan
  <2>1. n \in Nat /\ Wrong \in SUBSET (0..n)
    BY <1>1
  <2>2. PICK i \in Wrong : \A l \in Wrong : i <= l
    <3> HIDE DEF Wrong
    <3> QED BY <2>1, LeastOf
  <2>3. i \in 0..n /\ ~ Right(i, scan[i])
    OBVIOUS
  <2>4. scan[i] = IF i = 0 THEN [matched |-> 0, starts |-> {}] ELSE Step(scan, i)
    BY <1>7, <2>3
  <2>5. i # 0
    BY <1>2, <2>3, <2>4
  <2>6. i \in 1..n /\ i - 1 \in 0..n /\ i - 1 < i
    BY <1>1, <2>3, <2>5
  <2>7. Right(i - 1, scan[i - 1])
    BY <2>2, <2>6
  <2> QED BY <1>3, <2>3, <2>4, <2>5, <2>6, <2>7
<1>9. Scan(text, block) = scan[n].starts
  BY DEF Scan, Step, prefix, n, scan
<1>10. Right(n, scan[n]) /\ PlacesIn(text, block, n) = Matches(text, block)
  BY <1>1, <1>8 DEF PlacesIn, Matches, n
<1> HIDE DEF scan
<1> QED BY <1>9, <1>10 DEF Right

(* What strings.Count says of the places from line i on.                    *)
Tally(text, block, i, c) ==
  LET after == {q \in Matches(text, block) : q >= i} IN
  /\ c \in Nat
  /\ c = 0 <=> after = {}
  /\ c = 1 => \E p \in after : \A q \in after : q \in p..p + Len(block) - 1

LEMMA TallyStep ==
  ASSUME NEW W, NEW text \in Seq(W), NEW block \in Seq(W), Len(block) > 0,
         NEW i \in 1..Len(text) + 1
  PROVE  LET n == Len(block) IN
         /\ i + n - 1 > Len(text) => Tally(text, block, i, 0)
         /\ i + n - 1 <= Len(text) /\ Block(text, i, n) = block =>
              \A c : Tally(text, block, i + n, c) => Tally(text, block, i, 1 + c)
         /\ i + n - 1 <= Len(text) /\ Block(text, i, n) # block =>
              \A c : Tally(text, block, i + 1, c) => Tally(text, block, i, c)
<1> DEFINE n == Len(block)
           after(k) == {q \in Matches(text, block) : q >= k}
<1>1. /\ n \in Nat \ {0} /\ Len(text) \in Nat
      /\ \A q : q \in Matches(text, block) <=>
                  q \in 1..Len(text) - n + 1 /\ Block(text, q, n) = block
  BY DEF Matches
<1> HIDE DEF n
<1>2. \A q \in Matches(text, block) : q \in 1..Len(text) - n + 1
  BY <1>1
<1>3. ASSUME i + n - 1 > Len(text) PROVE Tally(text, block, i, 0)
  <2>1. after(i) = {}
    BY <1>1, <1>2, <1>3
  <2> QED BY <2>1 DEF Tally
<1>4. ASSUME i + n - 1 <= Len(text), Block(text, i, n) = block,
             NEW c, Tally(text, block, i + n, c)
      PROVE  Tally(text, block, i, 1 + c)
  <2>1. c \in Nat /\ (c = 0 => after(i + n) = {})
    BY <1>4 DEF Tally
  <2>2. i \in after(i)
    BY <1>1, <1>4
  <2>3. ASSUME c = 0, NEW q \in after(i) PROVE q \in i..i + n - 1
    <3>1. q \in Int /\ q >= i /\ ~ (q >= i + n)
      BY <1>2, <2>1, <2>3
    <3> QED BY <1>1, <3>1
  <2> QED BY <2>1, <2>2, <2>3 DEF Tally, n
<1>5. ASSUME i + n - 1 <= Len(text), Block(text, i, n) # block,
             NEW c, Tally(text, block, i + 1, c)
      PROVE  Tally(text, block, i, c)
  <2>1. i \notin Matches(text, block)
    BY <1>1, <1>5
  <2>2. after(i) = after(i + 1)
    BY <1>2, <2>1
  <2> QED BY <1>5, <2>2 DEF Tally
<1> QED BY <1>3, <1>4, <1>5 DEF n

LEMMA CountRight ==
  ASSUME NEW W, NEW text \in Seq(W), NEW block \in Seq(W), Len(block) > 0
  PROVE  Tally(text, block, 1, Count(text, block))
<1> DEFINE n == Len(block)
           last == Len(text) + 1
           Step(f, i) == IF i + n - 1 > Len(text) THEN 0
                         ELSE IF Block(text, i, n) = block THEN 1 + f[i + n] ELSE f[i + 1]
           Solves(f, d) == f = [i \in last - d..last |-> Step(f, i)]
           from == CHOOSE f : f = [i \in 1..last |-> Step(f, i)]
<1>1. n \in Nat \ {0} /\ Len(text) \in Nat /\ last = Len(text) + 1
  OBVIOUS
<1>2. ASSUME NEW f, NEW g, NEW i \in 1..last,
             \A k \in i + 1..last : f[k] = g[k]
      PROVE  Step(f, i) = Step(g, i)
  <2>1. i + n - 1 <= Len(text) => i + n \in i + 1..last /\ i + 1 \in i + 1..last
    BY <1>1
  <2> QED BY <1>1, <1>2, <2>1
<1> HIDE DEF n, last, Step
<1> DEFINE Missing == {d \in 0..Len(text) : ~ \E f : Solves(f, d)}
<1>3. Missing = {}
  <2> SUFFICES ASSUME Missing # {} PROVE FALSE
    OBVIOUS
  <2>1. Missing \in SUBSET (0..Len(text))
    OBVIOUS
  <2>2. PICK d \in Missing : \A e \in Missing : d <= e
    <3> HIDE DEF Missing
    <3> QED BY <1>1, <2>1, LeastOf
  <2>3. d \in 0..Len(text) /\ ~ \E f : Solves(f, d)
    OBVIOUS
  <2>4. CASE d = 0
    <3> DEFINE g == [i \in last - 0..last |-> 0]
    <3>1. \A i \in last - 0..last : i + n - 1 > Len(text)
      BY <1>1
    <3>2. \A i \in last - 0..last : Step(g, i) = 0
      BY <3>1 DEF Step
    <3>3. Solves(g, 0)
      BY <3>2
    <3> QED BY <2>3, <2>4, <3>3
  <2>5. CASE d # 0
    <3>1. d - 1 \in 0..Len(text) /\ d - 1 < d
      BY <1>1, <2>3, <2>5
    <3>2. PICK f : Solves(f, d - 1)
      BY <2>2, <3>1
    <3> DEFINE g == [i \in last - d..last |-> IF i = last - d THEN Step(f, i) ELSE f[i]]
    <3>3. ASSUME NEW i \in last - d..last PROVE g[i] = Step(g, i)
      <4>1. i \in 1..last
        BY <1>1, <2>3
      <4>2. \A k \in i + 1..last : k \in last - d..last /\ k # last - d /\ g[k] = f[k]
        BY <1>1, <2>3
      <4>3. Step(g, i) = Step(f, i)
        <5> HIDE DEF g
        <5> QED BY <1>2, <4>1, <4>2
      <4>4. CASE i = last - d
        BY <4>3, <4>4
      <4>5. CASE i # last - d
        <5>1. i \in last - (d - 1)..last
          BY <1>1, <2>3, <4>5
        <5>2. f[i] = Step(f, i)
          BY <3>2, <5>1
        <5> QED BY <4>3, <4>5, <5>2
      <4> QED BY <4>4, <4>5
    <3>4. Solves(g, d)
      <4>1. g = [i \in last - d..last |-> g[i]]
        OBVIOUS
      <4> HIDE DEF g
      <4> QED BY <3>3, <4>1
    <3> QED BY <2>3, <3>4
  <2> QED BY <2>4, <2>5
<1>4. from = [i \in 1..last |-> Step(from, i)]
  <2>1. Len(text) \in 0..Len(text) /\ last - Len(text) = 1
    BY <1>1
  <2>2. \E f : Solves(f, Len(text))
    BY <1>3, <2>1
  <2>3. \E f : f = [i \in 1..last |-> Step(f, i)]
    BY <2>1, <2>2
  <2> QED BY <2>3
<1> DEFINE Wrong == {d \in 0..Len(text) : ~ Tally(text, block, last - d, from[last - d])}
<1>5. Wrong = {}
  <2> SUFFICES ASSUME Wrong # {} PROVE FALSE
    OBVIOUS
  <2> HIDE DEF from
  <2>1. Wrong \in SUBSET (0..Len(text))
    OBVIOUS
  <2>2. PICK d \in Wrong : \A e \in Wrong : d <= e
    <3> HIDE DEF Wrong
    <3> QED BY <1>1, <2>1, LeastOf
  <2> DEFINE i == last - d
  <2>3. d \in 0..Len(text) /\ ~ Tally(text, block, i, from[i]) /\ i \in 1..last
    BY <1>1
  <2>4. from[i] = Step(from, i)
    BY <1>4, <2>3
  <2>5. ASSUME NEW k \in i + 1..last PROVE Tally(text, block, k, from[k])
    <3>1. last - k \in 0..Len(text) /\ last - k < d /\ last - (last - k) = k
      BY <1>1, <2>3
    <3> QED BY <2>2, <3>1
  <2>6. i + n - 1 <= Len(text) => i + n \in i + 1..last /\ i + 1 \in i + 1..last
    BY <1>1, <2>3
  <2> HIDE DEF i, Wrong
  <2>7. /\ i + n - 1 > Len(text) => Tally(text, block, i, 0)
        /\ i + n - 1 <= Len(text) /\ Block(text, i, n) = block =>
             \A c : Tally(text, block, i + n, c) => Tally(text, block, i, 1 + c)
        /\ i + n - 1 <= Len(text) /\ Block(text, i, n) # block =>
             \A c : Tally(text, block, i + 1, c) => Tally(text, block, i, c)
    BY <2>3, TallyStep DEF n, last
  <2>8. i + n - 1 > Len(text) \/ i + n - 1 <= Len(text)
    BY <1>1, <2>3
  <2> QED BY <2>3, <2>4, <2>5, <2>6, <2>7, <2>8 DEF Step
<1>6. Count(text, block) = from[1]
  BY DEF Count, Step, n, last
<1>7. Len(text) \in 0..Len(text) /\ last - Len(text) = 1
  BY <1>1
<1> HIDE DEF from
<1> QED BY <1>5, <1>6, <1>7

LEMMA NormalizedText ==
  ASSUME NEW W, NEW text \in Seq(W)
  PROVE  Normalized(text) \in Seq({l[1] : l \in W}) /\ Len(Normalized(text)) = Len(text)
<1>1. Normalized(text) \in [1..Len(text) -> {l[1] : l \in W}]
  BY DEF Normalized
<1> QED BY <1>1

(* The scan up to spacing finds every place of a block in a text, and no    *)
(* other, overlapping places included (filesystem.go 616-650).              *)
THEOREM ScanFindsEvery == \A W : ScanIsExact(Seq(W), Seq(W) \ {<<>>})
<1> SUFFICES ASSUME NEW W, NEW text \in Seq(W), NEW block \in Seq(W) \ {<<>>}
             PROVE  Scan(Normalized(text), Normalized(block))
                      = Matches(Normalized(text), Normalized(block))
  BY DEF ScanIsExact
<1>1. Len(block) > 0
  OBVIOUS
<1> QED BY <1>1, NormalizedText, ScanRight

(* What replaces a text is that text with the one match replaced.           *)
LEMMA EditedMeans ==
  ASSUME NEW W, NEW text \in Seq(W), NEW search \in Seq(W), search # <<>>, NEW replace,
         NEW to \in Edited(text, search, replace)
  PROVE  \E i \in DOMAIN text : /\ OnlyMatch(text, search, i)
                                /\ i + Len(search) - 1 <= Len(text)
                                /\ to = Spliced(text, i, Len(search), replace)
<1> DEFINE n == Len(search)
           exact == Matches(text, search)
           close == Matches(Normalized(text), Normalized(search))
           starts == Scan(Normalized(text), Normalized(search))
<1>1. n \in Nat \ {0} /\ Len(text) \in Nat /\ DOMAIN text = 1..Len(text)
  OBVIOUS
<1>2. Tally(text, search, 1, Count(text, search))
  BY <1>1, CountRight
<1>3. starts = close
  BY ScanFindsEvery DEF ScanIsExact
<1>4. \A q \in exact \cup close : q \in 1..Len(text) /\ q + n - 1 <= Len(text) /\ q >= 1
  <2>1. Len(Normalized(text)) = Len(text) /\ Len(Normalized(search)) = n
    BY NormalizedText
  <2>2. exact \cup close \subseteq 1..Len(text) - n + 1
    BY <2>1 DEF Matches
  <2> HIDE DEF exact, close, n
  <2> QED BY <1>1, <2>2
<1>5. CASE Count(text, search) = 1
  <2> DEFINE first == CHOOSE i \in exact : \A k \in exact : i <= k
  <2>1. PICK p \in exact : \A q \in exact : q \in p..p + n - 1
    BY <1>2, <1>4, <1>5 DEF Tally
  <2>2. first \in exact /\ \A k \in exact : first <= k
    <3>1. \A k \in exact : p <= k
      BY <1>4, <2>1
    <3> HIDE DEF exact
    <3> QED BY <3>1
  <2>3. first = p
    <3> HIDE DEF first, exact
    <3> QED BY <1>4, <2>1, <2>2
  <2>4. OnlyMatch(text, search, p)
    BY <2>1 DEF OnlyMatch
  <2>5. to = Spliced(text, p, n, replace)
    BY <1>5, <2>3 DEF Edited
  <2> QED BY <1>1, <1>4, <2>4, <2>5
<1>6. CASE Count(text, search) # 1
  <2>1. PICK i : starts = {i} /\ to = Spliced(text, i, n, replace) /\ Count(text, search) = 0
    BY <1>6 DEF Edited
  <2>2. exact = {}
    BY <1>2, <1>4, <2>1 DEF Tally
  <2>3. OnlyMatch(text, search, i) /\ i \in close
    BY <1>3, <2>1, <2>2 DEF OnlyMatch
  <2> QED BY <1>1, <1>4, <2>1, <2>3
<1> QED BY <1>5, <1>6

LEMMA SplicedText ==
  ASSUME NEW W, NEW text \in Seq(W), NEW block \in Seq(W), NEW n \in Nat, NEW i \in 1..Len(text),
         i + n - 1 <= Len(text)
  PROVE  Spliced(text, i, n, block) \in Seq(W)
<1>1. SubSeq(text, 1, i - 1) \in Seq(W)
  OBVIOUS
<1>2. SubSeq(text, i + n, Len(text)) \in Seq(W)
  OBVIOUS
<1> QED BY <1>1, <1>2 DEF Spliced

------------------------------------------------------------------------------
(* The file is a text of lines all along. *)

Text == Seq(Line \cup {<<"no file", 0>>, <<"half", 0>>})

LEMMA BlocksAreTexts ==
  /\ FileAtStart \subseteq Text /\ Half \in Text
  /\ \A c \in Call : Search[c] \in Text /\ Replace[c] \in Text
                     /\ (Kind[c] = "edit" => Search[c] # <<>>)
<1>1. NoFile \in Text /\ Half \in Text
  BY DEF NoFile, Half, Text
<1>2. ASSUME NEW s \in Seq(Line) PROVE s \in Text
  <2> DEFINE L == Line \cup {<<"no file", 0>>, <<"half", 0>>}
  <2>1. Line \subseteq L
    OBVIOUS
  <2> HIDE DEF L
  <2>2. s \in Seq(L)
    BY <2>1
  <2> QED BY <2>2 DEF Text, L
<1> QED BY <1>1, <1>2, EditsAssumption

LEMMA TypedFate == TypeOK => DOMAIN fate = Call
BY DEF TypeOK

LEMMA RenameMeans ==
  ASSUME EInv, file \in Text, NEW c \in Call, Rename(c), DOMAIN fate = Call,
         file' # file \/ fate'[c] = "ok"
  PROVE  /\ file' \in Text
         /\ \E i \in DOMAIN file :
              /\ OnlyMatch(file, Search[c], i)
              /\ file' = Spliced(file, i, Len(Search[c]), Replace[c])
<1>1. Kind[c] = "edit" /\ seen[c] = file
  BY DEF EInv, Kinds, NoLostEdit, Rename
<1>2. Search[c] \in Text /\ Replace[c] \in Text /\ Search[c] # <<>>
  BY <1>1, BlocksAreTexts
<1> DEFINE L == Line \cup {<<"no file", 0>>, <<"half", 0>>}
<1>3. file \in Seq(L) /\ Search[c] \in Seq(L) /\ Replace[c] \in Seq(L) /\ Text = Seq(L)
  BY <1>2 DEF Text
<1> HIDE DEF L
<1>4. CASE file' \in Edited(seen[c], Search[c], Replace[c])
  <2>1. PICK i \in DOMAIN file : /\ OnlyMatch(file, Search[c], i)
                                 /\ i + Len(Search[c]) - 1 <= Len(file)
                                 /\ file' = Spliced(file, i, Len(Search[c]), Replace[c])
    BY <1>1, <1>2, <1>3, <1>4, EditedMeans
  <2>2. i \in 1..Len(file) /\ Len(Search[c]) \in Nat
    BY <1>3
  <2>3. file' \in Text
    BY <1>3, <2>1, <2>2, SplicedText
  <2> QED BY <2>1, <2>3
<1>5. CASE Went(c, "failed") /\ file' = file
  BY <1>5 DEF Rename, Went
<1> QED BY <1>4, <1>5 DEF Rename

LEMMA NextText ==
  ASSUME EInv, file \in Text, DOMAIN fate = Call, [Next]_vars
  PROVE  file' \in Text
<1>1. file' = file \/ \E c \in Call : Rename(c) \/ Create(c) \/ Fill(c)
  BY DEF Next, CallStep, Begin, EndContext, Selected, LockFile, GiveUp, Read, Match, Stage, Commit,
         LeaveFile, LeaveWorktree, Verify, Finish, Restart, Background, vars, editVars
<1>2. ASSUME NEW c \in Call, Create(c) \/ Fill(c) PROVE file' \in Text
  BY <1>2, BlocksAreTexts DEF Create, Fill
<1> QED BY <1>1, <1>2, RenameMeans

LEMMA EndsByRename ==
  ASSUME EInv, [Next]_vars, NEW c \in Call, at[c] = "written", at'[c] = "read"
  PROVE  Rename(c)
<1>1. ASSUME NEW d \in Call, Begin(d) \/ EndContext(d) \/ CallStep(d) PROVE Rename(c)
  <2>1. at' = at \/ \E p \in Places : at' = [at EXCEPT ![d] = p]
    BY <1>1 DEF CallStep, Begin, EndContext, Selected, LockFile, GiveUp, Read, Match, Rename,
       Create, Fill, Stage, Commit, LeaveFile, LeaveWorktree, Verify, Finish, Goto, editVars, Places
  <2>2. d = c
    BY <2>1 DEF EInv, Shape
  <2>3. at[d] = "written" /\ at' # at
    BY <2>2
  <2> QED BY <1>1, <2>2, <2>3 DEF CallStep, Begin, EndContext, Selected, LockFile, GiveUp, Read,
       Match, Create, Fill, Stage, Commit, LeaveFile, LeaveWorktree, Verify, Finish, Inside, Left,
       editVars, On
<1>2. CASE Restart
  BY <1>2 DEF Restart
<1>3. CASE UNCHANGED at
  BY <1>3
<1> QED BY <1>1, <1>2, <1>3 DEF Next, vars, editVars, Background

(* An edit replaces the one place its block can mean, exactly or else up to *)
(* spacing, and nothing else, whatever the text, the block and the other    *)
(* calls (filesystem.go 587-662).                                           *)
THEOREM EditsMean == Spec => EditsTheOnlyMatch
<1>1. Init => file \in Text
  BY BlocksAreTexts DEF Init
<1>2. EInv /\ TypeOK /\ file \in Text /\ [Next]_vars => (file \in Text)'
  BY NextText, TypedFate
<1>3. EInv /\ TypeOK /\ file \in Text /\ [Next]_vars =>
        [\A c \in Call : at[c] = "written" /\ at'[c] = "read" /\ fate'[c] = "ok" =>
           \E i \in DOMAIN file :
             /\ OnlyMatch(file, Search[c], i)
             /\ file' = Spliced(file, i, Len(Search[c]), Replace[c])]_at
  BY EndsByRename, RenameMeans, TypedFate
<1> QED  BY <1>1, <1>2, <1>3, AlwaysEInv, EditsTyped, PTL DEF Spec, EditsTheOnlyMatch
=============================================================================
