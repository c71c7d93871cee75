---------------------- MODULE CommissioningWindowProofs ----------------------
(***************************************************************************)
(* Proofs about the commissioning lock and the window, for every set of    *)
(* connections and callers and every bound.                                *)
(*                                                                         *)
(* MutualExclusion is not inductive: LockOwned adds that the holder has    *)
(* the current generation, and that a connection whose deferred release is *)
(* still to come has an older one as soon as somebody else has the lock.   *)
(* With it, ValidatedHolds shows that the zone type and the slot a         *)
(* connection validated are still free when it registers its zone.         *)
(*                                                                         *)
(* That the parts of the window agree when nothing is under way needs what *)
(* holds in the middle of a procedure (Underway): what its sections so far *)
(* have set, and that a device found without zones still has none.         *)
(***************************************************************************)
EXTENDS CommissioningWindow, FiniteSetTheorems, TLAPS

USE ConstantsAssumption

-----------------------------------------------------------------------------
(* Types. *)

\* The initial state is well typed.
LEMMA InitTypeOK == Init => TypeOK
<1> SUFFICES ASSUME Init PROVE TypeOK
  OBVIOUS
<1>1. idleDevice \in [Procs -> BOOLEAN]
  <2>1. FALSE \in BOOLEAN
    OBVIOUS
  <2> QED
    BY <2>1 DEF Init
<1>2. clash \in BOOLEAN
  BY DEF Init
<1> QED
  BY <1>1, <1>2 DEF Init, TypeOK, Places

\* The history variable and the count a closing goroutine reads are Booleans.
LEMMA BeginType ==
    ASSUME NEW p \in Procs, TypeOK, Begin(p)
    PROVE  clash' \in BOOLEAN
BY DEF Begin, TypeOK

\* What a closing goroutine reads is a Boolean.
LEMMA IdleDeviceType ==
    ASSUME NEW p \in Procs, TypeOK
    PROVE  [idleDevice EXCEPT ![p] = Paired = {}] \in [Procs -> BOOLEAN]
<1>1. (Paired = {}) \in BOOLEAN
  OBVIOUS
<1> QED
  BY <1>1 DEF TypeOK

\* A goroutine goes from one place to another.
LEMMA GotoType ==
    ASSUME TypeOK, NEW p \in Procs, NEW place \in Places, Goto(p, place)
    PROVE  pc' \in [Procs -> Places]
BY DEF Goto, TypeOK

\* Sections of opening and closing keep the types.
LEMMA ContinueTypeOK ==
    ASSUME TypeOK, NEW p \in Procs, Continue(p)
    PROVE  TypeOK'
<1> USE DEF Places, Opening, Closing, Locked
<1>1. CASE EnterCommissioningMode(p)
  BY <1>1, BeginType, GotoType DEF TypeOK, EnterCommissioningMode, lock
<1>2. CASE OpenListener(p)
  BY <1>2, GotoType DEF TypeOK, OpenListener, lock, locals
<1>3. CASE OpenDiscovery(p)
  <2>1. gate' \in BOOLEAN /\ advertised' \in BOOLEAN
    BY <1>3 DEF TypeOK, OpenDiscovery
  <2>2. armed' \in BOOLEAN
    BY <1>3 DEF TypeOK, OpenDiscovery
  <2>4. timerEpoch' \in Nat
    BY <1>3 DEF TypeOK, OpenDiscovery
  <2>3. pc' \in [Procs -> Places]
    BY <1>3, GotoType DEF OpenDiscovery
  <2> QED
    BY <1>3, <2>1, <2>2, <2>3, <2>4 DEF TypeOK, OpenDiscovery, lock, locals
<1>4. CASE CloseGate(p)
  BY <1>4, GotoType DEF TypeOK, CloseGate, lock, locals
<1>5. CASE CloseListener(p)
  <2>1. listener' \in BOOLEAN
    BY <1>5 DEF CloseListener
  <2> QED
    BY <1>5, <2>1, GotoType DEF TypeOK, CloseListener, lock, locals
<1>6. CASE CloseDiscovery(p)
  BY <1>6, GotoType DEF TypeOK, CloseDiscovery, lock, locals
<1>7. CASE TimeoutDiscovery(p)
  BY <1>7, GotoType DEF TypeOK, TimeoutDiscovery, lock, locals
<1>8. CASE TimeoutGate(p)
  BY <1>8, GotoType, IdleDeviceType DEF TypeOK, TimeoutGate, lock
<1>9. CASE TimeoutListener(p)
  <2>1. listener' \in BOOLEAN
    BY <1>9 DEF TimeoutListener
  <2> QED
    BY <1>9, <2>1, GotoType DEF TypeOK, TimeoutListener, lock, locals
<1> QED
  BY <1>1, <1>2, <1>3, <1>4, <1>5, <1>6, <1>7, <1>8, <1>9 DEF Continue

\* releaseCommissioningConnection keeps the lock's types.
LEMMA ReleaseType ==
    ASSUME TypeOK, NEW c \in Conns, Release(c)
    PROVE  connActive' \in BOOLEAN /\ cooling' \in BOOLEAN /\ generation' \in Nat
<1>1. connActive' \in BOOLEAN
  BY DEF Release
<1>2. cooling' \in BOOLEAN
  BY DEF Release
<1> QED
  BY <1>1, <1>2 DEF Release, TypeOK

\* A connection that fails keeps the types.
LEMMA FailTypeOK ==
    ASSUME TypeOK, NEW c \in Conns, Fail(c)
    PROVE  TypeOK'
<1>1. "idle" \in Places /\ c \in Procs
  BY DEF Places, Procs
<1>2. pc' \in [Procs -> Places]
  BY <1>1, GotoType DEF Fail
<1>3. connActive' \in BOOLEAN /\ cooling' \in BOOLEAN /\ generation' \in Nat
  BY ReleaseType DEF Fail
<1> QED
  BY <1>2, <1>3 DEF TypeOK, Fail, window

\* The steps of a connection keep the types.
LEMMA ProceedTypeOK ==
    ASSUME TypeOK, NEW c \in Conns, Proceed(c)
    PROVE  TypeOK'
<1> USE DEF Places, Opening, Closing, Locked
<1>0. c \in Procs
  BY DEF Procs
<1>1. CASE Accept(c)
  BY <1>0, <1>1, GotoType DEF TypeOK, Accept, window
<1>2. CASE RejectFirst(c)
  BY <1>0, <1>2, GotoType DEF TypeOK, RejectFirst, window, lock, locals
<1>3. CASE PaseFails(c) \/ ExchangeFails(c) \/ Rollback(c)
  BY <1>3, FailTypeOK DEF PaseFails, ExchangeFails, Rollback
<1>4. CASE PaseSucceeds(c)
  BY <1>0, <1>4, GotoType DEF TypeOK, PaseSucceeds, window, lock, locals
<1>5. ASSUME NEW t \in ZoneTypes, Validate(c, t) PROVE TypeOK'
  BY <1>0, <1>5, GotoType DEF TypeOK, Validate, window, lock
<1>6. CASE ExchangeSucceeds(c)
  BY <1>0, <1>6, GotoType DEF TypeOK, ExchangeSucceeds, window, lock, locals
<1>7. CASE EnsureListener(c)
  BY <1>0, <1>7, GotoType, BeginType DEF TypeOK, EnsureListener, lock
<1>8. CASE Register(c)
  <2>1. zones' \in [ZoneTypes -> Nat]
    <3>1. CASE zoneType[c] \in ZoneTypes
      BY <1>8, <3>1 DEF TypeOK, Register
    <3>2. CASE zoneType[c] \notin ZoneTypes
      BY <1>8, <3>2 DEF TypeOK, Register
    <3> QED
      BY <3>1, <3>2
  <2>2. pc' \in [Procs -> Places]
    BY <1>0, <1>8, GotoType DEF Register
  <2> QED
    BY <1>8, <2>1, <2>2 DEF TypeOK, Register, window, lock, locals
<1>9. CASE ExitForEpoch(c)
  <2>1. CASE epoch = ownEpoch[c]
    BY <1>0, <1>9, <2>1, GotoType, BeginType, IdleDeviceType DEF TypeOK, ExitForEpoch, lock
  <2>2. CASE epoch # ownEpoch[c]
    BY <1>0, <1>9, <2>2, GotoType DEF TypeOK, ExitForEpoch, lock
  <2> QED
    BY <2>1, <2>2
<1>10. CASE ReleaseEarly(c)
  BY <1>0, <1>10, GotoType, ReleaseType DEF TypeOK, ReleaseEarly, window, locals
<1>11. CASE ReleaseDeferred(c)
  BY <1>0, <1>11, GotoType, ReleaseType DEF TypeOK, ReleaseDeferred, window
<1> QED
  BY <1>1, <1>2, <1>3, <1>4, <1>5, <1>6, <1>7, <1>8, <1>9, <1>10, <1>11 DEF Proceed

\* Every step keeps the types.
LEMMA NextTypeOK == TypeOK /\ [Next]_vars => TypeOK'
<1> SUFFICES ASSUME TypeOK, [Next]_vars PROVE TypeOK'
  OBVIOUS
<1> USE DEF Places, Opening, Closing, Locked
<1>1. ASSUME NEW p \in Callers, EnterCommissioningMode(p) PROVE TypeOK'
  BY <1>1, BeginType, GotoType DEF TypeOK, EnterCommissioningMode, lock, Procs
<1>2. ASSUME NEW p \in Callers, ExitCommissioningMode(p) PROVE TypeOK'
  BY <1>2, BeginType, GotoType, IdleDeviceType
     DEF TypeOK, ExitCommissioningMode, window, lock, Procs
<1>3. ASSUME NEW p \in Callers, Expire(p) PROVE TypeOK'
  BY <1>3, BeginType, GotoType DEF TypeOK, Expire, lock, Procs
<1>4. ASSUME NEW p \in Callers, NEW t \in ZoneTypes, RemoveZone(p, t) PROVE TypeOK'
  BY <1>4, GotoType DEF TypeOK, RemoveZone, window, lock, locals, Procs
<1>5. ASSUME NEW p \in Procs, Continue(p) PROVE TypeOK'
  BY <1>5, ContinueTypeOK
<1>6. ASSUME NEW c \in Conns, Handshake(c) PROVE TypeOK'
  BY <1>6, GotoType DEF TypeOK, Handshake, window, lock, locals, Procs
<1>7. ASSUME NEW c \in Conns, Proceed(c) PROVE TypeOK'
  BY <1>7, ProceedTypeOK
<1>8. CASE CooldownPasses
  BY <1>8 DEF TypeOK, CooldownPasses, window, locals
<1>9. CASE UNCHANGED vars
  BY <1>9 DEF TypeOK, vars, window, lock, locals
<1> QED
  BY <1>1, <1>2, <1>3, <1>4, <1>5, <1>6, <1>7, <1>8, <1>9 DEF Next

\* Every variable of the commissioning window keeps its type; in particular
\* the number of zones of a type never drops below zero.
THEOREM TypeCorrect == Spec => []TypeOK
<1> QED
  BY InitTypeOK, NextTypeOK, PTL DEF Spec

-----------------------------------------------------------------------------
(* The lock. *)

Outside == {"idle", "first", "released"}

\* Nobody has the lock at the start.
LEMMA InitLockOwned == Init => LockOwned
<1> SUFFICES ASSUME Init PROVE LockOwned
  OBVIOUS
<1>1. \A c \in Conns : pc[c] = "idle" /\ gen[c] = 0
  BY DEF Init, Procs
<1>2. Holders = {}
  BY <1>1 DEF Holders, Locked
<1>3. connActive = FALSE /\ generation = 0
  BY DEF Init
<1> QED
  BY <1>1, <1>2, <1>3 DEF LockOwned

\* A step that leaves the lock alone and takes no connection across its border.
LEMMA LockStable ==
    ASSUME LockOwned, UNCHANGED <<connActive, generation, gen>>,
           \A c \in Conns : /\ pc'[c] \in Outside \cup Locked
                            /\ pc'[c] \in Locked <=> pc[c] \in Locked
                            /\ pc'[c] = "released" => pc[c] = "released"
    PROVE  LockOwned'
<1>1. Holders' = Holders
  BY DEF Holders
<1> QED
  BY <1>1 DEF LockOwned, Outside

\* Nobody but the connection itself moves it.
LEMMA GotoOther ==
    ASSUME TypeOK, NEW p \in Procs, NEW place, Goto(p, place)
    PROVE  /\ pc'[p] = place
           /\ \A q \in Procs \ {p} : pc'[q] = pc[q]
BY DEF TypeOK, Goto

\* A caller's step.
LEMMA CallerKeepsLock ==
    ASSUME TypeOK, LockOwned, NEW p \in Callers, NEW place, Goto(p, place), UNCHANGED lock,
           UNCHANGED gen
    PROVE  LockOwned'
<1>1. \A c \in Conns : pc'[c] = pc[c]
  BY GotoOther DEF Procs
<1> QED
  BY <1>1, LockStable DEF LockOwned, lock, Outside

\* A step of a connection that stays outside or stays inside.
LEMMA ConnKeepsLock ==
    ASSUME TypeOK, LockOwned, NEW c \in Conns, NEW place, Goto(c, place), UNCHANGED lock,
           UNCHANGED gen,
           \/ pc[c] \in Locked /\ place \in Locked
           \/ pc[c] \in {"idle", "first"} /\ place \in {"idle", "first"}
    PROVE  LockOwned'
<1>1. pc'[c] = place /\ \A d \in Conns \ {c} : pc'[d] = pc[d]
  BY GotoOther DEF Procs
<1>2. \A d \in Conns : /\ pc'[d] \in Outside \cup Locked
                       /\ pc'[d] \in Locked <=> pc[d] \in Locked
                       /\ pc'[d] = "released" => pc[d] = "released"
  BY <1>1 DEF LockOwned, Outside, Locked
<1> QED
  BY <1>2, LockStable DEF lock

\* A connection in one of the procedures' sections is closing the window; what
\* it does there changes neither the lock nor its being the holder.
LEMMA ContinueKeepsLock ==
    ASSUME TypeOK, LockOwned, NEW p \in Procs, Continue(p)
    PROVE  LockOwned'
<1>1. \E place : Goto(p, place) /\ UNCHANGED lock /\ UNCHANGED gen
  BY DEF Continue, EnterCommissioningMode, OpenListener, OpenDiscovery, CloseGate,
         CloseListener, CloseDiscovery, TimeoutDiscovery, TimeoutGate, TimeoutListener,
         locals
<1>2. CASE p \in Callers
  BY <1>1, <1>2, CallerKeepsLock
<1>3. CASE p \in Conns
  <2>1. pc[p] \in Outside \cup Locked
    BY <1>3 DEF LockOwned, Outside
  <2>2. CASE CloseListener(p)
    BY <1>3, <2>2, ConnKeepsLock DEF CloseListener, Locked, locals
  <2>3. CASE CloseDiscovery(p)
    BY <1>3, <2>3, ConnKeepsLock DEF CloseDiscovery, Locked, locals
  <2> QED
    BY <1>3, <2>1, <2>2, <2>3
       DEF Outside, Locked, Continue, OpenListener, OpenDiscovery, CloseGate,
           TimeoutDiscovery, TimeoutGate, TimeoutListener
<1> QED
  BY <1>2, <1>3 DEF Procs

\* releaseCommissioningConnection by the holder frees the lock; the connection
\* leaves, and whoever takes the lock next has a newer generation.
LEMMA HolderLeaves ==
    ASSUME TypeOK, LockOwned, NEW c \in Conns, pc[c] \in Locked, NEW place \in Outside,
           Goto(c, place), Release(c), UNCHANGED gen
    PROVE  LockOwned'
<1>1. c \in Holders /\ gen[c] = generation
  BY DEF Holders, LockOwned
<1>2. connActive' = FALSE /\ generation' = generation
  BY <1>1 DEF Release
<1>3. pc'[c] = place /\ \A d \in Conns \ {c} : pc'[d] = pc[d]
  BY GotoOther DEF Procs
<1>4. Holders' = {}
  BY <1>1, <1>3 DEF Holders, LockOwned, Outside, Locked
<1> QED
  BY <1>2, <1>3, <1>4 DEF LockOwned, Outside

\* The deferred release: if somebody has the lock by now it is a newer one.
LEMMA LateRelease ==
    ASSUME TypeOK, LockOwned, NEW c \in Conns, ReleaseDeferred(c)
    PROVE  LockOwned'
<1>1. pc[c] = "released" /\ gen' = gen /\ generation' = generation
  BY DEF ReleaseDeferred, Release
<1>2. pc'[c] = "idle" /\ \A d \in Conns \ {c} : pc'[d] = pc[d]
  BY GotoOther DEF ReleaseDeferred, Procs
<1>3. Holders' = Holders
  BY <1>1, <1>2 DEF Holders, Locked
<1>4. connActive' = connActive
  <2>1. connActive => gen[c] # generation
    BY <1>1 DEF LockOwned, TypeOK
  <2> QED
    BY <2>1 DEF ReleaseDeferred, Release, TypeOK
<1> QED
  BY <1>1, <1>2, <1>3, <1>4 DEF LockOwned

\* acceptCommissioningConnection: the lock was free, so there was no holder.
LEMMA AcceptTakesLock ==
    ASSUME TypeOK, LockOwned, NEW c \in Conns, Accept(c)
    PROVE  LockOwned'
<1>1. Holders = {}
  BY DEF Accept, LockOwned
<1>2. pc'[c] = "handshake" /\ \A d \in Conns \ {c} : pc'[d] = pc[d]
  BY GotoOther DEF Accept, Procs
<1>3. Holders' = {c}
  BY <1>1, <1>2 DEF Holders, Locked
<1>4. gen'[c] = generation' /\ generation' = generation + 1
  BY DEF Accept, TypeOK
<1>5. \A d \in Conns \ {c} : gen'[d] = gen[d] /\ gen[d] < generation'
  BY <1>4 DEF Accept, TypeOK, LockOwned
<1>6. generation' \in Nat /\ connActive' = TRUE
  BY DEF Accept, TypeOK
<1>7. \A d \in Conns : pc'[d] \in Outside \cup Locked
  BY <1>2 DEF LockOwned, Outside, Locked
<1>8. \A d \in Conns : gen'[d] <= generation'
  BY <1>4, <1>5, <1>6 DEF TypeOK
<1>9. \A d \in Conns : pc'[d] = "released" => gen'[d] < generation'
  BY <1>2, <1>5
<1> QED
  BY <1>3, <1>4, <1>6, <1>7, <1>8, <1>9 DEF LockOwned, Outside

\* The steps of a connection, by what each does to the lock.
LEMMA ProceedKeepsLock ==
    ASSUME TypeOK, LockOwned, NEW c \in Conns, Proceed(c)
    PROVE  LockOwned'
<1>1. CASE Accept(c)
  BY <1>1, AcceptTakesLock
<1>2. CASE RejectFirst(c)
  BY <1>2, ConnKeepsLock DEF RejectFirst, locals
<1>3. CASE PaseFails(c) \/ ExchangeFails(c) \/ Rollback(c)
  BY <1>3, HolderLeaves DEF PaseFails, ExchangeFails, Rollback, Fail, Locked, Outside
<1>4. CASE PaseSucceeds(c)
  BY <1>4, ConnKeepsLock DEF PaseSucceeds, Locked, locals
<1>5. ASSUME NEW t \in ZoneTypes, Validate(c, t) PROVE LockOwned'
  BY <1>5, ConnKeepsLock DEF Validate, Locked
<1>6. CASE ExchangeSucceeds(c)
  BY <1>6, ConnKeepsLock DEF ExchangeSucceeds, Locked, locals
<1>7. CASE EnsureListener(c)
  BY <1>7, ConnKeepsLock DEF EnsureListener, Locked
<1>8. CASE Register(c)
  BY <1>8, ConnKeepsLock DEF Register, Locked, locals
<1>9. CASE ExitForEpoch(c)
  BY <1>9, ConnKeepsLock DEF ExitForEpoch, Locked
<1>10. CASE ReleaseEarly(c)
  BY <1>10, HolderLeaves DEF ReleaseEarly, Locked, Outside, locals
<1>11. CASE ReleaseDeferred(c)
  BY <1>11, LateRelease
<1> QED
  BY <1>1, <1>2, <1>3, <1>4, <1>5, <1>6, <1>7, <1>8, <1>9, <1>10, <1>11 DEF Proceed

\* Every step keeps it.
LEMMA NextLockOwned == TypeOK /\ LockOwned /\ [Next]_vars => LockOwned'
<1> SUFFICES ASSUME TypeOK, LockOwned, [Next]_vars PROVE LockOwned'
  OBVIOUS
<1>1. ASSUME NEW p \in Callers,
             \/ EnterCommissioningMode(p) \/ ExitCommissioningMode(p) \/ Expire(p)
             \/ \E t \in ZoneTypes : RemoveZone(p, t)
      PROVE  LockOwned'
  BY <1>1, CallerKeepsLock
     DEF EnterCommissioningMode, ExitCommissioningMode, Expire, RemoveZone, locals
<1>2. ASSUME NEW p \in Procs, Continue(p) PROVE LockOwned'
  BY <1>2, ContinueKeepsLock
<1>3. ASSUME NEW c \in Conns, Handshake(c) PROVE LockOwned'
  BY <1>3, ConnKeepsLock DEF Handshake, locals
<1>4. ASSUME NEW c \in Conns, Proceed(c) PROVE LockOwned'
  BY <1>4, ProceedKeepsLock
<1>5. CASE CooldownPasses
  BY <1>5, LockStable DEF CooldownPasses, LockOwned, Outside, locals
<1>6. CASE UNCHANGED vars
  BY <1>6, LockStable DEF vars, lock, locals, LockOwned, Outside
<1> QED
  BY <1>1, <1>2, <1>3, <1>4, <1>5, <1>6 DEF Next

\* Holders that are all the same are at most one.
LEMMA OneHolder == LockOwned => MutualExclusion
<1> SUFFICES ASSUME LockOwned PROVE Cardinality(Holders) <= 1
  BY DEF MutualExclusion
<1>1. CASE Holders = {}
  BY <1>1, FS_EmptySet
<1>2. ASSUME NEW c \in Holders PROVE Cardinality(Holders) <= 1
  <2>1. Holders = {c}
    BY <1>2 DEF LockOwned
  <2> QED
    BY <2>1, FS_Singleton
<1> QED
  BY <1>1, <1>2

\* At most one connection is commissioning the device at any time, whatever
\* connections are accepted, fail or release the lock twice.
THEOREM LockExclusive == Spec => []MutualExclusion
<1>1. Init => TypeOK /\ LockOwned
  BY InitTypeOK, InitLockOwned
<1>2. TypeOK /\ LockOwned /\ [Next]_vars => (TypeOK /\ LockOwned)'
  BY NextTypeOK, NextLockOwned
<1>3. TypeOK /\ LockOwned => MutualExclusion
  BY OneHolder
<1> QED
  BY <1>1, <1>2, <1>3, PTL DEF Spec

-----------------------------------------------------------------------------
(* The zones. *)

\* The zones registered, numbered within their type.
Slots == {x \in ZoneTypes \X (1..MaxAttempts) : x[2] <= zones[x[1]]}

\* The zones that count are finitely many.
LEMMA SlotsFinite ==
    /\ IsFiniteSet(Slots)
    /\ NonTestCount = Cardinality(Slots)
    /\ NonTestCount \in Nat
<1>1. IsFiniteSet(ZoneTypes \X (1..MaxAttempts))
  <2>1. IsFiniteSet(1..MaxAttempts)
    BY FS_Interval, 1 \in Int, MaxAttempts \in Int
  <2>2. IsFiniteSet(ZoneTypes)
    OBVIOUS
  <2> QED
    BY <2>1, <2>2, FS_Product, Zenon
<1>2. Slots \subseteq ZoneTypes \X (1..MaxAttempts)
  BY DEF Slots
<1>3. IsFiniteSet(Slots)
  BY <1>1, <1>2, FS_Subset
<1>4. NonTestCount = Cardinality(Slots)
  BY DEF NonTestCount, Slots
<1> QED
  BY <1>3, <1>4, FS_CardinalityType

ZonesSafe == ZoneLimits /\ ValidatedHolds

\* There are no zones at the start.
LEMMA InitZonesSafe == Init => ZonesSafe
<1> SUFFICES ASSUME Init PROVE ZonesSafe
  OBVIOUS
<1>1. \A t \in ZoneTypes : zones[t] = 0
  BY DEF Init
<1>2. Slots = {}
  BY <1>1 DEF Slots
<1>3. NonTestCount = 0
  BY <1>2, SlotsFinite, FS_EmptySet
<1>4. \A c \in Conns : pc[c] = "idle"
  BY DEF Init, Procs
<1> QED
  BY <1>1, <1>3, <1>4 DEF ZonesSafe, ZoneLimits, ValidatedHolds, Pending

\* A step that leaves the zones alone and validates nothing.
LEMMA ZonesStable ==
    ASSUME ZonesSafe, UNCHANGED zones,
           \A c \in Conns : pc'[c] \in Pending =>
               pc[c] \in Pending /\ zoneType'[c] = zoneType[c]
    PROVE  ZonesSafe'
<1>1. NonTestCount' = NonTestCount
  BY DEF NonTestCount
<1> QED
  BY <1>1 DEF ZonesSafe, ZoneLimits, ValidatedHolds

\* A goroutine's step to a place where nothing is pending, or from one that is.
LEMMA StepKeepsZones ==
    ASSUME TypeOK, ZonesSafe, NEW p \in Procs, NEW place, Goto(p, place), UNCHANGED zones,
           p \in Conns /\ place \in Pending => pc[p] \in Pending,
           \A c \in Conns \ {p} : zoneType'[c] = zoneType[c],
           p \in Conns /\ place \in Pending => zoneType'[p] = zoneType[p]
    PROVE  ZonesSafe'
<1>1. pc'[p] = place /\ \A q \in Procs \ {p} : pc'[q] = pc[q]
  BY GotoOther
<1>2. \A c \in Conns : pc'[c] \in Pending =>
          pc[c] \in Pending /\ zoneType'[c] = zoneType[c]
  BY <1>1 DEF Procs
<1> QED
  BY <1>2, ZonesStable

\* RemoveZone takes a zone away, and never one that is still to be registered.
LEMMA RemoveKeepsZones ==
    ASSUME TypeOK, ZonesSafe, NEW p \in Callers, NEW t \in ZoneTypes, RemoveZone(p, t)
    PROVE  ZonesSafe'
<1>1. /\ zones' \in [ZoneTypes -> Nat] /\ zones[t] > 0 /\ zones[t] \in Nat
      /\ zones' = [zones EXCEPT ![t] = zones[t] - 1]
  BY DEF RemoveZone, TypeOK
<1>2. \A u \in ZoneTypes : zones'[u] <= zones[u]
  BY <1>1 DEF TypeOK
<1>3. Slots' \subseteq Slots
  BY <1>1, <1>2 DEF Slots, TypeOK
<1>4. NonTestCount' <= NonTestCount /\ NonTestCount' \in Nat
  <2>1. Cardinality(Slots') <= Cardinality(Slots) /\ IsFiniteSet(Slots')
    BY <1>3, SlotsFinite, FS_Subset
  <2>2. NonTestCount' = Cardinality(Slots')
    BY DEF NonTestCount, Slots
  <2> QED
    BY <2>1, <2>2, SlotsFinite, FS_CardinalityType
<1>5. \A c \in Conns : pc'[c] = pc[c] /\ zoneType'[c] = zoneType[c]
  BY GotoOther DEF RemoveZone, locals, Procs
<1>6. \A u \in ZoneTypes : zones[u] = 0 => zones'[u] = 0
  BY <1>1 DEF TypeOK
<1>7. (\A u \in ZoneTypes : zones[u] <= 1)'
  BY <1>1, <1>2 DEF TypeOK, ZonesSafe, ZoneLimits
<1>8. ZoneLimits'
  BY <1>4, <1>7, SlotsFinite DEF ZonesSafe, ZoneLimits
<1>9. ValidatedHolds'
  BY <1>4, <1>5, <1>6, SlotsFinite DEF ZonesSafe, ValidatedHolds
<1> QED
  BY <1>8, <1>9 DEF ZonesSafe

\* Register: the type and the slot are still free, and no other connection
\* has validated its zone.
LEMMA RegisterKeepsZones ==
    ASSUME TypeOK, LockOwned, ZonesSafe, NEW c \in Conns, Register(c)
    PROVE  ZonesSafe'
<1> DEFINE t == zoneType[c]
<1>1. t \in ZoneTypes /\ zones[t] = 0 /\ NonTestCount < MaxZones
  BY DEF Register, Pending, ZonesSafe, ValidatedHolds
<1>2. zones' = [zones EXCEPT ![t] = 1]
  BY <1>1 DEF Register
<1>3. \A d \in Conns : pc'[d] \notin Pending
  <2>1. pc'[c] = "registered" /\ \A d \in Conns \ {c} : pc'[d] = pc[d]
    BY GotoOther DEF Register, Procs
  <2>2. \A d \in Conns \ {c} : pc[d] \notin Locked
    BY DEF LockOwned, Holders, Register, Locked
  <2> QED
    BY <2>1, <2>2 DEF Pending, Locked
<1>4. Slots' \subseteq Slots \cup {<<t, 1>>}
  BY <1>1, <1>2 DEF Slots, TypeOK
<1>5. NonTestCount' <= NonTestCount + 1
  <2>1. /\ IsFiniteSet(Slots \cup {<<t, 1>>})
        /\ \/ Cardinality(Slots \cup {<<t, 1>>}) = Cardinality(Slots)
           \/ Cardinality(Slots \cup {<<t, 1>>}) = Cardinality(Slots) + 1
    BY SlotsFinite, FS_AddElement
  <2>2. Cardinality(Slots') <= Cardinality(Slots \cup {<<t, 1>>}) /\ IsFiniteSet(Slots')
    BY <1>4, <2>1, FS_Subset
  <2>3. NonTestCount' = Cardinality(Slots') /\ Cardinality(Slots') \in Nat
    BY <2>2, FS_CardinalityType DEF NonTestCount, Slots
  <2> QED
    BY <2>1, <2>2, <2>3, SlotsFinite
<1>6. NonTestCount' <= MaxZones
  <2>1. NonTestCount' \in Nat
    <3>1. IsFiniteSet(Slots')
      BY <1>4, SlotsFinite, FS_AddElement, FS_Subset
    <3>2. NonTestCount' = Cardinality(Slots')
      BY DEF NonTestCount, Slots
    <3> QED
      BY <3>1, <3>2, FS_CardinalityType
  <2> QED
    BY <1>1, <1>5, <2>1, SlotsFinite
<1>7. \A u \in ZoneTypes : zones'[u] <= 1
  BY <1>2 DEF TypeOK, ZonesSafe, ZoneLimits
<1> QED
  BY <1>3, <1>6, <1>7 DEF ZonesSafe, ZoneLimits, ValidatedHolds

\* validateZone establishes what ValidatedHolds says of the connection.
LEMMA ValidateKeepsZones ==
    ASSUME TypeOK, ZonesSafe, NEW c \in Conns, NEW t \in ZoneTypes, Validate(c, t)
    PROVE  ZonesSafe'
<1>1. zones' = zones /\ NonTestCount' = NonTestCount
  BY DEF Validate, NonTestCount
<1>2. \A d \in Conns \ {c} : pc'[d] = pc[d] /\ zoneType'[d] = zoneType[d]
  BY GotoOther DEF Validate, Procs, TypeOK
<1>3. zoneType'[c] = t /\ zones[t] = 0 /\ NonTestCount < MaxZones
  BY DEF Validate, TypeOK
<1> QED
  BY <1>1, <1>2, <1>3 DEF ZonesSafe, ZoneLimits, ValidatedHolds

\* Every step keeps it.
LEMMA NextZonesSafe == TypeOK /\ LockOwned /\ ZonesSafe /\ [Next]_vars => ZonesSafe'
<1> SUFFICES ASSUME TypeOK, LockOwned, ZonesSafe, [Next]_vars PROVE ZonesSafe'
  OBVIOUS
<1> USE DEF Pending
<1>1. ASSUME NEW p \in Callers,
             EnterCommissioningMode(p) \/ ExitCommissioningMode(p) \/ Expire(p)
      PROVE  ZonesSafe'
  BY <1>1, StepKeepsZones
     DEF EnterCommissioningMode, ExitCommissioningMode, Expire, Procs
<1>2. ASSUME NEW p \in Callers, NEW t \in ZoneTypes, RemoveZone(p, t) PROVE ZonesSafe'
  BY <1>2, RemoveKeepsZones
<1>3. ASSUME NEW p \in Procs, Continue(p) PROVE ZonesSafe'
  BY <1>3, StepKeepsZones
     DEF Continue, EnterCommissioningMode, OpenListener, OpenDiscovery, CloseGate,
         CloseListener, CloseDiscovery, TimeoutDiscovery, TimeoutGate, TimeoutListener,
         locals
<1>4. ASSUME NEW c \in Conns, Handshake(c) PROVE ZonesSafe'
  BY <1>4, StepKeepsZones DEF Handshake, locals, Procs
<1>5. ASSUME NEW c \in Conns, Proceed(c) PROVE ZonesSafe'
  <2>1. CASE Accept(c) \/ RejectFirst(c) \/ PaseSucceeds(c) \/ ExchangeSucceeds(c)
    BY <2>1, StepKeepsZones
       DEF Accept, RejectFirst, PaseSucceeds, ExchangeSucceeds, locals, Procs
  <2>2. CASE PaseFails(c) \/ ExchangeFails(c) \/ Rollback(c)
    BY <2>2, StepKeepsZones DEF PaseFails, ExchangeFails, Rollback, Fail, Procs, TypeOK
  <2>3. ASSUME NEW t \in ZoneTypes, Validate(c, t) PROVE ZonesSafe'
    BY <2>3, ValidateKeepsZones
  <2>4. CASE EnsureListener(c) \/ ExitForEpoch(c) \/ ReleaseEarly(c)
    BY <2>4, StepKeepsZones DEF EnsureListener, ExitForEpoch, ReleaseEarly, locals, Procs
  <2>5. CASE ReleaseDeferred(c)
    BY <2>5, StepKeepsZones DEF ReleaseDeferred, Procs, TypeOK
  <2>6. CASE Register(c)
    BY <2>6, RegisterKeepsZones
  <2> QED
    BY <1>5, <2>1, <2>2, <2>3, <2>4, <2>5, <2>6 DEF Proceed
<1>6. CASE CooldownPasses
  BY <1>6, ZonesStable DEF CooldownPasses, locals
<1>7. CASE UNCHANGED vars
  BY <1>7, ZonesStable DEF vars, locals
<1> QED
  BY <1>1, <1>2, <1>3, <1>4, <1>5, <1>6, <1>7 DEF Next

\* A device never has two zones of one type nor more zones than MaxZones,
\* although both are checked before the certificate exchange and the zone is
\* registered after it, with removals and other connections in between.
THEOREM LimitsKept == Spec => []ZoneLimits
<1> DEFINE IInv == TypeOK /\ LockOwned /\ ZonesSafe
<1>1. Init => IInv
  BY InitTypeOK, InitLockOwned, InitZonesSafe
<1>2. IInv /\ [Next]_vars => IInv'
  BY NextTypeOK, NextLockOwned, NextZonesSafe
<1>3. IInv => ZoneLimits
  BY DEF ZonesSafe
<1> QED
  BY <1>1, <1>2, <1>3, PTL DEF Spec

-----------------------------------------------------------------------------
(* The window.  While no two procedures have overlapped there is at most one *)
(* under way, and what it has done so far and what it has read still holds.  *)

Procedure == Opening \cup Closing \cup {"listening"}

Reachable == Paired # {} => listener

\* What holds while a goroutine is at a place of a procedure.
Underway(p) ==
    /\ Reachable
    /\ pc[p] \in {"openListener", "openDiscovery"} => gate /\ (advertised => listener /\ armed)
    /\ pc[p] \in {"openDiscovery", "listening"} => listener
    /\ pc[p] \in {"closeListener", "closeDiscovery", "timeoutListener"} => ~ gate
    /\ pc[p] \in {"timeoutGate", "timeoutListener"} => ~ advertised
    /\ pc[p] \in {"closeGate", "closeListener", "timeoutListener"} =>
        (idleDevice[p] => Paired = {})

WindowInv ==
    ~ clash =>
        /\ \A p, q \in Procs : pc[p] \in Procedure /\ pc[q] \in Procedure => p = q
        /\ \A p \in Procs : pc[p] \in Procedure => Underway(p)
        /\ Settled => Consistent

\* No process is at a procedure at the start, and the window is closed.
LEMMA InitWindow == Init => WindowInv
<1> SUFFICES ASSUME Init PROVE WindowInv
  OBVIOUS
<1>1. \A p \in Procs : pc[p] = "idle" BY DEF Init
<1>2. Paired = {} BY DEF Paired, Init
<1>3. ~ gate /\ ~ advertised BY DEF Init
<1> QED
  BY <1>1, <1>2, <1>3 DEF WindowInv, Procedure, Opening, Closing, Consistent

\* A step of a process outside the procedures that leaves the window alone and
\* adds no zone keeps the invariant.
LEMMA WindowStable ==
    ASSUME TypeOK, WindowInv, UNCHANGED <<gate, listener, advertised, armed>>, ~ clash',
           ~ clash, Paired' \subseteq Paired,
           \A p \in Procs : pc'[p] \in Procedure => /\ pc'[p] = pc[p]
                                                    /\ idleDevice'[p] = idleDevice[p],
           \A p \in Procs : pc[p] \in Procedure => pc'[p] = pc[p]
    PROVE  WindowInv'
<1>1. Settled' => Settled BY DEF Settled, Procedure
<1>2. \A p \in Procs : Underway(p) /\ pc'[p] \in Procedure => Underway(p)'
  BY DEF Underway, Reachable
<1>3. Consistent => Consistent' BY DEF Consistent
<1> QED BY <1>1, <1>2, <1>3 DEF WindowInv

\* A process that begins a procedure without a clash is the only one, and finds
\* the window as it should be.
LEMMA BeginAlone ==
    ASSUME TypeOK, WindowInv, NEW p \in Procs, pc[p] \notin Procedure, Begin(p), ~ clash'
    PROVE  /\ ~ clash /\ Consistent /\ Reachable
           /\ \A q \in Procs : pc[q] \notin Procedure
<1>1. ~ clash /\ \A q \in Procs \ {p} : pc[q] \notin Procedure BY DEF Begin, Procedure
<1>2. Settled BY <1>1 DEF Settled, Procedure
<1>3. Consistent BY <1>1, <1>2 DEF WindowInv
<1> QED BY <1>1, <1>3 DEF Consistent, Reachable

\* A process alone in a procedure goes on with it, and finds what it left.
LEMMA StepAlone ==
    ASSUME TypeOK, NEW p \in Procs, NEW place, Goto(p, place), ~ clash',
           \A q \in Procs \ {p} : pc[q] \notin Procedure,
           place \in Procedure => Underway(p)',
           place \notin Opening \cup Closing => Consistent'
    PROVE  WindowInv'
<1>1. pc'[p] = place /\ \A q \in Procs \ {p} : pc'[q] = pc[q] BY DEF Goto, TypeOK
<1>2. Settled' => place \notin Opening \cup Closing BY <1>1 DEF Settled
<1> QED BY <1>1, <1>2 DEF WindowInv

\* The process in a procedure is alone in it, unless there was a clash.
LEMMA FoundAlone ==
    ASSUME WindowInv, ~ clash, NEW p \in Procs, pc[p] \in Procedure
    PROVE  Underway(p) /\ \A q \in Procs \ {p} : pc[q] \notin Procedure
BY DEF WindowInv

\* Opening the window, closing it and its timeout, one section after the other.
LEMMA ContinueWindow ==
    ASSUME TypeOK, WindowInv, ~ clash', NEW p \in Procs, Continue(p)
    PROVE  WindowInv'
<1> USE DEF Procedure, Opening, Closing
<1>1. CASE EnterCommissioningMode(p)
  <2>1. pc[p] \notin Procedure BY <1>1 DEF EnterCommissioningMode
  <2>2. Consistent /\ Reachable /\ \A q \in Procs : pc[q] \notin Procedure
    BY <1>1, <2>1, BeginAlone DEF EnterCommissioningMode
  <2>3. Goto(p, "openListener") /\ gate' /\ UNCHANGED <<listener, advertised, armed, zones>>
    BY <1>1 DEF EnterCommissioningMode
  <2>4. Underway(p)'
    <3>1. pc'[p] = "openListener" BY <2>3 DEF Goto, TypeOK
    <3>2. Paired' = Paired BY <2>3 DEF Paired
    <3> QED BY <2>2, <2>3, <3>1, <3>2 DEF Underway, Consistent, Reachable
  <2> QED BY <2>2, <2>3, <2>4, StepAlone
<1> SUFFICES ASSUME \/ OpenListener(p) \/ OpenDiscovery(p)
                    \/ CloseGate(p) \/ CloseListener(p) \/ CloseDiscovery(p)
                    \/ TimeoutDiscovery(p) \/ TimeoutGate(p) \/ TimeoutListener(p)
             PROVE  WindowInv'
  BY <1>1 DEF Continue
<1>2. ~ clash /\ pc[p] \in Procedure /\ zones' = zones
  BY DEF OpenListener, OpenDiscovery, CloseGate, CloseListener, CloseDiscovery,
         TimeoutDiscovery, TimeoutGate, TimeoutListener
<1>3. Underway(p) /\ \A q \in Procs \ {p} : pc[q] \notin Procedure BY <1>2, FoundAlone
<1>4. Paired' = Paired BY <1>2 DEF Paired
<1>5. \A place : Goto(p, place) => pc'[p] = place BY DEF Goto, TypeOK
<1> USE DEF Underway, Reachable, Consistent
<1>6. CASE OpenListener(p)
  <2>1. pc[p] = "openListener" /\ UNCHANGED <<advertised, armed>>
    BY <1>6 DEF OpenListener
  <2>2. CASE listener' = TRUE /\ gate' = gate /\ Goto(p, "openDiscovery")
    <3>1. Underway(p)' BY <1>3, <1>4, <1>5, <2>1, <2>2
    <3> QED BY <1>3, <2>2, <3>1, StepAlone
  <2>3. CASE ~listener /\ listener' = FALSE /\ gate' = FALSE /\ Goto(p, "idle")
    <3>1. Consistent' BY <1>3, <1>4, <2>1, <2>3
    <3> QED BY <1>3, <2>3, <3>1, StepAlone
  <2> QED BY <1>6, <2>2, <2>3 DEF OpenListener
<1>7. CASE OpenDiscovery(p)
  <2>1. pc[p] = "openDiscovery" /\ UNCHANGED listener /\ Goto(p, "idle")
    BY <1>7 DEF OpenDiscovery
  <2>2. \/ advertised' = TRUE /\ gate' = gate /\ armed' = TRUE
        \/ ~ advertised /\ gate' = FALSE /\ UNCHANGED <<advertised, armed>>
    BY <1>7 DEF OpenDiscovery
  <2>3. gate /\ listener /\ Reachable /\ (advertised => armed) BY <1>3, <2>1
  <2>4. CASE advertised' = TRUE /\ gate' = gate /\ armed' = TRUE
    BY <1>3, <2>1, <2>3, <2>4, StepAlone
  <2>5. CASE ~ advertised /\ gate' = FALSE /\ UNCHANGED <<advertised, armed>>
    <3>1. ~ gate' /\ ~ advertised' /\ listener' BY <2>1, <2>3, <2>5
    <3>2. Consistent' BY <3>1
    <3> QED BY <1>3, <2>1, <3>2, StepAlone
  <2> QED BY <2>2, <2>4, <2>5
<1>8. CASE CloseGate(p)
  <2>1. /\ pc[p] = "closeGate" /\ gate' = FALSE /\ Goto(p, "closeListener")
        /\ UNCHANGED <<listener, idleDevice>>
    BY <1>8 DEF CloseGate, locals
  <2>2. Underway(p)' BY <1>3, <1>4, <1>5, <2>1
  <2> QED BY <1>3, <2>1, <2>2, StepAlone
<1>9. CASE CloseListener(p)
  <2>1. /\ pc[p] = "closeListener" /\ gate' = gate /\ Goto(p, "closeDiscovery")
        /\ listener' = (listener /\ ~idleDevice[p])
    BY <1>9 DEF CloseListener
  <2>2. Underway(p)' BY <1>3, <1>4, <1>5, <2>1
  <2> QED BY <1>3, <2>1, <2>2, StepAlone
<1>10. CASE CloseDiscovery(p)
  <2>1. /\ pc[p] = "closeDiscovery" /\ advertised' = FALSE
        /\ Goto(p, IF p \in Conns THEN "closed" ELSE "idle") /\ UNCHANGED <<gate, listener>>
    BY <1>10 DEF CloseDiscovery
  <2>2. Consistent' BY <1>3, <1>4, <2>1
  <2> QED BY <1>3, <2>1, <2>2, StepAlone
<1>11. CASE TimeoutDiscovery(p)
  <2>1. /\ pc[p] = "timeoutDiscovery" /\ advertised' = FALSE
        /\ Goto(p, "timeoutGate") /\ UNCHANGED <<gate, listener>>
    BY <1>11 DEF TimeoutDiscovery
  <2>2. Underway(p)' BY <1>3, <1>4, <1>5, <2>1
  <2> QED BY <1>3, <2>1, <2>2, StepAlone
<1>12. CASE TimeoutGate(p)
  <2>1. /\ pc[p] = "timeoutGate" /\ gate' = FALSE /\ Goto(p, "timeoutListener")
        /\ idleDevice' = [idleDevice EXCEPT ![p] = Paired = {}]
        /\ UNCHANGED <<advertised, listener>>
    BY <1>12 DEF TimeoutGate
  <2>2. idleDevice'[p] => Paired = {} BY <2>1 DEF TypeOK
  <2>3. Underway(p)' BY <1>3, <1>4, <1>5, <2>1, <2>2
  <2> QED BY <1>3, <2>1, <2>3, StepAlone
<1>13. CASE TimeoutListener(p)
  <2>1. /\ pc[p] = "timeoutListener" /\ Goto(p, "idle")
        /\ listener' = (listener /\ ~idleDevice[p]) /\ UNCHANGED <<gate, advertised>>
    BY <1>13 DEF TimeoutListener
  <2>2. Consistent' BY <1>3, <1>4, <2>1
  <2> QED BY <1>3, <2>1, <2>2, StepAlone
<1> QED BY <1>6, <1>7, <1>8, <1>9, <1>10, <1>11, <1>12, <1>13

\* What callers begin: to open, to close, to remove a zone; the timer that fires.
LEMMA CallWindow ==
    ASSUME TypeOK, WindowInv, ~ clash', NEW p \in Procs,
           \/ ExitCommissioningMode(p) \/ Expire(p)
           \/ \E t \in ZoneTypes : RemoveZone(p, t)
           \/ EnterCommissioningMode(p)
    PROVE  WindowInv'
<1> USE DEF Procedure, Opening, Closing
<1>1. CASE \E t \in ZoneTypes : RemoveZone(p, t)
  <2>1. PICK t \in ZoneTypes : RemoveZone(p, t) BY <1>1
  <2>2. Paired' \subseteq Paired
    <3>1. \A s \in ZoneTypes : zones'[s] > 0 => zones[s] > 0
      BY <2>1 DEF RemoveZone, TypeOK
    <3> QED BY <3>1 DEF Paired
  <2>3. /\ pc[p] = "idle" /\ pc'[p] = "removed" /\ UNCHANGED <<idleDevice, clash>>
        /\ \A q \in Procs \ {p} : pc'[q] = pc[q]
        /\ UNCHANGED <<gate, listener, advertised, armed>>
    BY <2>1 DEF RemoveZone, Goto, TypeOK, window, locals
  <2> QED BY <2>2, <2>3, WindowStable
<1>2. CASE EnterCommissioningMode(p)
  <2>1. pc[p] \notin Procedure BY <1>2 DEF EnterCommissioningMode
  <2>2. Consistent /\ Reachable /\ \A q \in Procs : pc[q] \notin Procedure
    BY <1>2, <2>1, BeginAlone DEF EnterCommissioningMode
  <2>3. Goto(p, "openListener") /\ gate' /\ UNCHANGED <<listener, advertised, armed, zones>>
    BY <1>2 DEF EnterCommissioningMode
  <2>4. Underway(p)'
    <3>1. pc'[p] = "openListener" BY <2>3 DEF Goto, TypeOK
    <3>2. Paired' = Paired BY <2>3 DEF Paired
    <3> QED BY <2>2, <2>3, <3>1, <3>2 DEF Underway, Consistent, Reachable
  <2> QED BY <2>2, <2>3, <2>4, StepAlone
<1>3. CASE ExitCommissioningMode(p)
  <2>1. pc[p] \notin Procedure BY <1>3 DEF ExitCommissioningMode
  <2>2. Consistent /\ Reachable /\ \A q \in Procs : pc[q] \notin Procedure
    BY <1>3, <2>1, BeginAlone DEF ExitCommissioningMode
  <2>3. /\ Goto(p, "closeGate") /\ UNCHANGED <<listener, zones>>
        /\ idleDevice' = [idleDevice EXCEPT ![p] = Paired = {}]
    BY <1>3 DEF ExitCommissioningMode, window
  <2>4. Underway(p)'
    <3>1. pc'[p] = "closeGate" BY <2>3 DEF Goto, TypeOK
    <3>2. Paired' = Paired BY <2>3 DEF Paired
    <3>3. idleDevice'[p] => Paired = {} BY <2>3 DEF TypeOK
    <3> QED BY <2>2, <2>3, <3>1, <3>2, <3>3 DEF Underway, Reachable
  <2> QED BY <2>2, <2>3, <2>4, StepAlone
<1>4. CASE Expire(p)
  <2>1. pc[p] \notin Procedure BY <1>4 DEF Expire
  <2>2. Consistent /\ Reachable /\ \A q \in Procs : pc[q] \notin Procedure
    BY <1>4, <2>1, BeginAlone DEF Expire
  <2>3. Goto(p, "timeoutDiscovery") /\ UNCHANGED <<listener, zones>>
    BY <1>4 DEF Expire
  <2>4. Underway(p)'
    <3>1. pc'[p] = "timeoutDiscovery" BY <2>3 DEF Goto, TypeOK
    <3>2. Paired' = Paired BY <2>3 DEF Paired
    <3> QED BY <2>2, <2>3, <3>1, <3>2 DEF Underway, Reachable
  <2> QED BY <2>2, <2>3, <2>4, StepAlone
<1> QED BY <1>1, <1>2, <1>3, <1>4

\* A connection: EnsureListener and ExitForEpoch begin procedures, Register ends
\* one, the other steps are outside of them.
LEMMA ProceedWindow ==
    ASSUME TypeOK, WindowInv, ~ clash', NEW c \in Conns, Handshake(c) \/ Proceed(c)
    PROVE  WindowInv'
<1>0. c \in Procs BY DEF Procs
<1> USE DEF Procedure, Opening, Closing
<1>1. CASE EnsureListener(c)
  <2>1. pc[c] \notin Procedure BY <1>1 DEF EnsureListener
  <2>2. Consistent /\ Reachable /\ \A q \in Procs : pc[q] \notin Procedure
    BY <1>0, <1>1, <2>1, BeginAlone DEF EnsureListener
  <2>3. /\ Goto(c, "listening") /\ listener' = TRUE
        /\ UNCHANGED <<gate, advertised, armed, zones>>
    BY <1>1 DEF EnsureListener
  <2>4. Underway(c)' /\ Consistent'
    <3>1. pc'[c] = "listening" BY <1>0, <2>3 DEF Goto, TypeOK
    <3> QED BY <2>2, <2>3, <3>1 DEF Underway, Consistent, Reachable
  <2> QED BY <1>0, <2>2, <2>3, <2>4, StepAlone
<1>2. CASE Register(c)
  <2>1. /\ pc[c] = "listening" /\ Goto(c, "registered") /\ UNCHANGED clash
        /\ UNCHANGED <<gate, listener, advertised, armed>>
    BY <1>2 DEF Register, window
  <2>2. Underway(c) /\ \A q \in Procs \ {c} : pc[q] \notin Procedure
    BY <1>0, <2>1, FoundAlone
  <2>3. Settled BY <2>1, <2>2 DEF Settled
  <2>4. Consistent' BY <2>1, <2>2, <2>3 DEF WindowInv, Consistent, Underway
  <2> QED BY <1>0, <2>1, <2>2, <2>4, StepAlone
<1>3. CASE ExitForEpoch(c)
  <2>1. CASE epoch = ownEpoch[c]
    <3>1. /\ pc[c] = "registered" /\ gate' = FALSE /\ Begin(c) /\ Goto(c, "closeListener")
          /\ idleDevice' = [idleDevice EXCEPT ![c] = Paired = {}]
          /\ UNCHANGED <<listener, zones>>
      BY <1>3, <2>1 DEF ExitForEpoch
    <3>2. Consistent /\ Reachable /\ \A q \in Procs : pc[q] \notin Procedure
      BY <1>0, <3>1, BeginAlone
    <3>3. pc'[c] = "closeListener" BY <1>0, <3>1 DEF Goto, TypeOK
    <3>4. Paired' = Paired BY <3>1 DEF Paired
    <3>5. idleDevice'[c] => Paired = {} BY <1>0, <3>1 DEF TypeOK
    <3>6. Underway(c)' BY <3>1, <3>2, <3>3, <3>4, <3>5 DEF Underway, Reachable
    <3> QED BY <1>0, <3>1, <3>2, <3>6, StepAlone
  <2>2. CASE epoch # ownEpoch[c]
    <3>1. /\ pc[c] = "registered" /\ UNCHANGED <<idleDevice, clash, zones>>
          /\ UNCHANGED <<gate, listener, advertised, armed>>
          /\ pc'[c] = "closed" /\ \A q \in Procs \ {c} : pc'[q] = pc[q]
      BY <1>0, <1>3, <2>2 DEF ExitForEpoch, Goto, TypeOK
    <3>2. Paired' = Paired BY <3>1 DEF Paired
    <3> QED BY <1>0, <3>1, <3>2, WindowStable
  <2> QED BY <2>1, <2>2
<1>4. ASSUME UNCHANGED <<gate, listener, advertised, armed>>, UNCHANGED <<zones, clash>>,
             UNCHANGED idleDevice, pc[c] \notin Procedure,
             NEW place, Goto(c, place), place \notin Procedure
      PROVE  WindowInv'
  <2>1. pc'[c] = place /\ \A q \in Procs \ {c} : pc'[q] = pc[q]
    BY <1>0, <1>4 DEF Goto, TypeOK
  <2>2. Paired' = Paired BY <1>4 DEF Paired
  <2> QED BY <1>0, <1>4, <2>1, <2>2, WindowStable
<1>5. CASE Handshake(c)
  BY <1>4, <1>5 DEF Handshake, window, locals
<1>6. CASE Accept(c) \/ RejectFirst(c)
  BY <1>4, <1>6 DEF Accept, RejectFirst, window, locals
<1>7. CASE PaseFails(c) \/ ExchangeFails(c) \/ Rollback(c)
  BY <1>4, <1>7 DEF PaseFails, ExchangeFails, Rollback, Fail, window
<1>8. CASE PaseSucceeds(c) \/ ExchangeSucceeds(c)
  BY <1>4, <1>8 DEF PaseSucceeds, ExchangeSucceeds, window, locals
<1>9. ASSUME NEW t \in ZoneTypes, Validate(c, t) PROVE WindowInv'
  BY <1>4, <1>9 DEF Validate, window
<1>10. CASE ReleaseEarly(c) \/ ReleaseDeferred(c)
  BY <1>4, <1>10 DEF ReleaseEarly, ReleaseDeferred, window, locals
<1> QED BY <1>1, <1>2, <1>3, <1>5, <1>6, <1>7, <1>8, <1>9, <1>10 DEF Proceed

\* A clash is never forgotten, and every step without one keeps the invariant.
LEMMA NextWindow == TypeOK /\ WindowInv /\ [Next]_vars => WindowInv'
<1> SUFFICES ASSUME TypeOK, WindowInv, [Next]_vars, ~ clash' PROVE WindowInv'
  BY DEF WindowInv
<1>1. ASSUME NEW p \in Callers, EnterCommissioningMode(p) PROVE WindowInv'
  BY <1>1, CallWindow DEF Procs
<1>2. ASSUME NEW p \in Callers, ExitCommissioningMode(p) PROVE WindowInv'
  BY <1>2, CallWindow DEF Procs
<1>3. ASSUME NEW p \in Callers, Expire(p) PROVE WindowInv'
  BY <1>3, CallWindow DEF Procs
<1>4. ASSUME NEW p \in Callers, NEW t \in ZoneTypes, RemoveZone(p, t) PROVE WindowInv'
  BY <1>4, CallWindow DEF Procs
<1>5. ASSUME NEW p \in Procs, Continue(p) PROVE WindowInv'
  BY <1>5, ContinueWindow
<1>6. ASSUME NEW c \in Conns, Handshake(c) \/ Proceed(c) PROVE WindowInv'
  BY <1>6, ProceedWindow
<1>7. CASE CooldownPasses \/ UNCHANGED vars
  <2>1. /\ UNCHANGED <<gate, listener, advertised, armed>>
        /\ UNCHANGED <<zones, clash, pc, idleDevice>>
    BY <1>7 DEF CooldownPasses, vars, window, locals
  <2>2. Paired' = Paired BY <2>1 DEF Paired
  <2> QED BY <2>1, <2>2, WindowStable
<1> QED BY <1>1, <1>2, <1>3, <1>4, <1>5, <1>6, <1>7 DEF Next

\* Gate, listener, advertisement and timer, changed one after the other by
\* goroutines and by the timer's callback, agree whenever nothing is under way,
\* as long as no two procedures have overlapped (EnterCommissioningMode,
\* ExitCommissioningMode, exitCommissioningForEpoch, the timeout callback).
THEOREM WindowStaysConsistent == Spec => []WindowConsistentUnlessClash
<1> DEFINE IInv == TypeOK /\ WindowInv
<1>1. Init => IInv
  BY InitTypeOK, InitWindow
<1>2. IInv /\ [Next]_vars => IInv'
  BY NextTypeOK, NextWindow
<1>3. IInv => WindowConsistentUnlessClash
  BY DEF WindowInv, WindowConsistentUnlessClash
<1> QED
  BY <1>1, <1>2, <1>3, PTL DEF Spec

=============================================================================
