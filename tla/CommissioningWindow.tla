------------------------ MODULE CommissioningWindow ------------------------
(***************************************************************************)
(* The commissioning window of a device without an enable-key              *)
(* (mash-go/pkg/service/device_service_commissioning.go with the           *)
(* DiscoveryManager of pkg/discovery/advertiser.go).                       *)
(*                                                                         *)
(* The window is four things changed one after the other: the gate that    *)
(* lets commissioning handshakes in, the listener, the mDNS advertisement  *)
(* and the timer that ends it.  Opening and closing it are procedures of   *)
(* several sections, run by callers of the service's methods, by the timer *)
(* and by the connection that was commissioned.  What a valid enable-key   *)
(* adds (TEST zones, evictions, automatic re-entry) is not modelled here.  *)
(***************************************************************************)
EXTENDS Naturals, FiniteSets

CONSTANTS
    Conns,     \* commissioning connections
    Callers,   \* goroutines that open and close the window, timeouts included
    ZoneTypes, \* GRID, LOCAL
    MaxZones,  \* DeviceConfig.MaxZones
    MaxEpoch,  \* bound: windows opened
    MaxAttempts, \* bound: connections that get the lock
    NoType

ASSUME ConstantsAssumption ==
    /\ Conns \cap Callers = {} /\ NoType \notin ZoneTypes /\ IsFiniteSet(ZoneTypes)
    /\ MaxZones \in Nat /\ MaxEpoch \in Nat /\ MaxAttempts \in Nat

Procs == Conns \cup Callers

VARIABLES
    gate,        \* commissioningOpen
    epoch,       \* commissioningEpoch
    listener,    \* the listener is started
    advertised,  \* the commissionable service is advertised
    armed,       \* the DiscoveryManager's commissioningTimer is pending
    timerEpoch,  \* history: the epoch whose opening armed it
    connActive,  \* commissioningConnActive
    generation,  \* commissioningGeneration
    cooling,     \* the cooldown since the last release has not passed
    pc,          \* where each goroutine is
    gen,         \* the generation each connection was accepted with
    ownEpoch,    \* the epoch each goroutine has captured
    idleDevice,  \* zoneCount = 0 as each closing goroutine has read it
    zoneType,    \* the type of the zone each connection brings
    zones,       \* how many zones of each type are registered
    clash        \* history: two of the procedures overlapped

window == <<gate, epoch, listener, advertised, armed, timerEpoch>>
lock == <<connActive, generation, cooling>>
locals == <<gen, ownEpoch, idleDevice, zoneType>>
vars == <<window, lock, locals, pc, zones, clash>>

\* Sections of the procedures that change the window.
Opening == {"openListener", "openDiscovery"}
Closing == {"closeGate", "closeListener", "closeDiscovery",
            "timeoutDiscovery", "timeoutGate", "timeoutListener"}

\* Sections of a connection that has the commissioning lock.
Locked == {"handshake", "exchange", "validated", "exchanged", "listening",
           "registered", "closeListener", "closeDiscovery", "closed"}

Places == {"idle", "removed", "first", "released"} \cup Opening \cup Closing \cup Locked

TypeOK ==
    /\ gate \in BOOLEAN /\ epoch \in Nat /\ listener \in BOOLEAN
    /\ advertised \in BOOLEAN /\ armed \in BOOLEAN /\ timerEpoch \in Nat
    /\ connActive \in BOOLEAN /\ generation \in Nat /\ cooling \in BOOLEAN
    /\ pc \in [Procs -> Places]
    /\ gen \in [Conns -> Nat] /\ ownEpoch \in [Procs -> Nat]
    /\ idleDevice \in [Procs -> BOOLEAN]
    /\ zoneType \in [Conns -> ZoneTypes \cup {NoType}]
    /\ zones \in [ZoneTypes -> Nat]
    /\ clash \in BOOLEAN

Init ==
    /\ gate = FALSE /\ epoch = 0 /\ listener = FALSE
    /\ advertised = FALSE /\ armed = FALSE /\ timerEpoch = 0
    /\ connActive = FALSE /\ generation = 0 /\ cooling = FALSE
    /\ pc = [p \in Procs |-> "idle"]
    /\ gen = [c \in Conns |-> 0] /\ ownEpoch = [p \in Procs |-> 0]
    /\ idleDevice = [p \in Procs |-> FALSE]
    /\ zoneType = [c \in Conns |-> NoType]
    /\ zones = [t \in ZoneTypes |-> 0]
    /\ clash = FALSE

Goto(p, place) == pc' = [pc EXCEPT ![p] = place]

\* The bound leaves an epoch to every RemoveZone that is under way.
EpochLeft == epoch + Cardinality({p \in Procs : pc[p] = "removed"}) < MaxEpoch

Paired == {t \in ZoneTypes : zones[t] > 0}

\* A procedure starts; it clashes with any that is under way, and with a
\* connection that is about to register its zone.
Begin(p) ==
    clash' = (clash \/ \E q \in Procs \ {p} : pc[q] \in Opening \cup Closing \cup {"listening"})

-----------------------------------------------------------------------------
(* Opening the window. *)

\* RemoveZone, with the mutex.  A slot is free after it, so it goes on with
\* EnterCommissioningMode.
RemoveZone(p, t) ==
    /\ pc[p] = "idle" /\ EpochLeft
    /\ zones[t] > 0
    /\ zones' = [zones EXCEPT ![t] = @ - 1]
    /\ Goto(p, "removed")
    /\ UNCHANGED <<window, lock, locals, clash>>

\* EnterCommissioningMode, with the mutex: called by RemoveZone, for a pairing
\* request or by the application.
EnterCommissioningMode(p) ==
    /\ \/ pc[p] = "removed"
       \/ pc[p] = "idle" /\ EpochLeft
    /\ gate' = TRUE
    /\ epoch' = epoch + 1
    /\ ownEpoch' = [ownEpoch EXCEPT ![p] = epoch + 1]
    /\ Begin(p)
    /\ Goto(p, "openListener")
    /\ UNCHANGED <<listener, advertised, armed, timerEpoch, lock, gen, idleDevice,
                   zoneType, zones>>

\* ensureListenerStarted, which may fail.
OpenListener(p) ==
    /\ pc[p] = "openListener"
    /\ \/ listener' = TRUE /\ gate' = gate /\ Goto(p, "openDiscovery")
       \/ ~listener /\ listener' = FALSE /\ gate' = FALSE /\ Goto(p, "idle")
    /\ UNCHANGED <<epoch, advertised, armed, timerEpoch, lock, locals, zones, clash>>

OpenDiscoveryKeepsTimer(p) ==  \* mutant: no timer is armed for the window
    /\ pc[p] = "openDiscovery"
    /\ advertised' = TRUE /\ gate' = gate
    /\ Goto(p, "idle")
    /\ UNCHANGED <<epoch, listener, armed, timerEpoch, lock, locals, zones, clash>>

\* DiscoveryManager.EnterCommissioningMode: advertising may fail, if it has
\* to be started; otherwise the timer is replaced by a new one.
OpenDiscovery(p) ==
    /\ pc[p] = "openDiscovery"
    /\ \/ /\ advertised' = TRUE /\ gate' = gate
          /\ armed' = TRUE /\ timerEpoch' = ownEpoch[p]
       \/ /\ ~advertised /\ gate' = FALSE
          /\ UNCHANGED <<advertised, armed, timerEpoch>>
    /\ Goto(p, "idle")
    /\ UNCHANGED <<epoch, listener, lock, locals, zones, clash>>

-----------------------------------------------------------------------------
(* Closing it. *)

\* ExitCommissioningMode, with the mutex.
ExitCommissioningMode(p) ==
    /\ pc[p] = "idle"
    /\ idleDevice' = [idleDevice EXCEPT ![p] = Paired = {}]
    /\ Begin(p)
    /\ Goto(p, "closeGate")
    /\ UNCHANGED <<window, lock, gen, ownEpoch, zoneType, zones>>

CloseGate(p) ==
    /\ pc[p] = "closeGate"
    /\ gate' = FALSE
    /\ Goto(p, "closeListener")
    /\ UNCHANGED <<epoch, listener, advertised, armed, timerEpoch, lock, locals, zones,
                   clash>>

\* stopListener if there was no zone.
CloseListener(p) ==
    /\ pc[p] = "closeListener"
    /\ listener' = (listener /\ ~idleDevice[p])
    /\ Goto(p, "closeDiscovery")
    /\ UNCHANGED <<gate, epoch, advertised, armed, timerEpoch, lock, locals, zones,
                   clash>>

\* DiscoveryManager.ExitCommissioningMode.  A connection goes on.
CloseDiscovery(p) ==
    /\ pc[p] = "closeDiscovery"
    /\ advertised' = FALSE /\ armed' = FALSE
    /\ Goto(p, IF p \in Conns THEN "closed" ELSE "idle")
    /\ UNCHANGED <<gate, epoch, listener, timerEpoch, lock, locals, zones, clash>>

\* The commissioning timer fires: its callback waits for the
\* DiscoveryManager's mutex and can no longer be stopped.
Expire(p) ==
    /\ pc[p] = "idle" /\ armed
    /\ armed' = FALSE
    /\ ownEpoch' = [ownEpoch EXCEPT ![p] = timerEpoch]
    /\ Begin(p)
    /\ Goto(p, "timeoutDiscovery")
    /\ UNCHANGED <<gate, epoch, listener, advertised, timerEpoch, lock, gen, idleDevice,
                   zoneType, zones>>

\* exitCommissioningModeInternal, which stops whichever timer there is now.
TimeoutDiscovery(p) ==
    /\ pc[p] = "timeoutDiscovery"
    /\ advertised' = FALSE /\ armed' = FALSE
    /\ Goto(p, "timeoutGate")
    /\ UNCHANGED <<gate, epoch, listener, timerEpoch, lock, locals, zones, clash>>

TimeoutGateKept(p) ==  \* mutant: only the advertisement ends
    /\ pc[p] = "timeoutGate"
    /\ idleDevice' = [idleDevice EXCEPT ![p] = Paired = {}]
    /\ Goto(p, "timeoutListener")
    /\ UNCHANGED <<window, lock, gen, ownEpoch, zoneType, zones, clash>>

\* The timeout callback: the gate, the number of zones, the listener.
TimeoutGate(p) ==
    /\ pc[p] = "timeoutGate"
    /\ gate' = FALSE
    /\ idleDevice' = [idleDevice EXCEPT ![p] = Paired = {}]
    /\ Goto(p, "timeoutListener")
    /\ UNCHANGED <<epoch, listener, advertised, armed, timerEpoch, lock, gen, ownEpoch,
                   zoneType, zones, clash>>

TimeoutListener(p) ==
    /\ pc[p] = "timeoutListener"
    /\ listener' = (listener /\ ~idleDevice[p])
    /\ Goto(p, "idle")
    /\ UNCHANGED <<gate, epoch, advertised, armed, timerEpoch, lock, locals, zones,
                   clash>>

-----------------------------------------------------------------------------
(* A commissioning connection. *)

\* getConfigForClient and the TLS handshake; the lock is not taken yet.
Handshake(c) ==
    /\ pc[c] = "idle" /\ gate /\ listener
    /\ Goto(c, "first")
    /\ UNCHANGED <<window, lock, locals, zones, clash>>

\* nonTestZoneCountLocked; every registration used up an attempt.
NonTestCount == Cardinality({x \in ZoneTypes \X (1..MaxAttempts) : x[2] <= zones[x[1]]})

\* The first PASE message has come: acceptCommissioningConnection.
Accept(c) ==
    /\ pc[c] = "first"
    /\ ~connActive /\ ~cooling /\ NonTestCount < MaxZones
    /\ generation < MaxAttempts
    /\ connActive' = TRUE
    /\ generation' = generation + 1
    /\ gen' = [gen EXCEPT ![c] = generation + 1]
    /\ Goto(c, "handshake")
    /\ UNCHANGED <<window, cooling, ownEpoch, idleDevice, zoneType, zones, clash>>

\* It does not come in time, or the device is busy, cooling down or full.
RejectFirst(c) ==
    /\ pc[c] = "first"
    /\ Goto(c, "idle")
    /\ UNCHANGED <<window, lock, locals, zones, clash>>

ReleaseUnchecked(c) ==  \* mutant: the generation is not compared
    /\ connActive' = FALSE
    /\ cooling' = TRUE
    /\ UNCHANGED generation

\* releaseCommissioningConnection: only with the current generation.
Release(c) ==
    /\ connActive' = (connActive /\ gen[c] # generation)
    /\ cooling' = (cooling \/ gen[c] = generation)
    /\ UNCHANGED generation

FailKeepsLock(c) ==  \* mutant: an error path without the deferred release
    /\ Goto(c, "idle")
    /\ zoneType' = [zoneType EXCEPT ![c] = NoType]
    /\ UNCHANGED <<window, lock, gen, ownEpoch, idleDevice, zones, clash>>

\* The connection ends before its zone is registered; the deferred calls
\* release the lock.
Fail(c) ==
    /\ Goto(c, "idle")
    /\ Release(c)
    /\ zoneType' = [zoneType EXCEPT ![c] = NoType]
    /\ UNCHANGED <<window, gen, ownEpoch, idleDevice, zones, clash>>

\* CompleteHandshake, performCertExchange up to the zone's CA.
PaseFails(c) == pc[c] = "handshake" /\ Fail(c)

PaseSucceeds(c) ==
    /\ pc[c] = "handshake"
    /\ Goto(c, "exchange")
    /\ UNCHANGED <<window, lock, locals, zones, clash>>

ValidateAnyType(c, t) ==  \* mutant: hasZoneOfType is not asked
    /\ pc[c] = "exchange"
    /\ NonTestCount < MaxZones
    /\ zoneType' = [zoneType EXCEPT ![c] = t]
    /\ Goto(c, "validated")
    /\ UNCHANGED <<window, lock, gen, ownEpoch, idleDevice, zones, clash>>

\* validateZone: no zone of that type, and a free slot.
Validate(c, t) ==
    /\ pc[c] = "exchange"
    /\ zones[t] = 0 /\ NonTestCount < MaxZones
    /\ zoneType' = [zoneType EXCEPT ![c] = t]
    /\ Goto(c, "validated")
    /\ UNCHANGED <<window, lock, gen, ownEpoch, idleDevice, zones, clash>>

\* It refuses, or the peer fails before its certificate is installed.
ExchangeFails(c) == pc[c] \in {"exchange", "validated"} /\ Fail(c)

\* The operational certificate is installed and acknowledged.
ExchangeSucceeds(c) ==
    /\ pc[c] = "validated"
    /\ Goto(c, "exchanged")
    /\ UNCHANGED <<window, lock, locals, zones, clash>>

\* No device ID in the certificate, or no listener: the deferred calls also
\* roll back the certificates.
Rollback(c) == pc[c] = "exchanged" /\ Fail(c)

\* ensureListenerStarted for the controller's operational connection; the
\* epoch is captured after it.
EnsureListener(c) ==
    /\ pc[c] = "exchanged"
    /\ listener' = TRUE
    /\ ownEpoch' = [ownEpoch EXCEPT ![c] = epoch]
    /\ Begin(c)
    /\ Goto(c, "listening")
    /\ UNCHANGED <<gate, epoch, advertised, armed, timerEpoch, lock, gen, idleDevice,
                   zoneType, zones>>

\* RegisterZoneAwaitingConnection
Register(c) ==
    /\ pc[c] = "listening"
    /\ zones' = [zones EXCEPT ![zoneType[c]] = @ + 1]
    /\ Goto(c, "registered")
    /\ UNCHANGED <<window, lock, locals, clash>>

\* exitCommissioningForEpoch, with the mutex: only if no newer window opened.
ExitForEpoch(c) ==
    /\ pc[c] = "registered"
    /\ IF epoch = ownEpoch[c]
       THEN /\ gate' = FALSE
            /\ idleDevice' = [idleDevice EXCEPT ![c] = Paired = {}]
            /\ Begin(c)
            /\ Goto(c, "closeListener")
       ELSE Goto(c, "closed") /\ UNCHANGED <<gate, idleDevice, clash>>
    /\ UNCHANGED <<epoch, listener, advertised, armed, timerEpoch, lock, gen, ownEpoch,
                   zoneType, zones>>

\* The lock is released before the connection is closed ...
ReleaseEarly(c) ==
    /\ pc[c] = "closed"
    /\ Release(c)
    /\ Goto(c, "released")
    /\ UNCHANGED <<window, locals, zones, clash>>

\* ... and again by the deferred call.
ReleaseDeferred(c) ==
    /\ pc[c] = "released"
    /\ Release(c)
    /\ zoneType' = [zoneType EXCEPT ![c] = NoType]
    /\ Goto(c, "idle")
    /\ UNCHANGED <<window, gen, ownEpoch, idleDevice, zones, clash>>

CooldownPasses ==
    /\ cooling
    /\ cooling' = FALSE
    /\ UNCHANGED <<window, connActive, generation, locals, pc, zones, clash>>

-----------------------------------------------------------------------------
(* The specification. *)

\* What a goroutine that changes the window does once it has started.
Continue(p) ==
    \/ pc[p] = "removed" /\ EnterCommissioningMode(p)
    \/ OpenListener(p) \/ OpenDiscovery(p)
    \/ CloseGate(p) \/ CloseListener(p) \/ CloseDiscovery(p)
    \/ TimeoutDiscovery(p) \/ TimeoutGate(p) \/ TimeoutListener(p)

\* What a commissioning connection does once its handshake is complete.
Proceed(c) ==
    \/ Accept(c) \/ RejectFirst(c)
    \/ PaseFails(c) \/ PaseSucceeds(c)
    \/ \E t \in ZoneTypes : Validate(c, t)
    \/ ExchangeFails(c) \/ ExchangeSucceeds(c)
    \/ Rollback(c) \/ EnsureListener(c) \/ Register(c)
    \/ ExitForEpoch(c) \/ ReleaseEarly(c) \/ ReleaseDeferred(c)

Next ==
    \/ \E p \in Callers : \/ EnterCommissioningMode(p) \/ ExitCommissioningMode(p)
                          \/ Expire(p)
                          \/ \E t \in ZoneTypes : RemoveZone(p, t)
    \/ \E p \in Procs : Continue(p)
    \/ \E c \in Conns : Handshake(c) \/ Proceed(c)
    \/ CooldownPasses

Spec == Init /\ [][Next]_vars

\* Goroutines are scheduled and an armed timer fires.  A connection does not
\* wait for its peer for ever: the first message, the handshake and its phases
\* have timeouts, and the reaper closes one that stays in the exchange.  Nobody
\* has to call ExitCommissioningMode.
FairSpec ==
    /\ Spec
    /\ \A p \in Procs : WF_vars(Continue(p))
    /\ WF_vars(\E p \in Callers : Expire(p))
    /\ \A c \in Conns : WF_vars(Proceed(c))

-----------------------------------------------------------------------------
(* Properties. *)

\* The connections that went through acceptCommissioningConnection and have
\* not released the lock for the first time.
Holders == {c \in Conns : pc[c] \in Locked}

\* acceptCommissioningConnection: only one commissioning connection at a time,
\* however late a connection that is done releases the lock again.
MutualExclusion == Cardinality(Holders) <= 1

\* hasZoneOfType and isZonesFull, asked in validateZone before the exchange,
\* still hold when the zone is registered: one zone per type, within MaxZones.
ZoneLimits ==
    /\ \A t \in ZoneTypes : zones[t] <= 1
    /\ NonTestCount <= MaxZones

\* What MutualExclusion and ZoneLimits rest on: the lock's state tells who has
\* it, a connection that is done cannot release it from another, and what a
\* connection has validated stays true until it registers its zone.
LockOwned ==
    /\ connActive <=> Holders # {}
    /\ \A c \in Holders : gen[c] = generation
    /\ \A c, d \in Holders : c = d
    /\ \A c \in Conns : gen[c] <= generation
    /\ \A c \in Conns : pc[c] = "released" /\ connActive => gen[c] < generation
    /\ \A c \in Conns : pc[c] \in {"idle", "first", "released"} \cup Locked

Pending == {"validated", "exchanged", "listening"}

ValidatedHolds ==
    \A c \in Conns : pc[c] \in Pending =>
        /\ zoneType[c] \in ZoneTypes
        /\ zones[zoneType[c]] = 0
        /\ NonTestCount < MaxZones

Settled == \A p \in Procs : pc[p] \notin Opening \cup Closing

\* If no two procedures ever overlapped and none is under way, the gate and the
\* advertisement agree, an open window has a listener and a timer, and a
\* commissioned device listens for its controllers (EnterCommissioningMode,
\* ExitCommissioningMode, exitCommissioningForEpoch, the timeout callback).
Consistent ==
    /\ gate <=> advertised
    /\ gate => listener /\ armed
    /\ Paired # {} => listener
WindowConsistentUnlessClash == Settled /\ ~clash => Consistent

\* releaseCommissioningConnection is reached on every path: a peer that stalls
\* or fails does not keep others from commissioning the device.
LockReleased == connActive ~> ~connActive

\* The window's timer closes the gate (or a clash has happened).
WindowClosesUnlessClash == gate ~> (~gate \/ clash)

-----------------------------------------------------------------------------
(* Statements of documents and comments that the code does not keep, listed in
   README.md; no configuration checks them. *)

\* exitCommissioningForEpoch: a stale exit does not override a concurrent
\* EnterCommissioningMode, that is, it does not end the advertisement and the
\* timer of a window newer than the one the connection was commissioned in.
ExitSparesNewer ==
    [][\A c \in Conns : CloseDiscovery(c) /\ armed => timerEpoch <= ownEpoch[c]]_vars

\* DiscoveryManager.EnterCommissioningMode stops the existing timer, so that
\* of an older window does not end a newer one.
TimeoutSparesNewer ==
    [][\A p \in Callers : TimeoutDiscovery(p) /\ armed => timerEpoch <= ownEpoch[p]]_vars

\* handleCommissioningConnection makes sure that the listener runs for the
\* controller's operational connection: a commissioned device listens.
ReachableWhenPaired == Settled /\ Paired # {} => listener

\* The gate does not stay open for ever: the window is closed when its duration
\* is over.
WindowCloses == gate ~> ~gate
=============================================================================
