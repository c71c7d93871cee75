---------------------------- MODULE ZoneSessions ----------------------------
(***************************************************************************)
(* Operational connections and zone sessions of a MASH device              *)
(* (mash-go/pkg/service/device_service_zone.go, device_service_lifecycle). *)
(*                                                                         *)
(* Every connection is served by a goroutine of its own.  The service's    *)
(* mutex is taken in short sections: one picks the zone, one marks it      *)
(* connected, one stores the session, one removes it and one marks the     *)
(* zone disconnected.  Each section is one action, so that the sections    *)
(* of several connections, of RemoveZone and of an eviction interleave.    *)
(*                                                                         *)
(* Re-entry into commissioning mode, the other half of HandleZoneDisconnect*)
(* and RemoveZone, is the subject of CommissioningWindow; failsafe timers  *)
(* are the subject of ZoneRegistry.                                        *)
(***************************************************************************)
EXTENDS Naturals, FiniteSets

CONSTANTS
    Zones,      \* zone IDs; a zone's CA identifies its controller
    TestZones,  \* those of type TEST
    Conns,      \* connections that may exist at one time
    MaxZones,   \* DeviceConfig.MaxZones
    EnableKey,  \* a valid enable-key is configured (test mode)
    NoConn, NoZone

ASSUME ConstantsAssumption ==
    /\ TestZones \subseteq Zones /\ NoZone \notin Zones /\ NoConn \notin Conns
    /\ MaxZones \in Nat /\ EnableKey \in BOOLEAN

VARIABLES
    fresh,       \* zone IDs not yet derived from a commissioning secret
    certs,       \* zones whose CA is in the certificate store
    paired,      \* keys of connectedZones
    connected,   \* paired zones with Connected set
    session,     \* zoneSessions: the connection a zone's session belongs to
    pc,          \* where each connection's goroutine is
    peer,        \* the zone whose CA signed the peer's certificate
    target,      \* targetZoneID of each connection
    activeConns, \* the connection cap's counter
    evictList    \* toEvict of an eviction in progress

registry == <<fresh, certs, paired, connected>>
vars == <<registry, session, pc, peer, target, activeConns, evictList>>

\* Sections still ahead of a connection, in order: "accepted" the handshake,
\* "verified" the choice of a zone, "replacing" and "replaced" the removal of a
\* stale session, "picked" the mark, "marked" the store, "running" the message
\* loop, "ended" and "disconnecting" the clean-up.
Places == {"idle", "accepted", "verified", "replacing", "replaced", "picked",
           "marked", "running", "ended", "disconnecting"}

\* Connections that occupy a slot of the cap.
HoldsSlot == {"accepted", "verified", "replacing", "replaced", "picked", "marked"}

TypeOK ==
    /\ fresh \subseteq Zones /\ certs \subseteq Zones \ fresh
    /\ paired \subseteq Zones \ fresh /\ connected \subseteq paired
    /\ session \in [Zones -> Conns \cup {NoConn}]
    /\ pc \in [Conns -> Places]
    /\ peer \in [Conns -> Zones \cup {NoZone}]
    /\ target \in [Conns -> Zones \cup {NoZone}]
    /\ activeConns \in 0..MaxZones + 1
    /\ evictList \subseteq Zones

Init ==
    /\ fresh = Zones /\ certs = {} /\ paired = {} /\ connected = {}
    /\ session = [z \in Zones |-> NoConn]
    /\ pc = [c \in Conns |-> "idle"]
    /\ peer = [c \in Conns |-> NoZone]
    /\ target = [c \in Conns |-> NoZone]
    /\ activeConns = 0
    /\ evictList = {}

Goto(c, place) == pc' = [pc EXCEPT ![c] = place]

\* The goroutine of c ends; its slot is released if it still holds one.
Finish(c) ==
    /\ Goto(c, "idle")
    /\ peer' = [peer EXCEPT ![c] = NoZone]
    /\ target' = [target EXCEPT ![c] = NoZone]
    /\ activeConns' = IF pc[c] \in HoldsSlot THEN activeConns - 1 ELSE activeConns

-----------------------------------------------------------------------------
(* Pairing and removal. *)

\* validateZone: one TEST zone beside at most MaxZones others.
HasRoomFor(z) ==
    IF z \in TestZones
    THEN EnableKey /\ paired \cap TestZones = {}
    ELSE Cardinality(paired \ TestZones) < MaxZones

\* performCertExchange: a new zone's certificates are stored.  The exchange
\* before it is the subject of CommissioningWindow.
StoreCert(z) ==
    /\ z \in fresh /\ HasRoomFor(z)
    /\ fresh' = fresh \ {z}
    /\ certs' = certs \cup {z}
    /\ UNCHANGED <<paired, connected, session, pc, peer, target, activeConns, evictList>>

\* rollbackCommissioningCertArtifacts, when commissioning fails after that.
RollbackCert(z) ==
    /\ z \in certs \ paired
    /\ certs' = certs \ {z}
    /\ UNCHANGED <<fresh, paired, connected, session, pc, peer, target, activeConns, evictList>>

\* handleZoneConnectInternal for RegisterZoneAwaitingConnection.
RegisterZoneAwaitingConnection(z) ==
    /\ z \in certs \ paired
    /\ paired' = paired \cup {z}
    /\ connected' = connected \ {z}
    /\ UNCHANGED <<fresh, certs, session, pc, peer, target, activeConns, evictList>>

\* The section of RemoveZone: the session leaves the map here; closing it, in
\* the background, does not close its connection.
DropZone(z) ==
    /\ paired' = paired \ {z}
    /\ connected' = connected \ {z}
    /\ certs' = certs \ {z}
    /\ session' = [session EXCEPT ![z] = NoConn]
    /\ UNCHANGED fresh

\* RemoveZone, on a controller's request or the user's.
RemoveZone(z) ==
    /\ z \in paired
    /\ DropZone(z)
    /\ UNCHANGED <<pc, peer, target, activeConns, evictList>>

\* evictDisconnectedZone before a commissioning connection is accepted, and
\* evictDisconnectedZonesOfType for a new TEST zone: the zones to remove.
CollectEvictions ==
    /\ EnableKey /\ evictList = {}
    /\ evictList' \in {(paired \ connected) \ TestZones, (paired \ connected) \cap TestZones}
    /\ UNCHANGED <<registry, session, pc, peer, target, activeConns>>

\* Their loop: each of them is removed, whatever has happened to it since.
Evict(z) ==
    /\ z \in evictList
    /\ evictList' = evictList \ {z}
    /\ IF z \in paired THEN DropZone(z) ELSE UNCHANGED <<registry, session>>
    /\ UNCHANGED <<pc, peer, target, activeConns>>

-----------------------------------------------------------------------------
(* A connection. *)

\* acceptLoop.
Accept(c) ==
    /\ pc[c] = "idle"
    /\ activeConns < MaxZones + 1
    /\ activeConns' = activeConns + 1
    /\ Goto(c, "accepted")
    /\ UNCHANGED <<registry, session, peer, target, evictList>>

\* handleIncomingConnection: the handshake fails, times out or is reaped.
HandshakeFails(c) ==
    /\ pc[c] = "accepted"
    /\ Finish(c)
    /\ UNCHANGED <<registry, session, evictList>>

\* verifyClientCert: any certificate passes while no zone CA is known.
VerifyClientCert(c, p) ==
    /\ pc[c] = "accepted"
    /\ certs # {} => p \in certs
    /\ peer' = [peer EXCEPT ![c] = p]
    /\ Goto(c, "verified")
    /\ UNCHANGED <<registry, session, target, activeConns, evictList>>

\* matchZoneByPeerCert and matchConnectedZoneByPeerCert for a peer of zone p.
MatchZoneByPeerCert(p) == {p} \cap certs \cap (paired \ connected)
MatchConnectedZoneByPeerCert(p) == {p} \cap certs \cap connected

\* handleOperationalConnection, first section: the zone of the certificate if
\* it is disconnected, else any disconnected zone, else the zone of the
\* certificate if it is connected, whose session is then replaced.
Identify(c) ==
    LET own == MatchZoneByPeerCert(peer[c])
        fallback == paired \ connected
        connectedOwn == MatchConnectedZoneByPeerCert(peer[c])
        Choose(S, place) == \E z \in S : target' = [target EXCEPT ![c] = z] /\ Goto(c, place)
    IN
    /\ pc[c] = "verified"
    /\ \/ own # {} /\ Choose(own, "picked")
       \/ own = {} /\ fallback # {} /\ Choose(fallback, "picked")
       \/ own = {} /\ fallback = {} /\ connectedOwn # {} /\ Choose(connectedOwn, "replacing")
    /\ UNCHANGED <<registry, session, peer, activeConns, evictList>>

\* No zone matches: the connection is closed.
Reject(c) ==
    /\ pc[c] = "verified"
    /\ paired \ connected = {}
    /\ MatchConnectedZoneByPeerCert(peer[c]) = {}
    /\ Finish(c)
    /\ UNCHANGED <<registry, session, evictList>>

\* handleZoneSessionClose(target, nil) of a replacement, up to the unlock.
RemoveStaleSession(c) ==
    /\ pc[c] = "replacing"
    /\ Goto(c, IF session[target[c]] = NoConn THEN "picked" ELSE "replaced")
    /\ session' = [session EXCEPT ![target[c]] = NoConn]
    /\ UNCHANGED <<registry, peer, target, activeConns, evictList>>

\* HandleZoneDisconnect of a replacement.
DisconnectStale(c) ==
    /\ pc[c] = "replaced"
    /\ connected' = connected \ {target[c]}
    /\ Goto(c, "picked")
    /\ UNCHANGED <<fresh, certs, paired, session, peer, target, activeConns, evictList>>

\* The zone is marked connected, if it still exists.
MarkConnected(c) ==
    /\ pc[c] = "picked"
    /\ connected' = connected \cup ({target[c]} \cap paired)
    /\ Goto(c, "marked")
    /\ UNCHANGED <<fresh, certs, paired, session, peer, target, activeConns, evictList>>

StoreSessionKeepsSlot(c) ==  \* mutant: the slot is not released before the message loop
    /\ pc[c] = "marked"
    /\ session' = [session EXCEPT ![target[c]] = c]
    /\ Goto(c, "running")
    /\ UNCHANGED <<registry, peer, target, activeConns, evictList>>

\* The session is stored, whether or not the zone exists, and the slot of the
\* connection cap is released before the message loop.
StoreSession(c) ==
    /\ pc[c] = "marked"
    /\ session' = [session EXCEPT ![target[c]] = c]
    /\ activeConns' = activeConns - 1
    /\ Goto(c, "running")
    /\ UNCHANGED <<registry, peer, target, evictList>>

EndMessageLoopNoCleanup(c) ==  \* mutant: the goroutine ends without handleZoneSessionClose
    /\ pc[c] = "running"
    /\ Finish(c)
    /\ UNCHANGED <<registry, session, evictList>>

\* runZoneMessageLoop returns: the peer has gone or said so, or a message was
\* handled and the zone no longer exists.
EndMessageLoop(c) ==
    /\ pc[c] = "running"
    /\ Goto(c, "ended")
    /\ UNCHANGED <<registry, session, peer, target, activeConns, evictList>>

CloseSessionUnchecked(c) ==  \* mutant: removes whichever session the zone has
    /\ pc[c] = "ended"
    /\ session[target[c]] # NoConn
    /\ session' = [session EXCEPT ![target[c]] = NoConn]
    /\ Goto(c, "disconnecting")
    /\ UNCHANGED <<registry, peer, target, activeConns, evictList>>

\* handleZoneSessionClose(target, session of c): only its own session.
CloseSession(c) ==
    /\ pc[c] = "ended"
    /\ session[target[c]] = c
    /\ session' = [session EXCEPT ![target[c]] = NoConn]
    /\ Goto(c, "disconnecting")
    /\ UNCHANGED <<registry, peer, target, activeConns, evictList>>

\* The zone has another session or none: nothing is cleaned up.
LeaveSession(c) ==
    /\ pc[c] = "ended"
    /\ session[target[c]] # c
    /\ Finish(c)
    /\ UNCHANGED <<registry, session, evictList>>

\* HandleZoneDisconnect, after the session was closed without the mutex.
HandleZoneDisconnect(c) ==
    /\ pc[c] = "disconnecting"
    /\ connected' = connected \ {target[c]}
    /\ Finish(c)
    /\ UNCHANGED <<fresh, certs, paired, session, evictList>>

-----------------------------------------------------------------------------
ConnStep(c) ==
    \/ HandshakeFails(c)
    \/ Identify(c)
    \/ Reject(c)
    \/ RemoveStaleSession(c)
    \/ DisconnectStale(c)
    \/ MarkConnected(c)
    \/ StoreSession(c)
    \/ CloseSession(c)
    \/ LeaveSession(c)
    \/ HandleZoneDisconnect(c)

Next ==
    \/ \E z \in Zones : StoreCert(z)
    \/ \E z \in Zones : RollbackCert(z)
    \/ \E z \in Zones : RegisterZoneAwaitingConnection(z)
    \/ \E z \in Zones : RemoveZone(z)
    \/ CollectEvictions
    \/ \E z \in Zones : Evict(z)
    \/ \E c \in Conns : Accept(c)
    \/ \E c \in Conns, p \in Zones : VerifyClientCert(c, p)
    \/ \E c \in Conns : EndMessageLoop(c)
    \/ \E c \in Conns : ConnStep(c)

Spec == Init /\ [][Next]_vars

-----------------------------------------------------------------------------
(* Properties. *)

\* The counter of the connection cap is the number of connections before
\* their message loop: no path releases a slot twice or never
\* (device_service_lifecycle.go handleIncomingConnection, releaseActiveConn).
SlotsCounted == activeConns = Cardinality({c \in Conns : pc[c] \in HoldsSlot})

\* A stored session always belongs to a connection to that zone whose
\* goroutine has yet to clean it up: none is left behind by a goroutine that
\* has ended (handleOperationalConnection, handleZoneSessionClose).
SessionHasOwner ==
    \A z \in Zones : session[z] # NoConn =>
        target[session[z]] = z /\ pc[session[z]] \in {"running", "ended"}

\* A zone is never stuck as connected: a zone marked connected has a session,
\* or some connection is about to store one or to mark it disconnected
\* (handleOperationalConnection, HandleZoneDisconnect).
ConnectedHasSession ==
    \A z \in connected :
        \/ session[z] # NoConn
        \/ \E c \in Conns : target[c] = z /\ pc[c] \in {"marked", "replaced", "disconnecting"}

\* Both ways round: what the device keeps about a zone's connection is looked
\* after by a goroutine (handleOperationalConnection, HandleZoneDisconnect).
SessionsAttended == SessionHasOwner /\ ConnectedHasSession

\* A session is removed only by its own connection, by a connection of the
\* zone's own controller that replaces it, or with the zone: the exit of a
\* stale message loop never takes down the session that replaced it
\* (handleZoneSessionClose).
OnlyOwnerCloses ==
    [][\A z \in Zones :
        session[z] # NoConn /\ session'[z] = NoConn =>
            \/ z \notin paired'
            \/ pc[session[z]] = "ended"
            \/ \E c \in Conns : pc[c] = "replacing" /\ pc'[c] = "replaced" /\ target[c] = z /\ peer[c] = z]_vars

\* No other connection is between two sections.
Quiet(z) == \A c \in Conns : target[c] = z => pc[c] = "running"

-----------------------------------------------------------------------------
(* Statements of documents and comments that the code does not keep, listed in
   README.md; no configuration checks them. *)

\* A connection is attached to the zone that its certificate belongs to.
SessionMatchesCertificate ==
    \A z \in Zones : session[z] # NoConn => peer[session[z]] = z

\* A zone with a live session is marked connected.
LiveSessionConnected ==
    \A z \in paired : session[z] # NoConn /\ Quiet(z) => z \in connected

\* A removed zone has no session.
RemovedHasNoSession ==
    \A z \in Zones \ paired : Quiet(z) => session[z] = NoConn

\* Only disconnected zones are evicted.
EvictsDisconnected ==
    [][\A z \in Zones : z \in evictList /\ evictList' = evictList \ {z} => z \notin connected]_vars
=============================================================================
