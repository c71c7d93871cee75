------------------------- MODULE ControllerService -------------------------
(***************************************************************************)
(* The devices of a controller (mash-go/pkg/service/controller_service.go, *)
(* controller_remove.go): commissioning puts a device into                 *)
(* connectedDevices and a session into deviceSessions, operational         *)
(* discovery reconnects known devices, a message loop per connection       *)
(* notices its end, and SaveState and LoadState keep the list of devices.  *)
(*                                                                         *)
(* A connection stands for its goroutine too.  An attempt to reconnect     *)
(* takes the lock to mark the device connected, again to store the         *)
(* session, then checks the version of the device, and only then reads     *)
(* frames; a loop that ends takes the lock to close the session of its     *)
(* device and again to mark it disconnected.  Anything may happen between. *)
(*                                                                         *)
(* A device takes one connection of its zone at a time and closes the old  *)
(* one for a new one.  Commissioning makes a zone ID from its own secret,  *)
(* named here by the device that was commissioned.  A browse reports a     *)
(* device once until the device goes away and comes back.                  *)
(***************************************************************************)
EXTENDS Naturals, FiniteSets

CONSTANTS
    Devices,      \* each is commissioned at most once
    Connections,  \* bound: connections that goroutines attend to at a time
    Browses,      \* bound: operational browses that run at a time
    MaxRestarts,  \* bound: restarts of the controller
    None, Console \* no connection, browse, zone or file; the goroutine of the application

ASSUME ConstantsAssumption ==
    /\ Console \notin Devices /\ MaxRestarts \in Nat
    /\ None \notin Devices \cup Connections \cup Browses

\* Commission saves for its device, Decommission and the shutdown for Console.
Savers == Devices \cup {Console}

VARIABLES
    known, connected,  \* keys of connectedDevices, and those with Connected set
    session,           \* deviceSessions: the connection of a device's session
    zoneID,            \* zoneID; None stands for the ID of the Zone CA
    pc, peer, up,      \* of a connection: its goroutine, device, whether it is alive
    active, cancel,    \* operationalDiscoveryActive, operationalDiscoveryCancel
    browse,            \* operational browses: zone, cancelled, devices reported
    member,            \* a device is "fresh", "joined" or "left"
    serving,           \* the connection a device serves
    removing,          \* devices whose RemoveZone is under way
    saver,             \* calls of SaveState
    disk,              \* the state file, None while it cannot be read
    restarts,
    overlap,           \* ghost: two saves overlapped, one was cut off, or none was made
    disturbed          \* ghost: devices that may have two attempts at a time

discovery == <<active, cancel, browse>>
stores == <<saver, disk, overlap>>
vars == <<known, connected, session, zoneID, pc, peer, up, discovery, member, serving,
          removing, stores, restarts, disturbed>>

File == [devices : SUBSET Devices, zone : Devices \cup {None}]
NoFile == [devices |-> {}, zone |-> None]
Browse == [zone : Devices \cup {None}, cancelled : BOOLEAN, reported : SUBSET Devices]
Unused == "unused"

ASSUME NoneAssumption == None \notin File \cup Browse

TypeOK ==
    /\ known \subseteq Devices /\ connected \subseteq known
    /\ session \in [Devices -> Connections \cup {None}] /\ zoneID \in Devices \cup {None}
    /\ pc \in [Connections -> {Unused, "dial", "dialed", "dialAPI", "dialedAPI", "marked",
                               "check", "loop", "lost"}]
    /\ peer \in [Connections -> Devices \cup {None}] /\ up \subseteq Connections
    /\ active \in BOOLEAN /\ cancel \in Browses \cup {None}
    /\ browse \in [Browses -> Browse \cup {None}]
    /\ member \in [Devices -> {"fresh", "joined", "left"}]
    /\ serving \in [Devices -> Connections \cup {None}]
    /\ removing \subseteq Devices /\ disturbed \subseteq Devices /\ overlap \in BOOLEAN
    /\ saver \in [Savers -> [at : {"idle", "check", "due", "snapshot", "write"}, file : File]]
    /\ disk \in File \cup {None} /\ restarts \in 0 .. MaxRestarts

Idle == [at |-> "idle", file |-> NoFile]
Running(zone) == [zone |-> zone, cancelled |-> FALSE, reported |-> {}]

-----------------------------------------------------------------------------
(* Persistence. *)

\* Main: LoadState, which passes over a file that it cannot read; Start; and
\* operational discovery, if there are devices to find.
Boot(file) ==
    LET state == IF file = None THEN NoFile ELSE file IN
    /\ known' = state.devices /\ connected' = {} /\ zoneID' = state.zone
    /\ session' = [d \in Devices |-> None]
    /\ pc' = [c \in Connections |-> Unused] /\ peer' = [c \in Connections |-> None] /\ up' = {}
    /\ active' = (state.devices # {})
    /\ \E b \in Browses :
        /\ cancel' = IF active' THEN b ELSE None
        /\ browse' = [n \in Browses |-> IF active' /\ n = b THEN Running(state.zone) ELSE None]
    /\ saver' = [s \in Savers |-> Idle]
    /\ serving' = [d \in Devices |-> None] /\ removing' = {} /\ disturbed' = {}

\* A first start.
Init ==
    /\ known = {} /\ connected = {} /\ zoneID = None /\ session = [d \in Devices |-> None]
    /\ pc = [c \in Connections |-> Unused] /\ peer = [c \in Connections |-> None] /\ up = {}
    /\ active = FALSE /\ cancel = None /\ browse = [b \in Browses |-> None]
    /\ member = [d \in Devices |-> "fresh"] /\ serving = [d \in Devices |-> None]
    /\ removing = {} /\ saver = [s \in Savers |-> Idle] /\ disk = NoFile
    /\ restarts = 0 /\ overlap = FALSE /\ disturbed = {}

\* The process ends, at any point, and starts again.
Restart ==
    /\ restarts < MaxRestarts /\ restarts' = restarts + 1
    /\ Boot(disk)
    /\ overlap' = (overlap \/ \E s \in Savers : saver[s].at # "idle")
    /\ UNCHANGED <<member, disk>>

Saving(s, at) == saver' = [saver EXCEPT ![s].at = at]

\* SaveState copies the state under the read lock,
Snapshot(s) ==
    /\ saver[s].at = "due"
    /\ saver' = [saver EXCEPT ![s] =
                    [at |-> "snapshot", file |-> [devices |-> known, zone |-> zoneID]]]
    /\ overlap' = (overlap \/ \E t \in Savers \ {s} : saver[t].at \in {"snapshot", "write"})
    /\ UNCHANGED <<known, connected, session, zoneID, pc, peer, up, discovery, member,
                   serving, removing, disk, restarts, disturbed>>

\* and the store, which has a lock of its own, truncates the file
BeginWrite(s) ==
    /\ saver[s].at = "snapshot" /\ \A t \in Savers : saver[t].at # "write"
    /\ Saving(s, "write") /\ disk' = None
    /\ UNCHANGED <<known, connected, session, zoneID, pc, peer, up, discovery, member,
                   serving, removing, overlap, restarts, disturbed>>

\* and writes it.
EndWrite(s) ==
    /\ saver[s].at = "write"
    /\ disk' = saver[s].file /\ saver' = [saver EXCEPT ![s] = Idle]
    /\ UNCHANGED <<known, connected, session, zoneID, pc, peer, up, discovery, member,
                   serving, removing, overlap, restarts, disturbed>>

\* Main saves before it ends.
SaveAtShutdown ==
    /\ saver[Console].at = "idle" /\ Saving(Console, "due")
    /\ UNCHANGED <<known, connected, session, zoneID, pc, peer, up, discovery, member,
                   serving, removing, disk, overlap, restarts, disturbed>>

-----------------------------------------------------------------------------
(* Membership. *)

Free(c) == pc[c] = Unused

\* Devices that a goroutine attends to, and those it has yet to connect.
Attended == {peer[c] : c \in Connections} \ {None}
Attempted == {peer[c] : c \in {n \in Connections : pc[n] \notin {Unused, "loop", "lost"}}}

\* A goroutine begins to attend to a connection of a device.
Attend(c, d, place) ==
    /\ pc' = [pc EXCEPT ![c] = place] /\ peer' = [peer EXCEPT ![c] = d]

Goto(c, place) == pc' = [pc EXCEPT ![c] = place]

\* Commission, from the certificate on: the device is registered, the zone ID
\* of this commissioning becomes the controller's, the loop starts.  The device
\* closes this connection soon.
Commission(d, c) ==
    /\ member[d] = "fresh" /\ Free(c)
    /\ member' = [member EXCEPT ![d] = "joined"]
    /\ known' = known \cup {d} /\ connected' = connected \cup {d} /\ zoneID' = d
    /\ session' = [session EXCEPT ![d] = c] /\ up' = up \cup {c}
    /\ Attend(c, d, "loop")
    /\ Saving(d, "check")
    /\ UNCHANGED <<discovery, serving, removing, disk, overlap, restarts, disturbed>>

\* The version is compatible, or there is no answer: the device no longer reads.
Commissioned(d) ==
    /\ saver[d].at = "check" /\ Saving(d, "due")
    /\ UNCHANGED <<known, connected, session, zoneID, pc, peer, up, discovery, member,
                   serving, removing, disk, overlap, restarts, disturbed>>

\* A device that answers before it closes, with an incompatible version.  The
\* zone ID stays, and nothing is saved.
RefuseVersion(d) ==
    /\ saver[d].at = "check"
    /\ \E c \in up : peer[c] = d /\ pc[c] = "loop" /\ up' = up \ {c}
    /\ known' = known \ {d} /\ connected' = connected \ {d}
    /\ session' = [session EXCEPT ![d] = None]
    /\ Saving(d, "idle") /\ overlap' = TRUE
    /\ UNCHANGED <<zoneID, pc, peer, discovery, member, serving, removing, disk, restarts,
                   disturbed>>

DecommissionUnsaved(d) ==  \* mutant: the file is left to the shutdown
    /\ d \in known /\ saver[Console].at = "idle"
    /\ known' = known \ {d} /\ connected' = connected \ {d}
    /\ session' = [session EXCEPT ![d] = None]
    /\ UNCHANGED <<zoneID, pc, peer, up, discovery, member, serving, removing, stores,
                   restarts, disturbed>>

\* Decommission.  The connection stays as it is.
Decommission(d) ==
    /\ d \in known /\ saver[Console].at = "idle"
    /\ known' = known \ {d} /\ connected' = connected \ {d}
    /\ session' = [session EXCEPT ![d] = None]
    /\ Saving(Console, "due")
    /\ UNCHANGED <<zoneID, pc, peer, up, discovery, member, serving, removing, disk,
                   overlap, restarts, disturbed>>

\* RemoveDevice sends RemoveZone with the controller's zone ID.  A device obeys
\* when that is its zone, and closes the connection.
RemoveDevice(d) ==
    /\ session[d] # None /\ session[d] = serving[d] /\ session[d] \in up
    /\ zoneID = d /\ d \notin removing
    /\ removing' = removing \cup {d} /\ member' = [member EXCEPT ![d] = "left"]
    /\ serving' = [serving EXCEPT ![d] = None] /\ up' = up \ {session[d]}
    /\ UNCHANGED <<known, connected, session, zoneID, pc, peer, discovery, stores, restarts,
                   disturbed>>

\* The response comes, and nothing is saved, or it is lost.
FinishRemove(d) ==
    /\ d \in removing /\ removing' = removing \ {d}
    /\ \/ /\ known' = known \ {d} /\ connected' = connected \ {d}
          /\ session' = [session EXCEPT ![d] = None]
          /\ overlap' = TRUE
       \/ UNCHANGED <<known, connected, session, overlap>>
    /\ UNCHANGED <<zoneID, pc, peer, up, discovery, member, serving, saver, disk, restarts,
                   disturbed>>

-----------------------------------------------------------------------------
(* Operational discovery. *)

StartOperationalDiscovery(b) ==
    /\ ~ active /\ zoneID # None /\ browse[b] = None
    /\ active' = TRUE /\ cancel' = b
    /\ browse' = [browse EXCEPT ![b] = Running(zoneID)]
    /\ disturbed' = IF \A o \in Browses : browse[o] = None THEN disturbed \cup Attempted
                    ELSE Devices
    /\ UNCHANGED <<known, connected, session, zoneID, pc, peer, up, member, serving,
                   removing, stores, restarts>>

StopOperationalDiscovery ==
    /\ active
    /\ browse' = IF cancel = None THEN browse ELSE [browse EXCEPT ![cancel].cancelled = TRUE]
    /\ cancel' = None /\ active' = FALSE
    /\ UNCHANGED <<known, connected, session, zoneID, pc, peer, up, member, serving,
                   removing, stores, restarts, disturbed>>

\* A cancelled browse ends, and marks discovery as stopped.
EndBrowse(b) ==
    /\ browse[b] # None /\ browse[b].cancelled
    /\ browse' = [browse EXCEPT ![b] = None]
    /\ active' = FALSE /\ cancel' = None
    /\ UNCHANGED <<known, connected, session, zoneID, pc, peer, up, member, serving,
                   removing, stores, restarts, disturbed>>

\* Devices that browse b has yet to report.
Unreported(b) == {d \in Devices : /\ member[d] = "joined" /\ browse[b].zone = d
                                  /\ d \notin browse[b].reported}

Report(b, d) ==
    /\ browse[b] # None /\ d \in Unreported(b)
    /\ browse' = [browse EXCEPT ![b].reported = @ \cup {d}]
    /\ UNCHANGED <<known, connected, session, zoneID, up, active, cancel, member, serving,
                   removing, stores, restarts, disturbed>>

\* A device that is not known or is connected is passed over.
PassOver(b, d) ==
    /\ Report(b, d) /\ d \notin known \ connected
    /\ UNCHANGED <<pc, peer>>

RediscoverEvery(b, d, c) ==  \* mutant: connected devices are not passed over
    /\ Report(b, d) /\ d \in known /\ Free(c) /\ Attend(c, d, "dial")

\* A known one that is not connected is reconnected in the background.
Rediscover(b, d, c) ==
    /\ Report(b, d) /\ d \in known \ connected /\ Free(c) /\ Attend(c, d, "dial")

\* Reconnect is a call of the application.
Reconnect(d, c) ==
    /\ d \in known /\ Free(c) /\ Attend(c, d, "dialAPI")
    /\ disturbed' = disturbed \cup {d}
    /\ UNCHANGED <<known, connected, session, zoneID, up, discovery, member, serving,
                   removing, stores, restarts>>

-----------------------------------------------------------------------------
(* Connections. *)

\* The device serves the new connection in place of the old one.
Dial(c) ==
    /\ pc[c] \in {"dial", "dialAPI"} /\ member[peer[c]] = "joined"
    /\ Goto(c, IF pc[c] = "dial" THEN "dialed" ELSE "dialedAPI")
    /\ up' = (up \ {serving[peer[c]]}) \cup {c}
    /\ serving' = [serving EXCEPT ![peer[c]] = c]
    /\ UNCHANGED <<known, connected, session, zoneID, peer, discovery, member, removing,
                   stores, restarts, disturbed>>

Leave(c) ==
    /\ pc' = [pc EXCEPT ![c] = Unused] /\ peer' = [peer EXCEPT ![c] = None]
    /\ up' = up \ {c}
    /\ serving' = [d \in Devices |-> IF serving[d] = c THEN None ELSE serving[d]]

DialFails(c) ==
    /\ pc[c] \in {"dial", "dialAPI"} /\ Leave(c)
    /\ UNCHANGED <<known, connected, session, zoneID, discovery, member, removing, stores,
                   restarts, disturbed>>

\* Reconnect goes on with a device that has been removed.
MarkConnected(c) ==
    /\ pc[c] \in {"dialed", "dialedAPI"}
    /\ \/ /\ peer[c] \in known /\ connected' = connected \cup {peer[c]}
          /\ Goto(c, "marked") /\ UNCHANGED <<peer, up, serving>>
       \/ /\ peer[c] \notin known /\ pc[c] = "dialed" /\ UNCHANGED connected
          /\ Leave(c)
       \/ /\ peer[c] \notin known /\ pc[c] = "dialedAPI" /\ UNCHANGED connected
          /\ Goto(c, "marked") /\ UNCHANGED <<peer, up, serving>>
    /\ UNCHANGED <<known, session, zoneID, discovery, member, removing, stores, restarts,
                   disturbed>>

StoreSession(c) ==
    /\ pc[c] = "marked"
    /\ session' = [session EXCEPT ![peer[c]] = c]
    /\ Goto(c, "check")
    /\ UNCHANGED <<known, connected, zoneID, peer, up, discovery, member, serving, removing,
                   stores, restarts, disturbed>>

\* checkDeviceVersion and readRemoteCapabilities wait for answers that nobody
\* reads, time out or find the session closed, and let the device pass.
CheckVersion(c) ==
    /\ pc[c] = "check" /\ Goto(c, "loop")
    /\ UNCHANGED <<known, connected, session, zoneID, peer, up, discovery, member, serving,
                   removing, stores, restarts, disturbed>>

LoopEndsUnclosed(c) ==  \* mutant: only the disconnection is noted
    /\ pc[c] = "loop" /\ c \notin up
    /\ Goto(c, "lost")
    /\ UNCHANGED <<known, connected, session, zoneID, peer, up, discovery, member, serving,
                   removing, stores, restarts, disturbed>>

\* ReadFrame fails: whatever session the device has is closed,
LoopEnds(c) ==
    /\ pc[c] = "loop" /\ c \notin up
    /\ session' = [session EXCEPT ![peer[c]] = None]
    /\ Goto(c, "lost")
    /\ UNCHANGED <<known, connected, zoneID, peer, up, discovery, member, serving, removing,
                   stores, restarts, disturbed>>

\* and the device is marked disconnected.
HandleDeviceDisconnect(c) ==
    /\ pc[c] = "lost" /\ Leave(c)
    /\ connected' = connected \ {peer[c]}
    /\ UNCHANGED <<known, session, zoneID, discovery, member, removing, stores, restarts,
                   disturbed>>

-----------------------------------------------------------------------------
(* Outside. *)

\* The network, or the device after it was commissioned, ends a connection.
LoseConnection(c) ==
    /\ c \in up /\ up' = up \ {c}
    /\ serving' = [d \in Devices |-> IF serving[d] = c THEN None ELSE serving[d]]
    /\ UNCHANGED <<known, connected, session, zoneID, pc, peer, discovery, member, removing,
                   stores, restarts, disturbed>>

\* A device goes away, and comes back.
DeviceReturns(d) ==
    /\ member[d] = "joined"
    /\ up' = {c \in up : peer[c] # d} /\ serving' = [serving EXCEPT ![d] = None]
    /\ browse' = [b \in Browses |-> IF browse[b] = None THEN None
                                    ELSE [browse[b] EXCEPT !.reported = @ \ {d}]]
    /\ disturbed' = disturbed \cup ({d} \cap Attempted)
    /\ UNCHANGED <<known, connected, session, zoneID, pc, peer, active, cancel, member,
                   removing, stores, restarts>>

Save(s) == Snapshot(s) \/ BeginWrite(s) \/ EndWrite(s)
Attending(c) == MarkConnected(c) \/ StoreSession(c) \/ CheckVersion(c) \/ LoopEnds(c)
                \/ HandleDeviceDisconnect(c)

Next ==
    \/ Restart \/ SaveAtShutdown \/ StopOperationalDiscovery
    \/ \E s \in Savers : Save(s)
    \/ \E d \in Devices : \/ Commissioned(d) \/ RefuseVersion(d) \/ Decommission(d)
                          \/ RemoveDevice(d) \/ FinishRemove(d) \/ DeviceReturns(d)
    \/ \E d \in Devices, c \in Connections : Commission(d, c) \/ Reconnect(d, c)
    \/ \E b \in Browses : StartOperationalDiscovery(b) \/ EndBrowse(b)
    \/ \E b \in Browses, d \in Devices :
        PassOver(b, d) \/ \E c \in Connections : Rediscover(b, d, c)
    \/ \E c \in Connections :
        Dial(c) \/ DialFails(c) \/ Attending(c) \/ LoseConnection(c)

Spec == Init /\ [][Next]_vars

-----------------------------------------------------------------------------

\* A device counts as connected only while a goroutine attends to it, which
\* ends by marking it disconnected, and its session is the one of a goroutine
\* that reads or is about to: no dead connection is shown or used for ever
\* (HandleDeviceDisconnect, handleDeviceSessionClose).
DevicesAttended ==
    /\ connected \subseteq Attended
    /\ \A d \in Devices : session[d] # None =>
        peer[session[d]] = d /\ pc[session[d]] \in {"check", "loop"}

\* A device has one goroutine and connection at a time, and while it has a
\* session it counts as connected ("One persistent connection per
\* controller-device pair", docs/transport.md), unless the application calls
\* Reconnect, the device comes back during an attempt, or discovery is
\* restarted during an attempt or before the last browse has ended.
OneConnectionUnlessDisturbed ==
    \A d \in Devices \ disturbed :
        /\ \A c, o \in Connections : peer[c] = d /\ peer[o] = d => c = o
        /\ session[d] # None /\ d \in known => d \in connected

\* While nothing is being saved, the state file holds the devices and the zone
\* ID in use: commissioning and decommissioning survive a restart (SaveState),
\* unless saves overlapped, one was cut off, or none was made (RemoveDevice,
\* Commission of a device with an incompatible version).
DiskCurrentUnlessOverlap ==
    overlap \/ (\E s \in Savers : saver[s].at # "idle")
    \/ disk = [devices |-> known, zone |-> zoneID]

-----------------------------------------------------------------------------
(* Statements of documents and comments that the code does not keep, listed in
   README.md; no configuration checks them. *)

\* "One persistent connection per controller-device pair" (docs/transport.md):
\* the loop of one connection of a device ends the session of another.
OneConnectionPerDevice ==
    \A c, o \in Connections : peer[c] # None /\ peer[c] = peer[o] => c = o

\* "Automatic reconnection on disconnect" (docs/transport.md): a device that a
\* browse reported while it still counted as connected, as when it closes the
\* connection of its commissioning, is not reported again.
DisconnectedIsFound ==
    \A b \in Browses, d \in known \ connected :
        /\ member[d] = "joined" /\ active /\ cancel = b /\ browse[b].zone = d
        => d \in Unreported(b) \/ d \in Attended

\* "Zone ID is derived from CA certificate fingerprint" (docs/decision-log.md),
\* one for all devices: each commissioning replaces it, and discovery and
\* RemoveZone no longer concern the devices commissioned before.
OneZone == \A d \in known : member[d] = "joined" => zoneID = d

\* A session is that of a device in the zone: StoreSession does not look.
SessionOfKnown == \A d \in Devices : session[d] # None => d \in known

\* "Decommission removes a device from the zone": the device knows nothing of it
\* and the connection stays.
DecommissionedDropped == \A c \in up : pc[c] = "loop" => peer[c] \in known

\* "StopOperationalDiscovery stops background operational discovery": a browse
\* whose cancel function an older one has cleared at its end goes on.
StoppedDiscoveryEnds == ~ active => \A b \in Browses : browse[b] = None \/ browse[b].cancelled

\* A removed device is not in the state file that the next start reads.
RemovedIsForgotten ==
    \A d \in Devices : /\ member[d] = "left" /\ d \notin removing \cup known
                       /\ \A s \in Savers : saver[s].at = "idle"
                       => disk = None \/ d \notin disk.devices

\* Commissioning is remembered over a restart at any point of a save.
FileReadable == disk # None
=============================================================================
