----------------------- MODULE ControllerServiceProofs -----------------------
(***************************************************************************)
(* Safety of the devices of a controller, for any devices, connections,    *)
(* browses and restarts.                                                   *)
(*                                                                         *)
(* AttendedInv: from the mark on, a goroutine is responsible for marking   *)
(* its device disconnected.  DiskInv: as long as saves do not overlap, one *)
(* of them writes at a time, and the state that it has read is current     *)
(* unless another save is yet to come.  SingleInv: a device is not         *)
(* attempted twice, because the one browse has it reported until the       *)
(* attempt has marked it connected; FreshInv: nor commissioned twice.      *)
(***************************************************************************)
EXTENDS ControllerService, TLAPS

USE ConstantsAssumption, NoneAssumption

-----------------------------------------------------------------------------
(* Types. *)

\* A goroutine that attends to a connection has a device, and the cancel function
\* is that of a browse that runs.
Attached ==
    /\ \A c \in Connections : pc[c] = Unused <=> peer[c] = None
    /\ cancel # None => browse[cancel] # None

Typed == TypeOK /\ Attached

\* The controller starts without devices.
LEMMA InitTyped == Init => Typed
<1> SUFFICES ASSUME Init PROVE Typed
  OBVIOUS
<1>1. Idle \in [at : {"idle", "check", "due", "snapshot", "write"}, file : File]
  BY DEF Idle, File, NoFile
<1>2. saver \in [Savers -> [at : {"idle", "check", "due", "snapshot", "write"}, file : File]]
  BY <1>1 DEF Init
<1>3. NoFile \in File BY DEF NoFile, File
<1>4. TypeOK
  <2>1. /\ known \subseteq Devices /\ connected \subseteq known
        /\ session \in [Devices -> Connections \cup {None}] /\ zoneID \in Devices \cup {None}
    BY DEF Init
  <2>2. /\ pc \in [Connections -> {Unused, "dial", "dialed", "dialAPI", "dialedAPI", "marked",
                               "check", "loop", "lost"}]
        /\ peer \in [Connections -> Devices \cup {None}] /\ up \subseteq Connections
    BY DEF Init
  <2>3. /\ active \in BOOLEAN /\ cancel \in Browses \cup {None}
        /\ browse \in [Browses -> Browse \cup {None}]
    BY DEF Init
  <2>4. /\ member \in [Devices -> {"fresh", "joined", "left"}]
        /\ serving \in [Devices -> Connections \cup {None}]
        /\ removing \subseteq Devices /\ disturbed \subseteq Devices /\ overlap \in BOOLEAN
    BY DEF Init
  <2>5. disk \in File \cup {None} /\ restarts \in 0 .. MaxRestarts BY <1>3 DEF Init
  <2> QED BY <1>2, <2>1, <2>2, <2>3, <2>4, <2>5 DEF TypeOK
<1>5. Attached BY DEF Init, Attached
<1> QED BY <1>4, <1>5 DEF Typed

\* A restart reads a list of devices and may begin a browse.
LEMMA BootTyped ==
    ASSUME Typed, Restart
    PROVE  Typed'
<1> DEFINE state == IF disk = None THEN NoFile ELSE disk
<1>1. state \in File BY DEF Typed, TypeOK, NoFile, File
<1>2. /\ known' = state.devices /\ connected' = {} /\ zoneID' = state.zone
      /\ session' = [d \in Devices |-> None]
      /\ pc' = [c \in Connections |-> Unused] /\ peer' = [c \in Connections |-> None] /\ up' = {}
      /\ active' = (state.devices # {})
      /\ saver' = [s \in Savers |-> Idle]
      /\ serving' = [d \in Devices |-> None] /\ removing' = {} /\ disturbed' = {}
  BY DEF Restart, Boot
<1>3. PICK b \in Browses :
        /\ cancel' = IF active' THEN b ELSE None
        /\ browse' = [n \in Browses |-> IF active' /\ n = b THEN Running(state.zone) ELSE None]
  BY DEF Restart, Boot
<1> HIDE DEF state
<1>4. state.devices \subseteq Devices /\ state.zone \in Devices \cup {None} BY <1>1 DEF File
<1>5. Running(state.zone) \in Browse BY <1>4 DEF Running, Browse
<1>6. Idle \in [at : {"idle", "check", "due", "snapshot", "write"}, file : File]
  BY DEF Idle, File, NoFile
<1>7. saver' \in [Savers -> [at : {"idle", "check", "due", "snapshot", "write"}, file : File]]
  BY <1>2, <1>6
<1>8. TypeOK'
  <2>1. /\ known' \subseteq Devices /\ connected' \subseteq known'
        /\ session' \in [Devices -> Connections \cup {None}]
        /\ zoneID' \in Devices \cup {None}
    BY <1>2, <1>4
  <2>2. /\ pc' \in [Connections -> {Unused, "dial", "dialed", "dialAPI", "dialedAPI", "marked",
                               "check", "loop", "lost"}]
        /\ peer' \in [Connections -> Devices \cup {None}] /\ up' \subseteq Connections
    BY <1>2
  <2>3. /\ active' \in BOOLEAN /\ cancel' \in Browses \cup {None}
        /\ browse' \in [Browses -> Browse \cup {None}]
    BY <1>2, <1>3, <1>5
  <2>4. /\ member' \in [Devices -> {"fresh", "joined", "left"}]
        /\ serving' \in [Devices -> Connections \cup {None}]
        /\ removing' \subseteq Devices /\ disturbed' \subseteq Devices
        /\ disk' \in File \cup {None}
    BY <1>2 DEF Restart, Typed, TypeOK
  <2>5. overlap' \in BOOLEAN BY DEF Restart
  <2>6. restarts' \in 0 .. MaxRestarts BY DEF Restart, Typed, TypeOK
  <2> QED BY <1>7, <2>1, <2>2, <2>3, <2>4, <2>5, <2>6 DEF TypeOK
<1>9. Attached'
  <2>1. cancel' # None => browse'[cancel'] = Running(state.zone) BY <1>3
  <2> QED BY <1>2, <1>5, <2>1 DEF Attached
<1> QED BY <1>8, <1>9 DEF Typed

\* Steps of SaveState.
LEMMA SaveTyped ==
    ASSUME Typed, NEW s \in Savers, Save(s) \/ SaveAtShutdown
    PROVE  Typed'
<1>1. [devices |-> known, zone |-> zoneID] \in File BY DEF Typed, TypeOK, File
<1>2. saver[s] \in [at : {"idle", "check", "due", "snapshot", "write"}, file : File]
  BY DEF Typed, TypeOK
<1>3. Console \in Savers BY DEF Savers
<1>4. /\ saver' \in [Savers -> [at : {"idle", "check", "due", "snapshot", "write"}, file : File]]
      /\ disk' \in File \cup {None} /\ overlap' \in BOOLEAN
  <2>1. CASE Snapshot(s) BY <1>1, <2>1 DEF Snapshot, Typed, TypeOK
  <2>2. CASE BeginWrite(s) BY <2>2 DEF BeginWrite, Saving, Typed, TypeOK
  <2>3. CASE EndWrite(s)
    <3>1. Idle \in [at : {"idle", "check", "due", "snapshot", "write"}, file : File]
      BY DEF Idle, File, NoFile
    <3> QED BY <1>2, <2>3, <3>1 DEF EndWrite, Typed, TypeOK
  <2>4. CASE SaveAtShutdown BY <1>3, <2>4 DEF SaveAtShutdown, Saving, Typed, TypeOK
  <2> QED BY <2>1, <2>2, <2>3, <2>4 DEF Save
<1>5. UNCHANGED <<known, connected, session, zoneID, pc, peer, up, discovery, member,
                  serving, removing, restarts, disturbed>>
  BY DEF Save, Snapshot, BeginWrite, EndWrite, SaveAtShutdown
<1>6. TypeOK' BY <1>4, <1>5 DEF Typed, TypeOK, discovery
<1>7. Attached' BY <1>5 DEF Typed, Attached, discovery
<1> QED BY <1>6, <1>7 DEF Typed

\* Which saver changes its place, if one does.
LEMMA SavingTyped ==
    ASSUME Typed, NEW s \in Savers,
           NEW at \in {"idle", "check", "due", "snapshot", "write"}, Saving(s, at)
    PROVE  saver' \in [Savers -> [at : {"idle", "check", "due", "snapshot", "write"}, file : File]]
BY DEF Saving, Typed, TypeOK

\* Commissioning, decommissioning and removal of a device.
LEMMA MemberTyped ==
    ASSUME Typed, NEW d \in Devices,
           \/ \E c \in Connections : Commission(d, c)
           \/ Commissioned(d) \/ RefuseVersion(d) \/ Decommission(d)
           \/ RemoveDevice(d) \/ FinishRemove(d)
    PROVE  Typed'
<1>0. d \in Savers /\ Console \in Savers BY DEF Savers
<1>1. ASSUME NEW c \in Connections, Commission(d, c) PROVE Typed'
  <2>1. TypeOK'
    BY <1>0, <1>1, SavingTyped DEF Commission, Attend, Typed, TypeOK, discovery
  <2>2. Attached' BY <1>1 DEF Commission, Attend, Free, Typed, TypeOK, Attached, discovery, Unused
  <2> QED BY <2>1, <2>2 DEF Typed
<1>2. CASE Commissioned(d) \/ Decommission(d) \/ RefuseVersion(d)
  <2>1. TypeOK'
    <3>1. CASE Commissioned(d)
      BY <1>0, <3>1, SavingTyped DEF Commissioned, Typed, TypeOK, discovery
    <3>2. CASE Decommission(d)
      BY <1>0, <3>2, SavingTyped DEF Decommission, Typed, TypeOK, discovery
    <3>3. CASE RefuseVersion(d)
      BY <1>0, <3>3, SavingTyped DEF RefuseVersion, Typed, TypeOK, discovery
    <3> QED BY <1>2, <3>1, <3>2, <3>3
  <2>2. Attached'
    <3>1. UNCHANGED <<pc, peer, cancel, browse>>
      BY <1>2 DEF Commissioned, Decommission, RefuseVersion, discovery
    <3> QED BY <3>1 DEF Typed, Attached
  <2> QED BY <2>1, <2>2 DEF Typed
<1>3. CASE RemoveDevice(d) \/ FinishRemove(d)
  <2>1. TypeOK'
    <3>1. CASE RemoveDevice(d) BY <3>1 DEF RemoveDevice, Typed, TypeOK, discovery, stores
    <3>2. CASE FinishRemove(d) BY <3>2 DEF FinishRemove, Typed, TypeOK, discovery, stores
    <3> QED BY <1>3, <3>1, <3>2
  <2>2. Attached' BY <1>3 DEF RemoveDevice, FinishRemove, Typed, Attached, discovery, stores
  <2> QED BY <2>1, <2>2 DEF Typed
<1> QED BY <1>1, <1>2, <1>3

\* Operational discovery, up to the goroutine that a report starts.
LEMMA DiscoveryTyped ==
    ASSUME Typed,
           \/ StopOperationalDiscovery
           \/ \E b \in Browses : StartOperationalDiscovery(b) \/ EndBrowse(b)
           \/ \E b \in Browses, d \in Devices :
                PassOver(b, d) \/ \E c \in Connections : Rediscover(b, d, c)
           \/ \E d \in Devices, c \in Connections : Reconnect(d, c)
           \/ \E d \in Devices : DeviceReturns(d)
    PROVE  Typed'
<1>1. CASE StopOperationalDiscovery
  <2>1. /\ active' = FALSE /\ cancel' = None
        /\ browse' = IF cancel = None THEN browse ELSE [browse EXCEPT ![cancel].cancelled = TRUE]
        /\ UNCHANGED <<known, connected, session, zoneID, pc, peer, up, member, serving>>
        /\ UNCHANGED <<removing, stores, restarts, disturbed>>
    BY <1>1 DEF StopOperationalDiscovery
  <2>2. browse' \in [Browses -> Browse \cup {None}]
    <3>1. CASE cancel = None BY <2>1, <3>1 DEF Typed, TypeOK
    <3>2. CASE cancel # None
      <4>1. cancel \in Browses /\ browse[cancel] \in Browse
        BY <3>2 DEF Typed, TypeOK, Attached
      <4>2. [browse[cancel] EXCEPT !.cancelled = TRUE] \in Browse BY <4>1 DEF Browse
      <4> QED BY <2>1, <3>2, <4>1, <4>2 DEF Typed, TypeOK
    <3> QED BY <3>1, <3>2
  <2>3. TypeOK' BY <2>1, <2>2 DEF Typed, TypeOK, stores
  <2>4. Attached' BY <2>1 DEF Typed, Attached
  <2> QED BY <2>3, <2>4 DEF Typed
<1>2. ASSUME NEW b \in Browses, StartOperationalDiscovery(b) PROVE Typed'
  <2>1. Running(zoneID) \in Browse BY DEF Running, Browse, Typed, TypeOK
  <2>2. disturbed' \subseteq Devices
    <3>1. Attempted \subseteq Devices BY DEF Attempted, Typed, TypeOK, Attached
    <3> QED BY <1>2, <3>1 DEF StartOperationalDiscovery, Typed, TypeOK
  <2>3. TypeOK' BY <1>2, <2>1, <2>2 DEF StartOperationalDiscovery, Typed, TypeOK, stores
  <2>4. Attached'
    BY <1>2, <2>1 DEF StartOperationalDiscovery, Typed, TypeOK, Attached, stores
  <2> QED BY <2>3, <2>4 DEF Typed
<1>3. ASSUME NEW b \in Browses, EndBrowse(b) PROVE Typed'
  <2>1. TypeOK' BY <1>3 DEF EndBrowse, Typed, TypeOK, stores
  <2>2. Attached' BY <1>3 DEF EndBrowse, Typed, TypeOK, Attached, stores
  <2> QED BY <2>1, <2>2 DEF Typed
<1>4. ASSUME NEW b \in Browses, NEW d \in Devices, Report(b, d)
      PROVE  /\ browse' \in [Browses -> Browse \cup {None}]
             /\ \A o \in Browses : browse'[o] # None <=> browse[o] # None
  <2>1. browse[b] \in Browse BY <1>4 DEF Report, Typed, TypeOK
  <2>2. [browse[b] EXCEPT !.reported = @ \cup {d}] \in Browse BY <2>1 DEF Browse
  <2>3. browse' = [browse EXCEPT ![b] = [browse[b] EXCEPT !.reported = @ \cup {d}]]
    BY <1>4 DEF Report, Typed, TypeOK
  <2> QED BY <2>1, <2>2, <2>3 DEF Typed, TypeOK
<1>5. ASSUME NEW b \in Browses, NEW d \in Devices, PassOver(b, d) PROVE Typed'
  <2>1. TypeOK' BY <1>4, <1>5 DEF PassOver, Report, Typed, TypeOK, stores
  <2>2. Attached' BY <1>4, <1>5 DEF PassOver, Report, Typed, TypeOK, Attached, stores
  <2> QED BY <2>1, <2>2 DEF Typed
<1>6. ASSUME NEW b \in Browses, NEW d \in Devices, NEW c \in Connections, Rediscover(b, d, c)
      PROVE  Typed'
  <2>1. TypeOK' BY <1>4, <1>6 DEF Rediscover, Attend, Report, Typed, TypeOK, stores
  <2>2. Attached'
    BY <1>4, <1>6 DEF Rediscover, Attend, Report, Typed, TypeOK, Attached, stores, Unused
  <2> QED BY <2>1, <2>2 DEF Typed
<1>7. ASSUME NEW d \in Devices, NEW c \in Connections, Reconnect(d, c) PROVE Typed'
  <2>1. TypeOK' BY <1>7 DEF Reconnect, Attend, Typed, TypeOK, discovery, stores
  <2>2. Attached'
    BY <1>7 DEF Reconnect, Attend, Typed, TypeOK, Attached, discovery, stores, Unused
  <2> QED BY <2>1, <2>2 DEF Typed
<1>8. ASSUME NEW d \in Devices, DeviceReturns(d) PROVE Typed'
  <2>1. \A b \in Browses : browse[b] # None =>
            [browse[b] EXCEPT !.reported = @ \ {d}] \in Browse
    BY DEF Typed, TypeOK, Browse
  <2>2. browse' = [b \in Browses |-> IF browse[b] = None THEN None
                                     ELSE [browse[b] EXCEPT !.reported = @ \ {d}]]
    BY <1>8 DEF DeviceReturns
  <2>3. /\ browse' \in [Browses -> Browse \cup {None}]
        /\ \A o \in Browses : browse'[o] # None <=> browse[o] # None
    BY <2>1, <2>2
  <2>4. TypeOK' BY <1>8, <2>3 DEF DeviceReturns, Typed, TypeOK, stores
  <2>5. Attached' BY <1>8, <2>3 DEF DeviceReturns, Typed, TypeOK, Attached, stores
  <2> QED BY <2>4, <2>5 DEF Typed
<1> QED BY <1>1, <1>2, <1>3, <1>5, <1>6, <1>7, <1>8

\* The steps of a goroutine that attends to a connection.
LEMMA ConnectionTyped ==
    ASSUME Typed, NEW c \in Connections,
           Dial(c) \/ DialFails(c) \/ Attending(c) \/ LoseConnection(c)
    PROVE  Typed'
<1>0. /\ pc[c] # Unused => peer[c] \in Devices
      /\ \A x \in {"dial", "dialed", "dialAPI", "dialedAPI", "marked", "check", "loop", "lost"} :
            x # Unused
  BY DEF Typed, TypeOK, Attached, Unused
<1>1. UNCHANGED <<known, zoneID, active, cancel, browse, member, removing, stores, restarts,
                  disturbed>>
  BY DEF Dial, DialFails, Attending, MarkConnected, StoreSession, CheckVersion, LoopEnds,
         HandleDeviceDisconnect, LoseConnection, discovery
<1>2. connected' \subseteq known
  BY DEF Dial, DialFails, Attending, MarkConnected, StoreSession, CheckVersion, LoopEnds,
         HandleDeviceDisconnect, LoseConnection, Typed, TypeOK
<1>3. session' \in [Devices -> Connections \cup {None}]
  BY DEF Dial, DialFails, Attending, MarkConnected, StoreSession, CheckVersion, LoopEnds,
         HandleDeviceDisconnect, LoseConnection, Typed, TypeOK
<1>4. up' \subseteq Connections /\ serving' \in [Devices -> Connections \cup {None}]
  BY DEF Dial, DialFails, Attending, MarkConnected, StoreSession, CheckVersion, LoopEnds,
         HandleDeviceDisconnect, LoseConnection, Leave, Typed, TypeOK
<1>5. \/ UNCHANGED <<pc, peer>>
      \/ \E x \in {"dialed", "dialedAPI", "marked", "check", "loop", "lost"} :
            pc[c] # Unused /\ Goto(c, x) /\ UNCHANGED peer
      \/ pc' = [pc EXCEPT ![c] = Unused] /\ peer' = [peer EXCEPT ![c] = None]
  <2>1. CASE Dial(c)
    BY <1>0, <2>1 DEF Dial
  <2>2. CASE DialFails(c) \/ HandleDeviceDisconnect(c)
    BY <2>2 DEF DialFails, HandleDeviceDisconnect, Leave
  <2>3. CASE MarkConnected(c) BY <1>0, <2>3 DEF MarkConnected, Leave
  <2>4. CASE StoreSession(c) \/ CheckVersion(c) \/ LoopEnds(c)
    BY <1>0, <2>4 DEF StoreSession, CheckVersion, LoopEnds
  <2>5. CASE LoseConnection(c) BY <2>5 DEF LoseConnection
  <2> QED BY <2>1, <2>2, <2>3, <2>4, <2>5 DEF Attending
<1>6. /\ pc' \in [Connections -> {Unused, "dial", "dialed", "dialAPI", "dialedAPI", "marked",
                                  "check", "loop", "lost"}]
      /\ peer' \in [Connections -> Devices \cup {None}]
      /\ \A o \in Connections : pc'[o] = Unused <=> peer'[o] = None
  BY <1>0, <1>5 DEF Goto, Typed, TypeOK, Attached
<1>7. TypeOK' BY <1>1, <1>2, <1>3, <1>4, <1>6 DEF Typed, TypeOK, stores
<1>8. Attached' BY <1>1, <1>6 DEF Typed, Attached
<1> QED BY <1>7, <1>8 DEF Typed

\* Every step keeps the types.
LEMMA NextTyped == Typed /\ [Next]_vars => Typed'
<1> SUFFICES ASSUME Typed, [Next]_vars PROVE Typed'
  OBVIOUS
<1>1. CASE Restart BY <1>1, BootTyped
<1>2. CASE SaveAtShutdown \/ \E s \in Savers : Save(s) BY <1>2, SaveTyped DEF Savers
<1>3. CASE UNCHANGED vars
  BY <1>3 DEF vars, discovery, stores, Typed, TypeOK, Attached
<1> QED BY <1>1, <1>2, <1>3, MemberTyped, DiscoveryTyped, ConnectionTyped DEF Next

\* The variables of the controller service keep their types through
\* commissioning, discovery, reconnection, saves and restarts.
THEOREM TypeCorrect == Spec => []TypeOK
<1>1. Typed => TypeOK BY DEF Typed
<1> QED BY <1>1, InitTyped, NextTyped, PTL DEF Spec

-----------------------------------------------------------------------------
(* Connected devices are attended to. *)

\* A goroutine that will mark its device disconnected when it ends.
Responsible == {"marked", "check", "loop", "lost"}

AttendedInv ==
    /\ \A d \in connected : \E c \in Connections : peer[c] = d /\ pc[c] \in Responsible
    /\ \A d \in Devices : session[d] # None =>
        peer[session[d]] = d /\ pc[session[d]] \in {"check", "loop"}

\* A step that moves no goroutine and adds neither sessions nor connected devices.
LEMMA AttendedStable ==
    ASSUME AttendedInv, UNCHANGED <<pc, peer>>, connected' \subseteq connected,
           \A d \in Devices : session'[d] \in {session[d], None}
    PROVE  AttendedInv'
BY DEF AttendedInv

\* A free goroutine takes a connection of a device.
LEMMA AttendKeeps ==
    ASSUME Typed, AttendedInv, NEW c \in Connections, NEW d \in Devices, NEW place,
           Free(c), Attend(c, d, place), UNCHANGED <<connected, session>>
    PROVE  AttendedInv'
<1>1. pc[c] = Unused /\ Unused \notin Responsible /\ Unused \notin {"check", "loop"}
  BY DEF Free, Unused, Responsible
<1>2. \A o \in Connections \ {c} : pc'[o] = pc[o] /\ peer'[o] = peer[o]
  BY DEF Attend, Typed, TypeOK
<1>3. \A e \in Devices : session[e] # None => session[e] \in Connections BY DEF Typed, TypeOK
<1> QED BY <1>1, <1>2, <1>3 DEF AttendedInv

\* Every step keeps it.
LEMMA AttendedStep == Typed /\ AttendedInv /\ [Next]_vars => AttendedInv'
<1> SUFFICES ASSUME Typed, AttendedInv, [Next]_vars PROVE AttendedInv'
  OBVIOUS
<1>0. \A e \in Devices : session[e] # None => session[e] \in Connections BY DEF Typed, TypeOK
<1>1. CASE Restart
  <2>1. connected' = {} /\ session' = [d \in Devices |-> None] BY <1>1 DEF Restart, Boot
  <2> QED BY <2>1 DEF AttendedInv
<1>2. CASE \/ SaveAtShutdown \/ \E s \in Savers : Save(s)
           \/ StopOperationalDiscovery
           \/ \E b \in Browses : StartOperationalDiscovery(b) \/ EndBrowse(b)
           \/ \E b \in Browses, d \in Devices : PassOver(b, d)
           \/ \E d \in Devices : Commissioned(d) \/ RemoveDevice(d) \/ DeviceReturns(d)
           \/ \E c \in Connections : LoseConnection(c)
           \/ UNCHANGED vars
  <2>1. UNCHANGED <<pc, peer, connected, session>>
    BY <1>2 DEF SaveAtShutdown, Save, Snapshot, BeginWrite, EndWrite,
         StopOperationalDiscovery, StartOperationalDiscovery, EndBrowse, PassOver, Report,
         Commissioned, RemoveDevice, DeviceReturns, LoseConnection, vars
  <2> QED BY <2>1, AttendedStable
<1>3. ASSUME NEW d \in Devices, RefuseVersion(d) \/ Decommission(d) \/ FinishRemove(d)
      PROVE  AttendedInv'
  <2>1. /\ UNCHANGED <<pc, peer>> /\ connected' \subseteq connected
        /\ \A e \in Devices : session'[e] \in {session[e], None}
    BY <1>3 DEF RefuseVersion, Decommission, FinishRemove, Typed, TypeOK
  <2> QED BY <2>1, AttendedStable
<1>4. ASSUME NEW d \in Devices, NEW c \in Connections, Commission(d, c) PROVE AttendedInv'
  <2>1. /\ pc[c] = Unused /\ pc' = [pc EXCEPT ![c] = "loop"] /\ peer' = [peer EXCEPT ![c] = d]
        /\ connected' = connected \cup {d} /\ session' = [session EXCEPT ![d] = c]
    BY <1>4 DEF Commission, Attend, Free
  <2>2. pc'[c] = "loop" /\ peer'[c] = d /\ session'[d] = c BY <2>1 DEF Typed, TypeOK
  <2>3. \A o \in Connections \ {c} : pc'[o] = pc[o] /\ peer'[o] = peer[o]
    BY <2>1 DEF Typed, TypeOK
  <2>4. \A e \in Devices \ {d} : session'[e] = session[e] BY <2>1 DEF Typed, TypeOK
  <2>5. pc[c] \notin Responsible /\ pc[c] \notin {"check", "loop"} /\ "loop" \in Responsible
    BY <2>1 DEF Unused, Responsible
  <2>6. \A e \in connected' : \E o \in Connections : peer'[o] = e /\ pc'[o] \in Responsible
    BY <2>1, <2>2, <2>3, <2>5 DEF AttendedInv
  <2>7. \A e \in Devices : session'[e] # None =>
            peer'[session'[e]] = e /\ pc'[session'[e]] \in {"check", "loop"}
    BY <1>0, <2>2, <2>3, <2>4, <2>5 DEF AttendedInv
  <2> QED BY <2>6, <2>7 DEF AttendedInv
<1>5. ASSUME NEW d \in Devices, NEW c \in Connections, Reconnect(d, c) PROVE AttendedInv'
  BY <1>5, AttendKeeps DEF Reconnect
<1>6. ASSUME NEW b \in Browses, NEW d \in Devices, NEW c \in Connections, Rediscover(b, d, c)
      PROVE  AttendedInv'
  BY <1>6, AttendKeeps DEF Rediscover, Report
<1>7. ASSUME NEW c \in Connections, Dial(c) \/ DialFails(c) \/ Attending(c)
      PROVE  AttendedInv'
  <2>0. pc[c] # Unused => peer[c] \in Devices BY DEF Typed, TypeOK, Attached
  <2>1. ASSUME pc[c] \notin Responsible, UNCHANGED <<connected, session>>,
               \A o \in Connections \ {c} : pc'[o] = pc[o] /\ peer'[o] = peer[o]
        PROVE  AttendedInv'
    BY <1>0, <2>1 DEF AttendedInv, Responsible
  <2>2. \A o \in Connections \ {c} : pc'[o] = pc[o] /\ peer'[o] = peer[o]
    BY <1>7 DEF Dial, DialFails, Attending, MarkConnected, StoreSession, CheckVersion,
         LoopEnds, HandleDeviceDisconnect, Leave, Goto, Typed, TypeOK
  <2>3. CASE Dial(c) \/ DialFails(c)
    BY <2>1, <2>2, <2>3 DEF Dial, DialFails, Responsible
  <2>4. CASE MarkConnected(c)
    <3>1. pc[c] \notin Responsible /\ UNCHANGED session
      BY <2>4 DEF MarkConnected, Responsible
    <3>2. CASE UNCHANGED connected BY <2>1, <2>2, <3>1, <3>2
    <3>3. CASE /\ connected' = connected \cup {peer[c]}
               /\ Goto(c, "marked") /\ UNCHANGED peer
      <4>1. pc'[c] = "marked" /\ peer'[c] = peer[c] BY <3>3 DEF Goto, Typed, TypeOK
      <4>2. "marked" \in Responsible BY DEF Responsible
      <4>3. \A e \in connected' : \E o \in Connections : peer'[o] = e /\ pc'[o] \in Responsible
        BY <2>2, <3>1, <3>3, <4>1, <4>2 DEF AttendedInv
      <4>4. \A e \in Devices : session[e] # None => session[e] # c
        BY <3>1 DEF AttendedInv, Responsible
      <4> QED BY <1>0, <2>2, <3>1, <4>3, <4>4 DEF AttendedInv
    <3> QED BY <2>4, <3>2, <3>3 DEF MarkConnected
  <2>5. CASE StoreSession(c)
    <3>1. /\ pc[c] = "marked" /\ session' = [session EXCEPT ![peer[c]] = c]
          /\ pc'[c] = "check" /\ UNCHANGED <<peer, connected>>
      BY <2>5 DEF StoreSession, Goto, Typed, TypeOK
    <3>2. peer[c] \in Devices BY <2>0, <3>1 DEF Unused
    <3>3. "check" \in Responsible BY DEF Responsible
    <3>4. /\ session'[peer[c]] = c
          /\ \A e \in Devices \ {peer[c]} : session'[e] = session[e]
      BY <3>1, <3>2 DEF Typed, TypeOK
    <3> QED BY <1>0, <2>2, <3>1, <3>3, <3>4 DEF AttendedInv
  <2>6. CASE CheckVersion(c)
    <3>1. /\ pc[c] = "check" /\ pc'[c] = "loop" /\ UNCHANGED <<peer, connected, session>>
      BY <2>6 DEF CheckVersion, Goto, Typed, TypeOK
    <3>2. "loop" \in Responsible BY DEF Responsible
    <3> QED BY <1>0, <2>2, <3>1, <3>2 DEF AttendedInv
  <2>7. CASE LoopEnds(c)
    <3>1. /\ pc[c] = "loop" /\ pc'[c] = "lost" /\ UNCHANGED <<peer, connected>>
          /\ session' = [session EXCEPT ![peer[c]] = None]
      BY <2>7 DEF LoopEnds, Goto, Typed, TypeOK
    <3>2. peer[c] \in Devices /\ "lost" \in Responsible BY <2>0, <3>1 DEF Unused, Responsible
    <3>3. /\ session'[peer[c]] = None
          /\ \A e \in Devices \ {peer[c]} : session'[e] = session[e]
      BY <3>1, <3>2 DEF Typed, TypeOK
    <3> QED BY <1>0, <2>2, <3>1, <3>2, <3>3 DEF AttendedInv
  <2>8. CASE HandleDeviceDisconnect(c)
    <3>1. /\ pc[c] = "lost" /\ connected' = connected \ {peer[c]} /\ UNCHANGED session
      BY <2>8 DEF HandleDeviceDisconnect
    <3> QED BY <1>0, <2>2, <3>1 DEF AttendedInv
  <2> QED BY <1>7, <2>3, <2>4, <2>5, <2>6, <2>7, <2>8 DEF Attending
<1> QED BY <1>1, <1>2, <1>3, <1>4, <1>5, <1>6, <1>7 DEF Next

\* A device that counts as connected has a goroutine that will mark it
\* disconnected, and a session is that of a goroutine which reads or is about to,
\* whatever attempts, losses and restarts interleave (HandleDeviceDisconnect,
\* handleDeviceSessionClose).
THEOREM DevicesAlwaysAttended == Spec => []DevicesAttended
<1> DEFINE IInv == Typed /\ AttendedInv
<1>1. Init => IInv
  <2>1. Init => AttendedInv BY DEF Init, AttendedInv
  <2> QED BY <2>1, InitTyped
<1>2. IInv /\ [Next]_vars => IInv' BY NextTyped, AttendedStep
<1>3. IInv => DevicesAttended
  <2>1. ASSUME Typed, AttendedInv PROVE connected \subseteq Attended
    BY <2>1 DEF AttendedInv, Attended, Typed, TypeOK
  <2> QED BY <2>1 DEF AttendedInv, DevicesAttended
<1> QED BY <1>1, <1>2, <1>3, PTL DEF Spec

-----------------------------------------------------------------------------
(* The state file. *)

Current == [devices |-> known, zone |-> zoneID]
Writing(s) == saver[s].at \in {"snapshot", "write"}
Coming == \E s \in Savers : saver[s].at \in {"check", "due"}

\* Until saves overlap one of them writes at a time, and what is not current will
\* be written once more: a save is on its way that has yet to read the state.
DiskInv ==
    ~ overlap =>
        /\ \A s, t \in Savers : Writing(s) /\ Writing(t) => s = t
        /\ \/ Coming
           \/ /\ \A s \in Savers : Writing(s) => saver[s].file = Current
              /\ (\A s \in Savers : saver[s].at = "idle") => disk = Current

\* A step that leaves the savers, the file and what goes into it alone.
LEMMA DiskStable ==
    ASSUME DiskInv, UNCHANGED <<known, zoneID, saver, disk>>, overlap => overlap'
    PROVE  DiskInv'
<1>1. Current' = Current BY DEF Current
<1>2. Coming' <=> Coming BY DEF Coming
<1>3. \A s \in Savers : Writing(s)' <=> Writing(s) BY DEF Writing
<1> QED BY <1>1, <1>2, <1>3 DEF DiskInv

\* A step after which a save is on its way.
LEMMA DiskComing ==
    ASSUME Typed, DiskInv, UNCHANGED overlap, NEW s \in Savers, NEW at \in {"check", "due"},
           Saving(s, at)
    PROVE  DiskInv'
<1>1. saver'[s].at = at /\ \A t \in Savers \ {s} : saver'[t] = saver[t]
  BY DEF Saving, Typed, TypeOK
<1>2. Coming' BY <1>1 DEF Coming
<1>3. \A t \in Savers : Writing(t)' => Writing(t) BY <1>1 DEF Writing
<1> QED BY <1>2, <1>3 DEF DiskInv

\* The three sections of a save.
LEMMA DiskSave ==
    ASSUME Typed, DiskInv, NEW s \in Savers, Save(s), ~ overlap'
    PROVE  DiskInv'
<1>0. UNCHANGED <<known, zoneID>> BY DEF Save, Snapshot, BeginWrite, EndWrite
<1>1. Current' = Current BY <1>0 DEF Current
<1>2. ~ overlap BY DEF Save, Snapshot, BeginWrite, EndWrite, Typed, TypeOK
<1>3. CASE Snapshot(s)
  <2>1. /\ saver'[s] = [at |-> "snapshot", file |-> Current]
        /\ \A t \in Savers \ {s} : saver'[t] = saver[t]
    BY <1>3 DEF Snapshot, Current, Typed, TypeOK
  <2>2. \A t \in Savers \ {s} : ~ Writing(t) BY <1>3 DEF Snapshot, Writing
  <2>3. \A t \in Savers : Writing(t)' => t = s BY <2>1, <2>2 DEF Writing
  <2>4. saver'[s].at # "idle" /\ saver'[s].file = Current BY <2>1
  <2> QED BY <1>1, <2>3, <2>4 DEF DiskInv
<1>4. CASE BeginWrite(s)
  <2>1. /\ saver[s].at = "snapshot" /\ saver'[s].at = "write"
        /\ saver'[s].file = saver[s].file
        /\ \A t \in Savers \ {s} : saver'[t] = saver[t]
    BY <1>4 DEF BeginWrite, Saving, Typed, TypeOK
  <2>2. \A t \in Savers : Writing(t)' <=> Writing(t) BY <2>1 DEF Writing
  <2>3. Coming => Coming' BY <2>1 DEF Coming
  <2>4. \A t \in Savers : saver'[t].file = saver[t].file BY <2>1
  <2> QED BY <1>1, <1>2, <2>1, <2>2, <2>3, <2>4 DEF DiskInv
<1>5. CASE EndWrite(s)
  <2>1. /\ saver[s].at = "write" /\ disk' = saver[s].file /\ saver'[s].at = "idle"
        /\ \A t \in Savers \ {s} : saver'[t] = saver[t]
    BY <1>5 DEF EndWrite, Idle, Typed, TypeOK
  <2>2. Writing(s) BY <2>1 DEF Writing
  <2>3. \A t \in Savers : ~ Writing(t)' BY <1>2, <2>1, <2>2 DEF DiskInv, Writing
  <2>4. Coming => Coming' BY <2>1 DEF Coming
  <2>5. ~ Coming => disk' = Current BY <1>2, <2>1, <2>2 DEF DiskInv
  <2> QED BY <1>1, <2>3, <2>4, <2>5 DEF DiskInv
<1> QED BY <1>3, <1>4, <1>5 DEF Save

\* Every step keeps it.
LEMMA DiskStep == Typed /\ DiskInv /\ [Next]_vars => DiskInv'
<1> SUFFICES ASSUME Typed, DiskInv, [Next]_vars, ~ overlap' PROVE DiskInv'
  BY DEF DiskInv
<1>1. CASE Restart
  <2>1. ~ overlap /\ \A s \in Savers : saver[s].at = "idle"
    BY <1>1 DEF Restart
  <2>2. ~ Coming /\ disk = Current
    BY <2>1 DEF Coming, DiskInv
  <2>3. disk # None
    <3>1. Current \in File BY DEF Current, File, Typed, TypeOK
    <3> QED BY <2>2, <3>1
  <2>4. disk' = disk /\ known' = disk.devices /\ zoneID' = disk.zone
    BY <1>1, <2>3 DEF Restart, Boot
  <2>5. disk' = Current' BY <2>2, <2>4 DEF Current
  <2>6. \A s \in Savers : ~ Writing(s)'
    BY <1>1 DEF Restart, Boot, Writing, Idle
  <2> QED BY <2>5, <2>6 DEF DiskInv
<1>2. CASE \E s \in Savers : Save(s) BY <1>2, DiskSave
<1>3. CASE SaveAtShutdown BY <1>3, DiskComing DEF SaveAtShutdown, Savers
<1>4. ASSUME NEW d \in Devices,
             \/ Commissioned(d) \/ Decommission(d)
             \/ \E c \in Connections : Commission(d, c)
      PROVE  DiskInv'
  BY <1>4, DiskComing DEF Commissioned, Decommission, Commission, Savers
<1>5. ASSUME NEW d \in Devices, RefuseVersion(d) PROVE DiskInv'
  BY <1>5 DEF RefuseVersion
<1>6. ASSUME NEW d \in Devices, FinishRemove(d) PROVE DiskInv'
  BY <1>6, DiskStable DEF FinishRemove
<1>7. CASE \/ \E d \in Devices : RemoveDevice(d) \/ DeviceReturns(d)
           \/ StopOperationalDiscovery
           \/ \E b \in Browses : StartOperationalDiscovery(b) \/ EndBrowse(b)
           \/ \E b \in Browses, d \in Devices :
                PassOver(b, d) \/ \E c \in Connections : Rediscover(b, d, c)
           \/ \E d \in Devices, c \in Connections : Reconnect(d, c)
           \/ \E c \in Connections :
                Dial(c) \/ DialFails(c) \/ Attending(c) \/ LoseConnection(c)
           \/ UNCHANGED vars
  <2>1. UNCHANGED <<known, zoneID, saver, disk>> /\ UNCHANGED overlap
    BY <1>7 DEF RemoveDevice, DeviceReturns, StopOperationalDiscovery,
         StartOperationalDiscovery, EndBrowse, PassOver, Rediscover, Report, Reconnect,
         Dial, DialFails, Attending, MarkConnected, StoreSession, CheckVersion, LoopEnds,
         HandleDeviceDisconnect, LoseConnection, stores, vars
  <2> QED BY <2>1, DiskStable
<1> QED BY <1>1, <1>2, <1>3, <1>4, <1>5, <1>6, <1>7 DEF Next

\* The state file holds the devices and the zone ID in use whenever no save is
\* under way, over restarts at any point, as long as saves have not overlapped and
\* none was left out (SaveState, which reads the state under one lock and writes
\* the file under another).
THEOREM DiskStaysCurrent == Spec => []DiskCurrentUnlessOverlap
<1> DEFINE IInv == Typed /\ DiskInv
<1>1. Init => IInv
  <2>1. ASSUME Init PROVE DiskInv
    <3>1. \A s \in Savers : saver[s].at = "idle" BY <2>1 DEF Init, Idle
    <3>2. disk = Current BY <2>1 DEF Init, Current, NoFile
    <3> QED BY <3>1, <3>2 DEF DiskInv, Writing
  <2> QED BY <2>1, InitTyped
<1>2. IInv /\ [Next]_vars => IInv' BY NextTyped, DiskStep
<1>3. IInv => DiskCurrentUnlessOverlap
  BY DEF DiskInv, DiskCurrentUnlessOverlap, Coming, Current
<1> QED BY <1>1, <1>2, <1>3, PTL DEF Spec

-----------------------------------------------------------------------------
(* One connection per device. *)

\* A device that has yet to be commissioned is nowhere: the state files have it
\* from its commissioning on.
FreshInv ==
    \A d \in Devices : member[d] = "fresh" =>
        /\ d \notin known /\ session[d] = None /\ \A c \in Connections : peer[c] # d
        /\ \A s \in Savers : d \notin saver[s].file.devices
        /\ disk # None => d \notin disk.devices

\* A device that is known and attended to counts as connected from the moment its
\* attempt has marked it, and before that the browse that reported it keeps it
\* from being attempted twice.
SingleInv ==
    \A d \in Devices \ disturbed :
        /\ \A c, o \in Connections : peer[c] = d /\ peer[o] = d => c = o
        /\ \A c \in Connections : peer[c] = d =>
            /\ pc[c] \notin {"dialAPI", "dialedAPI"}
            /\ pc[c] \in Responsible /\ d \in known => d \in connected
            /\ pc[c] \in {"dial", "dialed"} =>
                \A b \in Browses : browse[b] # None => d \in browse[b].reported
        /\ \A b, o \in Browses : browse[b] # None /\ browse[o] # None => b = o

\* A step that does not commission a device.
LEMMA FreshStable ==
    ASSUME FreshInv, known' \subseteq known,
           \A d \in Devices : member'[d] = "fresh" => member[d] = "fresh",
           \A d \in Devices : member[d] = "fresh" => session'[d] = None,
           \A d \in Devices : member[d] = "fresh" => \A c \in Connections : peer'[c] # d,
           UNCHANGED <<saver, disk>>
    PROVE  FreshInv'
BY DEF FreshInv

\* A step of a saver, from the state it reads to the file.
LEMMA FreshSave ==
    ASSUME Typed, FreshInv, NEW s \in Savers, Save(s)
    PROVE  FreshInv'
<1>1. UNCHANGED <<known, session, peer, member>>
  BY DEF Save, Snapshot, BeginWrite, EndWrite
<1>2. \A t \in Savers : \A d \in Devices :
        d \in saver'[t].file.devices => d \in saver[t].file.devices \cup known
  <2>1. CASE Snapshot(s) BY <2>1 DEF Snapshot, Typed, TypeOK
  <2>2. CASE BeginWrite(s) BY <2>2 DEF BeginWrite, Saving, Typed, TypeOK
  <2>3. CASE EndWrite(s) BY <2>3 DEF EndWrite, Idle, NoFile, Typed, TypeOK
  <2> QED BY <2>1, <2>2, <2>3 DEF Save
<1>3. \/ disk' \in {disk, None} \/ disk' = saver[s].file
  BY DEF Save, Snapshot, BeginWrite, EndWrite
<1> QED BY <1>1, <1>2, <1>3 DEF FreshInv

\* A saver that only goes on keeps what it has read.
LEMMA SavingFiles ==
    ASSUME Typed, NEW s \in Savers, NEW at, Saving(s, at)
    PROVE  \A t \in Savers : saver'[t].file = saver[t].file
BY DEF Saving, Typed, TypeOK

\* A device that is commissioned is no longer fresh, and the others stay as they are.
LEMMA FreshCommission ==
    ASSUME Typed, FreshInv, NEW d \in Devices, NEW c \in Connections, Commission(d, c)
    PROVE  FreshInv'
<1>1. /\ member'[d] = "joined" /\ known' = known \cup {d} /\ UNCHANGED disk
      /\ \A e \in Devices \ {d} : member'[e] = member[e] /\ session'[e] = session[e]
      /\ peer'[c] = d /\ \A o \in Connections \ {c} : peer'[o] = peer[o]
  BY DEF Commission, Attend, Typed, TypeOK
<1>2. \A t \in Savers : saver'[t].file = saver[t].file
  BY SavingFiles DEF Commission, Savers
<1> QED BY <1>1, <1>2 DEF FreshInv

\* Every step keeps it.
LEMMA FreshStep == Typed /\ FreshInv /\ [Next]_vars => FreshInv'
<1> SUFFICES ASSUME Typed, FreshInv, [Next]_vars PROVE FreshInv'
  OBVIOUS
<1>1. CASE Restart
  <2>1. known' = (IF disk = None THEN NoFile ELSE disk).devices BY <1>1 DEF Restart, Boot
  <2>2. /\ session' = [d \in Devices |-> None] /\ peer' = [c \in Connections |-> None]
        /\ saver' = [s \in Savers |-> Idle] /\ UNCHANGED <<member, disk>>
    BY <1>1 DEF Restart, Boot
  <2>3. \A d \in Devices : member[d] = "fresh" => d \notin known'
    BY <2>1 DEF FreshInv, NoFile
  <2> QED BY <2>2, <2>3 DEF FreshInv, Idle, NoFile
<1>2. CASE \E s \in Savers : Save(s) BY <1>2, FreshSave
<1>3. ASSUME NEW d \in Devices, NEW c \in Connections, Commission(d, c) PROVE FreshInv'
  BY <1>3, FreshCommission
<1>4. CASE SaveAtShutdown \/ \E d \in Devices : Commissioned(d)
  <2>1. \A t \in Savers : saver'[t].file = saver[t].file
    BY <1>4, SavingFiles DEF SaveAtShutdown, Commissioned, Savers
  <2>2. UNCHANGED <<known, session, peer, member, disk>>
    BY <1>4 DEF SaveAtShutdown, Commissioned
  <2> QED BY <2>1, <2>2 DEF FreshInv
<1>5. ASSUME NEW d \in Devices, RefuseVersion(d) \/ Decommission(d) PROVE FreshInv'
  <2>1. \A t \in Savers : saver'[t].file = saver[t].file
    BY <1>5, SavingFiles DEF RefuseVersion, Decommission, Savers
  <2>2. /\ known' \subseteq known /\ UNCHANGED <<peer, member, disk>>
        /\ \A e \in Devices : session'[e] \in {session[e], None}
    BY <1>5 DEF RefuseVersion, Decommission, Typed, TypeOK
  <2> QED BY <2>1, <2>2 DEF FreshInv
<1>6. ASSUME NEW d \in Devices, RemoveDevice(d) \/ FinishRemove(d) PROVE FreshInv'
  <2>1. /\ known' \subseteq known /\ UNCHANGED <<peer, saver, disk>>
        /\ \A e \in Devices : session'[e] \in {session[e], None}
        /\ \A e \in Devices : member'[e] = "fresh" => member[e] = "fresh"
    BY <1>6 DEF RemoveDevice, FinishRemove, stores, Typed, TypeOK
  <2> QED BY <2>1 DEF FreshInv
<1>7. CASE \/ StopOperationalDiscovery
           \/ \E b \in Browses : StartOperationalDiscovery(b) \/ EndBrowse(b)
           \/ \E b \in Browses, d \in Devices : PassOver(b, d)
           \/ \E d \in Devices : DeviceReturns(d)
           \/ \E c \in Connections : LoseConnection(c)
           \/ UNCHANGED vars
  <2>1. UNCHANGED <<known, session, peer, member, saver, disk>>
    BY <1>7 DEF StopOperationalDiscovery, StartOperationalDiscovery, EndBrowse, PassOver,
         Report, DeviceReturns, LoseConnection, stores, vars
  <2> QED BY <2>1, FreshStable DEF FreshInv
<1>8. ASSUME NEW d \in Devices, NEW c \in Connections,
             Reconnect(d, c) \/ \E b \in Browses : Rediscover(b, d, c)
      PROVE  FreshInv'
  <2>1. /\ d \in known /\ peer'[c] = d /\ \A o \in Connections \ {c} : peer'[o] = peer[o]
        /\ UNCHANGED <<known, session, member, saver, disk>>
    BY <1>8 DEF Reconnect, Rediscover, Report, Attend, stores, Typed, TypeOK
  <2> QED BY <2>1 DEF FreshInv
<1>9. ASSUME NEW c \in Connections, Dial(c) \/ DialFails(c) \/ Attending(c)
      PROVE  FreshInv'
  <2>1. /\ UNCHANGED <<known, member, saver, disk>>
        /\ \A o \in Connections : peer'[o] \in {peer[o], None}
    BY <1>9 DEF Dial, DialFails, Attending, MarkConnected, StoreSession, CheckVersion,
         LoopEnds, HandleDeviceDisconnect, Leave, stores, Typed, TypeOK
  <2>2. \A d \in Devices : session'[d] \in {session[d], None} \/ (d = peer[c] /\ session'[d] = c)
    BY <1>9 DEF Dial, DialFails, Attending, MarkConnected, StoreSession, CheckVersion,
         LoopEnds, HandleDeviceDisconnect, Typed, TypeOK
  <2> QED BY <2>1, <2>2 DEF FreshInv
<1> QED BY <1>1, <1>2, <1>3, <1>4, <1>5, <1>6, <1>7, <1>8, <1>9 DEF Next

\* A step that moves no goroutine, and makes no device known or disconnected that
\* is still known.
LEMMA SingleStable ==
    ASSUME SingleInv, UNCHANGED <<pc, peer>>, disturbed \subseteq disturbed',
           \A d \in known' : d \in known /\ (d \in connected => d \in connected'),
           \A b \in Browses : browse'[b] # None => browse[b] # None,
           \A d \in Devices \ disturbed' : \A b \in Browses :
               browse'[b] # None /\ d \in browse[b].reported => d \in browse'[b].reported
    PROVE  SingleInv'
<1>1. \A d \in Devices \ disturbed' : d \in Devices \ disturbed OBVIOUS
<1> QED BY <1>1 DEF SingleInv

\* An attempt goes on, or ends.
LEMMA SingleGoesOn ==
    ASSUME Typed, SingleInv, NEW c \in Connections, peer[c] \in Devices,
           \A o \in Connections \ {c} : pc'[o] = pc[o] /\ peer'[o] = peer[o],
           UNCHANGED <<known, browse, disturbed>>,
           peer'[c] \in {peer[c], None},
           peer'[c] = peer[c] /\ peer[c] \notin disturbed =>
               /\ pc'[c] \in Responsible \cup {"dial", "dialed"}
               /\ pc'[c] \in {"dial", "dialed"} => pc[c] \in {"dial", "dialed"},
           \A d \in known : d \in connected /\ d # peer[c] => d \in connected',
           peer'[c] = peer[c] /\ peer[c] \in known \ disturbed /\ pc'[c] \in Responsible =>
               peer[c] \in connected'
    PROVE  SingleInv'
<1> SUFFICES ASSUME NEW d \in Devices \ disturbed
             PROVE  /\ \A n, o \in Connections : peer'[n] = d /\ peer'[o] = d => n = o
                    /\ \A n \in Connections : peer'[n] = d =>
                        /\ pc'[n] \notin {"dialAPI", "dialedAPI"}
                        /\ pc'[n] \in Responsible /\ d \in known => d \in connected'
                        /\ pc'[n] \in {"dial", "dialed"} =>
                            \A b \in Browses : browse[b] # None => d \in browse[b].reported
                    /\ \A b, o \in Browses : browse[b] # None /\ browse[o] # None => b = o
  BY DEF SingleInv
<1>1. None \notin Devices OBVIOUS
<1>2. \A n \in Connections : peer'[n] = d => peer[n] = d BY <1>1
<1>3. \A n \in Connections : peer[n] = d /\ d = peer[c] => n = c BY DEF SingleInv
<1>4. ASSUME NEW n \in Connections, peer'[n] = d
      PROVE  /\ pc'[n] \notin {"dialAPI", "dialedAPI"}
             /\ pc'[n] \in Responsible /\ d \in known => d \in connected'
             /\ pc'[n] \in {"dial", "dialed"} =>
                    \A b \in Browses : browse[b] # None => d \in browse[b].reported
  <2>1. CASE n = c BY <1>2, <1>4, <2>1 DEF SingleInv, Responsible
  <2>2. CASE n # c BY <1>2, <1>3, <1>4, <2>2 DEF SingleInv
  <2> QED BY <2>1, <2>2
<1> QED BY <1>2, <1>4 DEF SingleInv

\* A goroutine begins an attempt for a device that nobody attends to.
LEMMA SingleBegins ==
    ASSUME Typed, SingleInv, NEW c \in Connections, NEW d \in Devices, NEW place, Free(c),
           Attend(c, d, place), disturbed' = disturbed,
           \A e \in known' : e \in known \cup {d} /\ (e \in connected => e \in connected'),
           d \notin disturbed =>
               /\ \A o \in Connections : peer[o] # d
               /\ place \notin {"dialAPI", "dialedAPI"}
               /\ place \in Responsible /\ d \in known' => d \in connected'
               /\ place \in {"dial", "dialed"} =>
                    \A b \in Browses : browse'[b] # None => d \in browse'[b].reported,
           \A b \in Browses : browse'[b] # None => browse[b] # None,
           \A e \in Devices \ {d} : \A b \in Browses :
               browse'[b] # None /\ e \in browse[b].reported => e \in browse'[b].reported
    PROVE  SingleInv'
<1>1. /\ pc'[c] = place /\ peer'[c] = d
      /\ \A o \in Connections \ {c} : pc'[o] = pc[o] /\ peer'[o] = peer[o]
  BY DEF Attend, Typed, TypeOK
<1> SUFFICES ASSUME NEW e \in Devices \ disturbed
             PROVE  /\ \A n, o \in Connections : peer'[n] = e /\ peer'[o] = e => n = o
                    /\ \A n \in Connections : peer'[n] = e =>
                        /\ pc'[n] \notin {"dialAPI", "dialedAPI"}
                        /\ pc'[n] \in Responsible /\ e \in known' => e \in connected'
                        /\ pc'[n] \in {"dial", "dialed"} =>
                            \A b \in Browses : browse'[b] # None => e \in browse'[b].reported
                    /\ \A b, o \in Browses : browse'[b] # None /\ browse'[o] # None => b = o
  BY DEF SingleInv
<1>2. \A b, o \in Browses : browse'[b] # None /\ browse'[o] # None => b = o BY DEF SingleInv
<1>3. CASE e = d
  <2>1. \A n \in Connections : peer'[n] = d => n = c BY <1>1, <1>3
  <2> QED BY <1>1, <1>2, <1>3, <2>1
<1>4. CASE e # d
  <2>1. \A n \in Connections : peer'[n] = e => n # c /\ peer[n] = e BY <1>1, <1>4
  <2> QED BY <1>1, <1>2, <1>4, <2>1 DEF SingleInv
<1> QED BY <1>3, <1>4

\* A report enters the device in the browse.
LEMMA Reported ==
    ASSUME Typed, NEW b \in Browses, NEW d \in Devices, Report(b, d)
    PROVE  /\ browse[b] # None /\ d \notin browse[b].reported
           /\ \A o \in Browses : browse'[o] # None <=> browse[o] # None
           /\ \A o \in Browses : browse[o] # None => browse[o].reported \subseteq browse'[o].reported
           /\ d \in browse'[b].reported
<1>1. browse[b] \in Browse /\ browse[b] # None BY DEF Report, Typed, TypeOK
<1>2. browse' = [browse EXCEPT ![b] = [browse[b] EXCEPT !.reported = @ \cup {d}]]
  BY DEF Report, Typed, TypeOK
<1>3. [browse[b] EXCEPT !.reported = @ \cup {d}] \in Browse BY <1>1 DEF Browse
<1>4. /\ browse'[b] \in Browse /\ browse'[b].reported = browse[b].reported \cup {d}
      /\ \A o \in Browses \ {b} : browse'[o] = browse[o]
  BY <1>1, <1>2, <1>3 DEF Browse, Typed, TypeOK
<1>5. d \notin browse[b].reported BY DEF Report, Unreported
<1> QED BY <1>1, <1>4, <1>5

\* A device that comes back is reported again; if an attempt is under way it may
\* now be attempted twice.
LEMMA SingleReturns ==
    ASSUME Typed, SingleInv, NEW d \in Devices, DeviceReturns(d)
    PROVE  SingleInv'
<1>1. /\ UNCHANGED <<known, connected, pc, peer>>
      /\ disturbed' = disturbed \cup ({d} \cap Attempted)
      /\ browse' = [b \in Browses |-> IF browse[b] = None THEN None
                                     ELSE [browse[b] EXCEPT !.reported = @ \ {d}]]
  BY DEF DeviceReturns
<1>2. \A b \in Browses : browse'[b] # None =>
        browse[b] # None /\ browse'[b].reported = browse[b].reported \ {d}
  BY <1>1 DEF Typed, TypeOK, Browse
<1>3. d \notin disturbed' => \A c \in Connections : peer[c] = d => pc[c] \notin {"dial", "dialed"}
  BY <1>1 DEF Attempted, Unused
<1>4. \A e \in Devices \ disturbed' : e \in Devices \ disturbed BY <1>1
<1> QED BY <1>1, <1>2, <1>3, <1>4 DEF SingleInv

\* A new browse reports every device again: those that are being attempted may now
\* be attempted twice, and with an older browse still running every device.
LEMMA SingleDiscovery ==
    ASSUME Typed, SingleInv, NEW b \in Browses, StartOperationalDiscovery(b)
    PROVE  SingleInv'
<1>1. /\ UNCHANGED <<known, connected, pc, peer>> /\ browse' = [browse EXCEPT ![b] = Running(zoneID)]
      /\ disturbed' = IF \A o \in Browses : browse[o] = None THEN disturbed \cup Attempted
                      ELSE Devices
  BY DEF StartOperationalDiscovery
<1>2. CASE \A o \in Browses : browse[o] = None
  <2>1. \A d \in Devices \ disturbed' : \A c \in Connections :
            peer[c] = d => pc[c] \notin {"dial", "dialed"}
    BY <1>1, <1>2 DEF Attempted, Unused
  <2>2. \A o \in Browses : browse'[o] # None => o = b BY <1>1, <1>2 DEF Typed, TypeOK
  <2>3. \A d \in Devices \ disturbed' : d \in Devices \ disturbed BY <1>1, <1>2
  <2> QED BY <1>1, <2>1, <2>2, <2>3 DEF SingleInv
<1>3. CASE ~ \A o \in Browses : browse[o] = None
  BY <1>1, <1>3 DEF SingleInv
<1> QED BY <1>2, <1>3

\* A goroutine that attends to a connection goes on with it, or leaves it.
LEMMA SingleAttending ==
    ASSUME Typed, SingleInv, NEW c \in Connections, Dial(c) \/ DialFails(c) \/ Attending(c)
    PROVE  SingleInv'
<1>0. peer[c] \in Devices
  <2>1. pc[c] # Unused
    BY DEF Dial, DialFails, Attending, MarkConnected, StoreSession, CheckVersion,
         LoopEnds, HandleDeviceDisconnect, Unused
  <2> QED BY <2>1 DEF Typed, TypeOK, Attached
<1>1. \A o \in Connections \ {c} : pc'[o] = pc[o] /\ peer'[o] = peer[o]
  BY DEF Dial, DialFails, Attending, MarkConnected, StoreSession, CheckVersion,
       LoopEnds, HandleDeviceDisconnect, Leave, Goto, Typed, TypeOK
<1>2. UNCHANGED <<known, browse, disturbed>>
  BY DEF Dial, DialFails, Attending, MarkConnected, StoreSession, CheckVersion,
       LoopEnds, HandleDeviceDisconnect, discovery
<1>3. None \notin Devices OBVIOUS
<1>4. peer[c] \notin disturbed => pc[c] \notin {"dialAPI", "dialedAPI"} BY <1>0 DEF SingleInv
<1>5. CASE Dial(c)
  <2>1. /\ pc[c] \in {"dial", "dialAPI"} /\ UNCHANGED <<peer, connected>>
        /\ pc'[c] = IF pc[c] = "dial" THEN "dialed" ELSE "dialedAPI"
    BY <1>5 DEF Dial, Goto, Typed, TypeOK
  <2> QED BY <1>0, <1>1, <1>2, <1>4, <2>1, SingleGoesOn DEF Responsible
<1>6. CASE DialFails(c)
  <2>1. peer'[c] = None /\ UNCHANGED connected
    BY <1>6 DEF DialFails, Leave, Typed, TypeOK
  <2> QED BY <1>0, <1>1, <1>2, <1>3, <2>1, SingleGoesOn
<1>7. CASE HandleDeviceDisconnect(c)
  <2>1. peer'[c] = None /\ connected' = connected \ {peer[c]}
    BY <1>7 DEF HandleDeviceDisconnect, Leave, Typed, TypeOK
  <2> QED BY <1>0, <1>1, <1>2, <1>3, <2>1, SingleGoesOn
<1>8. CASE MarkConnected(c)
  <2>1. \/ /\ peer[c] \in known /\ connected' = connected \cup {peer[c]}
           /\ pc'[c] = "marked" /\ UNCHANGED peer
        \/ peer'[c] = None /\ UNCHANGED connected
        \/ peer[c] \notin known /\ UNCHANGED <<connected, peer>> /\ pc'[c] = "marked"
    BY <1>8 DEF MarkConnected, Leave, Goto, Typed, TypeOK
  <2> QED BY <1>0, <1>1, <1>2, <1>3, <2>1, SingleGoesOn DEF Responsible
<1>9. CASE StoreSession(c) \/ CheckVersion(c) \/ LoopEnds(c)
  <2>1. /\ pc[c] \in Responsible /\ pc'[c] \in {"check", "loop", "lost"}
        /\ UNCHANGED <<connected, peer>>
    BY <1>9 DEF StoreSession, CheckVersion, LoopEnds, Goto, Responsible, Typed, TypeOK
  <2>2. peer[c] \in known \ disturbed => peer[c] \in connected BY <1>0, <2>1 DEF SingleInv
  <2> QED BY <1>0, <1>1, <1>2, <2>1, <2>2, SingleGoesOn DEF Responsible
<1> QED BY <1>5, <1>6, <1>7, <1>8, <1>9 DEF Attending

\* Every step keeps it.
LEMMA SingleStep == Typed /\ FreshInv /\ SingleInv /\ [Next]_vars => SingleInv'
<1> SUFFICES ASSUME Typed, FreshInv, SingleInv, [Next]_vars PROVE SingleInv'
  OBVIOUS
<1>1. CASE Restart
  <2>1. peer' = [c \in Connections |-> None] BY <1>1 DEF Restart, Boot
  <2>2. PICK b \in Browses :
            browse' = [n \in Browses |-> IF active' /\ n = b
                THEN Running((IF disk = None THEN NoFile ELSE disk).zone) ELSE None]
    BY <1>1 DEF Restart, Boot
  <2>3. \A o \in Browses : browse'[o] # None => o = b BY <2>2
  <2>4. \A c \in Connections : \A d \in Devices : peer'[c] # d BY <2>1
  <2> QED BY <2>3, <2>4 DEF SingleInv
<1>2. ASSUME NEW d \in Devices, NEW c \in Connections, Commission(d, c) PROVE SingleInv'
  <2>1. \A o \in Connections : peer[o] # d BY <1>2 DEF Commission, FreshInv
  <2>2. /\ Free(c) /\ Attend(c, d, "loop") /\ UNCHANGED <<browse, disturbed>>
        /\ known' = known \cup {d} /\ connected' = connected \cup {d}
    BY <1>2 DEF Commission, discovery
  <2> QED BY <2>1, <2>2, SingleBegins
<1>3. ASSUME NEW d \in Devices, NEW c \in Connections, Reconnect(d, c) PROVE SingleInv'
  <2> DEFINE D == disturbed \cup {d}
  <2>1. /\ pc'[c] = "dialAPI" /\ peer'[c] = d /\ disturbed' = D
        /\ \A o \in Connections \ {c} : pc'[o] = pc[o] /\ peer'[o] = peer[o]
        /\ UNCHANGED <<known, connected, browse>>
    BY <1>3 DEF Reconnect, Attend, discovery, Typed, TypeOK
  <2>2. \A e \in Devices \ disturbed' : e \in Devices \ disturbed /\ e # d BY <2>1
  <2>3. \A e \in Devices \ disturbed' : \A n \in Connections :
            peer'[n] = e => n # c /\ peer[n] = e /\ pc'[n] = pc[n]
    BY <2>1, <2>2
  <2> QED BY <2>1, <2>2, <2>3 DEF SingleInv
<1>4. ASSUME NEW b \in Browses, NEW d \in Devices, NEW c \in Connections, Rediscover(b, d, c)
      PROVE  SingleInv'
  <2>1. /\ Report(b, d) /\ d \in known \ connected /\ Free(c) /\ Attend(c, d, "dial")
        /\ UNCHANGED <<known, connected, disturbed>>
    BY <1>4 DEF Rediscover, Report
  <2>2. /\ browse[b] # None /\ d \notin browse[b].reported
        /\ \A o \in Browses : browse'[o] # None <=> browse[o] # None
        /\ \A o \in Browses : browse[o] # None => browse[o].reported \subseteq browse'[o].reported
        /\ d \in browse'[b].reported
    BY <2>1, Reported
  <2>3. d \notin disturbed => \A o \in Connections : peer[o] # d
    <3>1. SUFFICES ASSUME d \notin disturbed, NEW o \in Connections, peer[o] = d PROVE FALSE
      OBVIOUS
    <3>2. pc[o] \notin {"dialAPI", "dialedAPI"} /\ pc[o] \notin Responsible
      BY <2>1, <3>1 DEF SingleInv
    <3>3. pc[o] \in {"dial", "dialed"}
      BY <3>1, <3>2 DEF Typed, TypeOK, Attached, Responsible
    <3> QED BY <2>2, <3>1, <3>3 DEF SingleInv
  <2>4. d \notin disturbed => \A o \in Browses : browse'[o] # None => d \in browse'[o].reported
    BY <2>2 DEF SingleInv
  <2>5. "dial" \notin Responsible BY DEF Responsible
  <2> QED BY <2>1, <2>2, <2>3, <2>4, <2>5, SingleBegins
<1>5. ASSUME NEW b \in Browses, NEW d \in Devices, PassOver(b, d) PROVE SingleInv'
  <2>1. UNCHANGED <<known, connected, disturbed, pc, peer>> /\ Report(b, d)
    BY <1>5 DEF PassOver, Report
  <2>2. /\ \A o \in Browses : browse'[o] # None <=> browse[o] # None
        /\ \A o \in Browses : browse[o] # None => browse[o].reported \subseteq browse'[o].reported
    BY <2>1, Reported
  <2> QED BY <2>1, <2>2, SingleStable
<1>6. ASSUME NEW b \in Browses, EndBrowse(b) PROVE SingleInv'
  <2>1. UNCHANGED <<known, connected, disturbed, pc, peer>>
    BY <1>6 DEF EndBrowse
  <2>2. \A o \in Browses : browse'[o] # None => browse'[o] = browse[o]
    BY <1>6 DEF EndBrowse, Typed, TypeOK
  <2> QED BY <2>1, <2>2, SingleStable
<1>7. CASE StopOperationalDiscovery
  <2>1. UNCHANGED <<known, connected, disturbed, pc, peer>>
    BY <1>7 DEF StopOperationalDiscovery
  <2>2. \A o \in Browses : browse'[o] # None =>
            browse[o] # None /\ browse'[o].reported = browse[o].reported
    <3>1. CASE cancel = None BY <1>7, <3>1 DEF StopOperationalDiscovery
    <3>2. CASE cancel # None
      <4>1. cancel \in Browses /\ browse[cancel] \in Browse
        BY <3>2 DEF Typed, TypeOK, Attached
      <4>2. [browse[cancel] EXCEPT !.cancelled = TRUE].reported = browse[cancel].reported
        BY <4>1 DEF Browse
      <4>3. browse' = [browse EXCEPT ![cancel] = [browse[cancel] EXCEPT !.cancelled = TRUE]]
        BY <1>7, <3>2, <4>1 DEF StopOperationalDiscovery, Typed, TypeOK
      <4> QED BY <4>1, <4>2, <4>3 DEF Typed, TypeOK
    <3> QED BY <3>1, <3>2
  <2> QED BY <2>1, <2>2, SingleStable
<1>8. ASSUME NEW d \in Devices, RefuseVersion(d) \/ Decommission(d) \/ FinishRemove(d)
      PROVE  SingleInv'
  <2>1. /\ UNCHANGED <<pc, peer, browse, disturbed>>
        /\ \/ known' = known \ {d} /\ connected' = connected \ {d}
           \/ UNCHANGED <<known, connected>>
    BY <1>8 DEF RefuseVersion, Decommission, FinishRemove, discovery
  <2> QED BY <2>1, SingleStable
<1>9. CASE \/ SaveAtShutdown \/ \E s \in Savers : Save(s)
           \/ \E d \in Devices : Commissioned(d) \/ RemoveDevice(d)
           \/ \E c \in Connections : LoseConnection(c)
           \/ UNCHANGED vars
  <2>1. UNCHANGED <<pc, peer, browse, disturbed, known, connected>>
    BY <1>9 DEF SaveAtShutdown, Save, Snapshot, BeginWrite, EndWrite, Commissioned,
         RemoveDevice, LoseConnection, discovery, vars
  <2> QED BY <2>1, SingleStable
<1> QED
  BY <1>1, <1>2, <1>3, <1>4, <1>5, <1>6, <1>7, <1>8, <1>9, SingleReturns, SingleDiscovery,
     SingleAttending
     DEF Next

\* A device has one goroutine and connection at a time, and counts as connected
\* while it has a session, unless the application calls Reconnect or reports of
\* discovery meet an attempt (runOperationalDiscoveryLoop,
\* attemptReconnection, HandleDeviceDisconnect).
THEOREM OneConnectionAtATime == Spec => []OneConnectionUnlessDisturbed
<1> DEFINE IInv == Typed /\ AttendedInv /\ FreshInv /\ SingleInv
<1>1. Init => IInv
  <2>1. Init => AttendedInv BY DEF Init, AttendedInv
  <2>2. Init => FreshInv BY DEF Init, FreshInv, Idle, NoFile
  <2>3. Init => SingleInv BY DEF Init, SingleInv
  <2> QED BY <2>1, <2>2, <2>3, InitTyped
<1>2. IInv /\ [Next]_vars => IInv' BY NextTyped, AttendedStep, FreshStep, SingleStep
<1>3. IInv => OneConnectionUnlessDisturbed
  <2> SUFFICES ASSUME Typed, AttendedInv, SingleInv, NEW d \in Devices \ disturbed
               PROVE  /\ \A c, o \in Connections : peer[c] = d /\ peer[o] = d => c = o
                      /\ session[d] # None /\ d \in known => d \in connected
    BY DEF OneConnectionUnlessDisturbed
  <2>1. session[d] # None =>
            session[d] \in Connections /\ peer[session[d]] = d /\ pc[session[d]] \in Responsible
    BY DEF Typed, TypeOK, AttendedInv, Responsible
  <2> QED BY <2>1 DEF SingleInv
<1> QED BY <1>1, <1>2, <1>3, PTL DEF Spec

=============================================================================
