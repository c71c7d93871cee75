---------------------------- MODULE ZoneRegistry ----------------------------
(***************************************************************************)
(* The zones a device belongs to and what survives a restart of it:        *)
(* memberships, zone indexes, failsafe timers, duration timers and         *)
(* certificates (mash-go/pkg/service/device_service_{zone,failsafe,        *)
(* persistence}.go with pkg/persistence and pkg/cert).                     *)
(*                                                                         *)
(* A failsafe timer is abstracted to its state: FailsafeTimer shows that   *)
(* one that is running has a Go timer to end it, and that a callback may   *)
(* be too late to be stopped.  Connections are abstracted to connecting    *)
(* and disconnecting a zone: ZoneSessions has the detail.                  *)
(***************************************************************************)
EXTENDS Naturals, FiniteSets

CONSTANTS
    Zones,       \* zone IDs, each derived from a new commissioning secret
    IndexCount,  \* 256: the range of a uint8
    Commanders,  \* bound: zones that set duration timers
    Expiring,    \* bound: zones whose failsafe timers expire
    MaxRestarts, \* bound: how often the process ends
    MaxSaves,    \* bound: calls of SaveState outstanding at once
    NoIndex, NoZone, NoState, Torn

ASSUME ConstantsAssumption ==
    /\ IndexCount \in Nat \ {0} /\ MaxRestarts \in Nat /\ MaxSaves \in Nat
    /\ Commanders \subseteq Zones /\ Expiring \subseteq Zones
    /\ NoIndex \notin Nat /\ NoZone \notin Zones

Indexes == 0..IndexCount - 1

VARIABLES
    mode,            \* "running", "stopping", "down", or "blocked" for ever
    fresh,           \* zone IDs not used yet
    pairing,         \* the zone being commissioned, once its certificates are stored
    zones,           \* keys of connectedZones
    connected,       \* those with Connected set
    failsafeActive,  \* those with FailsafeActive set
    index,           \* zoneIndexMap
    nextIndex,       \* nextZoneIndex
    timer,           \* failsafeTimers: the state of each zone's timer
    fired,           \* zones with a started enterFailsafe goroutine
    entering,        \* zones with a handleFailsafe that waits for the mutex
    cancelling,      \* indexes that a handleFailsafe is about to cancel
    duration,        \* duration timers by index: the zone that set one
    certs,           \* the certificate store in memory
    todo,            \* calls of SaveState that have not started yet
    saving,          \* those that have collected a state and not written it
    diskState,       \* the state file
    diskCerts,       \* the certificate directory
    overlap,         \* history: two calls of SaveState were outstanding at once
    restarts,        \* how often the process has ended
    joined,          \* history: zones whose addition was saved, not removed since
    removed          \* history: zones whose removal was saved

failsafe == <<timer, fired, entering, cancelling, failsafeActive>>
disk == <<diskState, diskCerts>>
ids == <<fresh, pairing, restarts>>
history == <<joined, removed>>
saves == <<todo, saving, overlap, history>>
vars == <<mode, ids, zones, connected, index, nextIndex, failsafe, duration,
          certs, saves, disk>>

\* "Due": running, and its duration has passed.
TimerStates == {"none", "Normal", "Running", "Due", "Failsafe"}

DeviceStates ==
    [zones : SUBSET Zones, index : [Zones -> Indexes \cup {NoIndex}],
     timer : [Zones -> TimerStates]]

\* Why SaveState is called.
Reasons == {<<NoZone, "shutdown">>} \cup (Zones \X {"added", "removed"})

TypeOK ==
    /\ mode \in {"running", "stopping", "down", "blocked"}
    /\ fresh \subseteq Zones /\ zones \subseteq Zones \ fresh
    /\ connected \subseteq zones /\ failsafeActive \subseteq zones
    /\ index \in [Zones -> Indexes \cup {NoIndex}] /\ nextIndex \in Indexes
    /\ timer \in [Zones -> TimerStates]
    /\ fired \subseteq Zones /\ entering \subseteq Zones
    /\ cancelling \subseteq Zones \X Indexes
    /\ duration \in [Indexes -> Zones \cup {NoZone}]
    /\ certs \subseteq Zones /\ diskCerts \subseteq Zones
    /\ todo \subseteq Reasons /\ saving \subseteq [why : Reasons, state : DeviceStates]
    /\ diskState \in DeviceStates \cup {NoState, Torn}
    /\ overlap \in BOOLEAN /\ joined \subseteq Zones /\ removed \subseteq Zones
    /\ pairing \in Zones \cup {NoZone} /\ restarts \in 0..MaxRestarts

Init ==
    /\ mode = "running"
    /\ fresh = Zones /\ pairing = NoZone /\ zones = {} /\ connected = {} /\ failsafeActive = {}
    /\ index = [z \in Zones |-> NoIndex] /\ nextIndex = 0
    /\ timer = [z \in Zones |-> "none"]
    /\ fired = {} /\ entering = {} /\ cancelling = {}
    /\ duration = [i \in Indexes |-> NoZone]
    /\ certs = {} /\ diskCerts = {}
    /\ todo = {} /\ saving = {} /\ overlap = FALSE /\ restarts = 0
    /\ joined = {} /\ removed = {}
    /\ diskState = NoState

-----------------------------------------------------------------------------
(* Zones come and go. *)

\* SaveState is going to be called for the given reason.
Request(why) ==
    /\ Cardinality(todo) + Cardinality(saving) < MaxSaves
    /\ todo' = todo \cup {why}
    /\ overlap' = (overlap \/ todo \cup saving # {})
    /\ joined' = IF why[2] = "removed" THEN joined \ {why[1]} ELSE joined
    /\ UNCHANGED <<saving, removed>>

\* performCertExchange stores a new zone's certificates; FileStore.Save also
\* deletes those of the zones removed since.
StoreCert(z) ==
    /\ mode = "running" /\ z \in fresh /\ pairing = NoZone
    /\ fresh' = fresh \ {z}
    /\ pairing' = z
    /\ certs' = certs \cup {z}
    /\ diskCerts' = certs'
    /\ UNCHANGED <<mode, restarts, zones, connected, index, nextIndex, failsafe,
                   duration, saves, diskState>>

\* Commissioning fails after that: rollbackCommissioningCertArtifacts is called,
\* or, if the acknowledgement could not be sent, nothing is.
FailPairing ==
    /\ mode = "running" /\ pairing # NoZone
    /\ pairing' = NoZone
    /\ \/ certs' = certs \ {pairing} /\ diskCerts' = certs'
       \/ UNCHANGED <<certs, diskCerts>>
    /\ UNCHANGED <<mode, fresh, restarts, zones, connected, index, nextIndex, failsafe, duration,
                   saves, diskState>>

RegisterZoneUnsaved(z) ==  \* mutant: SaveState is not called
    /\ mode = "running" /\ z = pairing
    /\ pairing' = NoZone
    /\ zones' = zones \cup {z}
    /\ index' = [index EXCEPT ![z] = nextIndex]
    /\ nextIndex' = (nextIndex + 1) % IndexCount
    /\ timer' = [timer EXCEPT ![z] = "Running"]
    /\ UNCHANGED <<mode, fresh, restarts, connected, fired, entering, cancelling,
                   failsafeActive, duration, certs, saves, disk>>

\* handleZoneConnectInternal for RegisterZoneAwaitingConnection, then SaveState.
RegisterZone(z) ==
    /\ mode = "running" /\ z = pairing
    /\ pairing' = NoZone
    /\ zones' = zones \cup {z}
    /\ index' = [index EXCEPT ![z] = nextIndex]
    /\ nextIndex' = (nextIndex + 1) % IndexCount
    /\ timer' = [timer EXCEPT ![z] = "Running"]
    /\ Request(<<z, "added">>)
    /\ UNCHANGED <<mode, fresh, restarts, connected, fired, entering, cancelling, failsafeActive,
                   duration, certs, disk>>

\* durationManager.CancelZoneTimers
CancelZoneTimers(i) == duration' = [duration EXCEPT ![i] = NoZone]

\* RemoveZone, then SaveState in the background.  The certificate store is
\* not saved.
RemoveZone(z) ==
    /\ mode = "running" /\ z \in zones
    /\ zones' = zones \ {z}
    /\ connected' = connected \ {z}
    /\ failsafeActive' = failsafeActive \ {z}
    /\ timer' = [timer EXCEPT ![z] = "none"]
    /\ CancelZoneTimers(index[z])
    /\ index' = [index EXCEPT ![z] = NoIndex]
    /\ certs' = certs \ {z}
    /\ Request(<<z, "removed">>)
    /\ UNCHANGED <<mode, ids, nextIndex, fired, entering, cancelling, disk>>

ConnectStopsTimer(z) ==  \* mutant: the timer is reset and not started again
    /\ mode = "running" /\ z \in zones
    /\ connected' = connected \cup {z}
    /\ timer' = [timer EXCEPT ![z] = IF @ = "none" THEN @ ELSE "Normal"]
    /\ UNCHANGED <<mode, ids, zones, index, nextIndex, fired, entering, cancelling,
                   failsafeActive, duration, certs, saves, disk>>

\* handleOperationalConnection: the zone is connected, its timer restarted.
Connect(z) ==
    /\ mode = "running" /\ z \in zones
    /\ connected' = connected \cup {z}
    /\ timer' = [timer EXCEPT ![z] = IF @ = "none" THEN @ ELSE "Running"]
    /\ UNCHANGED <<mode, ids, zones, index, nextIndex, fired, entering, cancelling,
                   failsafeActive, duration, certs, saves, disk>>

\* HandleZoneDisconnect: the failsafe timer runs on.
Disconnect(z) ==
    /\ mode = "running" /\ z \in connected
    /\ connected' = connected \ {z}
    /\ UNCHANGED <<mode, ids, zones, index, nextIndex, failsafe, duration, certs,
                   saves, disk>>

\* RefreshFailsafe
RefreshFailsafe(z) ==
    /\ mode = "running" /\ z \in zones /\ timer[z] # "none"
    /\ failsafeActive' = failsafeActive \ {z}
    /\ timer' = [timer EXCEPT ![z] = "Running"]
    /\ UNCHANGED <<mode, ids, zones, connected, index, nextIndex, fired, entering,
                   cancelling, duration, certs, saves, disk>>

\* SetDurationTimer
SetDurationTimer(z) ==
    /\ mode = "running" /\ z \in zones \cap Commanders
    /\ duration' = [duration EXCEPT ![index[z]] = z]
    /\ UNCHANGED <<mode, ids, zones, connected, index, nextIndex, failsafe, certs,
                   saves, disk>>

\* The timer expires, or is cancelled by CancelDurationTimer.
EndDurationTimer(i) ==
    /\ mode = "running" /\ duration[i] # NoZone
    /\ duration' = [duration EXCEPT ![i] = NoZone]
    /\ UNCHANGED <<mode, ids, zones, connected, index, nextIndex, failsafe, certs,
                   saves, disk>>

-----------------------------------------------------------------------------
(* Failsafe. *)

Expire(z) ==
    /\ mode = "running" /\ timer[z] = "Running" /\ z \in Expiring
    /\ timer' = [timer EXCEPT ![z] = "Due"]
    /\ fired' = fired \cup {z}
    /\ UNCHANGED <<mode, ids, zones, connected, index, nextIndex, entering, cancelling,
                   failsafeActive, duration, certs, saves, disk>>

\* enterFailsafe of the timer, which then calls handleFailsafe.
EnterFailsafe(z) ==
    /\ mode = "running" /\ z \in fired
    /\ fired' = fired \ {z}
    /\ IF timer[z] \in {"Running", "Due"}
       THEN timer' = [timer EXCEPT ![z] = "Failsafe"] /\ entering' = entering \cup {z}
       ELSE UNCHANGED <<timer, entering>>
    /\ UNCHANGED <<mode, ids, zones, connected, index, nextIndex, cancelling,
                   failsafeActive, duration, certs, saves, disk>>

\* Reading the zone's index from the map: 0 if there is none.
IndexOf(z) == IF index[z] = NoIndex THEN 0 ELSE index[z]

\* handleFailsafe, with the mutex.
HandleFailsafe(z) ==
    /\ mode = "running" /\ z \in entering
    /\ entering' = entering \ {z}
    /\ failsafeActive' = failsafeActive \cup ({z} \cap zones)
    /\ cancelling' = cancelling \cup {<<z, IndexOf(z)>>}
    /\ UNCHANGED <<mode, ids, zones, connected, index, nextIndex, timer, fired,
                   duration, certs, saves, disk>>

\* handleFailsafe, after it.
CancelDurations(z, i) ==
    /\ mode = "running" /\ <<z, i>> \in cancelling
    /\ cancelling' = cancelling \ {<<z, i>>}
    /\ CancelZoneTimers(i)
    /\ UNCHANGED <<mode, ids, zones, connected, index, nextIndex, timer, fired,
                   entering, failsafeActive, certs, saves, disk>>

-----------------------------------------------------------------------------
(* Saving, stopping and starting. *)

\* SaveState collects the state with the mutex held ...
SaveState(why) ==
    /\ mode \in {"running", "stopping"} /\ why \in todo
    /\ todo' = todo \ {why}
    /\ saving' = saving \cup
         {[why |-> why, state |-> [zones |-> zones, index |-> index, timer |-> timer]]}
    /\ UNCHANGED <<mode, ids, zones, connected, index, nextIndex, failsafe, duration,
                   certs, overlap, history, disk>>

\* ... and writes it without.  After the save of a shutdown, Stop resets the
\* failsafe timers.
WriteState(s) ==
    /\ mode \in {"running", "stopping"} /\ s \in saving
    /\ saving' = saving \ {s}
    /\ diskState' = s.state
    /\ joined' = IF s.why[2] = "added" THEN joined \cup ({s.why[1]} \cap zones) ELSE joined
    /\ removed' = IF s.why[2] = "removed" THEN removed \cup {s.why[1]} ELSE removed
    /\ mode' = IF s.why[2] = "shutdown" THEN "stopping" ELSE mode
    /\ timer' = IF s.why[2] = "shutdown"
                THEN [z \in Zones |-> IF timer[z] = "none" THEN "none" ELSE "Normal"]
                ELSE timer
    /\ UNCHANGED <<ids, zones, connected, index, nextIndex, fired, entering, cancelling,
                   failsafeActive, duration, certs, todo, overlap, diskCerts>>

\* The shutdown signal.
Shutdown ==
    /\ mode = "running" /\ \A why \in todo \cup {s.why : s \in saving} : why[2] # "shutdown"
    /\ Request(<<NoZone, "shutdown">>)
    /\ UNCHANGED <<mode, ids, zones, connected, index, nextIndex, failsafe, duration,
                   certs, disk>>

\* The process ends; what it has not written is lost.
Forget ==
    /\ restarts < MaxRestarts
    /\ restarts' = restarts + 1
    /\ mode' = "down"
    /\ zones' = {} /\ connected' = {} /\ failsafeActive' = {}
    /\ index' = [z \in Zones |-> NoIndex] /\ nextIndex' = 0
    /\ timer' = [z \in Zones |-> "none"]
    /\ fired' = {} /\ entering' = {} /\ cancelling' = {}
    /\ duration' = [i \in Indexes |-> NoZone]
    /\ certs' = {}
    /\ todo' = {} /\ saving' = {}
    /\ pairing' = NoZone
    /\ UNCHANGED <<fresh, overlap, history, diskCerts>>

Exit ==
    /\ mode = "stopping"
    /\ Forget
    /\ UNCHANGED diskState

\* A crash may interrupt os.WriteFile, which truncates the file first.
Crash ==
    /\ mode # "down"
    /\ Forget
    /\ diskState' \in {diskState} \cup (IF saving # {} THEN {Torn} ELSE {})

RestoredNextForgotten(S) == {0}  \* mutant: nextZoneIndex is not restored

\* nextZoneIndex after the saved indexes S were visited in the map's order.
RestoredNext(S) ==
    IF S = {} THEN {0}
    ELSE IF IndexCount - 1 \in S THEN {0} \cup {i + 1 : i \in S \ {IndexCount - 1}}
    ELSE {i + 1 : i \in {j \in S : \A k \in S : k <= j}}

\* LoadState: timers that were running or in failsafe are restored.  One that
\* was due calls handleFailsafe, which waits for the mutex LoadState holds.
LoadState ==
    /\ mode = "down"
    /\ certs' = diskCerts
    /\ IF diskState \in {NoState, Torn}
       THEN mode' = "running" /\ UNCHANGED <<zones, index, nextIndex, timer>>
       ELSE /\ zones' = diskState.zones
            /\ index' = diskState.index
            /\ nextIndex' \in RestoredNext({diskState.index[z] : z \in diskState.zones})
            /\ timer' = [z \in Zones |-> IF diskState.timer[z] = "Normal" THEN "none"
                                         ELSE diskState.timer[z]]
            /\ mode' = IF \E z \in Zones : diskState.timer[z] = "Due" THEN "blocked"
                       ELSE "running"
    /\ UNCHANGED <<ids, connected, fired, entering, cancelling, failsafeActive,
                   duration, saves, disk>>

-----------------------------------------------------------------------------
Next ==
    \/ \E z \in Zones : StoreCert(z)
    \/ FailPairing
    \/ \E z \in Zones : RegisterZone(z)
    \/ \E z \in Zones : RemoveZone(z)
    \/ \E z \in Zones : Connect(z)
    \/ \E z \in Zones : Disconnect(z)
    \/ \E z \in Zones : RefreshFailsafe(z)
    \/ \E z \in Zones : SetDurationTimer(z)
    \/ \E i \in Indexes : EndDurationTimer(i)
    \/ \E z \in Zones : Expire(z)
    \/ \E z \in Zones : EnterFailsafe(z)
    \/ \E z \in Zones : HandleFailsafe(z)
    \/ \E z \in Zones, i \in Indexes : CancelDurations(z, i)
    \/ \E why \in Reasons : SaveState(why)
    \/ \E s \in saving : WriteState(s)
    \/ Shutdown
    \/ Exit
    \/ Crash
    \/ LoadState

Spec == Init /\ [][Next]_vars

\* Go timers expire (a countdown is not restarted for ever), goroutines run and
\* a device that is down is started again.
FairSpec ==
    /\ Spec
    /\ \A z \in Zones : WF_vars(Expire(z)) /\ WF_vars(EnterFailsafe(z)) /\ WF_vars(HandleFailsafe(z))
    /\ WF_vars(LoadState)

-----------------------------------------------------------------------------
(* Properties. *)

\* Two zones never share an index, whatever was removed, saved and restored
\* (handleZoneConnectInternal, LoadState).
IndexesDistinct ==
    \A y, z \in zones : y # z => index[y] # index[z]

\* Every zone the device belongs to has a failsafe timer that counts down, is
\* about to trigger or has triggered, also after a restart, unless two saves
\* of the state overlapped (handleOperationalConnection, SaveState, LoadState).
FailsafeBacked ==
    mode = "running" /\ ~overlap => \A z \in zones :
        timer[z] \in {"Running", "Failsafe"} \/ (timer[z] = "Due" /\ z \in fired)

\* No call of SaveState is outstanding.
Saved == todo = {} /\ saving = {}

\* Once the saves are done, the state file names the zones the device belongs
\* to and their indexes, unless two of them overlapped or a crash came first
\* (RegisterZoneAwaitingConnection, finishRemoveZoneCleanup, SaveState).
DiskCurrentUnlessOverlap ==
    mode = "running" /\ Saved /\ ~overlap /\ diskState \notin {NoState, Torn} =>
        diskState.zones = zones /\ diskState.index = index

\* A zone that stays disconnected enters failsafe, with or without a restart
\* (handleZoneConnectInternal, enterFailsafe, LoadState).
FailsafeEventually ==
    \A z \in Expiring :
        <>[](mode = "running" /\ ~overlap /\ z \in zones \ connected)
            => <>(timer[z] = "Failsafe")

-----------------------------------------------------------------------------
(* Statements of documents and comments that the code does not keep, listed in
   README.md; no configuration checks them. *)

\* A device that is started runs.
StartCompletes == mode = "down" ~> mode = "running"

\* What the state file says is what was changed last.
DiskCurrent ==
    mode = "running" /\ Saved /\ diskState \notin {NoState, Torn} => diskState.zones = zones

\* A zone whose addition was saved is known after a restart.
MembershipSurvives == mode = "running" => joined \subseteq zones

\* The certificates of a removed zone are not trusted any more.
RemovedNotTrusted == removed \cap certs = {}

\* Failsafe is entered only when no zone is connected.
FailsafeOnlyWhenAllLost ==
    [][\A z \in Zones : z \in failsafeActive' \ failsafeActive => connected = {}]_vars

\* A zone whose controller has reconnected has left failsafe.
ReconnectEndsFailsafe ==
    \A z \in connected : timer[z] = "Running" /\ z \notin entering => z \notin failsafeActive

\* A zone that was in failsafe is in failsafe after a restart.
FailsafeSurvivesRestart ==
    [][mode = "down" /\ mode' = "running" =>
        \A z \in zones' : timer'[z] = "Failsafe" => z \in failsafeActive']_vars

\* The failsafe of one zone cancels no duration timer of another.
CancelsOwnTimers ==
    [][\A z \in Zones, i \in Indexes :
        <<z, i>> \in cancelling \ cancelling' /\ mode' = mode => duration[i] \in {z, NoZone}]_vars
=============================================================================
