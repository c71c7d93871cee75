------------------------- MODULE ZoneRegistryProofs -------------------------
(***************************************************************************)
(* Safety of the registry of zones over saves, crashes and restarts, for   *)
(* any zones and any bounds.                                               *)
(*                                                                         *)
(* A restart brings back what a file says, the file what a snapshot said,  *)
(* and a snapshot what the memory said.  So what is to hold in memory has  *)
(* to hold of every state that may come back (Kept): each of its zones has *)
(* an index, two have different ones, and their timers run.  That the file *)
(* is current rests on one save at a time (OneSave): what it has read does *)
(* not change before it writes, because every change asks for another.     *)
(***************************************************************************)
EXTENDS ZoneRegistry, FiniteSetTheorems, TLAPS

USE ConstantsAssumption

-----------------------------------------------------------------------------
(* Types. *)

\* Zone IDs that have been used, but for the one that is being commissioned.
Registered == Zones \ (fresh \cup {pairing})

\* The state of the memory, and every state that a restart may bring back.
Memory == [zones |-> zones, index |-> index, timer |-> timer]
Kept == {Memory} \cup {s.state : s \in saving} \cup ({diskState} \ {NoState, Torn})

\* A state of registered zones, each with an index.
WellFormed(st) ==
    /\ st \in DeviceStates /\ st.zones \subseteq Registered
    /\ \A z \in st.zones : st.index[z] \in Indexes

KeptWellFormed == \A st \in Kept : WellFormed(st)

Typed ==
    /\ TypeOK
    /\ pairing \notin fresh
    /\ mode = "down" => zones = {}
    /\ KeptWellFormed

\* The places of the types that a step without saves and disk may change.
MemoryTyped ==
    /\ mode \in {"running", "stopping", "down", "blocked"}
    /\ connected \subseteq zones /\ failsafeActive \subseteq zones
    /\ mode = "down" => zones = {}
    /\ nextIndex \in Indexes /\ fired \subseteq Zones /\ entering \subseteq Zones
    /\ cancelling \subseteq Zones \X Indexes
    /\ duration \in [Indexes -> Zones \cup {NoZone}]
    /\ certs \subseteq Zones /\ diskCerts \subseteq Zones

\* Those of the calls of SaveState and of the restarts.
SavesTyped ==
    /\ todo \subseteq Reasons /\ saving \subseteq [why : Reasons, state : DeviceStates]
    /\ diskState \in DeviceStates \cup {NoState, Torn}
    /\ overlap \in BOOLEAN /\ joined \subseteq Zones /\ removed \subseteq Zones
    /\ restarts \in 0..MaxRestarts

IdsTyped == fresh \subseteq Zones /\ pairing \in Zones \cup {NoZone} /\ pairing \notin fresh

\* The parts make the whole.
LEMMA TypedParts ==
    Typed <=> MemoryTyped /\ SavesTyped /\ IdsTyped /\ KeptWellFormed
<1>1. ASSUME WellFormed(Memory)
      PROVE  /\ zones \subseteq Zones \ fresh /\ index \in [Zones -> Indexes \cup {NoIndex}]
             /\ timer \in [Zones -> TimerStates]
  BY <1>1 DEF WellFormed, Memory, DeviceStates, Registered
<1> QED BY <1>1 DEF Typed, TypeOK, MemoryTyped, SavesTyped, IdsTyped, Kept, KeptWellFormed

\* The same of the next state.
LEMMA TypedPartsNext ==
    MemoryTyped' /\ SavesTyped' /\ IdsTyped' /\ KeptWellFormed' => Typed'
BY TypedParts, PTL

\* A device that starts for the first time has no zones.
LEMMA InitTyped == Init => Typed
<1> SUFFICES ASSUME Init PROVE Typed
  OBVIOUS
<1>1. 0 \in Indexes BY DEF Indexes
<1>2. Memory \in DeviceStates BY DEF Init, Memory, DeviceStates, TimerStates
<1>3. \A st \in Kept : st = Memory BY DEF Init, Kept
<1>4. KeptWellFormed
  <2>1. Memory.zones = {} BY DEF Init, Memory
  <2>2. WellFormed(Memory) BY <1>2, <2>1 DEF WellFormed
  <2> QED BY <1>3, <2>2 DEF KeptWellFormed
<1>5. MemoryTyped BY <1>1 DEF Init, MemoryTyped
<1>6. SavesTyped
  <2>1. overlap \in BOOLEAN BY DEF Init
  <2> QED BY <2>1 DEF Init, SavesTyped
<1>7. IdsTyped BY DEF Init, IdsTyped
<1> QED BY <1>4, <1>5, <1>6, <1>7, TypedParts

\* A step that keeps what is saved, and the zones of the memory, need only show that
\* the memory is well-formed.
LEMMA KeptStable ==
    ASSUME Typed, UNCHANGED <<saving, diskState>>, Registered \subseteq Registered',
           WellFormed(Memory)'
    PROVE  KeptWellFormed'
<1>1. \A st \in Kept' : st = Memory' \/ st \in Kept BY DEF Kept
<1>2. ASSUME NEW st \in Kept PROVE WellFormed(st)' BY <1>2 DEF Typed, WellFormed, KeptWellFormed
<1> QED BY <1>1, <1>2 DEF KeptWellFormed

\* Request adds a call of SaveState.
LEMMA RequestTyped ==
    ASSUME SavesTyped, NEW why \in Reasons, Request(why), UNCHANGED <<diskState, restarts>>
    PROVE  SavesTyped'
<1>1. overlap' \in BOOLEAN BY DEF Request, SavesTyped
<1> QED BY <1>1 DEF Request, SavesTyped

\* Pairing, up to the registration.
LEMMA PairingTyped ==
    ASSUME Typed, (\E z \in Zones : StoreCert(z)) \/ FailPairing
    PROVE  Typed' /\ Registered \subseteq Registered'
<1>0. MemoryTyped /\ SavesTyped /\ IdsTyped /\ WellFormed(Memory) BY TypedParts DEF Kept, KeptWellFormed
<1>1. /\ UNCHANGED <<saves, diskState, restarts, zones, index, timer>> /\ Registered \subseteq Registered'
      /\ IdsTyped'
  BY <1>0 DEF StoreCert, FailPairing, IdsTyped, Registered, failsafe
<1>2. MemoryTyped'
  BY <1>0, <1>1 DEF StoreCert, FailPairing, MemoryTyped, IdsTyped, failsafe
<1>3. SavesTyped' BY <1>0, <1>1 DEF SavesTyped, saves, history
<1>4. WellFormed(Memory)' BY <1>0, <1>1 DEF WellFormed, Memory
<1>5. KeptWellFormed' BY <1>1, <1>4, KeptStable DEF saves
<1> QED BY <1>1, <1>2, <1>3, <1>5, TypedPartsNext

\* RegisterZone: the new zone gets the next index.
LEMMA RegisterTyped ==
    ASSUME Typed, NEW z \in Zones, RegisterZone(z)
    PROVE  Typed' /\ Registered' = Registered \cup {z} /\ z \notin Registered \cup zones
<1>0. MemoryTyped /\ SavesTyped /\ IdsTyped /\ WellFormed(Memory) BY TypedParts DEF Kept, KeptWellFormed
<1>1. /\ UNCHANGED <<diskState, saving, restarts, fresh>>
      /\ Registered' = Registered \cup {z} /\ z \notin Registered
      /\ IdsTyped'
  BY <1>0 DEF RegisterZone, Request, IdsTyped, Registered, disk
<1>2. nextIndex' \in Indexes BY <1>0 DEF RegisterZone, MemoryTyped, Indexes
<1>3. MemoryTyped' BY <1>0, <1>2 DEF RegisterZone, MemoryTyped, disk
<1>4. SavesTyped'
  <2>1. <<z, "added">> \in Reasons BY DEF Reasons
  <2> QED BY <1>0, <1>1, <2>1, RequestTyped DEF RegisterZone
<1>5. WellFormed(Memory)'
  <2>1. /\ zones' = zones \cup {z} /\ index' = [index EXCEPT ![z] = nextIndex]
        /\ timer' = [timer EXCEPT ![z] = "Running"]
    BY DEF RegisterZone
  <2>2. /\ index \in [Zones -> Indexes \cup {NoIndex}] /\ timer \in [Zones -> TimerStates]
        /\ zones \subseteq Registered /\ \A y \in zones : index[y] \in Indexes
        /\ zones \subseteq Zones
    BY <1>0 DEF WellFormed, Memory, DeviceStates
  <2>3. Memory' \in DeviceStates
    BY <1>0, <2>1, <2>2 DEF Memory, DeviceStates, TimerStates, MemoryTyped
  <2> QED BY <1>0, <1>1, <2>1, <2>2, <2>3 DEF WellFormed, Memory, MemoryTyped
<1>6. KeptWellFormed' BY <1>1, <1>5, KeptStable
<1>7. zones \subseteq Registered BY <1>0 DEF WellFormed, Memory
<1> QED BY <1>1, <1>3, <1>4, <1>6, <1>7, TypedPartsNext

\* RemoveZone.
LEMMA RemoveTyped ==
    ASSUME Typed, NEW z \in Zones, RemoveZone(z)
    PROVE  Typed' /\ UNCHANGED Registered
<1>0. MemoryTyped /\ SavesTyped /\ IdsTyped /\ WellFormed(Memory) BY TypedParts DEF Kept, KeptWellFormed
<1>1. UNCHANGED <<diskState, saving, ids>> /\ UNCHANGED Registered
  BY DEF RemoveZone, Request, Registered, disk, ids
<1>2. IdsTyped' BY <1>0, <1>1 DEF IdsTyped, ids
<1>3. MemoryTyped' BY <1>0 DEF RemoveZone, CancelZoneTimers, MemoryTyped, disk
<1>4. SavesTyped'
  <2>1. <<z, "removed">> \in Reasons BY DEF Reasons
  <2> QED BY <1>0, <1>1, <2>1, RequestTyped DEF RemoveZone, ids
<1>5. WellFormed(Memory)'
  <2>1. /\ zones' = zones \ {z} /\ index' = [index EXCEPT ![z] = NoIndex]
        /\ timer' = [timer EXCEPT ![z] = "none"]
    BY DEF RemoveZone
  <2>2. /\ index \in [Zones -> Indexes \cup {NoIndex}] /\ timer \in [Zones -> TimerStates]
        /\ zones \subseteq Registered /\ \A y \in zones : index[y] \in Indexes
        /\ zones \subseteq Zones
    BY <1>0 DEF WellFormed, Memory, DeviceStates
  <2>3. Memory' \in DeviceStates BY <2>1, <2>2 DEF Memory, DeviceStates, TimerStates
  <2> QED BY <1>1, <2>1, <2>2, <2>3 DEF WellFormed, Memory
<1>6. KeptWellFormed' BY <1>1, <1>5, KeptStable
<1> QED BY <1>1, <1>2, <1>3, <1>4, <1>6, TypedPartsNext

\* Steps of connections, timers and their callbacks.
ZoneRuns(z) ==
    \/ Connect(z) \/ Disconnect(z) \/ RefreshFailsafe(z) \/ SetDurationTimer(z)
    \/ Expire(z) \/ EnterFailsafe(z) \/ HandleFailsafe(z)
    \/ \E i \in Indexes : CancelDurations(z, i)
Running == (\E z \in Zones : ZoneRuns(z)) \/ (\E i \in Indexes : EndDurationTimer(i))

\* What [Next]_vars is made of.
LEMMA StepCases ==
    ASSUME [Next]_vars
    PROVE  \/ UNCHANGED vars \/ (\E z \in Zones : StoreCert(z)) \/ FailPairing
           \/ (\E z \in Zones : RegisterZone(z)) \/ (\E z \in Zones : RemoveZone(z)) \/ Running
           \/ (\E why \in Reasons : SaveState(why)) \/ (\E s \in saving : WriteState(s))
           \/ Shutdown \/ Exit \/ Crash \/ LoadState
<1>1. ASSUME NEW z \in Zones, NEW i \in Indexes, CancelDurations(z, i) PROVE ZoneRuns(z)
  BY <1>1 DEF ZoneRuns
<1>2. ASSUME NEW z \in Zones,
             \/ Connect(z) \/ Disconnect(z) \/ RefreshFailsafe(z) \/ SetDurationTimer(z)
             \/ Expire(z) \/ EnterFailsafe(z) \/ HandleFailsafe(z)
      PROVE  ZoneRuns(z)
  BY <1>2 DEF ZoneRuns
<1> QED BY <1>1, <1>2 DEF Next, Running

LEMMA RunningTyped ==
    ASSUME Typed, Running
    PROVE  Typed' /\ UNCHANGED <<mode, Registered, ids, saves, disk, zones, index, nextIndex>>
<1>0. MemoryTyped /\ SavesTyped /\ IdsTyped /\ WellFormed(Memory) BY TypedParts DEF Kept, KeptWellFormed
<1>1. UNCHANGED <<mode, ids, saves, disk, zones, index, nextIndex>>
  <2>1. ASSUME NEW z \in Zones, ZoneRuns(z)
        PROVE  UNCHANGED <<mode, ids, saves, disk, zones, index, nextIndex>>
    BY <2>1 DEF ZoneRuns, Connect, Disconnect, RefreshFailsafe, SetDurationTimer,
         Expire, EnterFailsafe, HandleFailsafe, CancelDurations
  <2>2. ASSUME NEW i \in Indexes, EndDurationTimer(i)
        PROVE  UNCHANGED <<mode, ids, saves, disk, zones, index, nextIndex>>
    BY <2>2 DEF EndDurationTimer
  <2> QED BY <2>1, <2>2 DEF Running
<1>3. MemoryTyped' /\ timer' \in [Zones -> TimerStates]
  <2>0. timer \in [Zones -> TimerStates] BY <1>0 DEF WellFormed, Memory, DeviceStates
  <2>1. ASSUME NEW z \in Zones, ZoneRuns(z)
        PROVE  MemoryTyped' /\ timer' \in [Zones -> TimerStates]
    <3>0. IndexOf(z) \in Indexes
      BY <1>0 DEF IndexOf, WellFormed, Memory, DeviceStates, Indexes
    <3>1. CASE Connect(z) BY <1>0, <1>1, <2>0, <3>1 DEF Connect, MemoryTyped, disk, TimerStates
    <3>2. CASE Disconnect(z) BY <1>0, <1>1, <2>0, <3>2 DEF Disconnect, MemoryTyped, disk, failsafe
    <3>3. CASE RefreshFailsafe(z)
      BY <1>0, <1>1, <2>0, <3>3 DEF RefreshFailsafe, MemoryTyped, disk, TimerStates
    <3>4. CASE SetDurationTimer(z)
      BY <1>0, <1>1, <2>0, <3>4 DEF SetDurationTimer, MemoryTyped, disk, failsafe
    <3>5. CASE Expire(z) BY <1>0, <1>1, <2>0, <3>5 DEF Expire, MemoryTyped, disk, TimerStates
    <3>6. CASE EnterFailsafe(z)
      BY <1>0, <1>1, <2>0, <3>6 DEF EnterFailsafe, MemoryTyped, disk, TimerStates
    <3>7. CASE HandleFailsafe(z)
      BY <1>0, <1>1, <2>0, <3>0, <3>7 DEF HandleFailsafe, MemoryTyped, disk
    <3>8. ASSUME NEW i \in Indexes, CancelDurations(z, i)
          PROVE  MemoryTyped' /\ timer' \in [Zones -> TimerStates]
      BY <1>0, <1>1, <2>0, <3>8
         DEF CancelDurations, CancelZoneTimers, MemoryTyped, disk, failsafe
    <3> QED BY <2>1, <3>1, <3>2, <3>3, <3>4, <3>5, <3>6, <3>7, <3>8 DEF ZoneRuns
  <2>2. ASSUME NEW i \in Indexes, EndDurationTimer(i)
        PROVE  MemoryTyped' /\ timer' \in [Zones -> TimerStates]
    BY <1>0, <1>1, <2>0, <2>2 DEF EndDurationTimer, MemoryTyped, disk, failsafe
  <2> QED BY <2>1, <2>2 DEF Running
<1>4. SavesTyped' /\ IdsTyped' /\ Registered' = Registered
  BY <1>0, <1>1 DEF SavesTyped, IdsTyped, Registered, saves, ids, disk, history
<1>5. WellFormed(Memory)' BY <1>0, <1>1, <1>3, <1>4 DEF WellFormed, Memory, DeviceStates
<1>6. KeptWellFormed' BY <1>1, <1>4, <1>5, KeptStable DEF saves, disk
<1> QED BY <1>1, <1>3, <1>4, <1>6, TypedPartsNext

\* A call of SaveState reads the memory.
LEMMA SaveTyped ==
    ASSUME Typed, NEW why \in Reasons, SaveState(why)
    PROVE  /\ Typed' /\ UNCHANGED <<mode, Registered, ids, disk, zones, index, nextIndex>>
           /\ UNCHANGED <<failsafe, overlap>>
           /\ saving' = saving \cup {[why |-> why, state |-> Memory]}
<1>0. MemoryTyped /\ SavesTyped /\ IdsTyped /\ WellFormed(Memory) BY TypedParts DEF Kept, KeptWellFormed
<1>1. /\ UNCHANGED <<mode, ids, disk, zones, connected, index, nextIndex, failsafe, overlap, history>>
      /\ UNCHANGED <<duration, certs>>
      /\ todo' = todo \ {why} /\ saving' = saving \cup {[why |-> why, state |-> Memory]}
  BY DEF SaveState, Memory
<1>2. MemoryTyped' /\ IdsTyped' /\ UNCHANGED Registered
  BY <1>0, <1>1 DEF MemoryTyped, IdsTyped, Registered, disk, ids, failsafe
<1>3. SavesTyped'
  <2>1. Memory \in DeviceStates BY <1>0 DEF WellFormed
  <2>2. saving' \subseteq [why : Reasons, state : DeviceStates]
    BY <1>0, <1>1, <2>1 DEF SavesTyped
  <2> QED BY <1>0, <1>1, <2>2 DEF SavesTyped, disk, ids, history
<1>4. Memory' = Memory BY <1>1 DEF Memory, failsafe
<1>5. KeptWellFormed'
  <2>1. \A s \in saving' : s \in saving \/ s.state = Memory BY <1>1
  <2>2. \A st \in Kept' : st \in Kept BY <1>1, <1>4, <2>1 DEF Kept, disk
  <2>3. ASSUME NEW st \in Kept PROVE WellFormed(st)'
    BY <1>2, <2>3 DEF Typed, WellFormed, KeptWellFormed
  <2> QED BY <2>2, <2>3 DEF KeptWellFormed
<1> QED BY <1>1, <1>2, <1>3, <1>5, TypedPartsNext

\* Writing a state, and the reset of the timers after that of a shutdown.
LEMMA WriteTyped ==
    ASSUME Typed, NEW s \in saving, WriteState(s)
    PROVE  /\ Typed' /\ UNCHANGED <<Registered, ids, zones, index, nextIndex, todo, overlap>>
           /\ saving' = saving \ {s} /\ diskState' = s.state
<1>0. MemoryTyped /\ SavesTyped /\ IdsTyped /\ WellFormed(Memory) BY TypedParts DEF Kept, KeptWellFormed
<1>1. /\ UNCHANGED <<ids, zones, connected, index, nextIndex, fired, entering, cancelling>>
      /\ UNCHANGED <<failsafeActive, duration, certs, todo, overlap, diskCerts>>
      /\ saving' = saving \ {s} /\ diskState' = s.state
      /\ mode' \in {mode, "stopping"}
  BY DEF WriteState
<1>2. MemoryTyped' /\ IdsTyped' /\ UNCHANGED Registered
  BY <1>0, <1>1 DEF MemoryTyped, IdsTyped, Registered, ids
<1>3. SavesTyped'
  <2>0. s.why \in Reasons /\ s.state \in DeviceStates BY <1>0 DEF SavesTyped
  <2>1. joined' \subseteq Zones
    <3>1. zones \subseteq Zones BY <1>0 DEF WellFormed, Memory, DeviceStates
    <3> QED BY <1>0, <3>1 DEF WriteState, SavesTyped
  <2>2. removed' \subseteq Zones
    <3>1. s.why[2] = "removed" => s.why[1] \in Zones BY <2>0 DEF Reasons
    <3> QED BY <1>0, <3>1 DEF WriteState, SavesTyped
  <2> QED BY <1>0, <1>1, <2>0, <2>1, <2>2 DEF SavesTyped, ids
<1>4. WellFormed(Memory)'
  <2>1. timer' \in [Zones -> TimerStates]
    <3>1. timer \in [Zones -> TimerStates] BY <1>0 DEF WellFormed, Memory, DeviceStates
    <3> QED BY <3>1 DEF WriteState, TimerStates
  <2> QED BY <1>0, <1>1, <1>2, <2>1 DEF WellFormed, Memory, DeviceStates
<1>5. KeptWellFormed'
  <2>1. \A st \in Kept' : st = Memory' \/ st \in Kept BY <1>1 DEF Kept
  <2>2. ASSUME NEW st \in Kept PROVE WellFormed(st)'
    BY <1>2, <2>2 DEF Typed, WellFormed, KeptWellFormed
  <2> QED BY <1>4, <2>1, <2>2 DEF KeptWellFormed
<1> QED BY <1>1, <1>2, <1>3, <1>5, TypedPartsNext

\* The signal to shut down asks for a save.
LEMMA ShutdownTyped ==
    ASSUME Typed, Shutdown
    PROVE  /\ Typed' /\ UNCHANGED <<mode, Registered, ids, disk, zones, index, nextIndex>>
           /\ UNCHANGED <<failsafe, saving>>
<1>0. MemoryTyped /\ SavesTyped /\ IdsTyped /\ WellFormed(Memory) BY TypedParts DEF Kept, KeptWellFormed
<1>1. /\ UNCHANGED <<mode, ids, disk, zones, connected, index, nextIndex, failsafe, saving>>
      /\ UNCHANGED <<duration, certs>>
  BY DEF Shutdown, Request
<1>2. MemoryTyped' /\ IdsTyped' /\ UNCHANGED Registered
  BY <1>0, <1>1 DEF MemoryTyped, IdsTyped, Registered, disk, ids, failsafe
<1>3. SavesTyped'
  <2>1. <<NoZone, "shutdown">> \in Reasons BY DEF Reasons
  <2> QED BY <1>0, <1>1, <2>1, RequestTyped DEF Shutdown, ids, disk
<1>4. WellFormed(Memory)' BY <1>0, <1>1, <1>2 DEF WellFormed, Memory, failsafe
<1>5. KeptWellFormed' BY <1>1, <1>2, <1>4, KeptStable DEF disk
<1> QED BY <1>1, <1>2, <1>3, <1>5, TypedPartsNext

\* The process ends, and the memory is gone.
LEMMA ForgetTyped ==
    ASSUME Typed, Exit \/ Crash
    PROVE  /\ Typed' /\ Registered \subseteq Registered' /\ UNCHANGED overlap
           /\ mode' = "down" /\ zones' = {} /\ nextIndex' = 0 /\ todo' = {} /\ saving' = {}
           /\ diskState' \in {diskState, Torn}
<1>0. MemoryTyped /\ SavesTyped /\ IdsTyped /\ WellFormed(Memory) BY TypedParts DEF Kept, KeptWellFormed
<1>1. Forget /\ diskState' \in {diskState, Torn} BY DEF Exit, Crash
<1>2. Registered \subseteq Registered' /\ IdsTyped'
  BY <1>0, <1>1 DEF Forget, IdsTyped, Registered
<1>3. MemoryTyped'
  <2>1. 0 \in Indexes BY DEF Indexes
  <2>2. mode' \in {"running", "stopping", "down", "blocked"} BY <1>1 DEF Forget
  <2>3. duration' \in [Indexes -> Zones \cup {NoZone}] BY <1>1 DEF Forget
  <2> QED BY <1>0, <1>1, <2>1, <2>2, <2>3 DEF Forget, MemoryTyped
<1>4. SavesTyped'
  <2>1. restarts' \in 0..MaxRestarts
    <3>1. restarts \in 0..MaxRestarts BY <1>0 DEF SavesTyped
    <3> QED BY <1>1, <3>1 DEF Forget
  <2>2. diskState' \in DeviceStates \cup {NoState, Torn} BY <1>0, <1>1 DEF SavesTyped
  <2>3. overlap' \in BOOLEAN BY <1>0, <1>1 DEF Forget, SavesTyped
  <2> QED BY <1>0, <1>1, <2>1, <2>2, <2>3 DEF Forget, SavesTyped, history
<1>5. WellFormed(Memory)'
  <2>1. zones' = {} /\ index' \in [Zones -> Indexes \cup {NoIndex}] BY <1>1 DEF Forget
  <2>2. timer' \in [Zones -> TimerStates] BY <1>1 DEF Forget, TimerStates
  <2> QED BY <2>1, <2>2 DEF WellFormed, Memory, DeviceStates
<1>6. KeptWellFormed'
  <2>1. saving' = {} BY <1>1 DEF Forget
  <2>2. \A st \in Kept' : st = Memory' \/ st \in Kept BY <1>1, <2>1 DEF Kept
  <2>3. ASSUME NEW st \in Kept PROVE WellFormed(st)'
    BY <1>2, <2>3 DEF Typed, WellFormed, KeptWellFormed
  <2> QED BY <1>5, <2>2, <2>3 DEF KeptWellFormed
<1>7. /\ UNCHANGED overlap /\ mode' = "down" /\ zones' = {} /\ nextIndex' = 0
      /\ todo' = {} /\ saving' = {}
  BY <1>1 DEF Forget
<1> QED BY <1>1, <1>2, <1>3, <1>4, <1>6, <1>7, TypedPartsNext

\* What LoadState restores: nothing, or what the file says.
Restored ==
    \/ UNCHANGED <<zones, index, nextIndex, timer>> /\ diskState \in {NoState, Torn}
       /\ mode' = "running"
    \/ /\ diskState \in Kept \ {NoState, Torn}
       /\ zones' = diskState.zones /\ index' = diskState.index
       /\ nextIndex' \in RestoredNext({diskState.index[z] : z \in diskState.zones})
       /\ timer' = [z \in Zones |-> IF diskState.timer[z] = "Normal" THEN "none"
                                    ELSE diskState.timer[z]]
       /\ mode' = IF \E z \in Zones : diskState.timer[z] = "Due" THEN "blocked" ELSE "running"

\* The next index after a restart is one.
LEMMA RestoredNextType ==
    ASSUME NEW S \in SUBSET Indexes
    PROVE  RestoredNext(S) \subseteq Indexes
BY DEF RestoredNext, Indexes

\* A start of the device.
LEMMA LoadTyped ==
    ASSUME Typed, LoadState
    PROVE  /\ Typed' /\ UNCHANGED <<Registered, ids, saves, disk, fired>> /\ Restored
<1>0. MemoryTyped /\ SavesTyped /\ IdsTyped /\ WellFormed(Memory) BY TypedParts DEF Kept, KeptWellFormed
<1>1. /\ UNCHANGED <<ids, connected, fired, entering, cancelling, failsafeActive, duration, saves, disk>>
      /\ certs' = diskCerts
  BY DEF LoadState
<1>2. Restored BY DEF LoadState, Restored, Kept
<1>3. diskState \in Kept => WellFormed(diskState) BY DEF Typed, KeptWellFormed
<1>4. IdsTyped' /\ SavesTyped' /\ UNCHANGED Registered
  BY <1>0, <1>1 DEF SavesTyped, IdsTyped, Registered, saves, ids, disk, history
<1>5. nextIndex' \in Indexes
  <2>1. CASE UNCHANGED nextIndex BY <1>0, <2>1 DEF MemoryTyped
  <2>2. CASE /\ diskState \in Kept
             /\ nextIndex' \in RestoredNext({diskState.index[z] : z \in diskState.zones})
    <3>1. {diskState.index[z] : z \in diskState.zones} \in SUBSET Indexes
      BY <1>3, <2>2 DEF WellFormed
    <3> QED BY <2>2, <3>1, RestoredNextType
  <2> QED BY <1>2, <2>1, <2>2 DEF Restored
<1>6. MemoryTyped'
  <2>1. connected' = {} /\ failsafeActive' = {} /\ mode' \in {"running", "blocked"}
    BY <1>0, <1>1, <1>2 DEF LoadState, Restored, MemoryTyped
  <2> QED BY <1>0, <1>1, <1>5, <2>1 DEF MemoryTyped, disk
<1>7. WellFormed(Memory)'
  <2>1. CASE UNCHANGED <<zones, index, timer>> BY <1>0, <1>4, <2>1 DEF WellFormed, Memory
  <2>2. CASE /\ diskState \in Kept /\ zones' = diskState.zones /\ index' = diskState.index
             /\ timer' = [z \in Zones |-> IF diskState.timer[z] = "Normal" THEN "none"
                                          ELSE diskState.timer[z]]
    <3>1. timer' \in [Zones -> TimerStates]
      <4>1. diskState.timer \in [Zones -> TimerStates] BY <1>3, <2>2 DEF WellFormed, DeviceStates
      <4> QED BY <2>2, <4>1 DEF TimerStates
    <3>2. /\ diskState.zones \subseteq Zones /\ diskState.zones \subseteq Registered
          /\ diskState.index \in [Zones -> Indexes \cup {NoIndex}]
          /\ \A z \in diskState.zones : diskState.index[z] \in Indexes
      BY <1>3, <2>2 DEF WellFormed, DeviceStates
    <3> QED BY <1>4, <2>2, <3>1, <3>2 DEF WellFormed, Memory, DeviceStates
  <2> QED BY <1>2, <2>1, <2>2 DEF Restored
<1>8. KeptWellFormed' BY <1>1, <1>4, <1>7, KeptStable DEF saves, disk
<1> QED BY <1>1, <1>2, <1>4, <1>6, <1>8, TypedPartsNext

\* Every step keeps the types, and only a registration takes an unregistered zone.
LEMMA NextTyped == Typed /\ [Next]_vars => Typed' /\ Registered \subseteq Registered'
<1> SUFFICES ASSUME Typed, [Next]_vars PROVE Typed' /\ Registered \subseteq Registered'
  OBVIOUS
<1>1. CASE UNCHANGED vars
  <2>0. MemoryTyped /\ SavesTyped /\ IdsTyped /\ KeptWellFormed BY TypedParts
  <2>1. UNCHANGED Registered BY <1>1 DEF vars, ids, Registered
  <2>2. MemoryTyped' BY <1>1, <2>0 DEF vars, failsafe, disk, MemoryTyped
  <2>3. SavesTyped' BY <1>1, <2>0 DEF vars, saves, disk, ids, history, SavesTyped
  <2>4. IdsTyped' BY <1>1, <2>0 DEF vars, ids, IdsTyped
  <2>5. KeptWellFormed'
    <3>1. UNCHANGED <<Memory, saving, diskState>> BY <1>1 DEF vars, saves, disk, failsafe, Memory
    <3>2. UNCHANGED Kept BY <3>1 DEF Kept
    <3> QED BY <2>0, <2>1, <3>2 DEF KeptWellFormed, WellFormed
  <2> QED BY <2>1, <2>2, <2>3, <2>4, <2>5, TypedPartsNext
<1>2. CASE (\E z \in Zones : StoreCert(z)) \/ FailPairing BY <1>2, PairingTyped
<1>3. ASSUME NEW z \in Zones, RegisterZone(z) PROVE Typed' /\ Registered \subseteq Registered'
  BY <1>3, RegisterTyped
<1>4. ASSUME NEW z \in Zones, RemoveZone(z) PROVE Typed' /\ Registered \subseteq Registered'
  BY <1>4, RemoveTyped
<1>5. CASE Running BY <1>5, RunningTyped
<1>6. ASSUME NEW why \in Reasons, SaveState(why) PROVE Typed' /\ Registered \subseteq Registered'
  BY <1>6, SaveTyped
<1>7. ASSUME NEW s \in saving, WriteState(s) PROVE Typed' /\ Registered \subseteq Registered'
  BY <1>7, WriteTyped
<1>8. CASE Shutdown BY <1>8, ShutdownTyped
<1>9. CASE Exit \/ Crash BY <1>9, ForgetTyped
<1>10. CASE LoadState BY <1>10, LoadTyped
<1> QED BY <1>1, <1>2, <1>3, <1>4, <1>5, <1>6, <1>7, <1>8, <1>9, <1>10, StepCases

\* The state of the registry always has its type (every operation of device_service_zone.go,
\* device_service_failsafe.go and device_service_persistence.go).
THEOREM TypeCorrect == Spec => []TypeOK
<1>1. Typed /\ [Next]_vars => Typed' BY NextTyped
<1>2. Typed => TypeOK BY DEF Typed
<1> QED BY InitTyped, <1>1, <1>2, PTL DEF Spec

\* What the device remembers is well-formed.
LEMMA AlwaysTyped == Spec => []Typed
<1>1. Typed /\ [Next]_vars => Typed' BY NextTyped
<1> QED BY InitTyped, <1>1, PTL DEF Spec

-----------------------------------------------------------------------------
(* Indexes. *)

\* The device is commissioned no more often than there are indexes.
FewZones == IsFiniteSet(Zones) /\ Cardinality(Zones) <= IndexCount

\* A state has no zones and no indexes but those of another.
Descends(st, k) ==
    st.zones \subseteq k.zones /\ \A z \in st.zones : st.index[z] = k.index[z]

\* Unless a zone is registered, what may come back is what could before.
LEMMA KeptDescends ==
    ASSUME Typed, [Next]_vars, \A z \in Zones : ~RegisterZone(z)
    PROVE  /\ \A st \in Kept' : \E k \in Kept : Descends(st, k)
           /\ zones' = {} \/ LoadState
              \/ (Descends(Memory', Memory) /\ UNCHANGED nextIndex)
           /\ UNCHANGED nextIndex \/ nextIndex' = 0 \/ LoadState
<1>0. \A k \in Kept : Descends(k, k) BY DEF Descends
<1>1. ASSUME UNCHANGED <<saving, diskState, nextIndex>>, Descends(Memory', Memory)
      PROVE  /\ \A st \in Kept' : \E k \in Kept : Descends(st, k)
             /\ Descends(Memory', Memory) /\ UNCHANGED nextIndex
  <2>1. Memory \in Kept BY DEF Kept
  <2>2. \A st \in Kept' : st = Memory' \/ st \in Kept BY <1>1 DEF Kept
  <2> QED BY <1>0, <1>1, <2>1, <2>2
<1>2. ASSUME UNCHANGED <<zones, index>> PROVE Descends(Memory', Memory)
  BY <1>2 DEF Descends, Memory
<1>3. CASE UNCHANGED vars BY <1>1, <1>2, <1>3 DEF vars, saves, disk
<1>4. CASE (\E z \in Zones : StoreCert(z)) \/ FailPairing
  BY <1>1, <1>2, <1>4 DEF StoreCert, FailPairing, saves
<1>5. ASSUME NEW z \in Zones, RemoveZone(z)
      PROVE  UNCHANGED <<saving, diskState, nextIndex>> /\ Descends(Memory', Memory)
  <2>1. /\ zones' = zones \ {z} /\ index' = [index EXCEPT ![z] = NoIndex]
        /\ UNCHANGED <<saving, diskState, nextIndex>>
    BY <1>5 DEF RemoveZone, Request, disk
  <2>2. zones \subseteq Zones /\ index \in [Zones -> Indexes \cup {NoIndex}] BY DEF Typed, TypeOK
  <2> QED BY <2>1, <2>2 DEF Descends, Memory
<1>6. CASE Running BY <1>1, <1>2, <1>6, RunningTyped DEF saves, disk
<1>7. ASSUME NEW why \in Reasons, SaveState(why)
      PROVE  /\ \A st \in Kept' : \E k \in Kept : Descends(st, k)
             /\ Descends(Memory', Memory) /\ UNCHANGED nextIndex
  <2>1. /\ UNCHANGED <<diskState, zones, index, timer, nextIndex>>
        /\ saving' = saving \cup {[why |-> why, state |-> Memory]}
    BY <1>7, SaveTyped DEF disk, failsafe
  <2>2. Memory' = Memory BY <2>1 DEF Memory
  <2>3. \A s \in saving' : s \in saving \/ s.state = Memory BY <2>1
  <2>4. \A st \in Kept' : st \in Kept BY <2>1, <2>2, <2>3 DEF Kept
  <2> QED BY <1>0, <1>2, <2>1, <2>4
<1>8. ASSUME NEW s \in saving, WriteState(s)
      PROVE  /\ \A st \in Kept' : \E k \in Kept : Descends(st, k)
             /\ Descends(Memory', Memory) /\ UNCHANGED nextIndex
  <2>1. /\ UNCHANGED <<zones, index, nextIndex>>
        /\ saving' = saving \ {s} /\ diskState' = s.state
    BY <1>8, WriteTyped
  <2>2. Memory \in Kept BY DEF Kept
  <2>3. \A st \in Kept' : st = Memory' \/ st \in Kept BY <2>1 DEF Kept
  <2> QED BY <1>0, <1>2, <2>1, <2>2, <2>3
<1>9. CASE Shutdown BY <1>1, <1>2, <1>9, ShutdownTyped DEF disk
<1>10. CASE Exit \/ Crash
  <2>1. /\ zones' = {} /\ saving' = {} /\ nextIndex' = 0 /\ diskState' \in {diskState, Torn}
    BY <1>10, ForgetTyped
  <2>2. Memory \in Kept BY DEF Kept
  <2>3. Descends(Memory', Memory) BY <2>1 DEF Descends, Memory
  <2>4. \A st \in Kept' : st = Memory' \/ st \in Kept BY <2>1 DEF Kept
  <2> QED BY <1>0, <2>1, <2>2, <2>3, <2>4
<1>11. CASE LoadState
  <2>1. UNCHANGED <<saving, diskState>> /\ Restored BY <1>11, LoadTyped DEF saves, disk
  <2>2. \E k \in Kept : Descends(Memory', k)
    <3>1. CASE UNCHANGED <<zones, index>> BY <1>2, <3>1 DEF Kept
    <3>2. CASE diskState \in Kept /\ zones' = diskState.zones /\ index' = diskState.index
      BY <3>2 DEF Descends, Memory
    <3> QED BY <2>1, <3>1, <3>2 DEF Restored
  <2>3. \A st \in Kept' : st = Memory' \/ st \in Kept BY <2>1 DEF Kept
  <2> QED BY <1>0, <1>11, <2>2, <2>3
<1> QED
  <2>1. ASSUME NEW z \in Zones, RemoveZone(z)
        PROVE  /\ \A st \in Kept' : \E k \in Kept : Descends(st, k)
               /\ Descends(Memory', Memory) /\ UNCHANGED nextIndex
    BY <1>1, <1>5, <2>1
  <2> QED BY <1>3, <1>4, <1>6, <1>7, <1>8, <1>9, <1>10, <1>11, <2>1, StepCases

\* The indexes of a state differ, and the counter that gave them has not wrapped.
Numbered(st) ==
    \A y, z \in st.zones :
        /\ st.index[y] < Cardinality(Registered)
        /\ y # z => st.index[y] # st.index[z]

IndexInv ==
    /\ nextIndex <= Cardinality(Registered)
    /\ \A st \in Kept : Numbered(st)
    /\ Registered # Zones => \A z \in zones : index[z] < nextIndex

\* Registered zones are counted.
LEMMA RegisteredCount ==
    ASSUME FewZones, Typed, Typed', Registered \subseteq Registered'
    PROVE  /\ IsFiniteSet(Registered) /\ Cardinality(Registered) \in Nat
           /\ IsFiniteSet(Registered') /\ Cardinality(Registered') \in Nat
           /\ Cardinality(Registered) <= Cardinality(Registered')
           /\ Cardinality(Registered') <= Cardinality(Zones)
           /\ Cardinality(Zones) \in Nat
           /\ Cardinality(Registered') = Cardinality(Zones) => Registered' = Zones
           /\ Cardinality(Registered) = Cardinality(Zones) => Registered = Zones
<1>1. IsFiniteSet(Zones) /\ Registered \subseteq Zones /\ Registered' \subseteq Zones
  BY DEF FewZones, Registered
<1>2. IsFiniteSet(Registered) /\ IsFiniteSet(Registered') BY <1>1, FS_Subset
<1>3. /\ Cardinality(Registered) \in Nat /\ Cardinality(Registered') \in Nat
      /\ Cardinality(Zones) \in Nat
  BY <1>1, <1>2, FS_CardinalityType
<1>4. Cardinality(Registered) <= Cardinality(Registered') BY <1>2, FS_Subset
<1>5. Cardinality(Registered') <= Cardinality(Zones) BY <1>1, FS_Subset
<1>6. Cardinality(Registered') = Cardinality(Zones) => Registered' = Zones BY <1>1, FS_Subset
<1>7. Cardinality(Registered) = Cardinality(Zones) => Registered = Zones BY <1>1, FS_Subset
<1> QED BY <1>2, <1>3, <1>4, <1>5, <1>6, <1>7

\* What descends from a numbered state is numbered, when zones were registered since, too.
LEMMA NumberedDescends ==
    ASSUME FewZones, Typed, Typed', Registered \subseteq Registered',
           NEW st, NEW k \in Kept, Numbered(k), Descends(st, k)
    PROVE  Numbered(st)'
<1>1. /\ Cardinality(Registered) \in Nat /\ Cardinality(Registered') \in Nat
      /\ Cardinality(Registered) <= Cardinality(Registered')
  BY RegisteredCount
<1>2. \A y \in k.zones : k.index[y] \in Nat BY DEF Typed, KeptWellFormed, WellFormed, Indexes
<1>3. ASSUME NEW y \in st.zones, NEW z \in st.zones
      PROVE  /\ st.index[y] < Cardinality(Registered')
             /\ y # z => st.index[y] # st.index[z]
  <2>1. /\ y \in k.zones /\ z \in k.zones
        /\ st.index[y] = k.index[y] /\ st.index[z] = k.index[z]
    BY <1>3 DEF Descends
  <2> QED BY <1>1, <1>2, <2>1 DEF Numbered
<1> QED BY <1>3 DEF Numbered

\* The next index after a restart is above the saved ones, unless the last is among them.
LEMMA RestoredNextAbove ==
    ASSUME NEW S \in SUBSET Indexes, NEW n \in RestoredNext(S)
    PROVE  /\ n = 0 \/ n - 1 \in S
           /\ IndexCount - 1 \notin S => \A i \in S : i < n
<1>1. CASE S = {} BY <1>1 DEF RestoredNext
<1>2. CASE S # {} /\ IndexCount - 1 \in S
  <2>1. RestoredNext(S) = {0} \cup {i + 1 : i \in S \ {IndexCount - 1}} BY <1>2 DEF RestoredNext
  <2> QED BY <1>2, <2>1 DEF Indexes
<1>3. CASE S # {} /\ IndexCount - 1 \notin S
  <2>1. PICK i \in S : n = i + 1 /\ \A k \in S : k <= i BY <1>3 DEF RestoredNext
  <2> QED BY <2>1 DEF Indexes
<1> QED BY <1>1, <1>2, <1>3

LEMMA InitIndex == ASSUME FewZones PROVE Init => IndexInv
<1> SUFFICES ASSUME Init PROVE IndexInv
  OBVIOUS
<1>1. Registered = {} BY DEF Init, Registered
<1>2. Cardinality(Registered) = 0 BY <1>1, FS_EmptySet
<1>3. \A st \in Kept : st.zones = {} BY DEF Init, Kept, Memory
<1> QED BY <1>2, <1>3 DEF Init, IndexInv, Numbered

\* RegisterZone: the next index is above those in use, or all zones have been registered.
LEMMA RegisterIndex ==
    ASSUME FewZones, Typed, Typed', IndexInv, NEW z \in Zones, RegisterZone(z)
    PROVE  IndexInv'
<1> DEFINE n == Cardinality(Registered)
<1>1. Registered' = Registered \cup {z} /\ z \notin Registered \cup zones BY RegisterTyped
<1>2. /\ IsFiniteSet(Registered) /\ n \in Nat /\ n <= Cardinality(Registered')
      /\ Cardinality(Registered') <= Cardinality(Zones) /\ Cardinality(Zones) \in Nat
      /\ Cardinality(Registered') = Cardinality(Zones) => Registered' = Zones
  BY <1>1, RegisteredCount
<1>3. Cardinality(Registered') = n + 1 BY <1>1, <1>2, FS_AddElement
<1>4. Registered # Zones BY <1>1
<1>5. \A y \in zones : index[y] < nextIndex BY <1>4 DEF IndexInv
<1>6. /\ zones' = zones \cup {z} /\ index' = [index EXCEPT ![z] = nextIndex]
      /\ nextIndex' = (nextIndex + 1) % IndexCount
      /\ UNCHANGED <<saving, diskState>>
  BY DEF RegisterZone, Request, disk
<1>7. /\ zones \subseteq Zones /\ index \in [Zones -> Indexes \cup {NoIndex}]
      /\ nextIndex \in 0..IndexCount - 1
      /\ \A y \in zones : index[y] \in Indexes
  <2>1. WellFormed(Memory) BY DEF Typed, KeptWellFormed, Kept
  <2> QED BY <2>1 DEF Typed, TypeOK, Indexes, WellFormed, Memory
<1>8. nextIndex <= n BY DEF IndexInv
<1>9. nextIndex' = nextIndex + 1 \/ (nextIndex' = 0 /\ nextIndex = IndexCount - 1)
  BY <1>6, <1>7
<1>10. nextIndex' <= Cardinality(Registered') BY <1>2, <1>3, <1>7, <1>8, <1>9
<1>11. Registered' # Zones => nextIndex' = nextIndex + 1
  <2>1. Cardinality(Zones) <= IndexCount BY DEF FewZones
  <2> QED BY <1>2, <1>3, <1>7, <1>8, <1>9, <2>1
<1>12. \A y \in zones' : index'[y] = IF y = z THEN nextIndex ELSE index[y]
  BY <1>6, <1>7
<1>13. Registered' # Zones => \A y \in zones' : index'[y] < nextIndex'
  BY <1>5, <1>6, <1>7, <1>11, <1>12 DEF Indexes
<1>14. Numbered(Memory)'
  <2>1. Numbered(Memory) BY DEF IndexInv, Kept
  <2>2. ASSUME NEW x \in zones', NEW y \in zones'
        PROVE  /\ index'[x] < Cardinality(Registered')
               /\ x # y => index'[x] # index'[y]
    <3>1. x # z => x \in zones /\ index[x] < n BY <1>6, <2>1, <2>2 DEF Numbered, Memory
    <3>2. y # z => y \in zones /\ index[y] < n BY <1>6, <2>1, <2>2 DEF Numbered, Memory
    <3>3. x # z /\ y # z /\ x # y => index[x] # index[y]
      BY <2>1, <3>1, <3>2 DEF Numbered, Memory
    <3>4. index'[x] < Cardinality(Registered')
      BY <1>2, <1>3, <1>7, <1>8, <1>12, <2>2, <3>1 DEF Indexes
    <3>5. x # y => index'[x] # index'[y]
      BY <1>5, <1>7, <1>12, <2>2, <3>1, <3>2, <3>3 DEF Indexes
    <3> QED BY <3>4, <3>5
  <2> QED BY <2>2 DEF Numbered, Memory
<1>15. ASSUME NEW st \in Kept PROVE Numbered(st)'
  <2>1. Descends(st, st) BY DEF Descends
  <2>2. Numbered(st) BY <1>15 DEF IndexInv
  <2> QED BY <1>1, <1>15, <2>1, <2>2, NumberedDescends
<1>16. \A st \in Kept' : st = Memory' \/ st \in Kept BY <1>6 DEF Kept
<1>17. \A st \in Kept' : Numbered(st)' BY <1>14, <1>15, <1>16
<1> QED BY <1>10, <1>13, <1>17 DEF IndexInv

\* LoadState: the saved indexes differ, and the next one is found again.
LEMMA LoadIndex ==
    ASSUME FewZones, Typed, Typed', IndexInv, LoadState
    PROVE  /\ nextIndex' <= Cardinality(Registered')
           /\ Registered' # Zones => \A z \in zones' : index'[z] < nextIndex'
<1>1. Restored /\ UNCHANGED Registered BY LoadTyped
<1>2. CASE UNCHANGED <<zones, index, nextIndex>> BY <1>1, <1>2 DEF IndexInv
<1>3. CASE /\ diskState \in Kept /\ zones' = diskState.zones /\ index' = diskState.index
           /\ nextIndex' \in RestoredNext({diskState.index[z] : z \in diskState.zones})
  <2> DEFINE S == {diskState.index[z] : z \in diskState.zones}
  <2>1. S \in SUBSET Indexes BY <1>3 DEF Typed, KeptWellFormed, WellFormed
  <2>2. /\ nextIndex' = 0 \/ nextIndex' - 1 \in S
        /\ IndexCount - 1 \notin S => \A i \in S : i < nextIndex'
    BY <1>3, <2>1, RestoredNextAbove
  <2>3. \A i \in S : i < Cardinality(Registered) BY <1>3 DEF IndexInv, Numbered
  <2>4. /\ Cardinality(Registered) \in Nat /\ Cardinality(Registered) <= Cardinality(Zones)
        /\ Cardinality(Zones) \in Nat
        /\ Cardinality(Registered) = Cardinality(Zones) => Registered = Zones
    BY <1>1, RegisteredCount
  <2>5. nextIndex' \in Nat BY DEF Typed, TypeOK, Indexes
  <2>6. nextIndex' <= Cardinality(Registered) BY <2>1, <2>2, <2>3, <2>4, <2>5 DEF Indexes
  <2>7. IndexCount - 1 \in S => Registered = Zones
    <3>1. Cardinality(Zones) <= IndexCount BY DEF FewZones
    <3>2. ASSUME IndexCount - 1 \in S PROVE IndexCount - 1 < Cardinality(Registered)
      BY <2>3, <3>2
    <3> QED BY <2>4, <3>1, <3>2
  <2>8. Registered # Zones => \A z \in zones' : index'[z] < nextIndex'
    BY <1>3, <2>2, <2>7
  <2> QED BY <1>1, <2>6, <2>8
<1> QED BY <1>1, <1>2, <1>3 DEF Restored

LEMMA NextIndex == ASSUME FewZones PROVE Typed /\ IndexInv /\ [Next]_vars => IndexInv'
<1> SUFFICES ASSUME Typed, IndexInv, [Next]_vars PROVE IndexInv'
  OBVIOUS
<1>1. Typed' /\ Registered \subseteq Registered' BY NextTyped
<1>2. ASSUME NEW z \in Zones, RegisterZone(z) PROVE IndexInv' BY <1>1, <1>2, RegisterIndex
<1>3. CASE \A z \in Zones : ~RegisterZone(z)
  <2>1. /\ \A st \in Kept' : \E k \in Kept : Descends(st, k)
        /\ zones' = {} \/ LoadState \/ (Descends(Memory', Memory) /\ UNCHANGED nextIndex)
        /\ UNCHANGED nextIndex \/ nextIndex' = 0 \/ LoadState
    BY <1>3, KeptDescends
  <2>2. ASSUME NEW st \in Kept' PROVE Numbered(st)'
    <3>1. PICK k \in Kept : Descends(st, k) BY <2>1
    <3>2. Numbered(k) BY DEF IndexInv
    <3> QED BY <1>1, <3>1, <3>2, NumberedDescends
  <2>3. nextIndex' <= Cardinality(Registered')
    <3>1. /\ Cardinality(Registered) \in Nat /\ Cardinality(Registered') \in Nat
          /\ Cardinality(Registered) <= Cardinality(Registered')
      BY <1>1, RegisteredCount
    <3>2. nextIndex \in Nat BY DEF Typed, TypeOK, Indexes
    <3>3. CASE LoadState BY <1>1, <3>3, LoadIndex
    <3>4. CASE UNCHANGED nextIndex \/ nextIndex' = 0 BY <3>1, <3>2, <3>4 DEF IndexInv
    <3> QED BY <2>1, <3>3, <3>4
  <2>4. Registered' # Zones => \A z \in zones' : index'[z] < nextIndex'
    <3>1. CASE LoadState BY <1>1, <3>1, LoadIndex
    <3>2. CASE zones' = {} BY <3>2
    <3>3. CASE Descends(Memory', Memory) /\ UNCHANGED nextIndex
      <4>1. Registered' # Zones => Registered # Zones BY <1>1 DEF Registered
      <4>2. zones' \subseteq zones /\ \A z \in zones' : index'[z] = index[z]
        BY <3>3 DEF Descends, Memory
      <4> QED BY <3>3, <4>1, <4>2 DEF IndexInv
    <3> QED BY <2>1, <3>1, <3>2, <3>3
  <2> QED BY <2>2, <2>3, <2>4 DEF IndexInv
<1> QED BY <1>2, <1>3

\* No two zones share an index, whatever was removed, saved, lost and restored, as long as
\* the device is not commissioned more often than a uint8 counts (handleZoneConnectInternal,
\* RemoveZone, LoadState).
THEOREM DistinctIndexes == ASSUME FewZones PROVE Spec => []IndexesDistinct
<1>1. Init => IndexInv BY InitIndex
<1>2. Typed /\ IndexInv /\ [Next]_vars => IndexInv' BY NextIndex
<1>3. IndexInv => IndexesDistinct
  <2>1. IndexInv => Numbered(Memory) BY DEF IndexInv, Kept
  <2> QED BY <2>1 DEF IndexesDistinct, Memory, Numbered
<1> QED BY AlwaysTyped, <1>1, <1>2, <1>3, PTL DEF Spec

-----------------------------------------------------------------------------
(* The state file. *)

\* What a state says of the zones is what the memory says.
Current(st) == st.zones = zones /\ st.index = index

\* Until two calls of SaveState are outstanding at once, there is one.
OneSave ==
    /\ mode = "down" => Saved
    /\ ~overlap => /\ todo = {} \/ saving = {}
                   /\ \A v, w \in todo : v = w
                   /\ \A s, t \in saving : s = t

\* Then what it has read is current, and so is the file once it is written.
DiskInv ==
    ~overlap =>
        /\ \A s \in saving : Current(s.state)
        /\ mode # "down" /\ Saved /\ diskState \notin {NoState, Torn} => Current(diskState)

\* A call of Request without overlap is the only one.
LEMMA RequestAlone ==
    ASSUME OneSave, mode # "down", UNCHANGED mode, NEW why, Request(why)
    PROVE  /\ OneSave' /\ (~overlap' => ~overlap /\ Saved /\ saving' = {} /\ todo' = {why})
           /\ saving' = saving /\ ~Saved'
<1>1. /\ todo' = todo \cup {why} /\ saving' = saving
      /\ overlap' = (overlap \/ todo \cup saving # {})
  BY DEF Request
<1>2. ~overlap' => ~overlap /\ todo = {} /\ saving = {} BY <1>1
<1>3. OneSave' BY <1>1, <1>2 DEF OneSave
<1> QED BY <1>1, <1>2, <1>3 DEF Saved

LEMMA NextOneSave == Typed /\ OneSave /\ [Next]_vars => OneSave'
<1> SUFFICES ASSUME Typed, OneSave, [Next]_vars PROVE OneSave'
  OBVIOUS
<1>1. ASSUME UNCHANGED <<mode, todo, saving, overlap>> PROVE OneSave'
  BY <1>1 DEF OneSave, Saved
<1>2. CASE UNCHANGED vars BY <1>1, <1>2 DEF vars, saves
<1>3. CASE (\E z \in Zones : StoreCert(z)) \/ FailPairing
  BY <1>1, <1>3 DEF StoreCert, FailPairing, saves
<1>4. ASSUME NEW z \in Zones, RegisterZone(z) PROVE OneSave'
  BY <1>4, RequestAlone DEF RegisterZone
<1>5. ASSUME NEW z \in Zones, RemoveZone(z) PROVE OneSave'
  BY <1>5, RequestAlone DEF RemoveZone
<1>6. CASE Running BY <1>1, <1>6, RunningTyped DEF saves
<1>7. ASSUME NEW why \in Reasons, SaveState(why) PROVE OneSave'
  <2>1. /\ mode # "down" /\ UNCHANGED <<mode, overlap>> /\ why \in todo /\ todo' = todo \ {why}
        /\ saving' = saving \cup {[why |-> why, state |-> Memory]}
    BY <1>7, SaveTyped DEF SaveState
  <2>2. ~overlap => todo' = {} /\ saving = {} BY <2>1 DEF OneSave
  <2> QED BY <2>1, <2>2 DEF OneSave
<1>8. ASSUME NEW s \in saving, WriteState(s) PROVE OneSave'
  <2>1. /\ mode' # "down" /\ UNCHANGED <<todo, overlap>> /\ saving' = saving \ {s}
    BY <1>8, WriteTyped DEF WriteState
  <2> QED BY <2>1 DEF OneSave
<1>9. CASE Shutdown BY <1>9, RequestAlone DEF Shutdown
<1>10. CASE Exit \/ Crash BY <1>10, ForgetTyped DEF OneSave, Saved
<1>11. CASE LoadState
  <2>1. mode = "down" /\ UNCHANGED <<todo, saving, overlap>> BY <1>11, LoadTyped DEF LoadState, saves
  <2>2. mode' # "down" BY <1>11, LoadTyped DEF Restored
  <2> QED BY <2>1, <2>2 DEF OneSave
<1> QED BY <1>2, <1>3, <1>4, <1>5, <1>6, <1>7, <1>8, <1>9, <1>10, <1>11, StepCases

LEMMA NextDisk == Typed /\ OneSave /\ DiskInv /\ [Next]_vars => DiskInv'
<1> SUFFICES ASSUME Typed, OneSave, DiskInv, [Next]_vars, ~overlap'
             PROVE  /\ \A s \in saving' : Current(s.state)'
                    /\ mode' # "down" /\ Saved' /\ diskState' \notin {NoState, Torn}
                        => Current(diskState)'
  BY DEF DiskInv
<1> DEFINE Goal == /\ \A s \in saving' : Current(s.state)'
                   /\ mode' # "down" /\ Saved' /\ diskState' \notin {NoState, Torn}
                       => Current(diskState)'
<1>1. ASSUME UNCHANGED <<mode, todo, saving, overlap, zones, index, diskState>> PROVE Goal
  BY <1>1 DEF DiskInv, Saved, Current
<1>2. CASE UNCHANGED vars BY <1>1, <1>2 DEF vars, saves, disk
<1>3. CASE (\E z \in Zones : StoreCert(z)) \/ FailPairing
  BY <1>1, <1>3 DEF StoreCert, FailPairing, saves
<1>4. ASSUME NEW z \in Zones, RegisterZone(z) PROVE Goal
  BY <1>4, RequestAlone DEF RegisterZone
<1>5. ASSUME NEW z \in Zones, RemoveZone(z) PROVE Goal
  BY <1>5, RequestAlone DEF RemoveZone
<1>6. CASE Running BY <1>1, <1>6, RunningTyped DEF saves, disk
<1>7. ASSUME NEW why \in Reasons, SaveState(why) PROVE Goal
  <2>1. /\ UNCHANGED <<overlap, zones, index>>
        /\ saving' = saving \cup {[why |-> why, state |-> Memory]}
    BY <1>7, SaveTyped
  <2>2. ~Saved' BY <2>1 DEF Saved
  <2>3. \A s \in saving' : s \in saving \/ s.state = Memory BY <2>1
  <2>4. \A s \in saving : Current(s.state)' BY <2>1 DEF DiskInv, Current
  <2>5. Memory.zones = zones' /\ Memory.index = index' BY <2>1 DEF Memory
  <2> QED BY <2>2, <2>3, <2>4, <2>5 DEF Current
<1>8. ASSUME NEW s \in saving, WriteState(s) PROVE Goal
  <2>1. /\ UNCHANGED <<overlap, zones, index>> /\ saving' = saving \ {s} /\ diskState' = s.state
    BY <1>8, WriteTyped
  <2>2. \A t \in saving : Current(t.state)' BY <2>1 DEF DiskInv, Current
  <2> QED BY <2>1, <2>2
<1>9. CASE Shutdown BY <1>9, RequestAlone DEF Shutdown
<1>10. CASE Exit \/ Crash BY <1>10, ForgetTyped
<1>11. CASE LoadState
  <2>1. mode = "down" /\ UNCHANGED <<saving, diskState>> /\ Restored
    BY <1>11, LoadTyped DEF LoadState, saves, disk
  <2>2. saving = {} BY <2>1 DEF OneSave, Saved
  <2> QED BY <2>1, <2>2 DEF Restored, Current, Kept
<1> QED BY <1>2, <1>3, <1>4, <1>5, <1>6, <1>7, <1>8, <1>9, <1>10, <1>11, StepCases

\* A running device whose calls of SaveState are done has its zones and their indexes in the
\* state file, if no two of the calls overlapped (RegisterZoneAwaitingConnection,
\* finishRemoveZoneCleanup, SaveState).
THEOREM DiskFollowsMemory == Spec => []DiskCurrentUnlessOverlap
<1>1. Init => OneSave /\ DiskInv BY DEF Init, OneSave, DiskInv
<1>2. Typed /\ OneSave /\ [Next]_vars => OneSave' BY NextOneSave
<1>3. Typed /\ OneSave /\ DiskInv /\ [Next]_vars => DiskInv' BY NextDisk
<1>4. DiskInv => DiskCurrentUnlessOverlap BY DEF DiskInv, DiskCurrentUnlessOverlap, Current
<1> QED BY AlwaysTyped, <1>1, <1>2, <1>3, <1>4, PTL DEF Spec

-----------------------------------------------------------------------------
(* Failsafe timers. *)

\* The timers of a state's zones are not idle.
Lives(st) == \A z \in st.zones : st.timer[z] \in {"Running", "Due", "Failsafe"}

\* A timer that counts down, has triggered, or has a goroutine that triggers it.
Backed(z) == timer[z] \in {"Running", "Failsafe"} \/ (timer[z] = "Due" /\ z \in fired)

\* Without overlap, the timers of every state that may come back live; those that Stop
\* has reset are not saved, because its save was the last.
BackedInv ==
    ~overlap =>
        /\ mode = "running" => \A z \in zones : Backed(z)
        /\ mode = "stopping" => Saved
        /\ \A s \in saving : Lives(s.state)
        /\ diskState \notin {NoState, Torn} => Lives(diskState)

\* No step of a running device leaves one of its timers idle.
LEMMA RunningBacked ==
    ASSUME Typed, Running, \A z \in zones : Backed(z)
    PROVE  \A z \in zones' : Backed(z)'
<1>1. zones' = zones /\ zones \subseteq Zones /\ timer \in [Zones -> TimerStates]
  BY RunningTyped DEF Typed, TypeOK
<1>2. ASSUME NEW y \in Zones, ZoneRuns(y), NEW z \in zones PROVE Backed(z)'
  <2>0. Backed(z) /\ z \in Zones BY <1>1, <1>2
  <2>1. CASE Connect(y) \/ RefreshFailsafe(y)
    BY <1>1, <2>0, <2>1 DEF Connect, RefreshFailsafe, Backed
  <2>2. CASE Disconnect(y) \/ SetDurationTimer(y)
    BY <2>0, <2>2 DEF Disconnect, SetDurationTimer, failsafe, Backed
  <2>3. CASE Expire(y) BY <1>1, <2>0, <2>3 DEF Expire, Backed
  <2>4. CASE EnterFailsafe(y) BY <1>1, <2>0, <2>4 DEF EnterFailsafe, Backed
  <2>5. CASE HandleFailsafe(y) \/ \E i \in Indexes : CancelDurations(y, i)
    BY <2>0, <2>5 DEF HandleFailsafe, CancelDurations, Backed
  <2> QED BY <1>2, <2>1, <2>2, <2>3, <2>4, <2>5 DEF ZoneRuns
<1>3. ASSUME NEW i \in Indexes, EndDurationTimer(i), NEW z \in zones PROVE Backed(z)'
  BY <1>3 DEF EndDurationTimer, failsafe, Backed
<1> QED BY <1>1, <1>2, <1>3 DEF Running

LEMMA NextBacked == Typed /\ OneSave /\ BackedInv /\ [Next]_vars => BackedInv'
<1> SUFFICES ASSUME Typed, OneSave, BackedInv, [Next]_vars, ~overlap'
             PROVE  /\ mode' = "running" => \A z \in zones' : Backed(z)'
                    /\ mode' = "stopping" => Saved'
                    /\ \A s \in saving' : Lives(s.state)
                    /\ diskState' \notin {NoState, Torn} => Lives(diskState')
  BY DEF BackedInv, Lives
<1> DEFINE Goal == /\ mode' = "running" => \A z \in zones' : Backed(z)'
                   /\ mode' = "stopping" => Saved'
                   /\ \A s \in saving' : Lives(s.state)
                   /\ diskState' \notin {NoState, Torn} => Lives(diskState')
<1>0. zones \subseteq Zones /\ timer \in [Zones -> TimerStates] BY DEF Typed, TypeOK
<1>1. ASSUME UNCHANGED <<mode, todo, saving, overlap, zones, timer, fired, diskState>> PROVE Goal
  BY <1>1 DEF BackedInv, Saved, Backed
<1>2. CASE UNCHANGED vars BY <1>1, <1>2 DEF vars, saves, disk, failsafe
<1>3. CASE (\E z \in Zones : StoreCert(z)) \/ FailPairing
  BY <1>1, <1>3 DEF StoreCert, FailPairing, saves, failsafe
<1>4. ASSUME NEW z \in Zones, RegisterZone(z) PROVE Goal
  <2>1. /\ mode = "running" /\ mode' = mode /\ zones' = zones \cup {z} /\ fired' = fired
        /\ timer' = [timer EXCEPT ![z] = "Running"] /\ Request(<<z, "added">>)
        /\ diskState' = diskState
    BY <1>4 DEF RegisterZone, disk
  <2>2. ~overlap /\ saving' = {} BY <2>1, RequestAlone
  <2>3. \A y \in zones' : Backed(y)' BY <1>0, <2>1, <2>2 DEF BackedInv, Backed
  <2> QED BY <2>1, <2>2, <2>3 DEF BackedInv
<1>5. ASSUME NEW z \in Zones, RemoveZone(z) PROVE Goal
  <2>1. /\ mode = "running" /\ mode' = mode /\ zones' = zones \ {z} /\ fired' = fired
        /\ timer' = [timer EXCEPT ![z] = "none"] /\ Request(<<z, "removed">>)
        /\ diskState' = diskState
    BY <1>5 DEF RemoveZone, disk
  <2>2. ~overlap /\ saving' = {} BY <2>1, RequestAlone
  <2>3. \A y \in zones' : Backed(y)' BY <1>0, <2>1, <2>2 DEF BackedInv, Backed
  <2> QED BY <2>1, <2>2, <2>3 DEF BackedInv
<1>6. CASE Running
  <2>1. UNCHANGED <<mode, todo, saving, overlap, diskState>>
    BY <1>6, RunningTyped DEF saves, disk
  <2>2. (\A z \in zones : Backed(z)) => \A z \in zones' : Backed(z)' BY <1>6, RunningBacked
  <2> QED BY <2>1, <2>2 DEF BackedInv, Saved
<1>7. ASSUME NEW why \in Reasons, SaveState(why) PROVE Goal
  <2>1. /\ mode \in {"running", "stopping"} /\ UNCHANGED <<mode, overlap, zones, diskState, timer, fired>>
        /\ saving' = saving \cup {[why |-> why, state |-> Memory]} /\ why \in todo
    BY <1>7, SaveTyped DEF SaveState, disk, failsafe
  <2>2. mode = "running" BY <2>1 DEF BackedInv, Saved
  <2>3. \A z \in zones : Backed(z) BY <2>1, <2>2 DEF BackedInv
  <2>4. Lives(Memory) BY <2>3 DEF Lives, Memory, Backed
  <2>5. \A s \in saving' : s \in saving \/ s.state = Memory BY <2>1
  <2>6. \A s \in saving' : Lives(s.state) BY <2>1, <2>4, <2>5 DEF BackedInv
  <2>7. \A z \in zones' : Backed(z)' BY <2>1, <2>3 DEF Backed
  <2> QED BY <2>1, <2>2, <2>6, <2>7 DEF BackedInv
<1>8. ASSUME NEW s \in saving, WriteState(s) PROVE Goal
  <2>1. /\ UNCHANGED <<overlap, zones, todo>> /\ saving' = saving \ {s} /\ diskState' = s.state
    BY <1>8, WriteTyped
  <2>2. todo' = {} /\ saving' = {} BY <2>1 DEF OneSave
  <2>3. Lives(diskState') BY <2>1 DEF BackedInv
  <2>4. mode' = "running" => UNCHANGED <<mode, timer, fired>> BY <1>8 DEF WriteState
  <2>5. mode' = "running" => \A z \in zones' : Backed(z)' BY <2>1, <2>4 DEF BackedInv, Backed
  <2> QED BY <2>2, <2>3, <2>5 DEF Saved
<1>9. CASE Shutdown
  <2>1. /\ mode = "running" /\ mode' = mode /\ Request(<<NoZone, "shutdown">>)
        /\ UNCHANGED <<zones, timer, fired, diskState, saving>>
    BY <1>9, ShutdownTyped DEF Shutdown, failsafe, disk
  <2>2. ~overlap BY <2>1, RequestAlone
  <2> QED BY <2>1, <2>2 DEF BackedInv, Backed
<1>10. CASE Exit \/ Crash BY <1>10, ForgetTyped DEF BackedInv
<1>11. CASE LoadState
  <2>1. /\ mode = "down" /\ UNCHANGED <<todo, saving, overlap, diskState>> /\ Restored
    BY <1>11, LoadTyped DEF LoadState, saves, disk
  <2>2. mode' = "running" => \A z \in zones' : Backed(z)'
    <3>1. CASE UNCHANGED zones /\ diskState \in {NoState, Torn} BY <2>1, <3>1 DEF Typed
    <3>2. CASE /\ diskState \in Kept \ {NoState, Torn} /\ zones' = diskState.zones
               /\ timer' = [z \in Zones |-> IF diskState.timer[z] = "Normal" THEN "none"
                                            ELSE diskState.timer[z]]
               /\ mode' = IF \E z \in Zones : diskState.timer[z] = "Due" THEN "blocked"
                          ELSE "running"
      <4>1. zones' \subseteq Zones BY <3>2 DEF Typed, KeptWellFormed, WellFormed, DeviceStates
      <4>2. Lives(diskState) BY <2>1, <3>2 DEF BackedInv
      <4> QED BY <3>2, <4>1, <4>2 DEF Lives, Backed
    <3> QED BY <2>1, <3>1, <3>2 DEF Restored
  <2>3. mode' # "stopping" BY <2>1 DEF Restored
  <2> QED BY <2>1, <2>2, <2>3 DEF BackedInv
<1> QED BY <1>2, <1>3, <1>4, <1>5, <1>6, <1>7, <1>8, <1>9, <1>10, <1>11, StepCases

\* Every zone of a running device has a failsafe timer that counts down, triggers or has
\* triggered, also after a restart, if no two calls of SaveState overlapped
\* (handleZoneConnectInternal, handleOperationalConnection, Stop, SaveState, LoadState).
THEOREM FailsafeIsBacked == Spec => []FailsafeBacked
<1>1. Init => OneSave /\ BackedInv BY DEF Init, OneSave, BackedInv
<1>2. Typed /\ OneSave /\ [Next]_vars => OneSave' BY NextOneSave
<1>3. Typed /\ OneSave /\ BackedInv /\ [Next]_vars => BackedInv' BY NextBacked
<1>4. BackedInv => FailsafeBacked BY DEF BackedInv, FailsafeBacked, Backed
<1> QED BY AlwaysTyped, <1>1, <1>2, <1>3, <1>4, PTL DEF Spec
=============================================================================
