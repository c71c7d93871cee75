# MASH: a TLA+ development

TLA+ models of `mash-go`, the Go implementation of the MASH protocol, with the
TLC configurations that check them and TLAPS proofs of their central
properties. Paths are relative to `src/mash-go` (`docs/` is `src/docs`); a path
without a directory is in `pkg/service/`.

1. [The system](#1-the-system)
2. [The models](#2-the-models)
3. [What the runs check](#3-what-the-runs-check)
4. [Fairness](#4-fairness)
5. [What is proved](#5-what-is-proved)
6. [Where the code differs from its documents](#6-where-the-code-differs-from-its-documents)
7. [What is not modelled](#7-what-is-not-modelled)
8. [Plan](#8-plan)
9. [Running it](#9-running-it)

## 1. The system

A *device* (a wall box, an inverter) is controlled by up to a few *zones*, each
the domain of one *controller* (a grid operator, a home energy manager) with a
certificate authority of its own. A controller finds the device by mDNS, pairs
with it over PASE while the device's commissioning window is open, gives it an
operational certificate and reconnects with mutual TLS. Over that connection
both sides read, write, subscribe to and invoke features. Zones set power
limits, the device resolves them to one effective limit, and it falls back to a
failsafe limit when a controller has been away for too long.

The device is one Go process with many goroutines: one per connection, one per
expired `time.AfterFunc`, one or more per session (the dispatcher's loop, the
reader, writers of attributes), those of interactive commands, and the
goroutines that save the state. `DeviceService` has one `sync.RWMutex` that is
taken in short sections; what happens *between* two sections of one procedure
is where the interesting behaviours are.

### Components

| Component | State it keeps | Operations | Talks to |
|---|---|---|---|
| Failsafe timer `pkg/failsafe` | state, duration, grace period, `startedAt`, two Go timers | SetDuration, Start, Stop, Reset, Snapshot, Restore, two timer callbacks | calls back into the service |
| Multi-zone values `pkg/zone/zone.go` | values per zone, effective value, winner | Set, Clear, RemoveExpired, ResolveLimits, ResolveSetpoints | called by the limit resolver |
| Limit resolver `pkg/features/limit_resolver.go` | a multi-zone value per direction, zone indexes, control state | SetLimit, ClearLimit, ClearZone, ResetAll, handleTimerExpiry | sets EnergyControl's attributes; owns duration timers |
| Duration timers `pkg/duration` | a Go timer per (zone index, command) | SetTimer, CancelTimer, CancelZoneTimers, expireTimer | calls back into the resolver |
| Zone sessions `device_service_zone.go`, `_lifecycle.go` | connected zones, sessions, connection counter | accept, identify by certificate, replace a stale session, message loop, clean-up | certificates, registry |
| Zone registry, persistence, failsafe handling `_zone`, `_failsafe`, `_persistence`, `pkg/persistence` | members, indexes, a failsafe timer per zone, the state file, the certificate directory | register, remove, connect, disconnect, save, load, handleFailsafe | failsafe timers, duration timers, disk |
| Commissioning window `device_service_commissioning.go`, `pkg/discovery/advertiser.go` | gate, listener, advertisement, window timer, epoch, commissioning lock, cooldown | Enter/ExitCommissioningMode, time out, commissioning connections | registry, mDNS |
| Subscriptions `dispatch/notification_dispatcher.go`, `pkg/subscription` | per session: dispatcher, manager, index by attribute, pending changes | subscribe, unsubscribe, record a change, loop pass, heartbeat, close | features, connection |
| Interaction client `pkg/interaction/client.go` | message counter, pending calls | Read, Write, Subscribe, Invoke, HandleResponse, Close | connection |
| Certificate renewal `controller_renewal.go`, `device_renewal.go`, `device_session.go` | per renewal a handler with a one-slot channel; on the device the pending key, the active certificate, what is served and what is on disk | RenewDevice, the reader's routing, HandleRenewalRequest, HandleCertInstall, handleCertRenewalSuccess | the session it shares with the client, certificate store |
| Controller service `controller_service.go`, `controller_remove.go` | known devices, connected flags, sessions, the operational browse, the state file | commission, reconnect, message loop, decommission, RemoveDevice, SaveState, LoadState | sessions, discovery, disk |
| Commissioning exchange `controller_service.go`, `controller_renewal.go`, `device_service_commissioning.go` | what each side knows of a commissioning under way, the device's certificate store | search, PASE, four messages of the certificate exchange, rollback, registration | commissioning window, controller service, registry |
| Pairing requests `device_service_discovery.go`, `controller_service.go` | listener's flag and cancel function; the controller's announcement and the devices it has tried | start, stop, run, updatePairingRequestListening; announce, poll, cancel | commissioning window |
| Protocol handler `dispatch/protocol_handler.go` | none | dispatch to features | features |
| Transport, PASE, certificates, mDNS, wire format, data model, use cases, logs | mostly none, or I/O | | |
| Zone manager, connection manager, interaction server, PASE window | | | no users outside their tests |

### What is hard about it

- A Go timer that has fired cannot be stopped. Its callback waits for a mutex
  while whoever "stopped" it goes on. Failsafe timers, duration timers and the
  commissioning window's timer all have this race, each guarded differently.
- Procedures in sections: a session's clean-up, the opening and the closing of
  the window, handleFailsafe, SaveState and HandleSubscribe all read in one
  section and act in a later one.
- Two sides that must agree with nothing but messages in between, which may be
  lost with the connection: who is in which zone after a commissioning, which
  certificate counts after a renewal. Messages of a renewal carry nothing that
  ties an answer to its request, and share a connection with requests that do.
- Crashes: the state file is overwritten in place, certificates are stored
  apart from it, a snapshot may hold a timer in any state, and LoadState calls
  code that calls back.
- Iteration over Go maps in random order, in resolution, in eviction and in the
  choice of the zone of a connection.
- Bounded integers: a `uint8` zone index, a `uint32` message ID.
- Limits that several actors approach at once: the connection cap, zones per
  device and per type, subscriptions per session.

`PROJECT.json` lists these hazards one by one at their lines, with the
properties that would catch each of them going wrong.

### What makes each component correct

- *Failsafe timer*: a countdown always has a live timer behind it, ends in
  failsafe, and not before its time; all over snapshots and restarts.
- *Resolution*: in every order of the map the most restrictive limit and the setpoint
  of a zone that no other outranks are published.
- *Limits*: the effective limit is always that of the stored, unexpired ones;
  a timed limit ends, and an expiry never ends a newer limit.
- *Sessions*: connection slots are counted exactly; every session has a
  goroutine that will remove it; no zone stays marked connected without one; a
  stale connection's exit spares its successor.
- *Registry*: indexes stay distinct over restarts; every disconnected member
  has a failsafe timer and enters failsafe; the file follows the memory.
- *Window*: one commissioning at a time; zone limits hold although they are
  checked long before registration; gate, listener, advertisement and timer
  agree; the window closes; the lock is released.
- *Subscriptions*: when nothing is under way the controller has the current
  values; heartbeats in time; changes no closer than the minimum interval; a
  closed session leaves nothing behind.
- *Client*: a call returns once, and only the answer to its own request; nothing
  piles up; Close reaches whoever waits.
- *Renewal*: a certificate that the controller was told is installed is
  installed, served and stored; an exchange that nothing disturbs succeeds.
- *Controller*: a device shown as connected has a goroutine that will notice its
  end; one connection per device; the file follows the memory.
- *Commissioning*: the two sides agree on the membership; the certificate store
  follows the zones; a failure leaves nothing behind.
- *Pairing requests*: a device listens exactly when it has a zone and room for
  another, with one listener at a time.

## 2. The models

Eleven modules, one per component with state worth checking, and one abstract
specification, CallContract. Where an instance needs definitions or symmetry
sets an `MC` module has them. Every variable and
action names the field or function it stands for, and `PROJECT.json` maps each
definition to its lines (about 5 600 lines of Go in all).

An action is one section under a lock, or one blocking operation (a send, a
handshake, an mDNS call) between two sections. A method that holds its mutex
from start to end is one action, however many calls it makes inside.
Goroutines have a place in `pc` (or `reader`, `loop`, `closing`). Definitions
marked `\* mutant` are plausible bugs in the definition after them; no
specification uses them.

**FailsafeTimer** (`pkg/failsafe/timer.go`). State, duration and the ticks
since `startedAt`; Go timers are a set of identities, each free, armed with
the ticks it has left, or fired and waiting for the mutex. Expiry and callback
are two actions, so a timer that fired may be overtaken by Stop, Reset or
Restore; the history variable `lostRace` records that this happened. A snapshot ages
while the process is down.

**MultiZoneValue** (`pkg/zone/zone.go:110-237`). A resolution's loop is one
action per iteration and takes any zone not yet visited. Values are integers of
both signs, since consumption limits are positive and production limits
negative, and the comparison in the code looks at the sign.

**LimitResolver** (`pkg/features/limit_resolver.go`, `pkg/duration/timer.go`).
Per zone and direction a value with its duration and the ticks left. Duration
timers are keyed by (index, direction); `expireTimer` (under the manager's
mutex) and `handleTimerExpiry` (under the resolver's) are two actions. Index
allocation wraps at `IndexCount`, 256 in the code. The resolution itself is
taken as its result, which MultiZoneValue justifies.

**ZoneSessions** (`device_service_zone.go`, `_lifecycle.go`). A connection goes
from accept over the handshake and the certificate match to a stored session,
its message loop and its clean-up, one section at a time, while zones are
paired, removed and evicted. The certificate match is by the CA that issued the
peer's certificate, with the fallback to any disconnected zone that the code
has.

**ZoneRegistry** (`device_service_zone.go`, `_failsafe.go`, `_persistence.go`,
`pkg/persistence/state.go`, `pkg/cert/store_file.go`). Memory (members,
connected, failsafe flags, indexes, timers, duration timers, certificates) and
disk (state file, certificate directory) with both sections of SaveState, in
the goroutines that call it; a crash anywhere, also in the middle of the write,
a graceful shutdown, and LoadState. A failsafe timer is abstracted to its
state, `Due` when its callback is on its way; FailsafeTimer is its detail.

**CommissioningWindow** (`device_service_commissioning.go`,
`pkg/discovery/advertiser.go`). Gate, listener, advertisement and timer are
separate variables, changed in the order of the code by callers of
EnterCommissioningMode and ExitCommissioningMode, by RemoveZone, by the
window's timer and by commissioning connections; the latter go from the TLS
gate over the first message, the lock with its generation, PASE, validation,
certificate exchange and registration to the early and the deferred release.

**Subscriptions** (`dispatch/notification_dispatcher.go`,
`pkg/subscription`). The reader's subscribe and unsubscribe in their sections;
attribute writers that set a value, take the index's slice and record the
change in each subscription; the loop's pass with coalescing, bounce-back
suppression and heartbeats; the closing of the session. The index's backing
arrays are modelled (`arrays`, `index.len`), since Unsubscribe shifts one in
place while a writer iterates over it.

**InteractionClient** (`pkg/interaction/client.go`). A call through its steps:
take an ID, check `closed`, register, send, wait, clean up; responses that come
at any time and in any order; timeouts; Close; a send on a closed channel,
which panics.

**CallContract** is what a caller may rely on: calls begin, are asked for, may
take the one answer to their own request while they are open, and end. It knows
nothing of message IDs, channels, the map of pending calls and the reader. The
client implements it under this mapping: `open` are the calls whose goroutine is
in one; `outstanding` are those whose request or response is under way, in the
reader's hands or in some channel. A late response is thus one that stays
outstanding, or is lost, after its call has ended; that the entry it meets under
its ID is never another call's is what the refinement says.

**DeviceSession** (`device_session.go`, `controller_renewal.go`,
`device_renewal.go`, `zone_session.go`, `device_service_zone.go`,
`pkg/wire/codec.go`) EXTENDS InteractionClient: the controller's session with one
device has one reader, and two kinds of users, the client's calls and
renewals. A RenewDevice makes a handler, hangs it into the session, sends a
request, takes a CSR off a channel of one slot, sends the certificate, takes an
acknowledgement off the same channel and takes the session's handler out,
whoever's it is by then. The reader decides by its keys whether a frame is a
renewal message, a response or a control message; a response without payload
whose ID happens to be a message code is misread, which the model keeps. The
device's loop answers a request with a new key pair, compares the key of the
certificate it is given with the pending one, acknowledges, and only then stores
the certificate and puts it into its TLS configuration. A restart, a lost
connection and the end of any context may come at any point. A certificate is
named by its key.

**ControllerService** (`controller_service.go`, `controller_remove.go`, the
browser's rule in `pkg/discovery/mdns.go`). Known and connected devices, their
sessions, and a place per connection for the goroutine that attends to it: the
attempt to reconnect marks the device in one section, stores the session in the
next, checks the version, and reads frames; a loop that ends closes the session
of its device in one section and marks the device in another. Operational
discovery is one browse at a time, unless one that was cancelled is late to end.
A browse reports a device once until it goes away and returns. SaveState is read,
truncate and write, by several callers, with restarts anywhere.

**Commissioning** (`controller_service.go`, `controller_renewal.go`,
`device_service_commissioning.go`, `device_service_discovery.go`). Two
controllers and one device. A controller tries the device, announces a pairing
request if that failed, polls, and tries again; on a connection PASE, the request
for a CSR, the CSR, the certificate and the acknowledgement go back and forth,
any of which a broken connection loses. The device has its commissioning lock,
its cooldown, the certificate store with its limit, the rollback and the
registration, and the listener for pairing requests with
updatePairingRequestListening in its two sections.

### How they fit together

The modules are separate because the code's locks are: the resolver's mutex,
the timer's, the service's and the session's protect disjoint state, and what
crosses is a call. Where one module relies on another it takes its result
and says so in its header: LimitResolver the order-independence MultiZoneValue
proves; ZoneRegistry the four states of FailsafeTimer with a callback that may
be late; ZoneRegistry and ZoneSessions each other's connect and disconnect;
CommissioningWindow a registration as one step of which ZoneRegistry has the
detail. Two modules compose: DeviceSession extends InteractionClient, whose
variables and steps are part of its own, because both use one reader and one ID
space; Commissioning has both sides of one exchange, with the window of
CommissioningWindow reduced to open or closed. ControllerService takes a
commissioning as one step of which Commissioning has the detail. A formal
refinement of ZoneRegistry's timers by FailsafeTimer is on the plan.

## 3. What the runs check

Times are for two workers.

| Run | Instance | States | Question and result |
|---|---|---|---|
| `failsafe` | 3 Go timers, durations 2..3, grace period 1 | 1.15 M, 100 s | A running countdown always has a live timer behind it (`CountdownIsBacked`), no failsafe before the time is up unless a callback lost the race (`NoEarlyFailsafeWithoutRace`), and a countdown ends (`CountdownEnds`). Holds. |
| `resolution` | 3 zones, values -2, -1, 0, 1 | 2.2 M, 42 s | In every order of the map, ResolveLimits has the most restrictive limit (`LimitIsMostRestrictive`), and what ResolveSetpoints publishes is, with its zone, the setpoint of a zone that no other outranks (`SetpointFollowsPriority`). Holds. |
| `limits` | 2 zones, one direction, limits -1..3 with capacity 2, durations 0, 1 and one too long | 110 k, 32 s | `EffectiveIsResolved`: the attribute is the most restrictive stored limit that counts. `TimedLimitBacked`, `TimedLimitEnds`: a limit with a duration has a timer and ends. `NoEarlyClearUnlessStale`: none ends early unless an older timer was out of reach. Holds. |
| `sessions` | 2 zones and a TEST zone, cap 1 + 1, 3 connections | 2.7 M, 55 s | `SlotsCounted`: the counter of connections is exact. `SessionsAttended`: every session has a goroutine that will clean up after it, and a zone marked connected has a session or a goroutine that is about to change one of the two. `OnlyOwnerCloses`: a stale exit spares its successor. Holds. |
| `registry` | 2 zones, 3 indexes, one restart, two outstanding saves | 1.5 M, 86 s | `IndexesDistinct`, `FailsafeBacked`, `DiskCurrentUnlessOverlap`, `FailsafeEventually`. Holds. |
| `window` | 2 connections, 1 caller, 2 zone types, 2 zones, 2 windows, 3 attempts | 590 k, 64 s | `MutualExclusion`, `ZoneLimits`; the lock is released (`LockReleased`); once all procedures have ended, and if none clashed, gate, advertisement, listener and timer agree and a paired device listens (`WindowConsistentUnlessClash`); an open window closes (`WindowClosesUnlessClash`). Holds. |
| `subscription_values` | 1 subscription, 2 attributes, 2 changes, one valid and one refused request | 570 k, 80 s | `CurrentUnlessOverlap`, `HeartbeatUnlessBounce`, `ChangesSpaced`; a value that differs from the last one received is delivered, or overtaken, if the peer reads (`ChangesDelivered`). Holds. |
| `subscription_routes` | 3 subscriptions created, limit 2, one attribute, one change | 5.2 M, 74 s | `SubscriptionsAgree`: index, manager, dispatcher and connection name the same subscriptions, and the index is what a change is routed by. `ClosedUnlessOverlap`: a closed session leaves none behind. Holds. |
| `client` | 2 goroutines, 4 calls, 5 IDs, any start of the counter | 1.3 M, 22 s | `ImplementsContract`: the client is a CallContract. `PendingUnderWay`: nothing piles up. `ClosedReachesWaiting`: Close forgets no call that waits. Holds. |
| `device_session` | 2 renewals, 1 call, 4 message IDs, of which one is the code of an acknowledgement and one that of a control message | 1.2 M, 135 s | `RenewedIsInstalled`: a certificate that RenewDevice returned was installed. `RenewedIsServed`: then it, or a later one, is what the device serves and has on disk. `UndisturbedSucceeds`: a renewal that met no other, no leftover, no loss and no end of a context succeeds. Holds. |
| `controller` | 1 device, 2 connections, 2 browses, one restart | 1.9 M, 45 s | `DevicesAttended`: a device shown as connected, and every session, has a goroutine that will notice its end. `OneConnectionUnlessDisturbed`. `DiskCurrentUnlessOverlap`: commissioning and decommissioning reach the file. Holds. |
| `commissioning` | 2 controllers, 1 device with 2 zones, 2 listeners, certificates stored twice, a store for 2 zones, one pairing request announced at a time, nothing after an overlap | 2.3 M, 53 s | `MembersAgree`: the controller lists a device only if it is in the zone or about to be, and a device is in no zone that its controller neither has nor is about to learn of. `CertsFollowZones`: the certificates in the store are those of the zones and of the one being joined, after every refusal and rollback, a failed acknowledgement alone excepted. `ListensUnlessOverlap`: one listener if there is a zone and room for another, none if full. Holds. |

Every property has a mutant: a plausible bug in a mapped definition under which
the property's run finds it violated.

The type invariant of every module is proved (section 5), but for
`RenewalTypeOK` of DeviceSession: what is proved of it is `SessionTyped`, the types
without the bound on the keys, and the rest was checked with the run's
configuration. It is no invariant of the runs, whose other properties say more.

**"Unless".** Several procedures of this code are only right when they do not
overlap with certain others. The properties whose names contain `Unless` make
that precise: a history variable records the overlap (`clash` in
CommissioningWindow, `overlap` in Subscriptions, ZoneRegistry, ControllerService
and Commissioning, `stale` in LimitResolver, `lostRace` in FailsafeTimer,
`disturbed` in ControllerService and DeviceSession, there beside `mimicked` and
`unstored`, `excused` and `orphaned` in Commissioning),
and the property says that nothing *else* breaks agreement. Section 6 gives the
unconditional forms, which the code does not keep. Each history variable is raised only by the
overlap that the corresponding deviation describes. `excused` and `orphaned` are kept
apart for that reason: a rollback after the acknowledgement breaks the agreement
of the two sides, and excuses no certificate.

### Bounds and why they are enough

- *Time* is relative and saturates (ticks left, ticks since), so behaviours are
  unbounded. Durations of 1 to 3 ticks distinguish at once, later and never.
- *Go timers*: three in FailsafeTimer are a current one, one in flight and one
  more in flight; two in LimitResolver, one per key or one current and one in
  flight.
- *Zones and connections*: two of a kind are the least that conflict. Three
  connections let a stale one, its successor and a third for the other zone
  meet. Three zones in `resolution` distinguish associativity.
- *Indexes*: `IndexCount` 3 for two zones of `registry` leaves a gap after a
  removal; in `limits` as many indexes as zones, so that none is shared.
  The aliasing beyond it is in section 6.
- *MaxEpoch, MaxAttempts*: two windows let a procedure of the first meet the
  second; three attempts let a lock be taken again after a stale release. One
  caller is enough for the `window` run: its agreement properties are about
  procedures that do not overlap, the two connections are procedures of their
  own, and its three safety properties are proved for any number.
- *Renewers, UsedIds, AckId, ControlIds*: two renewals are the least of which one
  takes the other's answer; the counter starts so that the only call gets the ID
  that is read as an acknowledgement. With `UsedIds = {0}` it gets that of a
  control message and its response is dropped, which disturbs no renewal. What
  calls promise is the `client` run's question.
- *Connections, Browses* of ControllerService: a device is one whose connection
  is being attended to while another attempt is made; a late browse and its
  successor. Devices do not interact except through the file and `zoneID`.
- *Connections* of Commissioning: one per controller. It dials again once both sides
  have left the old connection, although in the code nothing makes it wait for the
  device's goroutine; that a second connection finds the lock taken, and what a
  stale release does, is the `window` run's question.
- *MaxStored, StoreLimit* of Commissioning: two zones stored fill a store of two,
  so that a third attempt meets a full one. `StateBound` of MCCommissioning cuts the
  exploration where two controllers announce pairing requests at once and where
  `overlap` is raised: from there on `ListensUnlessOverlap` says nothing, and the
  listener touches the rest only by opening the window, which
  EnterCommissioningMode may do at any time as well. All three properties of the
  run are proved without it.
- *MaxRestarts, MaxSaves*: one restart after any history; two saves are the
  least that overlap. `Commanders` and `Expiring` restrict the zones that set
  duration timers and whose timers run out to one, the other being its context.
- *MaxIds, MaxSubscriptions, MaxWrites, MaxAge*: three requests exceed a limit
  of two and make the index's array grow once and be shared; two changes are a
  bounce-back; ages saturate above the longest interval.
- *MaxCalls* of four lets one call meet the late responses of two others;
  *MaxCalls < IdSpace*: no message ID comes round while its call is under way.
  In the code it takes 2^32 calls within one timeout.
- *Symmetry* is used in safety runs only.
- *Deadlock* is checked where the system cannot stop: the failsafe timer,
  resolution, limits, sessions, window and commissioning, which can always go on.
  In the other
  runs it may: a session or client may be closed, a process has ended
  for the last time, or the bounds are used up.

## 4. Fairness

Only what the Go runtime and the code's timeouts give, each as weak fairness:

- a goroutine that is in the middle of a procedure goes on (`Continue`, the
  steps of the loop, the reader, writers and closers once begun, the two
  callback steps of every timer);
- time passes and an armed timer fires (`Tick`, `Fire`, `Expire`; the tickers
  of the dispatcher);
- a peer does not hold a commissioning connection for ever (`Proceed`): the
  first message and the handshake have timeouts of their own, and a reaper
  closes a connection that stays in a phase
  (`device_service_commissioning.go`);
- while the reader of a session, the device's message loop or a RenewDevice can
  go on, one of them does (DeviceSession: weak fairness of the three together,
  which is less than the runtime gives and enough, since nothing there repeats);
  the end of a context, of a connection or of a session is never assumed;
- the end of a notification or of a response that is being sent is not assumed
  either (Subscriptions): framedConnection.Send has no write deadline, and a peer
  that does not read holds the goroutine. `ChangesDelivered` has the peer's reading
  as a hypothesis, `PeerReads`;
- a device that is down is started again (`LoadState` in ZoneRegistry), by its
  operator or supervisor; without it nothing can be said of what follows a
  restart.

Nothing is assumed of users and peers: no fairness on requests, responses,
connections, EnterCommissioningMode or ExitCommissioningMode. Strong fairness is
not used. ZoneSessions, MultiZoneValue, InteractionClient, ControllerService and
Commissioning have no liveness property and no fairness. `CountdownEnds` excludes behaviours that restore the
timer again and again, which would postpone its end for ever;
`FailsafeEventually` speaks of zones that stay members and disconnected from
some moment on.

## 5. What is proved

TLC checks the instances above; the following is proved with TLAPS for every
value of the constants (any number of timers, zones, connections, callers and
calls) that meets the named assumptions of the module. A theorem that states a
property of a run names it in the last column.

| Module | Theorem | States |
|---|---|---|
| SessionAndTimerProofs, of FailsafeTimer | `TimerTypeCorrect` | state and snapshots are well typed; the duration is positive and at most the maximum, also restored |
| | `CountdownAlwaysBacked` | `CountdownIsBacked` |
| | `NoEarlyFailsafeProved` | `NoEarlyFailsafeWithoutRace` |
| AttributeProofs, of MultiZoneValue | `ResolutionTypeCorrect` | |
| | `LimitsOrderIndependent` | `LimitIsMostRestrictive` |
| | `SetpointsFollowPriority` | `SetpointFollowsPriority`, an action property |
| LimitResolverProofs | `TypeCorrect` | |
| | `EffectiveAlwaysResolved` | `EffectiveIsResolved` |
| | `TimedLimitsAlwaysBacked` | `TimedLimitBacked`, if `FewZones` |
| | `ClearedOnlyWhenExpired` | `NoEarlyClearUnlessStale`, if `FewZones` |
| SessionAndTimerProofs, of ZoneSessions | `TypeCorrect` | the counter of connections between zero and its cap included |
| | `SlotsAlwaysCounted` | `SlotsCounted` |
| | `SessionsAlwaysAttended` | `SessionsAttended` |
| | `OnlyOwnersClose` | `OnlyOwnerCloses`, an action property |
| ZoneRegistryProofs | `TypeCorrect` | saved states and the file included |
| | `DistinctIndexes` | `IndexesDistinct`, if `FewZones` |
| | `DiskFollowsMemory` | `DiskCurrentUnlessOverlap` |
| | `FailsafeIsBacked` | `FailsafeBacked` |
| CommissioningWindowProofs | `TypeCorrect` | zone counts included |
| | `LockExclusive` | `MutualExclusion` |
| | `LimitsKept` | `ZoneLimits` |
| | `WindowStaysConsistent` | `WindowConsistentUnlessClash` |
| AttributeProofs, of Subscriptions | `TypeCorrect` | the index's arrays included |
| | `RoutesAgree` | `SubscriptionsAgree` |
| | `ClosedCleanUnlessOverlap` | `ClosedUnlessOverlap` |
| | `ChangesAreSpaced` | `ChangesSpaced`, an action property |
| | `HeartbeatInTimeUnlessBounce` | `HeartbeatUnlessBounce` |
| | `CurrentWhenSerial` | `CurrentUnlessOverlap` |
| DeviceSessionProofs, of InteractionClient | `TypeCorrect` | |
| | `AnswersOwnCalls` | `AnswersOwn` |
| | `IdsAlwaysDistinct` | `IdsDistinct` |
| | `NothingPilesUp` | `PendingUnderWay` |
| | `WaitingReached` | `ClosedReachesWaiting` |
| | `ImplementsCallContract` | `ImplementsContract`: the refinement of CallContract |
| DeviceSessionProofs, of DeviceSession | `RenewedAlwaysInstalled` | `RenewedIsInstalled` |
| | `RenewedAlwaysServed` | `RenewedIsServed` |
| | `SessionImplementsContract` | `ImplementsContract` for the session, whose reader serves renewals too |
| | `SessionKeepsClient` | `PendingUnderWay` and `ClosedReachesWaiting` for the session |
| ControllerServiceProofs | `TypeCorrect` | |
| | `DevicesAlwaysAttended` | `DevicesAttended` |
| | `DiskStaysCurrent` | `DiskCurrentUnlessOverlap` |
| | `OneConnectionAtATime` | `OneConnectionUnlessDisturbed` |
| CommissioningProofs | `TypeCorrect` | |
| | `MembersAlwaysAgree` | `MembersAgree` |
| | `CertsAlwaysFollow` | `CertsFollowZones` |
| | `ListensAsItShould` | `ListensUnlessOverlap` |

With these every safety property of a run is a theorem; what is only
model-checked is at the end of this section. A proof module that covers two models
gives the initial state, the steps and the types of the smaller one names of their
own: `TimerInit`, `TimerSpec`, ... in FailsafeTimer, `ResolutionInit`, ... in
MultiZoneValue.

**Assumptions.** TLC evaluates those of every module for its instances.

- *FailsafeTimer*: `0 < MinDuration <= MaxDuration`, the default between them, a
  natural grace period.
- *MultiZoneValue*: values are integers, the nil value is not.
- *LimitResolver*: there is a direction; limits are integers and `NoLimit` is
  none of them; durations and the capacity are natural numbers. Nothing is said
  of the number of zones, except in the two theorems about timers. They need
  `FewZones`: no more zones than indexes. The code's index is a `uint8` that is
  never given back, so a process that meets a 257th zone breaks both (section 6);
  until it has met that many different zones, the hypothesis holds.
- *ZoneSessions*: TEST zones are zones, and the cap is a natural number. Zones
  and connections may be infinitely many; that the slots taken are finitely many
  is part of the invariant.
- *ZoneRegistry*: there is an index, `NoIndex` is no number and `NoZone` no zone. `DistinctIndexes` needs `FewZones`: as many zone IDs as there are indexes,
  at most. A member of `Zones` is registered once in a behaviour, so this says that
  the device is commissioned no more than 256 times; section 6 has what happens at
  the next.
- *Subscriptions*: the initial value is one of the values; limits and default
  intervals are positive, and ages are counted beyond every maximum interval, so
  that the bound on ages hides nothing. Attributes, values and
  writers may be infinitely many.
- *CommissioningWindow*: connections and callers are different goroutines, the
  set of zone types is finite, and the bounds are natural numbers.
- *InteractionClient*: `MaxCalls < IdSpace`. *DeviceSession*: the message IDs
  that read as control messages or as an acknowledgement are IDs, but not that
  of notifications.
- *ControllerService*, *Commissioning*: the bounds are natural numbers, the store
  has room for the zones a device may have; otherwise only that `None`,
  `Cancelled`, `Console` and `RemoveZone` are names of nothing else.

**FailsafeTimer.** `TimerTypeOK /\ CountdownIsBacked` is inductive: Start and Restore
arm a free timer in the step in which they enter the state, and a callback
leaves the state in the step in which it frees its timer. A stale callback may
end a countdown that another timer backs, but then it ends it.
`NoEarlyFailsafeWithoutRace` is not inductive: a step of time could bring an
unknown timer to expiry. `OnlyCurrentTimer` says that without a lost race the
only live failsafe timer is the one the machine holds, and that the ticks it has
left and the ticks elapsed cover what the countdown was armed for.

**MultiZoneValue.** Both proofs go by the loops' invariants, which speak of the zones
visited so far; at the end of a loop these are all that count. One more zone is a
case distinction on the signs of the two values, so no induction over sets is
needed. For limits the invariant is the property. For setpoints it is
`SetpointOfVisited`: the candidate is the value of the remembered zone, the
remembered priority is that zone's, and no zone visited outranks it; EndResolve
publishes value and zone, and takes neither if no zone was visited.

**LimitResolver.** `LimitInv`: every handler that changes a stored limit ends in
ResolveAndApply. That the most restrictive limit exists would be clear for
finitely many zones; here it is kept (`WellStored`: every set of stored limits
has a least one), because a command stores one limit and everything else
removes some. `TimerInv` is about keys, the pairs of a zone's index and a
direction: indexes are given in turn and belong to one zone each (`Indexed`); the
timer that the manager has under a key is one that was set for it (`Registered`);
a key has one live timer unless a fired one was replaced, which makes it stale
(`Single`); and a timer whose key is not stale has no less left than the limit
behind it (`Punctual`).

**ZoneSessions.** One invariant for every place of a goroutine. The slot it
holds is counted (`SlotMoved` is the lemma for all steps, which take a slot, keep
it or give it back). It has a zone from the certificate match on, and replaces
the session of no other zone than its certificate's (`TargetsChosen`). None of
this mentions the list of zones, which others change between any two sections:
that is why `SessionsAttended` survives removals and evictions.

**ZoneRegistry.** What a restart may bring back is not only the memory: a state
that SaveState has read and not yet written, and the one in the file, are as
alive. The invariants therefore speak of the states in `Kept`, which is these three
together. A step other than a registration adds none that does not descend from
one of them (`KeptDescends`).

*Indexes.* In every kept state the indexes of two zones differ and are below the
number of zones ever registered (`Numbered`), and so is the next index
(`IndexInv`). With `FewZones` the counter then wraps only after the last
registration. RestoredNext finds an index above those saved; it may give an
index again that a zone removed since the save had, which is why the
invariant compares zones within one state and never two states.

*The file.* As long as no two saves overlapped, at most one call of SaveState is
outstanding, either yet to read or yet to write (`OneSave`); a state read is then
current, because every change asks for a save and a change between reading and
writing would be an overlap, and so is the file once nothing is outstanding
(`DiskInv`). With an overlap the older state may be written last: that is
`DiskCurrent` in section 6.

*Failsafe.* Every zone of a running device has a timer that counts down, has
triggered, or is due with a goroutine to trigger it (`Backed`). Stop resets the
timers of the memory after its save; what carries the invariant over a
restart is that in saved states and in the file no zone has an idle timer
(`Lives`), and that is so because the save of a shutdown is the last one
(`BackedInv`), again without overlap.

**CommissioningWindow.** Mutual exclusion rests on `LockOwned`: the lock is taken
exactly when a connection holds it, there is one such connection, it has the
current generation, and a connection that has released the lock and is still to
run its deferred release has an older one while the lock is taken, so that it
releases nothing. The zone limits are checked by the code before the certificate
exchange and relied upon after it; `ValidatedHolds` carries the result of the
check over the gap, and it is stable only because no other connection can
register a zone meanwhile, hence `LockOwned` again.

That gate, advertisement, listener and timer agree is a property of the states
in which no procedure is under way, so the invariant has to say what holds
within one (`WindowInv`). As long as nothing has clashed there is at most one
goroutine in a procedure, and `Underway` says for each of its places what its
sections have set so far, and that a device that it found without zones still has
none when it stops the listener. The last part is what a clash destroys: another
connection registers its zone in between.

**Subscriptions.** The types are half of the work, because the index's slice and
the slices that writers hold are windows on arrays that are shifted in place.
`IndexInv` says of the slice in use that it lies in its array and lists the
manager's subscriptions once each; `WriterInv` says of a writer's slice, which
may be out of date, only that it lies in its array and holds identifiers given
so far. That every step keeps the second is `KeepsArrays`: no array goes or
shrinks, and what is written over an element is an identifier. `AppendKeeps` and
`RemoveKeeps` are the lemmas for the two operations, `ManagerStep`, `WriterStep`,
`ReaderStep` and `LoopStep` say which steps change which part, and `CreatedParts`,
`NotifyParts`, `PendingParts`, `BeatParts` and `TickParts` what they do to the
objects.

*Agreement.* The connection's subscriptions are those of the dispatcher's map, and
the manager's are those and the one that a request is making or ending
(`RoutesInv` with `InFlight`); a subscription is the manager's exactly if its
object is active (`ActiveInv`). If the session was not closed in a request, no
request is served after it, so that what is unregistered is all there is
(`ClosingInv`).

*Time.* The coalescing window is never older than the last notification of changes
(`WindowInv`), which makes `ChangesSpaced` a consequence of the comparison in
GetPendingNotification. For heartbeats: a subscription whose time is over has
the loop before it, by the ticker or in the pass under way, and is not yet being
sent (`BeatInv`); a pass goes over subscriptions that exist, and a device that
stops has no pass (`PassInv`); an unanswered request's subscription counts for
nothing (`AckedInv`); and what the controller has measured is at most what the
device has, but for a message on its way (`SilenceInv`). A silently taken change
breaks the last, hence `bounced`.

*Values.* Without overlaps a writer at work is alone, no request is served
meanwhile, its value is the attribute's and its slice is the index's (`SerialInv`).
A value read for a request is then current, and a recorded value, pending or last
taken, is current or ahead of the writer in its slice (`RecordedInv`). A message
carries values last taken, and an object without changes has nothing pending
(`MessageInv`). The controller has the last values taken, or they are in the
message being sent (`ViewInv`). With nothing under way these leave one value. The
part that needs care is the suppression: a change that went back to the last
value is dropped from the message because both are equal, and then the value taken
is still the one sent before (`TakesRecorded`). Each of these invariants was
checked with TLC on the instances of the two runs before it was proved.

**InteractionClient.** All five invariants follow from one, `IInv`: goroutines
have different calls (`CallsOwned`); the IDs given are consecutive up to one wrap
that skips 0 (`IdsInSequence`), which with `MaxCalls < IdSpace` makes them
distinct; what the reader has found, a channel buffers and a call returns is the
response to that call (`ResponsesOwned`); a call under way has its channel in
the map, or that channel is closed (`CallsReachable`); and `PendingUnderWay`.

*Refinement.* `Contract!Init` follows from `Init`, and every step under `IInv`
and `IInv'` is one of CallContract or a stutter: NewRequest is Begin, a
SendRequest that succeeds Ask, a Receive that gets a response Take, CleanUp and
the refusal of a closed client Finish; Answer, HandleResponse and SendOnChannel
only move a call's answer from one place of `Outstanding` to the next, or lose it.
`BufferedStep` says what a send on a channel does to the buffers, `OpenKept` and
`OpenEnds` what a step does to the open calls, which needs that goroutines have
different calls. That a Receive takes the answer to its own request, while that is
outstanding, is `ResponsesOwned`: the part the contract would fail without.

**DeviceSession.** Nothing in a message ties an acknowledgement to its
certificate or a CSR to its request, and a channel of one slot may hold what a
renewal that has ended has left. What saves the result is the order of the keys
(`SInv`): a CSR on its way is for a newer key than every certificate that may
still be sent, and no acknowledgement of success comes after it (`FreshCSRs`);
the renewal whose handler hangs in the session, once it has a CSR, has the newest
(`HandlerLatest`); an acknowledgement of success reaches only the renewal that
holds its key (`AcksMatch`), and what is acknowledged or returned is installed
(`AcksTrue`); the device installs certificates of its last key only, and
serves and stores the last it installed (`LastServed`). Most steps only let go of
keys and messages (`Shrinking`, `RenewalStep`); sending a CSR, taking it and
installing a certificate are the ones that need the order. For the client, every
step of a renewal is a stutter, or the loss of a response that was taken for
something else, which CallContract has as a step (`Lose`). So the session
implements the same contract.

**ControllerService.** *Attendance*: from the section that marks a device
connected until the one that marks it disconnected its goroutine is
`Responsible`, and a session is the one of a goroutine that reads or is about to
(`AttendedInv`). *The file* (`DiskInv`): until saves overlap one of them writes
at a time, and if what it writes, or the file, is not current then another save
has yet to read the state. *One connection* (`SingleInv`): a device is
not attempted twice, because the one browse there is keeps it as reported from
the report to the mark, and afterwards it counts as connected; `FreshInv`, that a
device which has yet to be commissioned is in no file and no session, is needed
for the commissioning that makes the first connection.

**Commissioning.** The exchange runs in lockstep: while its connection is alive,
the place of the device's goroutine, that of CommissionDevice and the message
between them determine one another (`Lockstep`). An acknowledgement, once sent,
waits for the controller that expects it or is lost with the connection
(`AckKept`), and nothing else touches the certificates of a zone between their
storing and the registration (`StoredKept`). From these three, for each zone a
controller may have been given, follows on which sides it exists
(`ZoneAgreed`). All of it is stated for one controller, since a step of another
leaves it alone (`Frame`, `LocalStep`). `ListenerInv` is about pairing requests: without an overlap one
listener runs exactly if the flag is set, the cancel function is its own, an update
about to start or to stop it has read what is still true, and after every
change of the zones an update is on its way until the flag is right.

**Only model-checked.** All liveness properties and everything with ENABLED, both of
which are beyond this prover: `CountdownEnds`, `TimedLimitEnds`,
`FailsafeEventually`, `LockReleased`, `WindowClosesUnlessClash`,
`ChangesDelivered` and `UndisturbedSucceeds`.

## 6. Where the code differs from its documents

While modelling, statements of documents, comments and names turned out not to
be what the code does in some interleavings. They are stated as properties at the
end of their module, and no configuration here checks them. Two are plain errors of
the code, and the "findings" of `PROJECT.json`: a device that does not start
(`StartCompletes`), and a send on a closed channel (`ResponseAfterCloseDropped`).

To see a counterexample, take the module's configuration
(`Subscriptions_values.cfg` where there are two), put the property in the place
of its properties, without the symmetry if it is temporal, and change the
constants named after it, if any; `FiniteLimitEnds`, `WindowCloses`,
`StartCompletes` and `CloseEnds` need `FairSpec`. TLC finds each within seconds. The properties
that *are* checked hold under the condition that the overlap described here does
not happen (section 3).

### FailsafeTimer

- `NoEarlyFailsafe` (pkg/failsafe/timer.go:343): enterFailsafe checks only the
  state, so a callback that expired before Stop/Reset and takes the mutex after
  the next Start triggers failsafe immediately; pkg/failsafe/doc.go:17-18 says
  the timer "Starts when connection to ALL zones is lost" and "Resets when any
  zone reconnects", and doc.go:13 that the duration is "the maximum time a
  device should operate without controller communication before entering
  failsafe mode".
- `DurationInRange` (pkg/failsafe/timer.go:529): Restore stores the remaining
  time as the Timer's duration ("Adjust duration to remaining time"), so every
  later Start counts down from it; pkg/failsafe/doc.go:9 says "Configurable
  range: 2 hours to 24 hours (default: 4 hours)" and timer.go:193 "Duration
  returns the configured failsafe duration."

### MultiZoneValue

Not a property, since the model does not date the values: among setpoints of equal
priority the first one in the order of the map wins (pkg/zone/zone.go:221), so the
effective setpoint may change from one call to the next with nothing set in
between; docs/testing/behavior/multi-zone-resolution.md:218 says "Most recently set
setpoint wins." pkg/zone/zone_test.go:164 has it as the code does: "Either value is
valid since same priority".

### LimitResolver

- `NoEarlyClear` (pkg/duration/timer.go:287): expireTimer looks its entry up by
  key only and calls back after releasing the mutex, so a limit set meanwhile is
  cleared by the expiry of the one it replaced;
  docs/testing/behavior/duration-semantics.md:101 says of the second command
  "Timer replaced, now T+120s" and :321 "Original 60s timer was replaced, not
  still counting". Constants: `Timers = {t1, t2, t3}`.
- `OverrideNotDropped` (pkg/features/limit_resolver.go:400): resolveAndApply
  sets AUTONOMOUS or CONTROLLED without looking at an active override (only
  HandleSetLimit does); docs/testing/behavior/state-machines.md:56 says
  "OVERRIDE → AUTONOMOUS : [INVALID - must go through FAILSAFE]".
- `FiniteLimitEnds` (pkg/features/limit_resolver.go:189): HandleSetLimit stores
  the limit and drops SetTimer's ErrInvalidDuration for a duration above 24
  hours, so nothing ever recomputes the effective limit when it expires;
  docs/testing/behavior/duration-semantics.md:31 says "Auto-clear on expiry -
  Device returns to unconstrained state for that zone" and :209 "Maximum
  duration: 86400 seconds (24 hours)".
- `TimedLimitBacked` (pkg/features/limit_resolver.go:413): nextIndex is a uint8
  that is never reused or checked and zoneIndexMap is never pruned, so the 257th
  zone of a process shares the timer keys of the first;
  docs/testing/behavior/duration-semantics.md:151 says "Each zone's timers are
  completely independent". Constants: `Zones = {z1, z2, z3}`, `Limits = {1}`,
  three timers.

### ZoneSessions

- `SessionMatchesCertificate` (pkg/service/device_service_zone.go:95):
  handleOperationalConnection falls back to any disconnected zone, in map order,
  when the certificate matches no disconnected zone (its own zone being
  connected, removed or not yet registered);
  pkg/service/device_service_zone.go:29 says "This replaces non-deterministic Go
  map iteration with cryptographic identity". Constants: `Conns = {c1, c2}`.
- `LiveSessionConnected` (pkg/service/device_service_zone.go:316):
  handleZoneSessionClose unlocks after removing the session and calls
  HandleZoneDisconnect by zone ID later, so a connection attached in between
  ends up with a live session on a zone marked disconnected;
  pkg/service/device_service_zone.go:293 says "cleanup only runs if it is still
  the active session mapped for zoneID (protects against stale loop exits after
  reconnect)". Constants: `Conns = {c1, c2}`.
- `RemovedHasNoSession` (pkg/service/device_service_zone.go:186):
  handleOperationalConnection stores the session without checking that the zone
  still exists, so a RemoveZone between its sections leaves a session for a
  removed zone that still handles a message;
  pkg/service/device_service_zone.go:846 says of RemoveZone "It closes the
  session, removes from connectedZones". Constants: `Conns = {c1, c2}`.
- `EvictsDisconnected` (pkg/service/device_service_zone.go:998):
  evictDisconnectedZone collects the zones under the mutex and removes them
  after releasing it without looking again;
  pkg/service/device_service_zone.go:980 says "evictDisconnectedZone removes
  disconnected non-TEST zones to free slots". Constants: `Conns = {c1, c2}`.

### ZoneRegistry

- `StartCompletes` (pkg/service/device_service_persistence.go:176): LoadState
  calls timer.Restore with s.mu held; for a snapshot taken after expiry and
  before the callback Restore calls handleFailsafe, which locks s.mu again, so
  the device never starts with that file; pkg/failsafe/timer.go:461 says "If the
  timer was running and the remaining time has elapsed, failsafe mode is entered
  immediately."
- `DiskCurrent` (pkg/service/device_service_persistence.go:82): SaveState
  releases s.mu before the write, so two calls may write in the opposite order
  and the file keeps the older state; pkg/service/device_service_zone.go:939
  says "Save state to persist the removal."
- `MembershipSurvives` (pkg/persistence/state.go:107): Save overwrites the file
  in place with os.WriteFile; a crash in between leaves it truncated, Load fails
  and the device starts without zones;
  docs/testing/behavior/zone-management.md:390 says "Zone state should be
  persisted to survive device restart".
- `RemovedNotTrusted` (pkg/service/device_service_zone.go:888): RemoveZone
  removes the certificates from the store in memory and never calls its Save, so
  they are loaded and trusted again after a restart; docs/security.md:459 gives
  as revocation "RemoveZone command".
- `FailsafeOnlyWhenAllLost` (pkg/service/device_service_zone.go:632): The timer
  is started on registration and on connection, and nothing in the service stops
  or refreshes it while the zone is connected, so failsafe triggers
  FailsafeTimeout after a connection that never broke;
  docs/testing/behavior/failsafe-timing.md:230 says "FAILSAFE state is entered
  only when ALL zone connections are lost".
- `ReconnectEndsFailsafe` (pkg/service/device_service_zone.go:144):
  handleOperationalConnection restarts the timer and leaves FailsafeActive set,
  and RefreshFailsafe, which would clear it, has no caller;
  docs/testing/behavior/failsafe-timing.md:115 says "If a controller reconnects
  before failsafeDuration expires, the device returns to CONTROLLED state."
- `FailsafeSurvivesRestart` (pkg/service/device_service_persistence.go:182):
  LoadState restores the timer's state but not the zone's FailsafeActive, and a
  timer in failsafe calls nobody; docs/testing/behavior/failsafe-timing.md:373
  says "Device remains in FAILSAFE after restart".
- `CancelsOwnTimers` (pkg/service/device_service_failsafe.go:19): handleFailsafe
  of a zone removed meanwhile reads the zero value from zoneIndexMap and cancels
  the duration timers of index 0; pkg/service/device_service_failsafe.go:23 says
  "Cancel duration timers for this zone". Constants: `Commanders = Expiring =
  {z1, z2}`.

### CommissioningWindow

- `ExitSparesNewer` (pkg/service/device_service_commissioning.go:323):
  exitCommissioningForEpoch compares the epoch under the mutex and stops the
  advertisement after releasing it, so an EnterCommissioningMode in between
  loses its advertisement and its timer;
  pkg/service/device_service_commissioning.go:288 says "This prevents a stale
  exit from overriding a concurrent EnterCommissioningMode". Constants: `Conns =
  {c1}`, `ZoneTypes = {GRID}`, `MaxZones = MaxAttempts = 1`.
- `TimeoutSparesNewer` (pkg/discovery/advertiser.go:270): A timer that has fired
  cannot be stopped and its callback, once it gets the mutex, stops whatever
  window is open; pkg/discovery/advertiser.go:233 says "Stop any existing timer
  to prevent a leaked goroutine from firing exitCommissioningModeInternal at the
  wrong time". Constants: `Callers =
  {p1, p2}`, and `Conns = {c1}`, `ZoneTypes = {GRID}`, `MaxZones =
  MaxAttempts = 1`.
- `ReachableWhenPaired` (pkg/service/device_service_commissioning.go:270):
  ExitCommissioningMode and the timeout callback count the zones before they
  stop the listener, so a connection that has checked the listener and registers
  its zone in between is left with a device that does not listen;
  pkg/service/device_service_commissioning.go:565 says "Ensure listener is
  running for the controller's operational reconnection." Constants: `Conns =
  {c1}`, `ZoneTypes = {GRID}`, `MaxZones = MaxAttempts = 1`.
- `WindowCloses` (pkg/service/device_service_commissioning.go:276):
  ExitCommissioningMode closes the gate first and cancels the timer last; an
  EnterCommissioningMode in between opens the gate again and loses its timer, so
  the gate stays open; docs/security.md:640 says "Device MUST close
  commissioning window after default duration expires". Constants: `Conns =
  {c1}`, `ZoneTypes = {GRID}`, `MaxZones = MaxAttempts = 1`.

### Subscriptions

- `SubscribeLosesNoChange`
  (pkg/service/dispatch/notification_dispatcher.go:214): HandleSubscribe reads
  the current values before manager.Subscribe registers the subscription, so a
  change in between is recorded nowhere and full heartbeats resend the old
  value; docs/testing/behavior/subscription-semantics.md:172 says "All
  subscribed attributes with current values".
- `UnsubscribeSparesOthers` (pkg/subscription/manager.go:162): Unsubscribe
  shifts the index's backing array in place while NotifyChange iterates over a
  slice of it outside the lock, so a change may skip a subscription;
  pkg/subscription/manager.go:173 says "NotifyChange records a value change for
  dispatch to relevant subscriptions." Constants: those of
  `Subscriptions_routes.cfg` with `Setters = FALSE`, `MaxSubscriptions = 3`.
- `LastValueWins` (pkg/subscription/subscription.go:179): The value is set under
  the attribute's lock and recorded later under the subscription's, so of two
  concurrent changes the earlier may be recorded last and stay;
  docs/testing/behavior/subscription-semantics.md:40 says "When multiple changes
  occur within minInterval, only the final value is sent". Constants: `Attrs =
  {a}`, `Writers = {w1, w2}`.
- `SettersNotify` (pkg/features/energy_control_gen.go:1304): The generated
  setters, by which the limit resolver sets effective limits and control state,
  call attr.SetValueInternal and bypass notifyAttributeChanged;
  pkg/service/device_service_zone.go:469 says "Bridge to zone session
  notifications so subscribed controllers receive push updates for attribute
  changes from command handlers, timer callbacks, and interactive commands."
  Constants: `Setters = TRUE`.
- `BounceBackSuppressed` (pkg/subscription/subscription.go:339): valuesEqual
  returns false for types it does not list, such as the uint8 of every
  enumeration, so equal values are sent again;
  docs/testing/behavior/subscription-semantics.md:104 says "If the value at
  notification time equals the value at the last notification, no notification
  is sent." Constants: `Comparable = {v0}`.
- `HeartbeatInTime` (pkg/subscription/subscription.go:220):
  GetPendingNotification sets lastNotified also when every change was suppressed
  and nothing is sent, which postpones the heartbeat;
  pkg/subscription/subscription.go:97 says "MaxInterval is the maximum time
  without notification (heartbeat)."
- `NotificationsSpaced` (pkg/subscription/subscription.go:197): Only the
  coalescing window is compared with MinInterval, so changes may follow a
  heartbeat at once; pkg/subscription/subscription.go:94 says "MinInterval is
  the minimum time between notifications."
- `PrimingDelivered` (pkg/service/dispatch/notification_dispatcher.go:245): The
  subscription is mapped to its connection after manager.Subscribe has sent the
  priming notification, which handleNotification therefore drops;
  pkg/subscription/manager.go:77 says "It sends a priming notification with all
  current values via the callback."
- `SubscriptionsEndWithSession`
  (pkg/service/dispatch/notification_dispatcher.go:246): HandleSubscribe maps
  and keeps a subscription whose connection was unregistered since its first
  check; pkg/service/zone_session.go:447 says "Clear all subscriptions for this
  zone".
- `CloseEnds` (pkg/service/zone_session.go:439): Close holds the session's mutex while
  dispatcher.Stop waits for the loop, which may be in a send to a peer that has
  stopped reading; framedConnection.Send has no deadline. RemoveZone's clean-up closes the
  session first, and stops advertising and saves the state after it. pkg/service/zone_session.go:425 says "Close closes the
  session and cleans up resources."

### InteractionClient

- `ResponseAfterCloseDropped` (pkg/interaction/client.go:161): HandleResponse
  sends on the channel outside the lock; if Close has closed it since the
  lookup, the send panics, default or not; pkg/interaction/client.go:163 says
  "Channel full or closed".
- `CloseCancelsPending` (pkg/interaction/client.go:117): sendRequest checks
  closed and registers its channel in two sections, so a request may become
  pending after Close and is left to its timeout;
  pkg/service/zone_session.go:442 says "Close the interaction client (cancels
  pending requests)". 

### DeviceSession

- `CsrAnswersRequest` (pkg/service/controller_renewal.go:175): a CSR that comes
  after its renewal has ended waits in the session and is taken by the next
  renewal's handler. Its nonce hash is not compared with the nonce, so the
  certificate is issued for a key that the device has replaced; the device refuses
  it, so nothing wrong is installed, but the renewal fails. docs/security.md:557
  says "Controller validates NonceHash matches sent nonce".
- `RenewalMessagesAreRenewals` (pkg/service/device_session.go,
  pkg/wire/codec.go:232): the reader tells renewal messages by the absence of key
  4, which every response lacks, so a response without payload whose message ID
  is 33 is taken for an acknowledgement; likewise one whose ID is 1, 2 or 3 is
  taken for a control message and dropped. pkg/service/zone_session.go:524 says
  "To distinguish them, verify that key 4 (featureID, present in all requests) is
  absent", which holds for requests only.
- `AcknowledgedSurvives` (pkg/service/zone_session.go:505): the acknowledgement is
  sent before the callback stores the certificate, and what it fails to store is
  logged; a restart in between leaves the device with the old certificate while
  the controller counts on the new one.

Also seen: the sequence number of a renewal is always 2 and nothing compares it;
the context of the `renew` command has no deadline, so that a lost answer holds it
until the controller ends; the deferred SetRenewalHandler(nil) of one renewal takes
out the handler of another (this is one of the cases of `disturbed`).

### ControllerService

- `OneConnectionPerDevice` (pkg/service/controller_service.go:1118): whether the
  device is connected is asked before dialing, and the session is stored without
  asking again, so two attempts leave two connections, and the end of the first
  closes the session of the second; docs/transport.md:138 says "One persistent
  connection per controller-device pair".
- `DisconnectedIsFound` (pkg/service/controller_service.go:1112): reconnection
  follows from operational discovery alone, which reports a device once. One that
  was reported while it counted as connected is not reported again unless it goes
  away; docs/transport.md:140 says "Automatic reconnection on disconnect".
- `OneZone` (pkg/service/controller_service.go:467): every commissioning replaces
  the controller's zone ID by one derived from its own secret, and discovery and
  RemoveDevice use the last; docs/decision-log.md:450 says "Zone ID is derived
  from CA certificate fingerprint". Constants: `Devices = {d1, d2}`.
- `SessionOfKnown` (pkg/service/controller_service.go:1138): the section that
  stores the session does not look whether the device was removed meanwhile.
- `DecommissionedDropped` (pkg/service/controller_service.go:738): Decommission
  neither tells the device nor closes its connection, whose message loop goes on;
  pkg/service/controller_service.go:737 says "Decommission removes a device from
  the zone."
- `StoppedDiscoveryEnds` (pkg/service/controller_service.go:1040): a browse that
  was cancelled clears, when it ends, the flag and the cancel function of the one
  started after it, which can then not be stopped;
  pkg/service/controller_service.go:1347 says "StopOperationalDiscovery stops
  background operational discovery."
- `RemovedIsForgotten` (pkg/service/controller_remove.go:17): RemoveDevice does not
  call SaveState, so a controller that does not shut down gracefully knows the
  device again after its restart; pkg/service/controller_service.go:1388 says of
  SaveState "This should be called on graceful shutdown and after commissioning
  changes."
- `FileReadable` (pkg/persistence/state.go): the controller's file is overwritten
  in place, as the device's is.

Also seen: the version check (DEC-050) of an attempt to reconnect runs before the
message loop that would deliver its answer, so it always times out and is taken as
passed; the `reconnect` command stops discovery and leaves it to other calls to
start it again (cmd/mash-controller/interactive/controller.go:1271).

### Commissioning

- `OnlyWrongDevicesTried` (pkg/service/controller_service.go:667): any PASE
  failure marks a device as tried, the right one too if it was busy, cooling down
  or the connection broke, and it is passed over until polling ends; the comment
  on `tried` says "deterministic -- wrong device will never succeed".
- `RequestOpensWindow` (pkg/discovery/mdns.go:789,
  handlePairingRequestDiscovered): the browser reports an announcement once; one
  that comes while the window is open is ignored and, when the window has
  expired, not reported again; docs/decision-log.md:2765 says "Pairing request
  mechanism provides re-triggering if window expires".
- `ListensBelowMax` (pkg/service/device_service_discovery.go:198, :241): the
  cancelled listener clears the flag of its successor, and decisions are made on
  values read before, so that a device may listen twice or not at all;
  pkg/service/device_service_discovery.go:258 says "Below max zones and not
  listening - start".
- `StoreHasRoom` (pkg/service/device_service_commissioning.go:808): an
  acknowledgement that cannot be sent makes performCertExchange fail before the
  rollback is registered. The certificates stay; three such failures fill the store
  (pkg/cert/types.go:32), and a device without zones cannot be commissioned any
  more. Comments in pkg/cert/store.go:24 and :31 speak of five zones.
- `BothAgree` (pkg/service/device_service_commissioning.go:566): the device may roll
  back after its acknowledgement, and the acknowledgement may be lost, so that one
  side believes in a zone that the other does not have;
  docs/decision-log.md:3695 has the controller return after it with its
  operational certificate.

Also seen: the listener is only started after a change of zones
(pkg/service/device_service_zone.go:668, :908), while docs/discovery.md:130 says
that devices should listen when "Uncommissioned (no zones configured)"; a device
that never had a zone does not.

## 7. What is not modelled

- *Of the renewal*: the controller's own certificate and its daily check, which no
  other step reads; X.509.
- *Of the controller*: Stop, after which nothing is kept; the discovery of
  commissionable devices for the user interface; the creation of the Zone CA at
  the first start.
- *Of the commissioning exchange*: TEST zones, the backoff delay, and other devices
  with the same discriminator, which refuse and change nothing.
- *The enable-key mode of the commissioning window*: TEST zones at pairing, the
  eviction of disconnected zones before a pairing and the automatic re-entry
  after a disconnection. ZoneSessions has the eviction, CommissioningWindow
  models a device without an enable-key.
- *Transport's server, client and keep-alive; zone manager; connection manager;
  interaction server; PASE window*: nothing in the repository uses them outside
  their own tests; the service has loops of its own, which are modelled. The
  framing is I/O.
- *PASE, SPAKE2+, X.509, TLS*: cryptography. Success or failure of a handshake is
  a nondeterministic outcome, and a certificate is the zone it names.
- *mDNS, CBOR, JSON, PEM, logs*: formats and network I/O.
- *Data model, features, use cases*: generated tables and stateless matching. An
  attribute's value and its notification are in Subscriptions.
- *Backoff of failed PASE attempts* (`pase_tracker.go`): a table from a counter to
  a delay; it postpones an answer and changes nothing else.
- *Commands, web front end, test harness*: programs around the packages.

Within the modelled components the following is left out: state-change
callbacks that only log or emit events; failed sends, whose errors the code
ignores (`dispatch/notification_dispatcher.go:382`); notifications to zones of
their own effective values (`OnZoneMyChange`); the counter-only getters; the
pre-zone-list format of the state file; `AutoCorrectIntervals` and empty
heartbeats, which the dispatcher does not configure.

## 8. Plan

The models that were planned are there. What is left, in order:

1. *Theorems*: the safety properties of the runs are proved. What a restart during
   an overlap may and may not lose is stated nowhere yet: that a file that can be
   read is always a state the memory had would be the next theorem of ZoneRegistry.
2. *Refinements*: ZoneMembership, the abstract promise of the registry (a set of
   members, of which some are in failsafe), implemented by ZoneRegistry for
   behaviours without a crash during a write; FailsafeTimer as the implementation
   of the registry's timers.
3. *CommissioningWindow, enable-key mode*: automatic re-entry with its holdoff and
   the evictions before a commissioning connection is accepted.
4. *UseCases*: the matching of features with use-case definitions as operators,
   checked against a reference definition.

## 9. Running it

    tlc -workers 2 -config FailsafeTimer.cfg MCFailsafeTimer
    tlc -workers 2 -config ZoneRegistry.cfg MCZoneRegistry
    tlc -workers 2 -config InteractionClient.cfg InteractionClient
    tlapm AttributeProofs.tla

and so on for the others: a configuration belongs to the `MC` module of its
prefix, or to the module itself where there is none. No run needs more than four
minutes on two cores; AttributeProofs, LimitResolverProofs and DeviceSessionProofs are the largest proofs.
