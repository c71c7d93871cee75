--------------------------- MODULE Commissioning ---------------------------
(***************************************************************************)
(* Controllers commission one device (CommissionDevice and Commission in   *)
(* mash-go/pkg/service/controller_service.go, IssueInitialCertSync in      *)
(* controller_renewal.go; handleCommissioningConnection and                *)
(* performCertExchange in device_service_commissioning.go; the listener    *)
(* for pairing requests in device_service_discovery.go).                   *)
(*                                                                         *)
(* A controller tries the devices with the discriminator it looks for,     *)
(* announces a pairing request when all of them failed, and polls.  Other  *)
(* devices with that discriminator refuse its setup code, which changes    *)
(* nothing and is left out.  On a connection the two sides exchange        *)
(* messages in lockstep; it holds at most one, which a side that closes    *)
(* leaves to be read and a broken connection loses.  The device answers in *)
(* a goroutine per connection, the commissioning lock admitting one.       *)
(*                                                                         *)
(* CommissioningWindow has the sections in which the window opens and      *)
(* closes; here it is open or closed.  ZoneRegistry has the restarts.      *)
(***************************************************************************)
EXTENDS Naturals, FiniteSets

CONSTANTS
    Controllers, \* each has a Zone CA of a type of its own
    Browses,     \* bound: listeners for pairing requests at a time
    MaxZones,    \* DeviceConfig.MaxZones
    StoreLimit,  \* MaxZones of pkg/cert
    MaxStored,   \* bound: zones whose certificates are stored
    RemoveZone, Cancelled, None

Messages == {"pase", "paired", "error", "request", "csr", "install", "ack"}

ASSUME ConstantsAssumption ==
    /\ MaxZones \in Nat /\ StoreLimit \in Nat /\ MaxZones <= StoreLimit /\ MaxStored \in Nat
    /\ RemoveZone \notin Controllers /\ Cancelled # None
    /\ None \notin Controllers \cup Browses \cup Messages
    /\ \A reported \in SUBSET Controllers : reported \notin {None, Cancelled}

VARIABLES
    step,      \* where CommissionDevice of a controller is
    tried,     \* controllers for which the device failed in a round of polling
    announced, \* controllers that announce a pairing request
    known,     \* zones in which a controller has listed the device
    link,      \* the connection of a controller: its message, whether it is alive
    at,        \* where the device's goroutine for that connection is
    zone,      \* the zone ID both sides derived from the secret, named when it matters
    stored,    \* zones whose certificates were stored
    lock,      \* commissioningConnActive: for whom
    cooldown,  \* lastCommissioningAttempt is set
    window,    \* the commissioning window is open
    current,   \* goroutines that captured the epoch of the present window
    zones,     \* connectedZones
    certs,     \* the device's certificate store
    listening, \* pairingRequestActive
    cancel,    \* pairingRequestCancel: the browse it ends
    browse,    \* a browse: the requests it has reported, until it is cancelled
    update,    \* calls of updatePairingRequestListening, and what they are about to do
    excused,   \* ghost: zones left or rolled back, or whose acknowledgement was lost
    orphaned,  \* ghost: zones whose certificates a failed acknowledgement left behind
    overlap    \* ghost: a listener, or a decision about one, was overtaken

searching == <<step, tried, announced>>
admission == <<stored, lock, cooldown>>
wire == <<link, at, zone>>
store == <<zones, certs>>
listener == <<listening, cancel, browse, update, overlap>>
ghosts == <<excused, orphaned>>
vars == <<searching, known, wire, admission, window, current, store, listener, ghosts>>

ZoneIDs == Controllers \X (1..MaxStored)
Updaters == Controllers \cup {RemoveZone}

TypeOK ==
    /\ step \in [Controllers -> {"idle", "try", "pase", "csr", "ack", "poll"}]
    /\ tried \subseteq Controllers /\ announced \subseteq Controllers
    /\ known \subseteq ZoneIDs /\ zones \subseteq ZoneIDs /\ certs \subseteq ZoneIDs
    /\ excused \subseteq ZoneIDs /\ orphaned \subseteq ZoneIDs
    /\ link \in [Controllers -> [alive : BOOLEAN, msg : Messages \cup {None}]]
    /\ at \in [Controllers -> {"none", "first", "handshake", "request", "install",
                              "stored", "acked", "registered"}]
    /\ zone \in [Controllers -> ZoneIDs \cup {None}] /\ stored \in 0..MaxStored
    /\ lock \in Controllers \cup {None} /\ cooldown \in BOOLEAN /\ window \in BOOLEAN /\ current \subseteq Controllers
    /\ listening \in BOOLEAN /\ cancel \in Browses \cup {None}
    /\ browse \in [Browses -> {None, Cancelled} \cup SUBSET Controllers]
    /\ update \in [Updaters -> {"none", "decide", "start", "stop", "done"}]
    /\ overlap \in BOOLEAN

Init ==
    /\ step = [k \in Controllers |-> "idle"]
    /\ tried = {} /\ announced = {} /\ known = {}
    /\ link = [k \in Controllers |-> [msg |-> None, alive |-> FALSE]]
    /\ at = [k \in Controllers |-> "none"] /\ zone = [k \in Controllers |-> None]
    /\ stored = 0 /\ lock = None /\ cooldown = FALSE /\ window = FALSE /\ current = {}
    /\ zones = {} /\ certs = {}
    /\ listening = FALSE /\ cancel = None /\ browse = [b \in Browses |-> None]
    /\ update = [p \in Updaters |-> "none"]
    /\ excused = {} /\ orphaned = {} /\ overlap = FALSE

Full == Cardinality(zones) >= MaxZones

\* A message sent on a broken connection is lost; the sender notices it when it
\* reads the answer.
Send(k, m) == link' = [link EXCEPT ![k].msg = IF link[k].alive THEN m ELSE None]

Received(k, m) == link[k].msg = m
Broken(k) == ~link[k].alive /\ link[k].msg = None

Goto(k, place) == at' = [at EXCEPT ![k] = place]

-----------------------------------------------------------------------------
(* The controller. *)

Step(k, s) == step' = [step EXCEPT ![k] = s]

\* CommissionDevice returns, which withdraws the pairing request.
Return(k) ==
    /\ Step(k, "idle")
    /\ tried' = tried \ {k}
    /\ announced' = announced \ {k}

\* The pairing request is announced once, after the first search.
Announce(k) == Step(k, "poll") /\ announced' = announced \cup {k}

\* The first search of CommissionDevice: it may find the device if the window is
\* open.
CommissionDevice(k) ==
    /\ step[k] = "idle"
    /\ \/ window /\ Step(k, "try") /\ UNCHANGED announced
       \/ Announce(k)
    /\ UNCHANGED <<tried, known, wire, admission, window, current, store, listener, ghosts>>

\* A later search, for devices that have not failed.
Poll(k) ==
    /\ step[k] = "poll" /\ window /\ k \notin tried
    /\ Step(k, "try")
    /\ UNCHANGED <<tried, announced, known, wire, admission, window, current, store,
                   listener, ghosts>>

\* Commission connects and sends the PASE request.  Bound: a controller has one
\* connection at a time, so it waits for the goroutine of its last one to end; the
\* code would let it dial again at once.
Dial(k) ==
    /\ step[k] = "try" /\ window
    /\ at[k] = "none"
    /\ link' = [link EXCEPT ![k] = [msg |-> "pase", alive |-> TRUE]]
    /\ Goto(k, "first")
    /\ Step(k, "pase")
    /\ UNCHANGED <<tried, announced, known, zone, admission, window, current, store,
                   listener, ghosts>>

\* It cannot connect, as when the window has closed: not a PASE failure.
DialFails(k) ==
    /\ step[k] = "try"
    /\ Return(k)
    /\ UNCHANGED <<known, wire, admission, window, current, store, listener, ghosts>>

\* Handshake fails, for whatever reason: the controller polls, for other devices
\* if it was polling.
HandshakeFails(k) ==
    /\ step[k] = "pase" /\ (Received(k, "error") \/ Broken(k))
    /\ link' = [link EXCEPT ![k].msg = None]
    /\ Announce(k)
    /\ tried' = IF k \in announced THEN tried \cup {k} ELSE tried
    /\ UNCHANGED <<known, at, zone, admission, window, current, store, listener, ghosts>>

\* IssueInitialCertSync: the request, then the certificate for the CSR.
Handshake(k) ==
    /\ step[k] = "pase" /\ Received(k, "paired")
    /\ Send(k, "request")
    /\ Step(k, "csr")
    /\ UNCHANGED <<tried, announced, known, at, zone, admission, window, current, store,
                   listener, ghosts>>

SignCSR(k) ==
    /\ step[k] = "csr" /\ Received(k, "csr")
    /\ Send(k, "install")
    /\ Step(k, "ack")
    /\ UNCHANGED <<tried, announced, known, at, zone, admission, window, current, store,
                   listener, ghosts>>

Hangup(k) ==
    /\ Return(k)
    /\ zone' = [zone EXCEPT ![k] = IF at[k] = "none" THEN None ELSE @]

\* The acknowledgement: the device is listed.
Acknowledged(k) ==
    /\ step[k] = "ack" /\ Received(k, "ack")
    /\ link' = [link EXCEPT ![k].msg = None]
    /\ known' = known \cup {zone[k]}
    /\ Hangup(k)
    /\ UNCHANGED <<at, admission, window, current, store, listener, ghosts>>

\* Another answer, or none: CommissionDevice returns the error.
ExchangeFails(k) ==
    /\ step[k] \in {"csr", "ack"} /\ (Received(k, "error") \/ Broken(k))
    /\ link' = [link EXCEPT ![k] = [msg |-> None, alive |-> FALSE]]
    /\ Hangup(k)
    /\ UNCHANGED <<known, at, admission, window, current, store, listener, ghosts>>

\* The pairing request times out or is cancelled, which a round of attempts
\* does not notice.
StopPolling(k) ==
    /\ step[k] = "poll"
    /\ Return(k)
    /\ UNCHANGED <<known, wire, admission, window, current, store, listener, ghosts>>

-----------------------------------------------------------------------------
(* The device's goroutine for a connection. *)

\* The goroutine ends: it has closed the connection, and releases the lock.  The
\* zone ID is kept while one side uses it.
Finish(k) ==
    /\ Goto(k, "none")
    /\ lock' = IF lock = k THEN None ELSE lock
    /\ cooldown' = (cooldown \/ lock = k)
    /\ zone' = [zone EXCEPT ![k] = IF step[k] = "ack" THEN @ ELSE None]

Close(k, m) ==
    link' = [link EXCEPT ![k] = [msg |-> IF @.alive THEN m ELSE None, alive |-> FALSE]]

\* acceptCommissioningConnection, once the PASE request has come.
Accept(k) ==
    /\ at[k] = "first" /\ Received(k, "pase")
    /\ lock = None /\ ~Full
    /\ lock' = k
    /\ UNCHANGED <<stored, cooldown>>
    /\ link' = [link EXCEPT ![k].msg = None]
    /\ Goto(k, "handshake")
    /\ UNCHANGED <<searching, known, zone, window, current, store, listener, ghosts>>

\* Another connection has the lock, the cooldown after one has not passed, or
\* the device is full.
Reject(k) ==
    /\ at[k] = "first" /\ Received(k, "pase")
    /\ lock # None \/ cooldown \/ Full
    /\ Close(k, "error")
    /\ Finish(k)
    /\ UNCHANGED <<searching, known, stored, window, current, store, listener, ghosts>>

\* CompleteHandshake succeeds,
Pair(k) ==
    /\ at[k] = "handshake"
    /\ Send(k, "paired")
    /\ Goto(k, "request")
    /\ UNCHANGED <<searching, known, zone, admission, window, current, store, listener, ghosts>>

\* or it fails or takes too long, as may the wait for the request.
GiveUp(k) ==
    /\ at[k] \in {"first", "handshake"}
    /\ Close(k, None)
    /\ Finish(k)
    /\ UNCHANGED <<searching, known, stored, window, current, store, listener, ghosts>>

SameType(k) == \E z \in zones : z[1] = k

\* performCertExchange reads the request and answers with a CSR,
ReadRequest(k) ==
    /\ at[k] = "request" /\ Received(k, "request")
    /\ ~SameType(k) /\ ~Full
    /\ Send(k, "csr")
    /\ Goto(k, "install")
    /\ UNCHANGED <<searching, known, zone, admission, window, current, store, listener, ghosts>>

\* or validateZone refuses the zone.
RefuseZone(k) ==
    /\ at[k] = "request" /\ Received(k, "request")
    /\ SameType(k) \/ Full
    /\ Close(k, "error")
    /\ Finish(k)
    /\ UNCHANGED <<searching, known, stored, window, current, store, listener, ghosts>>

\* It stores the certificates,
InstallUnstored(k) ==  \* mutant: it acknowledges what it has not stored
    /\ at[k] = "install" /\ Received(k, "install") /\ stored < MaxStored
    /\ stored' = stored + 1
    /\ zone' = [zone EXCEPT ![k] = <<k, stored + 1>>]
    /\ link' = [link EXCEPT ![k].msg = None]
    /\ Goto(k, "stored")
    /\ UNCHANGED <<searching, known, lock, cooldown, window, current, store, listener, ghosts>>

Install(k) ==
    /\ at[k] = "install" /\ Received(k, "install") /\ stored < MaxStored
    /\ Cardinality(certs) < StoreLimit
    /\ stored' = stored + 1
    /\ zone' = [zone EXCEPT ![k] = <<k, stored + 1>>]
    /\ certs' = certs \cup {<<k, stored + 1>>}
    /\ link' = [link EXCEPT ![k].msg = None]
    /\ Goto(k, "stored")
    /\ UNCHANGED <<searching, known, lock, cooldown, window, current, zones, listener, ghosts>>

\* or there is no room for them,
StoreFull(k) ==
    /\ at[k] = "install" /\ Received(k, "install")
    /\ Cardinality(certs) >= StoreLimit
    /\ Close(k, None)
    /\ Finish(k)
    /\ UNCHANGED <<searching, known, stored, window, current, store, listener, ghosts>>

\* or no message comes.
ReadFails(k) ==
    /\ at[k] \in {"request", "install"} /\ Broken(k)
    /\ Finish(k)
    /\ UNCHANGED <<searching, known, link, stored, window, current, store, listener, ghosts>>

\* It acknowledges, perhaps to nobody,
Acknowledge(k) ==
    /\ at[k] = "stored"
    /\ Send(k, "ack")
    /\ Goto(k, "acked")
    /\ excused' = IF link[k].alive THEN excused ELSE excused \cup {zone[k]}
    /\ UNCHANGED <<searching, known, zone, admission, window, current, store, listener, orphaned>>

\* or fails to, which leaves the certificates.
AcknowledgeFails(k) ==
    /\ at[k] = "stored" /\ ~link[k].alive
    /\ orphaned' = orphaned \cup {zone[k]}
    /\ Finish(k)
    /\ UNCHANGED <<searching, known, link, stored, window, current, store, listener, excused>>

\* A decision about the listener that has not been carried out is out of date
\* when the zones change.
Overtaken(p) == overlap' = (overlap \/ \E q \in Updaters \ {p} : update[q] \in {"start", "stop"})

\* RegisterZoneAwaitingConnection, after the epoch of the window was noted.
Register(k) ==
    /\ at[k] = "acked"
    /\ zones' = zones \cup {zone[k]}
    /\ current' = current \cup {k}
    /\ update' = [update EXCEPT ![k] = "decide"]
    /\ Overtaken(k)
    /\ Goto(k, "registered")
    /\ UNCHANGED <<searching, known, link, zone, admission, window, certs, listening, cancel,
                   browse, ghosts>>

\* ensureListenerStarted fails, having been stopped with the window:
\* rollbackCommissioningCertArtifacts.
RollBackNothing(k) ==  \* mutant: the certificates stay
    /\ at[k] = "acked" /\ ~window /\ zones = {}
    /\ link' = [link EXCEPT ![k].alive = FALSE]
    /\ excused' = excused \cup {zone[k]}
    /\ Finish(k)
    /\ UNCHANGED <<searching, known, stored, window, current, store, listener, orphaned>>

RollBack(k) ==
    /\ at[k] = "acked" /\ ~window /\ zones = {}
    /\ certs' = certs \ {zone[k]}
    /\ link' = [link EXCEPT ![k].alive = FALSE]
    /\ excused' = excused \cup {zone[k]}
    /\ Finish(k)
    /\ UNCHANGED <<searching, known, stored, window, current, zones, listener, orphaned>>

\* exitCommissioningForEpoch closes the window unless it was opened again.
Exit(k) ==
    /\ at[k] = "registered" /\ update[k] = "done"
    /\ window' = (window /\ k \notin current)
    /\ current' = current \ {k}
    /\ update' = [update EXCEPT ![k] = "none"]
    /\ link' = [link EXCEPT ![k].alive = FALSE]
    /\ Finish(k)
    /\ UNCHANGED <<searching, known, stored, store, listening, cancel, browse, overlap, ghosts>>

-----------------------------------------------------------------------------
(* The window, and the zones of the device. *)

\* EnterCommissioningMode opens the window and begins a new epoch.
OpenWindow == window' = TRUE /\ current' = {}

\* It is called by the application,
EnterCommissioningMode ==
    /\ ~window
    /\ OpenWindow
    /\ UNCHANGED <<searching, known, wire, admission, store, listener, ghosts>>

\* and the window times out.
WindowTimeout ==
    /\ window
    /\ window' = FALSE
    /\ UNCHANGED <<searching, known, wire, admission, current, store, listener, ghosts>>

\* RemoveZone: the zone and its certificates, then the listener, then the window.
\* The controller forgets the device.
LeaveZoneUnheard(z) ==  \* mutant: updatePairingRequestListening is not called
    /\ update[RemoveZone] = "none" /\ z \in zones
    /\ zones' = zones \ {z} /\ certs' = certs \ {z} /\ known' = known \ {z}
    /\ excused' = excused \cup {z}
    /\ UNCHANGED <<searching, wire, admission, window, current, listener, orphaned>>

LeaveZone(z) ==
    /\ update[RemoveZone] = "none" /\ z \in zones
    /\ zones' = zones \ {z} /\ certs' = certs \ {z} /\ known' = known \ {z}
    /\ excused' = excused \cup {z}
    /\ update' = [update EXCEPT ![RemoveZone] = "decide"]
    /\ Overtaken(RemoveZone)
    /\ UNCHANGED <<searching, wire, admission, window, current, listening, cancel, browse,
                   orphaned>>

Reopen ==
    /\ update[RemoveZone] = "done"
    /\ update' = [update EXCEPT ![RemoveZone] = "none"]
    /\ OpenWindow
    /\ UNCHANGED <<searching, known, wire, admission, store, listening, cancel, browse,
                   overlap, ghosts>>

-----------------------------------------------------------------------------
(* Listening for pairing requests. *)

unheard == <<searching, known, wire, admission, store, ghosts>>

\* updatePairingRequestListening looks at the zones,
Decide(p) ==
    /\ update[p] = "decide"
    /\ update' = [update EXCEPT ![p] = IF Full = listening THEN IF Full THEN "stop" ELSE "start"
                                       ELSE "done"]
    /\ UNCHANGED <<unheard, window, current, listening, cancel, browse, overlap>>

\* and starts a browse,
StartPairingRequestListening(p) ==
    /\ update[p] = "start"
    /\ update' = [update EXCEPT ![p] = "done"]
    /\ \/ /\ ~listening /\ ~Full
          /\ \E b \in Browses :
                /\ browse[b] = None
                /\ browse' = [browse EXCEPT ![b] = {}]
                /\ cancel' = b
          /\ listening' = TRUE
       \/ /\ (listening \/ Full)
          /\ UNCHANGED <<listening, cancel, browse>>
    /\ UNCHANGED <<unheard, window, current, overlap>>

\* or cancels the one that runs.
StopPairingRequestListening(p) ==
    /\ update[p] = "stop"
    /\ update' = [update EXCEPT ![p] = "done"]
    /\ listening' = FALSE
    /\ cancel' = IF listening THEN None ELSE cancel
    /\ browse' = IF listening /\ cancel # None THEN [browse EXCEPT ![cancel] = Cancelled]
                 ELSE browse
    /\ UNCHANGED <<unheard, window, current, overlap>>

Live == {b \in Browses : browse[b] \notin {None, Cancelled}}

\* runPairingRequestListener, once it is cancelled: whoever listens, nobody does.
EndBrowse(b) ==
    /\ browse[b] = Cancelled
    /\ browse' = [browse EXCEPT ![b] = None]
    /\ listening' = FALSE
    /\ overlap' = (overlap \/ Live # {})
    /\ UNCHANGED <<unheard, window, current, cancel, update>>

\* handlePairingRequestDiscovered: a request is reported once, and opens the
\* window unless it is open or the device is full.
Discovered(b, k) ==
    /\ b \in Live /\ k \in announced \ browse[b]
    /\ browse' = [browse EXCEPT ![b] = @ \cup {k}]
    /\ \/ ~window /\ ~Full /\ OpenWindow
       \/ (window \/ Full) /\ UNCHANGED <<window, current>>
    /\ UNCHANGED <<unheard, listening, cancel, update, overlap>>

\* The request was withdrawn, and the browser has noticed.
Withdrawn(b, k) ==
    /\ b \in Live /\ k \in browse[b] \ announced
    /\ browse' = [browse EXCEPT ![b] = @ \ {k}]
    /\ UNCHANGED <<unheard, window, current, listening, cancel, update, overlap>>

-----------------------------------------------------------------------------
\* The network, or the reaper of stale connections, while it matters.
BreakConnection(k) ==
    /\ link[k].alive /\ step[k] \in {"pase", "csr", "ack"}
    /\ link' = [link EXCEPT ![k] = [msg |-> None, alive |-> FALSE]]
    /\ excused' = IF link[k].msg = "ack" THEN excused \cup {zone[k]} ELSE excused
    /\ UNCHANGED <<searching, known, at, zone, admission, window, current, store, listener,
                   orphaned>>

Controller(k) ==
    \/ CommissionDevice(k) \/ Poll(k) \/ Dial(k) \/ DialFails(k) \/ HandshakeFails(k) \/ Handshake(k)
    \/ SignCSR(k) \/ Acknowledged(k) \/ ExchangeFails(k) \/ StopPolling(k)

Handler(k) ==
    \/ Accept(k) \/ Reject(k) \/ Pair(k) \/ GiveUp(k) \/ ReadRequest(k) \/ RefuseZone(k)
    \/ Install(k) \/ StoreFull(k) \/ ReadFails(k) \/ Acknowledge(k) \/ AcknowledgeFails(k)
    \/ Register(k) \/ RollBack(k) \/ Exit(k)

Update(p) ==
    Decide(p) \/ StartPairingRequestListening(p) \/ StopPairingRequestListening(p)

Next ==
    \/ \E k \in Controllers : Controller(k) \/ Handler(k) \/ BreakConnection(k)
    \/ \E p \in Updaters : Update(p)
    \/ \E z \in ZoneIDs : LeaveZone(z)
    \/ EnterCommissioningMode \/ WindowTimeout \/ Reopen
    \/ \E b \in Browses : EndBrowse(b)
    \/ \E b \in Browses, k \in Controllers : Discovered(b, k) \/ Withdrawn(b, k)

Spec == Init /\ [][Next]_vars

-----------------------------------------------------------------------------
Handled(z) == zone[z[1]] = z

\* A controller lists a device only if the device has stored its certificates
\* and joins the zone; and a device is in no zone whose controller has not listed
\* it and is not about to: the acknowledgement tells the truth unless it is lost,
\* the zone is left, or the device has to roll back.
MembersAgree ==
    \A z \in ZoneIDs \ excused :
        /\ z \in known => z \in certs /\ (z \in zones \/ (Handled(z) /\ at[z[1]] = "acked"))
        /\ z \in zones => z \in known \/ step[z[1]] = "ack"

\* The certificate store holds the certificates of every zone, and besides them
\* only those of a zone that is being joined: leaving a zone and rolling back take
\* them away, whatever has become of the connection; only a failure of the
\* acknowledgement itself leaves them.
CertsFollowZones ==
    /\ zones \subseteq certs
    /\ \A z \in certs \ (zones \cup orphaned) : Handled(z) /\ at[z[1]] \in {"stored", "acked"}

\* A device in a zone that has room for another listens for pairing requests, and
\* a full one does not, unless calls overtook one another.
ListensUnlessOverlap ==
    (zones # {} /\ ~overlap /\ \A p \in Updaters : update[p] \in {"none", "done"})
        => listening = ~Full /\ Cardinality(Live) = IF Full THEN 0 ELSE 1

-----------------------------------------------------------------------------
\* Statements of documents and comments that the code does not keep, listed in
\* README.md; no configuration checks them.

\* "Track candidates that already failed PASE (deterministic -- wrong device will
\* never succeed)" (controller_service.go): only other devices are given up.
OnlyWrongDevicesTried == tried = {}

\* "Pairing request mechanism provides re-triggering if window expires"
\* (docs/decision-log.md): a request ignored while the window was open is not
\* reported again.
RequestOpensWindow ==
    \A b \in Live : \A k \in announced \cap browse[b] : window \/ Full

\* "Below max zones and not listening - start" (device_service_discovery.go).
ListensBelowMax ==
    (zones # {} /\ \A p \in Updaters : update[p] = "none") => Cardinality(Live) = IF Full THEN 0 ELSE 1

\* A failed attempt leaves nothing behind (rollbackCommissioningCertArtifacts): a
\* device without zones has room for certificates.
StoreHasRoom == zones = {} /\ lock = None => Cardinality(certs) < StoreLimit

\* When nothing is under way, the two sides agree on the zones (docs/decision-log.md,
\* DEC-066: the device closes the connection after its acknowledgement, and the
\* controller returns with its operational certificate).
BothAgree == (\A k \in Controllers : step[k] = "idle" /\ at[k] = "none") => known = zones
=============================================================================
