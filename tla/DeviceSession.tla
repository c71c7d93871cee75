---------------------------- MODULE DeviceSession ----------------------------
(***************************************************************************)
(* The controller's session with one device                                *)
(* (mash-go/pkg/service/device_session.go) and the renewal of the device's *)
(* certificate over it: ControllerService.RenewDevice and                  *)
(* ControllerRenewalHandler (controller_renewal.go) on one side, the       *)
(* device's message loop, DeviceRenewalHandler (device_renewal.go) and     *)
(* handleCertRenewalSuccess on the other.                                  *)
(*                                                                         *)
(* The session has one reader and two users of it: the InteractionClient   *)
(* (this module extends it: its state, its steps and its properties) and   *)
(* the renewals.  Every RenewDevice makes a handler with a channel of one  *)
(* slot, hangs it into the session and takes it out at the end, whoever's  *)
(* it is by then.  Nothing in a CSR or an acknowledgement is compared with *)
(* the request it answers.                                                 *)
(*                                                                         *)
(* The reader tells a renewal message from a response by its keys alone.   *)
(* A response without a payload whose message ID is the code of a renewal  *)
(* acknowledgement is taken for one; one whose ID is the code of a control *)
(* message is dropped.                                                     *)
(*                                                                         *)
(* A certificate is named by the key it certifies.                         *)
(***************************************************************************)
EXTENDS InteractionClient, Sequences

CONSTANTS
    Renewers,    \* calls of RenewDevice for this device, one each
    UsedIds,     \* last message IDs used before, one of them at the start
    AckId,       \* MsgCertRenewalAck, 33 in the code, as a message ID
    ControlIds   \* ControlPing, ControlPong and ControlClose, 1 .. 3 in the code

NoRenewer == "nobody"
NoKey == 0
FirstKey == 1   \* the key of the certificate the device was commissioned with
Keys == FirstKey .. FirstKey + Cardinality(Renewers)

ASSUME SessionAssumption ==
    /\ ControlIds \subseteq MessageIds \ {NotificationMessageID}
    /\ AckId \in MessageIds \ (ControlIds \cup {NotificationMessageID})
    /\ UsedIds \subseteq MessageIds /\ NoRenewer \notin Renewers

VARIABLES
    handler,     \* DeviceSession.renewalHandler
    rpc,         \* where each RenewDevice is
    responseWait,\* ControllerRenewalHandler.responseWait of each
    pendingCSR,  \* the key of ControllerRenewalHandler.pendingCSR of each
    result,      \* the key of the certificate RenewDevice returned, NoKey for an error
    toDevice, toController,   \* renewal messages under way, in order
    routed,      \* a renewal message the reader has decoded, and the handler it saw
    pendingKey,  \* DeviceRenewalHandler.pendingKeyPair
    keysMade,    \* the last key the device generated
    activeKey,   \* DeviceRenewalHandler.activeKey
    deviceLoop,  \* the device's message loop: reads, or stores what it installed
    served,      \* the key of DeviceService.tlsCert
    disk,        \* the key of the certificate on the device's disk
    up,          \* the device runs and its connection stands
    installed,   \* ghost: keys of all certificates the device has installed
    disturbed,   \* ghost: renewals that met another one, a leftover, a loss ...
    mimicked,    \* ghost: renewals whose handler was given a response as ack
    unstored     \* ghost: the device could not store, or ended before it stored

controllerSide == <<handler, rpc, responseWait, pendingCSR, result>>
deviceSide == <<pendingKey, keysMade, activeKey, deviceLoop, served, disk>>
ghosts == <<installed, disturbed, mimicked, unstored>>
renewal == <<controllerSide, toDevice, toController, routed, deviceSide, up, ghosts>>
sessionVars == <<vars, renewal>>

RenewalMessages ==
    [kind : {"request", "csr", "install", "ack"}, key : Keys \cup {NoKey},
     ok : BOOLEAN, by : Renewers \cup {NoRenewer}]
Message(kind, key, ok, by) == [kind |-> kind, key |-> key, ok |-> ok, by |-> by]
NoMessage == Message("request", NoKey, FALSE, NoRenewer)
NoRoute == [message |-> NoMessage, to |-> NoRenewer]

RenewalTypeOK ==
    /\ handler \in Renewers \cup {NoRenewer}
    /\ rpc \in [Renewers -> {"idle", "send", "csr", "install", "ack", "leave", "done"}]
    /\ responseWait \in [Renewers -> RenewalMessages]
    /\ pendingCSR \in [Renewers -> Keys \cup {NoKey}] /\ result \in [Renewers -> Keys \cup {NoKey}]
    /\ toDevice \in Seq(RenewalMessages) /\ toController \in Seq(RenewalMessages)
    /\ routed \in [message : RenewalMessages, to : Renewers \cup {NoRenewer}]
    /\ pendingKey \in Keys \cup {NoKey} /\ keysMade \in Keys /\ activeKey \in Keys
    /\ deviceLoop \in {"read", "store"} /\ served \in Keys /\ disk \in Keys
    /\ up \in BOOLEAN /\ unstored \in BOOLEAN
    /\ installed \subseteq Keys /\ disturbed \subseteq Renewers /\ mimicked \subseteq Renewers

\* The session stands; the device has generated no key for it yet.
SessionInit ==
    /\ Init /\ nextMsgID \in UsedIds
    /\ handler = NoRenewer /\ rpc = [r \in Renewers |-> "idle"]
    /\ responseWait = [r \in Renewers |-> NoMessage]
    /\ pendingCSR = [r \in Renewers |-> NoKey] /\ result = [r \in Renewers |-> NoKey]
    /\ toDevice = <<>> /\ toController = <<>> /\ routed = NoRoute
    /\ pendingKey = NoKey /\ keysMade = FirstKey /\ activeKey = FirstKey
    /\ deviceLoop = "read" /\ served = FirstKey /\ disk = FirstKey
    /\ up = TRUE /\ installed = {FirstKey} /\ disturbed = {} /\ mimicked = {} /\ unstored = FALSE

Running(r) == rpc[r] \notin {"idle", "done"}
RunningRenewers == {r \in Renewers : Running(r)}
Leftovers == \/ toDevice # <<>> \/ toController # <<>> \/ routed # NoRoute
             \/ deviceLoop # "read"

-----------------------------------------------------------------------------
(* The controller: RenewDevice *)

Goes(r, place) == rpc' = [rpc EXCEPT ![r] = place]

\* A new handler, hung into the session, a closed one included.
StartRenewal(r) ==
    /\ rpc[r] = "idle"
    /\ handler' = r /\ Goes(r, "send")
    /\ disturbed' = IF RunningRenewers # {} THEN disturbed \cup RunningRenewers \cup {r}
                    ELSE IF Leftovers \/ ~ up \/ closed THEN disturbed \cup {r} ELSE disturbed
    /\ UNCHANGED <<vars, responseWait, pendingCSR, result, toDevice, toController,
                   routed, deviceSide, up, installed, mimicked, unstored>>

\* A message is on its way, or the connection refuses it or loses it.
Sends(r, message, next) ==
    \/ /\ up /\ toDevice' = Append(toDevice, message) /\ Goes(r, next)
       /\ UNCHANGED disturbed
    \/ /\ ~ up /\ UNCHANGED toDevice /\ (Goes(r, next) \/ Goes(r, "leave"))
       /\ disturbed' = disturbed \cup {r}

\* InitiateRenewal, up to its select.
InitiateRenewal(r) ==
    /\ rpc[r] = "send"
    /\ Sends(r, Message("request", NoKey, FALSE, r), "csr")
    /\ UNCHANGED <<vars, handler, responseWait, pendingCSR, result, toController,
                   routed, deviceSide, up, installed, mimicked, unstored>>

\* The first message in the channel has to be a CSR; its nonce hash is not read.
TakeCSR(r) ==
    /\ rpc[r] = "csr" /\ responseWait[r] # NoMessage
    /\ responseWait' = [responseWait EXCEPT ![r] = NoMessage]
    /\ \/ /\ responseWait[r].kind = "csr" /\ Goes(r, "install")
          /\ pendingCSR' = [pendingCSR EXCEPT ![r] = responseWait[r].key]
       \/ /\ responseWait[r].kind # "csr" /\ Goes(r, "leave") /\ UNCHANGED pendingCSR
    /\ UNCHANGED <<vars, handler, result, toDevice, toController, routed,
                   deviceSide, up, ghosts>>

\* The CSR is signed and the certificate sent.
Install(r) ==
    /\ rpc[r] = "install"
    /\ Sends(r, Message("install", pendingCSR[r], FALSE, r), "ack")
    /\ UNCHANGED <<vars, handler, responseWait, pendingCSR, result, toController,
                   routed, deviceSide, up, installed, mimicked, unstored>>

TakeAckAnyStatus(r) ==  \* mutant: the status is not looked at
    /\ rpc[r] = "ack" /\ responseWait[r] # NoMessage
    /\ responseWait' = [responseWait EXCEPT ![r] = NoMessage]
    /\ result' = [result EXCEPT ![r] =
           IF responseWait[r].kind = "ack" THEN pendingCSR[r] ELSE NoKey]
    /\ Goes(r, "leave")
    /\ UNCHANGED <<vars, handler, pendingCSR, toDevice, toController, routed,
                   deviceSide, up, ghosts>>

\* Only an acknowledgement of success makes RenewDevice return the certificate.
TakeAck(r) ==
    /\ rpc[r] = "ack" /\ responseWait[r] # NoMessage
    /\ responseWait' = [responseWait EXCEPT ![r] = NoMessage]
    /\ result' = [result EXCEPT ![r] =
           IF responseWait[r].kind = "ack" /\ responseWait[r].ok THEN pendingCSR[r] ELSE NoKey]
    /\ Goes(r, "leave")
    /\ UNCHANGED <<vars, handler, pendingCSR, toDevice, toController, routed,
                   deviceSide, up, ghosts>>

\* The context ends in one of the two selects.
ContextEnds(r) ==
    /\ rpc[r] \in {"csr", "ack"} /\ Goes(r, "leave")
    /\ disturbed' = disturbed \cup {r}
    /\ UNCHANGED <<vars, handler, responseWait, pendingCSR, result, toDevice,
                   toController, routed, deviceSide, up, installed, mimicked, unstored>>

\* The deferred SetRenewalHandler(nil), whichever handler hangs there.  What this
\* renewal's own handler holds is not read again.
LeaveRenewal(r) ==
    /\ rpc[r] = "leave" /\ Goes(r, "done") /\ handler' = NoRenewer
    /\ responseWait' = [responseWait EXCEPT ![r] = NoMessage]
    /\ pendingCSR' = [pendingCSR EXCEPT ![r] = NoKey]
    /\ UNCHANGED <<vars, result, toDevice, toController,
                   routed, deviceSide, up, ghosts>>

-----------------------------------------------------------------------------
(* The controller: the session's reader and Close *)

ReaderIdle == reader = IdleReader /\ routed = NoRoute

\* The payload of a response (key 3) is a map, null, or there is none.
Payloads == {"map", "null", "none"}

\* isRenewalMessage: no key 4, and the keys decode as a renewal message.
LooksLikeAck(k, payload) == id[k] = AckId /\ payload # "map"

\* PeekMessageType: key 1 is a control code, there is neither a key 3 nor a key 4.
LooksLikeControl(k, payload) == id[k] \in ControlIds /\ payload = "none"

\* OnMessage reads the handler under the session's lock.
Route(message) ==
    routed' = IF closed \/ handler = NoRenewer THEN NoRoute ELSE [message |-> message, to |-> handler]

\* OnMessage, a response with this payload.
OnResponse(k, payload) ==
    /\ ReaderIdle /\ k \in responses
    /\ \/ /\ ~ LooksLikeAck(k, payload) /\ ~ LooksLikeControl(k, payload)
          /\ HandleResponse(k) /\ UNCHANGED routed
       \/ /\ LooksLikeAck(k, payload) \/ LooksLikeControl(k, payload)
          /\ responses' = responses \ {k}
          /\ IF LooksLikeAck(k, payload) THEN Route(Message("ack", NoKey, TRUE, NoRenewer))
             ELSE UNCHANGED routed
          /\ UNCHANGED <<client, made, id, pc, call, requests, reader, panicked, answer>>
    /\ UNCHANGED <<controllerSide, toDevice, toController, deviceSide, up, ghosts>>

\* OnMessage, a renewal message: without a handler it is dropped.
OnRenewalMessage ==
    /\ ReaderIdle /\ toController # <<>>
    /\ Route(Head(toController)) /\ toController' = Tail(toController)
    /\ UNCHANGED <<vars, controllerSide, toDevice, deviceSide, up, ghosts>>

\* ControllerRenewalHandler.HandleResponse: a full channel discards the message.
HandleRenewalResponse ==
    /\ routed # NoRoute /\ routed' = NoRoute
    /\ responseWait' = IF responseWait[routed.to] # NoMessage \/ ~ Running(routed.to)
                       THEN responseWait
                       ELSE [responseWait EXCEPT ![routed.to] = routed.message]
    /\ IF routed.message.by = NoRenewer
       THEN /\ mimicked' = mimicked \cup {routed.to} /\ disturbed' = disturbed \cup {routed.to}
       ELSE UNCHANGED <<mimicked, disturbed>>
    /\ UNCHANGED <<vars, handler, rpc, pendingCSR, result, toDevice, toController,
                   deviceSide, up, installed, unstored>>

\* DeviceSession.Close, the first one, closes the client; nothing tells a renewal
\* that waits.
CloseSession ==
    /\ ~ closed /\ Close /\ disturbed' = disturbed \cup RunningRenewers
    /\ UNCHANGED <<controllerSide, toDevice, toController, routed, deviceSide, up,
                   installed, mimicked, unstored>>

-----------------------------------------------------------------------------
(* The device *)

DeviceReads(kind) == up /\ deviceLoop = "read" /\ toDevice # <<>> /\ Head(toDevice).kind = kind

HandleRenewalRequestOnce ==  \* mutant: no answer while a key pair is pending
    /\ DeviceReads("request") /\ toDevice' = Tail(toDevice)
    /\ IF pendingKey # NoKey THEN UNCHANGED <<keysMade, pendingKey, toController>>
       ELSE /\ keysMade' = keysMade + 1 /\ pendingKey' = keysMade'
            /\ toController' = Append(toController,
                                     Message("csr", keysMade', FALSE, Head(toDevice).by))
    /\ UNCHANGED <<vars, controllerSide, routed, activeKey, deviceLoop, served,
                   disk, up, ghosts>>

\* A new key pair replaces the pending one, and a CSR for it is sent.
HandleRenewalRequest ==
    /\ DeviceReads("request") /\ toDevice' = Tail(toDevice)
    /\ keysMade' = keysMade + 1 /\ pendingKey' = keysMade'
    /\ toController' = Append(toController, Message("csr", keysMade', FALSE, Head(toDevice).by))
    /\ UNCHANGED <<vars, controllerSide, routed, activeKey, deviceLoop, served,
                   disk, up, ghosts>>

\* The certificate has to be for the pending key; the sequence is taken as it comes.
\* The acknowledgement is sent before the certificate is stored.
HandleCertInstall ==
    /\ DeviceReads("install") /\ toDevice' = Tail(toDevice)
    /\ LET install == Head(toDevice)
           success == pendingKey # NoKey /\ install.key = pendingKey
       IN /\ toController' = Append(toController,
                                    Message("ack", install.key, success, install.by))
          /\ IF success
             THEN /\ activeKey' = install.key /\ pendingKey' = NoKey
                  /\ installed' = installed \cup {install.key} /\ deviceLoop' = "store"
             ELSE UNCHANGED <<activeKey, pendingKey, installed, deviceLoop>>
    /\ UNCHANGED <<vars, controllerSide, routed, keysMade, served, disk, up,
                   disturbed, mimicked, unstored>>

StoreRenewedOnly ==  \* mutant: the TLS configuration keeps the old certificate
    /\ deviceLoop = "store" /\ deviceLoop' = "read"
    /\ disk' = activeKey /\ UNCHANGED <<served, unstored>>
    /\ UNCHANGED <<vars, controllerSide, toDevice, toController, routed, pendingKey,
                   keysMade, activeKey, up, installed, disturbed, mimicked>>

\* handleCertRenewalSuccess: stores the certificate, then serves it; a failure
\* is logged and nothing else.
StoreRenewed ==
    /\ deviceLoop = "store" /\ deviceLoop' = "read"
    /\ \/ disk' = activeKey /\ served' = activeKey /\ UNCHANGED unstored
       \/ unstored' = TRUE /\ UNCHANGED <<disk, served>>
    /\ UNCHANGED <<vars, controllerSide, toDevice, toController, routed, pendingKey,
                   keysMade, activeKey, up, installed, disturbed, mimicked>>

-----------------------------------------------------------------------------
(* The connection is lost, or the device with it; some of what it sent arrives. *)

ConnectionEnds ==
    /\ up /\ up' = FALSE /\ toDevice' = <<>>
    /\ \E n \in 0 .. Len(toController) : toController' = SubSeq(toController, 1, n)
    /\ disturbed' = disturbed \cup RunningRenewers
    /\ UNCHANGED <<vars, controllerSide, routed, installed, mimicked>>

LoseConnection == ConnectionEnds /\ UNCHANGED <<deviceSide, unstored>>

\* After the restart the device serves what it finds on its disk.
RestartDevice ==
    /\ ConnectionEnds
    /\ pendingKey' = NoKey /\ activeKey' = disk /\ served' = disk /\ deviceLoop' = "read"
    /\ unstored' = (unstored \/ deviceLoop = "store")
    /\ UNCHANGED <<keysMade, disk>>

-----------------------------------------------------------------------------

ClientStep ==
    /\ \/ \E c \in Callers : NewRequest(c) \/ Caller(c) \/ GiveUp(c)
       \/ \E k \in Calls : Answer(k)
    /\ UNCHANGED renewal

Renewer(r) ==
    InitiateRenewal(r) \/ TakeCSR(r) \/ Install(r) \/ TakeAck(r) \/ LeaveRenewal(r)
SessionReader ==
    \/ OnRenewalMessage \/ HandleRenewalResponse
    \/ SendOnChannel /\ UNCHANGED renewal
    \/ \E k \in Calls, payload \in Payloads : OnResponse(k, payload)
Device == HandleRenewalRequest \/ HandleCertInstall \/ StoreRenewed

SessionNext ==
    /\ ~ panicked
    /\ \/ ClientStep \/ SessionReader \/ CloseSession
       \/ \E r \in Renewers : StartRenewal(r) \/ Renewer(r) \/ ContextEnds(r)
       \/ Device \/ LoseConnection \/ RestartDevice

SessionSpec == SessionInit /\ [][SessionNext]_sessionVars

\* While the reader, the device's loop or a RenewDevice can go on, one of them
\* does.  Nothing is assumed of contexts, of the connection or of the session's end.
FairSessionSpec ==
    SessionSpec /\ WF_sessionVars(SessionReader \/ Device \/ \E r \in Renewers : Renewer(r))

-----------------------------------------------------------------------------

\* A certificate that RenewDevice returned was installed by the device, whatever
\* CSRs and acknowledgements of other renewals came through the same handler
\* (HandleResponse does not match them to requests).  The exception is a
\* handler that was given a response for an acknowledgement.
RenewedIsInstalled ==
    \A r \in Renewers \ mimicked : result[r] # NoKey => result[r] \in installed

\* Once the device's loop is back at reading, it serves new connections the
\* certificate of the last renewal that succeeded, and would after a restart.
\* The exceptions: it could not store it, or ended between acknowledgement and
\* storing (handleRenewalMessage sends first).
RenewedIsServed ==
    \A r \in Renewers \ mimicked :
        result[r] # NoKey /\ deviceLoop = "read" /\ ~ unstored
            => served >= result[r] /\ disk = served

\* A renewal that meets no other one, no message left over by one, no response
\* in disguise, no end of its context or the connection returns its certificate:
\* the exchange itself never gets stuck and never fails.
UndisturbedSucceeds ==
    \A r \in Renewers : rpc[r] = "send" ~> (result[r] # NoKey \/ r \in disturbed \/ panicked)

-----------------------------------------------------------------------------
(* Statements of documents and comments that the code does not keep, listed in
   README.md; no configuration checks them. *)

\* "Controller validates NonceHash matches sent nonce": a CSR that is taken
\* answers the renewal's own request.  The hash is never compared.
CsrAnswersRequest ==
    \A r \in Renewers : rpc[r] = "csr" /\ responseWait[r].kind = "csr" => responseWait[r].by = r

\* Requests "can collide" with renewal messages, "key 4 ... is absent" tells
\* them apart: a message taken for a renewal message is one.
RenewalMessagesAreRenewals == routed # NoRoute => routed.message.by # NoRenewer

\* After an acknowledgement the device keeps the new certificate over a restart.
AcknowledgedSurvives ==
    \A r \in Renewers \ mimicked : result[r] # NoKey /\ deviceLoop = "read" => disk >= result[r]
=============================================================================
