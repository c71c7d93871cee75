------------------------ MODULE CommissioningProofs ------------------------
(***************************************************************************)
(* Safety of Commissioning for any controllers, browses and limits.        *)
(*                                                                         *)
(* What a controller lists, what the device's store holds and which zones  *)
(* it is in are changed by two sides that see each other through one       *)
(* message at a time.  That they agree rests on the lockstep of the        *)
(* exchange: while the connection is alive, the place of the device's      *)
(* goroutine, that of CommissionDevice and the message between them        *)
(* determine one another; and an acknowledgement, once it is sent, stays   *)
(* until the controller reads it or a broken connection loses it.          *)
(*                                                                         *)
(* The invariant is stated for one controller at a time, because a step of *)
(* one leaves what concerns the others alone (Frame); only Install, which  *)
(* numbers what it stores, and LeaveZone touch more.                       *)
(***************************************************************************)
EXTENDS Commissioning, FiniteSetTheorems, TLAPS

\* Names of the zones a controller has given the device so far.
Own(k) == {<<k, n>> : n \in 1..stored}

\* The exchange over a connection, while it is alive; after that a refusal or an
\* acknowledgement may still be read.
Lockstep(k) ==
    IF link[k].alive
    THEN \/ <<at[k], step[k], link[k].msg>> \in
               {<<"first", "pase", "pase">>, <<"handshake", "pase", None>>,
                <<"request", "pase", "paired">>, <<"request", "csr", "request">>,
                <<"install", "csr", "csr">>, <<"install", "ack", "install">>,
                <<"stored", "ack", None>>}
         \/ /\ at[k] \in {"acked", "registered"}
            /\ \/ step[k] = "ack" /\ link[k].msg = "ack"
               \/ step[k] \in {"idle", "try", "poll"} /\ link[k].msg = None
    ELSE link[k].msg \in {None, "error", "ack"}

\* An acknowledgement waits for the controller that expects it, and is about a zone
\* that the device is about to join, is in, or has left since.
AckKept(k) ==
    link[k].msg = "ack" =>
        /\ step[k] = "ack" /\ zone[k] \in Own(k)
        /\ at[k] \in {"acked", "registered", "none"}
        /\ at[k] # "acked" => zone[k] \in zones \cup excused

\* Between storing the certificates and joining the zone nothing else touches them;
\* the acknowledgement waits, has been read, or is lost.
StoredKept(k) ==
    at[k] \in {"stored", "acked"} =>
        /\ zone[k] \in Own(k) /\ zone[k] \in certs /\ zone[k] \notin zones
        /\ at[k] = "acked" => link[k].msg = "ack" \/ zone[k] \in known \cup excused

\* What the properties say of a zone z of controller k; an unlisted zone that the
\* device is in is the one whose acknowledgement waits.
ZoneAgreed(k, z) ==
    /\ z \in zones => z \in certs
    /\ z \in known \ excused => z \in certs /\ (z \in zones \/ (zone[k] = z /\ at[k] = "acked"))
    /\ z \in zones \ (excused \cup known) => zone[k] = z /\ link[k].msg = "ack"
    /\ z \in certs \ (zones \cup orphaned) => zone[k] = z /\ at[k] \in {"stored", "acked"}

\* The next zone to be named is new.
Numbered(k, n) == <<k, n>> \in zones \cup certs \cup known => n <= stored

Attended(k) ==
    /\ zone[k] \in Own(k) \cup {None}
    /\ Lockstep(k) /\ AckKept(k) /\ StoredKept(k)
    /\ \A n \in 1..MaxStored : Numbered(k, n) /\ ZoneAgreed(k, <<k, n>>)

IInv == TypeOK /\ \A k \in Controllers : Attended(k)

\* The zones a controller's certificates may have been stored for.
LEMMA OwnZone ==
    ASSUME TypeOK, NEW k \in Controllers, NEW z \in Own(k)
    PROVE  \E n \in 1..MaxStored : z = <<k, n>> /\ n <= stored /\ z \in ZoneIDs
BY ConstantsAssumption DEF TypeOK, Own, ZoneIDs

\* What a step does to the connection of controller k, and to nobody else's.
Linked(k, alive, msg) ==
    /\ link' \in [Controllers -> [alive : BOOLEAN, msg : Messages \cup {None}]]
    /\ \A j \in Controllers \ {k} : link'[j] = link[j]
    /\ link'[k].alive = alive /\ link'[k].msg = msg

\* A step leaves what concerns controller j alone.
Untouched(j) ==
    /\ step'[j] = step[j] /\ link'[j] = link[j] /\ at'[j] = at[j] /\ zone'[j] = zone[j]
    /\ \A n \in 1..MaxStored :
          /\ <<j, n>> \in zones' <=> <<j, n>> \in zones
          /\ <<j, n>> \in certs' <=> <<j, n>> \in certs
          /\ <<j, n>> \in known' <=> <<j, n>> \in known
          /\ <<j, n>> \in excused' <=> <<j, n>> \in excused
          /\ <<j, n>> \in orphaned' <=> <<j, n>> \in orphaned

\* What holds of a controller is stable under steps of others, which may store
\* more certificates (Install counts them).
LEMMA Frame ==
    ASSUME NEW j \in Controllers, Attended(j), TypeOK, TypeOK', stored <= stored', Untouched(j)
    PROVE  Attended(j)'
<1> USE ConstantsAssumption DEF Untouched
<1>1. stored \in Nat /\ stored' \in Nat /\ MaxStored \in Nat /\ stored <= MaxStored
  BY DEF TypeOK
<1>2. Own(j) \subseteq Own(j)' /\ \A z \in Own(j) : \E n \in 1..MaxStored : z = <<j, n>>
  BY <1>1 DEF Own
<1>3. zone'[j] \in Own(j)' \cup {None} BY <1>2 DEF Attended
<1>4. Lockstep(j)' BY DEF Attended, Lockstep
<1>5. AckKept(j)' BY <1>2 DEF Attended, AckKept
<1>6. StoredKept(j)' BY <1>2 DEF Attended, StoredKept
<1>7. ASSUME NEW n \in 1..MaxStored PROVE (Numbered(j, n) /\ ZoneAgreed(j, <<j, n>>))'
  BY <1>1, <1>7 DEF Attended, Numbered, ZoneAgreed
<1> QED BY <1>3, <1>4, <1>5, <1>6, <1>7 DEF Attended

\* So a step of one controller or its goroutine has to be looked at there only.
LEMMA LocalStep ==
    ASSUME IInv, NEW k \in Controllers, TypeOK', stored <= stored', Attended(k)',
           \A j \in Controllers \ {k} : Untouched(j)
    PROVE  IInv'
BY Frame DEF IInv

\* A send and a close touch the connection of one controller; a message sent on
\* a broken one is lost.
LEMMA LinkEffects ==
    ASSUME TypeOK, NEW k \in Controllers, NEW m \in Messages \cup {None}
    PROVE  /\ link[k].alive \in BOOLEAN /\ link[k].msg \in Messages \cup {None}
           /\ Send(k, m) => Linked(k, link[k].alive, IF link[k].alive THEN m ELSE None)
           /\ Close(k, m) => Linked(k, FALSE, IF link[k].alive THEN m ELSE None)
           /\ link' = [link EXCEPT ![k].msg = None] => Linked(k, link[k].alive, None)
           /\ link' = [link EXCEPT ![k].alive = FALSE] => Linked(k, FALSE, link[k].msg)
           /\ link' = [link EXCEPT ![k] = [msg |-> m, alive |-> FALSE]] => Linked(k, FALSE, m)
           /\ link' = [link EXCEPT ![k] = [msg |-> m, alive |-> TRUE]] => Linked(k, TRUE, m)
<1> DEFINE Link == [alive : BOOLEAN, msg : Messages \cup {None}]
<1>1. link[k] \in Link BY DEF TypeOK
<1>2. ASSUME NEW l \in Link, link' = [link EXCEPT ![k] = l]
      PROVE  Linked(k, l.alive, l.msg)
  BY <1>2 DEF TypeOK, Linked
<1>3. ASSUME Send(k, m) PROVE Linked(k, link[k].alive, IF link[k].alive THEN m ELSE None)
  <2> DEFINE l == [link[k] EXCEPT !.msg = IF link[k].alive THEN m ELSE None]
  <2>1. l \in Link /\ l.alive = link[k].alive /\ l.msg = (IF link[k].alive THEN m ELSE None)
    BY <1>1
  <2>2. link' = [link EXCEPT ![k] = l] BY <1>3 DEF Send
  <2> HIDE DEF l
  <2> QED BY <1>2, <2>1, <2>2
<1>4. ASSUME Close(k, m) PROVE Linked(k, FALSE, IF link[k].alive THEN m ELSE None)
  <2> DEFINE l == [msg |-> IF link[k].alive THEN m ELSE None, alive |-> FALSE]
  <2>1. l \in Link /\ l.alive = FALSE /\ l.msg = (IF link[k].alive THEN m ELSE None)
    BY <1>1
  <2>2. link' = [link EXCEPT ![k] = l] BY <1>4 DEF Close
  <2> HIDE DEF l
  <2> QED BY <1>2, <2>1, <2>2
<1>5. ASSUME link' = [link EXCEPT ![k].msg = None] PROVE Linked(k, link[k].alive, None)
  <2> DEFINE l == [link[k] EXCEPT !.msg = None]
  <2>1. l \in Link /\ l.alive = link[k].alive /\ l.msg = None BY <1>1
  <2>2. link' = [link EXCEPT ![k] = l] BY <1>5
  <2> HIDE DEF l
  <2> QED BY <1>2, <2>1, <2>2
<1>6. ASSUME link' = [link EXCEPT ![k].alive = FALSE] PROVE Linked(k, FALSE, link[k].msg)
  <2> DEFINE l == [link[k] EXCEPT !.alive = FALSE]
  <2>1. l \in Link /\ l.alive = FALSE /\ l.msg = link[k].msg BY <1>1
  <2>2. link' = [link EXCEPT ![k] = l] BY <1>6
  <2> HIDE DEF l
  <2> QED BY <1>2, <2>1, <2>2
<1>7. ASSUME NEW b \in BOOLEAN, link' = [link EXCEPT ![k] = [msg |-> m, alive |-> b]]
      PROVE  Linked(k, b, m)
  <2> DEFINE l == [msg |-> m, alive |-> b]
  <2>1. l \in Link /\ l.alive = b /\ l.msg = m OBVIOUS
  <2>2. link' = [link EXCEPT ![k] = l] BY <1>7
  <2> HIDE DEF l
  <2> QED BY <1>2, <2>1, <2>2
<1> QED BY <1>1, <1>3, <1>4, <1>5, <1>6, <1>7

-----------------------------------------------------------------------------
(* The steps. *)

\* CommissionDevice and Commission of a controller.
LEMMA ControllerStep ==
    ASSUME IInv, NEW k \in Controllers, Controller(k) PROVE IInv'
<1> USE ConstantsAssumption DEF Messages
<1>0. TypeOK /\ Attended(k) BY DEF IInv
<1> USE <1>0 DEF ghosts, searching, wire, admission, store, listener, Step, Goto
<1>1. ASSUME CommissionDevice(k) PROVE IInv'
  <2>1. UNCHANGED link BY <1>1 DEF CommissionDevice
  <2>2. TypeOK'
    BY <1>1, <2>1 DEF CommissionDevice, Announce, TypeOK, Linked
  <2>3. Attended(k)'
    BY <1>1, <2>1 DEF CommissionDevice, Announce, TypeOK, Linked,
           Attended, Own, Lockstep, AckKept, StoredKept, ZoneAgreed, Numbered
  <2>4. \A j \in Controllers \ {k} : Untouched(j)
    BY <1>1, <2>1 DEF CommissionDevice, Announce, TypeOK, Linked, Untouched
  <2>5. stored <= stored' BY <1>1 DEF CommissionDevice, Announce, TypeOK
  <2> QED BY <2>2, <2>3, <2>4, <2>5, LocalStep
<1>2. ASSUME Poll(k) PROVE IInv'
  <2>1. UNCHANGED link BY <1>2 DEF Poll
  <2>2. TypeOK'
    BY <1>2, <2>1 DEF Poll, TypeOK, Linked
  <2>3. Attended(k)'
    BY <1>2, <2>1 DEF Poll, TypeOK, Linked,
           Attended, Own, Lockstep, AckKept, StoredKept, ZoneAgreed, Numbered
  <2>4. \A j \in Controllers \ {k} : Untouched(j)
    BY <1>2, <2>1 DEF Poll, TypeOK, Linked, Untouched
  <2>5. stored <= stored' BY <1>2 DEF Poll, TypeOK
  <2> QED BY <2>2, <2>3, <2>4, <2>5, LocalStep
<1>3. ASSUME Dial(k) PROVE IInv'
  <2>1. Linked(k, TRUE, "pase")
    BY <1>3, LinkEffects DEF Dial
  <2>2. TypeOK'
    BY <1>3, <2>1 DEF Dial, TypeOK, Linked
  <2>3. Attended(k)'
    BY <1>3, <2>1 DEF Dial, TypeOK, Linked,
           Attended, Own, Lockstep, AckKept, StoredKept, ZoneAgreed, Numbered
  <2>4. \A j \in Controllers \ {k} : Untouched(j)
    BY <1>3, <2>1 DEF Dial, TypeOK, Linked, Untouched
  <2>5. stored <= stored' BY <1>3 DEF Dial, TypeOK
  <2> QED BY <2>2, <2>3, <2>4, <2>5, LocalStep
<1>4. ASSUME DialFails(k) PROVE IInv'
  <2>1. UNCHANGED link BY <1>4 DEF DialFails
  <2>2. TypeOK'
    BY <1>4, <2>1 DEF DialFails, Return, TypeOK, Linked
  <2>3. Attended(k)'
    BY <1>4, <2>1 DEF DialFails, Return, TypeOK, Linked,
           Attended, Own, Lockstep, AckKept, StoredKept, ZoneAgreed, Numbered
  <2>4. \A j \in Controllers \ {k} : Untouched(j)
    BY <1>4, <2>1 DEF DialFails, Return, TypeOK, Linked, Untouched
  <2>5. stored <= stored' BY <1>4 DEF DialFails, Return, TypeOK
  <2> QED BY <2>2, <2>3, <2>4, <2>5, LocalStep
<1>5. ASSUME HandshakeFails(k) PROVE IInv'
  <2>1. Linked(k, link[k].alive, None)
    BY <1>5, LinkEffects DEF HandshakeFails
  <2>2. TypeOK'
    BY <1>5, <2>1 DEF HandshakeFails, Announce, Received, Broken, TypeOK, Linked
  <2>3. Attended(k)'
    BY <1>5, <2>1 DEF HandshakeFails, Announce, Received, Broken, TypeOK, Linked,
           Attended, Own, Lockstep, AckKept, StoredKept, ZoneAgreed, Numbered
  <2>4. \A j \in Controllers \ {k} : Untouched(j)
    BY <1>5, <2>1 DEF HandshakeFails, Announce, Received, Broken, TypeOK, Linked, Untouched
  <2>5. stored <= stored' BY <1>5 DEF HandshakeFails, Announce, Received, Broken, TypeOK
  <2> QED BY <2>2, <2>3, <2>4, <2>5, LocalStep
<1>6. ASSUME Handshake(k) PROVE IInv'
  <2>1. Linked(k, link[k].alive, IF link[k].alive THEN "request" ELSE None)
    BY <1>6, LinkEffects DEF Handshake
  <2>2. TypeOK'
    BY <1>6, <2>1 DEF Handshake, Received, TypeOK, Linked
  <2>3. Attended(k)'
    BY <1>6, <2>1 DEF Handshake, Received, TypeOK, Linked,
           Attended, Own, Lockstep, AckKept, StoredKept, ZoneAgreed, Numbered
  <2>4. \A j \in Controllers \ {k} : Untouched(j)
    BY <1>6, <2>1 DEF Handshake, Received, TypeOK, Linked, Untouched
  <2>5. stored <= stored' BY <1>6 DEF Handshake, Received, TypeOK
  <2> QED BY <2>2, <2>3, <2>4, <2>5, LocalStep
<1>7. ASSUME SignCSR(k) PROVE IInv'
  <2>1. Linked(k, link[k].alive, IF link[k].alive THEN "install" ELSE None)
    BY <1>7, LinkEffects DEF SignCSR
  <2>2. TypeOK'
    BY <1>7, <2>1 DEF SignCSR, Received, TypeOK, Linked
  <2>3. Attended(k)'
    BY <1>7, <2>1 DEF SignCSR, Received, TypeOK, Linked,
           Attended, Own, Lockstep, AckKept, StoredKept, ZoneAgreed, Numbered
  <2>4. \A j \in Controllers \ {k} : Untouched(j)
    BY <1>7, <2>1 DEF SignCSR, Received, TypeOK, Linked, Untouched
  <2>5. stored <= stored' BY <1>7 DEF SignCSR, Received, TypeOK
  <2> QED BY <2>2, <2>3, <2>4, <2>5, LocalStep
<1>8. ASSUME Acknowledged(k) PROVE IInv'
  <2>0. PICK n \in 1..MaxStored : zone[k] = <<k, n>> /\ n <= stored /\ zone[k] \in ZoneIDs
    BY <1>8, OwnZone DEF Acknowledged, Received, Attended, AckKept
  <2>1. Linked(k, link[k].alive, None)
    BY <1>8, LinkEffects DEF Acknowledged
  <2>2. TypeOK'
    BY <1>8, <2>0, <2>1 DEF Acknowledged, Hangup, Return, Received, TypeOK, Linked
  <2>3. Attended(k)'
    <3>1. /\ step[k] = "ack" /\ link[k].msg = "ack" /\ UNCHANGED <<at, stored, certs, zones, ghosts>>
          /\ zone'[k] = IF at[k] = "none" THEN None ELSE zone[k]
          /\ step'[k] = "idle" /\ link'[k].msg = None /\ link'[k].alive = link[k].alive
          /\ known' = known \cup {zone[k]}
      BY <1>8, <2>1
         DEF Acknowledged, Hangup, Return, Step, Received, TypeOK, Linked, store
    <3>2. Attended(k) /\ zone[k] \in Own(k) /\ Own(k)' = Own(k)
      BY <1>8, <3>1 DEF Attended, AckKept, Own
    <3>3. Lockstep(k)' /\ AckKept(k)' BY <3>1, <3>2, ConstantsAssumption DEF Attended, Lockstep, AckKept
    <3>4. StoredKept(k)' BY <3>1, <3>2 DEF Attended, StoredKept
    <3>5. ASSUME NEW i \in 1..MaxStored PROVE (Numbered(k, i) /\ ZoneAgreed(k, <<k, i>>))'
      <4>1. Numbered(k, i)' BY <2>0, <3>1, <3>2 DEF Attended, Numbered
      <4>2. ZoneAgreed(k, <<k, i>>)'
        BY <3>1, <3>2 DEF Attended, AckKept, StoredKept, ZoneAgreed
      <4> QED BY <4>1, <4>2
    <3> QED BY <3>1, <3>2, <3>3, <3>4, <3>5 DEF Attended
  <2>4. \A j \in Controllers \ {k} : Untouched(j)
    BY <1>8, <2>0, <2>1 DEF Acknowledged, Hangup, Return, Received, TypeOK, Linked, Untouched
  <2>5. stored <= stored' BY <1>8, <2>0 DEF Acknowledged, Hangup, Return, Received, TypeOK
  <2> QED BY <2>2, <2>3, <2>4, <2>5, LocalStep
<1>9. ASSUME ExchangeFails(k) PROVE IInv'
  <2>1. Linked(k, FALSE, None)
    BY <1>9, LinkEffects DEF ExchangeFails
  <2>2. TypeOK'
    BY <1>9, <2>1 DEF ExchangeFails, Hangup, Return, Received, Broken, TypeOK, Linked
  <2>3. Attended(k)'
    BY <1>9, <2>1 DEF ExchangeFails, Hangup, Return, Received, Broken, TypeOK, Linked,
           Attended, Own, Lockstep, AckKept, StoredKept, ZoneAgreed, Numbered
  <2>4. \A j \in Controllers \ {k} : Untouched(j)
    BY <1>9, <2>1 DEF ExchangeFails, Hangup, Return, Received, Broken, TypeOK, Linked, Untouched
  <2>5. stored <= stored' BY <1>9 DEF ExchangeFails, Hangup, Return, Received, Broken, TypeOK
  <2> QED BY <2>2, <2>3, <2>4, <2>5, LocalStep
<1>10. ASSUME StopPolling(k) PROVE IInv'
  <2>1. UNCHANGED link BY <1>10 DEF StopPolling
  <2>2. TypeOK'
    BY <1>10, <2>1 DEF StopPolling, Return, TypeOK, Linked
  <2>3. Attended(k)'
    BY <1>10, <2>1 DEF StopPolling, Return, TypeOK, Linked,
           Attended, Own, Lockstep, AckKept, StoredKept, ZoneAgreed, Numbered
  <2>4. \A j \in Controllers \ {k} : Untouched(j)
    BY <1>10, <2>1 DEF StopPolling, Return, TypeOK, Linked, Untouched
  <2>5. stored <= stored' BY <1>10 DEF StopPolling, Return, TypeOK
  <2> QED BY <2>2, <2>3, <2>4, <2>5, LocalStep
<1> QED BY <1>1, <1>2, <1>3, <1>4, <1>5, <1>6, <1>7, <1>8, <1>9, <1>10 DEF Controller

\* The device's goroutine for a connection, and the connection itself.
LEMMA HandlerStep ==
    ASSUME IInv, NEW k \in Controllers, Handler(k) \/ BreakConnection(k) PROVE IInv'
<1> USE ConstantsAssumption DEF Messages
<1>0. TypeOK /\ Attended(k) BY DEF IInv
<1> USE <1>0 DEF ghosts, searching, wire, admission, store, listener, Step, Goto
<1>1. ASSUME Accept(k) PROVE IInv'
  <2>1. Linked(k, link[k].alive, None)
    BY <1>1, LinkEffects DEF Accept
  <2>2. TypeOK'
    BY <1>1, <2>1 DEF Accept, Received, TypeOK, Linked
  <2>3. Attended(k)'
    BY <1>1, <2>1 DEF Accept, Received, TypeOK, Linked,
           Attended, Own, Lockstep, AckKept, StoredKept, ZoneAgreed, Numbered
  <2>4. \A j \in Controllers \ {k} : Untouched(j)
    BY <1>1, <2>1 DEF Accept, Received, TypeOK, Linked, Untouched
  <2>5. stored <= stored' BY <1>1 DEF Accept, Received, TypeOK
  <2> QED BY <2>2, <2>3, <2>4, <2>5, LocalStep
<1>2. ASSUME Reject(k) PROVE IInv'
  <2>1. Linked(k, FALSE, IF link[k].alive THEN "error" ELSE None)
    BY <1>2, LinkEffects DEF Reject
  <2>2. TypeOK'
    BY <1>2, <2>1 DEF Reject, Received, Finish, TypeOK, Linked
  <2>3. Attended(k)'
    BY <1>2, <2>1 DEF Reject, Received, Finish, TypeOK, Linked,
           Attended, Own, Lockstep, AckKept, StoredKept, ZoneAgreed, Numbered
  <2>4. \A j \in Controllers \ {k} : Untouched(j)
    BY <1>2, <2>1 DEF Reject, Received, Finish, TypeOK, Linked, Untouched
  <2>5. stored <= stored' BY <1>2 DEF Reject, Received, Finish, TypeOK
  <2> QED BY <2>2, <2>3, <2>4, <2>5, LocalStep
<1>3. ASSUME Pair(k) PROVE IInv'
  <2>1. Linked(k, link[k].alive, IF link[k].alive THEN "paired" ELSE None)
    BY <1>3, LinkEffects DEF Pair
  <2>2. TypeOK'
    BY <1>3, <2>1 DEF Pair, TypeOK, Linked
  <2>3. Attended(k)'
    BY <1>3, <2>1 DEF Pair, TypeOK, Linked,
           Attended, Own, Lockstep, AckKept, StoredKept, ZoneAgreed, Numbered
  <2>4. \A j \in Controllers \ {k} : Untouched(j)
    BY <1>3, <2>1 DEF Pair, TypeOK, Linked, Untouched
  <2>5. stored <= stored' BY <1>3 DEF Pair, TypeOK
  <2> QED BY <2>2, <2>3, <2>4, <2>5, LocalStep
<1>4. ASSUME GiveUp(k) PROVE IInv'
  <2>1. Linked(k, FALSE, IF link[k].alive THEN None ELSE None)
    BY <1>4, LinkEffects DEF GiveUp
  <2>2. TypeOK'
    BY <1>4, <2>1 DEF GiveUp, Finish, TypeOK, Linked
  <2>3. Attended(k)'
    BY <1>4, <2>1 DEF GiveUp, Finish, TypeOK, Linked,
           Attended, Own, Lockstep, AckKept, StoredKept, ZoneAgreed, Numbered
  <2>4. \A j \in Controllers \ {k} : Untouched(j)
    BY <1>4, <2>1 DEF GiveUp, Finish, TypeOK, Linked, Untouched
  <2>5. stored <= stored' BY <1>4 DEF GiveUp, Finish, TypeOK
  <2> QED BY <2>2, <2>3, <2>4, <2>5, LocalStep
<1>5. ASSUME ReadRequest(k) PROVE IInv'
  <2>1. Linked(k, link[k].alive, IF link[k].alive THEN "csr" ELSE None)
    BY <1>5, LinkEffects DEF ReadRequest
  <2>2. TypeOK'
    BY <1>5, <2>1 DEF ReadRequest, Received, TypeOK, Linked
  <2>3. Attended(k)'
    BY <1>5, <2>1 DEF ReadRequest, Received, TypeOK, Linked,
           Attended, Own, Lockstep, AckKept, StoredKept, ZoneAgreed, Numbered
  <2>4. \A j \in Controllers \ {k} : Untouched(j)
    BY <1>5, <2>1 DEF ReadRequest, Received, TypeOK, Linked, Untouched
  <2>5. stored <= stored' BY <1>5 DEF ReadRequest, Received, TypeOK
  <2> QED BY <2>2, <2>3, <2>4, <2>5, LocalStep
<1>6. ASSUME RefuseZone(k) PROVE IInv'
  <2>1. Linked(k, FALSE, IF link[k].alive THEN "error" ELSE None)
    BY <1>6, LinkEffects DEF RefuseZone
  <2>2. TypeOK'
    BY <1>6, <2>1 DEF RefuseZone, Received, Finish, TypeOK, Linked
  <2>3. Attended(k)'
    BY <1>6, <2>1 DEF RefuseZone, Received, Finish, TypeOK, Linked,
           Attended, Own, Lockstep, AckKept, StoredKept, ZoneAgreed, Numbered
  <2>4. \A j \in Controllers \ {k} : Untouched(j)
    BY <1>6, <2>1 DEF RefuseZone, Received, Finish, TypeOK, Linked, Untouched
  <2>5. stored <= stored' BY <1>6 DEF RefuseZone, Received, Finish, TypeOK
  <2> QED BY <2>2, <2>3, <2>4, <2>5, LocalStep
<1>7. ASSUME Install(k) PROVE IInv'
  <2>0. /\ stored \in Nat /\ stored + 1 \in 1..MaxStored /\ <<k, stored + 1>> \in ZoneIDs
        /\ zone' = [zone EXCEPT ![k] = <<k, stored + 1>>]
    BY <1>7 DEF Install, TypeOK, ZoneIDs
  <2>1. Linked(k, link[k].alive, None)
    BY <1>7, LinkEffects DEF Install
  <2>2. TypeOK'
    <3>1. zone' \in [Controllers -> ZoneIDs \cup {None}] BY <2>0 DEF TypeOK
    <3>2. certs' \subseteq ZoneIDs
      <4>1. certs' = certs \cup {<<k, stored + 1>>} BY <1>7 DEF Install
      <4> QED BY <2>0, <4>1 DEF TypeOK
    <3>3. stored' \in 0..MaxStored /\ at' = [at EXCEPT ![k] = "stored"]
      BY <1>7, <2>0 DEF Install, TypeOK
    <3>4. UNCHANGED <<searching, known, lock, cooldown, window, current, zones, listener, ghosts>>
      BY <1>7 DEF Install
    <3> QED BY <2>1, <3>1, <3>2, <3>3, <3>4 DEF TypeOK, Linked
  <2>3. Attended(k)'
    BY <1>7, <2>0, <2>1 DEF Install, Received, TypeOK, Linked,
           Attended, Own, Lockstep, AckKept, StoredKept, ZoneAgreed, Numbered
  <2>4. \A j \in Controllers \ {k} : Untouched(j)
    BY <1>7, <2>0, <2>1 DEF Install, Received, TypeOK, Linked, Untouched
  <2>5. stored <= stored' BY <1>7, <2>0 DEF Install, Received, TypeOK
  <2> QED BY <2>2, <2>3, <2>4, <2>5, LocalStep
<1>8. ASSUME StoreFull(k) PROVE IInv'
  <2>1. Linked(k, FALSE, IF link[k].alive THEN None ELSE None)
    BY <1>8, LinkEffects DEF StoreFull
  <2>2. TypeOK'
    BY <1>8, <2>1 DEF StoreFull, Received, Finish, TypeOK, Linked
  <2>3. Attended(k)'
    BY <1>8, <2>1 DEF StoreFull, Received, Finish, TypeOK, Linked,
           Attended, Own, Lockstep, AckKept, StoredKept, ZoneAgreed, Numbered
  <2>4. \A j \in Controllers \ {k} : Untouched(j)
    BY <1>8, <2>1 DEF StoreFull, Received, Finish, TypeOK, Linked, Untouched
  <2>5. stored <= stored' BY <1>8 DEF StoreFull, Received, Finish, TypeOK
  <2> QED BY <2>2, <2>3, <2>4, <2>5, LocalStep
<1>9. ASSUME ReadFails(k) PROVE IInv'
  <2>1. UNCHANGED link BY <1>9 DEF ReadFails
  <2>2. TypeOK'
    BY <1>9, <2>1 DEF ReadFails, Broken, Finish, TypeOK, Linked
  <2>3. Attended(k)'
    BY <1>9, <2>1 DEF ReadFails, Broken, Finish, TypeOK, Linked,
           Attended, Own, Lockstep, AckKept, StoredKept, ZoneAgreed, Numbered
  <2>4. \A j \in Controllers \ {k} : Untouched(j)
    BY <1>9, <2>1 DEF ReadFails, Broken, Finish, TypeOK, Linked, Untouched
  <2>5. stored <= stored' BY <1>9 DEF ReadFails, Broken, Finish, TypeOK
  <2> QED BY <2>2, <2>3, <2>4, <2>5, LocalStep
<1>10. ASSUME Acknowledge(k) PROVE IInv'
  <2>0. PICK n \in 1..MaxStored : zone[k] = <<k, n>> /\ n <= stored /\ zone[k] \in ZoneIDs
    BY <1>10, OwnZone DEF Acknowledge, Attended, StoredKept
  <2>1. Linked(k, link[k].alive, IF link[k].alive THEN "ack" ELSE None)
    BY <1>10, LinkEffects DEF Acknowledge
  <2>2. TypeOK'
    BY <1>10, <2>0, <2>1 DEF Acknowledge, TypeOK, Linked
  <2>3. Attended(k)'
    BY <1>10, <2>0, <2>1 DEF Acknowledge, TypeOK, Linked,
           Attended, Own, Lockstep, AckKept, StoredKept, ZoneAgreed, Numbered
  <2>4. \A j \in Controllers \ {k} : Untouched(j)
    BY <1>10, <2>0, <2>1 DEF Acknowledge, TypeOK, Linked, Untouched
  <2>5. stored <= stored' BY <1>10, <2>0 DEF Acknowledge, TypeOK
  <2> QED BY <2>2, <2>3, <2>4, <2>5, LocalStep
<1>11. ASSUME AcknowledgeFails(k) PROVE IInv'
  <2>0. PICK n \in 1..MaxStored : zone[k] = <<k, n>> /\ n <= stored /\ zone[k] \in ZoneIDs
    BY <1>11, OwnZone DEF AcknowledgeFails, Attended, StoredKept
  <2>1. UNCHANGED link BY <1>11 DEF AcknowledgeFails
  <2>2. TypeOK'
    BY <1>11, <2>0, <2>1 DEF AcknowledgeFails, Finish, TypeOK, Linked
  <2>3. Attended(k)'
    BY <1>11, <2>0, <2>1 DEF AcknowledgeFails, Finish, TypeOK, Linked,
           Attended, Own, Lockstep, AckKept, StoredKept, ZoneAgreed, Numbered
  <2>4. \A j \in Controllers \ {k} : Untouched(j)
    BY <1>11, <2>0, <2>1 DEF AcknowledgeFails, Finish, TypeOK, Linked, Untouched
  <2>5. stored <= stored' BY <1>11, <2>0 DEF AcknowledgeFails, Finish, TypeOK
  <2> QED BY <2>2, <2>3, <2>4, <2>5, LocalStep
<1>12. ASSUME Register(k) PROVE IInv'
  <2>0. PICK n \in 1..MaxStored : zone[k] = <<k, n>> /\ n <= stored /\ zone[k] \in ZoneIDs
    BY <1>12, OwnZone DEF Register, Attended, StoredKept
  <2>1. UNCHANGED link BY <1>12 DEF Register
  <2>2. TypeOK'
    BY <1>12, <2>0, <2>1 DEF Register, Overtaken, TypeOK, Linked
  <2>3. Attended(k)'
    BY <1>12, <2>0, <2>1 DEF Register, Overtaken, TypeOK, Linked,
           Attended, Own, Lockstep, AckKept, StoredKept, ZoneAgreed, Numbered
  <2>4. \A j \in Controllers \ {k} : Untouched(j)
    BY <1>12, <2>0, <2>1 DEF Register, Overtaken, TypeOK, Linked, Untouched
  <2>5. stored <= stored' BY <1>12, <2>0 DEF Register, Overtaken, TypeOK
  <2> QED BY <2>2, <2>3, <2>4, <2>5, LocalStep
<1>13. ASSUME RollBack(k) PROVE IInv'
  <2>0. PICK n \in 1..MaxStored : zone[k] = <<k, n>> /\ n <= stored /\ zone[k] \in ZoneIDs
    BY <1>13, OwnZone DEF RollBack, Attended, StoredKept
  <2>1. Linked(k, FALSE, link[k].msg)
    BY <1>13, LinkEffects DEF RollBack
  <2>2. TypeOK'
    BY <1>13, <2>0, <2>1 DEF RollBack, Finish, TypeOK, Linked
  <2>3. Attended(k)'
    BY <1>13, <2>0, <2>1 DEF RollBack, Finish, TypeOK, Linked,
           Attended, Own, Lockstep, AckKept, StoredKept, ZoneAgreed, Numbered
  <2>4. \A j \in Controllers \ {k} : Untouched(j)
    BY <1>13, <2>0, <2>1 DEF RollBack, Finish, TypeOK, Linked, Untouched
  <2>5. stored <= stored' BY <1>13, <2>0 DEF RollBack, Finish, TypeOK
  <2> QED BY <2>2, <2>3, <2>4, <2>5, LocalStep
<1>14. ASSUME Exit(k) PROVE IInv'
  <2>1. Linked(k, FALSE, link[k].msg)
    BY <1>14, LinkEffects DEF Exit
  <2>2. TypeOK'
    BY <1>14, <2>1 DEF Exit, Finish, TypeOK, Linked
  <2>3. Attended(k)'
    BY <1>14, <2>1 DEF Exit, Finish, TypeOK, Linked,
           Attended, Own, Lockstep, AckKept, StoredKept, ZoneAgreed, Numbered
  <2>4. \A j \in Controllers \ {k} : Untouched(j)
    BY <1>14, <2>1 DEF Exit, Finish, TypeOK, Linked, Untouched
  <2>5. stored <= stored' BY <1>14 DEF Exit, Finish, TypeOK
  <2> QED BY <2>2, <2>3, <2>4, <2>5, LocalStep
<1>15. ASSUME BreakConnection(k) PROVE IInv'
  <2>0. link[k].msg = "ack" =>
          \E n \in 1..MaxStored : zone[k] = <<k, n>> /\ n <= stored /\ zone[k] \in ZoneIDs
    BY OwnZone DEF Attended, AckKept
  <2>1. Linked(k, FALSE, None)
    BY <1>15, LinkEffects DEF BreakConnection
  <2>2. TypeOK'
    BY <1>15, <2>0, <2>1 DEF BreakConnection, TypeOK, Linked
  <2>3. Attended(k)'
    BY <1>15, <2>0, <2>1 DEF BreakConnection, TypeOK, Linked,
           Attended, Own, Lockstep, AckKept, StoredKept, ZoneAgreed, Numbered
  <2>4. \A j \in Controllers \ {k} : Untouched(j)
    BY <1>15, <2>0, <2>1 DEF BreakConnection, TypeOK, Linked, Untouched
  <2>5. stored <= stored' BY <1>15, <2>0 DEF BreakConnection, TypeOK
  <2> QED BY <2>2, <2>3, <2>4, <2>5, LocalStep
<1> QED BY <1>1, <1>2, <1>3, <1>4, <1>5, <1>6, <1>7, <1>8, <1>9, <1>10, <1>11, <1>12, <1>13, <1>14, <1>15 DEF Handler

\* A zone that is left: what the controller and the device have of it goes at once.
LEMMA LeaveStep ==
    ASSUME IInv, NEW z \in ZoneIDs, LeaveZone(z) PROVE IInv'
<1> USE ConstantsAssumption DEF ghosts, searching, wire, admission
<1>1. TypeOK' BY DEF IInv, LeaveZone, TypeOK, Updaters, Overtaken
<1>2. ASSUME NEW j \in Controllers PROVE Attended(j)'
  <2>1. Attended(j) /\ TypeOK BY DEF IInv
  <2>2. /\ UNCHANGED <<step, link, at, zone, stored>> /\ z \in zones
        /\ zones' = zones \ {z} /\ certs' = certs \ {z} /\ known' = known \ {z}
        /\ excused' = excused \cup {z} /\ UNCHANGED orphaned
    BY DEF LeaveZone
  <2>3. zone'[j] \in Own(j)' \cup {None} /\ Lockstep(j)'
    BY <2>1, <2>2 DEF Attended, Own, Lockstep
  <2>4. AckKept(j)' BY <2>1, <2>2 DEF Attended, AckKept, Own
  <2>5. StoredKept(j)' BY <2>1, <2>2 DEF Attended, StoredKept, Own
  <2>6. ASSUME NEW n \in 1..MaxStored PROVE (Numbered(j, n) /\ ZoneAgreed(j, <<j, n>>))'
    BY <2>1, <2>2 DEF Attended, Numbered, ZoneAgreed
  <2> QED BY <2>3, <2>4, <2>5, <2>6 DEF Attended
<1> QED BY <1>1, <1>2 DEF IInv

\* The window and the listener are no concern of the exchanges.
LEMMA UntouchedStep ==
    ASSUME IInv, TypeOK', UNCHANGED <<step, link, at, zone, stored, zones, certs, known, ghosts>>
    PROVE  IInv'
<1>1. ASSUME NEW j \in Controllers PROVE Untouched(j) BY DEF Untouched, ghosts
<1>2. stored <= stored' BY DEF IInv, TypeOK
<1> QED BY <1>1, <1>2, Frame DEF IInv

\* The commissioning window.
LEMMA WindowStep ==
    ASSUME IInv, EnterCommissioningMode \/ WindowTimeout \/ Reopen PROVE IInv'
<1> USE DEF ghosts, searching, wire, admission, store, listener
<1>1. TypeOK'
  BY DEF IInv, TypeOK, EnterCommissioningMode, WindowTimeout, Reopen, OpenWindow
<1> QED
  BY <1>1, UntouchedStep DEF EnterCommissioningMode, WindowTimeout, Reopen

\* The listener for pairing requests.
LEMMA ListenerStep ==
    ASSUME IInv, \/ \E p \in Updaters : Update(p)
                 \/ \E b \in Browses : EndBrowse(b)
                 \/ \E b \in Browses, k \in Controllers : Discovered(b, k) \/ Withdrawn(b, k)
    PROVE  IInv'
<1> USE DEF unheard, ghosts, searching, wire, admission, store
<1>1. TypeOK /\ UNCHANGED unheard
  BY DEF IInv, Update, Decide, StartPairingRequestListening, StopPairingRequestListening,
         EndBrowse, Discovered, Withdrawn
<1>2. ASSUME NEW p \in Updaters, Update(p) PROVE TypeOK'
  <2>1. CASE Decide(p) BY <1>1, <2>1 DEF TypeOK, Decide
  <2>2. CASE StartPairingRequestListening(p)
    BY <1>1, <2>2 DEF TypeOK, StartPairingRequestListening
  <2>3. CASE StopPairingRequestListening(p)
    BY <1>1, <2>3 DEF TypeOK, StopPairingRequestListening
  <2> QED BY <1>2, <2>1, <2>2, <2>3 DEF Update
<1>3. ASSUME NEW b \in Browses, EndBrowse(b) PROVE TypeOK'
  BY <1>1, <1>3 DEF TypeOK, EndBrowse
<1>4. ASSUME NEW b \in Browses, NEW k \in Controllers, Discovered(b, k) \/ Withdrawn(b, k)
      PROVE  TypeOK'
  <2>1. browse[b] \in SUBSET Controllers BY <1>1, <1>4 DEF TypeOK, Discovered, Withdrawn, Live
  <2>2. CASE Discovered(b, k) BY <1>1, <2>1, <2>2 DEF TypeOK, Discovered, OpenWindow
  <2>3. CASE Withdrawn(b, k) BY <1>1, <2>1, <2>3 DEF TypeOK, Withdrawn
  <2> QED BY <1>4, <2>2, <2>3
<1>5. TypeOK' BY <1>2, <1>3, <1>4
<1> QED BY <1>1, <1>5, UntouchedStep

-----------------------------------------------------------------------------
\* A device without zones, no connection.
LEMMA InitInv == Init => IInv
<1> SUFFICES ASSUME Init PROVE IInv
  OBVIOUS
<1> USE ConstantsAssumption DEF Messages
<1>1. TypeOK
  <2>1. /\ step \in [Controllers -> {"idle", "try", "pase", "csr", "ack", "poll"}]
        /\ at \in [Controllers -> {"none", "first", "handshake", "request", "install",
                                  "stored", "acked", "registered"}]
        /\ zone \in [Controllers -> ZoneIDs \cup {None}] /\ stored \in 0..MaxStored
    BY DEF Init
  <2>2. link \in [Controllers -> [alive : BOOLEAN, msg : Messages \cup {None}]]
    BY DEF Init
  <2>3. /\ browse \in [Browses -> {None, Cancelled} \cup SUBSET Controllers]
        /\ update \in [Updaters -> {"none", "decide", "start", "stop", "done"}]
    BY DEF Init
  <2> QED BY <2>1, <2>2, <2>3 DEF Init, TypeOK
<1>2. ASSUME NEW k \in Controllers PROVE Attended(k)
  BY DEF Init, Attended, Lockstep, AckKept, StoredKept, ZoneAgreed, Numbered
<1> QED BY <1>1, <1>2 DEF IInv

\* Every step of controllers, device, network and listener keeps the invariant.
LEMMA NextInv == IInv /\ [Next]_vars => IInv'
<1> SUFFICES ASSUME IInv, [Next]_vars PROVE IInv'
  OBVIOUS
<1>1. ASSUME UNCHANGED vars PROVE IInv'
  <2>1. TypeOK'
    BY <1>1 DEF IInv, TypeOK, vars, ghosts, searching, wire, admission, store, listener
  <2>2. UNCHANGED <<step, link, at, zone, stored, zones, certs, known, ghosts>>
    BY <1>1 DEF vars, ghosts, searching, wire, admission, store
  <2> QED BY <2>1, <2>2, UntouchedStep
<1>2. ASSUME NEW k \in Controllers, Controller(k) \/ Handler(k) \/ BreakConnection(k) PROVE IInv'
  BY <1>2, ControllerStep, HandlerStep
<1>3. ASSUME NEW z \in ZoneIDs, LeaveZone(z) PROVE IInv'
  BY <1>3, LeaveStep
<1>4. ASSUME EnterCommissioningMode \/ WindowTimeout \/ Reopen PROVE IInv'
  BY <1>4, WindowStep
<1>5. ASSUME \/ \E p \in Updaters : Update(p)
             \/ \E b \in Browses : EndBrowse(b)
             \/ \E b \in Browses, k \in Controllers : Discovered(b, k) \/ Withdrawn(b, k)
      PROVE  IInv'
  BY <1>5, ListenerStep
<1> QED BY <1>1, <1>2, <1>3, <1>4, <1>5 DEF Next

\* The inductive invariant holds throughout.
LEMMA Invariant == Spec => []IInv
BY InitInv, NextInv, PTL DEF Spec

\* Variables are well typed, the message on a connection, the place of the
\* goroutine and the zone named between them included.
THEOREM TypeCorrect == Spec => []TypeOK
<1>1. IInv => TypeOK BY DEF IInv
<1> QED BY <1>1, Invariant, PTL

\* The acknowledgement tells the truth: a device that a controller lists has its
\* certificates and is in the zone or about to join it, and a zone the device is in
\* is listed or its acknowledgement is waiting to be read
\* (performCertExchange, IssueInitialCertSync).
THEOREM MembersAlwaysAgree == Spec => []MembersAgree
<1>1. IInv => MembersAgree
  <2> SUFFICES ASSUME IInv, NEW z \in ZoneIDs \ excused
               PROVE  /\ z \in known => z \in certs /\ (z \in zones \/ (Handled(z) /\ at[z[1]] = "acked"))
                      /\ z \in zones => z \in known \/ step[z[1]] = "ack"
    BY DEF MembersAgree
  <2>1. PICK k \in Controllers, n \in 1..MaxStored : z = <<k, n>> BY DEF ZoneIDs
  <2>2. ZoneAgreed(k, z) /\ AckKept(k) /\ z[1] = k BY <2>1 DEF IInv, Attended
  <2> QED BY <2>2 DEF ZoneAgreed, AckKept, Handled
<1> QED BY <1>1, Invariant, PTL

\* The certificate store follows the zones: rolling back and leaving a zone take
\* its certificates away, and nothing but a failed acknowledgement leaves any
\* behind (rollbackCommissioningCertArtifacts, RemoveZone).
THEOREM CertsAlwaysFollow == Spec => []CertsFollowZones
<1>1. IInv => CertsFollowZones
  <2> SUFFICES ASSUME IInv PROVE CertsFollowZones
    OBVIOUS
  <2>1. ASSUME NEW z \in ZoneIDs
        PROVE  /\ z \in zones => z \in certs
               /\ z \in certs \ (zones \cup orphaned) => Handled(z) /\ at[z[1]] \in {"stored", "acked"}
    <3>1. PICK k \in Controllers, n \in 1..MaxStored : z = <<k, n>> BY DEF ZoneIDs
    <3>2. ZoneAgreed(k, z) /\ z[1] = k BY <3>1 DEF IInv, Attended
    <3> QED BY <3>2 DEF ZoneAgreed, Handled
  <2> QED BY <2>1 DEF CertsFollowZones, IInv, TypeOK
<1> QED BY <1>1, Invariant, PTL
-----------------------------------------------------------------------------
(* The listener. *)

\* A goroutine decides about the listener once it has registered the zone.
UpdatesOwned == \A k \in Controllers : at[k] # "registered" => update[k] = "none"

\* As long as nothing was overtaken: flag, cancel function and browses agree, a
\* decision that waits to be carried out is about the zones as they are, and whoever
\* changed the zones has not done yet.
ListenerAgreed ==
    /\ Live = IF listening THEN {cancel} ELSE {}
    /\ \A p \in Updaters : /\ update[p] = "start" => ~Full
                           /\ update[p] = "stop" => Full
    /\ \/ zones = {} \/ listening = ~Full
       \/ \E p \in Updaters : update[p] \in {"decide", "start", "stop"}

ListenerInv == TypeOK /\ UpdatesOwned /\ (~overlap => ListenerAgreed)

\* Steps that are not about the zones or the listener.
LEMMA ListenerKept ==
    ASSUME ListenerInv, TypeOK', UNCHANGED <<zones, listener>>, UpdatesOwned'
    PROVE  ListenerInv'
BY DEF ListenerInv, ListenerAgreed, listener, Live, Full

\* Steps of the goroutines and of the controllers.
LEMMA GoroutineListener ==
    ASSUME ListenerInv, TypeOK', NEW k \in Controllers,
           Controller(k) \/ Handler(k) \/ BreakConnection(k)
    PROVE  ListenerInv'
<1> USE DEF Goto, wire, store, listener
<1>0. TypeOK /\ UpdatesOwned BY DEF ListenerInv
<1>1. ASSUME Controller(k) \/ BreakConnection(k) PROVE ListenerInv'
  <2>1. \/ UNCHANGED <<at, zones, listener>>
        \/ at[k] = "none" /\ at' = [at EXCEPT ![k] = "first"] /\ UNCHANGED <<zones, listener>>
    BY <1>1 DEF Controller, CommissionDevice, Poll, Dial, DialFails, HandshakeFails,
         Handshake, SignCSR, Acknowledged, ExchangeFails, StopPolling, BreakConnection
  <2>2. UpdatesOwned' BY <1>0, <2>1 DEF UpdatesOwned, TypeOK
  <2> QED BY <2>1, <2>2, ListenerKept
<1>2. ASSUME \/ Accept(k) \/ Reject(k) \/ Pair(k) \/ GiveUp(k) \/ ReadRequest(k)
             \/ RefuseZone(k) \/ Install(k) \/ StoreFull(k) \/ ReadFails(k)
             \/ Acknowledge(k) \/ AcknowledgeFails(k) \/ RollBack(k)
      PROVE  ListenerInv'
  <2>1. /\ at[k] # "registered" /\ UNCHANGED <<zones, listener>>
        /\ \A j \in Controllers \ {k} : at'[j] = at[j]
    BY <1>0, <1>2 DEF TypeOK, Finish, Accept, Reject, Pair, GiveUp, ReadRequest, RefuseZone,
         Install, StoreFull, ReadFails, Acknowledge, AcknowledgeFails, RollBack
  <2>2. UpdatesOwned' BY <1>0, <2>1 DEF UpdatesOwned
  <2> QED BY <2>1, <2>2, ListenerKept
<1>3. ASSUME Register(k) PROVE ListenerInv'
  <2>1. /\ update[k] = "none" /\ update' = [update EXCEPT ![k] = "decide"]
        /\ k \in Updaters /\ at' = [at EXCEPT ![k] = "registered"]
        /\ UNCHANGED <<listening, cancel, browse>>
    BY <1>0, <1>3 DEF Register, UpdatesOwned, Updaters
  <2>2. UpdatesOwned' BY <1>0, <2>1 DEF UpdatesOwned, TypeOK, Updaters
  <2>3. ASSUME ~overlap' PROVE ListenerAgreed'
    <3>1. ~overlap /\ \A q \in Updaters \ {k} : update[q] \notin {"start", "stop"}
      BY <1>3, <2>3 DEF Register, Overtaken
    <3>2. update'[k] = "decide" /\ \A q \in Updaters : update'[q] \notin {"start", "stop"}
      BY <1>0, <2>1, <3>1 DEF TypeOK
    <3> QED BY <2>1, <3>1, <3>2 DEF ListenerInv, ListenerAgreed, Live
  <2> QED BY <2>2, <2>3 DEF ListenerInv
<1>4. ASSUME Exit(k) PROVE ListenerInv'
  <2>1. /\ update[k] = "done" /\ update' = [update EXCEPT ![k] = "none"] /\ k \in Updaters
        /\ UNCHANGED <<zones, listening, cancel, browse, overlap>>
        /\ at' = [at EXCEPT ![k] = "none"]
    BY <1>4 DEF Exit, Updaters, Finish
  <2>2. UpdatesOwned' BY <1>0, <2>1 DEF UpdatesOwned, TypeOK, Updaters
  <2>3. ~overlap => ListenerAgreed'
    BY <1>0, <2>1 DEF ListenerInv, ListenerAgreed, Live, Full, TypeOK
  <2> QED BY <2>1, <2>2, <2>3 DEF ListenerInv
<1> QED BY <1>1, <1>2, <1>3, <1>4 DEF Handler

\* Steps of the listener, of the window and of RemoveZone.
LEMMA UpdateListener ==
    ASSUME ListenerInv, TypeOK', NEW p \in Updaters, Update(p) PROVE ListenerInv'
<1> USE DEF unheard, wire, store
<1>0. TypeOK /\ UpdatesOwned BY DEF ListenerInv
<1>1. /\ UNCHANGED <<at, zones, overlap>> /\ Full' = Full
      /\ update[p] # "none" /\ \A q \in Updaters \ {p} : update'[q] = update[q]
  BY <1>0 DEF Update, Decide, StartPairingRequestListening, StopPairingRequestListening, Full,
       TypeOK
<1>2. UpdatesOwned' BY <1>0, <1>1 DEF UpdatesOwned, Updaters
<1>3. ASSUME Decide(p), ~overlap PROVE ListenerAgreed'
  <2>1. /\ UNCHANGED <<listening, cancel, browse>> /\ Full \in BOOLEAN /\ listening \in BOOLEAN
        /\ update'[p] = IF Full = listening THEN IF Full THEN "stop" ELSE "start" ELSE "done"
    BY <1>0, <1>3 DEF Decide, TypeOK, Full
  <2>2. Live' = Live BY <2>1 DEF Live
  <2> QED BY <1>1, <1>3, <2>1, <2>2 DEF ListenerInv, ListenerAgreed
<1>4. ASSUME StartPairingRequestListening(p), ~overlap PROVE ListenerAgreed'
  <2>0. ~Full /\ update'[p] = "done" /\ ListenerAgreed
    BY <1>0, <1>4 DEF StartPairingRequestListening, ListenerInv, ListenerAgreed, TypeOK
  <2>1. CASE listening
    <3>1. UNCHANGED <<listening, cancel, browse>>
      BY <1>4, <2>1 DEF StartPairingRequestListening
    <3> QED BY <1>1, <2>0, <2>1, <3>1 DEF ListenerAgreed, Live
  <2>2. CASE ~listening
    <3>1. PICK b \in Browses : /\ browse' = [browse EXCEPT ![b] = {}]
                               /\ cancel' = b /\ listening' = TRUE
      BY <1>4, <2>0, <2>2 DEF StartPairingRequestListening
    <3>2. Live = {} BY <2>0, <2>2 DEF ListenerAgreed
    <3>3. \A c \in Browses : browse'[c] \notin {None, Cancelled} <=> c = b
      <4>1. {} \notin {None, Cancelled} BY ConstantsAssumption
      <4>2. \A c \in Browses : browse'[c] = IF c = b THEN {} ELSE browse[c] BY <1>0, <3>1 DEF TypeOK
      <4> QED BY <3>2, <4>1, <4>2 DEF Live
    <3>4. Live' = {b} BY <3>3 DEF Live
    <3> QED BY <1>1, <2>0, <3>1, <3>4 DEF ListenerAgreed
  <2> QED BY <2>1, <2>2
<1>5. ASSUME StopPairingRequestListening(p), ~overlap PROVE ListenerAgreed'
  <2>1. Full /\ update'[p] = "done" /\ ListenerAgreed /\ listening' = FALSE
    BY <1>0, <1>5 DEF StopPairingRequestListening, ListenerInv, ListenerAgreed, TypeOK
  <2>2. Live' = {}
    <3>1. CASE listening
      <4>1. Live = {cancel} /\ cancel # None
        BY <2>1, <3>1, ConstantsAssumption DEF ListenerAgreed, Live
      <4>2. browse' = [browse EXCEPT ![cancel] = Cancelled]
        BY <1>5, <3>1, <4>1 DEF StopPairingRequestListening
      <4> QED BY <1>0, <4>1, <4>2 DEF Live, TypeOK
    <3>2. CASE ~listening
      BY <1>5, <2>1, <3>2 DEF StopPairingRequestListening, ListenerAgreed, Live
    <3> QED BY <3>1, <3>2
  <2> QED BY <1>1, <2>1, <2>2 DEF ListenerAgreed
<1> QED BY <1>0, <1>1, <1>2, <1>3, <1>4, <1>5 DEF ListenerInv, Update

\* Browses report controllers, and end.
LEMMA BrowseListener ==
    ASSUME ListenerInv, TypeOK', NEW b \in Browses,
           EndBrowse(b) \/ \E k \in Controllers : Discovered(b, k) \/ Withdrawn(b, k)
    PROVE  ListenerInv'
<1> USE DEF unheard, wire, store
<1>0. TypeOK /\ UpdatesOwned BY DEF ListenerInv
<1>1. UNCHANGED <<at, zones, cancel, update>> /\ Full' = Full
  BY DEF EndBrowse, Discovered, Withdrawn, Full
<1>2. UpdatesOwned' BY <1>0, <1>1 DEF UpdatesOwned
<1>3. ASSUME EndBrowse(b), ~overlap' PROVE ListenerAgreed'
  <2>1. /\ ~overlap /\ Live = {} /\ ~listening' /\ b \notin Live
        /\ browse' = [browse EXCEPT ![b] = None]
    BY <1>3 DEF EndBrowse, Live
  <2>2. ~listening BY <2>1 DEF ListenerInv, ListenerAgreed
  <2>3. Live' = {} BY <1>0, <2>1 DEF Live, TypeOK
  <2>4. listening' = listening BY <1>0, <2>1, <2>2 DEF TypeOK
  <2> QED BY <1>1, <2>1, <2>3, <2>4 DEF ListenerInv, ListenerAgreed
<1>4. ASSUME NEW k \in Controllers, Discovered(b, k) \/ Withdrawn(b, k), ~overlap'
      PROVE  ListenerAgreed'
  <2>1. /\ ~overlap /\ b \in Live /\ UNCHANGED listening
        /\ \E reported \in SUBSET Controllers : browse' = [browse EXCEPT ![b] = reported]
    <3>1. browse[b] \in SUBSET Controllers BY <1>0, <1>4 DEF TypeOK, Discovered, Withdrawn, Live
    <3> QED BY <1>4, <3>1 DEF Discovered, Withdrawn
  <2>2. PICK reported \in SUBSET Controllers : browse' = [browse EXCEPT ![b] = reported] BY <2>1
  <2>3. \A c \in Browses : browse'[c] = IF c = b THEN reported ELSE browse[c] BY <1>0, <2>2 DEF TypeOK
  <2>4. reported \notin {None, Cancelled} BY ConstantsAssumption
  <2>5. Live' = Live BY <2>1, <2>3, <2>4 DEF Live
  <2> QED BY <1>1, <2>1, <2>5 DEF ListenerInv, ListenerAgreed
<1> QED BY <1>2, <1>3, <1>4 DEF ListenerInv

\* Leaving a zone, opening the window, its timeout and the re-opening.
LEMMA ZonesListener ==
    ASSUME ListenerInv, TypeOK',
           \/ \E z \in ZoneIDs : LeaveZone(z)
           \/ EnterCommissioningMode \/ WindowTimeout \/ Reopen
    PROVE  ListenerInv'
<1> USE DEF wire, store, listener
<1>0. TypeOK /\ UpdatesOwned BY DEF ListenerInv
<1>1. ASSUME NEW z \in ZoneIDs, LeaveZone(z) PROVE ListenerInv'
  <2>1. /\ update' = [update EXCEPT ![RemoveZone] = "decide"] /\ RemoveZone \in Updaters
        /\ UNCHANGED <<at, listening, cancel, browse>>
    BY <1>1 DEF LeaveZone, Updaters
  <2>2. UpdatesOwned' BY <1>0, <2>1, ConstantsAssumption DEF UpdatesOwned, TypeOK, Updaters
  <2>3. ASSUME ~overlap' PROVE ListenerAgreed'
    <3>1. ~overlap /\ \A q \in Updaters \ {RemoveZone} : update[q] \notin {"start", "stop"}
      BY <1>1, <2>3 DEF LeaveZone, Overtaken
    <3>2. /\ update'[RemoveZone] = "decide"
          /\ \A q \in Updaters : update'[q] \notin {"start", "stop"}
      BY <1>0, <2>1, <3>1 DEF TypeOK
    <3> QED BY <2>1, <3>1, <3>2 DEF ListenerInv, ListenerAgreed, Live
  <2> QED BY <2>2, <2>3 DEF ListenerInv
<1>2. ASSUME Reopen PROVE ListenerInv'
  <2>1. /\ update[RemoveZone] = "done" /\ update' = [update EXCEPT ![RemoveZone] = "none"]
        /\ RemoveZone \in Updaters /\ UNCHANGED <<at, zones, listening, cancel, browse, overlap>>
    BY <1>2 DEF Reopen, Updaters
  <2>2. UpdatesOwned' BY <1>0, <2>1, ConstantsAssumption DEF UpdatesOwned, TypeOK, Updaters
  <2>3. ~overlap => ListenerAgreed'
    BY <1>0, <2>1 DEF ListenerInv, ListenerAgreed, Live, Full, TypeOK
  <2> QED BY <2>1, <2>2, <2>3 DEF ListenerInv
<1>3. ASSUME EnterCommissioningMode \/ WindowTimeout PROVE ListenerInv'
  <2>1. UNCHANGED <<at, zones, listener>> BY <1>3 DEF EnterCommissioningMode, WindowTimeout
  <2>2. UpdatesOwned' BY <1>0, <2>1 DEF UpdatesOwned
  <2> QED BY <2>1, <2>2, ListenerKept
<1> QED BY <1>1, <1>2, <1>3

\* The listener's invariant holds throughout.
LEMMA ListenerInvariant == Spec => []ListenerInv
<1>1. Init => ListenerInv
  <2> SUFFICES ASSUME Init PROVE ListenerInv
    OBVIOUS
  <2>1. TypeOK BY InitInv DEF IInv
  <2>2. UpdatesOwned BY DEF Init, UpdatesOwned, Updaters
  <2>3. ListenerAgreed BY DEF Init, ListenerAgreed, Live
  <2> QED BY <2>1, <2>2, <2>3 DEF ListenerInv
<1>2. ListenerInv /\ TypeOK' /\ [Next]_vars => ListenerInv'
  <2> SUFFICES ASSUME ListenerInv, TypeOK', [Next]_vars PROVE ListenerInv'
    OBVIOUS
  <2>1. ASSUME UNCHANGED vars PROVE ListenerInv'
    <3>1. UNCHANGED <<at, zones, listener>> BY <2>1 DEF vars, wire, store
    <3>2. UpdatesOwned' BY <3>1 DEF listener, ListenerInv, UpdatesOwned
    <3> QED BY <3>1, <3>2, ListenerKept
  <2> QED BY <2>1, GoroutineListener, UpdateListener, BrowseListener, ZonesListener DEF Next
<1> QED BY <1>1, <1>2, TypeCorrect, PTL DEF Spec

\* A device in a zone listens for pairing requests, with one browse, if there is
\* room for another zone, and with none if not, once the updates under way are done
\* and unless one overtook another (updatePairingRequestListening).
THEOREM ListensAsItShould == Spec => []ListensUnlessOverlap
<1>1. ListenerInv => ListensUnlessOverlap
  <2> SUFFICES ASSUME ListenerInv, zones # {}, ~overlap,
                      \A p \in Updaters : update[p] \in {"none", "done"}
               PROVE  listening = ~Full /\ Cardinality(Live) = IF Full THEN 0 ELSE 1
    BY DEF ListensUnlessOverlap
  <2>1. listening = ~Full /\ Live = IF listening THEN {cancel} ELSE {}
    BY DEF ListenerInv, ListenerAgreed
  <2>2. Cardinality({}) = 0 /\ Cardinality({cancel}) = 1 BY FS_EmptySet, FS_Singleton
  <2> QED BY <2>1, <2>2
<1> QED BY <1>1, ListenerInvariant, PTL
=============================================================================
