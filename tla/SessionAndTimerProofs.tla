----------------------- MODULE SessionAndTimerProofs -----------------------
(***************************************************************************)
(* Safety of what a device keeps of a zone while it runs: the session, for *)
(* any zones, any connections and any cap, and the failsafe timer, for     *)
(* every set of Go timers and every choice of the durations.               *)
(*                                                                         *)
(* A connection's goroutine works in short sections, between which others  *)
(* remove, replace or evict what it is about to mark, store or clean up.   *)
(* The invariant says for every place of a goroutine what it may rely on:  *)
(* that it has a zone, that the zone is that of its certificate while it   *)
(* replaces a session, and that a session belongs to whoever will remove   *)
(* it.  None of it mentions the registry, which others change at any time. *)
(*                                                                         *)
(* Of the timer, TimerTypeOK and CountdownIsBacked are inductive together. *)
(* For the absence of an early failsafe the induction needs                *)
(* OnlyCurrentTimer: as long as no race has been lost, the single live     *)
(* failsafe timer is the one the Timer holds, and what it has left plus    *)
(* what has elapsed covers the countdown.                                  *)
(***************************************************************************)
EXTENDS ZoneSessions, FailsafeTimer, FiniteSetTheorems, TLAPS

Holding == {c \in Conns : pc[c] \in HoldsSlot}

\* A connection that has passed Identify has a zone.
HasTarget == {"replacing", "replaced", "picked", "marked", "running", "ended", "disconnecting"}

\* It replaces a session only for the zone of its own certificate.
TargetsChosen ==
    \A c \in Conns :
        /\ pc[c] \in HasTarget => target[c] \in Zones
        /\ pc[c] = "replacing" => peer[c] = target[c]

SlotsHeld == IsFiniteSet(Holding) /\ SlotsCounted

IInv == TypeOK /\ TargetsChosen /\ SlotsHeld /\ SessionsAttended

-----------------------------------------------------------------------------
(* The counter of the connection cap. *)

\* A step that moves the goroutine of c: its slot is counted when it is taken
\* and when it is given up.
LEMMA SlotMoved ==
    ASSUME TypeOK, SlotsHeld, NEW c \in Conns, NEW place \in Places, Goto(c, place),
           activeConns' = IF pc[c] \in HoldsSlot
                          THEN IF place \in HoldsSlot THEN activeConns ELSE activeConns - 1
                          ELSE IF place \in HoldsSlot THEN activeConns + 1 ELSE activeConns
    PROVE  /\ SlotsHeld'
           /\ pc[c] \in HoldsSlot => activeConns >= 1
           /\ activeConns \in Nat
<1>1. pc' = [pc EXCEPT ![c] = place] /\ pc \in [Conns -> Places] /\ activeConns \in Nat
  BY ConstantsAssumption DEF Goto, TypeOK
<1>2. IsFiniteSet(Holding) /\ activeConns = Cardinality(Holding)
  BY DEF SlotsHeld, SlotsCounted, Holding
<1>3. c \in Holding <=> pc[c] \in HoldsSlot BY DEF Holding
<1>4. CASE place \in HoldsSlot
  <2>1. Holding' = Holding \cup {c} BY <1>1, <1>4 DEF Holding
  <2>2. /\ IsFiniteSet(Holding \cup {c})
        /\ Cardinality(Holding \cup {c}) = IF c \in Holding THEN Cardinality(Holding)
                                           ELSE Cardinality(Holding) + 1
    BY <1>2, FS_AddElement
  <2>3. Holding # {} => Cardinality(Holding) >= 1
    BY <1>2, FS_EmptySet, FS_CardinalityType
  <2> QED BY <1>1, <1>2, <1>3, <1>4, <2>1, <2>2, <2>3 DEF SlotsHeld, SlotsCounted, Holding
<1>5. CASE place \notin HoldsSlot
  <2>1. Holding' = Holding \ {c} BY <1>1, <1>5 DEF Holding
  <2>2. /\ IsFiniteSet(Holding \ {c})
        /\ Cardinality(Holding \ {c}) = IF c \in Holding THEN Cardinality(Holding) - 1
                                        ELSE Cardinality(Holding)
    BY <1>2, FS_RemoveElement
  <2>3. Holding # {} => Cardinality(Holding) >= 1
    BY <1>2, FS_EmptySet, FS_CardinalityType
  <2> QED BY <1>1, <1>2, <1>3, <1>5, <2>1, <2>2, <2>3 DEF SlotsHeld, SlotsCounted, Holding
<1> QED BY <1>4, <1>5

\* Steps of no connection.
LEMMA SlotsKept == SlotsHeld /\ UNCHANGED <<pc, activeConns>> => SlotsHeld'
BY DEF SlotsHeld, SlotsCounted, Holding

-----------------------------------------------------------------------------
(* The zones. *)

\* Certificates, registration, removal and eviction: a zone that is dropped takes
\* its session and its mark along.
LEMMA ZoneStep ==
    ASSUME IInv,
           \/ CollectEvictions
           \/ \E z \in Zones : \/ StoreCert(z) \/ RollbackCert(z) \/ RemoveZone(z) \/ Evict(z)
                               \/ RegisterZoneAwaitingConnection(z)
    PROVE  IInv'
<1> USE ConstantsAssumption DEF registry
<1>0. TypeOK /\ TargetsChosen /\ SlotsHeld /\ SessionHasOwner /\ ConnectedHasSession
  BY DEF IInv, SessionsAttended
<1>1. UNCHANGED <<pc, peer, target, activeConns>>
  BY DEF CollectEvictions, StoreCert, RollbackCert, RemoveZone, Evict,
         RegisterZoneAwaitingConnection
<1>2. TargetsChosen' BY <1>0, <1>1 DEF TargetsChosen
<1>3. SlotsHeld' BY <1>0, <1>1, SlotsKept
<1>4. ASSUME NEW z \in Zones, DropZone(z), evictList' \subseteq evictList
      PROVE  TypeOK' /\ SessionsAttended'
  <2>1. TypeOK' BY <1>0, <1>1, <1>4 DEF DropZone, TypeOK
  <2>2. SessionHasOwner' BY <1>0, <1>1, <1>4 DEF DropZone, TypeOK, SessionHasOwner
  <2>3. ConnectedHasSession' BY <1>0, <1>1, <1>4 DEF DropZone, TypeOK, ConnectedHasSession
  <2> QED BY <2>1, <2>2, <2>3 DEF SessionsAttended
<1>5. ASSUME UNCHANGED session, connected' \subseteq connected, TypeOK'
      PROVE  SessionsAttended'
  BY <1>0, <1>1, <1>5 DEF SessionsAttended, SessionHasOwner, ConnectedHasSession
<1>6. ASSUME CollectEvictions PROVE TypeOK' /\ SessionsAttended'
  <2>1. TypeOK' BY <1>0, <1>6 DEF CollectEvictions, TypeOK
  <2> QED BY <1>5, <1>6, <2>1 DEF CollectEvictions
<1>7. ASSUME NEW z \in Zones, StoreCert(z) \/ RollbackCert(z) \/ RegisterZoneAwaitingConnection(z)
      PROVE  TypeOK' /\ SessionsAttended'
  <2>1. TypeOK'
    BY <1>0, <1>7 DEF StoreCert, RollbackCert, RegisterZoneAwaitingConnection, TypeOK
  <2> QED BY <1>5, <1>7, <2>1 DEF StoreCert, RollbackCert, RegisterZoneAwaitingConnection
<1>8. ASSUME NEW z \in Zones, RemoveZone(z) PROVE TypeOK' /\ SessionsAttended'
  BY <1>4, <1>8 DEF RemoveZone
<1>9. ASSUME NEW z \in Zones, Evict(z) PROVE TypeOK' /\ SessionsAttended'
  <2>1. CASE z \in paired BY <1>4, <1>9, <2>1 DEF Evict
  <2>2. CASE z \notin paired
    <3>1. UNCHANGED <<registry, session>> /\ evictList' \subseteq evictList
      BY <1>9, <2>2 DEF Evict
    <3>2. TypeOK' BY <1>0, <1>1, <3>1 DEF TypeOK
    <3> QED BY <1>5, <3>1, <3>2
  <2> QED BY <2>1, <2>2
<1> QED BY <1>2, <1>3, <1>6, <1>7, <1>8, <1>9 DEF IInv

-----------------------------------------------------------------------------
(* The connections. *)

\* The goroutine of c ends, from a place where no session is its own and no
\* zone waits for it.
LEMMA Finishing ==
    ASSUME IInv, NEW c \in Conns, Finish(c), UNCHANGED <<session, evictList, fresh, certs, paired>>,
           \A z \in Zones : session[z] # c, connected' \subseteq connected,
           pc[c] \in {"marked", "replaced", "disconnecting"} => target[c] \notin connected'
    PROVE  IInv'
<1> USE ConstantsAssumption
<1>0. TypeOK /\ TargetsChosen /\ SlotsHeld /\ SessionHasOwner /\ ConnectedHasSession
  BY DEF IInv, SessionsAttended
<1>1. /\ pc' = [pc EXCEPT ![c] = "idle"] /\ peer' = [peer EXCEPT ![c] = NoZone]
      /\ target' = [target EXCEPT ![c] = NoZone]
  BY DEF Finish, Goto
<1>2. /\ SlotsHeld' /\ activeConns \in Nat
      /\ pc[c] \in HoldsSlot => activeConns >= 1
  <2>1. Goto(c, "idle") /\ "idle" \in Places /\ "idle" \notin HoldsSlot
    BY DEF Finish, Places, HoldsSlot
  <2>2. activeConns' = IF pc[c] \in HoldsSlot THEN activeConns - 1 ELSE activeConns
    BY DEF Finish
  <2> QED BY <1>0, <2>1, <2>2, SlotMoved
<1>3. TypeOK'
  <2>1. activeConns' \in 0..MaxZones + 1 BY <1>0, <1>2 DEF Finish, TypeOK
  <2> QED BY <1>0, <1>1, <2>1 DEF TypeOK, Places
<1>4. TargetsChosen' BY <1>0, <1>1 DEF TargetsChosen, TypeOK, HasTarget
<1>5. SessionHasOwner' BY <1>0, <1>1 DEF SessionHasOwner, TypeOK
<1>6. ConnectedHasSession' BY <1>0, <1>1 DEF ConnectedHasSession, TypeOK
<1> QED BY <1>2, <1>3, <1>4, <1>5, <1>6 DEF IInv, SessionsAttended

\* The steps of a connection keep the invariant.
LEMMA ConnStepInv ==
    ASSUME IInv, NEW c \in Conns,
           \/ Accept(c) \/ EndMessageLoop(c) \/ ConnStep(c)
           \/ \E p \in Zones : VerifyClientCert(c, p)
    PROVE  IInv'
<1> USE ConstantsAssumption DEF registry
<1>0. /\ TypeOK /\ TargetsChosen /\ SlotsHeld /\ SessionHasOwner /\ ConnectedHasSession
      /\ activeConns \in Nat
  BY DEF IInv, SessionsAttended, TypeOK
\* The goroutine of c goes on to a place that says no more of its zone.
<1>1. ASSUME NEW place \in Places, pc' = [pc EXCEPT ![c] = place], TypeOK',
             SlotsHeld', UNCHANGED <<session, connected>>,
             \A d \in Conns \ {c} : target'[d] = target[d] /\ peer'[d] = peer[d],
             pc[c] \notin {"running", "marked", "replaced", "disconnecting", "ended"},
             place \in HasTarget => target'[c] \in Zones,
             place = "replacing" => peer'[c] = target'[c]
      PROVE  IInv'
  <2>1. TargetsChosen' BY <1>0, <1>1 DEF TargetsChosen, TypeOK
  <2>2. SessionHasOwner' BY <1>0, <1>1 DEF SessionHasOwner, TypeOK
  <2>3. ConnectedHasSession' BY <1>0, <1>1 DEF ConnectedHasSession, TypeOK
  <2> QED BY <1>1, <2>1, <2>2, <2>3 DEF IInv, SessionsAttended
<1>2. ASSUME Accept(c) PROVE IInv'
  <2>1. SlotsHeld' BY <1>0, <1>2, SlotMoved DEF Accept, HoldsSlot, Places
  <2>2. TypeOK' BY <1>0, <1>2 DEF Accept, TypeOK, Goto, Places
  <2> QED BY <1>1, <1>2, <2>1, <2>2 DEF Accept, Goto, Places, HasTarget
<1>3. ASSUME NEW p \in Zones, VerifyClientCert(c, p) PROVE IInv'
  <2>1. SlotsHeld' BY <1>0, <1>3, SlotMoved DEF VerifyClientCert, HoldsSlot, Places
  <2>2. TypeOK' BY <1>0, <1>3 DEF VerifyClientCert, TypeOK, Goto, Places
  <2> QED BY <1>0, <1>1, <1>3, <2>1, <2>2 DEF VerifyClientCert, Goto, Places, HasTarget, TypeOK
<1>4. ASSUME HandshakeFails(c) \/ Reject(c) PROVE IInv'
  BY <1>0, <1>4, Finishing DEF HandshakeFails, Reject, SessionHasOwner
<1>5. ASSUME Identify(c) PROVE IInv'
  <2>1. PICK z \in Zones, place \in {"picked", "replacing"} :
          /\ target' = [target EXCEPT ![c] = z] /\ Goto(c, place)
          /\ place = "replacing" => z = peer[c]
    BY <1>0, <1>5 DEF Identify, TypeOK, MatchZoneByPeerCert, MatchConnectedZoneByPeerCert
  <2>2. pc[c] = "verified" /\ UNCHANGED <<registry, session, peer, activeConns, evictList>>
    BY <1>5 DEF Identify
  <2>3. SlotsHeld' BY <1>0, <2>1, <2>2, SlotMoved DEF HoldsSlot, Places
  <2>4. TypeOK' BY <1>0, <2>1, <2>2 DEF TypeOK, Goto, Places
  <2> QED BY <1>0, <1>1, <2>1, <2>2, <2>3, <2>4 DEF Goto, Places, TypeOK
<1>6. ASSUME RemoveStaleSession(c) PROVE IInv'
  <2>1. PICK place \in {"picked", "replaced"} :
          /\ Goto(c, place) /\ (place = "replaced" <=> session[target[c]] # NoConn)
    BY <1>6 DEF RemoveStaleSession
  <2>2. /\ pc[c] = "replacing" /\ target[c] \in Zones
        /\ session' = [session EXCEPT ![target[c]] = NoConn]
        /\ UNCHANGED <<registry, peer, target, activeConns, evictList>>
    BY <1>0, <1>6 DEF RemoveStaleSession, TargetsChosen, HasTarget
  <2>3. SlotsHeld' BY <1>0, <2>1, <2>2, SlotMoved DEF HoldsSlot, Places
  <2>4. TypeOK' BY <1>0, <2>1, <2>2 DEF TypeOK, Goto, Places
  <2>5. TargetsChosen' BY <1>0, <2>1, <2>2 DEF TargetsChosen, TypeOK, Goto, HasTarget
  <2>6. SessionHasOwner' BY <1>0, <2>1, <2>2 DEF SessionHasOwner, TypeOK, Goto
  <2>7. ConnectedHasSession' BY <1>0, <2>1, <2>2 DEF ConnectedHasSession, TypeOK, Goto
  <2> QED BY <2>3, <2>4, <2>5, <2>6, <2>7 DEF IInv, SessionsAttended
<1>7. ASSUME DisconnectStale(c) PROVE IInv'
  <2>1. /\ pc[c] = "replaced" /\ target[c] \in Zones /\ Goto(c, "picked")
        /\ connected' = connected \ {target[c]}
        /\ UNCHANGED <<fresh, certs, paired, session, peer, target, activeConns, evictList>>
    BY <1>0, <1>7 DEF DisconnectStale, TargetsChosen, HasTarget
  <2>2. SlotsHeld' BY <1>0, <2>1, SlotMoved DEF HoldsSlot, Places
  <2>3. TypeOK' BY <1>0, <2>1 DEF TypeOK, Goto, Places
  <2>4. TargetsChosen' BY <1>0, <2>1 DEF TargetsChosen, TypeOK, Goto, HasTarget
  <2>5. SessionHasOwner' BY <1>0, <2>1 DEF SessionHasOwner, TypeOK, Goto
  <2>6. ConnectedHasSession' BY <1>0, <2>1 DEF ConnectedHasSession, TypeOK, Goto
  <2> QED BY <2>2, <2>3, <2>4, <2>5, <2>6 DEF IInv, SessionsAttended
<1>8. ASSUME MarkConnected(c) PROVE IInv'
  <2>1. /\ pc[c] = "picked" /\ target[c] \in Zones /\ Goto(c, "marked")
        /\ connected' = connected \cup ({target[c]} \cap paired)
        /\ UNCHANGED <<fresh, certs, paired, session, peer, target, activeConns, evictList>>
    BY <1>0, <1>8 DEF MarkConnected, TargetsChosen, HasTarget
  <2>2. SlotsHeld' BY <1>0, <2>1, SlotMoved DEF HoldsSlot, Places
  <2>3. TypeOK' BY <1>0, <2>1 DEF TypeOK, Goto, Places
  <2>4. TargetsChosen' BY <1>0, <2>1 DEF TargetsChosen, TypeOK, Goto, HasTarget
  <2>5. SessionHasOwner' BY <1>0, <2>1 DEF SessionHasOwner, TypeOK, Goto
  <2>6. ConnectedHasSession' BY <1>0, <2>1 DEF ConnectedHasSession, TypeOK, Goto
  <2> QED BY <2>2, <2>3, <2>4, <2>5, <2>6 DEF IInv, SessionsAttended
<1>9. ASSUME StoreSession(c) PROVE IInv'
  <2>1. /\ pc[c] = "marked" /\ target[c] \in Zones /\ Goto(c, "running")
        /\ session' = [session EXCEPT ![target[c]] = c] /\ activeConns' = activeConns - 1
        /\ UNCHANGED <<registry, peer, target, evictList>>
    BY <1>0, <1>9 DEF StoreSession, TargetsChosen, HasTarget
  <2>2. SlotsHeld' /\ activeConns >= 1 BY <1>0, <2>1, SlotMoved DEF HoldsSlot, Places
  <2>3. TypeOK' BY <1>0, <2>1, <2>2 DEF TypeOK, Goto, Places
  <2>4. TargetsChosen' BY <1>0, <2>1 DEF TargetsChosen, TypeOK, Goto, HasTarget
  <2>5. SessionHasOwner' BY <1>0, <2>1 DEF SessionHasOwner, TypeOK, Goto
  <2>6. ConnectedHasSession' BY <1>0, <2>1 DEF ConnectedHasSession, TypeOK, Goto
  <2> QED BY <2>2, <2>3, <2>4, <2>5, <2>6 DEF IInv, SessionsAttended
<1>10. ASSUME EndMessageLoop(c) PROVE IInv'
  <2>1. /\ pc[c] = "running" /\ Goto(c, "ended")
        /\ UNCHANGED <<registry, session, peer, target, activeConns, evictList>>
    BY <1>10 DEF EndMessageLoop
  <2>2. SlotsHeld' BY <1>0, <2>1, SlotMoved DEF HoldsSlot, Places
  <2>3. TypeOK' BY <1>0, <2>1 DEF TypeOK, Goto, Places
  <2>4. TargetsChosen' BY <1>0, <2>1 DEF TargetsChosen, TypeOK, Goto, HasTarget
  <2>5. SessionHasOwner' BY <1>0, <2>1 DEF SessionHasOwner, TypeOK, Goto
  <2>6. ConnectedHasSession' BY <1>0, <2>1 DEF ConnectedHasSession, TypeOK, Goto
  <2> QED BY <2>2, <2>3, <2>4, <2>5, <2>6 DEF IInv, SessionsAttended
<1>11. ASSUME CloseSession(c) PROVE IInv'
  <2>1. /\ pc[c] = "ended" /\ target[c] \in Zones /\ Goto(c, "disconnecting")
        /\ session[target[c]] = c /\ session' = [session EXCEPT ![target[c]] = NoConn]
        /\ UNCHANGED <<registry, peer, target, activeConns, evictList>>
    BY <1>0, <1>11 DEF CloseSession, TargetsChosen, HasTarget
  <2>2. SlotsHeld' BY <1>0, <2>1, SlotMoved DEF HoldsSlot, Places
  <2>3. TypeOK' BY <1>0, <2>1 DEF TypeOK, Goto, Places
  <2>4. TargetsChosen' BY <1>0, <2>1 DEF TargetsChosen, TypeOK, Goto, HasTarget
  <2>5. SessionHasOwner' BY <1>0, <2>1 DEF SessionHasOwner, TypeOK, Goto
  <2>6. ConnectedHasSession' BY <1>0, <2>1 DEF ConnectedHasSession, TypeOK, Goto
  <2> QED BY <2>2, <2>3, <2>4, <2>5, <2>6 DEF IInv, SessionsAttended
<1>12. ASSUME LeaveSession(c) PROVE IInv'
  BY <1>0, <1>12, Finishing DEF LeaveSession, SessionHasOwner
<1>13. ASSUME HandleZoneDisconnect(c) PROVE IInv'
  BY <1>0, <1>13, Finishing DEF HandleZoneDisconnect, SessionHasOwner
<1> QED BY <1>2, <1>3, <1>4, <1>5, <1>6, <1>7, <1>8, <1>9, <1>10, <1>11, <1>12, <1>13 DEF ConnStep

-----------------------------------------------------------------------------

\* A device that starts with no zone and no connection.
LEMMA InitInv == Init => IInv
<1> SUFFICES ASSUME Init PROVE IInv
  OBVIOUS
<1> USE ConstantsAssumption DEF Init
<1>1. TypeOK BY DEF TypeOK, Places
<1>2. TargetsChosen BY DEF TargetsChosen, HasTarget
<1>3. Holding = {} BY DEF Holding, HoldsSlot
<1>4. SlotsHeld BY <1>3, FS_EmptySet DEF SlotsHeld, SlotsCounted, Holding
<1>5. SessionsAttended BY DEF SessionsAttended, SessionHasOwner, ConnectedHasSession
<1> QED BY <1>1, <1>2, <1>4, <1>5 DEF IInv

\* Every step keeps it.
LEMMA NextInv == IInv /\ [Next]_vars => IInv'
<1>1. ASSUME IInv, UNCHANGED vars PROVE IInv'
  BY <1>1 DEF vars, registry, IInv, TypeOK, TargetsChosen, SlotsHeld, SlotsCounted, Holding,
              SessionsAttended, SessionHasOwner, ConnectedHasSession
<1> QED BY <1>1, ZoneStep, ConnStepInv DEF Next

\* It holds throughout.
LEMMA Invariant == Spec => []IInv
BY InitInv, NextInv, PTL DEF Spec

\* Variables are well typed; the counter stays between 0 and the cap.
THEOREM TypeCorrect == Spec => []TypeOK
<1>1. IInv => TypeOK BY DEF IInv
<1> QED BY <1>1, Invariant, PTL

\* No path through a connection releases its slot twice or never
\* (handleIncomingConnection, releaseActiveConn).
THEOREM SlotsAlwaysCounted == Spec => []SlotsCounted
<1>1. IInv => SlotsCounted BY DEF IInv, SlotsHeld
<1> QED BY <1>1, Invariant, PTL

\* A stored session is that of a goroutine that will clean it up, and a zone
\* marked connected is not stuck (handleOperationalConnection,
\* handleZoneSessionClose, HandleZoneDisconnect).
THEOREM SessionsAlwaysAttended == Spec => []SessionsAttended
<1>1. IInv => SessionsAttended BY DEF IInv
<1> QED BY <1>1, Invariant, PTL

\* The exit of a stale message loop never takes down the session that replaced it
\* (handleZoneSessionClose).
THEOREM OnlyOwnersClose == Spec => OnlyOwnerCloses
<1> DEFINE Owned ==
      \A z \in Zones :
        session[z] # NoConn /\ session'[z] = NoConn =>
            \/ z \notin paired'
            \/ pc[session[z]] = "ended"
            \/ \E c \in Conns : pc[c] = "replacing" /\ pc'[c] = "replaced" /\ target[c] = z /\ peer[c] = z
<1>1. ASSUME IInv, Next PROVE Owned
  <2> USE ConstantsAssumption DEF registry
  <2>0. TypeOK /\ TargetsChosen BY <1>1 DEF IInv
  <2>1. CASE UNCHANGED session BY <2>1
  <2>2. ASSUME NEW z \in Zones, RemoveZone(z) \/ (Evict(z) /\ z \in paired) PROVE Owned
    BY <2>0, <2>2 DEF RemoveZone, Evict, DropZone, TypeOK
  <2>3. ASSUME NEW c \in Conns, RemoveStaleSession(c) PROVE Owned
    BY <2>0, <2>3 DEF RemoveStaleSession, Goto, TypeOK, TargetsChosen, HasTarget
  <2>4. ASSUME NEW c \in Conns, StoreSession(c) \/ CloseSession(c) PROVE Owned
    BY <2>0, <2>4 DEF StoreSession, CloseSession, TypeOK
  <2> HIDE DEF Owned
  <2> QED
    BY <1>1, <2>1, <2>2, <2>3, <2>4 DEF Next, ConnStep, StoreCert, RollbackCert,
       RegisterZoneAwaitingConnection, CollectEvictions, Evict, Accept, VerifyClientCert,
       EndMessageLoop, HandshakeFails, Identify, Reject, DisconnectStale, MarkConnected,
       LeaveSession, HandleZoneDisconnect
<1>2. IInv /\ [Next]_vars => [Owned]_vars BY <1>1
<1> QED BY <1>2, Invariant, PTL DEF Spec, OnlyOwnerCloses

-----------------------------------------------------------------------------
(* The failsafe timer. *)

USE TimersAssumption, DurationsAssumption

-----------------------------------------------------------------------------
(* The Go timers' operators are well typed. *)

\* An unused Go timer is well typed,
LEMMA IdleTimerType == Idle \in GoTimers
BY DEF Idle, GoTimers

\* so are all of them at the start,
LEMMA AllIdleType == [t \in Timers |-> Idle] \in [Timers -> GoTimers]
BY IdleTimerType

\* one that is armed,
LEMMA AfterFuncType ==
    ASSUME NEW d \in Nat, NEW k \in {"failsafe", "grace"}
    PROVE  AfterFunc(k, d) \in GoTimers
BY DEF AfterFunc, GoTimers

\* and those that are stopped.
LEMMA StoppedType ==
    ASSUME TimerTypeOK, NEW hs
    PROVE  Stopped(hs) \in [Timers -> GoTimers]
BY IdleTimerType DEF Stopped, TimerTypeOK

\* Restore counts down from a positive time within the longest duration.
LEMMA RestoredRemainingType ==
    ASSUME TimerTypeOK, snapshot # NoSnapshot
    PROVE  RestoredRemaining \in 0..MaxDuration
BY DEF RestoredRemaining, TimerTypeOK, Snapshots

-----------------------------------------------------------------------------
\* The initial state is well typed.
LEMMA InitTimerTypeOK == TimerInit => TimerTypeOK
<1> SUFFICES ASSUME TimerInit PROVE TimerTypeOK
  OBVIOUS
<1>1. timers \in [Timers -> GoTimers]
  BY AllIdleType DEF TimerInit
<1>2. lostRace \in BOOLEAN
  BY DEF TimerInit
<1> QED
  BY <1>1, <1>2 DEF TimerInit, TimerTypeOK, States

\* Every method, expiry and callback keeps the types.
LEMMA NextTimerTypeOK == TimerTypeOK /\ [TimerNext]_timerVars => TimerTypeOK'
<1> SUFFICES ASSUME TimerTypeOK, [TimerNext]_timerVars PROVE TimerTypeOK'
  OBVIOUS
<1>1. ASSUME NEW d \in 0..MaxDuration + 1, SetDuration(d) PROVE TimerTypeOK'
  BY <1>1 DEF TimerTypeOK, SetDuration
<1>2. CASE Start
  <2>1. PICK t \in Timers :
          /\ timers' = [timers EXCEPT ![t] = AfterFunc("failsafe", duration)]
          /\ failsafeTimer' = t
    BY <1>2 DEF Start
  <2>2. timers' \in [Timers -> GoTimers]
    BY <2>1, AfterFuncType DEF TimerTypeOK
  <2> QED
    BY <1>2, <2>1, <2>2 DEF TimerTypeOK, Start, States
<1>3. CASE Stop
  <2>1. CASE state = "Failsafe" /\ GracePeriod > 0
    <3>1. PICK t \in Timers :
            /\ timers' = [Stopped({failsafeTimer}) EXCEPT
                              ![t] = AfterFunc("grace", GracePeriod)]
            /\ gracePeriodTimer' = t
      BY <1>3, <2>1 DEF Stop
    <3>2. timers' \in [Timers -> GoTimers]
      BY <3>1, AfterFuncType, StoppedType
    <3> QED
      BY <1>3, <2>1, <3>1, <3>2 DEF TimerTypeOK, Stop, States
  <2>2. CASE ~(state = "Failsafe" /\ GracePeriod > 0)
    BY <1>3, <2>2, StoppedType DEF TimerTypeOK, Stop, States
  <2> QED
    BY <2>1, <2>2
<1>4. CASE Reset
  BY <1>4, StoppedType DEF TimerTypeOK, Reset, States
<1>5. CASE Snapshot
  <2>1. snapshot' \in Snapshots
    BY <1>5 DEF TimerTypeOK, Snapshot, Snapshots, RemainingTime
  <2> QED
    BY <1>5, <2>1 DEF TimerTypeOK, Snapshot
<1>6. CASE Restore
  <2>0. /\ snapshot # NoSnapshot /\ snapshot \in Snapshots
        /\ RestoredRemaining \in 0..MaxDuration
    BY <1>6, RestoredRemainingType DEF Restore, TimerTypeOK
  <2>1. CASE RestoreExpired
    BY <1>6, <2>0, <2>1, StoppedType
    DEF TimerTypeOK, Restore, RestoreExpired, States, Snapshots
  <2>2. CASE RestoreRunning
    <3>1. PICK t \in Timers :
            /\ timers' = [Stopped({failsafeTimer, gracePeriodTimer}) EXCEPT
                              ![t] = AfterFunc("failsafe", RestoredRemaining)]
            /\ failsafeTimer' = t
      BY <2>2 DEF RestoreRunning
    <3>2. timers' \in [Timers -> GoTimers]
      BY <2>0, <3>1, AfterFuncType, StoppedType
    <3> QED
      BY <1>6, <2>0, <2>2, <3>1, <3>2
      DEF TimerTypeOK, Restore, RestoreRunning, States
  <2>3. CASE RestoreOther
    BY <1>6, <2>0, <2>3, StoppedType
    DEF TimerTypeOK, Restore, RestoreOther, States, Snapshots
  <2> QED
    BY <1>6, <2>1, <2>2, <2>3 DEF Restore
<1>7. ASSUME NEW t \in Timers, EnterFailsafe(t) PROVE TimerTypeOK'
  BY <1>7, IdleTimerType DEF TimerTypeOK, EnterFailsafe, States
<1>8. ASSUME NEW t \in Timers, ExitGracePeriod(t) PROVE TimerTypeOK'
  BY <1>8, IdleTimerType DEF TimerTypeOK, ExitGracePeriod, States
<1>9. ASSUME NEW t \in Timers, Expire(t) PROVE TimerTypeOK'
  <2>1. timers' \in [Timers -> GoTimers]
    BY <1>9 DEF TimerTypeOK, Expire, GoTimers
  <2> QED
    BY <1>9, <2>1 DEF TimerTypeOK, Expire
<1>10. CASE Tick
  <2>1. timers' \in [Timers -> GoTimers]
    BY <1>10 DEF TimerTypeOK, Tick, TickedTimers, GoTimers
  <2>2. snapshot' \in Snapshots \cup {NoSnapshot}
    BY <1>10 DEF TimerTypeOK, Tick, TickedSnapshot, Snapshots, Later
  <2> QED
    BY <1>10, <2>1, <2>2 DEF TimerTypeOK, Tick, Later
<1>11. CASE Crash
  <2>1. timers' \in [Timers -> GoTimers]
    BY <1>11, AllIdleType DEF Crash
  <2>2. lostRace' \in BOOLEAN
    BY <1>11 DEF Crash
  <2> QED
    BY <1>11, <2>1, <2>2 DEF TimerTypeOK, Crash, States
<1>12. CASE UNCHANGED timerVars
  BY <1>12 DEF TimerTypeOK, timerVars
<1> QED
  BY <1>1, <1>2, <1>3, <1>4, <1>5, <1>6, <1>7, <1>8, <1>9, <1>10, <1>11, <1>12
  DEF TimerNext

\* The state of a Timer is always well typed (timer.go): in particular no
\* sequence of SetDuration, snapshots and restores makes the duration zero
\* or longer than the longest configurable one.
THEOREM TimerTypeCorrect == TimerSpec => []TimerTypeOK
<1>1. QED
  BY InitTimerTypeOK, NextTimerTypeOK, PTL DEF TimerSpec

-----------------------------------------------------------------------------
(* A live callback stays live except by Stop or by running. *)

\* time.Timer.Stop disarms an armed timer and no other.
LEMMA StoppedValue ==
    ASSUME TimerTypeOK, NEW hs, NEW t \in Timers
    PROVE  /\ timers[t].phase = "armed" /\ t \in hs => Stopped(hs)[t] = Idle
           /\ ~(timers[t].phase = "armed" /\ t \in hs) => Stopped(hs)[t] = timers[t]
BY DEF Stopped, TimerTypeOK

\* Every step keeps a running countdown backed by a Go timer.
LEMMA NextTimerBacked ==
    TimerTypeOK /\ CountdownIsBacked /\ [TimerNext]_timerVars => CountdownIsBacked'
<1> SUFFICES ASSUME TimerTypeOK, CountdownIsBacked, [TimerNext]_timerVars
             PROVE  CountdownIsBacked'
  OBVIOUS
<1> USE DEF CountdownIsBacked, Live
<1>1. ASSUME NEW d \in 0..MaxDuration + 1, SetDuration(d)
      PROVE  CountdownIsBacked'
  BY <1>1 DEF SetDuration
<1>2. CASE Start
  <2>1. PICK t \in Timers :
          timers' = [timers EXCEPT ![t] = AfterFunc("failsafe", duration)]
    BY <1>2 DEF Start
  <2>2. /\ timers'[t].phase = "armed" /\ timers'[t].kind = "failsafe"
        /\ state' = "TimerRunning"
    BY <1>2, <2>1 DEF Start, TimerTypeOK, AfterFunc
  <2> QED
    BY <2>2
<1>3. CASE Stop
  <2>1. CASE state = "Failsafe" /\ GracePeriod > 0
    <3>1. PICK t \in Timers :
            timers' = [Stopped({failsafeTimer}) EXCEPT
                           ![t] = AfterFunc("grace", GracePeriod)]
      BY <1>3, <2>1 DEF Stop
    <3>2. /\ timers'[t].phase = "armed" /\ timers'[t].kind = "grace"
          /\ state' = "GracePeriod"
      BY <1>3, <2>1, <3>1, StoppedType DEF Stop, AfterFunc
    <3> QED
      BY <3>2
  <2>2. CASE ~(state = "Failsafe" /\ GracePeriod > 0)
    BY <1>3, <2>2 DEF Stop
  <2> QED
    BY <2>1, <2>2
<1>4. CASE Reset
  BY <1>4 DEF Reset
<1>5. CASE Snapshot
  BY <1>5 DEF Snapshot
<1>6. CASE Restore
  <2>1. CASE RestoreExpired
    BY <2>1 DEF RestoreExpired
  <2>2. CASE RestoreRunning
    <3>1. PICK t \in Timers :
            timers' = [Stopped({failsafeTimer, gracePeriodTimer}) EXCEPT
                           ![t] = AfterFunc("failsafe", RestoredRemaining)]
      BY <2>2 DEF RestoreRunning
    <3>2. /\ timers'[t].phase = "armed" /\ timers'[t].kind = "failsafe"
          /\ state' = "TimerRunning"
      BY <2>2, <3>1, StoppedType DEF RestoreRunning, AfterFunc
    <3> QED
      BY <3>2
  <2>3. CASE RestoreOther
    BY <2>3 DEF RestoreOther
  <2> QED
    BY <1>6, <2>1, <2>2, <2>3 DEF Restore
<1>7. ASSUME NEW t \in Timers, EnterFailsafe(t) PROVE CountdownIsBacked'
  <2>1. \A u \in Timers : timers[u].kind = "grace" => timers'[u] = timers[u]
    BY <1>7 DEF EnterFailsafe, TimerTypeOK
  <2> QED
    BY <1>7, <2>1 DEF EnterFailsafe
<1>8. ASSUME NEW t \in Timers, ExitGracePeriod(t) PROVE CountdownIsBacked'
  <2>1. \A u \in Timers : timers[u].kind = "failsafe" => timers'[u] = timers[u]
    BY <1>8 DEF ExitGracePeriod, TimerTypeOK
  <2> QED
    BY <1>8, <2>1 DEF ExitGracePeriod
<1>9. ASSUME NEW t \in Timers, Expire(t) PROVE CountdownIsBacked'
  <2>1. \A u \in Timers : timers[u].phase # "free" =>
          timers'[u].phase # "free" /\ timers'[u].kind = timers[u].kind
    BY <1>9 DEF Expire, TimerTypeOK, GoTimers
  <2> QED
    BY <1>9, <2>1 DEF Expire
<1>10. CASE Tick
  <2>1. \A u \in Timers :
          timers'[u].phase = timers[u].phase /\ timers'[u].kind = timers[u].kind
    BY <1>10 DEF Tick, TickedTimers, TimerTypeOK, GoTimers
  <2> QED
    BY <1>10, <2>1 DEF Tick
<1>11. CASE Crash
  BY <1>11 DEF Crash
<1>12. CASE UNCHANGED timerVars
  BY <1>12 DEF timerVars
<1> QED
  BY <1>1, <1>2, <1>3, <1>4, <1>5, <1>6, <1>7, <1>8, <1>9, <1>10, <1>11, <1>12
  DEF TimerNext

\* A Timer in TIMER_RUNNING or GRACE_PERIOD always has a Go timer or a
\* callback that will take it out of that state (timer.go Start, Stop, Reset,
\* Restore, enterFailsafe, exitGracePeriod).
THEOREM CountdownAlwaysBacked == TimerSpec => []CountdownIsBacked
<1>1. TimerInit => CountdownIsBacked
  BY DEF TimerInit, CountdownIsBacked
<1>2. QED
  BY <1>1, InitTimerTypeOK, NextTimerTypeOK, NextTimerBacked, PTL DEF TimerSpec

-----------------------------------------------------------------------------
(* No early failsafe without a lost race. *)

\* No Go timer is in use at the start.
LEMMA InitOnlyCurrent == TimerInit => OnlyCurrentTimer
<1> SUFFICES ASSUME TimerInit, NEW t \in Timers, timers[t].phase # "free" PROVE FALSE
  BY DEF OnlyCurrentTimer, Live
<1> QED
  BY DEF TimerInit, Idle

\* Every step that does not lose a race keeps the current Go timer the only one.
LEMMA NextOnlyCurrent ==
    TimerTypeOK /\ OnlyCurrentTimer /\ [TimerNext]_timerVars => OnlyCurrentTimer'
<1> SUFFICES ASSUME TimerTypeOK, OnlyCurrentTimer, [TimerNext]_timerVars, ~lostRace',
                    NEW u \in Timers,
                    timers'[u].phase # "free", timers'[u].kind = "failsafe"
             PROVE  /\ u = failsafeTimer'
                    /\ state' = "TimerRunning"
                    /\ timers'[u].phase = "armed" =>
                          timers'[u].left + elapsed' >= armedFor'
                    /\ timers'[u].phase = "fired" => elapsed' >= armedFor'
  BY DEF OnlyCurrentTimer, Live
<1> DEFINE Goal == /\ u = failsafeTimer'
                   /\ state' = "TimerRunning"
                   /\ timers'[u].phase = "armed" =>
                         timers'[u].left + elapsed' >= armedFor'
                   /\ timers'[u].phase = "fired" => elapsed' >= armedFor'
\* No timer of this kind is live once the methods below have stopped the
\* current one, unless they lose a race.
<1>a. ASSUME ~lostRace, ~HasFired({failsafeTimer}),
             NEW hs, failsafeTimer \in hs, NEW v \in Timers,
             Stopped(hs)[v].phase # "free", Stopped(hs)[v].kind = "failsafe"
      PROVE  FALSE
  <2>1. Stopped(hs)[v] = timers[v]
    BY <1>a, StoppedValue DEF Idle
  <2>2. v = failsafeTimer /\ timers[v].phase = "armed"
    BY <1>a, <2>1 DEF OnlyCurrentTimer, Live, HasFired, TimerTypeOK, GoTimers
  <2>3. Stopped(hs)[v] = Idle
    BY <1>a, <2>2, StoppedValue
  <2> QED
    BY <1>a, <2>3 DEF Idle
<1>1. ASSUME NEW d \in 0..MaxDuration + 1, SetDuration(d) PROVE Goal
  BY <1>1 DEF SetDuration, OnlyCurrentTimer, Live
<1>2. CASE Start
  <2>1. PICK t \in Timers :
          /\ timers' = [timers EXCEPT ![t] = AfterFunc("failsafe", duration)]
          /\ failsafeTimer' = t
    BY <1>2 DEF Start
  <2>2. u = t
    BY <1>2, <2>1 DEF Start, OnlyCurrentTimer, Live, TimerTypeOK
  <2>3. timers'[u].phase = "armed" /\ timers'[u].left = duration
    BY <2>1, <2>2 DEF TimerTypeOK, AfterFunc
  <2> QED
    BY <1>2, <2>1, <2>2, <2>3 DEF Start, TimerTypeOK
<1>3. CASE Stop
  <2>0. ~lostRace /\ ~HasFired({failsafeTimer})
    BY <1>3 DEF Stop
  <2>1. CASE state = "Failsafe" /\ GracePeriod > 0
    <3>1. PICK t \in Timers :
            timers' = [Stopped({failsafeTimer}) EXCEPT
                           ![t] = AfterFunc("grace", GracePeriod)]
      BY <1>3, <2>1 DEF Stop
    <3>2. u # t
      BY <3>1, StoppedType DEF AfterFunc
    <3>3. timers'[u] = Stopped({failsafeTimer})[u]
      BY <3>1, <3>2, StoppedType
    <3> QED
      BY <2>0, <3>3, <1>a
  <2>2. CASE ~(state = "Failsafe" /\ GracePeriod > 0)
    <3>1. timers'[u] = Stopped({failsafeTimer})[u]
      BY <1>3, <2>2 DEF Stop
    <3> QED
      BY <2>0, <3>1, <1>a
  <2> QED
    BY <2>1, <2>2
<1>4. CASE Reset
  <2>1. /\ ~lostRace /\ ~HasFired({failsafeTimer})
        /\ timers'[u] = Stopped({failsafeTimer, gracePeriodTimer})[u]
    BY <1>4 DEF Reset
  <2> QED
    BY <2>1, <1>a
<1>5. CASE Snapshot
  BY <1>5 DEF Snapshot, OnlyCurrentTimer, Live
<1>6. CASE Restore
  <2>0. ~lostRace /\ ~HasFired({failsafeTimer}) /\ snapshot # NoSnapshot
    BY <1>6 DEF Restore
  <2>1. CASE RestoreExpired
    BY <2>0, <2>1, <1>a DEF RestoreExpired
  <2>2. CASE RestoreRunning
    <3>1. PICK t \in Timers :
            /\ timers' = [Stopped({failsafeTimer, gracePeriodTimer}) EXCEPT
                              ![t] = AfterFunc("failsafe", RestoredRemaining)]
            /\ failsafeTimer' = t
      BY <2>2 DEF RestoreRunning
    <3>2. ASSUME u # t PROVE FALSE
      <4>1. timers'[u] = Stopped({failsafeTimer, gracePeriodTimer})[u]
        BY <3>1, <3>2, StoppedType
      <4> QED
        BY <2>0, <4>1, <1>a
    <3>3. timers'[t].phase = "armed" /\ timers'[t].left = RestoredRemaining
      BY <3>1, StoppedType DEF AfterFunc
    <3>4. RestoredRemaining \in Nat
      BY <2>0, RestoredRemainingType
    <3> QED
      BY <2>2, <3>1, <3>2, <3>3, <3>4 DEF RestoreRunning
  <2>3. CASE RestoreOther
    BY <2>0, <2>3, <1>a DEF RestoreOther
  <2> QED
    BY <1>6, <2>1, <2>2, <2>3 DEF Restore
<1>7. ASSUME NEW t \in Timers, EnterFailsafe(t) PROVE Goal
  <2>1. ~lostRace /\ t = failsafeTimer
    BY <1>7 DEF EnterFailsafe, OnlyCurrentTimer, Live
  <2>2. u # t /\ timers'[u] = timers[u]
    BY <1>7 DEF EnterFailsafe, TimerTypeOK, Idle
  <2> QED
    BY <2>1, <2>2 DEF OnlyCurrentTimer, Live
<1>8. ASSUME NEW t \in Timers, ExitGracePeriod(t) PROVE Goal
  <2>1. timers'[u] = timers[u]
    BY <1>8 DEF ExitGracePeriod, TimerTypeOK, Idle
  <2>2. ~lostRace /\ state = "TimerRunning"
    BY <1>8, <2>1 DEF ExitGracePeriod, OnlyCurrentTimer, Live
  <2> QED
    BY <1>8, <2>1, <2>2 DEF ExitGracePeriod, OnlyCurrentTimer, Live
<1>9. ASSUME NEW t \in Timers, Expire(t) PROVE Goal
  <2>1. CASE u = t
    <3>1. /\ timers[u].phase = "armed" /\ timers[u].left = 0
          /\ timers'[u].phase = "fired" /\ timers[u].kind = "failsafe"
      BY <1>9, <2>1 DEF Expire, TimerTypeOK, GoTimers
    <3> QED
      BY <1>9, <3>1 DEF Expire, OnlyCurrentTimer, Live, TimerTypeOK
  <2>2. CASE u # t
    <3>1. timers'[u] = timers[u]
      BY <1>9, <2>2 DEF Expire, TimerTypeOK
    <3> QED
      BY <1>9, <3>1 DEF Expire, OnlyCurrentTimer, Live
  <2> QED
    BY <2>1, <2>2
<1>10. CASE Tick
  <2>1. /\ timers'[u].phase = timers[u].phase
        /\ timers'[u].kind = timers[u].kind
        /\ timers[u].phase = "armed" =>
              timers'[u].left = IF timers[u].left > 0 THEN timers[u].left - 1
                                ELSE timers[u].left
    BY <1>10 DEF Tick, TickedTimers, TimerTypeOK, GoTimers
  <2>2. /\ u = failsafeTimer /\ state = "TimerRunning"
        /\ timers[u].phase = "armed" => timers[u].left + elapsed >= armedFor
        /\ timers[u].phase = "fired" => elapsed >= armedFor
    BY <1>10, <2>1 DEF Tick, OnlyCurrentTimer, Live
  <2>3. /\ elapsed' = Later(elapsed) /\ armedFor' = armedFor
        /\ failsafeTimer' = failsafeTimer /\ state' = state
    BY <1>10, <2>2 DEF Tick
  <2>4. /\ elapsed \in 0..MaxDuration /\ armedFor \in 0..MaxDuration
        /\ timers[u].left \in Nat
    BY DEF TimerTypeOK, GoTimers
  <2> QED
    BY <2>1, <2>2, <2>3, <2>4 DEF Later
<1>11. CASE Crash
  BY <1>11 DEF Crash, Idle
<1>12. CASE UNCHANGED timerVars
  BY <1>12 DEF timerVars, OnlyCurrentTimer, Live
<1> QED
  BY <1>1, <1>2, <1>3, <1>4, <1>5, <1>6, <1>7, <1>8, <1>9, <1>10, <1>11, <1>12
  DEF TimerNext

\* Unless a method has given up a timer that had already expired, failsafe is
\* never triggered before the countdown has run out (timer.go Start, Stop,
\* Reset, Restore, enterFailsafe).
THEOREM NoEarlyFailsafeProved == TimerSpec => []NoEarlyFailsafeWithoutRace
<1>1. OnlyCurrentTimer => NoEarlyFailsafeWithoutRace
  BY DEF OnlyCurrentTimer, NoEarlyFailsafeWithoutRace, Live
<1>2. QED
  BY <1>1, InitTimerTypeOK, NextTimerTypeOK, InitOnlyCurrent, NextOnlyCurrent, PTL
  DEF TimerSpec
=============================================================================
