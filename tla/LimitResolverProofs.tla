------------------------- MODULE LimitResolverProofs -------------------------
(***************************************************************************)
(* Safety of LimitResolver for any zones, limits, durations and timers.    *)
(*                                                                         *)
(* The first part needs nothing of the timers: every handler ends in       *)
(* ResolveAndApply, so the effective limits are the resolution of what is  *)
(* stored.  That the most restrictive limit exists is part of the          *)
(* invariant, kept because a command stores one value for one zone: the    *)
(* zones need not be finitely many.                                        *)
(*                                                                         *)
(* The second part is about the keys of the duration timers, and holds as  *)
(* long as there are no more zones than indexes.                           *)
(***************************************************************************)
EXTENDS LimitResolver, FiniteSetTheorems, TLAPS

\* What a limit looks like once its request has been accepted.
StoredValues == [value : Storable, dur : Durations, left : Nat]

Values(ls, d) == {ls[z][d].value : z \in {y \in Zones : ls[y][d] # NoLimit}}

HasMinimum(S) == \E v \in S : \A w \in S : v <= w

WellStored(ls) ==
    /\ ls \in [Zones -> [Directions -> StoredValues \cup {NoLimit}]]
    /\ \A d \in Directions : \A S \in SUBSET Values(ls, d) : S # {} => HasMinimum(S)

Resolved ==
    /\ effective = [d \in Directions |-> MostRestrictive(Counted(limits, d))]
    /\ controlState = "Autonomous" => \A d \in Directions : effective[d] = NoLimit

LimitInv == TypeOK /\ WellStored(limits) /\ Resolved

-----------------------------------------------------------------------------
(* The limits. *)

\* Limits that are as before or cleared.
LEMMA Smaller ==
    ASSUME NEW ls, WellStored(ls), NEW ms \in [Zones -> [Directions -> StoredValues \cup {NoLimit}]],
           \A z \in Zones, d \in Directions : ms[z][d] \in {ls[z][d], NoLimit}
    PROVE  WellStored(ms)
<1>1. \A d \in Directions : Values(ms, d) \subseteq Values(ls, d) BY DEF Values
<1> QED BY <1>1 DEF WellStored

\* Limits without the expired ones are those that were stored.
LEMMA UnexpiredLimits ==
    ASSUME NEW ls, WellStored(ls)
    PROVE  /\ WellStored(Unexpired(ls))
           /\ \A z \in Zones, d \in Directions : Unexpired(ls)[z][d] \in {ls[z][d], NoLimit}
<1>1. Unexpired(ls) \in [Zones -> [Directions -> StoredValues \cup {NoLimit}]]
  BY DEF Unexpired, WellStored
<1>2. \A z \in Zones, d \in Directions : Unexpired(ls)[z][d] \in {ls[z][d], NoLimit}
  BY DEF Unexpired
<1> QED BY <1>1, <1>2, Smaller

\* Limits of a zone that are cleared are gone, the others stay.
LEMMA WithoutLimits ==
    ASSUME WellStored(limits), NEW z \in Zones, NEW ds \in SUBSET Directions
    PROVE  /\ WellStored(Without(z, ds))
           /\ \A y \in Zones, d \in Directions :
                Without(z, ds)[y][d] = IF y = z /\ d \in ds THEN NoLimit ELSE limits[y][d]
<1>1. \A y \in Zones, d \in Directions :
        Without(z, ds)[y][d] = IF y = z /\ d \in ds THEN NoLimit ELSE limits[y][d]
  BY DEF Without, WellStored
<1>2. Without(z, ds) \in [Zones -> [Directions -> StoredValues \cup {NoLimit}]]
  BY DEF Without, WellStored
<1> QED BY <1>1, <1>2, Smaller

\* No limits at all are well stored.
LEMMA NoLimits == WellStored([z \in Zones |-> [d \in Directions |-> NoLimit]])
BY DEF WellStored, Values

\* One value more.
LEMMA Larger ==
    ASSUME NEW A, NEW B, A \subseteq Int, NEW v \in Int, B \subseteq A \cup {v},
           \A S \in SUBSET A : S # {} => HasMinimum(S)
    PROVE  \A S \in SUBSET B : S # {} => HasMinimum(S)
<1> SUFFICES ASSUME NEW S \in SUBSET B, S # {} PROVE HasMinimum(S)
  OBVIOUS
<1>1. S \ {v} \in SUBSET A OBVIOUS
<1>2. CASE S \ {v} = {} BY <1>2 DEF HasMinimum
<1>3. CASE S \ {v} # {}
  <2>1. PICK m \in S \ {v} : \A w \in S \ {v} : m <= w BY <1>1, <1>3 DEF HasMinimum
  <2>2. CASE v \in S /\ v < m BY <2>1, <2>2 DEF HasMinimum
  <2>3. CASE ~(v \in S /\ v < m) BY <2>1, <2>3 DEF HasMinimum
  <2> QED BY <2>2, <2>3
<1> QED BY <1>2, <1>3

\* The limits that HandleSetLimit stores.
Commanded(z, r, dur) ==
    [limits EXCEPT ![z] = [d \in Directions |->
        IF d \in Requested(r) THEN [value |-> r[d], dur |-> dur, left |-> dur] ELSE @[d]]]

\* Limits that a zone sets replace its own, the others stay.
LEMMA CommandedLimits ==
    ASSUME WellStored(limits), NEW z \in Zones, NEW r \in [Directions -> Limits \cup {NoLimit}],
           NEW dur \in Durations, \A d \in Requested(r) : r[d] \in Storable
    PROVE  /\ WellStored(Commanded(z, r, dur))
           /\ \A y \in Zones, d \in Directions :
                Commanded(z, r, dur)[y][d] = IF y = z /\ d \in Requested(r)
                                             THEN [value |-> r[d], dur |-> dur, left |-> dur]
                                             ELSE limits[y][d]
<1> USE LimitsAssumption, DurationsAssumption
<1> DEFINE ls == Commanded(z, r, dur)
<1>1. \A y \in Zones, d \in Directions :
        ls[y][d] = IF y = z /\ d \in Requested(r)
                   THEN [value |-> r[d], dur |-> dur, left |-> dur] ELSE limits[y][d]
  BY DEF Commanded, WellStored
<1>2. \A d \in Requested(r) : [value |-> r[d], dur |-> dur, left |-> dur] \in StoredValues
  BY DEF StoredValues
<1>3. ls \in [Zones -> [Directions -> StoredValues \cup {NoLimit}]]
  BY <1>2 DEF Commanded, WellStored
<1> HIDE DEF ls
<1>4. ASSUME NEW d \in Directions
      PROVE  \A S \in SUBSET Values(ls, d) : S # {} => HasMinimum(S)
  <2>1. Values(limits, d) \subseteq Int BY DEF Values, WellStored, StoredValues, Storable
  <2>2. CASE d \in Requested(r)
    <3>0. \A y \in Zones : ls[y][d] # NoLimit =>
            \/ ls[y][d].value = r[d]
            \/ limits[y][d] # NoLimit /\ ls[y][d].value = limits[y][d].value
      <4>1. ls[z][d] = [value |-> r[d], dur |-> dur, left |-> dur] BY <1>1, <2>2
      <4>2. ls[z][d].value = r[d] BY <4>1
      <4>3. \A y \in Zones \ {z} : ls[y][d] = limits[y][d] BY <1>1
      <4> QED BY <4>2, <4>3
    <3>1. Values(ls, d) \subseteq Values(limits, d) \cup {r[d]} BY <3>0 DEF Values
    <3>2. r[d] \in Int BY <2>2 DEF Storable
    <3> QED BY <2>1, <3>1, <3>2, Larger DEF WellStored
  <2>3. CASE d \notin Requested(r)
    <3>0. \A y \in Zones : ls[y][d] = limits[y][d] BY <1>1, <2>3
    <3>1. Values(ls, d) = Values(limits, d) BY <3>0 DEF Values
    <3> QED BY <3>1 DEF WellStored
  <2> QED BY <2>2, <2>3
<1> QED BY <1>1, <1>3, <1>4 DEF WellStored, ls

\* resolveAndApply on limits that are well stored.
LEMMA Resolving ==
    ASSUME NEW ls, WellStored(ls), ResolveAndApply(ls)
    PROVE  /\ WellStored(limits') /\ Resolved'
           /\ limits' \in [Zones -> [Directions -> ZoneValues \cup {NoLimit}]]
           /\ effective' \in [Directions -> Storable \cup {NoLimit}]
           /\ controlState' \in ControlStates
           /\ \A z \in Zones, d \in Directions : limits'[z][d] \in {ls[z][d], NoLimit}
<1>1. limits' = Unexpired(ls) BY DEF ResolveAndApply
<1>2. WellStored(limits') /\ \A z \in Zones, d \in Directions : limits'[z][d] \in {ls[z][d], NoLimit}
  BY <1>1, UnexpiredLimits
<1>3. \A d \in Directions :
        Counted(limits', d) \subseteq Values(limits', d) /\ Values(limits', d) \subseteq Storable
  BY <1>2 DEF Counted, Values, WellStored, StoredValues
<1>4. \A d \in Directions : MostRestrictive(Counted(limits', d)) \in Storable \cup {NoLimit}
  BY <1>2, <1>3 DEF MostRestrictive, WellStored, HasMinimum
<1>5. effective' \in [Directions -> Storable \cup {NoLimit}] BY <1>4 DEF ResolveAndApply
<1>6. Resolved' BY DEF Resolved, ResolveAndApply, Counted
<1>7. limits' \in [Zones -> [Directions -> ZoneValues \cup {NoLimit}]]
  BY <1>2 DEF WellStored, StoredValues, ZoneValues, Storable
<1> QED BY <1>2, <1>5, <1>6, <1>7 DEF ResolveAndApply, ControlStates

-----------------------------------------------------------------------------
(* Types of what the handlers do to timers and indexes. *)

TimersTyped == active \in [Keys -> Timers \cup {NoTimer}] /\ timers \in [Timers -> GoTimers]

IndexesTyped ==
    /\ zoneIndex \in [Zones -> Indexes \cup {NoIndex}]
    /\ indexZone \in [Indexes -> Zones \cup {NoZone}]
    /\ nextIndex \in Indexes

\* An unused Go timer is well typed,
LEMMA IdleType == Idle \in GoTimers
<1>1. Keys # {}
  <2>1. 0 \in Indexes BY IndexAssumption DEF Indexes
  <2>2. PICK d \in Directions : TRUE BY LimitsAssumption
  <2>3. <<0, d>> \in Keys BY <2>1 DEF Keys
  <2> QED BY <2>3
<1>2. NoKey \in Keys BY <1>1 DEF NoKey
<1> QED BY <1>2 DEF Idle, GoTimers

\* so are those that are stopped,
LEMMA StoppedType ==
    ASSUME TimersTyped, NEW ks PROVE Stopped(ks) \in [Timers -> GoTimers]
BY IdleType DEF Stopped, TimersTyped

\* cancelled
LEMMA CancelType ==
    ASSUME TimersTyped, NEW ks, CancelTimers(ks) PROVE TimersTyped'
BY StoppedType DEF CancelTimers, TimersTyped

\* or set.
LEMMA SetType ==
    ASSUME TimersTyped, NEW ks \in SUBSET Keys, NEW dur \in Nat, NEW f \in [Directions -> Timers],
           SetTimers(ks, dur, f)
    PROVE  TimersTyped'
<1>1. CASE dur > MaxDuration BY <1>1 DEF SetTimers, TimersTyped
<1>2. CASE ~(dur > MaxDuration)
  <2>1. active' \in [Keys -> Timers \cup {NoTimer}] BY <1>2 DEF SetTimers, TimersTyped, Keys
  <2>2. ASSUME NEW t \in Timers PROVE timers'[t] \in GoTimers
    <3>1. CASE \E k \in ks : f[k[2]] = t
      <4>1. (CHOOSE k \in ks : f[k[2]] = t) \in Keys BY <3>1
      <4>2. timers'[t] = [phase |-> "armed", key |-> CHOOSE k \in ks : f[k[2]] = t, left |-> dur]
        BY <1>2, <3>1 DEF SetTimers
      <4> QED BY <4>1, <4>2 DEF GoTimers
    <3>2. CASE ~ \E k \in ks : f[k[2]] = t
      <4>1. timers'[t] = Stopped(ks)[t] BY <1>2, <3>2 DEF SetTimers
      <4> QED BY <4>1, StoppedType
    <3> QED BY <3>1, <3>2
  <2>3. timers' = [t \in Timers |-> timers'[t]] BY <1>2 DEF SetTimers
  <2> QED BY <2>1, <2>2, <2>3 DEF TimersTyped
<1> QED BY <1>1, <1>2

\* A zone is given an index of the range.
LEMMA EnsureType ==
    ASSUME IndexesTyped, NEW z \in Zones, EnsureZoneIndex(z)
    PROVE  IndexesTyped' /\ zoneIndex'[z] \in Indexes
<1> USE IndexAssumption DEF IndexesTyped
<1>1. CASE zoneIndex[z] # NoIndex BY <1>1 DEF EnsureZoneIndex, indexes
<1>2. CASE zoneIndex[z] = NoIndex
  <2>1. (nextIndex + 1) % IndexCount \in Indexes BY DEF Indexes
  <2> QED BY <1>2, <2>1 DEF EnsureZoneIndex
<1> QED BY <1>1, <1>2

\* Keys of a zone are keys.
LEMMA ZoneKeysType ==
    ASSUME IndexesTyped, NEW z \in Zones PROVE ZoneKeys(z) \subseteq Keys
BY DEF IndexesTyped, ZoneKeys, Keys

-----------------------------------------------------------------------------
(* The first invariant. *)

\* A handler ends in ResolveAndApply, and keeps timers and indexes typed.
LEMMA HandlerInv ==
    ASSUME LimitInv, NEW ls, WellStored(ls), ResolveAndApply(ls), TimersTyped', IndexesTyped',
           stale' \subseteq Keys
    PROVE  LimitInv'
<1>1. WellStored(limits)' BY Resolving
<1> QED BY <1>1, Resolving DEF LimitInv, TypeOK, TimersTyped, IndexesTyped

\* There are no limits at the start, and none is effective.
LEMMA LimitInvInit == Init => LimitInv
<1> SUFFICES ASSUME Init PROVE LimitInv
  OBVIOUS
<1> USE LimitsAssumption, IndexAssumption DEF Init
<1>1. WellStored(limits) BY NoLimits
<1>2. \A d \in Directions : Counted(limits, d) = {} BY DEF Counted
<1>3. Resolved BY <1>2 DEF Resolved, MostRestrictive
<1>4. timers \in [Timers -> GoTimers] BY IdleType
<1>5. TypeOK BY <1>4 DEF TypeOK, ControlStates, Indexes
<1> QED BY <1>1, <1>3, <1>5 DEF LimitInv

\* Time changes what is left of a limit, never the limit.
LEMMA TickLimits ==
    ASSUME LimitInv, Tick
    PROVE  /\ WellStored(limits') /\ limits' \in [Zones -> [Directions -> ZoneValues \cup {NoLimit}]]
           /\ \A z \in Zones, d \in Directions :
                /\ limits'[z][d] = NoLimit <=> limits[z][d] = NoLimit
                /\ limits[z][d] # NoLimit =>
                     /\ limits'[z][d].value = limits[z][d].value
                     /\ limits'[z][d].dur = limits[z][d].dur
                     /\ limits'[z][d].left = Down(limits[z][d].left)
<1> USE DurationsAssumption, NoLimitAssumption
<1>1. ASSUME NEW z \in Zones, NEW d \in Directions, limits[z][d] # NoLimit
      PROVE  /\ limits'[z][d] \in StoredValues /\ limits'[z][d] # NoLimit
             /\ limits'[z][d].value = limits[z][d].value
             /\ limits'[z][d].dur = limits[z][d].dur
             /\ limits'[z][d].left = Down(limits[z][d].left)
  <2>1. limits'[z][d] = [limits[z][d] EXCEPT !.left = Down(@)] BY <1>1 DEF Tick
  <2>2. limits[z][d] \in StoredValues BY <1>1 DEF LimitInv, WellStored
  <2>3. Down(limits[z][d].left) \in Nat BY <2>2 DEF StoredValues, Down
  <2> HIDE DEF Down
  <2>4. /\ limits'[z][d] \in StoredValues
        /\ limits'[z][d].value = limits[z][d].value
        /\ limits'[z][d].dur = limits[z][d].dur
        /\ limits'[z][d].left = Down(limits[z][d].left)
    BY <2>1, <2>2, <2>3 DEF StoredValues
  <2>5. limits'[z][d] \in ZoneValues BY <2>4 DEF StoredValues, ZoneValues, Storable
  <2> QED BY <2>4, <2>5
<1>2. \A z \in Zones, d \in Directions : limits[z][d] = NoLimit => limits'[z][d] = NoLimit
  BY DEF Tick
<1>3. limits' = [z \in Zones |-> [d \in Directions |-> limits'[z][d]]] BY DEF Tick
<1>4. limits' \in [Zones -> [Directions -> StoredValues \cup {NoLimit}]] BY <1>1, <1>2, <1>3
<1>5. \A d \in Directions : Values(limits', d) \subseteq Values(limits, d) BY <1>1, <1>2 DEF Values
<1>6. WellStored(limits') BY <1>4, <1>5 DEF WellStored, LimitInv
<1>7. limits' \in [Zones -> [Directions -> ZoneValues \cup {NoLimit}]]
  BY <1>4 DEF StoredValues, ZoneValues, Storable
<1> QED BY <1>1, <1>2, <1>6, <1>7

\* What a timer's record becomes when only its phase or its countdown changes.
LEMMA TimerFields ==
    ASSUME NEW u \in GoTimers
    PROVE  /\ \A p \in {"free", "armed", "fired", "callback"} :
                /\ [u EXCEPT !.phase = p] \in GoTimers
                /\ [u EXCEPT !.phase = p].phase = p
                /\ [u EXCEPT !.phase = p].key = u.key
                /\ [u EXCEPT !.phase = p].left = u.left
           /\ [u EXCEPT !.left = Down(@)] \in GoTimers
           /\ [u EXCEPT !.left = Down(@)].phase = u.phase
           /\ [u EXCEPT !.left = Down(@)].key = u.key
           /\ [u EXCEPT !.left = Down(@)].left = Down(u.left)
           /\ Down(u.left) \in Nat
<1>1. Down(u.left) \in Nat BY DEF GoTimers, Down
<1> QED BY <1>1 DEF GoTimers

\* Every step leaves the effective limits resolved.
LEMMA LimitInvNext == LimitInv /\ [Next]_vars => LimitInv'
<1> SUFFICES ASSUME LimitInv, [Next]_vars PROVE LimitInv'
  OBVIOUS
<1> USE DurationsAssumption, IndexAssumption, NamesAssumption
<1>0. TypeOK /\ TimersTyped /\ IndexesTyped /\ WellStored(limits) /\ Resolved
  BY DEF LimitInv, TypeOK, TimersTyped, IndexesTyped
<1>1. ASSUME NEW z \in Zones, NEW r \in [Directions -> Limits \cup {NoLimit}], NEW dur \in Durations,
             HandleSetLimit(z, r, dur)
      PROVE  LimitInv'
  <2> DEFINE ks == {zoneIndex'[z]} \X Requested(r)
  <2>1. WellStored(Commanded(z, r, dur)) /\ ResolveAndApply(Commanded(z, r, dur))
    BY <1>0, <1>1, CommandedLimits DEF HandleSetLimit, Commanded
  <2>2. IndexesTyped' /\ zoneIndex'[z] \in Indexes BY <1>0, <1>1, EnsureType DEF HandleSetLimit
  <2>3. ks \subseteq Keys BY <2>2 DEF Keys, Requested
  <2>4. TimersTyped'
    <3>1. CASE dur = 0 BY <1>0, <1>1, <3>1, CancelType DEF HandleSetLimit
    <3>2. CASE dur # 0
      <4>1. PICK f \in [Directions -> Timers] : SetTimers(ks, dur, f)
        BY <1>1, <3>2 DEF HandleSetLimit
      <4> QED BY <1>0, <2>3, <4>1, SetType
    <3> QED BY <3>1, <3>2
  <2>5. stale' \subseteq Keys BY <1>0, <1>1, <2>3 DEF HandleSetLimit, TypeOK
  <2> QED BY <2>1, <2>2, <2>4, <2>5, HandlerInv
<1>2. ASSUME NEW ks, CancelTimers(ks), NEW ls, WellStored(ls), ResolveAndApply(ls),
             UNCHANGED <<indexes, stale>>
      PROVE  LimitInv'
  <2>1. TimersTyped' BY <1>0, <1>2, CancelType
  <2>2. IndexesTyped' /\ stale' \subseteq Keys BY <1>0, <1>2 DEF indexes, IndexesTyped, TypeOK
  <2> QED BY <1>2, <2>1, <2>2, HandlerInv
<1>3. ASSUME NEW z \in Zones, HandleDeactivate(z) \/ ClearZone(z) PROVE LimitInv'
  <2>1. WellStored(Without(z, Directions)) BY <1>0, WithoutLimits
  <2> QED BY <1>2, <1>3, <2>1 DEF HandleDeactivate, ClearZone
<1>4. ASSUME NEW z \in Zones, NEW ds \in {Directions} \cup {{d} : d \in Directions},
             HandleClearLimit(z, ds)
      PROVE  LimitInv'
  <2>1. WellStored(Without(z, ds)) BY <1>0, WithoutLimits
  <2> QED BY <1>2, <1>4, <2>1 DEF HandleClearLimit
<1>5. CASE ResetAll BY <1>2, <1>5, NoLimits DEF ResetAll
<1>6. ASSUME NEW s \in ControlStates, SetControlState(s) PROVE LimitInv'
  <2>1. controlState' = s /\ s # "Autonomous"
        /\ UNCHANGED <<limits, effective, indexes, active, timers, stale>>
    BY <1>6 DEF SetControlState
  <2> QED BY <1>0, <2>1 DEF LimitInv, TypeOK, Resolved, indexes
\* Expiries and time leave the effective limits alone until the callback.
<1>7. ASSUME TimersTyped', WellStored(limits'), Resolved', UNCHANGED <<ec, indexes, stale>>,
             limits' \in [Zones -> [Directions -> ZoneValues \cup {NoLimit}]]
      PROVE  LimitInv'
  BY <1>0, <1>7 DEF LimitInv, TypeOK, TimersTyped, ec, indexes
<1>8. ASSUME TimersTyped', UNCHANGED <<limits, ec, indexes, stale>> PROVE LimitInv'
  <2>1. WellStored(limits') /\ Resolved' BY <1>0, <1>8 DEF ec, Resolved
  <2> QED BY <1>0, <1>7, <1>8, <2>1 DEF TypeOK
<1>9. ASSUME NEW t \in Timers, Fire(t) PROVE LimitInv'
  <2>1. TimersTyped' BY <1>0, <1>9, TimerFields DEF Fire, TimersTyped
  <2> QED BY <1>8, <1>9, <2>1 DEF Fire
<1>10. ASSUME NEW t \in Timers, ExpireTimer(t) PROVE LimitInv'
  <2>0. timers[t] \in GoTimers /\ [timers[t] EXCEPT !.phase = "callback"] \in GoTimers
    BY <1>0, TimerFields DEF TimersTyped
  <2>1. timers' \in [Timers -> GoTimers]
    BY <1>0, <1>10, <2>0, IdleType DEF ExpireTimer, TimersTyped
  <2>2. active' \in [Keys -> Timers \cup {NoTimer}] BY <1>0, <1>10 DEF ExpireTimer, TimersTyped
  <2> QED BY <1>8, <1>10, <2>1, <2>2 DEF ExpireTimer, TimersTyped
<1>11. ASSUME NEW t \in Timers, HandleTimerExpiry(t) PROVE LimitInv'
  <2> DEFINE z == indexZone[timers[t].key[1]]
  <2>1. timers[t].key \in Keys BY <1>0 DEF TimersTyped, GoTimers
  <2>2. timers[t].key[1] \in Indexes /\ timers[t].key[2] \in Directions BY <2>1 DEF Keys
  <2>3. z \in Zones \cup {NoZone} BY <1>0, <2>2 DEF IndexesTyped
  <2>4. TimersTyped' BY <1>0, <1>11, IdleType DEF HandleTimerExpiry, TimersTyped
  <2>5. CASE z = NoZone BY <1>8, <1>11, <2>4, <2>5 DEF HandleTimerExpiry
  <2>6. CASE z # NoZone
    <3>1. WellStored(Without(z, {timers[t].key[2]})) BY <1>0, <2>2, <2>3, <2>6, WithoutLimits
    <3>2. IndexesTyped' /\ stale' \subseteq Keys
      BY <1>0, <1>11 DEF HandleTimerExpiry, IndexesTyped, indexes, TypeOK
    <3> QED BY <1>11, <2>4, <2>6, <3>1, <3>2, HandlerInv DEF HandleTimerExpiry
  <2> QED BY <2>5, <2>6
<1>12. CASE Tick
  <2>1. TimersTyped' BY <1>0, <1>12, TimerFields DEF Tick, TimersTyped
  <2>2. \A d \in Directions : Counted(limits', d) = Counted(limits, d)
    BY <1>12, TickLimits DEF Counted
  <2>3. Resolved' BY <1>0, <1>12, <2>2 DEF Resolved, Tick, ec
  <2> QED BY <1>7, <1>12, <2>1, <2>3, TickLimits DEF Tick
<1>13. CASE UNCHANGED vars BY <1>0, <1>8, <1>13 DEF vars, TimersTyped
<1> QED BY <1>1, <1>3, <1>4, <1>5, <1>6, <1>9, <1>10, <1>11, <1>12, <1>13 DEF Next

\* Limits stay well stored and resolved throughout.
LEMMA LimitsInvariant == Spec => []LimitInv
BY LimitInvInit, LimitInvNext, PTL DEF Spec

\* Variables are well typed; the effective limits never leave the range a
\* request may set (limit_resolver.go HandleSetLimit).
THEOREM TypeCorrect == Spec => []TypeOK
<1>1. LimitInv => TypeOK BY DEF LimitInv
<1> QED BY <1>1, LimitsInvariant, PTL

\* The effective limit is the most restrictive of those stored, after every
\* handler, expiry and removal, and a limited device is not AUTONOMOUS
\* (limit_resolver.go resolveAndApply).
THEOREM EffectiveAlwaysResolved == Spec => []EffectiveIsResolved
<1>1. LimitInv => EffectiveIsResolved
  <2> SUFFICES ASSUME LimitInv PROVE EffectiveIsResolved
    OBVIOUS
  <2>0. WellStored(limits) /\ Resolved BY DEF LimitInv
  <2>1. ASSUME NEW d \in Directions
        PROVE  LET S == {z \in Zones \ TestZones : limits[z][d] # NoLimit} IN
                 IF S = {} THEN effective[d] = NoLimit
                 ELSE /\ \E z \in S : effective[d] = limits[z][d].value
                      /\ \A z \in S : effective[d] <= limits[z][d].value
    <3> DEFINE S == {z \in Zones \ TestZones : limits[z][d] # NoLimit}
    <3>1. effective[d] = MostRestrictive(Counted(limits, d)) BY <2>0 DEF Resolved
    <3>2. Counted(limits, d) = {limits[z][d].value : z \in S} BY DEF Counted
    <3>3. Counted(limits, d) \subseteq Values(limits, d) BY DEF Counted, Values
    <3>4. CASE S = {} BY <3>1, <3>2, <3>4 DEF MostRestrictive
    <3>5. CASE S # {}
      <4>1. Counted(limits, d) # {} BY <3>2, <3>5
      <4>2. HasMinimum(Counted(limits, d)) BY <2>0, <3>3, <4>1 DEF WellStored
      <4>3. /\ effective[d] \in Counted(limits, d)
            /\ \A w \in Counted(limits, d) : effective[d] <= w
        BY <3>1, <4>1, <4>2 DEF MostRestrictive, HasMinimum
      <4> QED BY <3>2, <3>5, <4>3
    <3> QED BY <3>4, <3>5
  <2> QED BY <2>0, <2>1 DEF EffectiveIsResolved, Resolved
<1> QED BY <1>1, LimitsInvariant, PTL

-----------------------------------------------------------------------------
(* The duration timers. *)

Assigned == {z \in Zones : zoneIndex[z] # NoIndex}

FewZones == IsFiniteSet(Zones) /\ Cardinality(Zones) <= IndexCount

\* Indexes are given in turn, so that no two zones share one.
Indexed ==
    /\ nextIndex = Cardinality(Assigned) % IndexCount
    /\ \A z \in Assigned : zoneIndex[z] < Cardinality(Assigned) /\ indexZone[zoneIndex[z]] = z
    /\ \A i \in Indexes : indexZone[i] # NoZone => zoneIndex[indexZone[i]] = i

\* The timer of a key is one that was set for it and has not been handled.
Registered ==
    \A k \in Keys : active[k] # NoTimer =>
        timers[active[k]].key = k /\ timers[active[k]].phase \in {"armed", "fired"}

\* No two timers of a key unless it is stale.
Single ==
    \A t, u \in Timers :
        /\ timers[t].phase # "free" /\ timers[u].phase # "free"
        /\ timers[t].key = timers[u].key /\ timers[t].key \notin stale
        => t = u

\* The limit behind a key, if its zone still has one.
LimitOf(k) == limits[indexZone[k[1]]][k[2]]

\* A timer does not end before the limit of its key, unless the key is stale.
Punctual ==
    \A t \in Timers : timers[t].phase # "free" /\ timers[t].key \notin stale =>
        /\ indexZone[timers[t].key[1]] # NoZone
        /\ LimitOf(timers[t].key) # NoLimit =>
             /\ LimitOf(timers[t].key).dur > 0
             /\ LimitOf(timers[t].key).left <= IF timers[t].phase = "armed" THEN timers[t].left ELSE 0
        /\ timers[t].phase = "armed" => active[timers[t].key] = t

TimerInv == LimitInv /\ Indexed /\ Registered /\ TimedLimitBacked /\ Single /\ Punctual

-----------------------------------------------------------------------------
(* Zones and keys. *)

\* From a zone to the key of its limit, and back,
LEMMA KeyOfZone ==
    ASSUME LimitInv, Indexed, NEW z \in Zones, NEW d \in Directions, zoneIndex[z] # NoIndex
    PROVE  <<zoneIndex[z], d>> \in Keys /\ indexZone[zoneIndex[z]] = z
BY DEF LimitInv, TypeOK, Indexed, Assigned, Keys

\* and from a key to its zone.
LEMMA ZoneOfKey ==
    ASSUME LimitInv, Indexed, NEW k \in Keys, indexZone[k[1]] # NoZone
    PROVE  /\ indexZone[k[1]] \in Zones /\ zoneIndex[indexZone[k[1]]] = k[1]
           /\ k[2] \in Directions /\ k = <<k[1], k[2]>>
BY DEF LimitInv, TypeOK, Indexed, Keys

\* ensureZoneIndex gives a zone an index that no other zone has.
LEMMA EnsureIndexed ==
    ASSUME FewZones, LimitInv, Indexed, NEW z \in Zones, EnsureZoneIndex(z)
    PROVE  /\ Indexed' /\ zoneIndex'[z] \in Indexes /\ indexZone'[zoneIndex'[z]] = z
           /\ zoneIndex[z] # NoIndex => zoneIndex'[z] = zoneIndex[z]
           /\ \A y \in Zones \ {z} : zoneIndex'[y] = zoneIndex[y] /\ zoneIndex'[y] # zoneIndex'[z]
           /\ \A i \in Indexes : indexZone[i] # NoZone => indexZone'[i] = indexZone[i]
<1> USE IndexAssumption, NamesAssumption
<1>0. IndexesTyped BY DEF LimitInv, TypeOK, IndexesTyped
<1>1. CASE zoneIndex[z] # NoIndex
  <2>1. UNCHANGED indexes BY <1>1 DEF EnsureZoneIndex
  <2>2. Indexed' BY <2>1 DEF indexes, Indexed, Assigned
  <2>3. \A y \in Zones \ {z} : zoneIndex[y] # zoneIndex[z]
    BY <1>0, <1>1 DEF Indexed, Assigned, IndexesTyped
  <2> QED BY <1>0, <1>1, <2>1, <2>2, <2>3 DEF indexes, Indexed, Assigned, IndexesTyped
<1>2. CASE zoneIndex[z] = NoIndex
  <2> DEFINE n == Cardinality(Assigned)
  <2>1. /\ IsFiniteSet(Zones) /\ Cardinality(Zones) \in Nat /\ Cardinality(Zones) <= IndexCount
        /\ IsFiniteSet(Assigned) /\ n \in Nat
    <3>1. IsFiniteSet(Zones) /\ Cardinality(Zones) <= IndexCount BY DEF FewZones
    <3>2. Assigned \subseteq Zones BY DEF Assigned
    <3>3. IsFiniteSet(Assigned) BY <3>1, <3>2, FS_Subset
    <3> QED BY <3>1, <3>3, FS_CardinalityType
  <2>2. z \notin Assigned /\ Assigned \cup {z} \subseteq Zones BY <1>2 DEF Assigned
  <2>3. IsFiniteSet(Assigned \cup {z}) /\ Cardinality(Assigned \cup {z}) = n + 1
    BY <2>1, <2>2, FS_AddElement
  <2>4. n + 1 <= Cardinality(Zones) BY <2>1, <2>2, <2>3, FS_Subset
  <2>5. n \in Indexes /\ nextIndex = n BY <2>1, <2>4 DEF Indexed, Indexes
  <2>6. /\ zoneIndex' = [zoneIndex EXCEPT ![z] = n]
        /\ indexZone' = [indexZone EXCEPT ![n] = z]
        /\ nextIndex' = (n + 1) % IndexCount
    BY <1>2, <2>5 DEF EnsureZoneIndex
  <2>7. Assigned' = Assigned \cup {z} BY <1>0, <2>5, <2>6 DEF Assigned, IndexesTyped
  <2>8. Cardinality(Assigned') = n + 1 BY <2>3, <2>7
  <2>9. \A y \in Assigned : zoneIndex[y] < n /\ zoneIndex[y] \in Nat /\ indexZone[zoneIndex[y]] = y
    BY <1>0 DEF Indexed, Assigned, IndexesTyped, Indexes
  <2>10. indexZone[n] = NoZone
    <3> SUFFICES ASSUME indexZone[n] # NoZone PROVE FALSE
      OBVIOUS
    <3>1. indexZone[n] \in Zones /\ zoneIndex[indexZone[n]] = n BY <1>0, <2>5 DEF Indexed, IndexesTyped
    <3>2. indexZone[n] \in Assigned BY <2>5, <3>1 DEF Assigned
    <3> QED BY <2>9, <3>1, <3>2
  <2> HIDE DEF n
  <2>11. \A y \in Zones \ {z} : zoneIndex'[y] = zoneIndex[y] /\ zoneIndex'[y] # zoneIndex'[z]
    <3>1. n \in Nat BY <2>1
    <3> QED BY <1>0, <2>5, <2>6, <2>9, <3>1 DEF IndexesTyped, Assigned
  <2>12. \A i \in Indexes : indexZone[i] # NoZone => i # n /\ indexZone'[i] = indexZone[i]
    BY <1>0, <2>6, <2>10 DEF IndexesTyped
  <2>13. zoneIndex'[z] = n /\ indexZone'[n] = z BY <1>0, <2>5, <2>6 DEF IndexesTyped
  <2>14. \A y \in Assigned' : zoneIndex'[y] < n + 1 /\ indexZone'[zoneIndex'[y]] = y
    <3>1. ASSUME NEW y \in Assigned PROVE zoneIndex'[y] < n + 1 /\ indexZone'[zoneIndex'[y]] = y
      <4>1. y \in Zones \ {z} /\ zoneIndex'[y] = zoneIndex[y] BY <2>2, <2>11 DEF Assigned
      <4>2. zoneIndex[y] \in Indexes /\ indexZone[zoneIndex[y]] = y /\ y # NoZone
        BY <1>0, <2>9 DEF Assigned, IndexesTyped
      <4>3. indexZone'[zoneIndex[y]] = y BY <2>12, <4>2
      <4>4. zoneIndex[y] < n + 1 BY <2>1, <2>9
      <4> QED BY <4>1, <4>3, <4>4
    <3> QED BY <2>1, <2>7, <2>13, <3>1
  <2>15. \A i \in Indexes : indexZone'[i] # NoZone => zoneIndex'[indexZone'[i]] = i
    <3> SUFFICES ASSUME NEW i \in Indexes, indexZone'[i] # NoZone
                 PROVE  zoneIndex'[indexZone'[i]] = i
      OBVIOUS
    <3>1. CASE i = n BY <2>13, <3>1
    <3>2. CASE i # n
      <4>1. indexZone'[i] = indexZone[i] BY <1>0, <2>6, <3>2 DEF IndexesTyped
      <4>2. zoneIndex[indexZone[i]] = i /\ indexZone[i] \in Zones
        BY <1>0, <4>1 DEF Indexed, IndexesTyped
      <4>3. indexZone[i] # z BY <1>2, <4>2
      <4> QED BY <2>11, <4>1, <4>2, <4>3
    <3> QED BY <3>1, <3>2
  <2>16. Indexed' BY <2>6, <2>8, <2>14, <2>15 DEF Indexed
  <2> QED BY <1>2, <2>5, <2>11, <2>12, <2>13, <2>16
<1> QED BY <1>1, <1>2

-----------------------------------------------------------------------------
(* Commands that clear limits and cancel their timers. *)

\* What time.Timer.Stop does to the timers of the keys ks.
LEMMA StoppedTimers ==
    ASSUME LimitInv, Registered, NEW ks \in SUBSET Keys, NEW t \in Timers
    PROVE  /\ Stopped(ks)[t].phase # "free" => Stopped(ks)[t] = timers[t]
           /\ timers[t].phase # "free" /\ timers[t].key \notin ks => Stopped(ks)[t] = timers[t]
           /\ timers[t].phase = "callback" => Stopped(ks)[t] = timers[t]
           /\ timers[t].phase = "armed" /\ timers[t].key \in ks /\ active[timers[t].key] = t =>
                Stopped(ks)[t].phase = "free"
<1> USE NamesAssumption
<1>1. Idle.phase = "free" BY DEF Idle
<1>2. \A k \in ks : active[k] = t => timers[t].key = k BY DEF Registered
<1> QED BY <1>1, <1>2 DEF Stopped

\* TimedLimitBacked says this of each zone and direction.
Backs(t, k, v) ==
    \/ /\ active[k] = t /\ timers[t].key = k
       /\ timers[t].phase = "armed" => timers[t].left <= v.left
       /\ timers[t].phase \in {"armed", "fired"}
    \/ timers[t].phase = "callback" /\ timers[t].key = k

IsBacked(z, d) ==
    limits[z][d] # NoLimit /\ limits[z][d].dur \in 1..MaxDuration =>
        /\ zoneIndex[z] # NoIndex
        /\ \E t \in Timers : Backs(t, <<zoneIndex[z], d>>, limits[z][d])

\* The property in terms of one limit at a time.
LEMMA AllBacked ==
    /\ TimedLimitBacked <=> \A z \in Zones, d \in Directions : IsBacked(z, d)
    /\ TimedLimitBacked' <=> \A z \in Zones, d \in Directions : IsBacked(z, d)'
BY DEF TimedLimitBacked, IsBacked, Backs

\* A step that clears limits and cancels their timers, and starts none.
LEMMA ClearingStep ==
    ASSUME TimerInv, LimitInv', NEW ks \in SUBSET Keys, CancelTimers(ks),
           UNCHANGED <<indexes, stale>>,
           \A z \in Zones, d \in Directions :
             /\ limits'[z][d] \in {limits[z][d], NoLimit}
             /\ zoneIndex[z] # NoIndex /\ <<zoneIndex[z], d>> \in ks => limits'[z][d] = NoLimit
    PROVE  TimerInv'
<1> USE NamesAssumption
<1>0. /\ LimitInv /\ Indexed /\ Registered /\ TimedLimitBacked /\ Single /\ Punctual
      /\ TimersTyped /\ timers' = Stopped(ks) /\ UNCHANGED <<zoneIndex, indexZone, nextIndex, stale>>
  BY DEF TimerInv, LimitInv, TypeOK, TimersTyped, CancelTimers, indexes
<1>1. \A k \in Keys : active'[k] = IF k \in ks THEN NoTimer ELSE active[k] BY DEF CancelTimers
<1>2. \A t \in Timers :
        /\ timers'[t].phase # "free" => timers'[t] = timers[t]
        /\ timers[t].phase # "free" /\ timers[t].key \notin ks => timers'[t] = timers[t]
        /\ timers[t].phase = "callback" => timers'[t] = timers[t]
        /\ timers[t].phase = "armed" /\ timers[t].key \in ks /\ active[timers[t].key] = t =>
             timers'[t].phase = "free"
  BY <1>0, StoppedTimers
<1>3. Indexed' BY <1>0 DEF Indexed, Assigned
<1>4. Registered'
  <2> SUFFICES ASSUME NEW k \in Keys, active'[k] # NoTimer
               PROVE  timers'[active'[k]].key = k /\ timers'[active'[k]].phase \in {"armed", "fired"}
    BY DEF Registered
  <2>1. k \notin ks /\ active'[k] = active[k] /\ active[k] \in Timers BY <1>0, <1>1 DEF TimersTyped
  <2>2. timers[active[k]].key = k /\ timers[active[k]].phase \in {"armed", "fired"}
    BY <1>0, <2>1 DEF Registered
  <2> QED BY <1>2, <2>1, <2>2
<1>5. ASSUME NEW z \in Zones, NEW d \in Directions PROVE IsBacked(z, d)'
  <2> SUFFICES ASSUME limits'[z][d] # NoLimit, limits'[z][d].dur \in 1..MaxDuration
               PROVE  /\ zoneIndex'[z] # NoIndex
                      /\ \E t \in Timers : Backs(t, <<zoneIndex[z], d>>, limits[z][d])'
    BY DEF IsBacked
  <2> DEFINE k == <<zoneIndex[z], d>>
  <2>1. limits'[z][d] = limits[z][d] OBVIOUS
  <2>2. zoneIndex[z] # NoIndex /\ \E t \in Timers : Backs(t, k, limits[z][d])
    BY <1>0, <2>1, AllBacked DEF IsBacked
  <2>3. PICK t \in Timers : Backs(t, k, limits[z][d]) BY <2>2
  <2>4. k \in Keys /\ k \notin ks BY <1>0, <2>2, KeyOfZone
  <2>5. timers'[t] = timers[t] /\ active'[k] = active[k] BY <1>1, <1>2, <2>3, <2>4 DEF Backs
  <2> QED BY <1>0, <2>1, <2>2, <2>3, <2>5 DEF Backs
<1>6. Single' BY <1>0, <1>2 DEF Single
<1>7. Punctual'
  <2> SUFFICES ASSUME NEW t \in Timers, timers'[t].phase # "free", timers'[t].key \notin stale'
               PROVE  /\ indexZone'[timers'[t].key[1]] # NoZone
                      /\ LimitOf(timers[t].key)' # NoLimit =>
                           /\ LimitOf(timers[t].key)'.dur > 0
                           /\ LimitOf(timers[t].key)'.left
                                <= IF timers'[t].phase = "armed" THEN timers'[t].left ELSE 0
                      /\ timers'[t].phase = "armed" => active'[timers'[t].key] = t
    BY DEF Punctual
  <2> DEFINE k == timers[t].key
  <2>1. timers'[t] = timers[t] /\ k \in Keys BY <1>0, <1>2 DEF TimersTyped, GoTimers
  <2>2. /\ indexZone[k[1]] # NoZone
        /\ LimitOf(k) # NoLimit =>
             /\ LimitOf(k).dur > 0
             /\ LimitOf(k).left <= IF timers[t].phase = "armed" THEN timers[t].left ELSE 0
        /\ timers[t].phase = "armed" => active[k] = t
    BY <1>0, <2>1 DEF Punctual
  <2>3. LimitOf(k)' \in {LimitOf(k), NoLimit}
    <3>1. indexZone[k[1]] \in Zones /\ k[2] \in Directions BY <1>0, <2>1, <2>2, ZoneOfKey
    <3> QED BY <1>0, <2>1, <3>1 DEF LimitOf
  <2>4. timers[t].phase = "armed" => k \notin ks BY <1>2, <2>1, <2>2
  <2> QED BY <1>0, <1>1, <2>1, <2>2, <2>3, <2>4
<1>8. TimedLimitBacked' BY <1>5, AllBacked
<1> QED BY <1>3, <1>4, <1>6, <1>7, <1>8 DEF TimerInv

-----------------------------------------------------------------------------
(* A command that sets limits. *)

\* The timer t is set for the key k.
NewTimer(t, k, dur) ==
    /\ active'[k] = t /\ timers[t].phase = "free"
    /\ timers'[t].phase = "armed" /\ timers'[t].key = k /\ timers'[t].left = dur
    /\ dur \in 1..MaxDuration

\* What HandleSetLimit does to the timers when it sets limits for the keys ks.
Rearmed(ks, dur) ==
    /\ \A k \in Keys \ ks : active'[k] = active[k]
    /\ \A t \in Timers : timers[t].phase # "free" /\ timers[t].key \notin ks => timers'[t] = timers[t]
    /\ \A t \in Timers : timers'[t].phase # "free" =>
            timers'[t] = timers[t] \/ \E k \in ks : NewTimer(t, k, dur)
    /\ \A k \in ks \ stale' : \A t \in Timers :
            timers'[t].phase # "free" /\ timers'[t].key = k => NewTimer(t, k, dur)
    /\ dur \in 1..MaxDuration => \A k \in ks : \E t \in Timers : NewTimer(t, k, dur)
    /\ \A k \in ks : active'[k] # NoTimer =>
            \/ NewTimer(active'[k], k, dur)
            \/ active'[k] = active[k] /\ timers'[active[k]] = timers[active[k]]

\* What setting or cancelling the timers of some keys leaves.
LEMMA SetTimersEffect ==
    ASSUME TimerInv, NEW ks \in SUBSET Keys, NEW dur \in Nat,
           IF dur = 0 THEN CancelTimers(ks) ELSE \E f \in [Directions -> Timers] : SetTimers(ks, dur, f),
           \A k, m \in ks : k[2] = m[2] => k = m,
           stale' = stale \cup {k \in ks : InFlight(k) \/ (dur > MaxDuration /\ active[k] # NoTimer)}
    PROVE  Rearmed(ks, dur)
<1> USE NamesAssumption, DurationsAssumption
<1>0. Registered /\ Single /\ Punctual /\ LimitInv /\ TimersTyped
  BY DEF TimerInv, LimitInv, TypeOK, TimersTyped
\* Timers of these keys, unless stale: none is beyond reach.
<1>1. ASSUME NEW k \in ks \ stale', NEW t \in Timers, timers[t].phase # "free", timers[t].key = k
      PROVE  timers[t].phase = "armed" /\ active[k] = t /\ dur <= MaxDuration
  <2>1. k \notin stale /\ ~InFlight(k) /\ ~(dur > MaxDuration /\ active[k] # NoTimer) OBVIOUS
  <2>2. timers[t].phase = "armed" BY <1>0, <1>1, <2>1 DEF InFlight, TimersTyped, GoTimers
  <2>3. active[k] = t BY <1>0, <1>1, <2>1, <2>2 DEF Punctual
  <2> QED BY <2>1, <2>2, <2>3
<1>2. \A t \in Timers :
        /\ Stopped(ks)[t].phase # "free" => Stopped(ks)[t] = timers[t]
        /\ timers[t].phase # "free" /\ timers[t].key \notin ks => Stopped(ks)[t] = timers[t]
        /\ timers[t].phase = "armed" /\ timers[t].key \in ks /\ active[timers[t].key] = t =>
             Stopped(ks)[t].phase = "free"
  BY <1>0, StoppedTimers
<1>3. CASE dur = 0
  <2>1. timers' = Stopped(ks) /\ \A k \in Keys : active'[k] = IF k \in ks THEN NoTimer ELSE active[k]
    BY <1>3 DEF CancelTimers
  <2>2. ASSUME NEW k \in ks \ stale', NEW t \in Timers, timers'[t].phase # "free", timers'[t].key = k
        PROVE  FALSE
    <3>1. timers'[t] = timers[t] BY <1>2, <2>1, <2>2
    <3>2. timers[t].phase = "armed" /\ active[k] = t BY <1>1, <2>2, <3>1
    <3> QED BY <1>2, <2>1, <2>2, <3>1, <3>2
  <2> QED BY <1>2, <1>3, <2>1, <2>2 DEF Rearmed
<1>4. CASE dur > MaxDuration
  <2>1. UNCHANGED <<active, timers>> BY <1>4 DEF SetTimers
  <2> QED BY <1>1, <1>4, <2>1 DEF Rearmed
<1>5. CASE dur \in 1..MaxDuration
  <2>1. PICK f \in [Directions -> Timers] :
          /\ \A k \in ks : Free(f[k[2]])
          /\ \A k, m \in ks : k # m => f[k[2]] # f[m[2]]
          /\ active' = [k \in Keys |-> IF k \in ks THEN f[k[2]] ELSE active[k]]
          /\ timers' = [t \in Timers |->
                IF \E k \in ks : f[k[2]] = t
                THEN [phase |-> "armed", key |-> CHOOSE k \in ks : f[k[2]] = t, left |-> dur]
                ELSE Stopped(ks)[t]]
    BY <1>5 DEF SetTimers
  <2>2. ASSUME NEW k \in ks PROVE NewTimer(f[k[2]], k, dur) /\ f[k[2]] \in Timers /\ active'[k] = f[k[2]]
    <3>1. f[k[2]] \in Timers /\ timers[f[k[2]]].phase = "free"
      BY <2>1 DEF Free, Keys
    <3>2. (CHOOSE m \in ks : f[m[2]] = f[k[2]]) = k BY <2>1
    <3>3. timers'[f[k[2]]] = [phase |-> "armed", key |-> k, left |-> dur] BY <2>1, <3>1, <3>2
    <3>4. active'[k] = f[k[2]] BY <2>1
    <3> QED BY <1>5, <3>1, <3>3, <3>4 DEF NewTimer
  <2>3. \A t \in Timers : (\E k \in ks : NewTimer(t, k, dur)) \/ timers'[t] = Stopped(ks)[t]
    BY <2>1, <2>2
  <2>4. \A t \in Timers, k \in ks : NewTimer(t, k, dur) => timers[t].phase = "free" /\ timers'[t].key = k
    BY DEF NewTimer
  <2>5. \A k \in Keys \ ks : active'[k] = active[k] BY <2>1
  <2> HIDE DEF NewTimer
  <2>6. ASSUME NEW k \in ks \ stale', NEW t \in Timers, timers'[t].phase # "free", timers'[t].key = k
        PROVE  NewTimer(t, k, dur)
    <3>1. CASE timers'[t] = Stopped(ks)[t]
      <4>1. timers'[t] = timers[t] BY <1>2, <2>6, <3>1
      <4>2. timers[t].phase = "armed" /\ active[k] = t BY <1>1, <2>6, <4>1
      <4> QED BY <1>2, <2>6, <3>1, <4>1, <4>2
    <3> QED BY <2>3, <2>4, <2>6, <3>1
  <2>7. \A t \in Timers : timers[t].phase # "free" /\ timers[t].key \notin ks => timers'[t] = timers[t]
    BY <1>2, <2>3, <2>4
  <2>8. \A t \in Timers : timers'[t].phase # "free" =>
            timers'[t] = timers[t] \/ \E k \in ks : NewTimer(t, k, dur)
    BY <1>2, <2>3
  <2> QED BY <2>2, <2>5, <2>6, <2>7, <2>8 DEF Rearmed
<1> QED BY <1>3, <1>4, <1>5

\* HandleSetLimit: limits are stored and their timers replaced.
LEMMA SettingStep ==
    ASSUME FewZones, TimerInv, LimitInv', NEW z \in Zones,
           NEW r \in [Directions -> Limits \cup {NoLimit}], NEW dur \in Durations,
           HandleSetLimit(z, r, dur)
    PROVE  TimerInv'
<1> USE NamesAssumption, DurationsAssumption, IndexAssumption
<1> DEFINE i == zoneIndex'[z]
           ks == {i} \X Requested(r)
<1>0. /\ LimitInv /\ Indexed /\ Registered /\ TimedLimitBacked /\ Single /\ Punctual
      /\ TimersTyped /\ TimersTyped' /\ IndexesTyped /\ stale \subseteq stale'
  BY DEF TimerInv, LimitInv, TypeOK, TimersTyped, IndexesTyped, HandleSetLimit
<1>1. /\ Indexed' /\ i \in Indexes /\ indexZone'[i] = z
      /\ zoneIndex[z] # NoIndex => i = zoneIndex[z]
      /\ \A y \in Zones \ {z} : zoneIndex'[y] = zoneIndex[y] /\ zoneIndex'[y] # i
      /\ \A j \in Indexes : indexZone[j] # NoZone => indexZone'[j] = indexZone[j]
  BY <1>0, EnsureIndexed DEF HandleSetLimit
<1>2. Requested(r) \subseteq Directions /\ ks \subseteq Keys BY <1>1 DEF Keys, Requested
<1>3. \A k, m \in ks : k[2] = m[2] => k = m OBVIOUS
<1>4. Rearmed(ks, dur) BY <1>2, <1>3, SetTimersEffect DEF HandleSetLimit
<1>5. \A y \in Zones, d \in Directions :
        \/ limits'[y][d] = NoLimit
        \/ y = z /\ d \in Requested(r) /\ limits'[y][d].dur = dur /\ limits'[y][d].left = dur
        \/ ~(y = z /\ d \in Requested(r)) /\ limits'[y][d] = limits[y][d]
  <2>1. WellStored(limits) /\ \A d \in Requested(r) : r[d] \in Storable
    BY <1>0 DEF LimitInv, HandleSetLimit
  <2>2. WellStored(Commanded(z, r, dur)) BY <2>1, CommandedLimits
  <2>3. \A y \in Zones, d \in Directions : limits'[y][d] \in {Commanded(z, r, dur)[y][d], NoLimit}
    BY <2>2, Resolving DEF HandleSetLimit, Commanded
  <2>4. \A y \in Zones, d \in Directions :
          Commanded(z, r, dur)[y][d] = IF y = z /\ d \in Requested(r)
                                       THEN [value |-> r[d], dur |-> dur, left |-> dur]
                                       ELSE limits[y][d]
    BY <2>1, CommandedLimits
  <2>5. ASSUME NEW y \in Zones, NEW d \in Directions, y = z, d \in Requested(r), limits'[y][d] # NoLimit
        PROVE  limits'[y][d].dur = dur /\ limits'[y][d].left = dur
    <3>1. limits'[y][d] = [value |-> r[d], dur |-> dur, left |-> dur] BY <2>3, <2>4, <2>5
    <3> QED BY <3>1
  <2>6. ASSUME NEW y \in Zones, NEW d \in Directions, ~(y = z /\ d \in Requested(r)), limits'[y][d] # NoLimit
        PROVE  limits'[y][d] = limits[y][d]
    <3>1. Commanded(z, r, dur)[y][d] = limits[y][d] BY <2>4, <2>6
    <3> QED BY <2>3, <2>6, <3>1
  <2> HIDE DEF i, ks
  <2> SUFFICES ASSUME NEW y \in Zones, NEW d \in Directions, limits'[y][d] # NoLimit
               PROVE  \/ y = z /\ d \in Requested(r) /\ limits'[y][d].dur = dur /\ limits'[y][d].left = dur
                      \/ ~(y = z /\ d \in Requested(r)) /\ limits'[y][d] = limits[y][d]
    OBVIOUS
  <2> QED BY <2>5, <2>6
<1> HIDE DEF i, ks
<1>6. \A k \in Keys : k \in ks <=> k[1] = i /\ k[2] \in Requested(r) BY DEF ks, Keys
<1>7. Registered'
  <2> SUFFICES ASSUME NEW k \in Keys, active'[k] # NoTimer
               PROVE  timers'[active'[k]].key = k /\ timers'[active'[k]].phase \in {"armed", "fired"}
    BY DEF Registered
  <2>1. CASE k \in ks /\ NewTimer(active'[k], k, dur) BY <2>1 DEF NewTimer
  <2>2. CASE active'[k] = active[k] /\ timers'[active[k]] = timers[active[k]]
    BY <1>0, <2>2 DEF Registered
  <2>3. CASE k \notin ks
    <3>1. active'[k] = active[k] /\ active[k] \in Timers BY <1>0, <1>4, <2>3 DEF Rearmed, TimersTyped
    <3>2. timers[active[k]].key = k /\ timers[active[k]].phase \in {"armed", "fired"}
      BY <1>0, <3>1 DEF Registered
    <3>3. timers'[active[k]] = timers[active[k]] BY <1>4, <2>3, <3>1, <3>2 DEF Rearmed
    <3> QED BY <3>1, <3>2, <3>3
  <2> QED BY <1>4, <2>1, <2>2, <2>3 DEF Rearmed
\* Timers in use whose key is not of this command have not changed.
<1>8. ASSUME NEW t \in Timers, timers'[t].phase # "free", timers'[t].key \notin ks
      PROVE  timers'[t] = timers[t]
  BY <1>4, <1>8 DEF Rearmed, NewTimer
<1>9. Single'
  <2> SUFFICES ASSUME NEW t \in Timers, NEW u \in Timers,
                      timers'[t].phase # "free", timers'[u].phase # "free",
                      timers'[t].key = timers'[u].key, timers'[t].key \notin stale'
               PROVE  t = u
    BY DEF Single
  <2>1. CASE timers'[t].key \in ks BY <1>4, <2>1 DEF Rearmed, NewTimer
  <2>2. CASE timers'[t].key \notin ks
    <3>1. timers'[t] = timers[t] /\ timers'[u] = timers[u] BY <1>8, <2>2
    <3> QED BY <1>0, <3>1 DEF Single
  <2> QED BY <2>1, <2>2
<1>10. ASSUME NEW y \in Zones, NEW d \in Directions PROVE IsBacked(y, d)'
  <2> SUFFICES ASSUME limits'[y][d] # NoLimit, limits'[y][d].dur \in 1..MaxDuration
               PROVE  /\ zoneIndex'[y] # NoIndex
                      /\ \E t \in Timers : Backs(t, <<zoneIndex[y], d>>, limits[y][d])'
    BY DEF IsBacked
  <2>1. CASE y = z /\ d \in Requested(r)
    <3>1. limits'[y][d].dur = dur /\ limits'[y][d].left = dur BY <1>5, <2>1
    <3>2. zoneIndex'[y] = i /\ i # NoIndex BY <1>1, <2>1 DEF i
    <3>3. <<i, d>> \in ks BY <1>2, <2>1 DEF ks
    <3>4. PICK t \in Timers : NewTimer(t, <<i, d>>, dur) BY <1>4, <3>1, <3>3 DEF Rearmed
    <3> QED BY <3>1, <3>2, <3>4 DEF Backs, NewTimer
  <2>2. CASE ~(y = z /\ d \in Requested(r))
    <3> DEFINE k == <<zoneIndex[y], d>>
    <3>1. limits'[y][d] = limits[y][d] BY <1>5, <2>2
    <3>2. zoneIndex[y] # NoIndex /\ \E t \in Timers : Backs(t, k, limits[y][d])
      BY <1>0, <3>1, AllBacked DEF IsBacked
    <3>3. PICK t \in Timers : Backs(t, k, limits[y][d]) BY <3>2
    <3>4. zoneIndex'[y] = zoneIndex[y] BY <1>1, <3>2 DEF i
    <3>5. k \in Keys BY <1>0, <3>2, KeyOfZone
    <3>6. k \notin ks BY <1>1, <1>6, <2>2, <3>4, <3>5
    <3>7. active'[k] = active[k] /\ timers'[t] = timers[t]
      BY <1>4, <3>3, <3>5, <3>6 DEF Rearmed, Backs
    <3> QED BY <3>1, <3>2, <3>3, <3>4, <3>7 DEF Backs
  <2> QED BY <2>1, <2>2
<1>11. Punctual'
  <2> SUFFICES ASSUME NEW t \in Timers, timers'[t].phase # "free", timers'[t].key \notin stale'
               PROVE  /\ indexZone'[timers'[t].key[1]] # NoZone
                      /\ LimitOf(timers[t].key)' # NoLimit =>
                           /\ LimitOf(timers[t].key)'.dur > 0
                           /\ LimitOf(timers[t].key)'.left
                                <= IF timers'[t].phase = "armed" THEN timers'[t].left ELSE 0
                      /\ timers'[t].phase = "armed" => active'[timers'[t].key] = t
    BY DEF Punctual
  <2> DEFINE k == timers'[t].key
  <2>1. k \in Keys /\ k[1] \in Indexes /\ k[2] \in Directions BY <1>0 DEF TimersTyped, GoTimers, Keys
  <2>2. CASE k \in ks
    <3>1. NewTimer(t, k, dur) BY <1>4, <2>2 DEF Rearmed
    <3>2. k[1] = i /\ k[2] \in Requested(r) BY <1>6, <2>1, <2>2
    <3>3. indexZone'[k[1]] = z BY <1>1, <3>2
    <3>4. LimitOf(timers[t].key)' = limits'[z][k[2]] BY <3>3 DEF LimitOf
    <3>5. LimitOf(timers[t].key)' # NoLimit =>
            LimitOf(timers[t].key)'.dur = dur /\ LimitOf(timers[t].key)'.left = dur
      BY <1>5, <2>1, <3>2, <3>4
    <3> QED BY <3>1, <3>3, <3>5 DEF NewTimer
  <2>3. CASE k \notin ks
    <3>1. timers'[t] = timers[t] BY <1>8, <2>3
    <3>2. /\ indexZone[k[1]] # NoZone
          /\ LimitOf(k) # NoLimit =>
               /\ LimitOf(k).dur > 0
               /\ LimitOf(k).left <= IF timers[t].phase = "armed" THEN timers[t].left ELSE 0
          /\ timers[t].phase = "armed" => active[k] = t
      BY <1>0, <3>1 DEF Punctual
    <3>3. /\ indexZone[k[1]] \in Zones /\ zoneIndex[indexZone[k[1]]] = k[1]
          /\ indexZone'[k[1]] = indexZone[k[1]]
      BY <1>0, <1>1, <2>1, <3>2, ZoneOfKey
    <3>4. ~(indexZone[k[1]] = z /\ k[2] \in Requested(r))
      <4>1. k[1] # NoIndex BY <2>1
      <4> QED BY <1>1, <1>6, <2>1, <2>3, <3>3, <4>1
    <3>5. LimitOf(timers[t].key)' \in {LimitOf(k), NoLimit}
      <4>1. LimitOf(timers[t].key)' = limits'[indexZone[k[1]]][k[2]] BY <3>3 DEF LimitOf
      <4> QED BY <1>5, <2>1, <3>3, <3>4, <4>1 DEF LimitOf
    <3>6. active'[k] = active[k] BY <1>4, <2>1, <2>3 DEF Rearmed
    <3> QED BY <3>1, <3>2, <3>3, <3>5, <3>6
  <2> QED BY <2>2, <2>3
<1>12. TimedLimitBacked' BY <1>10, AllBacked
<1> QED BY <1>1, <1>7, <1>9, <1>11, <1>12 DEF TimerInv

-----------------------------------------------------------------------------
(* Expiry. *)

\* The runtime starts a goroutine: the limit of the key, unless stale, has expired too.
LEMMA FireStep ==
    ASSUME TimerInv, LimitInv', NEW t \in Timers, Fire(t) PROVE TimerInv'
<1>0. /\ LimitInv /\ Indexed /\ Registered /\ TimedLimitBacked /\ Single /\ Punctual /\ TimersTyped
      /\ UNCHANGED <<limits, zoneIndex, indexZone, nextIndex, active, stale>>
      /\ timers[t].phase = "armed" /\ timers[t].left = 0
  BY DEF TimerInv, LimitInv, TypeOK, TimersTyped, Fire, indexes
<1>1. /\ timers'[t].phase = "fired" /\ timers'[t].key = timers[t].key
      /\ \A u \in Timers \ {t} : timers'[u] = timers[u]
  BY <1>0, TimerFields DEF Fire, TimersTyped
<1>2. Indexed' BY <1>0 DEF Indexed, Assigned
<1>3. Registered' BY <1>0, <1>1 DEF Registered, TimersTyped
<1>4. ASSUME NEW z \in Zones, NEW d \in Directions PROVE IsBacked(z, d)'
  <2>1. limits[z][d] # NoLimit /\ limits[z][d].dur \in 1..MaxDuration =>
          zoneIndex[z] # NoIndex /\ \E u \in Timers : Backs(u, <<zoneIndex[z], d>>, limits[z][d])
    BY <1>0, AllBacked DEF IsBacked
  <2>2. \A u \in Timers : Backs(u, <<zoneIndex[z], d>>, limits[z][d]) =>
                            Backs(u, <<zoneIndex[z], d>>, limits[z][d])'
    BY <1>0, <1>1 DEF Backs
  <2> QED BY <1>0, <2>1, <2>2 DEF IsBacked
<1>5. TimedLimitBacked' BY <1>4, AllBacked
<1>6. Single' BY <1>0, <1>1 DEF Single
<1>7. \A k : LimitOf(k)' = LimitOf(k) BY <1>0 DEF LimitOf
<1>8. Punctual' BY <1>0, <1>1, <1>7 DEF Punctual
<1> QED BY <1>2, <1>3, <1>5, <1>6, <1>8 DEF TimerInv

\* expireTimer removes the entry of the key, whoever it belongs to: if it is
\* another timer, the key is stale.
LEMMA ExpireStep ==
    ASSUME TimerInv, LimitInv', NEW t \in Timers, ExpireTimer(t) PROVE TimerInv'
<1> USE NamesAssumption
<1> DEFINE k == timers[t].key
<1>0. /\ LimitInv /\ Indexed /\ Registered /\ TimedLimitBacked /\ Single /\ Punctual /\ TimersTyped
      /\ UNCHANGED <<limits, zoneIndex, indexZone, nextIndex, stale>>
      /\ timers[t].phase = "fired" /\ k \in Keys
  BY DEF TimerInv, LimitInv, TypeOK, TimersTyped, ExpireTimer, indexes, GoTimers
<1>1. /\ \A u \in Timers \ {t} : timers'[u] = timers[u]
      /\ \/ active[k] = NoTimer /\ timers'[t].phase = "free"
         \/ active[k] # NoTimer /\ timers'[t].phase = "callback" /\ timers'[t].key = k
  <2>1. /\ [timers[t] EXCEPT !.phase = "callback"].phase = "callback"
        /\ [timers[t] EXCEPT !.phase = "callback"].key = k
    BY <1>0, TimerFields DEF TimersTyped
  <2>2. \/ active[k] = NoTimer /\ timers' = [timers EXCEPT ![t] = Idle]
        \/ /\ active[k] # NoTimer
           /\ timers' = [timers EXCEPT ![t] = [timers[t] EXCEPT !.phase = "callback"]]
    BY DEF ExpireTimer
  <2>3. Idle.phase = "free" BY DEF Idle
  <2> QED BY <1>0, <2>1, <2>2, <2>3 DEF TimersTyped
<1>2. \A m \in Keys : active'[m] = IF m = k THEN NoTimer ELSE active[m]
  BY <1>0 DEF ExpireTimer, TimersTyped
<1> HIDE DEF k
<1>3. Indexed' BY <1>0 DEF Indexed, Assigned
<1>4. Registered'
  <2> SUFFICES ASSUME NEW m \in Keys, active'[m] # NoTimer
               PROVE  timers'[active'[m]].key = m /\ timers'[active'[m]].phase \in {"armed", "fired"}
    BY DEF Registered
  <2>1. m # k /\ active'[m] = active[m] /\ active[m] \in Timers BY <1>0, <1>2 DEF TimersTyped
  <2>2. timers[active[m]].key = m /\ timers[active[m]].phase \in {"armed", "fired"}
    BY <1>0, <2>1 DEF Registered
  <2>3. active[m] # t BY <2>1, <2>2 DEF k
  <2> QED BY <1>1, <2>1, <2>2, <2>3
<1>5. ASSUME NEW z \in Zones, NEW d \in Directions PROVE IsBacked(z, d)'
  <2> SUFFICES ASSUME limits'[z][d] # NoLimit, limits'[z][d].dur \in 1..MaxDuration
               PROVE  /\ zoneIndex'[z] # NoIndex
                      /\ \E u \in Timers : Backs(u, <<zoneIndex[z], d>>, limits[z][d])'
    BY DEF IsBacked
  <2> DEFINE m == <<zoneIndex[z], d>>
  <2>1. zoneIndex[z] # NoIndex /\ \E u \in Timers : Backs(u, m, limits[z][d])
    BY <1>0, AllBacked DEF IsBacked
  <2>2. PICK u \in Timers : Backs(u, m, limits[z][d]) BY <2>1
  <2>3. m \in Keys BY <1>0, <2>1, KeyOfZone
  <2> HIDE DEF m
  \* Its timer is removed, and this callback takes its place.
  <2>4. CASE m = k /\ active[k] # NoTimer
    <3>1. timers'[t].phase = "callback" /\ timers'[t].key = m BY <1>1, <2>4
    <3> QED BY <1>0, <2>1, <3>1 DEF Backs, m
  <2>5. CASE ~(m = k /\ active[k] # NoTimer)
    <3>1. u # t BY <1>0, <2>2, <2>5 DEF Backs, k
    <3>2. timers'[u] = timers[u] /\ (m # k => active'[m] = active[m]) BY <1>1, <1>2, <2>3, <3>1
    <3>3. m = k => timers[u].phase = "callback" BY <2>2, <2>5 DEF Backs
    <3>4. Backs(u, m, limits[z][d])' BY <1>0, <2>2, <3>2, <3>3 DEF Backs, m
    <3> QED BY <1>0, <2>1, <3>4 DEF m
  <2> QED BY <2>4, <2>5
<1>6. TimedLimitBacked' BY <1>5, AllBacked
<1>7. Single' BY <1>0, <1>1 DEF Single, k
<1>8. \A m : LimitOf(m)' = LimitOf(m) BY <1>0 DEF LimitOf
<1>9. Punctual'
  <2> SUFFICES ASSUME NEW u \in Timers, timers'[u].phase # "free", timers'[u].key \notin stale'
               PROVE  /\ indexZone'[timers'[u].key[1]] # NoZone
                      /\ LimitOf(timers[u].key)' # NoLimit =>
                           /\ LimitOf(timers[u].key)'.dur > 0
                           /\ LimitOf(timers[u].key)'.left
                                <= IF timers'[u].phase = "armed" THEN timers'[u].left ELSE 0
                      /\ timers'[u].phase = "armed" => active'[timers'[u].key] = u
    BY DEF Punctual
  <2>1. CASE u = t BY <1>0, <1>1, <1>8, <2>1 DEF Punctual, k
  <2>2. CASE u # t
    <3>1. timers'[u] = timers[u] /\ timers[u].key \in Keys BY <1>0, <1>1, <2>2 DEF TimersTyped, GoTimers
    <3>2. timers[u].key # k BY <1>0, <2>2, <3>1 DEF Single, k
    <3>3. active'[timers[u].key] = active[timers[u].key] BY <1>2, <3>1, <3>2
    <3> QED BY <1>0, <1>8, <3>1, <3>3 DEF Punctual
  <2> QED BY <2>1, <2>2
<1> QED BY <1>3, <1>4, <1>6, <1>7, <1>9 DEF TimerInv

\* handleTimerExpiry clears the limit of its key.
LEMMA CallbackStep ==
    ASSUME TimerInv, LimitInv', NEW t \in Timers, HandleTimerExpiry(t) PROVE TimerInv'
<1> USE NamesAssumption
<1> DEFINE k == timers[t].key
<1>0. /\ LimitInv /\ Indexed /\ Registered /\ TimedLimitBacked /\ Single /\ Punctual /\ TimersTyped
      /\ UNCHANGED <<zoneIndex, indexZone, nextIndex, active, stale>>
      /\ timers[t].phase = "callback" /\ k \in Keys /\ WellStored(limits)
  BY DEF TimerInv, LimitInv, TypeOK, TimersTyped, HandleTimerExpiry, indexes, GoTimers
<1>1. timers'[t].phase = "free" /\ \A u \in Timers \ {t} : timers'[u] = timers[u]
  BY <1>0 DEF HandleTimerExpiry, TimersTyped, Idle
<1>2. \A z \in Zones, d \in Directions :
        /\ limits'[z][d] \in {limits[z][d], NoLimit}
        /\ indexZone[k[1]] = z /\ k[2] = d => limits'[z][d] = NoLimit
  <2>1. CASE indexZone[k[1]] = NoZone BY <2>1 DEF HandleTimerExpiry
  <2>2. CASE indexZone[k[1]] # NoZone
    <3>1. indexZone[k[1]] \in Zones /\ k[2] \in Directions BY <1>0, <2>2, ZoneOfKey
    <3>2. ResolveAndApply(Without(indexZone[k[1]], {k[2]})) BY <2>2 DEF HandleTimerExpiry
    <3>3. \A z \in Zones, d \in Directions :
            Without(indexZone[k[1]], {k[2]})[z][d]
              = IF z = indexZone[k[1]] /\ d \in {k[2]} THEN NoLimit ELSE limits[z][d]
      BY <1>0, <3>1, WithoutLimits
    <3>4. \A z \in Zones, d \in Directions :
            limits'[z][d] \in {Without(indexZone[k[1]], {k[2]})[z][d], NoLimit}
      <4>1. WellStored(Without(indexZone[k[1]], {k[2]})) BY <1>0, <3>1, WithoutLimits
      <4> QED BY <3>2, <4>1, Resolving
    <3> HIDE DEF k
    <3> SUFFICES ASSUME NEW z \in Zones, NEW d \in Directions
                 PROVE  /\ limits'[z][d] \in {limits[z][d], NoLimit}
                        /\ indexZone[k[1]] = z /\ k[2] = d => limits'[z][d] = NoLimit
      OBVIOUS
    <3>5. CASE z = indexZone[k[1]] /\ d = k[2] BY <3>3, <3>4, <3>5
    <3>6. CASE ~(z = indexZone[k[1]] /\ d = k[2]) BY <3>3, <3>4, <3>6
    <3> QED BY <3>5, <3>6
  <2> QED BY <2>1, <2>2
<1> HIDE DEF k
<1>3. Indexed' BY <1>0 DEF Indexed, Assigned
<1>4. Registered'
  <2>1. \A m \in Keys : active[m] # NoTimer => active[m] \in Timers \ {t}
    BY <1>0 DEF Registered, TimersTyped
  <2> QED BY <1>0, <1>1, <2>1 DEF Registered
<1>5. ASSUME NEW z \in Zones, NEW d \in Directions PROVE IsBacked(z, d)'
  <2> SUFFICES ASSUME limits'[z][d] # NoLimit, limits'[z][d].dur \in 1..MaxDuration
               PROVE  /\ zoneIndex'[z] # NoIndex
                      /\ \E u \in Timers : Backs(u, <<zoneIndex[z], d>>, limits[z][d])'
    BY DEF IsBacked
  <2>1. limits'[z][d] = limits[z][d] BY <1>2
  <2>2. zoneIndex[z] # NoIndex /\ \E u \in Timers : Backs(u, <<zoneIndex[z], d>>, limits[z][d])
    BY <1>0, <2>1, AllBacked DEF IsBacked
  <2>3. PICK u \in Timers : Backs(u, <<zoneIndex[z], d>>, limits[z][d]) BY <2>2
  <2>4. k # <<zoneIndex[z], d>>
    <3>1. indexZone[zoneIndex[z]] = z BY <1>0, <2>2, KeyOfZone
    <3> QED BY <1>2, <3>1
  <2>5. u # t BY <1>0, <2>3, <2>4 DEF Backs, k
  <2>6. timers'[u] = timers[u] BY <1>1, <2>5
  <2>7. Backs(u, <<zoneIndex[z], d>>, limits[z][d])' BY <1>0, <2>1, <2>3, <2>6 DEF Backs
  <2> QED BY <1>0, <2>2, <2>7
<1>6. TimedLimitBacked' BY <1>5, AllBacked
<1>7. Single' BY <1>0, <1>1 DEF Single
<1>8. Punctual'
  <2> SUFFICES ASSUME NEW u \in Timers, timers'[u].phase # "free", timers'[u].key \notin stale'
               PROVE  /\ indexZone'[timers'[u].key[1]] # NoZone
                      /\ LimitOf(timers[u].key)' # NoLimit =>
                           /\ LimitOf(timers[u].key)'.dur > 0
                           /\ LimitOf(timers[u].key)'.left
                                <= IF timers'[u].phase = "armed" THEN timers'[u].left ELSE 0
                      /\ timers'[u].phase = "armed" => active'[timers'[u].key] = u
    BY DEF Punctual
  <2> DEFINE m == timers[u].key
  <2>1. timers'[u] = timers[u] /\ m \in Keys BY <1>0, <1>1 DEF TimersTyped, GoTimers
  <2>2. /\ indexZone[m[1]] # NoZone
        /\ LimitOf(m) # NoLimit =>
             /\ LimitOf(m).dur > 0
             /\ LimitOf(m).left <= IF timers[u].phase = "armed" THEN timers[u].left ELSE 0
        /\ timers[u].phase = "armed" => active[m] = u
    BY <1>0, <2>1 DEF Punctual
  <2>3. LimitOf(timers[u].key)' \in {LimitOf(m), NoLimit}
    <3>1. indexZone[m[1]] \in Zones /\ m[2] \in Directions BY <1>0, <2>1, <2>2, ZoneOfKey
    <3> QED BY <1>0, <1>2, <2>1, <3>1 DEF LimitOf
  <2> QED BY <1>0, <2>1, <2>2, <2>3
<1> QED BY <1>3, <1>4, <1>6, <1>7, <1>8 DEF TimerInv

\* A limit and its timer count down together.
LEMMA TickStep ==
    ASSUME TimerInv, LimitInv', Tick PROVE TimerInv'
<1> USE NamesAssumption
<1>0. /\ LimitInv /\ Indexed /\ Registered /\ TimedLimitBacked /\ Single /\ Punctual /\ TimersTyped
      /\ UNCHANGED <<zoneIndex, indexZone, nextIndex, active, stale>> /\ WellStored(limits)
  BY DEF TimerInv, LimitInv, TypeOK, TimersTyped, Tick, indexes
<1>1. \A t \in Timers : /\ timers'[t].phase = timers[t].phase /\ timers'[t].key = timers[t].key
                        /\ timers'[t].left = Down(timers[t].left) /\ timers[t].left \in Nat
                        /\ timers[t].key \in Keys
  <2> SUFFICES ASSUME NEW t \in Timers
               PROVE  /\ timers'[t].phase = timers[t].phase /\ timers'[t].key = timers[t].key
                      /\ timers'[t].left = Down(timers[t].left) /\ timers[t].left \in Nat
                      /\ timers[t].key \in Keys
    OBVIOUS
  <2>1. timers[t] \in GoTimers BY <1>0 DEF TimersTyped
  <2>2. timers'[t] = [timers[t] EXCEPT !.left = Down(@)] BY DEF Tick
  <2>3. timers[t].left \in Nat /\ timers[t].key \in Keys BY <2>1 DEF GoTimers
  <2> QED BY <2>1, <2>2, <2>3, TimerFields
<1>2. \A z \in Zones, d \in Directions :
        /\ limits'[z][d] = NoLimit <=> limits[z][d] = NoLimit
        /\ limits[z][d] # NoLimit =>
             /\ limits'[z][d].dur = limits[z][d].dur /\ limits[z][d].left \in Nat
             /\ limits'[z][d].left = Down(limits[z][d].left)
  BY <1>0, TickLimits DEF WellStored, StoredValues
<1>3. Indexed' BY <1>0 DEF Indexed, Assigned
<1>4. Registered' BY <1>0, <1>1 DEF Registered, TimersTyped
<1>5. \A m, n \in Nat : (m <= n => Down(m) <= Down(n)) /\ (m <= 0 => Down(m) <= 0) BY DEF Down
<1>6. ASSUME NEW z \in Zones, NEW d \in Directions PROVE IsBacked(z, d)'
  <2> SUFFICES ASSUME limits'[z][d] # NoLimit, limits'[z][d].dur \in 1..MaxDuration
               PROVE  /\ zoneIndex'[z] # NoIndex
                      /\ \E u \in Timers : Backs(u, <<zoneIndex[z], d>>, limits[z][d])'
    BY DEF IsBacked
  <2>1. zoneIndex[z] # NoIndex /\ \E u \in Timers : Backs(u, <<zoneIndex[z], d>>, limits[z][d])
    BY <1>0, <1>2, AllBacked DEF IsBacked
  <2>2. PICK u \in Timers : Backs(u, <<zoneIndex[z], d>>, limits[z][d]) BY <2>1
  <2>3. Backs(u, <<zoneIndex[z], d>>, limits[z][d])' BY <1>0, <1>1, <1>2, <1>5, <2>2 DEF Backs
  <2> QED BY <1>0, <2>1, <2>3
<1>7. TimedLimitBacked' BY <1>6, AllBacked
<1>8. Single' BY <1>0, <1>1 DEF Single
<1>9. Punctual'
  <2> SUFFICES ASSUME NEW u \in Timers, timers'[u].phase # "free", timers'[u].key \notin stale'
               PROVE  /\ indexZone'[timers'[u].key[1]] # NoZone
                      /\ LimitOf(timers[u].key)' # NoLimit =>
                           /\ LimitOf(timers[u].key)'.dur > 0
                           /\ LimitOf(timers[u].key)'.left
                                <= IF timers'[u].phase = "armed" THEN timers'[u].left ELSE 0
                      /\ timers'[u].phase = "armed" => active'[timers'[u].key] = u
    BY DEF Punctual
  <2> DEFINE m == timers[u].key
             z == indexZone[m[1]]
             d == m[2]
  <2>1. timers'[u].key = m /\ m \in Keys /\ timers'[u].phase = timers[u].phase BY <1>1
  <2>2. /\ indexZone[m[1]] # NoZone
        /\ LimitOf(m) # NoLimit =>
             /\ LimitOf(m).dur > 0
             /\ LimitOf(m).left <= IF timers[u].phase = "armed" THEN timers[u].left ELSE 0
        /\ timers[u].phase = "armed" => active[m] = u
    BY <1>0, <2>1 DEF Punctual
  <2>3. z \in Zones /\ d \in Directions BY <1>0, <2>1, <2>2, ZoneOfKey
  <2>4. LimitOf(m) = limits[z][d] /\ LimitOf(timers[u].key)' = limits'[z][d]
    BY <1>0, <2>1 DEF LimitOf
  <2> HIDE DEF z, d
  <2>5. ASSUME limits'[z][d] # NoLimit
        PROVE  /\ limits'[z][d].dur > 0
               /\ limits'[z][d].left <= IF timers[u].phase = "armed" THEN timers'[u].left ELSE 0
    <3>1. /\ limits'[z][d].dur = limits[z][d].dur /\ limits[z][d].left \in Nat
          /\ limits'[z][d].left = Down(limits[z][d].left) /\ limits[z][d] # NoLimit
      BY <1>2, <2>3, <2>5
    <3>2. timers'[u].left = Down(timers[u].left) /\ timers[u].left \in Nat BY <1>1
    <3> QED BY <1>5, <2>2, <2>4, <3>1, <3>2
  <2> QED BY <1>0, <2>1, <2>2, <2>4, <2>5
<1> QED BY <1>3, <1>4, <1>7, <1>8, <1>9 DEF TimerInv

-----------------------------------------------------------------------------
(* The second invariant. *)

\* There are no limits, no timers and no indexes at the start.
LEMMA TimerInvInit == FewZones /\ Init => TimerInv
<1> SUFFICES ASSUME FewZones, Init PROVE TimerInv
  OBVIOUS
<1> USE IndexAssumption, NamesAssumption DEF Init
<1>1. LimitInv BY LimitInvInit
<1>2. Assigned = {} BY DEF Assigned
<1>3. Indexed BY <1>2, FS_EmptySet DEF Indexed
<1>4. \A t \in Timers : timers[t].phase = "free" BY DEF Idle
<1>5. Registered /\ Single /\ Punctual BY <1>4 DEF Registered, Single, Punctual
<1>6. TimedLimitBacked BY DEF TimedLimitBacked
<1> QED BY <1>1, <1>3, <1>5, <1>6 DEF TimerInv

\* Every step keeps it.
LEMMA TimerInvNext == FewZones /\ TimerInv /\ [Next]_vars => TimerInv'
<1> SUFFICES ASSUME FewZones, TimerInv, [Next]_vars PROVE TimerInv'
  OBVIOUS
<1> USE NamesAssumption
<1>0. LimitInv /\ LimitInv' /\ Indexed /\ WellStored(limits) /\ IndexesTyped
  <2>1. LimitInv BY DEF TimerInv
  <2>2. LimitInv' BY <2>1, LimitInvNext
  <2> QED BY <2>1, <2>2 DEF TimerInv, LimitInv, TypeOK, IndexesTyped
\* The limits of the zone z in the directions ds are cleared.
<1>1. ASSUME NEW z \in Zones, NEW ds \in SUBSET Directions,
             CancelTimers({k \in ZoneKeys(z) : k[2] \in ds}), ResolveAndApply(Without(z, ds)),
             UNCHANGED <<indexes, stale>>
      PROVE  TimerInv'
  <2> DEFINE ks == {k \in ZoneKeys(z) : k[2] \in ds}
  <2>1. ks \subseteq Keys BY <1>0, ZoneKeysType
  <2>2. WellStored(Without(z, ds)) BY <1>0, WithoutLimits
  <2>3. \A y \in Zones, d \in Directions :
          Without(z, ds)[y][d] = IF y = z /\ d \in ds THEN NoLimit ELSE limits[y][d]
    BY <1>0, WithoutLimits
  <2>4. \A y \in Zones, d \in Directions : limits'[y][d] \in {Without(z, ds)[y][d], NoLimit}
    BY <1>1, <2>2, Resolving
  <2>5. ASSUME NEW y \in Zones, NEW d \in Directions, zoneIndex[y] # NoIndex, <<zoneIndex[y], d>> \in ks
        PROVE  limits'[y][d] = NoLimit
    <3>1. d \in ds /\ zoneIndex[z] = zoneIndex[y] BY <2>5 DEF ZoneKeys
    <3>2. indexZone[zoneIndex[y]] = y /\ indexZone[zoneIndex[z]] = z
      BY <1>0, <2>5, <3>1, KeyOfZone
    <3> QED BY <2>3, <2>4, <3>1, <3>2
  <2> QED BY <1>0, <1>1, <2>1, <2>3, <2>4, <2>5, ClearingStep
<1>2. ASSUME NEW z \in Zones, HandleDeactivate(z) \/ ClearZone(z) PROVE TimerInv'
  <2>1. {k \in ZoneKeys(z) : k[2] \in Directions} = ZoneKeys(z) BY DEF ZoneKeys
  <2> QED BY <1>1, <1>2, <2>1 DEF HandleDeactivate, ClearZone
<1>3. ASSUME NEW z \in Zones, NEW ds \in {Directions} \cup {{d} : d \in Directions},
             HandleClearLimit(z, ds)
      PROVE  TimerInv'
  BY <1>1, <1>3 DEF HandleClearLimit
<1>4. CASE ResetAll
  <2> DEFINE ks == UNION {ZoneKeys(z) : z \in Zones}
  <2>1. ks \subseteq Keys BY <1>0, ZoneKeysType
  <2>2. \A z \in Zones, d \in Directions : limits'[z][d] = NoLimit
    BY <1>4, NoLimits, Resolving DEF ResetAll
  <2>3. CancelTimers(ks) /\ UNCHANGED <<indexes, stale>> BY <1>4 DEF ResetAll
  <2> HIDE DEF ks
  <2> QED BY <1>0, <2>1, <2>2, <2>3, ClearingStep
<1>5. ASSUME UNCHANGED <<limits, indexes, active, timers, stale>> PROVE TimerInv'
  <2>1. \A k : LimitOf(k)' = LimitOf(k) BY <1>5 DEF LimitOf, indexes
  <2>2. Indexed' /\ Registered' /\ Single' /\ Punctual'
    BY <1>5, <2>1 DEF TimerInv, Indexed, Assigned, Registered, Single, Punctual, indexes
  <2>3. TimedLimitBacked' BY <1>5 DEF TimerInv, TimedLimitBacked, indexes
  <2> QED BY <1>0, <2>2, <2>3 DEF TimerInv
<1>6. ASSUME NEW s \in ControlStates, SetControlState(s) PROVE TimerInv'
  BY <1>5, <1>6 DEF SetControlState
<1>7. CASE UNCHANGED vars BY <1>5, <1>7 DEF vars
<1> QED BY <1>0, <1>2, <1>3, <1>4, <1>6, <1>7, SettingStep, FireStep, ExpireStep, CallbackStep,
           TickStep DEF Next

\* It holds throughout while no index is given twice.
LEMMA TimersInvariant == ASSUME FewZones PROVE Spec => []TimerInv
<1>1. Init => TimerInv BY TimerInvInit
<1>2. TimerInv /\ [Next]_vars => TimerInv' BY TimerInvNext
<1> QED BY <1>1, <1>2, PTL DEF Spec

\* A limit with an acceptable duration has its timer registered or a callback on
\* its way, however expiries and commands interleave, as long as no index is
\* given twice (limit_resolver.go HandleSetLimit, timer.go SetTimer, expireTimer).
THEOREM TimedLimitsAlwaysBacked == ASSUME FewZones PROVE Spec => []TimedLimitBacked
<1>1. TimerInv => TimedLimitBacked BY DEF TimerInv
<1> QED BY <1>1, TimersInvariant, PTL

\* A callback finds the limit of its key expired or gone, unless the limit was set
\* while an older timer was beyond reach (timer.go expireTimer, limit_resolver.go
\* handleTimerExpiry).
THEOREM ClearedOnlyWhenExpired == ASSUME FewZones PROVE Spec => []NoEarlyClearUnlessStale
<1>1. TimerInv => NoEarlyClearUnlessStale
  <2> SUFFICES ASSUME TimerInv, NEW t \in Timers, timers[t].phase = "callback",
                      timers[t].key \notin stale
               PROVE  LET z == indexZone[timers[t].key[1]]
                          v == limits[z][timers[t].key[2]]
                      IN z # NoZone /\ (v = NoLimit \/ IsExpired(v))
    BY DEF NoEarlyClearUnlessStale
  <2> DEFINE k == timers[t].key
  <2>1. LimitInv /\ Indexed /\ k \in Keys
    BY DEF TimerInv, LimitInv, TypeOK, GoTimers
  <2>2. /\ indexZone[k[1]] # NoZone
        /\ LimitOf(k) # NoLimit => LimitOf(k).dur > 0 /\ LimitOf(k).left <= 0
    BY DEF TimerInv, Punctual
  <2>3. indexZone[k[1]] \in Zones /\ k[2] \in Directions BY <2>1, <2>2, ZoneOfKey
  <2>4. LimitOf(k) # NoLimit => LimitOf(k).left \in Nat
    BY <2>1, <2>3 DEF LimitInv, WellStored, StoredValues, LimitOf
  <2>5. LimitOf(k) = NoLimit \/ IsExpired(LimitOf(k))
    <3> SUFFICES ASSUME LimitOf(k) # NoLimit PROVE IsExpired(LimitOf(k))
      OBVIOUS
    <3>1. LimitOf(k).dur > 0 /\ LimitOf(k).left = 0 BY <2>2, <2>4
    <3> QED BY <3>1 DEF IsExpired
  <2> QED BY <2>2, <2>5 DEF LimitOf
<1> QED BY <1>1, TimersInvariant, PTL
=============================================================================
