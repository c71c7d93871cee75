---------------------------- MODULE LimitResolver ----------------------------
(***************************************************************************)
(* Per-zone power limits with durations: the limit resolver of the         *)
(* EnergyControl feature (mash-go/pkg/features/limit_resolver.go) and the  *)
(* duration timers it owns (mash-go/pkg/duration/timer.go).                *)
(*                                                                         *)
(* A handler holds the resolver's mutex throughout and is one action.  The *)
(* duration manager has a mutex of its own; it is taken key by key inside  *)
(* a handler, and what an expiring timer does between two of these         *)
(* sections it could as well do before or after the handler, so nothing is *)
(* lost.  An expiring timer runs in a goroutine in two steps: expireTimer  *)
(* removes the entry under the manager's mutex, then, after releasing it,  *)
(* the callback handleTimerExpiry takes the resolver's mutex.              *)
(*                                                                         *)
(* A limit is at least 0 when it is stored, so that the most restrictive   *)
(* one is the smallest (MultiZoneValue shows that the loop of              *)
(* ResolveLimits computes it in every order).                              *)
(***************************************************************************)
EXTENDS Integers, FiniteSets

CONSTANTS
    Zones,        \* zone identifiers
    TestZones,    \* those of type TEST
    Directions,   \* consumption and production, or one of them
    Limits,       \* values a SetLimit request may carry
    Capacity,     \* MaxConsumption and MaxProduction, 0 when not configured
    MaxDuration,  \* longest duration the duration manager accepts
    Durations,    \* durations a SetLimit request may carry, 0 for none
    IndexCount,   \* values of the uint8 zone index
    Timers,       \* identities of Go timers that may exist at one time
    NoTimer, NoLimit, NoIndex, NoZone

Indexes == 0..IndexCount - 1
Keys == Indexes \X Directions

ASSUME LimitsAssumption ==
    Limits \subseteq Int /\ NoLimit \notin Int /\ Capacity \in Nat /\ Directions # {}

ASSUME DurationsAssumption == MaxDuration \in Nat /\ Durations \subseteq Nat

ASSUME IndexAssumption == IndexCount \in Nat \ {0} /\ NoIndex \notin Indexes

ASSUME NamesAssumption ==
    NoTimer \notin Timers /\ NoZone \notin Zones /\ TestZones \subseteq Zones

VARIABLES
    limits,        \* consumptionLimits and productionLimits
    effective,     \* the feature's effective limits
    controlState,  \* the feature's control state
    zoneIndex,     \* zoneIndexMap
    indexZone,     \* indexZoneMap
    nextIndex,     \* nextIndex
    active,        \* duration.Manager.timers, by key
    timers,        \* the Go timers behind them and their goroutines
    stale          \* history: keys whose limit was set while an older timer
                   \* was beyond the resolver's reach

ec == <<effective, controlState>>
indexes == <<zoneIndex, indexZone, nextIndex>>
vars == <<limits, ec, indexes, active, timers, stale>>

ControlStates == {"Autonomous", "Controlled", "Limited", "Override"}

\* A ZoneValue: its Duration (0 when indefinite) and what is left of it.
ZoneValues == [value : Limits, dur : Durations, left : Nat]

ASSUME NoLimitAssumption == NoLimit \notin ZoneValues

\* A timer is armed; then its goroutine waits to run expireTimer ("fired"),
\* then to run the callback ("callback").
GoTimers == [phase : {"free", "armed", "fired", "callback"}, key : Keys, left : Nat]

Storable == {v \in Limits : v >= 0 /\ (Capacity > 0 => v <= Capacity)}

TypeOK ==
    /\ limits \in [Zones -> [Directions -> ZoneValues \cup {NoLimit}]]
    /\ effective \in [Directions -> Storable \cup {NoLimit}]
    /\ controlState \in ControlStates
    /\ zoneIndex \in [Zones -> Indexes \cup {NoIndex}]
    /\ indexZone \in [Indexes -> Zones \cup {NoZone}]
    /\ nextIndex \in Indexes
    /\ active \in [Keys -> Timers \cup {NoTimer}]
    /\ timers \in [Timers -> GoTimers]
    /\ stale \subseteq Keys

-----------------------------------------------------------------------------
(* Limits. *)

IsExpired(v) == v # NoLimit /\ v.dur > 0 /\ v.left = 0

\* RemoveExpired on both maps.
Unexpired(ls) ==
    [z \in Zones |-> [d \in Directions |-> IF IsExpired(ls[z][d]) THEN NoLimit ELSE ls[z][d]]]

\* Values that count: TEST zones are observers.
Counted(ls, d) == {ls[z][d].value : z \in {y \in Zones \ TestZones : ls[y][d] # NoLimit}}

MostRestrictive(S) == IF S = {} THEN NoLimit ELSE CHOOSE v \in S : \A w \in S : v <= w

ResolveAndApplyLazily(ls) ==  \* mutant: the effective limit is updated only if limits remain
    /\ limits' = Unexpired(ls)
    /\ effective' = IF \E d \in Directions : Counted(limits', d) # {}
                    THEN [d \in Directions |-> MostRestrictive(Counted(limits', d))]
                    ELSE effective
    /\ controlState' = IF \E d \in Directions : Counted(limits', d) # {}
                       THEN "Controlled" ELSE "Autonomous"

\* resolveAndApply, the end of every handler, on the limits it has stored.
ResolveAndApply(ls) ==
    /\ limits' = Unexpired(ls)
    /\ effective' = [d \in Directions |-> MostRestrictive(Counted(limits', d))]
    /\ controlState' = IF \E d \in Directions : effective'[d] # NoLimit
                       THEN "Controlled" ELSE "Autonomous"

Without(z, ds) ==
    [limits EXCEPT ![z] = [d \in Directions |-> IF d \in ds THEN NoLimit ELSE @[d]]]

-----------------------------------------------------------------------------
(* The duration manager. *)

NoKey == CHOOSE k \in Keys : TRUE
Idle == [phase |-> "free", key |-> NoKey, left |-> 0]

Free(t) == timers[t].phase = "free" /\ \A k \in Keys : active[k] # t

InFlight(k) ==
    \E t \in Timers : timers[t].phase \in {"fired", "callback"} /\ timers[t].key = k

\* time.Timer.Stop on the active timers of the keys ks.
Stopped(ks) ==
    [t \in Timers |->
        IF timers[t].phase = "armed" /\ \E k \in ks : active[k] = t THEN Idle ELSE timers[t]]

\* CancelTimer for each key of ks (CancelZoneTimers when ks are all of a zone).
CancelTimers(ks) ==
    /\ timers' = Stopped(ks)
    /\ active' = [k \in Keys |-> IF k \in ks THEN NoTimer ELSE active[k]]

\* SetTimer for each key of ks: f gives each its new Go timer.  A duration out of
\* range is refused, the error is dropped and the old timer stays.
SetTimers(ks, dur, f) ==
    IF dur > MaxDuration THEN UNCHANGED <<active, timers>>
    ELSE
      /\ \A k \in ks : Free(f[k[2]])
      /\ \A k, m \in ks : k # m => f[k[2]] # f[m[2]]
      /\ active' = [k \in Keys |-> IF k \in ks THEN f[k[2]] ELSE active[k]]
      /\ timers' = [t \in Timers |->
            IF \E k \in ks : f[k[2]] = t
            THEN [phase |-> "armed", key |-> CHOOSE k \in ks : f[k[2]] = t, left |-> dur]
            ELSE Stopped(ks)[t]]

ZoneKeys(z) == IF zoneIndex[z] = NoIndex THEN {} ELSE {zoneIndex[z]} \X Directions

-----------------------------------------------------------------------------
Init ==
    /\ limits = [z \in Zones |-> [d \in Directions |-> NoLimit]]
    /\ effective = [d \in Directions |-> NoLimit]
    /\ controlState = "Autonomous"
    /\ zoneIndex = [z \in Zones |-> NoIndex]
    /\ indexZone = [i \in Indexes |-> NoZone]
    /\ nextIndex = 0
    /\ active = [k \in Keys |-> NoTimer]
    /\ timers = [t \in Timers |-> Idle]
    /\ stale = {}

\* ensureZoneIndex; the index is a uint8 and wraps.
EnsureZoneIndex(z) ==
    IF zoneIndex[z] # NoIndex THEN UNCHANGED indexes
    ELSE /\ zoneIndex' = [zoneIndex EXCEPT ![z] = nextIndex]
         /\ indexZone' = [indexZone EXCEPT ![nextIndex] = z]
         /\ nextIndex' = (nextIndex + 1) % IndexCount

(* Handlers. *)

Requested(r) == {d \in Directions : r[d] # NoLimit}

\* HandleSetLimit with a value: r[d] is NoLimit for a nil field.
HandleSetLimit(z, r, dur) ==
    /\ Requested(r) # {}
    /\ \A d \in Requested(r) : r[d] \in Storable
    /\ controlState # "Override"
    /\ EnsureZoneIndex(z)
    /\ LET ks == {zoneIndex'[z]} \X Requested(r) IN
        /\ IF dur = 0 THEN CancelTimers(ks)
           ELSE \E f \in [Directions -> Timers] : SetTimers(ks, dur, f)
        /\ stale' = stale \cup {k \in ks : InFlight(k) \/ (dur > MaxDuration /\ active[k] # NoTimer)}
    /\ ResolveAndApply(
          [limits EXCEPT ![z] = [d \in Directions |->
              IF d \in Requested(r) THEN [value |-> r[d], dur |-> dur, left |-> dur] ELSE @[d]]])

\* HandleSetLimit with both values nil: the zone's limits are deactivated.
HandleDeactivate(z) ==
    /\ controlState # "Override"
    /\ CancelTimers(ZoneKeys(z))
    /\ ResolveAndApply(Without(z, Directions))
    /\ UNCHANGED <<indexes, stale>>

HandleClearLimitKeepsTimer(z, ds) ==  \* mutant: the directions' timers are forgotten, not stopped
    /\ active' = [k \in Keys |->
                     IF k \in ZoneKeys(z) /\ k[2] \in ds THEN NoTimer ELSE active[k]]
    /\ ResolveAndApply(Without(z, ds))
    /\ UNCHANGED <<indexes, timers, stale>>

\* HandleClearLimit for the directions ds; the override state is not consulted.
HandleClearLimit(z, ds) ==
    /\ CancelTimers({k \in ZoneKeys(z) : k[2] \in ds})
    /\ ResolveAndApply(Without(z, ds))
    /\ UNCHANGED <<indexes, stale>>

\* ClearZone, called when a zone is removed.
ClearZone(z) ==
    /\ CancelTimers(ZoneKeys(z))
    /\ ResolveAndApply(Without(z, Directions))
    /\ UNCHANGED <<indexes, stale>>

ResetAll ==
    /\ CancelTimers(UNION {ZoneKeys(z) : z \in Zones})
    /\ ResolveAndApply([z \in Zones |-> [d \in Directions |-> NoLimit]])
    /\ UNCHANGED <<indexes, stale>>

\* The device application: an override begins or ends, or a limit curtails it.
SetControlState(s) ==
    /\ \/ s \in {"Override", "Controlled"}
       \/ s = "Limited" /\ controlState = "Controlled"
    /\ controlState' = s
    /\ UNCHANGED <<limits, effective, indexes, active, timers, stale>>

-----------------------------------------------------------------------------
(* Expiry. *)

\* The Go runtime starts the goroutine of an expired timer.
Fire(t) ==
    /\ timers[t].phase = "armed" /\ timers[t].left = 0
    /\ timers' = [timers EXCEPT ![t].phase = "fired"]
    /\ UNCHANGED <<limits, ec, indexes, active, stale>>

ExpireTimerInverted(t) ==  \* mutant: the test for the entry is inverted
    /\ timers[t].phase = "fired"
    /\ \/ /\ active[timers[t].key] # NoTimer
          /\ timers' = [timers EXCEPT ![t] = Idle]
       \/ /\ active[timers[t].key] = NoTimer
          /\ timers' = [timers EXCEPT ![t].phase = "callback"]
    /\ active' = [active EXCEPT ![timers[t].key] = NoTimer]
    /\ UNCHANGED <<limits, ec, indexes, stale>>

\* expireTimer: whichever timer the key has now is removed, and not stopped.
ExpireTimer(t) ==
    /\ timers[t].phase = "fired"
    /\ \/ /\ active[timers[t].key] = NoTimer
          /\ timers' = [timers EXCEPT ![t] = Idle]
       \/ /\ active[timers[t].key] # NoTimer
          /\ timers' = [timers EXCEPT ![t].phase = "callback"]
    /\ active' = [active EXCEPT ![timers[t].key] = NoTimer]
    /\ UNCHANGED <<limits, ec, indexes, stale>>

\* handleTimerExpiry: the zone's present limit is cleared, whenever it was set.
HandleTimerExpiry(t) ==
    LET z == indexZone[timers[t].key[1]] IN
    /\ timers[t].phase = "callback"
    /\ timers' = [timers EXCEPT ![t] = Idle]
    /\ IF z = NoZone THEN UNCHANGED <<limits, ec>>
       ELSE ResolveAndApply(Without(z, {timers[t].key[2]}))
    /\ UNCHANGED <<indexes, active, stale>>

Down(n) == IF n > 0 THEN n - 1 ELSE 0

Tick ==
    /\ limits' = [z \in Zones |-> [d \in Directions |->
                    IF limits[z][d] = NoLimit THEN NoLimit
                    ELSE [limits[z][d] EXCEPT !.left = Down(@)]]]
    /\ timers' = [t \in Timers |-> [timers[t] EXCEPT !.left = Down(@)]]
    /\ UNCHANGED <<ec, indexes, active, stale>>

-----------------------------------------------------------------------------
Next ==
    \/ \E z \in Zones, r \in [Directions -> Limits \cup {NoLimit}], dur \in Durations :
          HandleSetLimit(z, r, dur)
    \/ \E z \in Zones : HandleDeactivate(z)
    \/ \E z \in Zones, ds \in {Directions} \cup {{d} : d \in Directions} :
          HandleClearLimit(z, ds)
    \/ \E z \in Zones : ClearZone(z)
    \/ ResetAll
    \/ \E s \in ControlStates : SetControlState(s)
    \/ \E t \in Timers : Fire(t)
    \/ \E t \in Timers : ExpireTimer(t)
    \/ \E t \in Timers : HandleTimerExpiry(t)
    \/ Tick

Spec == Init /\ [][Next]_vars

\* Time advances, the runtime starts due goroutines and these get the mutexes.
Fairness ==
    /\ WF_vars(Tick)
    /\ \A t \in Timers : WF_vars(Fire(t)) /\ WF_vars(ExpireTimer(t)) /\ WF_vars(HandleTimerExpiry(t))

FairSpec == Spec /\ Fairness

-----------------------------------------------------------------------------
(* Properties. *)

\* The effective limit of a direction is the most restrictive of the limits
\* that are stored, TEST zones apart, and a device with an effective limit is
\* never AUTONOMOUS: no handler, expiry or removal leaves a stale effective
\* limit behind (limit_resolver.go resolveAndApply and its callers).
EffectiveIsResolved ==
    /\ \A d \in Directions :
        LET S == {z \in Zones \ TestZones : limits[z][d] # NoLimit} IN
            IF S = {} THEN effective[d] = NoLimit
            ELSE /\ \E z \in S : effective[d] = limits[z][d].value
                 /\ \A z \in S : effective[d] <= limits[z][d].value
    /\ controlState = "Autonomous" => \A d \in Directions : effective[d] = NoLimit

\* A limit with an acceptable duration always has something that will clear
\* it in time: the timer registered for it, or a callback on its way, however
\* expiries and new commands interleave (limit_resolver.go HandleSetLimit,
\* timer.go SetTimer, expireTimer).
TimedLimitBacked ==
    \A z \in Zones, d \in Directions :
        LET v == limits[z][d]
            k == <<zoneIndex[z], d>>
            Backs(t) == \/ /\ active[k] = t /\ timers[t].key = k
                           /\ timers[t].phase = "armed" => timers[t].left <= v.left
                           /\ timers[t].phase \in {"armed", "fired"}
                        \/ timers[t].phase = "callback" /\ timers[t].key = k
        IN v # NoLimit /\ v.dur \in 1..MaxDuration =>
             zoneIndex[z] # NoIndex /\ \E t \in Timers : Backs(t)

\* A callback about to clear a limit finds it expired, unless the limit was
\* set while an older timer of the same key was beyond reach (timer.go
\* expireTimer, limit_resolver.go handleTimerExpiry).
NoEarlyClearUnlessStale ==
    \A t \in Timers :
        timers[t].phase = "callback" /\ timers[t].key \notin stale =>
            LET z == indexZone[timers[t].key[1]]
                v == limits[z][timers[t].key[2]]
            IN z # NoZone /\ (v = NoLimit \/ IsExpired(v))

\* A limit with an acceptable duration does not stay in force after its
\* time: it is cleared or set anew (timer.go SetTimer, limit_resolver.go
\* handleTimerExpiry).
TimedLimitEnds ==
    \A z \in Zones, d \in Directions :
        limits[z][d] # NoLimit /\ IsExpired(limits[z][d]) /\ limits[z][d].dur <= MaxDuration
            ~> ~IsExpired(limits[z][d])

-----------------------------------------------------------------------------
(* Statements of documents and comments that the code does not keep, listed in
   README.md; no configuration checks them. *)

\* The same without the proviso: a new command with a duration replaces the
\* timer of the old one.
NoEarlyClear ==
    \A t \in Timers :
        timers[t].phase = "callback" =>
            LET z == indexZone[timers[t].key[1]]
                v == limits[z][timers[t].key[2]]
            IN z # NoZone /\ (v = NoLimit \/ IsExpired(v))

\* OVERRIDE ends in CONTROLLED or LIMITED, never directly in AUTONOMOUS.
OverrideNotDropped ==
    [][controlState = "Override" => controlState' # "Autonomous"]_vars

\* Auto-clear on expiry, for every duration a request may carry.
FiniteLimitEnds ==
    \A z \in Zones, d \in Directions :
        IsExpired(limits[z][d]) ~> ~IsExpired(limits[z][d])
=============================================================================
