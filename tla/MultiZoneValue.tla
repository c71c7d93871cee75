--------------------------- MODULE MultiZoneValue ---------------------------
(***************************************************************************)
(* Resolution of the values that several zones have set for one attribute  *)
(* (mash-go/pkg/zone/zone.go, MultiZoneValue).                             *)
(*                                                                         *)
(* ResolveLimits and ResolveSetpoints range over a Go map, whose order is  *)
(* unspecified: each loop is modelled one iteration at a time, with any    *)
(* zone not yet visited next.  The owner's mutex is held during a          *)
(* resolution, so Set and Clear happen only between two of them; time may  *)
(* pass at any moment.                                                     *)
(***************************************************************************)
EXTENDS Integers

CONSTANTS
    Zones,           \* zone identifiers
    SettableValues,  \* the values zones may set: consumption limits are positive,
                     \* production limits negative
    NoValue,         \* a nil pointer
    NoZone           \* the empty zone identifier

ASSUME ValuesAssumption == SettableValues \subseteq Int /\ NoValue \notin Int

ASSUME ZonesAssumption == NoZone \notin Zones

VARIABLES
    values,           \* MultiZoneValue.Values
    effectiveValue,   \* MultiZoneValue.EffectiveValue
    winningZoneID,    \* MultiZoneValue.WinningZoneID
    mode,             \* which resolution is running, "idle" when none
    todo,             \* zones its loop has not visited
    candidate,        \* local effectiveValue
    candidateZone,    \* local winningZoneID
    winningPriority   \* local winningPriority of ResolveSetpoints

resolutionVars == <<values, effectiveValue, winningZoneID, mode, todo, candidate,
                    candidateZone, winningPriority>>
locals == <<mode, todo, candidate, candidateZone, winningPriority>>

ZoneTypeGrid == 1
ZoneTypeLocal == 2
ZoneTypeTest == 3
ZoneTypes == {ZoneTypeGrid, ZoneTypeLocal, ZoneTypeTest}

\* ZoneType.Priority: the lower the number the higher the priority.
Priority(zt) == zt

ZoneValues == [value : SettableValues, type : ZoneTypes, expires : {"never", "later", "past"}]

ASSUME NoValueAssumption == NoValue \notin ZoneValues

Present == {z \in Zones : values[z] # NoValue}

\* TEST zones are observers, their values never count.
Eligible == {z \in Present : values[z].type # ZoneTypeTest}

ResolutionTypeOK ==
    /\ values \in [Zones -> ZoneValues \cup {NoValue}]
    /\ effectiveValue \in SettableValues \cup {NoValue}
    /\ winningZoneID \in Zones \cup {NoZone}
    /\ mode \in {"idle", "limits", "setpoints"}
    /\ todo \subseteq Present /\ (mode = "idle" => todo = {})
    /\ candidate \in SettableValues \cup {NoValue}
    /\ candidateZone \in Zones \cup {NoZone}
    /\ winningPriority \in 0..255

-----------------------------------------------------------------------------
ResolutionInit ==
    /\ values = [z \in Zones |-> NoValue]
    /\ effectiveValue = NoValue
    /\ winningZoneID = NoZone
    /\ mode = "idle"
    /\ todo = {}
    /\ candidate = NoValue
    /\ candidateZone = NoZone
    /\ winningPriority = 255

Set(z, zt, v, timed) ==
    /\ mode = "idle"
    /\ values' = [values EXCEPT ![z] =
                    [value |-> v, type |-> zt,
                     expires |-> IF timed THEN "later" ELSE "never"]]
    /\ UNCHANGED <<effectiveValue, winningZoneID, locals>>

Clear(z) ==
    /\ mode = "idle"
    /\ values' = [values EXCEPT ![z] = NoValue]
    /\ UNCHANGED <<effectiveValue, winningZoneID, locals>>

\* Time passes the ExpiresAt of a value.
Expire(z) ==
    /\ values[z] # NoValue
    /\ values[z].expires = "later"
    /\ values' = [values EXCEPT ![z].expires = "past"]
    /\ UNCHANGED <<effectiveValue, winningZoneID, locals>>

RemoveExpired ==
    [z \in Zones |->
        IF values[z] # NoValue /\ values[z].expires = "past" THEN NoValue ELSE values[z]]

\* The head of both resolutions: nothing is left to do if no value is set.
BeginResolve(m) ==
    /\ mode = "idle"
    /\ values' = RemoveExpired
    /\ candidate' = NoValue
    /\ candidateZone' = NoZone
    /\ winningPriority' = 255
    /\ mode' = m
    /\ todo' = {z \in Zones : RemoveExpired[z] # NoValue}
    /\ UNCHANGED <<effectiveValue, winningZoneID>>

MoreRestrictiveUnmixed(v) ==  \* mutant: limits of unlike sign keep their order
    candidate # NoValue =>
        \/ v >= 0 /\ candidate >= 0 /\ v < candidate
        \/ v < 0 /\ candidate < 0 /\ v > candidate

\* Whether v replaces the candidate in ResolveLimits.
MoreRestrictive(v) ==
    candidate # NoValue =>
        \/ v >= 0 /\ candidate >= 0 /\ v < candidate
        \/ v < 0 /\ candidate < 0 /\ v > candidate
        \/ v >= 0 /\ candidate < 0

\* One iteration of the loop of ResolveLimits.
VisitLimit(z) ==
    /\ mode = "limits" /\ z \in todo
    /\ todo' = todo \ {z}
    /\ \/ /\ z \in Eligible /\ MoreRestrictive(values[z].value)
          /\ candidate' = values[z].value
          /\ candidateZone' = z
       \/ /\ ~(z \in Eligible /\ MoreRestrictive(values[z].value))
          /\ UNCHANGED <<candidate, candidateZone>>
    /\ UNCHANGED <<values, effectiveValue, winningZoneID, mode, winningPriority>>

VisitSetpointStale(z) ==  \* mutant: the winner's priority is not remembered
    /\ mode = "setpoints" /\ z \in todo
    /\ todo' = todo \ {z}
    /\ \/ /\ z \in Eligible /\ Priority(values[z].type) < winningPriority
          /\ candidate' = values[z].value
          /\ candidateZone' = z
       \/ /\ ~(z \in Eligible /\ Priority(values[z].type) < winningPriority)
          /\ UNCHANGED <<candidate, candidateZone>>
    /\ UNCHANGED <<values, effectiveValue, winningZoneID, mode, winningPriority>>

\* One iteration of the loop of ResolveSetpoints.
VisitSetpoint(z) ==
    /\ mode = "setpoints" /\ z \in todo
    /\ todo' = todo \ {z}
    /\ \/ /\ z \in Eligible /\ Priority(values[z].type) < winningPriority
          /\ candidate' = values[z].value
          /\ candidateZone' = z
          /\ winningPriority' = Priority(values[z].type)
       \/ /\ ~(z \in Eligible /\ Priority(values[z].type) < winningPriority)
          /\ UNCHANGED <<candidate, candidateZone, winningPriority>>
    /\ UNCHANGED <<values, effectiveValue, winningZoneID, mode>>

\* The loop is done: the fields are assigned and the result returned.
EndResolve ==
    /\ mode # "idle" /\ todo = {}
    /\ effectiveValue' = candidate
    /\ winningZoneID' = candidateZone
    /\ mode' = "idle"
    /\ UNCHANGED <<values, todo, candidate, candidateZone, winningPriority>>

ResolutionNext ==
    \/ \E z \in Zones, zt \in ZoneTypes, v \in SettableValues, timed \in BOOLEAN :
          Set(z, zt, v, timed)
    \/ \E z \in Zones : Clear(z) \/ Expire(z)
    \/ \E m \in {"limits", "setpoints"} : BeginResolve(m)
    \/ \E z \in Zones : VisitLimit(z) \/ VisitSetpoint(z)
    \/ EndResolve

ResolutionSpec == ResolutionInit /\ [][ResolutionNext]_resolutionVars

-----------------------------------------------------------------------------
(* Properties. *)

\* Zones whose values the running loop has taken into account.
Visited == Eligible \ todo

\* v is the most restrictive limit of the zones of S: the smallest
\* consumption limit if there is one, else the production limit closest to 0.
MostRestrictive(v, S) ==
    /\ \E z \in S : v = values[z].value
    /\ \A z \in S :
        LET w == values[z].value IN
            IF v >= 0 THEN w >= 0 => v <= w ELSE w < 0 /\ w <= v

\* Whatever the order in which the map is visited, ResolveLimits has the most
\* restrictive limit of the zones visited, and none only when no zone but
\* TEST zones was visited: the effective limit does not depend on the order
\* (zone.go ResolveLimits).
LimitIsMostRestrictive ==
    mode = "limits" =>
        IF Visited = {} THEN candidate = NoValue ELSE MostRestrictive(candidate, Visited)

\* The loop invariant of ResolveSetpoints: the candidate is the setpoint of a zone
\* visited that no other zone visited outranks, and that zone's priority is kept.
SetpointOfVisited ==
    mode = "setpoints" =>
        IF Visited = {} THEN candidate = NoValue /\ candidateZone = NoZone /\ winningPriority = 255
        ELSE /\ candidateZone \in Visited
             /\ candidate = values[candidateZone].value
             /\ winningPriority = Priority(values[candidateZone].type)
             /\ \A z \in Visited : winningPriority <= Priority(values[z].type)

\* What a resolution of setpoints publishes is, with its zone, the setpoint of a
\* zone that no other outranks, or nothing if no zone but TEST zones has set one: a
\* zone above all others wins in every order of the map.  Among zones of equal
\* priority the first one in that order wins (zone.go ResolveSetpoints).
SetpointFollowsPriority ==
    [][mode = "setpoints" /\ mode' = "idle" =>
         IF Eligible = {} THEN effectiveValue' = NoValue /\ winningZoneID' = NoZone
         ELSE /\ winningZoneID' \in Eligible
              /\ effectiveValue' = values[winningZoneID'].value
              /\ \A z \in Eligible :
                    Priority(values[winningZoneID'].type) <= Priority(values[z].type)]_resolutionVars
=============================================================================
