--------------------------- MODULE AttributeProofs ---------------------------
(***************************************************************************)
(* What the device does with its attributes: the resolution of the values  *)
(* zones have set for one (MultiZoneValue), and the notification of their  *)
(* changes to a session's subscriptions (Subscriptions).  Both parts hold  *)
(* for any zones, attributes, values, requests, writers and bounds.        *)
(***************************************************************************)
EXTENDS MultiZoneValue, Subscriptions, FiniteSetTheorems, SequenceTheorems, TLAPS

-----------------------------------------------------------------------------
(* Resolution.  Its result does not depend on the order in which the map   *)
(* of values is visited: each property is the loop invariant of its        *)
(* resolution, which speaks of the zones visited so far, and at the end of *)
(* the loop these are all the eligible ones.                               *)

USE ValuesAssumption, ZonesAssumption, NoValueAssumption

\* The initial state is well typed.
LEMMA ResolutionInitial == ResolutionInit => ResolutionTypeOK
BY DEF ResolutionInit, ResolutionTypeOK, Present

\* Removing expired values leaves values.
LEMMA RemoveExpiredType ==
    ASSUME ResolutionTypeOK
    PROVE  RemoveExpired \in [Zones -> ZoneValues \cup {NoValue}]
BY DEF ResolutionTypeOK, RemoveExpired

\* A value that expires stays a value.
LEMMA ExpireType ==
    ASSUME ResolutionTypeOK, NEW z \in Zones, Expire(z)
    PROVE  /\ values[z] \in ZoneValues /\ values'[z] \in ZoneValues
           /\ values' \in [Zones -> ZoneValues \cup {NoValue}]
<1>1. values[z] \in ZoneValues
  BY DEF Expire, ResolutionTypeOK
<1>2. [values[z] EXCEPT !.expires = "past"] \in ZoneValues
  BY <1>1 DEF ZoneValues
<1>3. values' = [values EXCEPT ![z] = [values[z] EXCEPT !.expires = "past"]]
  BY DEF Expire
<1> QED
  BY <1>1, <1>2, <1>3 DEF ResolutionTypeOK

\* Every step keeps the types.
LEMMA ResolutionTyped == ResolutionTypeOK /\ [ResolutionNext]_resolutionVars => ResolutionTypeOK'
<1> SUFFICES ASSUME ResolutionTypeOK, [ResolutionNext]_resolutionVars PROVE ResolutionTypeOK'
  OBVIOUS
<1>1. ASSUME NEW z \in Zones, NEW zt \in ZoneTypes, NEW v \in SettableValues,
             NEW timed \in BOOLEAN, Set(z, zt, v, timed)
      PROVE  ResolutionTypeOK'
  <2>1. [value |-> v, type |-> zt, expires |-> IF timed THEN "later" ELSE "never"]
          \in ZoneValues
    BY DEF ZoneValues
  <2>2. values' \in [Zones -> ZoneValues \cup {NoValue}]
    BY <1>1, <2>1 DEF Set, ResolutionTypeOK
  <2>3. values'[z] # NoValue
    BY <1>1, <2>1 DEF Set, ResolutionTypeOK
  <2>4. Present \subseteq Present'
    BY <1>1, <2>3 DEF Set, ResolutionTypeOK, Present
  <2> QED
    BY <1>1, <2>2, <2>4 DEF Set, ResolutionTypeOK, locals
<1>2. ASSUME NEW z \in Zones, Clear(z) PROVE ResolutionTypeOK'
  <2>1. values' \in [Zones -> ZoneValues \cup {NoValue}]
    BY <1>2 DEF Clear, ResolutionTypeOK
  <2> QED
    BY <1>2, <2>1 DEF Clear, ResolutionTypeOK, locals
<1>3. ASSUME NEW z \in Zones, Expire(z) PROVE ResolutionTypeOK'
  <2>1. /\ values' \in [Zones -> ZoneValues \cup {NoValue}]
        /\ values'[z] \in ZoneValues
    BY <1>3, ExpireType
  <2>2. values'[z] # NoValue
    BY <2>1
  <2>3. Present \subseteq Present'
    BY <1>3, <2>2 DEF Expire, ResolutionTypeOK, Present
  <2> QED
    BY <1>3, <2>1, <2>3 DEF Expire, ResolutionTypeOK, locals
<1>4. ASSUME NEW m \in {"limits", "setpoints"}, BeginResolve(m) PROVE ResolutionTypeOK'
  <2>1. values' \in [Zones -> ZoneValues \cup {NoValue}]
    BY <1>4, RemoveExpiredType DEF BeginResolve
  <2>2. todo' = Present'
    BY <1>4 DEF BeginResolve, Present
  <2> QED
    BY <1>4, <2>1, <2>2 DEF BeginResolve, ResolutionTypeOK
<1>5. ASSUME NEW z \in Zones, VisitLimit(z) PROVE ResolutionTypeOK'
  <2>1. z \in Eligible => values[z].value \in SettableValues
    BY DEF ResolutionTypeOK, Eligible, Present, ZoneValues
  <2> QED
    BY <1>5, <2>1 DEF VisitLimit, ResolutionTypeOK, Present
<1>6. ASSUME NEW z \in Zones, VisitSetpoint(z) PROVE ResolutionTypeOK'
  <2>1. z \in Eligible =>
          values[z].value \in SettableValues /\ Priority(values[z].type) \in 0..255
    BY DEF ResolutionTypeOK, Eligible, Present, ZoneValues, ZoneTypes, ZoneTypeGrid,
       ZoneTypeLocal, ZoneTypeTest, Priority
  <2> QED
    BY <1>6, <2>1 DEF VisitSetpoint, ResolutionTypeOK, Present
<1>7. CASE EndResolve
  BY <1>7 DEF EndResolve, ResolutionTypeOK, Present
<1>8. CASE UNCHANGED resolutionVars
  BY <1>8 DEF resolutionVars, ResolutionTypeOK, Present
<1> QED
  BY <1>1, <1>2, <1>3, <1>4, <1>5, <1>6, <1>7, <1>8 DEF ResolutionNext

\* The resolution's state is well typed; outside a resolution no loop is
\* pending (zone.go MultiZoneValue).
THEOREM ResolutionTypeCorrect == ResolutionSpec => []ResolutionTypeOK
<1>1. QED
  BY ResolutionInitial, ResolutionTyped, PTL DEF ResolutionSpec

-----------------------------------------------------------------------------
(* Steps other than a visit keep what the loop invariants speak of. *)

\* An expiry in the middle of a resolution changes no value that was visited.
LEMMA ExpireKeepsValues ==
    ASSUME ResolutionTypeOK, NEW z \in Zones, Expire(z)
    PROVE  /\ Visited' = Visited
           /\ \A u \in Visited : /\ values'[u].value = values[u].value
                                 /\ values'[u].type = values[u].type
<1>1. values[z] \in ZoneValues /\ values'[z] \in ZoneValues
  BY ExpireType
<1>2. values'[z] # NoValue
  BY <1>1
<1>3. \A u \in Zones : /\ values'[u] = NoValue <=> values[u] = NoValue
                       /\ values[u] # NoValue =>
                            /\ values'[u].value = values[u].value
                            /\ values'[u].type = values[u].type
  BY <1>1, <1>2 DEF Expire, ResolutionTypeOK, ZoneValues
<1>4. todo' = todo
  BY DEF Expire, locals
<1> QED
  BY <1>3, <1>4 DEF Visited, Eligible, Present

\* A resolution begins with no zone visited.
LEMMA BeginVisitsNone ==
    ASSUME NEW m, BeginResolve(m)
    PROVE  Visited' = {}
BY DEF BeginResolve, Visited, Eligible, Present

\* A visit adds the zone, if its value counts.
LEMMA VisitedGrows ==
    ASSUME NEW z \in todo, todo' = todo \ {z}, values' = values
    PROVE  Visited' = IF z \in Eligible THEN Visited \cup {z} ELSE Visited
BY DEF Visited, Eligible, Present

\* SettableValues that count are integers of GRID and LOCAL zones.
LEMMA VisitedTypes ==
    ASSUME ResolutionTypeOK
    PROVE  \A z \in Eligible : /\ values[z].value \in SettableValues
                               /\ values[z].value \in Int
                               /\ values[z].type \in {1, 2}
BY DEF ResolutionTypeOK, Eligible, Present, ZoneValues, ZoneTypes, ZoneTypeGrid,
   ZoneTypeLocal, ZoneTypeTest

\* The loop invariant of ResolveLimits.
LEMMA NextLimits ==
    ResolutionTypeOK /\ LimitIsMostRestrictive /\ [ResolutionNext]_resolutionVars => LimitIsMostRestrictive'
<1> SUFFICES ASSUME ResolutionTypeOK, LimitIsMostRestrictive, [ResolutionNext]_resolutionVars, mode' = "limits"
             PROVE  IF Visited' = {} THEN candidate' = NoValue
                    ELSE MostRestrictive(candidate, Visited)'
  BY DEF LimitIsMostRestrictive
<1> USE DEF LimitIsMostRestrictive, MostRestrictive
<1>1. ASSUME NEW z \in Zones, Expire(z)
      PROVE  IF Visited' = {} THEN candidate' = NoValue
             ELSE MostRestrictive(candidate, Visited)'
  BY <1>1, ExpireKeepsValues DEF Expire, locals
<1>2. ASSUME NEW m \in {"limits", "setpoints"}, BeginResolve(m)
      PROVE  Visited' = {} /\ candidate' = NoValue
  BY <1>2, BeginVisitsNone DEF BeginResolve
<1>3. ASSUME NEW z \in Zones, VisitLimit(z)
      PROVE  IF Visited' = {} THEN candidate' = NoValue
             ELSE MostRestrictive(candidate, Visited)'
  <2>0. /\ mode = "limits" /\ values' = values
        /\ Visited' = IF z \in Eligible THEN Visited \cup {z} ELSE Visited
    BY <1>3, VisitedGrows DEF VisitLimit
  <2>1. CASE z \notin Eligible
    BY <1>3, <2>0, <2>1 DEF VisitLimit
  <2>2. CASE z \in Eligible /\ Visited = {}
    <3>1. candidate' = values[z].value
      BY <1>3, <2>0, <2>2 DEF VisitLimit, MoreRestrictive
    <3> QED
      BY <2>0, <2>2, <3>1, VisitedTypes
  <2>3. CASE z \in Eligible /\ Visited # {}
    <3>1. candidate \in Int /\ candidate # NoValue /\ values[z].value \in Int
      BY <2>0, <2>3, VisitedTypes DEF Visited
    <3>2. \A u \in Visited : values[u].value \in Int
      BY VisitedTypes DEF Visited
    <3>3. CASE MoreRestrictive(values[z].value)
      <4>1. candidate' = values[z].value
        BY <1>3, <2>3, <3>3 DEF VisitLimit
      <4> QED
        BY <2>0, <2>3, <3>1, <3>2, <3>3, <4>1 DEF MoreRestrictive
    <3>4. CASE ~MoreRestrictive(values[z].value)
      <4>1. candidate' = candidate
        BY <1>3, <3>4 DEF VisitLimit
      <4> QED
        BY <2>0, <2>3, <3>1, <3>2, <3>4, <4>1 DEF MoreRestrictive
    <3> QED
      BY <3>3, <3>4
  <2> QED
    BY <2>1, <2>2, <2>3
<1>4. CASE UNCHANGED resolutionVars
  BY <1>4 DEF resolutionVars, Visited, Eligible, Present
<1> QED
  BY <1>1, <1>2, <1>3, <1>4
  DEF ResolutionNext, Set, Clear, VisitSetpoint, EndResolve, locals

\* ResolveLimits yields the most restrictive limit of the zones that count,
\* whatever the order of the map (zone.go ResolveLimits).
THEOREM LimitsOrderIndependent == ResolutionSpec => []LimitIsMostRestrictive
<1>1. ResolutionInit => LimitIsMostRestrictive
  BY DEF ResolutionInit, LimitIsMostRestrictive
<1>2. QED
  BY <1>1, ResolutionInitial, ResolutionTyped, NextLimits, PTL DEF ResolutionSpec

-----------------------------------------------------------------------------
(* Setpoints. *)

\* The loop invariant of ResolveSetpoints.
LEMMA NextSetpoints ==
    ResolutionTypeOK /\ SetpointOfVisited /\ [ResolutionNext]_resolutionVars => SetpointOfVisited'
<1> SUFFICES ASSUME ResolutionTypeOK, SetpointOfVisited, [ResolutionNext]_resolutionVars,
                    mode' = "setpoints"
             PROVE  SetpointOfVisited'
  BY DEF SetpointOfVisited
<1> USE DEF SetpointOfVisited
<1>1. ASSUME NEW z \in Zones, Expire(z) PROVE SetpointOfVisited'
  <2>1. UNCHANGED locals
    BY <1>1 DEF Expire
  <2> QED
    BY <1>1, <2>1, ExpireKeepsValues DEF locals
<1>2. ASSUME NEW m \in {"limits", "setpoints"}, BeginResolve(m) PROVE SetpointOfVisited'
  BY <1>2, BeginVisitsNone DEF BeginResolve
<1>3. ASSUME NEW z \in Zones, VisitSetpoint(z) PROVE SetpointOfVisited'
  <2>0. /\ mode = "setpoints" /\ values' = values
        /\ Visited' = IF z \in Eligible THEN Visited \cup {z} ELSE Visited
    BY <1>3, VisitedGrows DEF VisitSetpoint
  <2>1. \A u \in Visited \cup ({z} \cap Eligible) :
          Priority(values[u].type) = values[u].type /\ values[u].type \in {1, 2}
    BY VisitedTypes DEF Visited, Priority
  <2>2. CASE z \notin Eligible
    BY <1>3, <2>0, <2>2 DEF VisitSetpoint
  <2>3. CASE z \in Eligible /\ Priority(values[z].type) < winningPriority
    <3>1. /\ candidateZone' = z /\ candidate' = values[z].value
          /\ winningPriority' = Priority(values[z].type)
      BY <1>3, <2>3 DEF VisitSetpoint
    <3> QED
      BY <2>0, <2>1, <2>3, <3>1
  <2>4. CASE z \in Eligible /\ ~(Priority(values[z].type) < winningPriority)
    <3>1. UNCHANGED <<candidate, candidateZone, winningPriority>>
      BY <1>3, <2>4 DEF VisitSetpoint
    <3>2. Visited # {}
      BY <2>0, <2>1, <2>4
    <3> QED
      BY <2>0, <2>1, <2>4, <3>1, <3>2
  <2> QED
    BY <2>2, <2>3, <2>4
<1>4. CASE UNCHANGED resolutionVars
  BY <1>4 DEF resolutionVars, Visited, Eligible, Present
<1> QED
  BY <1>1, <1>2, <1>3, <1>4
  DEF ResolutionNext, Set, Clear, VisitLimit, EndResolve, locals

\* What ResolveSetpoints publishes is the setpoint of a zone no other zone
\* outranks, whatever the order of the map (zone.go ResolveSetpoints).
THEOREM SetpointsFollowPriority == ResolutionSpec => SetpointFollowsPriority
<1> DEFINE Published ==
      mode = "setpoints" /\ mode' = "idle" =>
         IF Eligible = {} THEN effectiveValue' = NoValue /\ winningZoneID' = NoZone
         ELSE /\ winningZoneID' \in Eligible
              /\ effectiveValue' = values[winningZoneID'].value
              /\ \A z \in Eligible :
                    Priority(values[winningZoneID'].type) <= Priority(values[z].type)
<1>1. ResolutionInit => SetpointOfVisited
  BY DEF ResolutionInit, SetpointOfVisited
<1>2. ResolutionTypeOK /\ SetpointOfVisited /\ [ResolutionNext]_resolutionVars
        => [Published]_resolutionVars
  <2> SUFFICES ASSUME ResolutionTypeOK, SetpointOfVisited, ResolutionNext,
                      mode = "setpoints", mode' = "idle"
               PROVE  Published
    OBVIOUS
  <2>1. EndResolve
    BY DEF ResolutionNext, Set, Clear, Expire, BeginResolve, VisitLimit, VisitSetpoint, locals
  <2>2. /\ Visited = Eligible
        /\ effectiveValue' = candidate /\ winningZoneID' = candidateZone
    BY <2>1 DEF EndResolve, Visited
  <2> QED
    BY <2>2 DEF SetpointOfVisited
<1> HIDE DEF Published
<1>3. ResolutionSpec => [][Published]_resolutionVars
  BY <1>1, <1>2, ResolutionInitial, ResolutionTyped, NextSetpoints, PTL DEF ResolutionSpec
<1> QED
  BY <1>3 DEF Published, SetpointFollowsPriority

-----------------------------------------------------------------------------
(* Subscriptions. *)

USE ConstantsAssumption

-----------------------------------------------------------------------------
(* Maps from attributes to values. *)

\* What a map is.
LEMMA MapsDef ==
    ASSUME NEW m
    PROVE  m \in Maps <=> \E A \in SUBSET Attrs : m \in [A -> Values]
BY DEF Maps

\* What a map is made of.
LEMMA MapsParts ==
    ASSUME NEW m \in Maps
    PROVE  /\ DOMAIN m \subseteq Attrs /\ \A a \in DOMAIN m : m[a] \in Values
           /\ m = [a \in DOMAIN m |-> m[a]]
BY MapsDef

\* The empty map.
LEMMA EmptyMap == Empty \in Maps /\ DOMAIN Empty = {}
<1>1. DOMAIN Empty = {} BY DEF Empty
<1>2. Empty \in [{} -> Values] BY <1>1 DEF Empty
<1> QED BY <1>1, <1>2, MapsDef

\* One map written over another.
LEMMA UpdateMap ==
    ASSUME NEW m \in Maps, NEW n \in Maps
    PROVE  /\ Update(m, n) \in Maps /\ DOMAIN Update(m, n) = DOMAIN m \cup DOMAIN n
           /\ \A a \in DOMAIN n : Update(m, n)[a] = n[a]
           /\ \A a \in DOMAIN m \ DOMAIN n : Update(m, n)[a] = m[a]
<1> DEFINE A == DOMAIN m \cup DOMAIN n
<1>1. A \in SUBSET Attrs /\ \A a \in A : (IF a \in DOMAIN n THEN n[a] ELSE m[a]) \in Values
  BY MapsParts
<1>2. Update(m, n) \in [A -> Values] BY <1>1 DEF Update
<1>3. Update(m, n) \in Maps BY <1>1, <1>2, MapsDef
<1> QED BY <1>3 DEF Update

\* The map of one attribute.
LEMMA SingleMap ==
    ASSUME NEW a \in Attrs, NEW v \in Values
    PROVE  /\ [b \in {a} |-> v] \in Maps /\ DOMAIN [b \in {a} |-> v] = {a}
           /\ [b \in {a} |-> v][a] = v
<1>1. [b \in {a} |-> v] \in [{a} -> Values] OBVIOUS
<1> QED BY <1>1, MapsDef

\* A part of a map.
LEMMA PartMap ==
    ASSUME NEW m \in Maps, NEW S \in SUBSET DOMAIN m
    PROVE  /\ [a \in S |-> m[a]] \in Maps /\ DOMAIN [a \in S |-> m[a]] = S
<1>1. [a \in S |-> m[a]] \in [S -> Values] /\ S \in SUBSET Attrs BY MapsParts
<1> QED BY <1>1, MapsDef

-----------------------------------------------------------------------------
(* The index of the feature. *)

\* The slice in use: inside its array, without repetition, naming the subscriptions.
IndexInv ==
    /\ lastId \in 0 .. MaxIds /\ subscriptions \subseteq 1 .. lastId
    /\ arrays \in Seq(Seq(0 .. MaxIds)) /\ index \in [arr : Nat, len : Nat]
    /\ index.len = 0 => index.arr = 0
    /\ index.len > 0 => index.arr \in 1 .. Len(arrays) /\ index.len <= Len(arrays[index.arr])
    /\ \A k \in 1 .. index.len : arrays[index.arr][k] \in subscriptions
    /\ \A j, k \in 1 .. index.len : j # k => arrays[index.arr][j] # arrays[index.arr][k]
    /\ \A i \in subscriptions : \E k \in 1 .. index.len : arrays[index.arr][k] = i
    /\ index.len = Cardinality(subscriptions)

\* Identifiers are finitely many.
LEMMA FiniteIds ==
    ASSUME NEW n \in Nat, NEW S \in SUBSET (1 .. n)
    PROVE  IsFiniteSet(S) /\ Cardinality(S) \in Nat
<1>1. IsFiniteSet(1 .. n) BY FS_Interval
<1>2. IsFiniteSet(S) BY <1>1, FS_Subset
<1> QED BY <1>2, FS_CardinalityType

\* No array goes or shrinks, and only elements of S are written.
KeepsArrays(S) ==
    \A n \in 1 .. Len(arrays) :
        /\ n \in 1 .. Len(arrays') /\ Len(arrays'[n]) = Len(arrays[n])
        /\ \A k \in 1 .. Len(arrays[n]) : arrays'[n][k] = arrays[n][k] \/ arrays'[n][k] \in S

\* AppendToIndex: the slice is longer by one element, which is the last.
LEMMA AppendKeeps ==
    ASSUME IndexInv, NEW id \in 1 .. MaxIds, AppendToIndex(id)
    PROVE  /\ arrays' \in Seq(Seq(0 .. MaxIds)) /\ index' \in [arr : Nat, len : Nat]
           /\ index'.len = index.len + 1
           /\ index'.arr \in 1 .. Len(arrays') /\ index'.len <= Len(arrays'[index'.arr])
           /\ \A k \in 1 .. index.len : arrays'[index'.arr][k] = arrays[index.arr][k]
           /\ arrays'[index'.arr][index'.len] = id
           /\ KeepsArrays({id})
<1>0. /\ arrays \in Seq(Seq(0 .. MaxIds)) /\ index \in [arr : Nat, len : Nat]
      /\ index.len = 0 => index.arr = 0
      /\ index.len > 0 => index.arr \in 1 .. Len(arrays) /\ index.len <= Len(arrays[index.arr])
  BY DEF IndexInv
<1>1. CASE index.arr > 0 /\ index.len < Len(arrays[index.arr])
  <2> DEFINE a == arrays[index.arr]
             b == [a EXCEPT ![index.len + 1] = id]
  <2>1. /\ arrays' = [arrays EXCEPT ![index.arr] = b]
        /\ index' = [index EXCEPT !.len = index.len + 1]
    BY <1>1 DEF AppendToIndex
  <2>2. index.arr \in 1 .. Len(arrays) /\ index.len > 0 BY <1>0, <1>1
  <2>3. a \in Seq(0 .. MaxIds) BY <1>0, <2>2
  <2>4. index.len + 1 \in 1 .. Len(a) /\ id \in 0 .. MaxIds BY <1>0, <1>1, <2>3
  <2> HIDE DEF a
  <2>5. /\ b \in Seq(0 .. MaxIds) /\ Len(b) = Len(a)
        /\ \A k \in 1 .. Len(a) : b[k] = IF k = index.len + 1 THEN id ELSE a[k]
    BY <2>3, <2>4, ExceptSeq
  <2> HIDE DEF b
  <2>6. /\ arrays' \in Seq(Seq(0 .. MaxIds)) /\ Len(arrays') = Len(arrays)
        /\ arrays'[index.arr] = b
    BY <1>0, <2>1, <2>2, <2>5, ExceptSeq
  <2>7. index'.arr = index.arr /\ index'.len = index.len + 1 /\ index' \in [arr : Nat, len : Nat]
    <3>1. index \in [arr : Nat, len : Nat] /\ index.len + 1 \in Nat BY <1>0
    <3> QED BY <2>1, <3>1
  <2>8. \A k \in 1 .. index.len : b[k] = a[k] BY <1>0, <2>4, <2>5
  <2>9. b[index.len + 1] = id BY <2>4, <2>5
  <2>10. ASSUME NEW n \in 1 .. Len(arrays)
         PROVE  /\ n \in 1 .. Len(arrays') /\ Len(arrays'[n]) = Len(arrays[n])
                /\ \A k \in 1 .. Len(arrays[n]) : arrays'[n][k] = arrays[n][k] \/ arrays'[n][k] = id
    <3>1. CASE n = index.arr BY <2>5, <2>6, <3>1 DEF a
    <3>2. CASE n # index.arr
      <4>1. arrays'[n] = arrays[n] BY <1>0, <2>1, <3>2
      <4> QED BY <2>6, <4>1
    <3> QED BY <3>1, <3>2
  <2>11. KeepsArrays({id}) BY <2>10 DEF KeepsArrays
  <2>12. index'.len <= Len(arrays'[index'.arr]) /\ index'.arr \in 1 .. Len(arrays')
    BY <2>2, <2>4, <2>5, <2>6, <2>7
  <2> QED BY <2>6, <2>7, <2>8, <2>9, <2>11, <2>12 DEF a
<1>2. CASE ~(index.arr > 0 /\ index.len < Len(arrays[index.arr]))
  <2> DEFINE n == IF index.len = 0 THEN 1 ELSE 2 * index.len
  <2>1. /\ arrays' = Append(arrays, Grown(id))
        /\ index' = [arr |-> Len(arrays) + 1, len |-> index.len + 1]
    BY <1>2 DEF AppendToIndex
  <2>2. n \in Nat /\ n >= index.len + 1 BY <1>0
  <2>3. \A k \in 1 .. index.len : arrays[index.arr][k] \in 0 .. MaxIds
    <3>1. CASE index.len = 0 BY <3>1
    <3>2. CASE index.len > 0
      <4>1. arrays[index.arr] \in Seq(0 .. MaxIds) BY <1>0, <3>2
      <4> QED BY <1>0, <3>2, <4>1
    <3> QED BY <1>0, <3>1, <3>2
  <2>4. /\ Grown(id) \in [1 .. n -> 0 .. MaxIds]
        /\ \A k \in 1 .. index.len : Grown(id)[k] = arrays[index.arr][k]
        /\ Grown(id)[index.len + 1] = id
    <3> DEFINE g(k) == CASE k <= index.len -> arrays[index.arr][k]
                         [] k = index.len + 1 -> id
                         [] OTHER -> Free
    <3>1. Grown(id) = [k \in 1 .. n |-> g(k)] BY DEF Grown
    <3>2. \A k \in 1 .. n : g(k) = IF k <= index.len THEN arrays[index.arr][k]
                                  ELSE IF k = index.len + 1 THEN id ELSE 0
      <4>1. index.len \in Nat BY <1>0
      <4>2. ASSUME NEW k \in 1 .. n
            PROVE  g(k) = IF k <= index.len THEN arrays[index.arr][k]
                          ELSE IF k = index.len + 1 THEN id ELSE 0
        <5>0. k \in Int OBVIOUS
        <5>1. CASE k <= index.len BY <4>1, <5>0, <5>1
        <5>2. CASE k = index.len + 1 BY <4>1, <5>2
        <5>3. CASE ~(k <= index.len) /\ k # index.len + 1 BY <5>3 DEF Free
        <5> QED BY <5>1, <5>2, <5>3
      <4> QED BY <4>2
    <3> HIDE DEF n, g
    <3>3. \A k \in 1 .. n : g(k) \in 0 .. MaxIds
      <4>1. index.len \in Nat BY <1>0
      <4>2. \A k \in 1 .. n : k <= index.len => k \in 1 .. index.len BY <4>1
      <4> QED BY <2>3, <3>2, <4>2
    <3>4. Grown(id) \in [1 .. n -> 0 .. MaxIds] BY <3>1, <3>3
    <3>5. \A k \in 1 .. n : Grown(id)[k] = g(k) BY <3>1
    <3>6. index.len \in Nat BY <1>0
    <3>7. \A k \in 1 .. index.len : k \in 1 .. n /\ k <= index.len BY <2>2, <3>6 DEF n
    <3>8. index.len + 1 \in 1 .. n /\ ~(index.len + 1 <= index.len) BY <2>2, <3>6 DEF n
    <3>9. \A k \in 1 .. index.len : Grown(id)[k] = arrays[index.arr][k] BY <3>2, <3>5, <3>7
    <3>10. Grown(id)[index.len + 1] = id BY <3>2, <3>5, <3>8
    <3> QED BY <3>4, <3>9, <3>10
  <2> HIDE DEF n
  <2>5. Grown(id) \in Seq(0 .. MaxIds) /\ Len(Grown(id)) = n BY <2>2, <2>4
  <2>6. /\ arrays' \in Seq(Seq(0 .. MaxIds)) /\ Len(arrays') = Len(arrays) + 1
        /\ arrays'[Len(arrays) + 1] = Grown(id)
    BY <1>0, <2>1, <2>5, AppendProperties
  <2>7. \A k \in 1 .. Len(arrays) : arrays'[k] = arrays[k]
    BY <1>0, <2>1, <2>5, AppendProperties
  <2>8. KeepsArrays({id})
    <3>1. Len(arrays) \in Nat BY <1>0
    <3>2. \A k \in 1 .. Len(arrays) : k \in 1 .. Len(arrays') BY <2>6, <3>1
    <3> QED BY <2>7, <3>2 DEF KeepsArrays
  <2> QED BY <1>0, <2>1, <2>2, <2>4, <2>5, <2>6, <2>8
<1> QED BY <1>1, <1>2

\* RemoveFromIndex: the elements behind the removed one move up.
LEMMA RemoveKeeps ==
    ASSUME IndexInv, NEW id \in subscriptions, RemoveFromIndex(id)
    PROVE  /\ arrays' \in Seq(Seq(0 .. MaxIds)) /\ index' \in [arr : Nat, len : Nat]
           /\ KeepsArrays(subscriptions)
           /\ index'.len = index.len - 1
           /\ IF index'.len = 0 THEN index'.arr = 0
              ELSE /\ index'.arr = index.arr /\ index.arr \in 1 .. Len(arrays')
                   /\ index'.len <= Len(arrays'[index.arr])
           /\ \E i \in 1 .. index.len :
                 /\ arrays[index.arr][i] = id
                 /\ \A k \in 1 .. index.len - 1 :
                       arrays'[index.arr][k] = IF k < i THEN arrays[index.arr][k]
                                               ELSE arrays[index.arr][k + 1]
<1> DEFINE i == CHOOSE k \in 1 .. index.len : arrays[index.arr][k] = id
           a == arrays[index.arr]
           b == [k \in DOMAIN a |-> IF i <= k /\ k < index.len THEN a[k + 1] ELSE a[k]]
<1>1. i \in 1 .. index.len /\ a[i] = id BY DEF IndexInv
<1>2. /\ index \in [arr : Nat, len : Nat] /\ arrays \in Seq(Seq(0 .. MaxIds))
      /\ index.len > 0 /\ index.arr \in 1 .. Len(arrays) /\ index.len <= Len(a)
  BY <1>1 DEF IndexInv
<1>3. a \in Seq(0 .. MaxIds) BY <1>2
<1>4. /\ arrays' = [arrays EXCEPT ![index.arr] = b]
      /\ index' = IF index.len = 1 THEN [arr |-> 0, len |-> 0]
                  ELSE [index EXCEPT !.len = index.len - 1]
  BY DEF RemoveFromIndex
<1>5. \A k \in 1 .. index.len : a[k] \in subscriptions BY DEF IndexInv
<1> HIDE DEF i, a
<1>51. index.len \in Nat /\ i \in Nat /\ index.len <= Len(a) /\ Len(a) \in Nat /\ DOMAIN a = 1 .. Len(a)
  BY <1>1, <1>2, <1>3
<1>52. \A k \in 1 .. Len(a) : a[k] \in 0 .. MaxIds BY <1>3
<1>6. b \in Seq(0 .. MaxIds) /\ Len(b) = Len(a)
  <2>1. \A k \in 1 .. Len(a) : k < index.len => k + 1 \in 1 .. Len(a) BY <1>51
  <2>2. \A k \in 1 .. Len(a) : (IF i <= k /\ k < index.len THEN a[k + 1] ELSE a[k]) \in 0 .. MaxIds
    BY <1>52, <2>1
  <2>3. b \in [1 .. Len(a) -> 0 .. MaxIds] BY <1>51, <2>2
  <2> QED BY <1>51, <2>3
<1>7. \A k \in 1 .. Len(a) : b[k] = IF i <= k /\ k < index.len THEN a[k + 1] ELSE a[k]
  BY <1>51
<1> HIDE DEF b
<1>8. /\ arrays' \in Seq(Seq(0 .. MaxIds)) /\ Len(arrays') = Len(arrays)
      /\ arrays'[index.arr] = b
  BY <1>2, <1>4, <1>6, ExceptSeq
<1>9. \A k \in 1 .. Len(a) : b[k] = a[k] \/ b[k] \in subscriptions
  <2>1. \A k \in 1 .. Len(a) : k < index.len => k + 1 \in 1 .. index.len BY <1>51
  <2>2. \A k \in 1 .. Len(a) : k < index.len => a[k + 1] \in subscriptions BY <1>5, <2>1 DEF a
  <2> QED BY <1>7, <2>2
<1>10. KeepsArrays(subscriptions)
  <2>1. ASSUME NEW n \in 1 .. Len(arrays), n # index.arr PROVE arrays'[n] = arrays[n]
    BY <1>2, <1>4, <2>1
  <2> QED BY <1>6, <1>8, <1>9, <2>1 DEF KeepsArrays, a
<1>11. \A k \in 1 .. index.len - 1 : b[k] = IF k < i THEN a[k] ELSE a[k + 1]
  <2>1. \A k \in 1 .. index.len - 1 : k \in 1 .. Len(a) /\ k < index.len BY <1>51
  <2>2. \A k \in 1 .. index.len - 1 : (i <= k) = ~(k < i) BY <1>51
  <2> QED BY <1>7, <2>1, <2>2
<1>12. index' \in [arr : Nat, len : Nat] /\ index'.len = index.len - 1
  <2>1. CASE index.len = 1 BY <1>4, <2>1
  <2>2. CASE index.len # 1
    <3>1. index.len - 1 \in Nat BY <1>2
    <3>2. index' = [index EXCEPT !.len = index.len - 1] BY <1>4, <2>2
    <3> QED BY <1>2, <3>1, <3>2
  <2> QED BY <2>1, <2>2
<1>13. IF index'.len = 0 THEN index'.arr = 0
       ELSE /\ index'.arr = index.arr /\ index.arr \in 1 .. Len(arrays')
            /\ index'.len <= Len(arrays'[index.arr])
  BY <1>2, <1>4, <1>6, <1>8
<1> QED BY <1>1, <1>8, <1>10, <1>11, <1>12, <1>13 DEF a

\* Subscribe keeps the index.
LEMMA AppendIndex ==
    ASSUME IndexInv, lastId < MaxIds, lastId' = lastId + 1,
           subscriptions' = subscriptions \cup {lastId'}, AppendToIndex(lastId')
    PROVE  IndexInv' /\ KeepsArrays(subscriptions')
<1>0. /\ lastId \in Nat /\ lastId + 1 \in 1 .. MaxIds /\ subscriptions \subseteq 1 .. lastId
      /\ index.len \in Nat
  BY DEF IndexInv
<1> DEFINE n == index.len
           a == arrays[index.arr]
           b == arrays'[index'.arr]
<1>1. /\ arrays' \in Seq(Seq(0 .. MaxIds)) /\ index' \in [arr : Nat, len : Nat]
      /\ index'.len = n + 1 /\ index'.arr \in 1 .. Len(arrays') /\ index'.len <= Len(b)
      /\ \A k \in 1 .. n : b[k] = a[k]
      /\ b[n + 1] = lastId + 1 /\ KeepsArrays({lastId + 1})
  BY <1>0, AppendKeeps
<1>2. /\ \A k \in 1 .. n : a[k] \in subscriptions
      /\ \A j, k \in 1 .. n : j # k => a[j] # a[k]
      /\ \A i \in subscriptions : \E k \in 1 .. n : a[k] = i
      /\ n = Cardinality(subscriptions)
  BY DEF IndexInv
<1> HIDE DEF n, a, b
<1>3. n \in Nat BY <1>0 DEF n
<1>4. lastId' \in 0 .. MaxIds /\ subscriptions' \subseteq 1 .. lastId' /\ lastId + 1 \notin subscriptions
  BY <1>0
<1>41. /\ \A k \in 1 .. n : b[k] = a[k]
       /\ b[n + 1] = lastId + 1 /\ subscriptions' = subscriptions \cup {lastId + 1}
       /\ \A k \in 1 .. n + 1 : k \in 1 .. n \/ k = n + 1
       /\ \A k \in 1 .. n : k \in 1 .. n + 1
       /\ n + 1 \in 1 .. n + 1
  BY <1>1, <1>3
<1>5. \A k \in 1 .. n + 1 : b[k] \in subscriptions' BY <1>41, <1>2
<1>6. \A j, k \in 1 .. n + 1 : j # k => b[j] # b[k]
  <2>1. \A k \in 1 .. n : b[k] # lastId + 1 BY <1>41, <1>2, <1>4
  <2> QED BY <1>41, <1>2, <2>1
<1>7. \A i \in subscriptions' : \E k \in 1 .. n + 1 : b[k] = i
  <2>1. ASSUME NEW i \in subscriptions PROVE \E k \in 1 .. n + 1 : b[k] = i
    <3>1. PICK k \in 1 .. n : a[k] = i BY <1>2
    <3>2. k \in 1 .. n + 1 BY <1>3, <3>1
    <3>3. b[k] = i BY <1>41, <3>1
    <3> QED BY <3>2, <3>3
  <2>2. \E k \in 1 .. n + 1 : b[k] = lastId + 1 BY <1>3, <1>41
  <2> QED BY <1>41, <2>1, <2>2
<1>8. n + 1 = Cardinality(subscriptions') BY <1>0, <1>2, <1>4, FiniteIds, FS_AddElement
<1>9. KeepsArrays(subscriptions') BY <1>1 DEF KeepsArrays
<1>10. /\ \A k \in 1 .. index'.len : arrays'[index'.arr][k] \in subscriptions'
       /\ \A j, k \in 1 .. index'.len : j # k => arrays'[index'.arr][j] # arrays'[index'.arr][k]
       /\ \A x \in subscriptions' : \E k \in 1 .. index'.len : arrays'[index'.arr][k] = x
       /\ index'.len = Cardinality(subscriptions')
  BY <1>1, <1>5, <1>6, <1>7, <1>8 DEF b
<1>11. index'.len # 0 /\ index'.len <= Len(arrays'[index'.arr]) BY <1>1, <1>3 DEF b
<1> QED BY <1>1, <1>4, <1>9, <1>10, <1>11 DEF IndexInv

\* Manager.Unsubscribe does, too.
LEMMA RemoveIndex ==
    ASSUME IndexInv, UNCHANGED lastId, NEW id \in subscriptions,
           subscriptions' = subscriptions \ {id}, RemoveFromIndex(id)
    PROVE  IndexInv' /\ KeepsArrays(subscriptions)
<1>0. /\ lastId \in Nat /\ lastId \in 0 .. MaxIds /\ subscriptions \subseteq 1 .. lastId
      /\ index.len \in Nat
  BY DEF IndexInv
<1> DEFINE n == index.len
           a == arrays[index.arr]
           b == arrays'[index.arr]
<1>1. /\ arrays' \in Seq(Seq(0 .. MaxIds)) /\ index' \in [arr : Nat, len : Nat]
      /\ KeepsArrays(subscriptions) /\ index'.len = n - 1
      /\ IF index'.len = 0 THEN index'.arr = 0
         ELSE index'.arr = index.arr /\ index.arr \in 1 .. Len(arrays') /\ index'.len <= Len(b)
  BY RemoveKeeps
<1>2. PICK i \in 1 .. n : /\ a[i] = id
                          /\ \A k \in 1 .. n - 1 : b[k] = IF k < i THEN a[k] ELSE a[k + 1]
  BY RemoveKeeps
<1>3. /\ \A k \in 1 .. n : a[k] \in subscriptions
      /\ \A j, k \in 1 .. n : j # k => a[j] # a[k]
      /\ \A x \in subscriptions : \E k \in 1 .. n : a[k] = x
      /\ n = Cardinality(subscriptions)
  BY DEF IndexInv
<1> HIDE DEF n, a, b
<1>4. n \in Nat BY <1>0 DEF n
<1>5. \A k \in 1 .. n - 1 : b[k] \in subscriptions \ {id}
  <2>1. ASSUME NEW k \in 1 .. n - 1 PROVE b[k] \in subscriptions \ {id}
    <3>1. CASE k < i BY <1>2, <1>3, <1>4, <3>1
    <3>2. CASE ~(k < i)
      <4>1. k + 1 \in 1 .. n /\ k + 1 # i /\ b[k] = a[k + 1] BY <1>2, <1>4, <3>2
      <4> QED BY <1>2, <1>3, <4>1
    <3> QED BY <3>1, <3>2
  <2> QED BY <2>1
<1>6. \A j, k \in 1 .. n - 1 : j # k => b[j] # b[k]
  <2> DEFINE from(k) == IF k < i THEN k ELSE k + 1
  <2>1. \A k \in 1 .. n - 1 : from(k) \in 1 .. n /\ b[k] = a[from(k)] BY <1>2, <1>4
  <2>2. \A j, k \in 1 .. n - 1 : j # k => from(j) # from(k) BY <1>2, <1>4
  <2> HIDE DEF from
  <2> QED BY <1>3, <2>1, <2>2
<1>7. \A x \in subscriptions \ {id} : \E k \in 1 .. n - 1 : b[k] = x
  <2>1. ASSUME NEW x \in subscriptions \ {id} PROVE \E k \in 1 .. n - 1 : b[k] = x
    <3>1. PICK k \in 1 .. n : a[k] = x BY <1>3
    <3>2. k # i BY <1>2, <3>1
    <3>3. CASE k < i BY <1>2, <1>4, <3>1, <3>3
    <3>4. CASE k > i
      <4>1. k - 1 \in 1 .. n - 1 /\ ~(k - 1 < i) /\ (k - 1) + 1 = k BY <1>2, <1>4, <3>4
      <4>2. b[k - 1] = a[k] BY <1>2, <4>1
      <4> QED BY <3>1, <4>1, <4>2
    <3> QED BY <1>2, <1>4, <3>2, <3>3, <3>4
  <2> QED BY <2>1
<1>8. n - 1 = Cardinality(subscriptions \ {id})
  BY <1>0, <1>3, <1>4, FiniteIds, FS_RemoveElement
<1>9. index'.len > 0 => index'.arr = index.arr /\ index.arr \in 1 .. Len(arrays') /\ index'.len <= Len(b)
  BY <1>1
<1>10. index'.len = 0 => index'.arr = 0 /\ n - 1 = 0 BY <1>1
<1>11. /\ \A k \in 1 .. index'.len : arrays'[index'.arr][k] \in subscriptions'
       /\ \A j, k \in 1 .. index'.len : j # k => arrays'[index'.arr][j] # arrays'[index'.arr][k]
       /\ \A x \in subscriptions' : \E k \in 1 .. index'.len : arrays'[index'.arr][k] = x
  <2>1. CASE index'.len = 0 BY <1>1, <1>4, <1>7, <1>10, <2>1
  <2>2. CASE index'.len > 0 BY <1>1, <1>5, <1>6, <1>7, <1>9, <2>2 DEF b
  <2>3. index'.len \in Nat
    <3>1. index' \in [arr : Nat, len : Nat] BY <1>1
    <3> QED BY <3>1
  <2> QED BY <2>1, <2>2, <2>3
<1>12. index'.len = Cardinality(subscriptions') BY <1>0, <1>1, <1>8
<1>13. index'.len > 0 => index'.arr \in 1 .. Len(arrays') /\ index'.len <= Len(arrays'[index'.arr])
  BY <1>9 DEF b
<1> QED BY <1>0, <1>1, <1>10, <1>11, <1>12, <1>13 DEF IndexInv

-----------------------------------------------------------------------------
(* Types. *)

ReqTypes == [attrs : SUBSET Attrs, min : Nat, max : Nat]
SubTypes ==
    [attrs : SUBSET Attrs, min : Nat, max : Nat, lastNotified : 0 .. MaxAge,
     lastValues : Maps, pending : Maps, window : 0 .. MaxAge,
     hasChanges : BOOLEAN, active : BOOLEAN]
ReaderTypes ==
    [at : {"idle"} \cup Subscribing \cup Unsubscribing, req : ReqTypes,
     values : Maps, id : 0 .. MaxIds]
WriterTypes ==
    [at : {"idle"}] \cup [at : {"set"}, attr : Attrs, value : Values]
    \cup [at : {"notify"}, attr : Attrs, value : Values, arr : Nat, len : Nat, pos : Nat]
LoopTypes ==
    [at : {"idle", "next", "beat", "lookup", "send"}, todo : SUBSET Ids,
     id : 0 .. MaxIds, msg : Maps, beat : BOOLEAN]

\* The reader, and what its place says of the subscription it makes.
ReaderInv ==
    /\ reader \in ReaderTypes
    /\ reader.at \in {"received", "reading"} => lastId < MaxIds
    /\ reader.at \in Subscribing => reader.req.max > 0 /\ reader.req.max < MaxAge
    /\ reader.at \in {"prime", "map", "respond"} =>
          /\ reader.id = lastId /\ lastId \in Ids
          /\ DOMAIN reader.values = Wanted(reader.req.attrs)
    /\ reader.at \in Unsubscribing => reader.id \in Ids

\* A writer's slice lies in its array and names subscriptions, of now or earlier.
WriterInv ==
    /\ val \in [Attrs -> Values] /\ writes \in 0 .. MaxWrites
    /\ writer \in [Writers -> WriterTypes]
    /\ \A w \in Writers : writer[w].at = "notify" =>
          /\ writer[w].arr \in 1 .. Len(arrays) /\ writer[w].pos \in 1 .. writer[w].len
          /\ writer[w].len <= Len(arrays[writer[w].arr])
          /\ \A k \in 1 .. writer[w].len : arrays[writer[w].arr][k] \in 1 .. lastId

LoopInv ==
    /\ loop \in LoopTypes
    /\ loop.at \in {"beat", "lookup", "send"} => loop.id \in Ids
    /\ due \in BOOLEAN /\ closing \in {"open", "closed", "stopped", "unregistered"}

DispatcherInv ==
    subscriptionMap \subseteq 1 .. lastId /\ conn \in [up : BOOLEAN, ids : SUBSET (1 .. lastId)]

ObservedInv ==
    /\ acked \subseteq Ids /\ bounced \subseteq Ids /\ view \in [Ids -> Maps]
    /\ silence \in [Ids -> 0 .. MaxAge] /\ gap \in [Ids -> 0 .. MaxAge]

Typed ==
    /\ IndexInv /\ sub \in [Ids -> SubTypes]
    /\ ReaderInv /\ WriterInv /\ LoopInv /\ DispatcherInv /\ ObservedInv

\* What [Next]_vars is made of.
LEMMA StepCases ==
    ASSUME [Next]_vars
    PROVE  \/ UNCHANGED vars \/ Reader \/ (\E w \in Writers : Writer(w))
           \/ (\E a \in Attrs, v \in Values : SetDirectly(a, v)) \/ Loop \/ Tick \/ Closer
BY DEF Next

\* The two changes of the manager's book-keeping.
Created ==
    /\ reader.at = "reading" /\ DOMAIN reader.values = Wanted(reader.req.attrs)
    /\ ~(reader.req.min > reader.req.max) /\ ~(Cardinality(subscriptions) >= MaxSubscriptions)
    /\ lastId' = lastId + 1
    /\ sub' = [sub EXCEPT ![lastId + 1] = NewSubscription(reader.req, reader.values)]
    /\ subscriptions' = subscriptions \cup {lastId'}
    /\ AppendToIndex(lastId')
    /\ reader' = [reader EXCEPT !.at = "prime", !.id = lastId']
    /\ UNCHANGED <<feature, dispatcher, writer, loop, closing, due, observed>>

Removed(id) ==
    /\ id \in subscriptions /\ sub' = [sub EXCEPT ![id] = Unused]
    /\ subscriptions' = subscriptions \ {id}
    /\ RemoveFromIndex(id)
    /\ UNCHANGED <<lastId, feature, writer, loop, due>>

RemovedBy(id) == Removed(id) /\ (UnsubscribeCopied(id) \/ (Unmanage /\ reader.id = id))

\* The manager and the index change where a subscription is made or removed, only there.
LEMMA ManagerStep ==
    ASSUME Typed, [Next]_vars
    PROVE  \/ UNCHANGED manager
           \/ Subscribe /\ Created
           \/ \E id \in subscriptions : RemovedBy(id)
<1>1. CASE UNCHANGED vars BY <1>1 DEF vars
<1>2. CASE Reader
  <2>1. CASE Subscribe
    <3>1. UNCHANGED manager \/ Created BY <2>1 DEF Subscribe, Created
    <3> QED BY <2>1, <3>1
  <2>2. CASE Unmanage
    <3>1. UNCHANGED <<lastId, feature, writer, loop, due>> BY <2>2 DEF Unmanage
    <3>2. UNCHANGED <<subscriptions, arrays, index>> \/ (reader.id \in subscriptions /\ Removed(reader.id))
      BY <2>2, <3>1 DEF Unmanage, Unsubscribe, Removed
    <3> QED BY <2>2, <3>1, <3>2 DEF manager, RemovedBy
  <2>3. ASSUME NEW r \in Requests, ReceiveSubscribe(r) PROVE UNCHANGED manager
    BY <2>3 DEF ReceiveSubscribe
  <2>4. ASSUME NEW a \in Attrs, ReadCurrent(a) PROVE UNCHANGED manager BY <2>4 DEF ReadCurrent
  <2>5. ASSUME NEW i \in Ids, ReceiveUnsubscribe(i) PROVE UNCHANGED manager
    BY <2>5 DEF ReceiveUnsubscribe
  <2>6. CASE FindConnection \/ Prime \/ MapSubscription \/ Respond \/ HandleUnsubscribe
    BY <2>6 DEF FindConnection, Prime, MapSubscription, Respond, HandleUnsubscribe
  <2> QED BY <1>2, <2>1, <2>2, <2>3, <2>4, <2>5, <2>6 DEF Reader
<1>3. ASSUME NEW w \in Writers, Writer(w) PROVE UNCHANGED manager
  BY <1>3 DEF Writer, SetAttribute, TakeSlice, NotifyOne
<1>4. ASSUME NEW a \in Attrs, NEW v \in Values, SetDirectly(a, v) PROVE UNCHANGED manager
  BY <1>4 DEF SetDirectly
<1>5. CASE Loop
  BY <1>5 DEF Loop, StartPass, GetPendingNotification, Heartbeat, LookupConnection, Send
<1>6. CASE Tick BY <1>6 DEF Tick
<1>7. CASE Closer
  <2>1. CASE Close \/ StopDispatcher \/ UnregisterConnection
    BY <2>1 DEF Close, StopDispatcher, UnregisterConnection
  <2>2. ASSUME NEW i \in Ids, UnsubscribeCopied(i)
        PROVE  UNCHANGED manager \/ (i \in subscriptions /\ Removed(i))
    <3>1. UNCHANGED <<lastId, feature, writer, loop, due>> BY <2>2 DEF UnsubscribeCopied
    <3> QED BY <2>2, <3>1 DEF UnsubscribeCopied, Unsubscribe, Removed, manager
  <2> QED BY <1>7, <2>1, <2>2 DEF Closer, RemovedBy
<1> QED BY <1>1, <1>2, <1>3, <1>4, <1>5, <1>6, <1>7, StepCases

\* The index stays consistent, and arrays that writers hold stay readable.
LEMMA NextIndex ==
    ASSUME Typed, [Next]_vars
    PROVE  IndexInv' /\ lastId <= lastId' /\ (UNCHANGED arrays \/ KeepsArrays(1 .. lastId'))
<1>0. IndexInv /\ lastId \in Nat /\ subscriptions \subseteq 1 .. lastId
  <2>1. IndexInv BY DEF Typed
  <2> QED BY <2>1 DEF IndexInv
<1>1. ASSUME UNCHANGED manager PROVE IndexInv' /\ lastId <= lastId' /\ UNCHANGED arrays
  <2>1. UNCHANGED <<lastId, subscriptions, arrays, index>> BY <1>1 DEF manager
  <2>2. IndexInv' BY <1>0, <2>1 DEF IndexInv
  <2> QED BY <1>0, <2>1, <2>2
<1>2. ASSUME Created PROVE IndexInv' /\ lastId <= lastId' /\ KeepsArrays(1 .. lastId')
  <2>1. lastId < MaxIds BY <1>2 DEF Created, Typed, ReaderInv
  <2>2. /\ lastId' = lastId + 1 /\ subscriptions' = subscriptions \cup {lastId'}
        /\ AppendToIndex(lastId')
    BY <1>2 DEF Created
  <2>3. IndexInv' /\ KeepsArrays(subscriptions') BY <1>0, <2>1, <2>2, AppendIndex
  <2>4. subscriptions' \subseteq 1 .. lastId' BY <2>3 DEF IndexInv
  <2>5. KeepsArrays(1 .. lastId') BY <2>3, <2>4 DEF KeepsArrays
  <2> QED BY <1>0, <2>2, <2>3, <2>5
<1>3. ASSUME NEW id \in subscriptions, Removed(id)
      PROVE  IndexInv' /\ lastId <= lastId' /\ KeepsArrays(1 .. lastId')
  <2>1. /\ lastId' = lastId /\ subscriptions' = subscriptions \ {id}
        /\ RemoveFromIndex(id)
    BY <1>3 DEF Removed
  <2>2. IndexInv' /\ KeepsArrays(subscriptions) BY <1>0, <2>1, RemoveIndex
  <2>3. KeepsArrays(1 .. lastId') BY <1>0, <2>1, <2>2 DEF KeepsArrays
  <2> QED BY <1>0, <2>1, <2>2, <2>3
<1>4. ASSUME NEW id \in subscriptions, RemovedBy(id)
      PROVE  IndexInv' /\ lastId <= lastId' /\ KeepsArrays(1 .. lastId')
  BY <1>3, <1>4 DEF RemovedBy
<1> QED BY <1>1, <1>2, <1>4, ManagerStep, Zenon

\* Who moves the reader, the writers, the loop and what the controller sees.
LEMMA ReaderStep ==
    ASSUME Typed, [Next]_vars
    PROVE  UNCHANGED <<reader, lastId, acked>> \/ Reader
<1>1. CASE UNCHANGED vars BY <1>1 DEF vars, manager, observed
<1>2. ASSUME NEW w \in Writers, Writer(w) PROVE UNCHANGED <<reader, lastId, acked>>
  BY <1>2 DEF Writer, SetAttribute, TakeSlice, NotifyOne, manager, observed
<1>3. ASSUME NEW a \in Attrs, NEW v \in Values, SetDirectly(a, v)
      PROVE  UNCHANGED <<reader, lastId, acked>>
  BY <1>3 DEF SetDirectly, manager, observed
<1>4. CASE Loop
  <2>1. CASE StartPass BY <2>1 DEF StartPass, manager, observed
  <2>2. ASSUME NEW i \in Ids, GetPendingNotification(i) PROVE UNCHANGED <<reader, lastId, acked>>
    BY <2>2 DEF GetPendingNotification, manager
  <2>3. CASE Heartbeat \/ LookupConnection \/ Send
    BY <2>3 DEF Heartbeat, LookupConnection, Send, manager, observed
  <2> QED BY <1>4, <2>1, <2>2, <2>3 DEF Loop
<1>5. CASE Tick BY <1>5 DEF Tick, manager
<1>6. CASE Closer
  <2>1. CASE Close \/ StopDispatcher \/ UnregisterConnection
    BY <2>1 DEF Close, StopDispatcher, UnregisterConnection, manager, observed
  <2>2. ASSUME NEW i \in Ids, UnsubscribeCopied(i) PROVE UNCHANGED <<reader, lastId, acked>>
    BY <2>2 DEF UnsubscribeCopied, observed
  <2> QED BY <1>6, <2>1, <2>2 DEF Closer
<1> QED BY <1>1, <1>2, <1>3, <1>4, <1>5, <1>6, StepCases

\* Values and writers change in the writers' steps and direct writes, only there.
LEMMA WriterStep ==
    ASSUME Typed, [Next]_vars
    PROVE  \/ UNCHANGED <<val, writes, writer>>
           \/ \E w \in Writers : Writer(w)
           \/ \E a \in Attrs, v \in Values : SetDirectly(a, v)
<1>1. CASE UNCHANGED vars BY <1>1 DEF vars, feature
<1>2. CASE Reader
  <2>1. ASSUME NEW r \in Requests, ReceiveSubscribe(r) PROVE UNCHANGED <<val, writes, writer>>
    BY <2>1 DEF ReceiveSubscribe, feature
  <2>2. ASSUME NEW a \in Attrs, ReadCurrent(a) PROVE UNCHANGED <<val, writes, writer>>
    BY <2>2 DEF ReadCurrent, feature
  <2>3. ASSUME NEW i \in Ids, ReceiveUnsubscribe(i) PROVE UNCHANGED <<val, writes, writer>>
    BY <2>3 DEF ReceiveUnsubscribe, feature
  <2>4. CASE FindConnection \/ Subscribe \/ Prime \/ MapSubscription
    BY <2>4 DEF FindConnection, Subscribe, Prime, MapSubscription, feature
  <2>5. CASE Respond \/ HandleUnsubscribe \/ Unmanage
    BY <2>5 DEF Respond, HandleUnsubscribe, Unmanage, feature
  <2> QED BY <1>2, <2>1, <2>2, <2>3, <2>4, <2>5 DEF Reader
<1>3. CASE Loop
  BY <1>3 DEF Loop, StartPass, GetPendingNotification, Heartbeat, LookupConnection, Send, feature
<1>4. CASE Tick BY <1>4 DEF Tick, feature
<1>5. CASE Closer
  BY <1>5 DEF Closer, Close, StopDispatcher, UnregisterConnection, UnsubscribeCopied, feature
<1> QED BY <1>1, <1>2, <1>3, <1>4, <1>5, StepCases

\* The loop, its tick and the session's end change in their own steps, only there.
LEMMA LoopStep ==
    ASSUME Typed, [Next]_vars
    PROVE  UNCHANGED <<loop, due, closing>> \/ Loop \/ Tick \/ Closer
<1>1. CASE UNCHANGED vars BY <1>1 DEF vars
<1>2. CASE Reader
  <2>1. ASSUME NEW r \in Requests, ReceiveSubscribe(r) PROVE UNCHANGED <<loop, due, closing>>
    BY <2>1 DEF ReceiveSubscribe
  <2>2. ASSUME NEW a \in Attrs, ReadCurrent(a) PROVE UNCHANGED <<loop, due, closing>>
    BY <2>2 DEF ReadCurrent
  <2>3. ASSUME NEW i \in Ids, ReceiveUnsubscribe(i) PROVE UNCHANGED <<loop, due, closing>>
    BY <2>3 DEF ReceiveUnsubscribe
  <2>4. CASE FindConnection \/ Subscribe \/ Prime \/ MapSubscription
    BY <2>4 DEF FindConnection, Subscribe, Prime, MapSubscription
  <2>5. CASE Respond \/ HandleUnsubscribe \/ Unmanage
    BY <2>5 DEF Respond, HandleUnsubscribe, Unmanage
  <2> QED BY <1>2, <2>1, <2>2, <2>3, <2>4, <2>5 DEF Reader
<1>3. ASSUME NEW w \in Writers, Writer(w) PROVE UNCHANGED <<loop, due, closing>>
  BY <1>3 DEF Writer, SetAttribute, TakeSlice, NotifyOne
<1>4. ASSUME NEW a \in Attrs, NEW v \in Values, SetDirectly(a, v)
      PROVE  UNCHANGED <<loop, due, closing>>
  BY <1>4 DEF SetDirectly
<1> QED BY <1>1, <1>2, <1>3, <1>4, StepCases

\* The records the goroutines start from.
LEMMA StartTypes ==
    /\ IdleReader \in ReaderTypes /\ IdleReader.at = "idle"
    /\ IdleLoop \in LoopTypes /\ IdleLoop.at = "idle" /\ IdleLoop.todo = {}
    /\ Unused \in SubTypes /\ Unused.active = FALSE
<1>1. IdleReader \in ReaderTypes /\ IdleReader.at = "idle"
  BY EmptyMap DEF IdleReader, ReaderTypes, ReqTypes
<1>2. IdleLoop \in LoopTypes /\ IdleLoop.at = "idle" /\ IdleLoop.todo = {}
  BY EmptyMap DEF IdleLoop, LoopTypes
<1>3. Unused \in SubTypes /\ Unused.active = FALSE
  <2> DEFINE s == NewSubscription([attrs |-> {}, min |-> 0, max |-> 0], Empty)
  <2>1. s \in SubTypes
    BY EmptyMap DEF SubTypes, NewSubscription, Wanted, ConstantsAssumption
  <2> HIDE DEF s
  <2>2. Unused = [s EXCEPT !.active = FALSE] BY DEF Unused, s
  <2> QED BY <2>1, <2>2 DEF SubTypes
<1> QED BY <1>1, <1>2, <1>3

\* A new Subscription.
LEMMA NewTypes ==
    ASSUME NEW r \in ReqTypes, NEW m \in Maps
    PROVE  /\ NewSubscription(r, m) \in SubTypes
           /\ NewSubscription(r, m).active /\ ~ NewSubscription(r, m).hasChanges
           /\ NewSubscription(r, m).attrs = Wanted(r.attrs)
           /\ NewSubscription(r, m).max = r.max /\ NewSubscription(r, m).lastNotified = 0
           /\ NewSubscription(r, m).lastValues = m /\ NewSubscription(r, m).pending = Empty
BY EmptyMap DEF NewSubscription, SubTypes, ReqTypes, Wanted

\* The reader's place and request keep their types.
LEMMA ReaderTyped ==
    ASSUME Typed, [Next]_vars
    PROVE  ReaderInv'
<1>0. ReaderInv /\ lastId \in 0 .. MaxIds /\ val \in [Attrs -> Values]
  BY DEF Typed, IndexInv, WriterInv
<1>01. reader \in ReaderTypes BY <1>0 DEF ReaderInv
<1>1. CASE UNCHANGED <<reader, lastId, acked>> BY <1>0, <1>1 DEF ReaderInv
<1>2. ASSUME NEW r \in Requests, ReceiveSubscribe(r) PROVE ReaderInv'
  <2> DEFINE q == [attrs |-> r.attrs, min |-> IF r.min > 0 THEN r.min ELSE DefaultMin,
                   max |-> IF r.max > 0 THEN r.max ELSE DefaultMax]
  <2>1. reader' = [IdleReader EXCEPT !.at = "received", !.req = q] /\ lastId < MaxIds /\ lastId' = lastId
    BY <1>2 DEF ReceiveSubscribe, manager
  <2>2. r.attrs \in SUBSET Attrs /\ r.min \in Nat /\ r.max \in Nat /\ r.max < MaxAge
    BY DEF ConstantsAssumption
  <2>3. q \in ReqTypes /\ q.max > 0 /\ q.max < MaxAge
    BY <2>2 DEF ReqTypes, ConstantsAssumption
  <2> HIDE DEF q
  <2>4. reader' \in ReaderTypes /\ reader'.at = "received" /\ reader'.req = q
    BY <2>1, <2>3, StartTypes DEF ReaderTypes, Subscribing
  <2> QED BY <2>1, <2>3, <2>4 DEF ReaderInv, Unsubscribing
<1>3. CASE FindConnection
  <2>1. /\ reader.at = "received" /\ UNCHANGED lastId
        /\ reader' = [reader EXCEPT !.at = "reading"] \/ reader' = IdleReader
    BY <1>3 DEF FindConnection, manager
  <2>2. CASE reader' = [reader EXCEPT !.at = "reading"]
    <3>1. reader' \in ReaderTypes /\ reader'.at = "reading" /\ reader'.req = reader.req
      BY <1>01, <2>2 DEF ReaderTypes, Subscribing
    <3> QED BY <1>0, <2>1, <3>1 DEF ReaderInv, Subscribing, Unsubscribing
  <2>3. CASE reader' = IdleReader BY <2>3, StartTypes DEF ReaderInv, Subscribing, Unsubscribing
  <2> QED BY <2>1, <2>2, <2>3
<1>4. ASSUME NEW a \in Attrs, ReadCurrent(a) PROVE ReaderInv'
  <2>1. /\ reader.at = "reading" /\ UNCHANGED lastId
        /\ reader' = [reader EXCEPT !.values = Update(reader.values, [b \in {a} |-> val[a]])]
    BY <1>4 DEF ReadCurrent, manager
  <2>2. reader.values \in Maps BY <1>01 DEF ReaderTypes
  <2>3. Update(reader.values, [b \in {a} |-> val[a]]) \in Maps
    BY <1>0, <2>2, UpdateMap, SingleMap
  <2>4. reader' \in ReaderTypes /\ reader'.at = reader.at /\ reader'.req = reader.req
    BY <1>01, <2>1, <2>3 DEF ReaderTypes
  <2> QED BY <1>0, <2>1, <2>4 DEF ReaderInv, Subscribing, Unsubscribing
<1>5. CASE Subscribe
  <2>1. CASE Created
    <3>1. /\ reader.at = "reading" /\ lastId' = lastId + 1
          /\ DOMAIN reader.values = Wanted(reader.req.attrs)
          /\ reader' = [reader EXCEPT !.at = "prime", !.id = lastId']
      BY <2>1 DEF Created
    <3>2. lastId' \in Ids /\ lastId' \in 0 .. MaxIds BY <1>0, <3>1 DEF ReaderInv, Ids
    <3>3. /\ reader' \in ReaderTypes /\ reader'.at = "prime" /\ reader'.id = lastId'
          /\ reader'.req = reader.req /\ reader'.values = reader.values
      BY <1>01, <3>1, <3>2 DEF ReaderTypes, Subscribing
    <3> QED BY <1>0, <3>1, <3>2, <3>3 DEF ReaderInv, Subscribing, Unsubscribing
  <2>2. CASE reader' = IdleReader BY <2>2, StartTypes DEF ReaderInv, Subscribing, Unsubscribing
  <2> QED BY <1>5, <2>1, <2>2 DEF Subscribe, Created
<1>6. CASE Prime \/ MapSubscription
  <2>1. /\ reader.at \in {"prime", "map"} /\ UNCHANGED lastId
        /\ reader' = [reader EXCEPT !.at = "map"] \/ reader' = [reader EXCEPT !.at = "respond"]
    BY <1>6 DEF Prime, MapSubscription, manager
  <2>2. /\ reader' \in ReaderTypes /\ reader'.at \in {"map", "respond"} /\ reader'.id = reader.id
        /\ reader'.req = reader.req /\ reader'.values = reader.values
    BY <1>01, <2>1 DEF ReaderTypes, Subscribing
  <2> QED BY <1>0, <2>1, <2>2 DEF ReaderInv, Subscribing, Unsubscribing
<1>7. CASE Respond \/ Unmanage
  <2>1. reader' = IdleReader BY <1>7 DEF Respond, Unmanage
  <2> QED BY <2>1, StartTypes DEF ReaderInv, Subscribing, Unsubscribing
<1>8. ASSUME NEW i \in Ids, ReceiveUnsubscribe(i) PROVE ReaderInv'
  <2>1. reader' = [IdleReader EXCEPT !.at = "unsubscribe", !.id = i]
    BY <1>8 DEF ReceiveUnsubscribe
  <2>2. i \in 0 .. MaxIds BY DEF Ids
  <2>3. reader' \in ReaderTypes /\ reader'.at = "unsubscribe" /\ reader'.id = i
    BY <2>1, <2>2, StartTypes DEF ReaderTypes, Unsubscribing
  <2> QED BY <2>3 DEF ReaderInv, Subscribing, Unsubscribing
<1>9. CASE HandleUnsubscribe
  <2>1. /\ reader.at = "unsubscribe"
        /\ reader' = [reader EXCEPT !.at = "unmanage"] \/ reader' = IdleReader
    BY <1>9 DEF HandleUnsubscribe
  <2>2. CASE reader' = [reader EXCEPT !.at = "unmanage"]
    <3>1. reader' \in ReaderTypes /\ reader'.at = "unmanage" /\ reader'.id = reader.id
      BY <1>01, <2>2 DEF ReaderTypes, Unsubscribing
    <3> QED BY <1>0, <2>1, <3>1 DEF ReaderInv, Subscribing, Unsubscribing
  <2>3. CASE reader' = IdleReader BY <2>3, StartTypes DEF ReaderInv, Subscribing, Unsubscribing
  <2> QED BY <2>1, <2>2, <2>3
<1> QED BY <1>1, <1>2, <1>3, <1>4, <1>5, <1>6, <1>7, <1>8, <1>9, ReaderStep DEF Reader

\* The writers' slices stay readable.
LEMMA WriterTyped ==
    ASSUME Typed, [Next]_vars
    PROVE  WriterInv'
<1>0. WriterInv /\ lastId \in Nat /\ IndexInv BY DEF Typed, IndexInv
<1>01. IndexInv' /\ lastId <= lastId' /\ (UNCHANGED arrays \/ KeepsArrays(1 .. lastId')) BY NextIndex
<1>02. lastId' \in Nat BY <1>01 DEF IndexInv
<1> DEFINE Fits(c) == /\ c.arr \in 1 .. Len(arrays) /\ c.pos \in 1 .. c.len
                      /\ c.len <= Len(arrays[c.arr])
                      /\ \A k \in 1 .. c.len : arrays[c.arr][k] \in 1 .. lastId
       FitsNext(c) == /\ c.arr \in 1 .. Len(arrays') /\ c.pos \in 1 .. c.len
                      /\ c.len <= Len(arrays'[c.arr])
                      /\ \A k \in 1 .. c.len : arrays'[c.arr][k] \in 1 .. lastId'
<1>03. ASSUME NEW c \in WriterTypes, c.at = "notify", Fits(c) PROVE FitsNext(c)
  <2>1. c.arr \in Nat /\ c.len \in Nat BY <1>03 DEF WriterTypes
  <2>2. CASE UNCHANGED arrays BY <1>0, <1>01, <1>02, <1>03, <2>1, <2>2
  <2>3. CASE KeepsArrays(1 .. lastId')
    <3>1. /\ c.arr \in 1 .. Len(arrays') /\ Len(arrays'[c.arr]) = Len(arrays[c.arr])
          /\ \A k \in 1 .. Len(arrays[c.arr]) : \/ arrays'[c.arr][k] = arrays[c.arr][k]
                                                \/ arrays'[c.arr][k] \in 1 .. lastId'
      BY <1>03, <2>3 DEF KeepsArrays
    <3>2. arrays[c.arr] \in Seq(0 .. MaxIds) BY <1>0, <1>03 DEF IndexInv
    <3>3. Len(arrays[c.arr]) \in Nat BY <3>2
    <3>4. \A k \in 1 .. c.len : k \in 1 .. Len(arrays[c.arr]) BY <1>03, <2>1, <3>3
    <3>5. \A x \in 1 .. lastId : x \in 1 .. lastId' BY <1>0, <1>01, <1>02
    <3> QED BY <1>03, <3>1, <3>4, <3>5
  <2> QED BY <1>01, <2>2, <2>3
<1>04. writer \in [Writers -> WriterTypes]
      /\ \A w \in Writers : writer[w].at = "notify" => Fits(writer[w])
  BY <1>0 DEF WriterInv
<1> HIDE DEF Fits, FitsNext
<1>05. \A w \in Writers : writer[w].at = "notify" => FitsNext(writer[w]) BY <1>03, <1>04
<1>06. ASSUME NEW w \in Writers, NEW c \in WriterTypes, writer' = [writer EXCEPT ![w] = c],
              c.at = "notify" => FitsNext(c),
              val' \in [Attrs -> Values], writes' \in 0 .. MaxWrites
       PROVE  WriterInv'
  <2>1. writer' \in [Writers -> WriterTypes] BY <1>04, <1>06
  <2>2. \A x \in Writers : writer'[x] = IF x = w THEN c ELSE writer[x] BY <1>04, <1>06
  <2>3. \A x \in Writers : writer'[x].at = "notify" => FitsNext(writer[x]) \/ x = w
    BY <1>05, <2>2
  <2> QED BY <1>06, <2>1, <2>2, <2>3 DEF WriterInv, FitsNext
<1>1. CASE UNCHANGED <<val, writes, writer>> BY <1>0, <1>05, <1>1 DEF WriterInv, FitsNext
<1>2. ASSUME NEW w \in Writers, NEW a \in Attrs, NEW v \in Values, SetAttribute(w, a, v)
      PROVE  WriterInv'
  <2>1. /\ val' = [val EXCEPT ![a] = v] /\ writes' = writes + 1 /\ writes < MaxWrites
        /\ writer' = [writer EXCEPT ![w] = [at |-> "set", attr |-> a, value |-> v]]
    BY <1>2 DEF SetAttribute
  <2>2. val' \in [Attrs -> Values] /\ writes' \in 0 .. MaxWrites
    BY <1>0, <2>1 DEF WriterInv, ConstantsAssumption
  <2>3. [at |-> "set", attr |-> a, value |-> v] \in WriterTypes BY DEF WriterTypes
  <2> QED BY <1>06, <2>1, <2>2, <2>3
<1>3. ASSUME NEW w \in Writers, TakeSlice(w) PROVE WriterInv'
  <2> DEFINE c == [at |-> "notify", attr |-> writer[w].attr, value |-> writer[w].value,
                   arr |-> index.arr, len |-> index.len, pos |-> 1]
  <2>1. /\ writer[w].at = "set" /\ UNCHANGED <<val, writes, arrays, index, lastId, subscriptions>>
        /\ writer' = [writer EXCEPT ![w] = IF index.len = 0 THEN [at |-> "idle"] ELSE c]
    BY <1>3 DEF TakeSlice, feature, manager
  <2>2. val' \in [Attrs -> Values] /\ writes' \in 0 .. MaxWrites BY <1>0, <2>1 DEF WriterInv
  <2>3. CASE index.len = 0
    <3>1. [at |-> "idle"] \in WriterTypes BY DEF WriterTypes
    <3> QED BY <1>06, <2>1, <2>2, <2>3, <3>1
  <2>4. CASE index.len # 0
    <3>1. writer[w].attr \in Attrs /\ writer[w].value \in Values BY <1>04, <2>1 DEF WriterTypes
    <3>2. index.arr \in Nat /\ index.len \in Nat BY <1>0 DEF IndexInv
    <3>3. c \in WriterTypes BY <3>1, <3>2 DEF WriterTypes
    <3>4. /\ index.arr \in 1 .. Len(arrays) /\ index.len <= Len(arrays[index.arr])
          /\ \A k \in 1 .. index.len : arrays[index.arr][k] \in 1 .. lastId
      BY <1>0, <2>4, <3>2 DEF IndexInv
    <3>5. 1 \in 1 .. index.len BY <2>4, <3>2
    <3>6. FitsNext(c) BY <2>1, <3>4, <3>5 DEF FitsNext
    <3> HIDE DEF c
    <3> QED BY <1>06, <2>1, <2>2, <2>4, <3>3, <3>6
  <2> QED BY <2>3, <2>4
<1>4. ASSUME NEW w \in Writers, NotifyOne(w) PROVE WriterInv'
  <2> DEFINE c == [writer[w] EXCEPT !.pos = writer[w].pos + 1]
  <2>1. /\ writer[w].at = "notify" /\ UNCHANGED <<val, writes, arrays, lastId>>
        /\ writer' = [writer EXCEPT ![w] = IF writer[w].pos = writer[w].len THEN [at |-> "idle"] ELSE c]
    BY <1>4 DEF NotifyOne, feature, manager
  <2>2. val' \in [Attrs -> Values] /\ writes' \in 0 .. MaxWrites BY <1>0, <2>1 DEF WriterInv
  <2>3. CASE writer[w].pos = writer[w].len
    <3>1. [at |-> "idle"] \in WriterTypes BY DEF WriterTypes
    <3> QED BY <1>06, <2>1, <2>2, <2>3, <3>1
  <2>4. CASE writer[w].pos # writer[w].len
    <3>1. writer[w] \in [at : {"notify"}, attr : Attrs, value : Values, arr : Nat, len : Nat, pos : Nat]
      BY <1>04, <2>1 DEF WriterTypes
    <3>2. /\ c \in WriterTypes /\ c.arr = writer[w].arr /\ c.len = writer[w].len
          /\ c.pos = writer[w].pos + 1
      BY <3>1 DEF WriterTypes
    <3>3. FitsNext(writer[w]) BY <1>05, <2>1
    <3>4. writer[w].pos \in 1 .. writer[w].len /\ writer[w].len \in Nat BY <3>1, <3>3 DEF FitsNext
    <3>5. writer[w].pos + 1 \in 1 .. writer[w].len BY <2>4, <3>4
    <3> HIDE DEF c
    <3>6. FitsNext(c) BY <3>2, <3>3, <3>5 DEF FitsNext
    <3> QED BY <1>06, <2>1, <2>2, <2>4, <3>2, <3>6
  <2> QED BY <2>3, <2>4
<1>5. ASSUME NEW a \in Attrs, NEW v \in Values, SetDirectly(a, v) PROVE WriterInv'
  <2>1. /\ val' = [val EXCEPT ![a] = v] /\ writes' = writes + 1 /\ writes < MaxWrites
        /\ writer' = writer
    BY <1>5 DEF SetDirectly
  <2>2. val' \in [Attrs -> Values] /\ writes' \in 0 .. MaxWrites
    BY <1>0, <2>1 DEF WriterInv, ConstantsAssumption
  <2> QED BY <1>0, <1>05, <2>1, <2>2 DEF WriterInv, FitsNext
<1> QED BY <1>1, <1>2, <1>3, <1>4, <1>5, WriterStep DEF Writer

\* The loop's messages, and the flags of ticker and Close.
LEMMA LoopTyped ==
    ASSUME Typed, [Next]_vars
    PROVE  LoopInv'
<1>0. LoopInv /\ loop \in LoopTypes /\ sub \in [Ids -> SubTypes] /\ subscriptions \subseteq Ids
  BY DEF Typed, LoopInv, IndexInv, Ids
<1>1. CASE UNCHANGED <<loop, due, closing>> BY <1>0, <1>1 DEF LoopInv
<1>2. NextSubscription \in LoopTypes /\ NextSubscription.at \in {"idle", "next"}
  <2>1. loop.todo \ {loop.id} \in SUBSET Ids BY <1>0 DEF LoopTypes
  <2> QED BY <2>1, StartTypes DEF NextSubscription, LoopTypes
<1>3. AfterMessage \in LoopTypes /\ AfterMessage.at \in {"idle", "next", "beat"}
      /\ (AfterMessage.at = "beat" => AfterMessage.id = loop.id)
  <2>1. /\ [loop EXCEPT !.at = "beat", !.msg = Empty] \in LoopTypes
        /\ [loop EXCEPT !.at = "beat", !.msg = Empty].at = "beat"
        /\ [loop EXCEPT !.at = "beat", !.msg = Empty].id = loop.id
    BY <1>0, EmptyMap DEF LoopTypes
  <2> QED BY <1>2, <2>1 DEF AfterMessage
<1>4. CASE StartPass
  <2>1. /\ due' = FALSE /\ UNCHANGED closing
        /\ loop' = IdleLoop \/ loop' = [IdleLoop EXCEPT !.at = "next", !.todo = subscriptions]
    BY <1>4 DEF StartPass
  <2>2. loop' \in LoopTypes /\ loop'.at \in {"idle", "next"}
    BY <1>0, <2>1, StartTypes DEF LoopTypes
  <2> QED BY <1>0, <2>1, <2>2 DEF LoopInv
<1>5. ASSUME NEW i \in Ids, GetPendingNotification(i) PROVE LoopInv'
  <2> DEFINE s == sub[i]
             news == {a \in DOMAIN s.pending :
                        ~ (a \in DOMAIN s.lastValues /\ ValuesEqual(s.lastValues[a], s.pending[a]))}
             m == [a \in news |-> s.pending[a]]
  <2>1. /\ UNCHANGED <<due, closing>>
        /\ \/ loop' = [loop EXCEPT !.at = "beat", !.id = i]
           \/ loop' = [loop EXCEPT !.at = "lookup", !.id = i, !.msg = m, !.beat = FALSE]
    BY <1>5 DEF GetPendingNotification
  <2>2. s.pending \in Maps BY <1>0 DEF SubTypes
  <2>3. m \in Maps BY <2>2, PartMap
  <2>4. i \in 0 .. MaxIds BY DEF Ids
  <2> HIDE DEF m
  <2>5. loop' \in LoopTypes /\ loop'.id = i BY <1>0, <2>1, <2>3, <2>4 DEF LoopTypes
  <2> QED BY <1>0, <2>1, <2>5 DEF LoopInv
<1>6. CASE Heartbeat
  <2>1. /\ loop.at = "beat" /\ UNCHANGED <<due, closing>>
        /\ \/ loop' = [loop EXCEPT !.at = "lookup", !.msg = sub[loop.id].lastValues, !.beat = TRUE]
           \/ loop' = NextSubscription
    BY <1>6 DEF Heartbeat
  <2>2. loop.id \in Ids BY <1>0, <2>1 DEF LoopInv
  <2>3. CASE loop' = [loop EXCEPT !.at = "lookup", !.msg = sub[loop.id].lastValues, !.beat = TRUE]
    <3>1. sub[loop.id].lastValues \in Maps BY <1>0, <2>2 DEF SubTypes
    <3>2. loop' \in LoopTypes /\ loop'.id = loop.id BY <1>0, <2>3, <3>1 DEF LoopTypes
    <3> QED BY <1>0, <2>1, <2>2, <3>2 DEF LoopInv
  <2>4. CASE loop' = NextSubscription BY <1>0, <1>2, <2>1, <2>4 DEF LoopInv
  <2> QED BY <2>1, <2>3, <2>4
<1>7. CASE LookupConnection \/ Send
  <2>1. /\ loop.at \in {"lookup", "send"} /\ UNCHANGED <<due, closing>>
        /\ loop' = [loop EXCEPT !.at = "send"] \/ loop' = AfterMessage
    BY <1>7 DEF LookupConnection, Send
  <2>2. loop.id \in Ids BY <1>0, <2>1 DEF LoopInv
  <2>3. CASE loop' = [loop EXCEPT !.at = "send"]
    <3>1. loop' \in LoopTypes /\ loop'.id = loop.id BY <1>0, <2>3 DEF LoopTypes
    <3> QED BY <1>0, <2>1, <2>2, <3>1 DEF LoopInv
  <2>4. CASE loop' = AfterMessage BY <1>0, <1>3, <2>1, <2>2, <2>4 DEF LoopInv
  <2> QED BY <2>1, <2>3, <2>4
<1>8. CASE Tick BY <1>0, <1>8 DEF Tick, LoopInv
<1>9. CASE Closer
  <2>1. UNCHANGED <<loop, due>> /\ closing' \in {"open", "closed", "stopped", "unregistered"}
    BY <1>0, <1>9 DEF Closer, Close, StopDispatcher, UnregisterConnection, UnsubscribeCopied, LoopInv
  <2> QED BY <1>0, <2>1 DEF LoopInv
<1> QED BY <1>1, <1>4, <1>5, <1>6, <1>7, <1>8, <1>9, LoopStep DEF Loop

\* What happens to the Subscription objects.
LEMMA SubStep ==
    ASSUME Typed, [Next]_vars
    PROVE  \/ UNCHANGED <<sub, manager>>
           \/ Subscribe /\ Created
           \/ \E id \in subscriptions : RemovedBy(id)
           \/ \E w \in Writers : NotifyOne(w)
           \/ \E id \in Ids : GetPendingNotification(id)
           \/ Heartbeat \/ Tick
<1>1. CASE UNCHANGED vars BY <1>1 DEF vars
<1>2. CASE Reader
  <2>1. CASE Subscribe
    <3>1. UNCHANGED <<sub, manager>> \/ Created BY <2>1 DEF Subscribe, Created
    <3> QED BY <2>1, <3>1
  <2>2. CASE Unmanage
    <3>1. UNCHANGED <<lastId, feature, writer, loop, due>> BY <2>2 DEF Unmanage
    <3>2. \/ UNCHANGED <<sub, subscriptions, arrays, index>>
          \/ reader.id \in subscriptions /\ Removed(reader.id)
      BY <2>2, <3>1 DEF Unmanage, Unsubscribe, Removed
    <3> QED BY <2>2, <3>1, <3>2 DEF manager, RemovedBy
  <2>3. ASSUME NEW r \in Requests, ReceiveSubscribe(r) PROVE UNCHANGED <<sub, manager>>
    BY <2>3 DEF ReceiveSubscribe
  <2>4. ASSUME NEW a \in Attrs, ReadCurrent(a) PROVE UNCHANGED <<sub, manager>>
    BY <2>4 DEF ReadCurrent
  <2>5. ASSUME NEW i \in Ids, ReceiveUnsubscribe(i) PROVE UNCHANGED <<sub, manager>>
    BY <2>5 DEF ReceiveUnsubscribe
  <2>6. CASE FindConnection \/ Prime \/ MapSubscription \/ Respond \/ HandleUnsubscribe
    BY <2>6 DEF FindConnection, Prime, MapSubscription, Respond, HandleUnsubscribe
  <2> QED BY <1>2, <2>1, <2>2, <2>3, <2>4, <2>5, <2>6 DEF Reader
<1>3. ASSUME NEW w \in Writers, Writer(w) PROVE UNCHANGED <<sub, manager>> \/ NotifyOne(w)
  BY <1>3 DEF Writer, SetAttribute, TakeSlice
<1>4. ASSUME NEW a \in Attrs, NEW v \in Values, SetDirectly(a, v) PROVE UNCHANGED <<sub, manager>>
  BY <1>4 DEF SetDirectly
<1>5. CASE Loop
  <2>1. CASE StartPass \/ LookupConnection \/ Send
    BY <2>1 DEF StartPass, LookupConnection, Send
  <2> QED BY <1>5, <2>1 DEF Loop
<1>6. CASE Closer
  <2>1. CASE Close \/ StopDispatcher \/ UnregisterConnection
    BY <2>1 DEF Close, StopDispatcher, UnregisterConnection
  <2>2. ASSUME NEW i \in Ids, UnsubscribeCopied(i)
        PROVE  UNCHANGED <<sub, manager>> \/ (i \in subscriptions /\ Removed(i))
    <3>1. UNCHANGED <<lastId, feature, writer, loop, due>> BY <2>2 DEF UnsubscribeCopied
    <3> QED BY <2>2, <3>1 DEF UnsubscribeCopied, Unsubscribe, Removed, manager
  <2> QED BY <1>6, <2>1, <2>2 DEF Closer, RemovedBy
<1> QED BY <1>1, <1>2, <1>3, <1>4, <1>5, <1>6, StepCases

\* What each of them does to the objects, field by field.
Same(s, t) == /\ t.attrs = s.attrs /\ t.min = s.min /\ t.max = s.max /\ t.active = s.active
Others(id) == \A i \in Ids : i # id => sub'[i] = sub[i]

\* Subscribe makes an active object with the values read and no change.
LEMMA CreatedParts ==
    ASSUME Typed, Created
    PROVE  /\ lastId' \in Ids /\ lastId' = lastId + 1 /\ lastId' \notin subscriptions
           /\ sub' \in [Ids -> SubTypes] /\ Others(lastId') /\ sub'[lastId'].active
           /\ ~ sub'[lastId'].hasChanges /\ sub'[lastId'].attrs = DOMAIN reader.values
           /\ sub'[lastId'].max = reader.req.max /\ sub'[lastId'].lastNotified = 0
           /\ sub'[lastId'].lastValues = reader.values /\ sub'[lastId'].pending = Empty
<1>1. /\ reader \in ReaderTypes /\ sub \in [Ids -> SubTypes]
      /\ lastId \in 0 .. MaxIds /\ subscriptions \subseteq 1 .. lastId
      /\ reader.at = "reading" => lastId < MaxIds
  BY DEF Typed, ReaderInv, IndexInv
<1>2. /\ reader.at = "reading" /\ lastId' = lastId + 1
      /\ sub' = [sub EXCEPT ![lastId'] = NewSubscription(reader.req, reader.values)]
      /\ DOMAIN reader.values = Wanted(reader.req.attrs)
  BY DEF Created
<1>3. lastId' \in Ids /\ lastId' \notin subscriptions BY <1>1, <1>2 DEF Ids
<1>4. reader.req \in ReqTypes /\ reader.values \in Maps BY <1>1 DEF ReaderTypes
<1> DEFINE s == NewSubscription(reader.req, reader.values)
<1>5. /\ s \in SubTypes /\ s.active /\ ~ s.hasChanges /\ s.attrs = Wanted(reader.req.attrs)
      /\ s.max = reader.req.max /\ s.lastNotified = 0
      /\ s.lastValues = reader.values /\ s.pending = Empty
  BY <1>4, NewTypes
<1>6. sub' = [sub EXCEPT ![lastId'] = s] BY <1>2
<1> HIDE DEF s
<1>7. sub' \in [Ids -> SubTypes] /\ sub'[lastId'] = s /\ Others(lastId')
  BY <1>1, <1>3, <1>5, <1>6 DEF Others
<1> QED BY <1>2, <1>3, <1>5, <1>7

\* A removal ends one object and leaves the others alone.
LEMMA RemovedParts ==
    ASSUME Typed, NEW id \in subscriptions, Removed(id)
    PROVE  /\ id \in Ids /\ sub' \in [Ids -> SubTypes] /\ Others(id) /\ ~ sub'[id].active
           /\ subscriptions' = subscriptions \ {id}
<1>0. sub \in [Ids -> SubTypes] /\ subscriptions \subseteq 1 .. lastId /\ lastId \in 0 .. MaxIds
  BY DEF Typed, IndexInv
<1>1. sub \in [Ids -> SubTypes] /\ id \in Ids BY <1>0 DEF Ids
<1>2. sub' = [sub EXCEPT ![id] = Unused] /\ subscriptions' = subscriptions \ {id} BY DEF Removed
<1> QED BY <1>1, <1>2, StartTypes DEF Others

\* A writer records its change in one object, if the object has the attribute.
LEMMA NotifyParts ==
    ASSUME Typed, NEW w \in Writers, NotifyOne(w)
    PROVE  LET id == arrays[writer[w].arr][writer[w].pos]
               a == writer[w].attr
               s == sub[id]
               t == sub'[id]
           IN /\ id \in Ids /\ a \in Attrs /\ writer[w].value \in Values
              /\ UNCHANGED manager
              /\ sub' \in [Ids -> SubTypes] /\ Others(id) /\ Same(s, t)
              /\ t.lastNotified = s.lastNotified /\ t.lastValues = s.lastValues
              /\ ~(s.active /\ a \in s.attrs) => t = s
              /\ s.active /\ a \in s.attrs =>
                    /\ t.hasChanges /\ t.pending = Update(s.pending, [b \in {a} |-> writer[w].value])
                    /\ t.window = IF s.hasChanges THEN s.window ELSE 0
<1> DEFINE id == arrays[writer[w].arr][writer[w].pos]
           a == writer[w].attr
           v == writer[w].value
           s == sub[id]
           p == Update(s.pending, [b \in {a} |-> v])
           u == IF s.hasChanges THEN s.window ELSE 0
<1>1. /\ writer[w].at = "notify" /\ UNCHANGED manager
      /\ IF s.active /\ a \in s.attrs
         THEN sub' = [sub EXCEPT ![id].pending = p, ![id].hasChanges = TRUE, ![id].window = u]
         ELSE sub' = sub
  BY DEF NotifyOne, RecordChange
<1>2. sub \in [Ids -> SubTypes] /\ writer[w] \in WriterTypes BY DEF Typed, WriterInv
<1>3. id \in 1 .. lastId /\ lastId \in 0 .. MaxIds BY <1>1 DEF Typed, WriterInv, IndexInv
<1>4. id \in Ids BY <1>3 DEF Ids
<1>5. a \in Attrs /\ v \in Values BY <1>1, <1>2 DEF WriterTypes
<1> HIDE DEF id, a, v
<1>6. s \in SubTypes BY <1>2, <1>4
<1>7. s.pending \in Maps /\ s.window \in 0 .. MaxAge BY <1>6 DEF SubTypes
<1>8. p \in Maps /\ u \in 0 .. MaxAge
  <2>1. [b \in {a} |-> v] \in Maps BY <1>5, SingleMap
  <2>2. p \in Maps BY <1>7, <2>1, UpdateMap
  <2>3. 0 \in 0 .. MaxAge BY DEF ConstantsAssumption
  <2> QED BY <1>7, <2>2, <2>3
<1> DEFINE t == [s EXCEPT !.pending = p, !.hasChanges = TRUE, !.window = u]
<1> HIDE DEF p, u
<1>9. CASE s.active /\ a \in s.attrs
  <2>1. sub' = [sub EXCEPT ![id] = t] BY <1>1, <1>9
  <2>2. t \in SubTypes /\ Same(s, t) /\ t.lastNotified = s.lastNotified
        /\ t.lastValues = s.lastValues /\ t.hasChanges /\ t.pending = p /\ t.window = u
    BY <1>6, <1>8 DEF SubTypes, Same
  <2> HIDE DEF t
  <2>3. sub' \in [Ids -> SubTypes] /\ Others(id) /\ sub'[id] = t
    BY <1>2, <1>4, <2>1, <2>2 DEF Others
  <2> QED BY <1>1, <1>4, <1>5, <1>9, <2>2, <2>3 DEF id, a, v, p, u
<1>10. CASE ~(s.active /\ a \in s.attrs)
  <2>1. sub' = sub BY <1>1, <1>10
  <2>2. Others(id) /\ Same(s, sub'[id]) BY <2>1 DEF Others, Same
  <2> QED BY <1>1, <1>2, <1>4, <1>5, <1>10, <2>1, <2>2 DEF id, a, v
<1> QED BY <1>9, <1>10

\* The values GetPendingNotification sends.
News(s) == {a \in DOMAIN s.pending :
               ~ (a \in DOMAIN s.lastValues /\ ValuesEqual(s.lastValues[a], s.pending[a]))}
Changes(s) == [a \in News(s) |-> s.pending[a]]

\* The changes taken are those pending values that differ from the last ones.
LEMMA ChangesTyped ==
    ASSUME NEW s \in SubTypes
    PROVE  /\ Changes(s) \in Maps /\ DOMAIN Changes(s) = News(s) /\ News(s) \subseteq DOMAIN s.pending
           /\ \A a \in News(s) : Changes(s)[a] = s.pending[a]
           /\ \A a \in DOMAIN s.pending \ News(s) :
                 a \in DOMAIN s.lastValues /\ s.lastValues[a] = s.pending[a]
<1>1. s.pending \in Maps BY DEF SubTypes
<1>2. News(s) \subseteq DOMAIN s.pending BY DEF News
<1>3. Changes(s) \in Maps /\ DOMAIN Changes(s) = News(s) BY <1>1, <1>2, PartMap DEF Changes
<1>4. \A a \in News(s) : Changes(s)[a] = s.pending[a] BY DEF Changes
<1>5. \A a \in DOMAIN s.pending \ News(s) :
          a \in DOMAIN s.lastValues /\ s.lastValues[a] = s.pending[a]
  BY DEF News, ValuesEqual
<1> QED BY <1>2, <1>3, <1>4, <1>5

\* Changes are taken and sent, or taken and suppressed, or there is nothing to take.
Takes(id) ==
    /\ sub[id].active /\ sub[id].hasChanges /\ sub[id].window >= sub[id].min
    /\ ~ sub'[id].hasChanges /\ sub'[id].lastNotified = 0 /\ sub'[id].pending = Empty
    /\ sub'[id].lastValues = Update(sub[id].lastValues, Changes(sub[id]))
Passes(id) == loop' = [loop EXCEPT !.at = "beat", !.id = id]

\* The first half of a pass: nothing is due, the changes bounced, or they are taken.
LEMMA PendingParts ==
    ASSUME Typed, NEW id \in Ids, GetPendingNotification(id)
    PROVE  /\ loop.at = "next" /\ id \in loop.todo
           /\ UNCHANGED <<feature, manager, dispatcher, reader, writer, closing, due,
                          view, acked, silence>>
           /\ sub' \in [Ids -> SubTypes] /\ Others(id) /\ Same(sub[id], sub'[id])
           /\ \/ Passes(id) /\ UNCHANGED <<sub, gap, bounced>>
              \/ /\ Passes(id) /\ Takes(id) /\ News(sub[id]) = {}
                 /\ UNCHANGED gap /\ bounced' = bounced \cup {id}
              \/ /\ loop' = [loop EXCEPT !.at = "lookup", !.id = id, !.msg = Changes(sub[id]),
                                         !.beat = FALSE]
                 /\ Takes(id) /\ UNCHANGED bounced /\ gap' = [gap EXCEPT ![id] = 0]
<1> DEFINE s == sub[id]
           v == Update(s.lastValues, Changes(s))
           t == [s EXCEPT !.lastValues = v, !.pending = Empty, !.hasChanges = FALSE,
                          !.lastNotified = 0]
<1>1. /\ loop.at = "next" /\ id \in loop.todo
      /\ UNCHANGED <<feature, manager, dispatcher, reader, writer, closing, due,
                     view, acked, silence>>
  BY DEF GetPendingNotification
<1>2. \/ Passes(id) /\ UNCHANGED <<sub, gap, bounced>>
      \/ /\ s.active /\ s.hasChanges /\ s.window >= s.min /\ sub' = [sub EXCEPT ![id] = t]
         /\ \/ /\ News(s) = {} /\ Passes(id) /\ UNCHANGED gap /\ bounced' = bounced \cup {id}
            \/ /\ UNCHANGED bounced /\ gap' = [gap EXCEPT ![id] = 0]
               /\ loop' = [loop EXCEPT !.at = "lookup", !.id = id, !.msg = Changes(s),
                                       !.beat = FALSE]
  BY DEF GetPendingNotification, News, Changes, Passes
<1>3. sub \in [Ids -> SubTypes] BY DEF Typed
<1>4. s \in SubTypes BY <1>3
<1>5. v \in Maps
  <2>1. s.lastValues \in Maps BY <1>4 DEF SubTypes
  <2>2. Changes(s) \in Maps BY <1>4, ChangesTyped
  <2> QED BY <2>1, <2>2, UpdateMap
<1> HIDE DEF s, v
<1>6. 0 \in 0 .. MaxAge BY DEF ConstantsAssumption
<1>7. /\ t \in SubTypes /\ Same(s, t) /\ ~ t.hasChanges /\ t.lastNotified = 0
      /\ t.pending = Empty /\ t.lastValues = v
  BY <1>4, <1>5, <1>6, EmptyMap DEF SubTypes, Same
<1> HIDE DEF t
<1>8. CASE Passes(id) /\ UNCHANGED <<sub, gap, bounced>>
  <2>1. Others(id) /\ Same(s, sub'[id]) BY <1>8 DEF Others, Same, s
  <2> QED BY <1>1, <1>3, <1>8, <2>1 DEF s
<1>9. CASE sub' = [sub EXCEPT ![id] = t]
  <2>1. sub' \in [Ids -> SubTypes] /\ Others(id) /\ sub'[id] = t
    BY <1>3, <1>7, <1>9 DEF Others
  <2>2. s.active /\ s.hasChanges /\ s.window >= s.min => Takes(id)
    BY <1>7, <2>1 DEF Takes, s, v
  <2> QED BY <1>1, <1>2, <1>7, <2>1, <2>2 DEF s
<1> QED BY <1>2, <1>8, <1>9

\* The second half of a pass: a heartbeat with the last values if the time is over.
LEMMA BeatParts ==
    ASSUME Typed, Heartbeat
    PROVE  /\ loop.at = "beat" /\ loop.id \in Ids
           /\ UNCHANGED <<feature, manager, dispatcher, reader, writer, closing, due, observed>>
           /\ sub' \in [Ids -> SubTypes] /\ Others(loop.id)
           /\ \/ /\ ~(sub[loop.id].active /\ sub[loop.id].lastNotified >= sub[loop.id].max)
                 /\ UNCHANGED sub /\ loop' = NextSubscription
              \/ /\ sub[loop.id].active /\ sub[loop.id].lastNotified >= sub[loop.id].max
                 /\ sub'[loop.id] = [sub[loop.id] EXCEPT !.lastNotified = 0]
                 /\ loop' = [loop EXCEPT !.at = "lookup", !.msg = sub[loop.id].lastValues,
                                         !.beat = TRUE]
<1>1. /\ loop.at = "beat"
      /\ UNCHANGED <<feature, manager, dispatcher, reader, writer, closing, due, observed>>
      /\ IF sub[loop.id].active /\ sub[loop.id].lastNotified >= sub[loop.id].max
         THEN /\ sub' = [sub EXCEPT ![loop.id].lastNotified = 0]
              /\ loop' = [loop EXCEPT !.at = "lookup", !.msg = sub[loop.id].lastValues,
                                      !.beat = TRUE]
         ELSE loop' = NextSubscription /\ UNCHANGED sub
  BY DEF Heartbeat
<1>2. sub \in [Ids -> SubTypes] /\ loop.id \in Ids BY <1>1 DEF Typed, LoopInv
<1>3. CASE ~(sub[loop.id].active /\ sub[loop.id].lastNotified >= sub[loop.id].max)
  BY <1>1, <1>2, <1>3 DEF Others
<1>4. CASE sub[loop.id].active /\ sub[loop.id].lastNotified >= sub[loop.id].max
  <2> DEFINE t == [sub[loop.id] EXCEPT !.lastNotified = 0]
  <2>1. 0 \in 0 .. MaxAge BY DEF ConstantsAssumption
  <2>2. sub' = [sub EXCEPT ![loop.id] = t] BY <1>1, <1>2, <1>4
  <2>3. t \in SubTypes BY <1>2, <2>1 DEF SubTypes
  <2> HIDE DEF t
  <2>4. sub' \in [Ids -> SubTypes] /\ Others(loop.id) /\ sub'[loop.id] = t
    BY <1>2, <2>2, <2>3 DEF Others
  <2> QED BY <1>1, <1>2, <1>4, <2>4 DEF t
<1> QED BY <1>3, <1>4

\* An age stays within its bound.
LEMMA OlderAge == ASSUME NEW n \in 0 .. MaxAge PROVE Older(n) \in 0 .. MaxAge
BY DEF Older, ConstantsAssumption

\* A tick ages the subscriptions there are, and changes nothing else in them.
LEMMA TickParts ==
    ASSUME Typed, Tick
    PROVE  /\ closing = "open" /\ loop.at = "idle" /\ ~ due /\ due'
           /\ UNCHANGED <<feature, manager, dispatcher, reader, writer, loop, closing,
                          view, acked, bounced>>
           /\ sub' \in [Ids -> SubTypes]
           /\ \A i \in Ids \ subscriptions : sub'[i] = sub[i]
           /\ \A i \in subscriptions :
                 /\ Same(sub[i], sub'[i]) /\ sub'[i].lastNotified = Older(sub[i].lastNotified)
                 /\ sub'[i].hasChanges = sub[i].hasChanges /\ sub'[i].pending = sub[i].pending
                 /\ sub'[i].lastValues = sub[i].lastValues
                 /\ sub[i].hasChanges => sub'[i].window = Older(sub[i].window)
<1>1. /\ closing = "open" /\ loop.at = "idle" /\ ~ due /\ due'
      /\ UNCHANGED <<feature, manager, dispatcher, reader, writer, loop, closing,
                     view, acked, bounced>>
      /\ sub' = [i \in Ids |-> IF i \in subscriptions THEN Aged(sub[i]) ELSE sub[i]]
  BY DEF Tick
<1>2. sub \in [Ids -> SubTypes] BY DEF Typed
<1>3. subscriptions \subseteq 1 .. lastId /\ lastId \in 0 .. MaxIds BY DEF Typed, IndexInv
<1>4. subscriptions \subseteq Ids BY <1>3 DEF Ids
<1>5. ASSUME NEW s \in SubTypes
      PROVE  /\ Aged(s) \in SubTypes /\ Same(s, Aged(s))
             /\ Aged(s).lastNotified = Older(s.lastNotified)
             /\ Aged(s).hasChanges = s.hasChanges /\ Aged(s).pending = s.pending
             /\ Aged(s).lastValues = s.lastValues
             /\ s.hasChanges => Aged(s).window = Older(s.window)
  <2>1. s.lastNotified \in 0 .. MaxAge /\ s.window \in 0 .. MaxAge BY DEF SubTypes
  <2>2. Older(s.lastNotified) \in 0 .. MaxAge /\ Older(s.window) \in 0 .. MaxAge
    BY <2>1, OlderAge
  <2>3. 0 \in 0 .. MaxAge BY DEF ConstantsAssumption
  <2> DEFINE n == Older(s.lastNotified)
             u == IF s.hasChanges THEN Older(s.window) ELSE 0
  <2>4. n \in 0 .. MaxAge /\ u \in 0 .. MaxAge BY <2>2, <2>3
  <2>5. Aged(s) = [s EXCEPT !.lastNotified = n, !.window = u] BY DEF Aged
  <2>6. s.hasChanges => u = Older(s.window) OBVIOUS
  <2> HIDE DEF n, u
  <2>7. Aged(s) \in SubTypes /\ Same(s, Aged(s)) /\ Aged(s).lastNotified = n /\ Aged(s).window = u
    BY <2>4, <2>5 DEF SubTypes, Same
  <2>8. /\ Aged(s).hasChanges = s.hasChanges /\ Aged(s).pending = s.pending
        /\ Aged(s).lastValues = s.lastValues
    BY <2>5 DEF SubTypes
  <2> QED BY <2>6, <2>7, <2>8 DEF n
<1>6. sub' \in [Ids -> SubTypes] BY <1>1, <1>2, <1>5
<1>7. \A i \in subscriptions : sub'[i] = Aged(sub[i]) BY <1>1, <1>4
<1>8. \A i \in Ids \ subscriptions : sub'[i] = sub[i] BY <1>1
<1>9. \A i \in subscriptions :
                 /\ Same(sub[i], sub'[i]) /\ sub'[i].lastNotified = Older(sub[i].lastNotified)
                 /\ sub'[i].hasChanges = sub[i].hasChanges /\ sub'[i].pending = sub[i].pending
                 /\ sub'[i].lastValues = sub[i].lastValues
                 /\ sub[i].hasChanges => sub'[i].window = Older(sub[i].window)
  <2>1. \A i \in subscriptions : sub[i] \in SubTypes BY <1>2, <1>4
  <2> QED BY <1>5, <1>7, <2>1
<1> QED BY <1>1, <1>6, <1>8, <1>9

\* The Subscription objects keep their types.
LEMMA SubTyped ==
    ASSUME Typed, [Next]_vars
    PROVE  sub' \in [Ids -> SubTypes]
<1>1. CASE UNCHANGED <<sub, manager>> BY <1>1 DEF Typed
<1>2. CASE Created BY <1>2, CreatedParts
<1>3. ASSUME NEW i \in subscriptions, RemovedBy(i) PROVE sub' \in [Ids -> SubTypes]
  BY <1>3, RemovedParts DEF RemovedBy
<1>4. ASSUME NEW w \in Writers, NotifyOne(w) PROVE sub' \in [Ids -> SubTypes]
  BY <1>4, NotifyParts
<1>5. ASSUME NEW i \in Ids, GetPendingNotification(i) PROVE sub' \in [Ids -> SubTypes]
  BY <1>5, PendingParts
<1>6. CASE Heartbeat BY <1>6, BeatParts
<1>7. CASE Tick BY <1>7, TickParts
<1> QED BY <1>1, <1>2, <1>3, <1>4, <1>5, <1>6, <1>7, SubStep

\* Who changes the dispatcher's maps.
LEMMA DispatcherStep ==
    ASSUME Typed, [Next]_vars
    PROVE  \/ UNCHANGED <<subscriptionMap, conn>>
           \/ MapSubscription \/ HandleUnsubscribe \/ UnregisterConnection
           \/ \E id \in Ids : UnsubscribeCopied(id)
<1>1. CASE UNCHANGED vars BY <1>1 DEF vars, dispatcher
<1>2. CASE Reader
  <2>1. ASSUME NEW r \in Requests, ReceiveSubscribe(r) PROVE UNCHANGED <<subscriptionMap, conn>>
    BY <2>1 DEF ReceiveSubscribe, dispatcher
  <2>2. ASSUME NEW a \in Attrs, ReadCurrent(a) PROVE UNCHANGED <<subscriptionMap, conn>>
    BY <2>2 DEF ReadCurrent, dispatcher
  <2>3. ASSUME NEW i \in Ids, ReceiveUnsubscribe(i) PROVE UNCHANGED <<subscriptionMap, conn>>
    BY <2>3 DEF ReceiveUnsubscribe, dispatcher
  <2>4. CASE FindConnection \/ Subscribe \/ Prime \/ Respond \/ Unmanage
    BY <2>4 DEF FindConnection, Subscribe, Prime, Respond, Unmanage, dispatcher
  <2> QED BY <1>2, <2>1, <2>2, <2>3, <2>4 DEF Reader
<1>3. ASSUME NEW w \in Writers, Writer(w) PROVE UNCHANGED <<subscriptionMap, conn>>
  BY <1>3 DEF Writer, SetAttribute, TakeSlice, NotifyOne, dispatcher
<1>4. ASSUME NEW a \in Attrs, NEW v \in Values, SetDirectly(a, v)
      PROVE  UNCHANGED <<subscriptionMap, conn>>
  BY <1>4 DEF SetDirectly, dispatcher
<1>5. CASE Loop
  BY <1>5 DEF Loop, StartPass, GetPendingNotification, Heartbeat, LookupConnection, Send, dispatcher
<1>6. CASE Tick BY <1>6 DEF Tick, dispatcher
<1>7. CASE Closer
  <2>1. CASE Close \/ StopDispatcher BY <2>1 DEF Close, StopDispatcher, dispatcher
  <2> QED BY <1>7, <2>1 DEF Closer
<1> QED BY <1>1, <1>2, <1>3, <1>4, <1>5, <1>6, <1>7, StepCases

\* The dispatcher names identifiers the manager has given out.
LEMMA DispatcherTyped ==
    ASSUME Typed, [Next]_vars
    PROVE  DispatcherInv'
<1>0. /\ lastId \in Nat /\ lastId' \in Nat /\ lastId <= lastId'
      /\ subscriptionMap \subseteq 1 .. lastId /\ conn \in [up : BOOLEAN, ids : SUBSET (1 .. lastId)]
  <2>1. IndexInv' /\ lastId <= lastId' BY NextIndex
  <2>2. lastId' \in Nat BY <2>1 DEF IndexInv
  <2>3. lastId \in Nat BY DEF Typed, IndexInv
  <2> QED BY <2>1, <2>2, <2>3 DEF Typed, DispatcherInv
<1>01. 1 .. lastId \subseteq 1 .. lastId' BY <1>0
<1>02. ASSUME NEW M \in SUBSET (1 .. lastId'), NEW B \in BOOLEAN, NEW I \in SUBSET (1 .. lastId'),
              subscriptionMap' = M, conn' = [conn EXCEPT !.up = B, !.ids = I]
       PROVE  DispatcherInv'
  BY <1>0, <1>02 DEF DispatcherInv
<1>1. CASE UNCHANGED <<subscriptionMap, conn>> BY <1>0, <1>01, <1>1 DEF DispatcherInv
<1>2. CASE MapSubscription
  <2>1. /\ reader.at = "map" /\ subscriptionMap' = subscriptionMap \cup {reader.id}
        /\ conn' = conn \/ conn' = [conn EXCEPT !.ids = conn.ids \cup {reader.id}]
        /\ lastId' = lastId
    BY <1>2 DEF MapSubscription, manager
  <2>2. reader.id \in 1 .. lastId BY <2>1 DEF Typed, ReaderInv, Ids, IndexInv
  <2> QED BY <1>0, <2>1, <2>2 DEF DispatcherInv
<1>3. CASE HandleUnsubscribe
  <2>1. /\ \/ UNCHANGED <<subscriptionMap, conn>>
           \/ /\ subscriptionMap' = subscriptionMap \ {reader.id}
              /\ conn' = [conn EXCEPT !.ids = conn.ids \ {reader.id}]
        /\ lastId' = lastId
    BY <1>3 DEF HandleUnsubscribe, manager, dispatcher
  <2> QED BY <1>0, <2>1 DEF DispatcherInv
<1>4. CASE UnregisterConnection
  <2>1. /\ conn' = [conn EXCEPT !.up = FALSE] /\ subscriptionMap' = subscriptionMap \ conn.ids
        /\ lastId' = lastId
    BY <1>4 DEF UnregisterConnection, manager
  <2> QED BY <1>0, <2>1 DEF DispatcherInv
<1>5. ASSUME NEW i \in Ids, UnsubscribeCopied(i) PROVE DispatcherInv'
  <2>1. conn' = [conn EXCEPT !.ids = conn.ids \ {i}] /\ UNCHANGED <<subscriptionMap, lastId>>
    BY <1>5 DEF UnsubscribeCopied
  <2> QED BY <1>0, <2>1 DEF DispatcherInv
<1> QED BY <1>1, <1>2, <1>3, <1>4, <1>5, DispatcherStep

\* Who changes what the controller has seen.
LEMMA ObservedStep ==
    ASSUME Typed, [Next]_vars
    PROVE  \/ UNCHANGED <<view, acked, silence, gap, bounced>>
           \/ Prime \/ Respond \/ Unmanage \/ (\E i \in Ids : GetPendingNotification(i))
           \/ Send \/ Tick
<1>1. CASE UNCHANGED vars BY <1>1 DEF vars, observed
<1>2. CASE Reader
  <2>1. ASSUME NEW r \in Requests, ReceiveSubscribe(r) PROVE UNCHANGED observed
    BY <2>1 DEF ReceiveSubscribe
  <2>2. ASSUME NEW a \in Attrs, ReadCurrent(a) PROVE UNCHANGED observed
    BY <2>2 DEF ReadCurrent
  <2>3. ASSUME NEW i \in Ids, ReceiveUnsubscribe(i) PROVE UNCHANGED observed
    BY <2>3 DEF ReceiveUnsubscribe
  <2>4. CASE FindConnection \/ Subscribe \/ MapSubscription \/ HandleUnsubscribe
    BY <2>4 DEF FindConnection, Subscribe, MapSubscription, HandleUnsubscribe, observed
  <2> QED BY <1>2, <2>1, <2>2, <2>3, <2>4 DEF Reader, observed
<1>3. ASSUME NEW w \in Writers, Writer(w) PROVE UNCHANGED observed
  BY <1>3 DEF Writer, SetAttribute, TakeSlice, NotifyOne
<1>4. ASSUME NEW a \in Attrs, NEW v \in Values, SetDirectly(a, v) PROVE UNCHANGED observed
  BY <1>4 DEF SetDirectly
<1>5. CASE StartPass \/ Heartbeat \/ LookupConnection
  BY <1>5 DEF StartPass, Heartbeat, LookupConnection, observed
<1>6. CASE Closer
  BY <1>6 DEF Closer, Close, StopDispatcher, UnregisterConnection, UnsubscribeCopied, observed
<1> QED BY <1>1, <1>2, <1>3, <1>4, <1>5, <1>6, StepCases DEF Loop, observed

\* What the controller receives are maps; ages stay within the bound.
LEMMA ObservedTyped ==
    ASSUME Typed, [Next]_vars
    PROVE  ObservedInv'
<1>0. /\ ObservedInv /\ ReaderInv /\ LoopInv /\ reader \in ReaderTypes /\ loop \in LoopTypes
      /\ subscriptions \subseteq Ids
  <2>1. /\ ObservedInv /\ ReaderInv /\ LoopInv /\ reader \in ReaderTypes /\ loop \in LoopTypes
        /\ subscriptions \subseteq 1 .. lastId /\ lastId \in 0 .. MaxIds
    BY DEF Typed, ReaderInv, LoopInv, IndexInv
  <2>2. subscriptions \subseteq Ids BY <2>1 DEF Ids
  <2> QED BY <2>1, <2>2
<1>01. 0 \in 0 .. MaxAge BY DEF ConstantsAssumption
<1>02. ASSUME NEW i \in Ids, NEW m \in Maps, Deliver(i, m)
       PROVE  view' \in [Ids -> Maps] /\ silence' \in [Ids -> 0 .. MaxAge]
  <2>1. view[i] \in Maps BY <1>0 DEF ObservedInv
  <2>2. Update(view[i], m) \in Maps BY <2>1, UpdateMap
  <2>3. view' = [view EXCEPT ![i] = Update(view[i], m)] /\ silence' = [silence EXCEPT ![i] = 0]
    BY <1>02 DEF Deliver
  <2> QED BY <1>0, <1>01, <2>2, <2>3 DEF ObservedInv
<1>1. CASE UNCHANGED <<view, acked, silence, gap, bounced>> BY <1>0, <1>1 DEF ObservedInv
<1>2. CASE Prime
  <2>1. reader.id \in Ids /\ reader.values \in Maps
    BY <1>0, <1>2 DEF Prime, ReaderInv, ReaderTypes
  <2>2. /\ Deliver(reader.id, reader.values) \/ UNCHANGED <<view, silence>>
        /\ UNCHANGED <<acked, gap, bounced>>
    BY <1>2 DEF Prime
  <2> QED BY <1>0, <1>02, <2>1, <2>2 DEF ObservedInv
<1>3. CASE Respond
  <2>1. reader.id \in Ids /\ reader.values \in Maps
    BY <1>0, <1>3 DEF Respond, ReaderInv, ReaderTypes
  <2>2. /\ Deliver(reader.id, reader.values) /\ acked' = acked \cup {reader.id}
        /\ UNCHANGED <<gap, bounced>>
    BY <1>3 DEF Respond
  <2> QED BY <1>0, <1>02, <2>1, <2>2 DEF ObservedInv
<1>4. CASE Unmanage
  <2>1. reader.id \in Ids BY <1>0, <1>4 DEF Unmanage, ReaderInv, Unsubscribing
  <2>2. /\ acked' = acked \ {reader.id} /\ bounced' = bounced \ {reader.id}
        /\ view' = [view EXCEPT ![reader.id] = Empty]
        /\ silence' = [silence EXCEPT ![reader.id] = 0] /\ gap' = [gap EXCEPT ![reader.id] = 0]
    BY <1>4 DEF Unmanage
  <2> QED BY <1>0, <1>01, <2>1, <2>2, EmptyMap DEF ObservedInv
<1>5. ASSUME NEW i \in Ids, GetPendingNotification(i) PROVE ObservedInv'
  <2>1. /\ UNCHANGED <<view, acked, silence>>
        /\ bounced' = bounced \/ bounced' = bounced \cup {i}
        /\ gap' = gap \/ gap' = [gap EXCEPT ![i] = 0]
    BY <1>5, PendingParts
  <2> QED BY <1>0, <1>01, <2>1 DEF ObservedInv
<1>6. CASE Send
  <2>1. loop.id \in Ids /\ loop.msg \in Maps BY <1>0, <1>6 DEF Send, LoopInv, LoopTypes
  <2>2. Deliver(loop.id, loop.msg) /\ UNCHANGED <<acked, gap, bounced>> BY <1>6 DEF Send
  <2> QED BY <1>0, <1>02, <2>1, <2>2 DEF ObservedInv
<1>7. CASE Tick
  <2>1. /\ silence' = [i \in Ids |-> IF i \in acked THEN Older(silence[i]) ELSE silence[i]]
        /\ gap' = [i \in Ids |-> IF i \in subscriptions THEN Older(gap[i]) ELSE gap[i]]
        /\ UNCHANGED <<view, acked, bounced>>
    BY <1>7 DEF Tick
  <2> QED BY <1>0, <2>1, OlderAge DEF ObservedInv
<1> QED BY <1>1, <1>2, <1>3, <1>4, <1>5, <1>6, <1>7, ObservedStep

\* All of it.
LEMMA NextTyped == Typed /\ [Next]_vars => Typed'
BY NextIndex, SubTyped, ReaderTyped, WriterTyped, LoopTyped, DispatcherTyped, ObservedTyped
   DEF Typed

\* Every part is well typed at the start.
LEMMA InitTyped == Init => Typed
<1> SUFFICES ASSUME Init PROVE Typed OBVIOUS
<1>1. IndexInv
  <2>1. Cardinality({}) = 0 BY FS_EmptySet
  <2> QED BY <2>1 DEF Init, IndexInv, ConstantsAssumption
<1>2. sub \in [Ids -> SubTypes] BY StartTypes DEF Init
<1>3. ReaderInv BY StartTypes DEF Init, ReaderInv, Subscribing, Unsubscribing
<1>4. WriterInv
  <2>1. writes \in 0 .. MaxWrites /\ val \in [Attrs -> Values] BY DEF Init, ConstantsAssumption
  <2>2. writer \in [Writers -> WriterTypes] /\ \A w \in Writers : writer[w].at # "notify"
    BY DEF Init, WriterTypes
  <2> QED BY <2>1, <2>2 DEF WriterInv
<1>5. LoopInv BY StartTypes DEF Init, LoopInv
<1>6. DispatcherInv BY DEF Init, DispatcherInv
<1>7. ObservedInv
  <2>1. 0 \in 0 .. MaxAge BY DEF ConstantsAssumption
  <2> QED BY <2>1, EmptyMap DEF Init, ObservedInv
<1> QED BY <1>1, <1>2, <1>3, <1>4, <1>5, <1>6, <1>7 DEF Typed

\* Every part stays well typed.
LEMMA AlwaysTyped == Spec => []Typed
BY InitTyped, NextTyped, PTL DEF Spec

\* Subscriptions, messages, requests and ages are what their types say, and the
\* slice of the index lies in its array (TypeOK).
THEOREM TypeCorrect == Spec => []TypeOK
<1>1. Typed => TypeOK
  <2> SUFFICES ASSUME Typed PROVE TypeOK OBVIOUS
  <2>1. /\ val \in [Attrs -> Values] /\ writes \in 0 .. MaxWrites /\ lastId \in 0 .. MaxIds
        /\ subscriptions \subseteq 1 .. lastId /\ subscriptionMap \subseteq 1 .. lastId
        /\ conn.up \in BOOLEAN /\ conn.ids \subseteq 1 .. lastId
    BY DEF Typed, WriterInv, IndexInv, DispatcherInv
  <2>2. \A i \in Ids : /\ sub[i].attrs \subseteq Attrs
                       /\ sub[i].lastValues \in Maps /\ sub[i].pending \in Maps
                       /\ {sub[i].lastNotified, sub[i].window} \subseteq 0 .. MaxAge
                       /\ {sub[i].hasChanges, sub[i].active} \subseteq BOOLEAN
    <3>1. \A i \in Ids : sub[i] \in SubTypes BY DEF Typed
    <3> QED BY <3>1 DEF SubTypes
  <2>3. /\ index.arr \in 0 .. Len(arrays) /\ index.len \in Nat
        /\ index.len > 0 => index.len <= Len(arrays[index.arr])
    <3>1. index.arr \in Nat /\ index.len \in Nat /\ Len(arrays) \in Nat BY DEF Typed, IndexInv
    <3>2. /\ index.len = 0 => index.arr = 0
          /\ index.len > 0 => index.arr \in 1 .. Len(arrays) /\ index.len <= Len(arrays[index.arr])
      BY DEF Typed, IndexInv
    <3> QED BY <3>1, <3>2
  <2>4. reader.at \in {"idle"} \cup Subscribing \cup Unsubscribing /\ reader.values \in Maps
    BY DEF Typed, ReaderInv, ReaderTypes
  <2>5. \A w \in Writers : writer[w].at \in {"idle", "set", "notify"}
    <3>1. \A w \in Writers : writer[w] \in WriterTypes BY DEF Typed, WriterInv
    <3> QED BY <3>1 DEF WriterTypes
  <2>6. /\ loop.at \in {"idle", "next", "beat", "lookup", "send"}
        /\ loop.todo \subseteq Ids /\ loop.msg \in Maps /\ due \in BOOLEAN
        /\ closing \in {"open", "closed", "stopped", "unregistered"}
    BY DEF Typed, LoopInv, LoopTypes
  <2>7. /\ acked \subseteq Ids /\ bounced \subseteq Ids
        /\ \A i \in Ids : view[i] \in Maps /\ {silence[i], gap[i]} \subseteq 0 .. MaxAge
    BY DEF Typed, ObservedInv
  <2> QED BY <2>1, <2>2, <2>3, <2>4, <2>5, <2>6, <2>7 DEF TypeOK
<1> QED BY <1>1, AlwaysTyped, PTL

-----------------------------------------------------------------------------
(* The steps, as the invariants below look at them. *)

Stays == UNCHANGED <<feature, manager, sub, dispatcher, writer, loop, closing, due, observed>>

\* The reader takes a request, or goes on with one without an effect elsewhere.
Begins ==
    /\ reader.at = "idle" /\ closing = "open" /\ reader'.at \in {"received", "unsubscribe"}
    /\ reader'.values = Empty /\ Stays
Proceeds ==
    /\ reader.at \in {"received", "reading", "unsubscribe"} /\ Stays
    /\ \/ reader'.at = "idle"
       \/ /\ reader'.at = "reading" /\ reader.at \in {"received", "reading"}
          /\ \/ reader'.values = reader.values
             \/ \E a \in Attrs : reader'.values = Update(reader.values, [b \in {a} |-> val[a]])

\* The steps of the reader, by what they do to its place in the request.
LEMMA Moves ==
    ASSUME Typed, Reader
    PROVE  \/ Begins \/ Proceeds
           \/ /\ Subscribe /\ Created /\ reader.at = "reading" /\ reader'.at = "prime"
              /\ reader'.id = lastId' /\ reader'.values = reader.values
           \/ /\ Prime /\ reader.at = "prime" /\ reader'.at = "map"
              /\ reader'.id = reader.id /\ reader'.values = reader.values
           \/ /\ MapSubscription /\ reader.at = "map" /\ reader'.at = "respond"
              /\ reader'.id = reader.id /\ reader'.values = reader.values
           \/ Respond /\ reader.at = "respond" /\ reader'.at = "idle"
           \/ /\ HandleUnsubscribe /\ reader.at = "unsubscribe" /\ reader.id \in subscriptionMap
              /\ reader'.at = "unmanage" /\ reader'.id = reader.id
           \/ Unmanage /\ reader.at = "unmanage" /\ reader'.at = "idle"
<1>0. reader \in ReaderTypes BY DEF Typed, ReaderInv
<1>01. /\ IdleReader.at = "idle" /\ IdleReader.values = Empty
       /\ \A x : [IdleReader EXCEPT !.at = "unsubscribe", !.id = x].at = "unsubscribe"
       /\ \A x : [IdleReader EXCEPT !.at = "unsubscribe", !.id = x].values = Empty
       /\ \A x : [IdleReader EXCEPT !.at = "received", !.req = x].at = "received"
       /\ \A x : [IdleReader EXCEPT !.at = "received", !.req = x].values = Empty
  BY DEF IdleReader
<1>1. ASSUME NEW r \in Requests, ReceiveSubscribe(r) PROVE Begins
  BY <1>01, <1>1 DEF ReceiveSubscribe, Begins, Stays
<1>2. CASE FindConnection
  <2>1. /\ reader.at = "received" /\ Stays
        /\ reader' = [reader EXCEPT !.at = "reading"] \/ reader' = IdleReader
    BY <1>2 DEF FindConnection, Stays
  <2>2. Proceeds BY <1>0, <1>01, <2>1 DEF Proceeds, ReaderTypes
  <2> QED BY <2>2
<1>3. ASSUME NEW a \in Attrs, ReadCurrent(a) PROVE Proceeds
  <2>1. /\ reader.at = "reading" /\ Stays
        /\ reader' = [reader EXCEPT !.values = Update(reader.values, [b \in {a} |-> val[a]])]
    BY <1>3 DEF ReadCurrent, Stays
  <2>2. reader'.at = "reading" /\ reader'.values = Update(reader.values, [b \in {a} |-> val[a]])
    BY <1>0, <2>1 DEF ReaderTypes
  <2> QED BY <2>1, <2>2 DEF Proceeds
<1>4. CASE Subscribe
  <2>1. \/ Created \/ (reader.at = "reading" /\ reader' = IdleReader /\ Stays)
    BY <1>4 DEF Subscribe, Created, Stays
  <2>2. CASE Created
    <3>1. reader.at = "reading" /\ reader' = [reader EXCEPT !.at = "prime", !.id = lastId']
      BY <2>2 DEF Created
    <3>2. reader'.at = "prime" /\ reader'.id = lastId' /\ reader'.values = reader.values
      BY <1>0, <3>1 DEF ReaderTypes
    <3> QED BY <1>4, <2>2, <3>1, <3>2
  <2>3. CASE reader.at = "reading" /\ reader' = IdleReader /\ Stays
    <3>1. Proceeds BY <1>01, <2>3 DEF Proceeds
    <3> QED BY <3>1
  <2> QED BY <2>1, <2>2, <2>3
<1>5. CASE Prime
  <2>1. reader.at = "prime" /\ reader' = [reader EXCEPT !.at = "map"] BY <1>5 DEF Prime
  <2>2. reader'.at = "map" /\ reader'.id = reader.id /\ reader'.values = reader.values
    BY <1>0, <2>1 DEF ReaderTypes
  <2> QED BY <1>5, <2>1, <2>2
<1>6. CASE MapSubscription
  <2>1. reader.at = "map" /\ reader' = [reader EXCEPT !.at = "respond"]
    BY <1>6 DEF MapSubscription
  <2>2. reader'.at = "respond" /\ reader'.id = reader.id /\ reader'.values = reader.values
    BY <1>0, <2>1 DEF ReaderTypes
  <2> QED BY <1>6, <2>1, <2>2
<1>7. CASE Respond BY <1>7, <1>01 DEF Respond
<1>8. ASSUME NEW i \in Ids, ReceiveUnsubscribe(i) PROVE Begins
  BY <1>01, <1>8 DEF ReceiveUnsubscribe, Begins, Stays
<1>9. CASE HandleUnsubscribe
  <2>1. /\ reader.at = "unsubscribe"
        /\ \/ reader.id \in subscriptionMap /\ reader' = [reader EXCEPT !.at = "unmanage"]
           \/ reader' = IdleReader /\ Stays
    BY <1>9 DEF HandleUnsubscribe, Stays
  <2>2. CASE reader' = [reader EXCEPT !.at = "unmanage"] /\ reader.id \in subscriptionMap
    <3>1. reader'.at = "unmanage" /\ reader'.id = reader.id BY <1>0, <2>2 DEF ReaderTypes
    <3> QED BY <1>9, <2>1, <2>2, <3>1
  <2>3. CASE reader' = IdleReader /\ Stays
    <3>1. Proceeds BY <1>01, <2>1, <2>3 DEF Proceeds
    <3> QED BY <3>1
  <2> QED BY <2>1, <2>2, <2>3
<1>10. CASE Unmanage BY <1>10, <1>01 DEF Unmanage
<1> QED BY <1>1, <1>2, <1>3, <1>4, <1>5, <1>6, <1>7, <1>8, <1>9, <1>10 DEF Reader

\* All else leaves requests, subscriptions and connection alone, but for the closing.
LEMMA Elsewhere ==
    ASSUME Typed, [Next]_vars
    PROVE  \/ UNCHANGED <<reader, lastId, acked, subscriptions, arrays, index,
                          subscriptionMap, conn>>
           \/ Reader \/ UnregisterConnection \/ \E i \in Ids : UnsubscribeCopied(i)
<1>1. UNCHANGED manager \/ Reader \/ \E i \in Ids : UnsubscribeCopied(i)
  <2>0. subscriptions \subseteq Ids
    <3>1. subscriptions \subseteq 1 .. lastId /\ lastId \in 0 .. MaxIds BY DEF Typed, IndexInv
    <3> QED BY <3>1 DEF Ids
  <2>1. ASSUME NEW i \in subscriptions, RemovedBy(i) PROVE Reader \/ UnsubscribeCopied(i)
    BY <2>1 DEF RemovedBy, Reader
  <2>2. Subscribe => Reader BY DEF Reader
  <2> QED BY <2>0, <2>1, <2>2, ManagerStep, Zenon
<1>2. \/ UNCHANGED <<subscriptionMap, conn>>
      \/ Reader \/ UnregisterConnection \/ \E id \in Ids : UnsubscribeCopied(id)
  BY DispatcherStep DEF Reader
<1>3. UNCHANGED <<reader, lastId, acked>> \/ Reader BY ReaderStep
<1> QED BY <1>1, <1>2, <1>3 DEF manager

\* The session's end goes through its three steps, each its own action.
LEMMA ClosingStep ==
    ASSUME Typed, [Next]_vars
    PROVE  UNCHANGED closing \/ Close \/ StopDispatcher \/ UnregisterConnection
<1>1. CASE UNCHANGED <<loop, due, closing>> BY <1>1
<1>2. CASE Loop
  BY <1>2 DEF Loop, StartPass, GetPendingNotification, Heartbeat, LookupConnection, Send
<1>3. CASE Tick BY <1>3 DEF Tick
<1>4. CASE Closer
  <2>1. ASSUME NEW i \in Ids, UnsubscribeCopied(i) PROVE UNCHANGED closing
    BY <2>1 DEF UnsubscribeCopied
  <2> QED BY <1>4, <2>1 DEF Closer
<1> QED BY <1>1, <1>2, <1>3, <1>4, LoopStep

Busy == {w \in Writers : writer[w].at # "idle"}

\* What the record of overlaps says when something is not in it.
LEMMA OverlapStep ==
    ASSUME Typed, [Next]_vars
    PROVE  /\ overlap \subseteq overlap'
           /\ UNCHANGED vars \/ "close" \in overlap' \/ closing' = "open" \/ reader'.at = "idle"
           /\ \/ UNCHANGED vars
              \/ overlap' # {}
              \/ /\ Busy' = {} \/ reader'.at \notin Subscribing \cup Unsubscribing
                 /\ ~(Cardinality(Busy') > 1)
                 /\ val' = val \/ writer' # writer
<1>1. CASE UNCHANGED vars BY <1>1 DEF vars
<1>2. CASE overlap' = overlap \cup Overlapping
  <2>1. closing' # "open" /\ reader'.at # "idle" => "close" \in Overlapping BY DEF Overlapping
  <2>2. Busy' # {} /\ reader'.at \in Subscribing => "subscribe" \in Overlapping
    BY DEF Overlapping, Busy
  <2>3. Busy' # {} /\ reader'.at \in Unsubscribing => "unsubscribe" \in Overlapping
    BY DEF Overlapping, Busy
  <2>4. Cardinality(Busy') > 1 => "writers" \in Overlapping BY DEF Overlapping, Busy
  <2>5. val' # val /\ writer' = writer => "setter" \in Overlapping BY DEF Overlapping
  <2> QED BY <1>2, <2>1, <2>2, <2>3, <2>4, <2>5
<1> QED BY <1>1, <1>2 DEF Next

-----------------------------------------------------------------------------
(* Book-keeping of manager, dispatcher and connection. *)

\* The three name the same subscriptions, but for the one a request is just
\* making or ending.
InFlight == IF reader.at \in {"prime", "map", "unmanage"} THEN {reader.id} ELSE {}
ActiveInv ==
    /\ subscriptions = {i \in Ids : sub[i].active}
    /\ Cardinality(subscriptions) <= MaxSubscriptions
RoutesInv ==
    /\ conn.up <=> closing # "unregistered"
    /\ conn.up => /\ conn.ids = subscriptionMap
                  /\ subscriptions = subscriptionMap \cup InFlight
                  /\ InFlight \cap subscriptionMap = {}

\* Every step keeps the active objects those of the manager, within its limit.
LEMMA ActiveNext ==
    ASSUME Typed, ActiveInv, [Next]_vars
    PROVE  ActiveInv'
<1>0. /\ subscriptions \subseteq 1 .. lastId /\ lastId \in 0 .. MaxIds /\ sub \in [Ids -> SubTypes]
      /\ subscriptions = {i \in Ids : sub[i].active}
      /\ Cardinality(subscriptions) <= MaxSubscriptions
  BY DEF Typed, IndexInv, ActiveInv
<1>01. IsFiniteSet(subscriptions) /\ Cardinality(subscriptions) \in Nat
  <2>1. lastId \in Nat /\ subscriptions \in SUBSET (1 .. lastId) BY <1>0
  <2> QED BY <2>1, FiniteIds
<1>02. ASSUME UNCHANGED manager, \A i \in Ids : sub'[i].active = sub[i].active PROVE ActiveInv'
  BY <1>0, <1>02 DEF ActiveInv, manager
<1>1. CASE UNCHANGED <<sub, manager>> BY <1>02, <1>1
<1>2. CASE Created
  <2>1. /\ ~(Cardinality(subscriptions) >= MaxSubscriptions) /\ lastId' \notin subscriptions
        /\ subscriptions' = subscriptions \cup {lastId'} /\ lastId' \in Ids
        /\ Others(lastId') /\ sub'[lastId'].active
    BY <1>2, CreatedParts DEF Created
  <2>2. Cardinality(subscriptions') = Cardinality(subscriptions) + 1
    BY <1>01, <2>1, FS_AddElement
  <2>3. Cardinality(subscriptions') <= MaxSubscriptions
    BY <1>01, <2>1, <2>2 DEF ConstantsAssumption
  <2>4. subscriptions' = {i \in Ids : sub'[i].active} BY <1>0, <2>1 DEF Others
  <2> QED BY <2>3, <2>4 DEF ActiveInv
<1>3. ASSUME NEW id \in subscriptions, RemovedBy(id) PROVE ActiveInv'
  <2>1. /\ id \in Ids /\ Others(id) /\ ~ sub'[id].active /\ subscriptions' = subscriptions \ {id}
    BY <1>3, RemovedParts DEF RemovedBy
  <2>2. Cardinality(subscriptions') = Cardinality(subscriptions) - 1
    BY <1>01, <2>1, FS_RemoveElement
  <2>3. Cardinality(subscriptions') <= MaxSubscriptions
    BY <1>0, <1>01, <2>2 DEF ConstantsAssumption
  <2>4. subscriptions' = {i \in Ids : sub'[i].active} BY <1>0, <2>1 DEF Others
  <2> QED BY <2>3, <2>4 DEF ActiveInv
<1>4. ASSUME NEW w \in Writers, NotifyOne(w) PROVE ActiveInv'
  <2>1. UNCHANGED manager /\ \E i \in Ids : Others(i) /\ Same(sub[i], sub'[i])
    BY <1>4, NotifyParts
  <2> QED BY <1>02, <2>1 DEF Others, Same
<1>5. ASSUME NEW i \in Ids, GetPendingNotification(i) PROVE ActiveInv'
  <2>1. UNCHANGED manager /\ Others(i) /\ Same(sub[i], sub'[i]) BY <1>5, PendingParts
  <2> QED BY <1>02, <2>1 DEF Others, Same
<1>6. CASE Heartbeat
  <2>1. /\ UNCHANGED manager /\ Others(loop.id) /\ loop.id \in Ids
        /\ sub'[loop.id] = sub[loop.id] \/ sub'[loop.id] = [sub[loop.id] EXCEPT !.lastNotified = 0]
    BY <1>6, BeatParts
  <2>2. sub'[loop.id].active = sub[loop.id].active BY <1>0, <2>1 DEF SubTypes
  <2> QED BY <1>02, <2>1, <2>2 DEF Others
<1>7. CASE Tick
  <2>1. /\ UNCHANGED manager /\ \A i \in Ids \ subscriptions : sub'[i] = sub[i]
        /\ \A i \in subscriptions : Same(sub[i], sub'[i])
    BY <1>7, TickParts
  <2> QED BY <1>02, <2>1 DEF Same
<1> QED BY <1>1, <1>2, <1>3, <1>4, <1>5, <1>6, <1>7, SubStep

\* Every step keeps the connection's map and the manager in agreement.
LEMMA RoutesNext ==
    ASSUME Typed, RoutesInv, [Next]_vars
    PROVE  RoutesInv'
<1>0. /\ conn \in [up : BOOLEAN, ids : SUBSET (1 .. lastId)] /\ subscriptionMap \subseteq 1 .. lastId
      /\ lastId \in Nat
  BY DEF Typed, DispatcherInv, IndexInv
<1>1. conn'.up <=> closing' # "unregistered"
  <2>1. UNCHANGED <<subscriptionMap, conn>> \/ conn'.up = conn.up \/ UnregisterConnection
    BY <1>0, DispatcherStep DEF MapSubscription, HandleUnsubscribe, UnsubscribeCopied, dispatcher
  <2>2. CASE UnregisterConnection
    <3>1. conn' = [conn EXCEPT !.up = FALSE] /\ closing' = "unregistered"
      BY <2>2 DEF UnregisterConnection
    <3> QED BY <1>0, <3>1
  <2>3. CASE ~ UnregisterConnection
    <3>1. UNCHANGED closing \/ (closing # "unregistered" /\ closing' # "unregistered")
      BY <2>3, ClosingStep DEF Close, StopDispatcher
    <3> QED BY <2>1, <2>3, <3>1 DEF RoutesInv
  <2> QED BY <2>2, <2>3
<1>2. ASSUME conn'.up
      PROVE  /\ conn'.ids = subscriptionMap' /\ subscriptions' = subscriptionMap' \cup InFlight'
             /\ InFlight' \cap subscriptionMap' = {}
  <2>1. CASE UNCHANGED <<reader, lastId, acked, subscriptions, arrays, index, subscriptionMap, conn>>
    BY <1>2, <2>1 DEF RoutesInv, InFlight
  <2>2. CASE UnregisterConnection
    <3>1. conn' = [conn EXCEPT !.up = FALSE] BY <2>2 DEF UnregisterConnection
    <3> QED BY <1>0, <1>2, <3>1
  <2>3. ASSUME NEW i \in Ids, UnsubscribeCopied(i) PROVE FALSE
    <3>1. /\ closing = "unregistered" /\ conn' = [conn EXCEPT !.ids = conn.ids \ {i}]
      BY <2>3 DEF UnsubscribeCopied
    <3> QED BY <1>0, <1>2, <3>1 DEF RoutesInv
  <2>4. CASE Reader
    <3>1. CASE Begins \/ Proceeds
      <4>1. /\ UNCHANGED <<subscriptions, subscriptionMap, conn>> /\ InFlight = {} /\ InFlight' = {}
        BY <3>1 DEF Begins, Proceeds, Stays, InFlight, manager, dispatcher
      <4> QED BY <1>2, <4>1 DEF RoutesInv
    <3>2. CASE Created /\ reader.at = "reading" /\ reader'.at = "prime" /\ reader'.id = lastId'
      <4>1. /\ UNCHANGED <<subscriptionMap, conn>> /\ InFlight = {} /\ InFlight' = {lastId'}
            /\ subscriptions' = subscriptions \cup {lastId'} /\ lastId' = lastId + 1
        BY <3>2 DEF Created, InFlight, dispatcher
      <4> QED BY <1>0, <1>2, <4>1 DEF RoutesInv
    <3>3. CASE Prime /\ reader.at = "prime" /\ reader'.at = "map" /\ reader'.id = reader.id
      <4>1. UNCHANGED <<subscriptions, subscriptionMap, conn>> /\ InFlight' = InFlight
        BY <3>3 DEF Prime, InFlight, manager, dispatcher
      <4> QED BY <1>2, <4>1 DEF RoutesInv
    <3>4. CASE MapSubscription /\ reader.at = "map" /\ reader'.at = "respond"
      <4>1. /\ subscriptionMap' = subscriptionMap \cup {reader.id} /\ UNCHANGED subscriptions
            /\ conn' = IF conn.up THEN [conn EXCEPT !.ids = conn.ids \cup {reader.id}] ELSE conn
            /\ InFlight = {reader.id} /\ InFlight' = {}
        BY <3>4 DEF MapSubscription, InFlight, manager
      <4>2. conn.up /\ conn'.ids = conn.ids \cup {reader.id} BY <1>0, <1>2, <4>1
      <4> QED BY <4>1, <4>2 DEF RoutesInv
    <3>5. CASE Respond /\ reader.at = "respond" /\ reader'.at = "idle"
      <4>1. UNCHANGED <<subscriptions, subscriptionMap, conn>> /\ InFlight = {} /\ InFlight' = {}
        BY <3>5 DEF Respond, InFlight, manager, dispatcher
      <4> QED BY <1>2, <4>1 DEF RoutesInv
    <3>6. CASE /\ HandleUnsubscribe /\ reader.at = "unsubscribe" /\ reader.id \in subscriptionMap
               /\ reader'.at = "unmanage" /\ reader'.id = reader.id
      <4>1. /\ subscriptionMap' = subscriptionMap \ {reader.id} /\ UNCHANGED subscriptions
            /\ conn' = [conn EXCEPT !.ids = conn.ids \ {reader.id}]
            /\ InFlight = {} /\ InFlight' = {reader.id}
        BY <3>6 DEF HandleUnsubscribe, InFlight, manager
      <4>2. conn.up /\ conn'.ids = conn.ids \ {reader.id} BY <1>0, <1>2, <4>1
      <4> QED BY <3>6, <4>1, <4>2 DEF RoutesInv
    <3>7. CASE Unmanage /\ reader.at = "unmanage" /\ reader'.at = "idle"
      <4>1. /\ UNCHANGED <<subscriptionMap, conn>> /\ InFlight = {reader.id} /\ InFlight' = {}
            /\ reader.id \in subscriptions => subscriptions' = subscriptions \ {reader.id}
        BY <3>7 DEF Unmanage, Unsubscribe, InFlight, dispatcher
      <4> QED BY <1>2, <4>1 DEF RoutesInv
    <3> QED BY <2>4, <3>1, <3>2, <3>3, <3>4, <3>5, <3>6, <3>7, Moves
  <2> QED BY <2>1, <2>2, <2>3, <2>4, Elsewhere
<1> QED BY <1>1, <1>2 DEF RoutesInv

\* The index lists what the manager keeps.
LEMMA SliceMembers ==
    ASSUME IndexInv
    PROVE  {Slice[k] : k \in DOMAIN Slice} = subscriptions
<1>0. /\ index \in [arr : Nat, len : Nat] /\ arrays \in Seq(Seq(0 .. MaxIds))
      /\ index.len > 0 => index.arr \in 1 .. Len(arrays) /\ index.len <= Len(arrays[index.arr])
      /\ \A k \in 1 .. index.len : arrays[index.arr][k] \in subscriptions
      /\ \A i \in subscriptions : \E k \in 1 .. index.len : arrays[index.arr][k] = i
  BY DEF IndexInv
<1>1. CASE index.len = 0
  <2>1. Slice = <<>> BY <1>1 DEF Slice
  <2>2. DOMAIN Slice = {} BY <2>1
  <2>3. subscriptions = {} BY <1>0, <1>1
  <2> QED BY <2>2, <2>3
<1>2. CASE index.len # 0
  <2> DEFINE a == arrays[index.arr]
  <2>1. index.len \in Nat /\ index.len > 0 BY <1>0, <1>2
  <2>2. a \in Seq(0 .. MaxIds) /\ index.len <= Len(a) BY <1>0, <2>1
  <2>3. Slice = SubSeq(a, 1, index.len) BY <1>2 DEF Slice
  <2> HIDE DEF a
  <2>4. DOMAIN Slice = 1 .. index.len /\ \A k \in 1 .. index.len : Slice[k] = a[k]
    BY <2>1, <2>2, <2>3
  <2>5. {Slice[k] : k \in DOMAIN Slice} = {a[k] : k \in 1 .. index.len} BY <2>4
  <2>6. /\ \A k \in 1 .. index.len : a[k] \in subscriptions
        /\ \A i \in subscriptions : \E k \in 1 .. index.len : a[k] = i
    BY <1>0 DEF a
  <2> QED BY <2>5, <2>6
<1> QED BY <1>1, <1>2

\* At the start there are no subscriptions.
LEMMA RoutesInit == Init => ActiveInv /\ RoutesInv
<1> SUFFICES ASSUME Init PROVE ActiveInv /\ RoutesInv OBVIOUS
<1>1. ActiveInv
  <2>1. Cardinality({}) = 0 BY FS_EmptySet
  <2>2. \A i \in Ids : ~ sub[i].active BY StartTypes DEF Init
  <2> QED BY <2>1, <2>2 DEF Init, ActiveInv, ConstantsAssumption
<1>2. RoutesInv BY StartTypes DEF Init, RoutesInv, InFlight
<1> QED BY <1>1, <1>2

\* Manager, map and connection agree in every state.
LEMMA AlwaysRouted == Spec => [](ActiveInv /\ RoutesInv)
<1>1. Typed /\ ActiveInv /\ RoutesInv /\ [Next]_vars => (ActiveInv /\ RoutesInv)'
  BY ActiveNext, RoutesNext
<1> QED BY <1>1, RoutesInit, AlwaysTyped, PTL DEF Spec

\* The index lists every subscription of the manager once, their number is kept,
\* and between requests each has a connection to notify, and the other way round
\* (Subscribe, HandleUnsubscribe, RemoveFromIndex).
THEOREM RoutesAgree == Spec => []SubscriptionsAgree
<1>1. Typed /\ ActiveInv /\ RoutesInv => SubscriptionsAgree
  <2> SUFFICES ASSUME Typed, ActiveInv, RoutesInv PROVE SubscriptionsAgree OBVIOUS
  <2>1. IndexInv BY DEF Typed
  <2>2. IndexConsistent
    <3>1. {Slice[k] : k \in DOMAIN Slice} = subscriptions BY <2>1, SliceMembers
    <3>2. index.len = Cardinality(subscriptions) BY <2>1 DEF IndexInv
    <3> QED BY <3>1, <3>2 DEF IndexConsistent, ActiveInv
  <2>3. RoutesComplete BY DEF RoutesComplete, RoutesInv, InFlight
  <2> QED BY <2>2, <2>3 DEF SubscriptionsAgree
<1> QED BY <1>1, AlwaysTyped, AlwaysRouted, PTL

-----------------------------------------------------------------------------
(* Closing. *)

\* A session closed between two requests hands over all its subscriptions.
ClosingInv ==
    "close" \notin overlap =>
        /\ closing = "open" \/ reader.at = "idle"
        /\ closing = "unregistered" => subscriptionMap = {} /\ conn.ids = subscriptions

\* Every step keeps what a session closed between requests promises.
LEMMA ClosingNext ==
    ASSUME Typed, RoutesInv, ClosingInv, [Next]_vars
    PROVE  ClosingInv'
<1> SUFFICES ASSUME "close" \notin overlap'
             PROVE  /\ closing' = "open" \/ reader'.at = "idle"
                    /\ closing' = "unregistered" => subscriptionMap' = {} /\ conn'.ids = subscriptions'
  BY DEF ClosingInv
<1>1. CASE UNCHANGED vars BY <1>1 DEF ClosingInv, vars, dispatcher, manager
<1>2. CASE ~ UNCHANGED vars
  <2>1. "close" \notin overlap /\ (closing' = "open" \/ reader'.at = "idle")
    BY <1>2, OverlapStep
  <2>2. conn \in [up : BOOLEAN, ids : SUBSET (1 .. lastId)] BY DEF Typed, DispatcherInv
  <2>3. ASSUME closing' = "unregistered"
        PROVE  subscriptionMap' = {} /\ conn'.ids = subscriptions'
    <3>1. CASE UnregisterConnection
      <4>1. /\ closing = "stopped" /\ conn' = [conn EXCEPT !.up = FALSE]
            /\ subscriptionMap' = subscriptionMap \ conn.ids /\ UNCHANGED subscriptions
        BY <3>1 DEF UnregisterConnection, manager
      <4>2. conn.ids = subscriptionMap /\ subscriptions = subscriptionMap
        BY <2>1, <4>1 DEF ClosingInv, RoutesInv, InFlight
      <4> QED BY <2>2, <4>1, <4>2
    <3>2. CASE ~ UnregisterConnection
      <4>1. closing = "unregistered" BY <2>3, <3>2, ClosingStep DEF Close, StopDispatcher
      <4>2. reader.at = "idle" /\ subscriptionMap = {} /\ conn.ids = subscriptions
        BY <2>1, <4>1 DEF ClosingInv
      <4>3. ~ Reader BY <4>1, <4>2, Moves DEF Begins, Proceeds
      <4>4. ASSUME NEW i \in Ids, UnsubscribeCopied(i)
            PROVE  subscriptionMap' = {} /\ conn'.ids = subscriptions'
        <5>1. /\ i \in conn.ids /\ conn' = [conn EXCEPT !.ids = conn.ids \ {i}]
              /\ i \in subscriptions => subscriptions' = subscriptions \ {i}
              /\ UNCHANGED subscriptionMap
          BY <4>4 DEF UnsubscribeCopied, Unsubscribe
        <5> QED BY <2>2, <4>2, <5>1
      <4> QED BY <3>2, <4>2, <4>3, <4>4, Elsewhere
    <3> QED BY <3>1, <3>2
  <2> QED BY <2>1, <2>3
<1> QED BY <1>1, <1>2

\* A closed session has no subscription left if no request was in progress
\* while it was closed (Close, UnregisterConnection, UnsubscribeCopied).
THEOREM ClosedCleanUnlessOverlap == Spec => []ClosedUnlessOverlap
<1>1. Init => ClosingInv BY DEF Init, ClosingInv
<1>2. Typed /\ RoutesInv /\ ClosingInv /\ [Next]_vars => ClosingInv' BY ClosingNext
<1>3. ClosingInv => ClosedUnlessOverlap
  BY DEF ClosingInv, ClosedUnlessOverlap, NothingLeft, Closed
<1> QED BY <1>1, <1>2, <1>3, AlwaysTyped, AlwaysRouted, PTL DEF Spec

-----------------------------------------------------------------------------
(* Spacing of notifications. *)

\* The window of collected changes began after the last ones were taken.
WindowInv == \A i \in subscriptions : sub[i].hasChanges => sub[i].window <= gap[i]

\* Every step keeps the window younger than the last notification.
LEMMA WindowNext ==
    ASSUME Typed, ActiveInv, WindowInv, [Next]_vars
    PROVE  WindowInv'
<1>0. /\ sub \in [Ids -> SubTypes] /\ sub' \in [Ids -> SubTypes]
      /\ gap \in [Ids -> 0 .. MaxAge] /\ gap' \in [Ids -> 0 .. MaxAge]
      /\ subscriptions \subseteq Ids
  BY SubTyped, ObservedTyped DEF Typed, ObservedInv, ActiveInv
<1>01. \A i \in Ids : /\ sub[i].window \in Nat /\ gap[i] \in Nat
                      /\ sub'[i].window \in Nat /\ gap'[i] \in Nat
  BY <1>0 DEF SubTypes, ConstantsAssumption
<1>1. CASE UNCHANGED <<sub, manager>> /\ UNCHANGED gap BY <1>1 DEF WindowInv, manager
<1>2. CASE Created /\ UNCHANGED gap
  <2>1. /\ lastId' \in Ids /\ Others(lastId') /\ ~ sub'[lastId'].hasChanges
        /\ subscriptions' = subscriptions \cup {lastId'}
    BY <1>2, CreatedParts DEF Created
  <2> QED BY <1>0, <1>2, <2>1 DEF WindowInv, Others
<1>3. ASSUME NEW id \in subscriptions, RemovedBy(id), gap' = gap \/ gap' = [gap EXCEPT ![id] = 0]
      PROVE  WindowInv'
  <2>1. Others(id) /\ subscriptions' = subscriptions \ {id} BY <1>3, RemovedParts DEF RemovedBy
  <2> QED BY <1>0, <1>3, <2>1 DEF WindowInv, Others
<1>4. ASSUME NEW w \in Writers, NotifyOne(w) PROVE WindowInv'
  <2> DEFINE id == arrays[writer[w].arr][writer[w].pos]
  <2>1. UNCHANGED gap BY <1>4 DEF NotifyOne, observed
  <2>2. /\ id \in Ids /\ UNCHANGED subscriptions /\ Others(id)
        /\ \/ sub'[id] = sub[id]
           \/ sub'[id].window = IF sub[id].hasChanges THEN sub[id].window ELSE 0
    BY <1>4, NotifyParts DEF manager
  <2> HIDE DEF id
  <2>3. \A i \in subscriptions : i # id => (sub'[i].hasChanges => sub'[i].window <= gap'[i])
    BY <1>0, <2>1, <2>2 DEF WindowInv, Others
  <2>4. id \in subscriptions => (sub'[id].hasChanges => sub'[id].window <= gap'[id])
    BY <1>0, <1>01, <2>1, <2>2 DEF WindowInv
  <2> QED BY <2>2, <2>3, <2>4 DEF WindowInv
<1>5. ASSUME NEW id \in Ids, GetPendingNotification(id) PROVE WindowInv'
  <2>1. /\ UNCHANGED subscriptions /\ Others(id)
        /\ gap' = gap \/ gap' = [gap EXCEPT ![id] = 0]
        /\ (sub'[id] = sub[id] /\ gap' = gap) \/ ~ sub'[id].hasChanges
    BY <1>5, PendingParts DEF manager, Takes
  <2> QED BY <1>0, <2>1 DEF WindowInv, Others
<1>6. CASE Heartbeat
  <2>1. /\ UNCHANGED <<subscriptions, gap>> /\ Others(loop.id) /\ loop.id \in Ids
        /\ sub'[loop.id] = sub[loop.id] \/ sub'[loop.id] = [sub[loop.id] EXCEPT !.lastNotified = 0]
    BY <1>6, BeatParts DEF manager, observed
  <2>2. sub'[loop.id].window = sub[loop.id].window /\ sub'[loop.id].hasChanges = sub[loop.id].hasChanges
    BY <1>0, <2>1 DEF SubTypes
  <2> QED BY <1>0, <2>1, <2>2 DEF WindowInv, Others
<1>7. CASE Tick
  <2>1. /\ UNCHANGED subscriptions
        /\ \A i \in subscriptions : /\ sub'[i].hasChanges = sub[i].hasChanges
                                    /\ sub[i].hasChanges => sub'[i].window = Older(sub[i].window)
    BY <1>7, TickParts DEF manager
  <2>2. \A i \in subscriptions : gap'[i] = Older(gap[i]) BY <1>0, <1>7 DEF Tick
  <2>3. \A m, n \in 0 .. MaxAge : m <= n => Older(m) <= Older(n) BY DEF Older, ConstantsAssumption
  <2>4. \A i \in subscriptions : sub[i].window \in 0 .. MaxAge /\ gap[i] \in 0 .. MaxAge
    BY <1>0 DEF SubTypes
  <2> QED BY <2>1, <2>2, <2>3, <2>4 DEF WindowInv
<1>8. CASE Unmanage
  <2>1. /\ gap' = [gap EXCEPT ![reader.id] = 0]
        /\ reader.id \in subscriptions => Removed(reader.id)
        /\ reader.id \notin subscriptions => UNCHANGED <<sub, subscriptions>>
    BY <1>8 DEF Unmanage, Unsubscribe, Removed
  <2>2. CASE reader.id \in subscriptions BY <1>3, <1>8, <2>1, <2>2 DEF RemovedBy
  <2>3. CASE reader.id \notin subscriptions BY <1>0, <2>1, <2>3 DEF WindowInv
  <2> QED BY <2>2, <2>3
<1>9. CASE UNCHANGED gap BY <1>1, <1>2, <1>3, <1>4, <1>5, <1>6, <1>7, <1>9, SubStep
<1>10. UNCHANGED gap \/ Unmanage \/ (\E i \in Ids : GetPendingNotification(i)) \/ Tick
  BY ObservedStep DEF Prime, Respond, Send
<1> QED BY <1>5, <1>7, <1>8, <1>9, <1>10

\* Two notifications of changes on one subscription are taken at least its
\* minimum interval apart (RecordChange, GetPendingNotification).
THEOREM ChangesAreSpaced == Spec => ChangesSpaced
<1>1. Init => WindowInv BY DEF Init, WindowInv
<1>2. Typed /\ ActiveInv /\ WindowInv /\ [Next]_vars => WindowInv' BY WindowNext
<1>3. Typed /\ ActiveInv /\ WindowInv /\ [Next]_vars =>
        [\A i \in subscriptions :
            GetPendingNotification(i) /\ loop'.at = "lookup" => gap[i] >= sub[i].min]_vars
  <2> SUFFICES ASSUME Typed, ActiveInv, WindowInv, [Next]_vars, NEW i \in subscriptions,
                      GetPendingNotification(i), loop'.at = "lookup"
               PROVE  gap[i] >= sub[i].min
    OBVIOUS
  <2>1. i \in Ids /\ sub[i] \in SubTypes /\ gap[i] \in 0 .. MaxAge /\ loop \in LoopTypes
    BY DEF ActiveInv, Typed, ObservedInv, LoopInv
  <2>2. ~ Passes(i) BY <2>1 DEF Passes, LoopTypes
  <2>3. Takes(i) BY <2>1, <2>2, PendingParts
  <2>4. sub[i].window <= gap[i] /\ sub[i].window >= sub[i].min BY <2>3 DEF Takes, WindowInv
  <2>5. sub[i].window \in Nat /\ gap[i] \in Nat /\ sub[i].min \in Nat
    BY <2>1 DEF SubTypes, ConstantsAssumption
  <2> QED BY <2>4, <2>5
<1> QED BY <1>1, <1>2, <1>3, AlwaysTyped, AlwaysRouted, PTL DEF Spec, ChangesSpaced

-----------------------------------------------------------------------------
(* The dispatcher's loop and the heartbeats. *)

\* The loop leaves a subscription for the next one, or stays at it.
Skips ==
    /\ loop'.at \in {"idle", "next"} /\ loop'.todo = loop.todo \ {loop.id}
    /\ loop'.at = "idle" => loop'.todo = {}
Keeps(at) == loop'.at = at /\ loop'.id = loop.id /\ loop'.todo = loop.todo

\* The steps of the loop, by what they do to the pass.
LEMMA LoopMoves ==
    ASSUME Typed, Loop
    PROVE  \/ /\ StartPass /\ loop.at = "idle" /\ due /\ due' = FALSE /\ closing \in {"open", "closed"}
              /\ UNCHANGED <<feature, manager, sub, dispatcher, reader, writer, closing, observed>>
              /\ loop'.at \in {"idle", "next"} /\ loop'.todo = subscriptions
              /\ loop'.at = "idle" => loop'.todo = {}
           \/ \E i \in Ids :
                 /\ GetPendingNotification(i) /\ loop.at = "next" /\ i \in loop.todo
                 /\ loop'.todo = loop.todo /\ loop'.id = i
                 /\ \/ loop'.at = "beat" /\ UNCHANGED <<sub, gap, bounced>>
                    \/ /\ loop'.at = "beat" /\ Takes(i) /\ News(sub[i]) = {}
                       /\ bounced' = bounced \cup {i}
                    \/ /\ loop'.at = "lookup" /\ loop'.msg = Changes(sub[i]) /\ Takes(i)
                       /\ UNCHANGED bounced
           \/ /\ Heartbeat /\ loop.at = "beat"
              /\ \/ /\ Skips /\ UNCHANGED sub
                    /\ ~(sub[loop.id].active /\ sub[loop.id].lastNotified >= sub[loop.id].max)
                 \/ /\ Keeps("lookup") /\ loop'.msg = sub[loop.id].lastValues
                    /\ sub'[loop.id] = [sub[loop.id] EXCEPT !.lastNotified = 0]
           \/ /\ LookupConnection /\ loop.at = "lookup"
              /\ \/ Keeps("send") /\ loop'.msg = loop.msg
                 \/ (loop.id \notin subscriptionMap \/ ~ conn.up) /\ (Skips \/ Keeps("beat"))
           \/ /\ Send /\ loop.at = "send" /\ (Skips \/ Keeps("beat"))
<1>0. loop \in LoopTypes BY DEF Typed, LoopInv
<1>01. IdleLoop.at = "idle" /\ IdleLoop.todo = {} BY StartTypes
<1>02. /\ [IdleLoop EXCEPT !.at = "next", !.todo = subscriptions].at = "next"
       /\ [IdleLoop EXCEPT !.at = "next", !.todo = subscriptions].todo = subscriptions
       /\ [IdleLoop EXCEPT !.at = "next", !.todo = loop.todo \ {loop.id}].at = "next"
       /\ [IdleLoop EXCEPT !.at = "next", !.todo = loop.todo \ {loop.id}].todo = loop.todo \ {loop.id}
  BY DEF IdleLoop
<1>03. loop' = NextSubscription => Skips BY <1>01, <1>02 DEF NextSubscription, Skips
<1>04. loop' = AfterMessage => Skips \/ Keeps("beat")
  <2>1. loop' = [loop EXCEPT !.at = "beat", !.msg = Empty] => Keeps("beat")
    BY <1>0 DEF LoopTypes, Keeps
  <2> QED BY <1>03, <2>1 DEF AfterMessage
<1>1. CASE StartPass
  <2>1. /\ loop.at = "idle" /\ due /\ due' = FALSE /\ closing \in {"open", "closed"}
        /\ UNCHANGED <<feature, manager, sub, dispatcher, reader, writer, closing, observed>>
        /\ loop' = IF subscriptions = {} THEN IdleLoop
                   ELSE [IdleLoop EXCEPT !.at = "next", !.todo = subscriptions]
    BY <1>1 DEF StartPass
  <2>2. /\ loop'.at \in {"idle", "next"} /\ loop'.todo = subscriptions
        /\ loop'.at = "idle" => loop'.todo = {}
    BY <1>01, <1>02, <2>1
  <2> QED BY <1>1, <2>1, <2>2
<1>2. ASSUME NEW i \in Ids, GetPendingNotification(i)
      PROVE  /\ GetPendingNotification(i) /\ loop.at = "next" /\ i \in loop.todo
             /\ loop'.todo = loop.todo /\ loop'.id = i
             /\ \/ loop'.at = "beat" /\ UNCHANGED <<sub, gap, bounced>>
                \/ /\ loop'.at = "beat" /\ Takes(i) /\ News(sub[i]) = {}
                   /\ bounced' = bounced \cup {i}
                \/ /\ loop'.at = "lookup" /\ loop'.msg = Changes(sub[i]) /\ Takes(i)
                   /\ UNCHANGED bounced
  <2>1. Passes(i) => loop'.at = "beat" /\ loop'.todo = loop.todo /\ loop'.id = i
    BY <1>0 DEF Passes, LoopTypes
  <2> DEFINE m == Changes(sub[i])
  <2>2. loop' = [loop EXCEPT !.at = "lookup", !.id = i, !.msg = m, !.beat = FALSE] =>
          loop'.at = "lookup" /\ loop'.todo = loop.todo /\ loop'.id = i /\ loop'.msg = m
    <3> HIDE DEF m
    <3> QED BY <1>0 DEF LoopTypes
  <2> QED BY <1>2, <2>1, <2>2, PendingParts
<1>3. CASE Heartbeat
  <2> DEFINE v == sub[loop.id].lastValues
  <2>1. loop' = [loop EXCEPT !.at = "lookup", !.msg = v, !.beat = TRUE] =>
          Keeps("lookup") /\ loop'.msg = v
    <3> HIDE DEF v
    <3> QED BY <1>0 DEF LoopTypes, Keeps
  <2> QED BY <1>03, <1>3, <2>1, BeatParts
<1>4. CASE LookupConnection
  <2>1. /\ loop.at = "lookup"
        /\ \/ loop' = [loop EXCEPT !.at = "send"]
           \/ (loop.id \notin subscriptionMap \/ ~ conn.up) /\ loop' = AfterMessage
    BY <1>4 DEF LookupConnection
  <2>2. loop' = [loop EXCEPT !.at = "send"] => Keeps("send") /\ loop'.msg = loop.msg
    BY <1>0 DEF LoopTypes, Keeps
  <2> QED BY <1>04, <1>4, <2>1, <2>2
<1>5. CASE Send BY <1>04, <1>5 DEF Send
<1> QED BY <1>1, <1>2, <1>3, <1>4, <1>5 DEF Loop

\* The loop apart from what else happens to the subscriptions.
LEMMA SubAndLoop ==
    ASSUME Typed, [Next]_vars
    PROVE  \/ UNCHANGED <<sub, manager, loop, due>>
           \/ Created /\ UNCHANGED <<loop, due>>
           \/ \E id \in subscriptions : RemovedBy(id)
           \/ \E w \in Writers : NotifyOne(w)
           \/ Loop \/ Tick
<1>1. CASE UNCHANGED <<sub, manager>>
  <2>1. Closer => UNCHANGED <<loop, due>>
    BY DEF Closer, Close, StopDispatcher, UnregisterConnection, UnsubscribeCopied
  <2> QED BY <1>1, <2>1, LoopStep
<1>2. Created => UNCHANGED <<loop, due>> BY DEF Created
<1>3. (\E id \in Ids : GetPendingNotification(id)) \/ Heartbeat => Loop BY DEF Loop
<1> QED BY <1>1, <1>2, <1>3, SubStep

\* A pass goes over subscriptions the manager has made.
PassInv ==
    /\ loop.todo \subseteq 1 .. lastId
    /\ loop.at \in {"beat", "lookup", "send"} => loop.id \in loop.todo
    /\ loop.at = "idle" => loop.todo = {}
    /\ due \/ closing \in {"stopped", "unregistered"} => loop.at = "idle"

\* Every step keeps the pass consistent with the manager and the tick.
LEMMA PassNext ==
    ASSUME Typed, PassInv, [Next]_vars
    PROVE  PassInv'
<1>0. lastId \in Nat /\ lastId' \in Nat /\ 1 .. lastId \subseteq 1 .. lastId'
  <2>1. IndexInv' /\ lastId <= lastId' BY NextIndex
  <2>2. lastId' \in Nat BY <2>1 DEF IndexInv
  <2>3. lastId \in Nat BY DEF Typed, IndexInv
  <2> QED BY <2>1, <2>2, <2>3
<1>1. CASE UNCHANGED <<loop, due, closing>> BY <1>0, <1>1 DEF PassInv
<1>2. CASE Loop
  <2>1. closing' = closing BY <1>2 DEF Loop, StartPass, GetPendingNotification, Heartbeat,
                                       LookupConnection, Send
  <2>2. subscriptions \subseteq 1 .. lastId BY DEF Typed, IndexInv
  <2>3. CASE StartPass
    <3>0. loop.at = "idle" BY <2>3 DEF StartPass
    <3>1. /\ due' = FALSE /\ closing \in {"open", "closed"}
          /\ loop'.at \in {"idle", "next"} /\ loop'.todo = subscriptions
          /\ loop'.at = "idle" => loop'.todo = {}
      BY <1>2, <3>0, LoopMoves
    <3> QED BY <1>0, <2>1, <2>2, <3>1 DEF PassInv
  <2>4. CASE ~ StartPass
    <3>1. due' = due /\ loop.at \in {"next", "beat", "lookup", "send"}
      BY <1>2, <2>4 DEF Loop, GetPendingNotification, Heartbeat, LookupConnection, Send
    <3>2. due = FALSE /\ closing \notin {"stopped", "unregistered"}
      <4>1. due \in BOOLEAN BY DEF Typed, LoopInv
      <4> QED BY <3>1, <4>1 DEF PassInv
    <3>3. /\ loop'.todo \subseteq loop.todo
          /\ loop'.at \in {"beat", "lookup", "send"} => loop'.id \in loop'.todo
          /\ loop'.at = "idle" => loop'.todo = {}
      BY <1>2, <2>4, LoopMoves DEF Skips, Keeps, PassInv
    <3> QED BY <1>0, <2>1, <3>1, <3>2, <3>3 DEF PassInv
  <2> QED BY <2>3, <2>4
<1>3. CASE Tick BY <1>0, <1>3 DEF Tick, PassInv
<1>4. CASE Closer
  <2>1. UNCHANGED <<loop, due>>
    BY <1>4 DEF Closer, Close, StopDispatcher, UnregisterConnection, UnsubscribeCopied
  <2>2. /\ closing' \in {"stopped", "unregistered"} =>
             loop.at = "idle" \/ closing \in {"stopped", "unregistered"}
    BY <1>4 DEF Closer, Close, StopDispatcher, UnregisterConnection, UnsubscribeCopied
  <2> QED BY <1>0, <2>1, <2>2 DEF PassInv
<1> QED BY <1>1, <1>2, <1>3, <1>4, LoopStep

\* A request's subscription is not acknowledged before its response.
AckedInv ==
    /\ acked \subseteq 1 .. lastId
    /\ reader.at \in {"prime", "map", "respond"} => reader.id \notin acked

\* Every step keeps acknowledgements behind the response.
LEMMA AckedNext ==
    ASSUME Typed, AckedInv, [Next]_vars
    PROVE  AckedInv'
<1>0. lastId \in Nat BY DEF Typed, IndexInv
<1>1. CASE UNCHANGED <<reader, lastId, acked>> BY <1>1 DEF AckedInv
<1>2. CASE Reader
  <2>1. CASE Begins \/ Proceeds BY <2>1 DEF Begins, Proceeds, Stays, AckedInv, manager, observed
  <2>2. CASE Created /\ reader'.at = "prime" /\ reader'.id = lastId'
    <3>1. lastId' = lastId + 1 /\ UNCHANGED acked BY <2>2 DEF Created, observed
    <3> QED BY <1>0, <2>2, <3>1 DEF AckedInv
  <2>3. CASE (Prime \/ MapSubscription) /\ reader'.id = reader.id /\ reader.at \in {"prime", "map"}
    BY <2>3 DEF Prime, MapSubscription, AckedInv, manager, observed
  <2>4. CASE Respond /\ reader.at = "respond" /\ reader'.at = "idle"
    <3>1. reader.id \in 1 .. lastId BY <1>0, <2>4 DEF Typed, ReaderInv, Ids
    <3>2. acked' = acked \cup {reader.id} /\ UNCHANGED lastId BY <2>4 DEF Respond, manager
    <3> QED BY <2>4, <3>1, <3>2 DEF AckedInv
  <2>5. CASE HandleUnsubscribe /\ reader'.at = "unmanage"
    BY <2>5 DEF HandleUnsubscribe, AckedInv, manager, observed
  <2>6. CASE Unmanage /\ reader'.at = "idle"
    BY <2>6 DEF Unmanage, AckedInv
  <2> QED BY <1>2, <2>1, <2>2, <2>3, <2>4, <2>5, <2>6, Moves
<1> QED BY <1>1, <1>2, ReaderStep

Sending(i) == loop.at \in {"lookup", "send"} /\ loop.id = i

\* A subscription whose maximum interval is over has the loop before it.
BeatInv ==
    \A i \in subscriptions :
        /\ sub[i].max \in 1 .. MaxAge - 1 /\ sub[i].lastNotified <= sub[i].max
        /\ sub[i].lastNotified < sub[i].max \/ due \/ (i \in loop.todo /\ ~ Sending(i))

\* Every step keeps the heartbeat within reach of the loop.
LEMMA BeatNext ==
    ASSUME Typed, ActiveInv, PassInv, BeatInv, [Next]_vars
    PROVE  BeatInv'
<1>0. /\ sub \in [Ids -> SubTypes] /\ sub' \in [Ids -> SubTypes] /\ subscriptions \subseteq Ids
      /\ loop \in LoopTypes /\ due \in BOOLEAN
  BY SubTyped DEF Typed, ActiveInv, LoopInv
<1>01. \A i \in Ids : sub[i].lastNotified \in Nat /\ sub[i].max \in Nat
  BY <1>0 DEF SubTypes, ConstantsAssumption
\* A subscription left as it is, and one just notified.
<1> DEFINE Kept(i) == sub'[i].max = sub[i].max /\ sub'[i].lastNotified = sub[i].lastNotified
           Reset(i) == sub'[i].max = sub[i].max /\ sub'[i].lastNotified = 0
           Good(i) == /\ sub'[i].max \in 1 .. MaxAge - 1 /\ sub'[i].lastNotified <= sub'[i].max
                      /\ sub'[i].lastNotified < sub'[i].max \/ due' \/ (i \in loop'.todo /\ ~ Sending(i)')
<1>02. ASSUME NEW i \in subscriptions, Reset(i) PROVE Good(i) BY <1>02 DEF BeatInv
<1>03. ASSUME NEW i \in subscriptions, Kept(i), UNCHANGED <<loop, due>> PROVE Good(i)
  BY <1>03 DEF BeatInv, Sending
<1>04. ASSUME NEW i \in subscriptions, Kept(i), sub[i].lastNotified < sub[i].max PROVE Good(i)
  BY <1>04 DEF BeatInv
<1>05. ASSUME \A i \in subscriptions' : Good(i) PROVE BeatInv' BY <1>05 DEF BeatInv, Sending
<1> HIDE DEF Good
<1>1. CASE UNCHANGED <<sub, manager, loop, due>> BY <1>03, <1>05, <1>1 DEF manager
<1>2. CASE Created /\ UNCHANGED <<loop, due>>
  <2>1. /\ lastId' \in Ids /\ Others(lastId') /\ subscriptions' = subscriptions \cup {lastId'}
        /\ sub'[lastId'].max = reader.req.max /\ sub'[lastId'].lastNotified = 0
    BY <1>2, CreatedParts DEF Created
  <2>2. reader.req.max \in Nat /\ reader.req.max > 0 /\ reader.req.max < MaxAge
    BY <1>2 DEF Created, Typed, ReaderInv, ReaderTypes, ReqTypes, Subscribing
  <2>3. ASSUME NEW i \in subscriptions', i = lastId' PROVE Good(i)
    BY <2>1, <2>2, <2>3 DEF Good, ConstantsAssumption
  <2>4. \A i \in subscriptions : i # lastId' => Good(i) BY <1>0, <1>03, <1>2, <2>1 DEF Others
  <2> QED BY <1>05, <2>1, <2>3, <2>4
<1>3. ASSUME NEW id \in subscriptions, RemovedBy(id) PROVE BeatInv'
  <2>1. /\ Others(id) /\ subscriptions' = subscriptions \ {id} /\ UNCHANGED <<loop, due>>
    BY <1>3, RemovedParts DEF RemovedBy, Removed
  <2> QED BY <1>0, <1>03, <1>05, <2>1 DEF Others
<1>4. ASSUME NEW w \in Writers, NotifyOne(w) PROVE BeatInv'
  <2>1. UNCHANGED <<loop, due, subscriptions>> /\ \A i \in subscriptions : Kept(i)
    <3>1. \E i \in Ids : /\ Others(i) /\ Same(sub[i], sub'[i])
                         /\ sub'[i].lastNotified = sub[i].lastNotified
      BY <1>4, NotifyParts
    <3> QED BY <1>0, <1>4, <3>1 DEF NotifyOne, Others, Same, manager
  <2> QED BY <1>03, <1>05, <2>1
<1>5. CASE StartPass
  <2>1. /\ loop.at = "idle" /\ UNCHANGED <<sub, subscriptions>>
        /\ loop'.at \in {"idle", "next"} /\ loop'.todo = subscriptions
    <3>1. loop.at = "idle" /\ UNCHANGED <<sub, subscriptions>> BY <1>5 DEF StartPass, manager
    <3> QED BY <1>5, <3>1, LoopMoves DEF Loop
  <2>2. \A i \in subscriptions : Good(i) BY <2>1 DEF Good, BeatInv, Sending
  <2> QED BY <1>05, <2>1, <2>2
<1>6. CASE Loop /\ ~ StartPass
  <2>1. subscriptions' = subscriptions /\ loop.at # "idle" /\ ~ due /\ UNCHANGED due
    <3>1. /\ subscriptions' = subscriptions /\ loop.at \in {"next", "beat", "lookup", "send"}
          /\ UNCHANGED due
      BY <1>6 DEF Loop, GetPendingNotification, Heartbeat, LookupConnection, Send, manager
    <3> QED BY <3>1 DEF PassInv
  <2>2. CASE \E i \in Ids : GetPendingNotification(i)
    <3>1. PICK i \in Ids : /\ GetPendingNotification(i) /\ loop'.todo = loop.todo /\ loop'.id = i
                           /\ (loop'.at = "beat" /\ sub' = sub) \/ Takes(i)
                           /\ loop'.at \in {"beat", "lookup"}
                           /\ loop.at = "next"
      <4>1. loop.at = "next" BY <2>2 DEF GetPendingNotification
      <4> QED BY <1>6, <4>1, LoopMoves
    <3>2. Others(i) /\ Same(sub[i], sub'[i]) BY <3>1, PendingParts
    <3>3. ASSUME NEW j \in subscriptions, j # i PROVE Good(j)
      <4>1. sub'[j] = sub[j] BY <1>0, <3>2, <3>3 DEF Others
      <4> QED BY <2>1, <3>1, <3>3, <4>1 DEF Good, BeatInv, Sending
    <3>4. ASSUME i \in subscriptions PROVE Good(i)
      <4>1. CASE Takes(i) BY <1>02, <3>2, <3>4, <4>1 DEF Takes, Same
      <4>2. CASE sub' = sub /\ loop'.at = "beat"
        BY <2>1, <3>1, <3>4, <4>2 DEF Good, BeatInv, Sending
      <4> QED BY <3>1, <4>1, <4>2
    <3> QED BY <1>05, <2>1, <3>3, <3>4
  <2>3. CASE Heartbeat
    <3>0. loop.at = "beat" BY <2>3 DEF Heartbeat
    <3>1. /\ loop.id \in Ids /\ Others(loop.id)
          /\ \/ /\ Skips /\ UNCHANGED sub
                /\ ~(sub[loop.id].active /\ sub[loop.id].lastNotified >= sub[loop.id].max)
             \/ /\ Keeps("lookup") /\ sub'[loop.id] = [sub[loop.id] EXCEPT !.lastNotified = 0]
      BY <1>6, <2>3, <3>0, LoopMoves, BeatParts
    <3>2. ASSUME NEW j \in subscriptions, j # loop.id PROVE Good(j)
      <4>1. sub'[j] = sub[j] BY <1>0, <3>1, <3>2 DEF Others
      <4>2. j \in loop.todo => j \in loop'.todo BY <3>1, <3>2 DEF Skips, Keeps
      <4>3. ~ Sending(j)' BY <3>1, <3>2 DEF Skips, Keeps, Sending
      <4> QED BY <2>1, <4>1, <4>2, <4>3 DEF Good, BeatInv
    <3>3. ASSUME loop.id \in subscriptions PROVE Good(loop.id)
      <4>1. sub[loop.id].active BY <3>3 DEF ActiveInv
      <4>2. CASE Skips /\ UNCHANGED sub
                 /\ ~(sub[loop.id].active /\ sub[loop.id].lastNotified >= sub[loop.id].max)
        BY <1>01, <1>04, <3>1, <3>3, <4>1, <4>2
      <4>3. CASE Keeps("lookup") /\ sub'[loop.id] = [sub[loop.id] EXCEPT !.lastNotified = 0]
        <5>1. Reset(loop.id) BY <1>0, <3>1, <4>3 DEF SubTypes
        <5> QED BY <1>02, <3>3, <5>1
      <4> QED BY <3>1, <4>2, <4>3
    <3> QED BY <1>05, <2>1, <3>2, <3>3
  <2>4. CASE LookupConnection \/ Send
    <3>0. loop.at \in {"lookup", "send"} /\ UNCHANGED sub BY <2>4 DEF LookupConnection, Send
    <3>1. Keeps("send") \/ Skips \/ Keeps("beat") BY <1>6, <3>0, LoopMoves
    <3>2. ASSUME NEW j \in subscriptions, j # loop.id PROVE Good(j)
      <4>1. j \in loop.todo => j \in loop'.todo BY <3>1, <3>2 DEF Skips, Keeps
      <4>2. ~ Sending(j)' BY <3>1, <3>2 DEF Skips, Keeps, Sending
      <4> QED BY <2>1, <3>0, <4>1, <4>2 DEF Good, BeatInv
    <3>3. ASSUME loop.id \in subscriptions PROVE Good(loop.id)
      <4>1. sub[loop.id].lastNotified < sub[loop.id].max
        BY <2>1, <3>0, <3>3 DEF BeatInv, Sending
      <4> QED BY <1>04, <3>0, <3>3, <4>1
    <3> QED BY <1>05, <2>1, <3>2, <3>3
  <2> QED BY <1>6, <2>2, <2>3, <2>4 DEF Loop
<1>7. CASE Tick
  <2>1. /\ loop.at = "idle" /\ ~ due /\ due' /\ UNCHANGED <<subscriptions, loop>>
        /\ \A i \in subscriptions : /\ Same(sub[i], sub'[i])
                                    /\ sub'[i].lastNotified = Older(sub[i].lastNotified)
    BY <1>7, TickParts DEF manager
  <2>2. ASSUME NEW i \in subscriptions PROVE Good(i)
    <3>1. sub[i].lastNotified < sub[i].max BY <2>1 DEF BeatInv, PassInv
    <3>2. sub[i].max \in 1 .. MaxAge - 1 /\ sub[i].lastNotified \in Nat /\ MaxAge \in Nat
      BY <1>0, <1>01 DEF BeatInv, ConstantsAssumption
    <3>3. Older(sub[i].lastNotified) <= sub[i].max BY <3>1, <3>2 DEF Older
    <3> QED BY <2>1, <3>2, <3>3 DEF Good, Same
  <2> QED BY <1>05, <2>1, <2>2
<1> QED BY <1>1, <1>2, <1>3, <1>4, <1>5, <1>6, <1>7, SubAndLoop

\* The device's timer and the controller's agree, but for a message on its way.
SilenceInv ==
    \A i \in Live \ bounced : i \in subscriptionMap =>
        silence[i] <= sub[i].lastNotified \/ (Sending(i) /\ silence[i] <= sub[i].max)

\* Every step keeps the two timers together.
LEMMA SilenceNext ==
    ASSUME Typed, ActiveInv, RoutesInv, PassInv, AckedInv, BeatInv, SilenceInv, [Next]_vars
    PROVE  SilenceInv'
<1>0. /\ sub \in [Ids -> SubTypes] /\ sub' \in [Ids -> SubTypes] /\ subscriptions \subseteq Ids
      /\ silence \in [Ids -> 0 .. MaxAge] /\ silence' \in [Ids -> 0 .. MaxAge]
      /\ acked \subseteq Ids /\ acked' \subseteq Ids /\ lastId \in Nat
  <2>1. ObservedInv' BY ObservedTyped
  <2>2. silence' \in [Ids -> 0 .. MaxAge] /\ acked' \subseteq Ids BY <2>1 DEF ObservedInv
  <2>3. silence \in [Ids -> 0 .. MaxAge] /\ acked \subseteq Ids BY DEF Typed, ObservedInv
  <2>4. sub \in [Ids -> SubTypes] /\ lastId \in Nat BY DEF Typed, IndexInv
  <2>5. subscriptions \subseteq Ids BY DEF ActiveInv
  <2> QED BY <2>2, <2>3, <2>4, <2>5, SubTyped
<1>01. \A i \in Ids : /\ sub[i].lastNotified \in Nat /\ sub[i].max \in Nat /\ silence[i] \in Nat
                      /\ sub'[i].lastNotified \in Nat /\ sub'[i].max \in Nat /\ silence'[i] \in Nat
  BY <1>0 DEF SubTypes, ConstantsAssumption
<1> DEFINE Watched(i) == i \in acked /\ i \in subscriptions /\ i \notin bounced /\ i \in subscriptionMap
           Good(i) == \/ silence'[i] <= sub'[i].lastNotified
                      \/ Sending(i)' /\ silence'[i] <= sub'[i].max
           Kept(i) == /\ sub'[i].max = sub[i].max /\ sub'[i].lastNotified = sub[i].lastNotified
                      /\ silence'[i] = silence[i]
<1>02. ASSUME NEW i \in Ids, Watched(i), Kept(i), UNCHANGED loop PROVE Good(i)
  BY <1>02 DEF SilenceInv, Live, Sending
<1>03. ASSUME NEW i \in Ids, Watched(i), Kept(i), ~ Sending(i) PROVE Good(i)
  BY <1>03 DEF SilenceInv, Live
<1>04. ASSUME NEW i \in Ids, silence'[i] = 0 PROVE Good(i) BY <1>01, <1>04
<1>05. ASSUME NEW i \in Ids, Watched(i), ~ Sending(i), Sending(i)', silence'[i] = silence[i],
              sub'[i].max = sub[i].max
       PROVE  Good(i)
  BY <1>01, <1>05 DEF SilenceInv, BeatInv, Live
<1>06. ASSUME \A i \in Ids : Watched(i)' => Good(i) PROVE SilenceInv'
  BY <1>0, <1>06 DEF SilenceInv, Live, Sending
<1> HIDE DEF Good
<1>1. CASE UNCHANGED <<sub, subscriptions, subscriptionMap, loop, acked, bounced, silence>>
  BY <1>02, <1>06, <1>1
<1>2. CASE Reader
  <2>0. UNCHANGED loop
    BY <1>2, Moves DEF Begins, Proceeds, Stays, Created, Prime, MapSubscription, Respond,
                       HandleUnsubscribe, Unmanage
  <2>1. CASE Begins \/ Proceeds
    BY <1>1, <2>1 DEF Begins, Proceeds, Stays, manager, dispatcher, observed
  <2>2. CASE Created
    <3>1. /\ lastId' \notin acked /\ Others(lastId') /\ subscriptions' = subscriptions \cup {lastId'}
          /\ UNCHANGED <<subscriptionMap, acked, bounced, silence>>
      <4>1. lastId' = lastId + 1 /\ Others(lastId') BY <2>2, CreatedParts
      <4>2. lastId' \notin acked BY <1>0, <4>1 DEF AckedInv
      <4> QED BY <2>2, <4>1, <4>2 DEF Created, observed, dispatcher
    <3>2. ASSUME NEW i \in Ids, Watched(i)' PROVE Good(i)
      <4>1. Watched(i) /\ Kept(i) BY <3>1, <3>2 DEF Others
      <4> QED BY <1>02, <2>0, <4>1
    <3> QED BY <1>06, <3>2
  <2>3. CASE Prime
    <3>1. /\ UNCHANGED <<sub, subscriptions, subscriptionMap, acked, bounced>>
          /\ silence' = silence \/ silence' = [silence EXCEPT ![reader.id] = 0]
      BY <2>3 DEF Prime, Deliver, manager, dispatcher
    <3>2. ASSUME NEW i \in Ids, Watched(i)' PROVE Good(i)
      <4>1. Watched(i) /\ (Kept(i) \/ silence'[i] = 0) BY <1>0, <3>1, <3>2
      <4> QED BY <1>02, <1>04, <2>0, <4>1
    <3> QED BY <1>06, <3>2
  <2>4. CASE MapSubscription /\ reader.at = "map"
    <3>1. /\ UNCHANGED <<sub, subscriptions, acked, bounced, silence>> /\ reader.id \notin acked
          /\ subscriptionMap' = subscriptionMap \cup {reader.id}
      BY <2>4 DEF MapSubscription, manager, observed, AckedInv
    <3>2. ASSUME NEW i \in Ids, Watched(i)' PROVE Good(i)
      <4>1. Watched(i) /\ Kept(i) BY <3>1, <3>2
      <4> QED BY <1>02, <2>0, <4>1
    <3> QED BY <1>06, <3>2
  <2>5. CASE Respond
    <3>1. /\ UNCHANGED <<sub, subscriptions, subscriptionMap, bounced>>
          /\ acked' = acked \cup {reader.id} /\ silence' = [silence EXCEPT ![reader.id] = 0]
      BY <2>5 DEF Respond, Deliver, manager, dispatcher
    <3>2. ASSUME NEW i \in Ids, Watched(i)' PROVE Good(i)
      <4>1. (Watched(i) /\ Kept(i)) \/ silence'[i] = 0 BY <1>0, <3>1, <3>2
      <4> QED BY <1>02, <1>04, <2>0, <4>1
    <3> QED BY <1>06, <3>2
  <2>6. CASE HandleUnsubscribe
    <3>1. /\ UNCHANGED <<sub, subscriptions, acked, bounced, silence>>
          /\ subscriptionMap' \subseteq subscriptionMap
      BY <2>6 DEF HandleUnsubscribe, manager, dispatcher, observed
    <3>2. ASSUME NEW i \in Ids, Watched(i)' PROVE Good(i)
      <4>1. Watched(i) /\ Kept(i) BY <3>1, <3>2
      <4> QED BY <1>02, <2>0, <4>1
    <3> QED BY <1>06, <3>2
  <2>7. CASE Unmanage
    <3>1. /\ UNCHANGED subscriptionMap /\ acked' = acked \ {reader.id}
          /\ bounced' = bounced \ {reader.id} /\ silence' = [silence EXCEPT ![reader.id] = 0]
          /\ (Removed(reader.id) /\ reader.id \in subscriptions) \/ UNCHANGED <<sub, subscriptions>>
      BY <2>7 DEF Unmanage, Unsubscribe, Removed, dispatcher
    <3>2. subscriptions' \subseteq subscriptions /\ Others(reader.id)
      BY <3>1, RemovedParts DEF Others
    <3>3. ASSUME NEW i \in Ids, Watched(i)' PROVE Good(i)
      <4>1. Watched(i) /\ Kept(i) BY <1>0, <3>1, <3>2, <3>3 DEF Others
      <4> QED BY <1>02, <2>0, <4>1
    <3> QED BY <1>06, <3>3
  <2> QED BY <1>2, <2>1, <2>2, <2>3, <2>4, <2>5, <2>6, <2>7, Moves
<1>3. ASSUME NEW w \in Writers, Writer(w) PROVE SilenceInv'
  <2>1. UNCHANGED <<subscriptions, subscriptionMap, loop, acked, bounced, silence>>
    BY <1>3 DEF Writer, SetAttribute, TakeSlice, NotifyOne, manager, dispatcher, observed
  <2>2. CASE NotifyOne(w)
    <3>1. \E i \in Ids : /\ Others(i) /\ Same(sub[i], sub'[i])
                         /\ sub'[i].lastNotified = sub[i].lastNotified
      BY <2>2, NotifyParts
    <3>2. \A i \in Ids : Kept(i) BY <2>1, <3>1 DEF Others, Same
    <3> QED BY <1>02, <1>06, <2>1, <3>2
  <2>3. CASE ~ NotifyOne(w)
    <3>1. UNCHANGED sub BY <1>3, <2>3 DEF Writer, SetAttribute, TakeSlice
    <3> QED BY <1>1, <2>1, <3>1
  <2> QED BY <2>2, <2>3
<1>4. ASSUME NEW a \in Attrs, NEW v \in Values, SetDirectly(a, v) PROVE SilenceInv'
  BY <1>1, <1>4 DEF SetDirectly, manager, dispatcher, observed
<1>5. CASE StartPass
  <2>1. /\ loop.at = "idle" /\ UNCHANGED <<sub, subscriptions, subscriptionMap, acked, bounced, silence>>
    BY <1>5 DEF StartPass, manager, dispatcher, observed
  <2>2. \A i \in Ids : ~ Sending(i) BY <2>1 DEF Sending
  <2> QED BY <1>03, <1>06, <2>1, <2>2
<1>6. ASSUME NEW i \in Ids, GetPendingNotification(i) PROVE SilenceInv'
  <2>0. loop.at = "next" BY <1>6 DEF GetPendingNotification
  <2>1. PICK j \in Ids : /\ GetPendingNotification(j) /\ loop'.id = j
                         /\ \/ loop'.at = "beat" /\ UNCHANGED <<sub, gap, bounced>>
                            \/ loop'.at = "beat" /\ Takes(j) /\ bounced' = bounced \cup {j}
                            \/ loop'.at = "lookup" /\ Takes(j) /\ UNCHANGED bounced
    BY <1>6, <2>0, LoopMoves DEF Loop
  <2>2. /\ UNCHANGED <<subscriptions, subscriptionMap, acked, silence>>
        /\ Others(j) /\ Same(sub[j], sub'[j])
    BY <2>1, PendingParts DEF manager, dispatcher
  <2>3. \A k \in Ids : ~ Sending(k) BY <2>0 DEF Sending
  <2>4. ASSUME NEW k \in Ids, Watched(k)' PROVE Good(k)
    <3>1. Watched(k) BY <2>1, <2>2, <2>4
    <3>2. CASE Kept(k) BY <1>03, <2>3, <3>1, <3>2
    <3>3. CASE ~ Kept(k)
      <4>1. k = j /\ sub' # sub BY <2>2, <3>3 DEF Others
      <4>2. loop'.at = "lookup" BY <2>1, <2>4, <4>1
      <4>3. Sending(k)' BY <2>1, <4>1, <4>2 DEF Sending
      <4>4. sub'[k].max = sub[k].max BY <2>2, <4>1 DEF Same
      <4> QED BY <1>05, <2>2, <2>3, <3>1, <4>3, <4>4
    <3> QED BY <3>2, <3>3
  <2> QED BY <1>06, <2>4
<1>7. CASE Heartbeat
  <2>0. loop.at = "beat" BY <1>7 DEF Heartbeat
  <2>1. /\ loop.id \in Ids /\ Others(loop.id)
        /\ UNCHANGED <<subscriptions, subscriptionMap, acked, bounced, silence>>
        /\ \/ UNCHANGED sub
           \/ Keeps("lookup") /\ sub'[loop.id] = [sub[loop.id] EXCEPT !.lastNotified = 0]
    BY <1>7, <2>0, LoopMoves, BeatParts DEF Loop, manager, dispatcher, observed
  <2>2. \A k \in Ids : ~ Sending(k) BY <2>0 DEF Sending
  <2>3. sub'[loop.id].max = sub[loop.id].max BY <1>0, <2>1 DEF SubTypes
  <2>4. ASSUME NEW k \in Ids, Watched(k)' PROVE Good(k)
    <3>1. Watched(k) BY <2>1, <2>4
    <3>2. CASE Kept(k) BY <1>03, <2>2, <3>1, <3>2
    <3>3. CASE ~ Kept(k)
      <4>1. k = loop.id /\ sub' # sub BY <2>1, <3>3 DEF Others
      <4>2. Sending(k)' BY <2>1, <4>1 DEF Sending, Keeps
      <4> QED BY <1>05, <2>1, <2>2, <2>3, <3>1, <4>1, <4>2
    <3> QED BY <3>2, <3>3
  <2> QED BY <1>06, <2>4
<1>8. CASE LookupConnection
  <2>0. /\ loop.at = "lookup"
        /\ UNCHANGED <<sub, subscriptions, subscriptionMap, acked, bounced, silence>>
    BY <1>8 DEF LookupConnection, manager, dispatcher, observed
  <2>1. Keeps("send") \/ loop.id \notin subscriptionMap
    <3>1. conn.up BY <2>0 DEF PassInv, RoutesInv
    <3> QED BY <1>8, <2>0, <3>1, LoopMoves DEF Loop
  <2>2. ASSUME NEW k \in Ids, Watched(k)' PROVE Good(k)
    <3>1. Watched(k) /\ Kept(k) BY <2>0, <2>2
    <3>2. CASE Sending(k)
      <4>1. Sending(k)' /\ loop.id = k BY <2>1, <3>1, <3>2 DEF Sending, Keeps
      <4> QED BY <2>0, <3>1, <3>2, <4>1 DEF Good, SilenceInv, Live
    <3> QED BY <1>03, <3>1, <3>2
  <2> QED BY <1>06, <2>2
<1>9. CASE Send
  <2>1. /\ loop.at = "send" /\ silence' = [silence EXCEPT ![loop.id] = 0]
        /\ UNCHANGED <<sub, subscriptions, subscriptionMap, acked, bounced>>
    BY <1>9 DEF Send, Deliver, manager, dispatcher
  <2>2. ASSUME NEW k \in Ids, Watched(k)' PROVE Good(k)
    <3>1. CASE k = loop.id BY <1>0, <1>04, <2>1, <3>1
    <3>2. CASE k # loop.id
      <4>1. Watched(k) /\ Kept(k) /\ ~ Sending(k) BY <1>0, <2>1, <2>2, <3>2 DEF Sending
      <4> QED BY <1>03, <4>1
    <3> QED BY <3>1, <3>2
  <2> QED BY <1>06, <2>2
<1>10. CASE Tick
  <2>1. /\ loop.at = "idle" /\ UNCHANGED <<subscriptions, subscriptionMap, acked, bounced>>
        /\ \A i \in subscriptions : sub'[i].lastNotified = Older(sub[i].lastNotified)
    BY <1>10, TickParts DEF manager, dispatcher
  <2>2. \A i \in acked : silence'[i] = Older(silence[i]) BY <1>0, <1>10 DEF Tick
  <2>3. \A m, n \in Nat : m <= n => Older(m) <= Older(n) BY DEF Older, ConstantsAssumption
  <2>4. ASSUME NEW k \in Ids, Watched(k)' PROVE Good(k)
    <3>1. Watched(k) /\ ~ Sending(k) BY <2>1, <2>4 DEF Sending
    <3>2. silence[k] <= sub[k].lastNotified BY <3>1 DEF SilenceInv, Live
    <3> QED BY <1>01, <2>1, <2>2, <2>3, <3>1, <3>2 DEF Good
  <2> QED BY <1>06, <2>4
<1>11. CASE Close \/ StopDispatcher
  BY <1>1, <1>11 DEF Close, StopDispatcher, manager, dispatcher, observed
<1>12. CASE UnregisterConnection
  <2>1. /\ UNCHANGED <<sub, subscriptions, loop, acked, bounced, silence>>
        /\ subscriptionMap' \subseteq subscriptionMap
    BY <1>12 DEF UnregisterConnection, manager, observed
  <2>2. ASSUME NEW i \in Ids, Watched(i)' PROVE Good(i)
    <3>1. Watched(i) /\ Kept(i) BY <2>1, <2>2
    <3> QED BY <1>02, <2>1, <3>1
  <2> QED BY <1>06, <2>2
<1>13. ASSUME NEW j \in Ids, UnsubscribeCopied(j) PROVE SilenceInv'
  <2>1. /\ UNCHANGED <<subscriptionMap, loop, acked, bounced, silence>>
        /\ \/ UNCHANGED <<sub, subscriptions>>
           \/ /\ j \in subscriptions /\ subscriptions' = subscriptions \ {j}
              /\ sub' = [sub EXCEPT ![j] = Unused]
    BY <1>13 DEF UnsubscribeCopied, Unsubscribe, observed
  <2>2. ASSUME NEW i \in Ids, Watched(i)' PROVE Good(i)
    <3>1. Watched(i) /\ Kept(i) BY <1>0, <2>1, <2>2
    <3> QED BY <1>02, <2>1, <3>1
  <2> QED BY <1>06, <2>2
<1>14. CASE UNCHANGED vars BY <1>1, <1>14 DEF vars, manager, dispatcher, observed
<1> QED BY <1>2, <1>3, <1>4, <1>5, <1>6, <1>7, <1>8, <1>9, <1>10, <1>11, <1>12, <1>13, <1>14,
           StepCases DEF Loop, Closer

TimesInv == PassInv /\ AckedInv /\ BeatInv /\ SilenceInv

\* Passes, acknowledgements and timers are consistent in every state.
LEMMA AlwaysInTime == Spec => []TimesInv
<1>1. Init => TimesInv
  BY StartTypes DEF Init, TimesInv, PassInv, AckedInv, BeatInv, SilenceInv, Live
<1>2. Typed /\ ActiveInv /\ RoutesInv /\ TimesInv /\ [Next]_vars => TimesInv'
  <2> SUFFICES ASSUME Typed, ActiveInv, RoutesInv, TimesInv, [Next]_vars PROVE TimesInv' OBVIOUS
  <2>1. PassInv /\ AckedInv /\ BeatInv /\ SilenceInv BY DEF TimesInv
  <2> QED BY <2>1, PassNext, AckedNext, BeatNext, SilenceNext DEF TimesInv
<1> QED BY <1>1, <1>2, AlwaysTyped, AlwaysRouted, PTL DEF Spec

\* No subscription is silent for longer than its maximum interval, unless all
\* its changes were suppressed once (GetPendingNotification, Heartbeat).
THEOREM HeartbeatInTimeUnlessBounce == Spec => []HeartbeatUnlessBounce
<1>1. Typed /\ ActiveInv /\ TimesInv => HeartbeatUnlessBounce
  <2> SUFFICES ASSUME Typed, ActiveInv, TimesInv, NEW i \in Live \ bounced, i \in subscriptionMap
               PROVE  silence[i] <= sub[i].max
    BY DEF HeartbeatUnlessBounce
  <2>1. i \in subscriptions /\ i \in Ids BY DEF Live, ActiveInv
  <2>2. sub[i] \in SubTypes /\ silence[i] \in 0 .. MaxAge BY <2>1 DEF Typed, ObservedInv
  <2>3. sub[i].lastNotified \in Nat /\ sub[i].max \in Nat /\ silence[i] \in Nat
    BY <2>2 DEF SubTypes, ConstantsAssumption
  <2>4. sub[i].lastNotified <= sub[i].max BY <2>1 DEF TimesInv, BeatInv
  <2>5. silence[i] <= sub[i].lastNotified \/ silence[i] <= sub[i].max
    BY DEF TimesInv, SilenceInv
  <2> QED BY <2>3, <2>4, <2>5
<1> QED BY <1>1, AlwaysTyped, AlwaysRouted, AlwaysInTime, PTL

-----------------------------------------------------------------------------
(* What the controller knows. *)

\* A message carries the values last taken; without changes nothing is pending.
MessageInv ==
    \A i \in subscriptions :
        /\ Sending(i) => \A a \in DOMAIN loop.msg :
              a \in DOMAIN sub[i].lastValues /\ loop.msg[a] = sub[i].lastValues[a]
        /\ sub[i].hasChanges \/ DOMAIN sub[i].pending = {}

\* Every step keeps messages and pending changes consistent with the objects.
LEMMA MessageNext ==
    ASSUME Typed, ActiveInv, PassInv, MessageInv, [Next]_vars
    PROVE  MessageInv'
<1>0. /\ sub \in [Ids -> SubTypes] /\ subscriptions \subseteq Ids /\ lastId \in Nat
  BY DEF Typed, ActiveInv, IndexInv
<1> DEFINE Kept(i) == /\ sub'[i].lastValues = sub[i].lastValues /\ sub'[i].pending = sub[i].pending
                      /\ sub'[i].hasChanges = sub[i].hasChanges
           GoodMsg(i) == Sending(i)' => \A a \in DOMAIN loop'.msg :
                            a \in DOMAIN sub'[i].lastValues /\ loop'.msg[a] = sub'[i].lastValues[a]
           GoodPending(i) == sub'[i].hasChanges \/ DOMAIN sub'[i].pending = {}
<1>01. ASSUME NEW i \in subscriptions, Kept(i) PROVE GoodPending(i) BY <1>01 DEF MessageInv
<1>02. ASSUME NEW i \in subscriptions, sub'[i].lastValues = sub[i].lastValues, UNCHANGED loop
       PROVE  GoodMsg(i)
  BY <1>02 DEF MessageInv, Sending
<1>03. ASSUME \A i \in subscriptions' : GoodMsg(i) /\ GoodPending(i) PROVE MessageInv'
  BY <1>03 DEF MessageInv, Sending
<1>04. ASSUME NEW i, ~ Sending(i)' PROVE GoodMsg(i) BY <1>04
<1> HIDE DEF GoodMsg, GoodPending
<1>1. CASE UNCHANGED <<sub, manager, loop, due>> BY <1>01, <1>02, <1>03, <1>1 DEF manager
<1>2. CASE Created /\ UNCHANGED <<loop, due>>
  <2>1. /\ lastId' \in Ids /\ Others(lastId') /\ subscriptions' = subscriptions \cup {lastId'}
        /\ sub'[lastId'].pending = Empty /\ lastId' = lastId + 1
    BY <1>2, CreatedParts DEF Created
  <2>2. ASSUME NEW i \in subscriptions', i = lastId' PROVE GoodMsg(i) /\ GoodPending(i)
    <3>1. loop.at \in {"lookup", "send"} => loop.id \in 1 .. lastId BY DEF PassInv
    <3>2. ~ Sending(i)' BY <1>0, <1>2, <2>1, <2>2, <3>1 DEF Sending
    <3>3. GoodMsg(i) BY <1>04, <3>2
    <3> QED BY <2>1, <2>2, <3>3, EmptyMap DEF GoodPending
  <2>3. ASSUME NEW i \in subscriptions', i # lastId' PROVE GoodMsg(i) /\ GoodPending(i)
    BY <1>0, <1>01, <1>02, <1>2, <2>1, <2>3 DEF Others
  <2> QED BY <1>03, <2>2, <2>3
<1>3. ASSUME NEW id \in subscriptions, RemovedBy(id) PROVE MessageInv'
  <2>1. /\ Others(id) /\ subscriptions' = subscriptions \ {id} /\ UNCHANGED <<loop, due>>
    BY <1>3, RemovedParts DEF RemovedBy, Removed
  <2> QED BY <1>0, <1>01, <1>02, <1>03, <2>1 DEF Others
<1>4. ASSUME NEW w \in Writers, NotifyOne(w) PROVE MessageInv'
  <2>1. PICK i \in Ids : /\ Others(i) /\ sub'[i].lastValues = sub[i].lastValues
                         /\ sub'[i] = sub[i] \/ sub'[i].hasChanges
    BY <1>4, NotifyParts
  <2>2. UNCHANGED <<loop, subscriptions>> BY <1>4 DEF NotifyOne, manager
  <2>3. \A j \in subscriptions : GoodMsg(j) BY <1>0, <1>02, <2>1, <2>2 DEF Others
  <2>4. \A j \in subscriptions : GoodPending(j)
    <3>1. ASSUME NEW j \in subscriptions PROVE GoodPending(j)
      <4>1. CASE sub'[j] = sub[j] BY <1>01, <3>1, <4>1
      <4>2. CASE sub'[j].hasChanges BY <4>2 DEF GoodPending
      <4> QED BY <1>0, <2>1, <4>1, <4>2 DEF Others
    <3> QED BY <3>1
  <2> QED BY <1>03, <2>2, <2>3, <2>4
<1>5. CASE StartPass
  <2>1. loop.at = "idle" /\ UNCHANGED <<sub, subscriptions>> BY <1>5 DEF StartPass, manager
  <2>2. loop'.at \in {"idle", "next"} BY <1>5, <2>1, LoopMoves DEF Loop
  <2>3. \A i \in Ids : ~ Sending(i)' BY <2>2 DEF Sending
  <2> QED BY <1>0, <1>01, <1>03, <1>04, <2>1, <2>3
<1>6. ASSUME NEW j \in Ids, GetPendingNotification(j) PROVE MessageInv'
  <2>0. loop.at = "next" BY <1>6 DEF GetPendingNotification
  <2>1. PICK i \in Ids : /\ GetPendingNotification(i) /\ loop'.id = i
                         /\ \/ loop'.at = "beat" /\ UNCHANGED <<sub, gap, bounced>>
                            \/ loop'.at = "beat" /\ Takes(i)
                            \/ loop'.at = "lookup" /\ loop'.msg = Changes(sub[i]) /\ Takes(i)
    BY <1>6, <2>0, LoopMoves DEF Loop
  <2>2. UNCHANGED subscriptions /\ Others(i) BY <2>1, PendingParts DEF manager
  <2>3. ASSUME NEW k \in subscriptions, k # i PROVE GoodMsg(k) /\ GoodPending(k)
    <3>1. ~ Sending(k)' BY <2>1, <2>3 DEF Sending
    <3> QED BY <1>0, <1>01, <1>04, <2>2, <2>3, <3>1 DEF Others
  <2>4. ASSUME i \in subscriptions PROVE GoodMsg(i)
    <3>1. CASE loop'.at = "beat" BY <3>1 DEF GoodMsg, Sending
    <3>2. CASE loop'.at = "lookup" /\ loop'.msg = Changes(sub[i]) /\ Takes(i)
      <4>1. sub[i] \in SubTypes BY <1>0
      <4>2. Changes(sub[i]) \in Maps /\ sub[i].lastValues \in Maps
        BY <4>1, ChangesTyped DEF SubTypes
      <4> DEFINE m == Changes(sub[i])
      <4>3. sub'[i].lastValues = Update(sub[i].lastValues, m) /\ loop'.msg = m BY <3>2 DEF Takes
      <4> HIDE DEF m
      <4>4. m \in Maps BY <4>2 DEF m
      <4>5. \A a \in DOMAIN m : /\ a \in DOMAIN Update(sub[i].lastValues, m)
                                /\ Update(sub[i].lastValues, m)[a] = m[a]
        <5> DEFINE v == sub[i].lastValues
        <5>1. v \in Maps BY <4>2
        <5> HIDE DEF v
        <5>2. DOMAIN Update(v, m) = DOMAIN v \cup DOMAIN m /\ \A a \in DOMAIN m : Update(v, m)[a] = m[a]
          BY <4>4, <5>1, UpdateMap
        <5> QED BY <5>2 DEF v
      <4> QED BY <4>3, <4>5 DEF GoodMsg
    <3> QED BY <2>1, <3>1, <3>2
  <2>5. ASSUME i \in subscriptions PROVE GoodPending(i)
    BY <1>01, <2>1, <2>5, EmptyMap DEF Takes, GoodPending
  <2> QED BY <1>03, <2>2, <2>3, <2>4, <2>5
<1>7. CASE Heartbeat
  <2>0. loop.at = "beat" BY <1>7 DEF Heartbeat
  <2>1. /\ loop.id \in Ids /\ Others(loop.id) /\ UNCHANGED subscriptions
        /\ \/ Skips /\ UNCHANGED sub
           \/ /\ Keeps("lookup") /\ sub'[loop.id] = [sub[loop.id] EXCEPT !.lastNotified = 0]
              /\ loop'.msg = sub[loop.id].lastValues
    BY <1>7, <2>0, LoopMoves, BeatParts DEF Loop, manager
  <2>2. Kept(loop.id) BY <1>0, <2>1 DEF SubTypes
  <2>3. \A i \in subscriptions : Kept(i) BY <1>0, <2>1, <2>2 DEF Others
  <2>4. ASSUME NEW i \in subscriptions PROVE GoodMsg(i)
    <3>1. CASE Sending(i)'
      <4>1. i = loop.id /\ loop'.msg = sub[loop.id].lastValues
        BY <2>1, <3>1 DEF Skips, Keeps, Sending
      <4> QED BY <2>2, <4>1 DEF GoodMsg
    <3> QED BY <1>04, <3>1
  <2> QED BY <1>01, <1>03, <2>1, <2>3, <2>4
<1>8. CASE LookupConnection \/ Send
  <2>0. loop.at \in {"lookup", "send"} /\ UNCHANGED <<sub, subscriptions>>
    BY <1>8 DEF LookupConnection, Send, manager
  <2>1. (Keeps("send") /\ loop'.msg = loop.msg) \/ Skips \/ Keeps("beat")
    BY <1>8, <2>0, LoopMoves DEF Loop
  <2>2. ASSUME NEW i \in subscriptions PROVE GoodMsg(i)
    <3>1. CASE Sending(i)'
      <4>1. Sending(i) /\ loop'.msg = loop.msg BY <2>0, <2>1, <3>1 DEF Skips, Keeps, Sending
      <4> QED BY <2>0, <4>1 DEF GoodMsg, MessageInv
    <3> QED BY <1>04, <3>1
  <2> QED BY <1>01, <1>03, <2>0, <2>2
<1>9. CASE Tick
  <2>1. /\ loop.at = "idle" /\ UNCHANGED <<subscriptions, loop>>
        /\ \A i \in subscriptions : Kept(i)
    BY <1>9, TickParts DEF manager
  <2> QED BY <1>01, <1>02, <1>03, <2>1
<1> QED BY <1>1, <1>2, <1>3, <1>4, <1>5, <1>6, <1>7, <1>8, <1>9, SubAndLoop DEF Loop

\* Of the writers finitely many are at work.
LEMMA BusyFinite ==
    ASSUME Typed, IsFiniteSet(Busy), [Next]_vars
    PROVE  IsFiniteSet(Busy')
<1>1. CASE writer' = writer BY <1>1 DEF Busy
<1>2. ASSUME NEW w \in Writers, Writer(w) PROVE IsFiniteSet(Busy')
  <2>1. PICK c : writer' = [writer EXCEPT ![w] = c]
    BY <1>2 DEF Writer, SetAttribute, TakeSlice, NotifyOne
  <2>2. Busy' \subseteq Busy \cup {w} BY <2>1 DEF Busy, Typed, WriterInv
  <2>3. IsFiniteSet(Busy \cup {w}) BY FS_AddElement
  <2> QED BY <2>2, <2>3, FS_Subset
<1>3. (\E a \in Attrs, v \in Values : SetDirectly(a, v)) => writer' = writer BY DEF SetDirectly
<1> QED BY <1>1, <1>2, <1>3, WriterStep

Undisturbed == closing = "open" /\ overlap = {}

\* Steps of a session that is open and whose operations do not overlap.
LEMMA SerialStep ==
    ASSUME Typed, IsFiniteSet(Busy), [Next]_vars, Undisturbed'
    PROVE  /\ Undisturbed
           /\ \/ UNCHANGED vars
              \/ /\ Busy' = {} \/ reader'.at = "idle"
                 /\ \A w, x \in Busy' : w = x
                 /\ \/ Reader \/ (\E w \in Writers : Writer(w)) \/ Loop \/ Tick
                    \/ /\ \E a \in Attrs, v \in Values : SetDirectly(a, v)
                       /\ val' = val
<1>1. closing = "open"
  <2>1. UNCHANGED closing \/ closing' # "open"
    BY ClosingStep DEF Close, StopDispatcher, UnregisterConnection
  <2> QED BY <2>1 DEF Undisturbed
<1>2. overlap = {} BY OverlapStep DEF Undisturbed
<1>3. ~ Closer
  BY <1>1 DEF Closer, Close, StopDispatcher, UnregisterConnection, UnsubscribeCopied, Undisturbed
<1>4. (\E a \in Attrs, v \in Values : SetDirectly(a, v)) => writer' = writer BY DEF SetDirectly
<1>5. CASE ~ UNCHANGED vars
  <2>1. /\ Busy' = {} \/ reader'.at \notin Subscribing \cup Unsubscribing
        /\ ~(Cardinality(Busy') > 1)
        /\ val' = val \/ writer' # writer
    BY <1>5, OverlapStep DEF Undisturbed
  <2>2. reader' \in ReaderTypes BY ReaderTyped DEF ReaderInv
  <2>3. Busy' = {} \/ reader'.at = "idle" BY <2>1, <2>2 DEF ReaderTypes
  <2>4. ASSUME NEW w \in Busy', NEW x \in Busy', w # x PROVE FALSE
    <3>1. IsFiniteSet(Busy') BY BusyFinite
    <3>2. {w, x} \subseteq Busy' BY <2>4
    <3>3. Cardinality({w, x}) = 2
      <4>1. Cardinality({w}) = 1 /\ IsFiniteSet({w}) BY FS_Singleton
      <4>2. Cardinality({w} \cup {x}) = 1 + 1
        <5>1. x \notin {w} BY <2>4
        <5> QED BY <4>1, <5>1, FS_AddElement
      <4>3. {w, x} = {w} \cup {x} OBVIOUS
      <4> QED BY <4>2, <4>3
    <3>4. Cardinality({w, x}) <= Cardinality(Busy') BY <3>1, <3>2, FS_Subset
    <3>5. Cardinality(Busy') \in Nat BY <3>1, FS_CardinalityType
    <3> QED BY <2>1, <3>3, <3>4, <3>5
  <2>5. \/ Reader \/ (\E w \in Writers : Writer(w)) \/ Loop \/ Tick
        \/ (\E a \in Attrs, v \in Values : SetDirectly(a, v)) /\ val' = val
    BY <1>3, <1>4, <1>5, <2>1, StepCases
  <2>6. \A w, x \in Busy' : w = x BY <2>4
  <2> QED BY <1>1, <1>2, <2>3, <2>5, <2>6 DEF Undisturbed
<1> QED BY <1>1, <1>2, <1>5 DEF Undisturbed

\* What a writer's step does to it.
LEMMA WriterMoves ==
    ASSUME Typed, NEW w \in Writers, Writer(w)
    PROVE  /\ UNCHANGED <<manager, dispatcher, reader, loop, closing, due, observed>>
           /\ \A x \in Writers : x # w => writer'[x] = writer[x]
           /\ \/ \E a \in Attrs, v \in Values :
                    /\ writer[w].at = "idle" /\ val' = [val EXCEPT ![a] = v] /\ UNCHANGED sub
                    /\ writer'[w] = [at |-> "set", attr |-> a, value |-> v]
              \/ /\ writer[w].at = "set" /\ UNCHANGED <<val, sub>>
                 /\ \/ index.len = 0 /\ writer'[w].at = "idle"
                    \/ /\ index.len # 0
                       /\ writer'[w] = [at |-> "notify", attr |-> writer[w].attr,
                                        value |-> writer[w].value, arr |-> index.arr,
                                        len |-> index.len, pos |-> 1]
              \/ /\ NotifyOne(w) /\ writer[w].at = "notify" /\ UNCHANGED val
                 /\ \/ writer[w].pos = writer[w].len /\ writer'[w].at = "idle"
                    \/ /\ writer[w].pos # writer[w].len /\ writer'[w].at = "notify"
                       /\ writer'[w].attr = writer[w].attr /\ writer'[w].value = writer[w].value
                       /\ writer'[w].arr = writer[w].arr /\ writer'[w].len = writer[w].len
                       /\ writer'[w].pos = writer[w].pos + 1
<1>0. writer \in [Writers -> WriterTypes] BY DEF Typed, WriterInv
<1>1. ASSUME NEW a \in Attrs, NEW v \in Values, SetAttribute(w, a, v)
      PROVE  /\ UNCHANGED <<manager, dispatcher, reader, loop, closing, due, observed>>
             /\ \A x \in Writers : x # w => writer'[x] = writer[x]
             /\ writer[w].at = "idle" /\ val' = [val EXCEPT ![a] = v] /\ UNCHANGED sub
             /\ writer'[w] = [at |-> "set", attr |-> a, value |-> v]
  BY <1>0, <1>1 DEF SetAttribute
<1>2. CASE TakeSlice(w)
  <2> DEFINE c == IF index.len = 0 THEN [at |-> "idle"]
                  ELSE [at |-> "notify", attr |-> writer[w].attr, value |-> writer[w].value,
                        arr |-> index.arr, len |-> index.len, pos |-> 1]
  <2>1. writer' = [writer EXCEPT ![w] = c] BY <1>2 DEF TakeSlice
  <2>2. writer'[w] = c /\ \A x \in Writers : x # w => writer'[x] = writer[x] BY <1>0, <2>1
  <2>3. index.len = 0 => c.at = "idle" OBVIOUS
  <2>4. /\ UNCHANGED <<manager, dispatcher, reader, loop, closing, due, observed>>
        /\ writer[w].at = "set" /\ UNCHANGED <<val, sub>>
    BY <1>2 DEF TakeSlice, feature
  <2> QED BY <2>2, <2>3, <2>4
<1>3. CASE NotifyOne(w)
  <2> DEFINE r == writer[w]
             c == IF r.pos = r.len THEN [at |-> "idle"] ELSE [r EXCEPT !.pos = r.pos + 1]
  <2>1. r.at = "notify" /\ writer' = [writer EXCEPT ![w] = c] BY <1>3 DEF NotifyOne
  <2>2. r \in [at : {"notify"}, attr : Attrs, value : Values, arr : Nat, len : Nat, pos : Nat]
    BY <1>0, <2>1 DEF WriterTypes
  <2>3. writer'[w] = c /\ \A x \in Writers : x # w => writer'[x] = writer[x] BY <1>0, <2>1
  <2>4. /\ UNCHANGED <<manager, dispatcher, reader, loop, closing, due, observed>>
        /\ UNCHANGED val
    BY <1>3 DEF NotifyOne, feature
  <2> HIDE DEF r
  <2>5. \/ r.pos = r.len /\ c.at = "idle"
        \/ /\ r.pos # r.len /\ c.at = "notify" /\ c.attr = r.attr /\ c.value = r.value
           /\ c.arr = r.arr /\ c.len = r.len /\ c.pos = r.pos + 1
    BY <2>2
  <2> HIDE DEF c
  <2> QED BY <1>3, <2>1, <2>3, <2>4, <2>5 DEF r
<1> QED BY <1>1, <1>2, <1>3 DEF Writer

\* Operations come one after the other, and a writer at work is about to notify
\* of the value its attribute has, with the slice the index has.
SerialInv ==
    Undisturbed =>
        /\ \A w, x \in Busy : w = x
        /\ Busy # {} => reader.at = "idle"
        /\ \A w \in Busy : /\ writer[w].value = val[writer[w].attr]
                           /\ writer[w].at = "notify" =>
                                 writer[w].arr = index.arr /\ writer[w].len = index.len

\* A request is served while no writer is at work.
LEMMA ReaderAlone ==
    ASSUME Typed, IsFiniteSet(Busy), SerialInv, [Next]_vars, Undisturbed', Reader,
           ~ UNCHANGED vars
    PROVE  Busy = {} /\ UNCHANGED <<val, writer>>
<1>1. UNCHANGED <<val, writer>>
  <2>1. ASSUME NEW r \in Requests, ReceiveSubscribe(r) PROVE UNCHANGED <<val, writer>>
    BY <2>1 DEF ReceiveSubscribe, feature
  <2>2. ASSUME NEW a \in Attrs, ReadCurrent(a) PROVE UNCHANGED <<val, writer>>
    BY <2>2 DEF ReadCurrent, feature
  <2>3. ASSUME NEW i \in Ids, ReceiveUnsubscribe(i) PROVE UNCHANGED <<val, writer>>
    BY <2>3 DEF ReceiveUnsubscribe, feature
  <2>4. CASE FindConnection \/ Subscribe \/ Prime \/ MapSubscription
    BY <2>4 DEF FindConnection, Subscribe, Prime, MapSubscription, feature
  <2>5. CASE Respond \/ HandleUnsubscribe \/ Unmanage
    BY <2>5 DEF Respond, HandleUnsubscribe, Unmanage, feature
  <2> QED BY <2>1, <2>2, <2>3, <2>4, <2>5 DEF Reader
<1>2. Busy' = Busy BY <1>1 DEF Busy
<1>3. Undisturbed /\ (Busy' = {} \/ reader'.at = "idle") BY SerialStep
<1>4. Busy # {} => reader.at = "idle" BY <1>3 DEF SerialInv
<1>5. ~(reader.at = "idle" /\ reader'.at = "idle") BY Moves DEF Begins, Proceeds
<1> QED BY <1>1, <1>2, <1>3, <1>4, <1>5

\* As long as no two operations overlap, every step keeps writers up to date.
LEMMA SerialNext ==
    ASSUME Typed, IsFiniteSet(Busy), SerialInv, [Next]_vars
    PROVE  SerialInv'
<1> SUFFICES ASSUME Undisturbed' PROVE SerialInv' BY DEF SerialInv
<1> DEFINE Fits(w) == /\ writer'[w].value = val'[writer'[w].attr]
                      /\ writer'[w].at = "notify" =>
                            writer'[w].arr = index'.arr /\ writer'[w].len = index'.len
<1>1. Undisturbed BY SerialStep
<1>2. CASE UNCHANGED vars BY <1>1, <1>2 DEF vars, feature, manager, SerialInv, Busy
<1>3. CASE ~ UNCHANGED vars
  <2>1. (Busy' = {} \/ reader'.at = "idle") /\ \A w, x \in Busy' : w = x BY <1>3, SerialStep
  <2>2. ASSUME \A w \in Busy' : Fits(w) PROVE SerialInv' BY <2>1, <2>2 DEF SerialInv
  <2>3. ASSUME NEW w \in Writers, w \in Busy, writer'[w] = writer[w],
               UNCHANGED <<val, index>>
        PROVE  Fits(w)
    BY <1>1, <2>3 DEF SerialInv
  <2> HIDE DEF Fits
  <2>4. CASE Reader
    <3>1. Busy' = {} BY <1>3, <2>4, ReaderAlone DEF Busy
    <3> QED BY <2>2, <3>1
  <2>5. ASSUME UNCHANGED <<val, writer, index>> PROVE SerialInv'
    <3>1. Busy' = Busy /\ Busy \subseteq Writers BY <2>5 DEF Busy
    <3> QED BY <2>2, <2>3, <2>5, <3>1
  <2>6. Loop => UNCHANGED <<val, writer, index>>
    BY DEF Loop, StartPass, GetPendingNotification, Heartbeat, LookupConnection, Send,
           feature, manager
  <2>7. Tick => UNCHANGED <<val, writer, index>> BY DEF Tick, feature, manager
  <2>8. (\E a \in Attrs, v \in Values : SetDirectly(a, v)) /\ val' = val =>
            UNCHANGED <<val, writer, index>>
    BY DEF SetDirectly, manager
  <2>9. ASSUME NEW w \in Writers, Writer(w) PROVE SerialInv'
    <3>0. UNCHANGED index /\ \A x \in Writers : x # w => writer'[x] = writer[x]
      BY <2>9, WriterMoves DEF manager
    <3>1. ASSUME NEW a \in Attrs, NEW v \in Values, val' = [val EXCEPT ![a] = v],
                 writer'[w] = [at |-> "set", attr |-> a, value |-> v]
          PROVE  SerialInv'
      <4>1. w \in Busy' BY <3>1 DEF Busy
      <4>2. val \in [Attrs -> Values] BY DEF Typed, WriterInv
      <4>3. Fits(w) BY <3>1, <4>2 DEF Fits
      <4> QED BY <2>1, <2>2, <4>1, <4>3
    <3>2. ASSUME UNCHANGED val, w \in Busy, w \in Busy' => Fits(w) PROVE SerialInv'
      <4>1. \A x \in Busy' : x # w => x \in Busy /\ x \in Writers BY <3>0 DEF Busy
      <4>2. \A x \in Busy' : x # w => Fits(x) BY <2>3, <3>0, <3>2, <4>1
      <4> QED BY <2>2, <3>2, <4>2
    <3>3. w \in Busy => writer[w].value = val[writer[w].attr] /\
                        (writer[w].at = "notify" => writer[w].arr = index.arr /\ writer[w].len = index.len)
      BY <1>1 DEF SerialInv
    <3>4. CASE /\ writer[w].at = "set" /\ UNCHANGED <<val, sub>>
               /\ \/ index.len = 0 /\ writer'[w].at = "idle"
                  \/ /\ index.len # 0
                     /\ writer'[w] = [at |-> "notify", attr |-> writer[w].attr,
                                      value |-> writer[w].value, arr |-> index.arr,
                                      len |-> index.len, pos |-> 1]
      <4>1. w \in Busy BY <3>4 DEF Busy
      <4>2. w \in Busy' => Fits(w)
        <5>1. w \in Busy' => writer'[w].at # "idle" BY DEF Busy
        <5> QED BY <3>0, <3>3, <3>4, <4>1, <5>1 DEF Fits
      <4> QED BY <3>2, <3>4, <4>1, <4>2
    <3>5. CASE /\ writer[w].at = "notify" /\ UNCHANGED val
               /\ \/ writer'[w].at = "idle"
                  \/ /\ writer'[w].at = "notify"
                     /\ writer'[w].attr = writer[w].attr /\ writer'[w].value = writer[w].value
                     /\ writer'[w].arr = writer[w].arr /\ writer'[w].len = writer[w].len
      <4>1. w \in Busy BY <3>5 DEF Busy
      <4>2. w \in Busy' => Fits(w)
        <5>1. w \in Busy' => writer'[w].at # "idle" BY DEF Busy
        <5> QED BY <3>0, <3>3, <3>5, <4>1, <5>1 DEF Fits
      <4> QED BY <3>2, <3>5, <4>1, <4>2
    <3>6. \/ \E a \in Attrs, v \in Values :
                /\ writer[w].at = "idle" /\ val' = [val EXCEPT ![a] = v] /\ UNCHANGED sub
                /\ writer'[w] = [at |-> "set", attr |-> a, value |-> v]
          \/ /\ writer[w].at = "set" /\ UNCHANGED <<val, sub>>
             /\ \/ index.len = 0 /\ writer'[w].at = "idle"
                \/ /\ index.len # 0
                   /\ writer'[w] = [at |-> "notify", attr |-> writer[w].attr,
                                    value |-> writer[w].value, arr |-> index.arr,
                                    len |-> index.len, pos |-> 1]
          \/ /\ writer[w].at = "notify" /\ UNCHANGED val
             /\ \/ writer'[w].at = "idle"
                \/ /\ writer'[w].at = "notify"
                   /\ writer'[w].attr = writer[w].attr /\ writer'[w].value = writer[w].value
                   /\ writer'[w].arr = writer[w].arr /\ writer'[w].len = writer[w].len
      BY <2>9, WriterMoves
    <3> QED BY <3>1, <3>4, <3>5, <3>6
  <2>10. \/ Reader \/ (\E w \in Writers : Writer(w)) \/ Loop \/ Tick
         \/ (\E a \in Attrs, v \in Values : SetDirectly(a, v)) /\ val' = val
    BY <1>3, SerialStep
  <2>11. CASE Loop \/ Tick BY <2>5, <2>6, <2>7, <2>11
  <2>12. CASE (\E a \in Attrs, v \in Values : SetDirectly(a, v)) /\ val' = val
    BY <2>5, <2>8, <2>12
  <2> QED BY <2>4, <2>9, <2>10, <2>11, <2>12
<1> QED BY <1>2, <1>3

\* A change waits in a writer's slice, or will once the writer has taken it.
Ahead(w, i) ==
    \/ writer[w].at = "set"
    \/ writer[w].at = "notify" /\
       \E k \in writer[w].pos .. writer[w].len : arrays[writer[w].arr][k] = i

\* The value last recorded for an attribute, pending or taken.
Recorded(i, a) ==
    IF a \in DOMAIN sub[i].pending THEN sub[i].pending[a] ELSE sub[i].lastValues[a]

\* What is read for a request is current; what is recorded is current or a
\* writer is about to record it.
ReadInv ==
    /\ reader.at \in Subscribing =>
          \A a \in DOMAIN reader.values : reader.values[a] = val[a]
    /\ reader.at \in {"prime", "map", "respond"} /\ reader.id \in subscriptions =>
          sub[reader.id].lastValues = reader.values /\ ~ sub[reader.id].hasChanges
Known(i, a) ==
    /\ a \in DOMAIN sub[i].lastValues
    /\ \/ Recorded(i, a) = val[a]
       \/ \E w \in Busy : writer[w].attr = a /\ Ahead(w, i)
KnownInv == \A i \in subscriptions : \A a \in sub[i].attrs : Known(i, a)
RecordedInv == Undisturbed => ReadInv /\ KnownInv

\* Taking changes leaves what is recorded.
LEMMA TakesRecorded ==
    ASSUME NEW i, sub[i] \in SubTypes, Takes(i), NEW a \in DOMAIN sub[i].lastValues
    PROVE  /\ a \in DOMAIN sub'[i].lastValues
           /\ Recorded(i, a)' = Recorded(i, a)
           /\ a \notin News(sub[i]) => sub'[i].lastValues[a] = sub[i].lastValues[a]
<1> DEFINE s == sub[i]
           m == Changes(s)
           t == sub'[i]
<1>1. s.lastValues \in Maps /\ s \in SubTypes BY DEF SubTypes
<1>2. t.pending = Empty /\ t.lastValues = Update(s.lastValues, m) BY DEF Takes
<1>3. /\ m \in Maps /\ DOMAIN m = News(s) /\ News(s) \subseteq DOMAIN s.pending
      /\ \A b \in News(s) : m[b] = s.pending[b]
      /\ \A b \in DOMAIN s.pending \ News(s) : s.lastValues[b] = s.pending[b]
  BY <1>1, ChangesTyped
<1>4. a \in DOMAIN s.lastValues OBVIOUS
<1>5. Recorded(i, a) = IF a \in DOMAIN s.pending THEN s.pending[a] ELSE s.lastValues[a]
  BY DEF Recorded
<1>6. Recorded(i, a)' = IF a \in DOMAIN t.pending THEN t.pending[a] ELSE t.lastValues[a]
  BY DEF Recorded
<1> HIDE DEF s, m, t
<1>7. /\ DOMAIN t.lastValues = DOMAIN s.lastValues \cup DOMAIN m
      /\ \A b \in DOMAIN m : t.lastValues[b] = m[b]
      /\ \A b \in DOMAIN s.lastValues \ DOMAIN m : t.lastValues[b] = s.lastValues[b]
  <2> DEFINE v == s.lastValues
  <2>1. v \in Maps /\ t.lastValues = Update(v, m) BY <1>1, <1>2
  <2> HIDE DEF v
  <2>2. /\ DOMAIN Update(v, m) = DOMAIN v \cup DOMAIN m
        /\ \A b \in DOMAIN m : Update(v, m)[b] = m[b]
        /\ \A b \in DOMAIN v \ DOMAIN m : Update(v, m)[b] = v[b]
    BY <1>3, <2>1, UpdateMap
  <2> QED BY <2>1, <2>2 DEF v
<1>8. a \in DOMAIN t.lastValues BY <1>4, <1>7
<1>9. Recorded(i, a)' = t.lastValues[a] BY <1>2, <1>6, EmptyMap
<1>10. Recorded(i, a) = t.lastValues[a]
  <2>1. CASE a \in News(s) BY <1>3, <1>5, <1>7, <2>1
  <2>2. CASE a \notin News(s) BY <1>3, <1>4, <1>5, <1>7, <2>2
  <2> QED BY <2>1, <2>2
<1>11. a \notin News(s) => t.lastValues[a] = s.lastValues[a] BY <1>3, <1>4, <1>7
<1> QED BY <1>8, <1>9, <1>10, <1>11 DEF s, t

\* What the loop and time do to an object.
LEMMA LoopRecorded ==
    ASSUME Typed, ActiveInv, Loop \/ Tick, NEW i \in subscriptions
    PROVE  /\ sub'[i].attrs = sub[i].attrs
           /\ ~ sub[i].hasChanges => sub'[i].lastValues = sub[i].lastValues /\ ~ sub'[i].hasChanges
           /\ \A a \in DOMAIN sub[i].lastValues :
                 a \in DOMAIN sub'[i].lastValues /\ Recorded(i, a)' = Recorded(i, a)
<1> DEFINE Good == /\ sub'[i].attrs = sub[i].attrs
                   /\ ~ sub[i].hasChanges =>
                         sub'[i].lastValues = sub[i].lastValues /\ ~ sub'[i].hasChanges
                   /\ \A a \in DOMAIN sub[i].lastValues :
                         a \in DOMAIN sub'[i].lastValues /\ Recorded(i, a)' = Recorded(i, a)
<1> SUFFICES Good OBVIOUS
<1>0. i \in Ids /\ sub[i] \in SubTypes BY DEF Typed, ActiveInv
<1>1. ASSUME sub'[i].attrs = sub[i].attrs, sub'[i].lastValues = sub[i].lastValues,
             sub'[i].pending = sub[i].pending, sub'[i].hasChanges = sub[i].hasChanges
      PROVE  Good
  BY <1>1 DEF Recorded
<1>2. ASSUME NEW j \in Ids, GetPendingNotification(j) PROVE Good
  <2>1. Others(j) /\ Same(sub[j], sub'[j]) /\ (UNCHANGED sub \/ Takes(j)) BY <1>2, PendingParts
  <2>2. CASE sub'[i] = sub[i] BY <1>1, <2>2
  <2>3. CASE i = j /\ Takes(i)
    <3>1. sub'[i].attrs = sub[i].attrs /\ sub[i].hasChanges BY <2>1, <2>3 DEF Same, Takes
    <3>2. \A a \in DOMAIN sub[i].lastValues :
             a \in DOMAIN sub'[i].lastValues /\ Recorded(i, a)' = Recorded(i, a)
      BY <1>0, <2>3, TakesRecorded
    <3> QED BY <3>1, <3>2
  <2> QED BY <1>0, <2>1, <2>2, <2>3 DEF Others
<1> HIDE DEF Good
<1>3. CASE Heartbeat
  <2>1. Others(loop.id) /\ (UNCHANGED sub \/ sub'[loop.id] = [sub[loop.id] EXCEPT !.lastNotified = 0])
    BY <1>3, BeatParts
  <2>2. CASE sub'[i] = sub[i] BY <1>1, <2>2
  <2>3. CASE sub'[i] = [sub[i] EXCEPT !.lastNotified = 0] BY <1>0, <1>1, <2>3 DEF SubTypes
  <2> QED BY <1>0, <2>1, <2>2, <2>3 DEF Others
<1>4. CASE StartPass \/ LookupConnection \/ Send
  <2>1. sub' = sub BY <1>4 DEF StartPass, LookupConnection, Send
  <2> QED BY <1>1, <2>1
<1>5. CASE Tick BY <1>1, <1>5, TickParts DEF Same
<1> QED BY <1>2, <1>3, <1>4, <1>5 DEF Loop

\* Undisturbed, what a request has read stays current.
LEMMA ReadNext ==
    ASSUME Typed, ActiveInv, IsFiniteSet(Busy), SerialInv, RecordedInv, [Next]_vars,
           Undisturbed', ~ UNCHANGED vars
    PROVE  ReadInv'
<1>0. /\ ReadInv /\ Undisturbed /\ sub \in [Ids -> SubTypes] /\ subscriptions \subseteq Ids
      /\ reader \in ReaderTypes
  <2>1. ReadInv /\ Undisturbed BY SerialStep DEF RecordedInv
  <2> QED BY <2>1 DEF Typed, ActiveInv, ReaderInv
<1>1. CASE reader'.at \notin Subscribing BY <1>1 DEF ReadInv, Subscribing
<1>2. CASE reader'.at \in Subscribing
  <2>0. reader'.at # "idle" BY <1>2 DEF Subscribing
  <2>1. CASE Reader
    <3>0. val' = val BY <2>1, ReaderAlone
    <3>1. CASE Begins
      <4>1. reader'.values = Empty BY <3>1 DEF Begins
      <4>2. reader'.at \notin {"prime", "map", "respond"} BY <3>1 DEF Begins
      <4> QED BY <4>1, <4>2, EmptyMap DEF ReadInv
    <3>2. CASE Proceeds
      <4>1. /\ reader'.at = "reading" /\ reader.at \in {"received", "reading"}
            /\ \/ reader'.values = reader.values
               \/ \E a \in Attrs : reader'.values = Update(reader.values, [b \in {a} |-> val[a]])
        BY <2>0, <3>2 DEF Proceeds
      <4>2. \A a \in DOMAIN reader.values : reader.values[a] = val[a]
        BY <1>0, <4>1 DEF ReadInv, Subscribing
      <4>3. ASSUME NEW a \in Attrs, reader'.values = Update(reader.values, [b \in {a} |-> val[a]])
            PROVE  \A b \in DOMAIN reader'.values : reader'.values[b] = val[b]
        <5> DEFINE v == reader.values
                   n == [b \in {a} |-> val[a]]
        <5>1. v \in Maps BY <1>0 DEF ReaderTypes
        <5>2. val[a] \in Values BY DEF Typed, WriterInv
        <5>3. n \in Maps /\ DOMAIN n = {a} /\ n[a] = val[a] BY <5>2, SingleMap
        <5>4. reader'.values = Update(v, n) /\ \A b \in DOMAIN v : v[b] = val[b] BY <4>2, <4>3
        <5> HIDE DEF v, n
        <5>5. /\ DOMAIN Update(v, n) = DOMAIN v \cup DOMAIN n
              /\ \A b \in DOMAIN n : Update(v, n)[b] = n[b]
              /\ \A b \in DOMAIN v \ DOMAIN n : Update(v, n)[b] = v[b]
          BY <5>1, <5>3, UpdateMap
        <5>6. ASSUME NEW b \in DOMAIN reader'.values PROVE reader'.values[b] = val[b]
          <6>1. CASE b = a BY <5>3, <5>4, <5>5, <6>1
          <6>2. CASE b # a BY <5>3, <5>4, <5>5, <5>6, <6>2
          <6> QED BY <6>1, <6>2
        <5> QED BY <5>6
      <4>4. \A b \in DOMAIN reader'.values : reader'.values[b] = val'[b]
        BY <3>0, <4>1, <4>2, <4>3
      <4> QED BY <4>1, <4>4 DEF ReadInv
    <3>3. CASE /\ Created /\ reader.at = "reading" /\ reader'.at = "prime"
               /\ reader'.id = lastId' /\ reader'.values = reader.values
      <4>1. sub'[lastId'].lastValues = reader.values /\ ~ sub'[lastId'].hasChanges
        BY <3>3, CreatedParts
      <4>2. \A a \in DOMAIN reader.values : reader.values[a] = val[a]
        BY <1>0, <3>3 DEF ReadInv, Subscribing
      <4> QED BY <3>0, <3>3, <4>1, <4>2 DEF ReadInv
    <3>4. CASE /\ Prime \/ MapSubscription
               /\ reader.at \in {"prime", "map"} /\ reader'.id = reader.id
               /\ reader'.values = reader.values
      <4>1. UNCHANGED <<sub, subscriptions>> BY <3>4 DEF Prime, MapSubscription, manager
      <4> QED BY <1>0, <3>0, <3>4, <4>1 DEF ReadInv, Subscribing
    <3>5. CASE reader'.at \in {"idle", "unmanage"} BY <1>2, <3>5 DEF Subscribing
    <3> QED BY <2>1, <3>1, <3>2, <3>3, <3>4, <3>5, Moves
  <2>2. CASE Loop \/ Tick
    <3>1. UNCHANGED <<reader, val, subscriptions>>
      BY <2>2 DEF Loop, StartPass, GetPendingNotification, Heartbeat, LookupConnection, Send,
                  Tick, feature, manager
    <3>2. reader.id \in subscriptions /\ ~ sub[reader.id].hasChanges =>
             sub'[reader.id].lastValues = sub[reader.id].lastValues /\ ~ sub'[reader.id].hasChanges
      BY <2>2, LoopRecorded
    <3> QED BY <1>0, <3>1, <3>2 DEF ReadInv
  <2>3. CASE (\E a \in Attrs, v \in Values : SetDirectly(a, v)) /\ val' = val
    <3>1. UNCHANGED <<reader, sub, subscriptions>> BY <2>3 DEF SetDirectly, manager
    <3> QED BY <1>0, <2>3, <3>1 DEF ReadInv
  <2>4. ASSUME NEW w \in Writers, Writer(w) PROVE FALSE
    <3>1. w \in Busy \/ w \in Busy'
      <4>1. CASE writer[w].at # "idle" BY <4>1 DEF Busy
      <4>2. CASE writer[w].at = "idle"
        <5>1. \E a \in Attrs, v \in Values : writer'[w] = [at |-> "set", attr |-> a, value |-> v]
          BY <2>4, <4>2, WriterMoves
        <5>2. writer'[w].at = "set" BY <5>1
        <5> QED BY <5>2 DEF Busy
      <4> QED BY <4>1, <4>2
    <3>2. UNCHANGED reader BY <2>4, WriterMoves
    <3>3. Busy # {} => reader.at = "idle" BY <1>0 DEF SerialInv
    <3>4. Busy' = {} \/ reader'.at = "idle" BY SerialStep
    <3> QED BY <2>0, <3>1, <3>2, <3>3, <3>4
  <2>5. \/ Reader \/ (\E w \in Writers : Writer(w)) \/ Loop \/ Tick
        \/ (\E a \in Attrs, v \in Values : SetDirectly(a, v)) /\ val' = val
    BY SerialStep
  <2>6. CASE Loop \/ Tick BY <2>2, <2>6
  <2> QED BY <2>1, <2>3, <2>4, <2>5, <2>6
<1> QED BY <1>1, <1>2

\* Undisturbed, what is recorded stays current or about to be.
LEMMA KnownNext ==
    ASSUME Typed, ActiveInv, MessageInv, IsFiniteSet(Busy), SerialInv, RecordedInv, [Next]_vars,
           Undisturbed', ~ UNCHANGED vars
    PROVE  KnownInv'
<1>0. /\ KnownInv /\ Undisturbed /\ sub \in [Ids -> SubTypes] /\ subscriptions \subseteq Ids
      /\ val \in [Attrs -> Values]
  <2>1. KnownInv /\ Undisturbed BY SerialStep DEF RecordedInv
  <2> QED BY <2>1 DEF Typed, ActiveInv, WriterInv
<1> DEFINE Rec(i, a) == IF a \in DOMAIN sub'[i].pending THEN sub'[i].pending[a]
                        ELSE sub'[i].lastValues[a]
           Good(i, a) == /\ a \in DOMAIN sub'[i].lastValues
                         /\ \/ Rec(i, a) = val'[a]
                            \/ \E w \in Busy' : writer'[w].attr = a /\ Ahead(w, i)'
           Kept(i) == /\ i \in subscriptions /\ sub'[i].attrs = sub[i].attrs
                      /\ \A a \in DOMAIN sub[i].lastValues :
                            a \in DOMAIN sub'[i].lastValues /\ Rec(i, a) = Recorded(i, a)
<1>1. ASSUME \A i \in subscriptions' : \A a \in sub'[i].attrs : Good(i, a) PROVE KnownInv'
  BY <1>1 DEF KnownInv, Known, Recorded
<1>2. ASSUME NEW i, i \in subscriptions, sub'[i] = sub[i] PROVE Kept(i) BY <1>2 DEF Recorded
<1>3. ASSUME NEW i, Kept(i), UNCHANGED <<val, writer, arrays>>, NEW a \in sub'[i].attrs
      PROVE  Good(i, a)
  <2>1. Busy' = Busy /\ \A w : Ahead(w, i)' <=> Ahead(w, i) BY <1>3 DEF Busy, Ahead
  <2>2. Known(i, a) BY <1>0, <1>3 DEF KnownInv
  <2> QED BY <1>3, <2>1, <2>2 DEF Known
<1>4. ASSUME NEW i \in subscriptions, NEW a \in sub[i].attrs PROVE Known(i, a)
  BY <1>0 DEF KnownInv
<1> HIDE DEF Good, Kept, Rec
<1>5. CASE Reader
  <2>1. UNCHANGED <<val, writer>> /\ Busy = {} /\ Busy' = {} BY <1>5, ReaderAlone DEF Busy
  <2>2. ASSUME NEW i, Kept(i), NEW a \in sub'[i].attrs PROVE Good(i, a)
    <3>1. Known(i, a) BY <1>4, <2>2 DEF Kept
    <3> QED BY <2>1, <2>2, <3>1 DEF Known, Good, Kept
  <2>3. CASE UNCHANGED <<sub, subscriptions>> BY <1>1, <1>2, <2>2, <2>3
  <2>4. CASE Created /\ reader.at = "reading"
    <3>1. /\ Others(lastId') /\ subscriptions' = subscriptions \cup {lastId'}
          /\ sub'[lastId'].attrs = DOMAIN reader.values
          /\ sub'[lastId'].lastValues = reader.values /\ sub'[lastId'].pending = Empty
      BY <2>4, CreatedParts DEF Created
    <3>2. \A a \in DOMAIN reader.values : reader.values[a] = val[a]
      BY <1>0, <2>4 DEF RecordedInv, ReadInv, Subscribing
    <3>3. ASSUME NEW i \in subscriptions', i = lastId', NEW a \in sub'[i].attrs PROVE Good(i, a)
      BY <2>1, <3>1, <3>2, <3>3, EmptyMap DEF Good, Rec
    <3>4. ASSUME NEW i \in subscriptions', i # lastId', NEW a \in sub'[i].attrs PROVE Good(i, a)
      <4>1. i \in subscriptions /\ sub'[i] = sub[i] BY <1>0, <3>1, <3>4 DEF Others
      <4> QED BY <1>2, <2>2, <3>4, <4>1
    <3> QED BY <1>1, <3>3, <3>4
  <2>5. CASE Unmanage
    <3>1. CASE UNCHANGED <<sub, subscriptions>> BY <2>3, <3>1
    <3>2. CASE ~ UNCHANGED <<sub, subscriptions>>
      <4>1. /\ subscriptions' = subscriptions \ {reader.id}
            /\ sub' = [sub EXCEPT ![reader.id] = Unused]
        BY <2>5, <3>2 DEF Unmanage, Unsubscribe
      <4>2. \A i \in subscriptions' : i \in subscriptions /\ sub'[i] = sub[i] BY <1>0, <4>1
      <4> QED BY <1>1, <1>2, <2>2, <4>2
    <3> QED BY <3>1, <3>2
  <2>6. CASE Begins \/ Proceeds BY <2>3, <2>6 DEF Begins, Proceeds, Stays, manager
  <2>7. CASE Prime \/ MapSubscription \/ Respond \/ HandleUnsubscribe
    BY <2>3, <2>7 DEF Prime, MapSubscription, Respond, HandleUnsubscribe, manager
  <2> QED BY <1>5, <2>4, <2>5, <2>6, <2>7, Moves
<1>6. CASE Loop \/ Tick
  <2>1. UNCHANGED <<val, writer, subscriptions, arrays>>
    BY <1>6 DEF Loop, StartPass, GetPendingNotification, Heartbeat, LookupConnection, Send,
                Tick, feature, manager
  <2>2. ASSUME NEW i \in subscriptions PROVE Kept(i)
    <3>1. /\ sub'[i].attrs = sub[i].attrs
          /\ \A a \in DOMAIN sub[i].lastValues :
                a \in DOMAIN sub'[i].lastValues /\ Recorded(i, a)' = Recorded(i, a)
      BY <1>6, LoopRecorded
    <3>2. \A a : Recorded(i, a)' = Rec(i, a) BY DEF Recorded, Rec
    <3> QED BY <3>1, <3>2 DEF Kept
  <2> QED BY <1>1, <1>3, <2>1, <2>2
<1>7. CASE (\E a \in Attrs, v \in Values : SetDirectly(a, v)) /\ val' = val
  <2>1. UNCHANGED <<val, writer, sub, subscriptions, arrays>> BY <1>7 DEF SetDirectly, manager
  <2> QED BY <1>1, <1>2, <1>3, <2>1
<1>8. ASSUME NEW w \in Writers, Writer(w) PROVE KnownInv'
  <2>0. /\ UNCHANGED <<subscriptions, arrays, index>>
        /\ \A x \in Writers : x # w => writer'[x] = writer[x]
    BY <1>8, WriterMoves DEF manager
  <2>1. (\A x, y \in Busy : x = y) /\ \A x, y \in Busy' : x = y
    BY <1>0, SerialStep DEF SerialInv
  <2>2. CASE \E a \in Attrs, v \in Values :
                /\ writer[w].at = "idle" /\ val' = [val EXCEPT ![a] = v] /\ UNCHANGED sub
                /\ writer'[w] = [at |-> "set", attr |-> a, value |-> v]
    <3>1. PICK a \in Attrs, v \in Values :
                /\ writer[w].at = "idle" /\ val' = [val EXCEPT ![a] = v] /\ UNCHANGED sub
                /\ writer'[w] = [at |-> "set", attr |-> a, value |-> v]
      BY <2>2
    <3>2. w \in Busy' /\ Busy = {} BY <2>0, <2>1, <3>1 DEF Busy
    <3>3. ASSUME NEW i \in subscriptions', NEW b \in sub'[i].attrs PROVE Good(i, b)
      <4>1. Kept(i) /\ b \in sub[i].attrs /\ i \in subscriptions BY <1>2, <2>0, <3>1, <3>3
      <4>2. Known(i, b) BY <1>4, <4>1
      <4>3. b \in DOMAIN sub'[i].lastValues /\ Rec(i, b) = val[b] BY <3>2, <4>1, <4>2 DEF Known, Kept
      <4>4. CASE b = a
        <5>1. Ahead(w, i)' BY <3>1 DEF Ahead
        <5>2. writer'[w].attr = b BY <3>1, <4>4
        <5> QED BY <3>2, <4>3, <5>1, <5>2 DEF Good
      <4>5. CASE b # a
        <5>1. val'[b] = val[b] BY <1>0, <3>1, <4>5
        <5> QED BY <4>3, <5>1 DEF Good
      <4> QED BY <4>4, <4>5
    <3> QED BY <1>1, <3>3
  <2>3. CASE /\ writer[w].at = "set" /\ UNCHANGED <<val, sub>>
             /\ \/ index.len = 0 /\ writer'[w].at = "idle"
                \/ /\ index.len # 0
                   /\ writer'[w] = [at |-> "notify", attr |-> writer[w].attr,
                                    value |-> writer[w].value, arr |-> index.arr,
                                    len |-> index.len, pos |-> 1]
    <3>1. w \in Busy BY <2>3 DEF Busy
    <3>2. ASSUME NEW i \in subscriptions', NEW b \in sub'[i].attrs PROVE Good(i, b)
      <4>1. Kept(i) /\ b \in sub[i].attrs /\ i \in subscriptions BY <1>2, <2>0, <2>3, <3>2
      <4>2. Known(i, b) BY <1>4, <4>1
      <4>3. b \in DOMAIN sub'[i].lastValues /\ Rec(i, b) = Recorded(i, b) /\ val' = val
        BY <2>3, <4>1, <4>2 DEF Known, Kept
      <4>4. CASE Recorded(i, b) = val[b] BY <4>3, <4>4 DEF Good
      <4>5. CASE writer[w].attr = b
        <5>1. PICK k \in 1 .. index.len : arrays[index.arr][k] = i BY <4>1 DEF Typed, IndexInv
        <5>2. index.len # 0 BY <5>1
        <5>3. /\ writer'[w].at = "notify" /\ writer'[w].attr = b /\ writer'[w].arr = index.arr
              /\ writer'[w].len = index.len /\ writer'[w].pos = 1
          BY <2>3, <4>5, <5>2
        <5>4. Ahead(w, i)' BY <2>0, <5>1, <5>3 DEF Ahead
        <5>5. w \in Busy' BY <5>3 DEF Busy
        <5> QED BY <4>3, <5>3, <5>4, <5>5 DEF Good
      <4> QED BY <2>1, <3>1, <4>2, <4>4, <4>5 DEF Known
    <3> QED BY <1>1, <3>2
  <2>4. CASE /\ NotifyOne(w) /\ writer[w].at = "notify" /\ UNCHANGED val
             /\ \/ writer[w].pos = writer[w].len /\ writer'[w].at = "idle"
                \/ /\ writer[w].pos # writer[w].len /\ writer'[w].at = "notify"
                   /\ writer'[w].attr = writer[w].attr /\ writer'[w].value = writer[w].value
                   /\ writer'[w].arr = writer[w].arr /\ writer'[w].len = writer[w].len
                   /\ writer'[w].pos = writer[w].pos + 1
    <3> DEFINE id == arrays[writer[w].arr][writer[w].pos]
               b == writer[w].attr
               v == writer[w].value
    <3>1. w \in Busy /\ v = val[b] BY <1>0, <2>4 DEF Busy, SerialInv
    <3>2. /\ id \in Ids /\ b \in Attrs /\ v \in Values /\ Others(id)
          /\ sub'[id].attrs = sub[id].attrs /\ sub'[id].lastValues = sub[id].lastValues
          /\ sub[id].active /\ b \in sub[id].attrs =>
                sub'[id].pending = Update(sub[id].pending, [x \in {b} |-> v])
          /\ ~(sub[id].active /\ b \in sub[id].attrs) => sub'[id] = sub[id]
      BY <2>4, NotifyParts DEF Same
    <3>21. writer[w].pos \in Nat /\ writer[w].len \in Nat
      BY <2>4 DEF Typed, WriterInv, WriterTypes
    <3> DEFINE pos == writer[w].pos
               len == writer[w].len
    <3>3. ASSUME NEW i \in subscriptions, i # id, Ahead(w, i)
          PROVE  w \in Busy' /\ writer'[w].attr = b /\ Ahead(w, i)'
      <4>1. PICK k \in pos .. len : arrays[writer[w].arr][k] = i BY <2>4, <3>3 DEF Ahead
      <4>2. k # pos BY <3>3, <4>1
      <4>3. k \in pos + 1 .. len /\ pos # len BY <3>21, <4>1, <4>2
      <4>4. /\ writer'[w].at = "notify" /\ writer'[w].attr = b /\ writer'[w].arr = writer[w].arr
            /\ writer'[w].len = len /\ writer'[w].pos = pos + 1
        BY <2>4, <4>3
      <4>5. Ahead(w, i)' BY <2>0, <4>1, <4>3, <4>4 DEF Ahead
      <4> QED BY <4>4, <4>5 DEF Busy
    <3> HIDE DEF id, b, v, pos, len
    <3>4. ASSUME NEW i \in subscriptions', NEW a \in sub'[i].attrs PROVE Good(i, a)
      <4>1. i \in subscriptions /\ i \in Ids /\ sub'[i].attrs = sub[i].attrs /\ val' = val
        BY <1>0, <2>0, <2>4, <3>2 DEF Others
      <4>2. Known(i, a) BY <1>4, <3>4, <4>1
      <4>3. CASE i # id
        <5>1. Kept(i) BY <1>2, <3>2, <4>1, <4>3 DEF Others
        <5>2. a \in DOMAIN sub'[i].lastValues /\ Rec(i, a) = Recorded(i, a)
          BY <4>2, <5>1 DEF Known, Kept
        <5>3. CASE Recorded(i, a) = val[a] BY <4>1, <5>2, <5>3 DEF Good
        <5>4. CASE b = a /\ Ahead(w, i) BY <3>3, <4>1, <4>3, <5>2, <5>4 DEF Good
        <5> QED BY <2>1, <3>1, <4>2, <5>3, <5>4 DEF Known, b
      <4>4. CASE i = id
        <5>1. sub[i].active BY <4>1 DEF ActiveInv
        <5>2. a \in DOMAIN sub[i].lastValues /\ sub'[i].lastValues = sub[i].lastValues
          BY <3>2, <4>2, <4>4 DEF Known
        <5>3. CASE b \in sub[i].attrs
          <6> DEFINE n == [x \in {b} |-> v]
                     p == sub[i].pending
          <6>1. p \in Maps BY <1>0, <4>1 DEF SubTypes
          <6>2. n \in Maps /\ DOMAIN n = {b} /\ n[b] = v
            <7>1. b \in Attrs /\ v \in Values BY <3>2
            <7>2. n \in [{b} -> Values] BY <7>1
            <7> HIDE DEF n
            <7>3. n \in Maps BY <7>1, <7>2, MapsDef
            <7>4. n[b] = v BY DEF n
            <7> QED BY <7>2, <7>3, <7>4
          <6>3. sub'[i].pending = Update(p, n) BY <3>2, <4>4, <5>1, <5>3
          <6>4. Recorded(i, a) = IF a \in DOMAIN p THEN p[a] ELSE sub[i].lastValues[a]
            BY DEF Recorded
          <6> HIDE DEF n, p
          <6>5. /\ DOMAIN Update(p, n) = DOMAIN p \cup DOMAIN n
                /\ \A c \in DOMAIN n : Update(p, n)[c] = n[c]
                /\ \A c \in DOMAIN p \ DOMAIN n : Update(p, n)[c] = p[c]
            BY <6>1, <6>2, UpdateMap
          <6>6. CASE a = b
            <7>1. Rec(i, a) = v BY <6>2, <6>3, <6>5, <6>6 DEF Rec
            <7> QED BY <3>1, <4>1, <5>2, <6>6, <7>1 DEF Good
          <6>7. CASE a # b
            <7>1. Rec(i, a) = Recorded(i, a) BY <5>2, <6>2, <6>3, <6>4, <6>5, <6>7 DEF Rec
            <7>2. Recorded(i, a) = val[a] BY <2>1, <3>1, <4>2, <6>7 DEF Known, b
            <7> QED BY <4>1, <5>2, <7>1, <7>2 DEF Good
          <6> QED BY <6>6, <6>7
        <5>4. CASE b \notin sub[i].attrs
          <6>1. Kept(i) BY <1>2, <3>2, <4>1, <4>4, <5>4
          <6>2. b # a BY <3>4, <4>1, <5>4
          <6>3. Recorded(i, a) = val[a] BY <2>1, <3>1, <4>2, <6>2 DEF Known, b
          <6> QED BY <4>1, <5>2, <6>1, <6>3 DEF Good, Kept
        <5> QED BY <5>3, <5>4
      <4> QED BY <4>3, <4>4
    <3> QED BY <1>1, <3>4
  <2> QED BY <1>8, <2>2, <2>3, <2>4, WriterMoves
<1>9. \/ Reader \/ (\E w \in Writers : Writer(w)) \/ Loop \/ Tick
      \/ (\E a \in Attrs, v \in Values : SetDirectly(a, v)) /\ val' = val
  BY SerialStep
<1>10. CASE Loop \/ Tick BY <1>6, <1>10
<1> QED BY <1>5, <1>7, <1>8, <1>9, <1>10

\* The controller has the values last taken, or they are on their way to it.
Seen(i, a) ==
    /\ a \in DOMAIN view[i]
    /\ view[i][a] = sub[i].lastValues[a] \/ (Sending(i) /\ a \in DOMAIN loop.msg)
SeenInv == \A i \in Live \cap subscriptionMap : \A a \in sub[i].attrs : Seen(i, a)
ViewInv == Undisturbed => SeenInv

\* Only taking changes touches the values last taken, and never those of an
\* attribute without news.
LEMMA LoopTaken ==
    ASSUME Typed, ActiveInv, Loop \/ Tick, NEW i \in subscriptions
    PROVE  \/ sub'[i].lastValues = sub[i].lastValues
           \/ Takes(i) /\ GetPendingNotification(i)
<1>0. i \in Ids /\ sub[i] \in SubTypes BY DEF Typed, ActiveInv
<1>1. ASSUME NEW j \in Ids, GetPendingNotification(j)
      PROVE  sub'[i] = sub[i] \/ (Takes(i) /\ GetPendingNotification(i))
  <2>1. Others(j) /\ (UNCHANGED sub \/ Takes(j)) BY <1>1, PendingParts
  <2> QED BY <1>0, <1>1, <2>1 DEF Others
<1>2. CASE Heartbeat
  <2>1. Others(loop.id) /\ (UNCHANGED sub \/ sub'[loop.id] = [sub[loop.id] EXCEPT !.lastNotified = 0])
    BY <1>2, BeatParts
  <2>2. sub'[i] = sub[i] \/ sub'[i] = [sub[i] EXCEPT !.lastNotified = 0] BY <1>0, <2>1 DEF Others
  <2> QED BY <1>0, <2>2 DEF SubTypes
<1>3. CASE StartPass \/ LookupConnection \/ Send
  BY <1>3 DEF StartPass, LookupConnection, Send
<1>4. CASE Tick BY <1>4, TickParts
<1> QED BY <1>1, <1>2, <1>3, <1>4 DEF Loop

\* Undisturbed, the controller has the last values or they are on their way.
LEMMA ViewNext ==
    ASSUME Typed, ActiveInv, RoutesInv, PassInv, AckedInv, MessageInv, IsFiniteSet(Busy),
           SerialInv, RecordedInv, ViewInv, [Next]_vars, Undisturbed', ~ UNCHANGED vars
    PROVE  SeenInv'
<1>0. SeenInv /\ ReadInv /\ KnownInv /\ conn.up
  <2>1. Undisturbed BY SerialStep
  <2> QED BY <2>1 DEF ViewInv, RecordedInv, RoutesInv, Undisturbed
<1>01. /\ sub \in [Ids -> SubTypes] /\ subscriptions \subseteq Ids /\ view \in [Ids -> Maps]
       /\ loop.msg \in Maps /\ reader.values \in Maps
  BY DEF Typed, ActiveInv, ObservedInv, LoopInv, LoopTypes, ReaderInv, ReaderTypes
<1> DEFINE On(i) == i \in acked /\ i \in subscriptions /\ i \in subscriptionMap
           On1(i) == i \in acked' /\ i \in subscriptions' /\ i \in subscriptionMap'
           Good(i) == \A a \in sub'[i].attrs :
                         /\ a \in DOMAIN view'[i]
                         /\ \/ view'[i][a] = sub'[i].lastValues[a]
                            \/ /\ loop'.at \in {"lookup", "send"} /\ loop'.id = i
                               /\ a \in DOMAIN loop'.msg
           Kept(i) == /\ On(i) /\ sub'[i].attrs = sub[i].attrs
                      /\ sub'[i].lastValues = sub[i].lastValues /\ view'[i] = view[i]
<1>1. ASSUME \A i \in Ids : On1(i) => Good(i) PROVE SeenInv'
  <2>1. subscriptions' \subseteq Ids BY ActiveNext DEF ActiveInv
  <2> QED BY <1>1, <2>1 DEF SeenInv, Seen, Sending, Live
<1>2. ASSUME NEW i \in Ids, Kept(i), UNCHANGED loop PROVE Good(i)
  BY <1>0, <1>2 DEF SeenInv, Seen, Sending, Live
<1>3. ASSUME NEW i \in Ids, Kept(i), ~ Sending(i) PROVE Good(i)
  BY <1>0, <1>3 DEF SeenInv, Seen, Live
<1>4. ASSUME NEW i \in Ids, On(i), ~ Sending(i), NEW a \in sub[i].attrs
      PROVE  a \in DOMAIN view[i] /\ view[i][a] = sub[i].lastValues[a]
  BY <1>0, <1>4 DEF SeenInv, Seen, Live
<1>5. ASSUME NEW i \in Ids, On(i), NEW a \in sub[i].attrs PROVE Seen(i, a)
  BY <1>0, <1>5 DEF SeenInv, Live
<1>6. ASSUME NEW i \in subscriptions, NEW a \in sub[i].attrs PROVE a \in DOMAIN sub[i].lastValues
  BY <1>0, <1>6 DEF KnownInv, Known
<1> HIDE DEF Good
<1>7. ASSUME UNCHANGED loop, \A i \in Ids : On1(i) => Kept(i) PROVE SeenInv'
  BY <1>1, <1>2, <1>7
<1>8. CASE Reader
  <2>1. UNCHANGED loop
    <3>1. CASE Begins \/ Proceeds BY <3>1 DEF Begins, Proceeds, Stays
    <3>2. CASE Created BY <3>2 DEF Created
    <3>3. CASE Prime \/ MapSubscription \/ Respond \/ HandleUnsubscribe \/ Unmanage
      BY <3>3 DEF Prime, MapSubscription, Respond, HandleUnsubscribe, Unmanage
    <3> QED BY <1>8, <3>1, <3>2, <3>3, Moves
  <2>2. CASE Begins \/ Proceeds
    <3>1. UNCHANGED <<acked, subscriptions, subscriptionMap, sub, view>>
      BY <2>2 DEF Begins, Proceeds, Stays, manager, dispatcher, observed
    <3> QED BY <1>7, <2>1, <3>1
  <2>3. CASE Created
    <3>1. /\ Others(lastId') /\ subscriptions' = subscriptions \cup {lastId'}
          /\ lastId' = lastId + 1 /\ UNCHANGED <<acked, subscriptionMap, view>>
      BY <2>3, CreatedParts DEF Created, dispatcher, observed
    <3>2. lastId' \notin acked
      <4>1. lastId \in Nat /\ acked \subseteq 1 .. lastId BY DEF Typed, IndexInv, AckedInv
      <4> QED BY <3>1, <4>1
    <3>3. ASSUME NEW i \in Ids, On1(i) PROVE Kept(i) BY <3>1, <3>2, <3>3 DEF Others
    <3> QED BY <1>7, <2>1, <3>3
  <2>4. CASE Prime /\ reader.at = "prime"
    <3>1. /\ UNCHANGED <<acked, subscriptions, subscriptionMap, sub>>
          /\ \A i \in Ids : i # reader.id => view'[i] = view[i]
      BY <1>01, <2>4 DEF Prime, Deliver, manager, dispatcher
    <3>2. reader.id \notin acked BY <2>4 DEF AckedInv
    <3>3. ASSUME NEW i \in Ids, On1(i) PROVE Kept(i) BY <3>1, <3>2, <3>3
    <3> QED BY <1>7, <2>1, <3>3
  <2>5. CASE MapSubscription /\ reader.at = "map"
    <3>1. /\ UNCHANGED <<acked, subscriptions, sub, view>>
          /\ subscriptionMap' = subscriptionMap \cup {reader.id}
      BY <2>5 DEF MapSubscription, manager, observed
    <3>2. reader.id \notin acked BY <2>5 DEF AckedInv
    <3>3. ASSUME NEW i \in Ids, On1(i) PROVE Kept(i) BY <3>1, <3>2, <3>3
    <3> QED BY <1>7, <2>1, <3>3
  <2>6. CASE Respond /\ reader.at = "respond"
    <3> DEFINE id == reader.id
               v == reader.values
    <3>1. /\ UNCHANGED <<subscriptions, subscriptionMap, sub>> /\ acked' = acked \cup {id}
          /\ view' = [view EXCEPT ![id] = Update(view[id], v)]
      BY <2>6 DEF Respond, Deliver, manager, dispatcher
    <3>2. id \in subscriptions => sub[id].lastValues = v BY <1>0, <2>6 DEF ReadInv
    <3> HIDE DEF id, v
    <3>3. ASSUME NEW i \in Ids, On1(i) PROVE Good(i)
      <4>1. CASE i # id
        <5>1. Kept(i) BY <1>01, <3>1, <3>3, <4>1
        <5> QED BY <1>2, <2>1, <5>1
      <4>2. CASE i = id
        <5> DEFINE u == view[i]
        <5>1. u \in Maps /\ v \in Maps BY <1>01 DEF v
        <5>2. view'[i] = Update(u, v) /\ sub'[i] = sub[i] /\ sub[i].lastValues = v
          BY <1>01, <3>1, <3>2, <3>3, <4>2
        <5>3. \A a \in sub[i].attrs : a \in DOMAIN v BY <1>6, <3>1, <3>3, <5>2
        <5> HIDE DEF u
        <5>4. /\ DOMAIN Update(u, v) = DOMAIN u \cup DOMAIN v
              /\ \A a \in DOMAIN v : Update(u, v)[a] = v[a]
          BY <5>1, UpdateMap
        <5> QED BY <5>2, <5>3, <5>4 DEF Good
      <4> QED BY <4>1, <4>2
    <3> QED BY <1>1, <3>3
  <2>7. CASE HandleUnsubscribe
    <3>1. /\ UNCHANGED <<acked, subscriptions, sub, view>> /\ subscriptionMap' \subseteq subscriptionMap
      BY <2>7 DEF HandleUnsubscribe, manager, dispatcher, observed
    <3> QED BY <1>7, <2>1, <3>1
  <2>8. CASE Unmanage /\ reader.at = "unmanage"
    <3>1. /\ UNCHANGED subscriptionMap /\ acked' \subseteq acked /\ subscriptions' \subseteq subscriptions
          /\ \A i \in Ids : i # reader.id => view'[i] = view[i] /\ sub'[i] = sub[i]
      BY <1>01, <2>8 DEF Unmanage, Unsubscribe, dispatcher
    <3>2. reader.id \notin subscriptionMap BY <1>0, <2>8 DEF RoutesInv, InFlight
    <3>3. ASSUME NEW i \in Ids, On1(i) PROVE Kept(i) BY <3>1, <3>2, <3>3
    <3> QED BY <1>7, <2>1, <3>3
  <2> QED BY <1>8, <2>2, <2>3, <2>4, <2>5, <2>6, <2>7, <2>8, Moves
<1>9. ASSUME NEW w \in Writers, Writer(w) PROVE SeenInv'
  <2>1. UNCHANGED <<subscriptions, subscriptionMap, loop, acked, view>>
    BY <1>9, WriterMoves DEF manager, dispatcher, observed
  <2>2. CASE UNCHANGED sub BY <1>7, <2>1, <2>2
  <2>3. CASE NotifyOne(w)
    <3>1. PICK i \in Ids : /\ Others(i) /\ sub'[i].attrs = sub[i].attrs
                           /\ sub'[i].lastValues = sub[i].lastValues
      BY <2>3, NotifyParts DEF Same
    <3>2. ASSUME NEW j \in Ids, On1(j) PROVE Kept(j) BY <2>1, <3>1, <3>2 DEF Others
    <3> QED BY <1>7, <2>1, <3>2
  <2> QED BY <1>9, <2>2, <2>3, WriterMoves
<1>10. CASE (\E a \in Attrs, v \in Values : SetDirectly(a, v))
  <2>1. UNCHANGED <<subscriptions, subscriptionMap, loop, acked, view, sub>>
    BY <1>10 DEF SetDirectly, manager, dispatcher, observed
  <2> QED BY <1>7, <2>1
<1>11. CASE Loop \/ Tick
  <2>1. UNCHANGED <<subscriptions, subscriptionMap, acked>>
    <3>1. CASE StartPass \/ Heartbeat \/ LookupConnection
      BY <3>1 DEF StartPass, Heartbeat, LookupConnection, manager, dispatcher, observed
    <3>2. CASE Send \/ Tick \/ \E j \in Ids : GetPendingNotification(j)
      BY <3>2 DEF Send, Tick, GetPendingNotification, manager, dispatcher
    <3> QED BY <1>11, <3>1, <3>2 DEF Loop
  <2>2. \A i \in subscriptions : sub'[i].attrs = sub[i].attrs BY <1>11, LoopRecorded
  <2>3. CASE StartPass \/ Tick
    <3>1. UNCHANGED view /\ loop.at = "idle" BY <2>3 DEF StartPass, Tick, observed
    <3>2. ASSUME NEW i \in Ids, On1(i) PROVE Good(i)
      <4>1. sub'[i].lastValues = sub[i].lastValues /\ On(i)
        <5>1. On(i) BY <2>1, <3>2
        <5>2. CASE StartPass BY <5>1, <5>2 DEF StartPass
        <5>3. CASE Tick BY <5>1, <5>3, TickParts
        <5> QED BY <2>3, <5>1, <5>2, <5>3
      <4>2. Kept(i) BY <2>2, <3>1, <4>1
      <4>3. ~ Sending(i) BY <3>1 DEF Sending
      <4> QED BY <1>3, <4>2, <4>3
    <3> QED BY <1>1, <3>2
  <2>4. ASSUME NEW j \in Ids, GetPendingNotification(j) PROVE SeenInv'
    <3>1. loop.at = "next" BY <2>4 DEF GetPendingNotification
    <3>2. UNCHANGED view /\ \A i \in Ids : ~ Sending(i)
      BY <2>4, <3>1 DEF GetPendingNotification, Sending
    <3>3. PICK k \in Ids : /\ GetPendingNotification(k) /\ loop'.id = k
                           /\ \/ loop'.at = "beat" /\ UNCHANGED sub
                              \/ loop'.at = "beat" /\ Takes(k) /\ News(sub[k]) = {}
                              \/ loop'.at = "lookup" /\ loop'.msg = Changes(sub[k]) /\ Takes(k)
      BY <2>4, <3>1, LoopMoves DEF Loop
    <3>4. Others(k) BY <3>3, PendingParts
    <3>5. ASSUME NEW i \in Ids, On1(i) PROVE Good(i)
      <4>0. On(i) BY <2>1, <3>5
      <4>1. CASE sub'[i] = sub[i] BY <1>3, <3>2, <4>0, <4>1
      <4>2. CASE i = k /\ Takes(i)
        <5>1. sub[i] \in SubTypes BY <1>01
        <5>2. DOMAIN Changes(sub[i]) = News(sub[i]) BY <5>1, ChangesTyped
        <5>3. ASSUME NEW a \in sub[i].attrs, a \notin News(sub[i])
              PROVE  sub'[i].lastValues[a] = sub[i].lastValues[a]
          BY <1>6, <4>0, <4>2, <5>1, <5>3, TakesRecorded
        <5>4. \A a \in sub[i].attrs : a \in DOMAIN view'[i] /\ view'[i][a] = sub[i].lastValues[a]
          BY <1>4, <3>2, <4>0
        <5>5. ASSUME NEW a \in News(sub[i])
              PROVE  loop'.at \in {"lookup", "send"} /\ loop'.id = i /\ a \in DOMAIN loop'.msg
          BY <3>3, <4>2, <5>2, <5>5 DEF Takes
        <5> QED BY <2>2, <4>0, <5>3, <5>4, <5>5 DEF Good
      <4> QED BY <3>3, <3>4, <4>1, <4>2 DEF Others
    <3> QED BY <1>1, <3>5
  <2>5. CASE Heartbeat
    <3>1. UNCHANGED view /\ loop.at = "beat" BY <2>5 DEF Heartbeat, observed
    <3>2. ASSUME NEW i \in Ids, On1(i) PROVE Good(i)
      <4>1. ~ GetPendingNotification(i) BY <3>1 DEF GetPendingNotification
      <4>2. On(i) BY <2>1, <3>2
      <4>3. sub'[i].lastValues = sub[i].lastValues BY <1>11, <4>1, <4>2, LoopTaken
      <4>4. ~ Sending(i) BY <3>1 DEF Sending
      <4> QED BY <1>3, <2>2, <3>1, <4>2, <4>3, <4>4
    <3> QED BY <1>1, <3>2
  <2>6. CASE LookupConnection
    <3>1. UNCHANGED <<view, sub>> /\ loop.at = "lookup" BY <2>6 DEF LookupConnection, observed
    <3>2. (Keeps("send") /\ loop'.msg = loop.msg) \/ loop.id \notin subscriptionMap
      BY <1>0, <2>6, <3>1, LoopMoves DEF Loop
    <3>3. ASSUME NEW i \in Ids, On1(i) PROVE Good(i)
      <4>1. Kept(i) BY <2>1, <3>1, <3>3
      <4>2. CASE Sending(i)
        <5>1. Keeps("send") /\ loop'.msg = loop.msg /\ loop'.id = i
          BY <3>2, <4>1, <4>2 DEF Sending, Keeps
        <5>2. \A a \in sub[i].attrs : Seen(i, a) BY <1>5, <4>1
        <5> QED BY <3>1, <5>1, <5>2 DEF Good, Seen, Keeps
      <4>3. CASE ~ Sending(i) BY <1>3, <4>1, <4>3
      <4> QED BY <4>2, <4>3
    <3> QED BY <1>1, <3>3
  <2>7. CASE Send
    <3> DEFINE id == loop.id
               m == loop.msg
    <3>1. /\ UNCHANGED sub /\ loop.at = "send" /\ view' = [view EXCEPT ![id] = Update(view[id], m)]
      BY <2>7 DEF Send, Deliver
    <3>2. id \in subscriptions => \A a \in DOMAIN m : m[a] = sub[id].lastValues[a]
      BY <3>1 DEF MessageInv, Sending
    <3>3. \A i \in Ids : Sending(i) <=> i = id BY <3>1 DEF Sending
    <3>4. m \in Maps BY <1>01
    <3>5. ASSUME NEW i \in Ids, On(i), NEW a \in sub[i].attrs, a \notin DOMAIN m
          PROVE  a \in DOMAIN view[i] /\ view[i][a] = sub[i].lastValues[a]
      BY <1>5, <3>5 DEF Seen
    <3> HIDE DEF id, m
    <3>6. ASSUME NEW i \in Ids, On1(i) PROVE Good(i)
      <4>0. On(i) BY <2>1, <3>6
      <4>1. CASE i # id
        <5>1. view'[i] = view[i] BY <1>01, <3>1, <4>1
        <5> QED BY <1>3, <3>1, <3>3, <4>0, <4>1, <5>1
      <4>2. CASE i = id
        <5> DEFINE u == view[i]
                   v == sub[i].lastValues
        <5>1. u \in Maps BY <1>01
        <5>2. view'[i] = Update(u, m) /\ sub'[i] = sub[i] /\ \A a \in DOMAIN m : m[a] = v[a]
          BY <1>01, <3>1, <3>2, <4>0, <4>2
        <5>3. \A a \in sub[i].attrs \ DOMAIN m : a \in DOMAIN u /\ u[a] = v[a] BY <3>5, <4>0
        <5>4. sub'[i].lastValues = v BY <5>2
        <5> HIDE DEF u, v
        <5>5. /\ DOMAIN Update(u, m) = DOMAIN u \cup DOMAIN m
              /\ \A a \in DOMAIN m : Update(u, m)[a] = m[a]
              /\ \A a \in DOMAIN u \ DOMAIN m : Update(u, m)[a] = u[a]
          BY <3>4, <5>1, UpdateMap
        <5>6. \A a \in sub[i].attrs : a \in DOMAIN Update(u, m) /\ Update(u, m)[a] = v[a]
          BY <5>2, <5>3, <5>5
        <5> QED BY <5>2, <5>4, <5>6 DEF Good
      <4> QED BY <4>1, <4>2
    <3> QED BY <1>1, <3>6
  <2> QED BY <1>11, <2>3, <2>4, <2>5, <2>6, <2>7 DEF Loop
<1>12. \/ Reader \/ (\E w \in Writers : Writer(w)) \/ Loop \/ Tick
       \/ (\E a \in Attrs, v \in Values : SetDirectly(a, v)) /\ val' = val
  BY SerialStep
<1>13. CASE Loop \/ Tick BY <1>11, <1>13
<1> QED BY <1>8, <1>9, <1>10, <1>12, <1>13

\* All of it together.
KnowledgeInv == MessageInv /\ IsFiniteSet(Busy) /\ SerialInv /\ RecordedInv /\ ViewInv

\* Every step keeps all of it.
LEMMA KnowledgeNext ==
    ASSUME Typed, ActiveInv, RoutesInv, TimesInv, KnowledgeInv, [Next]_vars
    PROVE  KnowledgeInv'
<1>0. /\ MessageInv /\ IsFiniteSet(Busy) /\ SerialInv /\ RecordedInv /\ ViewInv
      /\ PassInv /\ AckedInv
  BY DEF KnowledgeInv, TimesInv
<1>1. MessageInv' BY <1>0, MessageNext
<1>2. IsFiniteSet(Busy)' BY <1>0, BusyFinite
<1>3. SerialInv' BY <1>0, SerialNext
<1>4. RecordedInv' /\ ViewInv'
  <2> SUFFICES ASSUME Undisturbed' PROVE (ReadInv /\ KnownInv)' /\ SeenInv'
    BY DEF RecordedInv, ViewInv
  <2>1. CASE ~ UNCHANGED vars BY <1>0, <2>1, ReadNext, KnownNext, ViewNext
  <2>2. CASE UNCHANGED vars
    <3>0. /\ UNCHANGED <<val, sub, subscriptions, arrays, subscriptionMap, reader, writer, loop,
                         view, acked>>
          /\ Undisturbed
      BY <1>0, <2>2, SerialStep DEF vars, feature, manager, dispatcher, observed
    <3>1. ReadInv' BY <1>0, <3>0 DEF RecordedInv, ReadInv
    <3>2. KnownInv' BY <1>0, <3>0 DEF RecordedInv, KnownInv, Known, Recorded, Ahead, Busy
    <3>3. SeenInv' BY <1>0, <3>0 DEF ViewInv, SeenInv, Seen, Sending, Live
    <3> QED BY <3>1, <3>2, <3>3
  <2> QED BY <2>1, <2>2
<1> QED BY <1>1, <1>2, <1>3, <1>4 DEF KnowledgeInv

\* At the start nothing is known and nothing is under way.
LEMMA KnowledgeInit == Init => KnowledgeInv
<1> SUFFICES ASSUME Init PROVE KnowledgeInv OBVIOUS
<1>1. Busy = {} /\ subscriptions = {} /\ reader.at = "idle" /\ acked = {}
  BY StartTypes DEF Init, Busy
<1>2. IsFiniteSet(Busy) BY <1>1, FS_EmptySet
<1>3. MessageInv /\ SerialInv BY <1>1 DEF MessageInv, SerialInv
<1>4. RecordedInv /\ ViewInv
  BY <1>1 DEF RecordedInv, ReadInv, KnownInv, ViewInv, SeenInv, Live, Subscribing
<1> QED BY <1>2, <1>3, <1>4 DEF KnowledgeInv

\* If no change overlapped a subscribe, an unsubscribe or another change, and no
\* generated setter was used, the controller has the value of every subscribed
\* attribute whenever nothing is under way (RecordChange, GetPendingNotification
\* and its suppression, Respond).
THEOREM CurrentWhenSerial == Spec => []CurrentUnlessOverlap
<1>1. Typed /\ ActiveInv /\ RoutesInv /\ KnowledgeInv => CurrentUnlessOverlap
  <2> SUFFICES ASSUME Typed, ActiveInv, RoutesInv, KnowledgeInv, overlap = {}, Quiet,
                      NEW i \in Live, NEW a \in sub[i].attrs
               PROVE  a \in DOMAIN view[i] /\ view[i][a] = val[a]
    BY DEF CurrentUnlessOverlap, CurrentWhenQuiet, Current
  <2>1. Undisturbed /\ conn.up /\ Busy = {} BY DEF Quiet, Undisturbed, RoutesInv, Busy
  <2>2. i \in subscriptionMap BY <2>1 DEF Quiet, RoutesInv, InFlight, Live
  <2>3. Seen(i, a) /\ ~ Sending(i)
    BY <2>1, <2>2 DEF KnowledgeInv, ViewInv, SeenInv, Quiet, Sending
  <2>4. Known(i, a) BY <2>1 DEF KnowledgeInv, RecordedInv, KnownInv, Live
  <2>5. DOMAIN sub[i].pending = {} BY DEF KnowledgeInv, MessageInv, Quiet, Live
  <2>6. Recorded(i, a) = sub[i].lastValues[a] BY <2>5 DEF Recorded
  <2>7. Recorded(i, a) = val[a] BY <2>1, <2>4 DEF Known
  <2> QED BY <2>3, <2>6, <2>7 DEF Seen
<1>2. Typed /\ ActiveInv /\ RoutesInv /\ TimesInv /\ KnowledgeInv /\ [Next]_vars => KnowledgeInv'
  BY KnowledgeNext
<1> QED BY <1>1, <1>2, KnowledgeInit, AlwaysTyped, AlwaysRouted, AlwaysInTime, PTL DEF Spec
=============================================================================
