--------------------------- MODULE Subscriptions ---------------------------
(***************************************************************************)
(* Subscriptions of one zone session: the notification dispatcher and the  *)
(* subscription manager behind it (mash-go/pkg/service/dispatch/           *)
(* notification_dispatcher.go, mash-go/pkg/subscription).                  *)
(*                                                                         *)
(* Four kinds of goroutine meet here: the session's reader, which serves   *)
(* one subscribe or unsubscribe request at a time; writers of feature      *)
(* attributes (requests of other zones, commands, timers); the             *)
(* dispatcher's loop, which looks at all subscriptions once per interval;  *)
(* and whoever closes the session.  An action is one section under a lock  *)
(* or one send on the connection.                                          *)
(*                                                                         *)
(* One feature is modelled and one connection, as a session has.  The unit *)
(* of time is the dispatcher's processing interval, and a pass of the loop *)
(* ends before the next begins.  Requests for unknown endpoints and        *)
(* features, which are answered and change nothing, and sends that fail    *)
(* are left out.                                                           *)
(***************************************************************************)
EXTENDS Naturals, FiniteSets, Sequences

CONSTANTS
    Attrs, Values, InitialValue,
    Comparable,          \* values of a type valuesEqual knows
    Writers,             \* goroutines that change attributes
    Setters,             \* some code uses the features' generated setters
    Requests,            \* subscribe payloads: [attrs, min, max], 0 for absent
    DefaultMin, DefaultMax,
    MaxSubscriptions,    \* Config.MaxSubscriptions
    MaxIds,              \* bound: subscriptions created
    MaxWrites,           \* bound: attribute changes
    MaxAge               \* bound: ages are not told apart beyond it

Ids == 1 .. MaxIds

ASSUME ConstantsAssumption ==
    /\ InitialValue \in Values /\ Comparable \subseteq Values
    /\ Setters \in BOOLEAN
    /\ Requests \subseteq [attrs : SUBSET Attrs, min : Nat, max : Nat]
    /\ DefaultMin \in Nat \ {0} /\ DefaultMax \in Nat \ {0}
    /\ MaxSubscriptions \in Nat \ {0} /\ MaxIds \in Nat \ {0}
    /\ MaxWrites \in Nat
    /\ MaxAge \in Nat /\ MaxAge > DefaultMax /\ \A r \in Requests : MaxAge > r.max

VARIABLES
    val, writes,     \* the feature's attributes, and how often they changed
    lastId, sub,     \* idGenerator and the Subscription objects
    subscriptions,   \* keys of Manager.subscriptions
    arrays, index,   \* backing arrays, and the slice in featureIndex
    subscriptionMap, \* keys of NotificationDispatcher.subscriptionMap
    conn,            \* the registered connection and its subscriptionIDs
    reader, writer, loop,  \* where the goroutines are
    closing,         \* how far ZoneSession.Close has come
    due,             \* the ticker has fired
    view, acked,     \* ghost: what the controller received, and its subscriptions
    silence, gap,    \* ghost: time since a send, and since a change was taken
    bounced,         \* ghost: subscriptions that suppressed every change once
    overlap          \* ghost: which operations have overlapped

feature == <<val, writes>>
manager == <<lastId, subscriptions, arrays, index>>
dispatcher == <<subscriptionMap, conn>>
observed == <<view, acked, silence, gap, bounced>>
vars == <<feature, manager, sub, dispatcher, reader, writer, loop, closing, due,
          observed, overlap>>

Empty == <<>>                                     \* the map without entries
Maps == UNION {[A -> Values] : A \in SUBSET Attrs}
Update(m, n) == [a \in DOMAIN m \cup DOMAIN n |->
                    IF a \in DOMAIN n THEN n[a] ELSE m[a]]
Older(n) == IF n < MaxAge THEN n + 1 ELSE n

\* AttributeIDs empty means all attributes.
Wanted(attrs) == IF attrs = {} THEN Attrs ELSE attrs

NewSubscription(req, values) ==
    [attrs |-> Wanted(req.attrs), min |-> req.min, max |-> req.max,
     lastNotified |-> 0, lastValues |-> values, pending |-> Empty,
     window |-> 0, hasChanges |-> FALSE, active |-> TRUE]
Unused == [NewSubscription([attrs |-> {}, min |-> 0, max |-> 0], Empty)
              EXCEPT !.active = FALSE]

IdleReader == [at |-> "idle", req |-> [attrs |-> {}, min |-> 0, max |-> 0],
               values |-> Empty, id |-> 0]
IdleLoop == [at |-> "idle", todo |-> {}, id |-> 0, msg |-> Empty, beat |-> FALSE]

Subscribing == {"received", "reading", "prime", "map", "respond"}
Unsubscribing == {"unsubscribe", "unmanage"}

TypeOK ==
    /\ val \in [Attrs -> Values] /\ writes \in 0 .. MaxWrites
    /\ lastId \in 0 .. MaxIds
    /\ \A i \in Ids : /\ sub[i].attrs \subseteq Attrs
                      /\ sub[i].lastValues \in Maps /\ sub[i].pending \in Maps
                      /\ {sub[i].lastNotified, sub[i].window} \subseteq 0 .. MaxAge
                      /\ {sub[i].hasChanges, sub[i].active} \subseteq BOOLEAN
    /\ subscriptions \subseteq 1 .. lastId /\ subscriptionMap \subseteq 1 .. lastId
    /\ index.arr \in 0 .. Len(arrays) /\ index.len \in Nat
    /\ index.len > 0 => index.len <= Len(arrays[index.arr])
    /\ conn.up \in BOOLEAN /\ conn.ids \subseteq 1 .. lastId
    /\ reader.at \in {"idle"} \cup Subscribing \cup Unsubscribing
    /\ reader.values \in Maps
    /\ \A w \in Writers : writer[w].at \in {"idle", "set", "notify"}
    /\ loop.at \in {"idle", "next", "beat", "lookup", "send"}
    /\ loop.todo \subseteq Ids /\ loop.msg \in Maps
    /\ closing \in {"open", "closed", "stopped", "unregistered"}
    /\ due \in BOOLEAN /\ acked \subseteq Ids /\ bounced \subseteq Ids
    /\ \A i \in Ids : view[i] \in Maps /\ {silence[i], gap[i]} \subseteq 0 .. MaxAge

Init ==
    /\ val = [a \in Attrs |-> InitialValue] /\ writes = 0
    /\ lastId = 0 /\ sub = [i \in Ids |-> Unused] /\ subscriptions = {}
    /\ arrays = <<>> /\ index = [arr |-> 0, len |-> 0]
    /\ subscriptionMap = {} /\ conn = [up |-> TRUE, ids |-> {}]
    /\ reader = IdleReader /\ loop = IdleLoop
    /\ writer = [w \in Writers |-> [at |-> "idle"]]
    /\ closing = "open" /\ due = FALSE
    /\ view = [i \in Ids |-> Empty] /\ acked = {}
    /\ silence = [i \in Ids |-> 0] /\ gap = [i \in Ids |-> 0] /\ bounced = {}
    /\ overlap = {}

-----------------------------------------------------------------------------
(* The slice of a feature's subscriptions.  Appending writes into the      *)
(* backing array while it has room and moves to one twice as large when it *)
(* has not; removing shifts the rest of the array to the left in place.  A *)
(* slice taken earlier keeps its array and its length.                     *)

Slice == IF index.len = 0 THEN <<>> ELSE SubSeq(arrays[index.arr], 1, index.len)
Free == 0                                         \* an unused array element

Grown(id) == LET n == IF index.len = 0 THEN 1 ELSE 2 * index.len
             IN [k \in 1 .. n |-> CASE k <= index.len -> arrays[index.arr][k]
                                    [] k = index.len + 1 -> id
                                    [] OTHER -> Free]

AppendToIndex(id) ==
    IF index.arr > 0 /\ index.len < Len(arrays[index.arr])
    THEN /\ arrays' = [arrays EXCEPT ![index.arr][index.len + 1] = id]
         /\ index' = [index EXCEPT !.len = @ + 1]
    ELSE /\ arrays' = Append(arrays, Grown(id))
         /\ index' = [arr |-> Len(arrays) + 1, len |-> index.len + 1]

RemoveFromIndex(id) ==
    LET i == CHOOSE k \in 1 .. index.len : arrays[index.arr][k] = id
        a == arrays[index.arr]
    IN /\ arrays' = [arrays EXCEPT ![index.arr] =
                        [k \in DOMAIN a |-> IF i <= k /\ k < index.len THEN a[k + 1] ELSE a[k]]]
       /\ index' = IF index.len = 1 THEN [arr |-> 0, len |-> 0]
                   ELSE [index EXCEPT !.len = @ - 1]

\* Manager.Unsubscribe.  Of a deactivated Subscription only active is read.
Unsubscribe(id) ==
    IF id \in subscriptions
    THEN /\ sub' = [sub EXCEPT ![id] = Unused]
         /\ subscriptions' = subscriptions \ {id}
         /\ RemoveFromIndex(id)
    ELSE UNCHANGED <<sub, subscriptions, arrays, index>>

\* What the controller has after a notification on subscription id.
Deliver(id, changes) ==
    /\ view' = [view EXCEPT ![id] = Update(@, changes)]
    /\ silence' = [silence EXCEPT ![id] = 0]

-----------------------------------------------------------------------------
(* The session's reader. *)

\* A subscribe request passes the check of s.closed; absent intervals get
\* their defaults.
ReceiveSubscribe(r) ==
    /\ reader.at = "idle" /\ closing = "open" /\ lastId < MaxIds
    /\ reader' = [IdleReader EXCEPT !.at = "received",
                    !.req = [attrs |-> r.attrs,
                             min |-> IF r.min > 0 THEN r.min ELSE DefaultMin,
                             max |-> IF r.max > 0 THEN r.max ELSE DefaultMax]]
    /\ UNCHANGED <<feature, manager, sub, dispatcher, writer, loop, closing, due, observed>>

\* HandleSubscribe refuses a connection that is not registered.
FindConnection ==
    /\ reader.at = "received"
    /\ reader' = IF conn.up THEN [reader EXCEPT !.at = "reading"] ELSE IdleReader
    /\ UNCHANGED <<feature, manager, sub, dispatcher, writer, loop, closing, due, observed>>

\* Current values are read one attribute at a time.
ReadCurrent(a) ==
    /\ reader.at = "reading" /\ a \in Wanted(reader.req.attrs) \ DOMAIN reader.values
    /\ reader' = [reader EXCEPT !.values = Update(@, [b \in {a} |-> val[a]])]
    /\ UNCHANGED <<feature, manager, sub, dispatcher, writer, loop, closing, due, observed>>

\* Manager.Subscribe up to its unlock, with its refusals.
Subscribe ==
    /\ reader.at = "reading" /\ DOMAIN reader.values = Wanted(reader.req.attrs)
    /\ IF reader.req.min > reader.req.max \/ Cardinality(subscriptions) >= MaxSubscriptions
       THEN /\ reader' = IdleReader
            /\ UNCHANGED <<manager, sub>>
       ELSE /\ lastId' = lastId + 1
            /\ sub' = [sub EXCEPT ![lastId'] = NewSubscription(reader.req, reader.values)]
            /\ subscriptions' = subscriptions \cup {lastId'}
            /\ AppendToIndex(lastId')
            /\ reader' = [reader EXCEPT !.at = "prime", !.id = lastId']
    /\ UNCHANGED <<feature, dispatcher, writer, loop, closing, due, observed>>

\* The priming notification goes through handleNotification like any other.
Prime ==
    /\ reader.at = "prime"
    /\ IF reader.id \in subscriptionMap /\ conn.up
       THEN Deliver(reader.id, reader.values)
       ELSE UNCHANGED <<view, silence>>
    /\ reader' = [reader EXCEPT !.at = "map"]
    /\ UNCHANGED <<feature, manager, sub, dispatcher, writer, loop, closing, due,
                   acked, gap, bounced>>

MapSubscription ==
    /\ reader.at = "map"
    /\ subscriptionMap' = subscriptionMap \cup {reader.id}
    /\ conn' = IF conn.up THEN [conn EXCEPT !.ids = @ \cup {reader.id}] ELSE conn
    /\ reader' = [reader EXCEPT !.at = "respond"]
    /\ UNCHANGED <<feature, manager, sub, writer, loop, closing, due, observed>>

\* The response carries the values read at the start.
Respond ==
    /\ reader.at = "respond"
    /\ Deliver(reader.id, reader.values)
    /\ acked' = acked \cup {reader.id}
    /\ reader' = IdleReader
    /\ UNCHANGED <<feature, manager, sub, dispatcher, writer, loop, closing, due, gap, bounced>>

ReceiveUnsubscribe(id) ==
    /\ reader.at = "idle" /\ closing = "open"
    /\ reader' = [IdleReader EXCEPT !.at = "unsubscribe", !.id = id]
    /\ UNCHANGED <<feature, manager, sub, dispatcher, writer, loop, closing, due, observed>>

HandleUnsubscribeOnly ==  \* mutant: the manager is not told
    /\ reader.at = "unsubscribe"
    /\ subscriptionMap' = subscriptionMap \ {reader.id}
    /\ conn' = [conn EXCEPT !.ids = @ \ {reader.id}]
    /\ reader' = IdleReader
    /\ UNCHANGED <<feature, manager, sub, writer, loop, closing, due, observed>>

\* The section of HandleUnsubscribe under the dispatcher's lock.
HandleUnsubscribe ==
    /\ reader.at = "unsubscribe"
    /\ IF reader.id \in subscriptionMap
       THEN /\ subscriptionMap' = subscriptionMap \ {reader.id}
            /\ conn' = [conn EXCEPT !.ids = @ \ {reader.id}]
            /\ reader' = [reader EXCEPT !.at = "unmanage"]
       ELSE /\ reader' = IdleReader
            /\ UNCHANGED dispatcher
    /\ UNCHANGED <<feature, manager, sub, writer, loop, closing, due, observed>>

\* Manager.Unsubscribe and the response.
Unmanage ==
    /\ reader.at = "unmanage"
    /\ Unsubscribe(reader.id)
    /\ acked' = acked \ {reader.id}
    /\ view' = [view EXCEPT ![reader.id] = Empty]
    /\ silence' = [silence EXCEPT ![reader.id] = 0]
    /\ gap' = [gap EXCEPT ![reader.id] = 0]
    /\ bounced' = bounced \ {reader.id}
    /\ reader' = IdleReader
    /\ UNCHANGED <<feature, lastId, dispatcher, writer, loop, closing, due>>

-----------------------------------------------------------------------------
(* Writers of attributes. *)

\* WriteAttribute and SetAttributeInternal set the value, then notify.
SetAttribute(w, a, v) ==
    /\ writer[w].at = "idle" /\ writes < MaxWrites
    /\ val' = [val EXCEPT ![a] = v] /\ writes' = writes + 1
    /\ writer' = [writer EXCEPT ![w] = [at |-> "set", attr |-> a, value |-> v]]
    /\ UNCHANGED <<manager, sub, dispatcher, reader, loop, closing, due, observed>>

\* NotifyChange takes the slice under the manager's read lock.
TakeSlice(w) ==
    /\ writer[w].at = "set"
    /\ writer' = [writer EXCEPT ![w] =
                     IF index.len = 0 THEN [at |-> "idle"]
                     ELSE [at |-> "notify", attr |-> @.attr, value |-> @.value,
                           arr |-> index.arr, len |-> index.len, pos |-> 1]]
    /\ UNCHANGED <<feature, manager, sub, dispatcher, reader, loop, closing, due, observed>>

RecordChangeFirst(id, a, v) ==  \* mutant: a pending value is not replaced
    IF sub[id].active /\ a \in sub[id].attrs
    THEN sub' = [sub EXCEPT ![id].pending = Update([b \in {a} |-> v], @),
                            ![id].hasChanges = TRUE,
                            ![id].window = IF sub[id].hasChanges THEN @ ELSE 0]
    ELSE UNCHANGED sub

RecordChangeOldWindow(id, a, v) ==  \* mutant: the window's start is not set
    IF sub[id].active /\ a \in sub[id].attrs
    THEN sub' = [sub EXCEPT ![id].pending = Update(@, [b \in {a} |-> v]),
                            ![id].hasChanges = TRUE]
    ELSE UNCHANGED sub

RecordChangeUnmarked(id, a, v) ==  \* mutant: hasChanges is not set
    IF sub[id].active /\ a \in sub[id].attrs
    THEN sub' = [sub EXCEPT ![id].pending = Update(@, [b \in {a} |-> v])]
    ELSE UNCHANGED sub

\* Subscription.RecordChange
RecordChange(id, a, v) ==
    IF sub[id].active /\ a \in sub[id].attrs
    THEN sub' = [sub EXCEPT ![id].pending = Update(@, [b \in {a} |-> v]),
                            ![id].hasChanges = TRUE,
                            ![id].window = IF sub[id].hasChanges THEN @ ELSE 0]
    ELSE UNCHANGED sub

\* One element of NotifyChange's loop over the slice it took.
NotifyOne(w) ==
    /\ writer[w].at = "notify"
    /\ RecordChange(arrays[writer[w].arr][writer[w].pos], writer[w].attr, writer[w].value)
    /\ writer' = [writer EXCEPT ![w] =
                     IF @.pos = @.len THEN [at |-> "idle"] ELSE [@ EXCEPT !.pos = writer[w].pos + 1]]
    /\ UNCHANGED <<feature, manager, dispatcher, reader, loop, closing, due, observed>>

\* The features' generated setters set the attribute and notify nobody.
SetDirectly(a, v) ==
    /\ Setters /\ writes < MaxWrites
    /\ val' = [val EXCEPT ![a] = v] /\ writes' = writes + 1
    /\ UNCHANGED <<manager, sub, dispatcher, reader, writer, loop, closing, due, observed>>

-----------------------------------------------------------------------------
(* The dispatcher's loop. *)

StartPass ==
    /\ loop.at = "idle" /\ due /\ closing \in {"open", "closed"}
    /\ due' = FALSE
    /\ loop' = IF subscriptions = {} THEN IdleLoop
               ELSE [IdleLoop EXCEPT !.at = "next", !.todo = subscriptions]
    /\ UNCHANGED <<feature, manager, sub, dispatcher, reader, writer, closing, observed>>

\* valuesEqual knows nil, int, int32, int64, their unsigned kinds, floats,
\* strings and booleans; it takes values of any other type for different.
ValuesEqual(v, u) == v = u /\ v \in Comparable

\* Subscription.GetPendingNotification for the next subscription of the pass.
GetPendingNotification(id) ==
    LET s == sub[id]
        news == {a \in DOMAIN s.pending :
                    ~ (a \in DOMAIN s.lastValues /\ ValuesEqual(s.lastValues[a], s.pending[a]))}
        changes == [a \in news |-> s.pending[a]]
    IN
    /\ loop.at = "next" /\ id \in loop.todo
    /\ IF s.active /\ s.hasChanges /\ s.window >= s.min
       THEN /\ sub' = [sub EXCEPT ![id] =
                          [s EXCEPT !.lastValues = Update(@, changes), !.pending = Empty,
                                    !.hasChanges = FALSE, !.lastNotified = 0]]
            /\ IF news = {}
               THEN /\ loop' = [loop EXCEPT !.at = "beat", !.id = id]
                    /\ bounced' = bounced \cup {id} /\ UNCHANGED gap
               ELSE /\ loop' = [loop EXCEPT !.at = "lookup", !.id = id, !.msg = changes,
                                            !.beat = FALSE]
                    /\ gap' = [gap EXCEPT ![id] = 0] /\ UNCHANGED bounced
       ELSE /\ loop' = [loop EXCEPT !.at = "beat", !.id = id]
            /\ UNCHANGED <<sub, gap, bounced>>
    /\ UNCHANGED <<feature, manager, dispatcher, reader, writer, closing, due,
                   view, acked, silence>>

NextSubscription ==
    IF loop.todo = {loop.id} THEN IdleLoop
    ELSE [IdleLoop EXCEPT !.at = "next", !.todo = loop.todo \ {loop.id}]

HeartbeatLate ==  \* mutant: > for >=
    /\ loop.at = "beat"
    /\ IF sub[loop.id].active /\ sub[loop.id].lastNotified > sub[loop.id].max
       THEN /\ sub' = [sub EXCEPT ![loop.id].lastNotified = 0]
            /\ loop' = [loop EXCEPT !.at = "lookup", !.msg = sub[loop.id].lastValues,
                                    !.beat = TRUE]
       ELSE /\ loop' = NextSubscription
            /\ UNCHANGED sub
    /\ UNCHANGED <<feature, manager, dispatcher, reader, writer, closing, due, observed>>

\* A full heartbeat, when the time for one has come.
Heartbeat ==
    /\ loop.at = "beat"
    /\ IF sub[loop.id].active /\ sub[loop.id].lastNotified >= sub[loop.id].max
       THEN /\ sub' = [sub EXCEPT ![loop.id].lastNotified = 0]
            /\ loop' = [loop EXCEPT !.at = "lookup", !.msg = sub[loop.id].lastValues,
                                    !.beat = TRUE]
       ELSE /\ loop' = NextSubscription
            /\ UNCHANGED sub
    /\ UNCHANGED <<feature, manager, dispatcher, reader, writer, closing, due, observed>>

AfterMessage == IF loop.beat THEN NextSubscription
                ELSE [loop EXCEPT !.at = "beat", !.msg = Empty]

\* handleNotification drops what belongs to no registered connection.
LookupConnection ==
    /\ loop.at = "lookup"
    /\ loop' = IF loop.id \in subscriptionMap /\ conn.up
               THEN [loop EXCEPT !.at = "send"] ELSE AfterMessage
    /\ UNCHANGED <<feature, manager, sub, dispatcher, reader, writer, closing, due, observed>>

Send ==
    /\ loop.at = "send"
    /\ Deliver(loop.id, loop.msg)
    /\ loop' = AfterMessage
    /\ UNCHANGED <<feature, manager, sub, dispatcher, reader, writer, closing, due,
                   acked, gap, bounced>>

\* Times since lastNotified and, while changes are pending, changeWindowStart.
Aged(s) == [s EXCEPT !.lastNotified = Older(@),
                     !.window = IF s.hasChanges THEN Older(@) ELSE 0]

\* The next processing interval: the last pass is over.
Tick ==
    /\ closing = "open" /\ loop.at = "idle" /\ ~ due
    /\ due' = TRUE
    /\ sub' = [i \in Ids |-> IF i \in subscriptions THEN Aged(sub[i]) ELSE sub[i]]
    /\ silence' = [i \in Ids |-> IF i \in acked THEN Older(silence[i]) ELSE silence[i]]
    /\ gap' = [i \in Ids |-> IF i \in subscriptions THEN Older(gap[i]) ELSE gap[i]]
    /\ UNCHANGED <<feature, manager, dispatcher, reader, writer, loop, closing,
                   view, acked, bounced>>

-----------------------------------------------------------------------------
(* ZoneSession.Close, called by another goroutine than the reader. *)

Close ==
    /\ closing = "open" /\ closing' = "closed"
    /\ UNCHANGED <<feature, manager, sub, dispatcher, reader, writer, loop, due, observed>>

\* Stop waits for the loop.
StopDispatcher ==
    /\ closing = "closed" /\ loop.at = "idle" /\ closing' = "stopped"
    /\ UNCHANGED <<feature, manager, sub, dispatcher, reader, writer, loop, due, observed>>

UnregisterKeepsMap ==  \* mutant: the mappings stay
    /\ closing = "stopped" /\ closing' = "unregistered"
    /\ conn' = [conn EXCEPT !.up = FALSE]
    /\ UNCHANGED <<feature, manager, sub, subscriptionMap, reader, writer, loop, due, observed>>

UnregisterConnection ==
    /\ closing = "stopped" /\ closing' = "unregistered"
    /\ conn' = [conn EXCEPT !.up = FALSE]
    /\ subscriptionMap' = subscriptionMap \ conn.ids
    /\ UNCHANGED <<feature, manager, sub, reader, writer, loop, due, observed>>

\* The copied subscription IDs are unsubscribed outside the lock.
UnsubscribeCopied(id) ==
    /\ closing = "unregistered" /\ id \in conn.ids
    /\ conn' = [conn EXCEPT !.ids = @ \ {id}]
    /\ Unsubscribe(id)
    /\ UNCHANGED <<feature, lastId, subscriptionMap, reader, writer, loop, closing, due, observed>>

-----------------------------------------------------------------------------

\* Operations in progress at the same time, and uses of a setter.
Overlapping ==
    LET busy == {w \in Writers : writer'[w].at # "idle"}
    IN {o \in {"subscribe", "unsubscribe", "writers", "close", "setter"} :
            CASE o = "subscribe" -> busy # {} /\ reader'.at \in Subscribing
              [] o = "unsubscribe" -> busy # {} /\ reader'.at \in Unsubscribing
              [] o = "writers" -> Cardinality(busy) > 1
              [] o = "close" -> closing' # "open" /\ reader'.at # "idle"
              [] o = "setter" -> val' # val /\ writer' = writer}

Reader == \/ \E r \in Requests : ReceiveSubscribe(r)
          \/ FindConnection \/ \E a \in Attrs : ReadCurrent(a)
          \/ Subscribe \/ Prime \/ MapSubscription \/ Respond
          \/ \E id \in Ids : ReceiveUnsubscribe(id)
          \/ HandleUnsubscribe \/ Unmanage
Writer(w) == \/ \E a \in Attrs, v \in Values : SetAttribute(w, a, v)
             \/ TakeSlice(w) \/ NotifyOne(w)
Loop == \/ StartPass \/ \E id \in Ids : GetPendingNotification(id)
        \/ Heartbeat \/ LookupConnection \/ Send
Closer == \/ Close \/ StopDispatcher \/ UnregisterConnection
          \/ \E id \in Ids : UnsubscribeCopied(id)

Next == /\ \/ Reader \/ \E w \in Writers : Writer(w)
           \/ \E a \in Attrs, v \in Values : SetDirectly(a, v)
           \/ Loop \/ Tick \/ Closer
        /\ overlap' = overlap \cup Overlapping

Spec == Init /\ [][Next]_vars

Observing(A) == A /\ overlap' = overlap \cup Overlapping

\* The goroutine writes to the connection, without a deadline.
ReaderSending == reader.at \in {"respond", "unmanage"}
LoopSending == loop.at = "send"

\* Goroutines that have begun an operation go on with it, the ticker ticks.  That
\* a send ends is not assumed.
Fairness ==
    /\ WF_vars(Observing(Reader /\ reader.at # "idle" /\ ~ ReaderSending))
    /\ \A w \in Writers : WF_vars(Observing(TakeSlice(w) \/ NotifyOne(w)))
    /\ WF_vars(Observing(Loop /\ ~ LoopSending)) /\ WF_vars(Observing(Tick))
    /\ WF_vars(Observing(Closer /\ closing # "open"))
FairSpec == Spec /\ Fairness

-----------------------------------------------------------------------------
(* What the controller knows. *)

Live == acked \cap subscriptions

\* Nothing is under way and no change waits to be sent.
Quiet ==
    /\ closing = "open" /\ reader.at = "idle" /\ loop.at = "idle"
    /\ \A w \in Writers : writer[w].at = "idle"
    /\ \A i \in subscriptions : ~ sub[i].hasChanges

Current(i) == \A a \in sub[i].attrs : a \in DOMAIN view[i] /\ view[i][a] = val[a]
CurrentWhenQuiet == Quiet => \A i \in Live : Current(i)

\* If no change overlapped a subscribe, an unsubscribe or another change, and
\* no generated setter was used, then whenever nothing is under way every
\* subscription has delivered the value each of its attributes has
\* (RecordChange, GetPendingNotification and its suppression, Respond).
CurrentUnlessOverlap == overlap = {} => CurrentWhenQuiet

\* No subscription is silent for longer than its maximum interval, which a
\* full heartbeat ends, unless all its changes were suppressed once.
HeartbeatUnlessBounce ==
    \A i \in Live \ bounced : i \in subscriptionMap => silence[i] <= sub[i].max

\* Two notifications of changes on one subscription are taken at least its
\* minimum interval apart: a window starts anew with the first change after
\* the last one was taken.
ChangesSpaced ==
    [][\A i \in subscriptions :
          GetPendingNotification(i) /\ loop'.at = "lookup" => gap[i] >= sub[i].min]_vars

-----------------------------------------------------------------------------
(* Book-keeping of manager and dispatcher. *)

\* The index of the feature lists every subscription once, after any number
\* of in-place removals and reused backing arrays, and their number is kept.
IndexConsistent ==
    /\ {Slice[k] : k \in DOMAIN Slice} = subscriptions
    /\ index.len = Cardinality(subscriptions)
    /\ Cardinality(subscriptions) <= MaxSubscriptions
    /\ subscriptions = {i \in Ids : sub[i].active}

\* Between requests every subscription has a connection to notify, and the
\* other way round: nothing is sent into the void or kept for nobody.
RoutesComplete ==
    reader.at = "idle" /\ closing = "open" =>
        subscriptionMap = subscriptions /\ conn.ids = subscriptions

\* Index, manager and connections agree (Subscribe, HandleUnsubscribe,
\* RemoveFromIndex).
SubscriptionsAgree == IndexConsistent /\ RoutesComplete

Closed == closing = "unregistered" /\ conn.ids = {} /\ reader.at = "idle"
NothingLeft == Closed => subscriptions = {} /\ subscriptionMap = {}

\* A closed session has no subscription left, if no request was in progress.
ClosedUnlessOverlap == "close" \notin overlap => NothingLeft

\* The controller goes on reading, so that every send ends.
PeerReads == []<>(~ ReaderSending) /\ []<>(~ LoopSending)

\* A value that differs from the last one the controller received reaches it, by a
\* notification of changes within the loop's passes, unless it has stopped reading.
ChangesDelivered ==
    PeerReads =>
        \A i \in Ids, a \in Attrs :
            i \in Live /\ a \in sub[i].attrs \cap DOMAIN view[i] /\ view[i][a] # val[a]
                ~> \/ i \notin Live
                   \/ a \in DOMAIN view[i] /\ view[i][a] = val[a]
                   \/ overlap # {} \/ closing # "open"

-----------------------------------------------------------------------------
(* Statements of documents and comments that the code does not keep, listed in
   README.md; no configuration checks them. *)

\* A change that overlaps a subscribe request is delivered too: the values
\* in lastValues are those the device has ("All subscribed attributes with
\* current values").  The code reads them before the subscription exists.
SubscribeLosesNoChange == overlap \subseteq {"subscribe"} => CurrentWhenQuiet

\* Unsubscribing one subscription takes no change from another: NotifyChange
\* "records a value change for dispatch to relevant subscriptions".  Its slice
\* is shifted in place under it.
UnsubscribeSparesOthers == overlap \subseteq {"unsubscribe"} => CurrentWhenQuiet

\* Of several changes the last wins, also when two goroutines make them.  The
\* value is set and recorded in different sections.
LastValueWins == overlap \subseteq {"writers"} => CurrentWhenQuiet

\* Every change of a subscribed attribute reaches the controller, those by
\* the generated setters too (the limit resolver's effective limits).
SettersNotify == overlap \subseteq {"setter"} => CurrentWhenQuiet

\* A value that equals the last one the controller received is not sent
\* again, whatever its type, as the behaviour specification says.
BounceBackSuppressed ==
    [][Send /\ ~ loop.beat /\ overlap = {} =>
          \A a \in DOMAIN loop.msg :
              a \notin DOMAIN view[loop.id] \/ view[loop.id][a] # loop.msg[a]]_vars

\* MaxInterval "is the maximum time without notification (heartbeat)", also
\* when changes are suppressed.  The code restarts it for nothing sent.
HeartbeatInTime ==
    \A i \in Live : i \in subscriptionMap => silence[i] <= sub[i].max

\* MinInterval "is the minimum time between notifications" of any kind.  The
\* code does not look at the last heartbeat.
NotificationsSpaced ==
    [][Send /\ loop.id \in acked => silence[loop.id] >= sub[loop.id].min]_vars

\* A subscribe request "sends a priming notification with all current values".
\* The subscription is not mapped to its connection when it is sent.
PrimingDelivered == [][Prime /\ conn.up => view'[reader.id] = reader.values]_vars

\* "Clear all subscriptions for this zone": a closed session has none, even
\* if a subscribe request was in progress when it was closed.
SubscriptionsEndWithSession == NothingLeft

\* "Close closes the session and cleans up resources", also when the peer has
\* stopped reading.  Close waits for the loop, which may be in a send that has no
\* deadline.
CloseEnds == closing = "closed" ~> closing = "unregistered" /\ conn.ids = {}
=============================================================================
