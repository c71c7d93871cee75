------------------------- MODULE InteractionClient -------------------------
(***************************************************************************)
(* The request side of a session (mash-go/pkg/interaction/client.go), used *)
(* by the sessions of a controller and of a device.                        *)
(*                                                                         *)
(* Several goroutines call the client.  A call takes a message ID, checks  *)
(* that the client is open, registers a channel, sends its request and     *)
(* waits on the channel, for its context and for a timeout.  The session's *)
(* reader looks up the channel of a response under the lock and sends on   *)
(* it outside; Close closes the channels of all pending calls.  A send on  *)
(* a closed channel ends the process.                                      *)
(*                                                                         *)
(* Calls are numbered to tell them apart; the number is not in the code.   *)
(* The peer answers a request at most once, at any time and in any order,  *)
(* or not at all.                                                          *)
(***************************************************************************)
EXTENDS Naturals, FiniteSets

CONSTANTS
    Callers,   \* goroutines that call the client
    IdSpace,   \* message IDs are 0 .. IdSpace - 1, 2^32 of them in the code
    MaxCalls   \* bound: calls made; no ID comes round twice

Calls == 1 .. MaxCalls
MessageIds == 0 .. IdSpace - 1
NotificationMessageID == 0
NoCall == 0

ASSUME ConstantsAssumption ==
    /\ MaxCalls \in Nat /\ IdSpace \in Nat /\ MaxCalls < IdSpace

VARIABLES
    nextMsgID,  \* Client.nextMsgID
    closed,     \* Client.closed
    pending,    \* keys of Client.pending
    channel,    \* the call whose channel is pending under an ID
    buffer,     \* the response in a call's channel, named by the call it answers
    shut,       \* calls whose channel is closed
    made,       \* calls made so far
    id,         \* the message ID of each call
    pc, call,   \* where each caller is, and its call
    requests, responses,  \* under way to the peer and back, by call
    reader,     \* the session's reader: a response and the channel it found
    panicked,   \* a send on a closed channel ended the process
    answer      \* ghost: the response each call returned

client == <<nextMsgID, closed, pending, channel, buffer, shut>>
vars == <<client, made, id, pc, call, requests, responses, reader, panicked, answer>>

IdleReader == [response |-> NoCall, found |-> NoCall]

TypeOK ==
    /\ nextMsgID \in MessageIds /\ closed \in BOOLEAN /\ panicked \in BOOLEAN
    /\ pending \subseteq MessageIds /\ channel \in [MessageIds -> Calls \cup {NoCall}]
    /\ made \in 0 .. MaxCalls /\ shut \subseteq Calls
    /\ buffer \in [Calls -> Calls \cup {NoCall}] /\ answer \in [Calls -> Calls \cup {NoCall}]
    /\ id \in [Calls -> MessageIds]
    /\ pc \in [Callers -> {"idle", "new", "open", "registered", "waiting", "cleanup"}]
    /\ call \in [Callers -> Calls \cup {NoCall}]
    /\ requests \subseteq Calls /\ responses \subseteq Calls
    /\ reader \in [response : Calls \cup {NoCall}, found : Calls \cup {NoCall}]

\* The counter may start anywhere: the client may have been used for long.
Init ==
    /\ nextMsgID \in MessageIds /\ closed = FALSE
    /\ pending = {} /\ channel = [m \in MessageIds |-> NoCall]
    /\ buffer = [k \in Calls |-> NoCall] /\ shut = {}
    /\ made = 0 /\ id = [k \in Calls |-> NotificationMessageID]
    /\ pc = [c \in Callers |-> "idle"] /\ call = [c \in Callers |-> NoCall]
    /\ requests = {} /\ responses = {} /\ reader = IdleReader
    /\ panicked = FALSE /\ answer = [k \in Calls |-> NoCall]

Goto(c, place) == pc' = [pc EXCEPT ![c] = place]

\* The counter wraps to 0 and is incremented once more.
NextMessageID(n) == IF n = IdSpace - 1 THEN NotificationMessageID + 1 ELSE n + 1

\* Read, Write, Subscribe, Unsubscribe and Invoke build a request.
NewRequest(c) ==
    /\ pc[c] = "idle" /\ made < MaxCalls
    /\ made' = made + 1
    /\ nextMsgID' = NextMessageID(nextMsgID)
    /\ id' = [id EXCEPT ![made'] = nextMsgID']
    /\ call' = [call EXCEPT ![c] = made']
    /\ Goto(c, "new")
    /\ UNCHANGED <<closed, pending, channel, buffer, shut, requests, responses,
                   reader, panicked, answer>>

\* A closed client refuses the call.
CheckClosed(c) ==
    /\ pc[c] = "new"
    /\ Goto(c, IF closed THEN "idle" ELSE "open")
    /\ call' = IF closed THEN [call EXCEPT ![c] = NoCall] ELSE call
    /\ UNCHANGED <<client, made, id, requests, responses, reader, panicked, answer>>

Register(c) ==
    /\ pc[c] = "open"
    /\ pending' = pending \cup {id[call[c]]}
    /\ channel' = [channel EXCEPT ![id[call[c]]] = call[c]]
    /\ Goto(c, "registered")
    /\ UNCHANGED <<nextMsgID, closed, buffer, shut, made, id, call, requests, responses,
                   reader, panicked, answer>>

\* The request is encoded and sent, or one of the two fails.
SendRequest(c) ==
    /\ pc[c] = "registered"
    /\ \/ requests' = requests \cup {call[c]} /\ Goto(c, "waiting")
       \/ UNCHANGED requests /\ Goto(c, "cleanup")
    /\ UNCHANGED <<client, made, id, call, responses, reader, panicked, answer>>

\* The select takes a buffered response, or sees that the channel is closed.
Receive(c) ==
    /\ pc[c] = "waiting" /\ (buffer[call[c]] # NoCall \/ call[c] \in shut)
    /\ answer' = [answer EXCEPT ![call[c]] = buffer[call[c]]]
    /\ Goto(c, "cleanup")
    /\ UNCHANGED <<client, made, id, call, requests, responses, reader, panicked>>

\* The context ends or the timeout passes.
GiveUp(c) ==
    /\ pc[c] = "waiting" /\ Goto(c, "cleanup")
    /\ UNCHANGED <<client, made, id, call, requests, responses, reader, panicked, answer>>

CleanUpOnTimeout(c) ==  \* mutant: the entry of an answered call stays
    /\ pc[c] = "cleanup"
    /\ pending' = IF answer[call[c]] = NoCall THEN pending \ {id[call[c]]} ELSE pending
    /\ Goto(c, "idle") /\ call' = [call EXCEPT ![c] = NoCall]
    /\ UNCHANGED <<nextMsgID, closed, channel, buffer, shut, made, id, requests,
                   responses, reader, panicked, answer>>

\* The deferred function of sendRequest.
CleanUp(c) ==
    /\ pc[c] = "cleanup"
    /\ pending' = pending \ {id[call[c]]}
    /\ Goto(c, "idle") /\ call' = [call EXCEPT ![c] = NoCall]
    /\ UNCHANGED <<nextMsgID, closed, channel, buffer, shut, made, id, requests,
                   responses, reader, panicked, answer>>

\* The peer takes a request and answers it.
Answer(k) ==
    /\ k \in requests
    /\ requests' = requests \ {k} /\ responses' = responses \cup {k}
    /\ UNCHANGED <<client, made, id, pc, call, reader, panicked, answer>>

HandleResponseInOrder(k) ==  \* mutant: responses are taken to come in order
    /\ reader = IdleReader /\ k \in responses
    /\ responses' = responses \ {k}
    /\ reader' = IF pending # {}
                 THEN [response |-> k, found |-> channel[CHOOSE m \in pending : TRUE]]
                 ELSE IdleReader
    /\ UNCHANGED <<client, made, id, pc, call, requests, panicked, answer>>

\* HandleResponse finds the channel of a response, or drops it.
HandleResponse(k) ==
    /\ reader = IdleReader /\ k \in responses
    /\ responses' = responses \ {k}
    /\ reader' = IF id[k] \in pending
                 THEN [response |-> k, found |-> channel[id[k]]] ELSE IdleReader
    /\ UNCHANGED <<client, made, id, pc, call, requests, panicked, answer>>

\* It sends on the channel: default covers a full one, not a closed one.
SendOnChannel ==
    /\ reader # IdleReader
    /\ panicked' = (reader.found \in shut)
    /\ buffer' = IF reader.found \in shut \/ buffer[reader.found] # NoCall THEN buffer
                 ELSE [buffer EXCEPT ![reader.found] = reader.response]
    /\ reader' = IdleReader
    /\ UNCHANGED <<nextMsgID, closed, pending, channel, shut, made, id, pc, call,
                   requests, responses, answer>>

CloseDropsPending ==  \* mutant: the map is emptied, the channels stay open
    /\ closed' = TRUE /\ pending' = {}
    /\ UNCHANGED <<nextMsgID, channel, buffer, shut, made, id, pc, call, requests,
                   responses, reader, panicked, answer>>

\* Close, under both locks.  A second Close also closes what registered in between.
Close ==
    /\ closed' = TRUE
    /\ shut' = shut \cup {channel[m] : m \in pending}
    /\ pending' = {}
    /\ UNCHANGED <<nextMsgID, channel, buffer, made, id, pc, call, requests,
                   responses, reader, panicked, answer>>

Caller(c) == CheckClosed(c) \/ Register(c) \/ SendRequest(c) \/ Receive(c) \/ CleanUp(c)
Reader == SendOnChannel \/ \E k \in Calls : HandleResponse(k)

Next == /\ ~ panicked
        /\ \/ \E c \in Callers : NewRequest(c) \/ Caller(c) \/ GiveUp(c)
           \/ \E k \in Calls : Answer(k)
           \/ Reader \/ Close

Spec == Init /\ [][Next]_vars

-----------------------------------------------------------------------------

\* A call returns no response but the one to its own request, however late
\* responses come and whatever calls gave up before (pending, HandleResponse).
AnswersOwn == \A k \in Calls : answer[k] \in {k, NoCall}

\* No request has the ID of notifications, on wrap-around neither, and the
\* IDs of two requests differ ("we skip it on wraparound").
IdsDistinct ==
    /\ \A k \in 1 .. made : id[k] # NotificationMessageID
    /\ \A k, l \in 1 .. made : k # l => id[k] # id[l]

\* The map has an entry only for a call that is under way, so that nothing
\* piles up, and every entry leads to the channel of the call with that ID.
PendingUnderWay ==
    \A m \in pending : \E c \in Callers :
        /\ pc[c] \in {"registered", "waiting", "cleanup"}
        /\ id[call[c]] = m /\ channel[m] = call[c]

\* A call that waits has an entry, by which a response or Close can reach it,
\* or its channel is closed: Close takes no entry away and forgets the call.
ClosedReachesWaiting ==
    \A c \in Callers : pc[c] = "waiting" => id[call[c]] \in pending \/ call[c] \in shut

\* What a caller relies on: the client implements CallContract, in which there are
\* no IDs, no channels and no reader.
OpenCalls == {call[c] : c \in {d \in Callers : pc[d] # "idle"}}

Outstanding == {k \in Calls : \/ k \in requests \cup responses \cup {reader.response}
                              \/ \E l \in Calls : buffer[l] = k}

Contract == INSTANCE CallContract WITH
    NoResult <- NoCall, begun <- made, open <- OpenCalls,
    outstanding <- Outstanding, result <- answer

\* A call returns the answer to its own request or nothing, once, and no answer
\* that comes after it (HandleResponse, the deferred delete of sendRequest).
ImplementsContract == Contract!Spec

-----------------------------------------------------------------------------
(* Statements of documents and comments that the code does not keep, listed in
   README.md; no configuration checks them. *)

\* Close "cancels pending requests": once it is done no request is pending.
\* A call may pass the check of closed before and register after it.
CloseCancelsPending == closed => pending = {}

\* A response that finds its channel closed is dropped ("Channel full or
\* closed").  In Go a send on a closed channel panics.
ResponseAfterCloseDropped == ~ panicked
=============================================================================
