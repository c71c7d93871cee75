------------------------- MODULE DeviceSessionProofs -------------------------
(***************************************************************************)
(* Safety of the client of a session and of the renewals over it, for any  *)
(* callers, any ID space and any number of calls smaller than it, and for  *)
(* any renewals.                                                           *)
(*                                                                         *)
(* The client (InteractionClient).  That a response reaches its own call   *)
(* rests on message IDs: the IDs of the calls made are consecutive, up to  *)
(* one wrap, so two calls never share one; every entry of pending leads to *)
(* the call with its ID; what the reader holds, a channel buffers and a    *)
(* call returns is therefore the response to that very call.               *)
(*                                                                         *)
(* The session (DeviceSession).  Nothing in a message of a renewal ties it *)
(* to its request.  What makes a certificate that RenewDevice returns one  *)
(* the device has installed is an order of keys: a CSR under way is for a  *)
(* newer key than all certificates that may still be sent, the renewal     *)
(* whose handler hangs in the session has the newest CSR, and the device   *)
(* installs a certificate for its last key only.                           *)
(***************************************************************************)
EXTENDS DeviceSession, Integers, SequenceTheorems, TLAPS

-----------------------------------------------------------------------------
(* The client. *)

Made == 1 .. made
Busy == {"registered", "waiting", "cleanup"}

\* IDs are consecutive, up to one wrap that skips 0.
IdsInSequence ==
    /\ made > 0 => nextMsgID = id[made]
    /\ \A k \in Made : id[k] # NotificationMessageID
    /\ \A k, l \in Made : k <= l => \/ id[l] = id[k] + (l - k)
                                    \/ id[l] = id[k] + (l - k) - (IdSpace - 1)

\* Callers have different calls.
CallsOwned ==
    /\ \A c \in Callers : pc[c] # "idle" => call[c] \in Made
    /\ \A c, d \in Callers : pc[c] # "idle" /\ pc[d] # "idle" /\ c # d => call[c] # call[d]

\* A response travels to the call it answers.
ResponsesOwned ==
    /\ requests \subseteq Made /\ responses \subseteq Made
    /\ \A m \in pending : channel[m] \in Made /\ id[channel[m]] = m
    /\ reader.found \in {reader.response, NoCall}
    /\ reader.found = NoCall => reader.response = NoCall
    /\ \A k \in Calls : buffer[k] \in {k, NoCall} /\ answer[k] \in {k, NoCall}

\* A call under way has its own channel in the map, or that channel is shut.
CallsReachable ==
    \A c \in Callers : pc[c] \in {"registered", "waiting"} =>
        \/ call[c] \in shut
        \/ id[call[c]] \in pending /\ channel[id[call[c]]] = call[c]

\* Consecutive IDs differ while fewer calls are made than there are IDs.
LEMMA ConsecutiveDiffer ==
    ASSUME TypeOK, IdsInSequence, NEW k \in Made, NEW l \in Made, k # l
    PROVE  id[k] # id[l]
<1>1. made \in Nat /\ MaxCalls \in Nat /\ IdSpace \in Nat /\ made <= MaxCalls /\ MaxCalls < IdSpace
  BY ConstantsAssumption DEF TypeOK
<1>2. k \in Calls /\ l \in Calls BY <1>1 DEF Made, Calls
<1>3. id[k] \in Int /\ id[l] \in Int BY <1>1, <1>2 DEF TypeOK, MessageIds
<1>4. CASE k <= l
  <2>1. id[l] = id[k] + (l - k) \/ id[l] = id[k] + (l - k) - (IdSpace - 1)
    BY <1>4 DEF IdsInSequence
  <2> QED BY <2>1, <1>1, <1>3, <1>4 DEF Made
<1>5. CASE l <= k
  <2>1. id[k] = id[l] + (k - l) \/ id[k] = id[l] + (k - l) - (IdSpace - 1)
    BY <1>5 DEF IdsInSequence
  <2> QED BY <2>1, <1>1, <1>3, <1>5 DEF Made
<1> QED BY <1>1, <1>4, <1>5 DEF Made

\* The next ID is a message ID and not the one of notifications.
LEMMA NextIdValid ==
    ASSUME TypeOK, made < MaxCalls
    PROVE  NextMessageID(nextMsgID) \in MessageIds \ {NotificationMessageID}
BY ConstantsAssumption DEF TypeOK, MessageIds, NextMessageID, NotificationMessageID

-----------------------------------------------------------------------------
(* Types, and that callers have different calls. *)

\* Every step keeps the types and the calls apart.
LEMMA CallsStep ==
    TypeOK /\ CallsOwned /\ ResponsesOwned /\ [Next]_vars => TypeOK' /\ CallsOwned'
<1> SUFFICES ASSUME TypeOK, CallsOwned, ResponsesOwned, [Next]_vars PROVE TypeOK' /\ CallsOwned'
  OBVIOUS
<1> USE ConstantsAssumption
<1>0. made \in Nat /\ MaxCalls \in Nat /\ made <= MaxCalls /\ Made \subseteq Calls
  BY DEF TypeOK, Made, Calls
<1>1. ASSUME NEW c \in Callers, NewRequest(c) PROVE TypeOK' /\ CallsOwned'
  <2>1. made' = made + 1 /\ made' \in 0 .. MaxCalls /\ made' \in Calls /\ made' \notin Made
    BY <1>0, <1>1 DEF NewRequest, Calls, Made
  <2>2. nextMsgID' \in MessageIds BY <1>1, NextIdValid DEF NewRequest
  <2>3. TypeOK' BY <2>1, <2>2, <1>1 DEF NewRequest, TypeOK, Goto
  <2>4. Made' = Made \cup {made'} BY <1>0, <2>1 DEF Made
  <2>5. call' = [call EXCEPT ![c] = made'] /\ pc' = [pc EXCEPT ![c] = "new"] /\ pc[c] = "idle"
    BY <1>1 DEF NewRequest, Goto
  <2>6. ASSUME NEW d \in Callers, pc'[d] # "idle"
        PROVE  call'[d] \in Made' /\ (d # c => call'[d] = call[d] /\ call[d] \in Made)
                                  /\ (d = c => call'[d] = made')
    BY <2>4, <2>5, <2>6 DEF CallsOwned, TypeOK
  <2>7. ASSUME NEW d \in Callers, NEW e \in Callers, pc'[d] # "idle", pc'[e] # "idle", d # e
        PROVE  call'[d] # call'[e]
    <3>1. CASE d = c BY <3>1, <2>1, <2>6, <2>7
    <3>2. CASE e = c BY <3>2, <2>1, <2>6, <2>7
    <3>3. CASE d # c /\ e # c BY <3>3, <2>5, <2>7 DEF CallsOwned, TypeOK
    <3> QED BY <3>1, <3>2, <3>3
  <2> QED BY <2>3, <2>6, <2>7 DEF CallsOwned
<1>2. ASSUME NEW c \in Callers, CheckClosed(c) PROVE TypeOK' /\ CallsOwned'
  <2>1. TypeOK' BY <1>2 DEF CheckClosed, TypeOK, Goto, client, NoCall
  <2> QED BY <2>1, <1>2 DEF CheckClosed, TypeOK, CallsOwned, Goto, client, Made
<1>3. ASSUME NEW c \in Callers, Register(c) PROVE TypeOK' /\ CallsOwned'
  <2>1. call[c] \in Calls BY <1>0, <1>3 DEF CallsOwned, Register
  <2>2. TypeOK' BY <2>1, <1>3 DEF Register, TypeOK, Goto
  <2> QED BY <2>2, <1>3 DEF Register, TypeOK, CallsOwned, Goto, Made
<1>4. ASSUME NEW c \in Callers, SendRequest(c) PROVE TypeOK' /\ CallsOwned'
  <2>1. call[c] \in Calls BY <1>0, <1>4 DEF CallsOwned, SendRequest
  <2>2. TypeOK' BY <2>1, <1>4 DEF SendRequest, TypeOK, Goto, client
  <2> QED BY <2>2, <1>4 DEF SendRequest, TypeOK, CallsOwned, Goto, client, Made
<1>5. ASSUME NEW c \in Callers, Receive(c) PROVE TypeOK' /\ CallsOwned'
  <2>1. call[c] \in Calls BY <1>0, <1>5 DEF CallsOwned, Receive
  <2>2. TypeOK' BY <2>1, <1>5 DEF Receive, TypeOK, Goto, client
  <2> QED BY <2>2, <1>5 DEF Receive, TypeOK, CallsOwned, Goto, client, Made
<1>6. ASSUME NEW c \in Callers, GiveUp(c) PROVE TypeOK' /\ CallsOwned'
  <2>1. TypeOK' BY <1>6 DEF GiveUp, TypeOK, Goto, client
  <2> QED BY <2>1, <1>6 DEF GiveUp, TypeOK, CallsOwned, Goto, client, Made
<1>7. ASSUME NEW c \in Callers, CleanUp(c) PROVE TypeOK' /\ CallsOwned'
  <2>1. TypeOK' BY <1>7 DEF CleanUp, TypeOK, Goto, NoCall
  <2> QED BY <2>1, <1>7 DEF CleanUp, TypeOK, CallsOwned, Goto, Made
<1>8. ASSUME NEW k \in Calls, Answer(k) PROVE TypeOK' /\ CallsOwned'
  BY <1>8 DEF Answer, TypeOK, CallsOwned, client, Made
<1>9. ASSUME NEW k \in Calls, HandleResponse(k) PROVE TypeOK' /\ CallsOwned'
  <2>1. reader' \in [response : Calls \cup {NoCall}, found : Calls \cup {NoCall}]
    BY <1>9 DEF HandleResponse, TypeOK, IdleReader
  <2> QED BY <2>1, <1>9 DEF HandleResponse, TypeOK, CallsOwned, client, Made
<1>10. ASSUME SendOnChannel PROVE TypeOK' /\ CallsOwned'
  <2>1. reader' \in [response : Calls \cup {NoCall}, found : Calls \cup {NoCall}]
    BY <1>10 DEF SendOnChannel, IdleReader
  <2>2. panicked' \in BOOLEAN BY <1>10 DEF SendOnChannel
  <2>3. buffer' \in [Calls -> Calls \cup {NoCall}]
    BY <1>10 DEF SendOnChannel, TypeOK
  <2>4. UNCHANGED <<nextMsgID, closed, pending, channel, shut, made, id, pc, call,
                    requests, responses, answer>>
    BY <1>10 DEF SendOnChannel
  <2> QED BY <2>1, <2>2, <2>3, <2>4 DEF TypeOK, CallsOwned, Made
<1>11. ASSUME Close PROVE TypeOK' /\ CallsOwned'
  <2>1. {channel[m] : m \in pending} \subseteq Calls
    BY <1>0 DEF ResponsesOwned
  <2> QED BY <2>1, <1>11 DEF Close, TypeOK, CallsOwned, Made
<1>12. ASSUME UNCHANGED vars PROVE TypeOK' /\ CallsOwned'
  BY <1>12 DEF vars, client, TypeOK, CallsOwned, Made
<1> QED
  BY <1>1, <1>2, <1>3, <1>4, <1>5, <1>6, <1>7, <1>8, <1>9, <1>10, <1>11, <1>12
  DEF Next, Caller, Reader

-----------------------------------------------------------------------------
(* IDs of calls. *)

\* Only NewRequest makes a call and gives it an ID.
LEMMA IdsStable ==
    ASSUME [Next]_vars, ~ \E c \in Callers : NewRequest(c)
    PROVE  UNCHANGED <<nextMsgID, made, id>>
BY DEF Next, Caller, Reader, CheckClosed, Register, SendRequest, Receive, GiveUp, CleanUp,
       Answer, HandleResponse, SendOnChannel, Close, vars, client

\* A new request takes the next ID; no other step touches IDs.
LEMMA IdsStep == TypeOK /\ IdsInSequence /\ [Next]_vars => IdsInSequence'
<1> SUFFICES ASSUME TypeOK, IdsInSequence, [Next]_vars PROVE IdsInSequence'
  OBVIOUS
<1> USE ConstantsAssumption
<1>1. CASE ~ \E c \in Callers : NewRequest(c)
  BY <1>1, IdsStable DEF IdsInSequence, Made
<1>2. ASSUME NEW c \in Callers, NewRequest(c) PROVE IdsInSequence'
  <2>1. made \in Nat /\ made < MaxCalls /\ made' = made + 1
    BY <1>2 DEF NewRequest, TypeOK
  <2>2. nextMsgID' = NextMessageID(nextMsgID) /\ id' = [id EXCEPT ![made'] = nextMsgID']
    BY <1>2 DEF NewRequest
  <2>3. nextMsgID' \in MessageIds \ {NotificationMessageID}
    BY <2>1, <2>2, NextIdValid
  <2>4. id'[made'] = nextMsgID' BY <2>1, <2>2 DEF TypeOK, Calls
  <2>5. \A k \in Made : id'[k] = id[k] /\ k \in Calls
    BY <2>1, <2>2 DEF TypeOK, Calls, Made
  <2>6. Made' = Made \cup {made'} /\ made' \notin Made
    BY <2>1 DEF Made
  <2>7. \A k \in Made' : id'[k] # NotificationMessageID
    BY <2>3, <2>4, <2>5, <2>6 DEF IdsInSequence
  <2>8. ASSUME NEW k \in Made
        PROVE  id'[made'] = id'[k] + (made' - k) \/ id'[made'] = id'[k] + (made' - k) - (IdSpace - 1)
    <3>1. made > 0 /\ made \in Made /\ k <= made /\ k \in Nat /\ k > 0
      BY <2>1 DEF Made
    <3>2. nextMsgID = id[made] BY <3>1 DEF IdsInSequence
    <3>3. id[made] = id[k] + (made - k) \/ id[made] = id[k] + (made - k) - (IdSpace - 1)
      BY <3>1 DEF IdsInSequence
    <3>4. id[k] \in 0 .. IdSpace - 1 /\ id[made] \in 0 .. IdSpace - 1 /\ id[k] # 0
      BY <2>5, <3>1 DEF TypeOK, MessageIds, IdsInSequence, NotificationMessageID
    <3>5. id'[made'] = IF id[made] = IdSpace - 1 THEN 1 ELSE id[made] + 1
      BY <2>2, <2>4, <3>2 DEF NextMessageID, NotificationMessageID
    <3> QED BY <2>1, <2>5, <3>1, <3>3, <3>4, <3>5
  <2>9. ASSUME NEW k \in Made', NEW l \in Made', k <= l
        PROVE  id'[l] = id'[k] + (l - k) \/ id'[l] = id'[k] + (l - k) - (IdSpace - 1)
    <3>1. CASE l \in Made
      <4>1. k \in Made BY <3>1, <2>9, <2>1 DEF Made
      <4> QED BY <4>1, <3>1, <2>9, <2>5 DEF IdsInSequence
    <3>2. CASE l = made' /\ k \in Made BY <3>2, <2>8
    <3>3. CASE l = made' /\ k = made'
      <4>1. id'[l] \in Int BY <3>3, <2>3, <2>4 DEF MessageIds
      <4> QED BY <4>1, <3>3, <2>1
    <3> QED BY <3>1, <3>2, <3>3, <2>6
  <2> QED BY <2>4, <2>7, <2>9 DEF IdsInSequence
<1> QED BY <1>1, <1>2

\* No call loses its ID.
LEMMA IdsKept ==
    ASSUME TypeOK, [Next]_vars
    PROVE  /\ Made \subseteq Made' /\ Made' \subseteq Calls
           /\ \A k \in Made : id'[k] = id[k]
<1> USE ConstantsAssumption
<1>1. CASE ~ \E c \in Callers : NewRequest(c)
  BY <1>1, IdsStable DEF Made, TypeOK, Calls
<1>2. ASSUME NEW c \in Callers, NewRequest(c)
      PROVE  /\ Made \subseteq Made' /\ Made' \subseteq Calls
             /\ \A k \in Made : id'[k] = id[k]
  BY <1>2 DEF NewRequest, Made, TypeOK, Calls
<1> QED BY <1>1, <1>2

-----------------------------------------------------------------------------
(* Responses and entries. *)

\* Every step keeps responses with their calls.
LEMMA ResponsesStep ==
    TypeOK /\ CallsOwned /\ IdsInSequence /\ ResponsesOwned /\ [Next]_vars => ResponsesOwned'
<1> SUFFICES ASSUME TypeOK, CallsOwned, IdsInSequence, ResponsesOwned, [Next]_vars
             PROVE  ResponsesOwned'
  OBVIOUS
<1> USE ConstantsAssumption
<1>0. /\ Made \subseteq Made' /\ Made' \subseteq Calls /\ Made \subseteq Calls
      /\ \A k \in Made : id'[k] = id[k]
  BY IdsKept DEF TypeOK, Made, Calls
<1> DEFINE Kept == UNCHANGED <<pending, channel, buffer, reader, answer>>
<1>1. ASSUME NEW c \in Callers, NewRequest(c) PROVE ResponsesOwned'
  <2>1. Kept /\ UNCHANGED <<requests, responses>> BY <1>1 DEF NewRequest
  <2> QED BY <1>0, <2>1 DEF ResponsesOwned
<1>2. ASSUME NEW c \in Callers, CheckClosed(c) PROVE ResponsesOwned'
  <2>1. Kept /\ UNCHANGED <<requests, responses>> BY <1>2 DEF CheckClosed, client
  <2> QED BY <1>0, <2>1 DEF ResponsesOwned
<1>3. ASSUME NEW c \in Callers, Register(c) PROVE ResponsesOwned'
  <2>1. call[c] \in Made /\ id[call[c]] \in MessageIds
    BY <1>0, <1>3 DEF Register, CallsOwned, TypeOK
  <2>2. /\ pending' = pending \cup {id[call[c]]}
        /\ channel' = [channel EXCEPT ![id[call[c]]] = call[c]]
        /\ UNCHANGED <<buffer, reader, answer, requests, responses, made, id>>
    BY <1>3 DEF Register
  <2>3. \A m \in pending' : channel'[m] \in Made' /\ id'[channel'[m]] = m
    BY <1>0, <2>1, <2>2 DEF ResponsesOwned, TypeOK
  <2> QED BY <1>0, <2>2, <2>3 DEF ResponsesOwned
<1>4. ASSUME NEW c \in Callers, SendRequest(c) PROVE ResponsesOwned'
  <2>1. call[c] \in Made BY <1>4 DEF SendRequest, CallsOwned
  <2>2. Kept /\ requests' \subseteq requests \cup {call[c]} /\ UNCHANGED responses
    BY <1>4 DEF SendRequest, client
  <2> QED BY <1>0, <2>1, <2>2 DEF ResponsesOwned
<1>5. ASSUME NEW c \in Callers, Receive(c) PROVE ResponsesOwned'
  <2>1. call[c] \in Calls BY <1>0, <1>5 DEF Receive, CallsOwned
  <2>2. /\ answer' = [answer EXCEPT ![call[c]] = buffer[call[c]]]
        /\ UNCHANGED <<pending, channel, buffer, reader, requests, responses>>
    BY <1>5 DEF Receive, client
  <2>3. \A k \in Calls : buffer'[k] \in {k, NoCall} /\ answer'[k] \in {k, NoCall}
    BY <2>1, <2>2 DEF ResponsesOwned, TypeOK
  <2> QED BY <1>0, <2>2, <2>3 DEF ResponsesOwned
<1>6. ASSUME NEW c \in Callers, GiveUp(c) PROVE ResponsesOwned'
  <2>1. Kept /\ UNCHANGED <<requests, responses>> BY <1>6 DEF GiveUp, client
  <2> QED BY <1>0, <2>1 DEF ResponsesOwned
<1>7. ASSUME NEW c \in Callers, CleanUp(c) PROVE ResponsesOwned'
  <2>1. /\ pending' \subseteq pending
        /\ UNCHANGED <<channel, buffer, reader, answer, requests, responses>>
    BY <1>7 DEF CleanUp
  <2> QED BY <1>0, <2>1 DEF ResponsesOwned
<1>8. ASSUME NEW k \in Calls, Answer(k) PROVE ResponsesOwned'
  <2>1. Kept /\ requests' \subseteq requests /\ responses' \subseteq responses \cup requests
    BY <1>8 DEF Answer, client
  <2> QED BY <1>0, <2>1 DEF ResponsesOwned
<1>9. ASSUME NEW k \in Calls, HandleResponse(k) PROVE ResponsesOwned'
  <2>1. /\ UNCHANGED <<pending, channel, buffer, answer, requests>>
        /\ responses' \subseteq responses /\ k \in Made
    BY <1>9 DEF HandleResponse, client, ResponsesOwned
  <2>2. CASE id[k] \in pending
    <3>1. channel[id[k]] \in Made /\ id[channel[id[k]]] = id[k]
      BY <2>2 DEF ResponsesOwned
    <3>2. channel[id[k]] = k BY <2>1, <3>1, ConsecutiveDiffer
    <3>3. reader'.found = k /\ reader'.response = k
      BY <2>2, <3>2, <1>9 DEF HandleResponse
    <3>4. k # NoCall BY <2>1 DEF Made, NoCall
    <3> QED BY <1>0, <2>1, <3>3, <3>4 DEF ResponsesOwned
  <2>3. CASE id[k] \notin pending
    <3>1. reader' = IdleReader BY <2>3, <1>9 DEF HandleResponse
    <3> QED BY <1>0, <2>1, <3>1 DEF ResponsesOwned, IdleReader
  <2> QED BY <2>2, <2>3
<1>10. ASSUME SendOnChannel PROVE ResponsesOwned'
  <2>1. UNCHANGED <<pending, channel, answer, requests, responses>> /\ reader' = IdleReader
    BY <1>10 DEF SendOnChannel
  <2>2. reader.found # NoCall /\ reader.found = reader.response
    <3>1. reader \in [response : Calls \cup {NoCall}, found : Calls \cup {NoCall}]
      BY DEF TypeOK
    <3>2. reader # IdleReader BY <1>10 DEF SendOnChannel
    <3> QED BY <3>1, <3>2 DEF ResponsesOwned, IdleReader
  <2>3. buffer' = buffer \/ buffer' = [buffer EXCEPT ![reader.found] = reader.found]
    BY <1>10, <2>2 DEF SendOnChannel
  <2>4. \A k \in Calls : buffer'[k] \in {k, NoCall}
    BY <2>3 DEF ResponsesOwned, TypeOK
  <2> QED BY <1>0, <2>1, <2>4 DEF ResponsesOwned, IdleReader
<1>11. ASSUME Close PROVE ResponsesOwned'
  <2>1. pending' = {} /\ UNCHANGED <<channel, buffer, reader, answer, requests, responses>>
    BY <1>11 DEF Close
  <2> QED BY <1>0, <2>1 DEF ResponsesOwned
<1>12. ASSUME UNCHANGED vars PROVE ResponsesOwned'
  BY <1>12, <1>0 DEF vars, client, ResponsesOwned
<1> QED
  BY <1>1, <1>2, <1>3, <1>4, <1>5, <1>6, <1>7, <1>8, <1>9, <1>10, <1>11, <1>12
  DEF Next, Caller, Reader

-----------------------------------------------------------------------------
(* Calls under way and their entries. *)

Reachable(c) == \/ call[c] \in shut
                \/ id[call[c]] \in pending /\ channel[id[call[c]]] = call[c]

UnderWay(c, m) == pc[c] \in Busy /\ id[call[c]] = m /\ channel[m] = call[c]

\* Different callers have different IDs.
LEMMA CallersDiffer ==
    ASSUME TypeOK, CallsOwned, IdsInSequence,
           NEW c \in Callers, NEW d \in Callers, c # d, pc[c] # "idle", pc[d] # "idle"
    PROVE  call[c] \in Made /\ call[d] \in Made /\ id[call[c]] # id[call[d]]
<1>1. call[c] \in Made /\ call[d] \in Made /\ call[c] # call[d] BY DEF CallsOwned
<1> QED BY <1>1, ConsecutiveDiffer

\* A caller keeps its call while another one acts.
LEMMA ReachStep ==
    /\ TypeOK /\ CallsOwned /\ IdsInSequence /\ ResponsesOwned
    /\ CallsReachable /\ [Next]_vars
    => CallsReachable'
<1> SUFFICES ASSUME TypeOK, CallsOwned, IdsInSequence, ResponsesOwned, CallsReachable,
                    [Next]_vars,
                    NEW c \in Callers, pc'[c] \in {"registered", "waiting"}
             PROVE  Reachable(c)'
  BY DEF CallsReachable, Reachable
<1> USE ConstantsAssumption
<1>0. /\ Made \subseteq Calls
      /\ \A k \in Made : id'[k] = id[k]
      /\ pc[c] \in {"registered", "waiting"} => Reachable(c) /\ call[c] \in Made
  BY IdsKept DEF TypeOK, Made, Calls, CallsReachable, Reachable, CallsOwned
<1>1. ASSUME NEW d \in Callers, NewRequest(d) PROVE Reachable(c)'
  <2>1. c # d /\ pc[c] = pc'[c] /\ call'[c] = call[c]
    BY <1>1 DEF NewRequest, Goto, TypeOK
  <2> QED BY <1>0, <2>1, <1>1 DEF NewRequest, Reachable
<1>2. ASSUME NEW d \in Callers, CheckClosed(d) PROVE Reachable(c)'
  <2>1. c # d /\ pc[c] = pc'[c] /\ call'[c] = call[c]
    BY <1>2 DEF CheckClosed, Goto, TypeOK
  <2> QED BY <1>0, <2>1, <1>2 DEF CheckClosed, Reachable, client
<1>3. ASSUME NEW d \in Callers, Register(d) PROVE Reachable(c)'
  <2>1. /\ pending' = pending \cup {id[call[d]]}
        /\ channel' = [channel EXCEPT ![id[call[d]]] = call[d]]
        /\ call' = call /\ id' = id /\ shut' = shut
        /\ pc[d] = "open" /\ pc' = [pc EXCEPT ![d] = "registered"]
    BY <1>3 DEF Register, Goto
  <2>2. call[d] \in Made /\ id[call[d]] \in MessageIds
    BY <1>0, <2>1 DEF CallsOwned, TypeOK
  <2>3. CASE c = d BY <2>1, <2>2, <2>3 DEF Reachable, TypeOK
  <2>4. CASE c # d
    <3>1. pc[c] \in {"registered", "waiting"} BY <2>1, <2>4 DEF TypeOK
    <3>2. id[call[c]] # id[call[d]] BY <3>1, <2>1, <2>4, CallersDiffer
    <3>3. channel'[id[call[c]]] = channel[id[call[c]]] BY <3>2, <2>1 DEF TypeOK
    <3> QED BY <1>0, <2>1, <3>1, <3>3 DEF Reachable
  <2> QED BY <2>3, <2>4
<1>4. ASSUME NEW d \in Callers, SendRequest(d) PROVE Reachable(c)'
  <2>1. pc[c] \in {"registered", "waiting"} BY <1>4 DEF SendRequest, Goto, TypeOK
  <2> QED BY <1>0, <2>1, <1>4 DEF SendRequest, Reachable, client
<1>5. ASSUME NEW d \in Callers, Receive(d) PROVE Reachable(c)'
  <2>1. pc[c] \in {"registered", "waiting"} BY <1>5 DEF Receive, Goto, TypeOK
  <2> QED BY <1>0, <2>1, <1>5 DEF Receive, Reachable, client
<1>6. ASSUME NEW d \in Callers, GiveUp(d) PROVE Reachable(c)'
  <2>1. pc[c] \in {"registered", "waiting"} BY <1>6 DEF GiveUp, Goto, TypeOK
  <2> QED BY <1>0, <2>1, <1>6 DEF GiveUp, Reachable, client
<1>7. ASSUME NEW d \in Callers, CleanUp(d) PROVE Reachable(c)'
  <2>1. /\ c # d /\ pc[c] = pc'[c] /\ call'[c] = call[c] /\ pc[d] # "idle"
        /\ pending' = pending \ {id[call[d]]} /\ UNCHANGED <<channel, shut, id>>
    BY <1>7 DEF CleanUp, Goto, TypeOK
  <2>2. id[call[c]] # id[call[d]] BY <2>1, CallersDiffer
  <2> QED BY <1>0, <2>1, <2>2 DEF Reachable
<1>8. ASSUME NEW k \in Calls, Answer(k) PROVE Reachable(c)'
  BY <1>0, <1>8 DEF Answer, Reachable, client
<1>9. ASSUME NEW k \in Calls, HandleResponse(k) PROVE Reachable(c)'
  BY <1>0, <1>9 DEF HandleResponse, Reachable, client
<1>10. ASSUME SendOnChannel PROVE Reachable(c)'
  BY <1>0, <1>10 DEF SendOnChannel, Reachable
<1>11. ASSUME Close PROVE Reachable(c)'
  <2>1. /\ shut' = shut \cup {channel[m] : m \in pending}
        /\ UNCHANGED <<call, pc>>
    BY <1>11 DEF Close
  <2>2. call[c] \in shut'  BY <1>0, <2>1 DEF Reachable
  <2> QED BY <2>1, <2>2 DEF Reachable
<1>12. ASSUME UNCHANGED vars PROVE Reachable(c)'
  BY <1>0, <1>12 DEF vars, client, Reachable
<1> QED
  BY <1>1, <1>2, <1>3, <1>4, <1>5, <1>6, <1>7, <1>8, <1>9, <1>10, <1>11, <1>12
  DEF Next, Caller, Reader

\* Every step keeps it that an entry of pending belongs to a call under way.
LEMMA UnderWayStep ==
    /\ TypeOK /\ CallsOwned /\ IdsInSequence /\ ResponsesOwned
    /\ PendingUnderWay /\ [Next]_vars
    => PendingUnderWay'
<1> SUFFICES ASSUME TypeOK, CallsOwned, IdsInSequence, ResponsesOwned, PendingUnderWay,
                    [Next]_vars, NEW m \in pending'
             PROVE  \E c \in Callers : UnderWay(c, m)'
  BY DEF PendingUnderWay, UnderWay, Busy
<1> USE ConstantsAssumption
<1>0. ASSUME m \in pending
      PROVE  \E c \in Callers : UnderWay(c, m) /\ call[c] \in Made /\ id'[call[c]] = m
  <2>1. PICK c \in Callers : UnderWay(c, m) BY <1>0 DEF PendingUnderWay, UnderWay, Busy
  <2>2. call[c] \in Made BY <2>1 DEF UnderWay, Busy, CallsOwned
  <2> QED BY <2>1, <2>2, IdsKept DEF UnderWay
<1>1. ASSUME NEW d \in Callers, NewRequest(d) PROVE \E c \in Callers : UnderWay(c, m)'
  <2>1. PICK c \in Callers : UnderWay(c, m) /\ id'[call[c]] = m
    BY <1>0, <1>1 DEF NewRequest
  <2>2. UnderWay(c, m)' BY <2>1, <1>1 DEF NewRequest, UnderWay, Goto, TypeOK, Busy
  <2> QED BY <2>2
<1>2. ASSUME NEW d \in Callers, CheckClosed(d) PROVE \E c \in Callers : UnderWay(c, m)'
  <2>1. PICK c \in Callers : UnderWay(c, m) /\ id'[call[c]] = m
    BY <1>0, <1>2 DEF CheckClosed, client
  <2>2. UnderWay(c, m)' BY <2>1, <1>2 DEF CheckClosed, UnderWay, Goto, TypeOK, Busy, client
  <2> QED BY <2>2
<1>3. ASSUME NEW d \in Callers, Register(d) PROVE \E c \in Callers : UnderWay(c, m)'
  <2>1. /\ pending' = pending \cup {id[call[d]]}
        /\ channel' = [channel EXCEPT ![id[call[d]]] = call[d]]
        /\ call' = call /\ id' = id /\ pc[d] = "open" /\ pc' = [pc EXCEPT ![d] = "registered"]
    BY <1>3 DEF Register, Goto
  <2>2. id[call[d]] \in MessageIds
    <3>1. call[d] \in Calls BY <2>1, IdsKept DEF CallsOwned, TypeOK, Made, Calls
    <3> QED BY <3>1 DEF TypeOK
  <2>3. CASE m = id[call[d]]
    <3>1. UnderWay(d, m)' BY <2>1, <2>2, <2>3 DEF UnderWay, TypeOK, Busy
    <3> QED BY <3>1
  <2>4. CASE m # id[call[d]]
    <3>1. PICK c \in Callers : UnderWay(c, m) BY <1>0, <2>1, <2>4
    <3>2. c # d BY <2>4, <3>1 DEF UnderWay
    <3>3. UnderWay(c, m)' BY <2>1, <2>4, <3>1, <3>2 DEF UnderWay, TypeOK, Busy
    <3> QED BY <3>3
  <2> QED BY <2>3, <2>4
<1>4. ASSUME NEW d \in Callers, SendRequest(d) PROVE \E c \in Callers : UnderWay(c, m)'
  <2>1. PICK c \in Callers : UnderWay(c, m) BY <1>0, <1>4 DEF SendRequest, client
  <2>2. UnderWay(c, m)' BY <2>1, <1>4 DEF SendRequest, UnderWay, Goto, TypeOK, Busy, client
  <2> QED BY <2>2
<1>5. ASSUME NEW d \in Callers, Receive(d) PROVE \E c \in Callers : UnderWay(c, m)'
  <2>1. PICK c \in Callers : UnderWay(c, m) BY <1>0, <1>5 DEF Receive, client
  <2>2. UnderWay(c, m)' BY <2>1, <1>5 DEF Receive, UnderWay, Goto, TypeOK, Busy, client
  <2> QED BY <2>2
<1>6. ASSUME NEW d \in Callers, GiveUp(d) PROVE \E c \in Callers : UnderWay(c, m)'
  <2>1. PICK c \in Callers : UnderWay(c, m) BY <1>0, <1>6 DEF GiveUp, client
  <2>2. UnderWay(c, m)' BY <2>1, <1>6 DEF GiveUp, UnderWay, Goto, TypeOK, Busy, client
  <2> QED BY <2>2
<1>7. ASSUME NEW d \in Callers, CleanUp(d) PROVE \E c \in Callers : UnderWay(c, m)'
  <2>1. pending' = pending \ {id[call[d]]} /\ UNCHANGED <<channel, id>>
        /\ pc' = [pc EXCEPT ![d] = "idle"] /\ call' = [call EXCEPT ![d] = NoCall]
    BY <1>7 DEF CleanUp, Goto
  <2>2. PICK c \in Callers : UnderWay(c, m) BY <1>0, <2>1
  <2>3. c # d BY <2>1, <2>2 DEF UnderWay
  <2>4. UnderWay(c, m)' BY <2>1, <2>2, <2>3 DEF UnderWay, TypeOK
  <2> QED BY <2>4
<1>8. ASSUME NEW k \in Calls, Answer(k) PROVE \E c \in Callers : UnderWay(c, m)'
  BY <1>0, <1>8 DEF Answer, UnderWay, client
<1>9. ASSUME NEW k \in Calls, HandleResponse(k) PROVE \E c \in Callers : UnderWay(c, m)'
  BY <1>0, <1>9 DEF HandleResponse, UnderWay, client
<1>10. ASSUME SendOnChannel PROVE \E c \in Callers : UnderWay(c, m)'
  BY <1>0, <1>10 DEF SendOnChannel, UnderWay
<1>11. ASSUME Close PROVE FALSE
  BY <1>11 DEF Close
<1>12. ASSUME UNCHANGED vars PROVE \E c \in Callers : UnderWay(c, m)'
  BY <1>0, <1>12 DEF vars, client, UnderWay
<1> QED
  BY <1>1, <1>2, <1>3, <1>4, <1>5, <1>6, <1>7, <1>8, <1>9, <1>10, <1>11, <1>12
  DEF Next, Caller, Reader

-----------------------------------------------------------------------------
(* The inductive invariant and what follows from it. *)

IInv == /\ TypeOK /\ CallsOwned /\ IdsInSequence /\ ResponsesOwned
        /\ CallsReachable /\ PendingUnderWay

\* Nothing is under way at the start.
LEMMA InitIInv == Init => IInv
<1> SUFFICES ASSUME Init PROVE IInv
  OBVIOUS
<1>1. TypeOK
  <2>1. id \in [Calls -> MessageIds]
    <3>1. \A k \in Calls : 0 \in MessageIds BY ConstantsAssumption DEF Calls, MessageIds
    <3> QED BY <3>1 DEF Init, NotificationMessageID
  <2>2. reader \in [response : Calls \cup {NoCall}, found : Calls \cup {NoCall}]
    BY DEF Init, IdleReader
  <2>3. made \in 0 .. MaxCalls BY ConstantsAssumption DEF Init
  <2> QED BY <2>1, <2>2, <2>3 DEF Init, TypeOK
<1>2. Made = {} BY DEF Init, Made
<1>3. IdsInSequence BY <1>2 DEF Init, IdsInSequence
<1>4. CallsOwned /\ CallsReachable /\ PendingUnderWay
  BY DEF Init, CallsOwned, CallsReachable, PendingUnderWay
<1>5. ResponsesOwned BY DEF Init, ResponsesOwned, IdleReader
<1> QED BY <1>1, <1>3, <1>4, <1>5 DEF IInv

\* Every step of the client keeps it.
LEMMA ClientInvNext == IInv /\ [Next]_vars => IInv'
BY CallsStep, IdsStep, ResponsesStep, ReachStep, UnderWayStep DEF IInv

\* The inductive invariant of the client.
LEMMA Invariance == Spec => []IInv
BY ClientInvNext, InitIInv, PTL DEF Spec

\* Every variable of the client keeps its type; in particular the IDs of
\* requests fit the field of a message (nextMessageID).
THEOREM TypeCorrect == Spec => []TypeOK
<1>1. IInv => TypeOK BY DEF IInv
<1> QED BY <1>1, Invariance, PTL

\* A call returns no response but its own (pending, HandleResponse).
THEOREM AnswersOwnCalls == Spec => []AnswersOwn
<1>1. IInv => AnswersOwn BY DEF IInv, ResponsesOwned, AnswersOwn
<1> QED BY <1>1, Invariance, PTL

\* No request has the ID of notifications and no two requests have the same,
\* wherever the counter started (nextMessageID).
THEOREM IdsAlwaysDistinct == Spec => []IdsDistinct
<1>1. IInv => IdsDistinct
  BY ConsecutiveDiffer DEF IInv, IdsDistinct, IdsInSequence, Made
<1> QED BY <1>1, Invariance, PTL

\* No entry outlives its call (the deferred removal in sendRequest).
THEOREM NothingPilesUp == Spec => []PendingUnderWay
<1>1. IInv => PendingUnderWay BY DEF IInv
<1> QED BY <1>1, Invariance, PTL

\* No call that waits is forgotten by Close (Close, sendRequest).
THEOREM WaitingReached == Spec => []ClosedReachesWaiting
<1>1. IInv => ClosedReachesWaiting BY DEF IInv, CallsReachable, ClosedReachesWaiting
<1> QED BY <1>1, Invariance, PTL

-----------------------------------------------------------------------------
(* The client implements its contract. *)

\* What a call has returned is in its channel's buffer.
AnswersBuffered == \A k \in Calls : answer[k] \in {NoCall, buffer[k]}

\* Every step keeps it.
LEMMA BufferedStep ==
    TypeOK /\ CallsOwned /\ AnswersBuffered /\ [Next]_vars => AnswersBuffered'
<1> SUFFICES ASSUME TypeOK, CallsOwned, AnswersBuffered, [Next]_vars PROVE AnswersBuffered'
  OBVIOUS
<1>1. ASSUME NEW c \in Callers, Receive(c) PROVE AnswersBuffered'
  <2>1. answer' = [answer EXCEPT ![call[c]] = buffer[call[c]]] /\ buffer' = buffer
    BY <1>1 DEF Receive, client
  <2> QED BY <2>1 DEF AnswersBuffered, TypeOK
<1>2. ASSUME SendOnChannel PROVE AnswersBuffered'
  <2>1. answer' = answer /\ \A k \in Calls : buffer[k] # NoCall => buffer'[k] = buffer[k]
    BY <1>2 DEF SendOnChannel, TypeOK
  <2> QED BY <2>1 DEF AnswersBuffered
<1>3. CASE UNCHANGED <<answer, buffer>> BY <1>3 DEF AnswersBuffered
<1> QED
  BY <1>1, <1>2, <1>3
  DEF Next, Caller, Reader, NewRequest, CheckClosed, Register, SendRequest, GiveUp, CleanUp,
      Answer, HandleResponse, Close, vars, client

\* Sections of a call that do not end it keep the calls under way.
LEMMA OpenKept ==
    ASSUME TypeOK, NEW c \in Callers, NEW place, pc[c] # "idle", place # "idle",
           Goto(c, place), call' = call
    PROVE  OpenCalls' = OpenCalls
<1>1. pc' = [pc EXCEPT ![c] = place] BY DEF Goto
<1>2. \A d \in Callers : pc'[d] # "idle" <=> pc[d] # "idle" BY <1>1 DEF TypeOK
<1> QED BY <1>2 DEF OpenCalls

\* A call ends and takes no other with it.
LEMMA OpenEnds ==
    ASSUME TypeOK, CallsOwned, NEW c \in Callers, pc[c] # "idle",
           Goto(c, "idle"), call' = [call EXCEPT ![c] = NoCall]
    PROVE  /\ call[c] \in Calls /\ call[c] \in OpenCalls
           /\ OpenCalls' = OpenCalls \ {call[c]}
<1>1. pc' = [pc EXCEPT ![c] = "idle"] BY DEF Goto
<1>2. call[c] \in Calls
  <2>1. call[c] \in Made BY DEF CallsOwned
  <2>2. made \in Nat /\ made <= MaxCalls BY ConstantsAssumption DEF TypeOK
  <2> QED BY <2>1, <2>2, ConstantsAssumption DEF Made, Calls
<1>3. call[c] \in OpenCalls BY DEF OpenCalls
<1>4. ASSUME NEW d \in Callers
      PROVE  /\ pc'[d] # "idle" <=> pc[d] # "idle" /\ d # c
             /\ d # c => call'[d] = call[d]
             /\ pc[d] # "idle" /\ d # c => call[d] # call[c]
  BY <1>1 DEF TypeOK, CallsOwned
<1>5. OpenCalls' = {call'[d] : d \in {e \in Callers : pc'[e] # "idle"}} BY DEF OpenCalls
<1>6. ASSUME NEW k PROVE k \in OpenCalls' <=> k \in OpenCalls /\ k # call[c]
  BY <1>4, <1>5 DEF OpenCalls
<1> QED BY <1>2, <1>3, <1>6

\* Every step of the client is a step of the contract or none.
LEMMA ContractStep == IInv /\ AnswersBuffered /\ [Next]_vars => [Contract!Next]_Contract!vars
<1> SUFFICES ASSUME IInv, AnswersBuffered, [Next]_vars
             PROVE  Contract!Next \/ UNCHANGED Contract!vars
  OBVIOUS
<1> USE ConstantsAssumption DEF IInv
<1>0. Contract!Calls = Calls BY DEF Contract!Calls, Calls
<1> DEFINE Same == UNCHANGED <<made, OpenCalls, Outstanding, answer>>
<1>s. Same => UNCHANGED Contract!vars BY DEF Contract!vars
<1>1. ASSUME NEW c \in Callers, NewRequest(c) PROVE Contract!Begin
  <2>1. made' = made + 1 /\ pc' = [pc EXCEPT ![c] = "new"] /\ call' = [call EXCEPT ![c] = made']
        /\ pc[c] = "idle" /\ made < MaxCalls
    BY <1>1 DEF NewRequest, Goto
  <2>2. UNCHANGED <<Outstanding, answer>> BY <1>1 DEF NewRequest, Outstanding
  <2>3. ASSUME NEW d \in Callers
        PROVE  /\ pc'[d] # "idle" <=> pc[d] # "idle" \/ d = c
               /\ d # c => call'[d] = call[d]
               /\ d = c => call'[d] = made'
    BY <2>1 DEF TypeOK
  <2>4. OpenCalls' = {call'[d] : d \in {e \in Callers : pc'[e] # "idle"}} BY DEF OpenCalls
  <2>5. ASSUME NEW k PROVE k \in OpenCalls' <=> k \in OpenCalls \cup {made'}
    BY <2>1, <2>3, <2>4 DEF OpenCalls
  <2>6. OpenCalls' = OpenCalls \cup {made'} BY <2>5
  <2> QED BY <2>1, <2>2, <2>6 DEF Contract!Begin
<1>2. ASSUME NEW c \in Callers, CheckClosed(c) PROVE Contract!Next \/ Same
  <2>1. UNCHANGED <<made, Outstanding, answer>> /\ pc[c] = "new"
    BY <1>2 DEF CheckClosed, Outstanding, client
  <2>2. CASE closed
    <3>1. Goto(c, "idle") /\ call' = [call EXCEPT ![c] = NoCall] BY <1>2, <2>2 DEF CheckClosed
    <3>2. Contract!Finish(call[c])
      BY <2>1, <3>1, OpenEnds DEF Contract!Finish
    <3>3. call[c] \in Calls BY <2>1, <3>1, OpenEnds
    <3> QED BY <1>0, <3>2, <3>3 DEF Contract!Next
  <2>3. CASE ~ closed
    <3>1. Goto(c, "open") /\ call' = call BY <1>2, <2>3 DEF CheckClosed
    <3> QED BY <2>1, <3>1, OpenKept
  <2> QED BY <2>2, <2>3
<1>3. ASSUME NEW c \in Callers, Register(c) PROVE Same
  <2>1. Goto(c, "registered") /\ call' = call /\ pc[c] = "open" BY <1>3 DEF Register
  <2> QED BY <1>3, <2>1, OpenKept DEF Register, Outstanding
<1>4. ASSUME NEW c \in Callers, SendRequest(c) PROVE Contract!Next \/ Same
  <2>1. UNCHANGED <<made, call, answer, responses, reader, buffer>> /\ pc[c] = "registered"
    BY <1>4 DEF SendRequest, client
  <2>2. call[c] \in Calls /\ call[c] \in OpenCalls
    BY <2>1 DEF CallsOwned, TypeOK, Made, Calls, OpenCalls
  <2>3. CASE requests' = requests \cup {call[c]} /\ Goto(c, "waiting")
    <3>1. OpenCalls' = OpenCalls BY <2>1, <2>3, OpenKept
    <3>2. Outstanding' = Outstanding \cup {call[c]} BY <2>1, <2>2, <2>3 DEF Outstanding
    <3>3. Contract!Ask(call[c]) BY <2>1, <2>2, <3>1, <3>2 DEF Contract!Ask
    <3> QED BY <1>0, <2>2, <3>3 DEF Contract!Next
  <2>4. CASE UNCHANGED requests /\ Goto(c, "cleanup")
    <3>1. OpenCalls' = OpenCalls BY <2>1, <2>4, OpenKept
    <3> QED BY <2>1, <2>4, <3>1 DEF Outstanding
  <2> QED BY <1>4, <2>3, <2>4 DEF SendRequest
<1>5. ASSUME NEW c \in Callers, Receive(c) PROVE Contract!Next \/ Same
  <2>1. /\ UNCHANGED <<made, call, requests, responses, reader, buffer>>
        /\ pc[c] = "waiting" /\ Goto(c, "cleanup")
        /\ answer' = [answer EXCEPT ![call[c]] = buffer[call[c]]]
    BY <1>5 DEF Receive, client
  <2>2. call[c] \in Calls /\ call[c] \in OpenCalls
    BY <2>1 DEF CallsOwned, TypeOK, Made, Calls, OpenCalls
  <2>3. OpenCalls' = OpenCalls BY <2>1, OpenKept
  <2>4. Outstanding' = Outstanding BY <2>1 DEF Outstanding
  <2>5. CASE buffer[call[c]] = call[c]
    <3>1. call[c] \in Outstanding BY <2>2, <2>5 DEF Outstanding
    <3>2. Contract!Take(call[c]) BY <2>1, <2>2, <2>3, <2>4, <2>5, <3>1 DEF Contract!Take
    <3> QED BY <1>0, <2>2, <3>2 DEF Contract!Next
  <2>6. CASE buffer[call[c]] = NoCall
    <3>1. answer[call[c]] = NoCall BY <2>2, <2>6 DEF AnswersBuffered
    <3>2. answer' = answer BY <2>1, <2>6, <3>1 DEF TypeOK
    <3> QED BY <2>1, <2>3, <2>4, <3>2
  <2> QED BY <2>2, <2>5, <2>6 DEF ResponsesOwned
<1>6. ASSUME NEW c \in Callers, GiveUp(c) PROVE Same
  <2>1. Goto(c, "cleanup") /\ call' = call /\ pc[c] = "waiting" BY <1>6 DEF GiveUp
  <2> QED BY <1>6, <2>1, OpenKept DEF GiveUp, Outstanding, client
<1>7. ASSUME NEW c \in Callers, CleanUp(c) PROVE Contract!Next
  <2>1. Goto(c, "idle") /\ call' = [call EXCEPT ![c] = NoCall] /\ pc[c] # "idle"
        /\ UNCHANGED <<made, Outstanding, answer>>
    BY <1>7 DEF CleanUp, Outstanding
  <2>2. call[c] \in Calls /\ Contract!Finish(call[c])
    BY <2>1, OpenEnds DEF Contract!Finish
  <2> QED BY <1>0, <2>2 DEF Contract!Next
<1>8. ASSUME NEW k \in Calls, Answer(k) PROVE Same
  <2>1. requests' = requests \ {k} /\ responses' = responses \cup {k} /\ k \in requests
        /\ UNCHANGED <<made, pc, call, reader, buffer, answer>>
    BY <1>8 DEF Answer, client
  <2>2. Outstanding' = Outstanding BY <2>1 DEF Outstanding
  <2> QED BY <2>1, <2>2 DEF OpenCalls
<1>9. ASSUME NEW k \in Calls, HandleResponse(k) PROVE Contract!Lose
  <2>1. UNCHANGED <<made, pc, call, buffer, answer, requests>> /\ k \in responses
        /\ responses' = responses \ {k} /\ reader'.response \in {k, NoCall}
    BY <1>9 DEF HandleResponse, client, IdleReader
  <2>2. Outstanding' \subseteq Outstanding
    BY <2>1 DEF Outstanding, Calls, NoCall
  <2> QED BY <2>1, <2>2 DEF Contract!Lose, OpenCalls
<1>10. ASSUME SendOnChannel PROVE Contract!Lose
  <2>1. UNCHANGED <<made, pc, call, answer, requests, responses>> /\ reader'.response = NoCall
    BY <1>10 DEF SendOnChannel, IdleReader
  <2>2. \A l \in Calls : buffer'[l] \in {buffer[l], reader.response}
    BY <1>10 DEF SendOnChannel, TypeOK
  <2>3. Outstanding' \subseteq Outstanding
    BY <2>1, <2>2 DEF Outstanding, Calls, NoCall
  <2> QED BY <2>1, <2>3 DEF Contract!Lose, OpenCalls
<1>11. ASSUME Close PROVE Same
  BY <1>11 DEF Close, Outstanding, OpenCalls
<1>12. ASSUME UNCHANGED vars PROVE Same
  BY <1>12 DEF vars, client, Outstanding, OpenCalls
<1> QED
  BY <1>s, <1>1, <1>2, <1>3, <1>4, <1>5, <1>6, <1>7, <1>8, <1>9, <1>10, <1>11, <1>12
  DEF Next, Caller, Reader, Contract!Next

\* No call has begun and none is asked for.
LEMMA InitContract == Init => Contract!Init
<1>1. Init => OpenCalls = {} BY DEF Init, OpenCalls
<1>2. Init => Outstanding = {} BY DEF Init, Outstanding, IdleReader, Calls, NoCall
<1> QED BY <1>1, <1>2 DEF Init, Contract!Init, Contract!Calls, Calls

\* The client keeps its promise to every caller: whatever it does is a behaviour
\* of CallContract (sendRequest, HandleResponse, Close).
THEOREM ImplementsCallContract == Spec => ImplementsContract
<1>1. Init => AnswersBuffered BY DEF Init, AnswersBuffered
<1>2. IInv /\ AnswersBuffered /\ [Next]_vars => AnswersBuffered'
  BY BufferedStep DEF IInv
<1> QED BY InitContract, <1>1, <1>2, ContractStep, Invariance, PTL
        DEF Spec, ImplementsContract, Contract!Spec

-----------------------------------------------------------------------------
(* The renewals. *)

AnyMessages ==
    [kind : {"request", "csr", "install", "ack"}, key : Nat,
     ok : BOOLEAN, by : Renewers \cup {NoRenewer}]

\* The types, without a bound on the keys.
SessionTyped ==
    /\ handler \in Renewers \cup {NoRenewer}
    /\ rpc \in [Renewers -> {"idle", "send", "csr", "install", "ack", "leave", "done"}]
    /\ responseWait \in [Renewers -> AnyMessages]
    /\ pendingCSR \in [Renewers -> Nat] /\ result \in [Renewers -> Nat]
    /\ toDevice \in Seq(AnyMessages) /\ toController \in Seq(AnyMessages)
    /\ routed \in [message : AnyMessages, to : Renewers \cup {NoRenewer}]
    /\ pendingKey \in Nat /\ keysMade \in Nat /\ activeKey \in Nat
    /\ deviceLoop \in {"read", "store"} /\ served \in Nat /\ disk \in Nat
    /\ up \in BOOLEAN /\ unstored \in BOOLEAN
    /\ installed \subseteq Nat /\ mimicked \subseteq Renewers

\* The key of the CSR that a renewal has received and not done with.
Holds(r, k) ==
    \/ rpc[r] \in {"install", "ack"} /\ k = pendingCSR[r]
    \/ rpc[r] \in {"send", "csr"} /\ responseWait[r].kind = "csr" /\ k = responseWait[r].key

Installing(k) == \E i \in 1 .. Len(toDevice) : toDevice[i].kind = "install" /\ toDevice[i].key = k

\* A certificate for the key may still be sent to the device, or is on its way.
Taken(k) == Installing(k) \/ \E r \in Renewers : Holds(r, k)

Success(m) == m.kind = "ack" /\ m.ok /\ m.by # NoRenewer

\* What the controller will handle, in order: what the reader has, then the queue.
Coming(i) == IF i = 0 THEN routed.message ELSE toController[i]

\* What the device sent is a CSR or an acknowledgement.  A renewal that has not
\* begun holds nothing, and a message that the device did not send is known.
Sent ==
    /\ \A i \in 1 .. Len(toDevice) :
         toDevice[i].kind \in {"request", "install"} /\ toDevice[i].by # NoRenewer
    /\ \A i \in 1 .. Len(toController) :
         toController[i].kind \in {"csr", "ack"} /\ toController[i].by # NoRenewer
    /\ routed.message = NoMessage <=> routed = NoRoute
    /\ routed # NoRoute => routed.to # NoRenewer /\ routed.message.kind \in {"csr", "ack"}
    /\ \A r \in Renewers :
         /\ rpc[r] = "idle" => responseWait[r] = NoMessage
         /\ responseWait[r] # NoMessage /\ responseWait[r].by = NoRenewer => r \in mimicked

\* The device has made every key there is, and the last one may be pending.
KeysKnown ==
    /\ pendingKey \in {NoKey, keysMade} /\ activeKey <= keysMade /\ disk <= keysMade
    /\ \A k \in installed : k <= keysMade
    /\ \A k \in Nat : Taken(k) => k <= keysMade

\* A CSR under way has a newer key than all before it; no success comes after it,
\* since the device has replaced the keys of older certificates.
FreshCSRs ==
    \A i \in 0 .. Len(toController) : Coming(i).kind = "csr" =>
        /\ Coming(i).key <= keysMade
        /\ \A k \in Nat : Taken(k) => k < Coming(i).key
        /\ \A j \in i + 1 .. Len(toController) :
              /\ ~ Success(toController[j])
              /\ toController[j].kind = "csr" => Coming(i).key < toController[j].key

\* The renewal whose handler hangs in the session, once it has a CSR, has the
\* newest one; no acknowledgement of success but its own will come.
HandlerLatest ==
    \A k \in Nat : handler \in Renewers /\ Holds(handler, k) =>
        /\ \A l \in Nat : Taken(l) => l <= k
        /\ \A i \in 1 .. Len(toController) : Success(toController[i]) => toController[i].key = k
        /\ routed # NoRoute => routed.to = handler

\* An acknowledgement of success reaches only the renewal that holds its key.
AcksMatch ==
    \A r \in Renewers, k \in Nat : Holds(r, k) =>
        /\ routed.to = r /\ Success(routed.message) => routed.message.key = k
        /\ rpc[r] \in {"install", "ack"} /\ Success(responseWait[r]) => responseWait[r].key = k

\* What is acknowledged or returned has been installed.
AcksTrue ==
    /\ \A i \in 0 .. Len(toController) : Success(Coming(i)) => Coming(i).key \in installed
    /\ \A r \in Renewers : Success(responseWait[r]) => responseWait[r].key \in installed

\* The last certificate installed is the newest, and is stored and served.
LastServed ==
    ~ unstored =>
        /\ \A k \in installed : k <= activeKey
        /\ deviceLoop = "read" => disk = activeKey /\ served = activeKey

SInv == /\ SessionTyped /\ Sent /\ KeysKnown /\ FreshCSRs /\ HandlerLatest
        /\ AcksMatch /\ AcksTrue /\ LastServed /\ RenewedIsInstalled

-----------------------------------------------------------------------------

\* No message is a request of nobody.
LEMMA NoMessageType ==
    /\ NoMessage \in AnyMessages /\ NoMessage.kind = "request" /\ NoMessage.by = NoRenewer
    /\ NoRoute.message = NoMessage /\ NoRoute.to = NoRenewer
    /\ ~ Success(NoMessage)
BY DEF NoMessage, NoRoute, Message, AnyMessages, NoKey, Success

\* What is known of a queue after a message is added to it or taken off it.
LEMMA Queues ==
    ASSUME NEW q \in Seq(AnyMessages)
    PROVE  /\ Len(q) \in Nat
           /\ \A i \in 1 .. Len(q) : q[i] \in AnyMessages
           /\ \A m \in AnyMessages :
                /\ Append(q, m) \in Seq(AnyMessages) /\ Len(Append(q, m)) = Len(q) + 1
                /\ Append(q, m)[Len(q) + 1] = m
                /\ \A i \in 1 .. Len(q) : Append(q, m)[i] = q[i]
           /\ q # <<>> =>
                /\ Len(q) > 0 /\ Head(q) = q[1] /\ Head(q) \in AnyMessages
                /\ Tail(q) \in Seq(AnyMessages) /\ Len(Tail(q)) = Len(q) - 1
                /\ \A i \in 1 .. Len(q) - 1 : Tail(q)[i] = q[i + 1]
           /\ \A n \in 0 .. Len(q) :
                /\ SubSeq(q, 1, n) \in Seq(AnyMessages) /\ Len(SubSeq(q, 1, n)) = n
                /\ \A i \in 1 .. n : SubSeq(q, 1, n)[i] = q[i]
<1>1. Len(q) \in Nat /\ \A i \in 1 .. Len(q) : q[i] \in AnyMessages
  BY ElementOfSeq, LenProperties
<1>2. ASSUME NEW m \in AnyMessages
      PROVE  /\ Append(q, m) \in Seq(AnyMessages) /\ Len(Append(q, m)) = Len(q) + 1
             /\ Append(q, m)[Len(q) + 1] = m
             /\ \A i \in 1 .. Len(q) : Append(q, m)[i] = q[i]
  BY AppendProperties, <1>1
<1>3. ASSUME q # <<>>
      PROVE  /\ Len(q) > 0 /\ Head(q) = q[1] /\ Head(q) \in AnyMessages
             /\ Tail(q) \in Seq(AnyMessages) /\ Len(Tail(q)) = Len(q) - 1
             /\ \A i \in 1 .. Len(q) - 1 : Tail(q)[i] = q[i + 1]
  BY <1>1, <1>3, HeadTailProperties, EmptySeq
<1>4. ASSUME NEW n \in 0 .. Len(q)
      PROVE  /\ SubSeq(q, 1, n) \in Seq(AnyMessages) /\ Len(SubSeq(q, 1, n)) = n
             /\ \A i \in 1 .. n : SubSeq(q, 1, n)[i] = q[i]
  <2>1. n \in Int /\ 1 \in Int /\ \A i \in 1 .. n : q[i] \in AnyMessages BY <1>1
  <2>2. /\ SubSeq(q, 1, n) \in Seq(AnyMessages)
        /\ Len(SubSeq(q, 1, n)) = IF 1 <= n THEN n - 1 + 1 ELSE 0
        /\ \A i \in 1 .. n - 1 + 1 : SubSeq(q, 1, n)[i] = q[1 + i - 1]
    BY <2>1, SubSeqProperties
  <2> QED BY <1>1, <2>2
<1> QED BY <1>1, <1>2, <1>3, <1>4

-----------------------------------------------------------------------------
(* Steps that bring the controller nothing new. *)

\* Renewals hold no more keys than before; nothing is added to what comes.
Shrinks ==
    /\ \A r \in Renewers, k \in Nat : Holds(r, k)' => Holds(r, k)
    /\ \A k \in Nat : Installing(k)' => Taken(k)
    /\ Len(toController') <= Len(toController) /\ routed' = routed
    /\ \A i \in 1 .. Len(toController') : toController'[i] = toController[i]
    /\ \A r \in Renewers :
         /\ responseWait'[r] \in {responseWait[r], NoMessage}
         /\ rpc'[r] \in {"install", "ack"} =>
              rpc[r] \in {"install", "ack"} \/ responseWait'[r] = NoMessage
    /\ handler' \in Renewers =>
         handler' = handler \/ \A k \in Nat : ~ Holds(handler, k)'
    /\ UNCHANGED <<keysMade, installed, mimicked>>

\* Such steps keep everything that is known of keys and acknowledgements.
LEMMA Shrinking ==
    ASSUME SInv, SessionTyped', Shrinks
    PROVE  /\ FreshCSRs' /\ HandlerLatest' /\ AcksMatch' /\ AcksTrue'
           /\ \A k \in Nat : Taken(k)' => Taken(k)
<1> USE DEF SInv, Shrinks
<1>1. ASSUME NEW k \in Nat, Taken(k)' PROVE Taken(k)
  <2>1. Installing(k)' \/ \E r \in Renewers : Holds(r, k)' BY <1>1 DEF Taken
  <2> QED BY <2>1 DEF Taken
<1>2. Len(toController) \in Nat /\ Len(toController') \in Nat BY Queues DEF SessionTyped
<1>3. \A i \in 0 .. Len(toController') : Coming(i)' = Coming(i) /\ i \in 0 .. Len(toController)
  BY <1>2 DEF Coming
<1>4. ASSUME NEW i \in 0 .. Len(toController'), Coming(i)'.kind = "csr"
      PROVE  /\ Coming(i)'.key <= keysMade'
             /\ \A k \in Nat : Taken(k)' => k < Coming(i)'.key
             /\ \A j \in i + 1 .. Len(toController') :
                   /\ ~ Success(toController'[j])
                   /\ toController'[j].kind = "csr" => Coming(i)'.key < toController'[j].key
  <2>1. Coming(i)' = Coming(i) /\ i \in 0 .. Len(toController) BY <1>3
  <2>2. /\ Coming(i).key <= keysMade
        /\ \A k \in Nat : Taken(k) => k < Coming(i).key
        /\ \A j \in i + 1 .. Len(toController) :
              /\ ~ Success(toController[j])
              /\ toController[j].kind = "csr" => Coming(i).key < toController[j].key
    BY <2>1, <1>4 DEF FreshCSRs
  <2>3. \A j \in i + 1 .. Len(toController') :
           j \in i + 1 .. Len(toController) /\ toController'[j] = toController[j]
    BY <1>2
  <2> QED BY <1>1, <2>1, <2>2, <2>3
<1>5. FreshCSRs' BY <1>4 DEF FreshCSRs, Success
<1>6. ASSUME NEW k \in Nat, handler' \in Renewers, Holds(handler, k)'
      PROVE  /\ \A l \in Nat : Taken(l)' => l <= k
             /\ \A i \in 1 .. Len(toController') :
                   Success(toController'[i]) => toController'[i].key = k
             /\ routed' # NoRoute => routed'.to = handler'
  <2>1. handler' = handler /\ Holds(handler, k) BY <1>6
  <2>2. /\ \A l \in Nat : Taken(l) => l <= k
        /\ \A i \in 1 .. Len(toController) : Success(toController[i]) => toController[i].key = k
        /\ routed # NoRoute => routed.to = handler
    BY <2>1, <1>6 DEF HandlerLatest
  <2>3. \A i \in 1 .. Len(toController') :
           i \in 1 .. Len(toController) /\ toController'[i] = toController[i]
    BY <1>2
  <2> QED BY <1>1, <2>1, <2>2, <2>3
<1>7. HandlerLatest' BY <1>6 DEF HandlerLatest, Success
<1>8. AcksMatch'
  <2>1. ASSUME NEW r \in Renewers, NEW k \in Nat, Holds(r, k)'
        PROVE  /\ routed'.to = r /\ Success(routed'.message) => routed'.message.key = k
               /\ rpc'[r] \in {"install", "ack"} /\ Success(responseWait'[r])
                     => responseWait'[r].key = k
    <3>1. Holds(r, k) BY <2>1
    <3> QED BY <3>1, NoMessageType DEF AcksMatch
  <2> QED BY <2>1 DEF AcksMatch, Success
<1>9. AcksTrue'
  <2>1. \A i \in 0 .. Len(toController') : Success(Coming(i)') => Coming(i)'.key \in installed'
    BY <1>3 DEF AcksTrue
  <2>2. \A r \in Renewers : Success(responseWait'[r]) => responseWait'[r].key \in installed'
    BY NoMessageType DEF AcksTrue
  <2> QED BY <2>1, <2>2 DEF AcksTrue, Success
<1> QED BY <1>1, <1>5, <1>7, <1>8, <1>9

-----------------------------------------------------------------------------
(* The steps of RenewDevice. *)

\* What RenewDevice does for r leaves what comes, and other renewals, as they are;
\* r only lets go of keys, and returns what is installed.
RenewalOnly(r) ==
    /\ \A s \in Renewers \ {r} : /\ rpc'[s] = rpc[s] /\ responseWait'[s] = responseWait[s]
                                 /\ pendingCSR'[s] = pendingCSR[s] /\ result'[s] = result[s]
    /\ UNCHANGED <<toController, routed, pendingKey, keysMade, activeKey, deviceLoop, served,
                   disk, installed, mimicked, unstored>>
    /\ \A k \in Nat : Holds(r, k)' => Holds(r, k)
    /\ \A k \in Nat : Installing(k)' => Taken(k)
    /\ \A i \in 1 .. Len(toDevice') :
          toDevice'[i].kind \in {"request", "install"} /\ toDevice'[i].by # NoRenewer
    /\ responseWait'[r] \in {responseWait[r], NoMessage}
    /\ rpc'[r] # "idle"
    /\ rpc'[r] \in {"install", "ack"} =>
          rpc[r] \in {"install", "ack"} \/ responseWait'[r] = NoMessage
    /\ handler' \in Renewers => handler' = handler \/ \A k \in Nat : ~ Holds(handler, k)'
    /\ result'[r] \in {result[r], NoKey} \/ result'[r] \in installed \/ r \in mimicked

\* Such steps keep the invariant.
LEMMA RenewalStep ==
    ASSUME SInv, SessionTyped', NEW r \in Renewers, RenewalOnly(r)
    PROVE  SInv'
<1> USE DEF SInv, RenewalOnly
<1>1. Shrinks
  <2>1. \A s \in Renewers, k \in Nat : Holds(s, k)' => Holds(s, k)
    <3> SUFFICES ASSUME NEW s \in Renewers, NEW k \in Nat, Holds(s, k)' PROVE Holds(s, k)
      OBVIOUS
    <3>1. CASE s = r BY <3>1
    <3>2. CASE s # r BY <3>2 DEF Holds
    <3> QED BY <3>1, <3>2
  <2>2. Len(toController') <= Len(toController)
        /\ \A i \in 1 .. Len(toController') : toController'[i] = toController[i]
    BY Queues DEF SessionTyped
  <2>3. \A s \in Renewers :
           /\ responseWait'[s] \in {responseWait[s], NoMessage}
           /\ rpc'[s] \in {"install", "ack"} =>
                rpc[s] \in {"install", "ack"} \/ responseWait'[s] = NoMessage
    OBVIOUS
  <2>4. /\ \A k \in Nat : Installing(k)' => Taken(k)
        /\ handler' \in Renewers => handler' = handler \/ \A k \in Nat : ~ Holds(handler, k)'
    OBVIOUS
  <2> HIDE DEF SInv
  <2> QED BY <2>1, <2>2, <2>3, <2>4 DEF Shrinks
<1>2. /\ FreshCSRs' /\ HandlerLatest' /\ AcksMatch' /\ AcksTrue'
      /\ \A k \in Nat : Taken(k)' => Taken(k)
  BY <1>1, Shrinking
<1>3. Sent'
  <2>1. ASSUME NEW s \in Renewers
        PROVE  /\ rpc'[s] = "idle" => responseWait'[s] = NoMessage
               /\ responseWait'[s] # NoMessage /\ responseWait'[s].by = NoRenewer => s \in mimicked'
    BY DEF Sent
  <2> QED BY <2>1 DEF Sent
<1>4. KeysKnown' BY <1>2 DEF KeysKnown
<1>5. LastServed' BY DEF LastServed
<1>6. RenewedIsInstalled'
  <2>1. ASSUME NEW s \in Renewers \ mimicked', result'[s] # NoKey PROVE result'[s] \in installed'
    BY <2>1 DEF RenewedIsInstalled
  <2> QED BY <2>1 DEF RenewedIsInstalled
<1> QED BY <1>2, <1>3, <1>4, <1>5, <1>6

\* A renewal's fields are changed one by one.
LEMMA FieldChanged ==
    ASSUME NEW T, NEW f \in [Renewers -> T], NEW g, NEW r \in Renewers, NEW e \in T,
           g = [f EXCEPT ![r] = e]
    PROVE  g[r] = e /\ g \in [Renewers -> T] /\ \A s \in Renewers \ {r} : g[s] = f[s]
OBVIOUS

Places == {"idle", "send", "csr", "install", "ack", "leave", "done"}

\* RenewDevice goes on, takes what is in its channel, or ends.
LEMMA RenewerMoves ==
    ASSUME SInv, NEW r \in Renewers,
           StartRenewal(r) \/ TakeCSR(r) \/ TakeAck(r) \/ LeaveRenewal(r) \/ ContextEnds(r)
    PROVE  SInv'
<1>0. /\ SessionTyped /\ Sent /\ AcksMatch /\ AcksTrue
      /\ rpc \in [Renewers -> Places] /\ responseWait \in [Renewers -> AnyMessages]
      /\ pendingCSR \in [Renewers -> Nat] /\ result \in [Renewers -> Nat]
  BY DEF SInv, SessionTyped, Places
<1>s. NoRenewer \notin Renewers BY SessionAssumption
<1>d. ASSUME UNCHANGED <<toDevice, toController, routed, deviceSide, installed, mimicked, unstored>>
      PROVE  /\ UNCHANGED <<toController, routed, pendingKey, keysMade, activeKey, deviceLoop,
                            served, disk, installed, mimicked, unstored>>
             /\ \A k \in Nat : Installing(k)' => Taken(k)
             /\ \A i \in 1 .. Len(toDevice') :
                  toDevice'[i].kind \in {"request", "install"} /\ toDevice'[i].by # NoRenewer
  BY <1>0, <1>d DEF deviceSide, Sent, Installing, Taken
<1>1. CASE StartRenewal(r)
  <2>1. /\ handler' = r /\ rpc' = [rpc EXCEPT ![r] = "send"] /\ rpc[r] = "idle"
        /\ UNCHANGED <<responseWait, pendingCSR, result, toDevice, toController, routed,
                       deviceSide, up, installed, mimicked, unstored>>
    BY <1>1 DEF StartRenewal, Goes
  <2>2. rpc'[r] = "send" /\ rpc' \in [Renewers -> Places] /\ \A s \in Renewers \ {r} : rpc'[s] = rpc[s]
    BY <1>0, <2>1, FieldChanged DEF Places
  <2>3. SessionTyped' BY <1>0, <2>1, <2>2 DEF SessionTyped, deviceSide, Places
  <2>4. responseWait'[r] = NoMessage BY <1>0, <2>1 DEF Sent
  <2>5. \A k \in Nat : ~ Holds(r, k)' BY <2>2, <2>4, NoMessageType DEF Holds
  <2>6. \A k \in Nat : ~ Holds(handler, k)' BY <2>1, <2>5 DEF Holds
  <2>7. RenewalOnly(r) BY <1>d, <2>1, <2>2, <2>4, <2>5, <2>6 DEF RenewalOnly
  <2> QED BY <2>3, <2>7, RenewalStep
<1>2. CASE ContextEnds(r)
  <2>1. /\ rpc' = [rpc EXCEPT ![r] = "leave"]
        /\ UNCHANGED <<handler, responseWait, pendingCSR, result, toDevice, toController, routed,
                       deviceSide, up, installed, mimicked, unstored>>
    BY <1>2 DEF ContextEnds, Goes
  <2>2. rpc'[r] = "leave" /\ rpc' \in [Renewers -> Places] /\ \A s \in Renewers \ {r} : rpc'[s] = rpc[s]
    BY <1>0, <2>1, FieldChanged DEF Places
  <2>3. SessionTyped' BY <1>0, <2>1, <2>2 DEF SessionTyped, deviceSide, Places
  <2>4. \A k \in Nat : ~ Holds(r, k)' BY <2>2 DEF Holds
  <2>5. RenewalOnly(r) BY <1>d, <2>1, <2>2, <2>4 DEF RenewalOnly
  <2> QED BY <2>3, <2>5, RenewalStep
<1>3. CASE LeaveRenewal(r)
  <2>1. /\ rpc' = [rpc EXCEPT ![r] = "done"] /\ handler' = NoRenewer
        /\ responseWait' = [responseWait EXCEPT ![r] = NoMessage]
        /\ pendingCSR' = [pendingCSR EXCEPT ![r] = NoKey]
        /\ UNCHANGED <<result, toDevice, toController, routed, deviceSide, up,
                       installed, mimicked, unstored>>
    BY <1>3 DEF LeaveRenewal, Goes, ghosts
  <2>2. rpc'[r] = "done" /\ rpc' \in [Renewers -> Places] /\ \A s \in Renewers \ {r} : rpc'[s] = rpc[s]
    BY <1>0, <2>1, FieldChanged DEF Places
  <2>3. /\ responseWait'[r] = NoMessage /\ responseWait' \in [Renewers -> AnyMessages]
        /\ \A s \in Renewers \ {r} : responseWait'[s] = responseWait[s]
    BY <1>0, <2>1, FieldChanged, NoMessageType
  <2>4. /\ pendingCSR' \in [Renewers -> Nat]
        /\ \A s \in Renewers \ {r} : pendingCSR'[s] = pendingCSR[s]
    BY <1>0, <2>1, FieldChanged DEF NoKey
  <2>5. SessionTyped' BY <1>0, <2>1, <2>2, <2>3, <2>4 DEF SessionTyped, deviceSide, Places
  <2>6. \A k \in Nat : ~ Holds(r, k)' BY <2>2 DEF Holds
  <2>7. RenewalOnly(r) BY <1>d, <1>s, <2>1, <2>2, <2>3, <2>4, <2>6 DEF RenewalOnly
  <2> QED BY <2>5, <2>7, RenewalStep
<1>4. CASE TakeCSR(r)
  <2>1. /\ rpc[r] = "csr" /\ responseWait' = [responseWait EXCEPT ![r] = NoMessage]
        /\ \/ /\ responseWait[r].kind = "csr" /\ rpc' = [rpc EXCEPT ![r] = "install"]
              /\ pendingCSR' = [pendingCSR EXCEPT ![r] = responseWait[r].key]
           \/ rpc' = [rpc EXCEPT ![r] = "leave"] /\ UNCHANGED pendingCSR
        /\ UNCHANGED <<handler, result, toDevice, toController, routed, deviceSide, up,
                       installed, mimicked, unstored>>
    BY <1>4 DEF TakeCSR, Goes, ghosts
  <2>2. /\ responseWait'[r] = NoMessage /\ responseWait' \in [Renewers -> AnyMessages]
        /\ \A s \in Renewers \ {r} : responseWait'[s] = responseWait[s]
    BY <1>0, <2>1, FieldChanged, NoMessageType
  <2>3. /\ rpc' \in [Renewers -> Places] /\ rpc'[r] \in {"install", "leave"}
        /\ \A s \in Renewers \ {r} : rpc'[s] = rpc[s] /\ pendingCSR'[s] = pendingCSR[s]
        /\ pendingCSR' \in [Renewers -> Nat]
        /\ rpc'[r] = "install" => responseWait[r].kind = "csr" /\ pendingCSR'[r] = responseWait[r].key
    <3>1. responseWait[r].key \in Nat BY <1>0 DEF AnyMessages
    <3>2. CASE rpc' = [rpc EXCEPT ![r] = "leave"] /\ UNCHANGED pendingCSR
      BY <1>0, <3>2, FieldChanged DEF Places
    <3>3. CASE responseWait[r].kind = "csr" /\ rpc' = [rpc EXCEPT ![r] = "install"]
               /\ pendingCSR' = [pendingCSR EXCEPT ![r] = responseWait[r].key]
      BY <1>0, <3>1, <3>3, FieldChanged DEF Places
    <3> QED BY <2>1, <3>2, <3>3
  <2>4. SessionTyped' BY <1>0, <2>1, <2>2, <2>3 DEF SessionTyped, deviceSide, Places
  <2>5. \A k \in Nat : Holds(r, k)' => Holds(r, k) BY <2>1, <2>3 DEF Holds
  <2>6. RenewalOnly(r) BY <1>d, <2>1, <2>2, <2>3, <2>5 DEF RenewalOnly
  <2> QED BY <2>4, <2>6, RenewalStep
<1>5. CASE TakeAck(r)
  <2>1. /\ rpc[r] = "ack" /\ rpc' = [rpc EXCEPT ![r] = "leave"]
        /\ responseWait' = [responseWait EXCEPT ![r] = NoMessage]
        /\ result' = [result EXCEPT ![r] =
              IF responseWait[r].kind = "ack" /\ responseWait[r].ok THEN pendingCSR[r] ELSE NoKey]
        /\ responseWait[r] # NoMessage
        /\ UNCHANGED <<handler, pendingCSR, toDevice, toController, routed, deviceSide, up,
                       installed, mimicked, unstored>>
    BY <1>5 DEF TakeAck, Goes, ghosts
  <2>2. rpc'[r] = "leave" /\ rpc' \in [Renewers -> Places] /\ \A s \in Renewers \ {r} : rpc'[s] = rpc[s]
    BY <1>0, <2>1, FieldChanged DEF Places
  <2>3. /\ responseWait'[r] = NoMessage /\ responseWait' \in [Renewers -> AnyMessages]
        /\ \A s \in Renewers \ {r} : responseWait'[s] = responseWait[s]
    BY <1>0, <2>1, FieldChanged, NoMessageType
  <2>4. pendingCSR[r] \in Nat /\ NoKey \in Nat BY <1>0 DEF NoKey
  <2>5. /\ result' \in [Renewers -> Nat] /\ \A s \in Renewers \ {r} : result'[s] = result[s]
        /\ result'[r] = IF responseWait[r].kind = "ack" /\ responseWait[r].ok
                        THEN pendingCSR[r] ELSE NoKey
    BY <1>0, <2>1, <2>4, FieldChanged
  <2>6. SessionTyped' BY <1>0, <2>1, <2>2, <2>3, <2>5 DEF SessionTyped, deviceSide, Places
  <2>7. \A k \in Nat : ~ Holds(r, k)' BY <2>2 DEF Holds
  <2>8. ASSUME responseWait[r].kind = "ack", responseWait[r].ok, r \notin mimicked
        PROVE  pendingCSR[r] \in installed
    <3>1. Success(responseWait[r]) BY <1>0, <2>1, <2>8 DEF Success, Sent
    <3>2. Holds(r, pendingCSR[r]) BY <2>1 DEF Holds
    <3>3. responseWait[r].key = pendingCSR[r] BY <1>0, <2>1, <2>4, <3>1, <3>2 DEF AcksMatch
    <3> QED BY <1>0, <3>1, <3>3 DEF AcksTrue
  <2>9. RenewalOnly(r)
    BY <1>d, <2>1, <2>2, <2>3, <2>5, <2>7, <2>8 DEF RenewalOnly
  <2> QED BY <2>6, <2>9, RenewalStep
<1> QED BY <1>1, <1>2, <1>3, <1>4, <1>5

\* RenewDevice sends its request, or the certificate for the CSR it has.
LEMMA RenewerSends ==
    ASSUME SInv, NEW r \in Renewers, InitiateRenewal(r) \/ Install(r)
    PROVE  SInv'
<1>0. /\ SessionTyped /\ Sent /\ rpc \in [Renewers -> Places]
      /\ pendingCSR[r] \in Nat /\ Len(toDevice) \in Nat /\ toDevice \in Seq(AnyMessages)
  BY Queues DEF SInv, SessionTyped, Places
<1>s. NoRenewer \notin Renewers BY SessionAssumption
<1>1. \E m \in AnyMessages, next \in {"csr", "ack"} :
         /\ rpc[r] = (IF next = "csr" THEN "send" ELSE "install") /\ Sends(r, m, next)
         /\ m.kind \in {"request", "install"} /\ m.by = r
         /\ m.kind = "install" => Holds(r, m.key)
  <2>1. CASE InitiateRenewal(r)
    <3> DEFINE m == Message("request", NoKey, FALSE, r)
    <3>0. "request" \in {"request", "csr", "install", "ack"} /\ NoKey \in Nat /\ FALSE \in BOOLEAN
          /\ r \in Renewers \cup {NoRenewer}
      BY DEF NoKey
    <3>1. m \in AnyMessages /\ m.kind = "request" /\ m.by = r BY <3>0 DEF Message, AnyMessages
    <3>2. rpc[r] = "send" /\ Sends(r, m, "csr") BY <2>1 DEF InitiateRenewal
    <3> HIDE DEF m
    <3> QED BY <3>1, <3>2
  <2>2. CASE Install(r)
    <3> DEFINE m == Message("install", pendingCSR[r], FALSE, r)
    <3>0. "install" \in {"request", "csr", "install", "ack"} /\ FALSE \in BOOLEAN
          /\ r \in Renewers \cup {NoRenewer}
      OBVIOUS
    <3>1. m \in AnyMessages /\ m.kind = "install" /\ m.by = r /\ m.key = pendingCSR[r]
      BY <1>0, <3>0 DEF Message, AnyMessages
    <3>2. rpc[r] = "install" /\ Sends(r, m, "ack") BY <2>2 DEF Install
    <3>3. Holds(r, m.key) BY <3>1, <3>2 DEF Holds
    <3> HIDE DEF m
    <3> QED BY <3>1, <3>2, <3>3
  <2> QED BY <2>1, <2>2
<1>2. PICK m \in AnyMessages, next \in {"csr", "ack"} :
         /\ rpc[r] = (IF next = "csr" THEN "send" ELSE "install") /\ Sends(r, m, next)
         /\ m.kind \in {"request", "install"} /\ m.by = r
         /\ m.kind = "install" => Holds(r, m.key)
  BY <1>1
<1>3. UNCHANGED <<handler, responseWait, pendingCSR, result, toController, routed,
                  pendingKey, keysMade, activeKey, deviceLoop, served, disk, up,
                  installed, mimicked, unstored>>
  BY DEF InitiateRenewal, Install, deviceSide
<1>4. \/ toDevice' = Append(toDevice, m) /\ rpc' = [rpc EXCEPT ![r] = next]
      \/ toDevice' = toDevice /\ \E place \in {next, "leave"} : rpc' = [rpc EXCEPT ![r] = place]
  BY <1>2 DEF Sends, Goes
<1>5. PICK place \in {next, "leave"} : rpc' = [rpc EXCEPT ![r] = place]
  BY <1>4
<1>6. rpc'[r] = place /\ rpc' \in [Renewers -> Places] /\ \A s \in Renewers \ {r} : rpc'[s] = rpc[s]
  BY <1>0, <1>5, FieldChanged DEF Places
<1>7. \A k \in Nat : Holds(r, k)' => Holds(r, k)
  BY <1>2, <1>3, <1>6 DEF Holds
<1>8. /\ toDevice' \in Seq(AnyMessages)
      /\ \A i \in 1 .. Len(toDevice') :
            (i \in 1 .. Len(toDevice) /\ toDevice'[i] = toDevice[i]) \/ toDevice'[i] = m
  <2>1. CASE toDevice' = toDevice BY <1>0, <2>1
  <2>2. CASE toDevice' = Append(toDevice, m) BY <1>0, <2>2, Queues
  <2> QED BY <1>4, <2>1, <2>2
<1>9. \A i \in 1 .. Len(toDevice') :
         toDevice'[i].kind \in {"request", "install"} /\ toDevice'[i].by # NoRenewer
  BY <1>0, <1>2, <1>8, <1>s DEF Sent
<1>10. ASSUME NEW k \in Nat, Installing(k)' PROVE Taken(k)
  <2>1. PICK i \in 1 .. Len(toDevice') : toDevice'[i].kind = "install" /\ toDevice'[i].key = k
    BY <1>10 DEF Installing
  <2>2. CASE i \in 1 .. Len(toDevice) /\ toDevice'[i] = toDevice[i]
    BY <2>1, <2>2 DEF Installing, Taken
  <2>3. CASE toDevice'[i] = m BY <1>2, <2>1, <2>3 DEF Taken
  <2> QED BY <1>8, <2>2, <2>3
<1>11. SessionTyped' BY <1>0, <1>3, <1>6, <1>8 DEF SessionTyped, Places
<1>12. rpc'[r] # "idle" /\ (rpc'[r] \in {"install", "ack"} => rpc[r] \in {"install", "ack"})
  BY <1>2, <1>6
<1>13. RenewalOnly(r)
  BY <1>3, <1>6, <1>7, <1>9, <1>10, <1>12 DEF RenewalOnly
<1> QED BY <1>11, <1>13, RenewalStep

-----------------------------------------------------------------------------
(* Steps that are not RenewDevice's and deliver nothing. *)

\* The controller's renewals stay as they are; what is under way may be lost.
NothingNew ==
    /\ UNCHANGED <<handler, rpc, responseWait, pendingCSR, result, routed, keysMade,
                   installed, mimicked>>
    /\ toDevice' \in {toDevice, <<>>}
    /\ \/ toController' = toController
       \/ \E n \in 0 .. Len(toController) : toController' = SubSeq(toController, 1, n)
    /\ pendingKey' \in {pendingKey, NoKey}
    /\ activeKey' \in {activeKey, disk} /\ disk' \in {activeKey, disk}

\* Such steps keep the invariant if what the device serves stays right.
LEMMA NothingNewStep ==
    ASSUME SInv, NothingNew, LastServed',
           deviceLoop' \in {"read", "store"}, served' \in Nat, up' \in BOOLEAN, unstored' \in BOOLEAN
    PROVE  SInv'
<1>0. /\ SessionTyped /\ Sent /\ KeysKnown /\ RenewedIsInstalled
      /\ Len(toController) \in Nat /\ Len(toDevice) \in Nat
      /\ toController \in Seq(AnyMessages) /\ toDevice \in Seq(AnyMessages)
  BY Queues DEF SInv, SessionTyped
<1>1. /\ toController' \in Seq(AnyMessages) /\ Len(toController') <= Len(toController)
      /\ \A i \in 1 .. Len(toController') :
            i \in 1 .. Len(toController) /\ toController'[i] = toController[i]
  <2>1. CASE toController' = toController BY <1>0, <2>1
  <2>2. CASE \E n \in 0 .. Len(toController) : toController' = SubSeq(toController, 1, n)
    <3>1. PICK n \in 0 .. Len(toController) : toController' = SubSeq(toController, 1, n) BY <2>2
    <3>2. /\ toController' \in Seq(AnyMessages) /\ Len(toController') = n
          /\ \A i \in 1 .. n : toController'[i] = toController[i]
      BY <1>0, <3>1, Queues
    <3> QED BY <1>0, <3>2
  <2> QED BY <2>1, <2>2, Zenon DEF NothingNew
<1>2. /\ toDevice' \in Seq(AnyMessages)
      /\ \A i \in 1 .. Len(toDevice') :
            i \in 1 .. Len(toDevice) /\ toDevice'[i] = toDevice[i]
  <2>1. <<>> \in Seq(AnyMessages) /\ Len(<<>>) = 0 BY EmptySeq
  <2>2. CASE toDevice' = <<>> BY <2>1, <2>2
  <2>3. CASE toDevice' = toDevice BY <1>0, <2>3
  <2> QED BY <2>2, <2>3 DEF NothingNew
<1>3. SessionTyped' BY <1>0, <1>1, <1>2 DEF SessionTyped, NothingNew, NoKey
<1>4. \A r \in Renewers, k \in Nat : Holds(r, k)' => Holds(r, k) BY DEF Holds, NothingNew
<1>5. \A k \in Nat : Installing(k)' => Taken(k) BY <1>2 DEF Installing, Taken
<1>6. Shrinks BY <1>1, <1>4, <1>5 DEF Shrinks, NothingNew
<1>7. /\ FreshCSRs' /\ HandlerLatest' /\ AcksMatch' /\ AcksTrue'
      /\ \A k \in Nat : Taken(k)' => Taken(k)
  BY <1>3, <1>6, Shrinking
<1>8. Sent'
  <2>1. \A i \in 1 .. Len(toDevice') :
           toDevice'[i].kind \in {"request", "install"} /\ toDevice'[i].by # NoRenewer
    BY <1>0, <1>2 DEF Sent
  <2>2. \A i \in 1 .. Len(toController') :
           toController'[i].kind \in {"csr", "ack"} /\ toController'[i].by # NoRenewer
    BY <1>0, <1>1 DEF Sent
  <2> QED BY <1>0, <2>1, <2>2 DEF Sent, NothingNew
<1>9. KeysKnown' BY <1>0, <1>7 DEF KeysKnown, NothingNew, SessionTyped
<1>10. RenewedIsInstalled' BY <1>0 DEF RenewedIsInstalled, NothingNew
<1> QED BY <1>3, <1>7, <1>8, <1>9, <1>10 DEF SInv

\* What concerns neither the renewals nor the device.
LEMMA UntouchedStep ==
    ASSUME SInv, UNCHANGED <<controllerSide, toDevice, toController, routed, deviceSide, up,
                             installed, mimicked, unstored>>
    PROVE  SInv'
<1>1. NothingNew BY DEF NothingNew, controllerSide, deviceSide
<1>2. LastServed' BY DEF SInv, LastServed, deviceSide
<1> QED BY <1>1, <1>2, NothingNewStep DEF deviceSide, SInv, SessionTyped

\* The device stores and serves what it has installed, or cannot.
LEMMA StoreStep ==
    ASSUME SInv, StoreRenewed PROVE SInv'
<1>1. /\ deviceLoop' = "read"
      /\ \/ disk' = activeKey /\ served' = activeKey /\ UNCHANGED unstored
         \/ unstored' = TRUE /\ UNCHANGED <<disk, served>>
      /\ UNCHANGED <<handler, rpc, responseWait, pendingCSR, result, toDevice, toController,
                     routed, pendingKey, keysMade, activeKey, up, installed, mimicked>>
  BY DEF StoreRenewed, controllerSide
<1>2. NothingNew BY <1>1 DEF NothingNew
<1>3. LastServed' BY <1>1 DEF SInv, LastServed
<1> QED BY <1>1, <1>2, <1>3, NothingNewStep DEF SInv, SessionTyped

\* The connection is lost, or the device restarts with what it has stored.
LEMMA LossStep ==
    ASSUME SInv, LoseConnection \/ RestartDevice PROVE SInv'
<1>0. SessionTyped /\ LastServed BY DEF SInv
<1>1. /\ up' = FALSE /\ toDevice' = <<>>
      /\ \E n \in 0 .. Len(toController) : toController' = SubSeq(toController, 1, n)
      /\ UNCHANGED <<handler, rpc, responseWait, pendingCSR, result, routed, installed, mimicked>>
  BY DEF LoseConnection, RestartDevice, ConnectionEnds, controllerSide
<1>2. CASE LoseConnection
  <2>1. UNCHANGED <<pendingKey, keysMade, activeKey, deviceLoop, served, disk, unstored>>
    BY <1>2 DEF LoseConnection, deviceSide
  <2>2. NothingNew BY <1>1, <2>1 DEF NothingNew
  <2>3. LastServed' BY <1>0, <1>1, <2>1 DEF LastServed
  <2> QED BY <1>0, <1>1, <2>1, <2>2, <2>3, NothingNewStep DEF SessionTyped
<1>3. CASE RestartDevice
  <2>1. /\ pendingKey' = NoKey /\ activeKey' = disk /\ served' = disk /\ deviceLoop' = "read"
        /\ unstored' = (unstored \/ deviceLoop = "store")
        /\ UNCHANGED <<keysMade, disk>>
    BY <1>3 DEF RestartDevice
  <2>2. NothingNew BY <1>1, <2>1 DEF NothingNew
  <2>3. LastServed'
    <3> SUFFICES ASSUME ~ unstored'
                 PROVE  /\ \A k \in installed' : k <= activeKey'
                        /\ deviceLoop' = "read" => disk' = activeKey' /\ served' = activeKey'
      BY DEF LastServed
    <3>1. ~ unstored /\ deviceLoop = "read" BY <2>1, <1>0 DEF SessionTyped
    <3> QED BY <1>0, <1>1, <2>1, <3>1 DEF LastServed
  <2>4. unstored' \in BOOLEAN /\ served' \in Nat BY <1>0, <2>1 DEF SessionTyped
  <2> QED BY <1>1, <2>1, <2>2, <2>3, <2>4, NothingNewStep
<1> QED BY <1>2, <1>3

-----------------------------------------------------------------------------
(* What the reader does. *)

\* A response taken for an acknowledgement is no success of the device.
LEMMA DisguisedStep ==
    ASSUME SInv, routed = NoRoute,
           routed' \in {NoRoute, [message |-> Message("ack", NoKey, TRUE, NoRenewer), to |-> handler]},
           routed' # NoRoute => handler # NoRenewer,
           UNCHANGED <<controllerSide, toDevice, toController, deviceSide, up, ghosts>>
    PROVE  SInv'
<1>1. CASE routed' = NoRoute BY <1>1, UntouchedStep DEF ghosts
<1>2. CASE routed' # NoRoute
  <2> DEFINE m == Message("ack", NoKey, TRUE, NoRenewer)
  <2>0. /\ SessionTyped /\ Sent /\ KeysKnown /\ FreshCSRs /\ HandlerLatest
        /\ AcksMatch /\ AcksTrue /\ LastServed /\ RenewedIsInstalled
        /\ Len(toController) \in Nat
        /\ handler \in Renewers
    BY <1>2, Queues DEF SInv, SessionTyped
  <2>1. /\ m \in AnyMessages /\ m.kind = "ack" /\ m # NoMessage /\ ~ Success(m)
    BY DEF Message, AnyMessages, NoKey, NoMessage, Success
  <2> HIDE DEF m
  <2>2. /\ routed' = [message |-> m, to |-> handler] BY <1>2 DEF m
  <2>3. /\ UNCHANGED <<handler, rpc, responseWait, pendingCSR, result, toDevice, toController,
                       pendingKey, keysMade, activeKey, deviceLoop, served, disk, up,
                       installed, mimicked, unstored>>
    BY DEF controllerSide, deviceSide, ghosts
  <2>4. routed'.message = m /\ routed'.to = handler BY <2>2
  <2>5. /\ \A r \in Renewers, k \in Nat : Holds(r, k)' <=> Holds(r, k)
        /\ \A k \in Nat : Taken(k)' <=> Taken(k)
    BY <2>3 DEF Holds, Taken, Installing
  <2>6. SessionTyped' BY <2>0, <2>1, <2>2, <2>3 DEF SessionTyped
  <2>7. Sent' BY <2>0, <2>1, <2>2, <2>3, <2>4, <1>2, NoMessageType DEF Sent
  <2>8. KeysKnown' BY <2>0, <2>3, <2>5 DEF KeysKnown
  <2>9. FreshCSRs'
    <3>1. \A i \in 1 .. Len(toController) : Coming(i)' = Coming(i) BY <2>3 DEF Coming
    <3>2. Coming(0)'.kind # "csr" BY <2>1, <2>4 DEF Coming
    <3>3. ASSUME NEW i \in 0 .. Len(toController), Coming(i)'.kind = "csr"
          PROVE  /\ Coming(i)'.key <= keysMade'
                 /\ \A k \in Nat : Taken(k)' => k < Coming(i)'.key
                 /\ \A j \in i + 1 .. Len(toController') :
                       /\ ~ Success(toController'[j])
                       /\ toController'[j].kind = "csr" => Coming(i)'.key < toController'[j].key
      <4>1. i \in 1 .. Len(toController) /\ i \in 0 .. Len(toController)
        BY <2>0, <3>2, <3>3
      <4> QED BY <4>1, <3>1, <3>3, <2>0, <2>3, <2>5 DEF FreshCSRs
    <3> QED BY <3>3, <2>3 DEF FreshCSRs, Success
  <2>10. HandlerLatest'
    <3>1. ASSUME NEW k \in Nat, handler' \in Renewers, Holds(handler, k)'
          PROVE  /\ \A l \in Nat : Taken(l)' => l <= k
                 /\ \A i \in 1 .. Len(toController') :
                       Success(toController'[i]) => toController'[i].key = k
                 /\ routed'.to = handler'
      <4>1. Holds(handler, k) BY <3>1, <2>3 DEF Holds
      <4> QED BY <4>1, <2>0, <2>3, <2>4, <2>5 DEF HandlerLatest
    <3> QED BY <3>1 DEF HandlerLatest, Success
  <2>11. AcksMatch' BY <2>0, <2>1, <2>3, <2>4, <2>5 DEF AcksMatch, Success
  <2>12. AcksTrue'
    <3>1. \A i \in 1 .. Len(toController) : Coming(i)' = Coming(i) BY <2>3 DEF Coming
    <3>2. ~ Success(Coming(0)') BY <2>1, <2>4 DEF Coming
    <3>3. \A i \in 0 .. Len(toController') : Success(Coming(i)') => Coming(i)'.key \in installed'
      BY <3>1, <3>2, <2>0, <2>3 DEF AcksTrue
    <3> QED BY <3>3, <2>0, <2>3 DEF AcksTrue, Success
  <2>13. LastServed' /\ RenewedIsInstalled' BY <2>0, <2>3 DEF LastServed, RenewedIsInstalled
  <2> QED BY <2>6, <2>7, <2>8, <2>9, <2>10, <2>11, <2>12, <2>13 DEF SInv
<1> QED BY <1>1, <1>2

\* The reader takes a renewal message, and the handler it sees.
LEMMA RouteStep ==
    ASSUME SInv, OnRenewalMessage PROVE SInv'
<1>0. /\ SessionTyped /\ Sent /\ KeysKnown /\ FreshCSRs /\ HandlerLatest
      /\ AcksMatch /\ AcksTrue /\ LastServed /\ RenewedIsInstalled
      /\ Len(toController) \in Nat /\ toController \in Seq(AnyMessages)
  BY Queues DEF SInv, SessionTyped
<1>1. /\ routed = NoRoute /\ toController # <<>> /\ toController' = Tail(toController)
      /\ UNCHANGED <<handler, rpc, responseWait, pendingCSR, result, toDevice,
                     pendingKey, keysMade, activeKey, deviceLoop, served, disk, up,
                     installed, mimicked, unstored>>
  BY DEF OnRenewalMessage, ReaderIdle, controllerSide, deviceSide, ghosts
<1> DEFINE m == toController[1]
<1>2. /\ m \in AnyMessages /\ m.kind \in {"csr", "ack"} /\ m.by # NoRenewer
      /\ toController' \in Seq(AnyMessages) /\ Len(toController') = Len(toController) - 1
      /\ Len(toController) > 0
      /\ \A i \in 1 .. Len(toController') :
            toController'[i] = toController[i + 1] /\ i + 1 \in 1 .. Len(toController)
  BY <1>0, <1>1, Queues DEF Sent
<1>3. Head(toController) = m BY <1>0, <1>1, Queues
<1> HIDE DEF m
<1>4. \/ routed' = NoRoute
      \/ routed' = [message |-> m, to |-> handler] /\ handler \in Renewers
  BY <1>0, <1>3 DEF OnRenewalMessage, Route, SessionTyped
<1>5. /\ routed' \in [message : AnyMessages, to : Renewers \cup {NoRenewer}]
      /\ routed'.message \in {m, NoMessage} /\ (routed' = NoRoute <=> routed'.message = NoMessage)
      /\ routed' # NoRoute => routed'.to = handler /\ handler \in Renewers /\ routed'.message = m
      /\ routed'.to = handler \/ routed'.message = NoMessage
  <2>1. m # NoMessage BY <1>2, NoMessageType
  <2>2. CASE routed' = NoRoute BY <2>1, <2>2, NoMessageType DEF NoRoute
  <2>3. CASE routed' = [message |-> m, to |-> handler] /\ handler \in Renewers
    BY <1>2, <2>1, <2>3, NoMessageType
  <2> QED BY <1>4, <2>2, <2>3
<1>6. /\ \A r \in Renewers, k \in Nat : Holds(r, k)' <=> Holds(r, k)
      /\ \A k \in Nat : Taken(k)' <=> Taken(k)
  BY <1>1 DEF Holds, Taken, Installing
<1>7. \A i \in 0 .. Len(toController') :
         /\ i + 1 \in 1 .. Len(toController) /\ i + 1 \in 0 .. Len(toController)
         /\ Coming(i)' = Coming(i + 1) \/ Coming(i)' = NoMessage
  BY <1>0, <1>2, <1>5 DEF Coming, m
<1>8. SessionTyped' BY <1>0, <1>1, <1>2, <1>5 DEF SessionTyped
<1>9. Sent'
  <2>1. \A i \in 1 .. Len(toController') :
           toController'[i].kind \in {"csr", "ack"} /\ toController'[i].by # NoRenewer
    BY <1>0, <1>2 DEF Sent
  <2>2. routed' # NoRoute => routed'.to # NoRenewer /\ routed'.message.kind \in {"csr", "ack"}
    BY <1>2, <1>5, SessionAssumption
  <2> QED BY <1>0, <1>1, <1>5, <2>1, <2>2 DEF Sent
<1>10. KeysKnown' BY <1>0, <1>1, <1>6 DEF KeysKnown
<1>11. FreshCSRs'
  <2>1. ASSUME NEW i \in 0 .. Len(toController'), Coming(i)'.kind = "csr"
        PROVE  /\ Coming(i)'.key <= keysMade'
               /\ \A k \in Nat : Taken(k)' => k < Coming(i)'.key
               /\ \A j \in i + 1 .. Len(toController') :
                     /\ ~ Success(toController'[j])
                     /\ toController'[j].kind = "csr" => Coming(i)'.key < toController'[j].key
    <3>1. Coming(i)' = Coming(i + 1) /\ i + 1 \in 0 .. Len(toController)
      BY <1>7, <2>1, NoMessageType
    <3>2. /\ Coming(i + 1).key <= keysMade
          /\ \A k \in Nat : Taken(k) => k < Coming(i + 1).key
          /\ \A j \in i + 2 .. Len(toController) :
                /\ ~ Success(toController[j])
                /\ toController[j].kind = "csr" => Coming(i + 1).key < toController[j].key
      BY <1>0, <2>1, <3>1 DEF FreshCSRs
    <3>3. \A j \in i + 1 .. Len(toController') :
             toController'[j] = toController[j + 1] /\ j + 1 \in i + 2 .. Len(toController)
      BY <1>0, <1>2
    <3> QED BY <1>1, <1>6, <3>1, <3>2, <3>3
  <2> QED BY <2>1 DEF FreshCSRs, Success
<1>12. HandlerLatest'
  <2>1. ASSUME NEW k \in Nat, handler' \in Renewers, Holds(handler, k)'
        PROVE  /\ \A l \in Nat : Taken(l)' => l <= k
               /\ \A i \in 1 .. Len(toController') :
                     Success(toController'[i]) => toController'[i].key = k
               /\ routed' # NoRoute => routed'.to = handler'
    <3>1. handler \in Renewers /\ Holds(handler, k) BY <1>1, <2>1 DEF Holds
    <3> QED BY <1>0, <1>1, <1>2, <1>5, <1>6, <3>1 DEF HandlerLatest
  <2> QED BY <2>1 DEF HandlerLatest, Success
<1>13. AcksMatch'
  <2>1. ASSUME NEW r \in Renewers, NEW k \in Nat, Holds(r, k)'
        PROVE  /\ routed'.to = r /\ Success(routed'.message) => routed'.message.key = k
               /\ rpc'[r] \in {"install", "ack"} /\ Success(responseWait'[r])
                     => responseWait'[r].key = k
    <3>1. Holds(r, k) BY <1>6, <2>1
    <3>2. ASSUME routed'.to = r, Success(routed'.message) PROVE routed'.message.key = k
      <4>1. routed'.message = m /\ handler = r BY <1>5, <3>2, NoMessageType
      <4>2. 1 \in 1 .. Len(toController) BY <1>0, <1>2
      <4> QED BY <1>0, <3>1, <3>2, <4>1, <4>2 DEF HandlerLatest, m
    <3> QED BY <1>0, <1>1, <3>1, <3>2 DEF AcksMatch
  <2> QED BY <2>1 DEF AcksMatch, Success
<1>14. AcksTrue'
  <2>1. \A i \in 0 .. Len(toController') : Success(Coming(i)') => Coming(i)'.key \in installed'
    BY <1>0, <1>1, <1>7, NoMessageType DEF AcksTrue
  <2> QED BY <1>0, <1>1, <2>1 DEF AcksTrue, Success
<1>15. LastServed' /\ RenewedIsInstalled' BY <1>0, <1>1 DEF LastServed, RenewedIsInstalled
<1> QED BY <1>8, <1>9, <1>10, <1>11, <1>12, <1>13, <1>14, <1>15 DEF SInv

\* The handler puts it into its renewal's channel, if that is free and read.
LEMMA DeliveryStep ==
    ASSUME SInv, HandleRenewalResponse PROVE SInv'
<1>0. /\ SessionTyped /\ Sent /\ KeysKnown /\ FreshCSRs /\ HandlerLatest
      /\ AcksMatch /\ AcksTrue /\ LastServed /\ RenewedIsInstalled
      /\ Len(toController) \in Nat
  BY Queues DEF SInv, SessionTyped
<1> DEFINE r == routed.to
           m == routed.message
<1>1. /\ routed # NoRoute /\ routed' = NoRoute
      /\ r \in Renewers /\ m \in AnyMessages /\ m # NoMessage /\ m.kind \in {"csr", "ack"}
      /\ UNCHANGED <<handler, rpc, pendingCSR, result, toDevice, toController,
                     pendingKey, keysMade, activeKey, deviceLoop, served, disk, up,
                     installed, unstored>>
  BY <1>0 DEF HandleRenewalResponse, deviceSide, Sent, SessionTyped
<1>2. /\ mimicked \subseteq mimicked' /\ mimicked' \subseteq Renewers
      /\ m.by = NoRenewer => r \in mimicked'
  BY <1>0, <1>1 DEF HandleRenewalResponse, SessionTyped
<1>3. /\ responseWait' \in [Renewers -> AnyMessages]
      /\ \A s \in Renewers \ {r} : responseWait'[s] = responseWait[s]
      /\ \/ responseWait'[r] = responseWait[r]
         \/ responseWait'[r] = m /\ responseWait[r] = NoMessage /\ rpc[r] # "idle"
  <2>1. \/ responseWait' = responseWait
        \/ /\ responseWait' = [responseWait EXCEPT ![r] = m]
           /\ responseWait[r] = NoMessage /\ Running(r)
    BY DEF HandleRenewalResponse
  <2>2. responseWait \in [Renewers -> AnyMessages] BY <1>0 DEF SessionTyped
  <2> HIDE DEF r, m
  <2>3. CASE responseWait' = responseWait BY <2>2, <2>3
  <2>4. CASE responseWait' = [responseWait EXCEPT ![r] = m] /\ responseWait[r] = NoMessage /\ Running(r)
    BY <1>1, <2>2, <2>4, FieldChanged DEF Running
  <2> QED BY <2>1, <2>3, <2>4
<1>4. routed'.message = NoMessage /\ routed'.to = NoRenewer /\ NoRenewer \notin Renewers
      /\ Coming(0) = m /\ Coming(0)' = NoMessage
      /\ \A i \in 1 .. Len(toController) : Coming(i) = toController[i] /\ Coming(i)' = toController[i]
  BY <1>1, NoMessageType, SessionAssumption DEF Coming
<1>5. \A s \in Renewers : \A k \in Nat : Holds(s, k)' =>
         \/ Holds(s, k)
         \/ s = r /\ m.kind = "csr" /\ k = m.key /\ \A l \in Nat : ~ Holds(s, l)
  <2> SUFFICES ASSUME NEW s \in Renewers, NEW k \in Nat, Holds(s, k)', ~ Holds(s, k)
               PROVE  s = r /\ m.kind = "csr" /\ k = m.key /\ \A l \in Nat : ~ Holds(s, l)
    OBVIOUS
  <2>1. s = r BY <1>1, <1>3 DEF Holds
  <2>2. responseWait'[r] = m /\ responseWait[r] = NoMessage BY <2>1, <1>1, <1>3 DEF Holds
  <2> QED BY <1>1, <2>1, <2>2, NoMessageType DEF Holds
<1>6. \A k \in Nat : Taken(k)' => Taken(k) \/ (m.kind = "csr" /\ k = m.key)
  <2>1. \A k \in Nat : Installing(k)' <=> Installing(k) BY <1>1 DEF Installing
  <2> QED BY <1>5, <2>1 DEF Taken
<1>7. m.kind = "csr" =>
         /\ m.key <= keysMade /\ m.key \in Nat
         /\ \A k \in Nat : Taken(k) => k < m.key
         /\ \A j \in 1 .. Len(toController) :
               /\ ~ Success(toController[j])
               /\ toController[j].kind = "csr" => m.key < toController[j].key
  <2>1. 0 \in 0 .. Len(toController) /\ 0 + 1 = 1 BY <1>0
  <2>2. m.key \in Nat BY <1>1 DEF AnyMessages
  <2> QED BY <1>0, <1>4, <2>1, <2>2 DEF FreshCSRs
<1> HIDE DEF r, m
<1>8. SessionTyped' BY <1>0, <1>1, <1>2, <1>3, NoMessageType DEF SessionTyped, NoRoute
<1>9. Sent'
  <2>1. ASSUME NEW s \in Renewers
        PROVE  /\ rpc'[s] = "idle" => responseWait'[s] = NoMessage
               /\ responseWait'[s] # NoMessage /\ responseWait'[s].by = NoRenewer => s \in mimicked'
    <3>1. CASE s = r BY <3>1, <1>0, <1>1, <1>2, <1>3 DEF Sent
    <3>2. CASE s # r BY <3>2, <1>0, <1>1, <1>2, <1>3 DEF Sent
    <3> QED BY <3>1, <3>2
  <2> QED BY <1>0, <1>1, <1>4, <2>1 DEF Sent
<1>10. KeysKnown' BY <1>0, <1>1, <1>6, <1>7 DEF KeysKnown
<1>11. FreshCSRs'
  <2>1. ASSUME NEW i \in 0 .. Len(toController), Coming(i)'.kind = "csr"
        PROVE  /\ Coming(i)'.key <= keysMade
               /\ \A k \in Nat : Taken(k)' => k < Coming(i)'.key
               /\ \A j \in i + 1 .. Len(toController) :
                     /\ ~ Success(toController[j])
                     /\ toController[j].kind = "csr" => Coming(i)'.key < toController[j].key
    <3>1. i \in 1 .. Len(toController) BY <1>0, <1>4, <2>1, NoMessageType
    <3>2. Coming(i)' = toController[i] /\ Coming(i) = toController[i] BY <1>4, <3>1
    <3>3. /\ Coming(i).key <= keysMade
          /\ \A k \in Nat : Taken(k) => k < Coming(i).key
          /\ \A j \in i + 1 .. Len(toController) :
                /\ ~ Success(toController[j])
                /\ toController[j].kind = "csr" => Coming(i).key < toController[j].key
      BY <1>0, <2>1, <3>2 DEF FreshCSRs
    <3>4. m.kind = "csr" => m.key < toController[i].key BY <1>7, <2>1, <3>1, <3>2
    <3> QED BY <1>6, <3>2, <3>3, <3>4
  <2> QED BY <1>1, <2>1 DEF FreshCSRs, Success
<1>12. HandlerLatest'
  <2>1. ASSUME NEW k \in Nat, handler \in Renewers, Holds(handler, k)'
        PROVE  /\ \A l \in Nat : Taken(l)' => l <= k
               /\ \A i \in 1 .. Len(toController) :
                     Success(toController[i]) => toController[i].key = k
    <3>1. CASE Holds(handler, k)
      <4>1. /\ \A l \in Nat : Taken(l) => l <= k
            /\ \A i \in 1 .. Len(toController) : Success(toController[i]) => toController[i].key = k
            /\ r = handler
        BY <1>0, <1>1, <2>1, <3>1 DEF HandlerLatest, r
      <4>2. ASSUME NEW l \in Nat, Taken(l)' PROVE Taken(l)
        <5>1. Installing(l)' \/ \E s \in Renewers : Holds(s, l)' BY <4>2 DEF Taken
        <5>2. CASE Installing(l)' BY <1>1, <5>2 DEF Installing, Taken
        <5>3. ASSUME NEW s \in Renewers, Holds(s, l)' PROVE Holds(s, l)
          BY <1>5, <3>1, <4>1, <5>3
        <5> QED BY <5>1, <5>2, <5>3 DEF Taken
      <4> QED BY <4>1, <4>2
    <3>2. CASE ~ Holds(handler, k)
      <4>1. m.kind = "csr" /\ k = m.key BY <1>1, <1>5, <2>1, <3>2 DEF Holds
      <4>2. \A l \in Nat : Taken(l)' => l <= k BY <1>6, <1>7, <4>1
      <4> QED BY <1>7, <4>1, <4>2
    <3> QED BY <3>1, <3>2
  <2>2. \A k \in Nat : Holds(handler, k)' => (handler' \in Renewers => handler \in Renewers)
    BY <1>1
  <2> QED BY <1>1, <2>1 DEF HandlerLatest, Success
<1>13. AcksMatch'
  <2>1. ASSUME NEW s \in Renewers, NEW k \in Nat, Holds(s, k)', rpc[s] \in {"install", "ack"},
               Success(responseWait'[s])
        PROVE  responseWait'[s].key = k
    <3>1. Holds(s, k) BY <1>1, <2>1 DEF Holds
    <3>2. CASE responseWait'[s] = responseWait[s] BY <1>0, <2>1, <3>1, <3>2 DEF AcksMatch
    <3>3. CASE responseWait'[s] # responseWait[s]
      <4>1. s = r /\ responseWait'[s] = m BY <1>3, <3>3
      <4> QED BY <1>0, <2>1, <3>1, <4>1 DEF AcksMatch, r, m
    <3> QED BY <3>2, <3>3
  <2> QED BY <1>1, <1>4, <2>1 DEF AcksMatch, Success
<1>14. AcksTrue'
  <2>1. \A i \in 0 .. Len(toController) : Success(Coming(i)') => Coming(i)'.key \in installed
    <3>1. ASSUME NEW i \in 0 .. Len(toController), Success(Coming(i)') PROVE Coming(i)'.key \in installed
      <4>1. i \in 1 .. Len(toController) BY <1>0, <1>4, <3>1, NoMessageType
      <4> QED BY <1>0, <1>4, <3>1, <4>1 DEF AcksTrue
    <3> QED BY <3>1
  <2>2. Success(m) => m.key \in installed
    <3>1. 0 \in 0 .. Len(toController) BY <1>0
    <3> QED BY <1>0, <1>4, <3>1 DEF AcksTrue
  <2>3. \A s \in Renewers : Success(responseWait'[s]) => responseWait'[s].key \in installed
    BY <1>0, <1>3, <2>2 DEF AcksTrue
  <2> QED BY <1>1, <2>1, <2>3 DEF AcksTrue, Success
<1>15. LastServed' BY <1>0, <1>1 DEF LastServed
<1>16. RenewedIsInstalled' BY <1>0, <1>1, <1>2 DEF RenewedIsInstalled
<1> QED BY <1>8, <1>9, <1>10, <1>11, <1>12, <1>13, <1>14, <1>15, <1>16 DEF SInv

-----------------------------------------------------------------------------
(* What the device does. *)

\* The device takes a message and answers it: with a CSR for a new key, or with an
\* acknowledgement that is one of success only if the newest key was asked for.
Replies(a) ==
    /\ toDevice # <<>> /\ toDevice' = Tail(toDevice) /\ toController' = Append(toController, a)
    /\ a \in AnyMessages /\ a.kind \in {"csr", "ack"} /\ a.by # NoRenewer
    /\ a.kind = "csr" => a.key = keysMade + 1 /\ keysMade' = keysMade + 1
    /\ a.kind = "ack" => keysMade' = keysMade
    /\ Success(a) => a.key = keysMade /\ Taken(a.key) /\ a.key \in installed'
    /\ UNCHANGED <<handler, rpc, responseWait, pendingCSR, result, routed, mimicked>>
    /\ installed \subseteq installed'

\* Such steps keep what is known of keys and acknowledgements.
LEMMA ReplyStep ==
    ASSUME SInv, NEW a, Replies(a)
    PROVE  /\ toDevice' \in Seq(AnyMessages) /\ toController' \in Seq(AnyMessages)
           /\ \A k \in Nat : Taken(k)' => Taken(k)
           /\ Sent' /\ FreshCSRs' /\ HandlerLatest' /\ AcksMatch' /\ AcksTrue' /\ RenewedIsInstalled'
<1>0. /\ SessionTyped /\ Sent /\ KeysKnown /\ FreshCSRs /\ HandlerLatest
      /\ AcksMatch /\ AcksTrue /\ LastServed /\ RenewedIsInstalled
      /\ Len(toController) \in Nat /\ toController \in Seq(AnyMessages)
      /\ Len(toDevice) \in Nat /\ toDevice \in Seq(AnyMessages)
      /\ \A i \in 1 .. Len(toController) : toController[i] \in AnyMessages
  BY Queues DEF SInv, SessionTyped
<1>1. /\ UNCHANGED <<handler, rpc, responseWait, pendingCSR, result, routed, mimicked>>
      /\ installed \subseteq installed'
      /\ a \in AnyMessages /\ a.kind \in {"csr", "ack"} /\ a.by # NoRenewer
      /\ Success(a) => a.key = keysMade /\ Taken(a.key) /\ a.key \in installed'
      /\ keysMade \in Nat /\ keysMade' \in {keysMade, keysMade + 1}
      /\ a.kind = "csr" => a.key = keysMade + 1 /\ keysMade' = keysMade + 1
  BY <1>0 DEF Replies, SessionTyped
<1>2. /\ toDevice' \in Seq(AnyMessages) /\ Len(toDevice') = Len(toDevice) - 1
      /\ \A i \in 1 .. Len(toDevice') :
            toDevice'[i] = toDevice[i + 1] /\ i + 1 \in 1 .. Len(toDevice)
  BY <1>0, Queues DEF Replies
<1>3. /\ toController' \in Seq(AnyMessages) /\ Len(toController') = Len(toController) + 1
      /\ toController'[Len(toController) + 1] = a
      /\ \A i \in 1 .. Len(toController) : toController'[i] = toController[i]
  <2>1. toController' = Append(toController, a) BY DEF Replies
  <2> QED BY <1>0, <1>1, <2>1, Queues
<1>4. \A i \in 1 .. Len(toController') :
         \/ i \in 1 .. Len(toController) /\ toController'[i] = toController[i]
         \/ i = Len(toController) + 1 /\ toController'[i] = a
  <2> SUFFICES ASSUME NEW i \in 1 .. Len(toController) + 1
               PROVE  \/ i \in 1 .. Len(toController) /\ toController'[i] = toController[i]
                      \/ i = Len(toController) + 1 /\ toController'[i] = a
    BY <1>3
  <2>1. CASE i = Len(toController) + 1 BY <1>3, <2>1
  <2>2. CASE i # Len(toController) + 1
    <3>1. i \in 1 .. Len(toController) BY <1>0, <2>2
    <3> QED BY <1>3, <3>1
  <2> QED BY <2>1, <2>2
<1>5. \A i \in 0 .. Len(toController') :
         \/ i \in 0 .. Len(toController) /\ Coming(i)' = Coming(i)
         \/ i = Len(toController) + 1 /\ Coming(i)' = a
  <2> SUFFICES ASSUME NEW i \in 0 .. Len(toController')
               PROVE  \/ i \in 0 .. Len(toController) /\ Coming(i)' = Coming(i)
                      \/ i = Len(toController) + 1 /\ Coming(i)' = a
    OBVIOUS
  <2>1. CASE i = 0 BY <1>0, <1>1, <2>1 DEF Coming
  <2>2. CASE i # 0
    <3>1. i \in 1 .. Len(toController') BY <1>0, <1>3, <2>2
    <3>2. Coming(i)' = toController'[i] /\ Coming(i) = toController[i] BY <2>2 DEF Coming
    <3> QED BY <1>0, <1>4, <3>1, <3>2
  <2> QED BY <2>1, <2>2
<1>6. \A k \in Nat : Taken(k)' => Taken(k)
  <2>1. \A r \in Renewers, k \in Nat : Holds(r, k)' <=> Holds(r, k) BY <1>1 DEF Holds
  <2>2. \A k \in Nat : Installing(k)' => Installing(k) BY <1>2 DEF Installing
  <2> QED BY <2>1, <2>2 DEF Taken
<1>7. Sent'
  <2>1. \A i \in 1 .. Len(toDevice') :
           toDevice'[i].kind \in {"request", "install"} /\ toDevice'[i].by # NoRenewer
    BY <1>0, <1>2 DEF Sent
  <2>2. \A i \in 1 .. Len(toController') :
           toController'[i].kind \in {"csr", "ack"} /\ toController'[i].by # NoRenewer
    BY <1>0, <1>1, <1>4 DEF Sent
  <2> QED BY <1>0, <1>1, <2>1, <2>2 DEF Sent
<1>8. FreshCSRs'
  <2>1. ASSUME NEW i \in 0 .. Len(toController'), Coming(i)'.kind = "csr"
        PROVE  /\ Coming(i)'.key <= keysMade'
               /\ \A k \in Nat : Taken(k)' => k < Coming(i)'.key
               /\ \A j \in i + 1 .. Len(toController') :
                     /\ ~ Success(toController'[j])
                     /\ toController'[j].kind = "csr" => Coming(i)'.key < toController'[j].key
    <3>1. CASE i \in 0 .. Len(toController) /\ Coming(i)' = Coming(i)
      <4>1. /\ Coming(i).key <= keysMade
            /\ \A k \in Nat : Taken(k) => k < Coming(i).key
            /\ \A j \in i + 1 .. Len(toController) :
                  /\ ~ Success(toController[j])
                  /\ toController[j].kind = "csr" => Coming(i).key < toController[j].key
        BY <1>0, <2>1, <3>1 DEF FreshCSRs
      <4>2. Coming(i).key \in Nat
        <5>1. CASE i = 0 BY <5>1, <1>0 DEF Coming, SessionTyped, AnyMessages
        <5>2. CASE i # 0
          <6>1. i \in 1 .. Len(toController) BY <1>0, <3>1, <5>2
          <6> QED BY <1>0, <5>2, <6>1 DEF Coming, AnyMessages
        <5> QED BY <5>1, <5>2
      <4>3. Coming(i).key <= keysMade' BY <1>1, <4>1, <4>2
      <4>4. ~ Success(a) BY <1>1, <4>1, <4>2
      <4>5. a.kind = "csr" => Coming(i).key < a.key BY <1>1, <4>1, <4>2
      <4>6. ASSUME NEW j \in i + 1 .. Len(toController')
            PROVE  /\ ~ Success(toController'[j])
                   /\ toController'[j].kind = "csr" => Coming(i).key < toController'[j].key
        <5>1. j \in 1 .. Len(toController') BY <3>1, <1>3, <1>0
        <5>2. CASE j \in 1 .. Len(toController) /\ toController'[j] = toController[j]
          BY <1>0, <3>1, <4>1, <5>2
        <5>3. CASE toController'[j] = a BY <4>4, <4>5, <5>3
        <5> QED BY <1>4, <5>1, <5>2, <5>3
      <4> QED BY <1>6, <3>1, <4>1, <4>3, <4>6
    <3>2. CASE i = Len(toController) + 1 /\ Coming(i)' = a
      <4>1. a.key = keysMade + 1 /\ keysMade' = keysMade + 1 BY <1>1, <2>1, <3>2
      <4>2. \A k \in Nat : Taken(k)' => k < a.key
        BY <1>0, <1>1, <1>6, <4>1 DEF KeysKnown
      <4>3. \A j \in i + 1 .. Len(toController') : FALSE BY <1>0, <1>3, <3>2
      <4> QED BY <1>1, <3>2, <4>1, <4>2, <4>3
    <3> QED BY <1>5, <3>1, <3>2
  <2> QED BY <2>1 DEF FreshCSRs, Success
<1>9. HandlerLatest'
  <2>1. ASSUME NEW k \in Nat, handler' \in Renewers, Holds(handler, k)'
        PROVE  /\ \A l \in Nat : Taken(l)' => l <= k
               /\ \A i \in 1 .. Len(toController') :
                     Success(toController'[i]) => toController'[i].key = k
               /\ routed' # NoRoute => routed'.to = handler'
    <3>1. handler \in Renewers /\ Holds(handler, k) BY <1>1, <2>1 DEF Holds
    <3>2. /\ \A l \in Nat : Taken(l) => l <= k
          /\ \A i \in 1 .. Len(toController) : Success(toController[i]) => toController[i].key = k
          /\ routed # NoRoute => routed.to = handler
      BY <1>0, <3>1 DEF HandlerLatest
    <3>3. k <= keysMade BY <1>0, <3>1 DEF KeysKnown, Taken
    <3>4. Success(a) => a.key = k BY <1>1, <3>2, <3>3
    <3> QED BY <1>1, <1>4, <1>6, <3>2, <3>4
  <2> QED BY <2>1 DEF HandlerLatest, Success
<1>10. AcksMatch'
  <2>1. \A r \in Renewers, k \in Nat : Holds(r, k)' => Holds(r, k) BY <1>1 DEF Holds
  <2> QED BY <1>0, <1>1, <2>1 DEF AcksMatch, Success
<1>11. AcksTrue'
  <2>1. \A i \in 0 .. Len(toController') : Success(Coming(i)') => Coming(i)'.key \in installed'
    BY <1>0, <1>1, <1>5 DEF AcksTrue
  <2>2. \A r \in Renewers : Success(responseWait'[r]) => responseWait'[r].key \in installed'
    BY <1>0, <1>1 DEF AcksTrue
  <2> QED BY <2>1, <2>2 DEF AcksTrue, Success
<1>12. RenewedIsInstalled' BY <1>0, <1>1 DEF RenewedIsInstalled
<1> QED BY <1>2, <1>3, <1>6, <1>7, <1>8, <1>9, <1>10, <1>11, <1>12

\* A CSR for a new key.
LEMMA RequestStep ==
    ASSUME SInv, HandleRenewalRequest PROVE SInv'
<1>0. /\ SessionTyped /\ Sent /\ KeysKnown /\ LastServed
      /\ toDevice \in Seq(AnyMessages) /\ keysMade \in Nat
  BY DEF SInv, SessionTyped
<1> DEFINE a == Message("csr", keysMade', FALSE, Head(toDevice).by)
<1>1. /\ toDevice # <<>> /\ toDevice' = Tail(toDevice)
      /\ keysMade' = keysMade + 1 /\ pendingKey' = keysMade'
      /\ toController' = Append(toController, a)
      /\ UNCHANGED <<handler, rpc, responseWait, pendingCSR, result, routed, activeKey, deviceLoop,
                     served, disk, up, installed, mimicked, unstored>>
  BY DEF HandleRenewalRequest, DeviceReads, controllerSide, ghosts
<1>2. Head(toDevice).by \in Renewers \cup {NoRenewer} /\ Head(toDevice).by # NoRenewer
  <2>1. Len(toDevice) \in Nat /\ Len(toDevice) > 0 /\ Head(toDevice) = toDevice[1]
        /\ Head(toDevice) \in AnyMessages
    BY <1>0, <1>1, Queues
  <2> QED BY <1>0, <2>1 DEF Sent, AnyMessages
<1>3. a \in AnyMessages /\ a.kind = "csr" /\ a.by # NoRenewer /\ a.key = keysMade + 1
  BY <1>0, <1>1, <1>2 DEF Message, AnyMessages
<1> HIDE DEF a
<1>4. Replies(a) BY <1>1, <1>3 DEF Replies, Success
<1>5. /\ toDevice' \in Seq(AnyMessages) /\ toController' \in Seq(AnyMessages)
      /\ \A k \in Nat : Taken(k)' => Taken(k)
      /\ Sent' /\ FreshCSRs' /\ HandlerLatest' /\ AcksMatch' /\ AcksTrue' /\ RenewedIsInstalled'
  BY <1>4, ReplyStep
<1>6. SessionTyped' BY <1>0, <1>1, <1>5 DEF SessionTyped
<1>7. KeysKnown' BY <1>0, <1>1, <1>5 DEF KeysKnown, SessionTyped
<1>8. LastServed' BY <1>0, <1>1 DEF LastServed
<1> QED BY <1>5, <1>6, <1>7, <1>8 DEF SInv

\* A certificate is installed if it is for the pending key.
LEMMA InstallStep ==
    ASSUME SInv, HandleCertInstall PROVE SInv'
<1>0. /\ SessionTyped /\ Sent /\ KeysKnown /\ LastServed
      /\ toDevice \in Seq(AnyMessages) /\ keysMade \in Nat
  BY DEF SInv, SessionTyped
<1> DEFINE install == Head(toDevice)
           success == pendingKey # NoKey /\ install.key = pendingKey
           a == Message("ack", install.key, success, install.by)
<1>1. /\ toDevice # <<>> /\ install.kind = "install" /\ toDevice' = Tail(toDevice)
      /\ toController' = Append(toController, a)
      /\ UNCHANGED <<handler, rpc, responseWait, pendingCSR, result, routed, keysMade,
                     served, disk, up, mimicked, unstored>>
  BY DEF HandleCertInstall, DeviceReads, controllerSide
<1>2. \/ /\ success /\ activeKey' = install.key /\ pendingKey' = NoKey
         /\ installed' = installed \cup {install.key} /\ deviceLoop' = "store"
      \/ ~ success /\ UNCHANGED <<activeKey, pendingKey, installed, deviceLoop>>
  BY DEF HandleCertInstall
<1>3. /\ install \in AnyMessages /\ install.by # NoRenewer
      /\ install.key \in Nat /\ Taken(install.key)
  <2>1. Len(toDevice) \in Nat /\ Len(toDevice) > 0 /\ install = toDevice[1]
        /\ install \in AnyMessages
    BY <1>0, <1>1, Queues
  <2>2. install.by # NoRenewer BY <1>0, <2>1 DEF Sent
  <2>3. 1 \in 1 .. Len(toDevice) BY <2>1
  <2>4. Installing(install.key) BY <1>1, <2>1, <2>3 DEF Installing
  <2> QED BY <2>1, <2>2, <2>4 DEF AnyMessages, Taken
<1>4. /\ a \in AnyMessages /\ a.kind = "ack" /\ a.by # NoRenewer /\ a.key = install.key
      /\ a.ok <=> success
  <2>1. install.by \in Renewers \cup {NoRenewer} BY <1>3 DEF AnyMessages
  <2> HIDE DEF install, success
  <2>2. CASE success
    <3>1. success = TRUE BY <2>2
    <3>2. a = [kind |-> "ack", key |-> install.key, ok |-> TRUE, by |-> install.by]
      BY <3>1 DEF Message
    <3> HIDE DEF a
    <3> QED BY <1>3, <2>1, <2>2, <3>2 DEF AnyMessages
  <2>3. CASE ~ success
    <3>1. success = FALSE BY <2>3 DEF success
    <3>2. a = [kind |-> "ack", key |-> install.key, ok |-> FALSE, by |-> install.by]
      BY <3>1 DEF Message
    <3> HIDE DEF a
    <3> QED BY <1>3, <2>1, <2>3, <3>2 DEF AnyMessages
  <2> QED BY <2>2, <2>3
<1>5. success => install.key = keysMade BY <1>0 DEF KeysKnown
<1> HIDE DEF a, install, success
<1>6. Replies(a) BY <1>1, <1>2, <1>3, <1>4, <1>5 DEF Replies, Success
<1>7. /\ toDevice' \in Seq(AnyMessages) /\ toController' \in Seq(AnyMessages)
      /\ \A k \in Nat : Taken(k)' => Taken(k)
      /\ Sent' /\ FreshCSRs' /\ HandlerLatest' /\ AcksMatch' /\ AcksTrue' /\ RenewedIsInstalled'
  BY <1>6, ReplyStep
<1>a. \/ /\ activeKey' = keysMade /\ pendingKey' = NoKey
         /\ installed' = installed \cup {keysMade} /\ deviceLoop' = "store"
      \/ UNCHANGED <<activeKey, pendingKey, installed, deviceLoop>>
  BY <1>2, <1>5
<1>b. /\ pendingKey \in {NoKey, keysMade} /\ activeKey <= keysMade /\ disk <= keysMade
      /\ \A k \in installed : k <= keysMade
      /\ \A k \in Nat : Taken(k) => k <= keysMade
  BY <1>0 DEF KeysKnown
<1>8. SessionTyped'
  <2>1. /\ activeKey' \in Nat /\ pendingKey' \in Nat /\ installed' \subseteq Nat
        /\ deviceLoop' \in {"read", "store"}
    <3>1. CASE UNCHANGED <<activeKey, pendingKey, installed, deviceLoop>>
      BY <1>0, <3>1 DEF SessionTyped
    <3>2. CASE /\ activeKey' = keysMade /\ pendingKey' = NoKey
               /\ installed' = installed \cup {keysMade} /\ deviceLoop' = "store"
      BY <1>0, <3>2 DEF SessionTyped, NoKey
    <3> QED BY <1>a, <3>1, <3>2
  <2>2. /\ UNCHANGED <<handler, rpc, responseWait, pendingCSR, result, routed, keysMade,
                       served, disk, up, mimicked, unstored>>
    BY <1>1
  <2> QED BY <1>0, <1>7, <2>1, <2>2 DEF SessionTyped
<1>9. KeysKnown'
  <2>1. pendingKey' \in {NoKey, keysMade'} /\ activeKey' <= keysMade' /\ disk' <= keysMade'
    BY <1>0, <1>1, <1>a, <1>b
  <2>2. \A k \in installed' : k <= keysMade' BY <1>0, <1>1, <1>a, <1>b
  <2>3. \A k \in Nat : Taken(k)' => k <= keysMade' BY <1>1, <1>7, <1>b
  <2> QED BY <2>1, <2>2, <2>3 DEF KeysKnown
<1>10. LastServed'
  <2>1. unstored' = unstored /\ disk' = disk /\ served' = served BY <1>1
  <2>2. CASE UNCHANGED <<activeKey, pendingKey, installed, deviceLoop>>
    BY <1>0, <2>1, <2>2 DEF LastServed
  <2>3. CASE /\ activeKey' = keysMade /\ pendingKey' = NoKey
             /\ installed' = installed \cup {keysMade} /\ deviceLoop' = "store"
    BY <1>0, <1>b, <2>3 DEF LastServed
  <2> QED BY <1>a, <2>2, <2>3
<1> QED BY <1>7, <1>8, <1>9, <1>10 DEF SInv

-----------------------------------------------------------------------------
(* The session. *)

\* At the start there is one key, installed, stored and served; nothing is under way.
LEMMA SessionInitInv == SessionInit => SInv
<1> SUFFICES ASSUME SessionInit PROVE SInv
  OBVIOUS
<1>1. /\ handler = NoRenewer /\ rpc = [r \in Renewers |-> "idle"]
      /\ responseWait = [r \in Renewers |-> NoMessage]
      /\ pendingCSR = [r \in Renewers |-> NoKey] /\ result = [r \in Renewers |-> NoKey]
      /\ toDevice = <<>> /\ toController = <<>> /\ routed = NoRoute
      /\ pendingKey = 0 /\ keysMade = 1 /\ activeKey = 1
      /\ deviceLoop = "read" /\ served = 1 /\ disk = 1
      /\ up = TRUE /\ installed = {1} /\ mimicked = {} /\ unstored = FALSE
  BY DEF SessionInit, NoKey, FirstKey
<1>2. <<>> \in Seq(AnyMessages) /\ Len(<<>>) = 0 BY EmptySeq
<1>3. SessionTyped
  <2>1. responseWait \in [Renewers -> AnyMessages] BY <1>1, NoMessageType
  <2>2. pendingCSR \in [Renewers -> Nat] /\ result \in [Renewers -> Nat] BY <1>1 DEF NoKey
  <2>3. routed \in [message : AnyMessages, to : Renewers \cup {NoRenewer}]
    BY <1>1, NoMessageType DEF NoRoute
  <2>4. rpc \in [Renewers -> {"idle", "send", "csr", "install", "ack", "leave", "done"}]
    BY <1>1
  <2>5. toDevice \in Seq(AnyMessages) /\ toController \in Seq(AnyMessages) BY <1>1, <1>2
  <2>6. /\ pendingKey \in Nat /\ keysMade \in Nat /\ activeKey \in Nat
        /\ served \in Nat /\ disk \in Nat /\ installed \subseteq Nat
    BY <1>1
  <2>7. /\ handler \in Renewers \cup {NoRenewer} /\ mimicked \subseteq Renewers
        /\ deviceLoop \in {"read", "store"} /\ up \in BOOLEAN /\ unstored \in BOOLEAN
    BY <1>1
  <2> QED BY <2>1, <2>2, <2>3, <2>4, <2>5, <2>6, <2>7 DEF SessionTyped
<1>4. \A k : ~ Taken(k)
  <2>1. \A r \in Renewers : \A k : ~ Holds(r, k) BY <1>1, NoMessageType DEF Holds
  <2> QED BY <1>1, <1>2, <2>1 DEF Taken, Installing
<1>5. Coming(0) = NoMessage BY <1>1, NoMessageType DEF Coming
<1>6. \A i \in 0 .. Len(toController) : i = 0 BY <1>1, <1>2
<1>7. Sent BY <1>1, <1>2, NoMessageType DEF Sent
<1>8. KeysKnown BY <1>1, <1>4 DEF KeysKnown, NoKey
<1>9. FreshCSRs BY <1>5, <1>6, NoMessageType DEF FreshCSRs
<1>10. HandlerLatest /\ AcksMatch BY <1>4 DEF HandlerLatest, AcksMatch, Taken
<1>11. AcksTrue BY <1>1, <1>5, <1>6, NoMessageType DEF AcksTrue
<1>12. LastServed /\ RenewedIsInstalled BY <1>1 DEF LastServed, RenewedIsInstalled
<1> QED BY <1>3, <1>7, <1>8, <1>9, <1>10, <1>11, <1>12 DEF SInv

\* A response that the reader takes for something else.
LEMMA ResponseStep ==
    ASSUME SInv, NEW k \in Calls, NEW payload \in Payloads, OnResponse(k, payload)
    PROVE  SInv'
<1>1. routed = NoRoute /\ UNCHANGED <<controllerSide, toDevice, toController, deviceSide, up, ghosts>>
  BY DEF OnResponse, ReaderIdle
<1>2. \/ UNCHANGED routed \/ Route(Message("ack", NoKey, TRUE, NoRenewer))
  BY DEF OnResponse
<1>3. CASE UNCHANGED routed BY <1>1, <1>3, UntouchedStep DEF ghosts
<1>4. CASE Route(Message("ack", NoKey, TRUE, NoRenewer))
  <2>1. \/ routed' = NoRoute
        \/ /\ routed' = [message |-> Message("ack", NoKey, TRUE, NoRenewer), to |-> handler]
           /\ handler # NoRenewer
    BY <1>4 DEF Route
  <2> QED BY <1>1, <2>1, DisguisedStep
<1> QED BY <1>2, <1>3, <1>4

\* Every step of the session keeps the invariant.
LEMMA SessionNextInv == SInv /\ [SessionNext]_sessionVars => SInv'
<1> SUFFICES ASSUME SInv, [SessionNext]_sessionVars PROVE SInv'
  OBVIOUS
<1>1. CASE UNCHANGED sessionVars \/ ClientStep \/ (SendOnChannel /\ UNCHANGED renewal)
  BY <1>1, UntouchedStep DEF sessionVars, renewal, ghosts, ClientStep
<1>2. CASE CloseSession BY <1>2, UntouchedStep DEF CloseSession
<1>3. CASE \E k \in Calls, payload \in Payloads : OnResponse(k, payload) BY <1>3, ResponseStep
<1>4. CASE OnRenewalMessage \/ HandleRenewalResponse BY <1>4, RouteStep, DeliveryStep
<1>5. CASE \E r \in Renewers : StartRenewal(r) \/ Renewer(r) \/ ContextEnds(r)
  BY <1>5, RenewerMoves, RenewerSends DEF Renewer
<1>6. CASE Device BY <1>6, RequestStep, InstallStep, StoreStep DEF Device
<1>7. CASE LoseConnection \/ RestartDevice BY <1>7, LossStep
<1> QED BY <1>1, <1>2, <1>3, <1>4, <1>5, <1>6, <1>7 DEF SessionNext, SessionReader

\* The invariant of the renewals.
LEMMA SessionInvariant == SessionSpec => []SInv
BY SessionInitInv, SessionNextInv, PTL DEF SessionSpec

\* A certificate that RenewDevice returned was installed by the device, although
\* neither CSRs nor acknowledgements are compared with the requests they answer
\* (ControllerRenewalHandler.HandleResponse, HandleCertInstall).
THEOREM RenewedAlwaysInstalled == SessionSpec => []RenewedIsInstalled
<1>1. SInv => RenewedIsInstalled BY DEF SInv
<1> QED BY <1>1, SessionInvariant, PTL

\* A device that is not about to store, and could store what it installed, serves
\* the newest certificate that was returned, or a newer one, and has it on disk
\* (handleCertRenewalSuccess).
THEOREM RenewedAlwaysServed == SessionSpec => []RenewedIsServed
<1>1. SInv => RenewedIsServed
  <2> SUFFICES ASSUME SInv, NEW r \in Renewers \ mimicked,
                      result[r] # NoKey, deviceLoop = "read", ~ unstored
               PROVE  served >= result[r] /\ disk = served
    BY DEF RenewedIsServed
  <2>1. result[r] \in installed BY DEF SInv, RenewedIsInstalled
  <2>2. result[r] <= activeKey /\ disk = activeKey /\ served = activeKey
    BY <2>1 DEF SInv, LastServed
  <2> QED BY <2>2 DEF SInv, SessionTyped
<1> QED BY <1>1, SessionInvariant, PTL

-----------------------------------------------------------------------------
(* The client in the session. *)

\* The reader drops a response.
Drops == \E k \in responses :
    /\ responses' = responses \ {k}
    /\ UNCHANGED <<client, made, id, pc, call, requests, reader, panicked, answer>>

\* The session does nothing to its client but drop responses it takes for messages
\* of another kind.
LEMMA SessionClient == [SessionNext]_sessionVars => [Next]_vars \/ Drops
<1> SUFFICES ASSUME [SessionNext]_sessionVars PROVE Next \/ UNCHANGED vars \/ Drops
  OBVIOUS
<1>1. CASE UNCHANGED sessionVars BY <1>1 DEF sessionVars
<1>2. CASE SessionNext /\ ClientStep BY <1>2 DEF ClientStep, Next, SessionNext
<1>3. CASE SessionNext /\ SendOnChannel BY <1>3 DEF Next, Reader, SessionNext
<1>4. CASE SessionNext /\ \E k \in Calls, payload \in Payloads : OnResponse(k, payload)
  <2>1. PICK k \in Calls, payload \in Payloads : OnResponse(k, payload) BY <1>4
  <2>2. CASE HandleResponse(k) BY <1>4, <2>2 DEF Next, Reader, SessionNext
  <2>3. CASE ~ HandleResponse(k) BY <2>1, <2>3 DEF OnResponse, Drops
  <2> QED BY <2>2, <2>3
<1>5. CASE SessionNext /\ CloseSession BY <1>5 DEF Next, CloseSession, SessionNext
<1>6. CASE OnRenewalMessage \/ HandleRenewalResponse
  BY <1>6 DEF OnRenewalMessage, HandleRenewalResponse
<1>7. CASE \E r \in Renewers : StartRenewal(r) \/ Renewer(r) \/ ContextEnds(r)
  BY <1>7 DEF StartRenewal, Renewer, ContextEnds, InitiateRenewal, TakeCSR, Install, TakeAck,
              LeaveRenewal
<1>8. CASE Device \/ LoseConnection \/ RestartDevice
  BY <1>8 DEF Device, HandleRenewalRequest, HandleCertInstall, StoreRenewed,
              LoseConnection, RestartDevice, ConnectionEnds
<1> QED BY <1>1, <1>2, <1>3, <1>4, <1>5, <1>6, <1>7, <1>8 DEF SessionNext, SessionReader

\* A dropped response is a lost one.
LEMMA DropStep ==
    ASSUME IInv, AnswersBuffered, Drops PROVE IInv' /\ AnswersBuffered' /\ Contract!Lose
<1>1. /\ responses' \subseteq responses
      /\ UNCHANGED <<nextMsgID, closed, pending, channel, buffer, shut, made, id, pc, call,
                     requests, reader, panicked, answer>>
  BY DEF Drops, client
<1>2. TypeOK' BY <1>1 DEF IInv, TypeOK
<1>3. CallsOwned' /\ IdsInSequence' BY <1>1 DEF IInv, CallsOwned, IdsInSequence, Made
<1>4. ResponsesOwned' BY <1>1 DEF IInv, ResponsesOwned, Made
<1>5. CallsReachable' /\ PendingUnderWay' BY <1>1 DEF IInv, CallsReachable, PendingUnderWay
<1>6. AnswersBuffered' BY <1>1 DEF AnswersBuffered
<1>7. OpenCalls' = OpenCalls /\ Outstanding' \subseteq Outstanding
  BY <1>1 DEF OpenCalls, Outstanding
<1>8. Contract!Lose BY <1>1, <1>7 DEF Contract!Lose
<1> QED BY <1>2, <1>3, <1>4, <1>5, <1>6, <1>8 DEF IInv

\* So what the client guarantees it guarantees in a session.
LEMMA SessionClientInvariant == SessionSpec => [](IInv /\ AnswersBuffered)
<1>1. SessionInit => IInv /\ AnswersBuffered
  BY InitIInv DEF SessionInit, Init, AnswersBuffered
<1>2. IInv /\ AnswersBuffered /\ [SessionNext]_sessionVars => IInv' /\ AnswersBuffered'
  BY SessionClient, DropStep, ClientInvNext, BufferedStep DEF IInv
<1> QED BY <1>1, <1>2, PTL DEF SessionSpec

\* A session that routes frames to two users by their keys keeps, for its calls,
\* what the client promises on its own: a response taken for a renewal message or a
\* control message is lost to its call, and no call gets another's
\* (DeviceSession.OnMessage, isRenewalMessage, PeekMessageType).
THEOREM SessionImplementsContract == SessionSpec => ImplementsContract
<1>1. SessionInit => Contract!Init BY InitContract DEF SessionInit
<1>2. IInv /\ AnswersBuffered /\ [SessionNext]_sessionVars => [Contract!Next]_Contract!vars
  BY SessionClient, DropStep, ContractStep DEF Contract!Next
<1> QED BY <1>1, <1>2, SessionClientInvariant, PTL
        DEF SessionSpec, ImplementsContract, Contract!Spec

\* In a session, too, entries do not pile up and Close reaches whoever waits.
THEOREM SessionKeepsClient == SessionSpec => [](PendingUnderWay /\ ClosedReachesWaiting)
<1>1. IInv => PendingUnderWay /\ ClosedReachesWaiting
  BY DEF IInv, CallsReachable, ClosedReachesWaiting
<1> QED BY <1>1, SessionClientInvariant, PTL
=============================================================================
