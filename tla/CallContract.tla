---------------------------- MODULE CallContract ----------------------------
(***************************************************************************)
(* What a client of mash-go/pkg/interaction promises its callers, whatever *)
(* it does with message IDs, channels and the map of pending calls: a call *)
(* has at most one result, which is the answer to its own request, asked   *)
(* for while the call was under way and taken before it ends.              *)
(* InteractionClient implements it.                                        *)
(***************************************************************************)
EXTENDS Naturals

CONSTANTS MaxCalls, NoResult

Calls == 1 .. MaxCalls

VARIABLES
    begun,       \* calls begun so far
    open,        \* calls that have not returned
    outstanding, \* calls whose answer may still come
    result       \* what each call returned, named by the call it answers

vars == <<begun, open, outstanding, result>>

Init == /\ begun = 0 /\ open = {} /\ outstanding = {}
        /\ result = [k \in Calls |-> NoResult]

Begin == /\ begun < MaxCalls /\ begun' = begun + 1
         /\ open' = open \cup {begun'}
         /\ UNCHANGED <<outstanding, result>>

\* The request goes out.
Ask(k) == /\ k \in open /\ outstanding' = outstanding \cup {k}
          /\ UNCHANGED <<begun, open, result>>

\* Requests and answers may be lost or ignored.
Lose == /\ outstanding' \in SUBSET outstanding
        /\ UNCHANGED <<begun, open, result>>

Take(k) == /\ k \in open \cap outstanding
           /\ result' = [result EXCEPT ![k] = k]
           /\ UNCHANGED <<begun, open, outstanding>>

Finish(k) == /\ k \in open /\ open' = open \ {k}
             /\ UNCHANGED <<begun, outstanding, result>>

Next == Begin \/ Lose \/ \E k \in Calls : Ask(k) \/ Take(k) \/ Finish(k)

Spec == Init /\ [][Next]_vars
=============================================================================
