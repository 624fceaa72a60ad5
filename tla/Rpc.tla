--------------------------------- MODULE Rpc ---------------------------------
(***************************************************************************)
(* What those who ask the daemon rely on, without what becomes of a request*)
(* on the wire: its callback is called, once, or dropped for good; and a   *)
(* further request leaves in the turn of a callback that was called, or on *)
(* its own.                                                                *)
(***************************************************************************)
EXTENDS Naturals

CONSTANT Request

VARIABLES unsent,  \* the requests that have not left
          waiting, \* those whose callback may yet be called
          calls    \* calls[r]: how often the callback of r was called

rpcVars == <<unsent, waiting, calls>>

Init ==
    /\ unsent = Request
    /\ waiting = {}
    /\ calls = [r \in Request |-> 0]

\* A request leaves.
Send(r) ==
    /\ r \in unsent
    /\ unsent' = unsent \ {r}
    /\ waiting' = waiting \cup {r}
    /\ UNCHANGED calls

\* The callback of r is called, and sends the requests in next.
CallBack(r, next) ==
    /\ r \in waiting
    /\ next \subseteq unsent
    /\ unsent' = unsent \ next
    /\ waiting' = (waiting \ {r}) \cup next
    /\ calls' = [calls EXCEPT ![r] = @ + 1]

\* The callback of r will never be called.
Drop(r) ==
    /\ r \in waiting
    /\ waiting' = waiting \ {r}
    /\ UNCHANGED <<unsent, calls>>

Next ==
    \E r \in Request :
        \/ Send(r)
        \/ \E next \in SUBSET Request : CallBack(r, next)
        \/ Drop(r)

Spec == Init /\ [][Next]_rpcVars
=============================================================================
