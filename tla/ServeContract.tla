--------------------------- MODULE ServeContract ---------------------------
(***************************************************************************)
(* What a worker promises about the requests it takes.  It takes them while *)
(* it serves and at no later time; it cuts off a request only once it has   *)
(* given up waiting for it; and it exits when no request is left.           *)
(***************************************************************************)
CONSTANT Requests

VARIABLES
    phase,      \* serving, draining, cutting, gone
    admitted,   \* requests taken and not yet answered to the last byte
    over,       \* requests that are no longer the worker's
    lost        \* those of them that were cut off

vars == <<phase, admitted, over, lost>>

Init == phase = "serving" /\ admitted = {} /\ over = {} /\ lost = {}

Admit(r) ==
    /\ phase = "serving" /\ r \notin admitted \cup over
    /\ admitted' = admitted \cup {r}
    /\ UNCHANGED <<phase, over, lost>>

\* Answered, refused, or abandoned by its client.
Finish(r) ==
    /\ r \notin over
    /\ admitted' = admitted \ {r} /\ over' = over \cup {r}
    /\ UNCHANGED <<phase, lost>>

Abort(r) ==
    /\ phase = "cutting" /\ r \notin over
    /\ admitted' = admitted \ {r} /\ over' = over \cup {r} /\ lost' = lost \cup {r}
    /\ UNCHANGED phase

Go(from, to) == phase = from /\ phase' = to /\ UNCHANGED <<admitted, over, lost>>

Retire == Go("serving", "draining")
GiveUp == Go("draining", "cutting")
Exit   == admitted = {} /\ Go("cutting", "gone")

Next == (\E r \in Requests : Admit(r) \/ Finish(r) \/ Abort(r)) \/ Retire \/ GiveUp \/ Exit

Spec == Init /\ [][Next]_vars
=============================================================================
