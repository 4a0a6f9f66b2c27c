--------------------------- MODULE RequestContract ---------------------------
(***************************************************************************)
(* What one SDK request promises its caller, whatever the network does:    *)
(* the server performs a mutation at most once, success is reported only   *)
(* for work the server has performed, a reported result is final, and a    *)
(* result is always reported.  A failure leaves the caller uncertain: the  *)
(* mutation may have been performed before it, and may still be after it.  *)
(***************************************************************************)
EXTENDS Naturals

VARIABLES
    mutating,    \* the request changes state at the server
    effects,     \* how often the server performed that change
    result       \* what the caller has been told

vars == <<mutating, effects, result>>

Init ==
    /\ mutating \in BOOLEAN
    /\ effects = 0
    /\ result = "pending"

Perform ==
    /\ mutating /\ effects = 0
    /\ effects' = 1
    /\ UNCHANGED <<mutating, result>>

Succeed ==
    /\ result = "pending"
    /\ mutating => effects = 1
    /\ result' = "success"
    /\ UNCHANGED <<mutating, effects>>

Fail ==
    /\ result = "pending"
    /\ result' = "failure"
    /\ UNCHANGED <<mutating, effects>>

Next == Perform \/ Succeed \/ Fail

Progress == WF_vars(Succeed \/ Fail)

Spec == Init /\ [][Next]_vars /\ Progress
==============================================================================
