----------------------------- MODULE Readiness -----------------------------
(***************************************************************************)
(* What the callers of healthcheck.WaitForControlPlane (boot.Run,          *)
(* initialize.Run and the healthcheck command behind greenboot's verdict)  *)
(* rely on: its verdict is final, and it is positive only after every      *)
(* check has been seen to pass.                                            *)
(***************************************************************************)
CONSTANT Checks

VARIABLES
    confirmed,   \* the checks that have passed
    result       \* "waiting", "nil" or "error"

vars == <<confirmed, result>>

Init == confirmed = {} /\ result = "waiting"

Confirm(c) ==
    /\ confirmed' = confirmed \union {c}
    /\ UNCHANGED result

Succeed ==
    /\ result = "waiting"
    /\ confirmed = Checks
    /\ result' = "nil"
    /\ UNCHANGED confirmed

GiveUp ==
    /\ result = "waiting"
    /\ result' = "error"
    /\ UNCHANGED confirmed

Next == (\E c \in Checks : Confirm(c)) \/ Succeed \/ GiveUp

Spec == Init /\ [][Next]_vars
=============================================================================
