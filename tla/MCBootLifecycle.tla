-------------------------- MODULE MCBootLifecycle --------------------------
(* BootLifecycle for TLC: up to three images, the first of an older version. *)
EXTENDS BootLifecycle

CONSTANTS d1, d2, d3

MCVersionOf == [d \in Deployments |-> IF d = d1 THEN 1 ELSE 2]
=============================================================================
