-------------------------- MODULE ClusterIdentity --------------------------
(***************************************************************************)
(* What `picokube init` and `picokube reset` promise about the identity of *)
(* a node: its disk carries the keys, credentials and data of one cluster  *)
(* at most; a new cluster is made only on a node that carries none, and is *)
(* never one the node has had before.                                      *)
(***************************************************************************)
EXTENDS Integers

VARIABLES
    clusters,   \* the clusters of which a key, a credential or data is on disk
    last        \* the number of clusters made so far

vars == <<clusters, last>>

Init == clusters = {} /\ last = 0

\* certs.Init on a clean node
Provision == clusters = {} /\ last' = last + 1 /\ clusters' = {last'}

\* the last key, credential and data of the cluster are removed
Wipe == clusters' = {} /\ UNCHANGED last

Next == Provision \/ Wipe

Spec == Init /\ [][Next]_vars
=============================================================================
