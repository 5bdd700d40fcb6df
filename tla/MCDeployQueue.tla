----------------------------- MODULE MCDeployQueue -----------------------------
(* Small instances of DeployQueue for TLC.                                 *)
EXTENDS DeployQueue, TLC

CONSTANTS d1, d2, d3

\* Deliveries of one kind are alike; the expiring one is not among the others.
Alike == Permutations(Delivery \ Expiring)
=============================================================================
