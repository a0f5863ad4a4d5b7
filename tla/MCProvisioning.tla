--------------------------- MODULE MCProvisioning ---------------------------
(* The creation job and the demo job of one workspace.                      *)
EXTENDS Provisioning, TLC

CONSTANTS w1, c1, d1, a1, a2, k1, k2, k3

MCJobWs == [j \in Jobs |-> w1]

\* Creation jobs are kept; the demo's are removed once completed.
MCKeepCompleted == [j \in Jobs |-> IF j \in DemoJobs THEN 0 ELSE 3]
MCKeepFailed == [j \in Jobs |-> 3]

Symmetry == Permutations(Slots) \union Permutations(Keys)
=============================================================================
