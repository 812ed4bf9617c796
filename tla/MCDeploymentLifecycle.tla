------------------------ MODULE MCDeploymentLifecycle ------------------------
(***************************************************************************)
(* Instances of DeploymentLifecycle for model checking.                    *)
(***************************************************************************)
EXTENDS DeploymentLifecycle, TLC

CONSTANTS d1, d2, d3

Two == {d1, d2}
Three == {d1, d2, d3}

\* Safety does not tell the deployments apart.
Symmetry == Permutations(Three)
SymmetryOfTwo == Permutations(Two)

Crashes == {"crash"}

\* Every fault but a crash, which is a late executor that does nothing more.
LateFaults   == FaultKinds \ {"crash"}
=============================================================================
