------------------------ MODULE MCAutomaticDeployment ------------------------
(***************************************************************************)
(* Instances of AutomaticDeployment for model checking.                    *)
(***************************************************************************)
EXTENDS AutomaticDeployment

\* Every commit changes what is deployed.
DigestsDiffer == <<"a", "b">>
=============================================================================
