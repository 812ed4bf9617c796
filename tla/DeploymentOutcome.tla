-------------------------- MODULE DeploymentOutcome --------------------------
(***************************************************************************)
(* What a deployment promises, whatever happens to the process executing   *)
(* it: its release is promoted at most once and while the deployment is    *)
(* undecided; it is decided at most once; and it succeeds exactly if its   *)
(* release was promoted.  Only deployments without a release are given up  *)
(* for another one.                                                        *)
(***************************************************************************)
EXTENDS ReleaseLedger

CONSTANTS
    Deployments

VARIABLES
    outcome,     \* "open", "succeeded" or "failed"
    ledger       \* the status of each deployment's release

vars == <<outcome, ledger>>

Init ==
    /\ outcome = [d \in Deployments |-> "open"]
    /\ ledger = [d \in Deployments |-> "none"]

Promote(d) ==
    /\ outcome[d] = "open"
    /\ ledger[d] = "none"
    /\ ledger' = Promoted(ledger, d)
    /\ UNCHANGED outcome

Decide(d, result) ==
    /\ outcome[d] = "open"
    /\ result = IF ledger[d] = "none" THEN "failed" ELSE "succeeded"
    /\ outcome' = [outcome EXCEPT ![d] = result]
    /\ UNCHANGED ledger

\* A newer deployment is requested, and those that wait are given up.
Supersede(ds) ==
    /\ \A d \in ds : outcome[d] = "open" /\ ledger[d] = "none"
    /\ outcome' = [d \in Deployments |-> IF d \in ds THEN "failed" ELSE outcome[d]]
    /\ UNCHANGED ledger

Next ==
    \/ \E d \in Deployments :
          \/ Promote(d)
          \/ \E result \in {"succeeded", "failed"} : Decide(d, result)
    \/ \E ds \in SUBSET Deployments : Supersede(ds)

Spec == Init /\ [][Next]_vars
=============================================================================
