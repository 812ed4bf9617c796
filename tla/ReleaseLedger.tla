---------------------------- MODULE ReleaseLedger ----------------------------
(***************************************************************************)
(* The releases of one application in one environment: what a commit does  *)
(* to their status (areas/deployments/service.ts of the API).  A ledger    *)
(* maps each deployment to the status of its release, "none" without one.  *)
(***************************************************************************)

ReleaseStatuses == {"none", "current", "previous", "superseded"}

\* The previous release is superseded, the current one becomes the previous
\* one, and the release of d is the current one.
Promoted(ledger, d) ==
    [e \in DOMAIN ledger |->
        CASE e = d                    -> "current"
          [] e # d /\ ledger[e] = "current"  -> "previous"
          [] e # d /\ ledger[e] = "previous" -> "superseded"
          [] OTHER                    -> ledger[e]]

WithStatus(ledger, status) == {d \in DOMAIN ledger : ledger[d] = status}

\* At most one release is current and at most one is previous, and the later
\* statuses are only reached through the earlier ones.
Consistent(ledger) ==
    /\ \A status \in {"current", "previous"} :
          \A d, e \in WithStatus(ledger, status) : d = e
    /\ WithStatus(ledger, "previous") # {} => WithStatus(ledger, "current") # {}
    /\ WithStatus(ledger, "superseded") # {} => WithStatus(ledger, "previous") # {}
=============================================================================
