--------------------------- MODULE DeploymentStates ---------------------------
(***************************************************************************)
(* The states of a deployment row and the transitions the API accepts:     *)
(* packages/towbar-contracts/src/temporal.ts.                              *)
(***************************************************************************)
EXTENDS Naturals, Sequences

\* The states that follow one another, in the order of the source.
sequentialStates ==
    <<"queued", "waiting_for_server", "preparing", "validating_credentials",
      "checking_server", "fetching_source", "resolving_secrets",
      "transferring", "building", "running_pre_deploy", "starting_candidate",
      "checking_health", "configuring_routing", "provisioning_tls",
      "checking_public_endpoint", "switching_traffic", "running_post_deploy",
      "cleaning_up">>

SequentialStates == {sequentialStates[i] : i \in DOMAIN sequentialStates}

SuccessStates == {"succeeded", "succeeded_with_warnings"}

terminalDeploymentStates == SuccessStates \cup {"skipped", "failed", "cancelled"}

deploymentStates == SequentialStates \cup terminalDeploymentStates

\* Each state leads to the next one, the last one to success.
Follows(from, to) ==
    \/ \E i \in 1..(Len(sequentialStates) - 1) :
          sequentialStates[i] = from /\ sequentialStates[i + 1] = to
    \/ from = sequentialStates[Len(sequentialStates)] /\ to \in SuccessStates

\* The hook states may be skipped, and a queued deployment as a whole.
Skips(from, to) ==
    <<from, to>> \in {<<"building", "starting_candidate">>,
                      <<"switching_traffic", "cleaning_up">>,
                      <<"queued", "skipped">>}

\* Mutant: a finished deployment may still fail.
CanTransitionFromAnywhere(from, to, compose) ==
    \/ compose /\ from = "provisioning_tls" /\ to = "switching_traffic"
    \/ Follows(from, to) \/ Skips(from, to) \/ to \in {"failed", "cancelled"}

canTransitionDeployment(from, to, compose) ==
    \/ compose /\ from = "provisioning_tls" /\ to = "switching_traffic"
    \/ /\ from \in SequentialStates
       /\ Follows(from, to) \/ Skips(from, to) \/ to \in {"failed", "cancelled"}
=============================================================================
