------------------------- MODULE MCRollingReplacement -------------------------
(***************************************************************************)
(* Two ways a deployment replaces what runs on a server, which share no    *)
(* state, for TLC: the rolling replacement of an application's replicas,   *)
(* and the deployments of a Compose project under crashes.  `area' is      *)
(* chosen once and says which of them runs.                                *)
(***************************************************************************)
EXTENDS RollingReplacement

VARIABLES area, composeState, composeDoubted, composeWorkflow, composeExecutor,
          composeRecoveries, composeCandidate, composeRelease

composeVars == <<composeState, composeDoubted, composeWorkflow, composeExecutor,
                 composeRecoveries, composeCandidate, composeRelease>>
replacementVars == <<area, vars, composeVars>>

Compose == INSTANCE DeploymentLifecycle WITH
    Deployments <- {"d1", "d2"}, Compose <- TRUE, Fallback <- FALSE,
    MaxRecoveries <- 2, Faults <- {"crash"},
    state <- composeState, doubted <- composeDoubted, workflow <- composeWorkflow,
    executor <- composeExecutor, recoveries <- composeRecoveries,
    candidate <- composeCandidate, release <- composeRelease

\* Every rollout of up to three replicas that the schema accepts.
SmallRollouts ==
    {r \in [replicas : 1..3, maxSurge : 0..4, maxUnavailable : 0..2] :
        r.maxSurge # 0 \/ r.maxUnavailable # 0}

UpToThree == 0..3

OneRollout == CHOOSE r \in SmallRollouts : r.replicas = 1

ReplacementInit ==
    /\ area \in {"rolling", "compose"}
    /\ Init /\ Compose!Init
    /\ area = "compose" => rollout = OneRollout /\ count = 0

OfRolling(step) == area = "rolling" /\ step /\ UNCHANGED <<area, composeVars>>
OfCompose(step) == area = "compose" /\ step /\ UNCHANGED <<area, vars>>

ReplacementNext == OfRolling(Next) \/ OfCompose(Compose!Next)

AnyComposeStep(Step(_)) == \E d \in {"d1", "d2"} : Step(d)

\* The fairness of both modules, for any Compose deployment instead of each: since
\* one area runs, an action of each shares a conjunct.
Fair(rollingStep, composeStep) == OfRolling(rollingStep) \/ OfCompose(composeStep)

ReplacementFairness ==
    /\ WF_replacementVars(Fair(Replacement, AnyComposeStep(Compose!ExecutorStep)))
    /\ WF_replacementVars(Fair(Undoing, AnyComposeStep(Compose!RecoveryStep)))
    /\ WF_replacementVars(OfCompose(AnyComposeStep(Compose!ApiStep)))
    /\ WF_replacementVars(OfCompose(AnyComposeStep(Compose!WorkflowStep)))

ReplacementSpec ==
    ReplacementInit /\ [][ReplacementNext]_replacementVars /\ ReplacementFairness

\* A rolling replacement comes to an end, when it runs.
RolloutEnds == <>[](area = "rolling" => phase \in {"promoted", "failed"})

\* A requested Compose deployment is decided at last, whatever crashes.
ComposeIsDecided == Compose!RequestedIsDecided
=============================================================================
