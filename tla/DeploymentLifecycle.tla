------------------------- MODULE DeploymentLifecycle -------------------------
(***************************************************************************)
(* The deployments of one application in one environment, from the request *)
(* to the row's terminal state.  Four parties act on a deployment:         *)
(*   the API, which owns its row and the release ledger;                   *)
(*   its workflow (deployment.workflow.ts), a child of the server's        *)
(*     coordinator, which runs one workflow of an application at a time    *)
(*     (OneWorkPerApp of ServerCoordinator);                               *)
(*   the executor, the activity that deploys to the host                   *)
(*     (activities/deployment.ts and towbar-deployer's deployment.ts);     *)
(*   the recovery activity, which the workflow runs when the executor did  *)
(*     not return.                                                         *)
(* A posted state is accepted or refused by the API's transition table.    *)
(***************************************************************************)
EXTENDS DeploymentStates, ReleaseLedger, FiniteSets

CONSTANTS
    Deployments,      \* the deployments that may be requested
    Compose,          \* the application is a Compose project
    Fallback,         \* it builds on a build server and allows the runtime fallback
    MaxRecoveries,    \* attempts of the recovery activity, 10 in the source
    Faults            \* what may go wrong, of FaultKinds

(***************************************************************************)
(*   "api"      the API stops between the row's insert and the signal      *)
(*   "enqueue"  the signal fails, or its answer is lost                    *)
(*   "marking"  the first activity fails or times out                      *)
(*   "crash"    the process of the executor or of the recovery dies        *)
(*   "late"     Temporal gives up on an executor that still runs           *)
(*   "cancel"   a user cancels                                             *)
(*   "ssh"      a rollback on the host fails                               *)
(***************************************************************************)
FaultKinds == {"api", "enqueue", "marking", "crash", "late", "cancel", "ssh"}

ASSUME LifecycleAssumption ==
    /\ Compose \in BOOLEAN /\ Fallback \in BOOLEAN
    /\ MaxRecoveries \in Nat \ {0}
    /\ Faults \subseteq FaultKinds
    /\ "unrequested" \notin deploymentStates

VARIABLES
    state,       \* the state of the row, "unrequested" before there is one
    doubted,     \* deployments whose signal was delivered but not confirmed
    workflow,    \* where the workflow is
    executor,    \* the executor: its phase, the last state it posted, whether
                 \* it was told to abort
    recoveries,  \* attempts of the recovery activity that failed
    candidate,   \* the deployment's container
    release      \* the release ledger

vars == <<state, doubted, workflow, executor, recoveries, candidate, release>>

-----------------------------------------------------------------------------
\* The phases in which the coordinator holds the application for a workflow.
RecoveryPhases == {"recovering", "advancing", "finalizing", "reconciling",
                   "rolling_back", "reporting"}
AtWork == {"marking", "marked", "executing", "continuing"} \cup RecoveryPhases
WorkflowPhases == {"none", "admitted", "queued", "closed"} \cup AtWork

AlivePhases == {"running", "uncertain", "promoted", "rolling_back", "reporting"}
ExecutorPhases == {"none", "done", "gone"} \cup AlivePhases

Executor(phase, cursor, aborted) ==
    [phase |-> phase, cursor |-> cursor, aborted |-> aborted]

NoExecutor == Executor("none", "queued", FALSE)
Done       == Executor("done", "queued", FALSE)
Gone       == Executor("gone", "queued", FALSE)

Alive(d) == executor[d].phase \in AlivePhases

\* The row accepts s: recordDeploymentEvent ignores a repeated state.
Accepts(d, s) ==
    s = state[d] \/ canTransitionDeployment(state[d], s, Compose)

\* The state an executor posts after `cursor': a Compose deployment has no
\* hooks and no public probe.
ComposeSkips == [building          |-> "starting_candidate",
                 provisioning_tls  |-> "switching_traffic",
                 switching_traffic |-> "cleaning_up"]

NextPosts(cursor) ==
    IF Compose /\ cursor \in DOMAIN ComposeSkips
    THEN {ComposeSkips[cursor]}
    ELSE {s \in deploymentStates : Follows(cursor, s)}

\* After posting this state the executor starts the candidate.
StartsCandidateAt == IF Compose THEN "checking_health" ELSE "starting_candidate"

\* Mutant: the rollback script keeps the candidate.
RolledBackInName(c) == c

RolledBack(c) == IF c = "running" THEN "removed" ELSE c

-----------------------------------------------------------------------------
Init ==
    /\ state = [d \in Deployments |-> "unrequested"]
    /\ doubted = {}
    /\ workflow = [d \in Deployments |-> "none"]
    /\ executor = [d \in Deployments |-> NoExecutor]
    /\ recoveries = [d \in Deployments |-> 0]
    /\ candidate = [d \in Deployments |-> "none"]
    /\ release = [d \in Deployments |-> "none"]

(***************************************************************************)
(* The API                                                                 *)
(***************************************************************************)

\* The rows once those that are still queued are skipped.
QueuedAreSkipped ==
    [e \in Deployments |-> IF state[e] = "queued" THEN "skipped" ELSE state[e]]

\* The deployment is admitted: the application's queued ones are superseded
\* and its row is inserted, in one transaction.
RequestDeployment(d) ==
    /\ state[d] = "unrequested"
    /\ state' = [QueuedAreSkipped EXCEPT ![d] = "queued"]
    /\ workflow' = [workflow EXCEPT ![d] = "admitted"]
    /\ UNCHANGED <<doubted, executor, recoveries, candidate, release>>

\* The server's coordinator is signalled.
Enqueue(d) ==
    /\ workflow[d] = "admitted"
    /\ workflow' = [workflow EXCEPT ![d] = "queued"]
    /\ UNCHANGED <<state, doubted, executor, recoveries, candidate, release>>

\* The signal fails: the row fails, whatever its state.
EnqueueFails(d) ==
    /\ "enqueue" \in Faults
    /\ workflow[d] = "admitted"
    /\ workflow' = [workflow EXCEPT ![d] = "closed"]
    /\ state' = [state EXCEPT ![d] = "failed"]
    /\ UNCHANGED <<doubted, executor, recoveries, candidate, release>>

\* The signal is delivered, but the API is told it failed ...
EnqueueUnconfirmed(d) ==
    /\ "enqueue" \in Faults
    /\ workflow[d] = "admitted"
    /\ workflow' = [workflow EXCEPT ![d] = "queued"]
    /\ doubted' = doubted \cup {d}
    /\ UNCHANGED <<state, executor, recoveries, candidate, release>>

\* ... and fails the row later, whatever its state.
FailDoubted(d) ==
    /\ d \in doubted
    /\ doubted' = doubted \ {d}
    /\ state' = [state EXCEPT ![d] = "failed"]
    /\ UNCHANGED <<workflow, executor, recoveries, candidate, release>>

\* The API stops before the signal; nothing resumes it.
ApiStops(d) ==
    /\ "api" \in Faults
    /\ workflow[d] = "admitted"
    /\ workflow' = [workflow EXCEPT ![d] = "closed"]
    /\ UNCHANGED <<state, doubted, executor, recoveries, candidate, release>>

\* A user cancels.  A queued deployment is cancelled in its row; any other
\* one through its workflow, which stops waiting for what it awaits: the
\* first activity is abandoned, the executor is told to abort and recovery
\* begins.  Recovery itself is not cancellable.
CancelDeployment(d) ==
    /\ "cancel" \in Faults
    /\ state[d] \in SequentialStates
    /\ \/ /\ state[d] = "queued"
          /\ state' = [state EXCEPT ![d] = "cancelled"]
          /\ UNCHANGED <<workflow, executor>>
       \/ /\ state[d] # "queued"
          /\ workflow[d] = "marked"
          /\ workflow' = [workflow EXCEPT ![d] = "closed"]
          /\ UNCHANGED <<state, executor>>
       \/ /\ state[d] # "queued"
          /\ workflow[d] = "executing"
          /\ workflow' = [workflow EXCEPT ![d] = "recovering"]
          /\ executor' = [executor EXCEPT ![d].aborted = Alive(d)]
          /\ UNCHANGED state
    /\ UNCHANGED <<doubted, recoveries, candidate, release>>

-----------------------------------------------------------------------------
(***************************************************************************)
(* The workflow                                                            *)
(***************************************************************************)

\* The coordinator starts the workflow: no other one of the application runs.
StartWorkflow(d) ==
    /\ workflow[d] = "queued"
    /\ \A e \in Deployments : workflow[e] \notin AtWork
    /\ workflow' = [workflow EXCEPT ![d] = "marking"]
    /\ UNCHANGED <<state, doubted, executor, recoveries, candidate, release>>

\* The first activity posts that the deployment waits for its server; if the
\* row refuses, the workflow fails.
MarkWaiting(d) ==
    /\ workflow[d] = "marking"
    /\ IF Accepts(d, "waiting_for_server")
       THEN /\ state' = [state EXCEPT ![d] = "waiting_for_server"]
            /\ workflow' = [workflow EXCEPT ![d] = "marked"]
       ELSE /\ workflow' = [workflow EXCEPT ![d] = "closed"]
            /\ UNCHANGED state
    /\ UNCHANGED <<doubted, executor, recoveries, candidate, release>>

\* The first activity has one attempt, outside of the workflow's try block.
MarkWaitingFails(d) ==
    /\ "marking" \in Faults
    /\ workflow[d] \in {"marking", "marked"}
    /\ workflow' = [workflow EXCEPT ![d] = "closed"]
    /\ UNCHANGED <<state, doubted, executor, recoveries, candidate, release>>

StartExecutor(d) ==
    /\ workflow[d] = "marked"
    /\ workflow' = [workflow EXCEPT ![d] = "executing"]
    /\ executor' = [executor EXCEPT ![d] = Executor("running", "waiting_for_server", FALSE)]
    /\ UNCHANGED <<state, doubted, recoveries, candidate, release>>

\* Mutant: a failed executor is awaited for ever.
ExecutorReturnsWell(d) ==
    /\ workflow[d] = "executing"
    /\ executor[d].phase = "done"
    /\ workflow' = [workflow EXCEPT ![d] = "continuing"]
    /\ UNCHANGED <<state, doubted, executor, recoveries, candidate, release>>

\* The executor has returned, or has thrown or died.
ExecutorReturns(d) ==
    /\ workflow[d] = "executing"
    /\ executor[d].phase \in {"done", "gone"}
    /\ workflow' = [workflow EXCEPT ![d] =
                      IF executor[d].phase = "done" THEN "continuing" ELSE "recovering"]
    /\ UNCHANGED <<state, doubted, executor, recoveries, candidate, release>>

\* No heartbeat for 30 seconds: Temporal fails the activity, which goes on
\* if its process is only cut off or slow.
HeartbeatTimeout(d) ==
    /\ "late" \in Faults
    /\ workflow[d] = "executing"
    /\ Alive(d)
    /\ workflow' = [workflow EXCEPT ![d] = "recovering"]
    /\ UNCHANGED <<state, doubted, executor, recoveries, candidate, release>>

\* The next automatic deployment is considered and the workflow ends.
Continue(d) ==
    /\ workflow[d] = "continuing"
    /\ workflow' = [workflow EXCEPT ![d] = "closed"]
    /\ UNCHANGED <<state, doubted, executor, recoveries, candidate, release>>

-----------------------------------------------------------------------------
(***************************************************************************)
(* The executor.  Until it asks for the release it is "running" and rolls  *)
(* its candidate back when a step fails; once it has asked, the outcome is *)
(* "uncertain" until the answer arrives, and recovery decides; after that  *)
(* it is "promoted".                                                       *)
(***************************************************************************)

\* Post the next state and do its work; a refused state is a failed step.
Transition(d) ==
    /\ \/ executor[d].phase = "running" /\ executor[d].cursor # "switching_traffic"
       \/ executor[d].phase = "promoted"
    /\ executor[d].cursor = StartsCandidateAt => candidate[d] # "none"
    /\ \E s \in NextPosts(executor[d].cursor) :
          /\ Accepts(d, s)
          /\ state' = [state EXCEPT ![d] = s]
          /\ executor' = [executor EXCEPT ![d] =
                            IF s \in SuccessStates THEN Done ELSE [@ EXCEPT !.cursor = s]]
    /\ UNCHANGED <<doubted, workflow, recoveries, candidate, release>>

StartCandidate(d) ==
    /\ executor[d].phase = "running"
    /\ executor[d].cursor = StartsCandidateAt
    /\ candidate[d] = "none"
    /\ candidate' = [candidate EXCEPT ![d] = "running"]
    /\ UNCHANGED <<state, doubted, workflow, executor, recoveries, release>>

\* Mutant: only a confirmed commit keeps the executor from rolling back.
ThrownUnconfirmed(e) ==
    IF e.phase \in {"running", "uncertain"} THEN [e EXCEPT !.phase = "rolling_back"] ELSE Gone

\* What becomes of the executor when a step of it throws.
Thrown(e) == IF e.phase = "running" THEN [e EXCEPT !.phase = "rolling_back"] ELSE Gone

\* The build server is unavailable: the executor posts "preparing" again and
\* builds on the runtime server.
BuildFallback(d) ==
    /\ Fallback /\ ~Compose
    /\ executor[d].phase = "running"
    /\ executor[d].cursor = "validating_credentials"
    /\ IF Accepts(d, "preparing")
       THEN /\ state' = [state EXCEPT ![d] = "preparing"]
            /\ UNCHANGED executor
       ELSE /\ executor' = [executor EXCEPT ![d] = Thrown(@)]
            /\ UNCHANGED state
    /\ UNCHANGED <<doubted, workflow, recoveries, candidate, release>>

\* Mutant: a repeated commit is carried out again.
AfterEveryCommit(d) == Promoted(release, d)

\* The ledger after a commit; a repeated one changes nothing.
AfterCommit(d) == IF release[d] = "none" THEN Promoted(release, d) ELSE release

\* Ask for the release.  The commit is durable and its answer arrives or is
\* lost; the state of the row is not looked at.
CommitRelease(d) ==
    /\ executor[d].phase \in {"running", "uncertain"}
    /\ executor[d].cursor = "switching_traffic"
    /\ release' = AfterCommit(d)
    /\ \E phase \in {"promoted", "uncertain"} :
          executor' = [executor EXCEPT ![d].phase = phase]
    /\ UNCHANGED <<state, doubted, workflow, recoveries, candidate>>

\* The request for the release is refused or never arrives.
CommitFails(d) ==
    /\ executor[d].phase = "running"
    /\ executor[d].cursor = "switching_traffic"
    /\ executor' = [executor EXCEPT ![d].phase = "uncertain"]
    /\ UNCHANGED <<state, doubted, workflow, recoveries, candidate, release>>

\* A step on the host or a call of the API fails, or the abort arrives.
StepFails(d) ==
    /\ executor[d].phase \in {"running", "uncertain", "promoted"}
    /\ executor' = [executor EXCEPT ![d] = Thrown(@)]
    /\ UNCHANGED <<state, doubted, workflow, recoveries, candidate, release>>

\* Whether a rollback may leave the candidate: the host does not answer, or
\* the Compose script failed on the way and the executor does not know that
\* services were started.
MayLeave(d) ==
    \/ "ssh" \in Faults
    \/ Compose /\ executor[d].cursor = "checking_health"

RollBackCandidate(d) ==
    /\ executor[d].phase = "rolling_back"
    /\ \E c \in {RolledBack(candidate[d])}
               \cup (IF MayLeave(d) THEN {candidate[d]} ELSE {}) :
          candidate' = [candidate EXCEPT ![d] = c]
    /\ executor' = [executor EXCEPT ![d].phase = "reporting"]
    /\ UNCHANGED <<state, doubted, workflow, recoveries, release>>

\* The activity posts that it failed or was cancelled, ignores a refusal and
\* throws.
ReportFailure(d) ==
    /\ executor[d].phase = "reporting"
    /\ LET s == IF executor[d].aborted THEN "cancelled" ELSE "failed"
       IN  state' = IF Accepts(d, s) THEN [state EXCEPT ![d] = s] ELSE state
    /\ executor' = [executor EXCEPT ![d] = Gone]
    /\ UNCHANGED <<doubted, workflow, recoveries, candidate, release>>

ExecutorCrashes(d) ==
    /\ "crash" \in Faults
    /\ Alive(d)
    /\ executor' = [executor EXCEPT ![d] = Gone]
    /\ UNCHANGED <<state, doubted, workflow, recoveries, candidate, release>>

-----------------------------------------------------------------------------
(***************************************************************************)
(* Recovery.  It reads the status once and acts on what it read.           *)
(***************************************************************************)
GoOn(d, phase) == workflow' = [workflow EXCEPT ![d] = phase]

\* Mutant: the state of the row decides, not the release record.
CommittedByState(d) ==
    state[d] \in {"switching_traffic", "running_post_deploy", "cleaning_up"}

Committed(d) == release[d] # "none"

ReadStatus(d) ==
    /\ workflow[d] = "recovering"
    /\ GoOn(d, CASE state[d] \in SuccessStates -> "continuing"
                 [] state[d] \in terminalDeploymentStates \ SuccessStates -> "closed"
                 [] state[d] \in SequentialStates /\ Committed(d) ->
                       IF state[d] = "switching_traffic" THEN "advancing" ELSE "finalizing"
                 [] OTHER ->
                       IF Compose /\ state[d] \in {"switching_traffic", "cleaning_up"}
                       THEN "reconciling" ELSE "rolling_back")
    /\ UNCHANGED <<state, doubted, executor, recoveries, candidate, release>>

\* Mutant: there is one attempt.
AttemptFailsOnce(d) ==
    recoveries' = [recoveries EXCEPT ![d] = @ + 1] /\ GoOn(d, "closed")

\* An attempt that fails is repeated until the attempts are used up.
AttemptFails(d) ==
    /\ recoveries' = [recoveries EXCEPT ![d] = @ + 1]
    /\ GoOn(d, IF recoveries[d] + 1 < MaxRecoveries THEN "recovering" ELSE "closed")

\* Recovery posts s and goes on to `phase', or fails if the row refuses s.
Post(d, s, phase) ==
    /\ IF Accepts(d, s)
       THEN /\ state' = [state EXCEPT ![d] = s]
            /\ GoOn(d, phase)
            /\ UNCHANGED recoveries
       ELSE AttemptFails(d) /\ UNCHANGED state
    /\ UNCHANGED <<doubted, executor, candidate, release>>

\* The release was committed before the executor stopped: the row leaves
\* the state of the commit, then it succeeds.
AdvanceCommitted(d)   == workflow[d] = "advancing"   /\ Post(d, "cleaning_up", "finalizing")
FinalizeCommitted(d)  == workflow[d] = "finalizing"  /\ Post(d, "succeeded", "continuing")

\* Without a release the candidate is removed.
RollBackInterrupted(d) ==
    /\ workflow[d] = "rolling_back"
    /\ \E c \in {RolledBack(candidate[d])}
               \cup (IF "ssh" \in Faults THEN {candidate[d]} ELSE {}) :
          candidate' = [candidate EXCEPT ![d] = c]
    /\ GoOn(d, "reporting")
    /\ UNCHANGED <<state, doubted, executor, recoveries, release>>

\* Then the row fails, or at once where the release of a Compose project was
\* not confirmed, which is left in place.
ReportInterrupted(d)  ==
    workflow[d] \in {"reconciling", "reporting"} /\ Post(d, "failed", "closed")

\* The process of the recovery dies.  (The last attempt is spared: an outage
\* of all of them is not modelled.)
RecoveryCrashes(d) ==
    /\ "crash" \in Faults
    /\ workflow[d] \in RecoveryPhases
    /\ recoveries[d] + 1 < MaxRecoveries
    /\ AttemptFails(d)
    /\ UNCHANGED <<state, doubted, executor, candidate, release>>

-----------------------------------------------------------------------------
ApiStep(d) ==
    Enqueue(d) \/ EnqueueFails(d) \/ EnqueueUnconfirmed(d) \/ FailDoubted(d) \/ ApiStops(d)

WorkflowStep(d) ==
    \/ StartWorkflow(d) \/ MarkWaiting(d) \/ MarkWaitingFails(d) \/ StartExecutor(d)
    \/ ExecutorReturns(d) \/ HeartbeatTimeout(d) \/ Continue(d)

ExecutorStep(d) ==
    \/ Transition(d) \/ StartCandidate(d) \/ BuildFallback(d)
    \/ CommitRelease(d) \/ CommitFails(d) \/ StepFails(d)
    \/ RollBackCandidate(d) \/ ReportFailure(d) \/ ExecutorCrashes(d)

RecoveryStep(d) ==
    \/ ReadStatus(d) \/ AdvanceCommitted(d) \/ FinalizeCommitted(d)
    \/ RollBackInterrupted(d) \/ ReportInterrupted(d) \/ RecoveryCrashes(d)

Next == \E d \in Deployments :
    \/ RequestDeployment(d) \/ CancelDeployment(d)
    \/ ApiStep(d) \/ WorkflowStep(d) \/ ExecutorStep(d) \/ RecoveryStep(d)

Spec == Init /\ [][Next]_vars

(***************************************************************************)
(* The API finishes its request, Temporal schedules workflows and          *)
(* activities, and every step of an executor has a timeout.  Nobody has to *)
(* request a deployment or to cancel one.                                  *)
(***************************************************************************)
Fairness == \A d \in Deployments :
    /\ WF_vars(ApiStep(d))
    /\ WF_vars(WorkflowStep(d))
    /\ WF_vars(ExecutorStep(d))
    /\ WF_vars(RecoveryStep(d))

FairSpec == Spec /\ Fairness

-----------------------------------------------------------------------------
(***************************************************************************)
(* Safety                                                                  *)
(***************************************************************************)

\* The type of every variable.
TypeOK ==
    /\ state \in [Deployments -> deploymentStates \cup {"unrequested"}]
    /\ doubted \subseteq Deployments
    /\ workflow \in [Deployments -> WorkflowPhases]
    /\ executor \in [Deployments -> [phase : ExecutorPhases, cursor : SequentialStates,
                                     aborted : BOOLEAN]]
    /\ recoveries \in [Deployments -> 0..MaxRecoveries]
    /\ candidate \in [Deployments -> {"none", "running", "removed"}]
    /\ release \in [Deployments -> ReleaseStatuses]

\* Whoever commits, and however often a commit is repeated, the application
\* has one current release and at most one previous one to roll back to.
LedgerConsistent == Consistent(release)

\* A deployment that is reported as successful has a release.
SuccessMeansReleased ==
    \A d \in Deployments : state[d] \in SuccessStates => release[d] # "none"

\* What holds whoever acts, late executors included: the types, a consistent
\* ledger, and no success without a release in it.
LifecycleInv == TypeOK /\ LedgerConsistent /\ SuccessMeansReleased

\* The states of a deployment that came to nothing.
FailedStates == {"failed", "cancelled", "skipped"}

\* A deployment that is reported as failed, cancelled or skipped has none: the
\* release that serves traffic never belongs to it.
FailureMeansUnreleased ==
    \A d \in Deployments : state[d] \in FailedStates => release[d] = "none"

\* The container of a release is never rolled back, neither by an executor
\* that did not learn of its commit nor by recovery.
ReleaseKeepsCandidate ==
    \A d \in Deployments : release[d] # "none" => candidate[d] # "removed"

\* A commit, learnt of or not, decides what is reported and what is removed.
CommitIsRespected == FailureMeansUnreleased /\ ReleaseKeepsCandidate

\* A deployment that failed, was cancelled or skipped leaves no container
\* running when its workflow has ended.  (An unconfirmed Compose release is left on
\* purpose.)
NothingLeftBehind ==
    \A d \in Deployments :
        workflow[d] = "closed" /\ state[d] \in FailedStates
        => candidate[d] # "running"

\* When the workflow has ended and no executor is left, nobody else will
\* decide the deployment: it has been decided.
NotStranded ==
    \A d \in Deployments :
        workflow[d] = "closed" /\ ~Alive(d) => state[d] \in terminalDeploymentStates

\* A decided deployment stays as it was decided, whatever late executors and
\* recoveries post: only the API overrules it, when its signal to the server
\* fails.
TerminalIsFinal ==
    [][\A d \in Deployments :
          state[d] \in terminalDeploymentStates =>
             \/ state'[d] = state[d]
             \/ state'[d] = "failed" /\ (workflow[d] = "admitted" \/ d \in doubted \ doubted')]_vars

(***************************************************************************)
(* The lifecycle implements DeploymentOutcome.                             *)
(***************************************************************************)
OutcomeOf(s) ==
    CASE s \in SuccessStates                        -> "succeeded"
      [] s \in terminalDeploymentStates \ SuccessStates -> "failed"
      [] OTHER                                      -> "open"

Outcome == INSTANCE DeploymentOutcome WITH
             outcome <- [d \in Deployments |-> OutcomeOf(state[d])],
             ledger  <- release

OutcomeSpec == Outcome!Spec

\* A requested deployment is decided at last, whatever crashes: time and again
\* none is left undecided.
RequestedIsDecided ==
    []<>(\A d \in Deployments : state[d] \in terminalDeploymentStates \cup {"unrequested"})

=============================================================================
