---------------------- MODULE DeploymentLifecycleProofs ----------------------
(***************************************************************************)
(* What DeploymentLifecycle guarantees for any number of deployments, any  *)
(* number of recovery attempts and both kinds of application: first with   *)
(* every combination of faults, then as long as nobody works on a          *)
(* deployment beside its executor or recovery (OneAtATime), last that the  *)
(* lifecycle implements DeploymentOutcome.                                 *)
(***************************************************************************)
EXTENDS DeploymentLifecycle, TLAPS

\* An attempt of the recovery is left as long as the workflow goes on.
AttemptsLeft ==
    \A d \in Deployments : workflow[d] # "closed" => recoveries[d] < MaxRecoveries

\* A workflow belongs to a row.
RowsOfWorkflows ==
    \A d \in Deployments : workflow[d] # "none" => state[d] # "unrequested"

\* An executor is past the commit only with a release ...
PromotedIsReleased ==
    \A d \in Deployments : executor[d].phase = "promoted" => release[d] # "none"

\* ... and posts the states behind the commit only then.
RunningIsUnpromoted ==
    \A d \in Deployments :
        executor[d].phase = "running"
        => executor[d].cursor \notin {"running_post_deploy", "cleaning_up"}

\* Recovery finishes a deployment only with a release.
FinishedIsReleased ==
    \A d \in Deployments :
        workflow[d] \in {"advancing", "finalizing"} => release[d] # "none"

(***************************************************************************)
(* The inductive invariant.  Success is posted by a promoted executor and  *)
(* by a recovery that found a release, and a release is never taken away.  *)
(***************************************************************************)
IInv ==
    /\ TypeOK
    /\ AttemptsLeft
    /\ RowsOfWorkflows
    /\ LedgerConsistent
    /\ PromotedIsReleased
    /\ RunningIsUnpromoted
    /\ FinishedIsReleased
    /\ SuccessMeansReleased

-----------------------------------------------------------------------------
(***************************************************************************)
(* The ledger.                                                             *)
(***************************************************************************)
LEMMA PromotedLedger ==
    ASSUME NEW ledger \in [Deployments -> ReleaseStatuses],
           NEW d \in Deployments, ledger[d] = "none", Consistent(ledger)
    PROVE  /\ Promoted(ledger, d) \in [Deployments -> ReleaseStatuses]
           /\ Promoted(ledger, d)[d] = "current"
           /\ \A e \in Deployments : ledger[e] # "none" => Promoted(ledger, d)[e] # "none"
           /\ Consistent(Promoted(ledger, d))
<1> DEFINE after == Promoted(ledger, d)
<1>1. DOMAIN ledger = Deployments /\ \A e \in Deployments : ledger[e] \in ReleaseStatuses
  OBVIOUS
<1>2. /\ DOMAIN after = Deployments
      /\ after \in [Deployments -> ReleaseStatuses]
      /\ after[d] = "current"
      /\ \A e \in Deployments \ {d} :
            /\ ledger[e] = "current" => after[e] = "previous"
            /\ ledger[e] = "previous" => after[e] = "superseded"
            /\ ledger[e] = "superseded" => after[e] = "superseded"
            /\ ledger[e] = "none" => after[e] = "none"
  BY <1>1 DEF Promoted, ReleaseStatuses
<1> HIDE DEF after
<1>3. Consistent(after)
  BY <1>1, <1>2 DEF Consistent, WithStatus, ReleaseStatuses
<1>4. \A e \in Deployments : ledger[e] # "none" => after[e] # "none"
  BY <1>1, <1>2 DEF ReleaseStatuses
<1>5. QED
  BY <1>2, <1>3, <1>4 DEF after

(***************************************************************************)
(* The order in which an executor posts its states.                        *)
(***************************************************************************)
LEMMA Postable ==
    ASSUME NEW cursor, NEW s \in NextPosts(cursor)
    PROVE  /\ s \in deploymentStates \ {"queued"}
           /\ s \notin SuccessStates => s \in SequentialStates
           /\ s \in SuccessStates => cursor = "cleaning_up"
           /\ s = "cleaning_up" => cursor \in {"running_post_deploy", "switching_traffic"}
           /\ s = "running_post_deploy" => cursor = "switching_traffic"
<1>0. SequentialStates = {"queued", "waiting_for_server", "preparing",
        "validating_credentials", "checking_server", "fetching_source",
        "resolving_secrets", "transferring", "building", "running_pre_deploy",
        "starting_candidate", "checking_health", "configuring_routing",
        "provisioning_tls", "checking_public_endpoint", "switching_traffic",
        "running_post_deploy", "cleaning_up"}
  BY DEF SequentialStates, sequentialStates
<1>1. CASE Compose /\ cursor \in DOMAIN ComposeSkips
  BY <1>0, <1>1 DEF NextPosts, ComposeSkips, deploymentStates, SuccessStates
<1>2. CASE ~(Compose /\ cursor \in DOMAIN ComposeSkips)
  BY <1>0, <1>2 DEF NextPosts, Follows, deploymentStates, sequentialStates,
     SuccessStates
<1>3. QED
  BY <1>1, <1>2

\* The states that are posted by name.
LEMMA KnownStates ==
    /\ SequentialStates \subseteq deploymentStates
    /\ {"queued", "waiting_for_server", "preparing", "switching_traffic", "cleaning_up"}
           \subseteq SequentialStates
    /\ {"failed", "cancelled", "succeeded"} \subseteq deploymentStates
    /\ \A s \in SequentialStates \cup {"failed", "cancelled", "unrequested"} :
          s \notin SuccessStates
BY DEF deploymentStates, terminalDeploymentStates, SequentialStates, sequentialStates,
       SuccessStates

\* A decided deployment is in none of the states that follow one another.
LEMMA DecidedStates ==
    /\ SequentialStates \cap terminalDeploymentStates = {}
    /\ deploymentStates = SequentialStates \cup terminalDeploymentStates
BY DEF deploymentStates, terminalDeploymentStates, SequentialStates, sequentialStates,
       SuccessStates

\* A row may be overwritten with any state that is no success, and with a
\* success where there is a release.
LEMMA RowWritten ==
    ASSUME TypeOK, SuccessMeansReleased, NEW d \in Deployments, NEW s \in deploymentStates,
           s \in SuccessStates => release[d] # "none",
           state' = [state EXCEPT ![d] = s], release' = release
    PROVE  /\ state' \in [Deployments -> deploymentStates \cup {"unrequested"}]
           /\ SuccessMeansReleased'
           /\ RowsOfWorkflows => \A e \in Deployments :
                                   workflow[e] # "none" => state'[e] # "unrequested"
BY LifecycleAssumption DEF TypeOK, SuccessMeansReleased, RowsOfWorkflows

\* A request skips the rows that are queued, and inserts one.
LEMMA RowRequested ==
    ASSUME TypeOK, NEW d \in Deployments, RequestDeployment(d), NEW e \in Deployments
    PROVE  state'[e] = IF e = d THEN "queued"
                       ELSE IF state[e] = "queued" THEN "skipped" ELSE state[e]
BY DEF TypeOK, RequestDeployment, QueuedAreSkipped

LEMMA InitIInv == Init => IInv
BY LifecycleAssumption
   DEF Init, IInv, TypeOK, AttemptsLeft, RowsOfWorkflows, LedgerConsistent, Consistent, WithStatus,
       PromotedIsReleased, RunningIsUnpromoted, FinishedIsReleased, SuccessMeansReleased,
       WorkflowPhases, ExecutorPhases, NoExecutor, Executor, ReleaseStatuses,
       SequentialStates, sequentialStates, SuccessStates

-----------------------------------------------------------------------------
(***************************************************************************)
(* A row that is posted or overwritten with a state that is no success.    *)
(***************************************************************************)
LEMMA RequestKeepsIInv ==
    ASSUME IInv, NEW d \in Deployments, RequestDeployment(d)
    PROVE  IInv'
<1>0. {"queued", "skipped"} \subseteq deploymentStates \ SuccessStates
  BY DEF deploymentStates, terminalDeploymentStates, SequentialStates, sequentialStates,
     SuccessStates
<1>1. /\ state' \in [Deployments -> deploymentStates \cup {"unrequested"}]
      /\ SuccessMeansReleased'
  <2>1. DOMAIN state' = Deployments /\ state' = [e \in Deployments |-> state'[e]]
    BY DEF RequestDeployment, QueuedAreSkipped
  <2>2. \A e \in Deployments : /\ state'[e] \in deploymentStates \cup {"unrequested"}
                               /\ state'[e] \in SuccessStates => state'[e] = state[e]
    BY <1>0, RowRequested DEF IInv, TypeOK
  <2>3. SuccessMeansReleased'
    BY <2>2 DEF IInv, SuccessMeansReleased, RequestDeployment
  <2>4. QED
    BY <2>1, <2>2, <2>3
<1>2. TypeOK' /\ LedgerConsistent' /\ PromotedIsReleased' /\ RunningIsUnpromoted'
  BY <1>1 DEF IInv, RequestDeployment, TypeOK, WorkflowPhases, LedgerConsistent,
     PromotedIsReleased, RunningIsUnpromoted
<1>3. AttemptsLeft' /\ FinishedIsReleased'
  BY LifecycleAssumption
     DEF IInv, RequestDeployment, TypeOK, AttemptsLeft, RowsOfWorkflows, FinishedIsReleased
<1>4. RowsOfWorkflows'
  <2>1. \A e \in Deployments \ {d} : workflow'[e] = workflow[e]
    BY DEF RequestDeployment, IInv, TypeOK
  <2>2. \A e \in Deployments : state'[e] = "unrequested" => e # d /\ state[e] = "unrequested"
    BY <1>0, RowRequested, LifecycleAssumption DEF IInv
  <2>3. QED
    BY <2>1, <2>2 DEF IInv, RowsOfWorkflows
<1>5. QED
  BY <1>1, <1>2, <1>3, <1>4 DEF IInv

LEMMA ApiStepKeepsIInv ==
    ASSUME IInv, NEW d \in Deployments, ApiStep(d)
    PROVE  IInv'
<1> USE DEF IInv, TypeOK, AttemptsLeft, RowsOfWorkflows, LedgerConsistent, PromotedIsReleased,
            RunningIsUnpromoted, FinishedIsReleased, SuccessMeansReleased, WorkflowPhases,
            AtWork, deploymentStates, terminalDeploymentStates, SuccessStates
<1>1. CASE Enqueue(d)
  BY <1>1 DEF Enqueue
<1>2. CASE EnqueueFails(d)
  BY <1>2 DEF EnqueueFails
<1>3. CASE EnqueueUnconfirmed(d)
  BY <1>3 DEF EnqueueUnconfirmed
<1>4. CASE FailDoubted(d)
  BY <1>4 DEF FailDoubted
<1>5. CASE ApiStops(d)
  BY <1>5 DEF ApiStops
<1>6. QED
  BY <1>1, <1>2, <1>3, <1>4, <1>5 DEF ApiStep

LEMMA CancelKeepsIInv ==
    ASSUME IInv, NEW d \in Deployments, CancelDeployment(d)
    PROVE  IInv'
<1> USE DEF IInv, TypeOK, AttemptsLeft, RowsOfWorkflows, LedgerConsistent,
            PromotedIsReleased, RunningIsUnpromoted, FinishedIsReleased
<1>1. CASE state' = [state EXCEPT ![d] = "cancelled"] /\ UNCHANGED <<workflow, executor>>
  <2>1. /\ state' \in [Deployments -> deploymentStates \cup {"unrequested"}]
        /\ SuccessMeansReleased' /\ RowsOfWorkflows'
    BY <1>1, RowWritten, KnownStates DEF CancelDeployment
  <2>2. QED
    BY <1>1, <2>1 DEF CancelDeployment
<1>2. CASE /\ workflow[d] = "marked" /\ workflow' = [workflow EXCEPT ![d] = "closed"]
           /\ UNCHANGED <<state, executor>>
  BY <1>2 DEF CancelDeployment, WorkflowPhases, SuccessMeansReleased
<1>3. CASE /\ workflow[d] = "executing" /\ workflow' = [workflow EXCEPT ![d] = "recovering"]
           /\ executor' = [executor EXCEPT ![d].aborted = Alive(d)]
           /\ UNCHANGED state
  <2>1. executor' \in [Deployments -> [phase : ExecutorPhases, cursor : SequentialStates,
                                       aborted : BOOLEAN]]
    <3>1. Alive(d) \in BOOLEAN
      BY DEF Alive
    <3>2. QED
      BY <1>3, <3>1
  <2>2. \A e \in Deployments : /\ executor'[e].phase = executor[e].phase
                               /\ executor'[e].cursor = executor[e].cursor
    BY <1>3
  <2>3. workflow' \in [Deployments -> WorkflowPhases]
    BY <1>3 DEF WorkflowPhases, AtWork, RecoveryPhases
  <2>4. TypeOK'
    BY <1>3, <2>1, <2>3 DEF CancelDeployment
  <2>5. AttemptsLeft' /\ RowsOfWorkflows' /\ FinishedIsReleased'
    BY <1>3 DEF CancelDeployment
  <2>6. LedgerConsistent' /\ PromotedIsReleased' /\ RunningIsUnpromoted'
    BY <2>2 DEF CancelDeployment
  <2>7. SuccessMeansReleased'
    BY <1>3 DEF CancelDeployment, SuccessMeansReleased
  <2>8. QED
    BY <2>4, <2>5, <2>6, <2>7
<1>4. QED
  BY <1>1, <1>2, <1>3 DEF CancelDeployment

LEMMA WorkflowStepKeepsIInv ==
    ASSUME IInv, NEW d \in Deployments, WorkflowStep(d)
    PROVE  IInv'
<1> USE DEF IInv, TypeOK, AttemptsLeft, RowsOfWorkflows, LedgerConsistent, PromotedIsReleased,
            RunningIsUnpromoted, FinishedIsReleased, SuccessMeansReleased, WorkflowPhases,
            AtWork, RecoveryPhases
<1>1. CASE StartWorkflow(d)
  BY <1>1 DEF StartWorkflow
<1>2. CASE MarkWaiting(d)
  <2>1. CASE Accepts(d, "waiting_for_server")
    <3>1. /\ state' \in [Deployments -> deploymentStates \cup {"unrequested"}]
          /\ SuccessMeansReleased' /\ \A e \in Deployments :
                                       workflow[e] # "none" => state'[e] # "unrequested"
      BY <1>2, <2>1, RowWritten, KnownStates DEF MarkWaiting
    <3>2. QED
      BY <1>2, <2>1, <3>1 DEF MarkWaiting
  <2>2. CASE ~Accepts(d, "waiting_for_server")
    BY <1>2, <2>2 DEF MarkWaiting
  <2>3. QED
    BY <2>1, <2>2
<1>3. CASE MarkWaitingFails(d)
  BY <1>3 DEF MarkWaitingFails
<1>4. CASE StartExecutor(d)
  BY <1>4 DEF StartExecutor, Executor, ExecutorPhases, AlivePhases, SequentialStates,
     sequentialStates
<1>5. CASE ExecutorReturns(d)
  BY <1>5 DEF ExecutorReturns
<1>6. CASE HeartbeatTimeout(d)
  BY <1>6 DEF HeartbeatTimeout
<1>7. CASE Continue(d)
  BY <1>7 DEF Continue
<1>8. QED
  BY <1>1, <1>2, <1>3, <1>4, <1>5, <1>6, <1>7 DEF WorkflowStep

LEMMA ExecutorStepKeepsIInv ==
    ASSUME IInv, NEW d \in Deployments, ExecutorStep(d)
    PROVE  IInv'
<1> USE DEF IInv, TypeOK, AttemptsLeft, RowsOfWorkflows, LedgerConsistent, PromotedIsReleased,
            RunningIsUnpromoted, FinishedIsReleased, SuccessMeansReleased,
            ExecutorPhases, AlivePhases
<1>1. CASE Transition(d)
  <2>1. PICK s \in NextPosts(executor[d].cursor) :
            /\ state' = [state EXCEPT ![d] = s]
            /\ executor' = [executor EXCEPT ![d] =
                              IF s \in SuccessStates THEN Done ELSE [@ EXCEPT !.cursor = s]]
    BY <1>1 DEF Transition
  <2>2. executor[d].phase \in {"running", "promoted"}
    BY <1>1 DEF Transition
  <2>3. executor[d].phase = "running" => executor[d].cursor # "switching_traffic"
    BY <1>1 DEF Transition
  <2>4. /\ s \in deploymentStates
        /\ s \notin SuccessStates => s \in SequentialStates
        /\ s \in SuccessStates => executor[d].phase = "promoted"
        /\ executor[d].phase = "running" => s \notin {"running_post_deploy", "cleaning_up"}
    BY <2>2, <2>3, Postable
  <2>5. s \in SuccessStates => release[d] # "none"
    BY <2>4
  <2>6. /\ state' \in [Deployments -> deploymentStates \cup {"unrequested"}]
        /\ SuccessMeansReleased' /\ RowsOfWorkflows'
    BY <1>1, <2>1, <2>4, <2>5, RowWritten DEF Transition
  <2>7. CASE s \in SuccessStates
    BY <1>1, <2>1, <2>6, <2>7, KnownStates DEF Transition, Done, Executor
  <2>8. CASE s \notin SuccessStates
    BY <1>1, <2>1, <2>2, <2>4, <2>6, <2>8 DEF Transition
  <2>9. QED
    BY <2>7, <2>8
<1>2. CASE StartCandidate(d)
  BY <1>2 DEF StartCandidate
<1>3. CASE BuildFallback(d)
  <2>1. CASE Accepts(d, "preparing")
    <3>1. /\ state' \in [Deployments -> deploymentStates \cup {"unrequested"}]
          /\ SuccessMeansReleased' /\ RowsOfWorkflows'
      BY <1>3, <2>1, RowWritten, KnownStates DEF BuildFallback
    <3>2. QED
      BY <1>3, <2>1, <3>1 DEF BuildFallback
  <2>2. CASE ~Accepts(d, "preparing")
    <3>1. /\ executor' = [executor EXCEPT ![d].phase = "rolling_back"]
          /\ UNCHANGED <<state, doubted, workflow, recoveries, candidate, release>>
      BY <1>3, <2>2 DEF BuildFallback, Thrown
    <3>2. QED
      BY <3>1
  <2>3. QED
    BY <2>1, <2>2
<1>4. CASE CommitRelease(d)
  BY <1>4, PromotedLedger DEF CommitRelease, AfterCommit
<1>5. CASE CommitFails(d)
  BY <1>5 DEF CommitFails
<1>6. CASE StepFails(d)
  BY <1>6 DEF StepFails, Thrown, Gone, Executor, SequentialStates, sequentialStates
<1>7. CASE RollBackCandidate(d)
  BY <1>7 DEF RollBackCandidate, RolledBack
<1>8. CASE ReportFailure(d)
  BY <1>8 DEF ReportFailure, Gone, Executor, deploymentStates, terminalDeploymentStates,
     SequentialStates, sequentialStates, SuccessStates
<1>9. CASE ExecutorCrashes(d)
  BY <1>9 DEF ExecutorCrashes, Gone, Executor, SequentialStates, sequentialStates
<1>10. QED
  BY <1>1, <1>2, <1>3, <1>4, <1>5, <1>6, <1>7, <1>8, <1>9 DEF ExecutorStep

LEMMA RecoveryStepKeepsIInv ==
    ASSUME IInv, NEW d \in Deployments, RecoveryStep(d)
    PROVE  IInv'
<1> USE DEF IInv, TypeOK, AttemptsLeft, RowsOfWorkflows, LedgerConsistent, PromotedIsReleased,
            RunningIsUnpromoted, FinishedIsReleased, SuccessMeansReleased,
            WorkflowPhases, AtWork, RecoveryPhases, GoOn
<1>1. CASE ReadStatus(d)
  BY <1>1 DEF ReadStatus, Committed
<1>2. ASSUME NEW s \in deploymentStates, NEW phase \in {"finalizing", "continuing", "closed"},
             Post(d, s, phase), workflow[d] \in RecoveryPhases,
             s \in SuccessStates \/ phase = "finalizing" => release[d] # "none"
      PROVE  IInv'
  <2>1. CASE Accepts(d, s)
    <3>1. /\ state' \in [Deployments -> deploymentStates \cup {"unrequested"}]
          /\ SuccessMeansReleased' /\ \A e \in Deployments :
                                       workflow[e] # "none" => state'[e] # "unrequested"
      BY <1>2, <2>1, RowWritten DEF Post
    <3>2. /\ workflow' = [workflow EXCEPT ![d] = phase]
          /\ UNCHANGED <<doubted, executor, recoveries, candidate, release>>
      BY <1>2, <2>1 DEF Post
    <3>3. TypeOK' /\ RowsOfWorkflows'
      BY <1>2, <3>1, <3>2
    <3>4. AttemptsLeft' /\ FinishedIsReleased'
      BY <1>2, <3>2
    <3>5. LedgerConsistent' /\ PromotedIsReleased' /\ RunningIsUnpromoted'
      BY <3>2
    <3>6. QED
      BY <3>1, <3>3, <3>4, <3>5
  <2>2. CASE ~Accepts(d, s)
    <3>1. /\ AttemptFails(d)
          /\ UNCHANGED <<state, doubted, executor, candidate, release>>
      BY <1>2, <2>2 DEF Post
    <3>2. QED
      BY <1>2, <3>1, LifecycleAssumption DEF AttemptFails
  <2>3. QED
    BY <2>1, <2>2
<1>3. "cleaning_up" \in deploymentStates \ SuccessStates /\ "succeeded" \in deploymentStates
      /\ "failed" \in deploymentStates \ SuccessStates
  BY DEF deploymentStates, terminalDeploymentStates, SequentialStates, sequentialStates,
         SuccessStates
<1>4. CASE AdvanceCommitted(d)
  BY <1>2, <1>3, <1>4 DEF AdvanceCommitted
<1>5. CASE FinalizeCommitted(d)
  BY <1>2, <1>3, <1>5 DEF FinalizeCommitted
<1>6. CASE RollBackInterrupted(d)
  BY <1>6 DEF RollBackInterrupted, RolledBack
<1>7. CASE ReportInterrupted(d)
  BY <1>2, <1>3, <1>7 DEF ReportInterrupted
<1>8. CASE RecoveryCrashes(d)
  BY <1>8, LifecycleAssumption DEF RecoveryCrashes, AttemptFails
<1>9. QED
  BY <1>1, <1>4, <1>5, <1>6, <1>7, <1>8 DEF RecoveryStep

LEMMA NextKeepsIInv == IInv /\ [Next]_vars => IInv'
<1> SUFFICES ASSUME IInv, [Next]_vars PROVE IInv'
  OBVIOUS
<1>1. ASSUME NEW d \in Deployments,
             \/ RequestDeployment(d) \/ CancelDeployment(d)
             \/ ApiStep(d) \/ WorkflowStep(d) \/ ExecutorStep(d) \/ RecoveryStep(d)
      PROVE  IInv'
  BY <1>1, RequestKeepsIInv, CancelKeepsIInv, ApiStepKeepsIInv, WorkflowStepKeepsIInv,
     ExecutorStepKeepsIInv, RecoveryStepKeepsIInv
<1>2. CASE UNCHANGED vars
  BY <1>2 DEF vars, IInv, TypeOK, AttemptsLeft, RowsOfWorkflows, LedgerConsistent, PromotedIsReleased,
     RunningIsUnpromoted, FinishedIsReleased, SuccessMeansReleased
<1>3. QED
  BY <1>1, <1>2 DEF Next

-----------------------------------------------------------------------------
(***************************************************************************)
(* The theorems.                                                           *)
(***************************************************************************)

\* The inductive invariant holds in every reachable state.
THEOREM Invariance == Spec => []IInv
<1>1. Init => IInv
  BY InitIInv
<1>2. IInv /\ [Next]_vars => IInv'
  BY NextKeepsIInv
<1>3. QED
  BY <1>1, <1>2, PTL DEF Spec

\* Every variable keeps its type; in particular the attempts of the recovery
\* activity stay within their limit.
THEOREM TypeCorrect == Spec => []TypeOK
<1>1. IInv => TypeOK
  BY DEF IInv
<1>2. QED
  BY <1>1, Invariance, PTL

\* Whatever fails, overlaps or is repeated, the application has one current
\* release and at most one previous one.
THEOREM LedgerStaysConsistent == Spec => []LedgerConsistent
<1>1. IInv => LedgerConsistent
  BY DEF IInv
<1>2. QED
  BY <1>1, Invariance, PTL

\* A deployment is never reported as successful without a release.
THEOREM SuccessIsReleased == Spec => []SuccessMeansReleased
<1>1. IInv => SuccessMeansReleased
  BY DEF IInv
<1>2. QED
  BY <1>1, Invariance, PTL

\* What holds of deployments whoever acts, late executors included.
THEOREM LifecycleIsSound == Spec => []LifecycleInv
<1>1. IInv => LifecycleInv
  BY DEF IInv, LifecycleInv
<1>2. QED
  BY <1>1, Invariance, PTL

-----------------------------------------------------------------------------
(***************************************************************************)
(* One at a time.  As long as Temporal gives up on no executor that still  *)
(* runs, no user cancels, and the API overrules no row it signalled, the   *)
(* executor and the recovery of a deployment never work at the same time.  *)
(* Crashes, failed steps, lost answers of a commit, and hosts that do not  *)
(* answer are all still allowed.                                           *)
(***************************************************************************)
OneAtATime == Faults \cap {"late", "cancel", "enqueue"} = {}

\* The executor works under its workflow, on a row that is open; the recovery
\* and the end of the workflow come after it.
ExecutorHasItsTurn ==
    \A d \in Deployments :
        /\ Alive(d) => workflow[d] = "executing" /\ state[d] \in SequentialStates
        /\ workflow[d] \in {"none", "admitted", "queued", "marking", "marked"}
              => executor[d].phase = "none" /\ candidate[d] = "none"
        /\ workflow[d] = "marked" => state[d] \in SequentialStates

\* Nobody has begun a deployment that is queued, and may be skipped.
QueuedIsUntouched ==
    \A d \in Deployments :
        state[d] = "queued" =>
            /\ workflow[d] \in {"admitted", "queued", "marking", "closed"}
            /\ executor[d].phase = "none" /\ candidate[d] = "none"

\* A row is only failed by the deployment's executor and recovery.
NobodyElseDecides == doubted = {}

\* What an executor knows of the release at each of its phases ...
ExecutorKnowsRelease ==
    \A d \in Deployments :
        /\ executor[d].phase \in {"none", "running", "rolling_back", "reporting"}
              => release[d] = "none"
        /\ executor[d].phase \in {"running", "uncertain", "promoted"}
              => candidate[d] # "removed"

\* ... and what recovery knows once it has read the status.
RecoveryKnowsRelease ==
    \A d \in Deployments :
        workflow[d] \in {"reconciling", "rolling_back", "reporting"}
        => release[d] = "none" /\ state[d] \in SequentialStates

(***************************************************************************)
(* The inductive invariant behind CommitIsRespected: a release is looked   *)
(* for, and found or not, by somebody who works on the deployment alone.   *)
(***************************************************************************)
TurnsInv ==
    /\ NobodyElseDecides
    /\ ExecutorHasItsTurn
    /\ QueuedIsUntouched
    /\ ExecutorKnowsRelease
    /\ RecoveryKnowsRelease
    /\ CommitIsRespected

(***************************************************************************)
(* The inductive invariant behind NothingLeftBehind: a failure is posted   *)
(* behind the rollback of the candidate.  A host that does not answer and  *)
(* a Compose project keep theirs.                                          *)
(***************************************************************************)
EveryRollbackWorks == ~Compose /\ "ssh" \notin Faults

RollbackComesFirst ==
    \A d \in Deployments :
        \/ executor[d].phase = "reporting"
        \/ workflow[d] \in {"reconciling", "reporting"}
        \/ state[d] \in FailedStates
        => candidate[d] # "running"

LEMMA InitTurnsInv == Init => TurnsInv /\ RollbackComesFirst
BY LifecycleAssumption, KnownStates
   DEF Init, TurnsInv, NobodyElseDecides, ExecutorHasItsTurn, QueuedIsUntouched,
       ExecutorKnowsRelease, RecoveryKnowsRelease, CommitIsRespected,
       FailureMeansUnreleased, FailedStates, ReleaseKeepsCandidate, RollbackComesFirst,
       NoExecutor, Executor, Alive, AlivePhases

\* The faults that are excluded.
LEMMA NoOverlap ==
    ASSUME OneAtATime, TurnsInv, NEW d \in Deployments
    PROVE  /\ ~EnqueueFails(d) /\ ~EnqueueUnconfirmed(d) /\ ~FailDoubted(d)
           /\ ~CancelDeployment(d) /\ ~HeartbeatTimeout(d)
BY DEF OneAtATime, TurnsInv, NobodyElseDecides, EnqueueFails, EnqueueUnconfirmed, FailDoubted,
       CancelDeployment, HeartbeatTimeout

LEMMA ApiKeepsTurnsInv ==
    ASSUME OneAtATime, IInv, TurnsInv, NEW d \in Deployments,
           RequestDeployment(d) \/ ApiStep(d)
    PROVE  TurnsInv' /\ (RollbackComesFirst => RollbackComesFirst')
<1> USE DEF IInv, TypeOK, RowsOfWorkflows, TurnsInv, NobodyElseDecides, ExecutorHasItsTurn,
            QueuedIsUntouched, FailedStates, ExecutorKnowsRelease, RecoveryKnowsRelease, CommitIsRespected,
            FailureMeansUnreleased, ReleaseKeepsCandidate, RollbackComesFirst, Alive, AlivePhases
<1>1. CASE RequestDeployment(d)
  <2>1. \A e \in Deployments : state'[e] = IF e = d THEN "queued"
                                ELSE IF state[e] = "queued" THEN "skipped" ELSE state[e]
    BY <1>1, RowRequested
  <2>2. /\ state[d] = "unrequested" /\ workflow' = [workflow EXCEPT ![d] = "admitted"]
        /\ UNCHANGED <<doubted, executor, recoveries, candidate, release>>
    BY <1>1 DEF RequestDeployment
  <2>3. state[d] \notin SequentialStates \cup FailedStates
    BY <2>2, KnownStates, LifecycleAssumption
       DEF deploymentStates, terminalDeploymentStates
  <2>4. workflow[d] = "none"
    BY <2>2
  <2>5. \A e \in Deployments : state[e] = "queued" =>
            /\ e # d /\ executor[e].phase = "none" /\ candidate[e] = "none"
            /\ release[e] = "none" /\ state'[e] = "skipped"
            /\ workflow[e] \in {"admitted", "queued", "marking", "closed"}
    BY <2>1, <2>2
  <2>6. NobodyElseDecides' /\ ReleaseKeepsCandidate' /\ ExecutorKnowsRelease'
    BY <2>2
  <2>7. ExecutorHasItsTurn' /\ QueuedIsUntouched' /\ RecoveryKnowsRelease'
    BY <2>1, <2>2, <2>3, <2>4, <2>5, KnownStates
  <2>8. FailureMeansUnreleased' /\ (RollbackComesFirst => RollbackComesFirst')
    BY <2>1, <2>2, <2>5
  <2>9. QED
    BY <2>6, <2>7, <2>8
<1>2. CASE Enqueue(d)
  BY <1>2 DEF Enqueue
<1>3. CASE ApiStops(d)
  BY <1>3 DEF ApiStops
<1>4. QED
  BY <1>1, <1>2, <1>3, NoOverlap DEF ApiStep

LEMMA WorkflowKeepsTurnsInv ==
    ASSUME OneAtATime, IInv, TurnsInv, NEW d \in Deployments, WorkflowStep(d)
    PROVE  TurnsInv' /\ (RollbackComesFirst => RollbackComesFirst')
<1> USE DEF IInv, TypeOK, TurnsInv, NobodyElseDecides, ExecutorHasItsTurn,
            QueuedIsUntouched, FailedStates, ExecutorKnowsRelease, RecoveryKnowsRelease, CommitIsRespected,
            FailureMeansUnreleased, ReleaseKeepsCandidate, RollbackComesFirst, Alive, AlivePhases
<1>1. CASE StartWorkflow(d)
  BY <1>1 DEF StartWorkflow
<1>2. CASE MarkWaiting(d)
  BY <1>2, KnownStates DEF MarkWaiting
<1>3. CASE MarkWaitingFails(d)
  BY <1>3 DEF MarkWaitingFails
<1>4. CASE StartExecutor(d)
  BY <1>4 DEF StartExecutor, Executor
<1>5. CASE ExecutorReturns(d)
  BY <1>5 DEF ExecutorReturns
<1>6. CASE Continue(d)
  BY <1>6 DEF Continue
<1>7. QED
  BY <1>1, <1>2, <1>3, <1>4, <1>5, <1>6, NoOverlap DEF WorkflowStep

LEMMA ExecutorKeepsTurnsInv ==
    ASSUME OneAtATime, IInv, TurnsInv, NEW d \in Deployments, ExecutorStep(d)
    PROVE  TurnsInv' /\ (EveryRollbackWorks /\ RollbackComesFirst => RollbackComesFirst')
<1> USE DEF IInv, TypeOK, TurnsInv, NobodyElseDecides, ExecutorHasItsTurn,
            QueuedIsUntouched, FailedStates, ExecutorKnowsRelease, RecoveryKnowsRelease, CommitIsRespected,
            FailureMeansUnreleased, ReleaseKeepsCandidate, RollbackComesFirst, Alive, AlivePhases
<1>1. CASE Transition(d)
  <2>1. PICK s \in NextPosts(executor[d].cursor) :
            /\ state' = [state EXCEPT ![d] = s]
            /\ executor' = [executor EXCEPT ![d] =
                              IF s \in SuccessStates THEN Done ELSE [@ EXCEPT !.cursor = s]]
    BY <1>1 DEF Transition
  <2>2. s \in SuccessStates \/ s \in SequentialStates
    BY <2>1, Postable
  <2>3. s \notin FailedStates /\ s # "queued"
    BY <2>1, <2>2, DecidedStates, Postable DEF FailedStates, SuccessStates, terminalDeploymentStates
  <2>4. QED
    BY <1>1, <2>1, <2>2, <2>3 DEF Transition, Done, Executor
<1>2. CASE StartCandidate(d)
  <2>1. /\ executor[d].phase = "running" /\ candidate' = [candidate EXCEPT ![d] = "running"]
        /\ UNCHANGED <<state, doubted, workflow, executor, recoveries, release>>
    BY <1>2 DEF StartCandidate
  <2>2. TurnsInv'
    BY <2>1
  <2>3. state[d] \notin FailedStates \cup {"queued"} /\ workflow[d] = "executing"
    BY <2>1, DecidedStates DEF terminalDeploymentStates
  <2>4. RollbackComesFirst => RollbackComesFirst'
    BY <2>1, <2>3
  <2>5. QED
    BY <2>2, <2>4
<1>3. CASE BuildFallback(d)
  <2>1. "preparing" \in SequentialStates \ FailedStates
    BY KnownStates, DecidedStates DEF terminalDeploymentStates
  <2>2. CASE Accepts(d, "preparing")
    <3>1. /\ executor[d].phase = "running" /\ state' = [state EXCEPT ![d] = "preparing"]
          /\ UNCHANGED <<doubted, workflow, executor, recoveries, candidate, release>>
      BY <1>3, <2>2 DEF BuildFallback
    <3>2. \A e \in Deployments : state'[e] = IF e = d THEN "preparing" ELSE state[e]
      BY <3>1
    <3>3. "preparing" \notin FailedStates /\ "preparing" # "queued"
      BY <2>1
    <3>4. ExecutorHasItsTurn' /\ QueuedIsUntouched' /\ RecoveryKnowsRelease'
      BY <2>1, <3>1, <3>2, <3>3
    <3>5. NobodyElseDecides' /\ ExecutorKnowsRelease'
      BY <3>1
    <3>6. CommitIsRespected'
      BY <3>1, <3>2, <3>3
    <3>7. RollbackComesFirst => RollbackComesFirst'
      BY <3>1, <3>2, <3>3
    <3>8. QED
      BY <3>4, <3>5, <3>6, <3>7
  <2>3. CASE ~Accepts(d, "preparing")
    <3>1. /\ executor[d].phase = "running"
          /\ executor' = [executor EXCEPT ![d].phase = "rolling_back"]
          /\ UNCHANGED <<state, doubted, workflow, recoveries, candidate, release>>
      BY <1>3, <2>3 DEF BuildFallback, Thrown
    <3>2. QED
      BY <3>1
  <2>4. QED
    BY <2>2, <2>3
<1>4. CASE CommitRelease(d)
  <2>1. PICK phase \in {"promoted", "uncertain"} : executor' = [executor EXCEPT ![d].phase = phase]
    BY <1>4 DEF CommitRelease
  <2>2. /\ executor[d].phase \in {"running", "uncertain"}
        /\ UNCHANGED <<state, doubted, workflow, recoveries, candidate>>
    BY <1>4 DEF CommitRelease
  <2>3. \A e \in Deployments : executor'[e].phase = IF e = d THEN phase ELSE executor[e].phase
    BY <2>1
  <2>4. release' = IF release[d] = "none" THEN Promoted(release, d) ELSE release
    BY <1>4 DEF CommitRelease, AfterCommit
  <2>5. \A e \in Deployments \ {d} : release[e] = "none" => release'[e] = "none"
    BY <2>4 DEF Promoted
  <2>6. \A e \in Deployments \ {d} : release'[e] # "none" => release[e] # "none"
    BY <2>5
  <2>7. /\ NobodyElseDecides' /\ ExecutorHasItsTurn' /\ ExecutorKnowsRelease'
        /\ RecoveryKnowsRelease' /\ QueuedIsUntouched'
    BY <2>2, <2>3, <2>5
  <2>8. state[d] \notin FailedStates
    BY <2>2, DecidedStates DEF terminalDeploymentStates
  <2>9. CommitIsRespected'
    BY <2>2, <2>6, <2>8
  <2>10. RollbackComesFirst => RollbackComesFirst'
    BY <2>2, <2>3
  <2>11. QED
    BY <2>7, <2>9, <2>10
<1>5. CASE CommitFails(d)
  BY <1>5 DEF CommitFails
<1>6. CASE StepFails(d)
  BY <1>6 DEF StepFails, Thrown, Gone, Executor
<1>7. CASE RollBackCandidate(d)
  BY <1>7 DEF RollBackCandidate, RolledBack, EveryRollbackWorks, MayLeave
<1>8. CASE ReportFailure(d)
  BY <1>8 DEF ReportFailure, Gone, Executor
<1>9. CASE ExecutorCrashes(d)
  BY <1>9 DEF ExecutorCrashes, Gone, Executor
<1>10. QED
  BY <1>1, <1>2, <1>3, <1>4, <1>5, <1>6, <1>7, <1>8, <1>9 DEF ExecutorStep

LEMMA RecoveryKeepsTurnsInv ==
    ASSUME OneAtATime, IInv, TurnsInv, NEW d \in Deployments, RecoveryStep(d)
    PROVE  TurnsInv' /\ (EveryRollbackWorks /\ RollbackComesFirst => RollbackComesFirst')
<1> USE DEF IInv, TypeOK, FinishedIsReleased, TurnsInv, NobodyElseDecides, ExecutorHasItsTurn,
            QueuedIsUntouched, FailedStates, ExecutorKnowsRelease, RecoveryKnowsRelease, CommitIsRespected,
            FailureMeansUnreleased, ReleaseKeepsCandidate, RollbackComesFirst, Alive, GoOn
<1>1. CASE ReadStatus(d)
  <2>1. state[d] \in SequentialStates \cup terminalDeploymentStates
    BY <1>1, DecidedStates DEF ReadStatus, RowsOfWorkflows
  <2>2. CASE state[d] \in terminalDeploymentStates
    BY <1>1, <2>2, DecidedStates DEF ReadStatus
  <2>3. CASE state[d] \in SequentialStates
    BY <1>1, <2>3, DecidedStates, KnownStates DEF ReadStatus, Committed, EveryRollbackWorks
  <2>4. QED
    BY <2>1, <2>2, <2>3
<1>2. ASSUME NEW s, NEW phase \in {"finalizing", "continuing", "closed"},
             Post(d, s, phase), workflow[d] \in RecoveryPhases,
             s \in {"cleaning_up", "succeeded"}
             \/ (s = "failed" /\ workflow[d] \in {"reconciling", "reporting"})
      PROVE  TurnsInv' /\ (RollbackComesFirst => RollbackComesFirst')
  <2>1. CASE Accepts(d, s)
    BY <1>2, <2>1, KnownStates DEF Post, RecoveryPhases
  <2>2. CASE ~Accepts(d, s)
    <3>1. PICK next \in {"recovering", "closed"} : workflow' = [workflow EXCEPT ![d] = next]
      BY <1>2, <2>2 DEF Post, AttemptFails
    <3>2. UNCHANGED <<state, doubted, executor, candidate, release>>
      BY <1>2, <2>2 DEF Post
    <3>3. workflow[d] \notin {"none", "admitted", "queued", "marking", "marked", "executing"}
      BY <1>2 DEF RecoveryPhases
    <3>4. state[d] # "queued"
      BY <1>2, <3>3 DEF RecoveryPhases
    <3>5. QED
      BY <3>1, <3>2, <3>3, <3>4
  <2>3. QED
    BY <2>1, <2>2
<1>3. CASE AdvanceCommitted(d)
  BY <1>2, <1>3 DEF AdvanceCommitted, RecoveryPhases
<1>4. CASE FinalizeCommitted(d)
  BY <1>2, <1>4 DEF FinalizeCommitted, RecoveryPhases
<1>5. CASE RollBackInterrupted(d)
  <2>1. PICK c : /\ candidate' = [candidate EXCEPT ![d] = c]
                 /\ c \in {RolledBack(candidate[d])}
                        \cup (IF "ssh" \in Faults THEN {candidate[d]} ELSE {})
    BY <1>5 DEF RollBackInterrupted
  <2>2. /\ workflow[d] = "rolling_back" /\ workflow' = [workflow EXCEPT ![d] = "reporting"]
        /\ UNCHANGED <<state, doubted, executor, recoveries, release>>
    BY <1>5 DEF RollBackInterrupted
  <2>3. executor[d].phase \notin {"running", "uncertain", "promoted"}
    BY <2>2 DEF AlivePhases
  <2>4. TurnsInv'
    BY <2>1, <2>2, <2>3
  <2>5. EveryRollbackWorks => c # "running"
    BY <2>1 DEF RolledBack, EveryRollbackWorks
  <2>6. EveryRollbackWorks /\ RollbackComesFirst => RollbackComesFirst'
    BY <2>1, <2>2, <2>5
  <2>7. QED
    BY <2>4, <2>6
<1>6. CASE ReportInterrupted(d)
  BY <1>2, <1>6 DEF ReportInterrupted, RecoveryPhases
<1>7. CASE RecoveryCrashes(d)
  BY <1>7 DEF RecoveryCrashes, AttemptFails, RecoveryPhases
<1>8. QED
  BY <1>1, <1>3, <1>4, <1>5, <1>6, <1>7 DEF RecoveryStep

LEMMA NextKeepsTurnsInv ==
    ASSUME OneAtATime, IInv, TurnsInv, [Next]_vars
    PROVE  TurnsInv' /\ (EveryRollbackWorks /\ RollbackComesFirst => RollbackComesFirst')
<1>1. ASSUME NEW d \in Deployments,
             \/ RequestDeployment(d) \/ CancelDeployment(d)
             \/ ApiStep(d) \/ WorkflowStep(d) \/ ExecutorStep(d) \/ RecoveryStep(d)
      PROVE  TurnsInv' /\ (EveryRollbackWorks /\ RollbackComesFirst => RollbackComesFirst')
  BY <1>1, NoOverlap, ApiKeepsTurnsInv, WorkflowKeepsTurnsInv, ExecutorKeepsTurnsInv,
     RecoveryKeepsTurnsInv
<1>2. CASE UNCHANGED vars
  BY <1>2 DEF vars, TurnsInv, NobodyElseDecides, ExecutorHasItsTurn, QueuedIsUntouched,
     FailedStates, ExecutorKnowsRelease,
     RecoveryKnowsRelease, CommitIsRespected, FailureMeansUnreleased, ReleaseKeepsCandidate,
     RollbackComesFirst, Alive
<1>3. QED
  BY <1>1, <1>2 DEF Next

-----------------------------------------------------------------------------
(***************************************************************************)
(* The theorems on deployments nobody else interferes with.                *)
(***************************************************************************)

\* The executor and the recovery take turns.
THEOREM TurnsAreTaken ==
    ASSUME OneAtATime
    PROVE  Spec => []TurnsInv
<1>1. Init => TurnsInv
  BY InitTurnsInv
<1>2. IInv /\ TurnsInv /\ [Next]_vars => TurnsInv'
  BY NextKeepsTurnsInv
<1>3. QED
  BY <1>1, <1>2, Invariance, PTL DEF Spec

\* A failed deployment has no release, and the container of a release is
\* never rolled back: whether the executor learnt of its commit or crashed
\* before, for both kinds of application.
THEOREM CommitsAreRespected ==
    ASSUME OneAtATime
    PROVE  Spec => []CommitIsRespected
<1>1. TurnsInv => CommitIsRespected
  BY DEF TurnsInv
<1>2. QED
  BY <1>1, TurnsAreTaken, PTL

\* A deployment that failed leaves no container running, whoever crashed at
\* whichever step.
THEOREM FailuresCleanUp ==
    ASSUME OneAtATime, EveryRollbackWorks
    PROVE  Spec => []NothingLeftBehind
<1>1. Init => RollbackComesFirst
  BY InitTurnsInv
<1>2. IInv /\ TurnsInv /\ RollbackComesFirst /\ [Next]_vars => RollbackComesFirst'
  BY NextKeepsTurnsInv
<1>3. RollbackComesFirst => NothingLeftBehind
  BY DEF RollbackComesFirst, NothingLeftBehind
<1>4. QED
  BY <1>1, <1>2, <1>3, Invariance, TurnsAreTaken, PTL DEF Spec

-----------------------------------------------------------------------------
(***************************************************************************)
(* A decision stands, with every fault.                                    *)
(***************************************************************************)
DecisionStands(d) ==
    state[d] \in terminalDeploymentStates =>
       \/ state'[d] = state[d]
       \/ state'[d] = "failed" /\ (workflow[d] = "admitted" \/ d \in doubted \ doubted')

\* The transition table lets a decided row only be told what it says.
LEMMA AcceptedOfDecided ==
    ASSUME NEW d \in Deployments, NEW s, Accepts(d, s), state[d] \in terminalDeploymentStates
    PROVE  s = state[d]
BY DecidedStates
   DEF Accepts, canTransitionDeployment, SequentialStates, sequentialStates

\* A write of one row leaves the other ones alone.
LEMMA OnlyOneRow ==
    ASSUME TypeOK, NEW d \in Deployments, NEW e \in Deployments, e # d, NEW s,
           state' = [state EXCEPT ![d] = s]
    PROVE  state'[e] = state[e]
BY DEF TypeOK

LEMMA PostedDecisionStands ==
    ASSUME TypeOK, NEW d \in Deployments, NEW e \in Deployments, NEW s, Accepts(d, s),
           state' = [state EXCEPT ![d] = s]
    PROVE  DecisionStands(e)
BY OnlyOneRow, AcceptedOfDecided DEF TypeOK, DecisionStands

LEMMA NextKeepsDecisions ==
    ASSUME TypeOK, [Next]_vars, NEW e \in Deployments
    PROVE  DecisionStands(e)
<1>1. CASE UNCHANGED state
  BY <1>1 DEF DecisionStands
<1>2. ASSUME NEW d \in Deployments, RequestDeployment(d)
      PROVE  DecisionStands(e)
  <2>1. state[d] \notin terminalDeploymentStates /\ "queued" \notin terminalDeploymentStates
    BY <1>2, DecidedStates, KnownStates, LifecycleAssumption DEF RequestDeployment
  <2>2. QED
    BY <1>2, <2>1, RowRequested DEF DecisionStands
<1>3. ASSUME NEW d \in Deployments, CancelDeployment(d)
      PROVE  DecisionStands(e)
  <2>1. state[d] \notin terminalDeploymentStates
    BY <1>3, DecidedStates DEF CancelDeployment
  <2>2. QED
    BY <1>1, <1>3, <2>1, OnlyOneRow DEF CancelDeployment, DecisionStands
<1>4. ASSUME NEW d \in Deployments, ApiStep(d)
      PROVE  DecisionStands(e)
  <2>1. CASE EnqueueFails(d)
    BY <2>1, OnlyOneRow DEF EnqueueFails, DecisionStands, TypeOK
  <2>2. CASE FailDoubted(d)
    BY <2>2, OnlyOneRow DEF FailDoubted, DecisionStands, TypeOK
  <2>3. QED
    BY <1>1, <1>4, <2>1, <2>2 DEF ApiStep, Enqueue, EnqueueUnconfirmed, ApiStops
<1>5. ASSUME NEW d \in Deployments, WorkflowStep(d)
      PROVE  DecisionStands(e)
  <2>1. CASE MarkWaiting(d)
    BY <1>1, <2>1, PostedDecisionStands DEF MarkWaiting
  <2>2. QED
    BY <1>1, <1>5, <2>1 DEF WorkflowStep, StartWorkflow, MarkWaitingFails, StartExecutor,
       ExecutorReturns, HeartbeatTimeout, Continue
<1>6. ASSUME NEW d \in Deployments, ExecutorStep(d)
      PROVE  DecisionStands(e)
  <2>1. CASE Transition(d)
    BY <2>1, PostedDecisionStands DEF Transition
  <2>2. CASE BuildFallback(d)
    BY <1>1, <2>2, PostedDecisionStands DEF BuildFallback
  <2>3. CASE ReportFailure(d)
    BY <1>1, <2>3, PostedDecisionStands DEF ReportFailure
  <2>4. QED
    BY <1>1, <1>6, <2>1, <2>2, <2>3 DEF ExecutorStep, StartCandidate, CommitRelease, CommitFails,
       StepFails, RollBackCandidate, ExecutorCrashes
<1>7. ASSUME NEW d \in Deployments, RecoveryStep(d)
      PROVE  DecisionStands(e)
  <2>1. ASSUME NEW s, NEW phase, Post(d, s, phase)
        PROVE  DecisionStands(e)
    BY <1>1, <2>1, PostedDecisionStands DEF Post
  <2>2. QED
    BY <1>1, <1>7, <2>1 DEF RecoveryStep, ReadStatus, AdvanceCommitted, FinalizeCommitted,
       RollBackInterrupted, ReportInterrupted, RecoveryCrashes
<1>8. QED
  BY <1>1, <1>2, <1>3, <1>4, <1>5, <1>6, <1>7 DEF Next, vars

\* A decided deployment stays as it was decided, whatever late executors and
\* recoveries post; only the API overrules it, when its signal fails.
THEOREM DecisionsAreFinal == Spec => TerminalIsFinal
<1>1. TypeOK /\ [Next]_vars =>
        [\A d \in Deployments :
           state[d] \in terminalDeploymentStates =>
             \/ state'[d] = state[d]
             \/ state'[d] = "failed" /\ (workflow[d] = "admitted" \/ d \in doubted \ doubted')]_vars
  BY NextKeepsDecisions DEF DecisionStands
<1>2. QED
  BY <1>1, TypeCorrect, PTL DEF Spec, TerminalIsFinal

-----------------------------------------------------------------------------
(***************************************************************************)
(* The refinement of DeploymentOutcome: a commit is Promote, a row that is *)
(* posted as decided is Decide, and everything else stutters.              *)
(***************************************************************************)
LEMMA OutcomesOfStates ==
    /\ \A s \in SequentialStates \cup {"unrequested"} : OutcomeOf(s) = "open"
    /\ \A s \in SuccessStates : OutcomeOf(s) = "succeeded"
    /\ \A s \in {"failed", "cancelled", "skipped"} : OutcomeOf(s) = "failed"
BY DecidedStates, LifecycleAssumption
   DEF OutcomeOf, SuccessStates, terminalDeploymentStates, deploymentStates

LEMMA SamePromoted ==
    ASSUME NEW d \in Deployments
    PROVE  Outcome!Promoted(release, d) = Promoted(release, d)
BY DEF Outcome!Promoted, Promoted

LEMMA InitImplementsOutcome == Init => Outcome!Init
BY OutcomesOfStates DEF Init, Outcome!Init

\* A row that is posted as it is, or as another one that is open.
LEMMA PostStutters ==
    ASSUME TypeOK, NEW d \in Deployments, NEW s,
           s = state[d] \/ (/\ state[d] \in SequentialStates \cup {"unrequested"}
                            /\ s \in SequentialStates),
           state' = [state EXCEPT ![d] = s], UNCHANGED release
    PROVE  UNCHANGED Outcome!vars
<1>1. \A e \in Deployments : OutcomeOf(state[e])' = OutcomeOf(state[e])
  BY OutcomesOfStates DEF TypeOK, OutcomeOf
<1>2. QED
  BY <1>1 DEF Outcome!vars

\* A row that is open and posted as decided, the way the release says.
LEMMA PostDecides ==
    ASSUME TypeOK, NEW d \in Deployments, NEW s,
           state[d] \in SequentialStates,
           \/ s \in SuccessStates /\ release[d] # "none"
           \/ s \in {"failed", "cancelled"} /\ release[d] = "none",
           state' = [state EXCEPT ![d] = s], UNCHANGED release
    PROVE  Outcome!Next
<1> DEFINE before == [e \in Deployments |-> OutcomeOf(state[e])]
           after  == [e \in Deployments |-> OutcomeOf(state'[e])]
           result == OutcomeOf(s)
<1>1. before[d] = "open"
  BY OutcomesOfStates
<1>2. /\ result = (IF release[d] = "none" THEN "failed" ELSE "succeeded")
      /\ result \in {"succeeded", "failed"}
  BY OutcomesOfStates
<1>3. after = [before EXCEPT ![d] = result]
  BY DEF TypeOK
<1>4. Outcome!Decide(d, result)
  BY <1>1, <1>2, <1>3 DEF Outcome!Decide, OutcomeOf
<1>5. QED
  BY <1>2, <1>4 DEF Outcome!Next

\* A row that accepts the state that is posted.
LEMMA PostImplements ==
    ASSUME IInv, NEW d \in Deployments, NEW s, Accepts(d, s),
           state[d] # "unrequested",
           \/ s \in SequentialStates
           \/ s \in SuccessStates /\ release[d] # "none"
           \/ s \in {"failed", "cancelled"} /\ release[d] = "none",
           state' = [state EXCEPT ![d] = s], UNCHANGED release
    PROVE  [Outcome!Next]_(Outcome!vars)
<1>1. CASE state[d] \in terminalDeploymentStates
  BY <1>1, AcceptedOfDecided, PostStutters DEF IInv
<1>2. CASE state[d] \in SequentialStates
  BY <1>2, PostStutters, PostDecides DEF IInv
<1>3. QED
  BY <1>1, <1>2, DecidedStates DEF IInv, TypeOK

\* A request gives up the deployments that are queued.
LEMMA RequestSupersedes ==
    ASSUME IInv, TurnsInv, NEW d \in Deployments, RequestDeployment(d)
    PROVE  Outcome!Next
<1> DEFINE waiting == {e \in Deployments : state[e] = "queued"}
           before  == [e \in Deployments |-> OutcomeOf(state[e])]
           after   == [e \in Deployments |-> OutcomeOf(state'[e])]
<1>1. \A e \in waiting : before[e] = "open" /\ release[e] = "none"
  BY OutcomesOfStates, KnownStates DEF TurnsInv, QueuedIsUntouched, ExecutorKnowsRelease
<1>2. ASSUME NEW e \in Deployments
      PROVE  after[e] = IF e \in waiting THEN "failed" ELSE before[e]
  <2>1. CASE e = d
    BY <2>1, RowRequested, OutcomesOfStates, KnownStates, LifecycleAssumption
       DEF IInv, RequestDeployment
  <2>2. CASE e # d
    BY <2>2, RowRequested, OutcomesOfStates DEF IInv
  <2>3. QED
    BY <2>1, <2>2
<1>3. after = [e \in Deployments |-> IF e \in waiting THEN "failed" ELSE before[e]]
  BY <1>2
<1>4. UNCHANGED release
  BY DEF RequestDeployment
<1>5. Outcome!Supersede(waiting)
  BY <1>1, <1>3, <1>4 DEF Outcome!Supersede, OutcomeOf
<1>6. QED
  BY <1>5 DEF Outcome!Next

LEMMA CommitImplementsPromote ==
    ASSUME IInv, TurnsInv, NEW d \in Deployments, CommitRelease(d)
    PROVE  [Outcome!Next]_(Outcome!vars)
<1>1. UNCHANGED state
  BY DEF CommitRelease
<1>2. CASE release[d] = "none"
  <2>1. OutcomeOf(state[d]) = "open"
    BY OutcomesOfStates
       DEF CommitRelease, TurnsInv, ExecutorHasItsTurn, Alive, AlivePhases
  <2>2. release' = Promoted(release, d)
    BY <1>2 DEF CommitRelease, AfterCommit
  <2>3. Outcome!Promote(d)
    BY <1>1, <1>2, <2>1, <2>2, SamePromoted DEF Outcome!Promote
  <2>4. QED
    BY <2>3 DEF Outcome!Next
<1>3. CASE release[d] # "none"
  BY <1>1, <1>3 DEF CommitRelease, AfterCommit, Outcome!vars
<1>4. QED
  BY <1>2, <1>3

LEMMA NextImplementsOutcome ==
    ASSUME OneAtATime, IInv, TurnsInv, [Next]_vars
    PROVE  [Outcome!Next]_(Outcome!vars)
<1>1. CASE UNCHANGED <<state, release>>
  BY <1>1 DEF Outcome!vars
<1>2. ASSUME NEW d \in Deployments, RequestDeployment(d)
      PROVE  Outcome!Next
  BY <1>2, RequestSupersedes
<1>3. ASSUME NEW d \in Deployments, ApiStep(d)
      PROVE  UNCHANGED Outcome!vars
  BY <1>3, NoOverlap DEF ApiStep, Enqueue, ApiStops, Outcome!vars
<1>4. ASSUME NEW d \in Deployments, WorkflowStep(d)
      PROVE  [Outcome!Next]_(Outcome!vars)
  <2>1. CASE MarkWaiting(d) /\ Accepts(d, "waiting_for_server")
    BY <2>1, PostImplements, KnownStates DEF MarkWaiting, IInv, RowsOfWorkflows
  <2>2. QED
    BY <1>1, <1>4, <2>1 DEF WorkflowStep, StartWorkflow, MarkWaiting, MarkWaitingFails,
       StartExecutor, ExecutorReturns, HeartbeatTimeout, Continue
<1>5. ASSUME NEW d \in Deployments, ExecutorStep(d)
      PROVE  [Outcome!Next]_(Outcome!vars)
  <2>1. CASE Transition(d)
    <3>1. PICK s \in NextPosts(executor[d].cursor) :
              Accepts(d, s) /\ state' = [state EXCEPT ![d] = s]
      BY <2>1 DEF Transition
    <3>2. s \in SequentialStates \/ (s \in SuccessStates /\ executor[d].phase = "promoted")
      <4>1. executor[d].phase = "running" \/ executor[d].phase = "promoted"
        BY <2>1 DEF Transition
      <4>2. s \in SuccessStates => executor[d].cursor = "cleaning_up"
        BY Postable
      <4>3. s \in SuccessStates => executor[d].phase # "running"
        BY <4>2 DEF IInv, RunningIsUnpromoted
      <4>4. s \in SequentialStates \/ s \in SuccessStates
        BY Postable
      <4>5. QED
        BY <4>1, <4>3, <4>4
    <3>3. s \in SuccessStates => release[d] # "none"
      BY <3>2, DecidedStates DEF IInv, PromotedIsReleased, terminalDeploymentStates
    <3>4. state[d] # "unrequested" /\ UNCHANGED release
      BY <2>1, KnownStates, DecidedStates, LifecycleAssumption
         DEF Transition, TurnsInv, ExecutorHasItsTurn, Alive, AlivePhases
    <3>5. QED
      BY <3>1, <3>2, <3>3, <3>4, PostImplements
  <2>2. CASE BuildFallback(d) /\ Accepts(d, "preparing")
    BY <2>2, PostImplements, KnownStates, LifecycleAssumption
       DEF BuildFallback, TurnsInv, ExecutorHasItsTurn, Alive, AlivePhases
  <2>3. CASE CommitRelease(d)
    BY <2>3, CommitImplementsPromote
  <2>4. CASE ReportFailure(d)
    <3> DEFINE s == IF executor[d].aborted THEN "cancelled" ELSE "failed"
    <3>1. /\ state' = (IF Accepts(d, s) THEN [state EXCEPT ![d] = s] ELSE state)
          /\ UNCHANGED release
      BY <2>4 DEF ReportFailure
    <3>2. /\ release[d] = "none" /\ state[d] # "unrequested"
      BY <2>4, KnownStates, LifecycleAssumption
         DEF ReportFailure, TurnsInv, ExecutorKnowsRelease, ExecutorHasItsTurn, Alive, AlivePhases
    <3>3. s \in {"failed", "cancelled"}
      OBVIOUS
    <3> HIDE DEF s
    <3>4. QED
      BY <1>1, <3>1, <3>2, <3>3, PostImplements
  <2>5. QED
    BY <1>1, <1>5, <2>1, <2>2, <2>3, <2>4 DEF ExecutorStep, StartCandidate, BuildFallback,
       CommitFails, StepFails, RollBackCandidate, ExecutorCrashes
<1>6. ASSUME NEW d \in Deployments, RecoveryStep(d)
      PROVE  [Outcome!Next]_(Outcome!vars)
  <2>1. ASSUME NEW s, NEW phase, Post(d, s, phase), workflow[d] # "none",
               \/ s \in SequentialStates
               \/ s \in SuccessStates /\ release[d] # "none"
               \/ s \in {"failed", "cancelled"} /\ release[d] = "none"
        PROVE  [Outcome!Next]_(Outcome!vars)
    BY <1>1, <2>1, PostImplements DEF Post, IInv, RowsOfWorkflows
  <2>2. CASE AdvanceCommitted(d)
    BY <2>1, <2>2, KnownStates DEF AdvanceCommitted
  <2>3. CASE FinalizeCommitted(d)
    BY <2>1, <2>3 DEF FinalizeCommitted, IInv, FinishedIsReleased, SuccessStates
  <2>4. CASE ReportInterrupted(d)
    BY <2>1, <2>4 DEF ReportInterrupted, TurnsInv, RecoveryKnowsRelease
  <2>5. QED
    BY <1>1, <1>6, <2>2, <2>3, <2>4 DEF RecoveryStep, ReadStatus, RollBackInterrupted,
       RecoveryCrashes
<1>7. QED
  BY <1>1, <1>2, <1>3, <1>4, <1>5, <1>6, NoOverlap DEF Next, vars

\* The lifecycle implements DeploymentOutcome: a release is promoted once and
\* while its deployment is undecided, and the deployment is decided once, by
\* what became of its release.
THEOREM OutcomeIsImplemented ==
    ASSUME OneAtATime
    PROVE  Spec => OutcomeSpec
<1>1. Init => Outcome!Init
  BY InitImplementsOutcome
<1>2. IInv /\ TurnsInv /\ [Next]_vars => [Outcome!Next]_(Outcome!vars)
  BY NextImplementsOutcome
<1>3. QED
  BY <1>1, <1>2, Invariance, TurnsAreTaken, PTL DEF Spec, OutcomeSpec, Outcome!Spec
=============================================================================
