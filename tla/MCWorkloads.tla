------------------------------ MODULE MCWorkloads ------------------------------
(***************************************************************************)
(* Two protocols of single workloads that share no state, for TLC: the     *)
(* preview of a pull request and the restores of a database.  `area' is    *)
(* chosen once and says which of them runs; the properties are those of    *)
(* the two modules.                                                        *)
(***************************************************************************)
EXTENDS MCPreviewEnvironments, ResourceRestore

VARIABLE area

workloadVars == <<area, previewVars, restoreVars>>

WorkloadsInit ==
    /\ area \in {"preview", "restores"}
    /\ PreviewInit /\ RestoreInit
    /\ area = "preview" => ~late

OfPreview(step)  == area = "preview" /\ step /\ UNCHANGED <<area, restoreVars>>
OfRestores(step) == area = "restores" /\ step /\ UNCHANGED <<area, previewVars>>

WorkloadsNext == OfPreview(PreviewNext) \/ OfRestores(RestoreNext)

\* PreviewFairness and RestoreFairness: since one area runs, an action of each
\* shares a conjunct.
Fair(previewStep, restoreStep) == OfPreview(previewStep) \/ OfRestores(restoreStep)

AnyVisit   == VisitCleans \/ \E v \in Visitors : VisitAdmits(v) \/ VisitSignals(v)
AnyClaim   == \E c \in claims : ClaimSignals(c) \/ ClaimMarks(c)
AnyBuild   == \/ \E b \in Builds : BuildStarts(b)
              \/ BuildReleases \/ \E state \in {"succeeded", "failed"} : BuildEnds(state)
              \/ \E item \in line : CleanStarts(item)
              \/ CleanRetries
AnyCleaner == \E c \in cleaners : Cleans(c) \/ RecordsSuccess(c) \/ RecordsFailure(c)

AnyFailingAdmission == \E r \in Restores : AdmissionFails(r)
AnyWorkflow == \E r \in Restores : WorkflowSteps(r)
AnyExecutor == \E r \in Restores : ExecutorSteps(r)

WorkloadsFairness ==
    /\ SF_workloadVars(OfPreview(VisitStarts("event")))
    /\ WF_workloadVars(Fair(AnyVisit, AnyFailingAdmission))
    /\ WF_workloadVars(Fair(AnyBuild, AnyWorkflow))
    /\ WF_workloadVars(Fair(AnyCleaner, AnyExecutor))
    /\ WF_workloadVars(OfPreview(AnyClaim))
    /\ WF_workloadVars(OfPreview(RequestCleanup))

\* Neither what a preview shows and runs goes back to an earlier commit, nor the
\* result of a restore to an earlier or another one.
NothingGoesBack == NeverGoesBack /\ RestoreIsFinal

WorkloadsSpec ==
    WorkloadsInit /\ [][WorkloadsNext]_workloadVars /\ WorkloadsFairness
=============================================================================
