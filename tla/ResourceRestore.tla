--------------------------- MODULE ResourceRestore ---------------------------
(***************************************************************************)
(* The restore of a managed database: areas/resource-operations in the     *)
(* API, the workflow and activity of a resource operation in the worker,   *)
(* resource-restore.ts in the deployer and the scripts it runs on the      *)
(* host.  A restore fills a candidate volume from a backup and promotes    *)
(* it: the container is removed, the pointer to the active volume          *)
(* switched and the container run again on it.  The volume it replaced is  *)
(* kept until a cleanup removes it.                                        *)
(*                                                                         *)
(* One database; the candidate volume of a restore goes by the name of the *)
(* restore.  The coordinator runs one operation of a service at a time     *)
(* (ServerCoordinator); `late' says whether, in this behaviour, Temporal   *)
(* may end the workflow of an executor that is still at work: when a user  *)
(* cancels it, which the workflow does not wait out, or when heartbeats    *)
(* are missed.  Where it may not, a script is taken to end with the        *)
(* connection it was started over.                                         *)
(***************************************************************************)
EXTENDS Naturals, FiniteSets

CONSTANTS
    Restores,       \* the restores users may request
    Original,       \* the volume of the first deployment
    NoVolume,       \* no volume, no container
    MaxRestoreMishaps

ASSUME VolumesAssumption ==
    /\ Original \notin Restores /\ NoVolume \notin Restores \cup {Original}
    /\ MaxRestoreMishaps \in Nat

VARIABLES
    row,        \* resource_operations: state, phase, cancel_requested_at, result
    admission,  \* what the API still has to do for the request
    canceller,  \* a cancel request that has read the row
    workflow,   \* the workflow of each restore
    executor,   \* its activity: where it is, what it holds, whether it lives
    cleanup,    \* the restore_cleanup operation of each restore
    host,       \* the pointer, the volume the container runs on, the volumes
    late,
    restoreMishaps

restoreVars == <<row, admission, canceller, workflow, executor, cleanup, host,
                 late, restoreMishaps>>
apiVars == <<admission, canceller, cleanup>>

Volumes == Restores \cup {Original}
Finished == {"succeeded", "failed", "cancelled"}
NoResult == [outcome |-> "none", previous |-> NoVolume]

\* The promotion script, and the executor before it.
InScript  == {"promoting", "removed", "switched", "undoing"}
Preparing == {"restoring", "validating"}
Cancellable == {"preflight"} \cup Preparing

RestoreInit ==
    /\ row = [r \in Restores |-> [state |-> "none", phase |-> "queued",
                 cancelRequested |-> FALSE, result |-> NoResult]]
    /\ admission = [r \in Restores |-> "none"]
    /\ canceller = [r \in Restores |-> "none"]
    /\ workflow = [r \in Restores |-> "none"]
    /\ executor = [r \in Restores |-> [at |-> "absent", previous |-> NoVolume,
                      verdict |-> "none", attended |-> TRUE]]
    /\ cleanup = [r \in Restores |-> "none"]
    /\ host = [pointer |-> Original, mounted |-> Original, volumes |-> {Original}]
    /\ late \in BOOLEAN
    /\ restoreMishaps = 0

Mishap ==
    restoreMishaps < MaxRestoreMishaps /\ restoreMishaps' = restoreMishaps + 1
NoMishap == UNCHANGED restoreMishaps

-----------------------------------------------------------------------------
(***************************************************************************)
(* The API.                                                                *)
(***************************************************************************)

\* requestResourceRestore: the row, then the signal.
RequestRestore(r) ==
    /\ row[r].state = "none"
    /\ row' = [row EXCEPT ![r].state = "queued"]
    /\ \/ /\ admission' = [admission EXCEPT ![r] = "done"]
          /\ workflow' = [workflow EXCEPT ![r] = "waiting"]
          /\ NoMishap
       \/ /\ Mishap       \* the call fails, the signal has arrived or not
          /\ admission' = [admission EXCEPT ![r] = "failing"]
          /\ workflow' \in {workflow, [workflow EXCEPT ![r] = "waiting"]}
    /\ UNCHANGED <<canceller, executor, cleanup, host, late>>

\* The catch of admitOperation: it fails the row, whatever its state is now.
AdmissionFails(r) ==
    /\ admission[r] = "failing"
    /\ admission' = [admission EXCEPT ![r] = "done"]
    /\ row' = [row EXCEPT ![r].state = "failed", ![r].phase = "failed"]
    /\ UNCHANGED <<canceller, workflow, executor, cleanup, host, late,
                   restoreMishaps>>

\* cancelResourceRestore reads the row ...
CancelReads(r) ==
    /\ canceller[r] = "none" /\ Mishap
    /\ row[r].state \in {"queued", "running"}
    /\ row[r].phase \in {"queued", "candidate"}
    /\ canceller' = [canceller EXCEPT ![r] = "read"]
    /\ UNCHANGED <<row, admission, workflow, executor, cleanup, host, late>>

\* ... records the request without looking again, and cancels the workflow, of
\* which there is none unless the coordinator has started it.
CancelWrites(r) ==
    /\ canceller[r] = "read"
    /\ workflow[r] = "running" => late
    /\ canceller' = [canceller EXCEPT ![r] = "none"]
    /\ row' = [row EXCEPT ![r].cancelRequested = TRUE]
    /\ workflow' = [workflow EXCEPT ![r] = IF @ = "running" THEN "marking" ELSE @]
    /\ UNCHANGED <<admission, executor, cleanup, host, late, restoreMishaps>>

\* requestRestoreCleanup, of a user or of the sweep, for the volumes the result
\* retains and unless a cleanup of them is on its way or done.
RequestVolumeCleanup(r) ==
    /\ row[r].state \in {"failed", "succeeded"}
    /\ row[r].result.outcome = "promoted"
    /\ cleanup[r] \in {"none", "failed"}
    /\ cleanup' = [cleanup EXCEPT ![r] = "queued"]
    /\ UNCHANGED <<row, admission, canceller, workflow, executor, host, late,
                   restoreMishaps>>

\* appendResourceOperationProgress does not look at the state.
Progress(r, phase) == row' = [row EXCEPT ![r].phase = phase]

\* finishResourceOperation: the first terminal report stays.
Post(r, state, result) ==
    IF row[r].state \in Finished THEN UNCHANGED row
    ELSE row' = [row EXCEPT ![r].state = state, ![r].phase = state,
                            ![r].result = result]

-----------------------------------------------------------------------------
(***************************************************************************)
(* The coordinator and the workflow.                                       *)
(***************************************************************************)

\* Mutant: the coordinator starts operations of one service side by side.
AlwaysFree == TRUE

\* No operation of the service is at work.
ServiceFree == \A r \in Restores : workflow[r] \notin {"running", "marking"}

StartRestore(r) ==
    /\ workflow[r] = "waiting" /\ ServiceFree
    /\ workflow' = [workflow EXCEPT ![r] = "running"]
    /\ executor' = [executor EXCEPT ![r].at = "context"]
    /\ UNCHANGED <<row, apiVars, host, late, restoreMishaps>>

\* Mutant: the workflow believes the activity that failed.
ActivityEndsWell(r) ==
    /\ workflow[r] = "running" /\ executor[r].at = "done"
    /\ workflow' = [workflow EXCEPT ![r] = "ended"]
    /\ UNCHANGED <<row, apiVars, executor, host, late, restoreMishaps>>

\* The activity returns; after a failure the workflow marks the row.
ActivityEnds(r) ==
    /\ workflow[r] = "running" /\ executor[r].at = "done"
    /\ workflow' = [workflow EXCEPT
           ![r] = IF executor[r].verdict = "promoted" THEN "ended" ELSE "marking"]
    /\ UNCHANGED <<row, apiVars, executor, host, late, restoreMishaps>>

\* No heartbeat for thirty seconds: the one attempt is over.
HeartbeatTimeout(r) ==
    /\ workflow[r] = "running"
    /\ \/ executor[r].at = "gone" /\ NoMishap
       \/ late /\ executor[r].at \notin {"gone", "done"}
          /\ IF executor[r].attended THEN Mishap ELSE NoMishap
    /\ workflow' = [workflow EXCEPT ![r] = "marking"]
    /\ UNCHANGED <<row, apiVars, executor, host, late>>

\* markResourceOperationInterruptedActivity
MarkInterrupted(r) ==
    /\ workflow[r] = "marking"
    /\ workflow' = [workflow EXCEPT ![r] = "ended"]
    /\ Post(r, "failed", NoResult)
    /\ UNCHANGED <<apiVars, executor, host, late, restoreMishaps>>

-----------------------------------------------------------------------------
(***************************************************************************)
(* executeManagedRestore.                                                  *)
(***************************************************************************)

\* The executor goes on at `next'.
GoesOn(r, next) == executor' = [executor EXCEPT ![r].at = next]

\* It has something to report.
Reports(r, verdict) ==
    executor' = [executor EXCEPT ![r].at = "posting", ![r].verdict = verdict]

\* getOperationExecutionContext reads the row ...
TakeContext(r) ==
    /\ executor[r].at = "context"
    /\ IF row[r].state \in Finished THEN Reports(r, "error") ELSE GoesOn(r, "claiming")
    /\ UNCHANGED <<row, apiVars, workflow, host, late, restoreMishaps>>

\* ... and claims it if it is still queued; a restore goes on if it is not.
ClaimRow(r) ==
    /\ executor[r].at = "claiming"
    /\ row' = [row EXCEPT ![r].state = IF @ = "queued" THEN "running" ELSE @]
    /\ GoesOn(r, "preflight")
    /\ UNCHANGED <<apiVars, workflow, host, late, restoreMishaps>>

\* The volume to return to is the one the pointer names, if the container is on it.
Preflight(r) ==
    /\ executor[r].at = "preflight"
    /\ Progress(r, "candidate")
    /\ IF host.mounted = host.pointer
       THEN executor' = [executor EXCEPT ![r].at = "restoring",
                                         ![r].previous = host.pointer]
       ELSE Reports(r, "error")
    /\ UNCHANGED <<apiVars, workflow, host, late, restoreMishaps>>

PrepareCandidate(r) ==
    /\ executor[r].at = "restoring"
    /\ Progress(r, "candidate")
    /\ GoesOn(r, "validating")
    /\ host' = [host EXCEPT !.volumes = @ \cup {r}]
    /\ UNCHANGED <<apiVars, workflow, late, restoreMishaps>>

\* The candidate holds the backup: promotion starts with its progress.
BeginPromotion(r) ==
    /\ executor[r].at = "validating"
    /\ Progress(r, "promoting")
    /\ GoesOn(r, "promoting")
    /\ UNCHANGED <<apiVars, workflow, host, late, restoreMishaps>>

\* The catch removes the candidate, and goes on if it cannot.
GivesUp(r) ==
    /\ Reports(r, "candidate_failed")
    /\ \E removed \in BOOLEAN :
           host' = [host EXCEPT !.volumes = IF removed THEN @ \ {r} ELSE @ \cup {r}]

\* What can fail before.  A promotion counts as started before its progress is
\* posted.
FailsBefore(r) ==
    /\ executor[r].attended /\ Mishap
    /\ \/ /\ executor[r].at \in {"context", "claiming", "preflight"}
          /\ Reports(r, "error") /\ UNCHANGED host
       \/ executor[r].at \in Preparing /\ GivesUp(r)
       \/ /\ executor[r].at = "validating"
          /\ Reports(r, "rollback_failed") /\ UNCHANGED host
    /\ UNCHANGED <<row, apiVars, workflow, late>>

\* A heartbeat tells an executor that its workflow waits for it no longer.  Only a
\* download, before there is a candidate, ends as aborted; a command on the host
\* that is aborted has failed like any other.
Abort(r) ==
    /\ workflow[r] # "running" /\ executor[r].attended
    /\ \/ executor[r].at = "preflight" /\ Reports(r, "error") /\ UNCHANGED host
       \/ executor[r].at = "restoring" /\ Reports(r, "aborted") /\ UNCHANGED host
       \/ executor[r].at \in Preparing /\ GivesUp(r)
    /\ UNCHANGED <<row, apiVars, workflow, late, restoreMishaps>>

\* promoteCandidateScript: the container goes, ...
RemoveContainer(r) ==
    /\ executor[r].at = "promoting"
    /\ host' = [host EXCEPT !.mounted = NoVolume]
    /\ GoesOn(r, "removed")
    /\ UNCHANGED <<row, apiVars, workflow, late, restoreMishaps>>

\* ... the pointer is switched, ...
SwitchPointer(r) ==
    /\ executor[r].at = "removed"
    /\ host' = [host EXCEPT !.pointer = r]
    /\ GoesOn(r, "switched")
    /\ UNCHANGED <<row, apiVars, workflow, late, restoreMishaps>>

\* The script ends; nobody may be there to read what it printed.
ScriptEnds(r, next) == GoesOn(r, IF executor[r].attended THEN next ELSE "gone")

\* Mutant: the pointer stays on the candidate that did not start.
RunWithoutSwitchingBack(r) ==
    /\ executor[r].at = "switched"
    /\ \/ host' = [host EXCEPT !.mounted = r] /\ ScriptEnds(r, "promoted")
       \/ host' = [host EXCEPT !.mounted = NoVolume] /\ GoesOn(r, "undoing")
    /\ UNCHANGED <<row, apiVars, workflow, late, restoreMishaps>>

\* ... and the container run on the candidate, or the pointer switched back.
RunCandidate(r) ==
    /\ executor[r].at = "switched"
    /\ \/ host' = [host EXCEPT !.mounted = r] /\ ScriptEnds(r, "promoted")
       \/ /\ host' = [host EXCEPT !.mounted = NoVolume, !.pointer = executor[r].previous]
          /\ GoesOn(r, "undoing")
    /\ UNCHANGED <<row, apiVars, workflow, late, restoreMishaps>>

\* Mutant: a rollback counts as one whether the database comes up or not.
RunPreviousUnchecked(r) ==
    /\ executor[r].at = "undoing"
    /\ \E up \in {executor[r].previous, NoVolume} :
           host' = [host EXCEPT !.mounted = up, !.volumes = @ \ {r}]
    /\ ScriptEnds(r, "rolledBack")
    /\ UNCHANGED <<row, apiVars, workflow, late, restoreMishaps>>

\* The container returns to the previous volume and the candidate is removed,
\* or it does not come up there either.
RunPrevious(r) ==
    /\ executor[r].at = "undoing"
    /\ \/ /\ host' = [host EXCEPT !.mounted = executor[r].previous, !.volumes = @ \ {r}]
          /\ ScriptEnds(r, "rolledBack")
       \/ /\ UNCHANGED host
          /\ IF executor[r].attended
             THEN Reports(r, "rollback_failed") ELSE GoesOn(r, "gone")
    /\ UNCHANGED <<row, apiVars, workflow, late, restoreMishaps>>

\* The host fails under the script, or its connection, or its ten minutes are over:
\* it stops where it is.  (A script that goes on for itself on the host is that of
\* WorkerCrashes, with a row that fails without a result.)
ScriptDies(r) ==
    /\ executor[r].at \in InScript
    /\ IF executor[r].attended
       THEN Mishap /\ Reports(r, "rollback_failed")
       ELSE NoMishap /\ GoesOn(r, "gone")
    /\ UNCHANGED <<row, apiVars, workflow, host, late>>

\* The last progress; when it cannot be sent, the catch takes the promotion
\* for a failed rollback.
ReportScript(r) ==
    /\ executor[r].at \in {"promoted", "rolledBack"}
    /\ \/ /\ NoMishap /\ Progress(r, "promoting")
          /\ Reports(r, IF executor[r].at = "promoted" THEN "promoted" ELSE "rolled_back")
       \/ Mishap /\ Reports(r, "rollback_failed") /\ UNCHANGED row
    /\ UNCHANGED <<apiVars, workflow, host, late>>

StateOf(verdict) ==
    CASE verdict = "promoted" -> "succeeded"
      [] verdict = "aborted"  -> "cancelled"
      [] OTHER                -> "failed"

\* What the row says of volumes afterwards: a promotion retains the previous one.
ResultOf(r) ==
    LET verdict == executor[r].verdict
    IN  IF verdict \in {"aborted", "error"} THEN NoResult
        ELSE [outcome |-> verdict,
              previous |-> IF verdict = "promoted" THEN executor[r].previous ELSE NoVolume]

\* The executor posts its verdict.  If that of a success cannot be posted it
\* posts a failure without a result; that of a failure is not repeated.
PostVerdict(r) ==
    /\ executor[r].at = "posting"
    /\ \/ /\ NoMishap /\ GoesOn(r, "done")
          /\ Post(r, StateOf(executor[r].verdict), ResultOf(r))
       \/ /\ Mishap /\ UNCHANGED row
          /\ IF executor[r].verdict = "promoted"
             THEN Reports(r, "error") ELSE GoesOn(r, "done")
    /\ UNCHANGED <<apiVars, workflow, host, late>>

\* The worker stops.  A script it has started goes on for itself.
WorkerCrashes(r) ==
    /\ executor[r].attended /\ executor[r].at \notin {"absent", "done", "gone"}
    /\ Mishap
    /\ executor' = [executor EXCEPT ![r].attended = FALSE,
                        ![r].at = IF @ \in InScript THEN @ ELSE "gone"]
    /\ UNCHANGED <<row, apiVars, workflow, host, late>>

-----------------------------------------------------------------------------
(***************************************************************************)
(* Other operations of the service.                                        *)
(***************************************************************************)

\* cleanupRestoreVolumesScript skips the volume the pointer names and one that
\* Docker refuses to remove; the operation succeeds all the same.
CleanupRuns(r) ==
    /\ cleanup[r] = "queued" /\ ServiceFree
    /\ \/ Mishap /\ cleanup' = [cleanup EXCEPT ![r] = "failed"] /\ UNCHANGED host
       \/ /\ NoMishap
          /\ cleanup' = [cleanup EXCEPT ![r] = "done"]
          /\ host' = [host EXCEPT !.volumes =
                 @ \ ({row[r].result.previous} \ {host.pointer, host.mounted})]
    /\ UNCHANGED <<row, admission, canceller, workflow, executor, late>>

\* A deployment of the database runs its container on the volume the pointer names,
\* creating it if it is not there.
Redeploy ==
    /\ ServiceFree
    /\ host' = [host EXCEPT !.mounted = host.pointer, !.volumes = @ \cup {host.pointer}]
    /\ UNCHANGED <<row, apiVars, workflow, executor, late, restoreMishaps>>

-----------------------------------------------------------------------------
ExecutorSteps(r) ==
    \/ TakeContext(r) \/ ClaimRow(r)
    \/ Preflight(r) \/ PrepareCandidate(r) \/ BeginPromotion(r)
    \/ RemoveContainer(r) \/ SwitchPointer(r) \/ RunCandidate(r) \/ RunPrevious(r)
    \/ ReportScript(r) \/ PostVerdict(r)

WorkflowSteps(r) ==
    StartRestore(r) \/ ActivityEnds(r) \/ HeartbeatTimeout(r) \/ MarkInterrupted(r)

RestoreNext ==
    \/ \E r \in Restores :
           \/ RequestRestore(r) \/ AdmissionFails(r)
           \/ CancelReads(r) \/ CancelWrites(r)
           \/ RequestVolumeCleanup(r) \/ CleanupRuns(r)
           \/ WorkflowSteps(r) \/ ExecutorSteps(r)
           \/ Abort(r) \/ FailsBefore(r) \/ ScriptDies(r) \/ WorkerCrashes(r)
    \/ Redeploy

\* The API ends a request it has begun, Temporal starts workflows, counts
\* heartbeats and retries the mark, and a live executor works on.
RestoreFairness ==
    /\ WF_restoreVars(\E r \in Restores : AdmissionFails(r))
    /\ WF_restoreVars(\E r \in Restores : WorkflowSteps(r))
    /\ WF_restoreVars(\E r \in Restores : ExecutorSteps(r))

RestoreSpec == RestoreInit /\ [][RestoreNext]_restoreVars
RestoreFairSpec == RestoreSpec /\ RestoreFairness

-----------------------------------------------------------------------------
RestoreTypeOK ==
    /\ row \in [Restores -> [state : {"none", "queued", "running"} \cup Finished,
                             phase : {"queued", "candidate", "promoting"} \cup Finished,
                             cancelRequested : BOOLEAN,
                             result : [outcome : {"none", "promoted", "rolled_back",
                                                  "rollback_failed", "candidate_failed"},
                                       previous : Volumes \cup {NoVolume}]]]
    /\ admission \in [Restores -> {"none", "failing", "done"}]
    /\ canceller \in [Restores -> {"none", "read"}]
    /\ \A r \in Restores : executor[r].previous \in Volumes \cup {NoVolume}
    /\ workflow \in [Restores -> {"none", "waiting", "running", "marking", "ended"}]
    /\ cleanup \in [Restores -> {"none", "queued", "done", "failed"}]
    /\ host \in [pointer : Volumes, mounted : Volumes \cup {NoVolume},
                 volumes : SUBSET Volumes]
    /\ late \in BOOLEAN /\ restoreMishaps \in 0 .. MaxRestoreMishaps

AtWork == {r \in Restores : executor[r].at \notin {"absent", "done", "gone"}}

\* The volume the pointer names holds the data, whatever fails, and the
\* container never runs on another once no restore is at work.
ActiveIsKept ==
    ~late => /\ host.pointer \in host.volumes
             /\ AtWork = {} => host.mounted \in {host.pointer, NoVolume}

\* docs/restores.md:60 "the previous volume is retained": until its cleanup.
PreviousIsRetained == \A r \in Restores :
    (~late /\ row[r].result.outcome = "promoted" /\ cleanup[r] # "done")
        => row[r].result.previous \in host.volumes \ {r}

\* A restore that is recorded as cancelled has left nothing behind, and never will.
CancelledIsUntouched == \A r \in Restores :
    row[r].state = "cancelled" => host.pointer # r /\ r \notin host.volumes

\* What holds of the volumes at every moment: the types, an active volume that
\* exists, a previous one that is kept, and nothing left of a cancelled restore.
RestoreInv == RestoreTypeOK /\ ActiveIsKept /\ PreviousIsRetained /\ CancelledIsUntouched

\* A restore that succeeded is what the database runs on, until a later one
\* that set out from its volume takes over.
SuccessIsServed == \A r \in Restores :
    (~late /\ row[r].state = "succeeded") =>
        host.pointer = r \/ \E q \in Restores : executor[q].previous = r

\* The database is down, with no operation at work, only after a restore whose
\* row says that it failed without a way back.
OutageIsReported ==
    (~late /\ AtWork = {} /\ ServiceFree /\ host.mounted = NoVolume) =>
        \E r \in Restores : /\ row[r].state = "failed"
                            /\ row[r].result.outcome \in {"rollback_failed", "none"}

\* What is told of the database and what it runs on agree.
ServiceIsAsTold == SuccessIsServed /\ OutageIsReported

\* The first terminal state stays, except that an admission whose signal failed
\* overwrites it.
RestoreIsFinal == [][\A r \in Restores :
    (row[r].state \in Finished /\ row'[r].state # row[r].state)
        => admission[r] = "failing"]_restoreVars

\* Every requested restore comes to an end, whatever failed on its way.
RestoresEnd == []<>(\A r \in Restores : row[r].state \in {"none"} \cup Finished)
=============================================================================
