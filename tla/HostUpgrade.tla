----------------------------- MODULE HostUpgrade -----------------------------
(***************************************************************************)
(* An upgrade of the host: the runner (infra/upgrade-runner/runner.py),    *)
(* the CLI process it starts, the admission row every new piece of work    *)
(* takes a share lock on (0015_host_upgrades.sql), and the leases under    *)
(* which workers and terminals touch hosts (upgrade-admission.ts).         *)
(*                                                                         *)
(* A job is saved in two files, the record of its request and job.json,    *)
(* and kept in memory; saves, statements and processes may fail.           *)
(* `mishaps' counts what may go wrong.                                     *)
(***************************************************************************)
EXTENDS Naturals

CONSTANTS
    Requests,      \* identifiers of upgrade requests
    NoRequest,
    WorkRows,      \* rows of the guarded tables
    Activities,    \* attempts of activities, and terminals
    MaxVersion,    \* releases are 0..MaxVersion
    MaxMishaps,    \* bound of `mishaps'
    OperatorWaits  \* the operator resumes only when no CLI is left running

ASSUME HostAssumption ==
    /\ NoRequest \notin Requests
    /\ MaxVersion \in Nat
    /\ MaxMishaps \in Nat
    /\ OperatorWaits \in BOOLEAN

VARIABLES
    admission,  \* towbar_upgrade_admission.job_id
    workRow,    \* r |-> "idle", "admitting" (its transaction is open), "pending"
    effect,     \* a |-> where the activity is
    leases,     \* rows of towbar_upgrade_leases
    up,         \* the runner's process runs
    thread,     \* where the runner is in execute, start or resume
    claim,      \* what execute or resume knows of the admission
    outcome,    \* the state the job ends in if the rest goes well
    restarting,
    plan,       \* plan.json: [from, to]
    job,        \* self.job
    disk,       \* job.json
    records,    \* q |-> the record of the request, on disk
    cli,        \* the process `towbar upgrade': its stage, and from and to
    installed,  \* the release `current' points to
    executed,   \* q |-> times a CLI was started for it (history)
    mishaps

hostVars == <<admission, workRow, effect, leases, up, thread, claim, outcome, restarting,
              plan, job, disk, records, cli, installed, executed, mishaps>>
workVars == <<workRow, effect, leases>>
runVars == <<up, thread, claim, outcome, restarting>>
fileVars == <<job, disk, records>>
cliVars == <<cli, installed, executed>>

Versions == 0..MaxVersion
ACTIVE == {"checking", "downloading", "applying"} \* with verifying and restoring
IdleStates == {"none", "succeeded", "blocked", "recovered"}
JobStates == ACTIVE \cup IdleStates \cup {"failed", "interrupted"}
Claims == {"unknown", "paused", "reopening", "open"}

NoJob == [id |-> NoRequest, from |-> 0, to |-> 0, state |-> "none", admission |-> "unknown"]
NoPlan == [from |-> 0, to |-> 0]
NoCli == [stage |-> "off", from |-> 0, to |-> 0]

Mishap == mishaps < MaxMishaps /\ mishaps' = mishaps + 1

HostInit ==
    /\ admission = NoRequest
    /\ workRow = [r \in WorkRows |-> "idle"]
    /\ effect = [a \in Activities |-> "off"]
    /\ leases = {}
    /\ up = TRUE /\ thread = "none" /\ claim = "unknown" /\ outcome = "blocked"
    /\ restarting = FALSE
    /\ plan = NoPlan /\ job = NoJob /\ disk = NoJob
    /\ records = [q \in Requests |-> NoJob]
    /\ cli = NoCli /\ installed = 0
    /\ executed = [q \in Requests |-> 0]
    /\ mishaps = 0

-----------------------------------------------------------------------------
(***************************************************************************)
(* The guarded tables.  Between UPDATE and COMMIT the runner holds the     *)
(* admission row exclusively ("locked"): every trigger waits.              *)
(***************************************************************************)
AdmissionOpen == admission = NoRequest /\ thread # "locked"

\* Blockers as the view counts them: rows and leases that are committed.
Blockers == {r \in WorkRows : workRow[r] = "pending"} \cup leases

SharesAdmission ==
    \/ \E r \in WorkRows : workRow[r] = "admitting"
    \/ \E a \in Activities : effect[a] = "beginning"

RowStep(r, place) ==
    /\ workRow' = [workRow EXCEPT ![r] = place]
    /\ UNCHANGED <<admission, effect, leases, runVars, plan, fileVars, cliVars, mishaps>>

\* A row is inserted, started or queued again: its trigger passes.
AdmitRow(r) == workRow[r] = "idle" /\ AdmissionOpen /\ RowStep(r, "admitting")

\* The transaction commits or is rolled back.
EndAdmission(r) ==
    workRow[r] = "admitting" /\ (RowStep(r, "pending") \/ RowStep(r, "idle"))

\* Existing work ends in a terminal state, which a pause allows.
FinishRow(r) == workRow[r] = "pending" /\ thread # "locked" /\ RowStep(r, "idle")

EffectStep(a, from, place) ==
    /\ effect[a] = from
    /\ effect' = [effect EXCEPT ![a] = place]
    /\ UNCHANGED <<admission, workRow, runVars, plan, fileVars, cliVars>>

\* withUpgradeLease asks for a lease: the insert passes the trigger.
BeginLease(a) ==
    /\ a \notin leases /\ AdmissionOpen
    /\ EffectStep(a, "off", "beginning")
    /\ UNCHANGED <<leases, mishaps>>

CommitLease(a) ==
    /\ EffectStep(a, "beginning", "begun")
    /\ leases' = leases \cup {a}
    /\ UNCHANGED mishaps

\* The lease is acknowledged, and the activity runs; or what a dead worker
\* started on a host ends.
RunActivity(a) ==
    /\ EffectStep(a, "begun", "running") \/ EffectStep(a, "adrift", "off")
    /\ UNCHANGED <<leases, mishaps>>

\* The answer to begin is lost and the attempt fails; the answer to end is
\* lost; or the worker dies and what it started goes on.  The lease stays.
LoseLease(a) ==
    /\ \/ EffectStep(a, "begun", "off")
       \/ EffectStep(a, "running", "off")
       \/ EffectStep(a, "running", "adrift")
    /\ Mishap
    /\ UNCHANGED leases

\* run() is over and the lease is deleted; or a database administrator deletes
\* one, having verified that the remote operation ended.
EndLease(a) ==
    /\ EffectStep(a, "running", "off") \/ (a \in leases /\ EffectStep(a, "off", "off"))
    /\ leases' = leases \ {a}
    /\ UNCHANGED mishaps

-----------------------------------------------------------------------------
(***************************************************************************)
(* Saving a job: persist writes the record, then job.json; a new job the   *)
(* other way round.  A save that fails may have replaced its file.         *)
(***************************************************************************)
ThreadAt(place, known) == thread' = place /\ claim' = known

With(state, known) == [job EXCEPT !.state = state, !.admission = known]

Saved(new) ==
    /\ job' = new
    /\ disk' = new
    /\ records' = [records EXCEPT ![new.id] = new]

\* Mutant: a new job is saved in the order of any other.
PartlySavedInOneOrder(new, initial) ==
    /\ disk' \in {disk, new}
    /\ records' \in {records, [records EXCEPT ![new.id] = new]}
    /\ records' = records => disk' = disk

\* What may be on disk when persist raises.
PartlySaved(new, initial) ==
    /\ disk' \in {disk, new}
    /\ records' \in {records, [records EXCEPT ![new.id] = new]}
    /\ IF initial
       THEN disk' = disk => records' = records
       ELSE records' = records => disk' = disk

\* update in execute: it is saved and the thread goes on, or it raises.
Update(new, place, known) ==
    \/ Saved(new) /\ ThreadAt(place, known) /\ UNCHANGED mishaps
    \/ Mishap /\ PartlySaved(new, FALSE) /\ job' = job /\ ThreadAt("failing", claim)

-----------------------------------------------------------------------------
(***************************************************************************)
(* plan and start, under the runner's lock, which resume holds to its end. *)
(***************************************************************************)
\* ensure_idle.
IsIdle ==
    /\ up /\ thread = "none" /\ ~restarting
    /\ job.state \in IdleStates

MakePlan(v) ==
    /\ IsIdle /\ v > installed
    /\ plan' = [from |-> installed, to |-> v]
    /\ UNCHANGED <<admission, workVars, runVars, fileVars, cliVars, mishaps>>

ExpirePlan ==
    /\ plan # NoPlan
    /\ plan' = NoPlan
    /\ UNCHANGED <<admission, workVars, runVars, fileVars, cliVars, mishaps>>

\* No job or record of this request: it is not a replay.
IsNew(q) == job.id # q /\ records[q] = NoJob

NewJob(q) == [id |-> q, from |-> plan.from, to |-> plan.to,
              state |-> "checking", admission |-> "unknown"]

\* A job that cannot be saved is not executed, and failed in memory.
Start(q) ==
    /\ IsNew(q) /\ IsIdle
    /\ plan # NoPlan /\ plan.from = installed
    /\ \/ /\ Saved(NewJob(q))
          /\ ThreadAt("pausing", "unknown")
          /\ UNCHANGED mishaps
       \/ /\ Mishap
          /\ PartlySaved(NewJob(q), TRUE)
          /\ job' = [NewJob(q) EXCEPT !.state = "failed"]
          /\ ThreadAt("failing", "open")
    /\ UNCHANGED <<admission, workVars, up, outcome, restarting, plan, cliVars>>

-----------------------------------------------------------------------------
(***************************************************************************)
(* execute: the pause, and the CLI, which holds a lock on a file: a second *)
(* one fails.                                                              *)
(***************************************************************************)
\* The UPDATE waits for the admissions that hold the row, and takes it.
PauseLocks ==
    /\ thread = "pausing"
    /\ admission = NoRequest
    /\ ~SharesAdmission
    /\ ThreadAt("locked", claim)
    /\ UNCHANGED <<admission, workVars, up, outcome, restarting, plan, fileVars, cliVars, mishaps>>

Paused ==
    /\ admission' = job.id
    /\ ThreadAt(IF Blockers = {} THEN "verify" ELSE "reopening", "paused")
    /\ outcome' = IF Blockers = {} THEN "succeeded" ELSE "blocked"
    /\ UNCHANGED <<workVars, up, restarting, plan, fileVars, cliVars, mishaps>>

\* Mutant: the blockers are read by the statement that waits for the row,
\* in its snapshot.
PauseInOneSnapshot == thread = "pausing" /\ admission = NoRequest /\ Paused

\* The blockers are read by a new statement, and the pause is committed.
PauseCommits == thread = "locked" /\ Paused

LaunchCli ==
    /\ thread = "verify"
    /\ Update(With("downloading", job.admission),
              IF cli = NoCli THEN "watching" ELSE "failing", claim)
    /\ IF job' # job
       THEN /\ executed' = [executed EXCEPT ![job.id] = @ + 1]
            /\ cli' = IF cli = NoCli
                      THEN [stage |-> "pulling", from |-> job.from, to |-> job.to]
                      ELSE cli
       ELSE UNCHANGED <<executed, cli>>
    /\ UNCHANGED <<admission, workVars, up, outcome, restarting, plan, installed>>

CliStep(stage, release) ==
    /\ cli' = IF stage = "off" THEN NoCli ELSE [cli EXCEPT !.stage = stage]
    /\ installed' = release
    /\ UNCHANGED <<admission, workVars, runVars, plan, fileVars, executed>>

\* The services are replaced, then verified.  A CLI whose output nobody reads
\* ends with its next line.
CliGoesOn ==
    /\ \/ cli.stage = "pulling" /\ CliStep("replacing", cli.to)
       \/ cli.stage = "replacing" /\ CliStep("succeeded", installed)
       \/ cli # NoCli /\ thread # "watching" /\ CliStep("off", installed)
    /\ UNCHANGED mishaps

\* Before it replaced anything, or with the previous release restored.
CliFails ==
    /\ cli.stage \in {"pulling", "replacing"}
    /\ Mishap
    /\ CliStep("failed", IF cli.stage = "replacing" THEN cli.from ELSE installed)

\* A line of the CLI changes the state of the job.  If that cannot be saved,
\* execute is left and the CLI is not stopped.
CliReports ==
    /\ thread = "watching"
    /\ cli.stage \in {"replacing", "succeeded"} /\ job.state = "downloading"
    /\ Update(With("applying", job.admission), "watching", claim)
    /\ UNCHANGED <<admission, workVars, up, outcome, restarting, plan, cliVars>>

\* On success `current' is the release of the job, and the runner's own files
\* are installed from it, unless that fails.
CliExits ==
    /\ thread = "watching"
    /\ \/ cli.stage = "failed" /\ ThreadAt("failing", claim) /\ UNCHANGED mishaps
       \/ /\ cli.stage = "succeeded" /\ job.state = "applying"
          /\ \/ installed = job.to /\ ThreadAt("reopening", claim) /\ UNCHANGED mishaps
             \/ Mishap /\ ThreadAt("failing", claim)
    /\ cli' = NoCli
    /\ UNCHANGED <<admission, workVars, up, outcome, restarting,
                   plan, fileVars, installed, executed>>

-----------------------------------------------------------------------------
(***************************************************************************)
(* The admission is opened again: by execute, when blockers were found or  *)
(* the release is installed, and by resume.                                *)
(***************************************************************************)
Reopening ==
    /\ thread = "reopening"
    /\ Update(With(job.state, "reopening"), "unpausing", "unknown")
    /\ UNCHANGED <<admission, workVars, up, outcome, restarting, plan, cliVars>>

\* The operator resumes: no upgrade is running, doctor passes, nothing is
\* pending.  The announcement is saved, or resume raises.
Resume ==
    /\ up /\ thread = "none" /\ job # NoJob /\ job.state \notin ACTIVE
    /\ Blockers = {} /\ (OperatorWaits => cli = NoCli)
    /\ \/ /\ Saved(With(job.state, "reopening"))
          /\ ThreadAt("unpausing", "unknown")
          /\ outcome' = "recovered"
          /\ UNCHANGED mishaps
       \/ /\ Mishap
          /\ PartlySaved(With(job.state, "reopening"), FALSE)
          /\ UNCHANGED <<job, thread, claim, outcome>>
    /\ UNCHANGED <<admission, workVars, up, restarting, plan, cliVars>>

\* Mutant: an UPDATE that matches no row is taken for success.
UnpauseUnmatched ==
    /\ thread = "unpausing"
    /\ ThreadAt("finishing", "open")
    /\ UNCHANGED <<admission, workVars, up, outcome, restarting, plan, fileVars, cliVars, mishaps>>

Unpause ==
    /\ thread = "unpausing"
    /\ admission \in {NoRequest, job.id}
    /\ admission' = NoRequest
    /\ ThreadAt("finishing", "open")
    /\ UNCHANGED <<workVars, up, outcome, restarting, plan, fileVars, cliVars, mishaps>>

\* The result is saved; unless it is "blocked" the runner is told to restart,
\* and until then no other upgrade starts.
Finish ==
    /\ thread = "finishing"
    /\ Update(With(outcome, "open"),
              IF outcome = "blocked" THEN "none" ELSE "restart", claim)
    /\ restarting' = (job' # job /\ outcome # "blocked")
    /\ UNCHANGED <<admission, workVars, up, outcome, plan, cliVars>>

Restart ==
    /\ thread = "restart"
    /\ ThreadAt("none", "unknown")
    /\ UNCHANGED <<admission, workVars, up, outcome, restarting, plan, fileVars, cliVars, mishaps>>

\* The publication of the release, a statement or systemctl fails, or its
\* answer is lost: a pause or its end may have been committed.
StepFails ==
    /\ thread \in {"pausing", "locked", "verify", "unpausing", "restart"}
    /\ Mishap
    /\ CASE thread = "locked" -> admission' \in {admission, job.id}
         [] thread = "unpausing" -> admission' \in {admission, NoRequest}
         [] OTHER -> UNCHANGED admission
    /\ ThreadAt("failing", claim)
    /\ UNCHANGED <<workVars, up, outcome, restarting, plan, fileVars, cliVars>>

\* record_failure: in memory the job failed, whether that is saved or not.
RecordFailure ==
    /\ thread = "failing"
    /\ \/ Saved(With("failed", claim)) /\ UNCHANGED mishaps
       \/ /\ Mishap
          /\ PartlySaved(With("failed", claim), FALSE)
          /\ job' = With("failed", claim)
    /\ ThreadAt("none", "unknown")
    /\ restarting' = FALSE
    /\ UNCHANGED <<admission, workVars, up, outcome, plan, cliVars>>

-----------------------------------------------------------------------------
(***************************************************************************)
(* The process of the runner.  systemd ends its children with it.          *)
(***************************************************************************)
\* It restarts as told, or crashes: a pause it sent may then be committed.
RunnerStops ==
    /\ up
    /\ \/ restarting /\ thread = "none" /\ UNCHANGED <<admission, mishaps>>
       \/ /\ Mishap
          /\ admission' \in {admission} \cup (IF thread = "locked" THEN {job.id} ELSE {})
    /\ up' = FALSE
    /\ ThreadAt("none", "unknown")
    /\ restarting' = FALSE
    /\ job' = NoJob
    /\ cli' = NoCli
    /\ UNCHANGED <<workVars, outcome, plan, disk, records, installed, executed>>

\* An attempt that was under way is interrupted, and never executed again.
AfterRestart ==
    IF disk.state \in ACTIVE THEN [disk EXCEPT !.state = "interrupted"] ELSE disk

\* When that cannot be saved the process ends, and is started again.
RunnerStarts ==
    /\ ~up
    /\ \/ /\ up' = TRUE
          /\ IF disk.state \in ACTIVE
             THEN Saved(AfterRestart)
             ELSE job' = disk /\ UNCHANGED <<disk, records>>
          /\ UNCHANGED mishaps
       \/ /\ disk.state \in ACTIVE
          /\ Mishap
          /\ PartlySaved(AfterRestart, FALSE)
          /\ UNCHANGED <<job, up>>
    /\ UNCHANGED <<admission, workVars, thread, claim, outcome, restarting, plan, cliVars>>

-----------------------------------------------------------------------------
\* Steps of execute and resume.
ThreadSteps ==
    \/ PauseLocks \/ PauseCommits \/ LaunchCli \/ CliReports \/ CliExits
    \/ Reopening \/ Unpause \/ Finish \/ Restart \/ RecordFailure

HostNext ==
    \/ \E r \in WorkRows : AdmitRow(r) \/ EndAdmission(r) \/ FinishRow(r)
    \/ \E a \in Activities :
          BeginLease(a) \/ CommitLease(a) \/ RunActivity(a) \/ LoseLease(a) \/ EndLease(a)
    \/ \E v \in Versions : MakePlan(v)
    \/ ExpirePlan
    \/ \E q \in Requests : Start(q)
    \/ ThreadSteps \/ StepFails
    \/ CliGoesOn \/ CliFails
    \/ Resume
    \/ RunnerStops \/ RunnerStarts

HostSpec == HostInit /\ [][HostNext]_hostVars

\* Transactions, activities, threads and processes go on; systemd starts the
\* runner again; the operator resolves what is pending, clears leases whose
\* remote operation ended, and resumes.
RowSteps == \E r \in WorkRows : EndAdmission(r) \/ FinishRow(r)
ActivitySteps == \E a \in Activities : CommitLease(a) \/ RunActivity(a) \/ EndLease(a)

HostFairness ==
    /\ WF_hostVars(RowSteps) /\ WF_hostVars(ActivitySteps)
    /\ WF_hostVars(ThreadSteps) /\ WF_hostVars(CliGoesOn)
    /\ WF_hostVars(RunnerStops) /\ WF_hostVars(RunnerStarts)
    /\ WF_hostVars(Resume)

HostFairSpec == HostSpec /\ HostFairness

-----------------------------------------------------------------------------
Job == [id : Requests \cup {NoRequest}, from : Versions, to : Versions,
        state : JobStates, admission : Claims]

HostTypeOK ==
    /\ admission \in Requests \cup {NoRequest}
    /\ workRow \in [WorkRows -> {"idle", "admitting", "pending"}]
    /\ effect \in [Activities -> {"off", "beginning", "begun", "running", "adrift"}]
    /\ leases \subseteq Activities
    /\ up \in BOOLEAN /\ restarting \in BOOLEAN
    /\ thread \in {"none", "pausing", "locked", "verify", "watching", "reopening",
                   "unpausing", "finishing", "restart", "failing"}
    /\ claim \in Claims
    /\ outcome \in {"succeeded", "blocked", "recovered"}
    /\ plan \in [from : Versions, to : Versions]
    /\ job \in Job /\ disk \in Job
    /\ records \in [Requests -> Job]
    /\ cli \in [stage : {"off", "pulling", "replacing", "succeeded", "failed"},
                from : Versions, to : Versions]
    /\ installed \in Versions
    /\ executed \in [Requests -> Nat]
    /\ mishaps \in 0..MaxMishaps

\* While the CLI runs, from the pull to its end, no row of a guarded table is
\* pending or about to be, and nothing that a worker or a terminal started is
\* still changing a host: the share lock of the triggers, the second statement
\* of pause, and leases that only end with the work.
QuietWhileReplacing ==
    cli.stage \in {"pulling", "replacing"} =>
        /\ \A r \in WorkRows : workRow[r] = "idle"
        /\ \A a \in Activities : effect[a] = "off"

\* A pause belongs to the attempt job.json tells of, and that attempt is not
\* one the runner takes for ended: resume can always lift it.
PauseHasItsJob ==
    admission # NoRequest => admission = disk.id /\ disk.state \notin IdleStates

\* A request runs the CLI once, however often it is sent, whatever crashes and
\* whatever could not be saved.
ExecutedOnce == \A q \in Requests : executed[q] <= 1

\* A record under way is that of job.json: a request that is not the current
\* one has been given its result.
NoOrphanedRequest ==
    \A q \in Requests : records[q].state \in ACTIVE => disk.id = q

\* What a failed attempt tells of the admission is true, in memory and on disk:
\* "paused" that it is, by this attempt, "open" that this attempt left it open.
ClaimsAreTrue ==
    \A s \in {job, disk} : s.state = "failed" =>
        /\ s.admission = "paused" => admission = s.id
        /\ s.admission = "open" => admission # s.id

\* A blocked attempt replaced nothing and left the admission; one that
\* succeeded ran the CLI and left the admission.
ResultsAreTrue ==
    \A q \in Requests :
        /\ records[q].state = "blocked" => executed[q] = 0 /\ admission # q
        /\ records[q].state = "succeeded" => executed[q] = 1 /\ admission # q

\* What the runner has on disk and in memory can be relied on, whatever crashed or
\* could not be saved: the types, the owner of a pause, one execution of a request,
\* an answer for each, and true claims and results.
RecordsAreTrue ==
    /\ HostTypeOK /\ PauseHasItsJob
    /\ ExecutedOnce /\ NoOrphanedRequest
    /\ ClaimsAreTrue /\ ResultsAreTrue

\* New work is admitted again, some day.
AdmissionReopens == []<>(admission = NoRequest)
=============================================================================
