-------------------------- MODULE HostUpgradeProofs --------------------------
(***************************************************************************)
(* Proofs about HostUpgrade, for any number of requests, rows, activities, *)
(* releases and mishaps.                                                   *)
(***************************************************************************)
EXTENDS HostUpgrade, TLAPS

\* Nothing that a guarded table admitted is under way.
Quiet ==
    /\ \A r \in WorkRows : workRow[r] = "idle"
    /\ \A a \in Activities : effect[a] = "off"

CliRuns == cli.stage \in {"pulling", "replacing"}

\* What acts on a host has a lease; the transactions that share the admission
\* row ended before it was locked; from the pause to the end of the CLI, which
\* no unpause overtakes, everything is quiet.
PauseInv ==
    /\ \A a \in Activities : effect[a] \in {"begun", "running", "adrift"} => a \in leases
    /\ thread = "locked" => admission = NoRequest /\ ~SharesAdmission
    /\ thread = "verify" => admission # NoRequest /\ Quiet
    /\ CliRuns => /\ admission # NoRequest /\ Quiet
                  /\ up /\ thread \in {"watching", "failing", "none"}
                  /\ job.state \notin IdleStates

\* Threads in which execute has saved its job and not yet reopened.
Executing == {"pausing", "locked", "verify", "watching", "reopening"}

\* The job in memory, the one on disk and the admission are of one attempt.
JobInv ==
    /\ job = NoJob \/ job.id \in Requests
    /\ disk = NoJob \/ disk.id \in Requests
    /\ thread # "none" => up /\ job.id \in Requests
    /\ thread \in Executing =>
          /\ disk.id = job.id /\ disk.state \notin IdleStates
          /\ job.state \notin IdleStates
    /\ admission # NoRequest => admission = disk.id /\ disk.state \notin IdleStates
    /\ up /\ admission # NoRequest => admission = job.id /\ job.state \notin IdleStates
    /\ thread \in {"finishing", "restart"} => admission = NoRequest

\* A request that was executed left a record, and the current one was not
\* executed before its CLI is launched; a record under way is the current one.
RecordInv ==
    /\ \A q \in Requests : executed[q] # 0 => records[q] # NoJob
    /\ \A q \in Requests : executed[q] <= 1
    /\ thread \in {"pausing", "locked", "verify"} => executed[job.id] = 0
    /\ \A q \in Requests : records[q].state \in ACTIVE =>
          /\ disk.id = q /\ disk.state \notin IdleStates
          /\ up => job.id = q /\ job.state \notin IdleStates

\* What the thread knows of the admission is true, and a file that still says
\* otherwise does not tell of a failed attempt.
ClaimIsTrue(s) ==
    s.state = "failed" => /\ s.admission = "paused" => admission = s.id
                          /\ s.admission = "open" => admission # s.id
ClaimInv ==
    /\ ClaimIsTrue(job) /\ ClaimIsTrue(disk)
    /\ thread # "none" => /\ claim = "paused" => admission = job.id
                          /\ claim = "open" => admission # job.id
    /\ thread \in {"pausing", "locked"} =>
          claim = "unknown" /\ job.state = "checking" /\ disk.state = "checking"
    /\ thread = "unpausing" =>
          claim = "unknown" /\ job.admission = "reopening" /\ disk.admission = "reopening"

\* A result agrees with what was executed, and so will the one to come.
Agrees(result, q) ==
    /\ result = "blocked" => executed[q] = 0
    /\ result = "succeeded" => executed[q] = 1
ResultInv ==
    /\ \A q \in Requests : /\ Agrees(records[q].state, q)
                           /\ records[q].state \in {"blocked", "succeeded"} => admission # q
    /\ job.id \in Requests => Agrees(job.state, job.id)
    /\ disk.id \in Requests => Agrees(disk.state, disk.id)
    /\ thread \in {"pausing", "locked", "verify"} =>
          records[job.id].state \notin {"blocked", "succeeded"}
    /\ thread = "verify" => job.state = "checking"
    /\ thread \in {"verify", "watching"} => outcome = "succeeded"
    /\ thread = "watching" => executed[job.id] = 1
    /\ thread \in {"reopening", "unpausing", "finishing"} => Agrees(outcome, job.id)

HostInv == HostTypeOK /\ JobInv /\ RecordInv /\ ClaimInv /\ ResultInv

\* What a step keeps; of the pause, if the operator waits for the CLI to end.
Kept == HostInv' /\ (OperatorWaits /\ PauseInv => PauseInv')

(***************************************************************************)
(* Writing a job.                                                          *)
(***************************************************************************)
\* A job that is written: in the file that was replaced, the record that was.
LEMMA WithIsJob ==
    ASSUME job \in Job, NEW state \in JobStates, NEW known \in Claims
    PROVE  /\ With(state, known) \in Job
           /\ With(state, known).id = job.id
           /\ With(state, known).state = state
           /\ With(state, known).admission = known
  BY DEF With, Job

LEMMA Writing ==
    ASSUME disk \in Job, records \in [Requests -> Job], NEW new \in Job, new.id \in Requests,
           NEW initial \in BOOLEAN,
           Saved(new) \/ PartlySaved(new, initial)
    PROVE  /\ disk' \in {disk, new}
           /\ records' \in [Requests -> Job]
           /\ \A q \in Requests : q # new.id => records'[q] = records[q]
           /\ records'[new.id] \in {records[new.id], new}
           /\ ~initial => records'[new.id] = new \/ (disk' = disk /\ records' = records)
           /\ initial => disk' = new \/ records' = records
  BY DEF Saved, PartlySaved

\* What an update in execute leaves.
Updated(state, known, place, next) ==
    /\ job' \in Job /\ job'.id = job.id
    /\ disk' \in Job
    /\ disk' = disk \/ (disk'.id = job.id /\ disk'.state = state /\ disk'.admission = known)
    /\ records' \in [Requests -> Job]
    /\ \A q \in Requests : q # job.id => records'[q] = records[q]
    /\ \/ records'[job.id] = records[job.id] /\ disk' = disk
       \/ records'[job.id].id = job.id /\ records'[job.id].state = state
    /\ \/ /\ job'.state = state /\ job'.admission = known /\ disk' = job'
          /\ records'[job.id] = job' /\ thread' = place /\ claim' = next
       \/ job' = job /\ thread' = "failing" /\ claim' = claim
    /\ claim' \in Claims /\ mishaps' \in 0..MaxMishaps

LEMMA UpdateLeaves ==
    ASSUME HostTypeOK, job.id \in Requests,
           NEW state \in JobStates, NEW known \in Claims, NEW place, NEW next \in Claims,
           Update(With(state, known), place, next)
    PROVE  Updated(state, known, place, next)
<1> DEFINE new == With(state, known)
<1>1. new \in Job /\ new.id = job.id /\ new.state = state /\ new.admission = known
  BY WithIsJob DEF HostTypeOK
<1>2. Saved(new) \/ PartlySaved(new, FALSE)
  BY DEF Update
<1>3. /\ disk' \in {disk, new}
      /\ records' \in [Requests -> Job]
      /\ \A q \in Requests : q # new.id => records'[q] = records[q]
      /\ records'[new.id] \in {records[new.id], new}
      /\ records'[new.id] = new \/ (disk' = disk /\ records' = records)
  <2> HIDE DEF new
  <2> QED
    BY <1>1, <1>2, Writing DEF HostTypeOK
<1>4. \/ /\ job' = new
         /\ disk' = new
         /\ records'[new.id] = new
         /\ thread' = place
         /\ claim' = next
         /\ mishaps' = mishaps
      \/ job' = job /\ thread' = "failing" /\ claim' = claim /\ Mishap
  <2>1. records \in [Requests -> Job] /\ new.id \in Requests
    BY <1>1 DEF HostTypeOK
  <2> HIDE DEF new
  <2>2. CASE Saved(new) /\ ThreadAt(place, next) /\ UNCHANGED mishaps
    BY <2>1, <2>2 DEF Saved, ThreadAt
  <2>3. CASE Mishap /\ job' = job /\ ThreadAt("failing", claim)
    BY <2>3 DEF ThreadAt
  <2> QED
    BY <2>2, <2>3 DEF Update, new
<1>5. mishaps' \in 0..MaxMishaps
  BY <1>4, HostAssumption DEF HostTypeOK, Mishap
<1> HIDE DEF new
<1>6. \/ disk' = disk
      \/ disk'.id = job.id /\ disk'.state = state /\ disk'.admission = known
      /\ disk' \in Job
  BY <1>1, <1>3 DEF HostTypeOK
<1>7. /\ \A q \in Requests : q # job.id => records'[q] = records[q]
      /\ \/ records'[job.id] = records[job.id] /\ disk' = disk
         \/ records'[job.id].id = job.id /\ records'[job.id].state = state
  BY <1>1, <1>3
<1>8. /\ job' \in Job /\ job'.id = job.id
      /\ \/ /\ job'.state = state /\ job'.admission = known /\ disk' = job'
            /\ records'[job.id] = job' /\ thread' = place /\ claim' = next
         \/ job' = job /\ thread' = "failing" /\ claim' = claim
  BY <1>1, <1>4 DEF HostTypeOK
<1>9. claim' \in Claims
  BY <1>4 DEF HostTypeOK
<1> QED
  BY <1>3, <1>5, <1>6, <1>7, <1>8, <1>9 DEF Updated

\* An update keeps what RecordInv says of the records.
LEMMA UpdateKeepsRecords ==
    ASSUME HostInv, up, up', job.id \in Requests,
           NEW state, NEW known, NEW place, NEW next,
           Updated(state, known, place, next),
           state \in ACTIVE => /\ disk.id = job.id /\ disk.state \notin IdleStates
                              /\ job.state \notin IdleStates
    PROVE  /\ \A q \in Requests : records[q] # NoJob => records'[q] # NoJob
           /\ job' = job \/ records'[job.id] # NoJob
           /\ \A q \in Requests : records'[q].state \in ACTIVE =>
                 /\ disk'.id = q /\ disk'.state \notin IdleStates
                 /\ up' => job'.id = q /\ job'.state \notin IdleStates
<1>1. ASSUME NEW q \in Requests, records[q] # NoJob PROVE records'[q] # NoJob
  BY <1>1, HostAssumption DEF Updated, NoJob
<1>2. job' = job \/ records'[job.id] # NoJob
  BY HostAssumption DEF Updated, NoJob
<1>3. ASSUME NEW q \in Requests, records'[q].state \in ACTIVE
      PROVE  /\ disk'.id = q /\ disk'.state \notin IdleStates
             /\ job'.id = q /\ job'.state \notin IdleStates
  <2>1. ACTIVE \cap IdleStates = {}
    BY DEF ACTIVE, IdleStates
  <2>2. CASE q # job.id
    BY <1>3, <2>2 DEF Updated, HostInv, RecordInv
  <2>3. CASE q = job.id
    BY <1>3, <2>1 DEF Updated, HostInv, RecordInv
  <2> QED
    BY <2>2, <2>3
<1> QED
  BY <1>1, <1>2, <1>3

\* An update keeps what failed attempts tell of the admission.
LEMMA UpdateKeepsClaims ==
    ASSUME HostInv, job.id \in Requests, NEW state, NEW known, NEW place, NEW next,
           Updated(state, known, place, next), UNCHANGED admission,
           state = "failed" => known = "reopening"
    PROVE  ClaimIsTrue(job)' /\ ClaimIsTrue(disk)'
<1>1. ClaimIsTrue(disk)'
  BY DEF Updated, HostInv, ClaimInv, ClaimIsTrue
<1>2. ClaimIsTrue(job)'
  BY DEF Updated, HostInv, ClaimInv, ClaimIsTrue
<1> QED
  BY <1>1, <1>2

-----------------------------------------------------------------------------
(***************************************************************************)
(* The steps, one lemma for each action.                                   *)
(***************************************************************************)
\* Of a step outside the runner only the types and the pause are in question.
LEMMA OutsideStep ==
    ASSUME HostInv, UNCHANGED <<admission, runVars, fileVars, cliVars>>
    PROVE  JobInv' /\ RecordInv' /\ ClaimInv' /\ ResultInv'
<1>1. JobInv'
  BY DEF HostInv, JobInv, runVars, fileVars
<1>2. RecordInv'
  BY DEF HostInv, RecordInv, runVars, fileVars, cliVars
<1>3. ClaimInv'
  BY DEF HostInv, ClaimInv, ClaimIsTrue, runVars, fileVars
<1>4. ResultInv'
  BY DEF HostInv, ResultInv, Agrees, runVars, fileVars, cliVars
<1> QED
  BY <1>1, <1>2, <1>3, <1>4

LEMMA AdmitRowStep == ASSUME HostInv, NEW r \in WorkRows, AdmitRow(r) PROVE Kept
<1>1. HostTypeOK'
  BY DEF HostInv, HostTypeOK, AdmitRow, RowStep, runVars, fileVars, cliVars
<1>2. ASSUME OperatorWaits, PauseInv PROVE PauseInv'
  BY <1>2 DEF PauseInv, CliRuns, AdmissionOpen, AdmitRow, RowStep, runVars, cliVars
<1>3. JobInv' /\ RecordInv' /\ ClaimInv' /\ ResultInv'
  BY OutsideStep DEF AdmitRow, RowStep
<1> QED
  BY <1>1, <1>2, <1>3 DEF Kept, HostInv

LEMMA EndAdmissionStep == ASSUME HostInv, NEW r \in WorkRows, EndAdmission(r) PROVE Kept
<1>1. HostTypeOK'
  BY DEF HostInv, HostTypeOK, EndAdmission, RowStep, runVars, fileVars, cliVars
<1>2. ASSUME OperatorWaits, PauseInv PROVE PauseInv'
  BY <1>2
     DEF PauseInv, Quiet, CliRuns, SharesAdmission, EndAdmission, RowStep, runVars,
     cliVars
<1>3. JobInv' /\ RecordInv' /\ ClaimInv' /\ ResultInv'
  BY OutsideStep DEF EndAdmission, RowStep
<1> QED
  BY <1>1, <1>2, <1>3 DEF Kept, HostInv

LEMMA FinishRowStep == ASSUME HostInv, NEW r \in WorkRows, FinishRow(r) PROVE Kept
<1>1. HostTypeOK'
  BY DEF HostInv, HostTypeOK, FinishRow, RowStep, runVars, fileVars, cliVars
<1>2. ASSUME OperatorWaits, PauseInv PROVE PauseInv'
  BY <1>2 DEF PauseInv, Quiet, CliRuns, FinishRow, RowStep, runVars, cliVars
<1>3. JobInv' /\ RecordInv' /\ ClaimInv' /\ ResultInv'
  BY OutsideStep DEF FinishRow, RowStep
<1> QED
  BY <1>1, <1>2, <1>3 DEF Kept, HostInv

LEMMA BeginLeaseStep == ASSUME HostInv, NEW a \in Activities, BeginLease(a) PROVE Kept
<1>1. HostTypeOK'
  BY DEF HostInv, HostTypeOK, BeginLease, EffectStep, runVars, fileVars, cliVars
<1>2. ASSUME OperatorWaits, PauseInv PROVE PauseInv'
  BY <1>2
     DEF PauseInv, CliRuns, AdmissionOpen, BeginLease, EffectStep, runVars, cliVars
<1>3. JobInv' /\ RecordInv' /\ ClaimInv' /\ ResultInv'
  BY OutsideStep DEF BeginLease, EffectStep
<1> QED
  BY <1>1, <1>2, <1>3 DEF Kept, HostInv

LEMMA CommitLeaseStep == ASSUME HostInv, NEW a \in Activities, CommitLease(a) PROVE Kept
<1>1. HostTypeOK'
  BY DEF HostInv, HostTypeOK, CommitLease, EffectStep, runVars, fileVars, cliVars
<1>2. ASSUME OperatorWaits, PauseInv PROVE PauseInv'
  BY <1>2
     DEF PauseInv, Quiet, CliRuns, SharesAdmission, CommitLease, EffectStep,
     runVars, cliVars
<1>3. JobInv' /\ RecordInv' /\ ClaimInv' /\ ResultInv'
  BY OutsideStep DEF CommitLease, EffectStep
<1> QED
  BY <1>1, <1>2, <1>3 DEF Kept, HostInv

LEMMA RunActivityStep == ASSUME HostInv, NEW a \in Activities, RunActivity(a) PROVE Kept
<1>1. HostTypeOK'
  BY DEF HostInv, HostTypeOK, RunActivity, EffectStep, runVars, fileVars, cliVars
<1>2. ASSUME OperatorWaits, PauseInv PROVE PauseInv'
  BY <1>2
     DEF HostInv, HostTypeOK, PauseInv, Quiet, CliRuns, SharesAdmission,
     RunActivity, EffectStep, runVars, cliVars
<1>3. JobInv' /\ RecordInv' /\ ClaimInv' /\ ResultInv'
  BY OutsideStep DEF RunActivity, EffectStep
<1> QED
  BY <1>1, <1>2, <1>3 DEF Kept, HostInv

LEMMA LoseLeaseStep == ASSUME HostInv, NEW a \in Activities, LoseLease(a) PROVE Kept
<1>1. HostTypeOK'
  BY HostAssumption
     DEF HostInv, HostTypeOK, Mishap, LoseLease, EffectStep, runVars, fileVars,
     cliVars
<1>2. ASSUME OperatorWaits, PauseInv PROVE PauseInv'
  BY <1>2
     DEF HostInv, HostTypeOK, PauseInv, Quiet, CliRuns, SharesAdmission, LoseLease,
     EffectStep, runVars, cliVars
<1>3. JobInv' /\ RecordInv' /\ ClaimInv' /\ ResultInv'
  BY OutsideStep DEF LoseLease, EffectStep
<1> QED
  BY <1>1, <1>2, <1>3 DEF Kept, HostInv

LEMMA EndLeaseStep == ASSUME HostInv, NEW a \in Activities, EndLease(a) PROVE Kept
<1>1. HostTypeOK'
  BY DEF HostInv, HostTypeOK, EndLease, EffectStep, runVars, fileVars, cliVars
<1>2. ASSUME OperatorWaits, PauseInv PROVE PauseInv'
  BY <1>2
     DEF HostInv, HostTypeOK, PauseInv, Quiet, CliRuns, SharesAdmission, EndLease,
     EffectStep, runVars, fileVars, cliVars
<1>3. JobInv' /\ RecordInv' /\ ClaimInv' /\ ResultInv'
  BY OutsideStep DEF EndLease, EffectStep
<1> QED
  BY <1>1, <1>2, <1>3 DEF Kept, HostInv

LEMMA MakePlanStep == ASSUME HostInv, NEW v \in Versions, MakePlan(v) PROVE Kept
<1>1. HostTypeOK'
  BY DEF HostInv, HostTypeOK, MakePlan, runVars, workVars, fileVars, cliVars
<1>2. ASSUME OperatorWaits, PauseInv PROVE PauseInv'
  BY <1>2 DEF PauseInv, CliRuns, MakePlan, IsIdle, runVars, workVars, cliVars
<1>3. JobInv' /\ RecordInv' /\ ClaimInv' /\ ResultInv'
  BY OutsideStep DEF MakePlan
<1> QED
  BY <1>1, <1>2, <1>3 DEF Kept, HostInv

LEMMA ExpirePlanStep == ASSUME HostInv, ExpirePlan PROVE Kept
<1>1. HostTypeOK'
  BY HostAssumption
     DEF HostInv, HostTypeOK, ExpirePlan, NoPlan, Versions, runVars, workVars,
     fileVars, cliVars
<1>2. ASSUME OperatorWaits, PauseInv PROVE PauseInv'
  BY <1>2
     DEF PauseInv, Quiet, CliRuns, SharesAdmission, ExpirePlan, runVars, workVars,
     fileVars, cliVars
<1>3. JobInv' /\ RecordInv' /\ ClaimInv' /\ ResultInv'
  BY OutsideStep DEF ExpirePlan
<1> QED
  BY <1>1, <1>2, <1>3 DEF Kept, HostInv

LEMMA StartStep == ASSUME HostInv, NEW q \in Requests, Start(q) PROVE Kept
<1>1. HostTypeOK'
  BY HostAssumption
     DEF HostInv, HostTypeOK, Job, Mishap, ThreadAt, JobStates, ACTIVE, Claims,
     Start, IsIdle, NewJob, Saved, PartlySaved, workVars, cliVars
<1>2. ASSUME OperatorWaits, PauseInv PROVE PauseInv'
  BY <1>2 DEF PauseInv, CliRuns, ThreadAt, Start, IsIdle, workVars, cliVars
<1>3. JobInv'
  BY DEF HostInv, JobInv, Executing, ThreadAt, IdleStates, Start, IsIdle, NewJob,
     Saved, PartlySaved
<1>4. RecordInv'
  BY HostAssumption
     DEF HostInv, HostTypeOK, Job, JobInv, Executing, RecordInv, ThreadAt,
     IdleStates, ACTIVE, NoJob, Mishap, Start, IsNew, IsIdle, NewJob, Saved,
     PartlySaved, runVars, workVars, fileVars, cliVars
<1>5. ClaimInv'
  BY HostAssumption
     DEF HostInv, JobInv, ClaimInv, ClaimIsTrue, ThreadAt, Start, IsIdle, NewJob,
     Saved, PartlySaved
<1>6. ResultInv'
  BY HostAssumption
     DEF HostInv, HostTypeOK, JobInv, RecordInv, Executing, ResultInv, ClaimInv,
     Agrees, ThreadAt, IdleStates, ACTIVE, NoJob, Job, Start, IsNew, IsIdle, NewJob,
     Saved, PartlySaved, runVars, workVars, fileVars, cliVars
<1> QED
  BY <1>1, <1>2, <1>3, <1>4, <1>5, <1>6 DEF Kept, HostInv

LEMMA PauseLocksStep == ASSUME HostInv, PauseLocks PROVE Kept
<1>1. HostTypeOK'
  BY DEF HostInv, HostTypeOK, ThreadAt, PauseLocks, workVars, fileVars, cliVars
<1>2. ASSUME OperatorWaits, PauseInv PROVE PauseInv'
  BY <1>2
     DEF PauseInv, CliRuns, SharesAdmission, ThreadAt, PauseLocks, workVars, cliVars
<1>3. JobInv'
  BY DEF HostInv, JobInv, Executing, PauseLocks, fileVars
<1>4. RecordInv'
  BY DEF HostInv, RecordInv, PauseLocks, fileVars, cliVars
<1>5. ClaimInv'
  BY DEF HostInv, ClaimInv, ClaimIsTrue, ThreadAt, PauseLocks, fileVars
<1>6. ResultInv'
  BY HostAssumption
     DEF HostInv, HostTypeOK, JobInv, RecordInv, Executing, ResultInv, ClaimInv,
     Agrees, ThreadAt, IdleStates, ACTIVE, NoJob, Job, PauseLocks, runVars,
     workVars, fileVars, cliVars
<1> QED
  BY <1>1, <1>2, <1>3, <1>4, <1>5, <1>6 DEF Kept, HostInv

LEMMA PauseCommitsStep == ASSUME HostInv, PauseCommits PROVE Kept
<1>1. HostTypeOK'
  BY DEF HostInv, HostTypeOK, Job, ThreadAt, Claims, PauseCommits, Paused, workVars,
     fileVars, cliVars
<1>2. ASSUME OperatorWaits, PauseInv PROVE PauseInv'
  BY <1>2, HostAssumption
     DEF HostInv, HostTypeOK, PauseInv, Quiet, CliRuns, SharesAdmission,
     AdmissionOpen, Blockers, ThreadAt, NoCli, IdleStates, ACTIVE, PauseCommits,
     Paused, runVars, workVars, fileVars, cliVars, JobInv, NoJob, Mishap
<1>3. JobInv'
  BY DEF HostInv, JobInv, Executing, ThreadAt, PauseCommits, Paused, fileVars
<1>4. RecordInv'
  BY DEF HostInv, RecordInv, PauseCommits, Paused, fileVars, cliVars
<1>5. ClaimInv'
  BY DEF HostInv, ClaimInv, ClaimIsTrue, ThreadAt, PauseCommits, Paused, fileVars
<1>6. ResultInv'
  BY HostAssumption
     DEF HostInv, HostTypeOK, JobInv, RecordInv, Executing, ResultInv, ClaimInv,
     Agrees, ThreadAt, IdleStates, ACTIVE, NoJob, Job, PauseCommits, Paused,
     runVars, workVars, fileVars, cliVars
<1> QED
  BY <1>1, <1>2, <1>3, <1>4, <1>5, <1>6 DEF Kept, HostInv

LEMMA LaunchCliStep == ASSUME HostInv, LaunchCli PROVE Kept
<1>1. /\ job.id \in Requests
      /\ "downloading" \in JobStates
      /\ job.admission \in Claims
      /\ claim \in Claims
      /\ thread = "verify"
  BY DEF HostInv, HostTypeOK, JobInv, LaunchCli, Job, JobStates, ACTIVE
<1>2. Updated("downloading", job.admission, (IF cli = NoCli THEN "watching" ELSE "failing"), claim)
  BY <1>1, UpdateLeaves DEF HostInv, LaunchCli
<1>3. HostTypeOK'
  BY <1>2, <1>1, HostAssumption
     DEF HostInv, HostTypeOK, LaunchCli, NoCli, Updated, workVars, Job, Versions
<1>4. ASSUME OperatorWaits, PauseInv PROVE PauseInv'
  BY <1>4, <1>2
     DEF HostInv, PauseInv, Quiet, CliRuns, IdleStates, JobInv, LaunchCli, Updated,
     workVars
<1>5. JobInv'
  BY <1>2, <1>1, HostAssumption
     DEF HostInv, HostTypeOK, Job, JobInv, Executing, ThreadAt, IdleStates, ACTIVE,
     NoJob, Mishap, LaunchCli, NoCli, Updated, runVars, workVars, fileVars, cliVars
<1>6. /\ up
      /\ up'
      /\ "downloading" \in ACTIVE =>
            /\ disk.id = job.id
            /\ disk.state \notin IdleStates
            /\ job.state \notin IdleStates
  BY DEF HostInv, JobInv, Executing, LaunchCli
<1>7. /\ \A q \in Requests : records[q] # NoJob => records'[q] # NoJob
      /\ job' = job \/ records'[job.id] # NoJob
      /\ \A q \in Requests : records'[q].state \in ACTIVE =>
            /\ disk'.id = q /\ disk'.state \notin IdleStates
            /\ up' => job'.id = q /\ job'.state \notin IdleStates
  BY <1>2, <1>1, <1>6, UpdateKeepsRecords
<1>8. RecordInv'
  BY <1>2, <1>1, <1>6, <1>7
     DEF HostInv, HostTypeOK, RecordInv, LaunchCli, Updated, runVars, workVars,
     fileVars, cliVars
<1>9. ClaimIsTrue(job)' /\ ClaimIsTrue(disk)'
  BY <1>2, <1>1, UpdateKeepsClaims DEF LaunchCli
<1>10. ClaimInv'
  BY <1>2, <1>1, <1>9 DEF HostInv, ClaimInv, LaunchCli, Updated
<1>11. ResultInv'
  BY <1>2, <1>1, HostAssumption
     DEF HostInv, HostTypeOK, JobInv, RecordInv, Executing, ResultInv, ClaimInv,
     Agrees, ThreadAt, IdleStates, ACTIVE, NoJob, Job, LaunchCli, NoCli, Updated,
     runVars, workVars, fileVars, cliVars
<1> QED
  BY <1>3, <1>4, <1>5, <1>8, <1>10, <1>11 DEF Kept, HostInv

LEMMA CliGoesOnStep == ASSUME HostInv, CliGoesOn PROVE Kept
<1>1. HostTypeOK'
  BY HostAssumption
     DEF HostInv, HostTypeOK, CliGoesOn, CliStep, NoCli, runVars, workVars,
     fileVars, Versions
<1>2. ASSUME OperatorWaits, PauseInv PROVE PauseInv'
  BY <1>2
     DEF PauseInv, Quiet, CliRuns, SharesAdmission, NoCli, CliGoesOn, CliStep,
     runVars, workVars, fileVars
<1>3. JobInv'
  BY DEF HostInv, JobInv, CliGoesOn, CliStep, runVars, fileVars
<1>4. RecordInv'
  BY HostAssumption
     DEF HostInv, HostTypeOK, Job, JobInv, Executing, RecordInv, ThreadAt,
     IdleStates, ACTIVE, NoJob, Mishap, CliGoesOn, CliStep, NoCli, runVars,
     workVars, fileVars, cliVars
<1>5. ClaimInv'
  BY DEF HostInv, ClaimInv, ClaimIsTrue, CliGoesOn, CliStep, runVars, fileVars
<1>6. ResultInv'
  BY HostAssumption
     DEF HostInv, HostTypeOK, JobInv, RecordInv, Executing, ResultInv, ClaimInv,
     Agrees, ThreadAt, IdleStates, ACTIVE, NoJob, Job, CliGoesOn, CliStep, NoCli,
     runVars, workVars, fileVars, cliVars
<1> QED
  BY <1>1, <1>2, <1>3, <1>4, <1>5, <1>6 DEF Kept, HostInv

LEMMA CliFailsStep == ASSUME HostInv, CliFails PROVE Kept
<1>1. HostTypeOK'
  BY HostAssumption
     DEF HostInv, HostTypeOK, Mishap, CliFails, CliStep, runVars, workVars, fileVars
<1>2. ASSUME OperatorWaits, PauseInv PROVE PauseInv'
  BY <1>2 DEF PauseInv, CliRuns, CliFails, CliStep, runVars, workVars
<1>3. JobInv'
  BY DEF HostInv, JobInv, CliFails, CliStep, runVars, fileVars
<1>4. RecordInv'
  BY DEF HostInv, RecordInv, CliFails, CliStep, runVars, fileVars
<1>5. ClaimInv'
  BY DEF HostInv, ClaimInv, ClaimIsTrue, CliFails, CliStep, runVars, fileVars
<1>6. ResultInv'
  BY DEF HostInv, ResultInv, Agrees, CliFails, CliStep, runVars, fileVars
<1> QED
  BY <1>1, <1>2, <1>3, <1>4, <1>5, <1>6 DEF Kept, HostInv

LEMMA CliReportsStep == ASSUME HostInv, CliReports PROVE Kept
<1>1. /\ job.id \in Requests
      /\ "applying" \in JobStates
      /\ job.admission \in Claims
      /\ claim \in Claims
      /\ thread = "watching"
  BY DEF HostInv, HostTypeOK, JobInv, CliReports, Job, JobStates, ACTIVE
<1>2. Updated("applying", job.admission, "watching", claim)
  BY <1>1, UpdateLeaves DEF HostInv, CliReports
<1>3. HostTypeOK'
  BY <1>2 DEF HostInv, HostTypeOK, CliReports, Updated, workVars, cliVars
<1>4. ASSUME OperatorWaits, PauseInv PROVE PauseInv'
  BY <1>4, <1>2
     DEF PauseInv, Quiet, CliRuns, IdleStates, CliReports, Updated, workVars,
     cliVars
<1>5. JobInv'
  BY <1>2 DEF HostInv, JobInv, Executing, IdleStates, CliReports, Updated
<1>6. /\ up
      /\ up'
      /\ "applying" \in ACTIVE =>
            /\ disk.id = job.id
            /\ disk.state \notin IdleStates
            /\ job.state \notin IdleStates
  BY DEF HostInv, JobInv, Executing, CliReports
<1>7. /\ \A q \in Requests : records[q] # NoJob => records'[q] # NoJob
      /\ job' = job \/ records'[job.id] # NoJob
      /\ \A q \in Requests : records'[q].state \in ACTIVE =>
            /\ disk'.id = q /\ disk'.state \notin IdleStates
            /\ up' => job'.id = q /\ job'.state \notin IdleStates
  BY <1>2, <1>1, <1>6, UpdateKeepsRecords
<1>8. RecordInv'
  BY <1>2, <1>7 DEF HostInv, RecordInv, CliReports, Updated, cliVars
<1>9. ClaimIsTrue(job)' /\ ClaimIsTrue(disk)'
  BY <1>2, <1>1, UpdateKeepsClaims DEF CliReports
<1>10. ClaimInv'
  BY <1>2, <1>9 DEF HostInv, ClaimInv, CliReports, Updated
<1>11. ResultInv'
  BY <1>2, <1>1, HostAssumption
     DEF HostInv, HostTypeOK, JobInv, RecordInv, Executing, ResultInv, ClaimInv,
     Agrees, ThreadAt, IdleStates, ACTIVE, NoJob, Job, CliReports, Updated, runVars,
     workVars, fileVars, cliVars
<1> QED
  BY <1>3, <1>4, <1>5, <1>8, <1>10, <1>11 DEF Kept, HostInv

LEMMA CliExitsStep == ASSUME HostInv, CliExits PROVE Kept
<1>1. HostTypeOK'
  BY HostAssumption
     DEF HostInv, HostTypeOK, Mishap, ThreadAt, CliExits, NoCli, workVars, fileVars,
     Versions
<1>2. ASSUME OperatorWaits, PauseInv PROVE PauseInv'
  BY <1>2 DEF PauseInv, CliRuns, ThreadAt, NoCli, CliExits, workVars
<1>3. JobInv'
  BY DEF HostInv, JobInv, Executing, ThreadAt, CliExits, fileVars
<1>4. RecordInv'
  BY DEF HostInv, RecordInv, ThreadAt, CliExits, fileVars
<1>5. ClaimInv'
  BY DEF HostInv, ClaimInv, ClaimIsTrue, ThreadAt, CliExits, fileVars
<1>6. ResultInv'
  BY DEF HostInv, ResultInv, Agrees, ThreadAt, CliExits, fileVars
<1> QED
  BY <1>1, <1>2, <1>3, <1>4, <1>5, <1>6 DEF Kept, HostInv

LEMMA ReopeningStep == ASSUME HostInv, Reopening PROVE Kept
<1>1. /\ job.id \in Requests
      /\ job.state \in JobStates
      /\ "reopening" \in Claims
      /\ "unknown" \in Claims
      /\ thread = "reopening"
  BY DEF HostInv, HostTypeOK, JobInv, Reopening, Job, Claims
<1>2. Updated(job.state, "reopening", "unpausing", "unknown")
  BY <1>1, UpdateLeaves DEF HostInv, Reopening
<1>3. HostTypeOK'
  BY <1>2 DEF HostInv, HostTypeOK, Reopening, Updated, workVars, cliVars
<1>4. ASSUME OperatorWaits, PauseInv PROVE PauseInv'
  BY <1>4, <1>2 DEF PauseInv, CliRuns, Reopening, Updated, workVars, cliVars
<1>5. JobInv'
  BY <1>2 DEF HostInv, JobInv, Executing, Reopening, Updated
<1>6. /\ up
      /\ up'
      /\ job.state \in ACTIVE =>
            /\ disk.id = job.id
            /\ disk.state \notin IdleStates
            /\ job.state \notin IdleStates
  BY DEF HostInv, JobInv, Executing, Reopening
<1>7. /\ \A q \in Requests : records[q] # NoJob => records'[q] # NoJob
      /\ job' = job \/ records'[job.id] # NoJob
      /\ \A q \in Requests : records'[q].state \in ACTIVE =>
            /\ disk'.id = q /\ disk'.state \notin IdleStates
            /\ up' => job'.id = q /\ job'.state \notin IdleStates
  BY <1>2, <1>1, <1>6, UpdateKeepsRecords
<1>8. RecordInv'
  BY <1>2, <1>7 DEF HostInv, RecordInv, Reopening, Updated, cliVars
<1>9. ClaimIsTrue(job)' /\ ClaimIsTrue(disk)'
  BY <1>2, <1>1, UpdateKeepsClaims DEF Reopening
<1>10. ClaimInv'
  BY <1>2, <1>9 DEF HostInv, ClaimInv, Reopening, Updated
<1>11. ResultInv'
  BY <1>2, <1>1, HostAssumption
     DEF HostInv, HostTypeOK, JobInv, RecordInv, Executing, ResultInv, ClaimInv,
     Agrees, ThreadAt, IdleStates, ACTIVE, NoJob, Job, Reopening, Updated, runVars,
     workVars, fileVars, cliVars
<1> QED
  BY <1>3, <1>4, <1>5, <1>8, <1>10, <1>11 DEF Kept, HostInv

LEMMA ResumeStep == ASSUME HostInv, Resume PROVE Kept
<1> DEFINE new == With(job.state, "reopening")
<1>1. /\ up /\ thread = "none" /\ job.id \in Requests /\ job.state \notin ACTIVE
      /\ OperatorWaits => cli = NoCli
      /\ UNCHANGED <<admission, workVars, up, restarting, plan, cliVars>>
  BY DEF HostInv, JobInv, Resume
<1>2. /\ new \in Job
      /\ new.id = job.id
      /\ new.state = job.state
      /\ new.admission = "reopening"
  <2>1. job \in Job /\ job.state \in JobStates /\ "reopening" \in Claims
    BY DEF HostInv, HostTypeOK, Job, Claims
  <2> QED
    BY <2>1, WithIsJob
<1>3. Saved(new) \/ PartlySaved(new, FALSE)
  BY DEF Resume
<1>4. \/ /\ job' = new /\ disk' = new /\ records' = [records EXCEPT ![new.id] = new]
         /\ thread' = "unpausing" /\ claim' = "unknown" /\ outcome' = "recovered"
         /\ UNCHANGED mishaps
      \/ Mishap /\ UNCHANGED <<job, thread, claim, outcome>>
  BY DEF Resume, Saved, ThreadAt
<1> HIDE DEF new
<1>5. /\ disk' \in {disk, new}
      /\ records' \in [Requests -> Job]
      /\ \A q \in Requests : q # new.id => records'[q] = records[q]
      /\ records'[new.id] \in {records[new.id], new}
      /\ records'[new.id] = new \/ (disk' = disk /\ records' = records)
  <2>1. disk \in Job /\ records \in [Requests -> Job] /\ new.id \in Requests
    BY <1>1, <1>2 DEF HostInv, HostTypeOK
  <2> QED
    BY <1>2, <1>3, <2>1, Writing
<1>6. HostTypeOK'
  <2>1. job' \in Job /\ disk' \in Job /\ claim' \in Claims
    BY <1>2, <1>4, <1>5 DEF HostInv, HostTypeOK, Claims
  <2>2. mishaps' \in 0..MaxMishaps
    BY <1>4, HostAssumption DEF HostInv, HostTypeOK, Mishap
  <2> QED
    BY <1>1, <1>4, <1>5, <2>1, <2>2 DEF HostInv, HostTypeOK, workVars, cliVars
<1>7. ASSUME OperatorWaits, PauseInv PROVE PauseInv'
  BY <1>1, <1>4, <1>7 DEF PauseInv, CliRuns, NoCli, workVars, cliVars
<1>8. JobInv'
  BY <1>1, <1>2, <1>4, <1>5 DEF HostInv, JobInv, Executing
<1>9. RecordInv'
  <2>1. \A q \in Requests : records[q] # NoJob => records'[q] # NoJob
    BY <1>5, HostAssumption DEF NoJob
  <2>2. \A q \in Requests : records'[q].state \in ACTIVE =>
          /\ disk'.id = q /\ disk'.state \notin IdleStates
          /\ job'.id = q /\ job'.state \notin IdleStates
    BY <1>1, <1>2, <1>4, <1>5 DEF HostInv, RecordInv
  <2> QED
    BY <1>1, <1>4, <2>1, <2>2 DEF HostInv, RecordInv, cliVars
<1>10. ClaimInv'
  BY <1>1, <1>2, <1>4, <1>5 DEF HostInv, ClaimInv, ClaimIsTrue
<1>11. ResultInv'
  BY <1>1, <1>2, <1>4, <1>5, HostAssumption
     DEF HostInv, JobInv, ResultInv, Agrees, IdleStates, cliVars
<1> QED
  BY <1>6, <1>7, <1>8, <1>9, <1>10, <1>11 DEF Kept, HostInv

LEMMA UnpauseStep == ASSUME HostInv, Unpause PROVE Kept
<1>1. HostTypeOK'
  BY DEF HostInv, HostTypeOK, ThreadAt, Claims, Unpause, workVars, fileVars, cliVars
<1>2. ASSUME OperatorWaits, PauseInv PROVE PauseInv'
  BY <1>2 DEF PauseInv, CliRuns, ThreadAt, Unpause, workVars, cliVars
<1>3. JobInv'
  BY DEF HostInv, JobInv, Executing, ThreadAt, Unpause, fileVars
<1>4. RecordInv'
  BY DEF HostInv, RecordInv, ThreadAt, Unpause, fileVars, cliVars
<1>5. ClaimInv'
  BY HostAssumption
     DEF HostInv, JobInv, ClaimInv, ClaimIsTrue, ThreadAt, Unpause, fileVars
<1>6. ResultInv'
  BY HostAssumption
     DEF HostInv, ResultInv, Agrees, ThreadAt, Unpause, fileVars, cliVars
<1> QED
  BY <1>1, <1>2, <1>3, <1>4, <1>5, <1>6 DEF Kept, HostInv

LEMMA FinishStep == ASSUME HostInv, Finish PROVE Kept
<1>1. /\ job.id \in Requests
      /\ outcome \in JobStates
      /\ "open" \in Claims
      /\ claim \in Claims
      /\ thread = "finishing"
  BY DEF HostInv, HostTypeOK, JobInv, Finish, JobStates, IdleStates, Claims
<1>2. Updated(outcome, "open", (IF outcome = "blocked" THEN "none" ELSE "restart"), claim)
  BY <1>1, UpdateLeaves DEF HostInv, Finish
<1>3. HostTypeOK'
  BY <1>2 DEF HostInv, HostTypeOK, Finish, Updated, workVars, cliVars
<1>4. ASSUME OperatorWaits, PauseInv PROVE PauseInv'
  BY <1>4, <1>2 DEF PauseInv, CliRuns, Finish, Updated, workVars, cliVars
<1>5. JobInv'
  BY <1>2 DEF HostInv, JobInv, Executing, Finish, Updated
<1>6. /\ up
      /\ up'
      /\ outcome \in ACTIVE =>
            /\ disk.id = job.id
            /\ disk.state \notin IdleStates
            /\ job.state \notin IdleStates
  BY DEF HostInv, HostTypeOK, JobInv, Finish, ACTIVE
<1>7. /\ \A q \in Requests : records[q] # NoJob => records'[q] # NoJob
      /\ job' = job \/ records'[job.id] # NoJob
      /\ \A q \in Requests : records'[q].state \in ACTIVE =>
            /\ disk'.id = q /\ disk'.state \notin IdleStates
            /\ up' => job'.id = q /\ job'.state \notin IdleStates
  BY <1>2, <1>1, <1>6, UpdateKeepsRecords
<1>8. RecordInv'
  BY <1>2, <1>7 DEF HostInv, RecordInv, Finish, Updated, cliVars
<1>9. ClaimIsTrue(job)' /\ ClaimIsTrue(disk)'
  BY <1>2, <1>1, UpdateKeepsClaims DEF HostInv, HostTypeOK, Finish
<1>10. ClaimInv'
  BY <1>2, <1>9 DEF HostInv, ClaimInv, Finish, Updated
<1>11. ResultInv'
  BY <1>2, <1>1, HostAssumption
     DEF HostInv, HostTypeOK, JobInv, RecordInv, Executing, ResultInv, ClaimInv,
     Agrees, ThreadAt, IdleStates, ACTIVE, NoJob, Job, Finish, Updated, runVars,
     workVars, fileVars, cliVars
<1> QED
  BY <1>3, <1>4, <1>5, <1>8, <1>10, <1>11 DEF Kept, HostInv

LEMMA RestartStep == ASSUME HostInv, Restart PROVE Kept
<1>1. HostTypeOK'
  BY DEF HostInv, HostTypeOK, ThreadAt, Claims, Restart, workVars, fileVars, cliVars
<1>2. ASSUME OperatorWaits, PauseInv PROVE PauseInv'
  BY <1>2 DEF PauseInv, CliRuns, ThreadAt, Restart, workVars, cliVars
<1>3. JobInv'
  BY DEF HostInv, JobInv, Executing, ThreadAt, Restart, fileVars
<1>4. RecordInv'
  BY DEF HostInv, RecordInv, ThreadAt, Restart, fileVars, cliVars
<1>5. ClaimInv'
  BY DEF HostInv, ClaimInv, ClaimIsTrue, ThreadAt, Restart, fileVars
<1>6. ResultInv'
  BY DEF HostInv, ResultInv, Agrees, ThreadAt, Restart, fileVars, cliVars
<1> QED
  BY <1>1, <1>2, <1>3, <1>4, <1>5, <1>6 DEF Kept, HostInv

LEMMA StepFailsStep == ASSUME HostInv, StepFails PROVE Kept
<1>1. HostTypeOK'
  BY HostAssumption
     DEF HostInv, HostTypeOK, Job, Mishap, ThreadAt, StepFails, workVars, fileVars,
     cliVars
<1>2. ASSUME OperatorWaits, PauseInv PROVE PauseInv'
  BY <1>2 DEF PauseInv, CliRuns, ThreadAt, StepFails, workVars, cliVars
<1>3. JobInv'
  BY DEF HostInv, JobInv, Executing, ThreadAt, StepFails, fileVars
<1>4. RecordInv'
  BY DEF HostInv, RecordInv, ThreadAt, StepFails, fileVars, cliVars
<1>5. ClaimInv'
  BY DEF HostInv, ClaimInv, ClaimIsTrue, ThreadAt, StepFails, fileVars
<1>6. ResultInv'
  BY HostAssumption
     DEF HostInv, ResultInv, Agrees, ThreadAt, StepFails, fileVars, cliVars
<1> QED
  BY <1>1, <1>2, <1>3, <1>4, <1>5, <1>6 DEF Kept, HostInv

LEMMA RecordFailureStep == ASSUME HostInv, RecordFailure PROVE Kept
<1> DEFINE new == With("failed", claim)
<1>1. /\ thread = "failing" /\ up /\ job.id \in Requests
      /\ thread' = "none" /\ claim' = "unknown" /\ restarting' = FALSE
      /\ UNCHANGED <<admission, workVars, up, outcome, plan, cliVars>>
  BY DEF HostInv, JobInv, RecordFailure, ThreadAt
<1>2. new \in Job /\ new.id = job.id /\ new.state = "failed" /\ new.admission = claim
  <2>1. job \in Job /\ "failed" \in JobStates /\ claim \in Claims
    BY DEF HostInv, HostTypeOK, JobStates
  <2> QED
    BY <2>1, WithIsJob
<1>3. Saved(new) \/ PartlySaved(new, FALSE)
  BY DEF RecordFailure
<1>4. job' = new /\ (UNCHANGED mishaps \/ Mishap)
  BY DEF RecordFailure, Saved
<1> HIDE DEF new
<1>5. /\ disk' \in {disk, new}
      /\ records' \in [Requests -> Job]
      /\ \A q \in Requests : q # new.id => records'[q] = records[q]
      /\ records'[new.id] \in {records[new.id], new}
      /\ records'[new.id] = new \/ (disk' = disk /\ records' = records)
  <2>1. disk \in Job /\ records \in [Requests -> Job] /\ new.id \in Requests
    BY <1>1, <1>2 DEF HostInv, HostTypeOK
  <2> QED
    BY <1>2, <1>3, <2>1, Writing
<1>6. HostTypeOK'
  <2>1. mishaps' \in 0..MaxMishaps
    BY <1>4, HostAssumption DEF HostInv, HostTypeOK, Mishap
  <2>2. job' \in Job /\ disk' \in Job
    BY <1>2, <1>4, <1>5 DEF HostInv, HostTypeOK
  <2> QED
    BY <1>1, <1>5, <2>1, <2>2 DEF HostInv, HostTypeOK, Claims, workVars, cliVars
<1>7. ASSUME OperatorWaits, PauseInv PROVE PauseInv'
  BY <1>1, <1>2, <1>4, <1>7
     DEF PauseInv, Quiet, CliRuns, IdleStates, workVars, cliVars
<1>8. JobInv'
  BY <1>1, <1>2, <1>4, <1>5 DEF HostInv, JobInv, Executing, IdleStates
<1>9. RecordInv'
  <2>1. \A q \in Requests : records[q] # NoJob => records'[q] # NoJob
    BY <1>5, HostAssumption DEF NoJob
  <2>2. "failed" \notin ACTIVE \cup IdleStates
    BY DEF ACTIVE, IdleStates
  <2>3. \A q \in Requests : records'[q].state \in ACTIVE =>
          /\ disk'.id = q /\ disk'.state \notin IdleStates
          /\ job'.id = q /\ job'.state \notin IdleStates
    BY <1>1, <1>2, <1>4, <1>5, <2>2 DEF HostInv, RecordInv
  <2> QED
    BY <1>1, <2>1, <2>3 DEF HostInv, RecordInv, cliVars
<1>10. ClaimInv'
  BY <1>1, <1>2, <1>4, <1>5 DEF HostInv, ClaimInv, ClaimIsTrue
<1>11. ResultInv'
  BY <1>1, <1>2, <1>4, <1>5 DEF HostInv, ResultInv, Agrees, cliVars
<1> QED
  BY <1>6, <1>7, <1>8, <1>9, <1>10, <1>11 DEF Kept, HostInv

LEMMA RunnerStopsStep == ASSUME HostInv, RunnerStops PROVE Kept
<1>1. HostTypeOK'
  <2>1. admission' \in Requests \cup {NoRequest}
    BY DEF HostInv, HostTypeOK, Job, RunnerStops
  <2>2. mishaps' \in 0..MaxMishaps
    BY HostAssumption DEF HostInv, HostTypeOK, Mishap, RunnerStops
  <2>3. NoJob \in Job /\ NoCli.from \in Versions /\ NoCli.to \in Versions
    BY HostAssumption DEF NoJob, NoCli, Job, JobStates, IdleStates, Claims, Versions
  <2> QED
    BY <2>1, <2>2, <2>3
       DEF HostInv, HostTypeOK, RunnerStops, ThreadAt, NoCli, Claims, workVars
<1>2. ASSUME OperatorWaits, PauseInv PROVE PauseInv'
  BY <1>2 DEF PauseInv, CliRuns, ThreadAt, NoCli, RunnerStops, workVars
<1>3. JobInv'
  BY DEF HostInv, JobInv, Executing, ThreadAt, RunnerStops
<1>4. RecordInv'
  BY DEF HostInv, RecordInv, ThreadAt, RunnerStops
<1>5. ClaimInv'
  BY DEF HostInv, ClaimInv, ClaimIsTrue, ThreadAt, NoJob, RunnerStops
<1>6. ResultInv'
  BY DEF HostInv, ResultInv, Agrees, ThreadAt, NoJob, RunnerStops
<1> QED
  BY <1>1, <1>2, <1>3, <1>4, <1>5, <1>6 DEF Kept, HostInv

LEMMA RunnerStartsStep == ASSUME HostInv, RunnerStarts PROVE Kept
<1>1. HostTypeOK'
  <2>1. disk \in Job /\ records \in [Requests -> Job]
    BY DEF HostInv, HostTypeOK
  <2>2. ASSUME disk.state \in ACTIVE
        PROVE  AfterRestart \in Job /\ AfterRestart.id \in Requests
    BY <2>1, <2>2 DEF HostInv, JobInv, AfterRestart, Job, JobStates, NoJob, ACTIVE
  <2>3. disk' \in Job /\ records' \in [Requests -> Job]
    <3>1. CASE disk.state \in ACTIVE
      <4>1. Saved(AfterRestart) \/ PartlySaved(AfterRestart, FALSE)
        BY <3>1 DEF RunnerStarts
      <4> QED
        BY <2>1, <2>2, <3>1, <4>1, Writing
    <3>2. CASE disk.state \notin ACTIVE
      BY <2>1, <3>2 DEF RunnerStarts
    <3> QED
      BY <3>1, <3>2
  <2>4. job' \in Job /\ up' \in BOOLEAN
    BY <2>2 DEF HostInv, HostTypeOK, RunnerStarts, Saved
  <2>5. mishaps' = mishaps \/ Mishap
    BY DEF RunnerStarts
  <2>6. mishaps' \in 0..MaxMishaps
    BY <2>5, HostAssumption DEF HostInv, HostTypeOK, Mishap
  <2> QED
    BY <2>3, <2>4, <2>6 DEF HostInv, HostTypeOK, RunnerStarts, workVars, cliVars
<1>2. ASSUME OperatorWaits, PauseInv PROVE PauseInv'
  BY <1>2
     DEF PauseInv, Quiet, CliRuns, SharesAdmission, RunnerStarts, workVars, cliVars
<1>3. JobInv'
  BY DEF HostInv, HostTypeOK, Job, JobInv, IdleStates, ACTIVE, NoJob, RunnerStarts,
     Saved, PartlySaved, AfterRestart
<1>4. RecordInv'
  BY HostAssumption
     DEF HostInv, HostTypeOK, Job, JobInv, Executing, RecordInv, ThreadAt,
     IdleStates, ACTIVE, NoJob, Mishap, RunnerStarts, Saved, PartlySaved,
     AfterRestart, runVars, workVars, fileVars, cliVars
<1>5. ClaimInv'
  BY DEF HostInv, HostTypeOK, JobInv, ClaimInv, ClaimIsTrue, Job, RunnerStarts,
     Saved, PartlySaved, AfterRestart
<1>6. ResultInv'
  BY HostAssumption
     DEF HostInv, HostTypeOK, JobInv, RecordInv, Executing, ResultInv, ClaimInv,
     Agrees, ThreadAt, IdleStates, ACTIVE, NoJob, Job, RunnerStarts, Saved,
     PartlySaved, AfterRestart, runVars, workVars, fileVars, cliVars
<1> QED
  BY <1>1, <1>2, <1>3, <1>4, <1>5, <1>6 DEF Kept, HostInv

-----------------------------------------------------------------------------
(***************************************************************************)
(* The theorems.                                                           *)
(***************************************************************************)
LEMMA HostInitially == ASSUME HostInit PROVE HostInv /\ PauseInv
<1>1. 0 \in Versions
  BY HostAssumption DEF Versions
<1>2. /\ NoJob \in Job
      /\ NoPlan \in [from : Versions, to : Versions]
      /\ NoCli \in [stage : {"off", "pulling", "replacing", "succeeded", "failed"},
                    from : Versions, to : Versions]
  BY <1>1 DEF NoJob, NoPlan, NoCli, Job, JobStates, IdleStates, Claims
<1>3. HostTypeOK
  <2>1. job \in Job /\ disk \in Job /\ records \in [Requests -> Job]
    BY <1>2 DEF HostInit
  <2>2. executed \in [Requests -> Nat] /\ mishaps \in 0..MaxMishaps
    BY HostAssumption DEF HostInit
  <2> QED
    BY <1>1, <1>2, <2>2 DEF HostInit, HostTypeOK, Claims
<1>4. JobInv
  BY DEF HostInit, JobInv, Executing
<1>5. RecordInv
  BY DEF HostInit, RecordInv, NoJob, ACTIVE
<1>6. PauseInv
  BY DEF HostInit, PauseInv, CliRuns, NoCli
<1>7. ClaimInv /\ ResultInv
  BY DEF HostInit, ClaimInv, ClaimIsTrue, ResultInv, Agrees, NoJob
<1> QED
  BY <1>3, <1>4, <1>5, <1>6, <1>7 DEF HostInv

LEMMA HostStep == ASSUME HostInv, [HostNext]_hostVars PROVE Kept
<1>1. CASE UNCHANGED hostVars
  <2>1. HostTypeOK'
    BY <1>1 DEF HostInv, HostTypeOK, hostVars
  <2>2. JobInv'
    BY <1>1 DEF HostInv, JobInv, hostVars
  <2>3. RecordInv'
    BY <1>1 DEF HostInv, RecordInv, hostVars
  <2>4. PauseInv => PauseInv'
    BY <1>1 DEF PauseInv, Quiet, CliRuns, SharesAdmission, hostVars
  <2>5. ClaimInv' /\ ResultInv'
    BY <1>1 DEF HostInv, ClaimInv, ClaimIsTrue, ResultInv, Agrees, hostVars
  <2> QED
    BY <2>1, <2>2, <2>3, <2>4, <2>5 DEF Kept, HostInv
<1>2. CASE \E r \in WorkRows : AdmitRow(r) \/ EndAdmission(r) \/ FinishRow(r)
  BY <1>2, AdmitRowStep, EndAdmissionStep, FinishRowStep
<1>3. CASE \E a \in Activities :
              BeginLease(a) \/ CommitLease(a) \/ RunActivity(a) \/ LoseLease(a) \/ EndLease(a)
  BY <1>3, BeginLeaseStep, CommitLeaseStep, RunActivityStep, LoseLeaseStep,
     EndLeaseStep
<1>4. CASE ExpirePlan \/ \E v \in Versions : MakePlan(v)
  BY <1>4, MakePlanStep, ExpirePlanStep
<1>5. CASE \E q \in Requests : Start(q)
  BY <1>5, StartStep
<1>6. CASE ThreadSteps
  BY <1>6, PauseLocksStep, PauseCommitsStep, LaunchCliStep, CliReportsStep,
     CliExitsStep, ReopeningStep, UnpauseStep, FinishStep, RestartStep,
     RecordFailureStep DEF ThreadSteps
<1>7. CASE StepFails \/ CliGoesOn \/ CliFails \/ Resume \/ RunnerStops \/ RunnerStarts
  BY <1>7, StepFailsStep, CliGoesOnStep, CliFailsStep, ResumeStep, RunnerStopsStep,
     RunnerStartsStep
<1> QED
  BY <1>1, <1>2, <1>3, <1>4, <1>5, <1>6, <1>7 DEF HostNext

\* The invariant of the runner, for every behaviour.
THEOREM HostInvariant == HostSpec => []HostInv
<1>1. HostInit => HostInv
  BY HostInitially
<1>2. HostInv /\ [HostNext]_hostVars => HostInv'
  BY HostStep DEF Kept
<1> QED
  BY <1>1, <1>2, PTL DEF HostSpec

\* The types of the rows, files and processes of an upgrade.
THEOREM HostTypeCorrect == HostSpec => []HostTypeOK
<1>1. HostInv => HostTypeOK
  BY DEF HostInv
<1> QED
  BY <1>1, HostInvariant, PTL

\* Nothing that was admitted is under way while the CLI replaces the services,
\* if the operator resumes only when no CLI is left running.
THEOREM UpgradeIsAlone == ASSUME OperatorWaits PROVE HostSpec => []QuietWhileReplacing
<1>1. HostInit => HostInv /\ PauseInv
  BY HostInitially
<1>2. HostInv /\ PauseInv /\ [HostNext]_hostVars => HostInv' /\ PauseInv'
  BY HostStep DEF Kept
<1>3. PauseInv => QuietWhileReplacing
  BY DEF PauseInv, QuietWhileReplacing, CliRuns, Quiet
<1> QED
  BY <1>1, <1>2, <1>3, PTL DEF HostSpec

\* A pause belongs to the attempt job.json tells of.
THEOREM PauseIsResumable == HostSpec => []PauseHasItsJob
<1>1. HostInv => PauseHasItsJob
  BY DEF HostInv, JobInv, PauseHasItsJob
<1> QED
  BY <1>1, HostInvariant, PTL

\* A request runs the CLI once, whatever crashes or could not be saved.
THEOREM RequestsRunOnce == HostSpec => []ExecutedOnce
<1>1. HostInv => ExecutedOnce
  BY DEF HostInv, RecordInv, ExecutedOnce
<1> QED
  BY <1>1, HostInvariant, PTL

\* A request that is not the current one has been given its result.
THEOREM RequestsAreAnswered == HostSpec => []NoOrphanedRequest
<1>1. HostInv => NoOrphanedRequest
  BY DEF HostInv, RecordInv, NoOrphanedRequest
<1> QED
  BY <1>1, HostInvariant, PTL

\* What a failed attempt tells of the admission is true.
THEOREM ClaimsHold == HostSpec => []ClaimsAreTrue
<1>1. HostInv => ClaimsAreTrue
  BY DEF HostInv, ClaimInv, ClaimIsTrue, ClaimsAreTrue
<1> QED
  BY <1>1, HostInvariant, PTL

\* A result tells whether the CLI ran, and the admission is not paused for it.
THEOREM ResultsHold == HostSpec => []ResultsAreTrue
<1>1. HostInv => ResultsAreTrue
  BY DEF HostInv, ResultInv, Agrees, ResultsAreTrue
<1> QED
  BY <1>1, HostInvariant, PTL

\* What the runner has on disk and in memory can be relied on.
THEOREM RecordsHold == HostSpec => []RecordsAreTrue
<1>1. HostTypeOK /\ PauseHasItsJob /\ ExecutedOnce /\ NoOrphanedRequest
        /\ ClaimsAreTrue /\ ResultsAreTrue => RecordsAreTrue
  BY DEF RecordsAreTrue
<1>2. QED
  BY <1>1, HostTypeCorrect, PauseIsResumable, RequestsRunOnce, RequestsAreAnswered,
     ClaimsHold, ResultsHold, PTL
=============================================================================
