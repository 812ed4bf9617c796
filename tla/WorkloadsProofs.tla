---------------------------- MODULE WorkloadsProofs ----------------------------
(***************************************************************************)
(* Proofs about the protocols of MCWorkloads, for any restores, commits,   *)
(* builds and number of things that go wrong.                              *)
(***************************************************************************)
EXTENDS MCWorkloads, TLAPS

\* An executor that has not switched the pointer, and one that never will.
BeforeSwitch == {"absent", "context", "claiming", "removed", "promoting"} \cup Cancellable
Untouching == {"aborted", "candidate_failed"}
Idle == {"absent", "done", "gone"}
Stages == BeforeSwitch \cup InScript \cup {"promoted", "rolledBack", "posting", "done", "gone"}
Verdicts == {"none", "promoted", "rolled_back", "rollback_failed", "candidate_failed",
             "aborted", "error"}

RestoreResults ==
    [outcome : {"none", "promoted", "rolled_back", "rollback_failed", "candidate_failed"},
     previous : Volumes \cup {NoVolume}]
RestoreRows ==
    [state : {"none", "queued", "running"} \cup Finished,
     phase : {"queued", "candidate", "promoting"} \cup Finished,
     cancelRequested : BOOLEAN, result : RestoreResults]
Hosts == [pointer : Volumes, mounted : Volumes \cup {NoVolume}, volumes : SUBSET Volumes]

ExecutorsTypeOK ==
    executor \in [Restores -> [at : Stages, previous : Volumes \cup {NoVolume},
                               verdict : Verdicts, attended : BOOLEAN]]

\* An executor knows the volume to return to from its preflight on.  A verdict is
\* what it reports at its end, and a row that has more to say than that it failed
\* has it from there.
VerdictsAreLast ==
    \A r \in Restores :
        /\ executor[r].verdict # "none" => executor[r].at \in {"posting", "done", "gone"}
        /\ executor[r].at = "posting" => executor[r].verdict # "none"
        /\ executor[r].at \in {"absent", "context", "claiming", "preflight"} =>
              executor[r].previous = NoVolume
        /\ executor[r].at \in {"restoring", "validating"} \cup InScript =>
              executor[r].previous # NoVolume
        /\ row[r].result.outcome # "none" =>
              executor[r].at = "done" /\ row[r].result.outcome = executor[r].verdict
        /\ row[r].result.outcome = "promoted" =>
              row[r].result.previous = executor[r].previous
        /\ row[r].state = "succeeded" => row[r].result.outcome = "promoted"
        /\ row[r].state = "cancelled" => executor[r].verdict = "aborted"
        /\ row[r].result.outcome # "none" => row[r].state \in Finished
        /\ cleanup[r] # "none" => row[r].result.outcome = "promoted"

\* Before the pointer is switched to a candidate, and after it was given up,
\* nobody depends on its volume; until it is prepared, and after the download was
\* aborted, there is none.
CandidatesAreApart ==
    \A r \in Restores :
        /\ executor[r].at \in BeforeSwitch \/ executor[r].verdict \in Untouching =>
              host.pointer # r /\ \A q \in Restores : executor[q].previous # r
        /\ \/ executor[r].at \in {"absent", "context", "claiming", "preflight", "restoring"}
           \/ executor[r].verdict = "aborted"
           => r \notin host.volumes

\* The coordinator runs one operation of the service at a time, and each once.
Engaged(r) == workflow[r] \in {"running", "marking"}
OneEngaged ==
    /\ \A r \in Restores :
          /\ row[r].state = "none" => workflow[r] = "none"
          /\ workflow[r] \in {"none", "waiting"} => executor[r].at = "absent"
    /\ \A r, q \in Restores : Engaged(r) /\ Engaged(q) => r = q

\* An executor that Temporal has not given up is awaited by its workflow.
Awaited == \A r \in Restores : executor[r].at \notin Idle => workflow[r] = "running"

\* Where pointer, container and volumes are while an executor is at a stage.
Place(r) ==
    LET at == executor[r].at  previous == executor[r].previous
    IN  /\ at \in {"validating", "promoting", "removed", "switched", "promoted"} =>
              r \in host.volumes
        /\ at \in {"restoring", "validating", "promoted"} \cup InScript =>
              previous \in host.volumes \ {r}
        /\ at = "posting" /\ executor[r].verdict = "promoted" =>
              previous \in host.volumes \ {r}
        /\ at \in {"restoring", "validating", "promoting", "removed", "undoing"} =>
              host.pointer = previous
        /\ at \in {"switched", "promoted"} => host.pointer = r
        /\ at = "removed" => host.mounted = NoVolume
        /\ at \in {"switched", "undoing"} => \A q \in Restores : executor[q].previous # r

\* A restore whose candidate was taken over, as far as its executor knows.
TakenOver(r) == executor[r].at = "promoted" \/ executor[r].verdict = "promoted"

\* The volume it left is not returned to, and left by it alone.
LeftForGood ==
    \A q \in Restores : TakenOver(q) =>
        /\ executor[q].previous # host.pointer
        /\ host.pointer = q \/ \E p \in Restores : executor[p].previous = q
        /\ \A r \in Restores \ {q} : executor[r].at = "switched" \/ TakenOver(r) =>
               executor[r].previous # executor[q].previous

\* The database is down because restore r is in its script, or was and is yet to
\* say so, or has failed.
DownFor(r) ==
    /\ executor[r].verdict \in {"none", "rollback_failed"}
    /\ \/ executor[r].at \in {"removed", "switched", "undoing"}
       \/ executor[r].at \in {"posting", "done", "gone"} /\ Engaged(r)
       \/ executor[r].at \in {"done", "gone"} /\ row[r].state = "failed"

AloneInv ==
    /\ Awaited
    /\ host.pointer \in host.volumes /\ host.mounted \in {host.pointer, NoVolume}
    /\ \A r \in Restores : Place(r)
    /\ LeftForGood
    /\ PreviousIsRetained
    /\ host.mounted = NoVolume => \E r \in Restores : DownFor(r)

RestoreIInv ==
    /\ RestoreTypeOK /\ ExecutorsTypeOK
    /\ VerdictsAreLast /\ CandidatesAreApart /\ OneEngaged
    /\ ~late => AloneInv

-----------------------------------------------------------------------------
\* The executor of restore r goes on at `next', with a verdict or none.
Sets(r, next, verdict) ==
    /\ ExecutorsTypeOK'
    /\ executor'[r].at = next /\ executor'[r].verdict = verdict
    /\ \A q \in Restores \ {r} : executor'[q] = executor[q]
Moves(r, next, verdict) ==
    Sets(r, next, verdict) /\ executor'[r].previous = executor[r].previous

\* The rows say what they said, but for phases and requests to cancel.
SameRows ==
    /\ row' \in [Restores -> RestoreRows]
    /\ \A q \in Restores : row'[q].state = row[q].state /\ row'[q].result = row[q].result

\* The types of all that an executor does not write.
OthersKeep ==
    /\ UNCHANGED <<admission, canceller, cleanup, workflow, late>>
    /\ restoreMishaps' \in 0 .. MaxRestoreMishaps

LEMMA ExecutorGoesOn ==
  ASSUME ExecutorsTypeOK, NEW r \in Restores, NEW next \in Stages, GoesOn(r, next)
  PROVE  Moves(r, next, executor[r].verdict)
  BY DEF ExecutorsTypeOK, GoesOn, Moves, Sets

LEMMA ExecutorReports ==
  ASSUME ExecutorsTypeOK, NEW r \in Restores, NEW verdict \in Verdicts, Reports(r, verdict)
  PROVE  Moves(r, "posting", verdict)
  BY DEF ExecutorsTypeOK, Reports, Stages, Moves, Sets

LEMMA ProgressTells ==
  ASSUME RestoreTypeOK, NEW r \in Restores, NEW phase \in {"candidate", "promoting"},
         Progress(r, phase)
  PROVE  SameRows
<1>1. row \in [Restores -> RestoreRows]
  BY DEF RestoreTypeOK, RestoreRows, RestoreResults
<1> QED
  BY <1>1 DEF Progress, SameRows, RestoreRows

LEMMA RowsAreClaimed ==
  ASSUME RestoreTypeOK, NEW r \in Restores,
         row' = [row EXCEPT ![r].state = IF @ = "queued" THEN "running" ELSE @]
  PROVE  /\ row' \in [Restores -> RestoreRows]
         /\ \A q \in Restores : /\ row'[q].result = row[q].result
                                /\ row'[q].state = row[q].state \/ (row[q].state = "queued" /\ row'[q].state = "running")
<1>1. row \in [Restores -> RestoreRows]
  BY DEF RestoreTypeOK, RestoreRows, RestoreResults
<1>2. CASE row[r].state = "queued"
  <2>1. row' = [row EXCEPT ![r].state = "running"]
    BY <1>2
  <2> QED
    BY <1>1, <1>2, <2>1 DEF RestoreRows
<1>3. CASE row[r].state # "queued"
  <2>1. row' = [row EXCEPT ![r].state = row[r].state]
    BY <1>3
  <2> QED
    BY <1>1, <2>1 DEF RestoreRows
<1> QED
  BY <1>2, <1>3

LEMMA UnchangedRowsTell == ASSUME RestoreTypeOK, UNCHANGED row PROVE SameRows
  BY DEF RestoreTypeOK, RestoreRows, RestoreResults, SameRows

LEMMA PostTells ==
  ASSUME RestoreTypeOK, NEW r \in Restores, NEW state \in Finished,
         NEW result \in RestoreResults, Post(r, state, result)
  PROVE  /\ row' \in [Restores -> RestoreRows]
         /\ \A q \in Restores \ {r} : row'[q] = row[q]
         /\ \/ row'[r] = row[r]
            \/ /\ row[r].state \notin Finished
               /\ row'[r].state = state /\ row'[r].result = result
<1>1. row \in [Restores -> RestoreRows]
  BY DEF RestoreTypeOK, RestoreRows, RestoreResults
<1>2. CASE row[r].state \in Finished
  BY <1>1, <1>2 DEF Post
<1>3. CASE row[r].state \notin Finished
  BY <1>1, <1>3 DEF Post, RestoreRows
<1> QED
  BY <1>2, <1>3

LEMMA MarkResult == "failed" \in Finished /\ NoResult \in RestoreResults
  BY DEF Finished, NoResult, RestoreResults

LEMMA VerdictTells ==
  ASSUME ExecutorsTypeOK, NEW r \in Restores, executor[r].verdict # "none"
  PROVE  StateOf(executor[r].verdict) \in Finished /\ ResultOf(r) \in RestoreResults
  BY DEF ExecutorsTypeOK, Verdicts, StateOf, ResultOf, NoResult, Finished, RestoreResults

LEMMA KnowsPrevious ==
  ASSUME RestoreIInv, NEW r \in Restores, executor[r].at \in InScript
  PROVE  executor[r].previous \in Volumes
  BY DEF RestoreIInv, ExecutorsTypeOK, VerdictsAreLast

LEMMA WorkerCrashMoves ==
  ASSUME ExecutorsTypeOK, NEW r \in Restores, WorkerCrashes(r)
  PROVE  \/ executor[r].at \in InScript /\ Moves(r, executor[r].at, executor[r].verdict)
         \/ executor[r].at \notin InScript /\ Moves(r, "gone", executor[r].verdict)
<1>1. CASE executor[r].at \in InScript
  <2>1. executor' = [executor EXCEPT ![r].attended = FALSE, ![r].at = executor[r].at]
    BY <1>1 DEF WorkerCrashes
  <2> QED
    BY <1>1, <2>1 DEF ExecutorsTypeOK, Moves, Sets
<1>2. CASE executor[r].at \notin InScript
  <2>1. executor' = [executor EXCEPT ![r].attended = FALSE, ![r].at = "gone"]
    BY <1>2 DEF WorkerCrashes
  <2> QED
    BY <1>2, <2>1 DEF ExecutorsTypeOK, Moves, Sets, Stages
<1> QED
  BY <1>1, <1>2

LEMMA MishapsCount ==
  ASSUME RestoreTypeOK, Mishap \/ NoMishap PROVE restoreMishaps' \in 0 .. MaxRestoreMishaps
  BY VolumesAssumption DEF RestoreTypeOK, Mishap, NoMishap

\* Where nobody is late, one executor is at work.
LEMMA NobodyElse ==
  ASSUME RestoreIInv, ~late, NEW r \in Restores, Engaged(r), NEW q \in Restores \ {r}
  PROVE  executor[q].at \in Idle /\ ~Engaged(q)
  BY DEF RestoreIInv, AloneInv, Awaited, OneEngaged, Engaged

\* What a step of an executor at work leaves as it was.
LEMMA ExecutorLeaves ==
  ASSUME RestoreIInv, NEW r \in Restores, executor[r].at \notin Idle, OthersKeep,
         NEW next, NEW verdict, Sets(r, next, verdict),
         row' \in [Restores -> RestoreRows],
         \A q \in Restores : row'[q].state = "none" => row[q].state = "none",
         host' \in Hosts
  PROVE  RestoreTypeOK' /\ ExecutorsTypeOK' /\ OneEngaged' /\ (~late => Awaited')
<1>1. RestoreTypeOK'
  BY
     DEF RestoreIInv, RestoreTypeOK, Sets, ExecutorsTypeOK, RestoreRows, RestoreResults,
         Hosts, OthersKeep
<1>2. OneEngaged'
  BY DEF RestoreIInv, OneEngaged, Engaged, Sets, OthersKeep, Idle
<1>3. ~late => Awaited'
  BY DEF RestoreIInv, AloneInv, Awaited, Sets, OthersKeep
<1> QED
  BY <1>1, <1>2, <1>3 DEF Sets

LEMMA TakeContextKeeps ==
  ASSUME RestoreIInv, NEW r \in Restores, TakeContext(r) PROVE RestoreIInv'
<1> USE DEF RestoreIInv
<1>0. executor[r].at = "context" /\ executor[r].at \notin Idle /\ executor[r].verdict = "none"
  BY DEF TakeContext, VerdictsAreLast, Idle
<1>1. OthersKeep
  BY MishapsCount DEF TakeContext, OthersKeep, apiVars, NoMishap
<1>2. Moves(r, "posting", "error") \/ Moves(r, "claiming", "none")
  BY <1>0, ExecutorGoesOn, ExecutorReports
     DEF TakeContext, Stages, Verdicts, BeforeSwitch, Cancellable, Preparing, InScript
<1>3. SameRows
  BY UnchangedRowsTell DEF TakeContext
<1>4. UNCHANGED host /\ host' \in Hosts
  BY <1>0 DEF TakeContext, RestoreTypeOK, Hosts, Volumes
<1>5. RestoreTypeOK' /\ ExecutorsTypeOK' /\ OneEngaged' /\ (~late => Awaited')
  BY <1>0, <1>1, <1>2, <1>3, <1>4, ExecutorLeaves DEF SameRows, Moves
<1>6. VerdictsAreLast'
  BY <1>0, <1>1, <1>2, <1>3
     DEF VerdictsAreLast, OthersKeep, Finished, Moves, Sets, SameRows, InScript
<1>7. CandidatesAreApart'
  BY <1>0, <1>2, <1>4
     DEF CandidatesAreApart, Moves, Sets, BeforeSwitch, Cancellable, Preparing, Untouching
<1>8. ASSUME ~late PROVE AloneInv'
  <2>1. AloneInv /\ workflow[r] = "running" /\ \A q \in Restores \ {r} : executor[q].at \in Idle
    BY <1>0, <1>8, NobodyElse DEF AloneInv, Awaited, Engaged
  <2>2. (host.pointer \in host.volumes /\ host.mounted \in {host.pointer, NoVolume})'
    BY <1>0, <1>2, <1>4, <2>1 DEF AloneInv, Place, Moves, Sets, InScript
  <2>3. ASSUME NEW q \in Restores PROVE Place(q)'
    <3>1. CASE q = r
      BY <1>0, <1>2, <1>4, <2>1, <3>1 DEF AloneInv, Place, Moves, Sets, InScript
    <3>2. CASE q # r
      BY <1>0, <1>2, <2>1, <3>2 DEF Place, Moves, Sets, Idle, InScript
    <3> QED
      BY <3>1, <3>2
  <2>4. LeftForGood'
    BY <1>0, <1>2, <1>4, <2>1
       DEF AloneInv, LeftForGood, TakenOver, Place, Moves, Sets, Idle, CandidatesAreApart,
           BeforeSwitch, Cancellable, Preparing, InScript
  <2>5. PreviousIsRetained'
    BY <1>0, <1>1, <1>2, <1>3, <1>4, <2>1
       DEF AloneInv, PreviousIsRetained, SameRows, OthersKeep, Moves, Sets, Place,
           CandidatesAreApart, VerdictsAreLast, BeforeSwitch, Cancellable, Preparing,
           InScript
  <2>6. (host.mounted = NoVolume => \E q \in Restores : DownFor(q))'
    BY <1>0, <1>1, <1>2, <1>3, <1>4, <2>1
       DEF AloneInv, DownFor, Engaged, OthersKeep, SameRows, Moves, Sets, VerdictsAreLast,
           InScript
  <2> QED
    BY <1>5, <1>8, <2>1, <2>2, <2>3, <2>4, <2>5, <2>6 DEF AloneInv
<1>9. late' = late
  BY <1>1 DEF OthersKeep
<1> QED
  BY <1>5, <1>6, <1>7, <1>8, <1>9

LEMMA ClaimRowKeeps ==
  ASSUME RestoreIInv, NEW r \in Restores, ClaimRow(r) PROVE RestoreIInv'
<1> USE DEF RestoreIInv
<1>0. executor[r].at = "claiming" /\ executor[r].at \notin Idle /\ executor[r].verdict = "none"
  BY DEF ClaimRow, VerdictsAreLast, Idle
<1>1. OthersKeep
  BY MishapsCount DEF ClaimRow, OthersKeep, apiVars, NoMishap
<1>2. Moves(r, "preflight", "none")
  BY <1>0, ExecutorGoesOn, ExecutorReports
     DEF ClaimRow, Stages, Verdicts, BeforeSwitch, Cancellable, Preparing, InScript
<1>3. /\ row' \in [Restores -> RestoreRows]
      /\ \A q \in Restores : /\ row'[q].result = row[q].result
                             /\ row'[q].state = row[q].state \/ (row[q].state = "queued" /\ row'[q].state = "running")
  BY RowsAreClaimed DEF ClaimRow
<1>4. UNCHANGED host /\ host' \in Hosts
  BY <1>0 DEF ClaimRow, RestoreTypeOK, Hosts, Volumes
<1>5. RestoreTypeOK' /\ ExecutorsTypeOK' /\ OneEngaged' /\ (~late => Awaited')
  BY <1>0, <1>1, <1>2, <1>3, <1>4, ExecutorLeaves DEF SameRows, Moves
<1>6. VerdictsAreLast'
  BY <1>0, <1>1, <1>2, <1>3
     DEF VerdictsAreLast, OthersKeep, Finished, Moves, Sets, SameRows, InScript
<1>7. CandidatesAreApart'
  BY <1>0, <1>2, <1>4
     DEF CandidatesAreApart, Moves, Sets, BeforeSwitch, Cancellable, Preparing, Untouching
<1>8. ASSUME ~late PROVE AloneInv'
  <2>1. AloneInv /\ workflow[r] = "running" /\ \A q \in Restores \ {r} : executor[q].at \in Idle
    BY <1>0, <1>8, NobodyElse DEF AloneInv, Awaited, Engaged
  <2>2. (host.pointer \in host.volumes /\ host.mounted \in {host.pointer, NoVolume})'
    BY <1>0, <1>2, <1>4, <2>1 DEF AloneInv, Place, Moves, Sets, InScript
  <2>3. ASSUME NEW q \in Restores PROVE Place(q)'
    <3>1. CASE q = r
      BY <1>0, <1>2, <1>4, <2>1, <3>1 DEF AloneInv, Place, Moves, Sets, InScript
    <3>2. CASE q # r
      BY <1>0, <1>2, <2>1, <3>2 DEF Place, Moves, Sets, Idle, InScript
    <3> QED
      BY <3>1, <3>2
  <2>4. LeftForGood'
    BY <1>0, <1>2, <1>4, <2>1
       DEF AloneInv, LeftForGood, TakenOver, Place, Moves, Sets, Idle, CandidatesAreApart,
           BeforeSwitch, Cancellable, Preparing, InScript
  <2>5. PreviousIsRetained'
    BY <1>0, <1>1, <1>2, <1>3, <1>4, <2>1
       DEF AloneInv, PreviousIsRetained, SameRows, OthersKeep, Moves, Sets, Place,
           CandidatesAreApart, VerdictsAreLast, BeforeSwitch, Cancellable, Preparing,
           InScript
  <2>6. (host.mounted = NoVolume => \E q \in Restores : DownFor(q))'
    BY <1>0, <1>1, <1>2, <1>3, <1>4, <2>1
       DEF AloneInv, DownFor, Engaged, OthersKeep, SameRows, Moves, Sets, VerdictsAreLast,
           InScript
  <2> QED
    BY <1>5, <1>8, <2>1, <2>2, <2>3, <2>4, <2>5, <2>6 DEF AloneInv
<1>9. late' = late
  BY <1>1 DEF OthersKeep
<1> QED
  BY <1>5, <1>6, <1>7, <1>8, <1>9

LEMMA PrepareCandidateKeeps ==
  ASSUME RestoreIInv, NEW r \in Restores, PrepareCandidate(r) PROVE RestoreIInv'
<1> USE DEF RestoreIInv
<1>0. executor[r].at = "restoring" /\ executor[r].at \notin Idle /\ executor[r].verdict = "none"
  BY DEF PrepareCandidate, VerdictsAreLast, Idle
<1>1. OthersKeep
  BY MishapsCount DEF PrepareCandidate, OthersKeep, apiVars, NoMishap
<1>2. Moves(r, "validating", "none")
  BY <1>0, ExecutorGoesOn, ExecutorReports
     DEF PrepareCandidate, Stages, Verdicts, BeforeSwitch, Cancellable, Preparing,
         InScript
<1>3. SameRows
  BY ProgressTells DEF PrepareCandidate
<1>4. /\ host' \in Hosts /\ host'.volumes = host.volumes \cup {r}
      /\ host'.pointer = host.pointer /\ host'.mounted = host.mounted
  BY <1>0 DEF PrepareCandidate, RestoreTypeOK, Hosts, Volumes
<1>5. RestoreTypeOK' /\ ExecutorsTypeOK' /\ OneEngaged' /\ (~late => Awaited')
  BY <1>0, <1>1, <1>2, <1>3, <1>4, ExecutorLeaves DEF SameRows, Moves
<1>6. VerdictsAreLast'
  BY <1>0, <1>1, <1>2, <1>3
     DEF VerdictsAreLast, OthersKeep, Finished, Moves, Sets, SameRows, InScript
<1>7. CandidatesAreApart'
  BY <1>0, <1>2, <1>4
     DEF CandidatesAreApart, Moves, Sets, BeforeSwitch, Cancellable, Preparing, Untouching
<1>8. ASSUME ~late PROVE AloneInv'
  <2>1. AloneInv /\ workflow[r] = "running" /\ \A q \in Restores \ {r} : executor[q].at \in Idle
    BY <1>0, <1>8, NobodyElse DEF AloneInv, Awaited, Engaged
  <2>2. (host.pointer \in host.volumes /\ host.mounted \in {host.pointer, NoVolume})'
    BY <1>0, <1>2, <1>4, <2>1 DEF AloneInv, Place, Moves, Sets, InScript
  <2>3. ASSUME NEW q \in Restores PROVE Place(q)'
    <3>1. CASE q = r
      BY <1>0, <1>2, <1>4, <2>1, <3>1 DEF AloneInv, Place, Moves, Sets, InScript
    <3>2. CASE q # r
      BY <1>0, <1>2, <2>1, <3>2 DEF Place, Moves, Sets, Idle, InScript
    <3> QED
      BY <3>1, <3>2
  <2>4. LeftForGood'
    BY <1>0, <1>2, <1>4, <2>1
       DEF AloneInv, LeftForGood, TakenOver, Place, Moves, Sets, Idle, CandidatesAreApart,
           BeforeSwitch, Cancellable, Preparing, InScript
  <2>5. PreviousIsRetained'
    BY <1>0, <1>1, <1>2, <1>3, <1>4, <2>1
       DEF AloneInv, PreviousIsRetained, SameRows, OthersKeep, Moves, Sets, Place,
           CandidatesAreApart, VerdictsAreLast, BeforeSwitch, Cancellable, Preparing,
           InScript
  <2>6. (host.mounted = NoVolume => \E q \in Restores : DownFor(q))'
    BY <1>0, <1>1, <1>2, <1>3, <1>4, <2>1
       DEF AloneInv, DownFor, Engaged, OthersKeep, SameRows, Moves, Sets, VerdictsAreLast,
           InScript
  <2> QED
    BY <1>5, <1>8, <2>1, <2>2, <2>3, <2>4, <2>5, <2>6 DEF AloneInv
<1>9. late' = late
  BY <1>1 DEF OthersKeep
<1> QED
  BY <1>5, <1>6, <1>7, <1>8, <1>9

LEMMA BeginPromotionKeeps ==
  ASSUME RestoreIInv, NEW r \in Restores, BeginPromotion(r) PROVE RestoreIInv'
<1> USE DEF RestoreIInv
<1>0. executor[r].at = "validating" /\ executor[r].at \notin Idle /\ executor[r].verdict = "none"
  BY DEF BeginPromotion, VerdictsAreLast, Idle
<1>1. OthersKeep
  BY MishapsCount DEF BeginPromotion, OthersKeep, apiVars, NoMishap
<1>2. Moves(r, "promoting", "none")
  BY <1>0, ExecutorGoesOn, ExecutorReports
     DEF BeginPromotion, Stages, Verdicts, BeforeSwitch, Cancellable, Preparing, InScript
<1>3. SameRows
  BY ProgressTells DEF BeginPromotion
<1>4. UNCHANGED host /\ host' \in Hosts
  BY <1>0 DEF BeginPromotion, RestoreTypeOK, Hosts, Volumes
<1>5. RestoreTypeOK' /\ ExecutorsTypeOK' /\ OneEngaged' /\ (~late => Awaited')
  BY <1>0, <1>1, <1>2, <1>3, <1>4, ExecutorLeaves DEF SameRows, Moves
<1>6. VerdictsAreLast'
  BY <1>0, <1>1, <1>2, <1>3
     DEF VerdictsAreLast, OthersKeep, Finished, Moves, Sets, SameRows, InScript
<1>7. CandidatesAreApart'
  BY <1>0, <1>2, <1>4
     DEF CandidatesAreApart, Moves, Sets, BeforeSwitch, Cancellable, Preparing, Untouching
<1>8. ASSUME ~late PROVE AloneInv'
  <2>1. AloneInv /\ workflow[r] = "running" /\ \A q \in Restores \ {r} : executor[q].at \in Idle
    BY <1>0, <1>8, NobodyElse DEF AloneInv, Awaited, Engaged
  <2>2. (host.pointer \in host.volumes /\ host.mounted \in {host.pointer, NoVolume})'
    BY <1>0, <1>2, <1>4, <2>1 DEF AloneInv, Place, Moves, Sets, InScript
  <2>3. ASSUME NEW q \in Restores PROVE Place(q)'
    <3>1. CASE q = r
      BY <1>0, <1>2, <1>4, <2>1, <3>1 DEF AloneInv, Place, Moves, Sets, InScript
    <3>2. CASE q # r
      BY <1>0, <1>2, <2>1, <3>2 DEF Place, Moves, Sets, Idle, InScript
    <3> QED
      BY <3>1, <3>2
  <2>4. LeftForGood'
    BY <1>0, <1>2, <1>4, <2>1
       DEF AloneInv, LeftForGood, TakenOver, Place, Moves, Sets, Idle, CandidatesAreApart,
           BeforeSwitch, Cancellable, Preparing, InScript
  <2>5. PreviousIsRetained'
    BY <1>0, <1>1, <1>2, <1>3, <1>4, <2>1
       DEF AloneInv, PreviousIsRetained, SameRows, OthersKeep, Moves, Sets, Place,
           CandidatesAreApart, VerdictsAreLast, BeforeSwitch, Cancellable, Preparing,
           InScript
  <2>6. (host.mounted = NoVolume => \E q \in Restores : DownFor(q))'
    BY <1>0, <1>1, <1>2, <1>3, <1>4, <2>1
       DEF AloneInv, DownFor, Engaged, OthersKeep, SameRows, Moves, Sets, VerdictsAreLast,
           InScript
  <2> QED
    BY <1>5, <1>8, <2>1, <2>2, <2>3, <2>4, <2>5, <2>6 DEF AloneInv
<1>9. late' = late
  BY <1>1 DEF OthersKeep
<1> QED
  BY <1>5, <1>6, <1>7, <1>8, <1>9

LEMMA RemoveContainerKeeps ==
  ASSUME RestoreIInv, NEW r \in Restores, RemoveContainer(r) PROVE RestoreIInv'
<1> USE DEF RestoreIInv
<1>0. executor[r].at = "promoting" /\ executor[r].at \notin Idle /\ executor[r].verdict = "none"
  BY DEF RemoveContainer, VerdictsAreLast, Idle
<1>1. OthersKeep
  BY MishapsCount DEF RemoveContainer, OthersKeep, apiVars, NoMishap
<1>2. Moves(r, "removed", "none")
  BY <1>0, ExecutorGoesOn, ExecutorReports
     DEF RemoveContainer, Stages, Verdicts, BeforeSwitch, Cancellable, Preparing, InScript
<1>3. SameRows
  BY UnchangedRowsTell DEF RemoveContainer
<1>4. /\ host' \in Hosts /\ host'.volumes = host.volumes
      /\ host'.pointer = host.pointer /\ host'.mounted = NoVolume
  BY <1>0 DEF RemoveContainer, RestoreTypeOK, Hosts, Volumes
<1>5. RestoreTypeOK' /\ ExecutorsTypeOK' /\ OneEngaged' /\ (~late => Awaited')
  BY <1>0, <1>1, <1>2, <1>3, <1>4, ExecutorLeaves DEF SameRows, Moves
<1>6. VerdictsAreLast'
  BY <1>0, <1>1, <1>2, <1>3
     DEF VerdictsAreLast, OthersKeep, Finished, Moves, Sets, SameRows, InScript
<1>7. CandidatesAreApart'
  BY <1>0, <1>2, <1>4
     DEF CandidatesAreApart, Moves, Sets, BeforeSwitch, Cancellable, Preparing, Untouching
<1>8. ASSUME ~late PROVE AloneInv'
  <2>1. AloneInv /\ workflow[r] = "running" /\ \A q \in Restores \ {r} : executor[q].at \in Idle
    BY <1>0, <1>8, NobodyElse DEF AloneInv, Awaited, Engaged
  <2>2. (host.pointer \in host.volumes /\ host.mounted \in {host.pointer, NoVolume})'
    BY <1>0, <1>2, <1>4, <2>1 DEF AloneInv, Place, Moves, Sets, InScript
  <2>3. ASSUME NEW q \in Restores PROVE Place(q)'
    <3>1. CASE q = r
      BY <1>0, <1>2, <1>4, <2>1, <3>1 DEF AloneInv, Place, Moves, Sets, InScript
    <3>2. CASE q # r
      BY <1>0, <1>2, <2>1, <3>2 DEF Place, Moves, Sets, Idle, InScript
    <3> QED
      BY <3>1, <3>2
  <2>4. LeftForGood'
    BY <1>0, <1>2, <1>4, <2>1
       DEF AloneInv, LeftForGood, TakenOver, Place, Moves, Sets, Idle, CandidatesAreApart,
           BeforeSwitch, Cancellable, Preparing, InScript
  <2>5. PreviousIsRetained'
    BY <1>0, <1>1, <1>2, <1>3, <1>4, <2>1
       DEF AloneInv, PreviousIsRetained, SameRows, OthersKeep, Moves, Sets, Place,
           CandidatesAreApart, VerdictsAreLast, BeforeSwitch, Cancellable, Preparing,
           InScript
  <2>6. (host.mounted = NoVolume => \E q \in Restores : DownFor(q))'
    BY <1>0, <1>1, <1>2, <1>3, <1>4, <2>1
       DEF AloneInv, DownFor, Engaged, OthersKeep, SameRows, Moves, Sets, VerdictsAreLast,
           InScript
  <2> QED
    BY <1>5, <1>8, <2>1, <2>2, <2>3, <2>4, <2>5, <2>6 DEF AloneInv
<1>9. late' = late
  BY <1>1 DEF OthersKeep
<1> QED
  BY <1>5, <1>6, <1>7, <1>8, <1>9

LEMMA SwitchPointerKeeps ==
  ASSUME RestoreIInv, NEW r \in Restores, SwitchPointer(r) PROVE RestoreIInv'
<1> USE DEF RestoreIInv
<1>0. executor[r].at = "removed" /\ executor[r].at \notin Idle /\ executor[r].verdict = "none"
  BY DEF SwitchPointer, VerdictsAreLast, Idle
<1>1. OthersKeep
  BY MishapsCount DEF SwitchPointer, OthersKeep, apiVars, NoMishap
<1>2. Moves(r, "switched", "none")
  BY <1>0, ExecutorGoesOn, ExecutorReports
     DEF SwitchPointer, Stages, Verdicts, BeforeSwitch, Cancellable, Preparing, InScript
<1>3. SameRows
  BY UnchangedRowsTell DEF SwitchPointer
<1>4. /\ host' \in Hosts /\ host'.volumes = host.volumes
      /\ host'.pointer = r /\ host'.mounted = host.mounted
  BY <1>0 DEF SwitchPointer, RestoreTypeOK, Hosts, Volumes
<1>5. RestoreTypeOK' /\ ExecutorsTypeOK' /\ OneEngaged' /\ (~late => Awaited')
  BY <1>0, <1>1, <1>2, <1>3, <1>4, ExecutorLeaves DEF SameRows, Moves
<1>6. VerdictsAreLast'
  BY <1>0, <1>1, <1>2, <1>3
     DEF VerdictsAreLast, OthersKeep, Finished, Moves, Sets, SameRows, InScript
<1>7. CandidatesAreApart'
  BY <1>0, <1>2, <1>4
     DEF CandidatesAreApart, Moves, Sets, BeforeSwitch, Cancellable, Preparing, Untouching
<1>8. ASSUME ~late PROVE AloneInv'
  <2>1. AloneInv /\ workflow[r] = "running" /\ \A q \in Restores \ {r} : executor[q].at \in Idle
    BY <1>0, <1>8, NobodyElse DEF AloneInv, Awaited, Engaged
  <2>2. (host.pointer \in host.volumes /\ host.mounted \in {host.pointer, NoVolume})'
    BY <1>0, <1>2, <1>4, <2>1 DEF AloneInv, Place, Moves, Sets, InScript
  <2>3. ASSUME NEW q \in Restores PROVE Place(q)'
    <3>1. CASE q = r
      BY <1>0, <1>2, <1>4, <2>1, <3>1
         DEF AloneInv, Place, Moves, Sets, InScript, CandidatesAreApart, BeforeSwitch
    <3>2. CASE q # r
      BY <1>0, <1>2, <2>1, <3>2 DEF Place, Moves, Sets, Idle, InScript
    <3> QED
      BY <3>1, <3>2
  <2>4. LeftForGood'
    BY <1>0, <1>2, <1>4, <2>1
       DEF AloneInv, LeftForGood, TakenOver, Place, Moves, Sets, Idle, CandidatesAreApart,
           BeforeSwitch, Cancellable, Preparing, InScript
  <2>5. PreviousIsRetained'
    BY <1>0, <1>1, <1>2, <1>3, <1>4, <2>1
       DEF AloneInv, PreviousIsRetained, SameRows, OthersKeep, Moves, Sets, Place,
           CandidatesAreApart, VerdictsAreLast, BeforeSwitch, Cancellable, Preparing,
           InScript
  <2>6. (host.mounted = NoVolume => \E q \in Restores : DownFor(q))'
    BY <1>0, <1>1, <1>2, <1>3, <1>4, <2>1
       DEF AloneInv, DownFor, Engaged, OthersKeep, SameRows, Moves, Sets, VerdictsAreLast,
           InScript
  <2> QED
    BY <1>5, <1>8, <2>1, <2>2, <2>3, <2>4, <2>5, <2>6 DEF AloneInv
<1>9. late' = late
  BY <1>1 DEF OthersKeep
<1> QED
  BY <1>5, <1>6, <1>7, <1>8, <1>9

LEMMA ReportScriptKeeps ==
  ASSUME RestoreIInv, NEW r \in Restores, ReportScript(r) PROVE RestoreIInv'
<1> USE DEF RestoreIInv
<1>0. executor[r].at \in {"promoted", "rolledBack"} /\ executor[r].at \notin Idle /\ executor[r].verdict = "none"
  BY DEF ReportScript, VerdictsAreLast, Idle
<1>1. OthersKeep
  BY MishapsCount DEF ReportScript, OthersKeep, apiVars
<1>2. \/ Moves(r, "posting", "rollback_failed")
      \/ executor[r].at = "promoted" /\ Moves(r, "posting", "promoted")
      \/ executor[r].at = "rolledBack" /\ Moves(r, "posting", "rolled_back")
  BY <1>0, ExecutorGoesOn, ExecutorReports
     DEF ReportScript, Stages, Verdicts, BeforeSwitch, Cancellable, Preparing, InScript
<1>3. SameRows
  BY ProgressTells, UnchangedRowsTell DEF ReportScript
<1>4. UNCHANGED host /\ host' \in Hosts
  BY <1>0 DEF ReportScript, RestoreTypeOK, Hosts, Volumes
<1>5. RestoreTypeOK' /\ ExecutorsTypeOK' /\ OneEngaged' /\ (~late => Awaited')
  BY <1>0, <1>1, <1>2, <1>3, <1>4, ExecutorLeaves DEF SameRows, Moves
<1>6. VerdictsAreLast'
  BY <1>0, <1>1, <1>2, <1>3
     DEF VerdictsAreLast, OthersKeep, Finished, Moves, Sets, SameRows, InScript
<1>7. CandidatesAreApart'
  BY <1>0, <1>2, <1>4
     DEF CandidatesAreApart, Moves, Sets, BeforeSwitch, Cancellable, Preparing, Untouching
<1>8. ASSUME ~late PROVE AloneInv'
  <2>1. AloneInv /\ workflow[r] = "running" /\ \A q \in Restores \ {r} : executor[q].at \in Idle
    BY <1>0, <1>8, NobodyElse DEF AloneInv, Awaited, Engaged
  <2>2. (host.pointer \in host.volumes /\ host.mounted \in {host.pointer, NoVolume})'
    BY <1>0, <1>2, <1>4, <2>1 DEF AloneInv, Place, Moves, Sets, InScript
  <2>3. ASSUME NEW q \in Restores PROVE Place(q)'
    <3>1. CASE q = r
      BY <1>0, <1>2, <1>4, <2>1, <3>1 DEF AloneInv, Place, Moves, Sets, InScript
    <3>2. CASE q # r
      BY <1>0, <1>2, <2>1, <3>2 DEF Place, Moves, Sets, Idle, InScript
    <3> QED
      BY <3>1, <3>2
  <2>4. LeftForGood'
    BY <1>0, <1>2, <1>4, <2>1
       DEF AloneInv, LeftForGood, TakenOver, Place, Moves, Sets, Idle, CandidatesAreApart,
           BeforeSwitch, Cancellable, Preparing, InScript
  <2>5. PreviousIsRetained'
    BY <1>0, <1>1, <1>2, <1>3, <1>4, <2>1
       DEF AloneInv, PreviousIsRetained, SameRows, OthersKeep, Moves, Sets, Place,
           CandidatesAreApart, VerdictsAreLast, BeforeSwitch, Cancellable, Preparing,
           InScript
  <2>6. (host.mounted = NoVolume => \E q \in Restores : DownFor(q))'
    BY <1>0, <1>1, <1>2, <1>3, <1>4, <2>1
       DEF AloneInv, DownFor, Engaged, OthersKeep, SameRows, Moves, Sets, VerdictsAreLast,
           InScript
  <2> QED
    BY <1>5, <1>8, <2>1, <2>2, <2>3, <2>4, <2>5, <2>6 DEF AloneInv
<1>9. late' = late
  BY <1>1 DEF OthersKeep
<1> QED
  BY <1>5, <1>6, <1>7, <1>8, <1>9

LEMMA ScriptDiesKeeps ==
  ASSUME RestoreIInv, NEW r \in Restores, ScriptDies(r) PROVE RestoreIInv'
<1> USE DEF RestoreIInv
<1>0. executor[r].at \in InScript /\ executor[r].at \notin Idle /\ executor[r].verdict = "none"
  BY DEF ScriptDies, VerdictsAreLast, Idle, InScript
<1>1. OthersKeep
  BY MishapsCount DEF ScriptDies, OthersKeep, apiVars
<1>2. Moves(r, "posting", "rollback_failed") \/ Moves(r, "gone", "none")
  BY <1>0, ExecutorGoesOn, ExecutorReports
     DEF ScriptDies, Stages, Verdicts, BeforeSwitch, Cancellable, Preparing, InScript
<1>3. SameRows
  BY UnchangedRowsTell DEF ScriptDies
<1>4. UNCHANGED host /\ host' \in Hosts
  BY <1>0 DEF ScriptDies, RestoreTypeOK, Hosts, Volumes
<1>5. RestoreTypeOK' /\ ExecutorsTypeOK' /\ OneEngaged' /\ (~late => Awaited')
  BY <1>0, <1>1, <1>2, <1>3, <1>4, ExecutorLeaves DEF SameRows, Moves
<1>6. VerdictsAreLast'
  BY <1>0, <1>1, <1>2, <1>3
     DEF VerdictsAreLast, OthersKeep, Finished, Moves, Sets, SameRows, InScript
<1>7. CandidatesAreApart'
  BY <1>0, <1>2, <1>4
     DEF CandidatesAreApart, Moves, Sets, BeforeSwitch, Cancellable, Preparing, Untouching
<1>8. ASSUME ~late PROVE AloneInv'
  <2>1. AloneInv /\ workflow[r] = "running" /\ \A q \in Restores \ {r} : executor[q].at \in Idle
    BY <1>0, <1>8, NobodyElse DEF AloneInv, Awaited, Engaged
  <2>2. (host.pointer \in host.volumes /\ host.mounted \in {host.pointer, NoVolume})'
    BY <1>0, <1>2, <1>4, <2>1 DEF AloneInv, Place, Moves, Sets, InScript
  <2>3. ASSUME NEW q \in Restores PROVE Place(q)'
    <3>1. CASE q = r
      BY <1>0, <1>2, <1>4, <2>1, <3>1 DEF AloneInv, Place, Moves, Sets, InScript
    <3>2. CASE q # r
      BY <1>0, <1>2, <2>1, <3>2 DEF Place, Moves, Sets, Idle, InScript
    <3> QED
      BY <3>1, <3>2
  <2>4. LeftForGood'
    BY <1>0, <1>2, <1>4, <2>1
       DEF AloneInv, LeftForGood, TakenOver, Place, Moves, Sets, Idle, CandidatesAreApart,
           BeforeSwitch, Cancellable, Preparing, InScript
  <2>5. PreviousIsRetained'
    BY <1>0, <1>1, <1>2, <1>3, <1>4, <2>1
       DEF AloneInv, PreviousIsRetained, SameRows, OthersKeep, Moves, Sets, Place,
           CandidatesAreApart, VerdictsAreLast, BeforeSwitch, Cancellable, Preparing,
           InScript
  <2>6. (host.mounted = NoVolume => \E q \in Restores : DownFor(q))'
    BY <1>0, <1>1, <1>2, <1>3, <1>4, <2>1
       DEF AloneInv, DownFor, Engaged, OthersKeep, SameRows, Moves, Sets, VerdictsAreLast,
           InScript
  <2> QED
    BY <1>5, <1>8, <2>1, <2>2, <2>3, <2>4, <2>5, <2>6 DEF AloneInv
<1>9. late' = late
  BY <1>1 DEF OthersKeep
<1> QED
  BY <1>5, <1>6, <1>7, <1>8, <1>9

LEMMA AbortKeeps ==
  ASSUME RestoreIInv, NEW r \in Restores, Abort(r) PROVE RestoreIInv'
<1> USE DEF RestoreIInv
<1>0. executor[r].at \in Cancellable /\ executor[r].at \notin Idle /\ executor[r].verdict = "none"
  BY DEF Abort, VerdictsAreLast, Idle, Cancellable, Preparing
<1>1. OthersKeep
  BY MishapsCount DEF Abort, OthersKeep, apiVars, NoMishap
<1>2. \/ Moves(r, "posting", "error") /\ UNCHANGED host
      \/ executor[r].at = "restoring" /\ Moves(r, "posting", "aborted") /\ UNCHANGED host
      \/ executor[r].at \in Preparing /\ Moves(r, "posting", "candidate_failed")
  BY <1>0, ExecutorGoesOn, ExecutorReports
     DEF Abort, GivesUp, Stages, Verdicts, BeforeSwitch, Cancellable, Preparing, InScript
<1>3. SameRows
  BY UnchangedRowsTell DEF Abort
<1>4. /\ host' \in Hosts /\ host.volumes \ {r} \subseteq host'.volumes
      /\ host'.volumes \subseteq host.volumes \cup {r}
      /\ host'.pointer = host.pointer /\ host'.mounted = host.mounted
  BY <1>0 DEF Abort, GivesUp, RestoreTypeOK, Hosts, Volumes
<1>5. RestoreTypeOK' /\ ExecutorsTypeOK' /\ OneEngaged' /\ (~late => Awaited')
  BY <1>0, <1>1, <1>2, <1>3, <1>4, ExecutorLeaves DEF SameRows, Moves
<1>6. VerdictsAreLast'
  BY <1>0, <1>1, <1>2, <1>3
     DEF VerdictsAreLast, OthersKeep, Finished, Moves, Sets, SameRows, InScript
<1>7. CandidatesAreApart'
  BY <1>0, <1>2, <1>4
     DEF CandidatesAreApart, Moves, Sets, BeforeSwitch, Cancellable, Preparing, Untouching
<1>8. ASSUME ~late PROVE AloneInv'
  <2>1. AloneInv /\ workflow[r] = "running" /\ \A q \in Restores \ {r} : executor[q].at \in Idle
    BY <1>0, <1>8, NobodyElse DEF AloneInv, Awaited, Engaged
  <2>2. (host.pointer \in host.volumes /\ host.mounted \in {host.pointer, NoVolume})'
    BY <1>0, <1>2, <1>4, <2>1
       DEF AloneInv, Place, Moves, Sets, InScript, CandidatesAreApart, BeforeSwitch,
           Cancellable, Preparing
  <2>3. ASSUME NEW q \in Restores PROVE Place(q)'
    <3>1. CASE q = r
      BY <1>0, <1>2, <1>4, <2>1, <3>1 DEF AloneInv, Place, Moves, Sets, InScript
    <3>2. CASE q # r
      BY <1>0, <1>2, <2>1, <3>2 DEF Place, Moves, Sets, Idle, InScript
    <3> QED
      BY <3>1, <3>2
  <2>4. LeftForGood'
    BY <1>0, <1>2, <1>4, <2>1
       DEF AloneInv, LeftForGood, TakenOver, Place, Moves, Sets, Idle, CandidatesAreApart,
           BeforeSwitch, Cancellable, Preparing, InScript
  <2>5. PreviousIsRetained'
    BY <1>0, <1>1, <1>2, <1>3, <1>4, <2>1
       DEF AloneInv, PreviousIsRetained, SameRows, OthersKeep, Moves, Sets, Place,
           CandidatesAreApart, VerdictsAreLast, BeforeSwitch, Cancellable, Preparing,
           InScript
  <2>6. (host.mounted = NoVolume => \E q \in Restores : DownFor(q))'
    BY <1>0, <1>1, <1>2, <1>3, <1>4, <2>1
       DEF AloneInv, DownFor, Engaged, OthersKeep, SameRows, Moves, Sets, VerdictsAreLast,
           InScript, Cancellable, Preparing
  <2> QED
    BY <1>5, <1>8, <2>1, <2>2, <2>3, <2>4, <2>5, <2>6 DEF AloneInv
<1>9. late' = late
  BY <1>1 DEF OthersKeep
<1> QED
  BY <1>5, <1>6, <1>7, <1>8, <1>9

LEMMA FailsBeforeKeeps ==
  ASSUME RestoreIInv, NEW r \in Restores, FailsBefore(r) PROVE RestoreIInv'
<1> USE DEF RestoreIInv
<1>0. executor[r].at \in {"context", "claiming"} \cup Cancellable /\ executor[r].at \notin Idle /\ executor[r].verdict = "none"
  BY DEF FailsBefore, VerdictsAreLast, Idle, Cancellable, Preparing
<1>1. OthersKeep
  BY MishapsCount DEF FailsBefore, OthersKeep, apiVars
<1>2. \/ executor[r].at \in Preparing /\ Moves(r, "posting", "candidate_failed")
      \/ Moves(r, "posting", "error") /\ UNCHANGED host
      \/ /\ executor[r].at = "validating"
         /\ Moves(r, "posting", "rollback_failed") /\ UNCHANGED host
  BY <1>0, ExecutorGoesOn, ExecutorReports
     DEF FailsBefore, GivesUp, Stages, Verdicts, BeforeSwitch, Cancellable, Preparing, InScript
<1>3. SameRows
  BY UnchangedRowsTell DEF FailsBefore
<1>4. /\ host' \in Hosts /\ host.volumes \ {r} \subseteq host'.volumes
      /\ host'.volumes \subseteq host.volumes \cup {r}
      /\ host'.pointer = host.pointer /\ host'.mounted = host.mounted
  BY <1>0 DEF FailsBefore, GivesUp, RestoreTypeOK, Hosts, Volumes
<1>5. RestoreTypeOK' /\ ExecutorsTypeOK' /\ OneEngaged' /\ (~late => Awaited')
  BY <1>0, <1>1, <1>2, <1>3, <1>4, ExecutorLeaves DEF SameRows, Moves
<1>6. VerdictsAreLast'
  BY <1>0, <1>1, <1>2, <1>3
     DEF VerdictsAreLast, OthersKeep, Finished, Moves, Sets, SameRows, InScript
<1>7. CandidatesAreApart'
  BY <1>0, <1>2, <1>4
     DEF CandidatesAreApart, Moves, Sets, BeforeSwitch, Cancellable, Preparing, Untouching
<1>8. ASSUME ~late PROVE AloneInv'
  <2>1. AloneInv /\ workflow[r] = "running" /\ \A q \in Restores \ {r} : executor[q].at \in Idle
    BY <1>0, <1>8, NobodyElse DEF AloneInv, Awaited, Engaged
  <2>2. (host.pointer \in host.volumes /\ host.mounted \in {host.pointer, NoVolume})'
    BY <1>0, <1>2, <1>4, <2>1
       DEF AloneInv, Place, Moves, Sets, InScript, CandidatesAreApart, BeforeSwitch,
           Cancellable, Preparing
  <2>3. ASSUME NEW q \in Restores PROVE Place(q)'
    <3>1. CASE q = r
      BY <1>0, <1>2, <1>4, <2>1, <3>1 DEF AloneInv, Place, Moves, Sets, InScript
    <3>2. CASE q # r
      BY <1>0, <1>2, <2>1, <3>2 DEF Place, Moves, Sets, Idle, InScript
    <3> QED
      BY <3>1, <3>2
  <2>4. LeftForGood'
    BY <1>0, <1>2, <1>4, <2>1
       DEF AloneInv, LeftForGood, TakenOver, Place, Moves, Sets, Idle, CandidatesAreApart,
           BeforeSwitch, Cancellable, Preparing, InScript
  <2>5. PreviousIsRetained'
    BY <1>0, <1>1, <1>2, <1>3, <1>4, <2>1
       DEF AloneInv, PreviousIsRetained, SameRows, OthersKeep, Moves, Sets, Place,
           CandidatesAreApart, VerdictsAreLast, BeforeSwitch, Cancellable, Preparing,
           InScript
  <2>6. (host.mounted = NoVolume => \E q \in Restores : DownFor(q))'
    BY <1>0, <1>1, <1>2, <1>3, <1>4, <2>1
       DEF AloneInv, DownFor, Engaged, OthersKeep, SameRows, Moves, Sets, VerdictsAreLast,
           InScript, Cancellable, Preparing
  <2> QED
    BY <1>5, <1>8, <2>1, <2>2, <2>3, <2>4, <2>5, <2>6 DEF AloneInv
<1>9. late' = late
  BY <1>1 DEF OthersKeep
<1> QED
  BY <1>5, <1>6, <1>7, <1>8, <1>9

LEMMA PreflightKeeps ==
  ASSUME RestoreIInv, NEW r \in Restores, Preflight(r) PROVE RestoreIInv'
<1> USE DEF RestoreIInv
<1>0. executor[r].at = "preflight" /\ executor[r].at \notin Idle /\ executor[r].verdict = "none"
  BY DEF Preflight, VerdictsAreLast, Idle
<1>1. OthersKeep
  BY MishapsCount DEF Preflight, OthersKeep, apiVars, NoMishap
<1>2. \/ Moves(r, "posting", "error")
      \/ /\ Sets(r, "restoring", "none") /\ host.mounted = host.pointer
         /\ executor'[r].previous = host.pointer
  BY <1>0, ExecutorGoesOn, ExecutorReports
     DEF Preflight, Stages, Verdicts, BeforeSwitch, Cancellable, Preparing, InScript, Sets,
         ExecutorsTypeOK, RestoreTypeOK, Volumes
<1>3. SameRows
  BY ProgressTells DEF Preflight
<1>4. UNCHANGED host /\ host' \in Hosts
  BY <1>0 DEF Preflight, RestoreTypeOK, Hosts, Volumes
<1>5. RestoreTypeOK' /\ ExecutorsTypeOK' /\ OneEngaged' /\ (~late => Awaited')
  BY <1>0, <1>1, <1>2, <1>3, <1>4, ExecutorLeaves DEF SameRows, Moves
<1>6. VerdictsAreLast'
  BY <1>0, <1>1, <1>2, <1>3, VolumesAssumption
     DEF VerdictsAreLast, OthersKeep, Finished, Moves, Sets, SameRows, InScript,
         RestoreTypeOK, Volumes
<1>7. CandidatesAreApart'
  BY <1>0, <1>2, <1>4
     DEF CandidatesAreApart, Moves, Sets, BeforeSwitch, Cancellable, Preparing, Untouching
<1>8. ASSUME ~late PROVE AloneInv'
  <2>1. AloneInv /\ workflow[r] = "running" /\ \A q \in Restores \ {r} : executor[q].at \in Idle
    BY <1>0, <1>8, NobodyElse DEF AloneInv, Awaited, Engaged
  <2>2. (host.pointer \in host.volumes /\ host.mounted \in {host.pointer, NoVolume})'
    BY <1>0, <1>2, <1>4, <2>1 DEF AloneInv, Place, Moves, Sets, InScript
  <2>3. ASSUME NEW q \in Restores PROVE Place(q)'
    <3>1. CASE q = r
      BY <1>0, <1>2, <1>4, <2>1, <3>1
         DEF AloneInv, Place, Moves, Sets, InScript, CandidatesAreApart, BeforeSwitch,
             Cancellable
    <3>2. CASE q # r
      BY <1>0, <1>2, <2>1, <3>2 DEF Place, Moves, Sets, Idle, InScript
    <3> QED
      BY <3>1, <3>2
  <2>4. LeftForGood'
    BY <1>0, <1>2, <1>4, <2>1, VolumesAssumption
       DEF AloneInv, LeftForGood, TakenOver, Place, Moves, Sets, Idle, CandidatesAreApart,
           BeforeSwitch, Cancellable, Preparing, InScript, VerdictsAreLast
  <2>5. PreviousIsRetained'
    BY <1>0, <1>1, <1>2, <1>3, <1>4, <2>1
       DEF AloneInv, PreviousIsRetained, SameRows, OthersKeep, Moves, Sets, Place,
           CandidatesAreApart, VerdictsAreLast, BeforeSwitch, Cancellable, Preparing,
           InScript
  <2>6. (host.mounted = NoVolume => \E q \in Restores : DownFor(q))'
    BY <1>0, <1>1, <1>2, <1>3, <1>4, <2>1
       DEF AloneInv, DownFor, Engaged, OthersKeep, SameRows, Moves, Sets, VerdictsAreLast,
           InScript
  <2> QED
    BY <1>5, <1>8, <2>1, <2>2, <2>3, <2>4, <2>5, <2>6 DEF AloneInv
<1>9. late' = late
  BY <1>1 DEF OthersKeep
<1> QED
  BY <1>5, <1>6, <1>7, <1>8, <1>9

LEMMA RunCandidateKeeps ==
  ASSUME RestoreIInv, NEW r \in Restores, RunCandidate(r) PROVE RestoreIInv'
<1> USE DEF RestoreIInv
<1>0. executor[r].at = "switched" /\ executor[r].at \notin Idle /\ executor[r].verdict = "none"
  BY DEF RunCandidate, VerdictsAreLast, Idle
<1>1. OthersKeep
  BY MishapsCount DEF RunCandidate, OthersKeep, apiVars, NoMishap
<1>2. \/ Moves(r, "promoted", "none") \/ Moves(r, "gone", "none")
      \/ Moves(r, "undoing", "none")
  BY <1>0, ExecutorGoesOn, ExecutorReports
     DEF RunCandidate, Stages, Verdicts, BeforeSwitch, Cancellable, Preparing, InScript,
         ScriptEnds
<1>3. SameRows
  BY UnchangedRowsTell DEF RunCandidate
<1>4. /\ host' \in Hosts /\ host'.volumes = host.volumes
      /\ \/ /\ executor'[r].at \in {"promoted", "gone"}
            /\ host'.pointer = host.pointer /\ host'.mounted = r
         \/ /\ executor'[r].at = "undoing"
            /\ host'.pointer = executor[r].previous /\ host'.mounted = NoVolume
  <2>1. executor[r].previous \in Volumes /\ host \in Hosts /\ r \in Volumes
    BY <1>0, KnowsPrevious DEF InScript, RestoreTypeOK, Hosts, Volumes
  <2>2. CASE host' = [host EXCEPT !.mounted = r] /\ ScriptEnds(r, "promoted")
    <3>1. executor'[r].at \in {"promoted", "gone"}
      BY <2>2 DEF ScriptEnds, GoesOn, ExecutorsTypeOK
    <3> QED
      BY <2>1, <2>2, <3>1 DEF Hosts
  <2>3. CASE /\ host' = [host EXCEPT !.mounted = NoVolume, !.pointer = executor[r].previous]
             /\ GoesOn(r, "undoing")
    <3>1. executor'[r].at = "undoing"
      BY <2>3 DEF GoesOn, ExecutorsTypeOK
    <3> QED
      BY <2>1, <2>3, <3>1 DEF Hosts
  <2> QED
    BY <2>2, <2>3 DEF RunCandidate
<1>5. RestoreTypeOK' /\ ExecutorsTypeOK' /\ OneEngaged' /\ (~late => Awaited')
  BY <1>0, <1>1, <1>2, <1>3, <1>4, ExecutorLeaves DEF SameRows, Moves
<1>6. VerdictsAreLast'
  BY <1>0, <1>1, <1>2, <1>3
     DEF VerdictsAreLast, OthersKeep, Finished, Moves, Sets, SameRows, InScript
<1>7. CandidatesAreApart'
  BY <1>0, <1>2, <1>4
     DEF CandidatesAreApart, Moves, Sets, BeforeSwitch, Cancellable, Preparing, Untouching
<1>8. ASSUME ~late PROVE AloneInv'
  <2>1. AloneInv /\ workflow[r] = "running" /\ \A q \in Restores \ {r} : executor[q].at \in Idle
    BY <1>0, <1>8, NobodyElse DEF AloneInv, Awaited, Engaged
  <2>2. (host.pointer \in host.volumes /\ host.mounted \in {host.pointer, NoVolume})'
    BY <1>0, <1>2, <1>4, <2>1 DEF AloneInv, Place, Moves, Sets, InScript
  <2>3. ASSUME NEW q \in Restores PROVE Place(q)'
    <3>1. CASE q = r
      BY <1>0, <1>2, <1>4, <2>1, <3>1
         DEF AloneInv, Place, Moves, Sets, InScript, CandidatesAreApart, BeforeSwitch
    <3>2. CASE q # r
      BY <1>0, <1>2, <2>1, <3>2 DEF Place, Moves, Sets, Idle, InScript
    <3> QED
      BY <3>1, <3>2
  <2>4. LeftForGood'
    BY <1>0, <1>2, <1>4, <2>1
       DEF AloneInv, LeftForGood, TakenOver, Place, Moves, Sets, Idle, CandidatesAreApart,
           BeforeSwitch, Cancellable, Preparing, InScript
  <2>5. PreviousIsRetained'
    BY <1>0, <1>1, <1>2, <1>3, <1>4, <2>1
       DEF AloneInv, PreviousIsRetained, SameRows, OthersKeep, Moves, Sets, Place,
           CandidatesAreApart, VerdictsAreLast, BeforeSwitch, Cancellable, Preparing,
           InScript
  <2>6. (host.mounted = NoVolume => \E q \in Restores : DownFor(q))'
    BY <1>0, <1>1, <1>2, <1>3, <1>4, <2>1, VolumesAssumption
       DEF AloneInv, DownFor, Engaged, OthersKeep, SameRows, Moves, Sets, VerdictsAreLast,
           InScript
  <2> QED
    BY <1>5, <1>8, <2>1, <2>2, <2>3, <2>4, <2>5, <2>6 DEF AloneInv
<1>9. late' = late
  BY <1>1 DEF OthersKeep
<1> QED
  BY <1>5, <1>6, <1>7, <1>8, <1>9

LEMMA RunPreviousKeeps ==
  ASSUME RestoreIInv, NEW r \in Restores, RunPrevious(r) PROVE RestoreIInv'
<1> USE DEF RestoreIInv
<1>0. executor[r].at = "undoing" /\ executor[r].at \notin Idle /\ executor[r].verdict = "none"
  BY DEF RunPrevious, VerdictsAreLast, Idle
<1>1. OthersKeep
  BY MishapsCount DEF RunPrevious, OthersKeep, apiVars, NoMishap
<1>2. \/ Moves(r, "rolledBack", "none") \/ Moves(r, "gone", "none")
      \/ Moves(r, "posting", "rollback_failed")
  BY <1>0, ExecutorGoesOn, ExecutorReports
     DEF RunPrevious, Stages, Verdicts, BeforeSwitch, Cancellable, Preparing, InScript,
         ScriptEnds
<1>3. SameRows
  BY UnchangedRowsTell DEF RunPrevious
<1>4. /\ host' \in Hosts
      /\ \/ /\ executor'[r].at \in {"rolledBack", "gone"}
            /\ host'.pointer = host.pointer /\ host'.mounted = executor[r].previous
            /\ host'.volumes = host.volumes \ {r}
         \/ executor'[r].at \in {"posting", "gone"} /\ UNCHANGED host
  <2>1. executor[r].previous \in Volumes /\ host \in Hosts
    BY <1>0, KnowsPrevious DEF InScript, RestoreTypeOK, Hosts
  <2>2. CASE /\ host' = [host EXCEPT !.mounted = executor[r].previous, !.volumes = @ \ {r}]
             /\ ScriptEnds(r, "rolledBack")
    <3>1. executor'[r].at \in {"rolledBack", "gone"}
      BY <2>2 DEF ScriptEnds, GoesOn, ExecutorsTypeOK
    <3> QED
      BY <2>1, <2>2, <3>1 DEF Hosts
  <2>3. CASE UNCHANGED host /\ (Reports(r, "rollback_failed") \/ GoesOn(r, "gone"))
    <3>1. executor'[r].at \in {"posting", "gone"}
      BY <2>3 DEF Reports, GoesOn, ExecutorsTypeOK
    <3> QED
      BY <2>1, <2>3, <3>1
  <2> QED
    BY <2>2, <2>3 DEF RunPrevious
<1>5. RestoreTypeOK' /\ ExecutorsTypeOK' /\ OneEngaged' /\ (~late => Awaited')
  BY <1>0, <1>1, <1>2, <1>3, <1>4, ExecutorLeaves DEF SameRows, Moves
<1>6. VerdictsAreLast'
  BY <1>0, <1>1, <1>2, <1>3
     DEF VerdictsAreLast, OthersKeep, Finished, Moves, Sets, SameRows, InScript
<1>7. CandidatesAreApart'
  BY <1>0, <1>2, <1>4
     DEF CandidatesAreApart, Moves, Sets, BeforeSwitch, Cancellable, Preparing, Untouching
<1>8. ASSUME ~late PROVE AloneInv'
  <2>1. AloneInv /\ workflow[r] = "running" /\ \A q \in Restores \ {r} : executor[q].at \in Idle
    BY <1>0, <1>8, NobodyElse DEF AloneInv, Awaited, Engaged
  <2>2. (host.pointer \in host.volumes /\ host.mounted \in {host.pointer, NoVolume})'
    BY <1>0, <1>2, <1>4, <2>1 DEF AloneInv, Place, Moves, Sets, InScript
  <2>3. ASSUME NEW q \in Restores PROVE Place(q)'
    <3>1. CASE q = r
      BY <1>0, <1>2, <1>4, <2>1, <3>1
         DEF AloneInv, Place, Moves, Sets, InScript, CandidatesAreApart, BeforeSwitch
    <3>2. CASE q # r
      BY <1>0, <1>2, <2>1, <3>2 DEF Place, Moves, Sets, Idle, InScript
    <3> QED
      BY <3>1, <3>2
  <2>4. LeftForGood'
    BY <1>0, <1>2, <1>4, <2>1
       DEF AloneInv, LeftForGood, TakenOver, Place, Moves, Sets, Idle, CandidatesAreApart,
           BeforeSwitch, Cancellable, Preparing, InScript
  <2>5. PreviousIsRetained'
    BY <1>0, <1>1, <1>2, <1>3, <1>4, <2>1
       DEF AloneInv, PreviousIsRetained, SameRows, OthersKeep, Moves, Sets, Place,
           CandidatesAreApart, VerdictsAreLast, BeforeSwitch, Cancellable, Preparing,
           InScript
  <2>6. (host.mounted = NoVolume => \E q \in Restores : DownFor(q))'
    BY <1>0, <1>1, <1>2, <1>3, <1>4, <2>1
       DEF AloneInv, DownFor, Engaged, OthersKeep, SameRows, Moves, Sets, VerdictsAreLast,
           InScript
  <2> QED
    BY <1>5, <1>8, <2>1, <2>2, <2>3, <2>4, <2>5, <2>6 DEF AloneInv
<1>9. late' = late
  BY <1>1 DEF OthersKeep
<1> QED
  BY <1>5, <1>6, <1>7, <1>8, <1>9

LEMMA WorkerCrashesKeeps ==
  ASSUME RestoreIInv, NEW r \in Restores, WorkerCrashes(r) PROVE RestoreIInv'
<1> USE DEF RestoreIInv
<1>0. executor[r].at \in Stages /\ executor[r].at \notin Idle /\ executor[r].attended
  BY DEF WorkerCrashes, VerdictsAreLast, Idle, ExecutorsTypeOK
<1>1. OthersKeep
  BY MishapsCount DEF WorkerCrashes, OthersKeep, apiVars
<1>2. \/ executor[r].at \in InScript /\ Moves(r, executor[r].at, executor[r].verdict)
      \/ executor[r].at \notin InScript /\ Moves(r, "gone", executor[r].verdict)
  BY <1>0, ExecutorGoesOn, ExecutorReports, WorkerCrashMoves
     DEF WorkerCrashes, Stages, Verdicts, BeforeSwitch, Cancellable, Preparing, InScript
<1>3. SameRows
  BY UnchangedRowsTell DEF WorkerCrashes
<1>4. UNCHANGED host /\ host' \in Hosts
  BY <1>0 DEF WorkerCrashes, RestoreTypeOK, Hosts, Volumes
<1>5. RestoreTypeOK' /\ ExecutorsTypeOK' /\ OneEngaged' /\ (~late => Awaited')
  BY <1>0, <1>1, <1>2, <1>3, <1>4, ExecutorLeaves DEF SameRows, Moves
<1>6. VerdictsAreLast'
  BY <1>0, <1>1, <1>2, <1>3
     DEF VerdictsAreLast, OthersKeep, Finished, Moves, Sets, SameRows, InScript, Idle
<1>7. CandidatesAreApart'
  BY <1>0, <1>2, <1>4
     DEF CandidatesAreApart, Moves, Sets, BeforeSwitch, Cancellable, Preparing, Untouching
<1>8. ASSUME ~late PROVE AloneInv'
  <2>1. AloneInv /\ workflow[r] = "running" /\ \A q \in Restores \ {r} : executor[q].at \in Idle
    BY <1>0, <1>8, NobodyElse DEF AloneInv, Awaited, Engaged
  <2>2. (host.pointer \in host.volumes /\ host.mounted \in {host.pointer, NoVolume})'
    BY <1>0, <1>2, <1>4, <2>1 DEF AloneInv, Place, Moves, Sets, InScript
  <2>3. ASSUME NEW q \in Restores PROVE Place(q)'
    <3>1. CASE q = r
      BY <1>0, <1>2, <1>4, <2>1, <3>1 DEF AloneInv, Place, Moves, Sets, InScript
    <3>2. CASE q # r
      BY <1>0, <1>2, <2>1, <3>2 DEF Place, Moves, Sets, Idle, InScript
    <3> QED
      BY <3>1, <3>2
  <2>4. LeftForGood'
    BY <1>0, <1>2, <1>4, <2>1
       DEF AloneInv, LeftForGood, TakenOver, Place, Moves, Sets, Idle, CandidatesAreApart,
           BeforeSwitch, Cancellable, Preparing, InScript
  <2>5. PreviousIsRetained'
    BY <1>0, <1>1, <1>2, <1>3, <1>4, <2>1
       DEF AloneInv, PreviousIsRetained, SameRows, OthersKeep, Moves, Sets, Place,
           CandidatesAreApart, VerdictsAreLast, BeforeSwitch, Cancellable, Preparing,
           InScript
  <2>6. (host.mounted = NoVolume => \E q \in Restores : DownFor(q))'
    BY <1>0, <1>1, <1>2, <1>3, <1>4, <2>1
       DEF AloneInv, DownFor, Engaged, OthersKeep, SameRows, Moves, Sets, VerdictsAreLast,
           InScript, Idle
  <2> QED
    BY <1>5, <1>8, <2>1, <2>2, <2>3, <2>4, <2>5, <2>6 DEF AloneInv
<1>9. late' = late
  BY <1>1 DEF OthersKeep
<1> QED
  BY <1>5, <1>6, <1>7, <1>8, <1>9

LEMMA PostVerdictKeeps ==
  ASSUME RestoreIInv, NEW r \in Restores, PostVerdict(r) PROVE RestoreIInv'
<1> USE DEF RestoreIInv
<1>0. executor[r].at = "posting" /\ executor[r].at \notin Idle /\ executor[r].verdict # "none" /\ executor[r].verdict \in Verdicts
  BY DEF PostVerdict, VerdictsAreLast, Idle, ExecutorsTypeOK
<1>1. OthersKeep
  BY MishapsCount DEF PostVerdict, OthersKeep, apiVars
<1>2. \/ Moves(r, "done", executor[r].verdict)
      \/ executor[r].verdict = "promoted" /\ Moves(r, "posting", "error")
  BY <1>0, ExecutorGoesOn, ExecutorReports
     DEF PostVerdict, Stages, Verdicts, BeforeSwitch, Cancellable, Preparing, InScript
<1>3. /\ row' \in [Restores -> RestoreRows]
      /\ \A q \in Restores \ {r} : row'[q] = row[q]
      /\ \/ row'[r] = row[r]
         \/ /\ executor'[r].at = "done" /\ row[r].state \notin Finished
            /\ row'[r].state = StateOf(executor[r].verdict) /\ row'[r].result = ResultOf(r)
  BY <1>0, <1>2, VerdictTells, PostTells, UnchangedRowsTell
     DEF PostVerdict, SameRows, GoesOn, Moves, Sets, RestoreTypeOK, ExecutorsTypeOK
<1>4. UNCHANGED host /\ host' \in Hosts
  BY <1>0 DEF PostVerdict, RestoreTypeOK, Hosts, Volumes
<1>5. RestoreTypeOK' /\ ExecutorsTypeOK' /\ OneEngaged' /\ (~late => Awaited')
  BY <1>0, <1>1, <1>2, <1>3, <1>4, ExecutorLeaves, VerdictTells
     DEF SameRows, Moves, Finished
<1>6. VerdictsAreLast'
  BY <1>0, <1>1, <1>2, <1>3
     DEF VerdictsAreLast, OthersKeep, Finished, Moves, Sets, SameRows, InScript, StateOf,
         ResultOf, NoResult
<1>7. CandidatesAreApart'
  BY <1>0, <1>2, <1>4
     DEF CandidatesAreApart, Moves, Sets, BeforeSwitch, Cancellable, Preparing, Untouching
<1>8. ASSUME ~late PROVE AloneInv'
  <2>1. AloneInv /\ workflow[r] = "running" /\ \A q \in Restores \ {r} : executor[q].at \in Idle
    BY <1>0, <1>8, NobodyElse DEF AloneInv, Awaited, Engaged
  <2>2. (host.pointer \in host.volumes /\ host.mounted \in {host.pointer, NoVolume})'
    BY <1>0, <1>2, <1>4, <2>1 DEF AloneInv, Place, Moves, Sets, InScript
  <2>3. ASSUME NEW q \in Restores PROVE Place(q)'
    <3>1. CASE q = r
      BY <1>0, <1>2, <1>4, <2>1, <3>1 DEF AloneInv, Place, Moves, Sets, InScript
    <3>2. CASE q # r
      BY <1>0, <1>2, <2>1, <3>2 DEF Place, Moves, Sets, Idle, InScript
    <3> QED
      BY <3>1, <3>2
  <2>4. LeftForGood'
    BY <1>0, <1>2, <1>4, <2>1
       DEF AloneInv, LeftForGood, TakenOver, Place, Moves, Sets, Idle, CandidatesAreApart,
           BeforeSwitch, Cancellable, Preparing, InScript
  <2>5. PreviousIsRetained'
    BY <1>0, <1>1, <1>2, <1>3, <1>4, <2>1
       DEF AloneInv, PreviousIsRetained, SameRows, OthersKeep, Moves, Sets, Place,
           CandidatesAreApart, VerdictsAreLast, BeforeSwitch, Cancellable, Preparing,
           InScript, ResultOf, NoResult, StateOf
  <2>6. (host.mounted = NoVolume => \E q \in Restores : DownFor(q))'
    BY <1>0, <1>1, <1>2, <1>3, <1>4, <2>1
       DEF AloneInv, DownFor, Engaged, OthersKeep, SameRows, Moves, Sets, VerdictsAreLast,
           InScript, StateOf, ResultOf, NoResult, Finished
  <2> QED
    BY <1>5, <1>8, <2>1, <2>2, <2>3, <2>4, <2>5, <2>6 DEF AloneInv
<1>9. late' = late
  BY <1>1 DEF OthersKeep
<1> QED
  BY <1>5, <1>6, <1>7, <1>8, <1>9

LEMMA RequestRestoreKeeps ==
  ASSUME RestoreIInv, NEW r \in Restores, RequestRestore(r) PROVE RestoreIInv'
<1> USE DEF RestoreIInv
<1>1. /\ row' \in [Restores -> RestoreRows]
      /\ \A q \in Restores \ {r} : row'[q] = row[q]
      /\ workflow' \in [Restores -> {"none", "waiting", "running", "marking", "ended"}]
      /\ \A q \in Restores \ {r} : workflow'[q] = workflow[q]
      /\ row[r].state = "none" /\ row'[r].state = "queued" /\ row'[r].result = row[r].result
      /\ workflow[r] = "none" /\ workflow'[r] \in {"none", "waiting"}
  <2>1. row \in [Restores -> RestoreRows] /\ row[r].state = "none" /\ workflow[r] = "none"
    BY DEF RequestRestore, RestoreTypeOK, RestoreRows, RestoreResults, OneEngaged
  <2>2. /\ row' \in [Restores -> RestoreRows]
        /\ \A q \in Restores \ {r} : row'[q] = row[q]
        /\ row'[r].state = "queued" /\ row'[r].result = row[r].result
    BY <2>1 DEF RequestRestore, RestoreRows
  <2>3. workflow' \in {workflow, [workflow EXCEPT ![r] = "waiting"]}
    BY DEF RequestRestore
  <2>4. /\ workflow' \in [Restores -> {"none", "waiting", "running", "marking", "ended"}]
        /\ \A q \in Restores \ {r} : workflow'[q] = workflow[q]
        /\ workflow'[r] \in {"none", "waiting"}
    BY <2>1, <2>3 DEF RestoreTypeOK
  <2> QED
    BY <2>1, <2>2, <2>4
<1>2. RestoreTypeOK' /\ ExecutorsTypeOK'
  BY <1>1, MishapsCount
     DEF RequestRestore, RestoreTypeOK, RestoreRows, RestoreResults, ExecutorsTypeOK,
         apiVars
<1>3. VerdictsAreLast'
  BY <1>1 DEF RequestRestore, VerdictsAreLast, Finished, apiVars
<1>4. CandidatesAreApart'
  BY DEF RequestRestore, CandidatesAreApart, apiVars
<1>5. OneEngaged'
  BY <1>1 DEF RequestRestore, OneEngaged, Engaged, apiVars
<1>6. ASSUME ~late PROVE AloneInv'
  <2>1. AloneInv
    BY <1>6
  <2>2. Awaited' /\ (\A q \in Restores : Place(q)') /\ LeftForGood'
    BY <1>1, <1>6, <2>1
       DEF RequestRestore, AloneInv, Awaited, Place, LeftForGood, TakenOver, apiVars
  <2>3. PreviousIsRetained'
    BY <1>1, <2>1 DEF RequestRestore, AloneInv, PreviousIsRetained, apiVars
  <2>4. (host.mounted = NoVolume => \E q \in Restores : DownFor(q))'
    BY <1>1, <1>6, <2>1 DEF RequestRestore, AloneInv, DownFor, Engaged, apiVars
  <2> QED
    BY <1>6, <2>1, <2>2, <2>3, <2>4 DEF AloneInv, RequestRestore, apiVars
<1>7. late' = late
  BY DEF RequestRestore
<1> QED
  BY <1>2, <1>3, <1>4, <1>5, <1>6, <1>7

LEMMA AdmissionFailsKeeps ==
  ASSUME RestoreIInv, NEW r \in Restores, AdmissionFails(r) PROVE RestoreIInv'
<1> USE DEF RestoreIInv
<1>1. /\ row' \in [Restores -> RestoreRows]
      /\ \A q \in Restores \ {r} : row'[q] = row[q]
      /\ row'[r].state = "failed" /\ row'[r].result = row[r].result
  <2>1. row \in [Restores -> RestoreRows]
    BY DEF RestoreTypeOK, RestoreRows, RestoreResults
  <2> QED
    BY <2>1 DEF AdmissionFails, RestoreRows, Finished
<1>2. RestoreTypeOK' /\ ExecutorsTypeOK'
  BY <1>1, MishapsCount
     DEF AdmissionFails, RestoreTypeOK, RestoreRows, RestoreResults, ExecutorsTypeOK,
         apiVars
<1>3. VerdictsAreLast'
  BY <1>1 DEF AdmissionFails, VerdictsAreLast, Finished, apiVars
<1>4. CandidatesAreApart'
  BY DEF AdmissionFails, CandidatesAreApart, apiVars
<1>5. OneEngaged'
  BY <1>1 DEF AdmissionFails, OneEngaged, Engaged, apiVars
<1>6. ASSUME ~late PROVE AloneInv'
  <2>1. AloneInv
    BY <1>6
  <2>2. Awaited' /\ (\A q \in Restores : Place(q)') /\ LeftForGood'
    BY <1>1, <1>6, <2>1
       DEF AdmissionFails, AloneInv, Awaited, Place, LeftForGood, TakenOver, apiVars
  <2>3. PreviousIsRetained'
    BY <1>1, <2>1 DEF AdmissionFails, AloneInv, PreviousIsRetained, apiVars
  <2>4. (host.mounted = NoVolume => \E q \in Restores : DownFor(q))'
    BY <1>1, <1>6, <2>1 DEF AdmissionFails, AloneInv, DownFor, Engaged, apiVars
  <2> QED
    BY <1>6, <2>1, <2>2, <2>3, <2>4 DEF AloneInv, AdmissionFails, apiVars
<1>7. late' = late
  BY DEF AdmissionFails
<1> QED
  BY <1>2, <1>3, <1>4, <1>5, <1>6, <1>7

LEMMA CancelReadsKeeps ==
  ASSUME RestoreIInv, NEW r \in Restores, CancelReads(r) PROVE RestoreIInv'
<1> USE DEF RestoreIInv
<1>1. /\ UNCHANGED <<row, workflow>>
  BY DEF CancelReads, RestoreTypeOK, RestoreRows
<1>2. RestoreTypeOK' /\ ExecutorsTypeOK'
  BY <1>1, MishapsCount
     DEF CancelReads, RestoreTypeOK, RestoreRows, RestoreResults, ExecutorsTypeOK, apiVars
<1>3. VerdictsAreLast'
  BY <1>1 DEF CancelReads, VerdictsAreLast, apiVars
<1>4. CandidatesAreApart'
  BY DEF CancelReads, CandidatesAreApart, apiVars
<1>5. OneEngaged'
  BY <1>1 DEF CancelReads, OneEngaged, Engaged, apiVars
<1>6. ASSUME ~late PROVE AloneInv'
  <2>1. AloneInv
    BY <1>6
  <2>2. Awaited' /\ (\A q \in Restores : Place(q)') /\ LeftForGood'
    BY <1>1, <1>6, <2>1
       DEF CancelReads, AloneInv, Awaited, Place, LeftForGood, TakenOver, apiVars
  <2>3. PreviousIsRetained'
    BY <1>1, <2>1 DEF CancelReads, AloneInv, PreviousIsRetained, apiVars
  <2>4. (host.mounted = NoVolume => \E q \in Restores : DownFor(q))'
    BY <1>1, <1>6, <2>1 DEF CancelReads, AloneInv, DownFor, Engaged, apiVars
  <2> QED
    BY <1>6, <2>1, <2>2, <2>3, <2>4 DEF AloneInv, CancelReads, apiVars
<1>7. late' = late
  BY DEF CancelReads
<1> QED
  BY <1>2, <1>3, <1>4, <1>5, <1>6, <1>7

LEMMA CancelWritesKeeps ==
  ASSUME RestoreIInv, NEW r \in Restores, CancelWrites(r) PROVE RestoreIInv'
<1> USE DEF RestoreIInv
<1>1. /\ SameRows
      /\ workflow' \in [Restores -> {"none", "waiting", "running", "marking", "ended"}]
      /\ \A q \in Restores \ {r} : workflow'[q] = workflow[q]
      /\ \/ workflow'[r] = workflow[r] /\ workflow[r] # "running"
         \/ late /\ workflow[r] = "running" /\ workflow'[r] = "marking"
  <2>1. row \in [Restores -> RestoreRows]
    BY DEF RestoreTypeOK, RestoreRows, RestoreResults
  <2>2. SameRows
    BY <2>1 DEF CancelWrites, RestoreRows, SameRows
  <2>3. CASE workflow[r] = "running"
    <3>1. late /\ workflow' = [workflow EXCEPT ![r] = "marking"]
      BY <2>3 DEF CancelWrites
    <3> QED
      BY <2>2, <2>3, <3>1 DEF RestoreTypeOK
  <2>4. CASE workflow[r] # "running"
    <3>1. workflow' = [workflow EXCEPT ![r] = workflow[r]]
      BY <2>4 DEF CancelWrites
    <3> QED
      BY <2>2, <2>4, <3>1 DEF RestoreTypeOK
  <2> QED
    BY <2>3, <2>4
<1>2. RestoreTypeOK' /\ ExecutorsTypeOK'
  BY <1>1, MishapsCount
     DEF CancelWrites, RestoreTypeOK, RestoreRows, RestoreResults, ExecutorsTypeOK,
         apiVars, SameRows
<1>3. VerdictsAreLast'
  BY <1>1 DEF CancelWrites, VerdictsAreLast, apiVars, SameRows
<1>4. CandidatesAreApart'
  BY DEF CancelWrites, CandidatesAreApart, apiVars
<1>5. OneEngaged'
  BY <1>1 DEF CancelWrites, OneEngaged, Engaged, apiVars, SameRows
<1>6. ASSUME ~late PROVE AloneInv'
  <2>1. AloneInv
    BY <1>6
  <2>2. Awaited' /\ (\A q \in Restores : Place(q)') /\ LeftForGood'
    BY <1>1, <1>6, <2>1
       DEF CancelWrites, AloneInv, Awaited, Place, LeftForGood, TakenOver, apiVars
  <2>3. PreviousIsRetained'
    BY <1>1, <2>1 DEF CancelWrites, AloneInv, PreviousIsRetained, apiVars, SameRows
  <2>4. (host.mounted = NoVolume => \E q \in Restores : DownFor(q))'
    BY <1>1, <1>6, <2>1 DEF CancelWrites, AloneInv, DownFor, Engaged, apiVars, SameRows
  <2> QED
    BY <1>6, <2>1, <2>2, <2>3, <2>4 DEF AloneInv, CancelWrites, apiVars
<1>7. late' = late
  BY DEF CancelWrites
<1> QED
  BY <1>2, <1>3, <1>4, <1>5, <1>6, <1>7

LEMMA RequestVolumeCleanupKeeps ==
  ASSUME RestoreIInv, NEW r \in Restores, RequestVolumeCleanup(r) PROVE RestoreIInv'
<1> USE DEF RestoreIInv
<1>1. /\ UNCHANGED <<row, workflow>>
  BY DEF RequestVolumeCleanup, RestoreTypeOK, RestoreRows
<1>2. RestoreTypeOK' /\ ExecutorsTypeOK'
  BY <1>1, MishapsCount
     DEF RequestVolumeCleanup, RestoreTypeOK, RestoreRows, RestoreResults, ExecutorsTypeOK,
         apiVars
<1>3. VerdictsAreLast'
  BY <1>1 DEF RequestVolumeCleanup, VerdictsAreLast, apiVars
<1>4. CandidatesAreApart'
  BY DEF RequestVolumeCleanup, CandidatesAreApart, apiVars
<1>5. OneEngaged'
  BY <1>1 DEF RequestVolumeCleanup, OneEngaged, Engaged, apiVars
<1>6. ASSUME ~late PROVE AloneInv'
  <2>1. AloneInv
    BY <1>6
  <2>2. Awaited' /\ (\A q \in Restores : Place(q)') /\ LeftForGood'
    BY <1>1, <1>6, <2>1
       DEF RequestVolumeCleanup, AloneInv, Awaited, Place, LeftForGood, TakenOver, apiVars
  <2>3. PreviousIsRetained'
    BY <1>1, <2>1 DEF RequestVolumeCleanup, AloneInv, PreviousIsRetained, apiVars
  <2>4. (host.mounted = NoVolume => \E q \in Restores : DownFor(q))'
    BY <1>1, <1>6, <2>1 DEF RequestVolumeCleanup, AloneInv, DownFor, Engaged, apiVars
  <2> QED
    BY <1>6, <2>1, <2>2, <2>3, <2>4 DEF AloneInv, RequestVolumeCleanup, apiVars
<1>7. late' = late
  BY DEF RequestVolumeCleanup
<1> QED
  BY <1>2, <1>3, <1>4, <1>5, <1>6, <1>7

LEMMA ActivityEndsKeeps ==
  ASSUME RestoreIInv, NEW r \in Restores, ActivityEnds(r) PROVE RestoreIInv'
<1> USE DEF RestoreIInv
<1>1. /\ workflow' \in [Restores -> {"none", "waiting", "running", "marking", "ended"}]
      /\ \A q \in Restores \ {r} : workflow'[q] = workflow[q]
      /\ workflow[r] = "running" /\ executor[r].at = "done"
      /\ workflow'[r] = IF executor[r].verdict = "promoted" THEN "ended" ELSE "marking"
  BY DEF ActivityEnds, RestoreTypeOK, RestoreRows
<1>2. RestoreTypeOK' /\ ExecutorsTypeOK'
  BY <1>1, MishapsCount
     DEF ActivityEnds, RestoreTypeOK, RestoreRows, RestoreResults, ExecutorsTypeOK,
         apiVars
<1>3. VerdictsAreLast'
  BY <1>1 DEF ActivityEnds, VerdictsAreLast, apiVars
<1>4. CandidatesAreApart'
  BY DEF ActivityEnds, CandidatesAreApart, apiVars
<1>5. OneEngaged'
  BY <1>1 DEF ActivityEnds, OneEngaged, Engaged, apiVars
<1>6. ASSUME ~late PROVE AloneInv'
  <2>1. AloneInv
    BY <1>6
  <2>2. Awaited' /\ (\A q \in Restores : Place(q)') /\ LeftForGood'
    BY <1>1, <1>6, <2>1
       DEF ActivityEnds, AloneInv, Awaited, Idle, Place, LeftForGood, TakenOver, apiVars
  <2>3. PreviousIsRetained'
    BY <1>1, <2>1 DEF ActivityEnds, AloneInv, PreviousIsRetained, apiVars
  <2>4. (host.mounted = NoVolume => \E q \in Restores : DownFor(q))'
    BY <1>1, <1>6, <2>1 DEF ActivityEnds, AloneInv, DownFor, Engaged, apiVars
  <2> QED
    BY <1>6, <2>1, <2>2, <2>3, <2>4 DEF AloneInv, ActivityEnds, apiVars
<1>7. late' = late
  BY DEF ActivityEnds
<1> QED
  BY <1>2, <1>3, <1>4, <1>5, <1>6, <1>7

LEMMA HeartbeatTimeoutKeeps ==
  ASSUME RestoreIInv, NEW r \in Restores, HeartbeatTimeout(r) PROVE RestoreIInv'
<1> USE DEF RestoreIInv
<1>1. /\ workflow' \in [Restores -> {"none", "waiting", "running", "marking", "ended"}]
      /\ \A q \in Restores \ {r} : workflow'[q] = workflow[q]
      /\ workflow[r] = "running" /\ workflow'[r] = "marking"
      /\ late \/ executor[r].at = "gone"
      /\ restoreMishaps' \in 0 .. MaxRestoreMishaps
  BY MishapsCount DEF HeartbeatTimeout, RestoreTypeOK
<1>2. RestoreTypeOK' /\ ExecutorsTypeOK'
  BY <1>1, MishapsCount
     DEF HeartbeatTimeout, RestoreTypeOK, RestoreRows, RestoreResults, ExecutorsTypeOK,
         apiVars
<1>3. VerdictsAreLast'
  BY <1>1 DEF HeartbeatTimeout, VerdictsAreLast, apiVars
<1>4. CandidatesAreApart'
  BY DEF HeartbeatTimeout, CandidatesAreApart, apiVars
<1>5. OneEngaged'
  BY <1>1 DEF HeartbeatTimeout, OneEngaged, Engaged, apiVars
<1>6. ASSUME ~late PROVE AloneInv'
  <2>1. AloneInv
    BY <1>6
  <2>2. Awaited' /\ (\A q \in Restores : Place(q)') /\ LeftForGood'
    BY <1>1, <1>6, <2>1
       DEF HeartbeatTimeout, AloneInv, Awaited, Idle, Place, LeftForGood, TakenOver,
           apiVars
  <2>3. PreviousIsRetained'
    BY <1>1, <2>1 DEF HeartbeatTimeout, AloneInv, PreviousIsRetained, apiVars
  <2>4. (host.mounted = NoVolume => \E q \in Restores : DownFor(q))'
    BY <1>1, <1>6, <2>1 DEF HeartbeatTimeout, AloneInv, DownFor, Engaged, apiVars
  <2> QED
    BY <1>6, <2>1, <2>2, <2>3, <2>4 DEF AloneInv, HeartbeatTimeout, apiVars
<1>7. late' = late
  BY DEF HeartbeatTimeout
<1> QED
  BY <1>2, <1>3, <1>4, <1>5, <1>6, <1>7

LEMMA MarkInterruptedKeeps ==
  ASSUME RestoreIInv, NEW r \in Restores, MarkInterrupted(r) PROVE RestoreIInv'
<1> USE DEF RestoreIInv
<1>1. /\ row' \in [Restores -> RestoreRows]
      /\ \A q \in Restores \ {r} : row'[q] = row[q]
      /\ workflow' \in [Restores -> {"none", "waiting", "running", "marking", "ended"}]
      /\ \A q \in Restores \ {r} : workflow'[q] = workflow[q]
      /\ workflow[r] = "marking" /\ workflow'[r] = "ended"
      /\ \/ row'[r] = row[r] /\ row[r].state \in Finished
         \/ /\ row[r].state \notin Finished
            /\ row'[r].state = "failed" /\ row'[r].result = NoResult
  <2>1. Post(r, "failed", NoResult)
    BY DEF MarkInterrupted
  <2>2. /\ row' \in [Restores -> RestoreRows]
        /\ \A q \in Restores \ {r} : row'[q] = row[q]
        /\ \/ row'[r] = row[r]
           \/ /\ row[r].state \notin Finished
              /\ row'[r].state = "failed" /\ row'[r].result = NoResult
    BY <2>1, PostTells, MarkResult
  <2>3. row'[r] = row[r] => row[r].state \in Finished
    BY <2>1, <2>2, MarkResult DEF Post, RestoreTypeOK
  <2>4. /\ workflow' \in [Restores -> {"none", "waiting", "running", "marking", "ended"}]
        /\ \A q \in Restores \ {r} : workflow'[q] = workflow[q]
        /\ workflow[r] = "marking" /\ workflow'[r] = "ended"
    BY DEF MarkInterrupted, RestoreTypeOK
  <2> QED
    BY <2>2, <2>3, <2>4
<1>2. RestoreTypeOK' /\ ExecutorsTypeOK'
  BY <1>1, MishapsCount
     DEF MarkInterrupted, RestoreTypeOK, RestoreRows, RestoreResults, ExecutorsTypeOK,
         apiVars
<1>3. VerdictsAreLast'
  BY <1>1 DEF MarkInterrupted, VerdictsAreLast, NoResult, apiVars
<1>4. CandidatesAreApart'
  BY DEF MarkInterrupted, CandidatesAreApart, apiVars
<1>5. OneEngaged'
  BY <1>1 DEF MarkInterrupted, OneEngaged, Engaged, apiVars
<1>6. ASSUME ~late PROVE AloneInv'
  <2>1. AloneInv
    BY <1>6
  <2>2. Awaited' /\ (\A q \in Restores : Place(q)') /\ LeftForGood'
    BY <1>1, <1>6, <2>1
       DEF MarkInterrupted, AloneInv, Awaited, Place, LeftForGood, TakenOver, apiVars
  <2>3. PreviousIsRetained'
    BY <1>1, <2>1 DEF MarkInterrupted, AloneInv, PreviousIsRetained, NoResult, apiVars
  <2>4. (host.mounted = NoVolume => \E q \in Restores : DownFor(q))'
    BY <1>1, <1>6, <2>1
       DEF MarkInterrupted, AloneInv, DownFor, Engaged, Awaited, Idle, VerdictsAreLast,
       Finished, apiVars
  <2> QED
    BY <1>6, <2>1, <2>2, <2>3, <2>4 DEF AloneInv, MarkInterrupted, apiVars
<1>7. late' = late
  BY DEF MarkInterrupted
<1> QED
  BY <1>2, <1>3, <1>4, <1>5, <1>6, <1>7

LEMMA StartRestoreKeeps ==
  ASSUME RestoreIInv, NEW r \in Restores, StartRestore(r) PROVE RestoreIInv'
<1> USE DEF RestoreIInv
<1>1. /\ executor[r].at = "absent" /\ executor[r].verdict = "none"
      /\ executor[r].previous = NoVolume
      /\ \A q \in Restores : ~Engaged(q)
  BY DEF StartRestore, OneEngaged, VerdictsAreLast, ServiceFree, Engaged
<1>2. Moves(r, "context", "none")
  BY <1>1 DEF StartRestore, Moves, Sets, ExecutorsTypeOK, Stages, BeforeSwitch
<1>3. /\ workflow' \in [Restores -> {"none", "waiting", "running", "marking", "ended"}]
      /\ \A q \in Restores \ {r} : workflow'[q] = workflow[q]
      /\ workflow[r] = "waiting" /\ workflow'[r] = "running"
  BY DEF StartRestore, RestoreTypeOK
<1>4. UNCHANGED <<row, apiVars, host, late, restoreMishaps>>
  BY DEF StartRestore
<1>5. RestoreTypeOK' /\ ExecutorsTypeOK'
  BY <1>2, <1>3, <1>4 DEF RestoreTypeOK, ExecutorsTypeOK, Moves, Sets, apiVars
<1>6. VerdictsAreLast'
  BY <1>1, <1>2, <1>4 DEF VerdictsAreLast, Moves, Sets, InScript, apiVars
<1>7. CandidatesAreApart'
  BY <1>1, <1>2, <1>4 DEF CandidatesAreApart, Moves, Sets, BeforeSwitch, Untouching
<1>8. OneEngaged'
  BY <1>1, <1>2, <1>3, <1>4 DEF OneEngaged, Engaged, Moves, Sets
<1>9. ASSUME ~late PROVE AloneInv'
  <2>1. AloneInv
    BY <1>9
  <2>2. Awaited'
    BY <1>2, <1>3, <2>1 DEF AloneInv, Awaited, Moves, Sets
  <2>3. ASSUME NEW q \in Restores PROVE Place(q)'
    BY <1>1, <1>2, <1>4, <2>1 DEF AloneInv, Place, Moves, Sets, InScript
  <2>4. LeftForGood'
    BY <1>1, <1>2, <1>4, <2>1 DEF AloneInv, LeftForGood, TakenOver, Moves, Sets
  <2>5. PreviousIsRetained'
    BY <1>4, <2>1 DEF AloneInv, PreviousIsRetained, apiVars
  <2>6. host.mounted = NoVolume => \E q \in Restores : DownFor(q)'
    BY <1>1, <1>2, <1>3, <1>4, <2>1 DEF AloneInv, DownFor, Engaged, Moves, Sets
  <2> QED
    BY <1>4, <2>1, <2>2, <2>3, <2>4, <2>5, <2>6 DEF AloneInv
<1> QED
  BY <1>4, <1>5, <1>6, <1>7, <1>8, <1>9

\* The host changes with no restore engaged: a cleanup, a deployment.
LEMMA OthersWork ==
  ASSUME RestoreIInv, ServiceFree, host' \in Hosts,
         UNCHANGED <<row, admission, canceller, workflow, executor, late>>,
         cleanup' \in [Restores -> {"none", "queued", "done", "failed"}],
         \A q \in Restores : cleanup'[q] # "none" => cleanup[q] # "none",
         restoreMishaps' \in 0 .. MaxRestoreMishaps,
         host'.pointer = host.pointer,
         host'.volumes \subseteq host.volumes \cup {host.pointer},
         ~late => /\ host.pointer \in host'.volumes
                  /\ host'.mounted \in {host.pointer, host.mounted}
                  /\ PreviousIsRetained'
  PROVE  RestoreIInv'
<1> USE DEF RestoreIInv
<1>1. RestoreTypeOK' /\ ExecutorsTypeOK'
  BY DEF RestoreTypeOK, Hosts, ExecutorsTypeOK
<1>2. VerdictsAreLast' /\ OneEngaged'
  BY DEF VerdictsAreLast, Finished, OneEngaged, Engaged
<1>3. CandidatesAreApart'
  <2>1. ASSUME NEW r \in Restores,
               \/ executor[r].at \in {"absent", "context", "claiming", "preflight", "restoring"}
               \/ executor[r].verdict = "aborted"
        PROVE  r \notin host'.volumes
    <3>1. executor[r].at \in BeforeSwitch \/ executor[r].verdict \in Untouching
      BY <2>1 DEF BeforeSwitch, Cancellable, Preparing, Untouching
    <3>2. host.pointer # r /\ r \notin host.volumes
      BY <2>1, <3>1 DEF CandidatesAreApart
    <3> QED
      BY <3>2
  <2> QED
    BY <2>1 DEF CandidatesAreApart
<1>4. ASSUME ~late PROVE AloneInv'
  <2>1. AloneInv /\ \A q \in Restores : executor[q].at \in Idle
    BY <1>4 DEF AloneInv, Awaited, ServiceFree
  <2>2. Awaited' /\ LeftForGood'
    BY <2>1 DEF AloneInv, Awaited, LeftForGood, TakenOver
  <2>3. \A q \in Restores : Place(q)'
    BY <2>1 DEF Place, Idle, InScript
  <2>4. host'.mounted = NoVolume => host.mounted = NoVolume
    BY <1>4, <2>1, VolumesAssumption DEF RestoreTypeOK, Volumes
  <2>5. host'.mounted = NoVolume => \E q \in Restores : DownFor(q)'
    BY <2>1, <2>4 DEF AloneInv, DownFor, Engaged
  <2> QED
    BY <1>4, <2>1, <2>2, <2>3, <2>5 DEF AloneInv
<1> QED
  BY <1>1, <1>2, <1>3, <1>4

LEMMA CleanupRunsKeeps ==
  ASSUME RestoreIInv, NEW r \in Restores, CleanupRuns(r) PROVE RestoreIInv'
<1> USE DEF RestoreIInv
<1>1. /\ ServiceFree /\ UNCHANGED <<row, admission, canceller, workflow, executor, late>>
      /\ restoreMishaps' \in 0 .. MaxRestoreMishaps
      /\ cleanup' \in [Restores -> {"none", "queued", "done", "failed"}]
      /\ \A q \in Restores \ {r} : cleanup'[q] = cleanup[q]
      /\ cleanup[r] = "queued"
  BY MishapsCount DEF CleanupRuns, RestoreTypeOK
<1>2. CASE cleanup'[r] = "failed" /\ UNCHANGED host
  <2>1. ~late => PreviousIsRetained'
    BY <1>1, <1>2 DEF AloneInv, PreviousIsRetained, CleanupRuns
  <2> QED
    BY <1>1, <1>2, <2>1, OthersWork DEF AloneInv, RestoreTypeOK, Hosts
<1>3. CASE /\ cleanup'[r] = "done"
           /\ host' = [host EXCEPT !.volumes =
                  @ \ ({row[r].result.previous} \ {host.pointer, host.mounted})]
  <2>1. /\ host' \in Hosts /\ host'.pointer = host.pointer /\ host'.mounted = host.mounted
        /\ host'.volumes = host.volumes \ ({row[r].result.previous} \ {host.pointer, host.mounted})
    BY <1>3 DEF RestoreTypeOK, Hosts
  <2>2. ASSUME ~late PROVE PreviousIsRetained'
    <3> SUFFICES ASSUME NEW q \in Restores, row[q].result.outcome = "promoted",
                        cleanup'[q] # "done"
                 PROVE  row[q].result.previous \in host'.volumes \ {q}
      BY <1>1 DEF PreviousIsRetained
    <3>1. q # r /\ cleanup[q] # "done"
      BY <1>1, <1>3
    <3>2. row[q].result.previous \in host.volumes \ {q}
      BY <2>2, <3>1 DEF AloneInv, PreviousIsRetained
    <3>3. CASE row[r].result.outcome = "promoted"
      BY <2>1, <2>2, <3>1, <3>2, <3>3 DEF AloneInv, LeftForGood, TakenOver, VerdictsAreLast
    <3> QED
      BY <3>3 DEF CleanupRuns, VerdictsAreLast
  <2> QED
    BY <1>1, <2>1, <2>2, OthersWork DEF AloneInv
<1> QED
  BY <1>2, <1>3 DEF CleanupRuns, RestoreTypeOK

LEMMA RedeployKeeps ==
  ASSUME RestoreIInv, Redeploy PROVE RestoreIInv'
<1> USE DEF RestoreIInv
<1>1. /\ host' \in Hosts /\ host'.pointer = host.pointer /\ host'.mounted = host.pointer
      /\ host'.volumes = host.volumes \cup {host.pointer}
  BY DEF Redeploy, RestoreTypeOK, Hosts
<1>2. ~late => PreviousIsRetained'
  BY <1>1 DEF Redeploy, AloneInv, PreviousIsRetained, apiVars
<1> QED
  BY <1>1, <1>2, OthersWork DEF Redeploy, apiVars, RestoreTypeOK, Hosts

-----------------------------------------------------------------------------

LEMMA RestoreInitially == ASSUME RestoreInit PROVE RestoreIInv
<1>1. row \in [Restores -> RestoreRows]
  BY DEF RestoreInit, RestoreRows, RestoreResults, NoResult
<1>2. host \in Hosts /\ host.pointer = Original /\ host.mounted = Original
      /\ host.volumes = {Original}
  BY DEF RestoreInit, Hosts, Volumes
<1>3. ExecutorsTypeOK
  BY DEF RestoreInit, ExecutorsTypeOK, Stages, BeforeSwitch, Verdicts
<1>4. RestoreTypeOK
  <2>1. restoreMishaps \in 0 .. MaxRestoreMishaps
    BY VolumesAssumption DEF RestoreInit
  <2>2. \A r \in Restores : executor[r].previous \in Volumes \cup {NoVolume}
    BY DEF RestoreInit
  <2>3. /\ admission \in [Restores -> {"none", "failing", "done"}]
        /\ canceller \in [Restores -> {"none", "read"}]
        /\ workflow \in [Restores -> {"none", "waiting", "running", "marking", "ended"}]
        /\ cleanup \in [Restores -> {"none", "queued", "done", "failed"}]
        /\ late \in BOOLEAN
    BY DEF RestoreInit
  <2> QED
    BY <1>1, <1>2, <2>1, <2>2, <2>3 DEF RestoreTypeOK, RestoreRows, RestoreResults, Hosts
<1>5. VerdictsAreLast /\ OneEngaged
  BY DEF RestoreInit, VerdictsAreLast, OneEngaged, Engaged, InScript, NoResult
<1>6. CandidatesAreApart
  BY <1>2, VolumesAssumption DEF RestoreInit, CandidatesAreApart, Untouching
<1>7. AloneInv
  <2>1. Awaited /\ LeftForGood /\ PreviousIsRetained
    BY DEF RestoreInit, Awaited, Idle, LeftForGood, TakenOver, PreviousIsRetained, NoResult
  <2>2. \A r \in Restores : Place(r)
    BY DEF RestoreInit, Place, InScript
  <2>3. host.mounted # NoVolume
    BY <1>2, VolumesAssumption
  <2> QED
    BY <1>2, <2>1, <2>2, <2>3 DEF AloneInv
<1> QED
  BY <1>3, <1>4, <1>5, <1>6, <1>7 DEF RestoreIInv

LEMMA RestoreStep == ASSUME RestoreIInv, [RestoreNext]_restoreVars PROVE RestoreIInv'
<1>1. ASSUME NEW r \in Restores,
             \/ RequestRestore(r) \/ AdmissionFails(r) \/ CancelReads(r) \/ CancelWrites(r)
             \/ RequestVolumeCleanup(r) \/ CleanupRuns(r)
      PROVE  RestoreIInv'
  BY <1>1, RequestRestoreKeeps, AdmissionFailsKeeps, CancelReadsKeeps, CancelWritesKeeps,
     RequestVolumeCleanupKeeps, CleanupRunsKeeps
<1>2. ASSUME NEW r \in Restores, WorkflowSteps(r) PROVE RestoreIInv'
  BY <1>2, StartRestoreKeeps, ActivityEndsKeeps, HeartbeatTimeoutKeeps, MarkInterruptedKeeps
     DEF WorkflowSteps
<1>3. ASSUME NEW r \in Restores, ExecutorSteps(r) PROVE RestoreIInv'
  BY <1>3, TakeContextKeeps, ClaimRowKeeps, PreflightKeeps, PrepareCandidateKeeps,
     BeginPromotionKeeps, RemoveContainerKeeps, SwitchPointerKeeps, RunCandidateKeeps,
     RunPreviousKeeps, ReportScriptKeeps, PostVerdictKeeps DEF ExecutorSteps
<1>4. ASSUME NEW r \in Restores,
             Abort(r) \/ FailsBefore(r) \/ ScriptDies(r) \/ WorkerCrashes(r)
      PROVE  RestoreIInv'
  BY <1>4, AbortKeeps, FailsBeforeKeeps, ScriptDiesKeeps, WorkerCrashesKeeps
<1>5. CASE Redeploy
  BY <1>5, RedeployKeeps
<1>6. CASE UNCHANGED restoreVars
  BY <1>6 DEF restoreVars, RestoreIInv, RestoreTypeOK, ExecutorsTypeOK, VerdictsAreLast,
     CandidatesAreApart, OneEngaged, Engaged, AloneInv, Awaited, Place, LeftForGood,
     TakenOver, PreviousIsRetained, DownFor
<1> QED
  BY <1>1, <1>2, <1>3, <1>4, <1>5, <1>6 DEF RestoreNext

\* The inductive invariant of the restores holds in every reachable state.
THEOREM RestoreInvariance == RestoreSpec => []RestoreIInv
<1>1. RestoreInit => RestoreIInv
  BY RestoreInitially
<1>2. RestoreIInv /\ [RestoreNext]_restoreVars => RestoreIInv'
  BY RestoreStep
<1> QED
  BY <1>1, <1>2, PTL DEF RestoreSpec

\* No restore, however it fails, loses the volume the database runs on or the one
\* it replaced, and a restore that is shown as cancelled has left nothing behind.
THEOREM VolumesAreKept == RestoreSpec => []RestoreInv
<1>1. RestoreIInv => RestoreInv
  BY DEF RestoreIInv, RestoreInv, ActiveIsKept, PreviousIsRetained, CancelledIsUntouched,
     AloneInv, VerdictsAreLast, CandidatesAreApart, Untouching
<1> QED
  BY <1>1, RestoreInvariance, PTL

\* Where no executor is late, the database runs on what the last success left it, and
\* is down only after a restore that says it failed.
THEOREM ServiceIsTold == RestoreSpec => []ServiceIsAsTold
<1>1. RestoreIInv => SuccessIsServed
  BY DEF RestoreIInv, SuccessIsServed, AloneInv, LeftForGood, TakenOver, VerdictsAreLast
<1>2. RestoreIInv => OutageIsReported
  <2> SUFFICES ASSUME RestoreIInv, ~late, AtWork = {}, ServiceFree, host.mounted = NoVolume
               PROVE  \E r \in Restores : /\ row[r].state = "failed"
                                          /\ row[r].result.outcome \in {"rollback_failed", "none"}
    BY DEF OutageIsReported
  <2>1. PICK r \in Restores : DownFor(r)
    BY DEF RestoreIInv, AloneInv
  <2>2. executor[r].at \in Idle /\ ~Engaged(r)
    BY DEF AtWork, Idle, ServiceFree, Engaged
  <2>3. row[r].state = "failed" /\ executor[r].verdict \in {"none", "rollback_failed"}
    BY <2>1, <2>2 DEF DownFor, Idle
  <2>4. row[r].result.outcome \in {"rollback_failed", "none"}
    BY <2>3 DEF RestoreIInv, VerdictsAreLast
  <2> QED
    BY <2>3, <2>4
<1> QED
  BY <1>1, <1>2, RestoreInvariance, PTL DEF ServiceIsAsTold
\* What a row says of a restore that ended stays, but for an admission that failed.
RowsStay == \A r \in Restores :
    row[r].state \in Finished /\ row'[r].state # row[r].state => admission[r] = "failing"

LEMMA PostsOnce ==
  ASSUME RestoreIInv, NEW r \in Restores, NEW state \in Finished,
         NEW result \in RestoreResults, Post(r, state, result)
  PROVE  RowsStay
<1>1. RestoreTypeOK
  BY DEF RestoreIInv
<1> QED
  BY <1>1, PostTells DEF RowsStay

\* The first result of a restore stays, whoever reports later and whatever was lost,
\* except that an admission whose signal failed overwrites it.
THEOREM ResultsStay == RestoreSpec => RestoreIsFinal
<1>1. ASSUME RestoreIInv, RestoreNext PROVE RowsStay
  <2> USE <1>1
  <2>1. row \in [Restores -> RestoreRows] /\ RestoreTypeOK /\ ExecutorsTypeOK
    BY DEF RestoreIInv, RestoreTypeOK, RestoreRows, RestoreResults
  <2>2. ASSUME NEW r \in Restores, RequestRestore(r) \/ AdmissionFails(r) \/ CancelWrites(r)
        PROVE  RowsStay
    BY <2>1, <2>2
       DEF RequestRestore, AdmissionFails, CancelWrites, RowsStay, RestoreRows, Finished
  <2>3. ASSUME NEW r \in Restores, MarkInterrupted(r) PROVE RowsStay
    BY <2>3, PostsOnce, MarkResult DEF MarkInterrupted
  <2>4. ASSUME NEW r \in Restores, PostVerdict(r) PROVE RowsStay
    <3>1. executor[r].verdict # "none"
      BY <2>4 DEF PostVerdict, RestoreIInv, VerdictsAreLast
    <3>2. CASE UNCHANGED row
      BY <3>2 DEF RowsStay
    <3>3. CASE Post(r, StateOf(executor[r].verdict), ResultOf(r))
      BY <2>1, <3>1, <3>3, VerdictTells, PostsOnce
    <3> QED
      BY <2>4, <3>2, <3>3 DEF PostVerdict
  <2>5. ASSUME NEW r \in Restores, ClaimRow(r) PROVE RowsStay
    BY <2>1, <2>5, RowsAreClaimed DEF ClaimRow, RowsStay, Finished
  <2>6. ASSUME NEW r \in Restores, Preflight(r) \/ PrepareCandidate(r) \/ BeginPromotion(r)
        PROVE  RowsStay
    BY <2>1, <2>6, ProgressTells
       DEF Preflight, PrepareCandidate, BeginPromotion, RowsStay, SameRows
  <2>7. ASSUME NEW r \in Restores, ReportScript(r) PROVE RowsStay
    BY <2>1, <2>7, ProgressTells DEF ReportScript, RowsStay, SameRows
  <2>8. CASE UNCHANGED row
    BY <2>8 DEF RowsStay
  <2>9. ASSUME NEW r \in Restores,
               \/ CancelReads(r) \/ RequestVolumeCleanup(r) \/ CleanupRuns(r)
               \/ StartRestore(r) \/ ActivityEnds(r) \/ HeartbeatTimeout(r)
        PROVE  UNCHANGED row
    BY <2>9 DEF CancelReads, RequestVolumeCleanup, CleanupRuns, StartRestore, ActivityEnds,
       HeartbeatTimeout
  <2>10. ASSUME NEW r \in Restores,
               \/ TakeContext(r) \/ RemoveContainer(r) \/ SwitchPointer(r)
               \/ RunCandidate(r) \/ RunPrevious(r)
               \/ Abort(r) \/ FailsBefore(r) \/ ScriptDies(r) \/ WorkerCrashes(r)
        PROVE  UNCHANGED row
    BY <2>10 DEF TakeContext, RemoveContainer, SwitchPointer, RunCandidate, RunPrevious,
       Abort, FailsBefore, ScriptDies, WorkerCrashes
  <2>11. Redeploy => UNCHANGED row
    BY DEF Redeploy
  <2> QED
    BY <1>1, <2>2, <2>3, <2>4, <2>5, <2>6, <2>7, <2>8, <2>9, <2>10, <2>11
       DEF RestoreNext, WorkflowSteps, ExecutorSteps
<1>2. RestoreIInv /\ [RestoreNext]_restoreVars => [RowsStay]_restoreVars
  BY <1>1
<1> QED
  BY <1>2, RestoreInvariance, PTL DEF RestoreSpec, RestoreIsFinal, RowsStay

-----------------------------------------------------------------------------
(***************************************************************************)
(* Previews.                                                               *)
(***************************************************************************)
VisitRows == [at : {"off", "fetched", "cleaning", "signalling"},
              open : BOOLEAN, commit : Commits, build : Builds \cup {NoBuild}]
PreviewRows == [status : Statuses, commit : Commits,
                latest : Builds \cup {NoBuild}, attempt : Nat]
BuildRows == [state : Terminal \cup {"none", "queued", "running"},
              commit : Commits, key : {"base", "reopened", "manual"}]
ClaimRows == [attempt : Nat, at : {"claimed", "mark", "lost"}, event : BOOLEAN]
CleanItems == {"clean"} \X Nat
CleanerRows == [item : CleanItems, try : Nat, attempt : Nat,
                at : {"cleaning", "recording", "failing"}]
Turns == [item : (({"build"} \X Builds) \cup CleanItems) \cup {<<"none", 0>>},
          at : {"free", "running", "released", "begin", "cleaning"}, try : Nat]

RunningBuilds == {b \in Builds : build[b].state = "running"}
Inserted == {b \in Builds : build[b].state # "none"}

\* What the coordinator and the host have was made by someone.
WorkIsKnown ==
    /\ claims \subseteq ClaimRows /\ cleaners \subseteq CleanerRows
    /\ line \subseteq ({"build"} \X Builds) \cup CleanItems
    /\ turn \in Turns
    /\ turn.at \in {"running", "released"} => turn.item[1] = "build" /\ turn.item[2] \in Inserted
    /\ turn.at \in {"begin", "cleaning"} => turn.item \in CleanItems
    /\ live # NoBuild => live \in Inserted
    /\ preview.status = "none" => Inserted = {}
    /\ \A v \in Visitors : visit[v].at = "signalling" => visit[v].build \in Builds

\* While an attempt of the awaited cleanup is at work no release is recorded, and
\* none after it has cleaned.
CleanupsAreAlone ==
    /\ \A c \in cleaners :
          /\ c.attempt <= preview.attempt
          /\ c.attempt = preview.attempt /\ preview.status = "deleting" =>
                /\ turn.at # "released"
                /\ c.at = "recording" => containers \subseteq RunningBuilds
    /\ preview.status = "deleted" => turn.at # "released"

\* The lock, and whoever has to skip what is queued for a preview that goes.
OneVisit == \A v, w \in Visitors : visit[v].at # "off" /\ visit[w].at # "off" => v = w
ClaimsAreOwed ==
    (preview.status \in {"none", "deleting", "deleted"} /\ \E b \in Builds : build[b].state = "queued")
       => \E c \in claims : c.at # "mark"

\* What is shown is behind what a visit has read, and that behind the head.
CommitsAreAdded ==
    /\ preview.commit <= pull.head
    /\ \A v \in Visitors : visit[v].at # "off" =>
          preview.commit <= visit[v].commit /\ visit[v].commit <= pull.head
    /\ \A b \in Inserted : build[b].commit <= preview.commit

\* The latest deployment is of the commit that is shown, if one is, and alone may
\* be queued.
LatestIsShown ==
    /\ \A b \in Inserted : build[b].commit = preview.commit =>
          preview.latest \in Inserted /\ build[preview.latest].commit = preview.commit
    /\ \A b \in Builds : build[b].state = "queued" => b = preview.latest
    /\ \A v \in Visitors : visit[v].at = "signalling" => visit[v].build = preview.latest

\* AdmittedIsSignalled, of those that can still do something about it.
SignalIsOwed ==
    \A b \in Builds :
        build[b].state = "queued" /\ build[b].key # "manual" /\ build[b].commit = preview.commit =>
            \/ <<"build", b>> \in seen
            \/ pending \/ visit["event"].at # "off"
            \/ \E c \in claims : c.at # "mark"
            \/ b \in overlooked

InOrder == CommitsAreAdded /\ LatestIsShown /\ SignalIsOwed

PreviewIInv ==
    /\ PreviewTypeOK /\ WorkIsKnown /\ CleanupsAreAlone /\ DeletedIsGone
    /\ OneVisit /\ ClaimsAreOwed
    /\ ~Rewinds => InOrder

-----------------------------------------------------------------------------
LEMMA PreviewTypes ==
  PreviewTypeOK <=>
    /\ pull \in [open : BOOLEAN, head : Commits] /\ pending \in BOOLEAN
    /\ visit \in [Visitors -> VisitRows] /\ preview \in PreviewRows
    /\ build \in [Builds -> BuildRows]
    /\ live \in Builds \cup {NoBuild} /\ containers \subseteq Builds
    /\ misfortunes \in 0..MaxMisfortunes /\ overlooked \subseteq Builds
  BY DEF PreviewTypeOK, VisitRows, PreviewRows, BuildRows

LEMMA Numbers == /\ NoBuild \notin Builds /\ 1 \in Commits
                 /\ Commits \subseteq Nat /\ Builds \subseteq Nat
  BY PreviewAssumption DEF NoBuild, Builds, Commits

LEMMA MisfortunesCount ==
  ASSUME PreviewTypeOK, Misfortune \/ UNCHANGED misfortunes
  PROVE  misfortunes' \in 0..MaxMisfortunes
  BY PreviewAssumption DEF PreviewTypeOK, Misfortune

\* Steps that leave the host and the coordinator's work as they are.
ApiOnly == UNCHANGED <<live, containers, turn, cleaners>>

\* What such a step may do to the row of the preview.
StatusMoves ==
    \/ preview'.status = preview.status /\ preview'.attempt = preview.attempt
    \/ /\ preview'.status \notin {"deleting", "deleted", "none"}
       /\ preview'.attempt = preview.attempt
    \/ preview'.status = "deleting" /\ preview'.attempt = preview.attempt + 1

LEMMA HostIsLeft ==
  ASSUME PreviewIInv, ApiOnly, StatusMoves, RunningBuilds \subseteq RunningBuilds'
  PROVE  CleanupsAreAlone' /\ DeletedIsGone'
<1>1. preview.attempt \in Nat /\ \A c \in cleaners : c.attempt \in Nat
  BY DEF PreviewIInv, PreviewTypeOK, WorkIsKnown, CleanerRows
<1>2. CleanupsAreAlone'
  BY <1>1 DEF PreviewIInv, CleanupsAreAlone, ApiOnly, StatusMoves
<1>3. DeletedIsGone'
  BY DEF PreviewIInv, DeletedIsGone, ApiOnly, StatusMoves, RunningBuilds
<1> QED
  BY <1>2, <1>3

\* Steps of deployments and cleanups do not touch visits, and at most advance what
\* is queued.
BuildsProceed ==
    /\ build' \in [Builds -> BuildRows]
    /\ \A b \in Builds :
          /\ build'[b].commit = build[b].commit /\ build'[b].key = build[b].key
          /\ build'[b].state = "none" <=> build[b].state = "none"
          /\ build'[b].state = "queued" => build[b].state = "queued"

LEMMA OrderIsLeft ==
  ASSUME PreviewIInv, BuildsProceed, UNCHANGED <<pull, pending, visit, claims, overlooked>>,
         seen \subseteq seen',
         preview'.commit = preview.commit, preview'.latest = preview.latest
  PROVE  OneVisit' /\ (~Rewinds => InOrder')
<1>1. OneVisit'
  BY DEF PreviewIInv, OneVisit
<1>2. ASSUME ~Rewinds PROVE CommitsAreAdded'
  BY <1>2 DEF PreviewIInv, InOrder, CommitsAreAdded, Inserted, BuildsProceed
<1>3. ASSUME ~Rewinds PROVE LatestIsShown'
  BY <1>3 DEF PreviewIInv, InOrder, LatestIsShown, Inserted, BuildsProceed
<1>4. ASSUME ~Rewinds PROVE SignalIsOwed'
  BY <1>4 DEF PreviewIInv, InOrder, SignalIsOwed, BuildsProceed
<1> QED
  BY <1>1, <1>2, <1>3, <1>4 DEF InOrder

LEMMA BuildsStay == ASSUME PreviewTypeOK, UNCHANGED build PROVE BuildsProceed
  BY PreviewTypes DEF BuildsProceed

-----------------------------------------------------------------------------
\* Attempts of a cleanup.
LEMMA CleanersHaveItems == CleanItems \cap ({"build"} \X Builds) = {}
  BY DEF CleanItems

LEMMA NextTryTells ==
  ASSUME WorkIsKnown, turn.item \in CleanItems
  PROVE  /\ NextTry \in Turns /\ NextTry.at \in {"free", "begin"}
         /\ NextTry.at = "begin" => NextTry.item \in CleanItems
<1>1. turn \in Turns /\ turn.try + 1 \in Nat
  BY DEF WorkIsKnown, Turns
<1>2. CASE turn.try < CleanupTries
  <2>1. NextTry = [turn EXCEPT !.at = "begin", !.try = turn.try + 1]
    BY <1>2 DEF NextTry
  <2>2. NextTry.item = turn.item /\ NextTry.at = "begin"
    BY <1>1, <2>1 DEF Turns
  <2> QED
    BY <1>1, <2>1, <2>2 DEF Turns
<1>3. CASE ~(turn.try < CleanupTries)
  BY <1>3 DEF NextTry, Free, Turns
<1> QED
  BY <1>2, <1>3

LEMMA TryEndsTells ==
  ASSUME WorkIsKnown, NEW c \in cleaners, NEW next, next = NextTry \/ next = Free,
         TryEnds(c, next)
  PROVE  /\ turn' \in Turns
         /\ turn' = turn \/ (turn'.at \in {"free", "begin"} /\ (turn'.at = "begin" => turn'.item \in CleanItems))
<1>1. c.item \in CleanItems
  BY DEF WorkIsKnown, CleanerRows
<1>2. CASE turn.item = c.item /\ turn.try = c.try /\ turn.at = "cleaning"
  <2>1. turn' = next
    BY <1>2 DEF TryEnds
  <2>2. CASE next = NextTry
    BY <1>1, <1>2, <2>1, <2>2, NextTryTells
  <2>3. CASE next = Free
    BY <2>1, <2>3 DEF Free, Turns
  <2> QED
    BY <2>2, <2>3
<1>3. CASE ~(turn.item = c.item /\ turn.try = c.try /\ turn.at = "cleaning")
  BY <1>3 DEF TryEnds, WorkIsKnown
<1> QED
  BY <1>2, <1>3

\* The turn goes on, or is over, or another attempt begins.
TurnEnds ==
    /\ turn' \in Turns
    /\ turn' = turn \/ (turn'.at \in {"free", "begin"} /\ (turn'.at = "begin" => turn'.item \in CleanItems))

\* A step of cleaners that are at work changes the row at most to deleted, with the
\* release, or to a cleanup that failed.
LEMMA CleanersKeep ==
  ASSUME PreviewIInv, TurnEnds, UNCHANGED <<overlooked, pull, pending, visit, build, claims, line, seen>>,
         cleaners' \subseteq CleanerRows, containers' \subseteq containers,
         misfortunes' \in 0..MaxMisfortunes, preview' \in PreviewRows,
         live' \in {live, NoBuild},
         preview'.commit = preview.commit, preview'.latest = preview.latest,
         preview'.attempt = preview.attempt,
         \A c \in cleaners' : c \in cleaners \/ \E d \in cleaners : 
              c.attempt = d.attempt /\ (c.at = "recording" => containers' = {}),
         \/ preview'.status = preview.status
         \/ preview.status = "deleting" /\ preview'.status = "cleanup_failed"
         \/ /\ preview.status = "deleting" /\ preview'.status = "deleted" /\ live' = NoBuild
            /\ \E c \in cleaners : c.attempt = preview.attempt /\ c.at = "recording"
  PROVE  PreviewIInv'
<1>1. PreviewTypeOK'
  <2>1. live' \in Builds \cup {NoBuild} /\ containers' \subseteq Builds
    BY DEF PreviewIInv, PreviewTypeOK
  <2> QED
    BY <2>1, PreviewTypes DEF PreviewIInv, PreviewTypeOK, PreviewRows
<1>2. WorkIsKnown'
  BY DEF PreviewIInv, WorkIsKnown, TurnEnds, Inserted
<1>3. CleanupsAreAlone'
  <2>1. turn'.at = "released" => turn.at = "released"
    BY DEF TurnEnds
  <2>2. RunningBuilds' = RunningBuilds
    BY DEF RunningBuilds
  <2> QED
    BY <2>1, <2>2 DEF PreviewIInv, CleanupsAreAlone
<1>4. DeletedIsGone'
  BY DEF PreviewIInv, DeletedIsGone, CleanupsAreAlone, RunningBuilds
<1>5. OneVisit' /\ (~Rewinds => InOrder')
  BY OrderIsLeft, BuildsStay DEF PreviewIInv
<1>6. ClaimsAreOwed'
  BY DEF PreviewIInv, ClaimsAreOwed
<1> QED
  BY <1>1, <1>2, <1>3, <1>4, <1>5, <1>6 DEF PreviewIInv

LEMMA CleansKeeps == ASSUME PreviewIInv, NEW c \in cleaners, Cleans(c) PROVE PreviewIInv'
<1>0. PreviewTypeOK /\ WorkIsKnown /\ c \in CleanerRows
  BY DEF PreviewIInv, WorkIsKnown
<1>1. PICK stage \in {"recording", "failing"} :
         /\ cleaners' = (cleaners \ {c}) \cup {[c EXCEPT !.at = stage]}
         /\ stage = "recording" => containers' = {}
  BY DEF Cleans
<1>2. [c EXCEPT !.at = stage] \in CleanerRows /\ [c EXCEPT !.at = stage].attempt = c.attempt
      /\ [c EXCEPT !.at = stage].at = stage
  BY <1>0 DEF CleanerRows
<1>3. misfortunes' \in 0..MaxMisfortunes /\ containers' \subseteq containers
  BY <1>0, MisfortunesCount DEF Cleans
<1>4. cleaners' \subseteq CleanerRows
  BY <1>0, <1>1, <1>2 DEF WorkIsKnown
<1>5. \A d \in cleaners' : d \in cleaners \/ \E e \in cleaners :
              d.attempt = e.attempt /\ (d.at = "recording" => containers' = {})
  BY <1>1, <1>2
<1>6. UNCHANGED <<overlooked, pull, pending, visit, preview, build, live, claims, line,
                  seen, turn>>
  BY DEF Cleans, pullVars
<1>7. TurnEnds
  BY <1>0, <1>6 DEF TurnEnds, WorkIsKnown
<1>8. preview' \in PreviewRows
  BY <1>0, <1>6, PreviewTypes
<1> QED
  BY <1>3, <1>4, <1>5, <1>6, <1>7, <1>8, CleanersKeep

LEMMA DeletedTells ==
  ASSUME PreviewTypeOK, NEW c \in CleanerRows, Deleted(c) \/ UNCHANGED <<preview, live>>
  PROVE  /\ preview' \in PreviewRows /\ live' \in {live, NoBuild}
         /\ preview'.commit = preview.commit /\ preview'.latest = preview.latest
         /\ preview'.attempt = preview.attempt
         /\ \/ preview'.status = preview.status
            \/ /\ preview.status = "deleting" /\ preview'.status = "deleted" /\ live' = NoBuild
               /\ c.attempt = preview.attempt
<1>1. preview \in PreviewRows
  BY PreviewTypes
<1> QED
  BY <1>1 DEF Deleted, AwaitsResult, PreviewRows, Statuses

LEMMA RecordsSuccessKeeps ==
  ASSUME PreviewIInv, NEW c \in cleaners, RecordsSuccess(c) PROVE PreviewIInv'
<1>0. PreviewTypeOK /\ WorkIsKnown /\ c \in CleanerRows
  BY DEF PreviewIInv, WorkIsKnown
<1>1. c.at = "recording" /\ cleaners' = cleaners \ {c} /\ cleaners' \subseteq CleanerRows
  BY <1>0 DEF RecordsSuccess, WorkIsKnown
<1>2. TurnEnds
  BY <1>0, TryEndsTells DEF RecordsSuccess, TurnEnds
<1>3. /\ UNCHANGED <<overlooked, pull, pending, visit, build, claims, line, seen, containers>>
      /\ misfortunes' \in 0..MaxMisfortunes
  BY <1>0, MisfortunesCount DEF RecordsSuccess, pullVars
<1>4. Deleted(c)
  BY DEF RecordsSuccess
<1> QED
  BY <1>0, <1>1, <1>2, <1>3, <1>4, DeletedTells, CleanersKeep

LEMMA SuccessIsLostKeeps ==
  ASSUME PreviewIInv, NEW c \in cleaners, SuccessIsLost(c) PROVE PreviewIInv'
<1>0. PreviewTypeOK /\ WorkIsKnown /\ c \in CleanerRows
  BY DEF PreviewIInv, WorkIsKnown
<1>1. /\ [c EXCEPT !.at = "failing"] \in CleanerRows
      /\ [c EXCEPT !.at = "failing"].attempt = c.attempt
      /\ [c EXCEPT !.at = "failing"].at = "failing"
  BY <1>0 DEF CleanerRows
<1>2. c.at = "recording" /\ cleaners' = (cleaners \ {c}) \cup {[c EXCEPT !.at = "failing"]}
  BY DEF SuccessIsLost
<1>3. /\ cleaners' \subseteq CleanerRows
      /\ \A d \in cleaners' : d \in cleaners \/ \E e \in cleaners :
              d.attempt = e.attempt /\ (d.at = "recording" => containers' = {})
  BY <1>0, <1>1, <1>2 DEF WorkIsKnown
<1>4. /\ UNCHANGED <<overlooked, pull, pending, visit, build, claims, line, seen,
                     containers, turn>>
      /\ misfortunes' \in 0..MaxMisfortunes
  BY <1>0, MisfortunesCount DEF SuccessIsLost, pullVars
<1>5. TurnEnds
  BY <1>0, <1>4 DEF TurnEnds, WorkIsKnown
<1>6. Deleted(c) \/ UNCHANGED <<preview, live>>
  BY DEF SuccessIsLost
<1> QED
  BY <1>0, <1>2, <1>3, <1>4, <1>5, <1>6, DeletedTells, CleanersKeep

LEMMA RecordsFailureKeeps ==
  ASSUME PreviewIInv, NEW c \in cleaners, RecordsFailure(c) PROVE PreviewIInv'
<1>0. PreviewTypeOK /\ WorkIsKnown /\ c \in CleanerRows /\ preview \in PreviewRows
  BY PreviewTypes DEF PreviewIInv, WorkIsKnown
<1>1. cleaners' = cleaners \ {c} /\ cleaners' \subseteq CleanerRows
  BY <1>0 DEF RecordsFailure, WorkIsKnown
<1>2. TurnEnds
  BY <1>0, TryEndsTells DEF RecordsFailure, TurnEnds
<1>3. /\ UNCHANGED <<overlooked, pull, pending, visit, build, claims, line, seen,
                     containers, live>>
      /\ misfortunes' \in 0..MaxMisfortunes
  BY <1>0, MisfortunesCount DEF RecordsFailure, pullVars, hostVarsOfPreview
<1>4. /\ preview' \in PreviewRows
      /\ preview'.commit = preview.commit /\ preview'.latest = preview.latest
      /\ preview'.attempt = preview.attempt
      /\ \/ preview'.status = preview.status
         \/ preview.status = "deleting" /\ preview'.status = "cleanup_failed"
  BY <1>0 DEF RecordsFailure, AwaitsResult, PreviewRows, Statuses
<1> QED
  BY <1>1, <1>2, <1>3, <1>4, CleanersKeep

LEMMA CleanOverrunsKeeps ==
  ASSUME PreviewIInv, NEW c \in cleaners, CleanOverruns(c) PROVE PreviewIInv'
<1>0. PreviewTypeOK /\ WorkIsKnown /\ c \in CleanerRows /\ preview \in PreviewRows
  BY PreviewTypes DEF PreviewIInv, WorkIsKnown
<1>1. turn.item \in CleanItems /\ turn' = NextTry
  BY <1>0 DEF CleanOverruns, CleanerRows
<1>2. TurnEnds
  BY <1>0, <1>1, NextTryTells DEF TurnEnds
<1>3. /\ UNCHANGED <<overlooked, pull, pending, visit, preview, build, claims, line,
                     seen, containers, live, cleaners>>
      /\ misfortunes' \in 0..MaxMisfortunes
  BY <1>0, MisfortunesCount DEF CleanOverruns, pullVars, hostVarsOfPreview
<1> QED
  BY <1>0, <1>2, <1>3, CleanersKeep DEF WorkIsKnown

LEMMA CleanTriesKeeps ==
  ASSUME PreviewIInv, NEW item \in CleanItems, NEW try \in Nat, turn.at \in {"free", "begin"},
         line' \subseteq line, CleanTries(item, try)
  PROVE  PreviewIInv'
<1>0. PreviewTypeOK /\ WorkIsKnown /\ preview \in PreviewRows
  BY PreviewTypes DEF PreviewIInv, WorkIsKnown
<1>1. UNCHANGED <<overlooked, pull, pending, visit, preview, build, live, containers,
                  claims, seen, misfortunes>>
  BY DEF CleanTries, pullVars, hostVarsOfPreview
<1>2. /\ turn' \in Turns /\ turn'.at \in {"begin", "cleaning", "free"}
      /\ turn'.at # "free" => turn'.item \in CleanItems
  BY DEF CleanTries, Turns, Free, CleanItems
<1>3. \/ UNCHANGED cleaners
      \/ cleaners' = cleaners \cup {[item |-> item, try |-> try,
                                     attempt |-> preview.attempt, at |-> "cleaning"]}
  BY DEF CleanTries
<1>4. PreviewTypeOK'
  BY <1>0, <1>1 DEF PreviewTypeOK
<1>5. WorkIsKnown'
  <2>1. cleaners' \subseteq CleanerRows
    BY <1>0, <1>3 DEF WorkIsKnown, CleanerRows, PreviewRows
  <2> QED
    BY <1>0, <1>1, <1>2, <2>1 DEF WorkIsKnown, Inserted
<1>6. CleanupsAreAlone'
  <2>1. RunningBuilds' = RunningBuilds
    BY <1>1 DEF RunningBuilds
  <2> QED
    BY <1>0, <1>1, <1>2, <1>3, <2>1 DEF PreviewIInv, CleanupsAreAlone, PreviewRows
<1>7. DeletedIsGone'
  BY <1>1 DEF PreviewIInv, DeletedIsGone
<1>8. OneVisit' /\ (~Rewinds => InOrder')
  BY <1>0, <1>1, OrderIsLeft, BuildsStay
<1>9. ClaimsAreOwed'
  BY <1>1 DEF PreviewIInv, ClaimsAreOwed
<1> QED
  BY <1>4, <1>5, <1>6, <1>7, <1>8, <1>9 DEF PreviewIInv

LEMMA CleanStartsKeeps ==
  ASSUME PreviewIInv, NEW item \in line, CleanStarts(item) PROVE PreviewIInv'
<1>1. item \in CleanItems
  BY DEF CleanStarts, PreviewIInv, WorkIsKnown, CleanItems
<1>2. turn.at = "free" /\ line' \subseteq line /\ CleanTries(item, 1)
  BY DEF CleanStarts, MayStart
<1> QED
  BY <1>1, <1>2, CleanTriesKeeps

LEMMA CleanRetriesKeeps == ASSUME PreviewIInv, CleanRetries PROVE PreviewIInv'
<1>1. turn.at = "begin" /\ turn.item \in CleanItems /\ turn.try \in Nat
  BY DEF CleanRetries, PreviewIInv, WorkIsKnown, Turns
<1>2. line' \subseteq line /\ CleanTries(turn.item, turn.try)
  BY DEF CleanRetries
<1> QED
  BY <1>1, <1>2, CleanTriesKeeps

-----------------------------------------------------------------------------
\* Deployments.
LEMMA BuildStartsKeeps == ASSUME PreviewIInv, NEW b \in Builds, BuildStarts(b) PROVE PreviewIInv'
<1>0. /\ PreviewTypeOK /\ WorkIsKnown /\ build \in [Builds -> BuildRows]
      /\ turn.at = "free" /\ line' \subseteq line
  BY PreviewTypes DEF PreviewIInv, BuildStarts, MayStart
<1>1. UNCHANGED <<overlooked, pull, pending, visit, preview, live, claims, seen,
                  cleaners, misfortunes>>
  BY DEF BuildStarts, pullVars
<1>2. CASE build[b].state # "queued"
  <2>1. UNCHANGED <<build, containers, turn>>
    BY <1>2 DEF BuildStarts
  <2>2. TurnEnds
    BY <1>0, <2>1 DEF TurnEnds, WorkIsKnown
  <2>3. PreviewTypeOK' /\ WorkIsKnown'
    BY <1>0, <1>1, <2>1 DEF PreviewTypeOK, WorkIsKnown, Inserted
  <2>4. CleanupsAreAlone' /\ DeletedIsGone' /\ ClaimsAreOwed'
    BY <1>1, <2>1
       DEF PreviewIInv, CleanupsAreAlone, DeletedIsGone, ClaimsAreOwed, RunningBuilds
  <2>5. OneVisit' /\ (~Rewinds => InOrder')
    BY <1>0, <1>1, <2>1, OrderIsLeft, BuildsStay
  <2> QED
    BY <2>3, <2>4, <2>5 DEF PreviewIInv
<1>3. CASE build[b].state = "queued"
  <2>1. /\ build' = [build EXCEPT ![b].state = "running"]
        /\ containers' = containers \cup {b}
        /\ turn' = [item |-> <<"build", b>>, at |-> "running", try |-> 1]
    BY <1>3 DEF BuildStarts
  <2>2. /\ build' \in [Builds -> BuildRows] /\ build'[b].state = "running"
        /\ \A a \in Builds \ {b} : build'[a] = build[a]
        /\ build'[b].commit = build[b].commit /\ build'[b].key = build[b].key
    BY <1>0, <2>1 DEF BuildRows
  <2>3. BuildsProceed /\ Inserted' = Inserted /\ RunningBuilds' = RunningBuilds \cup {b}
    BY <1>3, <2>2 DEF BuildsProceed, Inserted, RunningBuilds
  <2>4. PreviewTypeOK'
    BY <1>0, <1>1, <1>3, <2>1, <2>2 DEF PreviewTypeOK, BuildRows
  <2>5. WorkIsKnown'
    <3>1. turn' \in Turns /\ turn'.at = "running" /\ turn'.item[1] = "build" /\ turn'.item[2] = b
      BY <2>1 DEF Turns
    <3>2. b \in Inserted'
      BY <2>2 DEF Inserted
    <3> QED
      BY <1>0, <1>1, <2>3, <3>1, <3>2 DEF WorkIsKnown
  <2>6. CleanupsAreAlone' /\ DeletedIsGone'
    BY <1>1, <2>1, <2>3 DEF PreviewIInv, CleanupsAreAlone, DeletedIsGone, RunningBuilds
  <2>7. ClaimsAreOwed'
    BY <1>1, <2>3 DEF PreviewIInv, ClaimsAreOwed, BuildsProceed
  <2>8. OneVisit' /\ (~Rewinds => InOrder')
    BY <1>1, <2>3, OrderIsLeft
  <2> QED
    BY <2>4, <2>5, <2>6, <2>7, <2>8 DEF PreviewIInv
<1> QED
  BY <1>2, <1>3

LEMMA BuildReleasesKeeps == ASSUME PreviewIInv, BuildReleases PROVE PreviewIInv'
<1>0. PreviewTypeOK /\ WorkIsKnown /\ preview.status \in Active
  BY DEF PreviewIInv, BuildReleases, AcceptsRelease
<1>1. UNCHANGED <<overlooked, pull, pending, visit, preview, build, claims, line, seen,
                  cleaners, misfortunes>>
  BY DEF BuildReleases, pullVars
<1>2. /\ turn.at = "running" /\ turn.item[2] \in Inserted
      /\ live' = turn.item[2] /\ containers' = {turn.item[2]}
      /\ turn' = [turn EXCEPT !.at = "released"]
  BY <1>0 DEF BuildReleases, Built, WorkIsKnown
<1>3. PreviewTypeOK'
  BY <1>0, <1>1, <1>2 DEF PreviewTypeOK, Inserted
<1>4. WorkIsKnown'
  <2>1. turn' \in Turns /\ turn'.at = "released" /\ turn'.item = turn.item
    BY <1>0, <1>2 DEF WorkIsKnown, Turns
  <2> QED
    BY <1>0, <1>1, <1>2, <2>1 DEF WorkIsKnown, Inserted
<1>5. CleanupsAreAlone' /\ DeletedIsGone'
  BY <1>0, <1>1 DEF PreviewIInv, CleanupsAreAlone, DeletedIsGone, Active
<1>6. ClaimsAreOwed'
  BY <1>1 DEF PreviewIInv, ClaimsAreOwed
<1>7. OneVisit' /\ (~Rewinds => InOrder')
  BY <1>0, <1>1, OrderIsLeft, BuildsStay
<1> QED
  BY <1>3, <1>4, <1>5, <1>6, <1>7 DEF PreviewIInv

LEMMA PropagatedTells ==
  ASSUME PreviewTypeOK, NEW b, NEW s
  PROVE  /\ Propagated(preview, b, s) \in PreviewRows
         /\ Propagated(preview, b, s).commit = preview.commit
         /\ Propagated(preview, b, s).latest = preview.latest
         /\ Propagated(preview, b, s).attempt = preview.attempt
         /\ \/ Propagated(preview, b, s) = preview
            \/ /\ preview.status \notin {"deleting", "deleted"} /\ preview.latest = b
               /\ Propagated(preview, b, s).status \in {"healthy", "failed"}
<1>1. preview \in PreviewRows
  BY PreviewTypes
<1> QED
  BY <1>1 DEF Propagated, PreviewRows, Statuses

LEMMA BuildEndsKeeps ==
  ASSUME PreviewIInv, NEW state \in {"succeeded", "failed"}, BuildEnds(state) PROVE PreviewIInv'
<1>0. PreviewTypeOK /\ WorkIsKnown /\ build \in [Builds -> BuildRows] /\ preview \in PreviewRows
  BY PreviewTypes DEF PreviewIInv
<1>1. UNCHANGED <<overlooked, pull, pending, visit, live, claims, line, seen, cleaners,
                  misfortunes>>
  BY DEF BuildEnds, pullVars
<1>2. PICK b \in Inserted : b = Built
  BY <1>0 DEF BuildEnds, WorkIsKnown, Built
<1>3. /\ build' = [build EXCEPT ![b].state = state] /\ turn' = Free
      /\ preview' = Propagated(preview, b, state)
      /\ \/ turn.at = "released" /\ containers' = containers
         \/ containers' = containers \ {b}
  BY <1>2 DEF BuildEnds
<1>4. b \in Builds /\ build[b].state # "none"
  BY DEF Inserted
<1>5. /\ build' \in [Builds -> BuildRows] /\ build'[b].state = state
      /\ \A a \in Builds \ {b} : build'[a] = build[a]
      /\ build'[b].commit = build[b].commit /\ build'[b].key = build[b].key
  BY <1>0, <1>3, <1>4 DEF BuildRows, Terminal
<1>6. BuildsProceed /\ Inserted' = Inserted /\ RunningBuilds' = RunningBuilds \ {b}
  BY <1>4, <1>5 DEF BuildsProceed, Inserted, RunningBuilds
<1>7. /\ preview' \in PreviewRows
      /\ preview'.commit = preview.commit /\ preview'.latest = preview.latest
      /\ preview'.attempt = preview.attempt
      /\ \/ preview' = preview
         \/ preview.status \notin {"deleting", "deleted"} /\ preview'.status \in {"healthy", "failed"}
  BY <1>0, <1>3, PropagatedTells
<1>8. PreviewTypeOK'
  <2>1. containers' \subseteq Builds
    BY <1>0, <1>3 DEF PreviewTypeOK
  <2> QED
    BY <1>0, <1>1, <1>5, <1>7, <2>1 DEF PreviewTypeOK, PreviewRows, BuildRows
<1>9. WorkIsKnown'
  BY <1>0, <1>1, <1>3, <1>6, <1>7 DEF WorkIsKnown, Free, Turns
<1>10. CleanupsAreAlone'
  <2>1. turn'.at = "free"
    BY <1>3 DEF Free
  <2>2. ASSUME NEW c \in cleaners, c.attempt = preview.attempt, preview'.status = "deleting",
               c.at = "recording"
        PROVE  containers' \subseteq RunningBuilds'
    <3>1. turn.at # "released" /\ containers \subseteq RunningBuilds
      BY <1>7, <2>2 DEF PreviewIInv, CleanupsAreAlone
    <3> QED
      BY <1>3, <1>6, <3>1
  <2> QED
    BY <1>1, <1>7, <2>1, <2>2 DEF PreviewIInv, CleanupsAreAlone
<1>11. DeletedIsGone'
  <2> SUFFICES ASSUME preview'.status = "deleted"
               PROVE  live' = NoBuild /\ containers' \subseteq RunningBuilds'
    BY DEF DeletedIsGone, RunningBuilds
  <2>1. preview.status = "deleted" /\ turn.at # "released"
    BY <1>7 DEF PreviewIInv, CleanupsAreAlone
  <2>2. live = NoBuild /\ containers \subseteq RunningBuilds
    BY <2>1 DEF PreviewIInv, DeletedIsGone, RunningBuilds
  <2> QED
    BY <1>1, <1>3, <1>6, <2>1, <2>2
<1>12. ClaimsAreOwed'
  BY <1>1, <1>6, <1>7 DEF PreviewIInv, ClaimsAreOwed, BuildsProceed
<1>13. OneVisit' /\ (~Rewinds => InOrder')
  BY <1>1, <1>6, <1>7, OrderIsLeft
<1> QED
  BY <1>8, <1>9, <1>10, <1>11, <1>12, <1>13 DEF PreviewIInv

-----------------------------------------------------------------------------
\* The pull request and the visits.
LEMMA HeadMoves ==
  ASSUME PreviewIInv, NEW head \in Commits, NEW open \in BOOLEAN, ~Rewinds => pull.head <= head,
         pull' = [open |-> open, head |-> head],
         UNCHANGED <<overlooked, pending, visit, preview, build, live, containers,
                     claims, line, seen, turn,
                     cleaners, misfortunes>>
  PROVE  PreviewIInv'
<1>0. PreviewTypeOK /\ pull.head \in Nat /\ head \in Nat /\ preview.commit \in Nat
      /\ \A v \in Visitors : visit[v].commit \in Nat
  BY Numbers DEF PreviewIInv, PreviewTypeOK
<1>1. PreviewTypeOK' /\ WorkIsKnown'
  BY <1>0 DEF PreviewIInv, PreviewTypeOK, WorkIsKnown, Inserted
<1>2. CleanupsAreAlone' /\ DeletedIsGone' /\ OneVisit' /\ ClaimsAreOwed'
  BY
     DEF PreviewIInv, CleanupsAreAlone, DeletedIsGone, OneVisit, ClaimsAreOwed,
         RunningBuilds
<1>3. ASSUME ~Rewinds PROVE InOrder'
  <2>1. pull'.head = head /\ InOrder /\ pull.head <= head
    BY <1>3 DEF PreviewIInv
  <2>2. CommitsAreAdded'
    BY <1>0, <2>1 DEF InOrder, CommitsAreAdded, Inserted
  <2>3. LatestIsShown' /\ SignalIsOwed'
    BY <2>1 DEF InOrder, LatestIsShown, SignalIsOwed, Inserted
  <2> QED
    BY <2>2, <2>3 DEF InOrder
<1> QED
  BY <1>1, <1>2, <1>3 DEF PreviewIInv

LEMMA PullRequestChangesKeeps == ASSUME PreviewIInv, PullRequestChanges PROVE PreviewIInv'
<1>0. pull \in [open : BOOLEAN, head : Commits] /\ pull.head \in Nat
  BY Numbers DEF PreviewIInv, PreviewTypeOK
<1>1. UNCHANGED <<overlooked, pending, visit, preview, build, live, containers, claims,
                  line, seen, turn,
                  cleaners, misfortunes>>
  BY DEF PullRequestChanges, hostVarsOfPreview, coordinatorVars
<1>2. ASSUME NEW c \in Commits, c = pull.head + 1 \/ (Rewinds /\ c # pull.head),
             pull' = [pull EXCEPT !.head = c]
      PROVE  PreviewIInv'
  <2>1. pull' = [open |-> pull.open, head |-> c] /\ (~Rewinds => pull.head <= c)
    BY <1>0, <1>2, Numbers
  <2> QED
    BY <1>0, <1>1, <2>1, HeadMoves
<1>3. ASSUME pull' = [pull EXCEPT !.open = ~@] PROVE PreviewIInv'
  <2>1. PICK open \in BOOLEAN : pull' = [pull EXCEPT !.open = open]
    <3>1. CASE pull.open
      <4>1. pull' = [pull EXCEPT !.open = FALSE]
        BY <1>3, <3>1
      <4> QED
        BY <4>1
    <3>2. CASE ~pull.open
      <4>1. pull' = [pull EXCEPT !.open = TRUE]
        BY <1>3, <3>2
      <4> QED
        BY <4>1
    <3> QED
      BY <3>1, <3>2
  <2>2. pull' = [open |-> open, head |-> pull.head]
    BY <1>0, <2>1
  <2> QED
    BY <1>0, <1>1, <2>2, HeadMoves
<1> QED
  BY <1>2, <1>3 DEF PullRequestChanges

LEMMA EndsTells ==
  ASSUME PreviewTypeOK, NEW v \in Visitors, NEW how, Ends(v, how)
  PROVE  /\ visit' \in [Visitors -> VisitRows] /\ pending' \in BOOLEAN
         /\ visit'[v].at = "off" /\ \A w \in Visitors \ {v} : visit'[w] = visit[w]
         /\ pending => pending'
         /\ v = "event" /\ how # "done" => pending'
<1>1. Away \in VisitRows /\ Away.at = "off"
  BY Numbers DEF Away, VisitRows
<1>2. visit \in [Visitors -> VisitRows] /\ pending \in BOOLEAN
  BY PreviewTypes
<1> QED
  BY <1>1, <1>2 DEF Ends

\* What the coordinator is signalled it has seen.
LEMMA SignalledTells ==
  ASSUME WorkIsKnown, NEW item \in ({"build"} \X Builds) \cup CleanItems, Signalled(item)
  PROVE  /\ line' \subseteq ({"build"} \X Builds) \cup CleanItems
         /\ seen \subseteq seen' /\ (item[1] = "build" => item \in seen')
  BY DEF WorkIsKnown, Signalled

\* Visits end, with the event back in its slot or nothing left to do for it.
LEMMA VisitsEnd ==
  ASSUME PreviewIInv, UNCHANGED <<pull, preview, build, live, containers, turn, cleaners>>,
         visit' \in [Visitors -> VisitRows], pending' \in BOOLEAN,
         \A v \in Visitors : visit'[v] = visit[v] \/ visit'[v].at = "off",
         pending => pending',
         line' \subseteq ({"build"} \X Builds) \cup CleanItems, seen \subseteq seen',
         misfortunes' \in 0..MaxMisfortunes,
         \/ overlooked' = overlooked
         \/ overlooked' = overlooked \cup
                {b \in Builds : build[b].state = "queued" /\ <<"build", b>> \notin seen},
         claims' \subseteq ClaimRows,
         \A c \in claims : c.at # "mark" => \E d \in claims' : d.at # "mark",
         \/ visit["event"].at = "off" \/ pending'
         \/ visit'["event"] = visit["event"]
         \/ ~Rewinds => \A b \in Builds : 
               build[b].state = "queued" /\ build[b].commit = preview.commit /\ build[b].key # "manual"
                  => \/ <<"build", b>> \in seen' \/ \E c \in claims' : c.at # "mark"
                     \/ b \in overlooked'
  PROVE  PreviewIInv'
<1>1. PreviewTypeOK'
  BY DEF PreviewIInv, PreviewTypeOK, VisitRows
<1>2. WorkIsKnown'
  BY DEF PreviewIInv, WorkIsKnown, Inserted
<1>3. CleanupsAreAlone' /\ DeletedIsGone' /\ ClaimsAreOwed'
  BY DEF PreviewIInv, CleanupsAreAlone, DeletedIsGone, ClaimsAreOwed, RunningBuilds
<1>4. OneVisit'
  BY DEF PreviewIInv, OneVisit
<1>5. ASSUME ~Rewinds PROVE InOrder'
  <2>1. CommitsAreAdded'
    BY <1>5 DEF PreviewIInv, InOrder, CommitsAreAdded, Inserted
  <2>2. LatestIsShown'
    BY <1>5 DEF PreviewIInv, InOrder, LatestIsShown, Inserted
  <2>3. SignalIsOwed'
    BY <1>5 DEF PreviewIInv, InOrder, SignalIsOwed, Visitors
  <2> QED
    BY <2>1, <2>2, <2>3 DEF InOrder
<1> QED
  BY <1>1, <1>2, <1>3, <1>4, <1>5 DEF PreviewIInv

LEMMA EventArrivesKeeps == ASSUME PreviewIInv, EventArrives PROVE PreviewIInv'
<1>1. /\ UNCHANGED <<overlooked, pull, visit, preview, build, live, containers, turn,
                     cleaners, claims, line,
                     seen, misfortunes>>
      /\ pending' = TRUE
  BY DEF EventArrives, hostVarsOfPreview, coordinatorVars
<1>2. visit \in [Visitors -> VisitRows] /\ misfortunes \in 0..MaxMisfortunes
  BY PreviewTypes DEF PreviewIInv
<1> QED
  BY <1>1, <1>2, VisitsEnd DEF PreviewIInv, WorkIsKnown

\* While it signals, a visit holds the latest deployment, which alone is queued.
LEMMA SignalsLatest ==
  ASSUME PreviewIInv, NEW v \in Visitors, visit[v].at = "signalling"
  PROVE  ~Rewinds => \A b \in Builds : build[b].state = "queued" => b = visit[v].build
  BY DEF PreviewIInv, InOrder, LatestIsShown

LEMMA VisitSignalsKeeps ==
  ASSUME PreviewIInv, NEW v \in Visitors, VisitSignals(v) PROVE PreviewIInv'
<1>0. PreviewTypeOK /\ WorkIsKnown /\ misfortunes \in 0..MaxMisfortunes
  BY DEF PreviewIInv, PreviewTypeOK
<1>1. /\ UNCHANGED <<overlooked, pull, preview, build, live, containers, claims, turn,
                     cleaners, misfortunes>>
      /\ visit[v].at = "signalling" /\ visit[v].build \in Builds
      /\ Signalled(<<"build", visit[v].build>>) /\ Ends(v, "done")
  BY <1>0 DEF VisitSignals, hostVarsOfPreview, WorkIsKnown
<1>2. /\ line' \subseteq ({"build"} \X Builds) \cup CleanItems
      /\ seen \subseteq seen' /\ <<"build", visit[v].build>> \in seen'
  BY <1>0, <1>1, SignalledTells
<1>3. ~Rewinds => \A b \in Builds : build[b].state = "queued" => <<"build", b>> \in seen'
  BY <1>1, <1>2, SignalsLatest
<1> QED
  BY <1>0, <1>1, <1>2, <1>3, EndsTells, VisitsEnd DEF WorkIsKnown

LEMMA SignalThrowsKeeps ==
  ASSUME PreviewIInv, NEW v \in Visitors, SignalThrows(v) PROVE PreviewIInv'
<1>0. PreviewTypeOK /\ WorkIsKnown
  BY DEF PreviewIInv
<1>1. /\ UNCHANGED <<overlooked, pull, preview, build, live, containers, claims, turn,
                     cleaners>>
      /\ visit[v].build \in Builds /\ Ends(v, "failed")
      /\ Signalled(<<"build", visit[v].build>>) \/ UNCHANGED <<seen, line>>
      /\ misfortunes' \in 0..MaxMisfortunes
  BY <1>0, MisfortunesCount DEF SignalThrows, hostVarsOfPreview, WorkIsKnown
<1>2. line' \subseteq ({"build"} \X Builds) \cup CleanItems /\ seen \subseteq seen'
  BY <1>0, <1>1, SignalledTells DEF WorkIsKnown
<1>3. v # "event" => visit'["event"] = visit["event"]
  BY <1>0, <1>1, EndsTells DEF Visitors
<1> QED
  BY <1>0, <1>1, <1>2, <1>3, EndsTells, VisitsEnd DEF WorkIsKnown

LEMMA VisitFailsKeeps ==
  ASSUME PreviewIInv, NEW v \in Visitors, VisitFails(v) PROVE PreviewIInv'
<1>0. PreviewTypeOK /\ WorkIsKnown
  BY DEF PreviewIInv
<1>1. /\ UNCHANGED <<overlooked, pull, preview, build, live, containers, claims, turn,
                     cleaners, line, seen>>
      /\ Ends(v, "failed") /\ misfortunes' \in 0..MaxMisfortunes
  BY <1>0, MisfortunesCount DEF VisitFails, hostVarsOfPreview, coordinatorVars
<1>2. v # "event" => visit'["event"] = visit["event"]
  BY <1>0, <1>1, EndsTells DEF Visitors
<1> QED
  BY <1>0, <1>1, <1>2, EndsTells, VisitsEnd DEF WorkIsKnown

\* What is queued is recorded as overlooked unless it was signalled.
LEMMA VisitIgnoresKeeps == ASSUME PreviewIInv, VisitIgnores PROVE PreviewIInv'
<1>0. PreviewTypeOK /\ WorkIsKnown /\ misfortunes \in 0..MaxMisfortunes /\ "event" \in Visitors
  BY DEF PreviewIInv, PreviewTypeOK, Visitors
<1>1. /\ UNCHANGED <<pull, preview, build, live, containers, claims, turn, cleaners, line, seen,
                     misfortunes>>
      /\ Ends("event", "done")
      /\ overlooked' = overlooked \cup
             {b \in Builds : build[b].state = "queued" /\ <<"build", b>> \notin seen}
  BY DEF VisitIgnores, hostVarsOfPreview, coordinatorVars
<1>2. \A b \in Builds : build[b].state = "queued" => <<"build", b>> \in seen' \/ b \in overlooked'
  BY <1>1
<1> QED
  BY <1>0, <1>1, <1>2, EndsTells, VisitsEnd DEF WorkIsKnown

LEMMA ApiStopsKeeps == ASSUME PreviewIInv, ApiStops PROVE PreviewIInv'
<1>0. PreviewTypeOK /\ WorkIsKnown /\ pending \in BOOLEAN
  BY DEF PreviewIInv, PreviewTypeOK
<1>1. /\ UNCHANGED <<overlooked, pull, preview, build, live, containers, turn, cleaners,
                     line, seen>>
      /\ misfortunes' \in 0..MaxMisfortunes
  BY <1>0, MisfortunesCount DEF ApiStops, hostVarsOfPreview, coordinatorVars
<1>2. visit' \in [Visitors -> VisitRows] /\ \A v \in Visitors : visit'[v].at = "off"
  BY Numbers DEF ApiStops, Away, VisitRows
<1>3. pending' \in BOOLEAN /\ (pending => pending') /\ (visit["event"].at = "off" \/ pending')
  BY <1>0 DEF ApiStops
<1>4. \A c \in claims : [c EXCEPT !.at = "lost"] \in ClaimRows /\ [c EXCEPT !.at = "lost"].at = "lost"
  BY <1>0 DEF WorkIsKnown, ClaimRows
<1>5. claims' \subseteq ClaimRows /\ \A c \in claims : \E d \in claims' : d.at # "mark"
  BY <1>4 DEF ApiStops
<1> QED
  BY <1>0, <1>1, <1>2, <1>3, <1>5, VisitsEnd DEF WorkIsKnown

LEMMA VisitStartsKeeps ==
  ASSUME PreviewIInv, NEW v \in Visitors, VisitStarts(v) PROVE PreviewIInv'
<1>0. /\ PreviewTypeOK /\ WorkIsKnown /\ visit \in [Visitors -> VisitRows]
      /\ pull \in [open : BOOLEAN, head : Commits] /\ \A c \in Commits : c \in Nat
      /\ pending \in BOOLEAN
  BY PreviewTypes, Numbers DEF PreviewIInv
<1>1. /\ UNCHANGED <<overlooked, pull, preview, build, live, containers, turn, cleaners,
                     claims, line, seen,
                     misfortunes>>
      /\ \A w \in Visitors : visit[w].at = "off"
      /\ visit' = [visit EXCEPT ![v] = [at |-> "fetched", open |-> pull.open,
                                         commit |-> pull.head, build |-> NoBuild]]
  BY DEF VisitStarts, LockFree, hostVarsOfPreview, coordinatorVars
<1>2. pending' \in BOOLEAN /\ (v # "event" => pending' = pending)
  BY <1>0 DEF VisitStarts, Visitors
<1>3. /\ visit' \in [Visitors -> VisitRows]
      /\ visit'[v].at = "fetched" /\ visit'[v].commit = pull.head
      /\ \A w \in Visitors \ {v} : visit'[w] = visit[w]
  BY <1>0, <1>1 DEF VisitRows
<1>4. PreviewTypeOK'
  BY <1>0, <1>1, <1>2, <1>3 DEF PreviewTypeOK, VisitRows
<1>5. WorkIsKnown'
  BY <1>0, <1>1, <1>3 DEF WorkIsKnown, Inserted
<1>6. CleanupsAreAlone' /\ DeletedIsGone' /\ ClaimsAreOwed'
  BY <1>1 DEF PreviewIInv, CleanupsAreAlone, DeletedIsGone, ClaimsAreOwed, RunningBuilds
<1>7. OneVisit'
  BY <1>1, <1>3 DEF OneVisit
<1>8. ASSUME ~Rewinds PROVE InOrder'
  <2>1. CommitsAreAdded'
    BY <1>0, <1>1, <1>3, <1>8 DEF PreviewIInv, InOrder, CommitsAreAdded, Inserted
  <2>2. LatestIsShown'
    BY <1>1, <1>3, <1>8 DEF PreviewIInv, InOrder, LatestIsShown, Inserted
  <2>3. SignalIsOwed'
    BY <1>1, <1>2, <1>3, <1>8 DEF PreviewIInv, InOrder, SignalIsOwed, Visitors
  <2> QED
    BY <2>1, <2>2, <2>3 DEF InOrder
<1> QED
  BY <1>4, <1>5, <1>6, <1>7, <1>8 DEF PreviewIInv

-----------------------------------------------------------------------------
\* Requests for a cleanup.
LEMMA ClaimTells ==
  ASSUME PreviewTypeOK, WorkIsKnown, NEW event \in BOOLEAN, Claim(event)
  PROVE  /\ preview' \in PreviewRows
         /\ preview'.commit = preview.commit /\ preview'.latest = preview.latest
         /\ preview'.status = "deleting" /\ preview'.attempt = preview.attempt + 1
         /\ preview.status # "none"
         /\ claims \subseteq claims' /\ claims' \subseteq ClaimRows
         /\ \E c \in claims' : c.at = "claimed"
<1>1. preview \in PreviewRows /\ preview.attempt + 1 \in Nat
  BY PreviewTypes DEF PreviewRows
<1>2. preview' = [preview EXCEPT !.status = "deleting", !.attempt = preview.attempt + 1]
  BY DEF Claim
<1>3. [attempt |-> preview.attempt + 1, at |-> "claimed", event |-> event] \in ClaimRows
  BY <1>1 DEF ClaimRows
<1>4. preview.status # "none"
  BY DEF Claim, Cleanable
<1>5. claims' = claims \cup {[attempt |-> preview.attempt + 1, at |-> "claimed", event |-> event]}
  BY DEF Claim
<1>6. claims \subseteq claims' /\ claims' \subseteq ClaimRows /\ \E c \in claims' : c.at = "claimed"
  BY <1>3, <1>5 DEF WorkIsKnown
<1> QED
  BY <1>1, <1>2, <1>4, <1>6 DEF PreviewRows, Statuses

LEMMA RequestCleanupKeeps == ASSUME PreviewIInv, RequestCleanup PROVE PreviewIInv'
<1>0. PreviewTypeOK /\ WorkIsKnown
  BY DEF PreviewIInv
<1>1. UNCHANGED <<overlooked, pull, pending, visit, build, live, containers, line, seen,
                  turn, cleaners,
                  misfortunes>>
  BY DEF RequestCleanup, pullVars, hostVarsOfPreview, coordinatorVars
<1>2. /\ preview' \in PreviewRows
      /\ preview'.commit = preview.commit /\ preview'.latest = preview.latest
      /\ preview'.status = "deleting" /\ preview'.attempt = preview.attempt + 1
      /\ claims \subseteq claims' /\ claims' \subseteq ClaimRows
      /\ \E c \in claims' : c.at = "claimed"
  BY <1>0, ClaimTells DEF RequestCleanup
<1>3. PreviewTypeOK'
  BY <1>0, <1>1, <1>2 DEF PreviewTypeOK, PreviewRows
<1>4. WorkIsKnown'
  BY <1>0, <1>1, <1>2 DEF WorkIsKnown, Inserted
<1>5. CleanupsAreAlone' /\ DeletedIsGone'
  BY <1>1, <1>2, HostIsLeft DEF ApiOnly, StatusMoves, RunningBuilds
<1>6. ClaimsAreOwed'
  BY <1>2 DEF ClaimsAreOwed
<1>7. OneVisit'
  BY <1>1 DEF PreviewIInv, OneVisit
<1>8. ASSUME ~Rewinds PROVE InOrder'
  BY <1>1, <1>2, <1>8
     DEF PreviewIInv, InOrder, CommitsAreAdded, LatestIsShown, SignalIsOwed,
     Inserted
<1> QED
  BY <1>3, <1>4, <1>5, <1>6, <1>7, <1>8 DEF PreviewIInv

LEMMA VisitCleansKeeps == ASSUME PreviewIInv, VisitCleans PROVE PreviewIInv'
<1>0. PreviewTypeOK /\ WorkIsKnown /\ visit \in [Visitors -> VisitRows] /\ "event" \in Visitors
      /\ preview.status \in Statuses
  BY PreviewTypes DEF PreviewIInv, Visitors, PreviewRows
<1>1. UNCHANGED <<overlooked, pull, build, live, containers, line, seen, turn, cleaners,
                  misfortunes>>
      /\ visit["event"].at = "fetched"
  BY DEF VisitCleans, hostVarsOfPreview, coordinatorVars
<1>2. CASE preview.status \notin Cleanable
  <2>1. Ends("event", "done") /\ UNCHANGED <<preview, claims>>
    BY <1>2 DEF VisitCleans
  <2>2. preview.status \in {"none", "deleting", "deleted"}
    BY <1>0, <1>2 DEF Statuses, Cleanable
  <2>3. (\E b \in Builds : build[b].state = "queued") => \E c \in claims' : c.at # "mark"
    BY <2>1, <2>2 DEF PreviewIInv, ClaimsAreOwed
  <2>4. misfortunes' \in 0..MaxMisfortunes
    BY <1>0, <1>1 DEF PreviewTypeOK
  <2> QED
    BY <1>0, <1>1, <2>1, <2>3, <2>4, EndsTells, VisitsEnd DEF WorkIsKnown
<1>3. CASE preview.status \in Cleanable
  <2>1. Claim(TRUE) /\ visit' = [visit EXCEPT !["event"].at = "cleaning"] /\ UNCHANGED pending
    BY <1>3 DEF VisitCleans
  <2>2. /\ preview' \in PreviewRows
        /\ preview'.commit = preview.commit /\ preview'.latest = preview.latest
        /\ preview'.status = "deleting" /\ preview'.attempt = preview.attempt + 1
        /\ claims \subseteq claims' /\ claims' \subseteq ClaimRows
        /\ \E c \in claims' : c.at = "claimed"
    BY <1>0, <2>1, ClaimTells
  <2>3. /\ visit' \in [Visitors -> VisitRows] /\ visit'["event"].at = "cleaning"
        /\ visit'["event"].commit = visit["event"].commit
        /\ \A v \in Visitors \ {"event"} : visit'[v] = visit[v]
    BY <1>0, <2>1 DEF VisitRows
  <2>4. PreviewTypeOK'
    BY <1>0, <1>1, <2>1, <2>2, <2>3 DEF PreviewTypeOK, PreviewRows, VisitRows
  <2>5. WorkIsKnown'
    BY <1>0, <1>1, <2>2, <2>3 DEF WorkIsKnown, Inserted
  <2>6. CleanupsAreAlone' /\ DeletedIsGone'
    BY <1>1, <2>2, HostIsLeft DEF ApiOnly, StatusMoves, RunningBuilds
  <2>7. ClaimsAreOwed'
    BY <2>2 DEF ClaimsAreOwed
  <2>8. OneVisit'
    BY <1>1, <2>3 DEF PreviewIInv, OneVisit
  <2>9. ASSUME ~Rewinds PROVE InOrder'
    <3>1. CommitsAreAdded'
      BY <1>1, <2>2, <2>3, <2>9 DEF PreviewIInv, InOrder, CommitsAreAdded, Inserted
    <3>2. LatestIsShown'
      BY <1>1, <2>2, <2>3, <2>9 DEF PreviewIInv, InOrder, LatestIsShown, Inserted
    <3>3. SignalIsOwed'
      BY <2>3 DEF SignalIsOwed
    <3> QED
      BY <3>1, <3>2, <3>3 DEF InOrder
  <2> QED
    BY <2>4, <2>5, <2>6, <2>7, <2>8, <2>9 DEF PreviewIInv
<1> QED
  BY <1>2, <1>3

\* The visit a claim belongs to is answered, or nobody is.
LEMMA AnswersTell ==
  ASSUME PreviewTypeOK, NEW c \in ClaimRows, NEW how, Answers(c, how) \/ UNCHANGED <<visit, pending>>
  PROVE  /\ visit' \in [Visitors -> VisitRows] /\ pending' \in BOOLEAN
         /\ \A v \in Visitors : visit'[v] = visit[v] \/ visit'[v].at = "off"
         /\ pending => pending'
         /\ visit'["event"] = visit["event"] \/ how = "done" \/ pending'
<1>1. "event" \in Visitors
  BY DEF Visitors
<1>2. CASE Ends("event", how)
  BY <1>1, <1>2, EndsTells
<1>3. CASE UNCHANGED <<visit, pending>>
  BY <1>3, PreviewTypes
<1> QED
  BY <1>2, <1>3 DEF Answers

LEMMA ClaimMarksKeeps == ASSUME PreviewIInv, NEW c \in claims, ClaimMarks(c) PROVE PreviewIInv'
<1>0. PreviewTypeOK /\ WorkIsKnown /\ preview \in PreviewRows /\ c \in ClaimRows
  BY PreviewTypes DEF PreviewIInv, WorkIsKnown
<1>1. /\ UNCHANGED <<overlooked, pull, build, live, containers, line, seen, turn,
                     cleaners, misfortunes>>
      /\ c.at = "mark" /\ claims' = claims \ {c} /\ claims' \subseteq ClaimRows
  BY <1>0 DEF ClaimMarks, hostVarsOfPreview, coordinatorVars, WorkIsKnown
<1>2. /\ visit' \in [Visitors -> VisitRows] /\ pending' \in BOOLEAN
      /\ \A v \in Visitors : visit'[v] = visit[v] \/ visit'[v].at = "off"
      /\ pending => pending'
      /\ visit'["event"] = visit["event"] \/ pending'
  BY <1>0, AnswersTell DEF ClaimMarks
<1>3. /\ preview' \in PreviewRows
      /\ preview'.commit = preview.commit /\ preview'.latest = preview.latest
      /\ preview'.attempt = preview.attempt
      /\ \/ preview' = preview
         \/ preview'.status = "cleanup_failed" /\ preview.status = "deleting"
  BY <1>0 DEF ClaimMarks, PreviewRows, Statuses
<1>4. PreviewTypeOK'
  BY <1>0, <1>1, <1>2, <1>3 DEF PreviewTypeOK, PreviewRows, VisitRows
<1>5. WorkIsKnown'
  BY <1>0, <1>1, <1>2, <1>3 DEF WorkIsKnown, Inserted
<1>6. CleanupsAreAlone' /\ DeletedIsGone'
  BY <1>1, <1>3, HostIsLeft DEF ApiOnly, StatusMoves, RunningBuilds
<1>7. ClaimsAreOwed'
  BY <1>1, <1>3 DEF PreviewIInv, ClaimsAreOwed
<1>8. OneVisit'
  BY <1>2 DEF PreviewIInv, OneVisit
<1>9. ASSUME ~Rewinds PROVE InOrder'
  <2>1. CommitsAreAdded' /\ LatestIsShown'
    BY <1>1, <1>2, <1>3, <1>9
       DEF PreviewIInv, InOrder, CommitsAreAdded, LatestIsShown, Inserted
  <2>2. SignalIsOwed'
    BY <1>1, <1>2, <1>3, <1>9 DEF PreviewIInv, InOrder, SignalIsOwed
  <2> QED
    BY <2>1, <2>2 DEF InOrder
<1> QED
  BY <1>4, <1>5, <1>6, <1>7, <1>8, <1>9 DEF PreviewIInv

LEMMA ClaimSignalsKeeps == ASSUME PreviewIInv, NEW c \in claims, ClaimSignals(c) PROVE PreviewIInv'
<1>0. PreviewTypeOK /\ WorkIsKnown /\ preview \in PreviewRows /\ build \in [Builds -> BuildRows]
      /\ c \in ClaimRows
  BY PreviewTypes DEF PreviewIInv, WorkIsKnown
<1>1. UNCHANGED <<overlooked, pull, live, containers, turn, cleaners>>
  BY DEF ClaimSignals, hostVarsOfPreview
<1>2. /\ build' \in [Builds -> BuildRows]
      /\ \A b \in Builds :
            /\ build'[b].commit = build[b].commit /\ build'[b].key = build[b].key
            /\ build'[b].state = IF build[b].state = "queued" THEN "skipped" ELSE build[b].state
  BY <1>0 DEF ClaimSignals, Queued, BuildRows, Terminal
<1>3. /\ Inserted' = Inserted /\ RunningBuilds' = RunningBuilds
      /\ \A b \in Builds : build'[b].state # "queued"
  BY <1>2 DEF Inserted, RunningBuilds
<1>4. /\ preview' \in PreviewRows
      /\ preview'.commit = preview.commit /\ preview'.latest = preview.latest
      /\ preview'.attempt = preview.attempt
      /\ \/ preview' = preview
         \/ /\ preview.status \notin {"deleting", "deleted"}
            /\ preview'.status \in {"healthy", "failed"}
  BY <1>0, PropagatedTells DEF ClaimSignals
<1>5. /\ visit' \in [Visitors -> VisitRows] /\ pending' \in BOOLEAN
      /\ \A v \in Visitors : visit'[v] = visit[v] \/ visit'[v].at = "off"
  BY <1>0, AnswersTell DEF ClaimSignals
<1>6. line' \subseteq ({"build"} \X Builds) \cup CleanItems
  <2>1. <<"clean", c.attempt>> \in CleanItems
    BY <1>0 DEF ClaimRows, CleanItems
  <2> QED
    BY <1>0, <2>1, SignalledTells DEF ClaimSignals, WorkIsKnown
<1>7. claims' \subseteq ClaimRows
  <2>1. [c EXCEPT !.at = "mark"] \in ClaimRows
    BY <1>0 DEF ClaimRows
  <2> QED
    BY <1>0, <2>1 DEF ClaimSignals, WorkIsKnown
<1>8. misfortunes' \in 0..MaxMisfortunes
  BY <1>0, MisfortunesCount DEF ClaimSignals
<1>9. PreviewTypeOK'
  BY <1>0, <1>1, <1>2, <1>4, <1>5, <1>8 DEF PreviewTypeOK, PreviewRows, VisitRows, BuildRows
<1>10. WorkIsKnown'
  BY <1>0, <1>1, <1>3, <1>4, <1>5, <1>6, <1>7 DEF WorkIsKnown
<1>11. CleanupsAreAlone' /\ DeletedIsGone'
  BY <1>1, <1>3, <1>4, HostIsLeft DEF ApiOnly, StatusMoves
<1>12. ClaimsAreOwed' /\ OneVisit'
  BY <1>3, <1>5 DEF PreviewIInv, ClaimsAreOwed, OneVisit
<1>13. ASSUME ~Rewinds PROVE InOrder'
  <2>1. CommitsAreAdded'
    BY <1>1, <1>2, <1>3, <1>4, <1>5, <1>13
       DEF PreviewIInv, InOrder, CommitsAreAdded, Inserted
  <2>2. LatestIsShown'
    BY <1>2, <1>3, <1>4, <1>5, <1>13 DEF PreviewIInv, InOrder, LatestIsShown, Inserted
  <2>3. SignalIsOwed'
    BY <1>3 DEF SignalIsOwed
  <2> QED
    BY <2>1, <2>2, <2>3 DEF InOrder
<1> QED
  BY <1>9, <1>10, <1>11, <1>12, <1>13 DEF PreviewIInv

-----------------------------------------------------------------------------
\* Admissions.
LEMMA FoundTells ==
  ASSUME PreviewIInv, NEW v \in Visitors, visit[v].at # "off", Earlier(v) # {}
  PROVE  /\ Found(v) \in Inserted /\ build[Found(v)].commit = visit[v].commit
         /\ ~Rewinds => Found(v) = preview.latest /\ visit[v].commit = preview.commit
<1>1. Found(v) \in Earlier(v)
  BY DEF Found
<1>2. Found(v) \in Inserted /\ build[Found(v)].commit = visit[v].commit
  BY <1>1 DEF Earlier, Inserted
<1>3. ASSUME ~Rewinds PROVE Found(v) = preview.latest /\ visit[v].commit = preview.commit
  <2>1. InOrder /\ visit[v].commit \in Nat /\ preview.commit \in Nat
    BY <1>3, Numbers DEF PreviewIInv, PreviewTypeOK
  <2>2. visit[v].commit = preview.commit
    BY <1>2, <2>1 DEF InOrder, CommitsAreAdded
  <2>3. preview.latest \in Inserted /\ build[preview.latest].commit = preview.commit
    BY <1>2, <2>1, <2>2 DEF InOrder, LatestIsShown
  <2>4. preview.latest \in Earlier(v)
    BY <1>1, <2>2, <2>3 DEF Earlier, Inserted
  <2> QED
    BY <2>2, <2>4 DEF Found
<1> QED
  BY <1>2, <1>3

LEMMA ReplaysKeeps ==
  ASSUME PreviewIInv, NEW v \in Visitors, visit[v].at # "off", Earlier(v) # {},
         Replays(v, Found(v)), v = "event",
         UNCHANGED <<pull, live, containers, claims, line, seen, turn, cleaners, misfortunes>>,
         overlooked' = {d \in overlooked : visit'[v].build # d}
  PROVE  PreviewIInv'
<1> DEFINE b == Found(v)
<1> HIDE DEF b
<1>0. PreviewTypeOK /\ WorkIsKnown /\ preview \in PreviewRows /\ visit \in [Visitors -> VisitRows]
  BY PreviewTypes DEF PreviewIInv
<1>1. /\ b \in Inserted /\ b \in Builds /\ build[b].commit = visit[v].commit
      /\ ~Rewinds => b = preview.latest /\ visit[v].commit = preview.commit
  BY FoundTells DEF b, Inserted
<1>2. /\ preview' \in PreviewRows
      /\ preview'.commit = visit[v].commit /\ preview'.latest = b
      /\ preview'.attempt = preview.attempt
      /\ preview'.status \in {"healthy", "failed", "building"}
  <2>1. PICK status \in {"healthy", "failed", "building"} :
           preview' = [preview EXCEPT !.commit = visit[v].commit, !.latest = b, !.status = status]
    BY DEF Replays, b
  <2>2. visit[v].commit \in Commits
    BY <1>0 DEF VisitRows
  <2> QED
    BY <1>0, <1>1, <2>1, <2>2 DEF PreviewRows, Statuses
<1>3. UNCHANGED build
  BY DEF Replays
<1>4. /\ visit' \in [Visitors -> VisitRows] /\ pending' \in BOOLEAN
      /\ \A w \in Visitors \ {v} : visit'[w] = visit[w]
      /\ pending => pending'
      /\ \/ /\ visit'[v].at = "signalling" /\ visit'[v].build = b
            /\ visit'[v].commit = visit[v].commit
         \/ visit'[v].at = "off" /\ build[b].state # "queued"
  <2>1. CASE ReplayEnqueues(b)
    <3>1. visit' = [visit EXCEPT ![v].at = "signalling", ![v].build = b] /\ UNCHANGED pending
      BY <2>1 DEF Replays, b
    <3>2. /\ visit' \in [Visitors -> VisitRows] /\ visit'[v].at = "signalling"
          /\ visit'[v].build = b /\ visit'[v].commit = visit[v].commit
          /\ \A w \in Visitors \ {v} : visit'[w] = visit[w]
      <4>1. visit' = [visit EXCEPT ![v] = [visit[v] EXCEPT !.at = "signalling", !.build = b]]
        BY <1>0, <3>1
      <4>2. [visit[v] EXCEPT !.at = "signalling", !.build = b] \in VisitRows
        BY <1>0, <1>1 DEF VisitRows
      <4>3. /\ [visit[v] EXCEPT !.at = "signalling", !.build = b].at = "signalling"
            /\ [visit[v] EXCEPT !.at = "signalling", !.build = b].build = b
            /\ [visit[v] EXCEPT !.at = "signalling", !.build = b].commit = visit[v].commit
        BY <1>0 DEF VisitRows
      <4> QED
        BY <1>0, <4>1, <4>2, <4>3
    <3> QED
      BY <1>0, <3>1, <3>2 DEF PreviewTypeOK
  <2>2. CASE ~ReplayEnqueues(b)
    <3>1. Ends(v, "done") /\ build[b].state # "queued"
      BY <2>2 DEF Replays, b, ReplayEnqueues, Terminal
    <3> QED
      BY <1>0, <3>1, EndsTells
  <2> QED
    BY <2>1, <2>2
<1>5. PreviewTypeOK'
  BY <1>0, <1>2, <1>3, <1>4 DEF PreviewTypeOK, PreviewRows, VisitRows
<1>6. WorkIsKnown'
  BY <1>0, <1>1, <1>2, <1>3, <1>4 DEF WorkIsKnown, Inserted
<1>7. CleanupsAreAlone' /\ DeletedIsGone'
  BY <1>2, <1>3, HostIsLeft DEF ApiOnly, StatusMoves, RunningBuilds
<1>8. ClaimsAreOwed'
  BY <1>2 DEF ClaimsAreOwed
<1>9. OneVisit'
  <2>1. \A w \in Visitors \ {v} : visit[w].at = "off"
    BY DEF PreviewIInv, OneVisit
  <2>2. \A w \in Visitors \ {v} : visit'[w].at = "off"
    BY <1>4, <2>1
  <2> QED
    BY <2>2 DEF OneVisit
<1>10. ASSUME ~Rewinds PROVE InOrder'
  <2>1. preview'.commit = preview.commit /\ preview'.latest = preview.latest /\ b = preview.latest
    BY <1>1, <1>2, <1>10
  <2>2. CommitsAreAdded'
    BY <1>3, <1>4, <1>10, <2>1 DEF PreviewIInv, InOrder, CommitsAreAdded, Inserted
  <2>3. LatestIsShown'
    BY <1>3, <1>4, <1>10, <2>1 DEF PreviewIInv, InOrder, LatestIsShown, Inserted
  <2>4. SignalIsOwed'
    BY <1>3, <1>4, <1>10, <2>1, <2>3 DEF LatestIsShown, SignalIsOwed
  <2> QED
    BY <2>2, <2>3, <2>4 DEF InOrder
<1> QED
  BY <1>5, <1>6, <1>7, <1>8, <1>9, <1>10 DEF PreviewIInv

LEMMA ShowsCurrentKeeps ==
  ASSUME PreviewIInv, NEW v \in Visitors, visit[v].at # "off", Earlier(v) = {},
         ReleaseIsCurrent(v), Ends(v, "done"),
         preview' = [preview EXCEPT !.status = "healthy", !.commit = visit[v].commit],
         UNCHANGED <<pull, build, live, containers, claims, line, seen, turn, cleaners, misfortunes>>,
         overlooked' = {d \in overlooked : visit'[v].build # d}
  PROVE  PreviewIInv'
<1>0. PreviewTypeOK /\ WorkIsKnown /\ preview \in PreviewRows /\ visit \in [Visitors -> VisitRows]
  BY PreviewTypes DEF PreviewIInv
<1>1. /\ preview' \in PreviewRows /\ preview'.status = "healthy"
      /\ preview'.commit = visit[v].commit /\ preview'.latest = preview.latest
      /\ preview'.attempt = preview.attempt
  BY <1>0 DEF PreviewRows, VisitRows, Statuses
<1>2. /\ visit' \in [Visitors -> VisitRows] /\ pending' \in BOOLEAN
      /\ visit'[v].at = "off" /\ \A w \in Visitors \ {v} : visit'[w] = visit[w]
      /\ pending => pending'
  BY <1>0, EndsTells
<1>3. PreviewTypeOK'
  BY <1>0, <1>1, <1>2 DEF PreviewTypeOK, PreviewRows, VisitRows
<1>4. WorkIsKnown'
  BY <1>0, <1>1, <1>2 DEF WorkIsKnown, Inserted
<1>5. CleanupsAreAlone' /\ DeletedIsGone'
  BY <1>1, HostIsLeft DEF ApiOnly, StatusMoves, RunningBuilds
<1>6. ClaimsAreOwed'
  BY <1>1 DEF ClaimsAreOwed
<1>7. OneVisit' /\ \A w \in Visitors : visit'[w].at = "off"
  BY <1>2 DEF PreviewIInv, OneVisit
<1>8. ASSUME ~Rewinds PROVE InOrder'
  <2>1. /\ InOrder /\ visit[v].commit \in Nat /\ preview.commit \in Nat /\ ~Reopening
        /\ \A d \in Builds : build[d].commit \in Nat
    BY <1>8, Numbers DEF PreviewIInv, PreviewTypeOK, ReleaseIsCurrent
  <2>2. \A d \in Inserted : build[d].commit # visit[v].commit
    <3> SUFFICES ASSUME NEW d \in Inserted, build[d].commit = visit[v].commit PROVE FALSE
      OBVIOUS
    <3>1. visit[v].commit = preview.commit
      BY <2>1 DEF InOrder, CommitsAreAdded, Inserted
    <3>2. preview.latest \in Inserted /\ build[preview.latest].commit = preview.commit
      BY <2>1, <3>1 DEF InOrder, LatestIsShown
    <3>3. preview.latest \in Earlier(v)
      BY <2>1, <3>1, <3>2 DEF Earlier, Inserted
    <3> QED
      BY <3>3
  <2>3. CommitsAreAdded'
    <3>1. \A d \in Inserted : build[d].commit <= visit[v].commit
      BY <2>1 DEF InOrder, CommitsAreAdded, Inserted
    <3>2. visit[v].commit <= pull.head
      BY <2>1 DEF InOrder, CommitsAreAdded
    <3> QED
      BY <1>1, <1>7, <3>1, <3>2 DEF CommitsAreAdded, Inserted
  <2>4. LatestIsShown'
    BY <1>1, <1>7, <2>1, <2>2 DEF InOrder, LatestIsShown, Inserted
  <2>5. SignalIsOwed'
    BY <1>1, <2>2 DEF SignalIsOwed, Inserted
  <2> QED
    BY <2>3, <2>4, <2>5 DEF InOrder
<1> QED
  BY <1>3, <1>4, <1>5, <1>6, <1>7, <1>8 DEF PreviewIInv

LEMMA InsertsKeeps ==
  ASSUME PreviewIInv, NEW v \in Visitors, visit[v].at # "off", NEW b \in Builds, Inserts(v, b),
         ~Defers,
         UNCHANGED <<pull, live, containers, claims, line, seen, turn, cleaners, misfortunes>>,
         overlooked' = {d \in overlooked : visit'[v].build # d}
  PROVE  PreviewIInv'
<1>0. PreviewTypeOK /\ WorkIsKnown /\ preview \in PreviewRows /\ visit \in [Visitors -> VisitRows]
      /\ build \in [Builds -> BuildRows] /\ visit[v].commit \in Commits
  BY PreviewTypes DEF PreviewIInv, VisitRows
<1>1. PICK key \in {"base", "reopened", "manual"} :
         /\ v = "manual" => key = "manual"
         /\ build' = [a \in Builds |->
               IF a = b THEN [state |-> "queued", commit |-> visit[v].commit, key |-> key]
               ELSE IF build[a].state = "queued" THEN [build[a] EXCEPT !.state = "skipped"]
               ELSE build[a]]
  BY DEF Inserts
<1>2. /\ build[b].state = "none" /\ UNCHANGED pending
      /\ preview' = [preview EXCEPT !.status = "building", !.commit = visit[v].commit, !.latest = b]
      /\ visit' = [visit EXCEPT ![v].at = "signalling", ![v].build = b]
  BY DEF Inserts
<1>3. /\ build' \in [Builds -> BuildRows]
      /\ build'[b].state = "queued" /\ build'[b].commit = visit[v].commit /\ build'[b].key = key
      /\ \A a \in Builds \ {b} :
            /\ build'[a].commit = build[a].commit
            /\ build'[a].state = IF build[a].state = "queued" THEN "skipped" ELSE build[a].state
  <2>1. [state |-> "queued", commit |-> visit[v].commit, key |-> key] \in BuildRows
    BY <1>0 DEF BuildRows
  <2>2. \A a \in Builds : [build[a] EXCEPT !.state = "skipped"] \in BuildRows
    BY <1>0 DEF BuildRows, Terminal
  <2>3. build' \in [Builds -> BuildRows]
    BY <1>0, <1>1, <2>1, <2>2
  <2> QED
    BY <1>0, <1>1, <2>3 DEF BuildRows
<1>4. Inserted' = Inserted \cup {b} /\ RunningBuilds \subseteq RunningBuilds' /\ b \in Inserted'
  BY <1>2, <1>3 DEF Inserted, RunningBuilds
<1>5. /\ preview' \in PreviewRows /\ preview'.status = "building"
      /\ preview'.commit = visit[v].commit /\ preview'.latest = b
      /\ preview'.attempt = preview.attempt
  BY <1>0, <1>2 DEF PreviewRows, Statuses
<1>6. /\ visit' \in [Visitors -> VisitRows]
      /\ visit'[v].at = "signalling" /\ visit'[v].build = b /\ visit'[v].commit = visit[v].commit
      /\ \A w \in Visitors \ {v} : visit'[w] = visit[w]
  BY <1>0, <1>2 DEF VisitRows
<1>7. PreviewTypeOK'
  BY <1>0, <1>2, <1>3, <1>5, <1>6 DEF PreviewTypeOK, PreviewRows, VisitRows, BuildRows
<1>8. WorkIsKnown'
  BY <1>0, <1>4, <1>5, <1>6 DEF WorkIsKnown
<1>9. CleanupsAreAlone' /\ DeletedIsGone'
  BY <1>4, <1>5, HostIsLeft DEF ApiOnly, StatusMoves
<1>10. ClaimsAreOwed'
  BY <1>5 DEF ClaimsAreOwed
<1>11. OneVisit' /\ \A w \in Visitors \ {v} : visit'[w].at = "off"
  BY <1>6 DEF PreviewIInv, OneVisit
<1>12. ASSUME ~Rewinds PROVE InOrder'
  <2>1. /\ InOrder /\ visit[v].commit \in Nat /\ preview.commit \in Nat
        /\ \A d \in Builds : build[d].commit \in Nat
    BY <1>12, Numbers DEF PreviewIInv, PreviewTypeOK
  <2>2. CommitsAreAdded'
    <3>1. preview.commit <= visit[v].commit /\ visit[v].commit <= pull.head
      BY <2>1 DEF InOrder, CommitsAreAdded
    <3>2. \A d \in Inserted' : build'[d].commit <= visit[v].commit
      BY <1>3, <1>4, <2>1, <3>1 DEF InOrder, CommitsAreAdded, Inserted
    <3> QED
      BY <1>5, <1>6, <1>11, <2>1, <3>1, <3>2 DEF CommitsAreAdded
  <2>3. LatestIsShown'
    BY <1>3, <1>4, <1>5, <1>6, <1>11 DEF LatestIsShown
  <2>4. SignalIsOwed'
    BY <1>1, <1>3, <1>6 DEF SignalIsOwed, Visitors
  <2> QED
    BY <2>2, <2>3, <2>4 DEF InOrder
<1> QED
  BY <1>7, <1>8, <1>9, <1>10, <1>11, <1>12 DEF PreviewIInv

LEMMA VisitAdmitsKeeps ==
  ASSUME PreviewIInv, NEW v \in Visitors, VisitAdmits(v) PROVE PreviewIInv'
<1>0. PreviewTypeOK /\ WorkIsKnown /\ misfortunes \in 0..MaxMisfortunes /\ visit[v].at # "off"
  BY DEF PreviewIInv, PreviewTypeOK, VisitAdmits
<1>1. /\ UNCHANGED <<pull, live, containers, claims, line, seen, turn, cleaners, misfortunes>>
      /\ overlooked' = {b \in overlooked : visit'[v].build # b}
  BY DEF VisitAdmits, hostVarsOfPreview, coordinatorVars
<1>2. ASSUME Ends(v, "retry"), UNCHANGED <<preview, build>> PROVE PreviewIInv'
  <2>1. v # "event" => visit'["event"] = visit["event"]
    BY <1>0, <1>2, EndsTells DEF Visitors
  <2>2. UNCHANGED overlooked
    <3>1. visit'[v].build = NoBuild /\ overlooked \subseteq Builds
      BY <1>0, <1>2, PreviewTypes DEF Ends, Away
    <3> QED
      BY <1>1, <3>1, Numbers
  <2> QED
    BY <1>0, <1>1, <1>2, <2>1, <2>2, EndsTells, VisitsEnd DEF WorkIsKnown
<1>3. ASSUME v = "event", Earlier(v) # {}, Replays(v, Found(v)) PROVE PreviewIInv'
  BY <1>0, <1>1, <1>3, ReplaysKeeps
<1>4. ASSUME Earlier(v) = {}, ReleaseIsCurrent(v), Ends(v, "done"), UNCHANGED build,
             preview' = [preview EXCEPT !.status = "healthy", !.commit = visit[v].commit]
      PROVE  PreviewIInv'
  BY <1>0, <1>1, <1>4, ShowsCurrentKeeps
<1>5. ASSUME NEW b \in Builds, Inserts(v, b), ~Defers PROVE PreviewIInv'
  BY <1>0, <1>1, <1>5, InsertsKeeps
<1> QED
  BY <1>2, <1>3, <1>4, <1>5 DEF VisitAdmits

-----------------------------------------------------------------------------
LEMMA PreviewInitially == ASSUME PreviewInit PROVE PreviewIInv
<1>0. Away \in VisitRows /\ Away.at = "off" /\ 1 \in Commits /\ 1 \in Nat
  BY Numbers DEF Away, VisitRows
<1>1. PreviewTypeOK
  <2>1. pull \in [open : BOOLEAN, head : Commits] /\ preview \in PreviewRows
    BY <1>0 DEF PreviewInit, PreviewRows, Statuses
  <2>2. visit \in [Visitors -> VisitRows] /\ build \in [Builds -> BuildRows]
    BY <1>0 DEF PreviewInit, BuildRows
  <2>3. misfortunes \in 0..MaxMisfortunes
    BY PreviewAssumption DEF PreviewInit
  <2> QED
    BY <2>1, <2>2, <2>3, PreviewTypes DEF PreviewInit
<1>2. Inserted = {} /\ \A b \in Builds : build[b].state # "queued"
  BY DEF PreviewInit, Inserted
<1>3. WorkIsKnown
  BY <1>0, <1>2 DEF PreviewInit, WorkIsKnown, Free, Turns
<1>4. CleanupsAreAlone /\ DeletedIsGone /\ ClaimsAreOwed
  BY <1>2 DEF PreviewInit, CleanupsAreAlone, DeletedIsGone, ClaimsAreOwed
<1>5. OneVisit
  BY <1>0 DEF PreviewInit, OneVisit
<1>6. InOrder
  BY <1>0, <1>2 DEF PreviewInit, InOrder, CommitsAreAdded, LatestIsShown, SignalIsOwed
<1> QED
  BY <1>1, <1>3, <1>4, <1>5, <1>6 DEF PreviewIInv

LEMMA PreviewStep == ASSUME PreviewIInv, [PreviewNext]_previewVars PROVE PreviewIInv'
<1>1. CASE \/ PullRequestChanges \/ EventArrives \/ VisitCleans \/ VisitIgnores
           \/ ApiStops \/ RequestCleanup
  BY <1>1, PullRequestChangesKeeps, EventArrivesKeeps, VisitCleansKeeps, VisitIgnoresKeeps,
     ApiStopsKeeps, RequestCleanupKeeps
<1>2. ASSUME NEW v \in Visitors, \/ VisitStarts(v) \/ VisitAdmits(v) \/ VisitSignals(v)
                                 \/ SignalThrows(v) \/ VisitFails(v)
      PROVE  PreviewIInv'
  BY <1>2, VisitStartsKeeps, VisitAdmitsKeeps, VisitSignalsKeeps, SignalThrowsKeeps,
     VisitFailsKeeps
<1>3. ASSUME NEW c \in claims, ClaimSignals(c) \/ ClaimMarks(c) PROVE PreviewIInv'
  BY <1>3, ClaimSignalsKeeps, ClaimMarksKeeps
<1>4. CASE BuildReleases \/ CleanRetries
  BY <1>4, BuildReleasesKeeps, CleanRetriesKeeps
<1>5. ASSUME NEW state \in {"succeeded", "failed"}, BuildEnds(state) PROVE PreviewIInv'
  BY <1>5, BuildEndsKeeps
<1>6. ASSUME NEW b \in Builds, BuildStarts(b) PROVE PreviewIInv'
  BY <1>6, BuildStartsKeeps
<1>7. ASSUME NEW item \in line, CleanStarts(item) PROVE PreviewIInv'
  BY <1>7, CleanStartsKeeps
<1>8. ASSUME NEW c \in cleaners, \/ Cleans(c) \/ RecordsSuccess(c) \/ SuccessIsLost(c)
                                 \/ RecordsFailure(c) \/ CleanOverruns(c)
      PROVE  PreviewIInv'
  BY <1>8, CleansKeeps, RecordsSuccessKeeps, SuccessIsLostKeeps, RecordsFailureKeeps,
     CleanOverrunsKeeps
<1>9. CASE UNCHANGED previewVars
  BY <1>9 DEF previewVars, PreviewIInv, PreviewTypeOK, WorkIsKnown, CleanupsAreAlone,
     DeletedIsGone, OneVisit, ClaimsAreOwed, InOrder, CommitsAreAdded, LatestIsShown,
     SignalIsOwed, Inserted, RunningBuilds
<1> QED
  BY <1>1, <1>2, <1>3, <1>4, <1>5, <1>6, <1>7, <1>8, <1>9 DEF PreviewNext

\* The inductive invariant of the previews holds in every reachable state.
THEOREM PreviewInvariance == PreviewSpec => []PreviewIInv
<1>1. PreviewInit => PreviewIInv
  BY PreviewInitially
<1>2. PreviewIInv /\ [PreviewNext]_previewVars => PreviewIInv'
  BY PreviewStep
<1> QED
  BY <1>1, <1>2, PTL DEF PreviewSpec

\* A deleted preview has nothing left but what a deployment that runs will remove,
\* and as long as commits are only added the admission of the commit it shows is left
\* behind by no lost signal, unless the event that was to repeat the signal was consumed
\* with nothing done.
THEOREM NothingIsForgotten ==
  PreviewSpec => [](PreviewTypeOK /\ DeletedIsGone /\ (~Rewinds => PreviewInv))
<1>1. PreviewIInv => PreviewTypeOK /\ DeletedIsGone /\ (~Rewinds => PreviewInv)
  BY DEF PreviewIInv, PreviewInv, InOrder, SignalIsOwed, AdmittedIsSignalled
<1> QED
  BY <1>1, PreviewInvariance, PTL

\* What a step does to the commit that is shown and to the release.
Forward ==
    /\ preview'.commit >= preview.commit
    /\ live # NoBuild /\ live' # NoBuild => build'[live'].commit >= build[live].commit

\* All but a release leave the release as it is, or take it away.
LEMMA ReleaseStays ==
  ASSUME PreviewIInv, live' \in {live, NoBuild}, preview'.commit >= preview.commit,
         \A b \in Inserted : build'[b].commit = build[b].commit
  PROVE  Forward
<1>1. \A b \in Inserted : build[b].commit \in Nat
  BY Numbers DEF PreviewIInv, PreviewTypeOK, Inserted
<1> QED
  BY <1>1 DEF PreviewIInv, WorkIsKnown, Forward

\* The visit that admits has read a commit that is not behind the one shown.
LEMMA AdmissionsGoForward ==
  ASSUME PreviewIInv, ~Rewinds, NEW v \in Visitors, VisitAdmits(v) PROVE Forward
<1>0. /\ preview \in PreviewRows /\ build \in [Builds -> BuildRows] /\ preview.commit \in Nat
      /\ visit[v].commit >= preview.commit
      /\ live' = live
  BY PreviewTypes, Numbers DEF PreviewIInv, InOrder, CommitsAreAdded, VisitAdmits,
     hostVarsOfPreview, PreviewTypeOK
<1>1. preview' = preview \/ preview'.commit = visit[v].commit
  BY <1>0 DEF VisitAdmits, Replays, Inserts, PreviewRows
<1>2. \A b \in Inserted : build'[b].commit = build[b].commit
  <2>1. CASE UNCHANGED build
    BY <2>1
  <2>2. ASSUME NEW d \in Builds, Inserts(v, d)
        PROVE  \A b \in Inserted : build'[b].commit = build[b].commit
    BY <1>0, <2>2 DEF Inserts, BuildRows, Inserted
  <2> QED
    BY <2>1, <2>2 DEF VisitAdmits, Replays
<1> QED
  BY <1>0, <1>1, <1>2, ReleaseStays

\* As long as commits are only added, neither what a preview shows nor its release
\* goes back, whatever order events, visits and deployments come in.
THEOREM ShownGoesForward == ASSUME ~Rewinds PROVE PreviewSpec => NeverGoesBack
<1>1. ASSUME PreviewIInv, PreviewNext PROVE Forward
  <2> USE <1>1
  <2>0. /\ PreviewTypeOK /\ WorkIsKnown /\ preview \in PreviewRows /\ build \in [Builds -> BuildRows]
        /\ preview.commit \in Nat /\ \A b \in Builds : build[b].commit \in Nat
    BY PreviewTypes, Numbers DEF PreviewIInv, PreviewTypeOK
  <2>1. ASSUME live' \in {live, NoBuild}, preview'.commit = preview.commit, UNCHANGED build
        PROVE  Forward
    BY <2>0, <2>1, ReleaseStays
  <2>2. CASE PullRequestChanges \/ EventArrives \/ VisitIgnores \/ ApiStops \/ CleanRetries
    BY <2>1, <2>2 DEF PullRequestChanges, EventArrives, VisitIgnores, ApiStops, CleanRetries,
       CleanTries, hostVarsOfPreview
  <2>3. CASE VisitCleans \/ RequestCleanup
    <3>1. UNCHANGED <<build, live>> /\ preview'.commit = preview.commit
      BY <2>0, <2>3 DEF VisitCleans, RequestCleanup, Claim, PreviewRows, hostVarsOfPreview
    <3> QED
      BY <2>1, <3>1
  <2>4. ASSUME NEW v \in Visitors,
               VisitStarts(v) \/ VisitSignals(v) \/ SignalThrows(v) \/ VisitFails(v)
        PROVE  Forward
    BY <2>1, <2>4 DEF VisitStarts, VisitSignals, SignalThrows, VisitFails, hostVarsOfPreview
  <2>5. ASSUME NEW c \in claims, ClaimSignals(c) PROVE Forward
    <3>1. live' = live /\ preview'.commit = preview.commit
      BY <2>0, <2>5, PropagatedTells DEF ClaimSignals, hostVarsOfPreview
    <3>2. \A b \in Builds : build'[b].commit = build[b].commit
      BY <2>0, <2>5 DEF ClaimSignals, BuildRows
    <3> QED
      BY <2>0, <3>1, <3>2, ReleaseStays DEF Inserted
  <2>6. ASSUME NEW c \in claims, ClaimMarks(c) PROVE Forward
    <3>1. live' = live /\ preview'.commit = preview.commit /\ UNCHANGED build
      BY <2>0, <2>6 DEF ClaimMarks, hostVarsOfPreview, PreviewRows
    <3> QED
      BY <2>1, <3>1
  <2>7. CASE BuildReleases
    <3>1. turn.item[2] \in Inserted /\ live' = turn.item[2] /\ UNCHANGED <<preview, build>>
          /\ build[turn.item[2]].commit = preview.commit
      BY <2>0, <2>7 DEF BuildReleases, AcceptsRelease, Built, WorkIsKnown
    <3>2. live # NoBuild => build[live].commit <= preview.commit
      BY DEF PreviewIInv, WorkIsKnown, InOrder, CommitsAreAdded
    <3> QED
      BY <2>0, <3>1, <3>2 DEF Forward, WorkIsKnown, Inserted
  <2>8. ASSUME NEW state \in {"succeeded", "failed"}, BuildEnds(state) PROVE Forward
    <3>1. live' = live /\ preview'.commit = preview.commit
      BY <2>0, <2>8, PropagatedTells DEF BuildEnds
    <3>2. \A b \in Builds : build'[b].commit = build[b].commit
      BY <2>0, <2>8 DEF BuildEnds, BuildRows
    <3> QED
      BY <2>0, <3>1, <3>2, ReleaseStays DEF Inserted
  <2>9. ASSUME NEW d \in Builds, BuildStarts(d) PROVE Forward
    <3>1. UNCHANGED <<live, preview>>
      BY <2>9 DEF BuildStarts
    <3>2. \A b \in Builds : build'[b].commit = build[b].commit
      BY <2>0, <2>9 DEF BuildStarts, BuildRows
    <3> QED
      BY <2>0, <3>1, <3>2, ReleaseStays DEF Inserted
  <2>10. ASSUME NEW item \in line, CleanStarts(item) PROVE Forward
    BY <2>1, <2>10 DEF CleanStarts, CleanTries, hostVarsOfPreview
  <2>11. ASSUME NEW c \in cleaners, Cleans(c) \/ RecordsFailure(c) \/ CleanOverruns(c)
         PROVE  Forward
    <3>1. live' = live /\ preview'.commit = preview.commit /\ UNCHANGED build
      BY <2>0, <2>11
         DEF Cleans, RecordsFailure, CleanOverruns, hostVarsOfPreview, PreviewRows
    <3> QED
      BY <2>1, <3>1
  <2>12. ASSUME NEW c \in cleaners, RecordsSuccess(c) \/ SuccessIsLost(c) PROVE Forward
    <3>1. live' \in {live, NoBuild} /\ preview'.commit = preview.commit /\ UNCHANGED build
      BY <2>0, <2>12 DEF RecordsSuccess, SuccessIsLost, Deleted, PreviewRows
    <3> QED
      BY <2>1, <3>1
  <2> QED
    BY <2>2, <2>3, <2>4, <2>5, <2>6, <2>7, <2>8, <2>9, <2>10, <2>11, <2>12,
       AdmissionsGoForward DEF PreviewNext
<1>2. PreviewIInv /\ [PreviewNext]_previewVars => [Forward]_previewVars
  BY <1>1
<1> QED
  BY <1>2, PreviewInvariance, PTL DEF PreviewSpec, NeverGoesBack, Forward

-----------------------------------------------------------------------------
(***************************************************************************)
(* Both.                                                                   *)
(***************************************************************************)

\* A behaviour of MCWorkloads is one of each protocol.
THEOREM WorkloadsAreBoth == WorkloadsSpec => PreviewSpec /\ RestoreSpec
<1>1. WorkloadsInit => PreviewInit /\ RestoreInit
  BY DEF WorkloadsInit
<1>2. [WorkloadsNext]_workloadVars => [PreviewNext]_previewVars /\ [RestoreNext]_restoreVars
  <2>1. WorkloadsNext => [PreviewNext]_previewVars /\ [RestoreNext]_restoreVars
    BY DEF WorkloadsNext, OfPreview, OfRestores
  <2>2. UNCHANGED workloadVars => UNCHANGED previewVars /\ UNCHANGED restoreVars
    BY DEF workloadVars
  <2> QED
    BY <2>1, <2>2
<1> QED
  BY <1>1, <1>2, PTL DEF WorkloadsSpec, PreviewSpec, RestoreSpec

\* Neither protocol takes back what it has shown: not the commit and the release of a
\* preview, where commits are only added, nor the result of a restore.
THEOREM WorkloadsGoForward == ASSUME ~Rewinds PROVE WorkloadsSpec => NothingGoesBack
  BY WorkloadsAreBoth, ShownGoesForward, ResultsStay, PTL DEF NothingGoesBack

\* What the run of MCWorkloads checks in every state, where commits are only added.
THEOREM WorkloadsHold ==
  ASSUME ~Rewinds PROVE WorkloadsSpec => [](PreviewInv /\ RestoreInv /\ ServiceIsAsTold)
<1>1. PreviewTypeOK /\ DeletedIsGone /\ (~Rewinds => PreviewInv) => PreviewInv
  OBVIOUS
<1> QED
  BY <1>1, WorkloadsAreBoth, NothingIsForgotten, VolumesAreKept, ServiceIsTold, PTL
================================================================================
