----------------------------- MODULE SystemProofs -----------------------------
(***************************************************************************)
(* What VulnerabilityScan and NotificationDelivery guarantee for any       *)
(* number of rows, cycles, activities, deliveries and attempts, and        *)
(* whatever fails or is lost on the way; and that each of them runs inside *)
(* the composition of MCSystem as it is specified.                         *)
(***************************************************************************)
EXTENDS MCSystem, TLAPS

-----------------------------------------------------------------------------
(***************************************************************************)
(* Scans.                                                                  *)
(***************************************************************************)

\* A row that was asked for is in a cycle.
RowsHaveCycles ==
    \A s \in Scans : IF row[s].state = "absent" THEN row[s].cycle = 0 ELSE row[s].cycle \in Cycles

\* An activity scans for a cycle that was marked: the row is not pending in it
\* any more, and never will be.
ScannedWasMarked ==
    \A e \in Executors :
        Scanning(e) =>
            \/ row[e[1]].cycle > e[2]
            \/ row[e[1]].cycle = e[2] /\ row[e[1]].state \in {"running"} \cup Decided

(***************************************************************************)
(* The inductive invariant: a cycle is marked once, since the row leaves   *)
(* "pending" with the mark and only returns to it in a later cycle.        *)
(***************************************************************************)
ScanIInv == ScanInv /\ RowsHaveCycles /\ ScannedWasMarked

LEMMA ScanBoundsKnown ==
    /\ MaxRequestedCycle \in Nat /\ MaxFaults \in Nat /\ MaxCycle \in Nat
    /\ MaxRequestedCycle >= 1 /\ MaxRequestedCycle <= MaxCycle
BY ScanBounds DEF MaxCycle

LEMMA ExecutorParts ==
    /\ \A e \in Executors : e[1] \in Scans /\ e[2] \in Cycles /\ e = <<e[1], e[2], e[3]>>
    /\ \A s \in Scans, c \in Cycles, run \in Runs : <<s, c, run>> \in Executors
BY DEF Executors

LEMMA InitScanIInv == ScanInit => ScanIInv
BY ScanBoundsKnown, ExecutorParts
   DEF ScanInit, ScanIInv, ScanInv, ScanTypeOK, FindingsBelong, OneScanPerCycle, RowsHaveCycles,
       ScannedWasMarked, Scanning, RowStates

LEMMA FaultIsCounted == ScanTypeOK /\ Fault => faults' \in 0..MaxFaults
BY ScanBoundsKnown DEF ScanTypeOK, Fault, CanFail

\* A step that leaves the rows and the activities alone.
LEMMA QuietKeepsScanIInv ==
    ASSUME ScanIInv, UNCHANGED <<row, executor>>,
           expired' \subseteq {s \in Scans : row[s].state = "running"},
           signals' \subseteq Scans \X Cycles, faults' \in 0..MaxFaults
    PROVE  ScanIInv'
BY DEF ScanIInv, ScanInv, ScanTypeOK, FindingsBelong, OneScanPerCycle, RowsHaveCycles,
       ScannedWasMarked, Scanning

\* A step of an activity that neither writes its row nor begins to scan.
LEMMA ActivityKeepsScanIInv ==
    ASSUME ScanIInv, NEW e \in Executors, NEW place \in Busy \cup {"off"}, To(e, place),
           place \in {"scanning", "posting"} => Scanning(e),
           UNCHANGED <<row, expired, signals>>, faults' \in 0..MaxFaults
    PROVE  ScanIInv'
<1>1. ScanTypeOK'
  BY DEF ScanIInv, ScanInv, ScanTypeOK, To
<1>2. \A f \in Executors : Scanning(f)' => Scanning(f)
  BY DEF ScanIInv, ScanInv, ScanTypeOK, To, Scanning
<1>3. OneScanPerCycle' /\ ScannedWasMarked'
  BY <1>2, ExecutorParts DEF ScanIInv, ScanInv, OneScanPerCycle, ScannedWasMarked
<1>4. FindingsBelong' /\ RowsHaveCycles'
  BY DEF ScanIInv, ScanInv, FindingsBelong, RowsHaveCycles
<1>5. QED
  BY <1>1, <1>3, <1>4 DEF ScanIInv, ScanInv

\* A row that is decided, abandoned or asked for again, while no activity
\* begins to scan.
LEMMA RowKeepsScanIInv ==
    ASSUME ScanIInv,
           row' \in [Scans -> [state : RowStates, cycle : 0..MaxCycle, findings : 0..MaxCycle]],
           \A s \in Scans :
              \/ row'[s] = row[s]
              \/ /\ row'[s].cycle = row[s].cycle + 1 /\ row'[s].findings = 0
                 /\ row'[s].state = "pending"
              \/ /\ row'[s].cycle = row[s].cycle /\ row[s].state # "absent"
                 /\ row'[s].state \in Decided
                 /\ row'[s].findings = (IF row'[s].state = "findings" THEN row'[s].cycle ELSE 0),
           executor' \in [Executors -> Busy \cup {"off"}],
           \A e \in Executors : Scanning(e)' => Scanning(e),
           expired' \subseteq {s \in Scans : row'[s].state = "running"},
           signals' \subseteq Scans \X Cycles, faults' \in 0..MaxFaults
    PROVE  ScanIInv'
<1>1. ScanTypeOK'
  BY DEF ScanTypeOK
<1>2. \A s \in Scans : row[s].cycle \in Nat /\ row'[s].cycle \in Nat /\ row'[s].cycle >= row[s].cycle
  BY ScanBoundsKnown DEF ScanIInv, ScanInv, ScanTypeOK
<1>3. FindingsBelong'
  BY DEF ScanIInv, ScanInv, FindingsBelong
<1>4. RowsHaveCycles'
  <2> SUFFICES ASSUME NEW s \in Scans
               PROVE  IF row'[s].state = "absent" THEN row'[s].cycle = 0
                      ELSE row'[s].cycle \in 1..MaxCycle
    BY DEF RowsHaveCycles, Cycles
  <2>1. row'[s].cycle \in 0..MaxCycle /\ row[s].cycle \in 0..MaxCycle
    BY DEF ScanIInv, ScanInv, ScanTypeOK
  <2>2. IF row[s].state = "absent" THEN row[s].cycle = 0 ELSE row[s].cycle \in 1..MaxCycle
    BY DEF ScanIInv, RowsHaveCycles, Cycles
  <2>3. QED
    BY <2>1, <2>2, ScanBoundsKnown DEF Decided
<1>5. ScannedWasMarked'
  <2> SUFFICES ASSUME NEW e \in Executors, Scanning(e)
               PROVE  \/ row'[e[1]].cycle > e[2]
                      \/ row'[e[1]].cycle = e[2] /\ row'[e[1]].state \in {"running"} \cup Decided
    BY DEF ScannedWasMarked
  <2>1. e[1] \in Scans /\ e[2] \in Nat
    BY ExecutorParts, ScanBoundsKnown DEF Cycles
  <2>2. \/ row[e[1]].cycle > e[2]
        \/ row[e[1]].cycle = e[2] /\ row[e[1]].state \in {"running"} \cup Decided
    BY DEF ScanIInv, ScannedWasMarked
  <2>3. QED
    BY <1>2, <2>1, <2>2
<1>6. OneScanPerCycle'
  BY ExecutorParts DEF ScanIInv, ScanInv, OneScanPerCycle
<1>7. QED
  BY <1>1, <1>3, <1>4, <1>5, <1>6 DEF ScanIInv, ScanInv

LEMMA ApiKeepsScanIInv ==
    ASSUME ScanIInv, NEW s \in Scans, RequestScan(s) \/ Rescan(s)
    PROVE  ScanIInv'
<1>1. PICK c \in Cycles :
         /\ c = row[s].cycle + 1
         /\ row' = [row EXCEPT ![s] = [state |-> "pending", cycle |-> c, findings |-> 0]]
         /\ signals' = signals \cup {<<s, c>>}
         /\ row[s].state # "running"
         /\ UNCHANGED <<expired, executor, faults>>
  <2>1. CASE RequestScan(s)
    <3>1. row[s].state = "absent" /\ row[s].cycle = 0
      BY <2>1 DEF RequestScan, ScanIInv, RowsHaveCycles
    <3>2. 1 \in Cycles
      BY ScanBoundsKnown DEF Cycles
    <3>3. row[s].cycle + 1 = 1 /\ row[s].state # "running"
      BY <3>1
    <3>4. /\ row' = [row EXCEPT ![s] = [state |-> "pending", cycle |-> 1, findings |-> 0]]
          /\ signals' = signals \cup {<<s, 1>>} /\ UNCHANGED <<expired, executor, faults>>
      BY <2>1 DEF RequestScan
    <3>5. QED
      BY <3>2, <3>3, <3>4
  <2>2. CASE Rescan(s)
    <3>1. row[s].cycle \in 0..MaxCycle /\ row[s].cycle < MaxRequestedCycle
      BY <2>2 DEF Rescan, ScanIInv, ScanInv, ScanTypeOK
    <3>2. row[s].cycle + 1 \in Cycles
      BY <3>1, ScanBoundsKnown DEF Cycles
    <3>3. row[s].state # "running"
      BY <2>2 DEF Rescan, Decided
    <3>4. QED
      BY <2>2, <3>2, <3>3 DEF Rescan
  <2>3. QED
    BY <2>1, <2>2
<1>2. row' \in [Scans -> [state : RowStates, cycle : 0..MaxCycle, findings : 0..MaxCycle]]
  BY <1>1, ScanBoundsKnown DEF ScanIInv, ScanInv, ScanTypeOK, RowStates, Cycles
<1>3. /\ expired' \subseteq {t \in Scans : row'[t].state = "running"}
      /\ signals' \subseteq Scans \X Cycles /\ faults' \in 0..MaxFaults
      /\ executor' \in [Executors -> Busy \cup {"off"}]
      /\ \A e \in Executors : Scanning(e)' => Scanning(e)
  BY <1>1 DEF ScanIInv, ScanInv, ScanTypeOK, Scanning
<1>4. \A t \in Scans : \/ row'[t] = row[t]
                       \/ /\ row'[t].cycle = row[t].cycle + 1 /\ row'[t].findings = 0
                          /\ row'[t].state = "pending"
  BY <1>1 DEF ScanIInv, ScanInv, ScanTypeOK
<1>5. QED
  BY <1>2, <1>3, <1>4, RowKeepsScanIInv

LEMMA SweepKeepsScanIInv ==
    ASSUME ScanIInv, Sweep
    PROVE  ScanIInv'
<1> DEFINE swept == [s \in Scans |-> Recovered(s)]
<1>1. \A s \in Scans : swept[s] = IF s \in expired
                                  THEN [row[s] EXCEPT !.state = "pending", !.cycle = row[s].cycle + 1]
                                  ELSE row[s]
  BY DEF Recovered
<1>2. /\ row' = swept /\ expired' = {} /\ UNCHANGED <<executor, faults>>
      /\ \A s \in expired : row[s].cycle < MaxCycle
      /\ signals' = signals \cup {<<s, swept[s].cycle>> : s \in {t \in Scans : swept[t].state = "pending"}}
  BY DEF Sweep
<1>3. \A s \in Scans : s \in expired => row[s].state = "running" /\ row[s].findings = 0
  BY DEF ScanIInv, ScanInv, ScanTypeOK, FindingsBelong
<1>4. \A s \in Scans : /\ row[s] \in [state : RowStates, cycle : 0..MaxCycle, findings : 0..MaxCycle]
                       /\ s \in expired => row[s].cycle + 1 \in 1..MaxCycle
  BY <1>2, ScanBoundsKnown DEF ScanIInv, ScanInv, ScanTypeOK
<1>5. \A s \in Scans : /\ swept[s] \in [state : RowStates, cycle : 0..MaxCycle, findings : 0..MaxCycle]
                       /\ swept[s].state = "pending" => swept[s].cycle \in Cycles
  <2> SUFFICES ASSUME NEW s \in Scans
               PROVE  /\ swept[s] \in [state : RowStates, cycle : 0..MaxCycle, findings : 0..MaxCycle]
                      /\ swept[s].state = "pending" => swept[s].cycle \in Cycles
    OBVIOUS
  <2>1. CASE s \in expired
    <3>1. swept[s] = [row[s] EXCEPT !.state = "pending", !.cycle = row[s].cycle + 1]
      BY <1>1, <2>1
    <3>2. row[s].cycle + 1 \in 1..MaxCycle /\ row[s].cycle + 1 \in 0..MaxCycle
      BY <1>4, <2>1, ScanBoundsKnown
    <3>3. "pending" \in RowStates
      BY DEF RowStates
    <3> HIDE DEF swept
    <3>4. QED
      BY <1>4, <3>1, <3>2, <3>3 DEF Cycles
  <2>2. CASE s \notin expired
    BY <1>1, <1>4, <2>2 DEF ScanIInv, RowsHaveCycles
  <2>3. QED
    BY <2>1, <2>2
<1>6. \A s \in Scans : \/ row'[s] = row[s]
                       \/ /\ row'[s].cycle = row[s].cycle + 1 /\ row'[s].findings = 0
                          /\ row'[s].state = "pending"
  BY <1>1, <1>2, <1>3, <1>4
<1>7. DOMAIN row' = Scans
  BY <1>2
<1> HIDE DEF swept
<1>8. row' \in [Scans -> [state : RowStates, cycle : 0..MaxCycle, findings : 0..MaxCycle]]
  BY <1>2, <1>5 DEF swept
<1>9. signals' \subseteq Scans \X Cycles
  BY <1>2, <1>5 DEF ScanIInv, ScanInv, ScanTypeOK
<1>10. /\ executor' \in [Executors -> Busy \cup {"off"}] /\ faults' \in 0..MaxFaults
       /\ \A e \in Executors : Scanning(e)' => Scanning(e)
       /\ expired' \subseteq {t \in Scans : row'[t].state = "running"}
  BY <1>2 DEF ScanIInv, ScanInv, ScanTypeOK, Scanning
<1>11. QED
  BY <1>6, <1>8, <1>9, <1>10, RowKeepsScanIInv

\* The only step that begins to scan: nobody scanned for this cycle before.
LEMMA MarkKeepsScanIInv ==
    ASSUME ScanIInv, NEW e \in Executors, MarkRunning(e)
    PROVE  ScanIInv'
<1>0. e[1] \in Scans
  BY ExecutorParts
<1>1. CASE ~AcceptsRunning(e)
  <2>1. To(e, "off") /\ UNCHANGED <<row, expired, signals, faults>>
    BY <1>1 DEF MarkRunning
  <2>2. faults' \in 0..MaxFaults
    BY <2>1 DEF ScanIInv, ScanInv, ScanTypeOK
  <2>3. QED
    BY <2>1, <2>2, ActivityKeepsScanIInv
<1>2. CASE AcceptsRunning(e)
  <2>1. /\ row[e[1]].state = "pending" /\ row[e[1]].cycle = e[2]
        /\ row' = [row EXCEPT ![e[1]].state = "running"]
        /\ UNCHANGED <<expired, signals>>
    BY <1>2 DEF MarkRunning, AcceptsRunning
  <2>2. PICK place \in {"scanning", "off"} : To(e, place)
    BY <1>2 DEF MarkRunning
  <2>3. faults' \in 0..MaxFaults
    BY <1>2, FaultIsCounted DEF MarkRunning, ScanIInv, ScanInv, ScanTypeOK
  <2>4. ScanTypeOK'
    BY <1>0, <2>1, <2>2, <2>3 DEF ScanIInv, ScanInv, ScanTypeOK, To, RowStates, Busy
  <2>5. FindingsBelong' /\ RowsHaveCycles'
    BY <1>0, <2>1 DEF ScanIInv, ScanInv, ScanTypeOK, FindingsBelong, RowsHaveCycles
  <2>6. \A f \in Executors : Scanning(f) => f[1] # e[1] \/ f[2] # e[2]
    BY <1>0, <2>1, ExecutorParts, ScanBoundsKnown
       DEF ScanIInv, ScannedWasMarked, Decided, Cycles
  <2>7. \A f \in Executors : f # e => (Scanning(f)' <=> Scanning(f))
    BY <2>2 DEF To, Scanning, ScanIInv, ScanInv, ScanTypeOK
  <2>8. OneScanPerCycle'
    BY <2>6, <2>7, ExecutorParts DEF ScanIInv, ScanInv, OneScanPerCycle
  <2>9. \A s \in Scans : row'[s].cycle = row[s].cycle
                         /\ row'[s].state = IF s = e[1] THEN "running" ELSE row[s].state
    BY <1>0, <2>1 DEF ScanIInv, ScanInv, ScanTypeOK
  <2>10. ScannedWasMarked'
    <3> SUFFICES ASSUME NEW f \in Executors, Scanning(f)'
                 PROVE  \/ row'[f[1]].cycle > f[2]
                        \/ row'[f[1]].cycle = f[2] /\ row'[f[1]].state \in {"running"} \cup Decided
      BY DEF ScannedWasMarked
    <3>1. f[1] \in Scans
      BY ExecutorParts
    <3>2. CASE f = e
      BY <2>1, <2>9, <3>1, <3>2
    <3>3. CASE f # e
      BY <2>7, <2>9, <3>1, <3>3 DEF ScanIInv, ScannedWasMarked
    <3>4. QED
      BY <3>2, <3>3
  <2>11. QED
    BY <2>4, <2>5, <2>8, <2>10 DEF ScanIInv, ScanInv
<1>3. QED
  BY <1>1, <1>2

LEMMA PostKeepsScanIInv ==
    ASSUME ScanIInv, NEW e \in Executors, PostCompleted(e) \/ PostFailed(e)
    PROVE  ScanIInv'
<1>0. e[1] \in Scans /\ e[2] \in Cycles /\ e[2] \in 0..MaxCycle
  BY ExecutorParts, ScanBoundsKnown DEF Cycles
<1>1. PICK place \in {"off", "failing"} : To(e, place)
  BY DEF PostCompleted, PostFailed
<1>2. /\ executor' \in [Executors -> Busy \cup {"off"}]
      /\ \A f \in Executors : Scanning(f)' => Scanning(f)
  BY <1>1 DEF ScanIInv, ScanInv, ScanTypeOK, To, Scanning, Busy
<1>3. UNCHANGED signals /\ faults' \in 0..MaxFaults
  BY FaultIsCounted DEF PostCompleted, PostFailed, ScanIInv, ScanInv, ScanTypeOK
<1>4. CASE UNCHANGED <<row, expired>>
  BY <1>1, <1>3, <1>4, ActivityKeepsScanIInv DEF Busy
<1>5. CASE ~UNCHANGED <<row, expired>>
  <2>1. PICK state \in Decided, findings \in {row[e[1]].findings, 0, e[2]} :
           /\ row' = [row EXCEPT ![e[1]].state = state, ![e[1]].findings = findings]
           /\ findings = IF state = "findings" THEN e[2] ELSE 0
           /\ row[e[1]].state \in {"pending", "running"} /\ row[e[1]].cycle = e[2]
           /\ expired' = expired \ {e[1]}
    <3>1. CASE PostCompleted(e)
      <4>1. AcceptsResult(e)
        BY <1>5, <3>1 DEF PostCompleted
      <4>2. \/ row' = [row EXCEPT ![e[1]].state = "findings", ![e[1]].findings = e[2]]
            \/ row' = [row EXCEPT ![e[1]].state = "clean", ![e[1]].findings = 0]
        BY <1>5, <3>1, <4>1 DEF PostCompleted
      <4>3. expired' = expired \ {e[1]}
        BY <1>5, <3>1, <4>1 DEF PostCompleted
      <4>4. QED
        BY <4>1, <4>2, <4>3 DEF AcceptsResult, Decided
    <3>2. CASE PostFailed(e)
      <4>1. /\ AcceptsFailure(e) /\ row' = [row EXCEPT ![e[1]].state = "failed"]
            /\ expired' = expired \ {e[1]}
        BY <1>5, <3>2 DEF PostFailed
      <4>2. row[e[1]].findings = 0
        BY <1>0, <4>1 DEF AcceptsFailure, ScanIInv, ScanInv, FindingsBelong
      <4>3. row' = [row EXCEPT ![e[1]].state = "failed", ![e[1]].findings = 0]
        BY <1>0, <4>1, <4>2 DEF ScanIInv, ScanInv, ScanTypeOK
      <4>4. QED
        BY <4>1, <4>3 DEF AcceptsFailure, Decided
    <3>3. QED
      BY <3>1, <3>2
  <2>2. row' \in [Scans -> [state : RowStates, cycle : 0..MaxCycle, findings : 0..MaxCycle]]
    BY <1>0, <2>1 DEF ScanIInv, ScanInv, ScanTypeOK, RowStates, Decided
  <2>3. \A s \in Scans :
           \/ row'[s] = row[s]
           \/ /\ row'[s].cycle = row[s].cycle /\ row[s].state # "absent"
              /\ row'[s].state \in Decided
              /\ row'[s].findings = (IF row'[s].state = "findings" THEN row'[s].cycle ELSE 0)
    BY <1>0, <2>1 DEF ScanIInv, ScanInv, ScanTypeOK
  <2>4. expired' \subseteq {s \in Scans : row'[s].state = "running"}
    BY <1>0, <2>1 DEF ScanIInv, ScanInv, ScanTypeOK
  <2>5. signals' \subseteq Scans \X Cycles
    BY <1>3 DEF ScanIInv, ScanInv, ScanTypeOK
  <2>6. QED
    BY <1>2, <1>3, <2>2, <2>3, <2>4, <2>5, RowKeepsScanIInv
<1>6. QED
  BY <1>4, <1>5

LEMMA NextKeepsScanIInv ==
    ASSUME ScanIInv, [ScanNext]_allVars
    PROVE  ScanIInv'
<1> USE DEF ScanIInv, ScanInv, ScanTypeOK
<1>1. ASSUME NEW s \in Scans, RequestScan(s) \/ Rescan(s) \/ LeaseExpires(s)
      PROVE  ScanIInv'
  <2>1. CASE LeaseExpires(s)
    <3>1. faults' \in 0..MaxFaults
      BY <2>1, FaultIsCounted DEF LeaseExpires
    <3>2. QED
      BY <2>1, <3>1, QuietKeepsScanIInv DEF LeaseExpires
  <2>2. QED
    BY <1>1, <2>1, ApiKeepsScanIInv
<1>2. ASSUME NEW s \in Scans, NEW c \in Cycles,
             SignalScan(s, c) \/ LoseSignal(s, c) \/ ScanWorkEnds(s, c)
      PROVE  ScanIInv'
  <2>1. faults' \in 0..MaxFaults
    BY <1>2, FaultIsCounted DEF SignalScan, LoseSignal, ScanWorkEnds
  <2>2. /\ UNCHANGED <<row, executor, expired>> /\ signals' \subseteq signals
    BY <1>2 DEF SignalScan, LoseSignal, ScanWorkEnds
  <2>3. QED
    BY <2>1, <2>2, QuietKeepsScanIInv
<1>3. ASSUME NEW s \in Scans, NEW c \in Cycles, NEW run \in Runs, StartScan(s, c, run)
      PROVE  ScanIInv'
  <2>1. "reading" \in Busy \ {"scanning", "posting"}
    BY DEF Busy
  <2>2. QED
    BY <1>3, <2>1, ExecutorParts, ActivityKeepsScanIInv DEF StartScan
<1>4. ASSUME NEW e \in Executors, ActivityStep(e) \/ RequestFails(e) \/ WorkerStops(e)
      PROVE  ScanIInv'
  <2>1. faults' \in 0..MaxFaults
    BY <1>4, FaultIsCounted DEF ActivityStep, ReadContext, MarkRunning, ScannerEnds, PostCompleted,
       PostFailed, RequestFails, WorkerStops
  <2>2. {"marking", "posting", "failing"} \subseteq Busy
    BY DEF Busy
  <2>3. CASE ReadContext(e)
    BY <2>1, <2>2, <2>3, ActivityKeepsScanIInv DEF ReadContext
  <2>4. CASE ScannerEnds(e)
    BY <2>1, <2>2, <2>4, ActivityKeepsScanIInv DEF ScannerEnds, Scanning
  <2>5. CASE RequestFails(e)
    BY <2>1, <2>2, <2>5, ActivityKeepsScanIInv DEF RequestFails
  <2>6. CASE WorkerStops(e)
    BY <2>1, <2>2, <2>6, ActivityKeepsScanIInv DEF WorkerStops
  <2>7. QED
    BY <1>4, <2>3, <2>4, <2>5, <2>6, MarkKeepsScanIInv, PostKeepsScanIInv DEF ActivityStep
<1>5. CASE Coordinate \/ CoordinatorCloses \/ UNCHANGED allVars
  <2>1. UNCHANGED scanVars
    BY <1>5 DEF Coordinate, CoordinatorCloses, allVars
  <2>2. QED
    BY <2>1, QuietKeepsScanIInv DEF scanVars
<1>6. QED
  BY <1>1, <1>2, <1>3, <1>4, <1>5, SweepKeepsScanIInv DEF ScanNext

LEMMA NextKeepsDecided ==
    ASSUME ScanIInv, [ScanNext]_allVars, NEW s \in Scans, row[s].state \in Decided
    PROVE  \/ row'[s] = row[s]
           \/ row'[s].cycle = row[s].cycle + 1 /\ row'[s].state = "pending"
<1> USE DEF ScanIInv, ScanInv, ScanTypeOK
<1>0. row[s].state \notin {"absent", "pending", "running"}
  BY DEF Decided
<1>1. CASE UNCHANGED row
  BY <1>1
<1>2. ASSUME NEW t \in Scans, RequestScan(t) \/ Rescan(t)
      PROVE  \/ row'[s] = row[s]
             \/ row'[s].cycle = row[s].cycle + 1 /\ row'[s].state = "pending"
  BY <1>0, <1>2 DEF RequestScan, Rescan
<1>3. CASE Sweep
  BY <1>0, <1>3 DEF Sweep, Recovered
<1>4. ASSUME NEW e \in Executors, MarkRunning(e) \/ PostCompleted(e) \/ PostFailed(e)
      PROVE  row'[s] = row[s]
  BY <1>0, <1>4, ExecutorParts DEF MarkRunning, AcceptsRunning, PostCompleted, AcceptsResult,
     PostFailed, AcceptsFailure
<1>5. QED
  BY <1>1, <1>2, <1>3, <1>4 DEF ScanNext, allVars, scanVars, LeaseExpires, SignalScan,
     LoseSignal, ScanWorkEnds, StartScan, ActivityStep, ReadContext, ScannerEnds, RequestFails,
     WorkerStops, Coordinate, CoordinatorCloses

\* The inductive invariant of the scans holds in every reachable state.
THEOREM ScanInvariance == ScanSpec => []ScanIInv
<1>1. ScanInit => ScanIInv
  BY InitScanIInv
<1>2. ScanIInv /\ [ScanNext]_allVars => ScanIInv'
  BY NextKeepsScanIInv
<1>3. QED
  BY <1>1, <1>2, PTL DEF ScanSpec

\* The findings of a row are those of its cycle, and one activity at a time
\* scans for a cycle, whatever was lost, repeated or given up on.
THEOREM ScansAreSound == ScanSpec => []ScanInv
<1>1. ScanIInv => ScanInv
  BY DEF ScanIInv
<1>2. QED
  BY <1>1, ScanInvariance, PTL

\* What was decided stays decided until a user asks for the next cycle.
THEOREM DecisionsOfScansStay == ScanSpec => DecidedStays
<1>1. ScanIInv /\ [ScanNext]_allVars =>
        [\A s \in Scans :
           row[s].state \in Decided =>
             \/ row'[s] = row[s]
             \/ row'[s].cycle = row[s].cycle + 1 /\ row'[s].state = "pending"]_allVars
  BY NextKeepsDecided
<1>2. QED
  BY <1>1, ScanInvariance, PTL DEF ScanSpec, DecidedStays

-----------------------------------------------------------------------------
(***************************************************************************)
(* Notifications.                                                          *)
(***************************************************************************)

\* The attempts of a delivery follow one another: an attempt is asked for, and
\* begun, when all before it have failed for now.
AttemptsInOrder ==
    /\ \A a \in Attempts : a[2] < asking[a[1]] => attempt[a] = "retryable_failure"
    /\ \A a, b \in Attempts :
          a[1] = b[1] /\ a[2] < b[2] /\ attempt[b] # "none" => attempt[a] = "retryable_failure"

\* A handler works on an attempt that has begun and of a delivery that has not
\* succeeded yet, unless it takes the success it has recorded for a failure.
HandlersAreDue ==
    \A a \in Attempts :
        handler[a] # "off" =>
          \/ attempt[a] = "started" /\ delivery[a[1]] # "succeeded"
          \/ /\ attempt[a] = "succeeded" /\ delivery[a[1]] = "succeeded"
             /\ handler[a] = "retryable_failure"

\* Who writes to the thread holds a claim that cannot be taken over.
ClaimIsHeld ==
    \A a \in Sending : slackThread.claim = a[1] /\ ~claimExpired /\ slackThread.latest # 0

\* Who writes knows the thread as it is, and the root shows what was written.
ThreadIsKnown ==
    \A a \in Sending :
        /\ \/ toThread[a] = "new" /\ ~slackThread.message /\ handler[a] # "reply"
           \/ toThread[a] = "update" /\ slackThread.message /\ a[1] >= slackThread.latest
           \/ toThread[a] = "reply" /\ slackThread.message /\ handler[a] # "root"
        /\ handler[a] \in {"reply", "sent"} /\ toThread[a] # "reply" => shown = a[1]

\* The root shows the latest event the thread knows of, or one after it.
RootIsUpToDate ==
    slackThread.message => slackThread.latest # 0 /\ shown >= slackThread.latest

\* A root was answered for, or is about to be, or its answer was lost.
OpensThread(a) == handler[a] = "sent" /\ toThread[a] = "new"
RootsAreAccountedFor ==
    \/ roots <= troubles
    \/ /\ roots = troubles + 1
       /\ slackThread.message \/ \E a \in Attempts : OpensThread(a)

\* What a handler takes for sent was accepted.
SentIsAccepted ==
    \A a \in Attempts : handler[a] \in {"sent", "succeeded"} => a[1] \in accepted

(***************************************************************************)
(* The inductive invariant.  One handler works on a delivery, since the    *)
(* attempt before it has ended; and one delivery writes to the thread,     *)
(* since its claim does not expire under it.                               *)
(***************************************************************************)
NotificationIInv ==
    /\ NotificationTypeOK /\ SucceededIsAccepted
    /\ AttemptsInOrder /\ HandlersAreDue /\ ClaimIsHeld /\ ThreadIsKnown
    /\ RootIsUpToDate /\ RootsAreAccountedFor /\ SentIsAccepted

LEMMA BoundsOfNotifications == NoOfDeliveries \in Nat /\ MaxAttempts \in Nat /\ MaxAttempts >= 1
BY NotificationAssumption

LEMMA AttemptParts ==
    /\ \A a \in Attempts : /\ a[1] \in Deliveries /\ a[2] \in Sequences /\ a = <<a[1], a[2]>>
                           /\ a[1] \in 1..NoOfDeliveries /\ a[2] \in 1..MaxAttempts
    /\ \A d \in Deliveries, n \in Sequences : <<d, n>> \in Attempts
    /\ \A a, b \in Attempts : a[1] = b[1] /\ a[2] = b[2] => a = b
BY DEF Attempts, Deliveries, Sequences

\* One handler works on a delivery ...
LEMMA OneHandler ==
    ASSUME NotificationIInv, NEW a \in Attempts, NEW b \in Attempts,
           handler[a] # "off", handler[b] # "off", a[1] = b[1]
    PROVE  a = b
<1>1. attempt[a] \in {"started", "succeeded"} /\ attempt[b] \in {"started", "succeeded"}
  BY DEF NotificationIInv, HandlersAreDue
<1>2. ~(a[2] < b[2]) /\ ~(b[2] < a[2])
  BY <1>1 DEF NotificationIInv, AttemptsInOrder
<1>3. a[2] \in Nat /\ b[2] \in Nat
  BY AttemptParts, BoundsOfNotifications
<1>4. QED
  BY <1>2, <1>3, AttemptParts

\* ... and one attempt writes to the thread.
LEMMA OneWriter ==
    ASSUME NotificationIInv, NEW a \in Sending, NEW b \in Sending
    PROVE  a = b
<1>1. a \in Attempts /\ b \in Attempts /\ handler[a] # "off" /\ handler[b] # "off"
  BY DEF Sending
<1>2. a[1] = b[1]
  BY DEF NotificationIInv, ClaimIsHeld
<1>3. QED
  BY <1>1, <1>2, OneHandler

LEMMA NotificationsAreSound == NotificationIInv => ThreadInv
<1> SUFFICES ASSUME NotificationIInv PROVE ThreadInv
  OBVIOUS
<1>1. ThreadIsExclusive
  <2>1. \A a, b \in Sending : a = b
    BY OneWriter
  <2>2. ASSUME NEW d \in Deliveries, NEW m \in Sequences, NEW n \in Sequences,
               handler[<<d, m>>] # "off", handler[<<d, n>>] # "off"
        PROVE  m = n
    <3>1. <<d, m>> = <<d, n>>
      BY <2>2, OneHandler, AttemptParts
    <3>2. QED
      BY <3>1
  <2>3. QED
    BY <2>1, <2>2 DEF ThreadIsExclusive
<1>2. OneRoot
  BY DEF NotificationIInv, NotificationTypeOK, RootsAreAccountedFor, OneRoot
<1>3. QED
  BY <1>1, <1>2 DEF NotificationIInv, ThreadInv

LEMMA InitNotificationIInv == NotificationInit => NotificationIInv
<1> SUFFICES ASSUME NotificationInit PROVE NotificationIInv
  OBVIOUS
<1>1. NotificationTypeOK
  <2>1. 0 \in 0..NoOfDeliveries /\ 0 \in 0..MaxAttempts /\ 0 \in 0..MaxTroubles /\ 0 \in Nat
    BY BoundsOfNotifications, NotificationAssumption
  <2>2. slackThread \in [claim : 0..NoOfDeliveries, message : BOOLEAN, latest : 0..NoOfDeliveries]
    BY <2>1 DEF NotificationInit, Nobody
  <2>3. QED
    BY <2>1, <2>2 DEF NotificationInit, NotificationTypeOK
<1>2. AttemptsInOrder
  BY AttemptParts, BoundsOfNotifications DEF NotificationInit, AttemptsInOrder
<1>3. /\ SucceededIsAccepted /\ HandlersAreDue /\ SentIsAccepted /\ Sending = {}
      /\ RootIsUpToDate /\ RootsAreAccountedFor
  BY DEF NotificationInit, SucceededIsAccepted, HandlersAreDue, SentIsAccepted, Sending,
     RootIsUpToDate, RootsAreAccountedFor
<1>4. ClaimIsHeld /\ ThreadIsKnown
  BY <1>3 DEF ClaimIsHeld, ThreadIsKnown
<1>5. QED
  BY <1>1, <1>2, <1>3, <1>4 DEF NotificationIInv

LEMMA TroubleIsCounted ==
    NotificationTypeOK /\ Trouble => troubles' \in 0..MaxTroubles /\ troubles' = troubles + 1
BY NotificationAssumption DEF NotificationTypeOK, Trouble

\* No root is added, and none is forgotten but by a trouble.
Opened == slackThread.message \/ \E a \in Attempts : OpensThread(a)

LEMMA RootsStayAccountedFor ==
    ASSUME NotificationIInv, UNCHANGED roots,
           \/ UNCHANGED troubles /\ (Opened => Opened')
           \/ Trouble
    PROVE  RootsAreAccountedFor'
<1>1. roots \in Nat /\ troubles \in Nat
  BY NotificationAssumption DEF NotificationIInv, NotificationTypeOK
<1>2. roots <= troubles \/ (roots = troubles + 1 /\ Opened)
  BY DEF NotificationIInv, RootsAreAccountedFor, Opened
<1>3. CASE Trouble
  <2>1. roots' <= troubles'
    BY <1>1, <1>2, <1>3, TroubleIsCounted DEF NotificationIInv
  <2>2. QED
    BY <2>1 DEF RootsAreAccountedFor
<1>4. CASE UNCHANGED troubles /\ (Opened => Opened')
  BY <1>2, <1>4 DEF RootsAreAccountedFor, Opened
<1>5. QED
  BY <1>3, <1>4

\* Deliveries, attempts and workflows, while no handler moves.
LEMMA RestfulStep ==
    ASSUME NotificationIInv, UNCHANGED <<handler, toThread, threadVars, slackVars>>,
           delivery' \in [Deliveries -> {"none", "pending", "delivering", "retrying",
                                         "succeeded", "failed"}],
           \A d \in Deliveries : delivery'[d] = "succeeded" <=> delivery[d] = "succeeded",
           asking' \in [Deliveries -> 0..MaxAttempts], sleeping' \subseteq Deliveries,
           UNCHANGED attempt,
           \A a \in Attempts : a[2] < asking'[a[1]] => attempt[a] = "retryable_failure",
           routed' \in BOOLEAN, UNCHANGED troubles \/ Trouble
    PROVE  NotificationIInv'
<1>1. NotificationTypeOK'
  BY TroubleIsCounted DEF NotificationIInv, NotificationTypeOK, threadVars, slackVars
<1>2. SucceededIsAccepted' /\ AttemptsInOrder' /\ HandlersAreDue' /\ SentIsAccepted'
  BY AttemptParts
     DEF NotificationIInv, SucceededIsAccepted, AttemptsInOrder, HandlersAreDue, SentIsAccepted, slackVars
<1>3. ClaimIsHeld' /\ ThreadIsKnown' /\ RootIsUpToDate'
  BY DEF NotificationIInv, ClaimIsHeld, ThreadIsKnown, RootIsUpToDate, Sending, threadVars, slackVars
<1>4. RootsAreAccountedFor'
  <2>1. Opened => Opened'
    BY DEF Opened, OpensThread, threadVars
  <2>2. QED
    BY <2>1, RootsStayAccountedFor DEF slackVars
<1>5. QED
  BY <1>1, <1>2, <1>3, <1>4 DEF NotificationIInv

\* The answer to an attempt moves the workflow behind it only if it has failed
\* for now.
LEMMA AnswerKeepsOrder ==
    ASSUME NotificationIInv, NEW d \in Deliveries, asking[d] # 0, NEW answer, Answer(d, answer),
           answer = "retryable" => attempt[Current(d)] = "retryable_failure"
    PROVE  /\ asking' \in [Deliveries -> 0..MaxAttempts]
           /\ sleeping' \subseteq Deliveries
           /\ \A a \in Attempts : a[2] < asking'[a[1]] => attempt[a] = "retryable_failure"
<1>1. /\ asking \in [Deliveries -> 0..MaxAttempts] /\ sleeping \subseteq Deliveries
      /\ \A a \in Attempts : a[2] < asking[a[1]] => attempt[a] = "retryable_failure"
  BY DEF NotificationIInv, NotificationTypeOK, AttemptsInOrder
<1>2. PICK n \in {0, asking[d], asking[d] + 1} :
         /\ asking' = [asking EXCEPT ![d] = n] /\ n \in 0..MaxAttempts
         /\ n = asking[d] + 1 => answer = "retryable"
         /\ sleeping' = sleeping \cup {d} \/ sleeping' = sleeping \ {d}
  <2>1. asking[d] \in 0..MaxAttempts /\ asking[d] + 1 # 0 /\ asking[d] + 1 # asking[d]
    BY <1>1, BoundsOfNotifications
  <2>2. QED
    BY <2>1, BoundsOfNotifications DEF Answer, NextAttempt
<1>3. ASSUME NEW a \in Attempts, a[2] < asking'[a[1]]
      PROVE  attempt[a] = "retryable_failure"
  <2>1. a[1] \in Deliveries /\ a[2] \in Nat /\ a[2] >= 1
    BY AttemptParts, BoundsOfNotifications
  <2>2. CASE a[1] # d
    BY <1>1, <1>2, <1>3, <2>1, <2>2
  <2>3. CASE a[1] = d /\ n = asking[d] + 1
    <3>1. a[2] < asking[d] \/ a[2] = asking[d]
      BY <1>1, <1>2, <1>3, <2>1, <2>3, BoundsOfNotifications
    <3>2. a[2] = asking[d] => a = Current(d)
      BY <2>3, AttemptParts DEF Current
    <3>3. QED
      BY <1>1, <1>2, <2>3, <3>1, <3>2
  <2>4. CASE a[1] = d /\ n # asking[d] + 1
    BY <1>1, <1>2, <1>3, <2>1, <2>4, BoundsOfNotifications
  <2>5. QED
    BY <2>2, <2>3, <2>4
<1>4. asking' \in [Deliveries -> 0..MaxAttempts] /\ sleeping' \subseteq Deliveries
  BY <1>1, <1>2
<1>5. QED
  BY <1>3, <1>4

LEMMA WorkflowKeepsNotificationIInv ==
    ASSUME NotificationIInv, NEW d \in Deliveries,
           \/ Emit(d) \/ StartWorkflow(d) \/ Wakes(d) \/ AskDecided(d) \/ WorkflowFails(d)
    PROVE  NotificationIInv'
<1> DEFINE States == {"none", "pending", "delivering", "retrying", "succeeded", "failed"}
           InOrder == \A a \in Attempts : a[2] < asking'[a[1]] => attempt[a] = "retryable_failure"
<1>1. /\ delivery \in [Deliveries -> States] /\ asking \in [Deliveries -> 0..MaxAttempts]
      /\ sleeping \subseteq Deliveries /\ routed \in BOOLEAN
      /\ \A a \in Attempts : a[2] < asking[a[1]] => attempt[a] = "retryable_failure"
  BY NotificationAssumption DEF NotificationIInv, NotificationTypeOK, AttemptsInOrder
<1>2. UNCHANGED <<attempt, handler, toThread, threadVars, slackVars, routed>>
  BY DEF Emit, StartWorkflow, Wakes, AskDecided, WorkflowFails
<1>3. /\ delivery' \in [Deliveries -> States]
      /\ \A e \in Deliveries : delivery'[e] = "succeeded" <=> delivery[e] = "succeeded"
  BY <1>1 DEF Emit, StartWorkflow, Wakes, AskDecided, WorkflowFails
<1>4. UNCHANGED troubles \/ Trouble
  BY DEF Emit, StartWorkflow, Wakes, AskDecided, WorkflowFails
<1>5. asking' \in [Deliveries -> 0..MaxAttempts] /\ sleeping' \subseteq Deliveries /\ InOrder
  <2>1. CASE AskDecided(d)
    <3>1. asking[d] # 0
      BY <2>1 DEF AskDecided, Awake
    <3>2. PICK answer : /\ Answer(d, answer)
                        /\ answer \in {"stale", "terminal"} \/ answer = Existing(d)
      BY <2>1 DEF AskDecided
    <3>3. answer = "retryable" => attempt[Current(d)] = "retryable_failure"
      BY <3>2 DEF Existing
    <3>4. QED
      BY <3>1, <3>2, <3>3, AnswerKeepsOrder
  <2>2. CASE asking' = [asking EXCEPT ![d] = 0] \/ asking' = [asking EXCEPT ![d] = 1]
    <3>1. asking' \in [Deliveries -> 0..MaxAttempts]
      BY <1>1, <2>2, BoundsOfNotifications
    <3>2. sleeping' \subseteq Deliveries
      BY <1>1 DEF Emit, StartWorkflow, Wakes, AskDecided, WorkflowFails, Answer, workflowVars
    <3>3. InOrder
      BY <1>1, <2>2, AttemptParts, BoundsOfNotifications
    <3>4. QED
      BY <3>1, <3>2, <3>3
  <2>3. CASE UNCHANGED asking /\ sleeping' \subseteq sleeping
    BY <1>1, <2>3
  <2>4. QED
    BY <2>1, <2>2, <2>3 DEF Emit, StartWorkflow, Wakes, WorkflowFails, workflowVars
<1>6. QED
  BY <1>1, <1>2, <1>3, <1>4, <1>5, RestfulStep

HandlerPlaces == {"off", "claimed", "root", "reply", "sent", "succeeded",
                  "retryable_failure", "terminal_failure"}

\* The deliveries and their attempts, while one handler moves on.
LEMMA HandlerKeepsDeliveries ==
    ASSUME NotificationIInv, NEW a \in Attempts, handler[a] # "off",
           NEW place \in HandlerPlaces, HandlerAt(a, place),
           UNCHANGED <<delivery, attempt, workflowVars, routed>>,
           accepted \subseteq accepted', accepted' \subseteq Deliveries,
           place \in {"sent", "succeeded"} => a[1] \in accepted',
           handler[a] # "retryable_failure" \/ place = "off"
    PROVE  /\ handler' \in [Attempts -> HandlerPlaces]
           /\ \A b \in Attempts : handler'[b] = IF b = a THEN place ELSE handler[b]
           /\ SucceededIsAccepted' /\ AttemptsInOrder' /\ HandlersAreDue' /\ SentIsAccepted'
<1>1. handler \in [Attempts -> HandlerPlaces]
  BY DEF NotificationIInv, NotificationTypeOK, HandlerPlaces
<1>2. /\ handler' \in [Attempts -> HandlerPlaces]
      /\ \A b \in Attempts : handler'[b] = IF b = a THEN place ELSE handler[b]
  BY <1>1 DEF HandlerAt
<1>3. SucceededIsAccepted' /\ AttemptsInOrder'
  BY DEF NotificationIInv, SucceededIsAccepted, AttemptsInOrder, workflowVars
<1>4. HandlersAreDue' /\ SentIsAccepted'
  BY <1>2 DEF NotificationIInv, HandlersAreDue, SentIsAccepted
<1>5. QED
  BY <1>2, <1>3, <1>4

\* A success is recorded, and its handler goes on as if it were a failure.
LEMMA MisjudgedKeepsDeliveries ==
    ASSUME NotificationIInv, NEW a \in Attempts, handler[a] = "succeeded",
           HandlerAt(a, "retryable_failure"),
           attempt' = [attempt EXCEPT ![a] = "succeeded"],
           delivery' = [delivery EXCEPT ![a[1]] = "succeeded"],
           UNCHANGED <<workflowVars, accepted>>
    PROVE  /\ handler' \in [Attempts -> HandlerPlaces]
           /\ \A b \in Attempts : handler'[b] = IF b = a THEN "retryable_failure" ELSE handler[b]
           /\ SucceededIsAccepted' /\ AttemptsInOrder' /\ HandlersAreDue' /\ SentIsAccepted'
<1>1. handler \in [Attempts -> HandlerPlaces]
  BY DEF NotificationIInv, NotificationTypeOK, HandlerPlaces
<1>2. /\ handler' \in [Attempts -> HandlerPlaces]
      /\ \A b \in Attempts : handler'[b] = IF b = a THEN "retryable_failure" ELSE handler[b]
  BY <1>1 DEF HandlerAt, HandlerPlaces
<1>3. /\ \A b \in Attempts : attempt'[b] = IF b = a THEN "succeeded" ELSE attempt[b]
      /\ \A e \in Deliveries : delivery'[e] = IF e = a[1] THEN "succeeded" ELSE delivery[e]
      /\ a[1] \in Deliveries /\ attempt[a] = "started"
  BY AttemptParts DEF NotificationIInv, NotificationTypeOK, HandlersAreDue
<1>4. SucceededIsAccepted' /\ SentIsAccepted'
  BY <1>2, <1>3 DEF NotificationIInv, SucceededIsAccepted, SentIsAccepted
<1>5. AttemptsInOrder'
  BY <1>3 DEF NotificationIInv, AttemptsInOrder, workflowVars
<1>6. HandlersAreDue'
  <2> SUFFICES ASSUME NEW b \in Attempts, handler'[b] # "off"
               PROVE  \/ attempt'[b] = "started" /\ delivery'[b[1]] # "succeeded"
                      \/ /\ attempt'[b] = "succeeded" /\ delivery'[b[1]] = "succeeded"
                         /\ handler'[b] = "retryable_failure"
    BY DEF HandlersAreDue
  <2>1. CASE b = a
    BY <1>2, <1>3, <2>1
  <2>2. CASE b # a
    <3>1. handler[b] # "off" /\ b[1] # a[1]
      BY <1>2, <2>2, OneHandler
    <3>2. QED
      BY <1>2, <1>3, <2>2, <3>1, AttemptParts DEF NotificationIInv, HandlersAreDue
  <2>3. QED
    BY <2>1, <2>2
<1>7. QED
  BY <1>2, <1>4, <1>5, <1>6

\* The only step that enters the thread: nobody is in it.
LEMMA ClaimKeepsNotificationIInv ==
    ASSUME NotificationIInv, NEW a \in Attempts, ClaimThread(a)
    PROVE  NotificationIInv'
<1> USE DEF HandlerPlaces
<1>1. /\ handler[a] = "claimed" /\ UNCHANGED <<delivery, attempt, workflowVars, routed>>
      /\ UNCHANGED <<roots, shown, accepted, troubles>>
  BY DEF ClaimThread, slackVars
<1>2. /\ a[1] \in Deliveries /\ a[1] \in 1..NoOfDeliveries /\ a[1] \in Nat /\ a[1] # 0
  BY AttemptParts, BoundsOfNotifications
<1>3. /\ slackThread \in [claim : 0..NoOfDeliveries, message : BOOLEAN, latest : 0..NoOfDeliveries]
      /\ toThread \in [Attempts -> {"no", "new", "update", "reply"}]
      /\ accepted \subseteq Deliveries
  BY DEF NotificationIInv, NotificationTypeOK
<1>4. CASE ~ClaimFree(a[1])
  <2>1. HandlerAt(a, "retryable_failure") /\ UNCHANGED <<threadVars, toThread>>
    BY <1>4 DEF ClaimThread
  <2>2. /\ handler' \in [Attempts -> HandlerPlaces]
        /\ \A b \in Attempts : handler'[b] = IF b = a THEN "retryable_failure" ELSE handler[b]
        /\ SucceededIsAccepted' /\ AttemptsInOrder' /\ HandlersAreDue' /\ SentIsAccepted'
    BY <1>1, <1>3, <2>1, HandlerKeepsDeliveries
  <2>3. \A b \in Attempts : b \in Sending' => b \in Sending /\ handler'[b] = handler[b]
    BY <2>2 DEF Sending
  <2>4. Opened => Opened'
    BY <1>1, <2>1, <2>2 DEF Opened, OpensThread, threadVars
  <2>5. RootsAreAccountedFor'
    BY <1>1, <2>4, RootsStayAccountedFor
  <2>6. ClaimIsHeld' /\ ThreadIsKnown' /\ RootIsUpToDate'
    <3>1. Sending' \subseteq Attempts
      BY DEF Sending
    <3>2. QED
      BY <1>1, <2>1, <2>3, <3>1 DEF NotificationIInv, ClaimIsHeld, ThreadIsKnown, RootIsUpToDate, threadVars
  <2>7. NotificationTypeOK'
    BY <1>1, <2>1, <2>2 DEF NotificationIInv, NotificationTypeOK, workflowVars, threadVars
  <2>8. QED
    BY <2>2, <2>5, <2>6, <2>7 DEF NotificationIInv
<1>5. CASE ClaimFree(a[1])
  <2> DEFINE place == IF slackThread.message /\ a[1] < slackThread.latest THEN "reply" ELSE "root"
             how == IF ~slackThread.message THEN "new"
                    ELSE IF a[1] >= slackThread.latest THEN "update" ELSE "reply"
             latest == IF slackThread.latest = 0 THEN a[1] ELSE slackThread.latest
  <2>1. /\ slackThread' = [slackThread EXCEPT !.claim = a[1], !.latest = latest]
        /\ claimExpired' = FALSE /\ toThread' = [toThread EXCEPT ![a] = how]
        /\ HandlerAt(a, place)
    BY <1>5 DEF ClaimThread
  <2>2. place \in HandlerPlaces /\ place \notin {"sent", "succeeded"} /\ handler[a] # "off"
    BY <1>1
  <2>3. /\ handler' \in [Attempts -> HandlerPlaces]
        /\ \A b \in Attempts : handler'[b] = IF b = a THEN place ELSE handler[b]
        /\ SucceededIsAccepted' /\ AttemptsInOrder' /\ HandlersAreDue' /\ SentIsAccepted'
    <3> HIDE DEF place
    <3>1. QED
      BY <1>1, <1>3, <2>1, <2>2, HandlerKeepsDeliveries
  <2>4. Sending = {}
    <3> SUFFICES ASSUME NEW b \in Sending PROVE FALSE
      OBVIOUS
    <3>1. b \in Attempts /\ handler[b] # "off" /\ b # a
      BY <1>1 DEF Sending
    <3>2. slackThread.claim = b[1] /\ ~claimExpired
      BY DEF NotificationIInv, ClaimIsHeld
    <3>3. b[1] = a[1]
      BY <1>5, <3>1, <3>2, AttemptParts, BoundsOfNotifications DEF ClaimFree, Nobody
    <3>4. QED
      BY <1>1, <3>1, <3>3, OneHandler
  <2>5. Sending' = {a}
    <3>1. \A b \in Attempts : b \in Sending' <=> b = a
      BY <2>3, <2>4 DEF Sending
    <3>2. QED
      BY <3>1 DEF Sending
  <2>6. /\ slackThread'.claim = a[1] /\ slackThread'.latest = latest
        /\ slackThread'.message = slackThread.message
        /\ slackThread' \in [claim : 0..NoOfDeliveries, message : BOOLEAN, latest : 0..NoOfDeliveries]
        /\ latest # 0
    <3>1. latest \in 0..NoOfDeliveries /\ latest # 0
      BY <1>2, <1>3
    <3>2. a[1] \in 0..NoOfDeliveries
      BY <1>2, BoundsOfNotifications
    <3> HIDE DEF latest
    <3>3. QED
      BY <1>3, <2>1, <3>1, <3>2
  <2>7. /\ toThread'[a] = how /\ handler'[a] = place
        /\ toThread' \in [Attempts -> {"no", "new", "update", "reply"}]
    BY <1>3, <2>1, <2>3
  <2>8. slackThread.message => latest = slackThread.latest /\ shown >= slackThread.latest
    BY DEF NotificationIInv, RootIsUpToDate
  <2>9. ClaimIsHeld'
    BY <2>1, <2>5, <2>6 DEF ClaimIsHeld
  <2>10. RootIsUpToDate'
    BY <1>1, <2>6, <2>8 DEF RootIsUpToDate
  <2>11. ThreadIsKnown'
    <3>1. slackThread.latest \in Nat /\ ~(a[1] < slackThread.latest) <=> a[1] >= slackThread.latest
      BY <1>2, <1>3, BoundsOfNotifications
    <3>2. place \notin {"sent"} /\ (place = "reply" => how = "reply")
      BY <3>1
    <3>3. \/ how = "new" /\ ~slackThread.message /\ place # "reply"
          \/ how = "update" /\ slackThread.message /\ a[1] >= latest
          \/ how = "reply" /\ slackThread.message /\ place # "root"
      <4>1. CASE ~slackThread.message
        BY <4>1
      <4>2. CASE slackThread.message /\ a[1] >= slackThread.latest
        BY <2>8, <4>2
      <4>3. CASE slackThread.message /\ a[1] < slackThread.latest
        BY <3>1, <4>3
      <4>4. QED
        BY <1>3, <3>1, <4>1, <4>2, <4>3
    <3> HIDE DEF place, how, latest
    <3>4. QED
      BY <2>5, <2>6, <2>7, <3>2, <3>3 DEF ThreadIsKnown
  <2>12. RootsAreAccountedFor'
    <3>1. \A b \in Attempts : ~OpensThread(b)
      BY <2>4 DEF OpensThread, Sending
    <3>2. QED
      BY <1>1, <2>6, <3>1, RootsStayAccountedFor DEF Opened
  <2>13. NotificationTypeOK'
    BY <1>1, <2>1, <2>3, <2>6, <2>7 DEF NotificationIInv, NotificationTypeOK, workflowVars
  <2>14. QED
    BY <2>3, <2>9, <2>10, <2>11, <2>12, <2>13 DEF NotificationIInv
<1>6. QED
  BY <1>4, <1>5

\* The writer sends: it is alone, and the root shows what it sent.
LEMMA SendKeepsNotificationIInv ==
    ASSUME NotificationIInv, NEW a \in Attempts, SendRoot(a) \/ SendReply(a)
    PROVE  NotificationIInv'
<1> USE DEF HandlerPlaces
<1> DEFINE first == handler[a] = "root" /\ toThread[a] = "new"
           place == IF handler[a] = "root" /\ toThread[a] # "new" THEN "reply" ELSE "sent"
<1>1. /\ handler[a] \in {"root", "reply"} /\ HandlerAt(a, place)
      /\ UNCHANGED <<delivery, attempt, workflowVars, routed, toThread, threadVars, troubles>>
      /\ shown' = IF handler[a] = "root" THEN a[1] ELSE shown
      /\ roots' = IF first THEN roots + 1 ELSE roots
      /\ accepted' = IF place = "sent" THEN accepted \cup {a[1]} ELSE accepted
  BY DEF SendRoot, SendReply
<1>2. /\ a[1] \in Deliveries /\ a[1] \in 0..NoOfDeliveries
      /\ accepted \subseteq Deliveries /\ roots \in Nat /\ shown \in 0..NoOfDeliveries
  BY AttemptParts, BoundsOfNotifications DEF NotificationIInv, NotificationTypeOK
<1>3. a \in Sending /\ place \in {"reply", "sent"} /\ (first => place = "sent")
  BY <1>1 DEF Sending
<1>4. /\ accepted \subseteq accepted' /\ accepted' \subseteq Deliveries
      /\ place = "sent" => a[1] \in accepted'
  BY <1>1, <1>2
<1>5. \/ toThread[a] = "new" /\ ~slackThread.message /\ handler[a] = "root" /\ first
      \/ toThread[a] = "update" /\ slackThread.message /\ a[1] >= slackThread.latest /\ ~first
      \/ toThread[a] = "reply" /\ slackThread.message /\ handler[a] = "reply" /\ ~first
  BY <1>1, <1>3 DEF NotificationIInv, ThreadIsKnown
<1>6. handler[a] = "reply" /\ toThread[a] # "reply" => shown = a[1]
  BY <1>3 DEF NotificationIInv, ThreadIsKnown
<1> HIDE DEF first, place
<1>7. /\ handler' \in [Attempts -> HandlerPlaces]
      /\ \A b \in Attempts : handler'[b] = IF b = a THEN place ELSE handler[b]
      /\ SucceededIsAccepted' /\ AttemptsInOrder' /\ HandlersAreDue' /\ SentIsAccepted'
  BY <1>1, <1>3, <1>4, HandlerKeepsDeliveries
<1>8. Sending = {a}
  BY <1>3, OneWriter
<1>9. Sending' = {a}
  <2>1. \A b \in Attempts : b \in Sending' <=> b = a
    BY <1>3, <1>7, <1>8 DEF Sending
  <2>2. QED
    BY <2>1 DEF Sending
<1>10. ClaimIsHeld'
  BY <1>1, <1>3, <1>9 DEF NotificationIInv, ClaimIsHeld, threadVars
<1>11. slackThread' = slackThread /\ toThread' = toThread /\ handler'[a] = place
  BY <1>1, <1>7 DEF threadVars
<1>12. ThreadIsKnown'
  <2>1. toThread[a] # "reply" => shown' = a[1]
    BY <1>1, <1>5, <1>6
  <2>2. toThread[a] = "new" => place # "reply"
    BY <1>3, <1>5
  <2>3. QED
    BY <1>3, <1>5, <1>9, <1>11, <2>1, <2>2 DEF ThreadIsKnown
<1>13. RootIsUpToDate'
  BY <1>1, <1>5, <1>11 DEF NotificationIInv, RootIsUpToDate
<1>14. RootsAreAccountedFor'
  <2>1. CASE first
    <3>1. ~Opened
      BY <1>5, <1>8, <2>1 DEF Opened, OpensThread, Sending
    <3>2. roots <= troubles
      BY <3>1 DEF NotificationIInv, RootsAreAccountedFor, Opened
    <3>3. OpensThread(a)'
      BY <1>3, <1>5, <1>11, <2>1 DEF OpensThread
    <3>4. troubles \in Nat /\ troubles' = troubles
      BY <1>1, NotificationAssumption DEF NotificationIInv, NotificationTypeOK
    <3>5. roots' <= troubles' \/ roots' = troubles' + 1
      BY <1>1, <1>2, <2>1, <3>2, <3>4
    <3>6. QED
      BY <3>3, <3>5 DEF RootsAreAccountedFor
  <2>2. CASE ~first
    <3>1. slackThread.message
      BY <1>5, <2>2
    <3>2. Opened'
      BY <1>11, <3>1 DEF Opened
    <3>3. QED
      BY <1>1, <2>2, <3>2, RootsStayAccountedFor
  <2>3. QED
    BY <2>1, <2>2
<1>15. NotificationTypeOK'
  BY <1>1, <1>2, <1>4, <1>7 DEF NotificationIInv, NotificationTypeOK, workflowVars, threadVars
<1>16. QED
  BY <1>7, <1>10, <1>12, <1>13, <1>14, <1>15 DEF NotificationIInv

\* A handler that leaves the thread, or dies anywhere, and keeps its claim or
\* gives it back.
LEMMA LeavingKeepsNotificationIInv ==
    ASSUME NotificationIInv, NEW a \in Attempts,
           Refused(a) \/ LosesAnswer(a) \/ FinishFails(a) \/ HandlerDies(a)
    PROVE  NotificationIInv'
<1> USE DEF HandlerPlaces
<1>1. PICK place \in {"off", "retryable_failure", "terminal_failure"} :
         HandlerAt(a, place) /\ (FinishFails(a) => place = "retryable_failure")
  BY DEF Refused, LosesAnswer, FinishFails, HandlerDies
<1>2. /\ handler[a] # "off" /\ (handler[a] = "retryable_failure" => HandlerDies(a))
      /\ UNCHANGED <<workflowVars, routed, toThread, claimExpired, slackVars>>
      /\ slackThread' = slackThread \/ ReleaseThread(a)
      /\ (Trouble \/ UNCHANGED troubles) /\ (handler[a] = "sent" => Trouble)
  BY DEF Refused, LosesAnswer, FinishFails, HandlerDies, threadVars
<1>3. /\ accepted' = accepted /\ accepted \subseteq Deliveries
      /\ HandlerDies(a) => HandlerAt(a, "off")
  BY <1>2 DEF NotificationIInv, NotificationTypeOK, slackVars, HandlerDies
<1>thread. /\ slackThread'.message = slackThread.message /\ slackThread'.latest = slackThread.latest
           /\ slackThread' \in [claim : 0..NoOfDeliveries, message : BOOLEAN,
                                latest : 0..NoOfDeliveries]
           /\ slackThread' = slackThread \/ slackThread.claim = a[1]
  <2>1. /\ slackThread \in [claim : 0..NoOfDeliveries, message : BOOLEAN, latest : 0..NoOfDeliveries]
        /\ Nobody \in 0..NoOfDeliveries
    BY BoundsOfNotifications DEF NotificationIInv, NotificationTypeOK, Nobody
  <2>2. QED
    BY <1>2, <2>1 DEF ReleaseThread
<1>4. /\ handler' \in [Attempts -> HandlerPlaces]
      /\ \A b \in Attempts : handler'[b] = IF b = a THEN place ELSE handler[b]
      /\ delivery' \in [Deliveries -> {"none", "pending", "delivering", "retrying",
                                       "succeeded", "failed"}]
      /\ attempt' \in [Attempts -> {"none", "started", "succeeded", "retryable_failure",
                                    "terminal_failure"}]
      /\ SucceededIsAccepted' /\ AttemptsInOrder' /\ HandlersAreDue' /\ SentIsAccepted'
  <2>1. CASE UNCHANGED <<delivery, attempt>>
    <3>1. handler[a] = "retryable_failure" => place = "off"
      <4>1. handler[a] = "retryable_failure" => HandlerAt(a, "off")
        BY <1>2, <1>3
      <4>2. QED
        BY <1>1, <4>1 DEF HandlerAt, NotificationIInv, NotificationTypeOK
    <3>2. delivery' = delivery /\ attempt' = attempt /\ UNCHANGED <<workflowVars, routed>>
      BY <1>2, <2>1
    <3>3. QED
      BY <1>1, <1>2, <1>3, <3>1, <3>2, HandlerKeepsDeliveries DEF NotificationIInv, NotificationTypeOK
  <2>2. CASE /\ FinishFails(a)
             /\ attempt' = [attempt EXCEPT ![a] = "succeeded"]
             /\ delivery' = [delivery EXCEPT ![a[1]] = "succeeded"]
    <3>1. handler[a] = "succeeded" /\ UNCHANGED workflowVars /\ place = "retryable_failure"
      BY <1>1, <2>2 DEF FinishFails
    <3>2. QED
      BY <1>1, <1>3, <2>2, <3>1, MisjudgedKeepsDeliveries DEF NotificationIInv, NotificationTypeOK
  <2>3. QED
    BY <2>1, <2>2 DEF Refused, LosesAnswer, FinishFails, HandlerDies
<1>5. Sending' = Sending \ {a}
  <2>1. \A b \in Attempts : b \in Sending' <=> b \in Sending /\ b # a
    BY <1>1, <1>4 DEF Sending
  <2>2. QED
    BY <2>1 DEF Sending
<1>6. ClaimIsHeld' /\ ThreadIsKnown'
  <2> SUFFICES ASSUME NEW c \in Sending, c # a PROVE ClaimIsHeld' /\ ThreadIsKnown'
    BY <1>5 DEF ClaimIsHeld, ThreadIsKnown
  <2>1. slackThread.claim # a[1]
    <3>1. c[1] # a[1]
      BY <1>2, OneHandler DEF Sending
    <3>2. QED
      BY <3>1 DEF NotificationIInv, ClaimIsHeld
  <2>2. UNCHANGED <<slackThread, claimExpired, toThread, shown>>
    BY <1>2, <1>thread, <2>1 DEF slackVars
  <2>3. \A b \in Sending \ {a} : b \in Attempts /\ handler'[b] = handler[b]
    BY <1>4 DEF Sending
  <2>4. QED
    BY <1>5, <2>2, <2>3 DEF NotificationIInv, ClaimIsHeld, ThreadIsKnown
<1>7. RootIsUpToDate'
  BY <1>2, <1>thread DEF NotificationIInv, RootIsUpToDate, slackVars
<1>8. RootsAreAccountedFor'
  <2>1. CASE Trouble
    BY <1>2, <2>1, RootsStayAccountedFor DEF slackVars
  <2>2. CASE ~Trouble
    <3>1. UNCHANGED troubles /\ handler[a] # "sent"
      BY <1>2, <2>2
    <3>2. Opened => Opened'
      BY <1>2, <1>thread, <1>4, <3>1 DEF Opened, OpensThread
    <3>3. QED
      BY <1>2, <3>1, <3>2, RootsStayAccountedFor DEF slackVars
  <2>3. QED
    BY <2>1, <2>2
<1>9. NotificationTypeOK'
  <2>1. troubles' \in 0..MaxTroubles
    BY <1>2, TroubleIsCounted DEF NotificationIInv, NotificationTypeOK
  <2>2. QED
    BY <1>2, <1>thread, <1>4, <2>1
       DEF NotificationIInv, NotificationTypeOK, workflowVars, slackVars
<1>10. QED
  BY <1>4, <1>6, <1>7, <1>8, <1>9 DEF NotificationIInv

\* The writer closes its claim: what the root shows is the latest event, or
\* one after it.
LEMMA CompleteKeepsNotificationIInv ==
    ASSUME NotificationIInv, NEW a \in Attempts, CompleteThread(a)
    PROVE  /\ NotificationIInv' /\ Sending = {a} /\ UNCHANGED shown
           /\ slackThread.message => slackThread'.latest >= slackThread.latest
<1> USE DEF HandlerPlaces
<1>1. /\ handler[a] = "sent" /\ HandlerAt(a, "succeeded")
      /\ UNCHANGED <<delivery, attempt, workflowVars, routed, toThread, claimExpired>>
      /\ UNCHANGED <<roots, shown, accepted, troubles>>
  BY DEF CompleteThread, slackVars
<1>2. a \in Sending
  BY <1>1 DEF Sending
<1>3. Sending = {a} /\ slackThread.claim = a[1] /\ slackThread.latest # 0
  BY <1>2, OneWriter DEF NotificationIInv, ClaimIsHeld
<1>4. slackThread' = [claim |-> Nobody, message |-> TRUE, latest |-> Latest(a)]
  BY <1>3 DEF CompleteThread
<1>5. /\ a[1] \in 1..NoOfDeliveries /\ a[1] \in Nat /\ a[1] # 0 /\ shown \in Nat
      /\ slackThread \in [claim : 0..NoOfDeliveries, message : BOOLEAN, latest : 0..NoOfDeliveries]
      /\ slackThread.latest \in Nat /\ accepted \subseteq Deliveries /\ a[1] \in accepted
  BY <1>1, AttemptParts, BoundsOfNotifications
     DEF NotificationIInv, NotificationTypeOK, SentIsAccepted
<1>6. /\ Latest(a) \in 0..NoOfDeliveries /\ Latest(a) # 0 /\ shown >= Latest(a)
      /\ slackThread.message => Latest(a) >= slackThread.latest
  <2>1. /\ \/ toThread[a] = "new" /\ ~slackThread.message
           \/ toThread[a] = "update" /\ a[1] >= slackThread.latest
           \/ toThread[a] = "reply" /\ slackThread.message
        /\ toThread[a] # "reply" => shown = a[1]
    BY <1>1, <1>2 DEF NotificationIInv, ThreadIsKnown
  <2>2. CASE toThread[a] = "reply"
    BY <1>5, <2>1, <2>2, BoundsOfNotifications DEF Latest, NotificationIInv, RootIsUpToDate
  <2>3. CASE toThread[a] # "reply"
    BY <1>5, <2>1, <2>3, BoundsOfNotifications DEF Latest
  <2>4. QED
    BY <2>2, <2>3
<1>7. /\ handler' \in [Attempts -> HandlerPlaces]
      /\ \A b \in Attempts : handler'[b] = IF b = a THEN "succeeded" ELSE handler[b]
      /\ SucceededIsAccepted' /\ AttemptsInOrder' /\ HandlersAreDue' /\ SentIsAccepted'
  BY <1>1, <1>5, HandlerKeepsDeliveries
<1>8. Sending' = {}
  <2>1. \A b \in Attempts : b \notin Sending'
    BY <1>3, <1>7 DEF Sending
  <2>2. QED
    BY <2>1 DEF Sending
<1>9. ClaimIsHeld' /\ ThreadIsKnown'
  BY <1>8 DEF ClaimIsHeld, ThreadIsKnown
<1>10. RootIsUpToDate' /\ RootsAreAccountedFor'
  <2>1. slackThread'.message /\ slackThread'.latest = Latest(a)
    BY <1>4
  <2>2. QED
    BY <1>1, <1>6, <2>1, RootsStayAccountedFor DEF RootIsUpToDate, Opened
<1>11. NotificationTypeOK'
  <2>1. slackThread' \in [claim : 0..NoOfDeliveries, message : BOOLEAN, latest : 0..NoOfDeliveries]
    BY <1>4, <1>6, BoundsOfNotifications DEF Nobody
  <2>2. QED
    BY <1>1, <1>7, <2>1 DEF NotificationIInv, NotificationTypeOK, workflowVars
<1>12. QED
  BY <1>1, <1>3, <1>4, <1>6, <1>7, <1>9, <1>10, <1>11 DEF NotificationIInv

\* An attempt begins: those before it have failed, and no handler is at work.
LEMMA BeginKeepsNotificationIInv ==
    ASSUME NotificationIInv, NEW d \in Deliveries, Claim(d)
    PROVE  NotificationIInv'
<1> DEFINE c == Current(d)
<1>1. /\ asking[d] \in 1..MaxAttempts /\ c \in Attempts /\ c[1] = d /\ c[2] = asking[d]
      /\ attempt[c] = "none" /\ delivery[d] # "succeeded" /\ handler[c] = "off"
  <2>1. asking[d] \in 0..MaxAttempts /\ asking[d] # 0
    BY DEF Claim, Awake, NotificationIInv, NotificationTypeOK
  <2>2. asking[d] \in 1..MaxAttempts
    BY <2>1, BoundsOfNotifications
  <2>3. attempt[c] = "none" /\ delivery[d] # "succeeded"
    BY DEF Claim
  <2>4. c \in Attempts /\ c[1] = d /\ c[2] = asking[d]
    BY <2>2, AttemptParts DEF Current, Sequences
  <2>5. QED
    BY <2>2, <2>3, <2>4 DEF NotificationIInv, HandlersAreDue
<1> HIDE DEF c
<1>2. /\ attempt' = [attempt EXCEPT ![c] = "started"]
      /\ delivery' = [delivery EXCEPT ![d] = "delivering"]
      /\ handler' = [handler EXCEPT ![c] = "claimed"]
      /\ UNCHANGED <<workflowVars, routed, toThread, threadVars, slackVars, troubles>>
  BY DEF Claim, c
<1>3. NotificationTypeOK'
  BY <1>1, <1>2 DEF NotificationIInv, NotificationTypeOK, workflowVars, threadVars, slackVars
<1>4. /\ \A b \in Attempts : /\ handler'[b] = IF b = c THEN "claimed" ELSE handler[b]
                             /\ attempt'[b] = IF b = c THEN "started" ELSE attempt[b]
      /\ \A e \in Deliveries : delivery'[e] = IF e = d THEN "delivering" ELSE delivery[e]
  BY <1>1, <1>2 DEF NotificationIInv, NotificationTypeOK
<1>5. SucceededIsAccepted' /\ SentIsAccepted'
  BY <1>2, <1>4 DEF NotificationIInv, SucceededIsAccepted, SentIsAccepted, slackVars
<1>6. HandlersAreDue'
  BY <1>1, <1>4, AttemptParts DEF NotificationIInv, HandlersAreDue
<1>7. AttemptsInOrder'
  <2>1. asking' = asking
    BY <1>2 DEF workflowVars
  <2>2. ASSUME NEW a \in Attempts, a[2] < asking[a[1]]
        PROVE  attempt'[a] = "retryable_failure"
    <3>1. attempt[a] = "retryable_failure"
      BY <2>2 DEF NotificationIInv, AttemptsInOrder
    <3>2. QED
      BY <1>1, <1>4, <3>1
  <2>3. ASSUME NEW a \in Attempts, NEW b \in Attempts, a[1] = b[1], a[2] < b[2],
               attempt'[b] # "none"
        PROVE  attempt'[a] = "retryable_failure"
    <3>1. CASE b = c
      BY <1>1, <2>2, <2>3, <3>1
    <3>2. CASE b # c
      <4>1. attempt[a] = "retryable_failure"
        BY <1>4, <2>3, <3>2 DEF NotificationIInv, AttemptsInOrder
      <4>2. QED
        BY <1>1, <1>4, <4>1
    <3>3. QED
      BY <3>1, <3>2
  <2>4. QED
    BY <2>1, <2>2, <2>3 DEF AttemptsInOrder
<1>8. Sending' = Sending /\ \A b \in Sending : b \in Attempts /\ handler'[b] = handler[b]
  BY <1>1, <1>4 DEF Sending
<1>9. ClaimIsHeld' /\ ThreadIsKnown' /\ RootIsUpToDate'
  BY <1>2, <1>8
     DEF NotificationIInv, ClaimIsHeld, ThreadIsKnown, RootIsUpToDate, threadVars, slackVars
<1>10. RootsAreAccountedFor'
  <2>1. Opened => Opened'
    BY <1>1, <1>2, <1>4 DEF Opened, OpensThread, threadVars
  <2>2. QED
    BY <1>2, <2>1, RootsStayAccountedFor DEF slackVars
<1>11. QED
  BY <1>3, <1>5, <1>6, <1>7, <1>9, <1>10 DEF NotificationIInv

\* An attempt ends: it is the last one of its delivery that has begun, and no
\* other handler is at work on the delivery.
LEMMA FinishKeepsNotificationIInv ==
    ASSUME NotificationIInv, NEW a \in Attempts, FinishAttempt(a)
    PROVE  NotificationIInv'
<1>1. /\ handler[a] \in {"succeeded", "retryable_failure", "terminal_failure"}
      /\ attempt' = [attempt EXCEPT ![a] = Outcome(a)]
      /\ delivery' = [delivery EXCEPT ![a[1]] = DeliveryAfter(a)]
      /\ handler' = [handler EXCEPT ![a] = "off"]
      /\ UNCHANGED <<workflowVars, routed, toThread, threadVars, slackVars, troubles>>
  BY DEF FinishAttempt, HandlerAt
<1>2. attempt[a] \in {"started", "succeeded"} /\ a[1] \in Deliveries
  BY <1>1, AttemptParts DEF NotificationIInv, HandlersAreDue
<1>3. /\ Outcome(a) \in {"succeeded", "retryable_failure", "terminal_failure"}
      /\ DeliveryAfter(a) \in {"succeeded", "retrying", "failed"}
      /\ DeliveryAfter(a) = "succeeded" => handler[a] = "succeeded"
  BY <1>1 DEF Outcome, DeliveryAfter
<1>4. NotificationTypeOK'
  BY <1>1, <1>3 DEF NotificationIInv, NotificationTypeOK, workflowVars, threadVars, slackVars
<1>5. /\ \A b \in Attempts : /\ handler'[b] = IF b = a THEN "off" ELSE handler[b]
                             /\ attempt'[b] = IF b = a THEN Outcome(a) ELSE attempt[b]
      /\ \A e \in Deliveries : delivery'[e] = IF e = a[1] THEN DeliveryAfter(a) ELSE delivery[e]
  BY <1>1, <1>2 DEF NotificationIInv, NotificationTypeOK
<1>6. SucceededIsAccepted' /\ SentIsAccepted'
  <2>1. accepted' = accepted
    BY <1>1 DEF slackVars
  <2>2. QED
    BY <1>3, <1>5, <2>1 DEF NotificationIInv, SucceededIsAccepted, SentIsAccepted
<1>7. HandlersAreDue'
  <2> SUFFICES ASSUME NEW b \in Attempts, handler'[b] # "off"
               PROVE  \/ attempt'[b] = "started" /\ delivery'[b[1]] # "succeeded"
                      \/ /\ attempt'[b] = "succeeded" /\ delivery'[b[1]] = "succeeded"
                         /\ handler'[b] = "retryable_failure"
    BY DEF HandlersAreDue
  <2>1. b # a /\ handler[b] # "off"
    BY <1>5
  <2>2. b[1] # a[1]
    BY <1>1, <2>1, OneHandler
  <2>3. QED
    BY <1>5, <2>1, <2>2, AttemptParts DEF NotificationIInv, HandlersAreDue
<1>8. AttemptsInOrder'
  <2>1. asking' = asking
    BY <1>1 DEF workflowVars
  <2>2. ASSUME NEW b \in Attempts, b[2] < asking[b[1]]
        PROVE  attempt'[b] = "retryable_failure"
    BY <1>2, <1>5, <2>2 DEF NotificationIInv, AttemptsInOrder
  <2>3. ASSUME NEW b \in Attempts, NEW e \in Attempts, b[1] = e[1], b[2] < e[2],
               attempt'[e] # "none"
        PROVE  attempt'[b] = "retryable_failure"
    <3>1. attempt[e] # "none"
      BY <1>2, <1>5, <2>3
    <3>2. attempt[b] = "retryable_failure"
      BY <2>3, <3>1 DEF NotificationIInv, AttemptsInOrder
    <3>3. QED
      BY <1>2, <1>5, <3>2
  <2>4. QED
    BY <2>1, <2>2, <2>3 DEF AttemptsInOrder
<1>9. Sending' = Sending /\ \A b \in Sending : b \in Attempts /\ handler'[b] = handler[b]
  BY <1>1, <1>5 DEF Sending
<1>10. ClaimIsHeld' /\ ThreadIsKnown' /\ RootIsUpToDate'
  BY <1>1, <1>9
     DEF NotificationIInv, ClaimIsHeld, ThreadIsKnown, RootIsUpToDate, threadVars, slackVars
<1>11. RootsAreAccountedFor'
  <2>1. Opened => Opened'
    BY <1>1, <1>5 DEF Opened, OpensThread, threadVars
  <2>2. QED
    BY <1>1, <2>1, RootsStayAccountedFor DEF slackVars
<1>12. QED
  BY <1>4, <1>6, <1>7, <1>8, <1>10, <1>11 DEF NotificationIInv

\* Only a claim expires under which nobody writes.
LEMMA ExpiryKeepsNotificationIInv ==
    ASSUME NotificationIInv, ClaimExpires
    PROVE  NotificationIInv'
<1>1. /\ claimExpired' = TRUE
      /\ UNCHANGED <<delivery, attempt, workflowVars, routed, handler, toThread, slackThread,
                     slackVars, troubles>>
      /\ \A n \in Sequences : handler[<<slackThread.claim, n>>] \notin {"root", "reply", "sent"}
  BY DEF ClaimExpires
<1>2. Sending = {} /\ Sending' = {}
  <2>1. \A a \in Attempts : a \notin Sending
    <3> SUFFICES ASSUME NEW a \in Attempts, a \in Sending PROVE FALSE
      OBVIOUS
    <3>1. a = <<slackThread.claim, a[2]>> /\ a[2] \in Sequences
      BY AttemptParts DEF NotificationIInv, ClaimIsHeld
    <3>2. QED
      BY <1>1, <3>1 DEF Sending
  <2>2. QED
    BY <1>1, <2>1 DEF Sending
<1>3. ClaimIsHeld' /\ ThreadIsKnown'
  BY <1>2 DEF ClaimIsHeld, ThreadIsKnown
<1>4. NotificationTypeOK' /\ SucceededIsAccepted' /\ AttemptsInOrder' /\ HandlersAreDue'
  BY <1>1 DEF NotificationIInv, NotificationTypeOK, SucceededIsAccepted, AttemptsInOrder,
     HandlersAreDue, workflowVars, slackVars
<1>5. RootIsUpToDate' /\ RootsAreAccountedFor' /\ SentIsAccepted'
  BY <1>1 DEF NotificationIInv, RootIsUpToDate, RootsAreAccountedFor, SentIsAccepted,
     OpensThread, slackVars
<1>6. QED
  BY <1>3, <1>4, <1>5 DEF NotificationIInv

LEMMA NextKeepsNotificationIInv ==
    ASSUME NotificationIInv, [NotificationNext]_notificationVars
    PROVE  NotificationIInv'
<1>1. ASSUME NEW d \in Deliveries, Emit(d) \/ WorkflowSteps(d) \/ WorkflowFails(d)
      PROVE  NotificationIInv'
  BY <1>1, WorkflowKeepsNotificationIInv, BeginKeepsNotificationIInv DEF WorkflowSteps
<1>2. ASSUME NEW a \in Attempts,
             \/ HandlerSteps(a) \/ Refused(a) \/ LosesAnswer(a) \/ FinishFails(a)
             \/ HandlerDies(a)
      PROVE  NotificationIInv'
  BY <1>2, ClaimKeepsNotificationIInv, SendKeepsNotificationIInv, CompleteKeepsNotificationIInv,
     FinishKeepsNotificationIInv, LeavingKeepsNotificationIInv DEF HandlerSteps
<1>3. CASE RouteChanges \/ UNCHANGED notificationVars
  <2>1. /\ UNCHANGED <<delivery, attempt, asking, sleeping, handler, toThread, threadVars, slackVars>>
        /\ UNCHANGED troubles \/ Trouble
        /\ routed' = ~routed \/ routed' = routed
    BY <1>3 DEF RouteChanges, notificationVars, workflowVars, threadVars, slackVars
  <2>2. /\ delivery \in [Deliveries -> {"none", "pending", "delivering", "retrying",
                                        "succeeded", "failed"}]
        /\ asking \in [Deliveries -> 0..MaxAttempts] /\ sleeping \subseteq Deliveries
        /\ routed' \in BOOLEAN
        /\ \A a \in Attempts : a[2] < asking[a[1]] => attempt[a] = "retryable_failure"
    BY <2>1 DEF NotificationIInv, NotificationTypeOK, AttemptsInOrder
  <2>3. QED
    BY <2>1, <2>2, RestfulStep
<1>4. QED
  BY <1>1, <1>2, <1>3, ExpiryKeepsNotificationIInv DEF NotificationNext, Settled

LEMMA NextKeepsSuccess ==
    ASSUME NotificationIInv, [NotificationNext]_notificationVars,
           NEW d \in Deliveries, delivery[d] = "succeeded"
    PROVE  delivery'[d] = "succeeded" \/ Misjudged(d)
<1> USE DEF NotificationIInv, NotificationTypeOK
<1>1. CASE UNCHANGED delivery
  BY <1>1
<1>2. ASSUME NEW e \in Deliveries, Emit(e) \/ AskDecided(e) \/ Claim(e)
      PROVE  delivery'[d] = "succeeded"
  BY <1>2 DEF Emit, AskDecided, Claim
<1>3. ASSUME NEW a \in Attempts, FinishAttempt(a)
      PROVE  delivery'[d] = "succeeded" \/ Misjudged(d)
  <2>1. handler[a] # "off" /\ delivery' = [delivery EXCEPT ![a[1]] = DeliveryAfter(a)]
    BY <1>3 DEF FinishAttempt
  <2>2. CASE a[1] # d
    BY <2>1, <2>2
  <2>3. CASE a[1] = d
    <3>1. attempt[a] = "succeeded" /\ handler[a] = "retryable_failure"
      BY <2>1, <2>3 DEF HandlersAreDue
    <3>2. a = <<d, a[2]>> /\ a[2] \in Sequences
      BY <2>3, AttemptParts
    <3>3. QED
      BY <3>1, <3>2 DEF Misjudged
  <2>4. QED
    BY <2>2, <2>3
<1>4. ASSUME NEW a \in Attempts, FinishFails(a)
      PROVE  delivery'[d] = "succeeded"
  BY <1>4 DEF FinishFails
<1>5. QED
  BY <1>1, <1>2, <1>3, <1>4 DEF NotificationNext, notificationVars, WorkflowSteps, StartWorkflow,
     Wakes, WorkflowFails, HandlerSteps, ClaimThread, SendRoot, SendReply, CompleteThread, Refused,
     LosesAnswer, HandlerDies, RouteChanges, ClaimExpires, Settled

\* Claims are taken and given back without a change of what the thread knows.
LEMMA ClaimKeepsTheThread ==
    ASSUME NotificationIInv, slackThread.message, NEW a \in Attempts,
           ClaimThread(a) \/ Refused(a) \/ LosesAnswer(a) \/ FinishFails(a)
    PROVE  slackThread'.latest = slackThread.latest /\ slackThread'.message
<1>1. /\ slackThread \in [claim : 0..NoOfDeliveries, message : BOOLEAN, latest : 0..NoOfDeliveries]
      /\ slackThread.latest # 0
  BY DEF NotificationIInv, NotificationTypeOK, RootIsUpToDate
<1>2. \/ slackThread' = slackThread
      \/ slackThread' = [slackThread EXCEPT !.claim = Nobody]
      \/ slackThread' = [slackThread EXCEPT !.claim = a[1],
                            !.latest = IF slackThread.latest = 0 THEN a[1] ELSE slackThread.latest]
  <2>1. CASE ClaimThread(a)
    BY <2>1 DEF ClaimThread, threadVars
  <2>2. CASE Refused(a) \/ LosesAnswer(a) \/ FinishFails(a)
    BY <2>2 DEF Refused, LosesAnswer, FinishFails, ReleaseThread
  <2>3. QED
    BY <2>1, <2>2
<1>3. QED
  BY <1>1, <1>2

LEMMA NextKeepsTheLatest ==
    ASSUME NotificationIInv, NotificationIInv', [NotificationNext]_notificationVars,
           slackThread.message
    PROVE  /\ slackThread'.latest >= slackThread.latest
           /\ Sending' = {} => shown' >= slackThread'.latest
<1>1. slackThread.latest \in Nat /\ slackThread.latest # 0
  BY BoundsOfNotifications DEF NotificationIInv, NotificationTypeOK, RootIsUpToDate
<1>2. \/ slackThread'.latest = slackThread.latest
      \/ \E a \in Attempts : CompleteThread(a)
  <2>1. CASE UNCHANGED slackThread
    BY <2>1
  <2>2. ASSUME NEW a \in Attempts, ClaimThread(a) \/ Refused(a) \/ LosesAnswer(a) \/ FinishFails(a)
        PROVE  slackThread'.latest = slackThread.latest
    BY <2>2, ClaimKeepsTheThread
  <2>3. QED
    BY <2>1, <2>2 DEF NotificationNext, notificationVars, Emit, WorkflowSteps, StartWorkflow, Wakes,
       AskDecided, Claim, WorkflowFails, HandlerSteps, SendRoot, SendReply, FinishAttempt,
       HandlerDies, RouteChanges, ClaimExpires, Settled, threadVars
<1>3. slackThread'.latest >= slackThread.latest
  BY <1>1, <1>2, CompleteKeepsNotificationIInv
<1>4. slackThread'.message
  <2>1. ASSUME NEW a \in Attempts, ClaimThread(a) \/ Refused(a) \/ LosesAnswer(a) \/ FinishFails(a)
        PROVE  slackThread'.message
    BY <2>1, ClaimKeepsTheThread
  <2>2. ASSUME NEW a \in Attempts
        PROVE  CompleteThread(a) => slackThread'.message
    BY DEF CompleteThread
  <2>3. QED
    BY <2>1, <2>2 DEF NotificationNext, notificationVars, Emit, WorkflowSteps, StartWorkflow, Wakes,
       AskDecided, Claim, WorkflowFails, HandlerSteps, SendRoot, SendReply, FinishAttempt,
       HandlerDies, RouteChanges, ClaimExpires, Settled, threadVars
<1>5. QED
  BY <1>3, <1>4 DEF NotificationIInv, RootIsUpToDate

\* The inductive invariant of notifications holds in every reachable state.
THEOREM NotificationInvariance == NotificationSpec => []NotificationIInv
<1>1. NotificationInit => NotificationIInv
  BY InitNotificationIInv
<1>2. NotificationIInv /\ [NotificationNext]_notificationVars => NotificationIInv'
  BY NextKeepsNotificationIInv
<1>3. QED
  BY <1>1, <1>2, PTL DEF NotificationSpec

\* One attempt at a time writes to a thread, every further root takes a lost
\* answer or a dead handler, and success is of what the provider accepted: for
\* any number of deliveries and attempts.
THEOREM ThreadsAreSound == NotificationSpec => []ThreadInv
<1>1. QED
  BY NotificationsAreSound, NotificationInvariance, PTL

\* A delivery that succeeded stays so, unless the attempt that succeeded takes its own
\* success for a failure (executeNotificationDeliveryAttempt).
THEOREM SuccessStays == NotificationSpec => SucceededStays
<1>1. NotificationIInv /\ [NotificationNext]_notificationVars =>
        [\A d \in Deliveries :
            delivery[d] = "succeeded" =>
               delivery'[d] = "succeeded" \/ Misjudged(d)]_notificationVars
  BY NextKeepsSuccess
<1>2. QED
  BY <1>1, NotificationInvariance, PTL DEF NotificationSpec, SucceededStays

\* The latest event of a thread, and the root between two writers, never go back.
THEOREM RootsMoveForward == NotificationSpec => RootNeverGoesBack
<1>1. NotificationIInv /\ NotificationIInv' /\ [NotificationNext]_notificationVars =>
        [slackThread.message =>
           /\ slackThread'.latest >= slackThread.latest
           /\ Sending' = {} => shown' >= slackThread'.latest]_notificationVars
  BY NextKeepsTheLatest
<1>2. QED
  BY <1>1, NotificationInvariance, PTL DEF NotificationSpec, RootNeverGoesBack

-----------------------------------------------------------------------------
(***************************************************************************)
(* The composition.                                                        *)
(***************************************************************************)

\* Whichever of the three runs, the other ones stutter.
LEMMA StepsOfTheSystem ==
    ASSUME [SystemNext]_systemVars
    PROVE  [ScanNext]_allVars /\ [NotificationNext]_notificationVars
BY DEF SystemNext, systemVars, InScans, OnHost, OfNotifications

LEMMA SystemRunsScans == SystemSpec => ScanSpec
<1>1. SystemInit => ScanInit
  BY DEF SystemInit
<1>2. [SystemNext]_systemVars => [ScanNext]_allVars
  BY StepsOfTheSystem
<1>3. QED
  BY <1>1, <1>2, PTL DEF SystemSpec, ScanSpec

LEMMA SystemRunsNotifications == SystemSpec => NotificationSpec
<1>1. SystemInit => NotificationInit
  BY DEF SystemInit
<1>2. [SystemNext]_systemVars => [NotificationNext]_notificationVars
  BY StepsOfTheSystem
<1>3. QED
  BY <1>1, <1>2, PTL DEF SystemSpec, NotificationSpec

\* What was decided, delivered or shown is not undone.
THEOREM SystemGoesForward == SystemSpec => NothingGoesBack
BY SystemRunsScans, SystemRunsNotifications, DecisionsOfScansStay, SuccessStays, RootsMoveForward,
   PTL DEF NothingGoesBack
=============================================================================
