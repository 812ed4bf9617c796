-------------------------- MODULE VulnerabilityScan --------------------------
(***************************************************************************)
(* The scans of image digests on one server: the rows of                   *)
(* areas/vulnerability-scans/service.ts, the activity that works on one    *)
(* cycle of a row (activities/vulnerability-scan.ts), and the server       *)
(* coordinator both meet at, which is ServerCoordinator itself.            *)
(*                                                                         *)
(* A row is asked for by the success of a deployment or by a user, signals *)
(* are sent after the transaction and may be lost, a sweep of maintenance  *)
(* sends them again; the coordinator drops an identity it has seen.        *)
(* `faults' counts what may go wrong: lost signals, failed or unanswered   *)
(* requests, stopped workers, executors later than the lease.              *)
(***************************************************************************)
EXTENDS ServerCoordinator

CONSTANTS
    Scans,             \* rows: image digests of the workspace
    AppOf,             \* the application whose deployment asked for the row
    MaxRequestedCycle, \* users ask again up to this cycle
    MaxFaults,         \* bound of `faults'
    Runs               \* activities that may work on one identity

MaxCycle == MaxRequestedCycle + MaxFaults
Cycles == 1..MaxCycle

ScanItem(s, c) == [kind |-> "vulnerability-scan", id |-> s, cycle |-> c,
                   app |-> AppOf[s], priority |-> "production", exclusive |-> FALSE]
ScanItems == {ScanItem(s, c) : s \in Scans, c \in Cycles}
Work(s, c) == serverWorkIdentity(ScanItem(s, c))

ASSUME ScanBounds == MaxRequestedCycle \in Nat \ {0} /\ MaxFaults \in Nat
ASSUME ScanItemsAssumption == ScanItems \subseteq Items

VARIABLES
    row,       \* s |-> [state, cycle, findings: the cycle they belong to or 0]
    expired,   \* the rows whose lease of sixty minutes has run out
    signals,   \* <<s, c>> that the API is about to signal
    executor,  \* <<s, c, run>> |-> where that activity is
    faults

scanVars == <<row, expired, signals, executor, faults>>
allVars == <<vars, scanVars>>

RowStates == {"absent", "pending", "running", "clean", "findings", "failed"}
Decided == {"clean", "findings", "failed"}

Executors == Scans \X Cycles \X Runs
Busy == {"reading", "marking", "scanning", "posting", "failing"}

CanFail == faults < MaxFaults
Fault == CanFail /\ faults' = faults + 1

ScanInit ==
    /\ Init
    /\ row = [s \in Scans |-> [state |-> "absent", cycle |-> 0, findings |-> 0]]
    /\ expired = {}
    /\ signals = {}
    /\ executor = [e \in Executors |-> "off"]
    /\ faults = 0

-----------------------------------------------------------------------------
(***************************************************************************)
(* The API.                                                                *)
(***************************************************************************)

\* The first request for a digest creates its row; any other that is not
\* forced is a replay.
RequestScan(s) ==
    /\ row[s].state = "absent"
    /\ row' = [row EXCEPT ![s] = [state |-> "pending", cycle |-> 1, findings |-> 0]]
    /\ signals' = signals \cup {<<s, 1>>}
    /\ UNCHANGED <<vars, expired, executor, faults>>

\* A forced request opens the next cycle of a decided row and deletes its
\* findings; a pending row is replayed, a running one refused.
Rescan(s) ==
    /\ row[s].state \in Decided
    /\ row[s].cycle < MaxRequestedCycle
    /\ row' = [row EXCEPT ![s] =
                 [state |-> "pending", cycle |-> row[s].cycle + 1, findings |-> 0]]
    /\ signals' = signals \cup {<<s, row[s].cycle + 1>>}
    /\ UNCHANGED <<vars, expired, executor, faults>>

\* signalWithStart reaches the coordinator.
SignalScan(s, c) ==
    /\ <<s, c>> \in signals
    /\ signals' = signals \ {<<s, c>>}
    /\ \E b \in BuildLimits, p \in PreviewLimits :
          EnqueueServerWork(ScanItem(s, c), b, p)
    /\ UNCHANGED <<row, expired, executor, faults>>

\* The signal fails or the API stops before it: the failure is swallowed.
LoseSignal(s, c) ==
    /\ <<s, c>> \in signals
    /\ signals' = signals \ {<<s, c>>}
    /\ Fault
    /\ UNCHANGED <<vars, row, expired, executor>>

\* The sixty minutes of a running row are over.  An activity is ended by
\* then (the scanner is given 45 minutes) unless something held it up.
LeaseExpires(s) ==
    /\ row[s].state = "running"
    /\ s \notin expired
    /\ expired' = expired \cup {s}
    /\ IF \E run \in Runs : executor[<<s, row[s].cycle, run>>] \in Busy \ {"reading", "marking"}
       THEN Fault
       ELSE UNCHANGED faults
    /\ UNCHANGED <<vars, row, signals, executor>>

\* Mutant: the sweep leaves abandoned rows alone.
NeverRecovered(s) == row[s]

\* What the sweep makes of a row: one whose lease ran out starts a new cycle.
Recovered(s) ==
    IF s \in expired
    THEN [row[s] EXCEPT !.state = "pending", !.cycle = @ + 1]
    ELSE row[s]

\* The sweep recovers abandoned rows, then signals every pending one.
Sweep ==
    LET swept == [s \in Scans |-> Recovered(s)]
        due == {<<s, swept[s].cycle>> : s \in {t \in Scans : swept[t].state = "pending"}}
    IN  /\ ~(due \subseteq signals) \/ expired # {}
        /\ \A s \in expired : row[s].cycle < MaxCycle
        /\ row' = swept
        /\ expired' = {}
        /\ signals' = signals \cup due
        /\ UNCHANGED <<vars, executor, faults>>

-----------------------------------------------------------------------------
(***************************************************************************)
(* The activity.                                                           *)
(***************************************************************************)
To(e, place) == executor' = [executor EXCEPT ![e] = place]

\* The coordinator starts the child workflow of an identity.
StartScan(s, c, run) ==
    /\ executor[<<s, c, run>>] = "off"
    /\ \E i \in DOMAIN queue : serverWorkIdentity(queue[i]) = Work(s, c) /\ StartWork(i)
    /\ To(<<s, c, run>>, "reading")
    /\ UNCHANGED <<row, expired, signals, faults>>

\* Another cycle, or a row that is not pending, is none of its business.
ReadContext(e) ==
    LET s == e[1] IN
    /\ executor[e] = "reading"
    /\ To(e, IF row[s].cycle = e[2] /\ row[s].state = "pending" THEN "marking" ELSE "off")
    /\ UNCHANGED <<vars, row, expired, signals, faults>>

\* Mutant: the context it read decides.
AcceptsAnyPending(e) == row[e[1]].state \in {"pending", "running"} /\ row[e[1]].cycle = e[2]

\* markVulnerabilityScanRunning takes a pending row of that cycle.
AcceptsRunning(e) == row[e[1]].state = "pending" /\ row[e[1]].cycle = e[2]

\* An answer that was lost is asked for again: the row is running by then,
\* the second answer is a refusal, and nobody scans.
MarkRunning(e) ==
    LET s == e[1] IN
    /\ executor[e] = "marking"
    /\ IF AcceptsRunning(e)
       THEN /\ row' = [row EXCEPT ![s].state = "running"]
            /\ \/ To(e, "scanning") /\ UNCHANGED faults
               \/ To(e, "off") /\ Fault
       ELSE To(e, "off") /\ UNCHANGED <<row, faults>>
    /\ UNCHANGED <<vars, expired, signals>>

ScannerEnds(e) ==
    /\ executor[e] = "scanning"
    /\ To(e, "posting") \/ To(e, "failing")
    /\ UNCHANGED <<vars, row, expired, signals, faults>>

\* completeVulnerabilityScan takes a running row of that cycle.
AcceptsResult(e) == row[e[1]].state = "running" /\ row[e[1]].cycle = e[2]

\* The result, or its answer, may be lost: the activity then posts a failure.
PostCompleted(e) ==
    LET s == e[1] IN
    /\ executor[e] = "posting"
    /\ \/ /\ IF AcceptsResult(e)
             THEN \/ row' = [row EXCEPT ![s].state = "findings", ![s].findings = e[2]]
                  \/ row' = [row EXCEPT ![s].state = "clean", ![s].findings = 0]
             ELSE UNCHANGED row
          /\ expired' = IF AcceptsResult(e) THEN expired \ {s} ELSE expired
          /\ \/ To(e, "off") /\ UNCHANGED faults
             \/ To(e, "failing") /\ Fault
       \/ /\ To(e, "failing") /\ Fault
          /\ UNCHANGED <<row, expired>>
    /\ UNCHANGED <<vars, signals>>

\* failVulnerabilityScan takes a pending or running row of that cycle.
AcceptsFailure(e) ==
    row[e[1]].state \in {"pending", "running"} /\ row[e[1]].cycle = e[2]

\* The failure is posted; whether that succeeds, nobody asks.
PostFailed(e) ==
    LET s == e[1] IN
    /\ executor[e] = "failing"
    /\ \/ /\ row' = IF AcceptsFailure(e) THEN [row EXCEPT ![s].state = "failed"] ELSE row
          /\ expired' = IF AcceptsFailure(e) THEN expired \ {s} ELSE expired
          /\ UNCHANGED faults
       \/ Fault /\ UNCHANGED <<row, expired>>
    /\ To(e, "off")
    /\ UNCHANGED <<vars, signals>>

\* A request before the scan fails for good.
RequestFails(e) ==
    /\ executor[e] \in {"reading", "marking"}
    /\ Fault
    /\ To(e, "failing")
    /\ UNCHANGED <<vars, row, expired, signals>>

\* The worker process stops.
WorkerStops(e) ==
    /\ executor[e] \in Busy
    /\ Fault
    /\ To(e, "off")
    /\ UNCHANGED <<vars, row, expired, signals>>

\* The coordinator learns that the work ended: because the activity ended,
\* or because Temporal gave up on it: the activity sends one heartbeat and
\* the timeout is a minute, so every longer scan is given up on while the
\* scanner goes on.  A request that takes as long counts as a fault.
ScanWorkEnds(s, c) ==
    /\ WorkEnds(Work(s, c))
    /\ IF \E run \in Runs : executor[<<s, c, run>>] \in {"reading", "marking"}
       THEN Fault
       ELSE UNCHANGED faults
    /\ UNCHANGED <<row, expired, signals, executor>>

Coordinate ==
    /\ Drain \/ Await \/ Wake
    /\ UNCHANGED scanVars

CoordinatorCloses == IdleTimeout /\ UNCHANGED scanVars

ActivityStep(e) ==
    ReadContext(e) \/ MarkRunning(e) \/ ScannerEnds(e) \/ PostCompleted(e) \/ PostFailed(e)

ScanNext ==
    \/ \E s \in Scans :
          RequestScan(s) \/ Rescan(s) \/ LeaseExpires(s)
    \/ \E s \in Scans, c \in Cycles :
          SignalScan(s, c) \/ LoseSignal(s, c) \/ ScanWorkEnds(s, c)
    \/ \E s \in Scans, c \in Cycles, run \in Runs : StartScan(s, c, run)
    \/ Sweep
    \/ \E e \in Executors : ActivityStep(e) \/ RequestFails(e) \/ WorkerStops(e)
    \/ Coordinate
    \/ CoordinatorCloses

ScanSpec == ScanInit /\ [][ScanNext]_allVars

(***************************************************************************)
(* The sweep runs every five minutes and signals what it found, activities *)
(* end or are stopped, leases run out, Temporal runs the coordinator and,  *)
(* since nothing but scans is signalled here, its ten idle minutes come.   *)
(***************************************************************************)
ScanFairness ==
    /\ WF_allVars(Sweep)
    /\ WF_allVars(Coordinate)
    /\ WF_allVars(CoordinatorCloses)
    /\ WF_allVars(\E s \in Scans : LeaseExpires(s))
    /\ WF_allVars(\E s \in Scans, c \in Cycles : SignalScan(s, c))
    /\ WF_allVars(\E s \in Scans, c \in Cycles : ScanWorkEnds(s, c))
    /\ WF_allVars(\E s \in Scans, c \in Cycles, run \in Runs : StartScan(s, c, run))
    /\ WF_allVars(\E e \in Executors : ActivityStep(e))

ScanFairSpec == ScanSpec /\ ScanFairness

-----------------------------------------------------------------------------
\* The types, and a lease that ran out is the lease of a running row.
ScanTypeOK ==
    /\ row \in [Scans -> [state : RowStates, cycle : 0..MaxCycle, findings : 0..MaxCycle]]
    /\ expired \subseteq {s \in Scans : row[s].state = "running"}
    /\ signals \subseteq Scans \X Cycles
    /\ executor \in [Executors -> Busy \cup {"off"}]
    /\ faults \in 0..MaxFaults

\* The findings a user is shown are those of the cycle the row is in, and
\* only a row with findings shows any: neither an abandoned executor nor a
\* scan that was asked for again leaves findings of an older cycle behind.
FindingsBelong ==
    \A s \in Scans :
        row[s].findings = (IF row[s].state = "findings" THEN row[s].cycle ELSE 0)

\* For one cycle of a row at most one activity scans the image and posts
\* what it finds, however often the cycle was signalled and started.
Scanning(e) == executor[e] \in {"scanning", "posting"}
OneScanPerCycle ==
    \A s \in Scans, c \in Cycles, r1, r2 \in Runs :
        Scanning(<<s, c, r1>>) /\ Scanning(<<s, c, r2>>) => r1 = r2

\* What holds of scans at every moment: the types, findings of the row's own
\* cycle, and one scan of a cycle.
ScanInv == ScanTypeOK /\ FindingsBelong /\ OneScanPerCycle

\* What was decided stays decided until a user asks for the next cycle.
DecidedStays ==
    [][\A s \in Scans :
          row[s].state \in Decided =>
             \/ row'[s] = row[s]
             \/ row'[s].cycle = row[s].cycle + 1 /\ row'[s].state = "pending"]_allVars

\* A scan that was asked for is decided at last, whatever was lost: no row stays
\* undecided for ever.
RequestedIsScanned == []<>(\A s \in Scans : row[s].state \in Decided \cup {"absent"})

\* server-scheduling.test.ts:203 "runs at most one vulnerability scan per
\* server": at most one activity has the scanner run on the host.
OneScannerOnServer ==
    \A e, f \in Executors :
        executor[e] = "scanning" /\ executor[f] = "scanning" => e = f
=============================================================================
