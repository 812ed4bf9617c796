------------------------------- MODULE MCSystem -------------------------------
(***************************************************************************)
(* Three protocols that run beside the deployments and share no state with *)
(* each other, for TLC: scans on a coordinator, the upgrade of the host,   *)
(* and notifications.  `area' is chosen once and says which of them runs;  *)
(* the properties are those of the three modules.                          *)
(***************************************************************************)
EXTENDS VulnerabilityScan, HostUpgrade, NotificationDelivery

VARIABLE area

systemVars == <<area, allVars, hostVars, notificationVars>>

TwoApps == [s \in Scans |-> IF s = "s1" THEN "web" ELSE "blog"]
JustOne == {1}
JustTwo == {2}

SystemInit ==
    /\ area \in {"scans", "host", "notifications"}
    /\ ScanInit /\ HostInit /\ NotificationInit

InScans(step) ==
    area = "scans" /\ step /\ UNCHANGED <<area, hostVars, notificationVars>>
OnHost(step) ==
    area = "host" /\ step /\ UNCHANGED <<area, allVars, notificationVars>>
OfNotifications(step) ==
    area = "notifications" /\ step /\ UNCHANGED <<area, allVars, hostVars>>

SystemNext ==
    \/ InScans(ScanNext)
    \/ OnHost(HostNext)
    \/ OfNotifications(NotificationNext)

\* ScanFairness, HostFairness and NotificationFairness: since one area runs, an
\* action of each shares a conjunct.
Fair(scanStep, hostStep, notificationStep) ==
    InScans(scanStep) \/ OnHost(hostStep) \/ OfNotifications(notificationStep)

AnySignal == \E s \in Scans, c \in Cycles : SignalScan(s, c)
AnyEnd    == \E s \in Scans, c \in Cycles : ScanWorkEnds(s, c)
AnyStart  == \E s \in Scans, c \in Cycles, run \in Runs : StartScan(s, c, run)
AnyScan   == \E e \in Executors : ActivityStep(e)
AnyExpiry == \E s \in Scans : LeaseExpires(s)
AnyHandler == \E a \in Attempts : HandlerSteps(a)

SystemFairness ==
    /\ WF_systemVars(Fair(Sweep, RowSteps, AnyHandler))
    /\ WF_systemVars(Fair(Coordinate, ActivitySteps, FALSE))
    /\ WF_systemVars(Fair(CoordinatorCloses, ThreadSteps, FALSE))
    /\ WF_systemVars(Fair(AnyExpiry, CliGoesOn, FALSE))
    /\ WF_systemVars(Fair(AnySignal, RunnerStops, FALSE))
    /\ WF_systemVars(Fair(AnyEnd, RunnerStarts, FALSE))
    /\ WF_systemVars(Fair(AnyStart, Resume, FALSE))
    /\ WF_systemVars(Fair(AnyScan, FALSE, FALSE))
    /\ \A d \in Deliveries : WF_systemVars(OfNotifications(WorkflowSteps(d)))

\* What was decided, delivered or shown is not undone: the results of scans, the
\* success of deliveries, and the latest event of a thread.
NothingGoesBack == DecidedStays /\ SucceededStays /\ RootNeverGoesBack

SystemSpec == SystemInit /\ [][SystemNext]_systemVars /\ SystemFairness
=============================================================================
