---------------------------- MODULE ServerUpkeep ----------------------------
(***************************************************************************)
(* The preparations and checks of one server: the rows and the server they *)
(* are about (areas/servers: lifecycle.ts, preparations.ts, checks.ts,     *)
(* service.ts), their turn at the server's coordinator, which runs both as *)
(* barriers, and the activities that work on the host.                     *)
(*                                                                         *)
(* A configuration has inputs of preparation; one that differs in nothing  *)
(* else needs no preparation.  The credentials of a removed server are     *)
(* gone, so no context is given out for it.                                *)
(***************************************************************************)
EXTENDS Naturals

CONSTANTS
    Preparations, Checks,   \* the rows there may be
    Configs,
    PreparationInputs,      \* configuration |-> serverPreparationInputs
    NoConfig,
    MaxUpsets               \* bound on what goes wrong

ASSUME UpkeepAssumption ==
    /\ Preparations \cap Checks = {}
    /\ NoConfig \notin Configs
    /\ MaxUpsets \in Nat

VARIABLES
    server,     \* the row of the server
    jobRow,     \* i |-> [status, config]: server_preparations and server_checks
    requester,  \* i |-> where the API is that makes row i
    slot,       \* i |-> where the coordinator is with i
    hand,       \* i |-> where the activity is
    hostReady,  \* the inputs the host has been prepared with
    upsets

upkeepVars == <<server, jobRow, requester, slot, hand, hostReady, upsets>>

Jobs == Preparations \cup Checks
Unfinished == {"queued", "running"}
AtHost == {"context", "acting", "succeeded", "failed"}

Upset == upsets < MaxUpsets /\ upsets' = upsets + 1

Ready == server.preparedAt /\ server.preparedDigest = server.config

UpkeepInit ==
    /\ server \in [archived : {FALSE}, config : Configs,
                   preparedAt : {FALSE}, preparedDigest : {NoConfig}]
    /\ jobRow = [i \in Jobs |-> [status |-> "none", config |-> NoConfig]]
    /\ requester = [i \in Jobs |-> "off"]
    /\ slot = [i \in Jobs |-> "none"]
    /\ hand = [i \in Jobs |-> "off"]
    /\ hostReady = {}
    /\ upsets = 0

-----------------------------------------------------------------------------
(***************************************************************************)
(* The server.                                                             *)
(***************************************************************************)

\* Mutant: a server that was ever prepared stays so.
KeepsPreparationOnce(config) ==
    server.preparedAt /\ PreparationInputs[server.config] = PreparationInputs[config]

\* preservePreparation
KeepsPreparation(config) ==
    Ready /\ PreparationInputs[server.config] = PreparationInputs[config]

UpdateServer(config) ==
    /\ ~server.archived
    /\ server' = [server EXCEPT !.config = config,
           !.preparedDigest = IF KeepsPreparation(config) THEN config ELSE @]
    /\ UNCHANGED <<jobRow, requester, slot, hand, hostReady, upsets>>

\* SERVER_BUSY
ServerBusy == \E i \in Jobs : jobRow[i].status \in Unfinished

RemoveServer ==
    /\ ~server.archived /\ ~ServerBusy
    /\ server' = [server EXCEPT !.archived = TRUE, !.preparedAt = FALSE,
                                !.preparedDigest = NoConfig]
    /\ UNCHANGED <<jobRow, requester, slot, hand, hostReady, upsets>>

\* createServer for an address that was removed.
AddServer(config) ==
    /\ server.archived
    /\ server' = [server EXCEPT !.archived = FALSE, !.config = config,
           !.preparedDigest =
               IF PreparationInputs[server.config] = PreparationInputs[config]
               THEN config ELSE @]
    /\ UNCHANGED <<jobRow, requester, slot, hand, hostReady, upsets>>

-----------------------------------------------------------------------------
(***************************************************************************)
(* Requests: the server is read, the row inserted, the signal sent.        *)
(***************************************************************************)

RequestPreparation(p) ==
    /\ jobRow[p].status = "none" /\ requester[p] = "off"
    /\ ~server.archived /\ ~Ready
    /\ \A q \in Preparations : jobRow[q].status \notin Unfinished
    /\ requester' = [requester EXCEPT ![p] = "read"]
    /\ jobRow' = [jobRow EXCEPT ![p].config = server.config]
    /\ UNCHANGED <<server, slot, hand, hostReady, upsets>>

RequestCheck(c) ==
    /\ jobRow[c].status = "none" /\ requester[c] = "off"
    /\ ~server.archived
    /\ requester' = [requester EXCEPT ![c] = "read"]
    /\ UNCHANGED <<server, jobRow, slot, hand, hostReady, upsets>>

\* The index of unfinished preparations refuses a second one.
InsertJob(i) ==
    /\ requester[i] = "read"
    /\ IF /\ i \in Preparations
          /\ \E q \in Preparations : jobRow[q].status \in Unfinished
       THEN requester' = [requester EXCEPT ![i] = "off"] /\ UNCHANGED jobRow
       ELSE /\ requester' = [requester EXCEPT ![i] = "signalling"]
            /\ jobRow' = [jobRow EXCEPT ![i].status = "queued"]
    /\ UNCHANGED <<server, slot, hand, hostReady, upsets>>

SignalJob(i) ==
    /\ requester[i] = "signalling"
    /\ requester' = [requester EXCEPT ![i] = "off"]
    /\ slot' = [slot EXCEPT ![i] = "waiting"]
    /\ UNCHANGED <<server, jobRow, hand, hostReady, upsets>>

\* The call fails, whether the signal has arrived or not ...
JobSignalFails(i) ==
    /\ requester[i] = "signalling" /\ Upset
    /\ requester' = [requester EXCEPT ![i] = "failing"]
    /\ slot' \in {slot, [slot EXCEPT ![i] = "waiting"]}
    /\ UNCHANGED <<server, jobRow, hand, hostReady>>

\* ... and the row is failed by its id, whatever has become of it.
FailJob(i) ==
    /\ requester[i] = "failing"
    /\ requester' = [requester EXCEPT ![i] = "off"]
    /\ jobRow' = [jobRow EXCEPT ![i].status = "failed"]
    /\ UNCHANGED <<server, slot, hand, hostReady, upsets>>

\* The API stops.
RequestIsLost(i) ==
    /\ requester[i] # "off" /\ Upset
    /\ requester' = [requester EXCEPT ![i] = "off"]
    /\ UNCHANGED <<server, jobRow, slot, hand, hostReady>>

-----------------------------------------------------------------------------
(***************************************************************************)
(* The coordinator.                                                        *)
(***************************************************************************)

\* A barrier starts when nothing is at work.
StartJob(i) ==
    /\ slot[i] = "waiting"
    /\ \A k \in Jobs : slot[k] \notin {"running", "marking"}
    /\ slot' = [slot EXCEPT ![i] = "running"]
    /\ hand' = [hand EXCEPT ![i] = "context"]
    /\ UNCHANGED <<server, jobRow, requester, hostReady, upsets>>

\* What follows an activity that failed: a check is marked, a preparation not.
AfterLoss(i) == IF i \in Checks THEN "marking" ELSE "ended"

JobReturns(i) ==
    /\ slot[i] = "running" /\ hand[i] \in {"done", "thrown"}
    /\ slot' = [slot EXCEPT ![i] = IF hand[i] = "done" THEN "ended" ELSE AfterLoss(i)]
    /\ UNCHANGED <<server, jobRow, requester, hand, hostReady, upsets>>

\* The activity ran too long or sent no heartbeat; it may still be at work.
JobTimesOut(i) ==
    /\ slot[i] = "running"
    /\ IF hand[i] = "gone" THEN UNCHANGED upsets ELSE hand[i] \in AtHost /\ Upset
    /\ slot' = [slot EXCEPT ![i] = AfterLoss(i)]
    /\ UNCHANGED <<server, jobRow, requester, hand, hostReady>>

\* markServerCheckInterrupted, of the coordinator ...
MarkCheck(c) ==
    /\ slot[c] = "marking"
    /\ slot' = [slot EXCEPT ![c] = "ended"]
    /\ jobRow' = [jobRow EXCEPT ![c].status = IF @ \in Unfinished THEN "failed" ELSE @]
    /\ UNCHANGED <<server, requester, hand, hostReady, upsets>>

\* ... whose mark may not get through.
MarkIsLost(c) ==
    /\ slot[c] = "marking" /\ Upset
    /\ slot' = [slot EXCEPT ![c] = "ended"]
    /\ UNCHANGED <<server, jobRow, requester, hand, hostReady>>

\* Mutant: the sweep leaves a check alone once its coordinator is through with it.
IsOverdueUnmarked(c) == jobRow[c].status = "running" /\ slot[c] = "marking"

\* Three minutes after its start, when its activity has timed out.
IsOverdue(c) == jobRow[c].status = "running" /\ slot[c] # "running"

\* recoverInterruptedServerChecks
RecoverCheck(c) ==
    /\ IsOverdue(c)
    /\ jobRow' = [jobRow EXCEPT ![c].status = "failed"]
    /\ UNCHANGED <<server, requester, slot, hand, hostReady, upsets>>

-----------------------------------------------------------------------------
(***************************************************************************)
(* The activities.                                                         *)
(***************************************************************************)

HandAt(i, place) == hand' = [hand EXCEPT ![i] = place]

\* getServerPreparationExecutionContext does not look at the status.
PreparationContext(p) ==
    /\ hand[p] = "context"
    /\ IF server.archived \/ server.config # jobRow[p].config
       THEN HandAt(p, "failed") /\ UNCHANGED jobRow
       ELSE /\ HandAt(p, "acting")
            /\ jobRow' = [jobRow EXCEPT ![p].status = IF @ = "queued" THEN "running" ELSE @]
    /\ UNCHANGED <<server, requester, slot, hostReady, upsets>>

\* getServerCheckExecutionContext
CheckContext(c) ==
    /\ hand[c] = "context"
    /\ IF server.archived \/ jobRow[c].status \notin Unfinished
       THEN HandAt(c, "failed") /\ UNCHANGED jobRow
       ELSE HandAt(c, "acting") /\ jobRow' = [jobRow EXCEPT ![c].status = "running"]
    /\ UNCHANGED <<server, requester, slot, hostReady, upsets>>

\* prepareServer: its steps are refused when the row is not running any more.
Prepare(p) ==
    /\ hand[p] = "acting"
    /\ \/ /\ jobRow[p].status = "running"
          /\ hostReady' = hostReady \cup {PreparationInputs[jobRow[p].config]}
          /\ HandAt(p, "succeeded")
       \/ HandAt(p, "failed") /\ UNCHANGED hostReady
    /\ UNCHANGED <<server, jobRow, requester, slot, upsets>>

CheckServer(c) ==
    /\ hand[c] = "acting"
    /\ \E result \in {"succeeded", "failed"} : HandAt(c, result)
    /\ UNCHANGED <<server, jobRow, requester, slot, hostReady, upsets>>

\* updateServerPreparation: a success of another configuration is a failure;
\* one of this readies the server and, if there is a row left, asks for a check.
FinishPreparation(p) ==
    LET succeeded == hand[p] = "succeeded" /\ jobRow[p].config = server.config
        rows == [jobRow EXCEPT ![p].status = IF succeeded THEN "succeeded" ELSE "failed"]
        free == {c \in Checks : jobRow[c].status = "none" /\ requester[c] = "off"}
    IN  IF jobRow[p].status \notin Unfinished THEN UNCHANGED <<server, jobRow, requester>>
        ELSE IF ~succeeded \/ free = {}
        THEN /\ jobRow' = rows /\ UNCHANGED requester
             /\ server' = IF succeeded
                          THEN [server EXCEPT !.preparedAt = TRUE,
                                              !.preparedDigest = jobRow[p].config]
                          ELSE server
        ELSE \E c \in free :
             /\ jobRow' = [rows EXCEPT ![c].status = "queued"]
             /\ requester' = [requester EXCEPT ![c] = "signalling"]
             /\ server' = [server EXCEPT !.preparedAt = TRUE,
                                         !.preparedDigest = jobRow[p].config]

\* Mutant: the last report counts.
FinishCheckAnyTime(c) ==
    /\ jobRow' = [jobRow EXCEPT ![c].status = hand[c]]
    /\ UNCHANGED <<server, requester>>

\* finishServerCheck
FinishCheck(c) ==
    /\ jobRow' = [jobRow EXCEPT ![c].status = IF @ \in Unfinished THEN hand[c] ELSE @]
    /\ UNCHANGED <<server, requester>>

FinishJob(i) == IF i \in Preparations THEN FinishPreparation(i) ELSE FinishCheck(i)

Report(i) ==
    /\ hand[i] \in {"succeeded", "failed"}
    /\ FinishJob(i) /\ HandAt(i, "done")
    /\ UNCHANGED <<slot, hostReady, upsets>>

\* A report fails, recorded or not: that of a success is followed by one of a
\* failure, and that of a failure ends the activity.
ReportFails(i) ==
    /\ hand[i] \in {"succeeded", "failed"} /\ Upset
    /\ FinishJob(i) \/ UNCHANGED <<server, jobRow, requester>>
    /\ HandAt(i, IF hand[i] = "succeeded" THEN "failed" ELSE "thrown")
    /\ UNCHANGED <<slot, hostReady>>

WorkerIsLost(i) ==
    /\ hand[i] \in AtHost /\ Upset
    /\ HandAt(i, "gone")
    /\ UNCHANGED <<server, jobRow, requester, slot, hostReady>>

-----------------------------------------------------------------------------

CoordinatorSteps(i) == StartJob(i) \/ JobReturns(i) \/ JobTimesOut(i)
RequestSteps(i) == InsertJob(i) \/ SignalJob(i) \/ FailJob(i)
HandSteps(i) ==
    \/ i \in Preparations /\ (PreparationContext(i) \/ Prepare(i))
    \/ i \in Checks /\ (CheckContext(i) \/ CheckServer(i))
    \/ Report(i)

UpkeepNext ==
    \/ \E config \in Configs : UpdateServer(config) \/ AddServer(config)
    \/ RemoveServer
    \/ \E p \in Preparations : RequestPreparation(p)
    \/ \E c \in Checks : RequestCheck(c) \/ MarkCheck(c) \/ MarkIsLost(c) \/ RecoverCheck(c)
    \/ \E i \in Jobs :
         \/ RequestSteps(i) \/ JobSignalFails(i) \/ RequestIsLost(i)
         \/ CoordinatorSteps(i)
         \/ HandSteps(i) \/ ReportFails(i) \/ WorkerIsLost(i)

\* The API answers, Temporal schedules, times out and marks, workers work, and
\* maintenance runs.  Nobody has to ask for anything.
UpkeepStepsOf(i) ==
    \/ RequestSteps(i)
    \/ StartJob(i) \/ JobReturns(i) \/ (hand[i] = "gone" /\ JobTimesOut(i))
    \/ HandSteps(i)
    \/ i \in Checks /\ MarkCheck(i)
UpkeepSweep == \E c \in Checks : RecoverCheck(c)

UpkeepFairness ==
    /\ \A i \in Jobs : WF_upkeepVars(UpkeepStepsOf(i))
    /\ WF_upkeepVars(UpkeepSweep)

UpkeepSpec == UpkeepInit /\ [][UpkeepNext]_upkeepVars /\ UpkeepFairness

-----------------------------------------------------------------------------

UpkeepTypeOK ==
    /\ server \in [archived : BOOLEAN, config : Configs, preparedAt : BOOLEAN,
                    preparedDigest : Configs \cup {NoConfig}]
    /\ jobRow \in [Jobs -> [status : {"none", "queued", "running", "succeeded", "failed"},
                         config : Configs \cup {NoConfig}]]
    /\ requester \in [Jobs -> {"off", "read", "signalling", "failing"}]
    /\ slot \in [Jobs -> {"none", "waiting", "running", "marking", "ended"}]
    /\ hand \in [Jobs -> AtHost \cup {"off", "done", "thrown", "gone"}]
    /\ hostReady \subseteq {PreparationInputs[config] : config \in Configs}
    /\ upsets \in 0..MaxUpsets

(***************************************************************************)
(* A server that is shown as ready has been prepared with the inputs of the *)
(* configuration it has now: not with those of one that was replaced while *)
(* the preparation waited or ran, nor before it was removed and added      *)
(* again (preservePreparation, configChanged, requiresServerPreparation).  *)
(***************************************************************************)
ReadyMeansPrepared ==
    Ready /\ ~server.archived => PreparationInputs[server.config] \in hostReady

(***************************************************************************)
(* Nobody works at the host of a removed server on behalf of a row that is    *)
(* still shown as under way: the rows that removeServer counts cover every *)
(* activity, but for those that were given up (SERVER_BUSY and the         *)
(* contexts, against requests that read the server before it was removed). *)
(***************************************************************************)
RemovedIsIdle ==
    server.archived =>
        \A i \in Jobs : hand[i] \in {"acting", "succeeded"} => jobRow[i].status \notin Unfinished

UpkeepInv == UpkeepTypeOK /\ ReadyMeansPrepared /\ RemovedIsIdle

(***************************************************************************)
(* What a check or a preparation ended with stays: a late report, mark or  *)
(* sweep changes nothing.  Only the request whose signal failed overwrites *)
(* it, by the row's id.                                                    *)
(***************************************************************************)
UpkeepIsFinal ==
    [][\A i \in Jobs :
         jobRow[i].status \in {"succeeded", "failed"} /\ jobRow'[i].status # jobRow[i].status
            => requester[i] = "failing"]_upkeepVars

(***************************************************************************)
(* A check ends, whatever becomes of its worker, its report or its mark:   *)
(* but for one that is queued and known to nobody, because its request was *)
(* lost before its signal, or its mark after it.                           *)
(***************************************************************************)
Forgotten(c) ==
    jobRow[c].status = "queued" /\ requester[c] = "off" /\ slot[c] \in {"none", "ended"}

ChecksEnd ==
    \A c \in Checks : []<>(jobRow[c].status \notin Unfinished \/ Forgotten(c))
=============================================================================
