-------------------------- MODULE ServerUpkeepProofs --------------------------
(***************************************************************************)
(* Proofs about ServerUpkeep, for any preparations, checks, configurations *)
(* and number of things that go wrong, and about MonitoringAgent, for any  *)
(* number of requests, tries and things that go wrong.                     *)
(***************************************************************************)
EXTENDS ServerUpkeep, MonitoringAgent, TLAPS

\* A row is inserted before it is signalled, signalled before it has its turn,
\* and has its turn before anything is done; a preparation that was asked for
\* has a configuration.
StationsInv ==
    /\ \A i \in Jobs :
         /\ requester[i] = "read" => jobRow[i].status = "none"
         /\ requester[i] \in {"signalling", "failing"} => jobRow[i].status # "none"
         /\ requester[i] = "signalling" => slot[i] = "none"
         /\ slot[i] # "none" => jobRow[i].status # "none"
         /\ hand[i] # "off" => slot[i] \notin {"none", "waiting"}
    /\ \A p \in Preparations :
         jobRow[p].status # "none" \/ requester[p] # "off" => jobRow[p].config \in Configs

\* The host has been prepared for what the server says, whether that is the
\* configuration it has now or not, and for what is about to be reported.
PreparedInv ==
    /\ server.archived => ~server.preparedAt
    /\ server.preparedAt /\ server.preparedDigest \in Configs =>
         PreparationInputs[server.preparedDigest] \in hostReady
    /\ \A p \in Preparations :
         hand[p] = "succeeded" => PreparationInputs[jobRow[p].config] \in hostReady

UpkeepIInv == UpkeepTypeOK /\ StationsInv /\ PreparedInv /\ RemovedIsIdle

\* The step of UpkeepIsFinal.
Final ==
    \A i \in Jobs :
        jobRow[i].status \in {"succeeded", "failed"} /\ jobRow'[i].status # jobRow[i].status
            => requester[i] = "failing"

Kept == UpkeepIInv' /\ Final

LEMMA UpdateServerKeeps ==
  ASSUME UpkeepIInv, NEW config \in Configs, UpdateServer(config)
  PROVE  Kept
<1>1. UpkeepTypeOK'
  BY DEF UpkeepIInv, UpdateServer, UpkeepTypeOK
<1>2. StationsInv'
  BY DEF UpkeepIInv, UpdateServer, StationsInv
<1>3. PreparedInv'
  BY DEF UpkeepIInv, UpdateServer, KeepsPreparation, Ready, UpkeepTypeOK, PreparedInv
<1>4. RemovedIsIdle'
  BY DEF UpdateServer, RemovedIsIdle
<1>5. Final
  BY DEF UpdateServer, Final
<1> QED
  BY <1>1, <1>2, <1>3, <1>4, <1>5 DEF Kept, UpkeepIInv

LEMMA AddServerKeeps == ASSUME UpkeepIInv, NEW config \in Configs, AddServer(config) PROVE Kept
<1>1. UpkeepTypeOK'
  BY DEF UpkeepIInv, AddServer, UpkeepTypeOK
<1>2. StationsInv'
  BY DEF UpkeepIInv, AddServer, StationsInv
<1>3. PreparedInv'
  BY DEF UpkeepIInv, AddServer, PreparedInv
<1>4. RemovedIsIdle'
  BY DEF AddServer, RemovedIsIdle
<1>5. Final
  BY DEF AddServer, Final
<1> QED
  BY <1>1, <1>2, <1>3, <1>4, <1>5 DEF Kept, UpkeepIInv

LEMMA RemoveServerKeeps == ASSUME UpkeepIInv, RemoveServer PROVE Kept
<1>1. UpkeepTypeOK'
  BY DEF UpkeepIInv, RemoveServer, UpkeepTypeOK
<1>2. StationsInv'
  BY DEF UpkeepIInv, RemoveServer, StationsInv
<1>3. PreparedInv'
  BY DEF UpkeepIInv, RemoveServer, PreparedInv
<1>4. RemovedIsIdle'
  BY DEF RemoveServer, ServerBusy, RemovedIsIdle
<1>5. Final
  BY DEF RemoveServer, Final
<1> QED
  BY <1>1, <1>2, <1>3, <1>4, <1>5 DEF Kept, UpkeepIInv

LEMMA RequestPreparationKeeps ==
  ASSUME UpkeepIInv, NEW i \in Preparations, RequestPreparation(i)
  PROVE  Kept
<1>1. UpkeepTypeOK'
  BY DEF UpkeepIInv, Jobs, RequestPreparation, UpkeepTypeOK
<1>2. StationsInv'
  BY DEF UpkeepIInv, RequestPreparation, UpkeepTypeOK, StationsInv
<1>3. PreparedInv'
  BY DEF UpkeepIInv, RequestPreparation, UpkeepTypeOK, StationsInv, PreparedInv
<1>4. RemovedIsIdle'
  BY DEF RequestPreparation, RemovedIsIdle
<1>5. Final
  BY DEF RequestPreparation, Final
<1> QED
  BY <1>1, <1>2, <1>3, <1>4, <1>5 DEF Kept, UpkeepIInv

LEMMA RequestCheckKeeps == ASSUME UpkeepIInv, NEW i \in Checks, RequestCheck(i) PROVE Kept
<1>1. UpkeepTypeOK'
  BY DEF UpkeepIInv, Jobs, RequestCheck, UpkeepTypeOK
<1>2. StationsInv'
  BY UpkeepAssumption DEF UpkeepIInv, RequestCheck, StationsInv
<1>3. PreparedInv'
  BY DEF UpkeepIInv, RequestCheck, PreparedInv
<1>4. RemovedIsIdle'
  BY DEF RequestCheck, RemovedIsIdle
<1>5. Final
  BY DEF RequestCheck, Final
<1> QED
  BY <1>1, <1>2, <1>3, <1>4, <1>5 DEF Kept, UpkeepIInv

LEMMA InsertJobKeeps == ASSUME UpkeepIInv, NEW i \in Jobs, InsertJob(i) PROVE Kept
<1>1. UpkeepTypeOK'
  BY DEF UpkeepIInv, Jobs, InsertJob, UpkeepTypeOK
<1>2. StationsInv'
  BY DEF UpkeepIInv, Jobs, InsertJob, UpkeepTypeOK, StationsInv
<1>3. PreparedInv'
  BY DEF UpkeepIInv, Jobs, InsertJob, UpkeepTypeOK, PreparedInv
<1>4. RemovedIsIdle'
  BY UpkeepAssumption DEF UpkeepIInv, Unfinished, InsertJob, UpkeepTypeOK, StationsInv,
     RemovedIsIdle
<1>5. Final
  BY DEF UpkeepIInv, AtHost, Unfinished, InsertJob, UpkeepTypeOK, StationsInv, Final
<1> QED
  BY <1>1, <1>2, <1>3, <1>4, <1>5 DEF Kept, UpkeepIInv

LEMMA SignalJobKeeps == ASSUME UpkeepIInv, NEW i \in Jobs, SignalJob(i) PROVE Kept
<1>1. UpkeepTypeOK'
  BY DEF UpkeepIInv, SignalJob, UpkeepTypeOK
<1>2. StationsInv'
  BY DEF UpkeepIInv, SignalJob, UpkeepTypeOK, StationsInv
<1>3. PreparedInv'
  BY DEF UpkeepIInv, SignalJob, PreparedInv
<1>4. RemovedIsIdle'
  BY DEF UpkeepIInv, SignalJob, RemovedIsIdle
<1>5. Final
  BY DEF SignalJob, Final
<1> QED
  BY <1>1, <1>2, <1>3, <1>4, <1>5 DEF Kept, UpkeepIInv

LEMMA JobSignalFailsKeeps == ASSUME UpkeepIInv, NEW i \in Jobs, JobSignalFails(i) PROVE Kept
<1>1. UpkeepTypeOK'
  BY UpkeepAssumption DEF UpkeepIInv, JobSignalFails, Upset, UpkeepTypeOK
<1>2. StationsInv'
  BY DEF UpkeepIInv, JobSignalFails, UpkeepTypeOK, StationsInv
<1>3. PreparedInv'
  BY DEF UpkeepIInv, JobSignalFails, PreparedInv
<1>4. RemovedIsIdle'
  BY DEF UpkeepIInv, JobSignalFails, RemovedIsIdle
<1>5. Final
  BY DEF JobSignalFails, Final
<1> QED
  BY <1>1, <1>2, <1>3, <1>4, <1>5 DEF Kept, UpkeepIInv

LEMMA FailJobKeeps == ASSUME UpkeepIInv, NEW i \in Jobs, FailJob(i) PROVE Kept
<1>1. UpkeepTypeOK'
  BY DEF UpkeepIInv, FailJob, UpkeepTypeOK
<1>2. StationsInv'
  BY DEF UpkeepIInv, FailJob, StationsInv
<1>3. PreparedInv'
  BY DEF UpkeepIInv, FailJob, PreparedInv
<1>4. RemovedIsIdle'
  BY DEF UpkeepIInv, Unfinished, FailJob, RemovedIsIdle
<1>5. Final
  BY DEF FailJob, Final
<1> QED
  BY <1>1, <1>2, <1>3, <1>4, <1>5 DEF Kept, UpkeepIInv

LEMMA RequestIsLostKeeps == ASSUME UpkeepIInv, NEW i \in Jobs, RequestIsLost(i) PROVE Kept
<1>1. UpkeepTypeOK'
  BY UpkeepAssumption DEF UpkeepIInv, RequestIsLost, Upset, UpkeepTypeOK
<1>2. StationsInv'
  BY DEF UpkeepIInv, RequestIsLost, StationsInv
<1>3. PreparedInv'
  BY DEF UpkeepIInv, RequestIsLost, PreparedInv
<1>4. RemovedIsIdle'
  BY DEF UpkeepIInv, RequestIsLost, RemovedIsIdle
<1>5. Final
  BY DEF RequestIsLost, Final
<1> QED
  BY <1>1, <1>2, <1>3, <1>4, <1>5 DEF Kept, UpkeepIInv

LEMMA StartJobKeeps == ASSUME UpkeepIInv, NEW i \in Jobs, StartJob(i) PROVE Kept
<1>1. UpkeepTypeOK'
  BY DEF UpkeepIInv, AtHost, StartJob, UpkeepTypeOK
<1>2. StationsInv'
  BY DEF UpkeepIInv, StartJob, UpkeepTypeOK, StationsInv
<1>3. PreparedInv'
  BY DEF UpkeepIInv, StartJob, PreparedInv
<1>4. RemovedIsIdle'
  BY DEF UpkeepIInv, StartJob, RemovedIsIdle
<1>5. Final
  BY DEF StartJob, Final
<1> QED
  BY <1>1, <1>2, <1>3, <1>4, <1>5 DEF Kept, UpkeepIInv

LEMMA JobReturnsKeeps == ASSUME UpkeepIInv, NEW i \in Jobs, JobReturns(i) PROVE Kept
<1>1. UpkeepTypeOK'
  BY DEF UpkeepIInv, JobReturns, AfterLoss, UpkeepTypeOK
<1>2. StationsInv'
  BY DEF UpkeepIInv, JobReturns, AfterLoss, StationsInv
<1>3. PreparedInv'
  BY DEF UpkeepIInv, JobReturns, PreparedInv
<1>4. RemovedIsIdle'
  BY DEF UpkeepIInv, JobReturns, RemovedIsIdle
<1>5. Final
  BY DEF JobReturns, Final
<1> QED
  BY <1>1, <1>2, <1>3, <1>4, <1>5 DEF Kept, UpkeepIInv

LEMMA JobTimesOutKeeps == ASSUME UpkeepIInv, NEW i \in Jobs, JobTimesOut(i) PROVE Kept
<1>1. UpkeepTypeOK'
  BY UpkeepAssumption DEF UpkeepIInv, JobTimesOut, AfterLoss, Upset, UpkeepTypeOK
<1>2. StationsInv'
  BY DEF UpkeepIInv, JobTimesOut, AfterLoss, StationsInv
<1>3. PreparedInv'
  BY DEF UpkeepIInv, JobTimesOut, PreparedInv
<1>4. RemovedIsIdle'
  BY DEF UpkeepIInv, JobTimesOut, RemovedIsIdle
<1>5. Final
  BY DEF JobTimesOut, Final
<1> QED
  BY <1>1, <1>2, <1>3, <1>4, <1>5 DEF Kept, UpkeepIInv

LEMMA MarkCheckKeeps == ASSUME UpkeepIInv, NEW i \in Checks, MarkCheck(i) PROVE Kept
<1>1. UpkeepTypeOK'
  BY DEF UpkeepIInv, Jobs, MarkCheck, UpkeepTypeOK
<1>2. StationsInv'
  BY UpkeepAssumption DEF UpkeepIInv, MarkCheck, StationsInv
<1>3. PreparedInv'
  BY DEF UpkeepIInv, MarkCheck, PreparedInv
<1>4. RemovedIsIdle'
  BY DEF UpkeepIInv, MarkCheck, RemovedIsIdle
<1>5. Final
  BY DEF Unfinished, MarkCheck, Final
<1> QED
  BY <1>1, <1>2, <1>3, <1>4, <1>5 DEF Kept, UpkeepIInv

LEMMA MarkIsLostKeeps == ASSUME UpkeepIInv, NEW i \in Checks, MarkIsLost(i) PROVE Kept
<1>1. UpkeepTypeOK'
  BY UpkeepAssumption DEF UpkeepIInv, Jobs, MarkIsLost, Upset, UpkeepTypeOK
<1>2. StationsInv'
  BY DEF UpkeepIInv, MarkIsLost, StationsInv
<1>3. PreparedInv'
  BY DEF UpkeepIInv, MarkIsLost, PreparedInv
<1>4. RemovedIsIdle'
  BY DEF UpkeepIInv, MarkIsLost, RemovedIsIdle
<1>5. Final
  BY DEF MarkIsLost, Final
<1> QED
  BY <1>1, <1>2, <1>3, <1>4, <1>5 DEF Kept, UpkeepIInv

LEMMA RecoverCheckKeeps == ASSUME UpkeepIInv, NEW i \in Checks, RecoverCheck(i) PROVE Kept
<1>1. UpkeepTypeOK'
  BY DEF UpkeepIInv, Jobs, RecoverCheck, UpkeepTypeOK
<1>2. StationsInv'
  BY DEF UpkeepIInv, RecoverCheck, IsOverdue, StationsInv
<1>3. PreparedInv'
  BY DEF UpkeepIInv, RecoverCheck, PreparedInv
<1>4. RemovedIsIdle'
  BY DEF UpkeepIInv, Unfinished, RecoverCheck, RemovedIsIdle
<1>5. Final
  BY DEF RecoverCheck, IsOverdue, Final
<1> QED
  BY <1>1, <1>2, <1>3, <1>4, <1>5 DEF Kept, UpkeepIInv

LEMMA PreparationContextKeeps ==
  ASSUME UpkeepIInv, NEW i \in Preparations, PreparationContext(i)
  PROVE  Kept
<1>1. UpkeepTypeOK'
  BY DEF UpkeepIInv, AtHost, PreparationContext, HandAt, UpkeepTypeOK
<1>2. StationsInv'
  BY DEF UpkeepIInv, Jobs, PreparationContext, HandAt, UpkeepTypeOK, StationsInv
<1>3. PreparedInv'
  BY DEF UpkeepIInv, Jobs, PreparationContext, HandAt, UpkeepTypeOK, PreparedInv
<1>4. RemovedIsIdle'
  BY DEF UpkeepIInv, PreparationContext, HandAt, UpkeepTypeOK, RemovedIsIdle
<1>5. Final
  BY DEF UpkeepIInv, PreparationContext, UpkeepTypeOK, Final
<1> QED
  BY <1>1, <1>2, <1>3, <1>4, <1>5 DEF Kept, UpkeepIInv

LEMMA CheckContextKeeps == ASSUME UpkeepIInv, NEW i \in Checks, CheckContext(i) PROVE Kept
<1>1. UpkeepTypeOK'
  BY DEF UpkeepIInv, AtHost, CheckContext, HandAt, UpkeepTypeOK
<1>2. StationsInv'
  BY DEF UpkeepIInv, Jobs, CheckContext, HandAt, UpkeepTypeOK, StationsInv
<1>3. PreparedInv'
  BY DEF UpkeepIInv, Jobs, CheckContext, HandAt, UpkeepTypeOK, PreparedInv
<1>4. RemovedIsIdle'
  BY DEF UpkeepIInv, CheckContext, HandAt, UpkeepTypeOK, RemovedIsIdle
<1>5. Final
  BY DEF UpkeepIInv, Jobs, Unfinished, CheckContext, UpkeepTypeOK, Final
<1> QED
  BY <1>1, <1>2, <1>3, <1>4, <1>5 DEF Kept, UpkeepIInv

LEMMA PrepareKeeps == ASSUME UpkeepIInv, NEW i \in Preparations, Prepare(i) PROVE Kept
<1>1. UpkeepTypeOK'
  BY DEF UpkeepIInv, AtHost, Prepare, HandAt, UpkeepTypeOK, StationsInv
<1>2. StationsInv'
  BY DEF UpkeepIInv, Prepare, HandAt, UpkeepTypeOK, StationsInv
<1>3. PreparedInv'
  BY DEF UpkeepIInv, Jobs, Prepare, HandAt, UpkeepTypeOK, PreparedInv
<1>4. RemovedIsIdle'
  BY DEF UpkeepIInv, Prepare, HandAt, UpkeepTypeOK, RemovedIsIdle
<1>5. Final
  BY DEF Prepare, Final
<1> QED
  BY <1>1, <1>2, <1>3, <1>4, <1>5 DEF Kept, UpkeepIInv

LEMMA CheckServerKeeps == ASSUME UpkeepIInv, NEW i \in Checks, CheckServer(i) PROVE Kept
<1>1. UpkeepTypeOK'
  BY DEF UpkeepIInv, Jobs, AtHost, CheckServer, HandAt, UpkeepTypeOK
<1>2. StationsInv'
  BY DEF UpkeepIInv, CheckServer, HandAt, StationsInv
<1>3. PreparedInv'
  BY UpkeepAssumption DEF UpkeepIInv, CheckServer, HandAt, PreparedInv
<1>4. RemovedIsIdle'
  BY DEF UpkeepIInv, CheckServer, HandAt, RemovedIsIdle
<1>5. Final
  BY DEF CheckServer, Final
<1> QED
  BY <1>1, <1>2, <1>3, <1>4, <1>5 DEF Kept, UpkeepIInv

LEMMA WorkerIsLostKeeps == ASSUME UpkeepIInv, NEW i \in Jobs, WorkerIsLost(i) PROVE Kept
<1>1. UpkeepTypeOK'
  <2>1. hand' \in [Jobs -> AtHost \cup {"off", "done", "thrown", "gone"}]
    BY DEF WorkerIsLost, HandAt, UpkeepIInv, UpkeepTypeOK
  <2>2. upsets' \in 0..MaxUpsets
    BY UpkeepAssumption DEF WorkerIsLost, Upset, UpkeepIInv, UpkeepTypeOK
  <2> QED
    BY <2>1, <2>2 DEF WorkerIsLost, UpkeepIInv, UpkeepTypeOK
<1>2. StationsInv'
  BY DEF UpkeepIInv, AtHost, WorkerIsLost, HandAt, StationsInv
<1>3. PreparedInv'
  BY DEF UpkeepIInv, WorkerIsLost, HandAt, PreparedInv
<1>4. RemovedIsIdle'
  BY DEF UpkeepIInv, WorkerIsLost, HandAt, RemovedIsIdle
<1>5. Final
  BY DEF WorkerIsLost, Final
<1> QED
  BY <1>1, <1>2, <1>3, <1>4, <1>5 DEF Kept, UpkeepIInv

\* What a report leaves: the rows keep their configurations; a row that was
\* unfinished is decided, and a check may be asked for; the server is prepared
\* only by a success of its configuration.
Decides(k, i) ==
    k = i /\ jobRow[k].status \in Unfinished /\ jobRow'[k].status \in {"succeeded", "failed"}
AsksFor(k) ==
    /\ k \in Checks /\ jobRow[k].status = "none" /\ requester[k] = "off"
    /\ jobRow'[k].status = "queued" /\ requester'[k] = "signalling"
Reported(i) ==
    /\ jobRow' \in [Jobs -> [status : {"none", "queued", "running", "succeeded", "failed"},
                             config : Configs \cup {NoConfig}]]
    /\ requester' \in [Jobs -> {"off", "read", "signalling", "failing"}]
    /\ \A k \in Jobs :
         /\ jobRow'[k].config = jobRow[k].config
         /\ jobRow'[k].status = jobRow[k].status \/ Decides(k, i) \/ AsksFor(k)
         /\ requester'[k] = requester[k] \/ AsksFor(k)
    /\ \/ server' = server
       \/ /\ i \in Preparations /\ hand[i] = "succeeded" /\ jobRow[i].status \in Unfinished
          /\ server' = [server EXCEPT !.preparedAt = TRUE,
                                      !.preparedDigest = jobRow[i].config]

LEMMA ReportLeaves ==
    ASSUME UpkeepIInv, NEW i \in Jobs, hand[i] \in {"succeeded", "failed"}, FinishJob(i)
    PROVE  Reported(i)
<1>1. CASE i \in Preparations
  <2>1. FinishPreparation(i)
    BY <1>1 DEF FinishJob
  <2>2. CASE UNCHANGED <<server, jobRow, requester>>
    BY <2>2 DEF UpkeepIInv, UpkeepTypeOK, Reported
  <2> DEFINE succeeded == hand[i] = "succeeded" /\ jobRow[i].config = server.config
             rows == [jobRow EXCEPT ![i].status = IF succeeded THEN "succeeded" ELSE "failed"]
             prepared == [server EXCEPT !.preparedAt = TRUE,
                                        !.preparedDigest = jobRow[i].config]
  <2>3. CASE /\ jobRow[i].status \in Unfinished
             /\ jobRow' = rows /\ requester' = requester
             /\ server' = IF succeeded THEN prepared ELSE server
    <3>1. \A k \in Jobs : /\ jobRow'[k].config = jobRow[k].config
                          /\ jobRow'[k].status = jobRow[k].status \/ Decides(k, i)
      BY <2>3 DEF Decides
    <3>2. jobRow' \in [Jobs -> [status : {"none", "queued", "running", "succeeded", "failed"},
                                config : Configs \cup {NoConfig}]]
      BY <2>3 DEF UpkeepIInv, UpkeepTypeOK
    <3>3. server' = server \/ (hand[i] = "succeeded" /\ server' = prepared)
      BY <2>3
    <3> QED
      BY <1>1, <2>3, <3>1 DEF UpkeepIInv, UpkeepTypeOK, Reported
  <2>4. CASE /\ jobRow[i].status \in Unfinished /\ succeeded
             /\ server' = prepared
             /\ \E c \in Checks :
                  /\ jobRow[c].status = "none" /\ requester[c] = "off"
                  /\ jobRow' = [rows EXCEPT ![c].status = "queued"]
                  /\ requester' = [requester EXCEPT ![c] = "signalling"]
    <3> PICK c \in Checks :
                  /\ jobRow[c].status = "none" /\ requester[c] = "off"
                  /\ jobRow' = [rows EXCEPT ![c].status = "queued"]
                  /\ requester' = [requester EXCEPT ![c] = "signalling"]
      BY <2>4
    <3>1. c \in Jobs /\ c # i
      BY <2>4 DEF Jobs, Unfinished
    <3>2. \A k \in Jobs : jobRow'[k].config = jobRow[k].config
      BY DEF UpkeepIInv, UpkeepTypeOK
    <3>3. \A k \in Jobs : jobRow'[k].status = jobRow[k].status \/ Decides(k, i) \/ AsksFor(k)
      BY <2>4 DEF UpkeepIInv, UpkeepTypeOK, Decides, AsksFor
    <3>4. \A k \in Jobs : requester'[k] = requester[k] \/ AsksFor(k)
      BY DEF UpkeepIInv, UpkeepTypeOK, AsksFor
    <3>5. /\ jobRow' \in [Jobs -> [status : {"none", "queued", "running", "succeeded", "failed"},
                                   config : Configs \cup {NoConfig}]]
          /\ requester' \in [Jobs -> {"off", "read", "signalling", "failing"}]
      BY <3>1 DEF UpkeepIInv, UpkeepTypeOK
    <3> QED
      BY <1>1, <2>4, <3>3, <3>4, <3>5 DEF Reported
  <2> QED
    BY <2>1, <2>2, <2>3, <2>4 DEF FinishPreparation
<1>2. CASE i \notin Preparations
  <2>1. FinishCheck(i)
    BY <1>2 DEF FinishJob
  <2> QED
    BY <2>1 DEF FinishCheck, UpkeepIInv, UpkeepTypeOK, Reported, Decides
<1> QED
  BY <1>1, <1>2

\* What is at work or has succeeded goes no further than to a decision or an end.
LEMMA ReportedKeeps ==
    ASSUME UpkeepIInv, NEW i \in Jobs, Reported(i), hand[i] \in {"succeeded", "failed"},
           NEW place \in {"failed", "done", "thrown"}, HandAt(i, place),
           UNCHANGED <<slot, hostReady>>, upsets' \in 0..MaxUpsets
    PROVE  Kept
<1>1. UpkeepTypeOK'
  <2>1. server' \in [archived : BOOLEAN, config : Configs, preparedAt : BOOLEAN,
                     preparedDigest : Configs \cup {NoConfig}]
    <3>1. jobRow[i].config \in Configs \cup {NoConfig}
      BY DEF UpkeepIInv, UpkeepTypeOK
    <3>2. server \in [archived : BOOLEAN, config : Configs, preparedAt : BOOLEAN,
                      preparedDigest : Configs \cup {NoConfig}]
      BY DEF UpkeepIInv, UpkeepTypeOK
    <3> QED
      BY <3>1, <3>2 DEF Reported
  <2>2. hand' \in [Jobs -> AtHost \cup {"off", "done", "thrown", "gone"}]
    BY DEF HandAt, UpkeepIInv, UpkeepTypeOK, AtHost
  <2> QED
    BY <2>1, <2>2 DEF Reported, UpkeepIInv, UpkeepTypeOK
<1>2. StationsInv'
  <2>1. ASSUME NEW k \in Jobs
        PROVE  /\ requester'[k] = "read" => jobRow'[k].status = "none"
               /\ requester'[k] \in {"signalling", "failing"} => jobRow'[k].status # "none"
               /\ requester'[k] = "signalling" => slot'[k] = "none"
               /\ slot'[k] # "none" => jobRow'[k].status # "none"
               /\ hand'[k] # "off" => slot'[k] \notin {"none", "waiting"}
    BY DEF Reported, Decides, AsksFor, HandAt, UpkeepIInv, StationsInv
  <2>2. ASSUME NEW p \in Preparations
        PROVE  jobRow'[p].status # "none" \/ requester'[p] # "off"
                 => jobRow'[p].config \in Configs
    BY UpkeepAssumption DEF Reported, Decides, AsksFor, UpkeepIInv, StationsInv, Jobs
  <2> QED
    BY <2>1, <2>2 DEF StationsInv
<1>3. PreparedInv'
  <2>1. server' # server => ~server.archived
    BY DEF Reported, UpkeepIInv, RemovedIsIdle
  <2>2. /\ server'.archived => ~server'.preparedAt
        /\ server'.preparedAt /\ server'.preparedDigest \in Configs
             => PreparationInputs[server'.preparedDigest] \in hostReady'
    BY <2>1 DEF Reported, UpkeepIInv, UpkeepTypeOK, PreparedInv
  <2>3. \A p \in Preparations :
          hand'[p] = "succeeded" => PreparationInputs[jobRow'[p].config] \in hostReady'
    BY DEF Reported, HandAt, UpkeepIInv, PreparedInv, Jobs
  <2> QED
    BY <2>2, <2>3 DEF PreparedInv
<1>4. RemovedIsIdle'
  <2>1. server'.archived = server.archived
    BY DEF Reported, UpkeepIInv, UpkeepTypeOK
  <2>2. \A k \in Jobs : hand'[k] \in {"acting", "succeeded"} => k # i /\ hand[k] = hand'[k]
    BY DEF HandAt, UpkeepIInv, UpkeepTypeOK
  <2>3. \A k \in Jobs : AsksFor(k) => hand[k] = "off"
    BY DEF AsksFor, UpkeepIInv, StationsInv
  <2> QED
    BY <2>1, <2>2, <2>3 DEF Reported, Decides, UpkeepIInv, RemovedIsIdle
<1>5. Final
  BY DEF Reported, Decides, AsksFor, Final, Unfinished
<1> QED
  BY <1>1, <1>2, <1>3, <1>4, <1>5 DEF Kept, UpkeepIInv

LEMMA UnreportedIsReported ==
    ASSUME UpkeepIInv, NEW i \in Jobs, UNCHANGED <<server, jobRow, requester>>
    PROVE  Reported(i)
  BY DEF UpkeepIInv, UpkeepTypeOK, Reported

LEMMA ReportKeeps == ASSUME UpkeepIInv, NEW i \in Jobs, Report(i) PROVE Kept
<1>1. Reported(i)
  BY ReportLeaves DEF Report
<1> QED
  BY <1>1, ReportedKeeps DEF Report, UpkeepIInv, UpkeepTypeOK

LEMMA ReportFailsKeeps == ASSUME UpkeepIInv, NEW i \in Jobs, ReportFails(i) PROVE Kept
<1>1. Reported(i)
  BY ReportLeaves, UnreportedIsReported DEF ReportFails
<1>2. upsets' \in 0..MaxUpsets
  BY UpkeepAssumption DEF ReportFails, Upset, UpkeepIInv, UpkeepTypeOK
<1>3. PICK place \in {"failed", "done", "thrown"} : HandAt(i, place)
  BY DEF ReportFails
<1> QED
  BY <1>1, <1>2, ReportedKeeps DEF ReportFails

-----------------------------------------------------------------------------

LEMMA UpkeepInitially == ASSUME UpkeepInit PROVE UpkeepIInv
<1>1. server \in [archived : {FALSE}, config : Configs, preparedAt : {FALSE},
                  preparedDigest : {NoConfig}]
  BY DEF UpkeepInit
<1>2. UpkeepTypeOK
  <2>1. server \in [archived : BOOLEAN, config : Configs, preparedAt : BOOLEAN,
                    preparedDigest : Configs \cup {NoConfig}]
    BY <1>1
  <2>2. jobRow \in [Jobs -> [status : {"none", "queued", "running", "succeeded", "failed"},
                             config : Configs \cup {NoConfig}]]
    BY DEF UpkeepInit
  <2> QED
    BY <2>1, UpkeepAssumption DEF UpkeepInit, UpkeepTypeOK
<1>3. StationsInv
  BY DEF UpkeepInit, StationsInv, Jobs
<1>4. PreparedInv
  BY DEF UpkeepInit, PreparedInv, Jobs
<1>5. RemovedIsIdle
  BY <1>1 DEF RemovedIsIdle
<1> QED
  BY <1>2, <1>3, <1>4, <1>5 DEF UpkeepIInv

LEMMA UpkeepStep == ASSUME UpkeepIInv, [UpkeepNext]_upkeepVars PROVE Kept
<1>1. ASSUME NEW config \in Configs, UpdateServer(config) \/ AddServer(config) PROVE Kept
  BY <1>1, UpdateServerKeeps, AddServerKeeps
<1>2. ASSUME RemoveServer PROVE Kept
  BY <1>2, RemoveServerKeeps
<1>3. ASSUME NEW p \in Preparations, RequestPreparation(p) PROVE Kept
  BY <1>3, RequestPreparationKeeps
<1>4. ASSUME NEW c \in Checks,
             RequestCheck(c) \/ MarkCheck(c) \/ MarkIsLost(c) \/ RecoverCheck(c)
      PROVE  Kept
  BY <1>4, RequestCheckKeeps, MarkCheckKeeps, MarkIsLostKeeps, RecoverCheckKeeps
<1>5. ASSUME NEW i \in Jobs, RequestSteps(i) \/ JobSignalFails(i) \/ RequestIsLost(i) PROVE Kept
  BY <1>5, InsertJobKeeps, SignalJobKeeps, FailJobKeeps, JobSignalFailsKeeps,
     RequestIsLostKeeps DEF RequestSteps
<1>6. ASSUME NEW i \in Jobs, CoordinatorSteps(i) PROVE Kept
  BY <1>6, StartJobKeeps, JobReturnsKeeps, JobTimesOutKeeps DEF CoordinatorSteps
<1>7. ASSUME NEW i \in Jobs, HandSteps(i) \/ ReportFails(i) \/ WorkerIsLost(i) PROVE Kept
  BY <1>7, PreparationContextKeeps, PrepareKeeps, CheckContextKeeps, CheckServerKeeps,
     ReportKeeps, ReportFailsKeeps, WorkerIsLostKeeps DEF HandSteps
<1>8. ASSUME UNCHANGED upkeepVars PROVE Kept
  BY <1>8 DEF upkeepVars, Kept, UpkeepIInv, UpkeepTypeOK, StationsInv, PreparedInv,
     RemovedIsIdle, Final
<1> QED
  BY <1>1, <1>2, <1>3, <1>4, <1>5, <1>6, <1>7, <1>8 DEF UpkeepNext

\* The inductive invariant holds in every reachable state.
THEOREM UpkeepInvariant == UpkeepSpec => []UpkeepIInv
<1>1. UpkeepInit => UpkeepIInv
  BY UpkeepInitially
<1>2. UpkeepIInv /\ [UpkeepNext]_upkeepVars => UpkeepIInv'
  BY UpkeepStep DEF Kept
<1> QED
  BY <1>1, <1>2, PTL DEF UpkeepSpec

\* A server that is shown as ready is prepared, and nobody works at the host of a
\* removed one for a row that is under way.
THEOREM UpkeepHolds == UpkeepSpec => []UpkeepInv
<1>1. UpkeepIInv => UpkeepInv
  BY DEF UpkeepIInv, UpkeepInv, UpkeepTypeOK, PreparedInv, ReadyMeansPrepared, Ready
<1> QED
  BY <1>1, UpkeepInvariant, PTL

\* What a check or a preparation ended with is overwritten by nobody but a request
\* whose signal failed.
THEOREM DecisionsStay == UpkeepSpec => UpkeepIsFinal
<1>1. UpkeepIInv /\ [UpkeepNext]_upkeepVars => [Final]_upkeepVars
  BY UpkeepStep DEF Kept
<1> QED
  BY <1>1, UpkeepInvariant, PTL DEF UpkeepSpec, UpkeepIsFinal, Final

-----------------------------------------------------------------------------
(***************************************************************************)
(* The agent.                                                              *)
(***************************************************************************)

AgentRows == [status : AgentBusy \cup {"disabled", "installed", "failed"},
              generation : 0..MaxGeneration, removal : BOOLEAN, remover : BOOLEAN]
USE DEF AgentRows

\* What a decided row shows is what its request wished for, and a server is
\* removed only after the agent was uninstalled.
WishIsKnown ==
    /\ agent.status = "disabled" \/ ~listed =>
         agent.generation = 0 \/ wish[agent.generation] = "disabled"
    /\ agent.status = "installed" =>
         agent.generation # 0 /\ wish[agent.generation] = "enabled"

\* Nobody works for a request that was not made yet.
OnlyKnownWork ==
    \A g \in Generations :
        agent.generation < g => grip[g] = "off" /\ \A a \in adrift : a.of # g

\* An attempt is about to report that the script of request g has run.
Applied(g) == grip[g] = "applied" \/ [of |-> g, stage |-> "applied"] \in adrift

\* What an attempt is about to report of the current request is so.
AppliedIsThere ==
    \A g \in Generations :
        agent.generation = g /\ Applied(g) /\ ~hostAgent.late =>
            (hostAgent.there <=> wish[g] = "enabled")

\* A sweep carries out what was asked for, and a removal names nobody once it is done.
RemovalsAreAsked == (selected = "read" => asked) /\ (agent.remover => listed)

AgentIInv ==
    /\ AgentInv
    /\ WishIsKnown /\ OnlyKnownWork /\ AppliedIsThere /\ RemovalsAreAsked

\* What relates the row, the host and the wishes.
ShownInv == HostIsAsShown /\ WishIsKnown /\ AppliedIsThere

LEMMA QueueAgentKeeps ==
  ASSUME AgentIInv, NEW desired \in {"enabled", "disabled"}, NEW removal \in BOOLEAN,
         NEW remover \in BOOLEAN, QueueAgent(desired, removal, remover), listed,
         UNCHANGED <<listed, grip, adrift, hostAgent>>
  PROVE  /\ agent' \in AgentRows
         /\ wish' \in [Generations -> {"enabled", "disabled"}]
         /\ ShownInv' /\ OnlyKnownWork'
<1> DEFINE next == agent.generation + 1
<1>1. agent.generation \in 0..MaxGeneration /\ next \in Generations
  BY AgentAssumption DEF AgentIInv, AgentInv, AgentTypeOK, QueueAgent, Generations
<1>2. /\ agent' = [status |-> "queued", generation |-> next, removal |-> removal,
                   remover |-> remover]
      /\ wish' = [wish EXCEPT ![next] = desired]
  BY DEF QueueAgent
<1>3. agent' \in AgentRows
  BY <1>1, <1>2, AgentAssumption DEF AgentBusy, Generations
<1>4. wish' \in [Generations -> {"enabled", "disabled"}]
  BY <1>2 DEF AgentIInv, AgentInv, AgentTypeOK
<1>5. HostIsAsShown' /\ WishIsKnown'
  BY <1>2 DEF HostIsAsShown, WishIsKnown
<1>6. OnlyKnownWork'
  BY <1>1, <1>2 DEF AgentIInv, OnlyKnownWork, Generations
<1>7. ASSUME NEW g \in Generations, g = next PROVE ~Applied(g)'
  BY <1>1, <1>7 DEF AgentIInv, OnlyKnownWork, Applied, Generations
<1>8. AppliedIsThere'
  BY <1>2, <1>7 DEF AppliedIsThere
<1> QED
  BY <1>3, <1>4, <1>5, <1>6, <1>8 DEF ShownInv

\* Requests, and the removal and return of the server.
LEMMA RequestAgentKeeps ==
  ASSUME AgentIInv, NEW desired \in {"enabled", "disabled"}, RequestAgent(desired)
  PROVE  AgentIInv'
<1>1. QueueAgent(desired, FALSE, FALSE) /\ listed /\ UNCHANGED <<listed, grip, adrift, hostAgent>>
  BY DEF RequestAgent
<1>2. ShownInv' /\ OnlyKnownWork' /\ AgentTypeOK'
  BY <1>1, QueueAgentKeeps DEF RequestAgent, AgentIInv, AgentInv, AgentTypeOK
<1>3. RemovalIsAsked' /\ RemovalsAreAsked'
  BY <1>1 DEF RequestAgent, QueueAgent, AgentIInv, RemovalIsAsked, RemovalsAreAsked
<1> QED
  BY <1>2, <1>3 DEF AgentIInv, AgentInv, ShownInv

LEMMA RemovesKeeps ==
  ASSUME AgentIInv, NEW byUser \in BOOLEAN, Removes(byUser), asked',
         UNCHANGED <<otherWork, flow, grip, adrift, hostAgent>>,
         asked' \in BOOLEAN, selected' \in {"none", "read", "refused"},
         hitches' \in 0..MaxHitches
  PROVE  AgentIInv'
<1>1. CASE agent.status = "disabled"
  <2>1. /\ listed' = FALSE /\ UNCHANGED wish
        /\ agent' = [agent EXCEPT !.remover = FALSE]
    BY <1>1 DEF Removes
  <2>2. AgentTypeOK'
    BY <2>1 DEF AgentIInv, AgentInv, AgentTypeOK
  <2>3. /\ agent'.status = "disabled" /\ agent'.generation = agent.generation
        /\ agent'.remover = FALSE
    BY <1>1, <2>1 DEF AgentIInv, AgentInv, AgentTypeOK
  <2>4. HostIsAsShown' /\ WishIsKnown'
    BY <1>1, <2>1, <2>3 DEF AgentIInv, AgentInv, HostIsAsShown, WishIsKnown
  <2>5. OnlyKnownWork' /\ AppliedIsThere'
    BY <2>1, <2>3 DEF AgentIInv, OnlyKnownWork, AppliedIsThere, Applied
  <2> QED
    BY <2>1, <2>2, <2>3, <2>4, <2>5
       DEF AgentIInv, AgentInv, RemovalIsAsked, RemovalsAreAsked
<1>2. CASE agent.status # "disabled"
  <2>1. QueueAgent("disabled", TRUE, byUser) /\ listed /\ UNCHANGED listed
    BY <1>2 DEF Removes
  <2>2. ShownInv' /\ OnlyKnownWork' /\ AgentTypeOK'
    BY <2>1, QueueAgentKeeps DEF AgentIInv, AgentInv, AgentTypeOK
  <2> QED
    BY <2>1, <2>2
       DEF AgentIInv, AgentInv, ShownInv, RemovalIsAsked, RemovalsAreAsked, QueueAgent
<1> QED
  BY <1>1, <1>2

LEMMA RemoveListedServerKeeps == ASSUME AgentIInv, RemoveListedServer PROVE AgentIInv'
<1>1. PICK byUser \in BOOLEAN : Removes(byUser)
  BY DEF RemoveListedServer
<1> QED
  BY <1>1, RemovesKeeps DEF RemoveListedServer, AgentIInv, AgentInv, AgentTypeOK

LEMMA AddServerAgainKeeps == ASSUME AgentIInv, AddServerAgain PROVE AgentIInv'
  BY DEF AgentIInv, AgentInv, AddServerAgain, AgentTypeOK, HostIsAsShown, RemovalIsAsked,
     WishIsKnown, OnlyKnownWork, AppliedIsThere, Applied, RemovalsAreAsked

LEMMA OtherWorkKeeps == ASSUME AgentIInv, OtherWork PROVE AgentIInv'
  BY DEF AgentIInv, AgentInv, OtherWork, AgentTypeOK, HostIsAsShown, RemovalIsAsked,
     WishIsKnown, OnlyKnownWork, AppliedIsThere, Applied, RemovalsAreAsked

LEMMA SelectRemovalKeeps == ASSUME AgentIInv, SelectRemoval PROVE AgentIInv'
  BY DEF AgentIInv, AgentInv, SelectRemoval, RemovalWaits, AgentTypeOK, HostIsAsShown,
     RemovalIsAsked, WishIsKnown, OnlyKnownWork, AppliedIsThere, Applied, RemovalsAreAsked

LEMMA FinishRemovalKeeps == ASSUME AgentIInv, FinishRemoval PROVE AgentIInv'
<1>1. /\ asked' /\ asked' \in BOOLEAN /\ selected' = "none"
      /\ hitches' \in 0..MaxHitches
  BY DEF FinishRemoval, AgentIInv, RemovalsAreAsked, AgentInv, AgentTypeOK
<1> QED
  BY <1>1, RemovesKeeps DEF FinishRemoval

\* A refusal leaves the rows alone, or hides a removal that was made.
LEMMA RefuseRemovalKeeps == ASSUME AgentIInv, RefuseRemoval PROVE AgentIInv'
<1>1. asked' /\ asked' \in BOOLEAN /\ selected' = "refused"
  BY DEF RefuseRemoval, AgentIInv, RemovalsAreAsked, AgentInv, AgentTypeOK
<1>2. CASE Removes(TRUE) /\ Hitch
  <2>1. hitches' \in 0..MaxHitches
    BY <1>2, AgentAssumption DEF Hitch, AgentIInv, AgentInv, AgentTypeOK
  <2> QED
    BY <1>1, <1>2, <2>1, RemovesKeeps DEF RefuseRemoval
<1>3. CASE UNCHANGED <<listed, agent, wish, hitches>>
  BY <1>1, <1>3
     DEF RefuseRemoval, AgentIInv, AgentInv, AgentTypeOK, HostIsAsShown, RemovalIsAsked,
         WishIsKnown, OnlyKnownWork, AppliedIsThere, Applied, RemovalsAreAsked
<1> QED
  BY <1>2, <1>3 DEF RefuseRemoval

LEMMA ForgetRemovalKeeps == ASSUME AgentIInv, ForgetRemoval PROVE AgentIInv'
<1>1. AgentTypeOK'
  BY DEF ForgetRemoval, AgentIInv, AgentInv, AgentTypeOK
<1>2. /\ agent'.status = agent.status /\ agent'.generation = agent.generation
      /\ agent'.remover = FALSE /\ agent'.removal = FALSE
  BY DEF ForgetRemoval, AgentIInv, AgentInv, AgentTypeOK
<1> QED
  BY <1>1, <1>2
     DEF ForgetRemoval, AgentIInv, AgentInv, HostIsAsShown, RemovalIsAsked, WishIsKnown,
         OnlyKnownWork, AppliedIsThere, Applied, RemovalsAreAsked

-----------------------------------------------------------------------------
\* A request is decided as its report says: nothing changes but the status, and
\* that of the current request alone.
LEMMA AfterFinishDecides ==
  ASSUME AgentIInv, NEW g \in Generations, NEW succeeded \in BOOLEAN
  PROVE  LET after == AfterFinish(g, succeeded)
         IN  /\ after \in AgentRows
             /\ after.generation = agent.generation
             /\ after.removal = agent.removal /\ after.remover = agent.remover
             /\ \/ after.status = agent.status
                \/ after.status = "failed"
                \/ /\ succeeded /\ g = agent.generation
                   /\ wish[g] = "enabled" => after.status = "installed"
                   /\ wish[g] # "enabled" => after.status = "disabled"
  BY DEF AfterFinish, AgentIInv, AgentInv, AgentTypeOK, AgentBusy

LEMMA FinishKeeps ==
  ASSUME AgentIInv, NEW g \in Generations, NEW succeeded \in BOOLEAN,
         succeeded => Applied(g), agent' = AfterFinish(g, succeeded),
         UNCHANGED <<listed, wish, hostAgent, asked, selected>>
  PROVE  HostIsAsShown' /\ WishIsKnown' /\ RemovalIsAsked' /\ RemovalsAreAsked'
<1>1. /\ agent'.generation = agent.generation
      /\ agent'.removal = agent.removal /\ agent'.remover = agent.remover
  BY AfterFinishDecides
<1>2. RemovalIsAsked' /\ RemovalsAreAsked'
  BY <1>1 DEF AgentIInv, AgentInv, RemovalIsAsked, RemovalsAreAsked
<1>3. CASE agent'.status = agent.status \/ agent'.status = "failed"
  BY <1>1, <1>2, <1>3 DEF AgentIInv, AgentInv, HostIsAsShown, WishIsKnown
<1>4. CASE /\ succeeded /\ g = agent.generation
           /\ wish[g] = "enabled" => agent'.status = "installed"
           /\ wish[g] # "enabled" => agent'.status = "disabled"
  <2>1. wish[g] \in {"enabled", "disabled"} /\ g # 0
    BY AgentAssumption DEF AgentIInv, AgentInv, AgentTypeOK, Generations
  <2>2. WishIsKnown'
    BY <1>1, <1>4, <2>1 DEF AgentIInv, WishIsKnown
  <2>3. ~hostAgent.late => (hostAgent.there <=> wish[g] = "enabled")
    BY <1>4 DEF AgentIInv, AppliedIsThere
  <2>4. HostIsAsShown'
    BY <1>1, <1>4, <2>1, <2>3 DEF AgentIInv, AgentInv, HostIsAsShown
  <2> QED
    BY <1>2, <2>2, <2>4
<1> QED
  BY <1>3, <1>4, AfterFinishDecides

\* One step of an attempt at work for request g, on the worker or adrift.
LEMMA AttemptActsKeeps ==
  ASSUME AgentIInv, NEW g \in Generations, NEW stage \in Underway, NEW next \in Outcomes,
         AttemptActs(g, stage, next), g <= agent.generation,
         stage = "applied" => Applied(g),
         UNCHANGED <<listed, wish, asked, selected>>,
         \A h \in Generations : Applied(h)' => Applied(h) \/ (h = g /\ next = "applied")
  PROVE  /\ agent' \in AgentRows
         /\ agent'.generation = agent.generation
         /\ hostAgent' \in [there : BOOLEAN, late : BOOLEAN]
         /\ ShownInv' /\ RemovalIsAsked' /\ RemovalsAreAsked'
<1> USE DEF AgentIInv, AgentInv, ShownInv
<1>1. CASE stage = "context" /\ ReadsContext(g, next)
  <2>1. next # "applied"
    BY <1>1 DEF ReadsContext
  <2> QED
    BY <1>1, <2>1 DEF ReadsContext, AgentTypeOK, HostIsAsShown, RemovalIsAsked,
       WishIsKnown, AppliedIsThere, RemovalsAreAsked
<1>2. CASE stage = "read" /\ WritesContext(g, next)
  <2>1. /\ next = "script" /\ UNCHANGED hostAgent
        /\ agent'.generation = agent.generation /\ agent'.removal = agent.removal
        /\ agent'.remover = agent.remover
        /\ agent'.status = agent.status \/ agent'.status \in {"installing", "uninstalling"}
        /\ agent' \in AgentRows
    BY <1>2 DEF WritesContext, AgentTypeOK, AgentBusy
  <2>2. HostIsAsShown' /\ WishIsKnown'
    BY <2>1 DEF HostIsAsShown, WishIsKnown
  <2>3. AppliedIsThere'
    BY <2>1 DEF AppliedIsThere
  <2> QED
    BY <2>1, <2>2, <2>3 DEF RemovalIsAsked, RemovalsAreAsked, AgentTypeOK
<1>3. CASE stage = "script" /\ RunsScript(g, next)
  <2>1. CASE UNCHANGED hostAgent /\ next = "thrown"
    BY <1>3, <2>1 DEF RunsScript, AgentTypeOK, HostIsAsShown, RemovalIsAsked,
       WishIsKnown, AppliedIsThere, RemovalsAreAsked
  <2>2. CASE hostAgent' = [there |-> wish[g] = "enabled",
                           late |-> agent.generation # g \/ agent.status \notin AgentBusy]
    <3>1. /\ hostAgent'.there <=> wish[g] = "enabled"
          /\ ~hostAgent'.late => agent.generation = g /\ agent.status \in AgentBusy
          /\ hostAgent' \in [there : BOOLEAN, late : BOOLEAN]
      BY <2>2
    <3>2. UNCHANGED agent
      BY <1>3 DEF RunsScript
    <3>3. HostIsAsShown'
      BY <3>1, <3>2, AgentAssumption DEF HostIsAsShown, WishIsKnown, AgentBusy, Generations
    <3>4. WishIsKnown' /\ AppliedIsThere'
      BY <3>1, <3>2 DEF WishIsKnown, AppliedIsThere
    <3> QED
      BY <3>1, <3>2, <3>3, <3>4 DEF AgentTypeOK, RemovalIsAsked, RemovalsAreAsked
  <2> QED
    BY <1>3, <2>1, <2>2 DEF RunsScript
<1>4. CASE stage = "applied" /\ PostsSuccess(g, next)
  <2>1. agent' = AfterFinish(g, TRUE) /\ UNCHANGED hostAgent /\ next = "done"
    BY <1>4 DEF PostsSuccess
  <2>2. HostIsAsShown' /\ WishIsKnown' /\ RemovalIsAsked' /\ RemovalsAreAsked'
    BY <1>4, <2>1, FinishKeeps
  <2>3. /\ agent' \in AgentRows
        /\ agent'.generation = agent.generation
    BY <2>1, AfterFinishDecides
  <2>4. AppliedIsThere'
    BY <2>1, <2>3 DEF AppliedIsThere
  <2> QED
    BY <2>1, <2>2, <2>3, <2>4 DEF AgentTypeOK
<1> QED
  BY <1>1, <1>2, <1>3, <1>4 DEF AttemptActs

LEMMA AttemptGoesOnKeeps ==
  ASSUME AgentIInv, NEW g \in Generations, AttemptGoesOn(g) PROVE AgentIInv'
<1>1. PICK next \in Outcomes : AttemptActs(g, grip[g], next) /\ grip' = [grip EXCEPT ![g] = next]
  BY DEF AttemptGoesOn
<1>2. grip[g] \in Underway /\ g <= agent.generation
  BY <1>1 DEF AttemptActs, Underway, AgentIInv, OnlyKnownWork, AgentInv, AgentTypeOK, Generations
<1>3. ASSUME NEW h \in Generations, Applied(h)' PROVE Applied(h) \/ (h = g /\ next = "applied")
  BY <1>1, <1>3 DEF AttemptGoesOn, Applied, AgentIInv, AgentInv, AgentTypeOK
<1>4. grip[g] = "applied" => Applied(g)
  BY DEF Applied
<1>5. UNCHANGED <<listed, otherWork, asked, wish, flow, adrift, selected, hitches>>
  BY DEF AttemptGoesOn
<1>6. /\ agent' \in AgentRows
      /\ agent'.generation = agent.generation
      /\ hostAgent' \in [there : BOOLEAN, late : BOOLEAN]
      /\ ShownInv' /\ RemovalIsAsked' /\ RemovalsAreAsked'
  BY <1>1, <1>2, <1>3, <1>4, <1>5, AttemptActsKeeps
<1>7. AgentTypeOK'
  BY <1>1, <1>5, <1>6 DEF AgentIInv, AgentInv, AgentTypeOK
<1>8. OnlyKnownWork'
  BY <1>1, <1>2, <1>5, <1>6 DEF AgentIInv, AgentInv, AgentTypeOK, OnlyKnownWork, Generations
<1> QED
  BY <1>6, <1>7, <1>8 DEF AgentIInv, AgentInv, ShownInv

LEMMA AdriftGoesOnKeeps ==
  ASSUME AgentIInv, NEW a \in adrift, AdriftGoesOn(a) PROVE AgentIInv'
<1> DEFINE g == a.of
<1>1. PICK next \in Outcomes :
         /\ AttemptActs(g, a.stage, next)
         /\ adrift' = (adrift \ {a}) \cup
                IF next \in Underway THEN {[a EXCEPT !.stage = next]} ELSE {}
  BY DEF AdriftGoesOn
<1>2. /\ g \in Generations /\ a.stage \in Underway /\ a = [of |-> g, stage |-> a.stage]
      /\ g <= agent.generation
  BY DEF AgentIInv, OnlyKnownWork, AgentInv, AgentTypeOK, Generations
<1>3. adrift' \subseteq adrift \cup {[of |-> g, stage |-> next]}
  BY <1>1, <1>2
<1>4. ASSUME NEW h \in Generations, Applied(h)' PROVE Applied(h) \/ (h = g /\ next = "applied")
  BY <1>3, <1>4 DEF AdriftGoesOn, Applied
<1>5. a.stage = "applied" => Applied(g)
  BY <1>2 DEF Applied
<1>6. UNCHANGED <<listed, otherWork, asked, wish, flow, grip, selected, hitches>>
  BY DEF AdriftGoesOn
<1>7. /\ agent' \in AgentRows
      /\ agent'.generation = agent.generation
      /\ hostAgent' \in [there : BOOLEAN, late : BOOLEAN]
      /\ ShownInv' /\ RemovalIsAsked' /\ RemovalsAreAsked'
  <2> HIDE DEF g
  <2> QED
    BY <1>1, <1>2, <1>4, <1>5, <1>6, AttemptActsKeeps
<1>8. adrift' \subseteq [of : Generations, stage : Underway]
  BY <1>1, <1>2 DEF AgentIInv, AgentInv, AgentTypeOK
<1>9. AgentTypeOK'
  BY <1>6, <1>7, <1>8 DEF AgentIInv, AgentInv, AgentTypeOK
<1>10. OnlyKnownWork'
  BY <1>2, <1>3, <1>6, <1>7 DEF AgentIInv, AgentInv, AgentTypeOK, OnlyKnownWork, Generations
<1> QED
  BY <1>7, <1>9, <1>10 DEF AgentIInv, AgentInv, ShownInv

LEMMA AdriftEndsKeeps == ASSUME AgentIInv, NEW a \in adrift, AdriftEnds(a) PROVE AgentIInv'
  BY DEF AgentIInv, AgentInv, AdriftEnds, AgentTypeOK, HostIsAsShown, RemovalIsAsked,
     WishIsKnown, OnlyKnownWork, AppliedIsThere, Applied, RemovalsAreAsked

\* Steps that only put down where an attempt or a workflow is.
LEMMA PlacesKeep ==
  ASSUME AgentIInv, UNCHANGED <<listed, otherWork, asked, agent, wish, hostAgent, selected>>,
         flow' \in [Generations -> [state : {"none", "trying", "failing", "closed"},
                                    tries : 0..AgentTries]],
         grip' \in [Generations -> Outcomes \cup {"off"}],
         adrift' \subseteq [of : Generations, stage : Underway],
         hitches' \in 0..MaxHitches,
         OnlyKnownWork', \A h \in Generations : Applied(h)' => Applied(h)
  PROVE  AgentIInv'
<1>1. AgentTypeOK'
  BY DEF AgentIInv, AgentInv, AgentTypeOK
<1>2. AppliedIsThere'
  BY DEF AgentIInv, AppliedIsThere
<1> QED
  BY <1>1, <1>2 DEF AgentIInv, AgentInv, HostIsAsShown, RemovalIsAsked, WishIsKnown,
     RemovalsAreAsked

LEMMA HitchCounts == ASSUME AgentIInv, Hitch PROVE hitches' \in 0..MaxHitches
  BY AgentAssumption DEF AgentIInv, AgentInv, AgentTypeOK, Hitch

LEMMA StartFlowKeeps == ASSUME AgentIInv, NEW g \in Generations, StartFlow(g) PROVE AgentIInv'
<1>1. flow' \in [Generations -> [state : {"none", "trying", "failing", "closed"},
                                 tries : 0..AgentTries]]
  BY AgentAssumption DEF AgentIInv, AgentInv, AgentTypeOK, StartFlow
<1>2. grip' \in [Generations -> Outcomes \cup {"off"}]
  BY DEF AgentIInv, AgentInv, AgentTypeOK, StartFlow, Outcomes, Underway
<1>3. OnlyKnownWork' /\ \A h \in Generations : Applied(h)' => Applied(h)
  BY DEF AgentIInv, AgentInv, AgentTypeOK, StartFlow, OnlyKnownWork, Applied, Generations
<1> QED
  BY <1>1, <1>2, <1>3, PlacesKeep DEF StartFlow, AgentIInv, AgentInv, AgentTypeOK

LEMMA FlowGoesOnKeeps == ASSUME AgentIInv, NEW g \in Generations, FlowGoesOn(g) PROVE AgentIInv'
<1>1. flow' \in [Generations -> [state : {"none", "trying", "failing", "closed"},
                                 tries : 0..AgentTries]]
  BY AgentAssumption DEF AgentIInv, AgentInv, AgentTypeOK, FlowGoesOn
<1>2. grip' \in [Generations -> Outcomes \cup {"off"}]
  BY DEF AgentIInv, AgentInv, AgentTypeOK, FlowGoesOn, Outcomes, Underway
<1>3. OnlyKnownWork' /\ \A h \in Generations : Applied(h)' => Applied(h)
  BY DEF AgentIInv, AgentInv, AgentTypeOK, FlowGoesOn, OnlyKnownWork, Applied
<1> QED
  BY <1>1, <1>2, <1>3, PlacesKeep DEF FlowGoesOn, AgentIInv, AgentInv, AgentTypeOK

LEMMA AttemptIsGivenUpKeeps ==
  ASSUME AgentIInv, NEW g \in Generations, AttemptIsGivenUp(g) PROVE AgentIInv'
<1>1. grip' \in [Generations -> Outcomes \cup {"off"}]
  BY DEF AgentIInv, AgentInv, AgentTypeOK, AttemptIsGivenUp, Outcomes
<1>2. adrift' \subseteq [of : Generations, stage : Underway]
  BY DEF AgentIInv, AgentInv, AgentTypeOK, AttemptIsGivenUp
<1>3. OnlyKnownWork' /\ \A h \in Generations : Applied(h)' => Applied(h)
  BY DEF AgentIInv, AgentInv, AgentTypeOK, AttemptIsGivenUp, OnlyKnownWork, Applied, Underway
<1> QED
  BY <1>1, <1>2, <1>3, PlacesKeep, HitchCounts
     DEF AttemptIsGivenUp, AgentIInv, AgentInv, AgentTypeOK

LEMMA FlowTimesOutKeeps ==
  ASSUME AgentIInv, NEW g \in Generations, FlowTimesOut(g) PROVE AgentIInv'
<1>1. flow' \in [Generations -> [state : {"none", "trying", "failing", "closed"},
                                 tries : 0..AgentTries]]
  BY DEF AgentIInv, AgentInv, AgentTypeOK, FlowTimesOut
<1>2. adrift' = adrift \cup {[of |-> g, stage |-> s] : s \in {grip[g]} \cap Underway}
  BY DEF FlowTimesOut
<1>3. adrift' \subseteq [of : Generations, stage : Underway]
  BY <1>2 DEF AgentIInv, AgentInv, AgentTypeOK
<1>4. OnlyKnownWork'
  BY <1>2 DEF AgentIInv, FlowTimesOut, OnlyKnownWork, Underway
<1>5. ASSUME NEW h \in Generations, Applied(h)' PROVE Applied(h)
  BY <1>2, <1>5 DEF FlowTimesOut, Applied
<1> QED
  BY <1>1, <1>3, <1>4, <1>5, PlacesKeep, HitchCounts
     DEF FlowTimesOut, AgentIInv, AgentInv, AgentTypeOK

\* The request is decided by a report of its attempt, by its workflow or by the sweep.
LEMMA DecidedKeeps ==
  ASSUME AgentIInv, NEW g \in Generations, NEW succeeded \in BOOLEAN,
         succeeded => Applied(g), agent' = AfterFinish(g, succeeded),
         UNCHANGED <<listed, otherWork, asked, wish, adrift, hostAgent, selected>>,
         flow' \in [Generations -> [state : {"none", "trying", "failing", "closed"},
                                    tries : 0..AgentTries]],
         hitches' \in 0..MaxHitches,
         UNCHANGED grip \/ (grip[g] # "off" /\ grip' = [grip EXCEPT ![g] = "thrown"])
  PROVE  AgentIInv'
<1>1. HostIsAsShown' /\ WishIsKnown' /\ RemovalIsAsked' /\ RemovalsAreAsked'
  BY FinishKeeps
<1>2. /\ agent' \in AgentRows
      /\ agent'.generation = agent.generation
  BY AfterFinishDecides
<1>3. grip' \in [Generations -> Outcomes \cup {"off"}]
  BY DEF AgentIInv, AgentInv, AgentTypeOK, Outcomes
<1>4. AgentTypeOK'
  BY <1>2, <1>3 DEF AgentIInv, AgentInv, AgentTypeOK
<1>5. OnlyKnownWork'
  BY <1>2 DEF AgentIInv, AgentInv, AgentTypeOK, OnlyKnownWork
<1>6. AppliedIsThere'
  BY <1>2 DEF AgentIInv, AgentInv, AgentTypeOK, AppliedIsThere, Applied
<1> QED
  BY <1>1, <1>4, <1>5, <1>6 DEF AgentIInv, AgentInv

LEMMA AttemptFailsKeeps ==
  ASSUME AgentIInv, NEW g \in Generations, AttemptFails(g) PROVE AgentIInv'
<1>1. hitches' \in 0..MaxHitches
  BY HitchCounts DEF AttemptFails
<1>2. grip[g] \in Underway /\ grip' = [grip EXCEPT ![g] = "thrown"]
  BY DEF AttemptFails
<1>3. CASE UNCHANGED agent
  <2>1. grip' \in [Generations -> Outcomes \cup {"off"}]
    BY <1>2 DEF AgentIInv, AgentInv, AgentTypeOK, Outcomes
  <2>2. OnlyKnownWork' /\ \A h \in Generations : Applied(h)' => Applied(h)
    BY <1>2, <1>3 DEF AgentIInv, AgentInv, AgentTypeOK, AttemptFails, OnlyKnownWork,
       Applied, Underway
  <2> QED
    BY <1>1, <1>3, <2>1, <2>2, PlacesKeep DEF AttemptFails, AgentIInv, AgentInv, AgentTypeOK
<1>4. CASE grip[g] = "applied" /\ agent' = AfterFinish(g, TRUE)
  BY <1>1, <1>2, <1>4, DecidedKeeps
     DEF AttemptFails, Applied, Underway, AgentIInv, AgentInv, AgentTypeOK
<1> QED
  BY <1>3, <1>4 DEF AttemptFails

LEMMA FlowFailsKeeps == ASSUME AgentIInv, NEW g \in Generations, FlowFails(g) PROVE AgentIInv'
<1>1. flow' \in [Generations -> [state : {"none", "trying", "failing", "closed"},
                                 tries : 0..AgentTries]]
  BY DEF AgentIInv, AgentInv, AgentTypeOK, FlowFails
<1> QED
  BY <1>1, DecidedKeeps DEF FlowFails, AgentIInv, AgentInv, AgentTypeOK

LEMMA SweepClosedKeeps ==
  ASSUME AgentIInv, NEW g \in Generations, SweepClosed(g) PROVE AgentIInv'
  BY DecidedKeeps DEF SweepClosed, AgentIInv, AgentInv, AgentTypeOK

LEMMA SweepTimeoutKeeps ==
  ASSUME AgentIInv, NEW g \in Generations, SweepTimeout(g) PROVE AgentIInv'
<1>1. agent' = AfterFinish(g, FALSE)
  BY DEF SweepTimeout, AfterFinish, AgentBusy
<1> QED
  BY <1>1, DecidedKeeps DEF SweepTimeout, AgentIInv, AgentInv, AgentTypeOK

-----------------------------------------------------------------------------

LEMMA AgentInitially == ASSUME AgentInit PROVE AgentIInv
<1>1. AgentTypeOK
  <2>1. agent \in AgentRows
    BY AgentAssumption DEF AgentInit
  <2>2. flow \in [Generations -> [state : {"none", "trying", "failing", "closed"},
                                 tries : 0..AgentTries]]
    BY AgentAssumption DEF AgentInit
  <2>3. hostAgent \in [there : BOOLEAN, late : BOOLEAN]
    BY DEF AgentInit
  <2>4. wish \in [Generations -> {"enabled", "disabled"}]
    BY DEF AgentInit
  <2>5. grip \in [Generations -> Outcomes \cup {"off"}]
    BY DEF AgentInit
  <2>6. /\ listed \in BOOLEAN /\ otherWork \in BOOLEAN /\ asked \in BOOLEAN
        /\ selected \in {"none", "read", "refused"}
    BY DEF AgentInit
  <2>7. adrift \subseteq [of : Generations, stage : Underway] /\ hitches \in 0..MaxHitches
    BY AgentAssumption DEF AgentInit
  <2> QED
    BY <2>1, <2>2, <2>3, <2>4, <2>5, <2>6, <2>7 DEF AgentTypeOK
<1>2. HostIsAsShown /\ RemovalIsAsked /\ WishIsKnown /\ RemovalsAreAsked
  BY DEF AgentInit, HostIsAsShown, RemovalIsAsked, WishIsKnown, RemovalsAreAsked
<1>3. OnlyKnownWork /\ AppliedIsThere
  BY DEF AgentInit, OnlyKnownWork, AppliedIsThere, Applied
<1> QED
  BY <1>1, <1>2, <1>3 DEF AgentIInv, AgentInv

LEMMA AgentStep == ASSUME AgentIInv, [AgentNext]_agentVars PROVE AgentIInv'
<1>1. ASSUME NEW desired \in {"enabled", "disabled"}, RequestAgent(desired) PROVE AgentIInv'
  BY <1>1, RequestAgentKeeps
<1>2. ASSUME OtherWork \/ RemoveListedServer \/ AddServerAgain PROVE AgentIInv'
  BY <1>2, OtherWorkKeeps, RemoveListedServerKeeps, AddServerAgainKeeps
<1>3. ASSUME AgentSweep PROVE AgentIInv'
  BY <1>3, SelectRemovalKeeps, FinishRemovalKeeps, RefuseRemovalKeeps, ForgetRemovalKeeps,
     SweepClosedKeeps, SweepTimeoutKeeps
     DEF AgentSweep
<1>4. ASSUME NEW g \in Generations, FlowSteps(g) PROVE AgentIInv'
  BY <1>4, StartFlowKeeps, AttemptGoesOnKeeps, FlowGoesOnKeeps, FlowFailsKeeps DEF FlowSteps
<1>5. ASSUME NEW g \in Generations, AttemptFails(g) \/ AttemptIsGivenUp(g) \/ FlowTimesOut(g)
      PROVE  AgentIInv'
  BY <1>5, AttemptFailsKeeps, AttemptIsGivenUpKeeps, FlowTimesOutKeeps
<1>6. ASSUME NEW a \in adrift, AdriftGoesOn(a) \/ AdriftEnds(a) PROVE AgentIInv'
  BY <1>6, AdriftGoesOnKeeps, AdriftEndsKeeps
<1>7. ASSUME UNCHANGED agentVars PROVE AgentIInv'
  BY <1>7 DEF agentVars, AgentIInv, AgentInv, AgentTypeOK, HostIsAsShown, RemovalIsAsked,
     WishIsKnown, OnlyKnownWork, AppliedIsThere, Applied, RemovalsAreAsked
<1> QED
  BY <1>1, <1>2, <1>3, <1>4, <1>5, <1>6, <1>7 DEF AgentNext

\* The inductive invariant of the agent holds in every reachable state.
THEOREM AgentInvariant == AgentSpec => []AgentIInv
<1>1. AgentInit => AgentIInv
  BY AgentInitially
<1>2. AgentIInv /\ [AgentNext]_agentVars => AgentIInv'
  BY AgentStep
<1> QED
  BY <1>1, <1>2, PTL DEF AgentSpec

\* The host is as the row shows it, unless a script ran after its request was
\* decided, and no server is removed, or waits to be, unasked.
THEOREM AgentHolds == AgentSpec => []AgentInv
<1>1. AgentIInv => AgentInv
  BY DEF AgentIInv
<1> QED
  BY <1>1, AgentInvariant, PTL
=============================================================================
