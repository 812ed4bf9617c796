# Towbar: specifications of the control plane

Towbar is a self-hosted deployment platform: an API over PostgreSQL
(`apps/towbar-api`), a Temporal worker (`apps/towbar-worker`) that drives hosts
over SSH through `packages/towbar-deployer`, a web application, a monitoring
agent and an upgrade runner. These TLA+ modules model the parts in which the
hard behaviour sits: what happens on one server, to one deployment, preview,
database or thread of messages, when requests, workflows, executors, sweeps and
recoveries interleave, fail and are repeated. TLC checks them on small
instances. TLAPS proves every safety property of the passing runs, invariants,
action properties and two refinements, for every instance; where that takes an
assumption on the faults, section 4 names it.

## 1. Inventory

| Component | State | Operations | Hard behaviour | What makes it correct |
|---|---|---|---|---|
| Server coordinator (`workflows/concurrent-server-coordinator.workflow.ts`, `server-scheduling.ts`) | queue, seen identities, active work, completed list, two limits | signal, start, completion, idle close | signals between awaits, limits that change, barriers, idle timer | one unit per application, capacity, order, nothing lost, everything begins |
| Deployment workflow (`deployment.workflow.ts`, `activities/deployment.ts`) | progress of the workflow | mark, execute, recover, continue | cancellation, lost executor, ten recovery attempts | every requested deployment is decided |
| Executor (`towbar-deployer`: `deployment.ts`, `deployment-phases.ts`, `compose-deployment.ts`) | last posted state, commit attempted / confirmed, candidate | transitions, commit, rollback | ambiguous commit, crash anywhere, abort | rolls back exactly the candidates that have no release |
| Deployment row and ledger (`areas/deployments`, `areas/apps`) | state of the row, status of each release | request, event, cancel, commit, recovery status | writers that do not know of each other | terminal rows stay, one current release, success iff released |
| Rolling replacement (`deployment-phases.ts` 421-608) | replicas, route | start, drain, retire, roll back | failure half-way | surge and availability bounds, route names running replicas |
| Previews (`areas/previews`, `preview-lifecycle.workflow.ts`) | environment, builds, cleanup claims, pending event | event, visit, admission, cleanup, retry, sweep | newer event during an activity, two visits of one pull request, cleanup against deployment | nothing after deletion, newest commit wins, every admission signalled, every preview ends |
| Vulnerability scans (`areas/vulnerability-scans`) | state, cycle, lease, findings | request, enqueue, run, complete, recover | late results, dropped signals, expired leases | a result belongs to its cycle, every request is scanned |
| Source sync and automatic deployments (`areas/sources`, `areas/apps/automatic-deployments.ts`, `source-coordinator.workflow.ts`) | synchronisations, what the environment shows, deferred commit, controls, deployment rows | push, sync, attempt, request, pause, resume, sweep | attempts that overrun, a pause between two reads, superseded requests, lost signals | the environment shows the newest synchronisation, a pause is respected, no way back, the newest commit is deployed at last |
| Domain claims (`areas/deployments/domain-claims.ts`) | active, pending, desired owner | reserve, publish, release, hand off | two applications, one hostname | one owner per hostname |
| Resource operations, restores (`areas/resource-operations`, `resource-restore.ts`) | operation rows, pointer, volumes | request, claim, promote, cancel, finish, clean up | a script cut off anywhere, cancellation against completion, failed admission | active and previous volume kept, the first result stays and is true |
| Server checks and preparations (`areas/servers`) | rows, readiness, configuration | request, run, finish, mark, sweep, change and removal of the server | late result after the sweep, configuration changed under a preparation | ready means prepared, nobody works at a removed server, terminal rows stay |
| Monitoring agent on a server (`areas/monitoring/lifecycle.ts`) | row, generation, removal, host | install, remove, sweep, removal of the server | late attempts, stale sweeps | the host is as shown, a removal was asked for, operations end |
| Notifications (`areas/notifications`) | deliveries, attempts, thread | emit, attempt, claim, retry | duplicated workflow, deferred attempts, lost outcome | one root message, never back to an older event, every delivery ends |
| E-mail outbox | deliveries, attempts | enqueue, attempt | as above, without threads | at most five attempts |
| Scout alerts, ingestion, the agent's program | rules, incidents, samples | ingest, evaluate, resolve | overlapping evaluations | one open incident per rule |
| Upgrade admission and runner (`areas/upgrades`, `infra/upgrade-runner`) | admission row, leases, job files, CLI | plan, start, pause, execute, resume | crash between two files, lost workers, CLI that outlives its thread | no upgrade during work, a request runs once, records are true, admission opens again |
| Legacy coordinator, auth, team, OAuth, analytics, integrations, manifests, UI, CLI | - | - | - | not modelled: request-scoped, pure or external |

How they interact: the API inserts rows and signals a per-server coordinator
(`signalWithStart`); the coordinator starts child workflows and activities and
learns only that they ended; activities call back the API over signed,
retried HTTP requests; rows are the only thing that survives everything.

The hazards of this code, each with its line and with the properties that
would catch it, are in `PROJECT.json`.

## 2. Modules

| Module | Models | Notes |
|---|---|---|
| `ServerScheduling` | `nextServerWorkIndex`, `serverWorkIdentity` | pure operators, stated as which position may be returned |
| `ServerCoordinator` | the coordinator workflow | one action per stretch between awaits |
| `ServerAccess` | what the coordinator promises | abstract: a set of pending items, a set of running ones |
| `VulnerabilityScan` | scans of images on one server | EXTENDS `ServerCoordinator`: its work runs on the coordinator itself |
| `DeploymentStates` | `contracts/src/temporal.ts` | the transition table |
| `ReleaseLedger` | the status updates of `commitDeploymentRelease` | |
| `DeploymentLifecycle` | API, workflow, executor and recovery of deployments of one application | composes the two above |
| `DeploymentOutcome` | what a deployment promises | abstract: success iff promoted, decided once |
| `RollingReplacement` | `startRollingCandidates`, its catch block, rollback and recovery on the host | the inside of the executor's `starting_candidate` step for a rolling rollout |
| `PreviewEnvironments` | one preview: events, visits, admission, builds, cleanups | the coordinator as a line, one item at a time |
| `ResourceRestore` | restores of one database, cleanup of replaced volumes | with a redeployment beside them |
| `ServerUpkeep` | checks and preparations of one server, its configuration and removal | both are barriers of the coordinator |
| `MonitoringAgent` | the agent of one server, and the removal that waits for it | |
| `NotificationDelivery` | deliveries of one Slack thread | |
| `AutomaticDeployment` | one environment of a source, from a push to the deployments of its workload | the deployments themselves are rows that wait, run and end |
| `HostUpgrade` | admission of work, leases, the upgrade runner and its CLI | |
| `ServerCoordinatorProofs`, `DeploymentLifecycleProofs`, `RollingReplacementProofs`, `HostUpgradeProofs`, `ServerUpkeepProofs` (with the agent), `AutomaticDeploymentProofs`, `SystemProofs` (scans, notifications), `WorkloadsProofs` (previews, restores) | | section 4 |
| `MCServerCoordinator`, `MCDeploymentLifecycle`, `MCPreviewEnvironments`, `MCAutomaticDeployment` | instances for TLC | items, limits, fault sets, digests, symmetry |
| `MCRollingReplacement`, `MCSystem`, `MCWorkloads`, `MCServers` | sums of protocols that share no state | a behaviour chooses one `area` and stays in it, so that one run explores each and the product is never formed |

### ServerCoordinator

`queue`, `seen`, `active`, `completed` and the two limits are the workflow's
variables. `pc` is the position of its loop. A Temporal workflow is
single-threaded and its handlers run only while the main function awaits, so
`EnqueueServerWork` and `WorkEnds` are enabled only where the code awaits
(`idle`, `waiting`; `closed` for `signalWithStart`), and the loop between two
awaits is cut into `Drain`, `StartWork` (one item each) and `Await`. `active`
holds the item itself where the code keeps application, preview and scan flag;
those are functions of the item. Temporal delivers the signals of an
activation before its timers and refuses to complete a run with unhandled
signals: `IdleTimeout` needs an empty queue. A unit of work is atomic here;
the inside of a deployment is `DeploymentLifecycle`, whose
`StartWorkflow` uses what `OneWorkPerApp` states, and that of a scan is
`VulnerabilityScan`.

### VulnerabilityScan

A row per image digest with its cycle, the signals the API has still to send,
and the activities (`executor`) that work on a cycle. Signals are sent after
the transaction and may be lost; the sweep signals pending rows again and fails
none. The coordinator drops an identity it has seen, so a row whose activity
was lost is scanned again only once the coordinator has closed or the lease has
run out and the next cycle has an identity of its own. An activity sends one
heartbeat: `ScanWorkEnds` may come while the scanner is at work.

### DeploymentLifecycle

One application, one environment, several deployments. For each: the row's
`state` (`"unrequested"` before the insert), the phase of its workflow, the
executor (phase, last state posted, aborted or not), the failed recovery
attempts, its container and its entry in the ledger. The workflow and the
executor are separate actors on purpose: an executor Temporal gave up on
(`HeartbeatTimeout`, `CancelDeployment`) still runs and acts. The executor's
phases `running`, `uncertain` and `promoted` are the three values of
`resolveDeploymentFailureBoundary`. A request skips the application's rows that
are still queued in the transaction that inserts its own (`QueuedAreSkipped`);
the workflow of a skipped row, once it starts, is refused by the table. A
request that is answered with a deployment there is changes nothing and is no
action. States are posted in the order of the
source; `Accepts` is the API's answer. A recovery is cut where it awaits:
`ReadStatus` fixes the decision, later steps carry it out.

Abstractions: the containers of a deployment are one `candidate`; the start of
a candidate is one step at `starting_candidate` (`checking_health` for Compose,
whose script runs after that post); a request's retries are folded into its
action, with a lost answer of the commit as an outcome of its own; DNS,
tunnels, images, previous containers, logs, steps and notifications are left
out. `MayLeave` is the set of cases in which a rollback leaves the candidate:
the host does not answer (also a failed domain rollback, which skips the
removal), or the Compose script failed before `candidateStarted` was set.
Recovery's last attempt is spared from crashes: an outage of all ten would
leave any system undecided.

`Faults` selects what may go wrong, so that a run asks one question. A crashed
executor is also a late one that does nothing more, so `deployment_late` leaves
plain crashes to the other runs.

### RollingReplacement

One replacement of the containers of the current release, `Old(1)` to
`Old(count)`, any of which may be down, by `New(1)` to `New(replicas)`.
`previous`, `activePrevious`, `attempted` and `candidates` are the variables of
`startRollingCandidates` (the lists of candidates are counted, since they grow
in the order of their names); `running` and `route` are the server's. Every
command of the executor is a step that may fail, with and without its effect
where the command can fail behind it. `MustRetire` joins the two loops: the one
that makes room before a candidate and the one that retires the rest. `doomed`
is what the next rollback knows by name: nothing for an executor whose
`startRollingCandidates` threw (the catch block inside has already removed the
candidates), every candidate once it returned, every name for recovery.
The rollback of executor and recovery is the three-part sequence of
`deployment.ts`; `rollbackCandidateScript` may be cut off after any of its
effects. `cleanupPending` records that a command which undoes something
failed: the executor logs and goes on, recovery gives up (`Or`).

Abstractions: a container stands for its port, since applications get ports
that survive a restart (`app-runtime-scripts.ts:92`); `docker stop`, `docker
rm -f` and `docker start`, whose failures the source ignores, succeed when
they reach the server; domains, DNS, images and drain times are left out; a
crash falls between two commands; executor and recovery do not overlap here.
A release whose post of `switching_traffic` or whose commit fails goes from
`returned` to the rollback; what becomes of an uncertain commit is
`DeploymentLifecycle`'s subject. `FailureRestores` speaks of the end: between
the removal of a complete set of candidates and the start of the old
containers nothing serves, as the source has it.

### PreviewEnvironments

`pull` is the pull request as its host has it, `pending` the one slot of the
lifecycle workflow, `visit` the two handlers of the API that read the pull
request and write the environment (the event's and a manual deployment's) under
the lock of the preview. `preview` is the row of the environment, `build` the
rows of its deployments with the key that makes an admission find an earlier
one. An event may also be consumed with nothing done (`VisitIgnores`: an inactive
source, a pause, a server that is not prepared), at any visit, since none of
these is part of the state; `overlooked` is a history variable, the queued
deployments such a visit left without a signal. A cleanup is a claim, a signal,
an item of the coordinator and attempts of an activity (`cleaners`) that may
overrun. Of a deployment there remains what
previews see: it starts a container, records the release, reports.

### ResourceRestore

The row, the request and its failure, the canceller, the workflow, the executor
of each restore, and the host: the pointer, the volume the container runs on,
the volumes there are. The promotion script is cut at each of its effects and
may die at any. A failure before it removes the candidate, or tries to
(`GivesUp`); only an abort during the download ends as cancelled, any other is a
command that failed. A script is assumed to end
when its executor learns that it failed. If only the connection or the ten
minutes of the local `ssh` end, the remote script may go on behind a row that
says `rollback_failed`: that is left out; a script that goes on alone is in
`WorkerCrashes`, where the row is failed by the workflow's mark. `late` separates the behaviours in which Temporal ends the
workflow of an executor that is still at work: properties about the data
exclude them, those about rows do not.

### ServerUpkeep and MonitoringAgent

`ServerUpkeep` follows a row from its request (`requester`) over the
coordinator (`slot`) to the activity (`hand`), beside `UpdateServer`,
`RemoveServer` and `AddServer`. Configurations differ in `PreparationInputs` or
not, which is what `serverPreparationInputs` distinguishes; `hostReady` records
what the host was really prepared with. `MonitoringAgent` numbers the requests
(`generation`); each has a workflow (`flow`), an attempt (`grip`) and perhaps
attempts that were given up (`adrift`), which run the same `AttemptActs`.
`selected` is a sweep between its read and its write: the removal it carries out
(`FinishRemoval`) may be refused, or be made and its answer lost
(`RefuseRemoval`), and then the flags are cleared by a statement of its own that
looks at nothing but the server (`ForgetRemoval`).

### AutomaticDeployment

Commits are numbered as they are pushed, synchronisations as they are created;
`sync` holds the rows, `env` what the environment shows of them
(`latestSuccessfulSyncId`, `latestCommitSha`). A synchronisation is signalled
(`unsent`), queued in the coordinator of the source (`line`) and worked off in
turns (`turn`) of a few attempts. An attempt is one request to the API (`call`),
cut where the source awaits: `execute`, `fetch`, `store`, then the admission,
`commit`, `source`, `environment`, `choose`, `request`, `signal`: the control of
the source and that of the environment are read by two queries. The sweep of the maintenance makes the
same request without a synchronisation of its own (`sweep`), and so does an
environment whose automation is resumed. What the worker no longer waits for
(`CallIsGivenUp`), or nobody ever did, goes on as a member of `astray`: all of
them run the same `RequestActs`, with `c` for what the request has read and
`next` for what it reads now, which is the point of the module: commit, the two
controls and workload are read at four moments, and only the last transaction
checks the commit again (`IsSuperseded`). `paused` holds the controls that are
set, `since` the head when each of them was; `heldBack` is a history variable.

Abstractions: a commit of the workload is its `sourceRevision` and has a digest
(`DigestOf`); the mapping from branch to environment, permissions, server
readiness, secrets and domains are as they should be; one workload; the control
of the workload, which is read with the workload itself, is left out; a deployment is a
row that waits, runs and ends (its inside is `DeploymentLifecycle`).

### NotificationDelivery

Deliveries are numbered in the order of their events and recorded in any order.
Their workflows ask for attempt after attempt, sleep when told to, and may be
started twice; an attempt claims its row, then the thread, calls the provider
and records the outcome, each in a step of its own. A success whose record fails,
or was made and its answer lost (`FinishFails`), goes to the catch of
`executeNotificationDeliveryAttempt`, which writes a retryable failure whatever
the row says. A claim of the thread expires after two minutes.

### HostUpgrade

New work takes a share lock on the admission row before it becomes visible
(`AdmitRow`, `EndAdmission`), the runner's pause is the exclusive one. The job
is in memory and in two files, and `Saved`/`PartlySaved` say which of them a
failure leaves behind. `thread` is the position in `execute`, `start` and
`resume`; the CLI is a process of its own that goes on when the runner stops.
`OperatorWaits` states what the manual asks of the operator: to resume only
when no CLI is left.

## 3. Runs

| Run | Question | Answer |
|---|---|---|
| `coordinator_mixed` | acceptance, exclusion, capacity, orders, refinement of `ServerAccess`, and does all work begin that no barrier holds, for three mixes of work | holds |
| `coordinator_barrier_race` | does a barrier at work keep others out (comment in `server-scheduling.ts:31`) | **no** |
| `coordinator_stuck` | does the coordinator never sleep on work on an idle server (`servers.mdx:104`) | **no** |
| `deployment_app` | release and container under crashes, three deployments, refinement of `DeploymentOutcome` | holds |
| `deployment_late` | executors that outlive their workflow, cancellation, failing signals, first activities and hosts, all at once | ledger, success and finality hold |
| `deployment_stranded` | an application whose executor stops after the commit | **stays undecided** |
| `rolling` | availability, surge, route, headroom, and complete success or complete restoration, under any failure, crashes and repeated recovery; beside it: are Compose deployments always decided under crashes | holds |
| `system` | scans over the coordinator; the upgrade of the host; the messages of a thread | holds |
| `workloads` | a preview under pushes, closings, manual deployments and cleanups; restores of a database | holds |
| `servers` | checks, preparations and changes of a server; its agent and its removal; pushes, synchronisations, pauses and automatic deployments of an environment | holds |
| `previews_rewound` | does a healthy preview run the head of its pull request (`previews.md:20`) | **not after a rewind** |
| `automation_held_back` | does a revision that a pause held back stay eligible (README of the API) | **no** |

The runs in bold are the findings of `PROJECT.json`, each with the lines it
contradicts. What follows from them for the passing runs: `AcceptedWorkBegins`
excepts a queue held by a barrier behind a preview or scan; `NotStranded` and
`RequestedIsDecided` are asked of Compose, whose states skip
`running_post_deploy`; in `workloads` no push goes back. Both commits have the
same inputs there.

Several invariants are conjunctions, to be read together as what holds of a
component at every moment:

| Invariant | Parts |
|---|---|
| `CoordinatorInv` | `TypeOK`, `AcceptedOnce`, `OneWorkPerApp`, `WithinLimits`, `NothingLostOnClose` |
| `LifecycleInv` | `TypeOK`, `LedgerConsistent`, `SuccessMeansReleased` |
| `CommitIsRespected` | `FailureMeansUnreleased`, `ReleaseKeepsCandidate` |
| `RolloutInv` | `TypeOK`, `RouteIsLive`, `NeverTooFewLeft` |
| `AutomationInv` | `AutomationTypeOK`, `NewestSyncIsShown`, `PauseIsRespected` |
| `ScanInv` | `ScanTypeOK`, `FindingsBelong`, `OneScanPerCycle` |
| `RecordsAreTrue` | `HostTypeOK`, `PauseHasItsJob`, `ExecutedOnce`, `NoOrphanedRequest`, `ClaimsAreTrue`, `ResultsAreTrue` |
| `ThreadInv` | `NotificationTypeOK`, `ThreadIsExclusive`, `OneRoot`, `SucceededIsAccepted` |
| `PreviewInv` | `PreviewTypeOK`, `DeletedIsGone`, `AdmittedIsSignalled` |
| `RestoreInv` | `RestoreTypeOK`, `ActiveIsKept`, `PreviousIsRetained`, `CancelledIsUntouched` |
| `UpkeepInv` | `UpkeepTypeOK`, `ReadyMeansPrepared`, `RemovedIsIdle` |
| `AgentInv` | `AgentTypeOK`, `HostIsAsShown`, `RemovalIsAsked` |

`NothingGoesBack` joins the action properties of the areas of its run
(`DecidedStays`, `SucceededStays`, `RootNeverGoesBack`; `NeverGoesBack`,
`RestoreIsFinal`), `ServiceIsAsTold` two of `workloads` that hold where no
executor is late (`SuccessIsServed`, `OutageIsReported`), `ServerWorkEnds` two
liveness properties of `servers` (`ChecksEnd`, `AgentSettles`). `RolloutEnds`
and `ComposeIsDecided` are the liveness properties of `RollingReplacement` and,
for Compose, of `DeploymentLifecycle`, each in its area.

### What else the models show

No run is spent on these; each is in the model and can be seen with TLC.

* A deployment cancelled between its first activity and its executor ends its
  workflow outside the `try` block (`deployment.workflow.ts:31`), without
  recovery: with `Faults = {"cancel"}` `NotStranded` fails. The permitted build
  fallback posts a state the table refuses. A cancellation while the commit is
  on its way leaves a release that is failed and current.
* The API fails a row whose signal failed by its id alone
  (`areas/apps/service.ts:319` and its likes for restores, checks and
  preparations): a decided row becomes failed, which `TerminalIsFinal`,
  `RestoreIsFinal` and `UpkeepIsFinal` name as the one exception.
* With `maxSurge` above `replicas` the headroom that is checked
  (`deployment-phases.ts:684`) is less than what the loop uses.
* A build of an older commit may stay queued behind a newer one
  (`docs/docs/previews.md:52` has it superseded): when the signal of an admitted
  build failed and the retried event finds a newer commit whose digest is that
  of the release in place, the preview is declared healthy
  (`previews/admission.ts:232`) and what is queued is neither superseded nor
  signalled. It takes three commits of digests 1, 2 and 1. `AdmittedIsSignalled`
  therefore speaks of the commit that the preview shows.
* A deployment whose signal failed stays queued when the event that is retried is
  consumed with nothing done: automatic deployment was paused, the source
  deactivated or the server's preparation lost in between
  (`previews/service.ts:161`, `208`, `371`). It waits for the next event of the
  pull request; `AdmittedIsSignalled` names it (`overlooked`).
* A delivery that succeeded is sent again when the answer to the transaction that
  recorded it is lost: the catch (`notifications/delivery-service.ts:97-109`)
  records a retryable failure without a look at the row (`finishAttempt`, 464).
  `SucceededStays` names it (`Misjudged`).
* What was pushed during a pause may be deployed while a control is set: a request
  reads the control of the source (`automatic-deployments.ts:263`), then that of
  the environment (276). When the source is paused and the environment resumed
  between the two, it finds neither set. `PauseIsRespected` therefore speaks of
  each control by itself.
* A restore that failed before its promotion reports its candidate as removed
  (`candidateCleaned`) although a removal that fails is ignored
  (`resource-restore.ts:424-430`).
* A scanner whose heartbeat timed out runs beside the next attempt or the next
  scan.
* An upgrade whose report cannot be saved leaves the CLI unwatched; with
  `OperatorWaits = FALSE` `QuietWhileReplacing` fails.
* Cancelling a restore that is queued is recorded and ignored
  (`docs/docs/restores.md:56`); one that is cancelled later may still go on to
  promote; a progress report that fails after the promotion ends as
  `rollback_failed` for a database that runs on the candidate.
* A preparation whose worker is lost stays unfinished for ever, as does a check
  that was never signalled; both refuse the removal of the server, the former
  any other preparation.
* A removal of a server with an agent that a team key asked for is accepted and
  never carried out (`monitoring/lifecycle.ts:375-376`); `removalRequested`
  survives the removal, so a server that returns is shown as waiting for its
  agent to go. A script that runs after its request was decided can leave an
  agent where none is shown (`HostIsAsShown` names it).
* An attempt of an older synchronisation that overran may read a newer head and
  store it before the newer synchronisation, which has read the branch earlier,
  stores its own: the environment, and with it the deployments, go back to the
  older commit until the next synchronisation (three of each are needed to see
  it). `NeverDeploysBack` therefore speaks of synchronisations that read the
  branch in the order in which they were asked for.
* "Sync now" does not deploy: one that overtakes the synchronisation of a push
  makes that one stale, and the push is not deployed automatically. A push
  during a pause of the environment's automation is deployed by the request that
  resuming makes, and by nothing else, since its synchronisation was created not
  to deploy.
* An admission is keyed by synchronisation and commit: a retry finds the row of
  the first try even if it failed or was never signalled, and two
  synchronisations of one digest may deploy it twice. When a commit and its
  revert surround another (`DigestOf = <<"a", "b", "a">>`), the release in place
  may satisfy the third commit while the second is still waiting.

### Bounds

* Coordinator: mixes of five items, limits 1 and 2. Two units at work and three
  in the queue are enough for every branch of the scheduler: full server, full
  preview share, busy application, scan at work, barrier at and behind the
  head. `Capacity` and `PreviewCapacity` are the maxima of the limits sent.
  Re-signalling is unbounded.
* Deployments: two, or three where `superseded` matters; one application, since
  applications share nothing but the server. `MaxRecoveries` is 2 where the
  source has 10: a first attempt that fails and a last one.
* Rolling: up to three replicas and three old containers, surge up to 4,
  unavailability up to 2, every subset of the old containers down, two
  attempts of recovery. Surge and unavailability thus lie below, at and above
  the number of replicas, and old containers may be missing or in excess.
* Scans: one row, cycles up to three (two requested and one forced by an
  expired lease), two activities per cycle, one fault. Upgrades: two requests,
  two releases, one row, one activity, two mishaps. Notifications: two
  deliveries with two attempts each (five in the source), one trouble. Each
  protocol needs two competitors; its guards compare no more than two.
* Previews: two commits, two builds, two tries of a cleanup, one misfortune
  besides all that users may do. Three commits whose digests return multiply the
  states beyond a run of minutes; the proofs speak of any number of commits and
  any digests. Restores: two of one database, one mishap.
* Upkeep: two preparations and a check, two of them asked for when nothing goes
  wrong and one otherwise, three configurations (two of the same inputs), two
  upsets. Agent: two generations, two tries (three in the source), one hitch.
* Automatic deployments: two commits of different digests, two synchronisations,
  two tries (three in the source), both controls with a third change that resets
  one of two, one snag; with the snag one control is set, and reset before a
  second synchronisation. `AutomationInv` and `NeverDeploysBack` are proved for
  any of these.
* Deadlock checking is off where the system may stop: when every deployment is
  decided, a replacement has ended, and in the sums, where nobody has to ask
  for anything and the bounded requests are used up. `SYMMETRY` is used for
  safety and for the one refinement whose mapping is symmetric, never with
  fairness.

### Fairness

`ServerCoordinator`: the main loop runs when its await is satisfied (Temporal
schedules it), and work that is active ends (activities have start-to-close
timeouts, child workflows consist of them). Signals are not fair.
`DeploymentLifecycle`: the API finishes a request it began, workflows and
activities are scheduled, every step of the executor has a timeout, per
deployment. `RollingReplacement`: the executor, and whoever undoes its work,
takes its next step. `VulnerabilityScan`: the sweep (every five minutes),
activities that end or are stopped, leases that run out, and, since nothing but
scans is signalled there, the idle timer. `HostUpgrade`: transactions,
activities, threads and processes go on, systemd starts the runner again, and
the operator resolves what is pending and resumes. `NotificationDelivery`:
Temporal runs each workflow, the API ends the handlers it began.
`PreviewEnvironments`: Temporal retries, the sweep comes back, and a visit that
finds the lock taken is retried until it is free (strong fairness, the only
one). `ResourceRestore`: admissions end, Temporal runs workflows and retries
the mark, a live executor works on. `ServerUpkeep` and `MonitoringAgent`: the
API, Temporal and the workers go on per row and per generation, and maintenance
runs. `AutomaticDeployment`: signals are delivered, the coordinator of the
source and the request it waits for go on, as do the sweep and the deployments;
a request nobody waits for is not fair. Faults are part of some of these disjunctions but never required, and
neither requests nor cancellations nor crashes are fair.

In the sums an area's fairness is the module's; since one area runs, an action
of each shares a conjunct (`Fair`).

## 4. Proofs

Every theorem holds for all values of the constants that the named assumptions
of its module admit; what a theorem assumes beyond them (some faults never
occur, commits are only added) stands in its statement and is named below. The
inductive invariants were checked by TLC on the runs' instances before they were
proved.

`ServerCoordinatorProofs`, for any items, limits and capacities: `CoordinatorInv`
and each of its parts, `BarrierNotOvertaken`, `SameAppInOrder`,
`ProductionFirst`, and that the coordinator implements `ServerAccess`. The
inductive invariant adds to these what links them: finiteness of `active` (for
cardinalities), `completed` within `active`, and that queue, active work and
`seen` agree, without which a dropped identity says nothing about a running one.

`DeploymentLifecycleProofs`, for any number of deployments and recovery
attempts, both kinds of application and every set of faults: `LifecycleInv` and
`TerminalIsFinal`. `SuccessMeansReleased` is not inductive: success is posted by
an executor that believes it has committed and by a recovery that read a release
some steps ago. The invariant therefore says that a promoted executor has a
release (`PromotedIsReleased`), that an executor which has not committed never
posts the states behind the commit (`RunningIsUnpromoted`), and that a recovery
on its way to success has a release (`FinishedIsReleased`); a release is never
taken away. `AttemptsLeft` bounds the recovery counter and needs
`RowsOfWorkflows`, since only a row that was never requested starts a workflow.

The other three hold only while executor and recovery do not overlap.
`OneAtATime` says so of the faults: no executor outlives its workflow, nobody
cancels, the API overrules no row it signalled. With any of these TLC finds a
failed deployment with a release, which is what the code does. Crashes, failed
steps, lost answers of a commit and silent hosts remain. Under `OneAtATime`:
`CommitIsRespected`, from `TurnsInv`, which says who works when
(`NobodyElseDecides`, `ExecutorHasItsTurn`), that nobody has begun what a request
may skip (`QueuedIsUntouched`) and that what the one at work
believes of the release is so (`ExecutorKnowsRelease`, `RecoveryKnowsRelease`);
the refinement of `DeploymentOutcome`, where a request supersedes those that
wait; and, where a rollback can succeed
(`EveryRollbackWorks`: no Compose project, a host that answers),
`NothingLeftBehind`, from `RollbackComesFirst`.

`RollingReplacementProofs`, for every rollout that satisfies the schema's
constraints, any number of old containers and of recovery attempts and every
set of faults: `RolloutInv`, `StaysAvailable`, `WithinSurge`,
`PromotedIsComplete`, `FailureRestores` and `HeadroomSuffices`. None is
inductive. The invariant says exactly
which containers run in every phase (`RunsInUse`) and bounds which the route
names (`RoutesInUse`), so that cardinalities become numbers: `Load` is what
runs, `Routed` the candidates that serve, and `LoadBounded` keeps both within
the manifest's limits. For the way back, `LeftoversKnown` says that what still
runs of the candidates is known by name to whoever comes next, `RouteSaved`
that a changed route was saved, and `RecoveryKnowsAll` that recovery starts
with every name, which a second attempt needs after a first that broke off.
Minimum and cardinality come from the library's theorems on well-founded orders
and finite sets.

`HostUpgradeProofs`, for any requests, rows, activities, releases and mishaps:
`RecordsAreTrue`, and under `OperatorWaits` `QuietWhileReplacing`. The
invariant `HostInv` is cut by what it relates: `JobInv` (memory, job.json and
the position of the thread), `RecordInv` (the records of requests that are not
the current one have their result, and what was executed), `ClaimInv` (what
execute believes of the admission, against the admission) and `ResultInv` (what
a result says, against the CLI and the release installed). Each save may write
one of two files, so every part speaks of memory and of both files.
`PauseInv` adds, for an operator who waits, that a CLI which replaces services
is watched or its pause still stands, and that nothing admitted is under way
behind the pause.

`SystemProofs`, scans and notifications, for any number of rows, cycles,
deliveries, attempts and troubles: `ScanInv`, `ThreadInv`, and the three action
properties of `NothingGoesBack` in `MCSystem`, whose behaviours are shown to be
behaviours of both modules. `ScanIInv` adds that a row which was asked for has a
cycle (`RowsHaveCycles`) and that an activity scans for a cycle which has left
"pending" for good (`ScannedWasMarked`). The thread needs more: `OneRoot` and
`RootNeverGoesBack` depend on what an attempt saw before it sent.
`NotificationIInv` says that attempts are numbered and each handler belongs to
one that is due, or is about to fail one whose success it could not confirm
(`AttemptsInOrder`, `HandlersAreDue`), that a handler which is
sending holds a claim of the thread that nobody can take over (`ClaimIsHeld`),
that what it knows of the thread is still so (`ThreadIsKnown`,
`RootIsUpToDate`), that a second root costs a lost answer
(`RootsAreAccountedFor`), and that what counts as sent was accepted
(`SentIsAccepted`).

`WorkloadsProofs`, restores: for any number of restores and mishaps `RestoreInv`,
`ServiceIsAsTold` and `RestoreIsFinal`. What is said of rows holds always
(`VerdictsAreLast`: a result is what the executor reported at its end;
`CandidatesAreApart`: before the switch nobody depends on the candidate's volume;
`OneEngaged`: one workflow is at work). What is said of the host holds while
no executor that Temporal gave up on is still at work (`~late`), and is one
conjunct, `AloneInv`: the volume the pointer names exists; every position of the
executor fixes pointer, container and volumes (`Place`); the volume that a
promotion left is returned to by nobody and was left by it alone
(`LeftForGood`); a service that is down has a restore in its script, one that is
yet to say so, or one that has failed (`DownFor`).

`WorkloadsProofs`, previews: for any number of commits, builds, visits and
misfortunes and any digests `PreviewInv`, and `NeverGoesBack`. `DeletedIsGone`
holds because no release is recorded while an attempt of the awaited cleanup is
at work, nor after it (`CleanupsAreAlone`), which rests on what the coordinator
and the cleaners can have to do at all (`WorkIsKnown`), and because a build that
is queued for a preview that goes meets a claim that will skip it
(`ClaimsAreOwed`). `AdmittedIsSignalled` and `NeverGoesBack` assume that pushes
only add commits (`~Rewinds`), since their invariant does: what is shown is not
ahead of what a visit has read, nor that of the pull request
(`CommitsAreAdded`), the latest build is of the commit that is shown and alone
may be queued (`LatestIsShown`), and a queued build of that commit was signalled,
was overlooked, or somebody is still to see to it (`SignalIsOwed`). `previews_rewound` shows what
a rewind does.
The behaviours of `MCWorkloads` are behaviours of both modules, so the theorems
hold of what the run explores.

`ServerUpkeepProofs`, for any preparations, checks, configurations and upsets:
`UpkeepInv` and `UpkeepIsFinal`. `ReadyMeansPrepared` is not inductive: the
digest that makes a server ready may have been written for a configuration that
was replaced and has come back, kept by a change that needs no preparation, or
be about to be written by a report. `PreparedInv` therefore speaks of the
digest whether it is the current one or not, and of every activity that is
about to report success. `StationsInv` orders row, request, turn and activity,
so that a failed insert cannot meet a row that is under way. For the agent, any
generations, tries and hitches: `AgentInv`. `AgentIInv` adds that a row which
is decided shows the wish of its request (`WishIsKnown`), that nobody works for
a request that was never made (`OnlyKnownWork`), that what an attempt is about
to report is so unless a script ran late (`AppliedIsThere`), and that a removal
in progress was asked for (`RemovalsAreAsked`).

`AutomaticDeploymentProofs`, for any commits, digests, synchronisations, tries
and snags: `AutomationInv` and `NeverDeploysBack`. Commit, the two controls and
workload are read by a request at four moments, so the invariant has a part for
every request in play, waited for or not (`RequestIsSound`): what it has read was
so at some time, and for each control that it has found reset (`ControlsRead`)
it carries a commit from before any pause of that control that has begun since. `BranchIsAhead` keeps what is shown behind the
branch, `CourseIsSound` keeps turn, line and rows together, and `OrderIsKept`
says that where synchronisations read the branch in their order, rows which wait
are not older than what runs or ran.

Only model-checked: liveness (`AcceptedWorkBegins`, `RolloutEnds`,
`ComposeIsDecided`, `RequestedIsScanned`, `AdmissionReopens`, `DeliveriesEnd`,
`EveryPreviewEnds`, `RestoresEnd`, `ServerWorkEnds`, `NewestIsDeployed`), since
fairness and ENABLED are beyond the prover. The properties of the five runs that
expect a violation do not hold.

## 5. Not modelled

The components marked `not_modelled` in `PROJECT.json`, with the reason there:
most of the repository by lines is user interface, manifest parsing, queries
and request handlers of one transaction, and calls of external services. Within
the modelled ones: admission checks and idempotency keys, domain claims and
handoffs, image retention, continuation of a deployment workflow after success
beyond the fact that it ends; manual deployments and rollbacks beside automatic
ones, changes of a mapping, setting a control to the value it has; the comment and status on a
pull request, cancellation of a queued preview; backups, jobs and the contents
of a database; what a check observes; tokens and versions of the agent;
destinations without threads and manual retries of notifications; the inside of
the upgrade CLI beyond its four stages.

Next would be `DomainClaims` with the commit of `DeploymentLifecycle`, the ports
of `RollingReplacement` and an executor that works on beside recovery, and the
continuation of a deployment workflow as a request of `AutomaticDeployment`.
