------------------------- MODULE AutomaticDeployment -------------------------
(***************************************************************************)
(* From a push to its deployment: the synchronisations of one environment  *)
(* of a source, the workflow that runs them in turn                        *)
(* (source-coordinator.workflow.ts), the two requests it makes for each    *)
(* (execute and auto-deploy), the sweep of maintenance that admits what a  *)
(* pause has deferred, and the deployments of the one workload the         *)
(* environment declares, which take their turns.                           *)
(*                                                                         *)
(* Commits are numbered as they are pushed, synchronisations as they are   *)
(* created (createdAt), 0 standing for none.  The mapping of the branch,   *)
(* members' permissions, readiness of the server, secrets and domains are  *)
(* as they should be, manual deployments and previews are left out, and    *)
(* the workload's own control, which works as that of the source.          *)
(***************************************************************************)
EXTENDS Naturals, Sequences

CONSTANTS
    MaxCommit,      \* bound on the pushes
    MaxSync,        \* bound on the synchronisations
    DigestOf,       \* commit |-> deploymentDigest of the workload
    SyncTries,      \* maximumAttempts of the activity
    Controls,       \* the automation controls that are used
    MaxPauses,      \* bound on the changes of the automation controls
    MaxSnags        \* bound on what fails, is lost or given up

Commits == 1..MaxCommit
Syncs == 1..MaxSync

ASSUME AutomationAssumption ==
    /\ MaxCommit \in Nat /\ MaxSync \in Nat /\ MaxPauses \in Nat /\ MaxSnags \in Nat
    /\ SyncTries \in Nat \ {0}
    /\ Commits \subseteq DOMAIN DigestOf
    /\ Controls \subseteq {"environment", "source"}

VARIABLES
    head,        \* the head of the branch
    unsent,      \* synchronisations whose signal is on its way
    line,        \* the queue of the coordinator
    turn,        \* what it runs: [of, tries]
    call,        \* the request of its attempt, and
    sweep,       \* that of the sweep: [of, stage, commit, paused]
    astray,      \* requests at work that nobody waits for
    sync,        \* synchronisation |-> [status, deploys, commit]
    env,         \* [latest, commit]: latestSuccessfulSyncId, and latestCommitSha
                 \* as well as the workload's sourceRevision
    deferred,    \* the commit of deferredAutomaticDeployment
    heldBack,    \* the commit that was deferred last
    rows,        \* the deployments: [of, commit, state]; of and commit are their key
    current,     \* the commit of the current release
    paused,      \* the controls that are set,
    since,       \* control |-> the head when it was set
    changes,     \* of the controls, so far
    snags        \* so far

courseVars == <<head, unsent, line, turn>>
requestVars == <<call, sweep, astray>>
dataVars == <<sync, env, deferred, heldBack, rows>>
controlVars == <<paused, since, changes>>
automationVars == <<courseVars, requestVars, dataVars, current, controlVars, snags>>

Waiting == {"unsignalled", "queued"}      \* the states of a row that is queued
Finished == {"succeeded", "failed", "skipped"}

Call(of, stage, commit) == [of |-> of, stage |-> stage, commit |-> commit, paused |-> FALSE]
Over(stage) == Call(0, stage, 0)
Idle == Over("done")

\* The stages of a request with something left to do: execute, then auto-deploy.
Executing == {"execute", "fetch", "store"}
Deploying == {"commit", "source", "environment", "choose", "forget", "defer", "request",
              "signal", "admitted"}
Unended == Executing \cup Deploying

Snag == snags < MaxSnags /\ snags' = snags + 1

AutomationInit ==
    /\ head = 0 /\ unsent = {} /\ line = <<>>
    /\ turn = [of |-> 0, tries |-> 0]
    /\ call = Idle /\ sweep = Idle /\ astray = {}
    /\ sync = [s \in Syncs |-> [status |-> "none", deploys |-> FALSE, commit |-> 0]]
    /\ env = [latest |-> 0, commit |-> 0]
    /\ deferred = 0 /\ heldBack = 0 /\ rows = {} /\ current = 0
    /\ paused = {} /\ since = [control \in Controls |-> 0] /\ changes = 0
    /\ snags = 0

-----------------------------------------------------------------------------
(***************************************************************************)
(* Pushes, requests for a synchronisation, automation controls.            *)
(***************************************************************************)

\* scheduleLatestAutomaticDeploymentsForSource begins.
Latest == Call(0, "commit", 0)

\* requestEnvironmentSync: the row, whose signal follows.
QueueSync(deploys) ==
    \E s \in Syncs :
        /\ sync[s].status = "none" /\ \A r \in Syncs : r < s => sync[r].status # "none"
        /\ sync' = [sync EXCEPT ![s].status = "queued", ![s].deploys = deploys]
        /\ unsent' = unsent \cup {s}

\* processGitHubPush
Push ==
    /\ head < MaxCommit /\ head' = head + 1
    /\ QueueSync("environment" \notin paused)
    /\ UNCHANGED <<line, turn, requestVars, env, deferred, heldBack, rows, current,
                   controlVars, snags>>

\* "Sync now", which does not deploy.
SyncNow ==
    /\ head > 0 /\ QueueSync(FALSE)
    /\ UNCHANGED <<head, line, turn, requestVars, env, deferred, heldBack, rows, current,
                   controlVars, snags>>

SignalSync(s) ==
    /\ s \in unsent /\ unsent' = unsent \ {s}
    /\ line' = Append(line, s)
    /\ UNCHANGED <<head, turn, requestVars, dataVars, current, controlVars, snags>>

\* The API is told that the signal failed; it is delivered all the same, or not.
SignalSyncFails(s) ==
    /\ s \in unsent /\ unsent' = unsent \ {s} /\ Snag
    /\ \/ line' = line /\ sync' = [sync EXCEPT ![s].status = "failed"]
       \/ line' = Append(line, s) /\ sync' \in {sync, [sync EXCEPT ![s].status = "failed"]}
    /\ UNCHANGED <<head, turn, requestVars, env, deferred, heldBack, rows, current,
                   controlVars>>

\* updateSourceAutoDeployControl, which leaves what was deferred to the sweep, and
\* updateEnvironmentAutomation, which asks for a synchronisation before the
\* automation goes on, and whose request then admits the newest by itself.
ChangeControl(control) ==
    /\ changes < MaxPauses /\ changes' = changes + 1
    /\ IF control \in paused
       THEN /\ control = "environment" => env.latest # 0
            /\ paused' = paused \ {control}
            /\ since' = [since EXCEPT ![control] = 0]
            /\ astray' = IF control = "environment" THEN astray \cup {Latest} ELSE astray
       ELSE /\ paused' = paused \cup {control}
            /\ since' = [since EXCEPT ![control] = head]
            /\ UNCHANGED astray
    /\ UNCHANGED <<courseVars, call, sweep, dataVars, current, snags>>

-----------------------------------------------------------------------------
(***************************************************************************)
(* executeEnvironmentSync.                                                 *)
(***************************************************************************)

\* The failed synchronisation, unless another attempt has succeeded.
MarkedFailed(s) ==
    IF sync[s].status = "succeeded" THEN sync ELSE [sync EXCEPT ![s].status = "failed"]

StartsSync(c, next) ==
    /\ c.stage = "execute"
    /\ IF sync[c.of].status = "succeeded"
       THEN next = [c EXCEPT !.stage = "commit"] /\ UNCHANGED sync
       ELSE /\ next = [c EXCEPT !.stage = "fetch"]
            /\ sync' = [sync EXCEPT ![c.of].status = "running"]
    /\ UNCHANGED <<env, deferred, rows, heldBack>>

\* The snapshot and the tree of the head.
FetchesHead(c, next) ==
    /\ c.stage = "fetch" /\ next = [c EXCEPT !.stage = "store", !.commit = head]
    /\ UNCHANGED <<sync, env, deferred, rows, heldBack>>

\* Mutant: the newest that completed is not looked at.
IsNeverStale(c) == FALSE

\* A later synchronisation has completed: this one is stale.
IsStale(c) == env.latest > c.of

\* The transaction, under the lock of the environment.
StoresRevision(c, next) ==
    /\ c.stage = "store"
    /\ IF IsStale(c)
       THEN /\ next = Over("thrown")
            /\ sync' = MarkedFailed(c.of) /\ UNCHANGED env
       ELSE /\ next = [c EXCEPT !.stage = "commit"]
            /\ IF env.latest = c.of THEN UNCHANGED <<sync, env>>
               ELSE /\ env' = [latest |-> c.of, commit |-> c.commit]
                    /\ sync' = [sync EXCEPT ![c.of].status = "succeeded",
                                            ![c.of].commit = c.commit]
    /\ UNCHANGED <<deferred, rows, heldBack>>

-----------------------------------------------------------------------------
(***************************************************************************)
(* What is to be deployed (scheduleSourceAutomaticDeployments of a         *)
(* synchronisation, scheduleLatestAutomaticDeploymentsForSource of the     *)
(* sweep and of an environment that resumes), and                          *)
(* scheduleEligibleAutomaticDeployments, whose queries follow each other.  *)
(***************************************************************************)

ReadsCommit(c, next) ==
    /\ c.stage = "commit"
    /\ next = IF c.of = 0 THEN [c EXCEPT !.stage = "source", !.commit = env.commit]
              ELSE IF sync[c.of].deploys
              THEN [c EXCEPT !.stage = "source", !.commit = sync[c.of].commit]
              ELSE Idle
    /\ UNCHANGED <<sync, env, deferred, rows, heldBack>>

ReadsSource(c, next) ==
    /\ c.stage = "source"
    /\ next = [c EXCEPT !.stage = "environment", !.paused = "source" \in paused]
    /\ UNCHANGED <<sync, env, deferred, rows, heldBack>>

\* The commit is still that of the environment, and the synchronisation its newest.
IsAdmissible(c) == env.commit = c.commit /\ c.of \in {0, env.latest}

ReadsEnvironment(c, next) ==
    /\ c.stage = "environment"
    /\ next = IF IsAdmissible(c)
              THEN [c EXCEPT !.stage = "choose", !.paused = @ \/ "environment" \in paused]
              ELSE Idle
    /\ UNCHANGED <<sync, env, deferred, rows, heldBack>>

IsCurrent(commit) == current # 0 /\ DigestOf[current] = DigestOf[commit]

\* The workload, its current release and selectAutomaticDeploymentCandidates.
ChoosesWorkload(c, next) ==
    /\ c.stage = "choose"
    /\ next = [c EXCEPT !.stage = IF env.commit # c.commit \/ IsCurrent(c.commit) THEN "forget"
                                  ELSE IF c.paused THEN "defer" ELSE "request"]
    /\ UNCHANGED <<sync, env, deferred, rows, heldBack>>

\* A workload that is no candidate, or that was admitted, is no longer deferred.
Forgets(c, next) ==
    /\ c.stage \in {"forget", "admitted"} /\ next = Idle
    /\ deferred' = 0
    /\ UNCHANGED <<sync, env, rows, heldBack>>

Defers(c, next) ==
    /\ c.stage = "defer" /\ next = Idle
    /\ deferred' = c.commit /\ heldBack' = c.commit
    /\ UNCHANGED <<sync, env, rows>>

\* Mutant: the revision is not read again under the lock.
IsNeverSuperseded(c) == FALSE

IsSuperseded(c) == env.commit # c.commit

\* Mutant: whichever deployment of the workload is unfinished.
AnswersUnfinished(c) ==
    {r \in rows : (r.of = c.of /\ r.commit = c.commit) \/ r.state \notin Finished}

\* The deployments that are answered for a request: that of its key, or an
\* unfinished one of its digest.
Answers(c) ==
    {r \in rows : \/ r.of = c.of /\ r.commit = c.commit
                  \/ /\ r.state \notin Finished /\ ~IsSuperseded(c)
                     /\ DigestOf[r.commit] = DigestOf[c.commit]}

WithState(r, state) == [r EXCEPT !.state = state]

\* requestAppDeployment, up to the end of its transaction.
RequestsDeployment(c, next) ==
    /\ c.stage = "request"
    /\ IF Answers(c) # {} THEN next = [c EXCEPT !.stage = "admitted"] /\ UNCHANGED rows
       ELSE IF IsSuperseded(c) THEN next = Over("thrown") /\ UNCHANGED rows
       ELSE /\ next = [c EXCEPT !.stage = "signal"]
            /\ rows' = {IF r.state \in Waiting THEN WithState(r, "skipped") ELSE r : r \in rows}
                       \cup {[of |-> c.of, commit |-> c.commit, state |-> "unsignalled"]}
    /\ UNCHANGED <<sync, env, deferred, heldBack>>

\* enqueueDeployment; a signal that fails fails the row, whatever its state.
SignalsDeployment(c, next, delivered) ==
    /\ c.stage = "signal"
    /\ next = IF delivered THEN [c EXCEPT !.stage = "admitted"] ELSE Over("thrown")
    /\ rows' = {IF r.of # c.of \/ r.commit # c.commit THEN r
                ELSE IF ~delivered THEN WithState(r, "failed")
                ELSE IF r.state = "unsignalled" THEN WithState(r, "queued") ELSE r : r \in rows}
    /\ UNCHANGED <<sync, env, deferred, heldBack>>

RequestActs(c, next) ==
    \/ StartsSync(c, next) \/ FetchesHead(c, next) \/ StoresRevision(c, next)
    \/ ReadsCommit(c, next) \/ ReadsSource(c, next) \/ ReadsEnvironment(c, next)
    \/ ChoosesWorkload(c, next)
    \/ Forgets(c, next) \/ Defers(c, next)
    \/ RequestsDeployment(c, next) \/ SignalsDeployment(c, next, TRUE)

\* What a failure does: the signal of the deployment fails, the repository or
\* the database does (the synchronisation is marked), or the API stops.
RequestBreaks(c, next) ==
    /\ Snag
    /\ \/ SignalsDeployment(c, next, FALSE)
       \/ /\ next = Over("thrown")
          /\ sync' \in {sync} \cup IF c.stage \in {"fetch", "store"} THEN {MarkedFailed(c.of)} ELSE {}
          /\ UNCHANGED <<env, deferred, rows, heldBack>>

-----------------------------------------------------------------------------
(***************************************************************************)
(* Who makes the requests.                                                 *)
(***************************************************************************)

\* runSourceCoordinatorWorkflow
TakeSync ==
    /\ turn.of = 0 /\ line # <<>>
    /\ turn' = [of |-> Head(line), tries |-> 1] /\ line' = Tail(line)
    /\ call' = Call(Head(line), "execute", 0)
    /\ UNCHANGED <<head, unsent, sweep, astray, dataVars, current, controlVars, snags>>

\* executeSourceSyncActivity has ended: it is tried again, or the turn is over.
TurnGoesOn ==
    /\ turn.of # 0 /\ call.stage \notin Unended
    /\ IF call.stage = "thrown" /\ turn.tries < SyncTries
       THEN /\ turn' = [turn EXCEPT !.tries = @ + 1]
            /\ call' = Call(turn.of, "execute", 0)
       ELSE turn' = [of |-> 0, tries |-> 0] /\ call' = Idle
    /\ UNCHANGED <<head, unsent, line, sweep, astray, dataVars, current, controlVars,
                   snags>>

\* admitResumedAutomaticDeployments
SweepStarts ==
    /\ sweep.stage \notin Unended /\ deferred # 0 /\ paused = {}
    /\ sweep' = Latest
    /\ UNCHANGED <<courseVars, call, astray, dataVars, current, controlVars, snags>>

CallGoesOn ==
    /\ RequestActs(call, call')
    /\ UNCHANGED <<courseVars, sweep, astray, current, controlVars, snags>>
CallBreaks ==
    /\ call.stage \in Unended /\ RequestBreaks(call, call')
    /\ UNCHANGED <<courseVars, sweep, astray, current, controlVars>>
SweepGoesOn ==
    /\ RequestActs(sweep, sweep')
    /\ UNCHANGED <<courseVars, call, astray, current, controlVars, snags>>
SweepBreaks ==
    /\ sweep.stage \in Unended /\ RequestBreaks(sweep, sweep')
    /\ UNCHANGED <<courseVars, call, astray, current, controlVars>>

\* The worker stops waiting, the API goes on.
CallIsGivenUp ==
    /\ call.stage \in Unended /\ Snag
    /\ astray' = astray \cup {call} /\ call' = Over("thrown")
    /\ UNCHANGED <<courseVars, sweep, dataVars, current, controlVars>>

SweepIsGivenUp ==
    /\ sweep.stage \in Unended /\ Snag
    /\ astray' = astray \cup {sweep} /\ sweep' = Idle
    /\ UNCHANGED <<courseVars, call, dataVars, current, controlVars>>

AstrayGoesOn(c) ==
    /\ \E next \in [of : {0, c.of}, stage : Unended \cup {"done", "thrown"},
                    commit : 0..MaxCommit, paused : BOOLEAN] :
         /\ \/ RequestActs(c, next) /\ UNCHANGED snags
            \/ RequestBreaks(c, next)
         /\ astray' = (astray \ {c}) \cup IF next.stage \in Unended THEN {next} ELSE {}
    /\ UNCHANGED <<courseVars, call, sweep, current, controlVars>>

-----------------------------------------------------------------------------
(***************************************************************************)
(* The deployments take their turns (DeploymentLifecycle).                 *)
(***************************************************************************)

Become(r, state) == rows' = (rows \ {r}) \cup {WithState(r, state)}

DeploymentStarts ==
    /\ \A r \in rows : r.state # "running"
    /\ \E r \in rows : r.state = "queued" /\ Become(r, "running")
    /\ UNCHANGED <<courseVars, requestVars, sync, env, deferred, heldBack, current,
                   controlVars, snags>>

DeploymentEnds ==
    /\ \E r \in rows : r.state = "running" /\ Become(r, "succeeded") /\ current' = r.commit
    /\ UNCHANGED <<courseVars, requestVars, sync, env, deferred, heldBack, controlVars,
                   snags>>

DeploymentFails ==
    /\ \E r \in rows : r.state = "running" /\ Become(r, "failed")
    /\ Snag
    /\ UNCHANGED <<courseVars, requestVars, sync, env, deferred, heldBack, current,
                   controlVars>>

-----------------------------------------------------------------------------

SourceCoordinatorSteps == TakeSync \/ TurnGoesOn \/ CallGoesOn
SweepSteps == SweepStarts \/ SweepGoesOn
DeploymentSteps == DeploymentStarts \/ DeploymentEnds

AutomationNext ==
    \/ Push \/ SyncNow
    \/ \E s \in Syncs : SignalSync(s) \/ SignalSyncFails(s)
    \/ \E control \in Controls : ChangeControl(control)
    \/ SourceCoordinatorSteps \/ SweepSteps \/ DeploymentSteps
    \/ CallBreaks \/ SweepBreaks \/ CallIsGivenUp \/ SweepIsGivenUp \/ DeploymentFails
    \/ \E c \in astray : AstrayGoesOn(c)

\* Temporal delivers and schedules, requests have timeouts, maintenance runs.
AutomationFairness ==
    /\ WF_automationVars(\E s \in Syncs : SignalSync(s))
    /\ WF_automationVars(SourceCoordinatorSteps)
    /\ WF_automationVars(SweepSteps)
    /\ WF_automationVars(DeploymentSteps)

AutomationSpec == AutomationInit /\ [][AutomationNext]_automationVars /\ AutomationFairness

-----------------------------------------------------------------------------

Requests == [of : 0..MaxSync, stage : Unended \cup {"done", "thrown"},
             commit : 0..MaxCommit, paused : BOOLEAN]

AutomationTypeOK ==
    /\ head \in 0..MaxCommit /\ unsent \subseteq Syncs /\ line \in Seq(Syncs)
    /\ turn \in [of : 0..MaxSync, tries : 0..SyncTries]
    /\ call \in Requests /\ sweep \in Requests /\ astray \subseteq Requests
    /\ sync \in [Syncs -> [status : {"none", "queued", "running", "succeeded", "failed"},
                           deploys : BOOLEAN, commit : 0..MaxCommit]]
    /\ env \in [latest : 0..MaxSync, commit : 0..MaxCommit]
    /\ deferred \in 0..MaxCommit /\ heldBack \in 0..MaxCommit
    /\ rows \subseteq [of : 0..MaxSync, commit : Commits,
                       state : Waiting \cup Finished \cup {"running"}]
    /\ current \in 0..MaxCommit
    /\ paused \subseteq Controls /\ since \in [Controls -> 0..MaxCommit]
    /\ changes \in 0..MaxPauses
    /\ snags \in 0..MaxSnags

(***************************************************************************)
(* The environment shows the newest synchronisation that succeeded, and    *)
(* what it read, however late the attempts of older ones end and whatever  *)
(* their failures mark (executeEnvironmentSync).                           *)
(***************************************************************************)
NewestSyncIsShown ==
    /\ env.latest # 0 => /\ sync[env.latest].status = "succeeded"
                         /\ sync[env.latest].commit = env.commit
    /\ \A s \in Syncs : s > env.latest => sync[s].status # "succeeded"

(***************************************************************************)
(* What is pushed while a control is set is not deployed before it is      *)
(* reset, whoever has read the commit, the controls and the workload when  *)
(* (scheduleEligibleAutomaticDeployments, admitResumedAutomaticDeployments). *)
(* A pause that goes over from one control to the other between the two    *)
(* queries is none: what was pushed during the first is deployed then.     *)
(***************************************************************************)
PauseIsRespected == \A control \in paused : \A r \in rows : r.commit <= since[control]

AutomationInv == AutomationTypeOK /\ NewestSyncIsShown /\ PauseIsRespected

(***************************************************************************)
(* An automatic deployment does not replace a newer commit by an older     *)
(* one, though requests that nobody waits for admit deployments late: not  *)
(* as long as the synchronisations read the branch in the order in which   *)
(* they were asked for (requestAppDeployment).                             *)
(***************************************************************************)
Succeeded == {s \in Syncs : sync[s].status = "succeeded"}

ReadInOrder == \A s, t \in Succeeded : s < t => sync[s].commit <= sync[t].commit

NeverDeploysBack == [][ReadInOrder => current' >= current]_automationVars

(***************************************************************************)
(* A revision that a pause held back remains eligible: it stays deferred   *)
(* until it is admitted or another is synchronised (README of the API).    *)
(***************************************************************************)
HeldBackIsDeferred ==
    /\ env.commit # 0 /\ heldBack = env.commit /\ ~IsCurrent(env.commit)
    /\ \A r \in rows : r.commit # env.commit
    => deferred = env.commit

(***************************************************************************)
(* The newest synchronised commit is deployed at last, unless automation   *)
(* is paused, the synchronisation was not to deploy, a deployment of the   *)
(* same digest has failed or its row was never signalled, or the commit is *)
(* one that was held back and is no longer deferred.                       *)
(***************************************************************************)
ExcusedFromDeployment ==
    \/ env.latest = 0 \/ paused # {} \/ ~sync[env.latest].deploys
    \/ \E r \in rows : /\ r.state \in {"failed", "unsignalled"}
                       /\ DigestOf[r.commit] = DigestOf[env.commit]
    \/ heldBack = env.commit /\ deferred = 0

NewestIsDeployed == <>[](IsCurrent(env.commit) \/ ExcusedFromDeployment)
=============================================================================
