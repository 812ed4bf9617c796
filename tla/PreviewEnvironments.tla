------------------------- MODULE PreviewEnvironments -------------------------
(***************************************************************************)
(* The preview of one application for one pull request: the workflow that  *)
(* hands events to the API (preview-lifecycle.workflow.ts), the visits of  *)
(* the API to the repository and the admission they end in                 *)
(* (areas/previews/service.ts, manual-deployment.ts, admission.ts), the    *)
(* cleanups (cleanup.ts, activities/preview.ts), and the work of the       *)
(* application in its server's coordinator, one item at a time.            *)
(*                                                                         *)
(* Commits are numbered in the order in which they are pushed.  What the   *)
(* executor of a deployment does is cut down to what previews see of it    *)
(* (DeploymentLifecycle has the rest): it starts a container, records the  *)
(* release, and reports.  `misfortunes' counts what goes wrong, and is     *)
(* below the ten attempts of the workflow's activity.                      *)
(***************************************************************************)
EXTENDS Naturals

CONSTANTS
    MaxCommit,
    InputsOf,        \* commit |-> deployment digest
    MaxBuilds,       \* bound on the deployments of the preview
    CleanupTries,    \* maximumAttempts of executePreviewCleanupActivity
    MaxMisfortunes,  \* bound of `misfortunes'
    Rewinds          \* whether a push may bring an earlier commit back

ASSUME PreviewAssumption ==
    /\ MaxCommit \in Nat \ {0} /\ MaxBuilds \in Nat \ {0}
    /\ CleanupTries \in Nat \ {0} /\ MaxMisfortunes \in Nat
    /\ InputsOf \in [1..MaxCommit -> Nat]
    /\ Rewinds \in BOOLEAN

Commits == 1..MaxCommit
Builds == 1..MaxBuilds
NoBuild == 0
Visitors == {"event", "manual"}

VARIABLES
    pull,        \* [open, head]: open is, eligible and touching the application
    pending,     \* the slot of the workflow holds an event
    visit,       \* v |-> [at, open, commit, build]: a handler of the API
    preview,     \* [status, commit, latest, attempt]: the row of preview_environments
    build,       \* b |-> [state, commit, key]: rows of deployments
    live,        \* the deployment whose release is current
    containers,  \* the deployments with a container on the host
    claims,      \* cleanups requested that are not signalled yet: [attempt, at, event]
    line,        \* items of the coordinator, <<"build", b>> and <<"clean", attempt>>
    seen,        \* the deployments it has been signalled (a cleanup is always new)
    turn,        \* the item it executes: [item, at, try]
    cleaners,    \* attempts of the cleanup activity: [item, try, attempt, at]
    misfortunes,
    overlooked   \* a record for the properties: deployments that were queued and not
                 \* signalled when an event was consumed with nothing done

pullVars == <<pull, pending>>
hostVarsOfPreview == <<live, containers>>
coordinatorVars == <<line, seen, turn, cleaners>>
previewVars == <<pull, pending, visit, preview, build, live, containers, claims,
                 line, seen, turn, cleaners, misfortunes, overlooked>>

Misfortune == misfortunes < MaxMisfortunes /\ misfortunes' = misfortunes + 1

Away == [at |-> "off", open |-> FALSE, commit |-> 1, build |-> NoBuild]
Free == [item |-> <<"none", 0>>, at |-> "free", try |-> 1]
Terminal == {"succeeded", "failed", "skipped"}
Statuses == {"none", "building", "healthy", "failed", "deleting", "deleted", "cleanup_failed"}

\* Mutant: a cleanup that failed is not requested again.
CleanableOnce == {"building", "healthy", "failed"}

\* cleanablePreviewStatuses
Cleanable == {"building", "healthy", "failed", "cleanup_failed"}
Active == {"building", "healthy", "failed"}

PreviewInit ==
    /\ pull = [open |-> TRUE, head |-> 1] /\ pending = FALSE
    /\ visit = [v \in Visitors |-> Away]
    /\ preview = [status |-> "none", commit |-> 1, latest |-> NoBuild, attempt |-> 0]
    /\ build = [b \in Builds |-> [state |-> "none", commit |-> 1, key |-> "base"]]
    /\ live = NoBuild /\ containers = {}
    /\ claims = {}
    /\ line = {} /\ seen = {} /\ turn = Free /\ cleaners = {}
    /\ misfortunes = 0 /\ overlooked = {}

-----------------------------------------------------------------------------
(***************************************************************************)
(* The repository, and the workflow of the pull request.                   *)
(***************************************************************************)
PullRequestChanges ==
    /\ \/ /\ pull.open /\ \E c \in Commits : /\ c = pull.head + 1 \/ (Rewinds /\ c # pull.head)
                                             /\ pull' = [pull EXCEPT !.head = c]
       \/ pull' = [pull EXCEPT !.open = ~@]
    /\ UNCHANGED <<overlooked, pending, visit, preview, build, hostVarsOfPreview, claims,
                   coordinatorVars, misfortunes>>

\* A webhook, repeated or late, or a reconciliation after a sync.
EventArrives ==
    /\ ~pending /\ pending' = TRUE
    /\ UNCHANGED <<overlooked, pull, visit, preview, build, hostVarsOfPreview, claims,
                   coordinatorVars, misfortunes>>

\* A visit ends.  Told to retry, the workflow puts the event back into its slot;
\* Temporal retries an activity that failed with the event it had.
Ends(v, how) ==
    /\ visit' = [visit EXCEPT ![v] = Away]
    /\ pending' = (pending \/ (v = "event" /\ how # "done"))

-----------------------------------------------------------------------------
(***************************************************************************)
(* A visit: the handler of an event, or of a manual deployment.            *)
(***************************************************************************)
\* Mutant: no advisory lock.
LockIgnored == TRUE

\* withPreviewLifecycleLock: one visit at a time.
LockFree == \A v \in Visitors : visit[v].at = "off"

\* assertManualPreviewAdmission
ManualAllowed == /\ preview.status \in Active
                 /\ \A b \in Builds : build[b].state \notin {"queued", "running"}

\* What it evaluated is what the second fetch shows: otherwise the event would
\* go back, and a manual deployment be refused.
VisitStarts(v) ==
    /\ visit[v].at = "off" /\ LockFree
    /\ CASE v = "event" -> pending /\ pending' = FALSE
         [] v = "manual" -> pull.open /\ ManualAllowed /\ UNCHANGED pending
    /\ visit' = [visit EXCEPT ![v] = [at |-> "fetched", open |-> pull.open,
                                       commit |-> pull.head, build |-> NoBuild]]
    /\ UNCHANGED <<overlooked, pull, preview, build, hostVarsOfPreview, claims,
                   coordinatorVars, misfortunes>>

\* The event is consumed and nothing done: the source is not active, automatic
\* deployment is paused or mapped to no environment, or the server is not prepared.
VisitIgnores ==
    /\ visit["event"].at = "fetched"
    /\ Ends("event", "done")
    /\ overlooked' = overlooked \cup
           {b \in Builds : build[b].state = "queued" /\ <<"build", b>> \notin seen}
    /\ UNCHANGED <<pull, preview, build, hostVarsOfPreview, claims,
                   coordinatorVars, misfortunes>>

\* The update that every request for a cleanup begins with.
Claim(event) ==
    /\ preview.status \in Cleanable
    /\ preview' = [preview EXCEPT !.status = "deleting", !.attempt = @ + 1]
    /\ claims' = claims \cup {[attempt |-> preview.attempt + 1, at |-> "claimed", event |-> event]}

\* requestPreviewPullRequestCleanup
VisitCleans ==
    /\ visit["event"].at = "fetched" /\ ~visit["event"].open
    /\ IF preview.status \in Cleanable
       THEN /\ Claim(TRUE)
            /\ visit' = [visit EXCEPT !["event"].at = "cleaning"]
            /\ UNCHANGED pending
       ELSE Ends("event", "done") /\ UNCHANGED <<preview, claims>>
    /\ UNCHANGED <<overlooked, pull, build, hostVarsOfPreview, coordinatorVars,
                   misfortunes>>

Reopening == preview.status \in {"none", "deleted", "cleanup_failed"}

\* previewAdmissionReplayAction: whether the deployment is enqueued again.
ReplayEnqueues(b) == build[b].state \notin Terminal

\* replayPreviewDeployment of a deployment that need not be replaced.
Replays(v, b) ==
    /\ preview' = [preview EXCEPT !.commit = visit[v].commit, !.latest = b,
           !.status = CASE build[b].state = "succeeded" -> "healthy"
                        [] build[b].state \in Terminal \ {"succeeded"} -> "failed"
                        [] OTHER -> "building"]
    /\ IF ReplayEnqueues(b)
       THEN /\ visit' = [visit EXCEPT ![v].at = "signalling", ![v].build = b]
            /\ UNCHANGED pending
       ELSE Ends(v, "done")
    /\ UNCHANGED build

\* A new deployment; the queued ones are superseded.
Inserts(v, b) ==
    LET key == IF v = "manual" THEN "manual"
               ELSE IF preview.status \in {"deleted", "cleanup_failed"} THEN "reopened" ELSE "base"
    IN  /\ build[b].state = "none" /\ \A a \in 1..b-1 : build[a].state # "none"
        /\ build' = [a \in Builds |->
               IF a = b THEN [state |-> "queued", commit |-> visit[v].commit, key |-> key]
               ELSE IF build[a].state = "queued" THEN [build[a] EXCEPT !.state = "skipped"]
               ELSE build[a]]
        /\ preview' = [preview EXCEPT !.status = "building", !.commit = visit[v].commit,
                                      !.latest = b]
        /\ visit' = [visit EXCEPT ![v].at = "signalling", ![v].build = b]
        /\ UNCHANGED pending

\* shouldDeferPreviewAdmission
Defers == preview.status = "deleting"

\* The deployments of this commit that an event finds again: the latest one of
\* the preview, and the one with its idempotency key.
Earlier(v) ==
    {b \in Builds : /\ build[b].state # "none" /\ build[b].commit = visit[v].commit
                    /\ ~Reopening
                    /\ b = preview.latest \/ build[b].key = "base"}
Found(v) == IF preview.latest \in Earlier(v) THEN preview.latest
            ELSE CHOOSE b \in Earlier(v) : TRUE

ReleaseIsCurrent(v) ==
    ~Reopening /\ live # NoBuild /\ InputsOf[build[live].commit] = InputsOf[visit[v].commit]

\* admitPreviewDeployment, one transaction.  An administrator's deployment is
\* refused unless the preview is active and none of its deployments is.
VisitAdmits(v) ==
    /\ visit[v].at = "fetched" /\ visit[v].open
    /\ IF Defers \/ (v = "manual" /\ ~ManualAllowed)
       THEN Ends(v, "retry") /\ UNCHANGED <<preview, build>>
       ELSE IF v = "event" /\ Earlier(v) # {} THEN Replays(v, Found(v))
       ELSE IF v = "event" /\ ReleaseIsCurrent(v)
       THEN /\ preview' = [preview EXCEPT !.status = "healthy", !.commit = visit[v].commit]
            /\ Ends(v, "done") /\ UNCHANGED build
       ELSE \/ \E b \in Builds : Inserts(v, b)
            \/ /\ build[MaxBuilds].state # "none"  \* the bound
               /\ Ends(v, "retry") /\ UNCHANGED <<preview, build>>
    /\ overlooked' = {b \in overlooked : visit'[v].build # b}
    /\ UNCHANGED <<pull, hostVarsOfPreview, claims, coordinatorVars, misfortunes>>

\* What the coordinator does with a signal.
Signalled(item) ==
    /\ seen' = IF item[1] = "build" THEN seen \cup {item} ELSE seen
    /\ line' = IF item \in seen THEN line ELSE line \cup {item}

VisitSignals(v) ==
    /\ visit[v].at = "signalling"
    /\ Signalled(<<"build", visit[v].build>>) /\ Ends(v, "done")
    /\ UNCHANGED <<overlooked, pull, preview, build, hostVarsOfPreview, claims, turn,
                   cleaners, misfortunes>>

\* The signal throws, delivered or not.
SignalThrows(v) ==
    /\ visit[v].at = "signalling" /\ Misfortune
    /\ Signalled(<<"build", visit[v].build>>) \/ UNCHANGED <<seen, line>>
    /\ Ends(v, "failed")
    /\ UNCHANGED <<overlooked, pull, preview, build, hostVarsOfPreview, claims, turn,
                   cleaners>>

\* A fetch fails, or a secret is missing.
VisitFails(v) ==
    /\ visit[v].at = "fetched" /\ Misfortune
    /\ Ends(v, "failed")
    /\ UNCHANGED <<overlooked, pull, preview, build, hostVarsOfPreview, claims,
                   coordinatorVars>>

\* The API stops: nothing remembers the cleanups it had claimed.
ApiStops ==
    /\ Misfortune
    /\ visit' = [v \in Visitors |-> Away]
    /\ pending' = (pending \/ visit["event"].at # "off")
    /\ claims' = {[c EXCEPT !.at = "lost"] : c \in claims}
    /\ UNCHANGED <<overlooked, pull, preview, build, hostVarsOfPreview, coordinatorVars>>

-----------------------------------------------------------------------------
(***************************************************************************)
(* Requests for a cleanup: the sweep (a preview expires sooner or later,   *)
(* a failed cleanup is due again), an administrator, a sync.               *)
(***************************************************************************)
RequestCleanup ==
    /\ Claim(FALSE)
    /\ UNCHANGED <<overlooked, pullVars, visit, build, hostVarsOfPreview,
                   coordinatorVars, misfortunes>>

\* recordPreviewTerminalState, of build b in state s
Propagated(row, b, s) ==
    IF row.latest = b /\ row.status \notin {"deleting", "deleted"}
    THEN [row EXCEPT !.status = IF s = "succeeded" THEN "healthy" ELSE "failed"]
    ELSE row

Answers(c, how) ==
    IF c.event THEN Ends("event", how) ELSE UNCHANGED <<visit, pending>>

\* queuePreviewCleanup skips what is queued, and signals the cleanup; the signal
\* may throw, delivered or not.
Queued == {b \in Builds : build[b].state = "queued"}

ClaimSignals(c) ==
    /\ c \in claims /\ c.at = "claimed"
    /\ build' = [b \in Builds |-> IF b \in Queued THEN [build[b] EXCEPT !.state = "skipped"]
                                  ELSE build[b]]
    /\ preview' = IF preview.latest \in Queued
                  THEN Propagated(preview, preview.latest, "skipped") ELSE preview
    /\ \/ /\ Signalled(<<"clean", c.attempt>>) /\ Answers(c, "done")
          /\ claims' = claims \ {c} /\ UNCHANGED misfortunes
       \/ /\ Signalled(<<"clean", c.attempt>>) \/ UNCHANGED <<seen, line>>
          /\ Misfortune
          /\ claims' = (claims \ {c}) \cup {[c EXCEPT !.at = "mark"]}
          /\ UNCHANGED <<visit, pending>>
    /\ UNCHANGED <<overlooked, pull, hostVarsOfPreview, turn, cleaners>>

\* markPreviewCleanupAdmissionFailed
ClaimMarks(c) ==
    /\ c \in claims /\ c.at = "mark"
    /\ claims' = claims \ {c}
    /\ preview' = IF preview.status = "deleting"
                  THEN [preview EXCEPT !.status = "cleanup_failed"] ELSE preview
    /\ Answers(c, "failed")
    /\ UNCHANGED <<overlooked, pull, build, hostVarsOfPreview, coordinatorVars,
                   misfortunes>>

-----------------------------------------------------------------------------
(***************************************************************************)
(* The coordinator: cleanups before previews, one item of the application  *)
(* at a time (the order among its deployments is left open).               *)
(***************************************************************************)
MayStart(item) ==
    turn.at = "free" /\ (item[1] = "clean" \/ \A other \in line : other[1] # "clean")

Building == turn.item[1] = "build"
Built == turn.item[2]

\* A deployment that was skipped meanwhile is refused, and the turn is over.
BuildStarts(b) ==
    LET item == <<"build", b>>
    IN  /\ item \in line /\ MayStart(item)
        /\ line' = line \ {item}
        /\ IF build[b].state = "queued"
           THEN /\ build' = [build EXCEPT ![b].state = "running"]
                /\ containers' = containers \cup {b}
                /\ turn' = [item |-> item, at |-> "running", try |-> 1]
           ELSE UNCHANGED <<build, containers, turn>>
        /\ UNCHANGED <<overlooked, pullVars, visit, preview, live, claims, seen,
                       cleaners, misfortunes>>

\* Mutant: the release of a preview that is being removed is accepted.
AcceptsReleaseAnyTime(b) == preview.commit = build[b].commit

\* What recordRelease asks of the preview.
AcceptsRelease(b) == preview.status \in Active /\ preview.commit = build[b].commit

BuildReleases ==
    /\ Building /\ turn.at = "running" /\ AcceptsRelease(Built)
    /\ live' = Built /\ containers' = {Built}
    /\ turn' = [turn EXCEPT !.at = "released"]
    /\ UNCHANGED <<overlooked, pullVars, visit, preview, build, claims, line, seen,
                   cleaners, misfortunes>>

\* The last report of a deployment, with what it propagates.
BuildEnds(state) ==
    /\ Building
    /\ \/ state = "succeeded" /\ turn.at = "released" /\ UNCHANGED containers
       \/ /\ state = "failed" /\ turn.at = "running"
          /\ containers' = containers \ {Built}
    /\ build' = [build EXCEPT ![Built].state = state]
    /\ preview' = Propagated(preview, Built, state)
    /\ turn' = Free
    /\ UNCHANGED <<overlooked, pullVars, visit, live, claims, line, seen, cleaners,
                   misfortunes>>

-----------------------------------------------------------------------------
(***************************************************************************)
(* executePreviewCleanupActivity, without a heartbeat.                     *)
(***************************************************************************)
NextTry == IF turn.try < CleanupTries THEN [turn EXCEPT !.at = "begin", !.try = @ + 1] ELSE Free

\* How the coordinator goes on after an attempt that it may have given up.
TryEnds(c, next) ==
    turn' = IF turn.item = c.item /\ turn.try = c.try /\ turn.at = "cleaning" THEN next ELSE turn

\* The context is refused unless the preview is being removed.
CleanTries(item, try) ==
    /\ IF preview.status = "deleting"
       THEN /\ cleaners' = cleaners \cup {[item |-> item, try |-> try,
                                           attempt |-> preview.attempt, at |-> "cleaning"]}
            /\ turn' = [item |-> item, at |-> "cleaning", try |-> try]
       ELSE /\ turn' = IF try < CleanupTries THEN [item |-> item, at |-> "begin", try |-> try + 1]
                       ELSE Free
            /\ UNCHANGED cleaners
    /\ UNCHANGED <<overlooked, pullVars, visit, preview, build, hostVarsOfPreview,
                   claims, seen, misfortunes>>

CleanStarts(item) ==
    /\ item \in line /\ item[1] = "clean" /\ MayStart(item)
    /\ line' = line \ {item} /\ CleanTries(item, 1)

CleanRetries ==
    /\ turn.at = "begin" /\ UNCHANGED line
    /\ CleanTries(turn.item, turn.try)

\* The host, then the routes at the provider: either may fail.
Cleans(c) ==
    /\ c \in cleaners /\ c.at = "cleaning"
    /\ \/ /\ containers' = {} /\ UNCHANGED misfortunes
          /\ cleaners' = (cleaners \ {c}) \cup {[c EXCEPT !.at = "recording"]}
       \/ /\ Misfortune /\ containers' \in {containers, {}}
          /\ cleaners' = (cleaners \ {c}) \cup {[c EXCEPT !.at = "failing"]}
    /\ UNCHANGED <<overlooked, pullVars, visit, preview, build, live, claims, line, seen,
                   turn>>

\* recordPreviewCleanupResult is refused unless this attempt is awaited.
AwaitsResult(c) == preview.status = "deleting" /\ preview.attempt = c.attempt

Deleted(c) ==
    IF AwaitsResult(c)
    THEN preview' = [preview EXCEPT !.status = "deleted"] /\ live' = NoBuild
    ELSE UNCHANGED <<preview, live>>

RecordsSuccess(c) ==
    /\ c \in cleaners /\ c.at = "recording"
    /\ Deleted(c)
    /\ cleaners' = cleaners \ {c} /\ TryEnds(c, Free)
    /\ UNCHANGED <<overlooked, pullVars, visit, build, containers, claims, line, seen,
                   misfortunes>>

\* The request fails, after the API took it or before.
SuccessIsLost(c) ==
    /\ c \in cleaners /\ c.at = "recording" /\ Misfortune
    /\ Deleted(c) \/ UNCHANGED <<preview, live>>
    /\ cleaners' = (cleaners \ {c}) \cup {[c EXCEPT !.at = "failing"]}
    /\ UNCHANGED <<overlooked, pullVars, visit, build, containers, claims, line, seen,
                   turn>>

RecordsFailure(c) ==
    /\ c \in cleaners /\ c.at = "failing"
    /\ \/ /\ preview' = IF AwaitsResult(c) THEN [preview EXCEPT !.status = "cleanup_failed"]
                        ELSE preview
          /\ UNCHANGED misfortunes
       \/ Misfortune /\ UNCHANGED preview
    /\ cleaners' = cleaners \ {c} /\ TryEnds(c, NextTry)
    /\ UNCHANGED <<overlooked, pullVars, visit, build, hostVarsOfPreview, claims, line,
                   seen>>

\* An attempt is timed out, and goes on.
CleanOverruns(c) ==
    /\ c \in cleaners /\ turn.item = c.item /\ turn.try = c.try /\ Misfortune
    /\ turn' = NextTry
    /\ UNCHANGED <<overlooked, pullVars, visit, preview, build, hostVarsOfPreview,
                   claims, line,
                   seen, cleaners>>

-----------------------------------------------------------------------------
PreviewNext ==
    \/ PullRequestChanges \/ EventArrives
    \/ \E v \in Visitors : \/ VisitStarts(v) \/ VisitAdmits(v)
                           \/ VisitSignals(v) \/ SignalThrows(v) \/ VisitFails(v)
    \/ VisitCleans \/ VisitIgnores \/ ApiStops \/ RequestCleanup
    \/ \E c \in claims : ClaimSignals(c) \/ ClaimMarks(c)
    \/ BuildReleases
    \/ \E state \in {"succeeded", "failed"} : BuildEnds(state)
    \/ \E b \in Builds : BuildStarts(b)
    \/ CleanRetries
    \/ \E item \in line : CleanStarts(item)
    \/ \E c \in cleaners : \/ Cleans(c) \/ RecordsSuccess(c) \/ SuccessIsLost(c)
                           \/ RecordsFailure(c) \/ CleanOverruns(c)

PreviewSpec == PreviewInit /\ [][PreviewNext]_previewVars

\* Temporal retries what fails and the sweep comes back; a visit that finds the
\* lock taken is retried until it is free.
PreviewFairness ==
    /\ SF_previewVars(VisitStarts("event"))
    /\ WF_previewVars(VisitCleans \/ \E v \in Visitors : VisitAdmits(v) \/ VisitSignals(v))
    /\ WF_previewVars(RequestCleanup)
    /\ WF_previewVars(\E c \in claims : ClaimSignals(c) \/ ClaimMarks(c))
    /\ WF_previewVars(\/ \E b \in Builds : BuildStarts(b)
                      \/ BuildReleases \/ \E state \in {"succeeded", "failed"} : BuildEnds(state)
                      \/ \E item \in line : CleanStarts(item)
                      \/ CleanRetries)
    /\ WF_previewVars(\E c \in cleaners : Cleans(c) \/ RecordsSuccess(c) \/ RecordsFailure(c))
PreviewFairSpec == PreviewSpec /\ PreviewFairness

-----------------------------------------------------------------------------
PreviewTypeOK ==
    /\ pull \in [open : BOOLEAN, head : Commits] /\ pending \in BOOLEAN
    /\ visit \in [Visitors -> [at : {"off", "fetched", "cleaning", "signalling"},
                               open : BOOLEAN, commit : Commits, build : Builds \cup {NoBuild}]]
    /\ preview \in [status : Statuses, commit : Commits,
                    latest : Builds \cup {NoBuild}, attempt : Nat]
    /\ build \in [Builds -> [state : Terminal \cup {"none", "queued", "running"},
                             commit : Commits, key : {"base", "reopened", "manual"}]]
    /\ live \in Builds \cup {NoBuild} /\ containers \subseteq Builds
    /\ misfortunes \in 0..MaxMisfortunes /\ overlooked \subseteq Builds

\* A preview that is deleted has no release, and nothing on its host but what a
\* deployment that still runs has started there and will have to remove.
DeletedIsGone ==
    preview.status = "deleted" =>
        live = NoBuild /\ containers \subseteq {b \in Builds : build[b].state = "running"}

\* As long as commits are only added, neither the commit a preview is to show
\* nor its release goes back to an earlier one, whatever order events, visits
\* that read the pull request before, and deployments come in.
NeverGoesBack ==
    [][/\ preview'.commit >= preview.commit
       /\ live # NoBuild /\ live' # NoBuild =>
             build'[live'].commit >= build[live].commit]_previewVars

\* A cleanup was claimed by a process that stopped before it signalled it.
Abandoned == \E c \in claims : c.at = "lost"

\* A deployment that an event admitted, of the commit the preview is to show, is
\* with the coordinator, or the event is still with the workflow or its handler,
\* which find the deployment again and signal it, or a cleanup will skip it: a lost
\* signal leaves it behind only if the event that was to repeat it was consumed with
\* nothing done, and no event has found the deployment since.  (One of an earlier
\* commit is left behind when the event is retried for a commit whose digest is that
\* of the current release.)
AdmittedIsSignalled ==
    \A b \in Builds :
        build[b].state = "queued" /\ build[b].key # "manual"
                /\ build[b].commit = preview.commit =>
            \/ <<"build", b>> \in seen
            \/ pending \/ visit["event"].at # "off"
            \/ claims # {}
            \/ b \in overlooked

\* What holds of a preview at every moment: the types, nothing left of what is
\* deleted, and nobody's admission forgotten.
PreviewInv == PreviewTypeOK /\ DeletedIsGone /\ AdmittedIsSignalled

\* Every preview expires and is removed, however often its cleanup fails.
EveryPreviewEnds == []<>(preview.status \in {"none", "deleted"} \/ Abandoned)

\* A preview that is shown as healthy runs the commit it shows
\* (docs/docs/previews.md: the head commit is built and promoted).
HealthyShowsHead ==
    preview.status = "healthy" =>
        live \in containers /\ InputsOf[build[live].commit] = InputsOf[preview.commit]
=============================================================================
