-------------------------- MODULE RollingReplacement --------------------------
(***************************************************************************)
(* The rolling replacement of an application's containers on its server    *)
(* (packages/towbar-deployer/src/deployment-phases.ts), with what undoes   *)
(* it: its own catch block, the catch block of the executor and, when the  *)
(* executor stops, recovery (deployment.ts).                               *)
(*                                                                         *)
(* The candidates are New(1), New(2), ... in the order they are started,   *)
(* the containers of the current release Old(1), Old(2), ... in the order  *)
(* of containerNames.  A container listens on one port of its server, for  *)
(* which it stands in the route.                                           *)
(***************************************************************************)
EXTENDS Integers, FiniteSets, FiniteSetsExt

CONSTANTS
    Rollouts,          \* the rollouts a manifest may declare
    PreviousCounts,    \* how many containers the current release may have
    MaxRecoveries,     \* attempts of recovery that may be made
    Faults             \* what may go wrong besides an error: of FaultKinds

(***************************************************************************)
(*   "crash"  the process of the executor or of recovery dies              *)
(*   "ssh"    a command that undoes something does not reach the server    *)
(***************************************************************************)
FaultKinds == {"crash", "ssh"}

\* rolloutStrategySchema.
IsRollout(r) ==
    /\ r.replicas \in Nat \ {0}
    /\ r.maxSurge \in Nat
    /\ r.maxUnavailable \in Nat
    /\ r.maxSurge # 0 \/ r.maxUnavailable # 0

ASSUME RolloutsAssumption == \A r \in Rollouts : IsRollout(r)
ASSUME CountsAssumption == PreviousCounts \subseteq Nat /\ MaxRecoveries \in Nat \ {0}

VARIABLES
    rollout,         \* the declared rollout
    count,           \* the number of containers of the current release
    phase,           \* where the executor, or recovery, is
    running,         \* the containers that run on the server
    route,           \* the containers Caddy sends requests to
    previous,        \* indices of the old containers found running
    activePrevious,  \* those of them not yet taken out of service
    attempted,       \* how many candidates have been started, or tried
    candidates,      \* how many of them are healthy and in the route
    doomed,          \* candidates the next rollback knows of
    saved,           \* the route was saved on the server for a rollback
    cleanupPending,  \* a command that undoes something has failed
    recoveries       \* attempts of recovery made

vars == <<rollout, count, phase, running, route, previous, activePrevious,
          attempted, candidates, doomed, saved, cleanupPending, recoveries>>
given == <<rollout, count>>

Old(i) == <<"old", i>>
New(i) == <<"new", i>>
OldOf(indices) == {Old(i) : i \in indices}
NewOf(indices) == {New(i) : i \in indices}

\* What the executor does until the replacement is promoted or fails ...
RollingPhases == {"making_room", "draining", "checking", "routing"}
\* ... and what undoes it.
UndoPhases     == {"undo_remove", "undo_start", "undo_route"}
RollbackPhases == {"rollback_remove", "rollback_script", "rollback_start"}

Phases == {"inspecting", "preflight", "returned", "promoted", "failed"}
            \cup RollingPhases \cup UndoPhases \cup RollbackPhases

Init ==
    /\ rollout \in Rollouts
    /\ count \in PreviousCounts
    /\ phase = "inspecting"
    /\ running \in SUBSET OldOf(1..count)
    /\ route = OldOf(1..count)
    /\ previous = {}
    /\ activePrevious = {}
    /\ attempted = 0
    /\ candidates = 0
    /\ doomed = {}
    /\ saved = FALSE
    /\ cleanupPending = FALSE
    /\ recoveries = 0

\* Mutant: the candidates in service are forgotten.
InServiceBefore(olds) == OldOf(olds)

\* What is in service when a route is written: healthy candidates and the
\* containers of the current release that stay for now.
InService(olds) == NewOf(1..candidates) \cup OldOf(olds)

(***************************************************************************)
(* The replacement                                                         *)
(***************************************************************************)

\* Finds out which containers of the current release run, or fails to.
InspectRunningPorts ==
    /\ phase = "inspecting"
    /\ \/ /\ phase' = "preflight"
          /\ previous' = {i \in 1..count : Old(i) \in running}
          /\ activePrevious' = previous'
       \/ /\ phase' = "rollback_remove"
          /\ UNCHANGED <<previous, activePrevious>>
    /\ UNCHANGED <<given, running, route, attempted, candidates, doomed, saved,
                   cleanupPending, recoveries>>

\* Mutant: only missing replicas are counted.
MissingReplicas ==
    IF rollout.replicas > Cardinality(previous)
        THEN rollout.replicas - Cardinality(previous) ELSE 0

\* The containers for which the server must have room besides those that run.
AdditionalContainers ==
    LET surge == IF rollout.maxSurge < rollout.replicas THEN rollout.maxSurge
                                                        ELSE rollout.replicas
        peak  == rollout.replicas + (IF previous # {} THEN surge ELSE 0)
    IN  IF peak > Cardinality(previous) THEN peak - Cardinality(previous) ELSE 0

\* The server has room, or the executor fails before the replacement begins.
PreflightRollingHeadroom ==
    /\ phase = "preflight"
    /\ phase' \in {"making_room"}
                  \cup (IF AdditionalContainers = 0 THEN {} ELSE {"rollback_remove"})
    /\ UNCHANGED <<given, running, route, previous, activePrevious, attempted,
                   candidates, doomed, saved, cleanupPending, recoveries>>

\* An old container must go before the next candidate may come; once every
\* candidate is in service each old one goes.
InUse == candidates + Cardinality(activePrevious)

\* Mutant: one container too many.
MustRetireLate ==
    /\ activePrevious # {}
    /\ \/ candidates = rollout.replicas
       \/ InUse > rollout.replicas + rollout.maxSurge

\* Mutant: one container too few.
MustRetireEarly ==
    /\ activePrevious # {}
    /\ \/ candidates = rollout.replicas
       \/ InUse >= rollout.replicas + rollout.maxSurge - 1

MustRetire ==
    /\ activePrevious # {}
    /\ \/ candidates = rollout.replicas
       \/ InUse >= rollout.replicas + rollout.maxSurge

TooFewLeft == InUse - 1 < rollout.replicas - rollout.maxUnavailable

\* configureAndVerifyRouting installs a route and checks it: it may fail
\* before, when the previous route stays, or behind the installation.
Routes(target) ==
    \/ /\ route' = target
       /\ saved' = TRUE
    \/ UNCHANGED <<route, saved>>

Succeeds(target) == route' = target /\ saved' = TRUE

\* The container that was longest in the list leaves the route, unless
\* nothing would be left there.
RetireFromRoute ==
    /\ phase = "making_room"
    /\ MustRetire
    /\ \/ /\ TooFewLeft
          /\ candidates < rollout.replicas
          /\ phase' = "undo_remove"
          /\ UNCHANGED <<route, saved, activePrevious>>
       \/ /\ ~TooFewLeft \/ candidates = rollout.replicas
          /\ activePrevious' = activePrevious \ {Min(activePrevious)}
          /\ LET left == InService(activePrevious')
             IN  \/ /\ phase' = "draining"
                    /\ IF left = {} THEN UNCHANGED <<route, saved>> ELSE Succeeds(left)
                 \/ /\ phase' = "undo_remove"
                    /\ IF left = {} THEN UNCHANGED <<route, saved>> ELSE Routes(left)
    /\ UNCHANGED <<given, running, previous, attempted, candidates, doomed,
                   cleanupPending, recoveries>>

\* It is drained and stopped.
StopRetired ==
    /\ phase = "draining"
    /\ \/ phase' = "making_room" /\ running' = running \ OldOf(previous \ activePrevious)
       \/ phase' = "undo_remove"
          /\ running' \in {running, running \ OldOf(previous \ activePrevious)}
    /\ UNCHANGED <<given, route, previous, activePrevious, attempted, candidates,
                   doomed, saved, cleanupPending, recoveries>>

\* The next candidate is started, or fails to start.
StartCandidate ==
    /\ phase = "making_room"
    /\ ~MustRetire
    /\ candidates < rollout.replicas
    /\ attempted' = attempted + 1
    /\ \/ phase' = "checking" /\ running' = running \cup {New(attempted')}
       \/ phase' = "undo_remove" /\ UNCHANGED running
    /\ UNCHANGED <<given, route, previous, activePrevious, candidates, doomed,
                   saved, cleanupPending, recoveries>>

\* Its health, and its stability for a while, are checked.
VerifyRollingCandidateStability ==
    /\ phase = "checking"
    /\ \/ phase' = "routing" /\ candidates' = candidates + 1
       \/ phase' = "undo_remove" /\ UNCHANGED candidates
    /\ UNCHANGED <<given, running, route, previous, activePrevious, attempted,
                   doomed, saved, cleanupPending, recoveries>>

\* A healthy candidate enters the route.
RouteCandidate ==
    /\ phase = "routing"
    /\ \/ phase' = "making_room" /\ Succeeds(InService(activePrevious))
       \/ phase' = "undo_remove" /\ Routes(InService(activePrevious))
    /\ UNCHANGED <<given, running, previous, activePrevious, attempted, candidates,
                   doomed, cleanupPending, recoveries>>

\* Mutant: published before the old containers are retired.
PublishAtOnce ==
    /\ phase = "making_room"
    /\ candidates = rollout.replicas
    /\ phase' = "returned"
    /\ Succeeds(InService({}))
    /\ doomed' = NewOf(1..rollout.replicas)
    /\ UNCHANGED <<given, running, previous, activePrevious, attempted, candidates,
                   cleanupPending, recoveries>>

\* The last route is checked from outside; then startRollingCandidates returns.
PublishCandidates ==
    /\ phase = "making_room"
    /\ candidates = rollout.replicas
    /\ activePrevious = {}
    /\ \/ /\ phase' = "returned"
          /\ Succeeds(InService({}))
          /\ doomed' = NewOf(1..rollout.replicas)
       \/ /\ phase' = "undo_remove"
          /\ Routes(InService({}))
          /\ UNCHANGED doomed
    /\ UNCHANGED <<given, running, previous, activePrevious, attempted, candidates,
                   cleanupPending, recoveries>>

\* The release is committed, or the executor fails before it asks for it.
Promote ==
    /\ phase = "returned"
    /\ phase' \in {"promoted", "rollback_remove"}
    /\ UNCHANGED <<given, running, route, previous, activePrevious, attempted,
                   candidates, doomed, saved, cleanupPending, recoveries>>
(***************************************************************************)
(* The catch block of startRollingCandidates                               *)
(***************************************************************************)

\* Whoever undoes something may not reach the server: he goes on with next.
Unreached(next) ==
    /\ "ssh" \in Faults
    /\ phase' = next
    /\ cleanupPending' = TRUE

\* Mutant: only candidates that passed their checks are removed.
UndoRemoveHealthy ==
    /\ phase = "undo_remove"
    /\ phase' = "undo_start"
    /\ running' = running \ NewOf(1..candidates)
    /\ UNCHANGED <<given, route, previous, activePrevious, attempted, candidates,
                   doomed, saved, cleanupPending, recoveries>>

\* Every candidate that was started, or tried, is removed ...
UndoRemove ==
    /\ phase = "undo_remove"
    /\ \/ /\ phase' = "undo_start"
          /\ running' = running \ NewOf(1..attempted)
          /\ UNCHANGED cleanupPending
       \/ /\ Unreached("rollback_remove")
          /\ \E gone \in SUBSET NewOf(1..attempted) : running' = running \ gone
    /\ UNCHANGED <<given, route, previous, activePrevious, attempted, candidates,
                   doomed, saved, recoveries>>

\* ... and every container of the current release is started.
UndoStart ==
    /\ phase = "undo_start"
    /\ \/ /\ phase' = IF previous # {} THEN "undo_route" ELSE "rollback_remove"
          /\ running' = running \cup OldOf(1..count)
          /\ UNCHANGED cleanupPending
       \/ /\ Unreached("rollback_remove")
          /\ \E back \in SUBSET OldOf(1..count) : running' = running \cup back
    /\ UNCHANGED <<given, route, previous, activePrevious, attempted, candidates,
                   doomed, saved, recoveries>>

\* Mutant: a failure starts the whole catch block again.
RestoreOrStartOver ==
    /\ phase = "undo_route"
    /\ \/ phase' = "rollback_remove" /\ Succeeds(OldOf(previous))
       \/ phase' = "undo_remove" /\ UNCHANGED <<route, saved>>
    /\ UNCHANGED <<given, running, previous, activePrevious, attempted, candidates,
                   doomed, cleanupPending, recoveries>>

\* Those that ran before are routed to; a failure is only logged.
RestoreRollingRoute ==
    /\ phase = "undo_route"
    /\ phase' = "rollback_remove"
    /\ Routes(OldOf(previous))
    /\ UNCHANGED <<given, running, previous, activePrevious, attempted, candidates,
                   doomed, cleanupPending, recoveries>>

(***************************************************************************)
(* The catch block of the executor, and recovery                           *)
(***************************************************************************)

\* Recovery gives up where a command fails; the executor goes on.
Or(next) == IF recoveries > 0 THEN "failed" ELSE next

\* Of the candidates the rollback knows of, all but the first are removed.
RollbackRemove ==
    /\ phase = "rollback_remove"
    /\ LET others == doomed \ {New(1)}
       IN  \/ /\ phase' = "rollback_script"
              /\ running' = running \ others
              /\ UNCHANGED cleanupPending
           \/ /\ Unreached(Or("rollback_script"))
              /\ \E gone \in SUBSET others : running' = running \ gone
    /\ UNCHANGED <<given, route, previous, activePrevious, attempted, candidates,
                   doomed, saved, recoveries>>

\* In one script, which may be cut off anywhere, the first is removed, the
\* first container of the current release is started, the route that was
\* saved is installed, and what was saved is removed.
RollbackScript ==
    /\ phase = "rollback_script"
    /\ LET removed   == running \ (doomed \cap {New(1)})
           restarted == removed \cup OldOf((1..1) \cap (1..count))
           restored  == IF saved THEN OldOf(1..count) ELSE route
       IN  \/ /\ phase' = "rollback_start"
              /\ running' = restarted
              /\ route' = restored
              /\ saved' = FALSE
              /\ UNCHANGED cleanupPending
           \/ /\ Unreached(Or("rollback_start"))
              /\ \/ running' \in {running, removed, restarted} /\ UNCHANGED <<route, saved>>
                 \/ running' = restarted /\ route' = restored /\ saved' \in {saved, FALSE}
    /\ UNCHANGED <<given, previous, activePrevious, attempted, candidates, doomed,
                   recoveries>>

\* The other containers of the current release are started.
RollbackStart ==
    /\ phase = "rollback_start"
    /\ phase' = "failed"
    /\ \/ running' = running \cup OldOf(2..count) /\ UNCHANGED cleanupPending
       \/ /\ Unreached("failed")
          /\ \E back \in SUBSET OldOf(2..count) : running' = running \cup back
    /\ UNCHANGED <<given, route, previous, activePrevious, attempted, candidates,
                   doomed, saved, recoveries>>

\* The executor stops, at the latest before it reports its failure.  Recovery
\* removes every name a candidate could have.
ExecutorCrashes ==
    /\ "crash" \in Faults
    /\ recoveries = 0
    /\ phase # "promoted"
    /\ phase' = "rollback_remove"
    /\ recoveries' = 1
    /\ doomed' = NewOf(1..rollout.replicas)
    /\ cleanupPending' = FALSE
    /\ UNCHANGED <<given, running, route, previous, activePrevious, attempted,
                   candidates, saved>>

\* Recovery stops and is attempted again.
RecoveryCrashes ==
    /\ "crash" \in Faults
    /\ recoveries \in 1..(MaxRecoveries - 1)
    /\ phase \in RollbackPhases
    /\ phase' = "rollback_remove"
    /\ recoveries' = recoveries + 1
    /\ cleanupPending' = FALSE
    /\ UNCHANGED <<given, running, route, previous, activePrevious, attempted,
                   candidates, doomed, saved>>

Replacement ==
    \/ InspectRunningPorts \/ PreflightRollingHeadroom
    \/ RetireFromRoute \/ StopRetired
    \/ StartCandidate \/ VerifyRollingCandidateStability \/ RouteCandidate
    \/ PublishCandidates \/ Promote

Undoing ==
    \/ UndoRemove \/ UndoStart \/ RestoreRollingRoute
    \/ RollbackRemove \/ RollbackScript \/ RollbackStart

Next == Replacement \/ Undoing \/ ExecutorCrashes \/ RecoveryCrashes

Spec == Init /\ [][Next]_vars

\* Every command of the executor and of recovery has a timeout.
FairSpec == Spec /\ WF_vars(Replacement) /\ WF_vars(Undoing)

-----------------------------------------------------------------------------
(***************************************************************************)
(* Properties                                                              *)
(***************************************************************************)
Rolling == phase \in RollingPhases \cup {"returned"}

\* The type of every variable; candidates are started one at a time.
TypeOK ==
    /\ rollout \in Rollouts
    /\ count \in PreviousCounts
    /\ phase \in Phases
    /\ running \subseteq OldOf(1..count) \cup NewOf(1..rollout.replicas)
    /\ route \subseteq OldOf(1..count) \cup NewOf(1..rollout.replicas)
    /\ previous \subseteq 1..count
    /\ activePrevious \subseteq previous
    /\ candidates \in 0..rollout.replicas
    /\ attempted \in candidates..rollout.replicas
    /\ attempted <= candidates + 1
    /\ doomed \in {{}, NewOf(1..rollout.replicas)}
    /\ saved \in BOOLEAN
    /\ cleanupPending \in BOOLEAN
    /\ recoveries \in 0..MaxRecoveries

\* The containers requests reach.
Serving == route \cap running

\* While it rolls, an application that ran keeps the replicas its manifest
\* promises in service, or as many as it had: the old ones leave the route
\* only in exchange for healthy new ones.
StaysAvailable ==
    Rolling =>
        \/ Cardinality(Serving) >= Cardinality(previous)
        \/ Cardinality(Serving) >= rollout.replicas - rollout.maxUnavailable

\* It never runs more containers than the manifest permits, or than it had.
WithinSurge ==
    Rolling =>
        \/ Cardinality(running) <= Cardinality(previous)
        \/ Cardinality(running) <= rollout.replicas + rollout.maxSurge

\* No request is sent to a container the replacement has stopped, unless
\* none is left to send it to.
RouteIsLive ==
    Rolling /\ Serving # {} =>
        /\ \A i \in previous : Old(i) \in route => Old(i) \in running
        /\ \A k \in 1..rollout.replicas : New(k) \in route => New(k) \in running

\* The error "cannot satisfy maxSurge and maxUnavailable" is never thrown
\* for a rollout the schema accepts: a replacement cannot get stuck half-way.
NeverTooFewLeft ==
    phase = "making_room" /\ MustRetire /\ candidates < rollout.replicas => ~TooFewLeft

\* What keeps a replacement going: the types, a route to running containers only,
\* and a next step that surge and unavailability allow.
RolloutInv == TypeOK /\ RouteIsLive /\ NeverTooFewLeft

\* What has been promoted runs completely, alone, and gets every request.
PromotedIsComplete ==
    phase = "promoted" =>
        running = NewOf(1..rollout.replicas) /\ route = running

\* A failure, wherever it happens and whoever cleans up, leaves the current
\* release running and routed to, and none of the candidates.
FailureRestores ==
    phase = "failed" /\ ~cleanupPending =>
        running = OldOf(1..count) /\ route = running

\* The replacement comes to an end.
ComesToAnEnd == <>[](phase \in {"promoted", "failed"})

-----------------------------------------------------------------------------
(***************************************************************************)
(* What the source says of the headroom.                                   *)
(***************************************************************************)

\* deployment-phases.ts:684-687 "Scaling up needs room for every missing
\* replica. During replacement, the peak also includes the permitted surge
\* until an old replica is drained. If excess old replicas already exist,
\* Towbar retires them before starting a candidate, so their released limits
\* provide the required headroom."
RoomForAll ==
    Rolling => Cardinality(running) <= Cardinality(previous) + AdditionalContainers

\* The headroom that was checked suffices where the surge does not exceed
\* the number of replicas.
HeadroomSuffices == rollout.maxSurge <= rollout.replicas => RoomForAll
=============================================================================
