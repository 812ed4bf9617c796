-------------------------- MODULE ServerCoordinator --------------------------
(***************************************************************************)
(* One Temporal workflow per deployment server orders everything Towbar    *)
(* does on it: workflows/concurrent-server-coordinator.workflow.ts.  The   *)
(* API signals work items to it (signalWithStart: a closed coordinator is  *)
(* started afresh); the coordinator starts the work the scheduler picks    *)
(* and learns of its end through a list of completed identities.           *)
(*                                                                         *)
(* A workflow is single-threaded: between two awaits of the main loop no   *)
(* handler and no completion runs.  `pc' says where the main loop is:      *)
(*   "closed"    no coordinator is running                                 *)
(*   "draining"  at the top of the loop, line 85                           *)
(*   "starting"  in the loop that starts work, line 90                     *)
(*   "idle"      awaiting work for at most ten minutes, line 124           *)
(*   "waiting"   awaiting a completion or startable work, line 128         *)
(***************************************************************************)
EXTENDS ServerScheduling, FiniteSets, SequencesExt

CONSTANTS
    Items,          \* the work items callers may signal
    BuildLimits,    \* the values of buildConcurrency they send along
    PreviewLimits,  \* the values of previewBuildConcurrency they send along
    Capacity,       \* no build limit exceeds it
    PreviewCapacity \* no preview limit exceeds it

VARIABLES
    pc,                      \* where the main loop is
    queue,                   \* items signalled and not yet started
    seen,                    \* identities this run has accepted
    active,                  \* started work, by identity, until it is drained
    completed,               \* identities of work that ended, not yet drained
    buildConcurrency,        \* the limits of the last accepted signal
    previewBuildConcurrency

vars == <<pc, queue, seen, active, completed,
          buildConcurrency, previewBuildConcurrency>>

limits == <<buildConcurrency, previewBuildConcurrency>>

HighestBuildConcurrency == 16

AtLeastOne(n) == IF n < 1 THEN 1 ELSE n
AtMost(n, bound) == IF n > bound THEN bound ELSE n

ClampedBuild(b) == AtLeastOne(AtMost(b, HighestBuildConcurrency))

\* Only deployments and preview cleanups carry a preview limit; any other
\* item sets it back to one.
ClampedPreview(item, b, p) ==
    LET asked == IF item.kind \in {"deployment", "preview-cleanup"} THEN p ELSE 1
    IN  AtLeastOne(AtMost(asked, ClampedBuild(b)))

ASSUME ItemsAssumption == \A item \in Items : IsWorkItem(item)
ASSUME LimitsAssumption ==
    /\ BuildLimits \subseteq Nat /\ PreviewLimits \subseteq Nat
    /\ Capacity \in Nat \ {0} /\ PreviewCapacity \in Nat \ {0}
    /\ \A b \in BuildLimits : ClampedBuild(b) <= Capacity
    /\ \A p \in PreviewLimits : p <= PreviewCapacity

ActiveItems == {active[w] : w \in DOMAIN active}

activeAppIds == {item.app : item \in ActiveItems} \ {NoApp}
\* Mutant: only deployments count.
activeCountOfDeployments ==
    Cardinality({w \in DOMAIN active : active[w].kind = "deployment"})

activeCount == Cardinality(DOMAIN active)
activePreviewCount == Cardinality({w \in DOMAIN active : IsPreview(active[w])})
activeVulnerabilityScanCount ==
    Cardinality({w \in DOMAIN active : IsScan(active[w])})

\* What the coordinator passes to the scheduler.
Server == [apps     |-> activeAppIds,
           count    |-> activeCount,
           previews |-> activePreviewCount,
           scans    |-> activeVulnerabilityScanCount,
           buildConcurrency        |-> buildConcurrency,
           previewBuildConcurrency |-> previewBuildConcurrency]

CanStart(i) == NextServerWorkIndex(queue, Server, i)
SomethingCanStart == \E i \in DOMAIN queue : CanStart(i)

NoWork == [w \in {} |-> w]

-----------------------------------------------------------------------------
Init ==
    /\ pc = "closed"
    /\ queue = <<>>
    /\ seen = {}
    /\ active = NoWork
    /\ completed = {}
    /\ buildConcurrency = 1
    /\ previewBuildConcurrency = 1

(***************************************************************************)
(* signalWithStart delivers an item.  A closed coordinator starts a new    *)
(* run; a running one handles the signal where it awaits.  An identity the *)
(* run has seen is dropped, and so are the limits that came with it.       *)
(***************************************************************************)
EnqueueServerWork(item, b, p) ==
    /\ pc \in {"closed", "idle", "waiting"}
    /\ pc' = IF pc = "closed" THEN "draining" ELSE pc
    /\ IF serverWorkIdentity(item) \in seen
       THEN UNCHANGED <<queue, seen, limits>>
       ELSE /\ seen' = seen \cup {serverWorkIdentity(item)}
            /\ buildConcurrency' = ClampedBuild(b)
            /\ previewBuildConcurrency' = ClampedPreview(item, b, p)
            /\ queue' = Append(queue, item)
    /\ UNCHANGED <<active, completed>>

\* Mutant: ended work stays active.
DrainIdentitiesOnly ==
    /\ pc = "draining"
    /\ pc' = "starting"
    /\ completed' = {}
    /\ UNCHANGED <<queue, seen, active, limits>>

\* The top of the loop forgets the work that ended.
Drain ==
    /\ pc = "draining"
    /\ pc' = "starting"
    /\ active' = [w \in DOMAIN active \ completed |-> active[w]]
    /\ completed' = {}
    /\ UNCHANGED <<queue, seen, limits>>

\* Start the item the scheduler picks.
StartWork(i) ==
    /\ pc = "starting"
    /\ CanStart(i)
    /\ LET work == serverWorkIdentity(queue[i])
       IN  active' = [w \in DOMAIN active \cup {work} |->
                        IF w = work THEN queue[i] ELSE active[w]]
    /\ queue' = RemoveAt(queue, i)
    /\ UNCHANGED <<pc, seen, completed, limits>>

\* Nothing can start: await work on an idle server, or a change on a busy one.
Await ==
    /\ pc = "starting"
    /\ ~SomethingCanStart
    /\ pc' = IF queue = <<>> /\ DOMAIN active = {} THEN "idle" ELSE "waiting"
    /\ UNCHANGED <<queue, seen, active, completed, limits>>

\* The condition the loop awaits has become true.
Wake ==
    /\ \/ pc = "idle" /\ queue # <<>>
       \/ pc = "waiting" /\ (completed # {} \/ SomethingCanStart)
    /\ pc' = "draining"
    /\ UNCHANGED <<queue, seen, active, completed, limits>>

\* Ten minutes without work: the workflow returns and its state is gone.
IdleTimeout ==
    /\ pc = "idle"
    /\ queue = <<>>
    /\ pc' = "closed"
    /\ seen' = {}
    /\ buildConcurrency' = 1
    /\ previewBuildConcurrency' = 1
    /\ UNCHANGED <<queue, active, completed>>

\* A child workflow or an activity ends, well or not: the coordinator only
\* notes its identity.
WorkEnds(w) ==
    /\ pc = "waiting"
    /\ w \in DOMAIN active \ completed
    /\ completed' = completed \cup {w}
    /\ UNCHANGED <<pc, queue, seen, active, limits>>

Signal == \E item \in Items, b \in BuildLimits, p \in PreviewLimits :
            EnqueueServerWork(item, b, p)

MainLoop == Drain \/ (\E i \in DOMAIN queue : StartWork(i)) \/ Await \/ Wake

Next ==
    \/ Signal
    \/ MainLoop
    \/ IdleTimeout
    \/ \E w \in DOMAIN active : WorkEnds(w)

Spec == Init /\ [][Next]_vars

(***************************************************************************)
(* Temporal runs a workflow whose await is satisfied, and every unit of    *)
(* work ends: activities have a start-to-close timeout and child workflows *)
(* consist of such activities.  A run starts a unit once, so that one after *)
(* another is enough.  Nobody has to signal work.                          *)
(***************************************************************************)
Identities == {serverWorkIdentity(item) : item \in Items}

Fairness ==
    /\ WF_vars(MainLoop)
    /\ WF_vars(\E w \in DOMAIN active : WorkEnds(w))

FairSpec == Spec /\ Fairness

-----------------------------------------------------------------------------
(***************************************************************************)
(* Safety                                                                  *)
(***************************************************************************)

\* The identities that are at work on the server at this moment.
AtWork == DOMAIN active \ completed

Queued == {serverWorkIdentity(queue[i]) : i \in DOMAIN queue}

\* The type of every variable.
TypeOK ==
    /\ pc \in {"closed", "draining", "starting", "idle", "waiting"}
    /\ queue \in Seq(Items)
    /\ seen \subseteq Identities
    /\ DOMAIN active \subseteq Identities
    /\ \A w \in DOMAIN active : active[w] \in Items /\ serverWorkIdentity(active[w]) = w
    /\ completed \subseteq DOMAIN active
    /\ buildConcurrency \in 1..HighestBuildConcurrency
    /\ previewBuildConcurrency \in 1..buildConcurrency

\* A run never holds the same work twice: a child workflow is started under
\* the identity of its work, and a second start would be refused while the
\* first one runs and would repeat it afterwards.
AcceptedOnce ==
    /\ \A i, j \in DOMAIN queue :
          serverWorkIdentity(queue[i]) = serverWorkIdentity(queue[j]) => i = j
    /\ Queued \cap DOMAIN active = {}
    /\ Queued \cup DOMAIN active \subseteq seen

\* Two items of one application are never at work together: a backup never
\* runs during a deployment of the same datastore, nor two deployments of
\* one service.
OneWorkPerApp ==
    \A v, w \in DOMAIN active :
        active[v].app = active[w].app /\ active[v].app # NoApp => v = w

\* However the callers' limits change, the work at hand stays within the
\* largest limits any of them sent, and one scan runs at a time.
WithinLimits ==
    /\ activeCount <= Capacity
    /\ activePreviewCount <= PreviewCapacity
    /\ activeVulnerabilityScanCount <= 1

\* A closed or idle coordinator has no work left: what is signalled while
\* it gives up is not lost with its state.
NothingLostOnClose ==
    /\ pc = "closed" => queue = <<>>
    /\ pc \in {"closed", "idle"} => DOMAIN active = {}

\* What holds of a coordinator at every moment: the types, and work that is held
\* once, apart from its application's other work, within every limit, and is not
\* lost when the run ends.
CoordinatorInv ==
    TypeOK /\ AcceptedOnce /\ OneWorkPerApp /\ WithinLimits /\ NothingLostOnClose

-----------------------------------------------------------------------------
(***************************************************************************)
(* Action properties                                                       *)
(***************************************************************************)

\* The item at position i begins in this step.
Begins(i) == serverWorkIdentity(queue[i]) \in DOMAIN active' \ DOMAIN active

\* Checks, preparations and exclusive operations keep their place in line:
\* what was signalled after one never begins before it.
BarrierNotOvertaken ==
    [][\A i, j \in DOMAIN queue : IsBarrier(queue[i]) /\ i < j => ~Begins(j)]_vars

\* Production deployments, cleanups and operations of one application begin
\* in the order they were signalled, so an older commit is never deployed
\* after a newer one that was requested behind it.
SameAppInOrder ==
    [][\A i, j \in DOMAIN queue :
          /\ i < j
          /\ queue[i].app = queue[j].app
          /\ IsImmediate(queue[i]) /\ IsImmediate(queue[j])
          => ~Begins(j)]_vars

\* A preview or a scan begins only when no production or maintenance work
\* could: what waits in the queue waits for its application (or names none,
\* and is never taken).
ProductionFirst ==
    [][\A i, j \in DOMAIN queue :
          /\ IsPreview(queue[j]) \/ IsScan(queue[j])
          /\ Begins(j)
          => /\ ~IsBarrier(queue[i])
             /\ IsImmediate(queue[i]) => queue[i].app \in activeAppIds \cup {NoApp}]_vars

-----------------------------------------------------------------------------
(***************************************************************************)
(* The coordinator implements ServerAccess.                                *)
(***************************************************************************)
Access == INSTANCE ServerAccess WITH
            pending <- ToSet(queue),
            running <- [w \in AtWork |-> active[w]]

AccessSpec == Access!Spec

-----------------------------------------------------------------------------
(***************************************************************************)
(* Liveness                                                                *)
(***************************************************************************)

\* A barrier that waits behind a preview or a scan: neither it nor they nor
\* what follows it can begin any more (see NeverAsleepOnWork).
HeldByBarrier ==
    \E i, j \in DOMAIN queue :
        i < j /\ IsBarrier(queue[j]) /\ (IsPreview(queue[i]) \/ IsScan(queue[i]))

\* Accepted work begins, whatever else is signalled, in which order and how
\* often, unless a barrier holds the queue: nothing leaves the queue but to
\* begin, and a run accepts an identity once.
AcceptedWorkBegins == queue # <<>> ~> queue = <<>> \/ HeldByBarrier

-----------------------------------------------------------------------------
(***************************************************************************)
(* What the source says of barriers and of priorities.                     *)
(***************************************************************************)

\* server-scheduling.ts:31 "Checks, preparation, and exclusive operations
\* retain FIFO position as barriers so they cannot race a deployment on the
\* same server": while one is at work nothing else is.
BarrierRunsAlone ==
    \A v \in AtWork : IsBarrier(active[v]) => AtWork = {v}

\* docs/docs/servers.mdx:104 "Production and maintenance work take priority
\* over previews": queued work may wait for running work, but the
\* coordinator never sleeps on a queue while nothing runs.
NeverAsleepOnWork ==
    pc = "waiting" => completed # {} \/ AtWork # {} \/ SomethingCanStart
=============================================================================
