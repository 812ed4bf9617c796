-------------------------- MODULE ServerScheduling --------------------------
(***************************************************************************)
(* The choice a server coordinator makes whenever it looks for work:       *)
(* workflows/server-scheduling.ts of the Temporal worker.  A work item is  *)
(* a record                                                                *)
(*   [kind, id, cycle, app, priority, exclusive]                           *)
(* whose fields are those of the ServerWorkItem union; a field the kind    *)
(* does not carry has a fixed value (cycle 0, app NoApp, ...).             *)
(***************************************************************************)
EXTENDS Naturals, Sequences

CONSTANTS
    NoApp      \* the null application of checks, preparations, host cleanup

\* The six members of the ServerWorkItem union.
WorkKinds == {"deployment", "preview-cleanup", "server-check",
              "server-preparation", "vulnerability-scan", "resource-operation"}

Priorities == {"production", "preview"}

\* The fields every item has, whatever its kind.
IsWorkItem(item) ==
    /\ DOMAIN item = {"kind", "id", "cycle", "app", "priority", "exclusive"}
    /\ item.kind \in WorkKinds
    /\ item.cycle \in Nat
    /\ item.priority \in Priorities
    /\ item.exclusive \in BOOLEAN

\* What makes two signals the same work: a scan is a new one in every cycle.
serverWorkIdentity(item) ==
    IF item.kind = "vulnerability-scan"
    THEN <<item.kind, item.id, item.cycle>>
    ELSE <<item.kind, item.id>>

\* Work that may only begin on an idle server and from the head of the queue.
IsBarrier(item) ==
    \/ item.kind \in {"server-check", "server-preparation"}
    \/ item.kind = "resource-operation" /\ item.exclusive

IsPreview(item) == item.kind = "deployment" /\ item.priority = "preview"
IsScan(item)    == item.kind = "vulnerability-scan"

\* Work the scan returns as soon as it meets it.
IsImmediate(item) ==
    \/ item.kind \in {"preview-cleanup", "resource-operation"}
    \/ item.kind = "deployment" /\ item.priority = "production"

-----------------------------------------------------------------------------
(***************************************************************************)
(* The scan of the queue.  `server' is what the coordinator passes in:     *)
(* the applications at work, how many items, previews and scans run, and   *)
(* the two limits.                                                         *)
(***************************************************************************)

\* Mutant: the scan runs past barriers.
ReachedPastBarriers(queue, i) == TRUE

\* No barrier sits before position i, so the scan gets there.
Reached(queue, i) == \A j \in 1..(i - 1) : ~IsBarrier(queue[j])

\* Mutant: the applications at work are not looked at.
EligibleWhateverRuns(queue, server, i) ==
    Reached(queue, i) /\ ~IsBarrier(queue[i]) /\ queue[i].app # NoApp

\* The item at i is no barrier and its application is idle.
Eligible(queue, server, i) ==
    /\ Reached(queue, i)
    /\ ~IsBarrier(queue[i])
    /\ queue[i].app # NoApp
    /\ queue[i].app \notin server.apps

\* Mutant: previews and scans are returned where they are met.
StartsAtOnceOfAnyKind(queue, server, i) == Eligible(queue, server, i)

StartsAtOnce(queue, server, i) ==
    Eligible(queue, server, i) /\ IsImmediate(queue[i])

PreviewFits(queue, server, i) ==
    /\ Eligible(queue, server, i)
    /\ IsPreview(queue[i])
    /\ server.previews < server.previewBuildConcurrency

ScanFits(queue, server, i) ==
    /\ Eligible(queue, server, i)
    /\ IsScan(queue[i])
    /\ server.scans < 1

\* Mutant: any of the positions will do.
IsAny(i, positions) == i \in positions

\* i is the first of the positions.
IsFirst(i, positions) == i \in positions /\ \A j \in positions : i <= j

HasRoom(server) == server.count < server.buildConcurrency

(***************************************************************************)
(* nextServerWorkIndex returns position i (it returns -1 when no position  *)
(* satisfies this).  An immediate item wins; then a barrier, at the head   *)
(* of an idle server's queue; a preview or a scan is taken only when the   *)
(* scan ran to the end of the queue, that is when no barrier waits         *)
(* anywhere in it.                                                         *)
(***************************************************************************)
NextServerWorkIndex(queue, server, i) ==
    LET now       == {j \in DOMAIN queue : StartsAtOnce(queue, server, j)}
        previews  == {j \in DOMAIN queue : PreviewFits(queue, server, j)}
        scans     == {j \in DOMAIN queue : ScanFits(queue, server, j)}
        noBarrier == \A j \in DOMAIN queue : ~IsBarrier(queue[j])
    IN  /\ HasRoom(server)
        /\ i \in DOMAIN queue
        /\ \/ IsFirst(i, now)
           \/ /\ IsBarrier(queue[i])
              /\ i = 1
              /\ server.count = 0
           \/ /\ now = {} /\ noBarrier
              /\ IsFirst(i, previews)
           \/ /\ now = {} /\ noBarrier
              /\ previews = {}
              /\ IsFirst(i, scans)
=============================================================================
