---------------------------- MODULE ServerAccess ----------------------------
(***************************************************************************)
(* What a server coordinator promises those who hand it work, with no      *)
(* queue, no main loop and no bookkeeping: accepted work begins at most    *)
(* once, an application is never worked on twice at a time, at most one    *)
(* vulnerability scan runs, the server's capacity is kept, and a barrier   *)
(* begins only on an idle server.  (Nothing is promised about what begins  *)
(* while a barrier runs: see BarrierRunsAlone of ServerCoordinator.)       *)
(***************************************************************************)
EXTENDS ServerScheduling, FiniteSets

CONSTANTS
    Items,       \* the work items callers may hand over
    Capacity     \* the most work the server takes at a time

VARIABLES
    pending,     \* accepted items that have not begun
    running      \* the items at work, by identity

vars == <<pending, running>>

Outstanding == {serverWorkIdentity(item) : item \in pending} \cup DOMAIN running

Init == pending = {} /\ DOMAIN running = {}

Accept(item) ==
    /\ serverWorkIdentity(item) \notin Outstanding
    /\ pending' = pending \cup {item}
    /\ UNCHANGED running

Begin(item) ==
    /\ item \in pending
    /\ Cardinality(DOMAIN running) < Capacity
    /\ IF IsBarrier(item)
       THEN DOMAIN running = {}
       ELSE \A w \in DOMAIN running : running[w].app # item.app
    /\ IsScan(item) => \A w \in DOMAIN running : ~IsScan(running[w])
    /\ pending' = pending \ {item}
    /\ LET work == serverWorkIdentity(item)
       IN  running' = [w \in DOMAIN running \cup {work} |->
                         IF w = work THEN item ELSE running[w]]

End(w) ==
    /\ running' = [v \in DOMAIN running \ {w} |-> running[v]]
    /\ UNCHANGED pending

Next ==
    \/ \E item \in Items : Accept(item) \/ Begin(item)
    \/ \E w \in DOMAIN running : End(w)

Spec == Init /\ [][Next]_vars
=============================================================================
