------------------------- MODULE MCServerCoordinator -------------------------
(***************************************************************************)
(* Work items and limits for model checking ServerCoordinator.             *)
(***************************************************************************)
EXTENDS ServerCoordinator

Item(kind, id, cycle, app, priority, exclusive) ==
    [kind |-> kind, id |-> id, cycle |-> cycle, app |-> app,
     priority |-> priority, exclusive |-> exclusive]

Deployment(id, app)  == Item("deployment", id, 0, app, "production", FALSE)
Preview(id, app)     == Item("deployment", id, 0, app, "preview", FALSE)
Cleanup(id, app)     == Item("preview-cleanup", id, 0, app, "production", FALSE)
Backup(id, app)      == Item("resource-operation", id, 0, app, "production", FALSE)
HostCleanup(id)      == Item("resource-operation", id, 0, NoApp, "production", TRUE)
Scan(id, cycle, app) == Item("vulnerability-scan", id, cycle, app, "production", FALSE)
Check(id)            == Item("server-check", id, 0, NoApp, "production", FALSE)
Preparation(id)      == Item("server-preparation", id, 0, NoApp, "production", FALSE)

\* A deployment and a backup of one service, a preview and a scan of others,
\* and a check.
MixedItems == {Deployment(1, "web"), Backup(2, "web"), Preview(3, "api"),
               Scan(4, 1, "api"), Check(5)}

\* Previews, the scans of two cycles and an exclusive operation compete ...
SharedItems == {Preview(2, "api"), Preview(3, "docs"), Scan(5, 1, "web"),
                Scan(5, 2, "blog"), HostCleanup(6)}

\* ... and previews of one application and of another with a cleanup.
PreviewItems == {Preview(2, "api"), Preview(3, "docs"), Cleanup(4, "api"),
                 Deployment(7, "docs"), HostCleanup(6)}

Mixes == {MixedItems, SharedItems, PreviewItems}
MixesItems == UNION Mixes

\* A behaviour sees the work of one mix.
OfOneMix == \E mix \in Mixes : seen \subseteq {serverWorkIdentity(i) : i \in mix}

MixesSpec == Init /\ [][Next /\ OfOneMix']_vars /\ Fairness

\* The least that shows a preview in front of a barrier.
PreviewAndCheck == {Deployment(1, "web"), Preview(2, "api"), Check(3)}

OneOrTwo == {1, 2}
=============================================================================
