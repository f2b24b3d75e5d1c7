------------------------------ MODULE MCWatcher ------------------------------
(* Four changes on disk without reloads, or one change and two reloads; at the *)
(* start both files are there or neither is.                                   *)
EXTENDS Watcher

CONSTANTS l1, f1, v1, v2

MCContents ==
    {[f \in Files |-> "absent"], [f \in Files |-> IF f = f1 THEN v1 ELSE v2]}

MCInit ==
    \E off \in BOOLEAN :
        /\ disk \in MCContents
        /\ events = <<>>
        /\ hashes = [f \in Files |-> IF disk[f] = "absent" THEN "none" ELSE disk[f]]
        /\ current = disk
        /\ recent = {}
        /\ handler = [pc |-> "idle", file |-> CHOOSE f \in Files : TRUE, data |-> "absent",
                      out |-> NoUpdate]
        /\ reloader = [l \in Reloaders |-> IF off THEN NoReloader ELSE IdleReloader]
        /\ pendingUpdates = NoUpdate
        /\ batch = NoUpdate
        /\ queue = <<>>
        /\ applied = disk
        /\ changes = IF off THEN 0 ELSE MaxChanges - 1
        /\ reloads = 0

MCSpec == MCInit /\ [][WatcherNext]_watcherVars /\ WatcherFairness
=============================================================================
