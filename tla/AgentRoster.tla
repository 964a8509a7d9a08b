---------------------------- MODULE AgentRoster -----------------------------
(* Who is an agent?  Herdr's panes, the rows of HerdMaster, the whitelist    *)
(* file and the allowlist of the watchdog each hold an answer, and four     *)
(* programs carry it from one to another: the watchdog's polls              *)
(* (watchdog/engine.py), the hourly ops/agent-registry-reconcile.sh with    *)
(* ops/sync_agent_identity.py, the metrics of the API (api/server.py), and  *)
(* the purge that an alert on them starts (remediation/webhook_server.py).  *)
(* The operator "cli" is in each of them always, and is left out.           *)
EXTENDS Naturals, FiniteSets

CONSTANTS
    Agents,
    MaxChanges,     \* bound: panes opened or closed, agents registered by clients
    MaxFailures     \* bound: requests and commands that fail

VARIABLES
    panes,          \* the panes that Herdr has
    rows,           \* the table agents of HerdMaster
    file,           \* agent_whitelist.json, and whether it can be read
    config, allow,  \* agent_allowlist: in config.toml, and as the watchdog has it
    listed,         \* what a poll of the watchdog has still to go through
    firing,         \* the alert, as of the last scrape
    purge,          \* the remediation webhook
    reconcile,      \* the hourly script
    pinned,         \* registry_agents has a stale row that a mapping refers to
    changes, failed

rosterVars == <<panes, rows, file, config, allow, listed, firing, purge, reconcile, pinned, changes, failed>>

Unread == [readable |-> FALSE, ids |-> {}]
NoPurge == [at |-> "idle", whitelist |-> {}, todo |-> {}]
NoReconcile == [at |-> "idle", roster |-> {}, sync |-> {}]

Init ==
    /\ panes \in SUBSET Agents /\ rows = panes
    /\ file \in {Unread, [readable |-> TRUE, ids |-> panes]}
    /\ config = [set |-> FALSE, ids |-> {}] /\ allow = config
    /\ listed = {} /\ firing = FALSE
    /\ purge = NoPurge /\ reconcile = NoReconcile
    /\ pinned \in BOOLEAN
    /\ changes = 0 /\ failed = 0

(* ---- The world -------------------------------------------------------- *)
PaneChanges(a) ==
    /\ changes < MaxChanges /\ changes' = changes + 1
    /\ panes' \in {panes \cup {a}, panes \ {a}} \ {panes}
    /\ UNCHANGED <<rows, file, config, allow, listed, firing, purge, reconcile, pinned, failed>>

\* POST /agents of HerdMaster takes any id.
Register(a) ==
    /\ changes < MaxChanges /\ changes' = changes + 1
    /\ a \notin rows /\ rows' = rows \cup {a}
    /\ UNCHANGED <<panes, file, config, allow, listed, firing, purge, reconcile, pinned, failed>>

\* POST /reload.
Reload ==
    /\ allow' = config
    /\ UNCHANGED <<panes, rows, file, config, listed, firing, purge, reconcile, pinned, changes, failed>>

(* ---- The watchdog ----------------------------------------------------- *)
PollStarts ==
    /\ listed = {} /\ listed' = panes
    /\ UNCHANGED <<panes, rows, file, config, allow, firing, purge, reconcile, pinned, changes, failed>>

\* The answer may be old when its turn comes.
SyncAgent(a) ==
    /\ a \in listed /\ listed' = listed \ {a}
    /\ rows' = IF allow.set => a \in allow.ids THEN rows \cup {a} ELSE rows
    /\ UNCHANGED <<panes, file, config, allow, firing, purge, reconcile, pinned, changes, failed>>

(* ---- The alert: unlisted agents, or a count that differs -------------- *)
\* Without a whitelist the metrics take the rows for one, and nothing fires.
Whitelist_OfMetrics == IF file.readable THEN file.ids ELSE rows
Mismatch == \/ rows \ Whitelist_OfMetrics # {}
            \/ Cardinality(rows) # Cardinality(Whitelist_OfMetrics)
Scrape ==
    /\ firing # Mismatch /\ firing' = Mismatch
    /\ UNCHANGED <<panes, rows, file, config, allow, listed, purge, reconcile, pinned, changes, failed>>

(* ---- The remediation: one request at a time --------------------------- *)
\* Without a whitelist the purge takes the operator alone for one.
LoadWhitelist ==
    /\ purge.at = "idle" /\ firing
    /\ purge' = [at |-> "loaded", whitelist |-> IF file.readable THEN file.ids ELSE {}, todo |-> {}]
    /\ UNCHANGED <<panes, rows, file, config, allow, listed, firing, reconcile, pinned, changes, failed>>

Unlisted_All(w) == rows \cap w
Unlisted(w) == rows \ w
FetchAgents ==
    /\ purge.at = "loaded"
    /\ purge' = IF Unlisted(purge.whitelist) = {} THEN NoPurge
                ELSE [purge EXCEPT !.at = "deleting", !.todo = Unlisted(purge.whitelist)]
    /\ UNCHANGED <<panes, rows, file, config, allow, listed, firing, reconcile, pinned, changes, failed>>

FetchFails ==
    /\ purge.at = "loaded" /\ failed < MaxFailures /\ failed' = failed + 1
    /\ purge' = NoPurge
    /\ UNCHANGED <<panes, rows, file, config, allow, listed, firing, reconcile, pinned, changes>>

Done(a) == purge' = IF purge.todo = {a} THEN NoPurge ELSE [purge EXCEPT !.todo = @ \ {a}]

\* DELETE /agents/<id>; 404, an error and no more, when the row is gone.
DeleteAgent(a) ==
    /\ purge.at = "deleting" /\ a \in purge.todo
    /\ rows' = rows \ {a} /\ Done(a)
    /\ UNCHANGED <<panes, file, config, allow, listed, firing, reconcile, pinned, changes, failed>>

DeleteFails(a) ==
    /\ purge.at = "deleting" /\ a \in purge.todo
    /\ failed < MaxFailures /\ failed' = failed + 1
    /\ Done(a)
    /\ UNCHANGED <<panes, rows, file, config, allow, listed, firing, reconcile, pinned, changes>>

(* ---- The hourly reconciliation ---------------------------------------- *)
ReadRoster ==
    /\ reconcile.at = "idle"
    /\ reconcile' = [at |-> "roster", roster |-> panes, sync |-> {}]
    /\ UNCHANGED <<panes, rows, file, config, allow, listed, firing, purge, pinned, changes, failed>>

\* sync() asks Herdr again, and truncates the whitelist before it writes it.
SyncTruncates ==
    /\ reconcile.at = "roster"
    /\ reconcile' = [reconcile EXCEPT !.at = "sync", !.sync = panes]
    /\ file' = Unread
    /\ UNCHANGED <<panes, rows, config, allow, listed, firing, purge, pinned, changes, failed>>

SyncWrites ==
    /\ reconcile.at = "sync"
    /\ file' = [readable |-> TRUE, ids |-> reconcile.sync]
    /\ config' = [set |-> TRUE, ids |-> reconcile.sync]
    /\ reconcile' = [reconcile EXCEPT !.at = "commit"]
    /\ UNCHANGED <<panes, rows, allow, listed, firing, purge, pinned, changes, failed>>

\* One transaction: upsert the roster, delete the other rows, and those of
\* registry_agents; the foreign key of a mapping makes all of it fail.
ReconcileCommits ==
    /\ reconcile.at = "commit"
    /\ rows' = IF pinned THEN rows ELSE reconcile.roster
    /\ reconcile' = NoReconcile
    /\ UNCHANGED <<panes, file, config, allow, listed, firing, purge, pinned, changes, failed>>

ReconcileDies ==
    /\ reconcile.at # "idle" /\ failed < MaxFailures /\ failed' = failed + 1
    /\ reconcile' = NoReconcile
    /\ UNCHANGED <<panes, rows, file, config, allow, listed, firing, purge, pinned, changes>>

\* registry_agents changes with the enrollments of the control plane.
RegistryChanges ==
    /\ changes < MaxChanges /\ changes' = changes + 1
    /\ pinned' = ~pinned
    /\ UNCHANGED <<panes, rows, file, config, allow, listed, firing, purge, reconcile, failed>>

Watches == PollStarts \/ \E a \in Agents : SyncAgent(a)
Purges == FetchAgents \/ FetchFails \/ \E a \in Agents : DeleteAgent(a) \/ DeleteFails(a)
Reconciles == ReadRoster \/ SyncTruncates \/ SyncWrites \/ ReconcileCommits \/ ReconcileDies
Next == Watches \/ Scrape \/ LoadWhitelist \/ Purges \/ Reconciles \/ Reload \/ RegistryChanges
          \/ \E a \in Agents : PaneChanges(a) \/ Register(a)

\* The watchdog polls for ever, Prometheus sees a count that is wrong again and
\* again, Alertmanager delivers an alert that fires again and again, and cron
\* starts the script every hour.
Fairness == /\ WF_rosterVars(Watches) /\ SF_rosterVars(Scrape) /\ SF_rosterVars(LoadWhitelist)
            /\ WF_rosterVars(Purges) /\ WF_rosterVars(Reconciles)
Spec == Init /\ [][Next]_rosterVars /\ Fairness

(* ---- Properties ------------------------------------------------------- *)
TypeOK ==
    /\ {panes, rows, listed, file.ids, allow.ids, config.ids, purge.todo} \subseteq SUBSET Agents
    /\ purge.at \in {"idle", "loaded", "deleting"}
    /\ reconcile.at \in {"idle", "roster", "sync", "commit"}
    /\ firing \in BOOLEAN /\ pinned \in BOOLEAN

\* webhook_server.py:12-18: once panes and clients have come to rest, a row
\* without a pane is deleted in the end, and, unless the script's transaction
\* fails on the registry, a pane without a row gets one; whatever the order in
\* which the four programs have worked on old answers.
Ghost == changes = MaxChanges /\ rows \ panes # {}
Missing == changes = MaxChanges /\ ~pinned /\ panes \ rows # {}
GhostsGo == Ghost ~> ~Ghost
LiveReturn == Missing ~> ~Missing
=============================================================================
