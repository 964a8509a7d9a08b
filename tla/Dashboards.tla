----------------------------- MODULE Dashboards -----------------------------
(* The dashboards of the control plane (app/dashboards): a request reads one *)
(* table after the other, each of which may fail, while other requests write *)
(* to them.  A failed read leaves a hole in the answer, and an entry in its  *)
(* source_issues.  A figure is given here as the set of the rows it counts.  *)
EXTENDS Naturals, FiniteSets, Sequences

CONSTANTS
    Agents, Tenants, Projects,
    None,           \* no tenant, no project
    Universe,       \* rows of tasks, traces and costs that may be recorded
    TenantOf        \* the tenant of each agent

VARIABLES
    owner,          \* the tenant of each project, or None if there is no such project
    records,        \* the rows recorded so far; one is still to come
    request         \* the request under way: what is asked, read and found

dashboardVars == <<owner, records, request>>

(* ---- What each request reads, in order -------------------------------- *)
AfterCosts(p) == IF p = None THEN <<"list_projects", "rollups">> ELSE <<"rollup">>
DetailScript(p) ==
    <<"agent">> \o (IF p = None THEN <<>> ELSE <<"project">>) \o <<"task", "trace">> \o AfterCosts(p)
OverviewScript == <<"agents", "task", "trace", "list_projects", "rollups">>
AggregatedScript == <<"agents", "seats", "counts", "sessions", "projects", "squad_agents", "topology",
                      "burn", "list_projects", "rollups", "idle_seats", "scheduler", "coupling">>

NoRequest == [what |-> "none", agent |-> CHOOSE a \in Agents : TRUE, tenant |-> None, project |-> None,
              todo |-> <<>>, before |-> {}, counted |-> {}, listed |-> {}, costs |-> FALSE,
              hole |-> FALSE, issues |-> FALSE, code |-> 0, health |-> "ok"]

Init ==
    /\ owner \in [Projects -> Tenants \cup {None}]
    /\ records \in {Universe \ {r} : r \in Universe}
    /\ request = NoRequest

(* ---- Other requests --------------------------------------------------- *)
\* Traces and costs are only ever added, tasks are not deleted.
Record(r) ==
    /\ r \notin records /\ records' = records \cup {r}
    /\ UNCHANGED <<owner, request>>
CreateProject(p, t) ==
    /\ owner[p] = None /\ owner' = [owner EXCEPT ![p] = t]
    /\ UNCHANGED <<records, request>>

(* ---- A request -------------------------------------------------------- *)
Asks(what, a, t, p, script) ==
    /\ request = NoRequest
    /\ request' = [NoRequest EXCEPT !.what = what, !.agent = a, !.tenant = t, !.project = p,
                                    !.todo = script, !.before = records]
    /\ UNCHANGED <<owner, records>>
Detail(a, t, p) == Asks("detail", a, t, p, DetailScript(p))
Overview == Asks("overview", NoRequest.agent, None, None, OverviewScript)
Aggregated == Asks("aggregated", NoRequest.agent, None, None, AggregatedScript)

Reads(s) == request.todo # <<>> /\ Head(request.todo) = s
Goes(changes) == request' = [changes EXCEPT !.todo = Tail(@)]
Refuse(c) == request' = [request EXCEPT !.code = c, !.todo = <<>>]
Unchanging == UNCHANGED <<owner, records>>

\* _get_agent, _check_agent_tenant_scope: 503, 404 or 403.
GetAgent ==
    /\ Reads("agent")
    /\ \/ Refuse(503)
       \/ Refuse(404)
       \/ /\ request.tenant \notin {None, TenantOf[request.agent]} /\ Refuse(403)
       \/ /\ request.tenant \in {None, TenantOf[request.agent]}
          /\ Goes([request EXCEPT !.tenant = TenantOf[request.agent]])
    /\ Unchanging

\* _check_project_scope.
ProjectInScope_Any(p, t) == TRUE
ProjectInScope(p, t) == owner[p] = t
GetProject ==
    /\ Reads("project")
    /\ \/ Refuse(503)
       \/ owner[request.project] = None /\ Refuse(404)
       \/ /\ owner[request.project] # None
          /\ IF ProjectInScope(request.project, request.tenant) THEN Goes(request) ELSE Refuse(403)
    /\ Unchanging

\* The rows of a table that a request counts; tasks need not name a tenant.
OfAgent(r) == request.what = "detail" => r.agent = request.agent
OfTenant_Any(r) == TRUE
OfTenant(r) ==
    request.what = "detail" => r.tenant = request.tenant \/ (r.of = "task" /\ r.tenant = None)
OfProject(r) == request.project # None => r.project = request.project
InScope(r) == OfAgent(r) /\ OfTenant(r) /\ OfProject(r)

\* A task without a project is left out of a project's figures, and it says so.
Unscoped == \E r \in records : /\ r.of = "task" /\ OfAgent(r) /\ OfTenant(r)
                               /\ request.project # None /\ r.project = None
ReadRows(s) ==
    /\ Reads(s)
    /\ Goes([request EXCEPT !.counted = @ \cup {r \in records : r.of = s /\ InScope(r)},
                            !.issues = @ \/ (s = "task" /\ Unscoped)])
    /\ Unchanging

\* rollup_by_dimension of one project, or of every project that has costs, in
\* that case whatever its tenant.
Rollup ==
    /\ Reads("rollup")
    /\ Goes([request EXCEPT !.counted = @ \cup {r \in records : r.of = "cost" /\ InScope(r)}])
    /\ Unchanging
ListProjects ==
    /\ Reads("list_projects")
    /\ LET costs == {r \in records : r.of = "cost"} IN
         Goes([request EXCEPT !.listed = {<<r.tenant, r.project>> : r \in costs}, !.costs = costs # {}])
    /\ Unchanging
RollupNext ==
    /\ Reads("rollups") /\ request.listed # {}
    /\ \E p \in request.listed :
         \/ request' = [request EXCEPT !.listed = @ \ {p},
                           !.counted = @ \cup {r \in records : r.of = "cost" /\ <<r.tenant, r.project>> = p /\ OfAgent(r)}]
         \/ request' = [request EXCEPT !.listed = @ \ {p}, !.hole = TRUE, !.issues = TRUE]
    /\ Unchanging
RollupsEnd ==
    /\ Reads("rollups") /\ request.listed = {}
    /\ Goes(request)
    /\ Unchanging

\* The panels of the aggregated dashboard: what is read is not followed here.
Panels == {"agents", "seats", "counts", "sessions", "projects", "squad_agents", "topology", "burn", "idle_seats"}
ReadPanel(s) ==
    /\ Reads(s) /\ s \in Panels
    /\ Goes(request)
    /\ Unchanging

\* Without costs the tenants of idle seats come from the registry, "best-effort":
\* when that fails too the list is empty, and nothing says so.
BestEffort(s) == s = "idle_seats" /\ ~request.costs
ReadFails(s) ==
    /\ Reads(s) /\ s \notin {"agent", "project", "rollups", "scheduler", "coupling"}
    /\ \/ Goes([request EXCEPT !.hole = TRUE, !.issues = TRUE])
       \/ BestEffort(s) /\ Goes(request)
    /\ Unchanging

(* ---- Health ----------------------------------------------------------- *)
Worst_First(h, g) == h
Worst(h, g) ==
    CASE "unavailable" \in {h, g} -> "unavailable"
      [] "unavailable" \notin {h, g} /\ "degraded" \in {h, g} -> "degraded"
      [] OTHER -> "ok"
\* The scheduler is degraded while tasks wait or nine slots in ten are taken;
\* what is neither connected nor degraded is no coupling.
ReadHealth(s) ==
    /\ Reads(s) /\ s \in {"scheduler", "coupling"}
    /\ \E h \in {"ok", "degraded"} \cup (IF s = "coupling" THEN {"unavailable"} ELSE {}) :
         Goes([request EXCEPT !.health = Worst(h, @),
                              !.hole = @ \/ h # "ok"])
    /\ Unchanging

Answer ==
    /\ request.what # "none" /\ request.todo = <<>> /\ request.code = 0
    /\ request' = [request EXCEPT !.code = 200,
                                  !.health = Worst(IF request.issues THEN "degraded" ELSE "ok", @)]
    /\ Unchanging

Next ==
    \/ \E r \in Universe : Record(r)
    \/ \E p \in Projects, t \in Tenants : CreateProject(p, t)
    \/ \E a \in Agents, t \in Tenants \cup {None}, p \in Projects \cup {None} : Detail(a, t, p)
    \/ Overview \/ Aggregated
    \/ GetAgent \/ GetProject
    \/ \E s \in {"task", "trace"} : ReadRows(s)
    \/ Rollup \/ ListProjects \/ RollupNext \/ RollupsEnd
    \/ \E s \in Panels : ReadPanel(s)
    \/ \E s \in Panels \cup {"task", "trace", "rollup", "list_projects"} : ReadFails(s)
    \/ (\E s \in {"scheduler", "coupling"} : ReadHealth(s)) \/ Answer
Spec == Init /\ [][Next]_dashboardVars

(* ---- Properties ------------------------------------------------------- *)
TypeOK ==
    /\ owner \in [Projects -> Tenants \cup {None}]
    /\ records \subseteq Universe /\ request.counted \subseteq records
    /\ request.code \in {0, 200, 403, 404, 503}
    /\ request.health \in {"ok", "degraded", "unavailable"}

\* service.py:47-93, 398-490: the page of an agent counts only its own rows, and
\* of other tenants none but costs it has in their projects when no project is
\* asked for; a page for a project counts that project's rows only, and is
\* answered only if the project belongs to the agent's tenant.
FiguresScoped ==
    request.what = "detail" =>
        /\ \A r \in request.counted :
             /\ r.agent = request.agent
             /\ r.tenant \in {TenantOf[request.agent], None} \/ (r.of = "cost" /\ request.project = None)
             /\ request.project \in {None, r.project}
        /\ request.code = 200 /\ request.project # None =>
             owner[request.project] = TenantOf[request.agent]

\* A page that says "ok" has no holes: nothing it should count that was there
\* when it was asked for is missing, whatever was written while it was read; and
\* an overall "ok" means that no source has failed but that of the idle seats, the
\* coupling is up and the scheduler not loaded.
Wanted(r) ==
    \/ request.what = "overview"
    \/ /\ request.what = "detail" /\ r.agent = request.agent
       /\ r.tenant = TenantOf[request.agent] /\ request.project \in {None, r.project}
OkIsComplete ==
    request.code = 200 /\ request.health = "ok" =>
        /\ \A r \in request.before : Wanted(r) => r \in request.counted
        /\ ~request.hole
PagesTell == FiguresScoped /\ OkIsComplete
=============================================================================
