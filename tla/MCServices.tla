----------------------------- MODULE MCServices -----------------------------
(* Small instances of the services of the control plane that share no state: *)
(* each runs on its own (focus), the others stay as they started, so that the *)
(* states explored are the union of those of the services.                  *)
EXTENDS Services, CostAllocation, Tenancy

ASSUME AggregatorConfigured == AggregatorAssumption
ASSUME BudgetsConfigured == BudgetAssumption
ASSUME TenancyConfigured == TenancyAssumption

VARIABLES
    focus,      \* the service that runs
    project, prow,
    costs, usage, recording, scrape,
    owner, records, page,
    published, saved, routing, conn, client, registry, closing, wire, store, heard, poll,
    instant, hits, let, turned, judged, zset, touched, bucket, drawn, denied,
    hour, keys, index, tokens, entering, grants, by_user, verifying, issued, told,
    tick, quota, cache, key_index, gcall, received, proxied, meter, completion, callbacks, counted, used,
    cut, vectors, adds, asks, spool, uploads, kept, rows, batches, applied,
    provider, invoked, inits, panes, changes_left, waits, sends, typed, screen, tasking, snapshot,
    tracked, member, flagged, announced, shown, audits, ledger, acts, misses, moves, boards

(* ---- Plans: chains, a diamond, a cycle, an entry that is refused ------- *)
Plan(a, b, c, bad) ==
    [entries |-> <<"a", "b", "c">>,
     deps |-> [k \in {"a", "b", "c"} |-> CASE k = "a" -> a [] k = "b" -> b [] OTHER -> c],
     bad |-> bad]
SomePlans == {Plan({"b"}, {"c"}, {}, {}), Plan({"b"}, {"c"}, {"a"}, {}), Plan({"c"}, {}, {}, {"c"}),
              Plan({"b"}, {"a"}, {"a"}, {}), Plan({}, {"a"}, {"a"}, {"b"})}
SomeOverrides == {[Plan({}, {}, {}, {}) EXCEPT !.entries = <<"a">>],
                  [Plan({}, {}, {}, {}) EXCEPT !.entries = <<>>]}

(* ---- Canvases of a squad and configurations of HerdMaster -------------- *)
Canvas(nodes, workers, edges) == [nodes |-> nodes, workers |-> workers, edges |-> edges]
SomeCanvases ==
    {Canvas({"tl", "w", "*"}, {"w"}, {<<"tl", "w">>, <<"w", "*">>}), Canvas({"tl", "w"}, {"w"}, {}),
     Canvas({"w"}, {"w"}, {<<"tl", "w">>, <<"w", "tl">>})}
SomeMatches == [p \in {"tl", "w", "*"} |-> IF p = "*" THEN {"tl", "w"} ELSE {p}]
LeadConfig == [default |-> "deny", roles |-> {[agents |-> {"tl"}, sends |-> {"*"}, receives |-> {}]}]
SomeConfigs == {LeadConfig,
                [default |-> "allow", roles |-> {[agents |-> {"*"}, sends |-> {}, receives |-> {}]}]}

(* ---- Steps of an activation -------------------------------------------- *)
TwoSteps == <<"validation", "seats">>

(* ---- Rows that the dashboards count ------------------------------------ *)
PageRow(of, a, t, p) == [of |-> of, agent |-> a, tenant |-> t, project |-> p]
SomeRows == {PageRow("task", "a", "none", "none"), PageRow("trace", "a", "t", "p"), PageRow("trace", "a", "u", "p"),
             PageRow("cost", "a", "u", "q"), PageRow("cost", "a", "t", "p"), PageRow("cost", "b", "t", "p")}

Planner == INSTANCE ProjectPlanner
        WITH Projects <- {"p1"}, Keys <- {"a", "b", "c"}, Plans <- SomePlans, Overrides <- SomeOverrides,
             PatchStates <- {"in_progress", "awaiting_approval"}, MaxApprovals <- 1
PolicyRule(effect, permissions, priority) ==
    [effect |-> effect, permissions |-> permissions, users |-> {"u1"}, priority |-> priority]
PolicyRules == [r1 |-> PolicyRule("deny", {"see"}, 2), r2 |-> PolicyRule("allow", {"see", "read"}, 1),
                r3 |-> PolicyRule("deny", {"see"}, 0)]
TwoPayers == <<"p", "q">>
TwoChains == {<<"p", "q">>, <<"p", "p">>}
DimLimits(c, m) == [cpu |-> c, mem |-> m]
TwoDimensions == <<"cpu", "mem">>
SomeWants == {DimLimits(1, 0), DimLimits(2, 1)}
TierLimits == [free |-> DimLimits(2, 2), large |-> DimLimits(4, 3)]
ThreeTracked == <<"a", "b", "c">>
\* What the two threads call: one serves requests, the other provisions.
OpsOfTwo == [t1 |-> {"add", "remove", "remap", "enroll_pane"}, t2 |-> {"enroll", "remove"}]
\* Requests that write settings: a general one also the keys of the profile and of an integration.
Setting(route, key, json) == [route |-> route, key |-> key, json |-> json]
SomeWrites ==
    [w1 |-> <<Setting("settings", <<"theme">>, FALSE), Setting("settings", <<"profile", "name">>, FALSE)>>,
     w2 |-> <<Setting("settings", <<"profile", "name">>, FALSE), Setting("settings", <<"theme">>, FALSE),
              Setting("settings", <<"integrations", "i">>, FALSE)>>,
     w3 |-> <<Setting("integrations", <<"integrations", "j">>, TRUE)>>]
\* Payloads of usage: a seat by a route, tokens and a seat by an event, and a seat without a period.
TokenUse(p, model, cost) ==
    [engine |-> "token", project |-> p, key |-> model, cost |-> cost, used |-> 0, period |-> 0]
SeatUse(p, vendor, cost, busy, period) ==
    [engine |-> "seat", project |-> p, key |-> vendor, cost |-> cost, used |-> busy, period |-> period]
Fin == INSTANCE FinOps
        WITH Recordings <- {"r1", "r2", "r3"},
             UsageOf <- [r1 |-> <<SeatUse("p", "v", 1, 1, 2)>>,
                         r2 |-> <<TokenUse("p", "unknown", 2), SeatUse("q", "v", 1, 0, 2)>>,
                         r3 |-> <<SeatUse("p", "w", 1, 1, 0), TokenUse("p", "m", 1)>>],
             Bridged <- {"r2", "r3"}, CostProjects <- <<"p", "q">>, IdlePct <- 10, MaxScrapes <- 1
SomeFields == [p1 |-> {"both"}, p2 |-> {"config", "active"}]
Dash == INSTANCE Dashboards
        WITH Agents <- {"a"}, Tenants <- {"t", "u"}, Projects <- {"p"}, None <- "none",
             Universe <- SomeRows, TenantOf <- [a |-> "t", b |-> "u"], request <- page
Feed == INSTANCE AlertFeed
        WITH StoreSize <- 1, MaxAlerts <- 2, MaxSessions <- 2, session <- conn
Rates(n) == INSTANCE RateLimits
        WITH Clients <- {"c", "d"}, Rpm <- [c |-> 1, d |-> 2], Tpm <- [c |-> 2, d |-> 1], TenantFactor <- 1,
             Calls <- {"r1", "r2", "r3"}, FilterLimit <- 2, Limit <- 1, Window <- 2, Minute <- 2,
             MaxInstant <- n, call <- judged
Access(n) == INSTANCE ApiAccess
        WITH Tenants <- {"t", "u"}, Nobody <- "nobody", Requests <- {"r1"}, UserCodes <- {"A", "B"},
             Clients <- {"c", "d"}, Subjects <- {"s1", "s2"}, Lifetime <- 1, MaxKeys <- n, MaxGrants <- 2,
             MaxHour <- 2, request <- entering, made <- issued, trail <- told
Gates == INSTANCE ModelGateways
        WITH MaxCalls <- 3, Consumers <- {"w"}, Bodies <- {"bare", "full"}, ModelList <- "models",
             FullBody <- [bare |-> "full", full |-> "full"], NKeys <- 2, Quota <- 2, Minute <- 2,
             Ttl <- 1, MaxTick <- 2, Proxied <- {"q1", "q2"}, NProviders <- 2, NChunks <- 2,
             Completions <- {"r1", "r2"}, ChainOf <- [r1 |-> <<"a", "b", "c">>, r2 |-> <<"b", "a">>],
             ReportedAs <- [a |-> "a", b |-> "x", c |-> "x"], Tokens <- {0, 1}
\* Scores of documents for a question, and the batches merged into the vector database.
SomeScores == [d1 |-> 1, d2 |-> 2, d3 |-> 2]
RelevanceOf(q, d) == SomeScores[d]
File(hidden, supported, blank, score) ==
    [hidden |-> hidden, supported |-> supported, blank |-> blank, score |-> score]
Root(directory, hidden, exists) == [directory |-> directory, hidden |-> hidden, exists |-> exists]
SomeRoots == {Root(TRUE, FALSE, TRUE), Root(TRUE, TRUE, TRUE), Root(FALSE, TRUE, TRUE), Root(FALSE, FALSE, FALSE)}
FilesUnder(r) ==
    IF r.directory THEN <<File(FALSE, TRUE, FALSE, 1), File(TRUE, TRUE, FALSE, 3), File(FALSE, TRUE, TRUE, 0),
                          File(FALSE, FALSE, FALSE, 3), File(FALSE, TRUE, FALSE, 2)>>
    ELSE <<File(TRUE, TRUE, FALSE, 2)>>
ChunkRow(i, t, v) == [id |-> i, tenant |-> t, vector |-> v]
Rag == INSTANCE Retrieval
        WITH Letter <- "x", TextLength <- 5, Sizes <- {<<2, 0>>, <<3, 1>>}, LineSizes <- {0, 1, 3},
             Roots <- SomeRoots, FilesOf <- FilesUnder,
             Adds <- {"d1", "d2", "d3"}, Asks <- {"q1"}, Relevance <- RelevanceOf, TopK <- 2, MinScore <- 1,
             BlockSize <- 5, MaxContext <- 9, Uploads <- {"u1", "u2"}, Names <- {"n1", "n2"},
             Ids <- {"i", "j"}, Batches <- {"b1", "b2", "b3"},
             BatchOf <- [b1 |-> <<ChunkRow("i", "t", "v"), ChunkRow("j", "t", "v")>>,
                         b2 |-> <<ChunkRow("i", "t", "w")>>,
                         b3 |-> <<ChunkRow("j", "t", "w"), ChunkRow("i", "u", "v")>>]
\* Configurations of a provider, accepted or refused early and late; and patterns of a terminal's lines.
ProviderConfig(fails, overrides, default, deployments) ==
    [fails |-> fails, overrides |-> overrides, default |-> default, deployments |-> deployments]
SomePatterns == <<[kind |-> "working", rank |-> 3, state |-> "working"], [kind |-> "error", rank |-> 2, state |-> "none"],
                  [kind |-> "done", rank |-> 2, state |-> "done"], [kind |-> "error", rank |-> 3, state |-> "none"],
                  [kind |-> "done", rank |-> 1, state |-> "done"], [kind |-> "error", rank |-> 1, state |-> "none"]>>
Edge == INSTANCE Adapters
        WITH Configs <- {"c1", "c2", "c3", "c4"},
             ConfigOf <- [c1 |-> ProviderConfig("no", <<"m">>, "m", <<"d">>),
                          c2 |-> ProviderConfig("no", <<>>, "none", <<>>),
                          c3 |-> ProviderConfig("late", <<"m", "n">>, "m", <<>>),
                          c4 |-> ProviderConfig("early", <<>>, "none", <<>>)],
             Invocations <- {"i1"}, MaxInits <- 3, Agents <- {"a1"}, Waits <- {"w1"},
             WaitOn <- [w1 |-> "a1"], Sends <- {"s1"}, MaxChanges <- 3, Patterns <- SomePatterns,
             Lines <- {{}, {1}, {2, 4, 6}, {1, 3, 5}}, MaxLines <- 1, MaxScreen <- 2, Tasks <- {"t1"}
Tracker == INSTANCE Telemetry
        WITH Tasks <- <<"t1">>, Agents <- <<"a", "ottl">>, Sender <- "ottl", None <- "none",
             Prompts <- <<"t1">>, Subtasks <- {"x"}, MaxActs <- 2, MaxMoves <- 3, MaxBoards <- 2,
             task <- tracked, agent <- member, alerts <- flagged, sent <- announced, board <- shown,
             audit <- audits, failures <- misses

plannerVars == <<project, prow>>
registryVars == <<ot, hmtask, thread, requests, linked, patched>>
govVars == <<custom, binding, call, trail, rules, ruling>>
agentVars == <<agent, spawning, sending>>
llmVars == <<time, breaker, request, results>>
healthVars == <<clock, health, known, sweep, failures, alert, settled>>
rmVars == <<canvas, hmacl, bus, sending_to, delivered, audited>>
boardVars == <<board, issue, event, dispatch, patches, raced, settings, writer, token>>
loginVars == <<seat, patch, command, login, session, checking, overlapped>>
enrolVars == <<db, work, txn, worker, ops, drops, mixed>>
finopsVars == <<costs, usage, recording, scrape>>
dashVars == <<owner, records, page>>
feedVars == <<published, saved, routing, conn, client, registry, closing, wire, store, heard, poll>>
rateVars == <<instant, hits, let, turned, judged, zset, touched, bucket, drawn, denied>>
accessVars == <<hour, keys, index, tokens, entering, grants, by_user, verifying, issued, told>>
gateVars == <<tick, quota, cache, key_index, gcall, received, proxied, meter, completion, callbacks, counted, used>>
ragVars == <<cut, vectors, adds, asks, spool, uploads, kept, rows, batches, applied>>
edgeVars == <<provider, invoked, inits, panes, changes_left, waits, sends, typed, screen, tasking, snapshot>>
trackerVars == <<tracked, member, flagged, announced, shown, audits, ledger, acts, misses, moves, boards>>
allVars == <<focus, plannerVars, registryVars, provVars, govVars, costVars, budgetVars,
             agentVars, tenantVars, llmVars, healthVars, rmVars, enrolVars, boardVars, finopsVars, loginVars,
             dashVars, feedVars, rateVars, accessVars, gateVars, ragVars, edgeVars, trackerVars>>

ServicesInit ==
    /\ focus \in {"policies", "planner", "registry", "provisioning", "governance", "costs", "budgets",
                  "agents", "tenancy", "llm", "health", "messaging", "enrollment", "records",
                  "issues", "logins", "dashboards", "alerts", "filter", "redis", "buckets",
                  "keys", "requests", "devices", "gateway", "proxy", "completions",
                  "cutting", "answers", "uploads", "merges",
                  "providers", "herdr", "screens",
                  "board", "settings", "metering"}
    /\ Planner!Init /\ Registry!Init /\ Init /\ Gov!Init /\ AggregatorInit /\ BudgetInit
    /\ Agent!Init /\ TenantInit /\ Llm!Init /\ Health!Init /\ Rm!Init /\ Enrol!Init
    /\ Board!Init /\ Login!Init /\ Dash!Init /\ Feed!Init /\ Rates(3)!Init /\ Access(2)!Init
    /\ Gates!Init
    /\ Rag!Init /\ Fin!Init
    /\ Edge!Init
    /\ focus # "herdr" => panes = [a \in {"a1"} |-> "idle"]
    /\ Tracker!Init
    /\ focus # "logins" => command
    /\ focus # "requests" => tokens = {}
    /\ focus # "dashboards" =>
         owner = [p \in {"p"} |-> "t"] /\ PageRow("task", "a", "none", "none") \notin records

\* The other services rest: each has a run of its own.
Rest(svc) ==
    /\ focus = svc /\ UNCHANGED focus
    /\ IF svc = "planner" THEN TRUE ELSE UNCHANGED plannerVars
    /\ IF svc = "registry" THEN TRUE ELSE UNCHANGED registryVars
    /\ IF svc = "provisioning" THEN TRUE ELSE UNCHANGED provVars
    /\ IF svc \in {"governance", "policies"} THEN TRUE ELSE UNCHANGED govVars
    /\ IF svc = "costs" THEN TRUE ELSE UNCHANGED costVars
    /\ IF svc = "budgets" THEN TRUE ELSE UNCHANGED budgetVars
    /\ IF svc = "agents" THEN TRUE ELSE UNCHANGED agentVars
    /\ IF svc = "tenancy" THEN TRUE ELSE UNCHANGED tenantVars
    /\ IF svc = "llm" THEN TRUE ELSE UNCHANGED llmVars
    /\ IF svc = "health" THEN TRUE ELSE UNCHANGED healthVars
    /\ IF svc = "messaging" THEN TRUE ELSE UNCHANGED rmVars
    /\ IF svc = "enrollment" THEN TRUE ELSE UNCHANGED enrolVars
    /\ IF svc \in {"records", "issues", "settings"} THEN TRUE ELSE UNCHANGED boardVars
    /\ IF svc = "metering" THEN TRUE ELSE UNCHANGED finopsVars
    /\ IF svc = "logins" THEN TRUE ELSE UNCHANGED loginVars
    /\ IF svc = "dashboards" THEN TRUE ELSE UNCHANGED dashVars
    /\ IF svc = "alerts" THEN TRUE ELSE UNCHANGED feedVars
    /\ IF svc \in {"filter", "redis", "buckets"} THEN TRUE ELSE UNCHANGED rateVars
    /\ IF svc \in {"keys", "requests", "devices"} THEN TRUE ELSE UNCHANGED accessVars
    /\ IF svc \in {"gateway", "proxy", "completions"} THEN TRUE ELSE UNCHANGED gateVars
    /\ IF svc \in {"cutting", "answers", "uploads", "merges"} THEN TRUE ELSE UNCHANGED ragVars
    /\ IF svc \in {"providers", "herdr", "screens"} THEN TRUE ELSE UNCHANGED edgeVars
    /\ IF svc = "board" THEN TRUE ELSE UNCHANGED trackerVars

ServicesNext ==
    \/ Rest("planner") /\ Planner!Next
    \/ Rest("registry") /\ Registry!Next
    \/ Rest("provisioning") /\ Next
    \/ Rest("governance") /\ Gov!RoleNext
    \/ Rest("policies") /\ Gov!PolicyNext
    \/ Rest("costs") /\ AggregatorNext
    \/ Rest("budgets") /\ BudgetNext
    \/ Rest("agents") /\ Agent!Next
    \/ Rest("tenancy") /\ TenantNext
    \/ Rest("llm") /\ Llm!Next
    \/ Rest("health") /\ Health!Next
    \/ Rest("messaging") /\ Rm!Next
    \/ Rest("enrollment") /\ Enrol!Next
    \/ Rest("records") /\ Board!RecordsNext
    \/ Rest("issues") /\ Board!DispatchNext
    \/ Rest("settings") /\ Board!SettingsNext
    \/ Rest("metering") /\ Fin!Next
    \/ Rest("logins") /\ Login!Next
    \/ Rest("dashboards") /\ Dash!Next
    \/ Rest("alerts") /\ Feed!Next
    \/ Rest("filter") /\ Rates(3)!FilterNext
    \/ Rest("redis") /\ Rates(2)!RedisNext
    \/ Rest("buckets") /\ Rates(3)!BucketNext
    \/ Rest("keys") /\ Access(3)!KeysNext
    \/ Rest("requests") /\ Access(2)!RequestsNext
    \/ Rest("devices") /\ Access(2)!GrantsNext
    \/ Rest("gateway") /\ Gates!GatewayNext
    \/ Rest("proxy") /\ Gates!ProxyNext
    \/ Rest("completions") /\ Gates!CompletionsNext
    \/ Rest("cutting") /\ Rag!CutNext
    \/ Rest("answers") /\ Rag!AnswerNext
    \/ Rest("uploads") /\ Rag!SpoolNext
    \/ Rest("merges") /\ Rag!MergeNext
    \/ Rest("providers") /\ Edge!ProviderNext
    \/ Rest("herdr") /\ Edge!HerdrNext
    \/ Rest("screens") /\ Edge!ScreenNext
    \/ Rest("board") /\ Tracker!Next

ServicesSpec == ServicesInit /\ [][ServicesNext]_allVars

-----------------------------------------------------------------------------
\* Reference definition of the rules that topology/mapper.py:22-74 derives from
\* a canvas: whom its nodes match may send along its edges, and nobody else may.
ASSUME CanvasIsAcl ==
    \A nodes \in SUBSET Patterns : \A edges \in SUBSET (nodes \X nodes) :
        \A a, b \in Names :
            Rm!SendAllowed(Rm!MapToAcl(Canvas(nodes, {}, edges)), a, b)
                <=> Rm!Drawn(Canvas(nodes, {}, edges), a, b)

-----------------------------------------------------------------------------
(* Properties: each of the service that runs; the others are as they started. *)

\* Every variable of every service has its type, among others no counter of
\* used resources is negative (tenants/repository.py:284-320).
TypesOK ==
    /\ focus = "planner" => Planner!TypeOK
    /\ focus = "registry" => Registry!TypeOK
    /\ focus = "provisioning" => TypeOK
    /\ focus \in {"governance", "policies"} => Gov!TypeOK
    /\ focus = "costs" => AggregatorTypeOK
    /\ focus = "budgets" => BudgetTypeOK
    /\ focus = "agents" => Agent!TypeOK
    /\ focus = "tenancy" => TenantTypeOK
    /\ focus = "llm" => Llm!TypeOK
    /\ focus = "health" => Health!TypeOK
    /\ focus = "messaging" => Rm!TypeOK
    /\ focus = "enrollment" => Enrol!TypeOK
    /\ focus \in {"records", "issues", "settings"} => Board!TypeOK
    /\ focus = "metering" => Fin!TypeOK
    /\ focus = "logins" => Login!TypeOK
    /\ focus = "dashboards" => Dash!TypeOK
    /\ focus = "alerts" => Feed!TypeOK
    /\ focus \in {"filter", "redis", "buckets"} => Rates(3)!TypeOK
    /\ focus \in {"keys", "requests", "devices"} => Access(2)!TypeOK
    /\ focus \in {"gateway", "proxy", "completions"} => Gates!TypeOK
    /\ focus \in {"cutting", "answers", "uploads", "merges"} => Rag!TypeOK
    /\ focus \in {"providers", "herdr", "screens"} => Edge!TypeOK
    /\ focus = "board" => Tracker!TypeOK

\* A project becomes completed only when every entry of what was approved is
\* done, unless an approval failed half-way or a client patched the project
\* (repositories.py:806).
ProjectsCompleteInFull == Planner!CompletedInFull

\* What runs keeps to its plan and its limits: the rows an approval queues wait for
\* each other as the plan says, cycles cut, and the ETA counts the longest chain of
\* them, even when the approval fails half-way (planner.py:196-224, eta.py:76); the
\* three rate limiters and the quota of the LLM gateway let through what their limits
\* allow, and refuse only when that is used up (security.py:130, limiter.py:18,
\* rate_limiter.py:45, llm_gateway/service.py:137).
PlansKept ==
    /\ focus = "planner" => Planner!PlanKept
    /\ focus = "filter" => Rates(3)!FilterExact
    /\ focus = "redis" => Rates(2)!SetExact
    /\ focus = "buckets" => Rates(3)!BucketsExact
    /\ focus = "gateway" => Gates!QuotaExact

\* What is reported of work done elsewhere is grounded in it: a row of the task
\* registry in the ledger and in states that HerdMaster's row has had
\* (tasks_api/reconciler.py:60-170), the status of an issue in what its
\* dispatches and clients made of it (issues_api/router.py:218-255), and a login
\* in a configuration that lay in its home (sessions_api/service.py:41-160).  The
\* rows of settings are those of one request or another (settings_api/repository.py:41);
\* once the components have stayed as they are for enough sweeps the monitor
\* shows their true state (topology/health_monitor.py:68-146); and the two tables that
\* name an agent's pane agree, and with what a caller is told, as long as calls do not
\* overlap on their one connection (registry/repository.py:162-230).
ReportsTell ==
    /\ focus = "registry" => Registry!RowsAreGrounded
    /\ focus \in {"records", "issues"} => Board!StatusTells
    /\ focus = "settings" => Board!SettingsTell
    /\ focus = "logins" => Login!LoginsIsolated
    /\ focus = "health" => Health!ShowsTruth
    /\ focus = "enrollment" => Enrol!PanesAgree

\* The trails can be trusted: the chain of the audit trail tells what was altered,
\* removed or exchanged (governance/audit_trail.py:336), and a message is audited as
\* delivered only when it was, over an edge its squad's canvas had
\* (messaging/service.py:60-181).
TrailsTell ==
    /\ focus \in {"governance", "policies"} => Gov!ChainTells
    /\ focus = "messaging" => Rm!AuditTells

\* Limits bind or somebody is told: a budget overspent by charges that overlap is
\* warned about once they are over (billing/cost_allocation.py:288-330), a threshold crossed by events in
\* order raises an alert (governance/cost_allocation.py:300-395), and a tenant
\* stays within its quota unless admissions overlap, the limits of which are its
\* tier's (tenants/service.py:145-165).  A permission that a rule denies or the role
\* lacks is not used (governance/rbac.py:419).
LimitsTold ==
    /\ focus = "budgets" => OverspendTold
    /\ focus = "costs" => AlertsComplete
    /\ focus = "tenancy" => QuotaHolds /\ TierHolds
    /\ focus \in {"governance", "policies"} => Gov!PolicyHolds

\* A stopped agent neither runs again nor takes messages
\* (agent_runtime/runtime.py:243-352), an open breaker passes no request until
\* its recovery time is over (llm/router.py:49-196), and a deleted issue or
\* project and an archived event stay as they are, whatever still runs
\* (issues_api/repository.py, projects_api/repository.py, inbox_api/repository.py).
ClosedStaysClosed == Agent!StaysShut /\ Llm!BreakersHold /\ Board!FinalRows

=============================================================================
