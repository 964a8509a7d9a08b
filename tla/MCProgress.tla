----------------------------- MODULE MCProgress -----------------------------
(* Small instances of the services in which something must go on: leads with *)
(* their seats, dispatches over a socket, workflows, sandboxed jobs, pushes  *)
(* over websockets, the roster of agents.  They share no state: each runs on *)
(* its own (focus), the others stay as they started.                        *)
EXTENDS TechLead

CONSTANTS
    Words, MaxPolls, MaxTicks, MaxRounds,        \* dispatches over a socket or a terminal
    Units, Flows, MaxParallelism,                \* workflows
    PipeSize, Outputs,                           \* sandboxed jobs
    Sockets, Owners, Rooms, Pushes, MaxPushes,   \* websockets
    Agents, MaxChanges, MaxFailures              \* the roster

VARIABLES
    focus,      \* the service that runs
    wired, sd, hmrow, typed,
    flow, unit, branch, todo, outcome,
    job, child, pipe, parent,
    link, active, tenants, rooms, push, pushes,
    panes, rows, file, config, allow, listed, firing, purge, reconcile, pinned, moves, failed

(* ---- Leads: one plans two tasks, one a single one, one is not approved - *)
ShortPlans == [l1 |-> <<"t1", "t2">>, l2 |-> <<"t3">>, l3 |-> <<>>]
ShortBurn == [t1 |-> 1, t2 |-> 0, t3 |-> 0]

(* ---- Workflows: every graph of three steps, and some with sub-steps, --- *)
(* ---- nested ones and malformed ones among them                       --- *)
FlowUnits == {"a", "b", "c", "d", "x", "y", "z", "v", "w"}
FlowOf(order, deps, parallel, condition, malformed) ==
    [order |-> order,
     deps |-> [u \in FlowUnits |-> IF u \in DOMAIN deps THEN deps[u] ELSE {}],
     kind |-> [u \in FlowUnits |-> IF u \in parallel THEN "parallel"
                                   ELSE IF u \in condition THEN "condition" ELSE "leaf"],
     subs |-> [u \in FlowUnits |-> IF u \in parallel THEN <<"x", "y", "z">>
                                   ELSE IF u \in condition THEN <<"v", "w">> ELSE <<>>],
     depth |-> [u \in FlowUnits |-> IF u \in {"v", "w"} THEN 2 ELSE IF u \in {"x", "y", "z"} THEN 1 ELSE 0],
     malformed |-> malformed,
     tries |-> [u \in FlowUnits |-> IF u \in {"b", "y"} THEN 2 ELSE 1],
     fallback |-> {"c", "z"}]
SomeFlows ==
    {FlowOf(<<"a", "b", "c", "d">>, [a |-> {"b"}, c |-> {"a"}, b |-> {}], {}, {}, {}),
     FlowOf(<<"a", "b", "c", "d">>, [b |-> {"a"}, c |-> {"a"}, d |-> {"b"}], {"b"}, {"y"}, {}),
     FlowOf(<<"b", "a", "c">>, [c |-> {"a", "b"}], {"a"}, {"b"}, {}),
     FlowOf(<<"b", "a", "c">>, [c |-> {"b"}], {"b"}, {}, {"b"})}
    \cup {FlowOf(<<"a", "b", "c">>, d, {}, {}, {}) : d \in [{"a", "b", "c"} -> SUBSET {"a", "b", "c"}]}

\* Websockets of two users.
TwoOwners == [w1 |-> "x", w2 |-> "y"]

Socket == INSTANCE SocketDispatch
Flow == INSTANCE Workflow
Sand == INSTANCE Sandbox
Ws == INSTANCE ConnectionManager
Roster == INSTANCE AgentRoster WITH changes <- moves

sdVars == <<wired, sd, hmrow, typed>>
flowVars == <<flow, unit, branch, todo, outcome>>
sandVars == <<job, child, pipe, parent>>
wsVars == <<link, active, tenants, rooms, push, pushes>>
rosterVars == <<panes, rows, file, config, allow, listed, firing, purge, reconcile, pinned, moves, failed>>
allVars == <<focus, vars, sdVars, flowVars, sandVars, wsVars, rosterVars>>

ProgressInit ==
    /\ focus \in {"leads", "socket", "workflow", "sandbox", "websocket", "roster"}
    /\ Init /\ Socket!Init /\ Flow!Init /\ Sand!Init /\ Ws!Init /\ Roster!Init
    /\ focus # "leads" => expired = {} /\ saved = [five |-> 0, week |-> 0]
    /\ focus # "roster" => panes = {} /\ ~file.readable /\ ~pinned

Rest(svc) ==
    /\ focus = svc /\ UNCHANGED focus
    /\ IF svc = "leads" THEN TRUE ELSE UNCHANGED vars
    /\ IF svc = "socket" THEN TRUE ELSE UNCHANGED sdVars
    /\ IF svc = "workflow" THEN TRUE ELSE UNCHANGED flowVars
    /\ IF svc = "sandbox" THEN TRUE ELSE UNCHANGED sandVars
    /\ IF svc = "websocket" THEN TRUE ELSE UNCHANGED wsVars
    /\ IF svc = "roster" THEN TRUE ELSE UNCHANGED rosterVars

ProgressNext ==
    \/ Rest("leads") /\ Next
    \/ Rest("socket") /\ Socket!Next
    \/ Rest("workflow") /\ Flow!Next
    \/ Rest("sandbox") /\ Sand!Next
    \/ Rest("websocket") /\ Ws!Next
    \/ Rest("roster") /\ Roster!Next

\* The scheduler runs what has been started: the event loop, the leads,
\* the operating system of the sandbox.  The watchdog polls for
\* ever, cron starts its script every hour; Prometheus sees a count that is
\* wrong again and again, and its alert is delivered again and again.
ProgressRuns ==
    \/ Rest("leads") /\ Runs
    \/ Rest("socket") /\ Socket!Runs
    \/ Rest("workflow") /\ Flow!Runs
    \/ Rest("sandbox") /\ Sand!Runs
    \/ Rest("websocket") /\ Ws!Runs
    \/ Rest("roster") /\ Roster!Watches
RosterFairness ==
    /\ SF_rosterVars(Rest("roster") /\ Roster!Scrape)
    /\ SF_rosterVars(Rest("roster") /\ Roster!LoadWhitelist)
    /\ WF_rosterVars(Rest("roster") /\ Roster!Purges)
    /\ WF_rosterVars(Rest("roster") /\ Roster!Reconciles)
ProgressSpec == ProgressInit /\ [][ProgressNext]_allVars /\ WF_allVars(ProgressRuns) /\ RosterFairness

-----------------------------------------------------------------------------
(* An assumption of the instances.                                         *)
ASSUME WorkflowsWellFormed == Flow!WorkflowAssumption

-----------------------------------------------------------------------------
(* Properties.                                                             *)

\* What is told of work under way is so.  An executor's events lie in
\* HerdMaster's row (executors/socket.py:121-202), the result of a sandboxed job
\* in what its process did (agent_runtime/sandbox.py:206-303).  No step of a
\* workflow starts before those it depends on have succeeded, and a workflow
\* ends with one failed step, everything below it skipped, and nothing else
\* lost (orchestration_engine.py:142-200).  The indexes of the websocket manager
\* hold the same open connections (websocket/manager.py:30-113).  And each
\* variable has its type.
WorkTells == /\ Socket!EventsTell /\ Sand!ReportIsTrue /\ Flow!StepsFollowPlan /\ Ws!IndexesAgree
             /\ Socket!TypeOK /\ Flow!TypeOK /\ Sand!TypeOK /\ Ws!TypeOK /\ Roster!TypeOK

UnderWay ==
    \/ focus = "socket" /\ Socket!UnderWay
    \/ focus = "workflow" /\ Flow!UnderWay
    \/ focus = "sandbox" /\ Sand!UnderWay
    \/ focus = "websocket" /\ \E c \in Pushes : Ws!UnderWay(c)
    \/ focus = "roster" /\ (Roster!Ghost \/ Roster!Missing)

\* Dispatches, workflows, pushes and the sandboxed jobs that can end all return
\* (executors/socket.py:166-202, orchestration_engine.py:142-261,
\* agent_runtime/sandbox.py:250-303, websocket/manager.py:85-113); and once
\* panes and clients are at rest, a row without a pane goes in the end and a
\* pane without a row gets one (webhook_server.py:12-18).
EveryCallEnds == UnderWay ~> ~UnderWay
=============================================================================
