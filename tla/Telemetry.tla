------------------------------ MODULE Telemetry -----------------------------
(* The task board of HerdMaster: the routes that agents report by           *)
(* (api/server.py:421-471), the trail of what they report                   *)
(* (db/repositories.py:535-600), and the board that reconciles tasks with   *)
(* agents and raises alerts (telemetry.py).  A route and a board run in one *)
(* step of the event loop, every statement in a transaction of its own.     *)
EXTENDS Naturals, SequencesExt, FiniteSetsExt

CONSTANTS
    Tasks,      \* in the order of the list: priority, age, id
    Agents,     \* ids that agents may have, in their order
    Sender,     \* "ottl-reconciler", the sender of the alerts
    None,
    Prompts,    \* prompt files of the daemon, by the task they are named after
    Subtasks,
    MaxActs,    \* bound: calls that change a task
    MaxMoves,   \* bound: changes of the agents and of time
    MaxBoards   \* bound: boards asked for

VARIABLES
    task,       \* the tasks table, and whether updated_at is beyond the grace
    agent,      \* the agents table: state and age of the last heartbeat
    alerts,     \* task_alerts: type, task and agent -> number of rows
    sent,       \* messages that announce alerts, by what they say
    board,      \* the last answer of GET /observability/board
    audit,      \* task_audit_log: task -> events
    ledger,     \* lines of the ledger file: task -> events
    acts,       \* history: events of each task, with who reported them
    failures,   \* history: boards that failed
    moves, boards

telemetryVars == <<task, agent, alerts, sent, board, audit, ledger, acts, failures, moves, boards>>

TaskIds == Range(Tasks)
AgentIds == Range(Agents)
Gone == [state |-> "gone", beat |-> "none"]
Registered(a) == agent[a] # Gone
NoTask == [state |-> "none", agent |-> None, late |-> FALSE, evidence |-> FALSE,
           subtasks |-> {}, done |-> {}]
Exists(t) == task[t] # NoTask

(* ---- Progress of a task -------------------------------------------------- *)
\* round: to the nearest whole number, a half to the even one.
Rounded(n, d) ==
    LET up == 2 * (n % d) > d \/ (2 * (n % d) = d /\ (n \div d) % 2 = 1)
    IN n \div d + IF up THEN 1 ELSE 0
Percent(t) ==
    IF task[t].subtasks = {} THEN IF task[t].state = "done" THEN 100 ELSE 0
    ELSE Rounded(100 * Cardinality(task[t].subtasks \cap task[t].done), Cardinality(task[t].subtasks))

(* ---- What a board finds, in its order ------------------------------------ *)
Found(type, t, a) == <<type, t, a>>
When(condition, found) == IF condition THEN <<found>> ELSE <<>>
Stalled(a) == agent[a].state \in {"idle", "done", "unknown"} \/ agent[a].beat = "stale"
OfTask(t) ==
    LET r == task[t] IN
      When(r.state = "assigned" /\ r.agent # None /\ r.late, Found("AGENT_NO_CHECKIN", t, r.agent))
        \o When(r.state = "in_progress" /\ r.agent # None /\ Stalled(r.agent), Found("STALLED", t, r.agent))
        \o When(r.state = "done" /\ ~r.evidence, Found("INVALID_COMPLETION", t, r.agent))
OfAgent(a) ==
    When(/\ agent[a].state = "working"
         /\ \A t \in TaskIds : task[t].agent = a => task[t].state # "in_progress",
         Found("UNTRACKED_WORK", None, a))
Orphan(p) == When(p \notin TaskIds \/ ~Exists(p), Found("TL_NO_DISPATCH", None, None))
Reconciled == FlattenSeq([n \in DOMAIN Tasks |-> OfTask(Tasks[n])])
              \o FlattenSeq([n \in DOMAIN Agents |-> OfAgent(Agents[n])])
              \o FlattenSeq([n \in DOMAIN Prompts |-> Orphan(Prompts[n])])

(* ---- Alerts ---------------------------------------------------------------- *)
Add(bag, k, n) == (k :> ((IF k \in DOMAIN bag THEN bag[k] ELSE 0) + n)) @@ bag

\* INSERT .. ON CONFLICT (task_id, agent_id, alert_type): a row with a NULL in
\* it conflicts with none.
Upsert(bag, k) ==
    IF k \in DOMAIN bag /\ k[2] # None /\ k[3] # None THEN bag ELSE Add(bag, k, 1)

\* Each alert is saved and then announced by a message from the reconciler,
\* which only a registered agent can be the sender of.
Raise_MessageFirst(found) ==
    LET upTo == IF Registered(Sender) THEN found ELSE <<>> IN
      /\ alerts' = FoldSeq(LAMBDA k, bag : Upsert(bag, k), alerts, upTo)
      /\ sent' = IF Registered(Sender) THEN FoldSeq(LAMBDA k, bag : Add(bag, k, 1), sent, found) ELSE sent
Raise(found) ==
    LET upTo == IF Registered(Sender) \/ found = <<>> THEN found ELSE <<found[1]>> IN
      /\ alerts' = FoldSeq(LAMBDA k, bag : Upsert(bag, k), alerts, upTo)
      /\ sent' = IF Registered(Sender) THEN FoldSeq(LAMBDA k, bag : Add(bag, k, 1), sent, found) ELSE sent

Flags(rows, t) == {k[1] : k \in {l \in rows : l[2] = t /\ l[3] \in {task[t].agent, None}}}
AgentFlags(rows, a) ==
    {k[1] : k \in {l \in rows : l[2] = None /\ l[3] = a}}
      \cup UNION {Flags(rows, t) : t \in {u \in TaskIds : task[u].agent = a}}
NoBoard == [status |-> 0]

\* GET /observability/board: reconcile, then the rows of all alerts so far.
Board ==
    /\ boards < MaxBoards /\ boards' = boards + 1
    /\ Raise(Reconciled)
    /\ LET fails == Reconciled # <<>> /\ ~Registered(Sender) IN
         /\ failures' = failures + IF fails THEN 1 ELSE 0
         /\ board' = IF fails THEN [status |-> 500]
                     ELSE [status |-> 200, found |-> Range(Reconciled), on |-> [t \in TaskIds |-> task[t].agent],
                           tasks |-> [t \in TaskIds |-> Flags(DOMAIN alerts', t)],
                           agents |-> [a \in AgentIds |-> AgentFlags(DOMAIN alerts', a)]]
    /\ UNCHANGED <<task, agent, audit, ledger, acts, moves>>

(* ---- The trail of a task -------------------------------------------------- *)
Known(a) == a = None \/ Registered(a)

\* The row, then the line of the ledger; either may fail and nobody is told.
Mirror(t, event) ==
    \E written \in BOOLEAN : ledger' = IF written THEN [ledger EXCEPT ![t] = Append(@, event)] ELSE ledger
WriteAudit_LedgerFirst(t, event, a) ==
    /\ Mirror(t, event)
    /\ audit' = IF Known(a) THEN [audit EXCEPT ![t] = Append(@, event)] ELSE audit
WriteAudit(t, event, a) ==
    IF Known(a)
    THEN audit' = [audit EXCEPT ![t] = Append(@, event)] /\ Mirror(t, event)
    ELSE UNCHANGED <<audit, ledger>>

Act(t, row, event, a) ==
    /\ FoldFunction(LAMBDA s, n : n + Len(s), 0, acts) < MaxActs
    /\ task' = [task EXCEPT ![t] = row]
    /\ acts' = [acts EXCEPT ![t] = Append(@, [event |-> event, by |-> a, known |-> Known(a)])]
    /\ WriteAudit(t, event, a)
    /\ UNCHANGED <<agent, alerts, sent, board, failures, moves, boards>>

Create(t, S) ==
    /\ ~Exists(t)
    /\ Act(t, [NoTask EXCEPT !.state = "queued", !.subtasks = S], "created", None)

\* Check-in, complete, fail and progress write their columns whatever the state;
\* only completed_by has to name an agent.
Checkin(t, a) == Exists(t) /\ Act(t, [task[t] EXCEPT !.state = "in_progress", !.late = FALSE], "checkin", a)
Complete(t, a, evidence) ==
    /\ Exists(t) /\ Registered(a)
    /\ Act(t, [task[t] EXCEPT !.state = "done", !.evidence = evidence, !.late = FALSE], "checkout", a)
Fail(t, a) == Exists(t) /\ Act(t, [task[t] EXCEPT !.state = "failed", !.late = FALSE], "failed", a)
ProgressSubtask(t, s, done, a) ==
    /\ Exists(t)
    /\ Act(t, [task[t] EXCEPT !.subtasks = @ \cup {s}, !.late = FALSE,
                              !.done = IF done THEN @ \cup {s} ELSE @ \ {s}], "progress", a)

(* ---- Agents and time ------------------------------------------------------- *)
Move == /\ moves < MaxMoves /\ moves' = moves + 1
        /\ UNCHANGED <<sent, board, audit, ledger, acts, failures, boards>>

\* The dispatcher's claim leaves no event.
Claim(t, a) ==
    /\ Exists(t) /\ task[t].state = "queued" /\ Registered(a)
    /\ task' = [task EXCEPT ![t].state = "assigned", ![t].agent = a, ![t].late = FALSE]
    /\ Move /\ UNCHANGED <<agent, alerts>>

RegisterAgent(a) == /\ agent' = [agent EXCEPT ![a].state = "unknown"]
                    /\ Move /\ UNCHANGED <<task, alerts>>
Heartbeat(a) == /\ Registered(a) /\ agent' = [agent EXCEPT ![a].state = "working", ![a].beat = "fresh"]
                /\ Move /\ UNCHANGED <<task, alerts>>

\* The rows that name a deleted agent stay, with a NULL in its place.
Unnamed(k, a) == IF k[3] = a THEN <<k[1], k[2], None>> ELSE k
DeleteAgent(a) ==
    /\ Registered(a)
    /\ agent' = [agent EXCEPT ![a] = Gone]
    /\ task' = [t \in TaskIds |-> IF task[t].agent = a THEN [task[t] EXCEPT !.agent = None] ELSE task[t]]
    /\ alerts' = FoldSet(LAMBDA k, bag : Add(bag, Unnamed(k, a), alerts[k]), <<>>, DOMAIN alerts)
    /\ Move

\* Ten minutes without an update, fifteen without a heartbeat.
TimePasses ==
    /\ task' = [t \in TaskIds |-> IF Exists(t) THEN [task[t] EXCEPT !.late = TRUE] ELSE task[t]]
    /\ agent' = [a \in AgentIds |-> IF agent[a].beat = "fresh" THEN [agent[a] EXCEPT !.beat = "stale"] ELSE agent[a]]
    /\ Move /\ UNCHANGED alerts

Init ==
    /\ task = [t \in TaskIds |-> NoTask]
    /\ agent = [a \in AgentIds |-> Gone]
    /\ alerts = <<>> /\ sent = <<>>
    /\ board = NoBoard
    /\ audit = [t \in TaskIds |-> <<>>] /\ ledger = audit /\ acts = audit
    /\ failures = 0 /\ moves = 0 /\ boards = 0

Next ==
    \/ Board
    \/ \E t \in TaskIds : \E S \in {{}, Subtasks} : Create(t, S)
    \/ \E t \in TaskIds, a \in AgentIds :
         \/ Checkin(t, a) \/ Fail(t, a) \/ Claim(t, a)
         \/ \E evidence \in BOOLEAN : Complete(t, a, evidence)
         \/ \E s \in Subtasks \cup {"new"}, done \in BOOLEAN : ProgressSubtask(t, s, done, a)
    \/ \E a \in AgentIds : RegisterAgent(a) \/ Heartbeat(a) \/ DeleteAgent(a)
    \/ TimePasses

Spec == Init /\ [][Next]_telemetryVars

TypeOK ==
    /\ \A t \in TaskIds : task[t].agent = None \/ Registered(task[t].agent)
    /\ \A t \in TaskIds : Percent(t) \in 0 .. 100
    /\ \A k \in DOMAIN alerts : alerts[k] > 0 /\ (k[3] = None \/ Registered(k[3]))
    /\ failures <= boards

(* A board that answers flags whatever it found on its task and on its      *)
(* agent, and it answers unless it found something while its sender is no   *)
(* agent (telemetry.py:71-130, 174-195; schema.py:138).                     *)
BoardTells ==
    board.status = 200 =>
        \A k \in board.found :
            /\ k[2] # None => k[1] \in board.tasks[k[2]] /\ board.on[k[2]] = k[3]
            /\ k[3] # None => k[1] \in board.agents[k[3]]

(* What is raised is saved before it is announced: of every failed board    *)
(* one alert is saved and nobody was told; one that names task and agent    *)
(* has one row however often it is raised (repositories.py:489-512).        *)
Total(bag) == FoldSet(LAMBDA k, n : n + bag[k], 0, DOMAIN bag)
AlertsKept ==
    /\ \A k \in DOMAIN sent : \E l \in DOMAIN alerts : l[1] = k[1] /\ l[2] = k[2]
    /\ \A k \in DOMAIN alerts : k[2] # None /\ k[3] # None => alerts[k] = 1
    /\ Total(alerts) <= Total(sent) + failures
    /\ failures > 0 => alerts # <<>>

(* The trail of a task holds what was reported of it by registered agents,  *)
(* in order, the ledger no more than that; what an unregistered agent       *)
(* reports changes the task and leaves no trace (repositories.py:535-548).  *)
TrailKept ==
    \A t \in TaskIds :
        LET known == SelectSeq(acts[t], LAMBDA x : x.known) IN
          /\ audit[t] = [n \in DOMAIN known |-> known[n].event]
          /\ Len(ledger[t]) <= Len(audit[t])
          /\ Range(ledger[t]) \subseteq Range(audit[t])
=============================================================================
