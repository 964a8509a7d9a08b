------------------------------ MODULE Watchdog ------------------------------
(***************************************************************************)
(* The health watchdog of HerdMaster: WatchdogEngine (watchdog/engine.py)  *)
(* and RecoveryManager (watchdog/recovery.py) over the rows of AgentRepo.  *)
(*                                                                         *)
(* One asyncio process.  Only calls of the Herdr adapter suspend, so the   *)
(* poll loop, the listener of primary events and the recovery tasks        *)
(* interleave at those calls.  A poll works with the time at which it      *)
(* started: pollAge is how old that is.  The output hash is abstracted to  *)
(* whether the output has changed since it was last read.                  *)
(***************************************************************************)
EXTENDS Naturals, Sequences, SequencesExt

CONSTANTS
    Monitored, Nothing,
    Allowed,       \* agents of agent_allowlist, all of them when it is empty
    Soft, Hard,    \* soft_timeout_s, hard_timeout_s, in ticks
    MaxPoll,       \* bound on the ticks that one poll takes
    MaxRetries,    \* max_retries
    CanRespawn,    \* whether a command resolver and a task replayer are injected
    SharedManager, \* whether a recovery_manager (that leaves rows alone) is injected
    MaxRequests,   \* bound on the calls of POST /agents/<id>/restart
    MaxCrashes     \* bound on restarts of the process

Healths == {"healthy", "suspect", "unhealthy", "recovering"}

ASSUME WatchdogAssumption ==
    /\ Nothing \notin Monitored /\ Nothing \notin Healths
    /\ Allowed \subseteq Monitored
    /\ Soft \in Nat \ {0} /\ Hard \in Nat /\ Soft < Hard
    /\ MaxPoll \in Nat /\ MaxRetries \in Nat \ {0} /\ MaxCrashes \in Nat /\ MaxRequests \in Nat
    /\ {CanRespawn, SharedManager} \subseteq BOOLEAN

VARIABLES
    mon,     \* _Monitor of each agent, with its row and its recovery tasks
    herdr,   \* state that Herdr gives each agent
    unread,  \* whether the agent's output differs from what was last hashed
    hung,    \* whether the agent's process makes no progress
    poll,    \* where poll_once is
    pollAge, \* ticks since poll_once read the clock
    listed,  \* the answer of agent_list
    todo,    \* agents that the poll has not gone through
    reader,  \* agent whose output is being read
    events,  \* primary events that have not been handled
    failures,\* _failures of the shared recovery manager
    streak,  \* history: failed recoveries in a row, at most MaxRetries counted
    alerted, \* history: whether an alert was emitted in that row
    requests,
    crashes
watchVars == <<mon, herdr, unread, hung, poll, pollAge, listed, todo, reader, events, failures, streak, alerted, requests, crashes>>
world == <<herdr, unread, hung>>
polling == <<poll, pollAge, listed, todo, reader>>
book == <<failures, streak, alerted, requests>>

Resting == {"idle"}
HerdrStates == {"working", "idle"}
Recoveries == {"start", "interrupting", "respawning", "replaying"}
MaxAge == Hard + MaxPoll

\* A monitor that does not exist yet, and no row of the agent.
NoMonitor == [known |-> FALSE, state |-> "unknown", health |-> "healthy", hashed |-> FALSE,
              age |-> 0, rec |-> <<>>, row |-> Nothing, rowHashed |-> FALSE]

WatchInit ==
    /\ mon = [a \in Monitored |-> NoMonitor]
    /\ herdr \in [Monitored -> HerdrStates]
    /\ unread = [a \in Monitored |-> TRUE]
    /\ hung = [a \in Monitored |-> FALSE]
    /\ poll = "idle" /\ pollAge = 0 /\ todo = {} /\ reader = Nothing
    /\ listed = [a \in Monitored |-> "idle"]
    /\ events = <<>>
    /\ failures = [a \in Monitored |-> 0]
    /\ streak = [a \in Monitored |-> 0]
    /\ alerted = [a \in Monitored |-> FALSE]
    /\ requests = 0 /\ crashes = 0

-----------------------------------------------------------------------------
(* What the engine does to one monitor m.                                  *)

\* _transition: memory and row change together, and only on a change.
Transition(m, h) ==
    IF m.health = h THEN m
    ELSE [m EXCEPT !.health = h, !.row = IF @ = Nothing THEN Nothing ELSE h]

\* Mutant: the upsert writes the health of a new row over that of an old one.
Sync_Reset(a, m) == IF a \in Allowed THEN [m EXCEPT !.row = "healthy"] ELSE m
\* _sync_agent, _sync_primary_agent: an agent on the list gets a row.
Sync(a, m) == IF a \in Allowed /\ m.row = Nothing THEN [m EXCEPT !.row = "healthy"] ELSE m

\* _monitor: a monitor starts from the row, of which sync has set the state.
Known(m, st, lag) ==
    IF m.known THEN m
    ELSE IF m.row = Nothing THEN [m EXCEPT !.known = TRUE, !.age = lag]
    ELSE [m EXCEPT !.known = TRUE, !.age = lag, !.state = st, !.health = m.row, !.hashed = m.rowHashed]

Progress(m, lag) ==
    Transition([m EXCEPT !.age = lag, !.rowHashed = (@ \/ m.hashed) /\ m.row # Nothing], "healthy")

\* observe_agent with a state.
ObserveState(m, st, lag) ==
    LET k == Known(m, st, lag) IN
    IF st # k.state \/ st \in Resting THEN Progress([k EXCEPT !.state = st], lag) ELSE k

\* observe_agent with the output; new says whether its hash is.
ObserveOutput(m, new, lag) ==
    IF new \/ ~ m.hashed \/ m.state \in Resting THEN Progress([m EXCEPT !.hashed = TRUE], lag) ELSE m

\* Mutant: the task that is at work is not looked at.
BeginRecovery_Again(m) == [Transition(m, "recovering") EXCEPT !.rec = Append(@, "start")]
BeginRecovery(m) ==
    IF m.rec # <<>> THEN m ELSE [Transition(m, "recovering") EXCEPT !.rec = <<"start">>]

\* Mutant: an agent found unhealthy is left alone.
Evaluate_Once(m, lag) ==
    IF ~ m.known \/ m.health \in {"recovering", "unhealthy"} THEN m
    ELSE IF m.state \in Resting THEN Transition(m, "healthy")
    ELSE IF m.age >= Hard + lag THEN BeginRecovery(Transition(m, "unhealthy"))
    ELSE IF m.age >= Soft + lag /\ m.health = "healthy" THEN Transition(m, "suspect")
    ELSE m
\* _evaluate at a time that is lag ticks old.
Evaluate(m, lag) ==
    IF ~ m.known \/ m.health = "recovering" THEN m
    ELSE IF m.state \in Resting THEN Transition(m, "healthy")
    ELSE IF m.age >= Hard + lag THEN BeginRecovery(Transition(m, "unhealthy"))
    ELSE IF m.age >= Soft + lag /\ m.health = "healthy" THEN Transition(m, "suspect")
    ELSE m
EvaluateAll(ms, lag) == [a \in Monitored |-> Evaluate(ms[a], lag)]

-----------------------------------------------------------------------------
(* The agents, in Herdr.                                                   *)

Works(a) ==
    /\ ~ hung[a] /\ herdr[a] = "working"
    /\ unread' = [unread EXCEPT ![a] = TRUE]
    /\ UNCHANGED <<mon, herdr, hung, polling, events, book, crashes>>

\* A new status, with its event; the stream holds at most one.
Switches(a) ==
    /\ ~ hung[a] /\ events = <<>>
    /\ \E s \in HerdrStates \ {herdr[a]} :
         /\ herdr' = [herdr EXCEPT ![a] = s]
         /\ events' = <<[agent |-> a, state |-> s]>>
    /\ UNCHANGED <<mon, unread, hung, polling, book, crashes>>

\* The primary stream has broken and the event is lost.
EventLost ==
    /\ events # <<>>
    /\ events' = <<>>
    /\ UNCHANGED <<mon, world, polling, book, crashes>>

Hangs(a) ==
    /\ ~ hung[a] /\ herdr[a] = "working"
    /\ hung' = [hung EXCEPT ![a] = TRUE]
    /\ UNCHANGED <<mon, herdr, unread, polling, events, book, crashes>>

Tick ==
    /\ poll # "idle" => pollAge < MaxPoll
    /\ pollAge' = IF poll = "idle" THEN pollAge ELSE pollAge + 1
    /\ mon' = [a \in Monitored |-> IF mon[a].known /\ mon[a].age < MaxAge THEN [mon[a] EXCEPT !.age = @ + 1] ELSE mon[a]]
    /\ UNCHANGED <<world, poll, listed, todo, reader, events, book, crashes>>

-----------------------------------------------------------------------------
(* Primary events.                                                         *)

\* _handle_primary_event: sync, observe, evaluate every monitor.
HandleEvent ==
    /\ events # <<>>
    /\ LET e == Head(events) IN
       mon' = EvaluateAll([mon EXCEPT ![e.agent] = ObserveState(Sync(e.agent, @), e.state, 0)], 0)
    /\ events' = Tail(events)
    /\ UNCHANGED <<world, polling, book, crashes>>

-----------------------------------------------------------------------------
(* poll_once.                                                              *)

PollStarts ==
    /\ poll = "idle"
    /\ poll' = "listing" /\ pollAge' = 0
    /\ UNCHANGED <<mon, world, listed, todo, reader, events, book, crashes>>

\* Herdr answers; what it says may be old when the poll goes on.
HerdrLists ==
    /\ poll = "listing"
    /\ poll' = "agents" /\ listed' = herdr /\ todo' = Monitored
    /\ UNCHANGED <<mon, world, pollAge, reader, events, book, crashes>>

\* HerdrError: only the clocks are looked at.
ListFails ==
    /\ poll = "listing"
    /\ poll' = "idle" /\ pollAge' = 0
    /\ mon' = EvaluateAll(mon, pollAge)
    /\ UNCHANGED <<world, listed, todo, reader, events, book, crashes>>

\* The loop goes on after agent a, or evaluates and ends.
After(a, ms) ==
    /\ todo' = todo \ {a} /\ reader' = Nothing
    /\ IF todo = {a}
       THEN poll' = "idle" /\ pollAge' = 0 /\ mon' = EvaluateAll(ms, pollAge)
       ELSE poll' = "agents" /\ mon' = ms /\ UNCHANGED pollAge

\* An agent of the list is observed; its output is read the first time, and
\* when the interval has passed.
PollAgent(a) ==
    /\ poll = "agents" /\ a \in todo
    /\ LET ms == [mon EXCEPT ![a] = ObserveState(Sync(a, @), listed[a], pollAge)] IN
       \/ ms[a].hashed /\ After(a, ms)
       \/ poll' = "reading" /\ reader' = a /\ mon' = ms /\ UNCHANGED <<todo, pollAge>>
    /\ UNCHANGED <<world, listed, events, book, crashes>>

ReadReturns ==
    /\ poll = "reading"
    /\ After(reader, [mon EXCEPT ![reader] = ObserveOutput(@, unread[reader], pollAge)])
    /\ unread' = [unread EXCEPT ![reader] = FALSE]
    /\ UNCHANGED <<herdr, hung, listed, events, book, crashes>>

ReadFails ==
    /\ poll = "reading"
    /\ After(reader, mon)
    /\ UNCHANGED <<world, listed, events, book, crashes>>

PollSteps ==
    PollStarts \/ HerdrLists \/ ListFails \/ (\E a \in Monitored : PollAgent(a)) \/ ReadReturns \/ ReadFails

-----------------------------------------------------------------------------
(* Recovery: _recover and RecoveryManager.recover.                         *)

AtPhase(a, i, p) == i \in DOMAIN mon[a].rec /\ mon[a].rec[i] = p
Move(a, i, p) == mon' = [mon EXCEPT ![a].rec[i] = p]

\* The task's first step sends Ctrl-C: the process stops hanging and rests.
Interrupt(a, i) ==
    /\ CanRespawn /\ AtPhase(a, i, "start")
    /\ Move(a, i, "interrupting")
    /\ hung' = [hung EXCEPT ![a] = FALSE]
    /\ herdr' = [herdr EXCEPT ![a] = "idle"]
    /\ unread' = [unread EXCEPT ![a] = TRUE]
    /\ UNCHANGED <<polling, events, book, crashes>>

Respawn(a, i) ==
    /\ AtPhase(a, i, "interrupting")
    /\ Move(a, i, "respawning")
    /\ UNCHANGED <<world, polling, events, book, crashes>>

\* The agent waits for a prompt; the last task's goes in again.
Replay(a, i) ==
    /\ AtPhase(a, i, "respawning")
    /\ Move(a, i, "replaying")
    /\ herdr' = [herdr EXCEPT ![a] = "working"]
    /\ unread' = [unread EXCEPT ![a] = TRUE]
    /\ UNCHANGED <<hung, polling, events, book, crashes>>

\* _recover ends: the clock restarts and the health is set.
\* Mutant: a recovery that failed leaves the agent as recovering.
Ended_Stuck(m, i, h) ==
    LET e == [m EXCEPT !.rec = RemoveAt(@, i), !.age = 0] IN
    IF h = "unhealthy" THEN e ELSE Transition(e, h)
Ended(m, i, h) == Transition([m EXCEPT !.rec = RemoveAt(@, i), !.age = 0], h)

RecoverySucceeds(a, i) ==
    /\ AtPhase(a, i, "replaying")
    /\ mon' = [mon EXCEPT ![a] = Ended(@, i, "healthy")]
    /\ failures' = [failures EXCEPT ![a] = 0]
    /\ streak' = [streak EXCEPT ![a] = 0]
    /\ alerted' = [alerted EXCEPT ![a] = FALSE]
    /\ UNCHANGED <<world, polling, events, requests, crashes>>

\* Failures that the manager has counted, with this one: a manager made for
\* one recovery starts from none.
\* Mutant: the count starts anew with each recovery.
Counted_Anew(a) == 1
Counted(a) == IF SharedManager THEN failures[a] + 1 ELSE 1

\* No pane, no command, or an adapter call or the replay raised.
RecoveryFails(a, i) ==
    /\ i \in DOMAIN mon[a].rec
    /\ mon[a].rec[i] = "start" => ~ CanRespawn
    /\ mon' = [mon EXCEPT ![a] = Ended(@, i, "unhealthy")]
    /\ failures' = [failures EXCEPT ![a] = IF Counted(a) < MaxRetries THEN Counted(a) ELSE MaxRetries]
    /\ streak' = [streak EXCEPT ![a] = IF @ < MaxRetries THEN @ + 1 ELSE @]
    /\ alerted' = [alerted EXCEPT ![a] = @ \/ Counted(a) >= MaxRetries]
    /\ UNCHANGED <<world, polling, events, requests, crashes>>

RecoverySteps(a) ==
    \E i \in DOMAIN mon[a].rec :
        Interrupt(a, i) \/ Respawn(a, i) \/ Replay(a, i) \/ RecoverySucceeds(a, i) \/ RecoveryFails(a, i)

-----------------------------------------------------------------------------
(* The API and the process.                                                *)

\* POST /agents/<id>/restart without a hook: the row only; its alert has no
\* reader in this process.
ApiRestart(a) ==
    /\ requests < MaxRequests /\ mon[a].row # Nothing
    /\ requests' = requests + 1
    /\ mon' = [mon EXCEPT ![a].row = "recovering"]
    /\ UNCHANGED <<world, polling, events, failures, streak, alerted, crashes>>

\* The process stops and starts: rows and hashes stay.
Crash ==
    /\ crashes < MaxCrashes
    /\ crashes' = crashes + 1
    /\ mon' = [a \in Monitored |-> [NoMonitor EXCEPT !.row = mon[a].row, !.rowHashed = mon[a].rowHashed]]
    /\ poll' = "idle" /\ pollAge' = 0 /\ todo' = {} /\ reader' = Nothing
    /\ events' = <<>>
    /\ failures' = [a \in Monitored |-> 0]
    /\ streak' = [a \in Monitored |-> 0]
    /\ alerted' = [a \in Monitored |-> FALSE]
    /\ UNCHANGED <<world, listed, requests>>

WatchNext ==
    \/ \E a \in Monitored : Works(a) \/ Switches(a) \/ Hangs(a) \/ RecoverySteps(a) \/ ApiRestart(a)
    \/ EventLost \/ Tick \/ HandleEvent \/ PollSteps \/ Crash

WatchSpec == WatchInit /\ [][WatchNext]_watchVars

\* Time passes, adapter calls return or time out, and tasks of the loop run;
\* Herdr answers again and again.
WatchFairSpec ==
    WatchSpec /\ WF_watchVars(Tick) /\ WF_watchVars(PollSteps) /\ SF_watchVars(HerdrLists) /\ \A a \in Monitored : WF_watchVars(RecoverySteps(a))

-----------------------------------------------------------------------------
(* Properties.                                                             *)

\* Every variable has its type; only agents of the list have a row.
WatchTypeOK ==
    /\ \A a \in Monitored :
         /\ mon[a].health \in Healths /\ mon[a].row \in Healths \cup {Nothing}
         /\ mon[a].state \in HerdrStates \cup {"unknown"} /\ mon[a].age \in 0 .. MaxAge
         /\ ToSet(mon[a].rec) \subseteq Recoveries
         /\ mon[a].row # Nothing => a \in Allowed
    /\ pollAge \in 0 .. MaxPoll /\ todo \subseteq Monitored
    /\ failures \in [Monitored -> 0 .. MaxRetries]

\* An agent has at most one recovery at work, though its health may leave and
\* enter "recovering" while it runs.
OneRecovery == \A a \in Monitored : Len(mon[a].rec) <= 1

\* What is recorded of an agent's health is real: as long as the API has not
\* written it, the row says what the monitor says, in every life of the process,
\* and until a restart or the API leaves "recovering" in the row, an agent that
\* is recovering has a recovery at work, which will end (watchdog/engine.py:403, 514).
HealthIsReal ==
    \A a \in Monitored :
        /\ requests = 0 /\ mon[a].known /\ mon[a].row # Nothing => mon[a].row = mon[a].health
        /\ crashes + requests = 0 /\ mon[a].health = "recovering" => mon[a].rec # <<>>

\* max_retries failed recoveries in a row have raised an alert
\* (TECHNICAL_DESIGN.md:217).
AlertAfterRetries == \A a \in Monitored : streak[a] >= MaxRetries => alerted[a]

\* An agent that hangs is taken into recovery (TECHNICAL_DESIGN.md:205), and
\* again as long as it hangs, until a restart or the API interferes.
HungIsRecovered ==
    \A a \in Monitored : hung[a] ~> ~ hung[a] \/ mon[a].rec # <<>> \/ crashes + requests > 0
=============================================================================
