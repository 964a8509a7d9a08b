------------------------------ MODULE Dispatch ------------------------------
(***************************************************************************)
(* HerdMaster's dispatch core: the tasks table, TaskQueue, the injector,   *)
(* the dispatch loop of the control plane, the planner's own dispatches    *)
(* and the task routes of the control API, all sharing one database        *)
(* connection and one asyncio event loop.                                  *)
(*                                                                         *)
(* A coroutine runs without interruption from one await to the next, so an *)
(* action of a dispatcher is one such run; everything else may happen      *)
(* between two of them.  The panes are Herdr's: each has an input line and *)
(* an agent that works on the lines it was given.                          *)
(***************************************************************************)
EXTENDS Naturals, FiniteSets

CONSTANTS
    Tasks, Agents, Nobody,
    Planners,        \* concurrent calls of _inject_and_read_analysis
    Orchestrator,    \* the agent they dispatch to
    DependsOn,       \* [Tasks -> SUBSET Tasks], column depends_on
    TaskRank,        \* order of (priority, created_at, id)
    AgentRank,       \* order of agents.id
    Stored,          \* agents with a herdr_pane in their row
    Listed,          \* agents that `herdr agent list` reports
    LongPrompts,     \* tasks above file_fallback_threshold_chars
    HugePrompts,     \* tasks above MAX_PROMPT_BYTES
    MaxRetries,      \* tasks.max_retries
    RetryAttempts,   \* DispatchInjectorConfig.retry_attempts
    ApiOps,          \* [Tasks -> SUBSET Ops], the API calls that a run allows
    RowsChange,      \* whether agent rows are written meanwhile
    SendFails,       \* whether pane_send and agent_list may fail
    MaxCrashes,      \* bound on restarts of the control plane
    MaxVersion       \* bound on reassign and PATCH

States == {"queued", "assigned", "dispatched", "in_progress", "blocked",
           "done", "failed", "timeout", "cancelled"}
Terminal == {"done", "failed", "timeout", "cancelled"}
Ops == {"cancel", "checkin", "complete", "fail", "ask", "reassign", "patch"}

ASSUME DispatchAssumption ==
    /\ Nobody \notin Agents
    /\ Tasks # {}
    /\ "loop" \notin Planners
    /\ Orchestrator \in Agents
    /\ DependsOn \in [Tasks -> SUBSET Tasks]
    /\ TaskRank \in [Tasks -> Nat]
    /\ AgentRank \in [Agents -> Nat]
    /\ Stored \subseteq Agents
    /\ Listed \subseteq Agents
    /\ LongPrompts \subseteq Tasks
    /\ HugePrompts \subseteq LongPrompts
    /\ MaxRetries \in Nat
    /\ RetryAttempts \in Nat \ {0}
    /\ ApiOps \in [Tasks -> SUBSET Ops]
    /\ RowsChange \in BOOLEAN /\ SendFails \in BOOLEAN
    /\ MaxCrashes \in Nat
    /\ MaxVersion \in Nat

VARIABLES
    task,      \* the tasks table
    avail,     \* agents whose row passes the loop's health and state test
    todo,      \* the loop's snapshot of agents, those not visited yet
    co,        \* the dispatchers: the loop and the planners
    typed,     \* per pane, the tasks with text in the input line
    got,       \* per pane, the tasks whose prompt was submitted
    busy,      \* panes whose agent is working
    crashes
vars == <<task, avail, todo, co, typed, got, busy, crashes>>

Loop == "loop"
Dispatchers == {Loop} \cup Planners
Row == [state : States \cup {"absent"}, agent : Agents \cup {Nobody},
        retry : Nat, version : Nat]
\* A dispatcher's await, and the task dict it was called with.
Points == {"rest", "resolve", "wait", "text", "enter", "clear", "file_text",
           "file_enter", "backoff_resolve", "backoff_send", "backoff_idle"}
Frame == [at : Points, task : Tasks, agent : Agents, ver : Nat, attempt : Nat]
AtRest == [at |-> "rest", task |-> CHOOSE t \in Tasks : TRUE, agent |-> Orchestrator,
           ver |-> 0, attempt |-> 0]
Active(c) == co[c].at # "rest"
Holds(c, t) == Active(c) /\ co[c].task = t

DependenciesDone(t) == \A d \in DependsOn[t] : task[d].state = "done"
\* Mutants: list_ready without its dependency check, and without its state filter.
Ready_NoDependencies(t) == task[t].state = "queued"
Ready_AnyOpenState(t) == task[t].state \in {"queued", "assigned"} /\ DependenciesDone(t)
Ready(t) == task[t].state = "queued" /\ DependenciesDone(t)
ReadyTasks == {t \in Tasks : Ready(t)}

Init ==
    /\ task = [t \in Tasks |-> [state |-> "absent", agent |-> Nobody, retry |-> 0, version |-> 0]]
    /\ avail = Agents
    /\ todo = {}
    /\ co = [c \in Dispatchers |-> AtRest]
    /\ typed = [a \in Agents |-> {}]
    /\ got = [a \in Agents |-> {}]
    /\ busy = {}
    /\ crashes = 0

-----------------------------------------------------------------------------
(* TaskQueue and TaskRepo.                                                 *)

SetState(t, s) == [task EXCEPT ![t].state = s]

\* POST /tasks: a queued row of version 1.
Enqueue(t) ==
    /\ task[t].state = "absent"
    /\ task' = [task EXCEPT ![t] = [state |-> "queued", agent |-> Nobody, retry |-> 0, version |-> 1]]
    /\ UNCHANGED <<avail, todo, co, typed, got, busy, crashes>>

\* Mutants: the claim does not bump the version, and marks the task started.
Claimed_NoBump(t, a) == [task EXCEPT ![t].state = "assigned", ![t].agent = a]
Claimed_Started(t, a) == [task EXCEPT ![t].state = "in_progress", ![t].agent = a, ![t].version = @ + 1]
\* The row after `claim`, and the dict that get() returns to the claimant.
Claimed(t, a) == [task EXCEPT ![t] = [state |-> "assigned", agent |-> a,
                                      retry |-> @.retry, version |-> @.version + 1]]

\* _requeue_for_later and the second half of reassign are the same UPDATE.
Requeued(t) == [task EXCEPT ![t] = [state |-> "queued", agent |-> Nobody,
                                    retry |-> @.retry + 1, version |-> @.version + 1]]

\* Mutant: guarded like TaskQueue.mark_failed, which wants a started task.
MarkFailedFromCurrentState_OnlyStarted(t) ==
    IF task[t].state = "in_progress" THEN SetState(t, "failed") ELSE task
\* _mark_failed_from_current_state: every state but a terminal one.
MarkFailedFromCurrentState(t) ==
    IF task[t].state \in Terminal THEN task ELSE SetState(t, "failed")

-----------------------------------------------------------------------------
(* Control flow of a dispatcher.                                           *)

Goto(c, p) == co' = [co EXCEPT ![c].at = p]

\* dispatch() returns: the loop goes on to its next agent, a planner polls.
Return(c) == co' = [co EXCEPT ![c] = AtRest] /\ UNCHANGED todo

\* dispatch() raises: the loop logs it and drops the rest of its pass.
Raise(c) ==
    /\ co' = [co EXCEPT ![c] = AtRest]
    /\ todo' = IF c = Loop THEN {} ELSE todo

\* claim_next or claim, then dispatch() up to its first await: a stored pane
\* is used without suspending, any other needs `herdr agent list`.
EnterDispatch(c, t, a) ==
    co' = [co EXCEPT ![c] = [at |-> IF a \in Stored THEN "wait" ELSE "resolve", task |-> t,
                             agent |-> a, ver |-> task'[t].version, attempt |-> 1]]

\* A pass of the dispatch loop starts from a snapshot of the agents table.
SnapshotAgents ==
    /\ ~ Active(Loop) /\ todo = {}
    /\ avail # {} /\ ReadyTasks # {}
    /\ todo' = avail
    /\ UNCHANGED <<task, avail, co, typed, got, busy, crashes>>

\* The next agent of the snapshot claims the first ready task.
ClaimNext ==
    /\ ~ Active(Loop)
    /\ \E a \in todo :
        /\ \A b \in todo : AgentRank[a] <= AgentRank[b]
        /\ todo' = todo \ {a}
        /\ \/ /\ ReadyTasks = {}
              /\ UNCHANGED <<task, co>>
           \/ \E t \in ReadyTasks :
                /\ \A u \in ReadyTasks : TaskRank[t] <= TaskRank[u]
                /\ task' = Claimed(t, a)
                /\ EnterDispatch(Loop, t, a)
    /\ UNCHANGED <<avail, typed, got, busy, crashes>>

\* _inject_and_read_analysis: enqueue a task, claim it and dispatch it.
PlannerDispatch(c, t) ==
    /\ c \in Planners /\ ~ Active(c)
    /\ task[t].state = "absent" /\ DependsOn[t] = {}
    /\ task' = [task EXCEPT ![t] = [state |-> "assigned", agent |-> Orchestrator,
                                    retry |-> 0, version |-> 2]]
    /\ EnterDispatch(c, t, Orchestrator)
    /\ UNCHANGED <<avail, todo, typed, got, busy, crashes>>

\* Mutant: the error of the last attempt is raised instead of recorded.
HerdrFailure_Raises(c, backoff) ==
    IF co[c].attempt >= RetryAttempts
    THEN Raise(c) /\ UNCHANGED task
    ELSE Goto(c, backoff) /\ UNCHANGED <<task, todo>>
\* A HerdrError that is not AgentNotIdle: the last attempt fails the task.
HerdrFailure(c, backoff) ==
    IF co[c].attempt >= RetryAttempts
    THEN task' = MarkFailedFromCurrentState(co[c].task) /\ Return(c)
    ELSE Goto(c, backoff) /\ UNCHANGED <<task, todo>>

Resolve(c) ==
    /\ co[c].at = "resolve"
    /\ \/ co[c].agent \in Listed /\ Goto(c, "wait") /\ UNCHANGED <<task, todo>>
       \/ (SendFails \/ co[c].agent \notin Listed) /\ HerdrFailure(c, "backoff_resolve")
    /\ UNCHANGED <<avail, typed, got, busy, crashes>>

\* Mutant: the idle gate is skipped.
WaitIdle_NoWait(c) ==
    /\ co[c].at = "wait"
    /\ Goto(c, IF co[c].task \in LongPrompts THEN "file_text" ELSE "text")
    /\ UNCHANGED <<task, avail, todo, typed, got, busy, crashes>>
\* agent_wait confirms idle, and _send_prompt starts: a long prompt goes to a
\* file first, which an oversized one refuses with DispatchError.
WaitIdle(c) ==
    /\ co[c].at = "wait"
    /\ co[c].agent \notin busy
    /\ IF co[c].task \in HugePrompts THEN Raise(c)
       ELSE /\ Goto(c, IF co[c].task \in LongPrompts THEN "file_text" ELSE "text")
            /\ UNCHANGED todo
    /\ UNCHANGED <<task, avail, typed, got, busy, crashes>>

\* Mutant: one retry too many.
AgentNotIdle_OffByOne(c) ==
    /\ co[c].at = "wait"
    /\ SendFails \/ co[c].agent \in busy
    /\ IF task[co[c].task].retry > MaxRetries
       THEN task' = MarkFailedFromCurrentState(co[c].task) /\ Return(c)
       ELSE Goto(c, "backoff_idle") /\ UNCHANGED <<task, todo>>
    /\ UNCHANGED <<avail, typed, got, busy, crashes>>
\* agent_wait times out (or fails): AgentNotIdle.
AgentNotIdle(c) ==
    /\ co[c].at = "wait"
    /\ SendFails \/ co[c].agent \in busy
    /\ IF task[co[c].task].retry >= MaxRetries
       THEN task' = MarkFailedFromCurrentState(co[c].task) /\ Return(c)
       ELSE Goto(c, "backoff_idle") /\ UNCHANGED <<task, todo>>
    /\ UNCHANGED <<avail, typed, got, busy, crashes>>

\* After the backoff the task goes back to the queue, whatever became of it.
RequeueForLater(c) ==
    /\ co[c].at = "backoff_idle"
    /\ task' = Requeued(co[c].task)
    /\ Return(c)
    /\ UNCHANGED <<avail, typed, got, busy, crashes>>

\* The next attempt; a pane once resolved is kept.
NextAttempt(c) ==
    /\ co[c].at \in {"backoff_resolve", "backoff_send"}
    /\ co' = [co EXCEPT ![c].at = IF @ = "backoff_send" THEN "wait" ELSE "resolve",
                        ![c].attempt = @ + 1]
    /\ UNCHANGED <<task, avail, todo, typed, got, busy, crashes>>

-----------------------------------------------------------------------------
(* Keystrokes.  A pane_send that fails may have reached the pane.          *)

Type(c) == typed' = [typed EXCEPT ![co[c].agent] = @ \cup {co[c].task}]

\* Enter: the agent gets the whole line and starts working; an empty line
\* changes nothing.
Submit(a) ==
    /\ got' = [got EXCEPT ![a] = @ \cup typed[a]]
    /\ typed' = [typed EXCEPT ![a] = {}]
    /\ busy' = IF typed[a] = {} THEN busy ELSE busy \cup {a}

\* Mutant: the task is marked in progress before the prompt is submitted.
SendText_MarksEarly(c) ==
    /\ co[c].at = "text"
    /\ Type(c) /\ Goto(c, "enter")
    /\ task' = [task EXCEPT ![co[c].task].state = "in_progress"]
    /\ UNCHANGED <<avail, todo, got, busy, crashes>>
\* The chunks of a short prompt, one after the other.
SendText(c) ==
    /\ co[c].at = "text"
    /\ \/ Type(c) /\ Goto(c, "enter")
       \/ SendFails /\ (Type(c) \/ UNCHANGED typed) /\ Goto(c, "clear")
    /\ UNCHANGED <<task, avail, todo, got, busy, crashes>>

\* Ctrl-U, its errors ignored.
ClearCurrentInput(c) ==
    /\ co[c].at = "clear"
    /\ \/ typed' = [typed EXCEPT ![co[c].agent] = {}]
       \/ SendFails /\ UNCHANGED typed
    /\ Goto(c, "file_text")
    /\ UNCHANGED <<task, avail, todo, got, busy, crashes>>

\* The instruction that names the prompt file.
SendFileCommand(c) ==
    /\ co[c].at = "file_text"
    /\ \/ Type(c) /\ Goto(c, "file_enter") /\ UNCHANGED <<task, todo>>
       \/ SendFails /\ (Type(c) \/ UNCHANGED typed) /\ HerdrFailure(c, "backoff_send")
    /\ UNCHANGED <<avail, got, busy, crashes>>

\* mark_dispatched and mark_in_progress, one after the other without an await.
MarkStarted(c) ==
    IF task[co[c].task].state = "assigned"
    THEN task' = SetState(co[c].task, "in_progress") /\ Return(c)
    ELSE Raise(c) /\ UNCHANGED task

SendEnter(c) ==
    /\ co[c].at \in {"enter", "file_enter"}
    /\ \/ Submit(co[c].agent) /\ MarkStarted(c)
       \/ /\ SendFails
          /\ Submit(co[c].agent) \/ UNCHANGED <<typed, got, busy>>
          /\ IF co[c].at = "enter" THEN Goto(c, "clear") /\ UNCHANGED <<task, todo>>
             ELSE HerdrFailure(c, "backoff_send")
    /\ UNCHANGED <<avail, crashes>>

DispatchStep(c) ==
    \/ Resolve(c) \/ WaitIdle(c) \/ AgentNotIdle(c) \/ RequeueForLater(c) \/ NextAttempt(c)
    \/ SendText(c) \/ ClearCurrentInput(c) \/ SendFileCommand(c) \/ SendEnter(c)

-----------------------------------------------------------------------------
(* The control API.  Agents call check-in, complete, fail and ask for work *)
(* that reached their pane; none of the routes looks at the task's state,  *)
(* except cancel and reassign.                                             *)

Exists(t) == task[t].state # "absent"
Delivered(t) == \E a \in Agents : t \in got[a]
ApiUnchanged == UNCHANGED <<avail, todo, co, typed, got, busy, crashes>>

Cancel(t) ==
    /\ "cancel" \in ApiOps[t] /\ Exists(t) /\ task[t].state \notin Terminal
    /\ task' = SetState(t, "cancelled") /\ ApiUnchanged

Checkin(t) ==
    /\ "checkin" \in ApiOps[t] /\ Delivered(t)
    /\ task' = SetState(t, "in_progress") /\ ApiUnchanged

Complete(t) ==
    /\ "complete" \in ApiOps[t] /\ Delivered(t)
    /\ task' = SetState(t, "done") /\ ApiUnchanged

Fail(t) ==
    /\ "fail" \in ApiOps[t] /\ Delivered(t)
    /\ task' = SetState(t, "failed") /\ ApiUnchanged

Ask(t) ==
    /\ "ask" \in ApiOps[t] /\ Delivered(t)
    /\ task' = SetState(t, "blocked") /\ ApiUnchanged

Reassign(t) ==
    /\ "reassign" \in ApiOps[t] /\ task[t].state \in {"failed", "timeout"}
    /\ task[t].retry < MaxRetries /\ task[t].version < MaxVersion
    /\ task' = Requeued(t) /\ ApiUnchanged

\* PATCH /tasks/{id} with a "state" other than cancelled.
PatchState(t) ==
    /\ "patch" \in ApiOps[t] /\ Exists(t) /\ task[t].version < MaxVersion
    /\ \E s \in States \ {"cancelled"} : task' = SetState(t, s)
    /\ ApiUnchanged

Api(t) == Cancel(t) \/ Checkin(t) \/ Complete(t) \/ Fail(t) \/ Ask(t) \/ Reassign(t) \/ PatchState(t)

\* The watchdog and the API write agent rows at any time.
AgentRow(a) ==
    /\ RowsChange
    /\ avail' = IF a \in avail THEN avail \ {a} ELSE avail \cup {a}
    /\ UNCHANGED <<task, todo, co, typed, got, busy, crashes>>

\* The agent of a pane comes to rest.
AgentFinishes(a) ==
    /\ a \in busy
    /\ busy' = busy \ {a}
    /\ UNCHANGED <<task, avail, todo, co, typed, got, crashes>>

\* The process stops (or is stopped) and starts again: the coroutines are
\* gone, the database and the panes are as they were.
Restart ==
    /\ crashes < MaxCrashes
    /\ crashes' = crashes + 1
    /\ co' = [c \in Dispatchers |-> AtRest]
    /\ todo' = {}
    /\ UNCHANGED <<task, avail, typed, got, busy>>

Next ==
    \/ SnapshotAgents \/ ClaimNext \/ Restart
    \/ \E t \in Tasks : Enqueue(t) \/ Api(t)
    \/ \E c \in Planners, t \in Tasks : PlannerDispatch(c, t)
    \/ \E c \in Dispatchers : DispatchStep(c)
    \/ \E a \in Agents : AgentRow(a) \/ AgentFinishes(a)

Spec == Init /\ [][Next]_vars

\* asyncio runs every coroutine that is not suspended, agent_wait and sleep
\* come back, and the agent of a pane does not work for ever.
FairSpec ==
    /\ Spec
    /\ WF_vars(SnapshotAgents) /\ WF_vars(ClaimNext)
    /\ \A c \in Dispatchers : WF_vars(DispatchStep(c))
    /\ \A a \in Agents : WF_vars(AgentFinishes(a))

-----------------------------------------------------------------------------
(* Properties.                                                             *)

\* Every variable has its type.
TypeOK ==
    /\ task \in [Tasks -> Row]
    /\ avail \subseteq Agents
    /\ todo \subseteq Agents
    /\ co \in [Dispatchers -> Frame]
    /\ typed \in [Agents -> SUBSET Tasks]
    /\ got \in [Agents -> SUBSET Tasks]
    /\ busy \subseteq Agents
    /\ crashes \in Nat

\* The version column fences claims: the version a dispatcher was given never
\* runs ahead of the row, and no two dispatchers hold one version of a task,
\* whatever the API, the other dispatchers and restarts do in between.
ClaimFenced ==
    /\ \A c \in Dispatchers : Active(c) => co[c].ver <= task[co[c].task].version
    /\ \A c, d \in Dispatchers :
         Active(c) /\ Active(d) /\ c # d /\ co[c].task = co[d].task => co[c].ver # co[d].ver

\* Nobody puts the task back into the queue behind its dispatcher's back.
Undisturbed(t) == {"reassign", "patch"} \cap ApiOps[t] = {}

\* No undisturbed task is dispatched by two coroutines at once, whatever the
\* other calls of the API, other tasks and restarts do.
SoleDispatcher ==
    \A c, d \in Dispatchers, t \in Tasks : Undisturbed(t) /\ Holds(c, t) /\ Holds(d, t) => c = d

\* retry_count of an undisturbed task stays within max_retries, though the test
\* and the increment are a backoff apart.
RetryBudget == \A t \in Tasks : Undisturbed(t) => task[t].retry <= MaxRetries

\* A task in progress was really handed to the agent its row names: the
\* prompt went through that agent's pane before the mark.
PromptReachedAssignee ==
    \A t \in Tasks : task[t].state = "in_progress" =>
        task[t].agent # Nobody /\ t \in got[task[t].agent]

\* No agent ever gets the prompt of a task before its dependencies are done,
\* and they stay done when no call reopens or fails finished work.
WorkOrder == \A a \in Agents : \A t \in got[a] : DependenciesDone(t)

\* From the idle check to the first Enter the pane's agent is idle
\* (injector.py:64), as long as the loop alone types into it.
TypesIntoIdlePane ==
    \A c \in Dispatchers : co[c].at \in {"text", "enter"} => co[c].agent \notin busy

\* A task in a terminal state is re-enqueued by an explicit reassign only,
\* which accepts failed and timed-out tasks.
TerminalStays ==
    [][\A t \in Tasks : task[t].state \in {"done", "cancelled"} => task'[t].state = task[t].state]_vars

\* Seen as states of tasks only, the system follows the lifecycle of TaskQueue.
Lifecycle == INSTANCE TaskLifecycle WITH st <- [t \in Tasks |-> task[t].state]
FollowsLifecycle == Lifecycle!Spec

\* A ready task does not wait for ever: it starts, ends, or is blocked by its
\* agent, unless one of its dependencies is reopened, and it does not stay
\* claimed for ever without a dispatcher bringing it further.  A prompt too
\* large to be sent stops its own task, and not the others (cli.py:505-520).
TasksMoveOn ==
    \A t \in Tasks \ HugePrompts :
        /\ Ready(t) ~> \/ task[t].state \in {"in_progress", "blocked"} \cup Terminal
                       \/ ~ DependenciesDone(t)
        /\ task[t].state = "assigned" ~> task[t].state # "assigned"

-----------------------------------------------------------------------------
(* Small instances, with numbers for names: tasks and agents are chosen in *)
(* the order of their numbers.                                             *)
ByNumber(S) == [x \in S |-> x]
RankOfTask == ByNumber(Tasks)
RankOfAgent == ByNumber(Agents)

\* No dependencies, and task 2 waiting for task 1.
Independent == [t \in Tasks |-> {}]
Chain == [t \in Tasks |-> IF t = 2 THEN {1} ELSE {}]

\* Every call on task 2, and on task 1 all but those that requeue it.
OneDisturbed == [t \in Tasks |-> IF t = 2 THEN Ops ELSE Ops \ {"reassign", "patch"}]
\* Work is cancelled and completed.
CancelComplete == [t \in Tasks |-> {"cancel", "complete"}]
OnlyCancel == [t \in Tasks |-> {"cancel"}]
\* Failed work is tried again.
OnlyReassign == [t \in Tasks |-> {"reassign"}]
=============================================================================
