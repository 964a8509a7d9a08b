---------------------------- MODULE AgentRuntime ----------------------------
(* Registry of managed agents: AgentRuntime (app/agent_runtime/runtime.py). *)
(* Its routes run in a thread pool.  spawn_agent registers an agent and     *)
(* turns it to running in a second step; send_message_to_agent releases the *)
(* lock while the responder works on the reply.                             *)
EXTENDS Naturals, Sequences, FiniteSets

CONSTANTS
    Agents,         \* ids a new agent may get
    Senders,        \* threads that call the routes
    MaxMessages     \* bound: messages accepted by one agent

VARIABLES
    agent,      \* _agents: status and history of each agent; stopped_at is set;
                \* opened (no field of the code) notes a stop undone by the spawn
    spawning,   \* agents whose spawn_agent has not returned
    sending     \* the message each sender waits a reply for

agentVars == <<agent, spawning, sending>>

NoAgent == [status |-> "none", messages |-> <<>>, stopped |-> FALSE, opened |-> FALSE]
NoSend == [to |-> {}, n |-> 0]
Terminal == {"stopped", "completed", "failed", "error"}

\* What send_message_to_agent refuses; completed is not among them.
Refusing_Stopped == {"stopped", "failed"}
Refusing == {"stopped", "failed", "error"}

User(a) == Cardinality({i \in DOMAIN agent[a].messages : agent[a].messages[i].role = "user"})

Init == /\ agent = [a \in Agents |-> NoAgent]
        /\ spawning = {}
        /\ sending = [s \in Senders |-> NoSend]

SpawnAgent(a) ==
    /\ agent[a] = NoAgent
    /\ agent' = [agent EXCEPT ![a].status = "pending"]
    /\ spawning' = spawning \cup {a}
    /\ UNCHANGED sending

\* The flip to running comes last and looks at nothing.
SpawnReturns(a) ==
    /\ a \in spawning
    /\ agent' = [agent EXCEPT ![a].status = "running", ![a].opened = agent[a].stopped]
    /\ spawning' = spawning \ {a}
    /\ UNCHANGED sending

StopAgent(a) ==
    /\ agent[a].status \notin Terminal \cup {"none"}
    /\ agent' = [agent EXCEPT ![a].status = "stopped", ![a].stopped = TRUE,
                                ![a].opened = FALSE]
    /\ UNCHANGED <<spawning, sending>>

Send(s, a) ==
    /\ sending[s] = NoSend
    /\ agent[a].status \notin Refusing \cup {"none"}
    /\ User(a) < MaxMessages
    /\ agent' = [agent EXCEPT ![a].messages = Append(@, [role |-> "user", n |-> User(a) + 1])]
    /\ sending' = [sending EXCEPT ![s] = [to |-> {a}, n |-> User(a) + 1]]
    /\ UNCHANGED spawning

\* The reply is appended whatever the agent's status has become meanwhile.
Reply(s) ==
    \E a \in sending[s].to :
        /\ agent' = [agent EXCEPT ![a].messages =
                        Append(@, [role |-> "assistant", n |-> sending[s].n])]
        /\ sending' = [sending EXCEPT ![s] = NoSend]
        /\ UNCHANGED spawning

ResponderFails(s) ==
    \E a \in sending[s].to :
        /\ agent' = [agent EXCEPT ![a].status = "error", ![a].stopped = TRUE,
                                    ![a].opened = FALSE]
        /\ sending' = [sending EXCEPT ![s] = NoSend]
        /\ UNCHANGED spawning

Next == \/ \E a \in Agents : SpawnAgent(a) \/ SpawnReturns(a) \/ StopAgent(a)
        \/ \E s \in Senders : \/ \E a \in Agents : Send(s, a)
                              \/ Reply(s)
                              \/ ResponderFails(s)

Spec == Init /\ [][Next]_agentVars

TypeOK ==
    /\ \A a \in Agents : agent[a].status \in {"none", "pending", "running"} \cup Terminal
    /\ spawning \subseteq Agents
    /\ \A s \in Senders : sending[s].to \subseteq Agents

Shut(a) == agent[a].stopped /\ ~agent[a].opened /\ a \notin spawning
KeptShut(a) == Shut(a) => agent'[a].status \in {"stopped", "error"} /\ User(a)' = User(a)

(* An agent that was stopped, or whose responder failed, and whose spawn    *)
(* has returned stays shut: it takes no further message and is not running  *)
(* again, though replies under way still reach its history and a responder  *)
(* that fails late turns stopped into error (runtime.py:253, 300, 315).     *)
StaysShut == [][\A a \in Agents : KeptShut(a)]_agentVars
=============================================================================
