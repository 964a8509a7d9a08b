------------------------------ MODULE Services ------------------------------
(* Services of the control plane side by side, of any size: the activations *)
(* of Provisioning, and an instance of each of nine others.  They share no   *)
(* state; MCServices runs them, with the rest of the services, in small     *)
(* instances, and ServicesProofs proves about them.                         *)
EXTENDS Provisioning

\* Agents that run, providers of language models, and the project board.
CONSTANTS
    Agents, Senders, MaxMessages,
    Requests, Providers, Chains, Threshold, Recovery, MaxTime, MaxResults,
    Dispatches, PatchStatuses, MaxPatches, Writers, WritesOf
VARIABLES
    agent, spawning, sending,
    time, breaker, request, results,
    board, issue, event, dispatch, patches, raced, settings, writer, token
Agent == INSTANCE AgentRuntime
Llm == INSTANCE LlmRouter
Board == INSTANCE ProjectBoard WITH project <- board

\* Rows of the task registry, messages of a squad, logins on a seat.
CONSTANTS
    RTasks, HmIds, Unlinked, Threads, MaxRequests,
    Names, Patterns, MatchedBy, Sendings, Canvases, AclConfigs, FirstConfig,
    Homes, Patches, FieldsOf, Logins, Lifetime
VARIABLES
    ot, hmtask, thread, requests, linked, patched,
    canvas, hmacl, bus, sending_to, delivered, audited,
    seat, patch, command, login, session, checking, overlapped
Registry == INSTANCE TaskRegistry
Rm == INSTANCE RuntimeMessaging
Login == INSTANCE SeatSessions WITH raced <- overlapped

\* The monitor, roles and policies.
CONSTANTS
    Tracked, Sweeps, CascadeSize, Remembered, MaxClock,
    Users, CustomRoles, Permissions, DefaultRole, DefaultGrants, Callers, MaxCalls, Rules, RuleOf
VARIABLES
    clock, health, known, sweep, failures, alert, settled,
    custom, binding, call, trail, rules, ruling
Health == INSTANCE HealthMonitor WITH Lifetime <- Remembered
Gov == INSTANCE Governance

\* The registry of agents.
CONSTANTS
    AgentKeys, Panes, NoPane, Enrollers, OpsOf, MaxOps, MaxMixed, MaxDrops
VARIABLES
    db, work, txn, worker, ops, drops, mixed
Enrol == INSTANCE AgentEnrollment
         WITH Keys <- AgentKeys, Threads <- Enrollers, MaxCalls <- MaxOps, thread <- worker, calls <- ops

-----------------------------------------------------------------------------
(* What each needs of its constants.                                       *)
ASSUME RouterConfigured == Llm!RouterAssumption
ASSUME BoardConfigured == Board!BoardAssumption
ASSUME RegistryConfigured == Registry!RegistryAssumption
ASSUME MessagingConfigured == Rm!MessagingAssumption
ASSUME LoginsConfigured == Login!SessionAssumption
ASSUME MonitorConfigured == Health!MonitorAssumption
ASSUME GovernanceConfigured == Gov!GovernanceAssumption
ASSUME EnrollmentConfigured == Enrol!EnrollmentAssumption
=============================================================================
