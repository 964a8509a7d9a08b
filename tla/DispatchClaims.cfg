SPECIFICATION Spec
CONSTANTS
    Nobody = Nobody
    Tasks = {1, 2}
    Agents = {1}
    Planners = {"p1"}
    Orchestrator = 1
    DependsOn <- Independent
    TaskRank <- RankOfTask
    AgentRank <- RankOfAgent
    Stored = {1}
    Listed = {1}
    LongPrompts = {}
    HugePrompts = {}
    MaxRetries = 1
    RetryAttempts = 1
    ApiOps <- OneDisturbed
    RowsChange = FALSE
    SendFails = TRUE
    MaxCrashes = 1
    MaxVersion = 3
CHECK_DEADLOCK FALSE
INVARIANTS ClaimFenced SoleDispatcher RetryBudget
