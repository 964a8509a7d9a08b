SPECIFICATION Spec
CONSTANTS
    Nobody = Nobody
    Tasks = {1, 2}
    Agents = {1, 2}
    Planners = {}
    Orchestrator = 1
    DependsOn <- Chain
    TaskRank <- RankOfTask
    AgentRank <- RankOfAgent
    Stored = {1}
    Listed = {2}
    LongPrompts = {2}
    HugePrompts = {}
    MaxRetries = 1
    RetryAttempts = 2
    ApiOps <- CancelComplete
    RowsChange = TRUE
    SendFails = TRUE
    MaxCrashes = 1
    MaxVersion = 4
CHECK_DEADLOCK FALSE
INVARIANTS WorkOrder PromptReachedAssignee TypesIntoIdlePane
