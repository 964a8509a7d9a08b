SPECIFICATION Spec
CONSTANTS
    Nobody = Nobody
    Tasks = {1, 2}
    Agents = {1}
    Planners = {}
    Orchestrator = 1
    DependsOn <- Independent
    TaskRank <- RankOfTask
    AgentRank <- RankOfAgent
    Stored = {1}
    Listed = {1}
    LongPrompts = {}
    HugePrompts = {}
    MaxRetries = 1
    RetryAttempts = 1
    ApiOps <- OnlyCancel
    RowsChange = FALSE
    SendFails = FALSE
    MaxCrashes = 0
    MaxVersion = 4
CHECK_DEADLOCK FALSE
PROPERTIES TerminalStays
