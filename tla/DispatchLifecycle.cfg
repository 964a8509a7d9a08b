SPECIFICATION FairSpec
CONSTANTS
    Nobody = Nobody
    Tasks = {1, 2, 3}
    Agents = {1, 2}
    Planners = {"p1"}
    Orchestrator = 1
    DependsOn <- Independent
    TaskRank <- RankOfTask
    AgentRank <- RankOfAgent
    Stored = {1}
    Listed = {1}
    LongPrompts = {2, 3}
    HugePrompts = {3}
    MaxRetries = 1
    RetryAttempts = 1
    ApiOps <- OnlyReassign
    RowsChange = FALSE
    SendFails = TRUE
    MaxCrashes = 0
    MaxVersion = 4
CHECK_DEADLOCK FALSE
PROPERTIES FollowsLifecycle TasksMoveOn
