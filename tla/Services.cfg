SPECIFICATION ServicesSpec
CONSTANTS
    Steps <- TwoSteps
    Processes = {"w1", "w2"}
    MaxRetries = 1
    MaxRuns = 3
    MaxStops = 1
    Agents = {"x"}
    Senders = {"s1", "s2"}
    MaxMessages = 3
    Requests = {"r1", "r2"}
    Providers = {"p", "q"}
    Chains <- TwoChains
    Threshold = 2
    Recovery = 1
    MaxTime = 3
    MaxResults = 3
    Dispatches = {"d1", "d2"}
    PatchStatuses = {"todo", "done"}
    MaxPatches = 1
    Writers = {"w1", "w2", "w3"}
    WritesOf <- SomeWrites
    RTasks = {"r1"}
    HmIds = {"h1", "h2"}
    Unlinked = "none"
    Threads = {"w1", "w2"}
    MaxRequests = 2
    Names = {"tl", "w"}
    Patterns = {"tl", "w", "*"}
    MatchedBy <- SomeMatches
    Sendings = {"m1", "m2"}
    Canvases <- SomeCanvases
    AclConfigs <- SomeConfigs
    FirstConfig <- LeadConfig
    Homes = {"a", "b"}
    Patches = {"p1", "p2"}
    FieldsOf <- SomeFields
    Logins = {"l1"}
    Lifetime = 1
    Tracked <- ThreeTracked
    Sweeps = {"s1", "s2"}
    CascadeSize = 2
    Remembered = 2
    MaxClock = 2
    Users = {"u1"}
    CustomRoles = {"c"}
    Permissions = {"read"}
    DefaultRole = "viewer"
    DefaultGrants = {"see"}
    Callers = {"t1", "t2"}
    MaxCalls = 4
    Rules = {"r1", "r2", "r3"}
    RuleOf <- PolicyRules
    AgentKeys = {"a", "b"}
    Panes = {"p"}
    NoPane = "none"
    Enrollers = {"t1", "t2"}
    OpsOf <- OpsOfTwo
    MaxOps = 2
    MaxMixed = 2
    MaxDrops = 1
    Payers <- TwoPayers
    Costs = {1}
    Limits = {1}
    Windows = {1}
    DayLength = 2
    MaxNow = 2
    MaxEvents = 3
    MaxThresholds = 2
    Tenants = {"t"}
    Amounts = {1}
    BudgetLimits = {0, 1}
    WarningPct = 50
    Chargers = {"c1", "c2"}
    MonthLength = 1
    MaxHalf = 3
    MaxCharges = 2
    Operations = {"o1", "o2"}
    Dimensions <- TwoDimensions
    Wants <- SomeWants
    Tiers = {"free", "large"}
    LimitsOf <- TierLimits
    QuotaLimits = {1}
    Observations = {0, 1}
    MaxChanges = 2
CHECK_DEADLOCK FALSE
INVARIANTS TypesOK ActivationHolds PlansKept ReportsTell TrailsTell LimitsTold 
PROPERTIES ProjectsCompleteInFull ClosedStaysClosed
