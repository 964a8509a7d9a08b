SPECIFICATION RotationFairSpec
CONSTANTS
    Nobody = Nobody
    Accounts = {1, 2, 3, 4}
    Agents = {1, 2}
    Requests = {1, 2}
    AgentOf <- OwnAgent
    FirstAccount <- OwnAccount
    VendorOf <- TwoVendors
    Rank <- OwnNumber
    Signals = {"codex", "opus", AnyVendor}
    AnyVendor = AnyVendor
    NoSignal = NoSignal
    LoginFails = TRUE
    MaxRotations = 2
    MaxLogins = 2
    MaxResumes = 3
CHECK_DEADLOCK FALSE
INVARIANTS RotationTypeOK LeaseMatchesStatus OneAgentPerAccount
PROPERTIES AccountChoice TaskSettles
