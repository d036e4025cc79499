CONSTANTS
    Declared <- MCDeclared
    NewSecrets = {}
    MaxFailedAttempts = 5
    MaxCredentials = 5
    MaxAdmin = 0
    PolicyPool <- MCPolicyPool
    Clients = {"c1", "c2"}
    RequestsOf <- MCRequestsOf
    Keys = {"k1", "k2", "k3"}
    Owners <- MCOwners
    Tenants = {"tA", "tB"}
    InitialPolicies <- MCInitialPolicies
    ApprovalIds = {"a1", "a2", "a3", "a4", "a5"}
    InitialApprovals <- MCApprovals
    MaxRestarts = 1
SPECIFICATION KmsSpec
CHECK_DEADLOCK FALSE
INVARIANTS
    Authorised
    TenantConfined
    ChannelsAgree
    AnsweredIsAudited
    PolicyDurable
