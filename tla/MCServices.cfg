CONSTANTS
    ServiceKeys = {"k1", "k2"}
    ServiceTenants = {"tA", "tB"}
    Workers = {a, b}
    MaxKeys = 2
    MaxRequests = 1
    MaxDaily = 2
    MaxVersion = 2
    MaxCalls = 3
    Existing <- MCExisting
    Declared <- MCDeclared
    NewSecrets = {"n1", "n2"}
    MaxFailedAttempts = 2
    MaxCredentials = 4
    MaxAdmin = 4
    Verifiers = {a, b}
    BackupCodes = {"a", "b"}
    MaxTotpAttempts = 2
    MaxBackupUses = 2
    MaxMfaFaults = 1
    MaxMfaCalls = 5
    Requesters = {a, b}
    RateLimit = 2
    WindowLength = 3
    FailOpen = FALSE
    LastSecond = 5
    Schedulers = {a, b}
    RotationPolicies <- MCRotationPolicies
    LastVersion = 3
    LastDay = 3
    LastOperation = 2
    RequestIds = {a, b}
    Users = {u1, u2}
    Resources = {x1}
    Durations <- MCDurations
    Instants <- MCInstants
    Keys = {a, b}
    Threads = {a, b, r}
    Removers = {r}
    Bounded = TRUE
    Cap = 1
    MaxInserts = 4
    CachedKeys = {"k1", "k2"}
    CacheCallers = {a, b}
    CacheTtl = 2
    LastCachedVersion = 3
    MaxRedisFaults = 1
    MaxCacheCalls = 3
    KexServers = {a, b}
    KexMessages = {"m1", "m2"}
    PerSecond = 2
    SessionTtl = 2
    MessageTtl = 1
    HistorySize = 1
    LastMoment = 5
    MaxKexCalls = 4
    Sm9Callers = {a, b}
    Sm9Keys = {"k1", "k2"}
    Sm9Tenants = {"tA"}
    GracePeriod = 1
    LastSm9Version = 3
    LastSm9Time = 1
    SecretConfigs <- MCSecretConfigs
    LastSecretTime = 3
    MaxSecretCalls = 5
    Hooks = {"h1", "h2"}
    FilterOf <- MCFilters
    Events <- MCEvents
    NoResource = "none"
    MaxRetries = 1
    Globs <- MCGlobs
    Texts <- MCTexts
    SecondsPerMinute = 2
    MinutesPerHour = 3
    HoursPerDay = 3
    Conditions <- MCConditions
    Attributes = {"role", "until"}
    AttributeValues = {"u", "v"}
    TimeStep = 2
    ToleratedSteps = 1
    HandedOut = {"c1", "c2"}
    MAX_FAILED_ATTEMPTS = 2
    LOCKOUT_DURATION_SECS = 2
    MaxSkew = 4
    LastTimestamp = 6
    MaxWrongCodes = 5
    MaxAccesses = 3
    AccessUsers = {a, b}
    MaxOpsPerMinute = 2
    MaxAuthFailures = 2
    FailureWindow = 2
    WorkHours = {0, 1, 2}
    LastTime = 3
SPECIFICATION MCSpec
SYMMETRY Symmetry
CHECK_DEADLOCK FALSE
INVARIANTS
    ServicesSound
    CredentialsSound
    MfaSound
    CountersSound
    RotationSound
    AccessBounded
    CacheSound
    RedisSound
    VersionsSound
    MatchersSound
PROPERTIES
    OutcomeFinal
