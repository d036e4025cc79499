CONSTANTS
    Deployments <- MCDeployments
    MaxStarts = 2
    MaxStartFaults = 1
    BackupServers = {"s1", "s2"}
    BackedUpKeys = {"k1"}
    Passphrases = {"p1", "p2"}
    RetentionDays = 1
    LastBackupDay = 2
    MaxRegistry = 2
    MaxMasters = 2
    MaxDiskFaults = 1
    Prime = 11
    ByteBase = 3
    BlockSize = 2
    SecretsToShare <- MCSecrets
    RandomElements = {1, 7}
    MaxHolders = 3
    MaxSessions = 2
    SessionTimeout = 2
    HistoryTtl = 2
    MaxHistory = 1
    LastSecond = 3
    MaxAttempts = 3
    LoggerKinds = {"plain", "signed", "timestamped"}
    LogCallers = {"c1", "c2"}
    MaxEvents = 3
    BufferSize = 2
    TsaEndpoints = 1
    TsaAnswers <- Replies
    MaxPolls = 1
    MaxAuditFaults = 1
    ArchivedKinds = {"plain"}
    MaxUploads = 1
    TpmClients = {"c1", "c2"}
    TpmSpecs = {"Aes256Gcm", "Sm4", "Rsa4096"}
    NumPcrs = 2
    MaxExtends = 1
    MaxTpmKeys = 1
    MaxTpmVersion = 2
    MaxTpmCiphertexts = 2
    PAGE_SIZE = 2
    BoxIds = {"b1", "b2"}
    BoxSizes = {0, 1, 3}
    Slices = {"d1", "d2"}
    HeapPage <- MCHeapPage
    LockLimit = 3
    MaxMapFaults = 1
    MaxAllocations = 3
    Generators = {"g1", "g2"}
    ReseedInterval = 2
    Seeds = {"s1", "s2"}
    Blocks = {2}
    MaxDraws = 5
SPECIFICATION MCSpec
CHECK_DEADLOCK FALSE
INVARIANTS
    StartupSound
    ShamirSound
    MaterialSound
    KexSound
    AuditSound
    TpmSound
PROPERTIES
    ShutdownCompletes
