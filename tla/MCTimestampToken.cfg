CONSTANTS
    LoggerKinds = {"signed", "timestamped"}
    LogCallers = {"c1", "c2"}
    MaxEvents = 3
    BufferSize = 2
    TsaEndpoints = 1
    TsaAnswers <- Replies
    MaxPolls = 1
    MaxAuditFaults = 0
    ArchivedKinds = {}
    MaxUploads = 0
SPECIFICATION DeliverySpec
CHECK_DEADLOCK FALSE
INVARIANTS
    GrantedTimestampKept
