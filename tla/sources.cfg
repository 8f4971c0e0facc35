CONSTANTS
    Configured <- SourceSets
    Pages <- ApiPages
    MaximumPages = 2
    Requests <- HttpRequests
    Messages <- SyslogMessages
    MaxLines = 2
    PrefixLines = 2
    MaxBytes = 2
    EventBuffer = 1
    BatchSize = 2
    MaxTrouble = 1
    SyncWorkers = {w1, w2}
    Kinds = {"MISP", "OPENCTI"}
    Provider <- Feeds
    Watched = {"x"}
    FeedPageSize = 2
    MaximumFeedPages = 2
    MaxSyncs = 2
    MaxSyncFaults = 1
    PublishersOfPlaybook = {e1, e2}
    ExecutionClients = {c1, c2}
    ExecutionRequests = {r1}
    MaxPlaybookVersions = 3
    BaseRule = base
    CorrelationRule = correlated
    RuleValidators = {e1}
    MaxRuleVersions = 2
SPECIFICATION Spec
CHECK_DEADLOCK FALSE
INVARIANTS
    SpoolCoversCheckpoint
    CursorCovers
PROPERTIES
    PlaybookContract
    DetectionContract
    ApiEventsArrive
    ResultIsCurrent
    RevocationSticks
    ActiveFeedSettles
