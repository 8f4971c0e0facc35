SPECIFICATION MCSpec
CONSTANTS
    NEvents = 3
    Size <- MixedSize
    Estimate <- FittingEstimate
    MaxBytes = 4
    BatchSize = 2
    BatchBytes = 2
    Quota = 2
    MaxFaults = 3
    NRecords = 4
    EventOf <- MixedEvents
    Kind <- MixedKinds
    Matching = {1}
    Workers = {w1, w2}
    MaxSoft = 1
    MaxHard = 2
    AiKeys = {k1}
    AiWorkers = {w1, w2}
    AiContexts = {"clean", "injected", "missing"}
    MaxAiPolicies = 2
    MaxAiAttempts = 2
INVARIANTS
    NoLoss
    SpoolIsHonest
    CommittedIsKept
    AlertHasEvidence
    DetectionIsAccounted
    AiIsGoverned
PROPERTIES
    AgentDelivers
    ProcessorCommits
    AiRequestEnds
CHECK_DEADLOCK FALSE
