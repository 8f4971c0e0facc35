SPECIFICATION MCSpec
CONSTANTS
    NAlerts = 2
    NIncidents = 2
    Clients = {d1, d2}
    Events = {1, 2}
    SeenAt <- EventTimes
    Window = 1
    PatchTexts = {"given"}
    MaxChanges = 3
    MaxUnaudited = 1
    Analysts = {"a1", "a2"}
    CaseIncidents = {"i1"}
    CaseChanges <- mcChanges
    MaxCaseVersion = 3
    Uploaders = {u1, u2}
    Contents = {c1, c2}
    MaxCustody = 4
    DrProcesses = {p1, p2}
    MaxBackups = 2
    MinimumBackups = 1
    RestoredBackup = 1
    Observers = {p1, p2}
    UebaEvents <- mcObservations
    Remaining <- mcRemaining
    MinimumObservations = 1
    MinimumPeerSamples = 2
    MaximumCardinality = 2
    MaxObservations = 4
    MaxFeedback = 1
    StoredEvents <- mcStored
    HuntRequests <- mcHunts
    HuntTimes = {3}
    HuntWriters = {w1, w2}
    MaximumDepth = 3
    Accepts <- accepted
    Meets <- compileNode
    Means <- standsFor
    MaximumChildren = 2
    MaximumPredicates = 2
    MaximumWindow = 5
INVARIANTS
    DeskKeepsItsRecord
    CaseKeepsItsRecord
    EvidenceIsKept
    RecoveryIsPossible
    BaselineIsFaithful
    HuntIsComplete
PROPERTIES
    RestoreIsContained
SYMMETRY ClientSymmetry
CHECK_DEADLOCK FALSE
