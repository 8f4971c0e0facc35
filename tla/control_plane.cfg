SPECIFICATION MCSpec
CONSTANTS
    Replicas = {r1, r2}
    Licenses = {"small", "large", "forged", "foreign"}
    Trusted = {"small", "large", "foreign"}
    Bound = {"small", "large", "forged"}
    DayLimit <- Limits
    AfterExpiry <- Policy
    MaxLosses = 1
    MaxAccepted = 4
    Agents = {"unix", "windows"}
    Windows = {"windows"}
    MaxUses = 2
    MaxCredentials = 3
    MaxFaults = 2
    Users <- mcUsers
    ServiceNames = {"svc"}
    ScopeRequests = {{"siem.parsers.publish"}, {"ai.decide", "ai.request"}, {"soc.evidence.write"}, {"siem.rules.write"}}
    Routes = {"validateParser", "decideSOARApproval", "downloadEvidence", "decideAISOCRequest", "createDetectionDraft", "createCase", "createIncident", "testThreatIntelFeed", "updateAdminTenant", "createAgentEnrollmentToken"}
    ApiTenants = {"t1", "t2"}
    ApiClients = {c1}
    MaxTokens = 2
    MaxSends = 2
    ParserRows = {"own1", "own2", "other1"}
    FormatOf <- mcFormatOf
    ParserOf <- mcParserOf
    ParserEditors = {e1, e2}
    CorrelationEvents <- mcEvents
    CorrelationTypes = {"event_count", "value_count", "temporal", "temporal_ordered"}
    CorrelatedRules <- mcRules
    Thresholds = {2, 3}
    maximumEvidenceIDs = 2
    Timespan = 2
    Selections <- mcSelections
    SelectionOrder <- mcSelectionOrder
    Conditions <- mcConditions
    Patterns <- mcPatterns
    SigmaEvents <- mcSigmaEvents
    PlaybookSpecs <- mcPlaybooks
    NodeIdOrder <- mcNodeIds
INVARIANTS
    AdmissionIsBounded
    CredentialIsKept
    RequestsAreAccounted
    EffectsAreEntitled
    OneParserPerFormat
    CorrelationIsFaithful
    ConditionIsRead
    ValidationIsSound
CHECK_DEADLOCK FALSE
