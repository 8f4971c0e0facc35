CONSTANTS
    Executions <- AllExecutions
    Nodes <- PairNodes
    Execution <- PairExecution
    Deps <- PairDeps
    Kind <- PairKind
    Required <- PairRequired
    MaxAttempts <- PairMaxAttempts
    Initiator <- AllInitiators
    Workers = {w1, w2}
    NoWorker = NoWorker
    People = {"ann", "bob", "cyd"}
    SlipBound = 1
SPECIFICATION FairSpec
CHECK_DEADLOCK FALSE
INVARIANTS
    ApprovalGate
    RunOutcome
    SuccessHasEffect
PROPERTIES
    FinishedIsFinal
    RunsSettle
