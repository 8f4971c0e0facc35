SPECIFICATION MCSpec
CONSTANTS
  Workers = {w1}
  Editors = {a1}
  Requests = {r1}
  Fields <- ConfFields
  Values <- ConfValues
  Valid <- ValidConfs
  Anonymous <- AnonymousConfs
  Unbound <- UnboundConfs
  Initial <- BoundConf
  RateLimit = 1
  MaxVersion = 1
  MaxSlips = 0
  Kinds = {"GENERIC", "NOTIFICATION"}
  MaximumAttempts = 2
  Callers = {c1, c2}
  MaxReclaims = 1
  Executions = {"e1"}
  Nodes <- DiamondNodes
  Execution <- DiamondExecution
  Deps <- DiamondDeps
  Txns = {t1}
INVARIANT NoAutomaticReplay
CHECK_DEADLOCK FALSE
