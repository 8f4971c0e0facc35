SPECIFICATION MCSpec
CONSTANTS
  Workers = {w1, w2}
  Editors = {a1, a2}
  Requests = {r1}
  Fields <- ConfFields
  Values <- ConfValues
  Valid <- ValidConfs
  Anonymous <- AnonymousConfs
  Unbound <- UnboundConfs
  Initial <- BoundConf
  RateLimit = 1
  MaxVersion = 2
  MaxSlips = 1
  Kinds = {"GENERIC", "ITSM", "NOTIFICATION", "EDR", "LDAP", "SMTP"}
  MaximumAttempts = 3
  Callers = {c1, c2}
  MaxReclaims = 1
  Executions = {"e1"}
  Nodes <- DiamondNodes
  Execution <- DiamondExecution
  Deps <- DiamondDeps
  Txns = {t1, t2, t3}
INVARIANTS CommittedRowsAgree LiveCallsAreSound
PROPERTIES NoLostUpdate
CHECK_DEADLOCK FALSE
