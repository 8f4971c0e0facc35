SPECIFICATION TxSpec
CONSTANTS
  Executions = {"e1"}
  Nodes <- DiamondNodes
  Execution <- DiamondExecution
  Deps <- DiamondDeps
  Txns = {t1, t2}
INVARIANT DependentReady
CHECK_DEADLOCK FALSE
