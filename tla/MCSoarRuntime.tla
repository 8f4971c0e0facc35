--------------------------- MODULE MCSoarRuntime ---------------------------
(* Small playbooks for the SOAR runtime.                                    *)
EXTENDS SoarRuntime, TLC

AllExecutions == {"e1", "e2"}
AllInitiators == [e \in AllExecutions |-> "ann"]

\* e1: a two-person approval guarding an action.
\* e2: a manual task beside a delay that leads to a node type without a
\* runtime, which fails and cancels whatever the other branch is doing.
PairNodes == {"approve", "act", "task", "delay", "odd"}
PairExecution == [n \in PairNodes |-> IF n \in {"approve", "act"} THEN "e1" ELSE "e2"]
PairDeps == [n \in PairNodes |-> CASE n = "act" -> {"approve"} [] n = "odd" -> {"delay"}
                                   [] OTHER -> {}]
PairKind == [n \in PairNodes |-> CASE n = "approve" -> "HUMAN_APPROVAL" [] n = "act" -> "ACTION"
                                   [] n = "task" -> "MANUAL_TASK" [] n = "delay" -> "DELAY"
                                   [] n = "odd" -> "UNSUPPORTED"]
PairRequired == [n \in PairNodes |-> 2]
PairMaxAttempts == [n \in PairNodes |-> 2]
=============================================================================
