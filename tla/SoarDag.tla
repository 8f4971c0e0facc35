------------------------------ MODULE SoarDag ------------------------------
(***************************************************************************)
(* The node graph of SOAR playbook executions and the rules by which       *)
(* promoteAndReconcileSOAR (internal/store/soar_runtime.go) advances it.   *)
(* The operators map the statuses of all node rows to new statuses; the    *)
(* modules that EXTEND this one decide when, and how atomically, the       *)
(* database applies them.                                                  *)
(***************************************************************************)
EXTENDS Naturals

CONSTANTS
    Executions,   \* rows of soar_executions
    Nodes,        \* rows of soar_node_executions, of every execution
    Execution,    \* the execution a node row belongs to
    Deps          \* depends_on: nodes of the same execution

ASSUME DagAssumption ==
    /\ Execution \in [Nodes -> Executions]
    /\ Deps \in [Nodes -> SUBSET Nodes]
    /\ \A n \in Nodes : \A d \in Deps[n] : Execution[d] = Execution[n]

NodeStatuses == {"PENDING", "READY", "RUNNING", "WAITING_APPROVAL",
                 "WAITING_MANUAL", "SUCCEEDED", "FAILED", "CANCELLED"}
ActiveStatuses == {"PENDING", "READY", "RUNNING", "WAITING_APPROVAL", "WAITING_MANUAL"}
ExecutionStatuses == {"QUEUED", "RUNNING", "WAITING_APPROVAL", "WAITING_MANUAL",
                      "SUCCEEDED", "FAILED"}
TerminalExecution == {"SUCCEEDED", "FAILED"}

NodesOf(e) == {n \in Nodes : Execution[n] = e}

\* The nodes the first UPDATE selects: PENDING with every dependency
\* SUCCEEDED.  (The query also admits SKIPPED, a status nothing writes.)
Promotable(s, e) ==
    {n \in NodesOf(e) : s[n] = "PENDING" /\ \A d \in Deps[n] : s[d] = "SUCCEEDED"}

Promoted(s, e) == [n \in Nodes |-> IF n \in Promotable(s, e) THEN "READY" ELSE s[n]]

HasFailed(s, e) == \E n \in NodesOf(e) : s[n] = "FAILED"

ActiveNodes(s, e) == {n \in NodesOf(e) : s[n] \in ActiveStatuses}

\* The switch on the counts failed, active, waitingApproval, waitingManual.
ExecutionVerdict(s, e) ==
    IF HasFailed(s, e) THEN "FAILED"
    ELSE IF ActiveNodes(s, e) = {} THEN "SUCCEEDED"
    ELSE IF \E n \in NodesOf(e) : s[n] = "WAITING_APPROVAL" THEN "WAITING_APPROVAL"
    ELSE IF \E n \in NodesOf(e) : s[n] = "WAITING_MANUAL" THEN "WAITING_MANUAL"
    ELSE "RUNNING"

\* Mutant: nodes that a worker or a person has in hand are not cancelled.
CancelledUnstarted(s, e) ==
    [n \in Nodes |-> IF HasFailed(s, e) /\ n \in NodesOf(e) /\ s[n] \in {"PENDING", "READY"}
                     THEN "CANCELLED" ELSE s[n]]

\* "cancel failed SOAR branches"
Cancelled(s, e) ==
    IF HasFailed(s, e)
    THEN [n \in Nodes |-> IF n \in ActiveNodes(s, e) THEN "CANCELLED" ELSE s[n]]
    ELSE s

\* promoteAndReconcileSOAR as one function of the node statuses.
Reconciled(s, e) == Cancelled(Promoted(s, e), e)
ReconciledExecution(s, e) == ExecutionVerdict(Promoted(s, e), e)

\* Everything that must have succeeded before n can start: the least set
\* that holds Deps[n] and is closed under Deps.
AncestorSets ==
    [n \in Nodes |-> {a \in Nodes : \A S \in SUBSET Nodes :
        (Deps[n] \subseteq S /\ \A m \in S : Deps[m] \subseteq S) => a \in S}]

Ancestors(n) == AncestorSets[n]

\* Executions no two nodes of which can be in flight together.
StraightExecutions ==
    {e \in Executions : \A m, n \in NodesOf(e) :
        m = n \/ m \in Ancestors(n) \/ n \in Ancestors(m)}
=============================================================================
