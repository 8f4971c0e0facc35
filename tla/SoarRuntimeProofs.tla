------------------------- MODULE SoarRuntimeProofs -------------------------
(***************************************************************************)
(* Safety of the SOAR runtime for every playbook graph, number of workers, *)
(* set of people and bound on failures.                                    *)
(***************************************************************************)
EXTENDS SoarRuntime, FiniteSetTheorems, TLAPS

----------------------------------------------------------------------------
(* What promoteAndReconcileSOAR does to any assignment of node statuses.     *)

\* Promotion turns only PENDING nodes of e whose dependencies have succeeded
\* READY, and leaves the other rows alone (first UPDATE of promoteAndReconcileSOAR).
LEMMA PromotedFacts ==
    ASSUME NEW s \in [Nodes -> NodeStatuses], NEW e \in Executions
    PROVE  /\ Promoted(s, e) \in [Nodes -> NodeStatuses]
           /\ \A n \in Nodes : Promoted(s, e)[n] # s[n] =>
                 /\ Execution[n] = e /\ s[n] = "PENDING" /\ Promoted(s, e)[n] = "READY"
                 /\ \A d \in Deps[n] : s[d] = "SUCCEEDED"
  BY DEF Promoted, Promotable, NodesOf, NodeStatuses

\* Cancellation touches only active nodes of e, and only when one failed.
LEMMA CancelledFacts ==
    ASSUME NEW s \in [Nodes -> NodeStatuses], NEW e \in Executions
    PROVE  /\ Cancelled(s, e) \in [Nodes -> NodeStatuses]
           /\ \A n \in Nodes : Cancelled(s, e)[n] # s[n] =>
                 /\ Execution[n] = e /\ s[n] \in ActiveStatuses
                 /\ Cancelled(s, e)[n] = "CANCELLED" /\ HasFailed(s, e)
           /\ HasFailed(s, e) => ActiveNodes(Cancelled(s, e), e) = {}
           /\ HasFailed(Cancelled(s, e), e) <=> HasFailed(s, e)
           /\ ~HasFailed(s, e) => Cancelled(s, e) = s
  BY DEF Cancelled, HasFailed, ActiveNodes, NodesOf, NodeStatuses, ActiveStatuses

\* Reconciling moves a node only from PENDING to READY or from an active
\* status to CANCELLED, the latter only in an execution with a failed node.
LEMMA ReconciledFacts ==
    ASSUME NEW s \in [Nodes -> NodeStatuses], NEW e \in Executions
    PROVE  /\ Reconciled(s, e) \in [Nodes -> NodeStatuses]
           /\ \A n \in Nodes : Reconciled(s, e)[n] # s[n] =>
                 /\ Execution[n] = e /\ s[n] \in ActiveStatuses
                 /\ \/ Reconciled(s, e)[n] = "CANCELLED" /\ HasFailed(Reconciled(s, e), e)
                    \/ /\ Reconciled(s, e)[n] = "READY" /\ s[n] = "PENDING"
                       /\ \A d \in Deps[n] : s[d] = "SUCCEEDED"
           /\ HasFailed(Reconciled(s, e), e) <=> HasFailed(s, e)
  <1> DEFINE p == Promoted(s, e)
  <1>1. p \in [Nodes -> NodeStatuses]
    BY PromotedFacts
  <1>2. HasFailed(p, e) <=> HasFailed(s, e)
    BY <1>1, PromotedFacts DEF HasFailed, NodesOf
  <1>3. Reconciled(s, e) = Cancelled(p, e)
    BY DEF Reconciled
  <1>4. /\ Cancelled(p, e) \in [Nodes -> NodeStatuses]
        /\ \A n \in Nodes : Cancelled(p, e)[n] # p[n] =>
              /\ Execution[n] = e /\ p[n] \in ActiveStatuses
              /\ Cancelled(p, e)[n] = "CANCELLED" /\ HasFailed(p, e)
        /\ HasFailed(Cancelled(p, e), e) <=> HasFailed(p, e)
    BY <1>1, CancelledFacts
  <1>5. \A n \in Nodes : p[n] # s[n] =>
            /\ Execution[n] = e /\ s[n] = "PENDING" /\ p[n] = "READY"
            /\ \A d \in Deps[n] : s[d] = "SUCCEEDED"
    BY PromotedFacts
  <1> HIDE DEF p
  <1> QED
    BY <1>2, <1>3, <1>4, <1>5 DEF ActiveStatuses

\* The execution status promoteAndReconcileSOAR stores agrees with the node
\* rows it leaves behind.
LEMMA ReconciledOutcome ==
    ASSUME NEW s \in [Nodes -> NodeStatuses], NEW e \in Executions
    PROVE  /\ ReconciledExecution(s, e) \in ExecutionStatuses \ {"QUEUED"}
           /\ HasFailed(Reconciled(s, e), e) <=> ReconciledExecution(s, e) = "FAILED"
           /\ ReconciledExecution(s, e) \in TerminalExecution => ActiveNodes(Reconciled(s, e), e) = {}
  <1> DEFINE p == Promoted(s, e)
  <1>1. p \in [Nodes -> NodeStatuses]
    BY PromotedFacts
  <1>2. /\ ExecutionVerdict(p, e) \in ExecutionStatuses \ {"QUEUED"}
        /\ HasFailed(p, e) <=> ExecutionVerdict(p, e) = "FAILED"
        /\ ExecutionVerdict(p, e) = "SUCCEEDED" => ActiveNodes(p, e) = {}
    BY DEF ExecutionVerdict, ExecutionStatuses
  <1>3. /\ HasFailed(p, e) => ActiveNodes(Cancelled(p, e), e) = {}
        /\ HasFailed(Cancelled(p, e), e) <=> HasFailed(p, e)
        /\ ~HasFailed(p, e) => Cancelled(p, e) = p
    BY <1>1, CancelledFacts
  <1>4. Reconciled(s, e) = Cancelled(p, e) /\ ReconciledExecution(s, e) = ExecutionVerdict(p, e)
    BY DEF Reconciled, ReconciledExecution
  <1> HIDE DEF p
  <1> QED
    BY <1>2, <1>3, <1>4 DEF TerminalExecution

----------------------------------------------------------------------------
(* The runtime                                                              *)

\* What a transaction changed about finished rows: nothing.
FinishedKept ==
    /\ \A m \in Nodes : nodeStatus[m] \notin ActiveStatuses => nodeStatus'[m] = nodeStatus[m]
    /\ \A e \in Executions : execStatus[e] \in TerminalExecution => execStatus'[e] = execStatus[e]

\* Every transaction that ends in promoteAndReconcileSOAR keeps the node rows
\* in order and the execution's status in agreement with them, provided it
\* settles an active node whose dependencies are done, or leaves a cancelled
\* node as it is.
LEMMA SettleFacts ==
    ASSUME TypeOK, NodesInOrder, RunOutcome,
           NEW n \in Nodes, NEW st \in NodeStatuses \ {"PENDING", "RUNNING", "READY"},
           SettleAndReconcile(n, st),
           \/ nodeStatus[n] \in ActiveStatuses /\ st # "CANCELLED" /\ DependenciesDone(n)
           \/ nodeStatus[n] = "CANCELLED" /\ st = "CANCELLED"
    PROVE  /\ nodeStatus' \in [Nodes -> NodeStatuses]
           /\ execStatus' \in [Executions -> ExecutionStatuses]
           /\ leaseOwner' \in [Nodes -> Workers \cup {NoWorker}]
           /\ leaseLive' \in [Nodes -> BOOLEAN]
           /\ NodesInOrder'
           /\ RunOutcome'
           /\ FinishedKept
           /\ nodeStatus'[n] = st \/ (st \in ActiveStatuses /\ nodeStatus'[n] = "CANCELLED")
           /\ \A m \in Nodes \ {n} : nodeStatus'[m] # nodeStatus[m] =>
                 nodeStatus'[m] = "CANCELLED" \/ (nodeStatus'[m] = "READY" /\ nodeStatus[m] = "PENDING")
           /\ \A m \in Nodes : nodeStatus'[m] = "RUNNING" =>
                 m # n /\ nodeStatus[m] = "RUNNING" /\ leaseOwner'[m] = leaseOwner[m]
  <1> DEFINE e == Execution[n]
             s == [nodeStatus EXCEPT ![n] = st]
             r == Reconciled(s, e)
  <1>1. e \in Executions /\ s \in [Nodes -> NodeStatuses]
    BY DagAssumption DEF TypeOK
  <1>2. /\ nodeStatus' = r
        /\ execStatus' = [execStatus EXCEPT ![e] = ReconciledExecution(s, e)]
        /\ leaseOwner' = [m \in Nodes |-> IF m = n \/ r[m] = "CANCELLED" THEN NoWorker ELSE leaseOwner[m]]
        /\ leaseLive' = [m \in Nodes |-> m # n /\ r[m] # "CANCELLED" /\ leaseLive[m]]
    BY DEF SettleAndReconcile
  <1>3. /\ r \in [Nodes -> NodeStatuses]
        /\ \A m \in Nodes : r[m] # s[m] =>
              /\ Execution[m] = e /\ s[m] \in ActiveStatuses
              /\ \/ r[m] = "CANCELLED" /\ HasFailed(r, e)
                 \/ r[m] = "READY" /\ s[m] = "PENDING" /\ \A d \in Deps[m] : s[d] = "SUCCEEDED"
        /\ HasFailed(r, e) <=> HasFailed(s, e)
    <2> HIDE DEF s
    <2> QED
      BY <1>1, ReconciledFacts
  <1>4. /\ ReconciledExecution(s, e) \in ExecutionStatuses
        /\ HasFailed(r, e) <=> ReconciledExecution(s, e) = "FAILED"
        /\ ReconciledExecution(s, e) \in TerminalExecution => ActiveNodes(r, e) = {}
    BY <1>1, ReconciledOutcome
  <1>5. s[n] = st /\ \A m \in Nodes \ {n} : s[m] = nodeStatus[m]
    BY DEF TypeOK
  <1> HIDE DEF r, s
  <1>c. \A m \in Nodes : r[m] # s[m] =>
           s[m] \in ActiveStatuses /\ (r[m] = "CANCELLED" \/ (r[m] = "READY" /\ s[m] = "PENDING"))
    BY <1>3
  <1>6. \A m \in Nodes : nodeStatus[m] \notin ActiveStatuses => r[m] = nodeStatus[m] /\ s[m] = nodeStatus[m]
    BY <1>3, <1>5
  <1>7. \A m \in Nodes : DependenciesDone(m) => DependenciesDone(m)'
    BY <1>2, <1>6, DagAssumption DEF DependenciesDone, ActiveStatuses
  <1>8. \A x \in Executions : HasFailed(nodeStatus, x) => HasFailed(r, x)
    BY <1>6 DEF HasFailed, NodesOf, ActiveStatuses
  <1>9. NodesInOrder'
    <2> SUFFICES ASSUME NEW m \in Nodes
                 PROVE  /\ r[m] \notin {"PENDING", "CANCELLED"} => DependenciesDone(m)'
                        /\ r[m] = "CANCELLED" => HasFailed(r, Execution[m])
      BY <1>2 DEF NodesInOrder
    <2>1. CASE r[m] # s[m]
      <3>1. CASE r[m] = "CANCELLED" /\ HasFailed(r, e)
        BY <2>1, <3>1, <1>3
      <3>2. CASE r[m] = "READY" /\ \A d \in Deps[m] : s[d] = "SUCCEEDED"
        <4>1. \A d \in Deps[m] : r[d] = "SUCCEEDED"
          BY <3>2, <1>3, DagAssumption DEF ActiveStatuses
        <4> QED
          BY <4>1, <3>2, <1>2 DEF DependenciesDone
      <3> QED
        BY <2>1, <3>1, <3>2, <1>3
    <2>2. CASE r[m] = s[m] /\ m = n
      <3>1. CASE nodeStatus[n] = "CANCELLED" /\ st = "CANCELLED"
        BY <2>2, <3>1, <1>5, <1>8, DagAssumption DEF NodesInOrder
      <3>2. CASE st # "CANCELLED" /\ DependenciesDone(n)
        BY <2>2, <3>2, <1>5, <1>7
      <3> QED
        BY <3>1, <3>2
    <2>3. CASE r[m] = s[m] /\ m # n
      BY <2>3, <1>5, <1>7, <1>8, DagAssumption DEF NodesInOrder
    <2> QED
      BY <2>1, <2>2, <2>3
  <1>10. RunOutcome'
    <2> SUFFICES ASSUME NEW x \in Executions
                 PROVE  /\ execStatus'[x] \in TerminalExecution => ActiveNodes(r, x) = {}
                        /\ HasFailed(r, x) <=> execStatus'[x] = "FAILED"
      BY <1>2 DEF RunOutcome
    <2>1. CASE x = e
      BY <2>1, <1>1, <1>2, <1>4 DEF TypeOK
    <2>2. CASE x # e
      <3>1. \A m \in NodesOf(x) : r[m] = nodeStatus[m]
        BY <2>2, <1>3, <1>5 DEF NodesOf
      <3>2. execStatus'[x] = execStatus[x]
        BY <2>2, <1>2 DEF TypeOK
      <3>3. ActiveNodes(r, x) = ActiveNodes(nodeStatus, x)
        BY <3>1 DEF ActiveNodes
      <3>4. HasFailed(r, x) <=> HasFailed(nodeStatus, x)
        BY <3>1 DEF HasFailed
      <3> QED
        BY <3>2, <3>3, <3>4 DEF RunOutcome
    <2> QED
      BY <2>1, <2>2
  <1>11. FinishedKept
    <2>1. \A m \in Nodes : nodeStatus[m] \notin ActiveStatuses => nodeStatus'[m] = nodeStatus[m]
      BY <1>2, <1>6
    <2>2. ASSUME NEW x \in Executions, execStatus[x] \in TerminalExecution
          PROVE  execStatus'[x] = execStatus[x]
      <3>1. CASE x # e
        BY <3>1, <1>2 DEF TypeOK
      <3>2. CASE x = e
        <4>1. nodeStatus[n] \notin ActiveStatuses
          BY <2>2, <3>2 DEF RunOutcome, ActiveNodes, NodesOf
        <4>2. HasFailed(nodeStatus, e) /\ execStatus[e] = "FAILED"
          BY <4>1, <1>1 DEF NodesInOrder, RunOutcome
        <4>3. ReconciledExecution(s, e) = "FAILED"
          BY <4>2, <1>1, <1>4, <1>8
        <4> QED
          BY <4>2, <4>3, <3>2, <1>1, <1>2 DEF TypeOK
      <3> QED
        BY <3>1, <3>2
    <2> QED
      BY <2>1, <2>2 DEF FinishedKept
  <1>12. nodeStatus'[n] = st \/ (st \in ActiveStatuses /\ nodeStatus'[n] = "CANCELLED")
    BY <1>c, <1>2, <1>5
  <1>13. \A m \in Nodes \ {n} : nodeStatus'[m] # nodeStatus[m] =>
            nodeStatus'[m] = "CANCELLED" \/ (nodeStatus'[m] = "READY" /\ nodeStatus[m] = "PENDING")
    <2> TAKE m \in Nodes \ {n}
    <2>1. s[m] = nodeStatus[m]
      BY <1>5
    <2>2. r[m] # s[m] => r[m] = "CANCELLED" \/ (r[m] = "READY" /\ s[m] = "PENDING")
      BY <1>c
    <2> QED
      BY <1>2, <2>1, <2>2
  <1>14. \A m \in Nodes : nodeStatus'[m] = "RUNNING" =>
            m # n /\ nodeStatus[m] = "RUNNING" /\ leaseOwner'[m] = leaseOwner[m]
    <2> SUFFICES ASSUME NEW m \in Nodes, r[m] = "RUNNING"
                 PROVE  m # n /\ nodeStatus[m] = "RUNNING" /\ leaseOwner'[m] = leaseOwner[m]
      BY <1>2
    <2>1. r[m] = s[m]
      BY <1>3
    <2>2. m # n /\ s[m] = nodeStatus[m]
      BY <2>1, <1>5
    <2> QED
      BY <1>2, <2>1, <2>2
  <1>15. /\ nodeStatus' \in [Nodes -> NodeStatuses]
         /\ execStatus' \in [Executions -> ExecutionStatuses]
         /\ leaseOwner' \in [Nodes -> Workers \cup {NoWorker}]
         /\ leaseLive' \in [Nodes -> BOOLEAN]
    <2>1. nodeStatus' \in [Nodes -> NodeStatuses] /\ execStatus' \in [Executions -> ExecutionStatuses]
      BY <1>2, <1>3, <1>4 DEF TypeOK
    <2>2. leaseOwner' \in [Nodes -> Workers \cup {NoWorker}]
      BY <1>2 DEF TypeOK
    <2>3. leaseLive' \in [Nodes -> BOOLEAN]
      BY <1>2 DEF TypeOK
    <2> QED
      BY <2>1, <2>2, <2>3
  <1> QED
    BY <1>9, <1>10, <1>11, <1>12, <1>13, <1>14, <1>15

-----------------------------------------------------------------------------
(* Claims *)

\* NodesInOrder and RunOutcome of any node and execution statuses.
OrderOf(s) ==
    \A m \in Nodes :
        /\ s[m] \notin {"PENDING", "CANCELLED"} => \A d \in Deps[m] : s[d] = "SUCCEEDED"
        /\ s[m] = "CANCELLED" => HasFailed(s, Execution[m])
OutcomeOf(s, x) ==
    \A e \in Executions :
        /\ x[e] \in TerminalExecution => ActiveNodes(s, e) = {}
        /\ HasFailed(s, e) <=> x[e] = "FAILED"

\* expireSOARApprovals, the first half of a claim, fails exactly the nodes
\* whose approval is overdue and reconciles their executions; finished rows
\* are left as they are even when the approval outlived its execution.
LEMMA ExpiryFacts ==
    ASSUME TypeOK, NodesInOrder, RunOutcome, ApprovalTracksNode
    PROVE  /\ NodesAfterExpiry \in [Nodes -> NodeStatuses]
           /\ ExecutionsAfterExpiry \in [Executions -> ExecutionStatuses]
           /\ OrderOf(NodesAfterExpiry)
           /\ OutcomeOf(NodesAfterExpiry, ExecutionsAfterExpiry)
           /\ \A m \in Nodes : NodesAfterExpiry[m] # nodeStatus[m] =>
                 /\ nodeStatus[m] \in ActiveStatuses
                 /\ \/ NodesAfterExpiry[m] = "CANCELLED"
                    \/ NodesAfterExpiry[m] = "READY" /\ nodeStatus[m] = "PENDING"
                    \/ NodesAfterExpiry[m] = "FAILED" /\ m \in Overdue
           /\ \A m \in Overdue : NodesAfterExpiry[m] \in {"FAILED", "CANCELLED"}
           /\ \A e \in Executions : execStatus[e] \in TerminalExecution =>
                 ExecutionsAfterExpiry[e] = execStatus[e]
  <1> DEFINE s == ExpiredNodes
             a == NodesAfterExpiry
             x == ExecutionsAfterExpiry
             E == ExpiringExecutions
  <1>1. /\ s \in [Nodes -> NodeStatuses]
        /\ \A m \in Nodes : s[m] # nodeStatus[m] =>
              s[m] = "FAILED" /\ nodeStatus[m] = "WAITING_APPROVAL" /\ m \in Overdue
        /\ \A m \in Overdue : s[m] \in {"FAILED", "CANCELLED"}
    BY DEF ExpiredNodes, Overdue, TypeOK, NodeStatuses, ApprovalTracksNode, ApprovalRowOK
  <1>2. E \subseteq Executions /\ \A m \in Overdue : m \in Nodes /\ Execution[m] \in E
    BY DagAssumption DEF ExpiringExecutions, Overdue
  <1>3. \A e \in Executions :
           /\ Reconciled(s, e) \in [Nodes -> NodeStatuses]
           /\ \A m \in Nodes : Reconciled(s, e)[m] # s[m] =>
                 /\ Execution[m] = e /\ s[m] \in ActiveStatuses
                 /\ \/ Reconciled(s, e)[m] = "CANCELLED" /\ HasFailed(Reconciled(s, e), e)
                    \/ /\ Reconciled(s, e)[m] = "READY" /\ s[m] = "PENDING"
                       /\ \A d \in Deps[m] : s[d] = "SUCCEEDED"
           /\ HasFailed(Reconciled(s, e), e) <=> HasFailed(s, e)
    BY <1>1, ReconciledFacts
  <1>4. \A e \in Executions :
           /\ ReconciledExecution(s, e) \in ExecutionStatuses
           /\ HasFailed(Reconciled(s, e), e) <=> ReconciledExecution(s, e) = "FAILED"
           /\ ReconciledExecution(s, e) \in TerminalExecution => ActiveNodes(Reconciled(s, e), e) = {}
    BY <1>1, ReconciledOutcome
  <1>5. /\ a = [m \in Nodes |-> IF Execution[m] \in E THEN Reconciled(s, Execution[m])[m] ELSE nodeStatus[m]]
        /\ x = [e \in Executions |-> IF e \in E THEN ReconciledExecution(s, e) ELSE execStatus[e]]
    BY DEF NodesAfterExpiry, ExecutionsAfterExpiry
  <1> HIDE DEF s, a, x, E
  <1>6. \A m \in Nodes : Execution[m] \notin E => a[m] = nodeStatus[m] /\ s[m] = nodeStatus[m]
    BY <1>1, <1>2, <1>5
  <1>7. \A m \in Nodes : a[m] # s[m] =>
           /\ s[m] \in ActiveStatuses
           /\ \/ a[m] = "CANCELLED" /\ HasFailed(Reconciled(s, Execution[m]), Execution[m])
              \/ a[m] = "READY" /\ s[m] = "PENDING" /\ \A d \in Deps[m] : s[d] = "SUCCEEDED"
    BY <1>2, <1>3, <1>5, <1>6, DagAssumption
  <1>8. /\ a \in [Nodes -> NodeStatuses]
        /\ x \in [Executions -> ExecutionStatuses]
    <2>1. a \in [Nodes -> NodeStatuses]
      BY <1>2, <1>3, <1>5, DagAssumption DEF TypeOK
    <2>2. x \in [Executions -> ExecutionStatuses]
      BY <1>4, <1>5 DEF TypeOK
    <2> QED
      BY <2>1, <2>2
  <1>9. \A m \in Nodes : s[m] \notin ActiveStatuses => a[m] = s[m]
    BY <1>7
  <1>10. \A m \in Nodes : nodeStatus[m] \notin ActiveStatuses => s[m] = nodeStatus[m] /\ a[m] = nodeStatus[m]
    BY <1>1, <1>9 DEF ActiveStatuses
  <1>11. \A e \in E : \A m \in NodesOf(e) : a[m] = Reconciled(s, e)[m]
    BY <1>5 DEF NodesOf
  <1>12. \A e \in E : /\ HasFailed(a, e) <=> HasFailed(Reconciled(s, e), e)
                      /\ ActiveNodes(a, e) = ActiveNodes(Reconciled(s, e), e)
    BY <1>11 DEF HasFailed, ActiveNodes
  <1>13. \A e \in Executions \ E : /\ HasFailed(a, e) <=> HasFailed(nodeStatus, e)
                                   /\ ActiveNodes(a, e) = ActiveNodes(nodeStatus, e)
    BY <1>6 DEF HasFailed, ActiveNodes, NodesOf
  <1>14. OutcomeOf(a, x)
    <2> SUFFICES ASSUME NEW e \in Executions
                 PROVE  /\ x[e] \in TerminalExecution => ActiveNodes(a, e) = {}
                        /\ HasFailed(a, e) <=> x[e] = "FAILED"
      BY DEF OutcomeOf
    <2>1. CASE e \in E
      BY <2>1, <1>4, <1>5, <1>12
    <2>2. CASE e \notin E
      BY <2>2, <1>5, <1>13 DEF RunOutcome
    <2> QED
      BY <2>1, <2>2
  <1>15. OrderOf(a)
    <2> SUFFICES ASSUME NEW m \in Nodes
                 PROVE  /\ a[m] \notin {"PENDING", "CANCELLED"} => \A d \in Deps[m] : a[d] = "SUCCEEDED"
                        /\ a[m] = "CANCELLED" => HasFailed(a, Execution[m])
      BY DEF OrderOf
    <2>1. HasFailed(nodeStatus, Execution[m]) => HasFailed(a, Execution[m])
      BY <1>10 DEF HasFailed, NodesOf, ActiveStatuses
    <2>2. \A d \in Deps[m] : d \in Nodes /\ (s[d] = "SUCCEEDED" => a[d] = "SUCCEEDED")
                                       /\ (nodeStatus[d] = "SUCCEEDED" => a[d] = "SUCCEEDED")
      BY <1>9, <1>10, DagAssumption DEF ActiveStatuses
    <2>3. CASE a[m] # s[m]
      <3>1. CASE a[m] = "CANCELLED" /\ HasFailed(Reconciled(s, Execution[m]), Execution[m])
        <4>1. Execution[m] \in E
          BY <2>3, <1>6
        <4> QED
          BY <3>1, <4>1, <1>12
      <3>2. CASE a[m] = "READY" /\ \A d \in Deps[m] : s[d] = "SUCCEEDED"
        BY <3>2, <2>2
      <3> QED
        BY <2>3, <3>1, <3>2, <1>7
    <2>4. CASE a[m] = s[m] /\ s[m] # nodeStatus[m]
      BY <2>4, <2>2, <1>1 DEF NodesInOrder, DependenciesDone
    <2>5. CASE a[m] = s[m] /\ s[m] = nodeStatus[m]
      BY <2>5, <2>1, <2>2 DEF NodesInOrder, DependenciesDone
    <2> QED
      BY <2>3, <2>4, <2>5
  <1>16. \A m \in Nodes : a[m] # nodeStatus[m] =>
            /\ nodeStatus[m] \in ActiveStatuses
            /\ \/ a[m] = "CANCELLED"
               \/ a[m] = "READY" /\ nodeStatus[m] = "PENDING"
               \/ a[m] = "FAILED" /\ m \in Overdue
    BY <1>1, <1>7, <1>10 DEF ActiveStatuses
  <1>17. \A m \in Overdue : a[m] \in {"FAILED", "CANCELLED"}
    BY <1>1, <1>2, <1>9 DEF ActiveStatuses
  <1>18. ASSUME NEW e \in Executions, execStatus[e] \in TerminalExecution
         PROVE  x[e] = execStatus[e]
    <2>1. CASE e \notin E
      BY <2>1, <1>5
    <2>2. CASE e \in E
      <3>1. PICK k \in Overdue : Execution[k] = e
        BY <2>2 DEF E, ExpiringExecutions
      <3>2. nodeStatus[k] \notin ActiveStatuses
        BY <1>18, <3>1, <1>2 DEF RunOutcome, ActiveNodes, NodesOf
      <3>3. nodeStatus[k] = "CANCELLED"
        BY <3>2, <1>2 DEF ApprovalTracksNode, ApprovalRowOK, Overdue, ActiveStatuses
      <3>4. HasFailed(nodeStatus, e) /\ execStatus[e] = "FAILED"
        BY <3>1, <3>3, <1>2 DEF NodesInOrder, RunOutcome
      <3>5. HasFailed(s, e)
        BY <3>4, <1>10 DEF HasFailed, NodesOf, ActiveStatuses
      <3> QED
        BY <2>2, <3>4, <3>5, <1>3, <1>4, <1>5
    <2> QED
      BY <2>1, <2>2
  <1> QED
    BY <1>8, <1>14, <1>15, <1>16, <1>17, <1>18 DEF a, x

\* ClaimSOARNode as a whole: it leases one READY or abandoned node of a live
\* execution, after its dependencies, on top of the expiry.
LEMMA ClaimFacts ==
    ASSUME TypeOK, NodesInOrder, RunOutcome, ApprovalTracksNode,
           NEW w \in Workers, NEW n \in Nodes, ClaimSOARNode(w, n)
    PROVE  /\ nodeStatus' \in [Nodes -> NodeStatuses]
           /\ execStatus' \in [Executions -> ExecutionStatuses]
           /\ leaseOwner' \in [Nodes -> Workers \cup {NoWorker}]
           /\ leaseLive' \in [Nodes -> BOOLEAN]
           /\ NodesInOrder'
           /\ RunOutcome'
           /\ FinishedKept
           /\ nodeStatus[n] \in {"PENDING", "READY", "RUNNING"} /\ nodeStatus'[n] = "RUNNING"
           /\ leaseOwner'[n] = w
           /\ DependenciesDone(n)'
           /\ \A m \in Nodes \ {n} : nodeStatus'[m] # nodeStatus[m] =>
                 \/ nodeStatus'[m] = "CANCELLED"
                 \/ nodeStatus'[m] = "READY" /\ nodeStatus[m] = "PENDING"
                 \/ nodeStatus'[m] = "FAILED" /\ m \in Overdue
           /\ \A m \in Overdue : m # n /\ nodeStatus'[m] \in {"FAILED", "CANCELLED"}
           /\ \A m \in Nodes \ {n} : nodeStatus'[m] = "RUNNING" =>
                 nodeStatus[m] = "RUNNING" /\ leaseOwner'[m] = leaseOwner[m]
  <1> DEFINE a == NodesAfterExpiry
             x == ExecutionsAfterExpiry
             e == Execution[n]
  <1>1. /\ a \in [Nodes -> NodeStatuses]
        /\ x \in [Executions -> ExecutionStatuses]
        /\ OrderOf(a)
        /\ OutcomeOf(a, x)
        /\ \A m \in Nodes : a[m] # nodeStatus[m] =>
              /\ nodeStatus[m] \in ActiveStatuses
              /\ \/ a[m] = "CANCELLED"
                 \/ a[m] = "READY" /\ nodeStatus[m] = "PENDING"
                 \/ a[m] = "FAILED" /\ m \in Overdue
        /\ \A m \in Overdue : a[m] \in {"FAILED", "CANCELLED"}
        /\ \A y \in Executions : execStatus[y] \in TerminalExecution => x[y] = execStatus[y]
    BY ExpiryFacts
  <1>2. /\ x[e] \in LiveExecution
        /\ a[n] = "READY" \/ a[n] = "RUNNING"
        /\ nodeStatus' = [a EXCEPT ![n] = "RUNNING"]
        /\ execStatus' = [x EXCEPT ![e] = "RUNNING"]
        /\ leaseOwner' = [m \in Nodes |->
              IF m = n THEN w ELSE IF a[m] = "CANCELLED" THEN NoWorker ELSE leaseOwner[m]]
        /\ leaseLive' = [m \in Nodes |-> IF m = n THEN TRUE ELSE a[m] # "CANCELLED" /\ leaseLive[m]]
    BY DEF ClaimSOARNode, Claimable
  <1>3. e \in Executions
    BY DagAssumption
  <1> HIDE DEF a, x
  <1>4. nodeStatus'[n] = "RUNNING" /\ \A m \in Nodes \ {n} : nodeStatus'[m] = a[m]
    BY <1>1, <1>2
  <1>5. /\ \A y \in Executions : HasFailed(nodeStatus', y) <=> HasFailed(a, y)
        /\ \A y \in Executions : ActiveNodes(nodeStatus', y) = ActiveNodes(a, y)
        /\ \A m \in Nodes : a[m] = "SUCCEEDED" => nodeStatus'[m] = "SUCCEEDED"
    BY <1>2, <1>4 DEF HasFailed, ActiveNodes, NodesOf, ActiveStatuses
  <1>6. DependenciesDone(n)'
    BY <1>1, <1>2, <1>5, DagAssumption DEF OrderOf, DependenciesDone
  <1>7. NodesInOrder'
    <2> SUFFICES ASSUME NEW m \in Nodes
                 PROVE  /\ nodeStatus'[m] \notin {"PENDING", "CANCELLED"} => DependenciesDone(m)'
                        /\ nodeStatus'[m] = "CANCELLED" => HasFailed(nodeStatus', Execution[m])
      BY DEF NodesInOrder
    <2>1. CASE m = n
      BY <2>1, <1>4, <1>6
    <2>2. CASE m # n
      BY <2>2, <1>1, <1>4, <1>5, DagAssumption DEF OrderOf, DependenciesDone
    <2> QED
      BY <2>1, <2>2
  <1>8. RunOutcome'
    <2> SUFFICES ASSUME NEW y \in Executions
                 PROVE  /\ execStatus'[y] \in TerminalExecution => ActiveNodes(nodeStatus', y) = {}
                        /\ HasFailed(nodeStatus', y) <=> execStatus'[y] = "FAILED"
      BY DEF RunOutcome
    <2>1. CASE y = e
      BY <2>1, <1>1, <1>2, <1>3, <1>5, Zenon DEF OutcomeOf, LiveExecution, TerminalExecution
    <2>2. CASE y # e
      BY <2>2, <1>1, <1>2, <1>3, <1>5 DEF OutcomeOf
    <2> QED
      BY <2>1, <2>2
  <1>9. FinishedKept
    <2>1. \A m \in Nodes : nodeStatus[m] \notin ActiveStatuses => nodeStatus'[m] = nodeStatus[m]
      BY <1>1, <1>2, <1>4 DEF ActiveStatuses
    <2>2. \A y \in Executions : execStatus[y] \in TerminalExecution => execStatus'[y] = execStatus[y]
      BY <1>1, <1>2, <1>3 DEF LiveExecution, TerminalExecution
    <2> QED
      BY <2>1, <2>2 DEF FinishedKept
  <1>10. nodeStatus[n] \in {"PENDING", "READY", "RUNNING"} /\ leaseOwner'[n] = w
    BY <1>1, <1>2
  <1>11. \A m \in Nodes \ {n} : nodeStatus'[m] # nodeStatus[m] =>
            \/ nodeStatus'[m] = "CANCELLED"
            \/ nodeStatus'[m] = "READY" /\ nodeStatus[m] = "PENDING"
            \/ nodeStatus'[m] = "FAILED" /\ m \in Overdue
    BY <1>1, <1>4
  <1>12. \A m \in Overdue : m # n /\ nodeStatus'[m] \in {"FAILED", "CANCELLED"}
    BY <1>1, <1>2, <1>4 DEF Overdue
  <1>13. \A m \in Nodes \ {n} : nodeStatus'[m] = "RUNNING" =>
            nodeStatus[m] = "RUNNING" /\ leaseOwner'[m] = leaseOwner[m]
    BY <1>1, <1>2, <1>4
  <1>14. /\ nodeStatus' \in [Nodes -> NodeStatuses]
         /\ execStatus' \in [Executions -> ExecutionStatuses]
    BY <1>1, <1>2, <1>3 DEF NodeStatuses, ExecutionStatuses
  <1>15. leaseOwner' \in [Nodes -> Workers \cup {NoWorker}]
    BY <1>2 DEF TypeOK
  <1>16. leaseLive' \in [Nodes -> BOOLEAN]
    BY <1>2 DEF TypeOK
  <1> QED
    BY <1>4, <1>6, <1>7, <1>8, <1>9, <1>10, <1>11, <1>12, <1>13, <1>14, <1>15, <1>16

-----------------------------------------------------------------------------
(* Workers *)

\* The fields of the item a worker has in hand.
LEMMA ItemFacts ==
    ASSUME TypeOK, NEW w \in Workers, worker[w].pc # "idle"
    PROVE  /\ worker[w] # Idle
           /\ worker[w].node \in Nodes
           /\ worker[w].attempt \in Nat
           /\ worker[w].pc \in {"claimed", "calling", "called", "settle"}
           /\ worker[w].pc \in {"called", "settle"} =>
                 /\ worker[w].outcome \in Outcomes
                 /\ worker[w] \in [pc : {"called", "settle"}, node : Nodes, attempt : Nat, outcome : Outcomes]
  BY DEF TypeOK, Working, Idle

\* Which items lead Worker.process to which store operation.
LEMMA VerdictFacts ==
    ASSUME TypeOK, NEW w \in Workers, Verdict(w) # "none"
    PROVE  /\ worker[w].pc \in {"claimed", "settle"}
           /\ worker[w].pc = "settle" => Verdict(w) = worker[w].outcome
           /\ worker[w].pc = "claimed" =>
                 /\ Verdict(w) = "begin" => Kind[worker[w].node] = "ACTION"
                 /\ Verdict(w) = "approval" => Kind[worker[w].node] = "HUMAN_APPROVAL"
                 /\ Verdict(w) = "manual" => Kind[worker[w].node] = "MANUAL_TASK"
                 /\ Verdict(w) = "ok" => Kind[worker[w].node] \in {"DELAY", "PASS"}
  <1>1. worker[w].pc \in {"claimed", "settle"}
    BY DEF Verdict
  <1>2. worker[w].pc = "settle" => Verdict(w) = worker[w].outcome
    BY DEF Verdict
  <1>3. ASSUME worker[w].pc = "claimed"
        PROVE  /\ Verdict(w) = "begin" => Kind[worker[w].node] = "ACTION"
               /\ Verdict(w) = "approval" => Kind[worker[w].node] = "HUMAN_APPROVAL"
               /\ Verdict(w) = "manual" => Kind[worker[w].node] = "MANUAL_TASK"
               /\ Verdict(w) = "ok" => Kind[worker[w].node] \in {"DELAY", "PASS"}
    <2>1. worker[w].node \in Nodes
      BY <1>3, ItemFacts
    <2>2. Kind[worker[w].node] \in Kinds
      BY <2>1, RuntimeAssumption
    <2> QED
      BY <1>3, <2>2 DEF Verdict, Kinds
  <1> QED
    BY <1>1, <1>2, <1>3

\* The parts of the invariant that speak of workers and providers survive a
\* step that keeps succeeded nodes, the ledger and the effects, and leaves
\* each worker at its item or makes it idle.
LEMMA WorkKept ==
    ASSUME RuntimeInv, FinishedKept, ledger' = ledger, effect' = effect,
           worker' \in [Workers -> {Idle} \cup Working],
           \A w \in Workers : worker'[w] = worker[w] \/ worker'[w] = Idle
    PROVE  WorkInOrder' /\ SuccessReported'
  <1>1. \A m \in Nodes : DependenciesDone(m) => DependenciesDone(m)'
    BY DagAssumption DEF FinishedKept, DependenciesDone, ActiveStatuses
  <1>2. \A w \in Workers : worker[w] # Idle => worker[w].node \in Nodes
    BY DEF RuntimeInv, TypeOK, Working
  <1>3. WorkInOrder'
    BY <1>1, <1>2 DEF RuntimeInv, WorkInOrder
  <1>4. SuccessReported'
    BY DEF RuntimeInv, SuccessReported, Idle
  <1> QED
    BY <1>3, <1>4

-----------------------------------------------------------------------------
(* Each kind of step preserves the invariant. *)

\* Decisions that are final stay as they are.
ApprovalsKept ==
    \A m \in Nodes : approval[m] \notin {"NONE", "PENDING"} => approval'[m] = approval[m]

\* The state an approval row of node n must be in for n to move to st.
ApprovalAllows(n, st) ==
    /\ approval'[n] # "NONE" => st \in {"WAITING_APPROVAL", "SUCCEEDED", "FAILED", "CANCELLED"}
    /\ approval'[n] = "PENDING" => st \in {"WAITING_APPROVAL", "CANCELLED"}
    /\ st = "WAITING_APPROVAL" => Kind[n] = "HUMAN_APPROVAL" /\ approval'[n] = "PENDING"
    /\ st = "WAITING_MANUAL" => Kind[n] = "MANUAL_TASK"
    /\ st = "SUCCEEDED" /\ Kind[n] = "HUMAN_APPROVAL" => approval'[n] = "APPROVED"
    /\ approval'[n] = "APPROVED" => Cardinality(Approvers(n)') >= Required[n]
    /\ decisions'[n][Initiator[Execution[n]]] = "NONE"

\* A transaction that settles a node and reconciles preserves the invariant
\* when its approval row allows the move and a success has an effect.
LEMMA SettlePreserves ==
    ASSUME RuntimeInv,
           NEW n \in Nodes, NEW st \in NodeStatuses \ {"PENDING", "RUNNING", "READY"},
           SettleAndReconcile(n, st),
           \/ nodeStatus[n] \in ActiveStatuses /\ st # "CANCELLED" /\ DependenciesDone(n)
           \/ nodeStatus[n] = "CANCELLED" /\ st = "CANCELLED",
           approval' \in [Nodes -> ApprovalStatuses], version' \in [Nodes -> Nat],
           decisions' \in [Nodes -> [People -> Decisions]], approvalDue' = approvalDue,
           \A m \in Nodes \ {n} : approval'[m] = approval[m] /\ decisions'[m] = decisions[m],
           ApprovalAllows(n, st),
           st = "SUCCEEDED" /\ Kind[n] = "ACTION" => effect[n] # "none",
           ledger' = ledger, effect' = effect, slips' = slips,
           worker' \in [Workers -> {Idle} \cup Working],
           \A w \in Workers : worker'[w] = worker[w] \/ worker'[w] = Idle
    PROVE  RuntimeInv' /\ FinishedKept
  <1>1. /\ nodeStatus' \in [Nodes -> NodeStatuses]
        /\ execStatus' \in [Executions -> ExecutionStatuses]
        /\ leaseOwner' \in [Nodes -> Workers \cup {NoWorker}]
        /\ leaseLive' \in [Nodes -> BOOLEAN]
        /\ NodesInOrder'
        /\ RunOutcome'
        /\ FinishedKept
        /\ nodeStatus'[n] = st \/ (st \in ActiveStatuses /\ nodeStatus'[n] = "CANCELLED")
        /\ \A m \in Nodes \ {n} : nodeStatus'[m] # nodeStatus[m] =>
              nodeStatus'[m] = "CANCELLED" \/ (nodeStatus'[m] = "READY" /\ nodeStatus[m] = "PENDING")
        /\ \A m \in Nodes : nodeStatus'[m] = "RUNNING" =>
              m # n /\ nodeStatus[m] = "RUNNING" /\ leaseOwner'[m] = leaseOwner[m]
    BY SettleFacts DEF RuntimeInv
  <1>2. TypeOK'
    BY <1>1 DEF RuntimeInv, TypeOK, SettleAndReconcile
  <1>3. ApprovalTracksNode'
    <2> SUFFICES ASSUME NEW m \in Nodes PROVE ApprovalRowOK(m)'
      BY DEF ApprovalTracksNode
    <2>1. CASE m = n
      BY <2>1, <1>1 DEF ApprovalAllows, ApprovalRowOK, ActiveStatuses
    <2>2. CASE m # n
      <3>1. ApprovalRowOK(m)
        BY DEF RuntimeInv, ApprovalTracksNode
      <3>2. Approvers(m)' = Approvers(m)
        BY <2>2 DEF Approvers
      <3>3. approval'[m] = approval[m] /\ decisions'[m] = decisions[m]
        BY <2>2
      <3>4. \/ nodeStatus'[m] = nodeStatus[m]
            \/ nodeStatus'[m] = "CANCELLED"
            \/ nodeStatus'[m] = "READY" /\ nodeStatus[m] = "PENDING"
        BY <2>2, <1>1
      <3> QED
        BY <3>1, <3>2, <3>3, <3>4 DEF ApprovalRowOK
    <2> QED
      BY <2>1, <2>2
  <1>4. NoOrphanWait'
    BY <1>1, <1>3 DEF RuntimeInv, NoOrphanWait, ApprovalTracksNode, ApprovalRowOK
  <1>5. WorkInOrder' /\ SuccessReported'
    BY <1>1, WorkKept
  <1>6. HolderIsCurrent'
    <2>1. attempt' = attempt
      BY DEF SettleAndReconcile
    <2>2. \A w \in Workers : worker[w] # Idle => worker[w].node \in Nodes
      BY DEF RuntimeInv, TypeOK, Working
    <2> QED
      BY <1>1, <2>1, <2>2 DEF RuntimeInv, HolderIsCurrent, HoldsLease
  <1>7. SuccessHasEffect'
    BY <1>1 DEF RuntimeInv, SuccessHasEffect, ActionNodes
  <1> QED
    BY <1>1, <1>2, <1>3, <1>4, <1>5, <1>6, <1>7 DEF RuntimeInv

\* The worker's settling operations: Complete, Fail and the two waits.
LEMMA WorkerSettles ==
    ASSUME RuntimeInv, NEW w \in Workers,
           \/ CompleteSOARNode(w)
           \/ FailSOARNode(w)
           \/ RequestSOARApproval(w)
           \/ RequestSOARManualTask(w)
    PROVE  RuntimeInv' /\ FinishedKept /\ ApprovalsKept
  <1> DEFINE n == worker[w].node
  <1>1. Verdict(w) # "none" /\ HoldsLease(w, n)
    BY DEF CompleteSOARNode, FailSOARNode, RequestSOARApproval, RequestSOARManualTask
  <1>2. TypeOK
    BY DEF RuntimeInv
  <1>3. worker[w].pc \in {"claimed", "settle"}
    BY <1>1, <1>2, VerdictFacts
  <1>4. n \in Nodes /\ worker[w] # Idle
    BY <1>2, <1>3, ItemFacts
  <1>5. nodeStatus[n] = "RUNNING" /\ nodeStatus[n] \in ActiveStatuses
    BY <1>1 DEF HoldsLease, ActiveStatuses
  <1>6. DependenciesDone(n)
    BY <1>4 DEF RuntimeInv, WorkInOrder
  <1>7. approval[n] = "NONE" /\ decisions[n][Initiator[Execution[n]]] = "NONE"
    BY <1>4, <1>5 DEF RuntimeInv, ApprovalTracksNode, ApprovalRowOK
  <1>8. worker' = [worker EXCEPT ![w] = Idle] /\ ledger' = ledger /\ effect' = effect /\ slips' = slips
    BY DEF CompleteSOARNode, FailSOARNode, RequestSOARApproval, RequestSOARManualTask
  <1>9. /\ worker' \in [Workers -> {Idle} \cup Working]
        /\ \A v \in Workers : worker'[v] = worker[v] \/ worker'[v] = Idle
    BY <1>2, <1>8 DEF TypeOK
  <1>10. CASE CompleteSOARNode(w)
    <2>1. SettleAndReconcile(n, "SUCCEEDED") /\ approvalVars' = approvalVars
      BY <1>10 DEF CompleteSOARNode
    <2>2. Kind[n] # "HUMAN_APPROVAL" /\ (Kind[n] = "ACTION" => effect[n] # "none")
      <3>1. Verdict(w) = "ok"
        BY <1>10 DEF CompleteSOARNode
      <3>2. CASE worker[w].pc = "settle"
        <4>1. worker[w].outcome = "ok"
          BY <3>1, <3>2, <1>1, <1>2, VerdictFacts
        <4> QED
          BY <3>2, <4>1, <1>4 DEF RuntimeInv, SuccessReported, WorkInOrder
      <3>3. CASE worker[w].pc = "claimed"
        BY <3>1, <3>3, <1>1, <1>2, VerdictFacts
      <3> QED
        BY <3>2, <3>3, <1>3
    <2>3. ApprovalAllows(n, "SUCCEEDED")
      BY <2>1, <2>2, <1>7 DEF ApprovalAllows, approvalVars
    <2>4. RuntimeInv' /\ FinishedKept
      BY <2>1, <2>2, <2>3, <1>2, <1>4, <1>5, <1>6, <1>8, <1>9, SettlePreserves
         DEF approvalVars, TypeOK, NodeStatuses
    <2> QED
      BY <2>1, <2>4 DEF ApprovalsKept, approvalVars
  <1>11. CASE FailSOARNode(w)
    <2>1. SettleAndReconcile(n, "FAILED") /\ approvalVars' = approvalVars
      BY <1>11 DEF FailSOARNode
    <2>2. ApprovalAllows(n, "FAILED")
      BY <2>1, <1>7 DEF ApprovalAllows, approvalVars
    <2>3. RuntimeInv' /\ FinishedKept
      BY <2>1, <2>2, <1>2, <1>4, <1>5, <1>6, <1>8, <1>9, SettlePreserves
         DEF approvalVars, TypeOK, NodeStatuses
    <2> QED
      BY <2>1, <2>3 DEF ApprovalsKept, approvalVars
  <1>12. CASE RequestSOARManualTask(w)
    <2>1. SettleAndReconcile(n, "WAITING_MANUAL") /\ approvalVars' = approvalVars
      BY <1>12 DEF RequestSOARManualTask
    <2>2. Kind[n] = "MANUAL_TASK"
      <3>1. Verdict(w) = "manual"
        BY <1>12 DEF RequestSOARManualTask
      <3>2. worker[w].pc = "claimed"
        BY <3>1, <1>2, <1>3, VerdictFacts, ItemFacts DEF Outcomes
      <3> QED
        BY <3>1, <3>2, <1>2, VerdictFacts
    <2>3. ApprovalAllows(n, "WAITING_MANUAL")
      BY <2>1, <2>2, <1>7 DEF ApprovalAllows, approvalVars
    <2>4. RuntimeInv' /\ FinishedKept
      BY <2>1, <2>3, <1>2, <1>4, <1>5, <1>6, <1>8, <1>9, SettlePreserves
         DEF approvalVars, TypeOK, NodeStatuses
    <2> QED
      BY <2>1, <2>4 DEF ApprovalsKept, approvalVars
  <1>13. CASE RequestSOARApproval(w)
    <2>1. /\ SettleAndReconcile(n, "WAITING_APPROVAL")
          /\ approval' = [approval EXCEPT ![n] = "PENDING"]
          /\ version' = [version EXCEPT ![n] = 1]
          /\ approvalDue' = approvalDue /\ decisions' = decisions
      BY <1>13, <1>7, <1>2, <1>4 DEF RequestSOARApproval, TypeOK
    <2>2. Kind[n] = "HUMAN_APPROVAL"
      <3>1. Verdict(w) = "approval"
        BY <1>13 DEF RequestSOARApproval
      <3>2. worker[w].pc = "claimed"
        BY <3>1, <1>2, <1>3, VerdictFacts, ItemFacts DEF Outcomes
      <3> QED
        BY <3>1, <3>2, <1>2, VerdictFacts
    <2>3. /\ approval' \in [Nodes -> ApprovalStatuses] /\ version' \in [Nodes -> Nat]
          /\ decisions' \in [Nodes -> [People -> Decisions]]
          /\ \A m \in Nodes \ {n} : approval'[m] = approval[m] /\ decisions'[m] = decisions[m]
          /\ approval'[n] = "PENDING"
      BY <2>1, <1>2, <1>4 DEF TypeOK, ApprovalStatuses
    <2>4. ApprovalAllows(n, "WAITING_APPROVAL")
      BY <2>1, <2>2, <2>3, <1>7 DEF ApprovalAllows
    <2>5. RuntimeInv' /\ FinishedKept
      BY <2>1, <2>3, <2>4, <1>4, <1>5, <1>6, <1>8, <1>9, SettlePreserves DEF NodeStatuses
    <2> QED
      BY <2>3, <2>5, <1>7 DEF ApprovalsKept
  <1> QED
    BY <1>10, <1>11, <1>12, <1>13

\* People: a decision, an overdue decision, a finished manual task.
LEMMA PersonPreserves ==
    ASSUME RuntimeInv, PersonStep
    PROVE  RuntimeInv' /\ FinishedKept /\ ApprovalsKept
  <1>1. TypeOK
    BY DEF RuntimeInv
  <1>2. ASSUME NEW n \in Nodes, CompleteSOARManualTask(n)
        PROVE  RuntimeInv' /\ FinishedKept /\ ApprovalsKept
    <2>1. /\ nodeStatus[n] = "WAITING_MANUAL" /\ SettleAndReconcile(n, "SUCCEEDED")
          /\ approvalVars' = approvalVars
          /\ worker' = worker /\ ledger' = ledger /\ effect' = effect /\ slips' = slips
      BY <1>2 DEF CompleteSOARManualTask
    <2>2. /\ Kind[n] = "MANUAL_TASK" /\ approval[n] = "NONE"
          /\ decisions[n][Initiator[Execution[n]]] = "NONE"
      BY <2>1 DEF RuntimeInv, ApprovalTracksNode, ApprovalRowOK
    <2>3. nodeStatus[n] \in ActiveStatuses /\ DependenciesDone(n)
      BY <2>1 DEF RuntimeInv, NodesInOrder, ActiveStatuses
    <2>4. ApprovalAllows(n, "SUCCEEDED")
      BY <2>1, <2>2 DEF ApprovalAllows, approvalVars
    <2>5. RuntimeInv' /\ FinishedKept
      BY <2>1, <2>2, <2>3, <2>4, <1>1, SettlePreserves DEF approvalVars, TypeOK, NodeStatuses
    <2> QED
      BY <2>1, <2>5 DEF ApprovalsKept, approvalVars
  <1>3. ASSUME NEW n \in Nodes, NEW v \in Versions, DecideOverdueApproval(n, v)
        PROVE  RuntimeInv' /\ FinishedKept /\ ApprovalsKept
    <2> DEFINE st == IF nodeStatus[n] = "WAITING_APPROVAL" THEN "FAILED" ELSE nodeStatus[n]
    <2>1. /\ approval[n] = "PENDING" /\ SettleAndReconcile(n, st)
          /\ approval' = [approval EXCEPT ![n] = "EXPIRED"]
          /\ version' = [version EXCEPT ![n] = @ + 1]
          /\ approvalDue' = approvalDue /\ decisions' = decisions
          /\ worker' = worker /\ ledger' = ledger /\ effect' = effect /\ slips' = slips
      BY <1>3 DEF DecideOverdueApproval
    <2>2. /\ nodeStatus[n] \in {"WAITING_APPROVAL", "CANCELLED"}
          /\ decisions[n][Initiator[Execution[n]]] = "NONE"
      BY <2>1 DEF RuntimeInv, ApprovalTracksNode, ApprovalRowOK
    <2>3. /\ st \in {"FAILED", "CANCELLED"}
          /\ \/ nodeStatus[n] \in ActiveStatuses /\ st # "CANCELLED" /\ DependenciesDone(n)
             \/ nodeStatus[n] = "CANCELLED" /\ st = "CANCELLED"
      BY <2>2 DEF RuntimeInv, NodesInOrder, ActiveStatuses
    <2>4. /\ approval' \in [Nodes -> ApprovalStatuses] /\ version' \in [Nodes -> Nat]
          /\ decisions' \in [Nodes -> [People -> Decisions]]
          /\ \A m \in Nodes \ {n} : approval'[m] = approval[m] /\ decisions'[m] = decisions[m]
          /\ approval'[n] = "EXPIRED"
      BY <2>1, <1>1 DEF TypeOK, ApprovalStatuses
    <2> HIDE DEF st
    <2>5. ApprovalAllows(n, st)
      BY <2>1, <2>2, <2>3, <2>4 DEF ApprovalAllows
    <2>6. st \in NodeStatuses \ {"PENDING", "RUNNING", "READY"}
      BY <2>3 DEF NodeStatuses
    <2>7. RuntimeInv' /\ FinishedKept
      BY <2>1, <2>3, <2>4, <2>5, <2>6, <1>1, SettlePreserves DEF TypeOK
    <2> QED
      BY <2>1, <2>4, <2>7 DEF ApprovalsKept
  <1>4. ASSUME NEW n \in Nodes, NEW p \in People, NEW decision \in {"APPROVE", "REJECT"},
               NEW v \in Versions, DecideSOARApproval(p, n, decision, v)
        PROVE  RuntimeInv' /\ FinishedKept /\ ApprovalsKept
    <2> DEFINE result == ApprovalResult(n, p, decision)
    <2>1. /\ approval[n] = "PENDING" /\ p # Initiator[Execution[n]]
          /\ decisions' = [decisions EXCEPT ![n][p] = decision]
          /\ approval' = [approval EXCEPT ![n] = result]
          /\ version' = [version EXCEPT ![n] = @ + 1]
          /\ approvalDue' = approvalDue
          /\ worker' = worker /\ ledger' = ledger /\ effect' = effect /\ slips' = slips
      BY <1>4 DEF DecideSOARApproval
    <2>2. /\ result \in {"REJECTED", "APPROVED", "PENDING"}
          /\ result = "APPROVED" =>
                decision = "APPROVE" /\ Cardinality(Approvers(n) \cup {p}) >= Required[n]
      BY DEF ApprovalResult
    <2> HIDE DEF result
    <2>3. /\ approval' \in [Nodes -> ApprovalStatuses] /\ version' \in [Nodes -> Nat]
          /\ \A m \in Nodes \ {n} : approval'[m] = approval[m]
          /\ approval'[n] = result
      BY <2>1, <2>2, <1>1 DEF TypeOK, ApprovalStatuses
    <2>4. /\ decisions' \in [Nodes -> [People -> Decisions]]
          /\ \A m \in Nodes \ {n} : decisions'[m] = decisions[m]
          /\ \A q \in People \ {p} : decisions'[n][q] = decisions[n][q]
          /\ decisions'[n][p] = decision
      BY <2>1, <1>1 DEF TypeOK, Decisions
    <2>5. decisions'[n][Initiator[Execution[n]]] = "NONE"
      <3>1. decisions[n][Initiator[Execution[n]]] = "NONE"
        BY DEF RuntimeInv, ApprovalTracksNode, ApprovalRowOK
      <3>2. Initiator[Execution[n]] \in People
        BY DagAssumption, RuntimeAssumption
      <3> QED
        BY <3>1, <3>2, <2>1, <2>4
    <2>6. decision = "APPROVE" => Approvers(n)' = Approvers(n) \cup {p}
      BY <2>4 DEF Approvers
    <2>7. approval'[n] = "APPROVED" => Cardinality(Approvers(n)') >= Required[n]
      BY <2>2, <2>3, <2>6
    <2>8. nodeStatus[n] \in {"WAITING_APPROVAL", "CANCELLED"}
      BY <2>1 DEF RuntimeInv, ApprovalTracksNode, ApprovalRowOK
    <2>9. CASE result # "PENDING"
      <3> DEFINE st == IF result = "APPROVED" THEN "SUCCEEDED" ELSE "FAILED"
      <3>1. nodeStatus[n] = "WAITING_APPROVAL" /\ SettleAndReconcile(n, st)
        BY <1>4, <2>9 DEF DecideSOARApproval, result
      <3>2. nodeStatus[n] \in ActiveStatuses /\ DependenciesDone(n) /\ Kind[n] = "HUMAN_APPROVAL"
        BY <3>1 DEF RuntimeInv, NodesInOrder, ApprovalTracksNode, ApprovalRowOK, ActiveStatuses
      <3>3. /\ st \in {"SUCCEEDED", "FAILED"}
            /\ st = "SUCCEEDED" => result = "APPROVED"
        OBVIOUS
      <3> HIDE DEF st
      <3>4. ApprovalAllows(n, st)
        BY <3>3, <2>2, <2>3, <2>5, <2>7, <2>9 DEF ApprovalAllows
      <3>5. st \in NodeStatuses \ {"PENDING", "RUNNING", "READY", "CANCELLED"}
        BY <3>3 DEF NodeStatuses
      <3>6. RuntimeInv' /\ FinishedKept
        BY <3>1, <3>2, <3>4, <3>5, <2>1, <2>3, <2>4, <1>1, SettlePreserves DEF TypeOK
      <3> QED
        BY <3>6, <2>1, <2>3 DEF ApprovalsKept
    <2>10. CASE result = "PENDING"
      <3>1. UNCHANGED <<execStatus, nodeStatus, nodeVars>>
        BY <1>4, <2>10 DEF DecideSOARApproval, result
      <3>2. FinishedKept
        BY <3>1 DEF FinishedKept
      <3>3. TypeOK'
        BY <3>1, <2>1, <2>3, <2>4, <1>1 DEF TypeOK, nodeVars
      <3>4. NodesInOrder' /\ RunOutcome'
        BY <3>1 DEF RuntimeInv, NodesInOrder, RunOutcome, DependenciesDone
      <3>5. ApprovalTracksNode'
        <4> SUFFICES ASSUME NEW m \in Nodes PROVE ApprovalRowOK(m)'
          BY DEF ApprovalTracksNode
        <4>1. ApprovalRowOK(m)
          BY DEF RuntimeInv, ApprovalTracksNode
        <4>2. CASE m = n
          BY <4>1, <4>2, <3>1, <2>1, <2>3, <2>5, <2>8, <2>10 DEF ApprovalRowOK
        <4>3. CASE m # n
          <5>1. Approvers(m)' = Approvers(m) /\ approval'[m] = approval[m] /\ decisions'[m] = decisions[m]
            BY <4>3, <2>3, <2>4 DEF Approvers
          <5> QED
            BY <4>1, <5>1, <3>1 DEF ApprovalRowOK
        <4> QED
          BY <4>2, <4>3
      <3>6. NoOrphanWait' /\ HolderIsCurrent' /\ SuccessHasEffect'
        BY <3>1, <3>5, <2>1 DEF RuntimeInv, NoOrphanWait, ApprovalTracksNode, ApprovalRowOK,
           HolderIsCurrent, HoldsLease, SuccessHasEffect, nodeVars
      <3>7. WorkInOrder' /\ SuccessReported'
        BY <3>1, <2>1 DEF RuntimeInv, WorkInOrder, SuccessReported, DependenciesDone
      <3>8. ApprovalsKept
        BY <2>1, <2>3 DEF ApprovalsKept
      <3> QED
        BY <3>2, <3>3, <3>4, <3>5, <3>6, <3>7, <3>8 DEF RuntimeInv
    <2> QED
      BY <2>9, <2>10
  <1> QED
    BY <1>2, <1>3, <1>4 DEF PersonStep

\* ClaimSOARNode, expiry included.
LEMMA ClaimPreserves ==
    ASSUME RuntimeInv, NEW w \in Workers, NEW n \in Nodes, ClaimSOARNode(w, n)
    PROVE  RuntimeInv' /\ FinishedKept /\ ApprovalsKept
  <1>1. TypeOK /\ NodesInOrder /\ RunOutcome /\ ApprovalTracksNode
    BY DEF RuntimeInv
  <1>2. /\ nodeStatus' \in [Nodes -> NodeStatuses]
        /\ execStatus' \in [Executions -> ExecutionStatuses]
        /\ leaseOwner' \in [Nodes -> Workers \cup {NoWorker}]
        /\ leaseLive' \in [Nodes -> BOOLEAN]
        /\ NodesInOrder'
        /\ RunOutcome'
        /\ FinishedKept
        /\ nodeStatus[n] \in {"PENDING", "READY", "RUNNING"} /\ nodeStatus'[n] = "RUNNING"
        /\ leaseOwner'[n] = w
        /\ DependenciesDone(n)'
    BY <1>1, ClaimFacts
  <1>3. /\ \A m \in Nodes \ {n} : nodeStatus'[m] # nodeStatus[m] =>
              \/ nodeStatus'[m] = "CANCELLED"
              \/ nodeStatus'[m] = "READY" /\ nodeStatus[m] = "PENDING"
              \/ nodeStatus'[m] = "FAILED" /\ m \in Overdue
        /\ \A m \in Overdue : m # n /\ nodeStatus'[m] \in {"FAILED", "CANCELLED"}
        /\ \A m \in Nodes \ {n} : nodeStatus'[m] = "RUNNING" =>
              nodeStatus[m] = "RUNNING" /\ leaseOwner'[m] = leaseOwner[m]
    BY <1>1, ClaimFacts
  <1>4. /\ worker[w] = Idle
        /\ worker' = [worker EXCEPT ![w] = [pc |-> "claimed", node |-> n, attempt |-> attempt[n] + 1]]
        /\ attempt' = [attempt EXCEPT ![n] = @ + 1]
        /\ approval' = [m \in Nodes |-> IF m \in Overdue THEN "EXPIRED" ELSE approval[m]]
        /\ version' = [m \in Nodes |-> IF m \in Overdue THEN version[m] + 1 ELSE version[m]]
        /\ UNCHANGED <<approvalDue, decisions, available, deferred, ledger, effect, slips>>
    BY DEF ClaimSOARNode, expireSOARApprovals
  <1>5. /\ worker' \in [Workers -> {Idle} \cup Working]
        /\ worker'[w] = [pc |-> "claimed", node |-> n, attempt |-> attempt[n] + 1]
        /\ \A v \in Workers \ {w} : worker'[v] = worker[v]
        /\ attempt' \in [Nodes -> Nat] /\ attempt'[n] = attempt[n] + 1
        /\ \A m \in Nodes \ {n} : attempt'[m] = attempt[m]
    BY <1>1, <1>4 DEF TypeOK, Working
  <1>6. approval' \in [Nodes -> ApprovalStatuses] /\ version' \in [Nodes -> Nat]
    BY <1>1, <1>4 DEF TypeOK, ApprovalStatuses
  <1>7. TypeOK'
    BY <1>1, <1>2, <1>4, <1>5, <1>6 DEF TypeOK
  <1>8. ApprovalTracksNode'
    <2> SUFFICES ASSUME NEW m \in Nodes PROVE ApprovalRowOK(m)'
      BY DEF ApprovalTracksNode
    <2>1. ApprovalRowOK(m) /\ Approvers(m)' = Approvers(m) /\ decisions' = decisions
      BY <1>1, <1>4 DEF ApprovalTracksNode, Approvers
    <2>2. CASE m \in Overdue
      <3>1. approval'[m] = "EXPIRED" /\ nodeStatus'[m] \in {"FAILED", "CANCELLED"}
        BY <2>2, <1>3, <1>4
      <3> QED
        BY <2>1, <3>1 DEF ApprovalRowOK
    <2>3. CASE m \notin Overdue /\ m # n
      <3>1. approval'[m] = approval[m]
        BY <2>3, <1>4
      <3>2. \/ nodeStatus'[m] = nodeStatus[m]
            \/ nodeStatus'[m] = "CANCELLED"
            \/ nodeStatus'[m] = "READY" /\ nodeStatus[m] = "PENDING"
        BY <2>3, <1>3
      <3> QED
        BY <2>1, <3>1, <3>2 DEF ApprovalRowOK
    <2>4. CASE m \notin Overdue /\ m = n
      <3>1. approval'[m] = approval[m] /\ approval[m] = "NONE"
        BY <2>1, <2>4, <1>2, <1>4 DEF ApprovalRowOK
      <3> QED
        BY <2>1, <2>4, <3>1, <1>2 DEF ApprovalRowOK
    <2> QED
      BY <2>2, <2>3, <2>4
  <1>9. NoOrphanWait'
    <2> SUFFICES ASSUME NEW m \in Nodes
                 PROVE  /\ nodeStatus'[m] = "WAITING_APPROVAL" => approval'[m] = "PENDING"
                        /\ nodeStatus'[m] = "RUNNING" => leaseOwner'[m] \in Workers
      BY DEF NoOrphanWait
    <2>1. ApprovalRowOK(m)'
      BY <1>8 DEF ApprovalTracksNode
    <2>2. nodeStatus'[m] = "RUNNING" => leaseOwner'[m] \in Workers
      BY <1>2, <1>3 DEF RuntimeInv, NoOrphanWait
    <2> QED
      BY <2>1, <2>2 DEF ApprovalRowOK
  <1>10. \A m \in Nodes : DependenciesDone(m) => DependenciesDone(m)'
    BY <1>2, DagAssumption DEF FinishedKept, DependenciesDone, ActiveStatuses
  <1>11. \A v \in Workers : worker[v] # Idle => worker[v].node \in Nodes
    BY <1>1 DEF TypeOK, Working
  <1>12. WorkInOrder'
    BY <1>2, <1>4, <1>5, <1>10, <1>11 DEF RuntimeInv, WorkInOrder
  <1>13. HolderIsCurrent'
    <2> SUFFICES ASSUME NEW v \in Workers, worker'[v] # Idle, HoldsLease(v, worker[v].node)'
                 PROVE  worker'[v].attempt = attempt'[worker'[v].node]
      BY DEF HolderIsCurrent
    <2>1. CASE v = w
      BY <2>1, <1>5
    <2>2. CASE v # w
      <3>1. worker'[v] = worker[v] /\ worker[v].node \in Nodes
        BY <2>2, <1>5, <1>11
      <3>2. worker[v].node # n
        BY <2>2, <3>1, <1>2 DEF HoldsLease
      <3>3. HoldsLease(v, worker[v].node)
        BY <3>1, <3>2, <1>3 DEF HoldsLease
      <3> QED
        BY <3>1, <3>2, <3>3, <1>5 DEF RuntimeInv, HolderIsCurrent
    <2> QED
      BY <2>1, <2>2
  <1>14. SuccessReported' /\ SuccessHasEffect'
    <2>1. SuccessReported'
      BY <1>4, <1>5 DEF RuntimeInv, SuccessReported
    <2>2. SuccessHasEffect'
      BY <1>2, <1>3, <1>4 DEF RuntimeInv, SuccessHasEffect, ActionNodes
    <2> QED
      BY <2>1, <2>2
  <1>15. ApprovalsKept
    BY <1>4 DEF ApprovalsKept, Overdue
  <1> QED
    BY <1>2, <1>7, <1>8, <1>9, <1>12, <1>13, <1>14, <1>15 DEF RuntimeInv

\* Defer and Retry hand a leased node back.
LEMMA PostponePreserves ==
    ASSUME RuntimeInv, NEW w \in Workers, DeferSOARNode(w) \/ RetrySOARNode(w)
    PROVE  RuntimeInv' /\ FinishedKept /\ ApprovalsKept
  <1> DEFINE n == worker[w].node
             e == Execution[n]
  <1>1. TypeOK
    BY DEF RuntimeInv
  <1>2. Verdict(w) # "none" /\ HoldsLease(w, n) /\ Postpone(n)
    BY DEF DeferSOARNode, RetrySOARNode
  <1>3. n \in Nodes /\ worker[w] # Idle /\ e \in Executions
    BY <1>1, <1>2, VerdictFacts, ItemFacts, DagAssumption
  <1>4. /\ worker' = [worker EXCEPT ![w] = Idle] /\ attempt' = attempt
        /\ UNCHANGED <<approvalVars, ledger, effect, slips>>
        /\ deferred' \in [Nodes -> BOOLEAN]
    BY <1>1, <1>3 DEF DeferSOARNode, RetrySOARNode, TypeOK
  <1>5. /\ nodeStatus[n] = "RUNNING"
        /\ nodeStatus' = [nodeStatus EXCEPT ![n] = "READY"]
        /\ execStatus' = [execStatus EXCEPT ![e] = "RUNNING"]
        /\ leaseOwner' = [leaseOwner EXCEPT ![n] = NoWorker]
        /\ leaseLive' = [leaseLive EXCEPT ![n] = FALSE]
        /\ available' = [available EXCEPT ![n] = FALSE]
    BY <1>2 DEF HoldsLease, Postpone
  <1>6. /\ nodeStatus'[n] = "READY" /\ \A m \in Nodes \ {n} : nodeStatus'[m] = nodeStatus[m]
        /\ execStatus'[e] = "RUNNING" /\ \A y \in Executions \ {e} : execStatus'[y] = execStatus[y]
        /\ \A m \in Nodes \ {n} : leaseOwner'[m] = leaseOwner[m]
    BY <1>1, <1>3, <1>5 DEF TypeOK
  <1>7. /\ \A y \in Executions : HasFailed(nodeStatus', y) <=> HasFailed(nodeStatus, y)
        /\ \A y \in Executions : ActiveNodes(nodeStatus', y) = ActiveNodes(nodeStatus, y)
    BY <1>3, <1>5, <1>6 DEF HasFailed, ActiveNodes, NodesOf, ActiveStatuses
  <1>8. execStatus[e] \notin TerminalExecution
    BY <1>3, <1>5 DEF RuntimeInv, RunOutcome, ActiveNodes, NodesOf, ActiveStatuses
  <1>9. FinishedKept
    BY <1>5, <1>6, <1>8 DEF FinishedKept, ActiveStatuses
  <1>10. TypeOK'
    BY <1>1, <1>3, <1>4, <1>5 DEF TypeOK, approvalVars, NodeStatuses, ExecutionStatuses
  <1>11. \A m \in Nodes : DependenciesDone(m) => DependenciesDone(m)'
    BY <1>9, DagAssumption DEF FinishedKept, DependenciesDone, ActiveStatuses
  <1>12. NodesInOrder'
    BY <1>3, <1>5, <1>6, <1>7, <1>11, DagAssumption DEF RuntimeInv, NodesInOrder
  <1>13. RunOutcome'
    BY <1>6, <1>7, <1>8 DEF RuntimeInv, RunOutcome, TerminalExecution
  <1>14. ApprovalTracksNode'
    <2> SUFFICES ASSUME NEW m \in Nodes PROVE ApprovalRowOK(m)'
      BY DEF ApprovalTracksNode
    <2>1. ApprovalRowOK(m) /\ Approvers(m)' = Approvers(m) /\ approval' = approval /\ decisions' = decisions
      BY <1>4 DEF RuntimeInv, ApprovalTracksNode, Approvers, approvalVars
    <2> QED
      BY <2>1, <1>5, <1>6 DEF ApprovalRowOK
  <1>15. NoOrphanWait'
    BY <1>4, <1>6 DEF RuntimeInv, NoOrphanWait, approvalVars
  <1>16. /\ worker' \in [Workers -> {Idle} \cup Working]
         /\ \A v \in Workers : worker'[v] = worker[v] \/ worker'[v] = Idle
    BY <1>1, <1>4 DEF TypeOK
  <1>17. WorkInOrder' /\ SuccessReported'
    BY <1>4, <1>9, <1>16, WorkKept
  <1>18. HolderIsCurrent'
    <2>1. \A v \in Workers : worker[v] # Idle => worker[v].node \in Nodes
      BY <1>1 DEF TypeOK, Working
    <2> QED
      BY <2>1, <1>4, <1>6, <1>16 DEF RuntimeInv, HolderIsCurrent, HoldsLease
  <1>19. SuccessHasEffect'
    BY <1>4, <1>6 DEF RuntimeInv, SuccessHasEffect, ActionNodes
  <1>20. ApprovalsKept
    BY <1>4 DEF ApprovalsKept, approvalVars
  <1> QED
    BY <1>9, <1>10, <1>12, <1>13, <1>14, <1>15, <1>17, <1>18, <1>19, <1>20 DEF RuntimeInv

\* A step that touches no node, execution or approval row keeps every part of
\* the invariant that speaks only of those rows.
LEMMA RowsKept ==
    ASSUME RuntimeInv,
           UNCHANGED <<execStatus, nodeStatus, attempt, leaseOwner, approval, decisions>>
    PROVE  /\ NodesInOrder' /\ RunOutcome' /\ ApprovalTracksNode' /\ NoOrphanWait'
           /\ FinishedKept /\ ApprovalsKept
           /\ \A m \in Nodes : DependenciesDone(m)' <=> DependenciesDone(m)
  <1>1. NodesInOrder' /\ RunOutcome'
    BY DEF RuntimeInv, NodesInOrder, RunOutcome, DependenciesDone
  <1>2. ApprovalTracksNode'
    BY DEF RuntimeInv, ApprovalTracksNode, ApprovalRowOK, Approvers
  <1>3. NoOrphanWait'
    BY DEF RuntimeInv, NoOrphanWait
  <1>4. FinishedKept /\ ApprovalsKept
    BY DEF FinishedKept, ApprovalsKept
  <1>5. \A m \in Nodes : DependenciesDone(m)' <=> DependenciesDone(m)
    BY DEF DependenciesDone
  <1> QED
    BY <1>1, <1>2, <1>3, <1>4, <1>5

\* Lost leases, stopped workers, passing deadlines, and steps that change
\* nothing.
LEMMA QuietPreserves ==
    ASSUME RuntimeInv,
           \/ \E w \in Workers : LeaseLost(w) \/ WorkerStops(w)
           \/ TimeStep
           \/ UNCHANGED vars
    PROVE  RuntimeInv' /\ FinishedKept /\ ApprovalsKept
  <1>1. TypeOK
    BY DEF RuntimeInv
  <1>2. /\ UNCHANGED <<execStatus, nodeStatus, attempt, leaseOwner, approval, decisions>>
        /\ UNCHANGED <<deferred, version, ledger, effect>>
    <2>1. ASSUME NEW w \in Workers, LeaseLost(w) \/ WorkerStops(w)
          PROVE  <1>2!1 /\ <1>2!2
      BY <2>1 DEF LeaseLost, WorkerStops, nodeVars, approvalVars
    <2>2. CASE TimeStep
      BY <2>2 DEF TimeStep, LeaseExpires, BecomesAvailable, ApprovalWindowCloses, nodeVars, approvalVars
    <2>3. CASE UNCHANGED vars
      BY <2>3 DEF vars, nodeVars, approvalVars
    <2> QED
      BY <2>1, <2>2, <2>3
  <1>3. leaseLive' \in [Nodes -> BOOLEAN] /\ available' \in [Nodes -> BOOLEAN]
        /\ approvalDue' \in [Nodes -> BOOLEAN]
    <2>1. ASSUME NEW w \in Workers, LeaseLost(w) \/ WorkerStops(w)
          PROVE  UNCHANGED <<leaseLive, available, approvalDue>>
      BY <2>1 DEF LeaseLost, WorkerStops, nodeVars, approvalVars
    <2>2. CASE TimeStep
      BY <2>2, <1>1 DEF TimeStep, LeaseExpires, BecomesAvailable, ApprovalWindowCloses, nodeVars,
         approvalVars, TypeOK
    <2>3. CASE UNCHANGED vars
      BY <2>3, <1>1 DEF vars, nodeVars, approvalVars, TypeOK
    <2> QED
      BY <2>1, <2>2, <2>3, <1>1 DEF TypeOK
  <1>4. slips' \in 0..SlipBound
    <2>1. slips' = slips \/ (slips < SlipBound /\ slips' = slips + 1)
      BY DEF TimeStep, LeaseExpires, BecomesAvailable, ApprovalWindowCloses, LeaseLost, WorkerStops, vars
    <2> QED
      BY <2>1, <1>1, RuntimeAssumption DEF TypeOK
  <1>5. /\ worker' \in [Workers -> {Idle} \cup Working]
        /\ \A v \in Workers : worker'[v] = worker[v] \/ worker'[v] = Idle
    <2>1. worker' = worker \/ \E w \in Workers : worker' = [worker EXCEPT ![w] = Idle]
      BY DEF TimeStep, LeaseExpires, BecomesAvailable, ApprovalWindowCloses, LeaseLost, WorkerStops, vars
    <2> QED
      BY <2>1, <1>1 DEF TypeOK
  <1>6. TypeOK'
    BY <1>1, <1>2, <1>3, <1>4, <1>5 DEF TypeOK
  <1>7. /\ NodesInOrder' /\ RunOutcome' /\ ApprovalTracksNode' /\ NoOrphanWait'
        /\ FinishedKept /\ ApprovalsKept
    BY <1>2, RowsKept
  <1>8. WorkInOrder' /\ SuccessReported'
    BY <1>2, <1>5, <1>7, WorkKept
  <1>9. HolderIsCurrent'
    BY <1>2, <1>5 DEF RuntimeInv, HolderIsCurrent, HoldsLease
  <1>10. SuccessHasEffect'
    BY <1>2 DEF RuntimeInv, SuccessHasEffect
  <1> QED
    BY <1>6, <1>7, <1>8, <1>9, <1>10 DEF RuntimeInv

\* The three steps of executeAction keep the worker at its node and claim.
LEMMA ActionPreserves ==
    ASSUME RuntimeInv, NEW w \in Workers,
           \/ BeginSOARAction(w)
           \/ \E outcome \in Outcomes : Execute(w, outcome)
           \/ FinishSOARAction(w)
    PROVE  RuntimeInv' /\ FinishedKept /\ ApprovalsKept
  <1> DEFINE n == worker[w].node
  <1>1. TypeOK
    BY DEF RuntimeInv
  <1>2. /\ UNCHANGED <<execStatus, nodeStatus, attempt, leaseOwner, approval, decisions>>
        /\ UNCHANGED <<deferred, version, leaseLive, available, approvalDue, slips>>
    BY DEF BeginSOARAction, Execute, FinishSOARAction, nodeVars, approvalVars
  <1>3. worker[w].pc \in {"claimed", "calling", "called", "settle"}
    BY <1>1, VerdictFacts DEF BeginSOARAction, Execute, FinishSOARAction
  <1>4. worker[w] # Idle /\ n \in Nodes /\ worker[w].attempt \in Nat
    BY <1>1, <1>3, ItemFacts DEF Idle
  <1>5. Kind[n] = "ACTION"
    <2>1. CASE BeginSOARAction(w)
      BY <2>1, <1>1, <1>4, VerdictFacts DEF BeginSOARAction, RuntimeInv, WorkInOrder
    <2>2. CASE ~BeginSOARAction(w)
      BY <2>2, <1>4 DEF Execute, FinishSOARAction, RuntimeInv, WorkInOrder
    <2> QED
      BY <2>1, <2>2
  <1>6. /\ worker'[w] \in Working /\ worker'[w].node = n /\ worker'[w].attempt = worker[w].attempt
        /\ worker' = [worker EXCEPT ![w] = worker'[w]]
        /\ ledger' \in [Nodes -> LedgerStatuses] /\ effect' \in [Nodes -> Effects]
        /\ \A m \in Nodes \ {n} : ledger'[m] = ledger[m] /\ effect'[m] = effect[m]
        /\ effect[n] # "none" => effect'[n] # "none"
        /\ ledger'[n] = "SUCCEEDED" => effect'[n] # "none"
        /\ worker'[w].pc \in {"called", "settle"} /\ worker'[w].outcome = "ok" => effect'[n] # "none"
    <2>1. CASE BeginSOARAction(w)
      <3>1. /\ effect' = effect
            /\ ledger' = [ledger EXCEPT ![n] = IF @ = "NONE" THEN "RUNNING" ELSE @]
            /\ worker' = [worker EXCEPT ![w] =
                   IF ledger[n] = "SUCCEEDED"
                   THEN [pc |-> "settle", node |-> n, attempt |-> worker[w].attempt, outcome |-> "ok"]
                   ELSE [pc |-> "calling", node |-> n, attempt |-> worker[w].attempt]]
        BY <2>1, <1>1 DEF BeginSOARAction, TypeOK
      <3>2. /\ ledger' \in [Nodes -> LedgerStatuses]
            /\ \A m \in Nodes \ {n} : ledger'[m] = ledger[m]
            /\ ledger'[n] = "SUCCEEDED" <=> ledger[n] = "SUCCEEDED"
        BY <3>1, <1>1, <1>4 DEF TypeOK, LedgerStatuses
      <3>3. ledger[n] = "SUCCEEDED" => effect[n] # "none"
        BY <1>4 DEF RuntimeInv, SuccessReported
      <3>4. CASE ledger[n] = "SUCCEEDED"
        <4>1. worker'[w] = [pc |-> "settle", node |-> n, attempt |-> worker[w].attempt, outcome |-> "ok"]
          BY <3>1, <3>4, <1>1 DEF TypeOK
        <4> QED
          BY <3>1, <3>2, <3>3, <3>4, <4>1, <1>1, <1>4 DEF TypeOK, Working, Outcomes
      <3>5. CASE ledger[n] # "SUCCEEDED"
        <4>1. worker'[w] = [pc |-> "calling", node |-> n, attempt |-> worker[w].attempt]
          BY <3>1, <3>5, <1>1 DEF TypeOK
        <4> QED
          BY <3>1, <3>2, <3>5, <4>1, <1>1, <1>4 DEF TypeOK, Working
      <3> QED
        BY <3>4, <3>5
    <2>2. ASSUME NEW outcome \in Outcomes, Execute(w, outcome)
          PROVE  <1>6
      <3>1. /\ worker' = [worker EXCEPT ![w] =
                   [pc |-> "called", node |-> n, attempt |-> worker[w].attempt, outcome |-> outcome]]
            /\ effect' = [effect EXCEPT ![n] = Acknowledge(effect[n], outcome)]
            /\ ledger' = ledger
        BY <2>2, <1>1 DEF Execute, TypeOK
      <3>2. /\ Acknowledge(effect[n], outcome) \in Effects
            /\ effect[n] # "none" => Acknowledge(effect[n], outcome) # "none"
            /\ outcome = "ok" => Acknowledge(effect[n], outcome) # "none"
        BY <1>1, <1>4 DEF Acknowledge, TypeOK, Effects
      <3>3. effect' \in [Nodes -> Effects] /\ effect'[n] = Acknowledge(effect[n], outcome)
            /\ \A m \in Nodes \ {n} : effect'[m] = effect[m]
        BY <3>1, <3>2, <1>1, <1>4 DEF TypeOK
      <3>4. worker'[w] = [pc |-> "called", node |-> n, attempt |-> worker[w].attempt, outcome |-> outcome]
        BY <3>1, <1>1 DEF TypeOK
      <3>5. ledger'[n] = "SUCCEEDED" => effect'[n] # "none"
        BY <3>1, <3>2, <3>3, <1>4 DEF RuntimeInv, SuccessReported
      <3> QED
        BY <3>1, <3>2, <3>3, <3>4, <3>5, <1>1, <1>4 DEF TypeOK, Working
    <2>3. CASE FinishSOARAction(w)
      <3>1. /\ worker[w].pc = "called" /\ effect' = effect
            /\ ledger' = [ledger EXCEPT ![n] = IF worker[w].outcome = "ok" THEN "SUCCEEDED" ELSE "FAILED"]
            /\ worker' = [worker EXCEPT ![w].pc = "settle"]
        BY <2>3 DEF FinishSOARAction
      <3>2. worker[w] \in [pc : {"called", "settle"}, node : Nodes, attempt : Nat, outcome : Outcomes]
        BY <3>1, <1>1, ItemFacts
      <3>3. /\ worker'[w] \in [pc : {"called", "settle"}, node : Nodes, attempt : Nat, outcome : Outcomes]
            /\ worker'[w].node = n /\ worker'[w].attempt = worker[w].attempt
            /\ worker'[w].outcome = worker[w].outcome
        BY <3>1, <3>2, <1>1 DEF TypeOK
      <3>4. worker[w].outcome = "ok" => effect[n] # "none"
        BY <3>1 DEF RuntimeInv, SuccessReported
      <3>5. /\ ledger' \in [Nodes -> LedgerStatuses]
            /\ \A m \in Nodes \ {n} : ledger'[m] = ledger[m]
            /\ ledger'[n] = "SUCCEEDED" => worker[w].outcome = "ok"
        BY <3>1, <1>1, <1>4 DEF TypeOK, LedgerStatuses
      <3>6. worker' = [worker EXCEPT ![w] = worker'[w]]
        BY <3>1, <1>1 DEF TypeOK
      <3> QED
        BY <3>1, <3>3, <3>4, <3>5, <3>6, <1>1 DEF TypeOK, Working
    <2> QED
      BY <2>1, <2>2, <2>3
  <1>7. /\ worker' \in [Workers -> {Idle} \cup Working]
        /\ \A v \in Workers \ {w} : worker'[v] = worker[v]
        /\ worker'[w] # Idle
    <2>1. worker'[w] # Idle
      BY <1>6 DEF Working, Idle
    <2>2. worker' \in [Workers -> {Idle} \cup Working]
      BY <1>1, <1>6 DEF TypeOK
    <2>3. \A v \in Workers \ {w} : worker'[v] = worker[v]
      BY <1>1, <1>6 DEF TypeOK
    <2> QED
      BY <2>1, <2>2, <2>3
  <1>8. TypeOK'
    BY <1>1, <1>2, <1>6, <1>7 DEF TypeOK
  <1>9. /\ NodesInOrder' /\ RunOutcome' /\ ApprovalTracksNode' /\ NoOrphanWait'
        /\ FinishedKept /\ ApprovalsKept
        /\ \A m \in Nodes : DependenciesDone(m)' <=> DependenciesDone(m)
    BY <1>2, RowsKept
  <1>10. \A v \in Workers : worker[v] # Idle => worker[v].node \in Nodes
    BY <1>1 DEF TypeOK, Working
  <1>11. DependenciesDone(n)
    BY <1>4 DEF RuntimeInv, WorkInOrder
  <1>12. WorkInOrder'
    <2>1. \A v \in Workers : worker'[v] # Idle =>
             /\ DependenciesDone(worker'[v].node)
             /\ worker'[v].pc # "claimed" => Kind[worker'[v].node] = "ACTION"
      BY <1>5, <1>6, <1>7, <1>11 DEF RuntimeInv, WorkInOrder
    <2>2. \A m \in Nodes : effect'[m] # "none" => DependenciesDone(m)
      BY <1>6, <1>11 DEF RuntimeInv, WorkInOrder
    <2>3. \A v \in Workers : worker'[v] # Idle => worker'[v].node \in Nodes
      BY <1>4, <1>6, <1>7, <1>10
    <2> QED
      BY <2>1, <2>2, <2>3, <1>9 DEF WorkInOrder
  <1>13. HolderIsCurrent'
    BY <1>2, <1>4, <1>6, <1>7 DEF RuntimeInv, HolderIsCurrent, HoldsLease
  <1>14. SuccessReported'
    <2>1. \A m \in Nodes : ledger'[m] = "SUCCEEDED" => effect'[m] # "none"
      BY <1>6 DEF RuntimeInv, SuccessReported
    <2>2. ASSUME NEW v \in Workers, worker'[v].pc \in {"called", "settle"}, worker'[v].outcome = "ok"
          PROVE  effect'[worker'[v].node] # "none"
      <3>1. CASE v = w
        BY <3>1, <2>2, <1>6
      <3>2. CASE v # w
        <4>1. worker'[v] = worker[v] /\ worker[v].node \in Nodes
          BY <3>2, <2>2, <1>1, <1>7, ItemFacts
        <4>2. effect[worker[v].node] # "none"
          BY <4>1, <2>2 DEF RuntimeInv, SuccessReported
        <4> QED
          BY <4>1, <4>2, <1>6
      <3> QED
        BY <3>1, <3>2
    <2> QED
      BY <2>1, <2>2 DEF SuccessReported
  <1>15. SuccessHasEffect'
    BY <1>2, <1>6 DEF RuntimeInv, SuccessHasEffect, ActionNodes
  <1> QED
    BY <1>8, <1>9, <1>12, <1>13, <1>14, <1>15 DEF RuntimeInv

-----------------------------------------------------------------------------
(* The inductive invariant, and what follows from it. *)

\* An execution as it is created: the nodes without dependencies are READY.
LEMMA InitInv == ASSUME Init PROVE RuntimeInv
  <1>1. TypeOK
    BY RuntimeAssumption DEF Init, TypeOK, NodeStatuses, ExecutionStatuses, ApprovalStatuses,
       LedgerStatuses, Effects, Decisions
  <1>2. /\ \A n \in Nodes : nodeStatus[n] = IF Deps[n] = {} THEN "READY" ELSE "PENDING"
        /\ \A n \in Nodes : approval[n] = "NONE" /\ ledger[n] = "NONE" /\ effect[n] = "none"
        /\ \A e \in Executions : execStatus[e] = "QUEUED"
        /\ \A w \in Workers : worker[w] = Idle
        /\ \A n \in Nodes : \A p \in People : decisions[n][p] = "NONE"
    BY DEF Init
  <1>3. NodesInOrder
    BY <1>2 DEF NodesInOrder, DependenciesDone
  <1>4. RunOutcome
    BY <1>2 DEF RunOutcome, HasFailed, NodesOf, TerminalExecution
  <1>5. ApprovalTracksNode
    <2>1. \A n \in Nodes : Initiator[Execution[n]] \in People
      BY DagAssumption, RuntimeAssumption
    <2> QED
      BY <1>2, <2>1 DEF ApprovalTracksNode, ApprovalRowOK
  <1>6. NoOrphanWait /\ SuccessHasEffect
    BY <1>2 DEF NoOrphanWait, SuccessHasEffect, ActionNodes
  <1>7. WorkInOrder /\ HolderIsCurrent /\ SuccessReported
    BY <1>2 DEF WorkInOrder, HolderIsCurrent, SuccessReported, Idle
  <1> QED
    BY <1>1, <1>3, <1>4, <1>5, <1>6, <1>7 DEF RuntimeInv

\* Every step of the runtime, one case per kind of step.
LEMMA StepInv ==
    ASSUME RuntimeInv, [Next]_vars
    PROVE  RuntimeInv' /\ FinishedKept /\ ApprovalsKept
  <1>1. ASSUME NEW w \in Workers, WorkerStep(w)
        PROVE  RuntimeInv' /\ FinishedKept /\ ApprovalsKept
    <2>1. CASE \E n \in Nodes : ClaimSOARNode(w, n)
      BY <2>1, ClaimPreserves
    <2>2. CASE CompleteSOARNode(w) \/ FailSOARNode(w) \/ RequestSOARApproval(w) \/ RequestSOARManualTask(w)
      BY <2>2, WorkerSettles
    <2>3. CASE DeferSOARNode(w) \/ RetrySOARNode(w)
      BY <2>3, PostponePreserves
    <2>4. CASE LeaseLost(w)
      BY <2>4, QuietPreserves
    <2>5. CASE \/ BeginSOARAction(w)
               \/ \E outcome \in Outcomes : Execute(w, outcome)
               \/ FinishSOARAction(w)
      BY <2>5, ActionPreserves
    <2> QED
      BY <1>1, <2>1, <2>2, <2>3, <2>4, <2>5 DEF WorkerStep
  <1>2. ASSUME NEW w \in Workers, WorkerStops(w)
        PROVE  RuntimeInv' /\ FinishedKept /\ ApprovalsKept
    BY <1>2, QuietPreserves
  <1>3. CASE PersonStep
    BY <1>3, PersonPreserves
  <1>4. CASE TimeStep
    BY <1>4, QuietPreserves
  <1>5. CASE UNCHANGED vars
    BY <1>5, QuietPreserves
  <1> QED
    BY <1>1, <1>2, <1>3, <1>4, <1>5 DEF Next

\* RuntimeInv holds in every reachable state.
THEOREM InvHolds == Spec => []RuntimeInv
  <1>1. Init => RuntimeInv
    BY InitInv
  <1>2. RuntimeInv /\ [Next]_vars => RuntimeInv'
    BY StepInv
  <1> QED
    BY <1>1, <1>2, PTL DEF Spec

\* In a state that satisfies the invariant, an acknowledged write has every
\* approval upstream of it decided in favour: the succeeded nodes are closed
\* under Deps and hold the node's dependencies, so they hold its ancestors.
LEMMA InvImpliesGate == ASSUME RuntimeInv PROVE ApprovalGate
  <1> SUFFICES ASSUME NEW n \in ActionNodes, effect[n] # "none",
                      NEW a \in Ancestors(n) \cap ApprovalNodes
               PROVE  QuorumReached(a)
    BY DEF ApprovalGate
  <1> DEFINE S == {m \in Nodes : nodeStatus[m] = "SUCCEEDED"}
  <1>1. n \in Nodes /\ a \in Nodes /\ Kind[a] = "HUMAN_APPROVAL"
    BY DEF ActionNodes, ApprovalNodes
  <1>2. Deps[n] \subseteq S
    BY <1>1, DagAssumption DEF RuntimeInv, WorkInOrder, DependenciesDone
  <1>3. \A m \in S : Deps[m] \subseteq S
    BY DagAssumption DEF RuntimeInv, NodesInOrder, DependenciesDone
  <1>4. a \in S
    BY <1>1, <1>2, <1>3 DEF Ancestors, AncestorSets
  <1>5. ApprovalRowOK(a)
    BY <1>1 DEF RuntimeInv, ApprovalTracksNode
  <1> QED
    BY <1>1, <1>4, <1>5 DEF ApprovalRowOK, QuorumReached, Approvers

\* Every row, and every worker's item, has its type whatever the graph, the
\* number of workers and people, and the crashes.
THEOREM TypeCorrect == Spec => []TypeOK
  <1>1. RuntimeInv => TypeOK
    BY DEF RuntimeInv
  <1> QED
    BY <1>1, InvHolds, PTL

\* No provider acknowledges a write before every approval upstream of the
\* action has its quorum, the initiator not among it: promoteAndReconcileSOAR,
\* ClaimSOARNode and DecideSOARApproval together gate the effect, for every
\* playbook graph and every crash, retry and overrun lease.
THEOREM ApprovalsGateEffects == Spec => []ApprovalGate
  <1>1. RuntimeInv => ApprovalGate
    BY InvImpliesGate
  <1> QED
    BY <1>1, InvHolds, PTL

\* promoteAndReconcileSOAR keeps each execution's status in agreement with
\* its nodes: FAILED exactly when a node failed, terminal only with no active
\* node left.
THEOREM OutcomesAgree == Spec => []RunOutcome
  <1>1. RuntimeInv => RunOutcome
    BY DEF RuntimeInv
  <1> QED
    BY <1>1, InvHolds, PTL

\* A waiting approval node always has an undecided approval and a RUNNING
\* node a lease, so nothing waits for what cannot come.
THEOREM WaitsAreBacked == Spec => []NoOrphanWait
  <1>1. RuntimeInv => NoOrphanWait
    BY DEF RuntimeInv
  <1> QED
    BY <1>1, InvHolds, PTL

\* The check status = RUNNING and lease_owner = caller admits only the worker
\* of the latest claim, although it does not compare attempts.
THEOREM LeaseCheckSuffices == Spec => []HolderIsCurrent
  <1>1. RuntimeInv => HolderIsCurrent
    BY DEF RuntimeInv
  <1> QED
    BY <1>1, InvHolds, PTL

\* An action node succeeds only after its provider acknowledged a write, also
\* when a second worker completes it from the ledger row of the first.
THEOREM SuccessIsReal == Spec => []SuccessHasEffect
  <1>1. RuntimeInv => SuccessHasEffect
    BY DEF RuntimeInv
  <1> QED
    BY <1>1, InvHolds, PTL

\* No step of a late worker, person or expiry changes a finished node, a
\* finished execution or a decided approval.
THEOREM FinishedStaysFinished == Spec => FinishedIsFinal
  <1>1. RuntimeInv /\ [Next]_vars =>
          [/\ \A n \in Nodes : nodeStatus[n] \notin ActiveStatuses => nodeStatus'[n] = nodeStatus[n]
           /\ \A e \in Executions : execStatus[e] \in TerminalExecution => execStatus'[e] = execStatus[e]
           /\ \A n \in Nodes : approval[n] \notin {"NONE", "PENDING"} => approval'[n] = approval[n]]_vars
    BY StepInv DEF FinishedKept, ApprovalsKept
  <1> QED
    BY <1>1, InvHolds, PTL DEF Spec, FinishedIsFinal
=============================================================================
