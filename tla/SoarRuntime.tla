---------------------------- MODULE SoarRuntime ----------------------------
(***************************************************************************)
(* The durable SOAR runtime: the workers of internal/soar/worker.go, the   *)
(* store operations of internal/store/soar_runtime.go they call, and the   *)
(* people who decide approvals and finish manual tasks.                    *)
(*                                                                         *)
(* One action is one committed database transaction, one call of an       *)
(* external connector, or the passing of a deadline.  A worker's work on a *)
(* node takes several of them (claim, open the ledger row, call, record    *)
(* the result, settle the node) and may stop between any two.  How the     *)
(* statements of two such transactions interleave is module SoarIsolation. *)
(*                                                                         *)
(* Deadlines are booleans that time may turn: leaseLive (lease_until is    *)
(* ahead), available (available_at has passed), approvalDue (expires_at    *)
(* has passed).                                                            *)
(***************************************************************************)
EXTENDS SoarDag, FiniteSets

CONSTANTS
    Workers,      \* worker identities; a deployment gives each process its own
    NoWorker,     \* the empty lease_owner
    People,       \* users who may hold soar.actions.approve
    Initiator,    \* who triggered an execution
    Kind,         \* what a worker does with a node
    Required,     \* required_approvals of a HUMAN_APPROVAL node
    MaxAttempts,  \* retry.maximum_attempts
    SlipBound     \* bound: how many worker stops and overrun leases a run has

Kinds == {"ACTION", "HUMAN_APPROVAL", "MANUAL_TASK", "DELAY", "PASS", "UNSUPPORTED"}

ASSUME RuntimeAssumption ==
    /\ NoWorker \notin Workers
    /\ IsFiniteSet(People)
    /\ Initiator \in [Executions -> People]
    /\ Kind \in [Nodes -> Kinds]
    /\ Required \in [Nodes -> {1, 2}]
    /\ MaxAttempts \in [Nodes -> Nat \ {0}]
    /\ SlipBound \in Nat

VARIABLES
    execStatus, nodeStatus,          \* soar_executions, soar_node_executions
    attempt, leaseOwner, leaseLive, available, deferred,
    approval, version, approvalDue, decisions,  \* soar_approvals, one row per node
    ledger,                          \* soar_action_attempts, one row per action node
    worker,                          \* what each worker process is doing
    effect,                          \* history: what the provider has acknowledged
    slips                            \* worker stops and overrun leases so far

nodeVars == <<attempt, leaseOwner, leaseLive, available, deferred>>
approvalVars == <<approval, version, approvalDue, decisions>>
vars == <<execStatus, nodeStatus, nodeVars, approvalVars, ledger, worker, effect, slips>>

LiveExecution == {"QUEUED", "RUNNING", "WAITING_APPROVAL", "WAITING_MANUAL"}
ApprovalStatuses == {"NONE", "PENDING", "APPROVED", "REJECTED", "EXPIRED"}
LedgerStatuses == {"NONE", "RUNNING", "SUCCEEDED", "FAILED"}
\* What a connector call reports: success; a write acknowledged but not
\* verified (a permanent NodeError); a retryable NodeError; a permanent one.
Outcomes == {"ok", "unverified", "transient", "permanent"}
\* "replayed": a write was acknowledged after one that could not be verified.
Effects == {"none", "done", "unverified", "replayed"}
Decisions == {"NONE", "APPROVE", "REJECT"}

Idle == [pc |-> "idle"]
Working == [pc : {"claimed", "calling"}, node : Nodes, attempt : Nat]
             \cup [pc : {"called", "settle"}, node : Nodes, attempt : Nat, outcome : Outcomes]

ActionNodes == {n \in Nodes : Kind[n] = "ACTION"}
ApprovalNodes == {n \in Nodes : Kind[n] = "HUMAN_APPROVAL"}

Approvers(n) == {p \in People : decisions[n][p] = "APPROVE"}

-----------------------------------------------------------------------------
(* CreateSOARExecution has committed: nodes without dependencies are READY. *)

Init ==
    /\ execStatus = [e \in Executions |-> "QUEUED"]
    /\ nodeStatus = [n \in Nodes |-> IF Deps[n] = {} THEN "READY" ELSE "PENDING"]
    /\ attempt = [n \in Nodes |-> 0]
    /\ leaseOwner = [n \in Nodes |-> NoWorker]
    /\ leaseLive = [n \in Nodes |-> FALSE]
    /\ available = [n \in Nodes |-> TRUE]
    /\ deferred = [n \in Nodes |-> FALSE]
    /\ approval = [n \in Nodes |-> "NONE"]
    /\ version = [n \in Nodes |-> 0]
    /\ approvalDue = [n \in Nodes |-> FALSE]
    /\ decisions = [n \in Nodes |-> [p \in People |-> "NONE"]]
    /\ ledger = [n \in Nodes |-> "NONE"]
    /\ worker = [w \in Workers |-> Idle]
    /\ effect = [n \in Nodes |-> "none"]
    /\ slips = 0

-----------------------------------------------------------------------------
(* Claiming.  ClaimSOARNode first expires overdue approvals, then leases    *)
(* one due node, in one transaction.  When no node is claimable it returns  *)
(* without committing and the deferred Rollback undoes the expiry, so that  *)
(* case is a step that changes nothing.                                     *)

\* Mutant: the expiry UPDATE lost its status = 'PENDING' condition.
OverdueDecidedToo == {n \in Nodes : approval[n] # "NONE" /\ approvalDue[n]}

Overdue == {n \in Nodes : approval[n] = "PENDING" /\ approvalDue[n]}
ExpiringExecutions == {Execution[n] : n \in Overdue}

\* Node statuses once the overdue approvals have failed their nodes.
ExpiredNodes ==
    [n \in Nodes |-> IF n \in Overdue /\ nodeStatus[n] = "WAITING_APPROVAL"
                     THEN "FAILED" ELSE nodeStatus[n]]
\* ... and after promoteAndReconcileSOAR ran once for each such execution.
NodesAfterExpiry ==
    [n \in Nodes |-> IF Execution[n] \in ExpiringExecutions
                     THEN Reconciled(ExpiredNodes, Execution[n])[n] ELSE nodeStatus[n]]
ExecutionsAfterExpiry ==
    [e \in Executions |-> IF e \in ExpiringExecutions
                          THEN ReconciledExecution(ExpiredNodes, e) ELSE execStatus[e]]

expireSOARApprovals ==
    /\ approval' = [n \in Nodes |-> IF n \in Overdue THEN "EXPIRED" ELSE approval[n]]
    /\ version' = [n \in Nodes |-> IF n \in Overdue THEN version[n] + 1 ELSE version[n]]
    /\ UNCHANGED <<approvalDue, decisions>>

\* Mutant: an expired lease does not make a node claimable again.
ClaimableReadyOnly(n) ==
    /\ ExecutionsAfterExpiry[Execution[n]] \in LiveExecution
    /\ available[n]
    /\ NodesAfterExpiry[n] = "READY"

Claimable(n) ==
    /\ ExecutionsAfterExpiry[Execution[n]] \in LiveExecution
    /\ available[n]
    /\ \/ NodesAfterExpiry[n] = "READY"
       \/ NodesAfterExpiry[n] = "RUNNING" /\ ~leaseLive[n]

ClaimSOARNode(w, n) ==
    /\ worker[w] = Idle
    /\ Claimable(n)
    /\ expireSOARApprovals
    /\ nodeStatus' = [NodesAfterExpiry EXCEPT ![n] = "RUNNING"]
    /\ execStatus' = [ExecutionsAfterExpiry EXCEPT ![Execution[n]] = "RUNNING"]
    /\ attempt' = [attempt EXCEPT ![n] = @ + 1]
    /\ leaseOwner' = [m \in Nodes |->
           IF m = n THEN w ELSE IF NodesAfterExpiry[m] = "CANCELLED" THEN NoWorker ELSE leaseOwner[m]]
    /\ leaseLive' = [m \in Nodes |->
           IF m = n THEN TRUE ELSE NodesAfterExpiry[m] # "CANCELLED" /\ leaseLive[m]]
    /\ worker' = [worker EXCEPT ![w] = [pc |-> "claimed", node |-> n, attempt |-> attempt[n] + 1]]
    /\ UNCHANGED <<available, deferred, ledger, effect, slips>>

-----------------------------------------------------------------------------
(* Settling a node.  Every store operation below checks status = RUNNING    *)
(* and lease_owner = the caller; otherwise it reports ErrInvalidState,      *)
(* which is no NodeError, and the worker drops the item.                    *)

HoldsLease(w, n) == nodeStatus[n] = "RUNNING" /\ leaseOwner[n] = w

\* Worker.process: which store operation the worker calls next for its item.
Verdict(w) ==
    LET item == worker[w] IN
    IF item.pc = "settle" THEN item.outcome
    ELSE IF item.pc # "claimed" THEN "none"
    ELSE CASE Kind[item.node] = "ACTION"         -> "begin"
           [] Kind[item.node] = "HUMAN_APPROVAL" -> "approval"
           [] Kind[item.node] = "MANUAL_TASK"    -> "manual"
           [] Kind[item.node] = "DELAY"          -> IF deferred[item.node] THEN "ok" ELSE "defer"
           [] Kind[item.node] = "PASS"           -> "ok"
           [] Kind[item.node] = "UNSUPPORTED"    -> "permanent"

\* The row of n becomes status st and its lease is released; then
\* promoteAndReconcileSOAR runs for its execution, which releases the leases
\* of the nodes it cancels.
SettleAndReconcile(n, st) ==
    LET s == [nodeStatus EXCEPT ![n] = st]
        e == Execution[n]
    IN /\ nodeStatus' = Reconciled(s, e)
       /\ execStatus' = [execStatus EXCEPT ![e] = ReconciledExecution(s, e)]
       /\ leaseOwner' = [m \in Nodes |->
              IF m = n \/ Reconciled(s, e)[m] = "CANCELLED" THEN NoWorker ELSE leaseOwner[m]]
       /\ leaseLive' = [m \in Nodes |->
              m # n /\ Reconciled(s, e)[m] # "CANCELLED" /\ leaseLive[m]]
       /\ UNCHANGED <<attempt, available, deferred>>

CompleteSOARNode(w) ==
    /\ Verdict(w) = "ok"
    /\ HoldsLease(w, worker[w].node)
    /\ SettleAndReconcile(worker[w].node, "SUCCEEDED")
    /\ worker' = [worker EXCEPT ![w] = Idle]
    /\ UNCHANGED <<approvalVars, ledger, effect, slips>>

\* READY again at a later available_at; the execution is marked RUNNING.
Postpone(n) ==
    /\ nodeStatus' = [nodeStatus EXCEPT ![n] = "READY"]
    /\ execStatus' = [execStatus EXCEPT ![Execution[n]] = "RUNNING"]
    /\ leaseOwner' = [leaseOwner EXCEPT ![n] = NoWorker]
    /\ leaseLive' = [leaseLive EXCEPT ![n] = FALSE]
    /\ available' = [available EXCEPT ![n] = FALSE]

DeferSOARNode(w) ==
    /\ Verdict(w) = "defer"
    /\ HoldsLease(w, worker[w].node)
    /\ Postpone(worker[w].node)
    /\ deferred' = [deferred EXCEPT ![worker[w].node] = TRUE]
    /\ worker' = [worker EXCEPT ![w] = Idle]
    /\ UNCHANGED <<attempt, approvalVars, ledger, effect, slips>>

RetriesLeft(w) == worker[w].attempt < MaxAttempts[worker[w].node]

RetrySOARNode(w) ==
    /\ Verdict(w) = "transient"
    /\ RetriesLeft(w)
    /\ HoldsLease(w, worker[w].node)
    /\ Postpone(worker[w].node)
    /\ worker' = [worker EXCEPT ![w] = Idle]
    /\ UNCHANGED <<attempt, deferred, approvalVars, ledger, effect, slips>>

FailSOARNode(w) ==
    /\ \/ Verdict(w) \in {"permanent", "unverified"}
       \/ Verdict(w) = "transient" /\ ~RetriesLeft(w)
    /\ HoldsLease(w, worker[w].node)
    /\ SettleAndReconcile(worker[w].node, "FAILED")
    /\ worker' = [worker EXCEPT ![w] = Idle]
    /\ UNCHANGED <<approvalVars, ledger, effect, slips>>

\* INSERT ... ON CONFLICT (node) DO NOTHING keeps an existing approval row.
RequestSOARApproval(w) ==
    LET n == worker[w].node IN
    /\ Verdict(w) = "approval"
    /\ HoldsLease(w, n)
    /\ SettleAndReconcile(n, "WAITING_APPROVAL")
    /\ approval' = [approval EXCEPT ![n] = IF @ = "NONE" THEN "PENDING" ELSE @]
    /\ version' = [version EXCEPT ![n] = IF approval[n] = "NONE" THEN 1 ELSE @]
    /\ worker' = [worker EXCEPT ![w] = Idle]
    /\ UNCHANGED <<approvalDue, decisions, ledger, effect, slips>>

RequestSOARManualTask(w) ==
    /\ Verdict(w) = "manual"
    /\ HoldsLease(w, worker[w].node)
    /\ SettleAndReconcile(worker[w].node, "WAITING_MANUAL")
    /\ worker' = [worker EXCEPT ![w] = Idle]
    /\ UNCHANGED <<approvalVars, ledger, effect, slips>>

LeaseLost(w) ==
    /\ Verdict(w) \notin {"none", "begin"}
    /\ ~HoldsLease(w, worker[w].node)
    /\ worker' = [worker EXCEPT ![w] = Idle]
    /\ UNCHANGED <<execStatus, nodeStatus, nodeVars, approvalVars, ledger, effect, slips>>

-----------------------------------------------------------------------------
(* Worker.executeAction: ledger row, connector call, ledger result.  None of *)
(* the three looks at the lease again.                                       *)

\* Mutant: any existing ledger row counts as a finished action.
BeginTrustsAnyRow(w) ==
    LET n == worker[w].node IN
    /\ Verdict(w) = "begin"
    /\ ledger' = [ledger EXCEPT ![n] = IF @ = "NONE" THEN "RUNNING" ELSE @]
    /\ worker' = [worker EXCEPT ![w] =
           IF ledger[n] # "NONE"
           THEN [pc |-> "settle", node |-> n, attempt |-> @.attempt, outcome |-> "ok"]
           ELSE [pc |-> "calling", node |-> n, attempt |-> @.attempt]]
    /\ UNCHANGED <<execStatus, nodeStatus, nodeVars, approvalVars, effect, slips>>

BeginSOARAction(w) ==
    LET n == worker[w].node IN
    /\ Verdict(w) = "begin"
    /\ ledger' = [ledger EXCEPT ![n] = IF @ = "NONE" THEN "RUNNING" ELSE @]
    /\ worker' = [worker EXCEPT ![w] =
           IF ledger[n] = "SUCCEEDED"
           THEN [pc |-> "settle", node |-> n, attempt |-> @.attempt, outcome |-> "ok"]
           ELSE [pc |-> "calling", node |-> n, attempt |-> @.attempt]]
    /\ UNCHANGED <<execStatus, nodeStatus, nodeVars, approvalVars, effect, slips>>

\* The history of node n's provider after a call with this outcome.
Acknowledge(e, outcome) ==
    IF outcome \notin {"ok", "unverified"} THEN e
    ELSE IF e \in {"unverified", "replayed"} THEN "replayed"
    ELSE IF outcome = "ok" THEN "done" ELSE "unverified"

Execute(w, outcome) ==
    LET n == worker[w].node IN
    /\ worker[w].pc = "calling"
    /\ worker' = [worker EXCEPT ![w] =
           [pc |-> "called", node |-> n, attempt |-> @.attempt, outcome |-> outcome]]
    /\ effect' = [effect EXCEPT ![n] = Acknowledge(@, outcome)]
    /\ UNCHANGED <<execStatus, nodeStatus, nodeVars, approvalVars, ledger, slips>>

FinishSOARAction(w) ==
    LET n == worker[w].node IN
    /\ worker[w].pc = "called"
    /\ ledger' = [ledger EXCEPT ![n] =
           IF worker[w].outcome = "ok" THEN "SUCCEEDED" ELSE "FAILED"]
    /\ worker' = [worker EXCEPT ![w].pc = "settle"]
    /\ UNCHANGED <<execStatus, nodeStatus, nodeVars, approvalVars, effect, slips>>

-----------------------------------------------------------------------------
(* People.  A command names the approval version v its author has read.     *)

\* A PENDING approval has version 1, or 2 after the first of two approvals.
Versions == 1..3

\* The path of DecideSOARApproval for an approval past expires_at: it commits
\* the expiry and reports an error to the caller.
DecideOverdueApproval(n, v) ==
    /\ approval[n] = "PENDING" /\ version[n] = v
    /\ approvalDue[n]
    /\ approval' = [approval EXCEPT ![n] = "EXPIRED"]
    /\ version' = [version EXCEPT ![n] = @ + 1]
    /\ SettleAndReconcile(n, IF nodeStatus[n] = "WAITING_APPROVAL" THEN "FAILED" ELSE nodeStatus[n])
    /\ UNCHANGED <<approvalDue, decisions, ledger, worker, effect, slips>>

\* Mutant: the approver is counted on top of the row already inserted.
ApprovalResultCountsTwice(n, p, decision) ==
    IF decision = "REJECT" THEN "REJECTED"
    ELSE IF Cardinality(Approvers(n)) + 2 >= Required[n] THEN "APPROVED"
    ELSE "PENDING"

\* What the recorded decision makes of the approval: a rejection is final, an
\* approval once the quorum of distinct approvers is reached.
ApprovalResult(n, p, decision) ==
    IF decision = "REJECT" THEN "REJECTED"
    ELSE IF Cardinality(Approvers(n) \cup {p}) >= Required[n] THEN "APPROVED"
    ELSE "PENDING"

DecideSOARApproval(p, n, decision, v) ==
    LET result == ApprovalResult(n, p, decision) IN
    /\ approval[n] = "PENDING" /\ version[n] = v
    /\ ~approvalDue[n]
    /\ p # Initiator[Execution[n]]
    /\ decisions[n][p] = "NONE"
    /\ decisions' = [decisions EXCEPT ![n][p] = decision]
    /\ approval' = [approval EXCEPT ![n] = result]
    /\ version' = [version EXCEPT ![n] = @ + 1]
    /\ \/ /\ result # "PENDING"
          /\ nodeStatus[n] = "WAITING_APPROVAL"
          /\ SettleAndReconcile(n, IF result = "APPROVED" THEN "SUCCEEDED" ELSE "FAILED")
       \/ /\ result = "PENDING"
          /\ UNCHANGED <<execStatus, nodeStatus, nodeVars>>
    /\ UNCHANGED <<approvalDue, ledger, worker, effect, slips>>

CompleteSOARManualTask(n) ==
    /\ nodeStatus[n] = "WAITING_MANUAL"
    /\ SettleAndReconcile(n, "SUCCEEDED")
    /\ UNCHANGED <<approvalVars, ledger, worker, effect, slips>>

-----------------------------------------------------------------------------
(* Time and failure.                                                        *)

WorksOn(w, n) == worker[w] # Idle /\ worker[w].node = n

\* lease_until passes.  Nothing renews a lease, and a node's timeout may be
\* longer than it, so it may pass under a worker that is still at work.
LeaseExpires(n) ==
    /\ nodeStatus[n] = "RUNNING" /\ leaseLive[n]
    /\ leaseLive' = [leaseLive EXCEPT ![n] = FALSE]
    /\ \/ WorksOn(leaseOwner[n], n) /\ slips < SlipBound /\ slips' = slips + 1
       \/ ~WorksOn(leaseOwner[n], n) /\ UNCHANGED slips
    /\ UNCHANGED <<execStatus, nodeStatus, attempt, leaseOwner, available, deferred,
                   approvalVars, ledger, worker, effect>>

\* The process dies, or a store call fails: Run logs the error and the node
\* stays RUNNING under the lease the worker took.
WorkerStops(w) ==
    /\ worker[w] # Idle
    /\ slips < SlipBound
    /\ slips' = slips + 1
    /\ worker' = [worker EXCEPT ![w] = Idle]
    /\ UNCHANGED <<execStatus, nodeStatus, nodeVars, approvalVars, ledger, effect>>

BecomesAvailable(n) ==
    /\ ~available[n]
    /\ available' = [available EXCEPT ![n] = TRUE]
    /\ UNCHANGED <<execStatus, nodeStatus, attempt, leaseOwner, leaseLive, deferred,
                   approvalVars, ledger, worker, effect, slips>>

ApprovalWindowCloses(n) ==
    /\ approval[n] # "NONE" /\ ~approvalDue[n]
    /\ approvalDue' = [approvalDue EXCEPT ![n] = TRUE]
    /\ UNCHANGED <<execStatus, nodeStatus, nodeVars, approval, version, decisions,
                   ledger, worker, effect, slips>>

-----------------------------------------------------------------------------

WorkerStep(w) ==
    \/ \E n \in Nodes : ClaimSOARNode(w, n)
    \/ CompleteSOARNode(w)
    \/ DeferSOARNode(w)
    \/ RetrySOARNode(w)
    \/ FailSOARNode(w)
    \/ RequestSOARApproval(w)
    \/ RequestSOARManualTask(w)
    \/ LeaseLost(w)
    \/ BeginSOARAction(w)
    \/ \E outcome \in Outcomes : Execute(w, outcome)
    \/ FinishSOARAction(w)

PersonStep ==
    \/ \E n \in Nodes : CompleteSOARManualTask(n)
    \/ \E n \in Nodes, v \in Versions : DecideOverdueApproval(n, v)
    \/ \E n \in Nodes, p \in People, decision \in {"APPROVE", "REJECT"}, v \in Versions :
          DecideSOARApproval(p, n, decision, v)

TimeStep ==
    \E n \in Nodes : LeaseExpires(n) \/ BecomesAvailable(n) \/ ApprovalWindowCloses(n)

Next ==
    \/ \E w \in Workers : WorkerStep(w) \/ WorkerStops(w)
    \/ PersonStep
    \/ TimeStep

Spec == Init /\ [][Next]_vars

\* Some worker keeps polling, though the others may be gone for good, and time
\* passes; people owe the system nothing.
FairSpec ==
    /\ Spec
    /\ WF_vars(\E w \in Workers : WorkerStep(w))
    /\ WF_vars(\E n \in Nodes : LeaseExpires(n) \/ BecomesAvailable(n))

-----------------------------------------------------------------------------
(* Properties *)

TypeOK ==
    /\ execStatus \in [Executions -> ExecutionStatuses]
    /\ nodeStatus \in [Nodes -> NodeStatuses]
    /\ attempt \in [Nodes -> Nat]
    /\ leaseOwner \in [Nodes -> Workers \cup {NoWorker}]
    /\ leaseLive \in [Nodes -> BOOLEAN]
    /\ available \in [Nodes -> BOOLEAN]
    /\ deferred \in [Nodes -> BOOLEAN]
    /\ approval \in [Nodes -> ApprovalStatuses]
    /\ version \in [Nodes -> Nat]
    /\ approvalDue \in [Nodes -> BOOLEAN]
    /\ decisions \in [Nodes -> [People -> Decisions]]
    /\ ledger \in [Nodes -> LedgerStatuses]
    /\ worker \in [Workers -> {Idle} \cup Working]
    /\ effect \in [Nodes -> Effects]
    /\ slips \in 0..SlipBound

\* An approval node that let its successors through: enough distinct people
\* approved it and the initiator of the execution is not among them.
QuorumReached(a) ==
    /\ approval[a] = "APPROVED"
    /\ Cardinality(Approvers(a)) >= Required[a]
    /\ Initiator[Execution[a]] \notin Approvers(a)

\* No provider has acknowledged a write for an action node before every
\* approval node upstream of it, however far, reached its quorum without the
\* initiator, whatever workers crash, repeat or overrun their leases
\* (DecideSOARApproval, promoteAndReconcileSOAR, ClaimSOARNode).
ApprovalGate ==
    \A n \in ActionNodes : effect[n] # "none" =>
        \A a \in Ancestors(n) \cap ApprovalNodes : QuorumReached(a)

\* promoteAndReconcileSOAR never ends an execution with work left over, and
\* never leaves one open, or calls it a success, once a node has failed.
RunOutcome ==
    \A e \in Executions :
        /\ execStatus[e] \in TerminalExecution => ActiveNodes(nodeStatus, e) = {}
        /\ HasFailed(nodeStatus, e) <=> execStatus[e] = "FAILED"

\* Whatever a node waits for can still come: a waiting approval node has an
\* undecided approval, and a RUNNING node a lease that can expire.
NoOrphanWait ==
    \A n \in Nodes :
        /\ nodeStatus[n] = "WAITING_APPROVAL" => approval[n] = "PENDING"
        /\ nodeStatus[n] = "RUNNING" => leaseOwner[n] \in Workers

\* A worker that passes the lease check works on the latest claim of the
\* node, not on one whose lease another worker has since taken over.
HolderIsCurrent ==
    \A w \in Workers :
        worker[w] # Idle /\ HoldsLease(w, worker[w].node)
            => worker[w].attempt = attempt[worker[w].node]

\* An action node is SUCCEEDED only after its provider acknowledged a write,
\* also when the worker that completes it is not the one that made the call.
SuccessHasEffect ==
    \A n \in ActionNodes : nodeStatus[n] = "SUCCEEDED" => effect[n] # "none"

\* A finished node, execution or approval never changes again: no late
\* worker, late decision or late expiry reopens or rewrites it.
FinishedIsFinal ==
    [][/\ \A n \in Nodes : nodeStatus[n] \notin ActiveStatuses => nodeStatus'[n] = nodeStatus[n]
       /\ \A e \in Executions : execStatus[e] \in TerminalExecution => execStatus'[e] = execStatus[e]
       /\ \A n \in Nodes : approval[n] \notin {"NONE", "PENDING"} => approval'[n] = approval[n]]_vars

\* Under fair workers every straight execution comes, again and again, to a
\* point where it has finished or only people can move it on: a crash or an
\* overrun lease delays a run, it does not lose it (ClaimSOARNode reclaims
\* expired leases).  Parallel branches are left to SoarIsolation, where two
\* commits can strand their join.
RunsSettle ==
    \A e \in StraightExecutions :
        []<>(\/ execStatus[e] \in TerminalExecution
             \/ \E n \in NodesOf(e) : nodeStatus[n] \in {"WAITING_APPROVAL", "WAITING_MANUAL"})

-----------------------------------------------------------------------------
(* The inductive invariant of SoarRuntimeProofs: what has to hold between   *)
(* steps for the properties above to be preserved by each of them.          *)

DependenciesDone(n) == \A d \in Deps[n] : nodeStatus[d] = "SUCCEEDED"

\* A node left PENDING, other than by cancellation, only after its
\* dependencies, and a cancelled node has a failed one in its execution.
NodesInOrder ==
    \A n \in Nodes :
        /\ nodeStatus[n] \notin {"PENDING", "CANCELLED"} => DependenciesDone(n)
        /\ nodeStatus[n] = "CANCELLED" => HasFailed(nodeStatus, Execution[n])

\* An approval row and its node move together.
ApprovalRowOK(n) ==
    /\ approval[n] # "NONE" =>
          nodeStatus[n] \in {"WAITING_APPROVAL", "SUCCEEDED", "FAILED", "CANCELLED"}
    /\ approval[n] = "PENDING" => nodeStatus[n] \in {"WAITING_APPROVAL", "CANCELLED"}
    /\ nodeStatus[n] = "WAITING_APPROVAL" => Kind[n] = "HUMAN_APPROVAL" /\ approval[n] = "PENDING"
    /\ nodeStatus[n] = "WAITING_MANUAL" => Kind[n] = "MANUAL_TASK"
    /\ nodeStatus[n] = "SUCCEEDED" /\ Kind[n] = "HUMAN_APPROVAL" => approval[n] = "APPROVED"
    /\ approval[n] = "APPROVED" => Cardinality(Approvers(n)) >= Required[n]
    /\ decisions[n][Initiator[Execution[n]]] = "NONE"

ApprovalTracksNode == \A n \in Nodes : ApprovalRowOK(n)

\* A worker, and a provider's acknowledgement, are only ever about a node
\* whose dependencies are done; an action is called only for action nodes.
WorkInOrder ==
    /\ \A w \in Workers : worker[w] # Idle =>
          /\ DependenciesDone(worker[w].node)
          /\ worker[w].pc # "claimed" => Kind[worker[w].node] = "ACTION"
    /\ \A n \in Nodes : effect[n] # "none" => DependenciesDone(n)

\* A success is reported only after a provider acknowledged a write.
SuccessReported ==
    /\ \A n \in Nodes : ledger[n] = "SUCCEEDED" => effect[n] # "none"
    /\ \A w \in Workers :
          worker[w].pc \in {"called", "settle"} /\ worker[w].outcome = "ok"
              => effect[worker[w].node] # "none"

RuntimeInv ==
    /\ TypeOK
    /\ NodesInOrder
    /\ RunOutcome
    /\ ApprovalTracksNode
    /\ NoOrphanWait
    /\ WorkInOrder
    /\ HolderIsCurrent
    /\ SuccessReported
    /\ SuccessHasEffect
=============================================================================
