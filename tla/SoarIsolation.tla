--------------------------- MODULE SoarIsolation ---------------------------
(***************************************************************************)
(* The statements of SOAR store transactions, interleaved.  Every          *)
(* transaction of internal/store/soar_runtime.go runs at PostgreSQL's      *)
(* default READ COMMITTED level: each statement sees what was committed    *)
(* when it began plus its own transaction's writes, an UPDATE locks the    *)
(* rows it matches one by one, waits for a row another transaction has     *)
(* written, and rechecks its WHERE clause on the row it then finds.        *)
(*                                                                         *)
(* A transaction here writes one node row and then either reconciles the   *)
(* DAG (Complete, Fail, RequestApproval, RequestManualTask, Decide,        *)
(* CompleteManualTask) or just marks the execution RUNNING (Claim, Retry,  *)
(* Defer).  Leases are left out: whoever locks the row first settles it.   *)
(***************************************************************************)
EXTENDS SoarDag

CONSTANT Txns     \* database sessions: workers and API requests

VARIABLES
    rows,         \* committed status of every node row
    execRow,      \* committed status of every execution row
    tx            \* the open transaction of each session

txVars == <<rows, execRow, tx>>

NoTx == [pc |-> "idle"]

\* The WHERE status and the SET status of each transaction's first UPDATE.
Reconciling == {<<"RUNNING", "SUCCEEDED">>, <<"RUNNING", "FAILED">>,
                <<"RUNNING", "WAITING_APPROVAL">>, <<"RUNNING", "WAITING_MANUAL">>,
                <<"WAITING_APPROVAL", "SUCCEEDED">>, <<"WAITING_APPROVAL", "FAILED">>,
                <<"WAITING_MANUAL", "SUCCEEDED">>}
Marking == {<<"READY", "RUNNING">>, <<"RUNNING", "RUNNING">>, <<"RUNNING", "READY">>}

Open(t) == tx[t] # NoTx
Wrote(t, n) == Open(t) /\ n \in DOMAIN tx[t].writes
Locked(t, n) == \E u \in Txns \ {t} : Wrote(u, n)

\* The node rows as a statement of t sees them.
View(t) == [n \in Nodes |-> IF Wrote(t, n) THEN tx[t].writes[n] ELSE rows[n]]

Write(t, n, st) ==
    [m \in DOMAIN tx[t].writes \cup {n} |-> IF m = n THEN st ELSE tx[t].writes[m]]

\* The next statement of t's transaction.
Continue(t, pc, writes, todo, verdict) ==
    tx' = [tx EXCEPT ![t] = [pc |-> pc, exec |-> tx[t].exec, writes |-> writes, todo |-> todo, verdict |-> verdict]]

TxInit ==
    /\ rows = [n \in Nodes |-> IF Deps[n] = {} THEN "READY" ELSE "PENDING"]
    /\ execRow = [e \in Executions |-> "QUEUED"]
    /\ tx = [t \in Txns |-> NoTx]

\* First UPDATE of a transaction: the node row itself.  ClaimSOARNode, which
\* takes a READY row or a RUNNING one whose lease ran out, also joins on a
\* live execution, and skips locked rows instead of waiting.
SettleRow(t, n, move) ==
    /\ ~Open(t)
    /\ ~Locked(t, n)
    /\ rows[n] = move[1]
    /\ move[2] = "RUNNING" => execRow[Execution[n]] \notin TerminalExecution
    /\ tx' = [tx EXCEPT ![t] =
           [pc |-> IF move \in Reconciling THEN "promote" ELSE "mark",
            exec |-> Execution[n], writes |-> [m \in {n} |-> move[2]], todo |-> {}, verdict |-> "RUNNING"]]
    /\ UNCHANGED <<rows, execRow>>

\* promoteAndReconcileSOAR, statement 1: choose the rows from the snapshot ...
PromoteSnapshot(t) ==
    /\ tx[t].pc = "promote"
    /\ Continue(t, "promoting", tx[t].writes, Promotable(View(t), tx[t].exec), tx[t].verdict)
    /\ UNCHANGED <<rows, execRow>>

\* ... and update them one by one, each rechecked once its lock is free.
PromoteRow(t, n) ==
    /\ tx[t].pc = "promoting" /\ n \in tx[t].todo
    /\ ~Locked(t, n)
    /\ Continue(t, "promoting", IF View(t)[n] = "PENDING" THEN Write(t, n, "READY") ELSE tx[t].writes,
                tx[t].todo \ {n}, tx[t].verdict)
    /\ UNCHANGED <<rows, execRow>>

\* Statement 2: the four counts, and the status they select.
Summarize(t) ==
    /\ tx[t].pc = "promoting" /\ tx[t].todo = {}
    /\ Continue(t, IF HasFailed(View(t), tx[t].exec) THEN "cancel" ELSE "mark", tx[t].writes, {},
                ExecutionVerdict(View(t), tx[t].exec))
    /\ UNCHANGED <<rows, execRow>>

\* Mutant: only rows no worker has touched are cancelled.
CancelSnapshotUnstarted(t) ==
    /\ tx[t].pc = "cancel"
    /\ Continue(t, "cancelling", tx[t].writes, {n \in NodesOf(tx[t].exec) : View(t)[n] \in {"PENDING", "READY"}}, tx[t].verdict)
    /\ UNCHANGED <<rows, execRow>>

\* Statement 3, only when a node failed: cancel every active row.
CancelSnapshot(t) ==
    /\ tx[t].pc = "cancel"
    /\ Continue(t, "cancelling", tx[t].writes, ActiveNodes(View(t), tx[t].exec), tx[t].verdict)
    /\ UNCHANGED <<rows, execRow>>

CancelRow(t, n) ==
    /\ tx[t].pc = "cancelling" /\ n \in tx[t].todo
    /\ ~Locked(t, n)
    /\ Continue(t, "cancelling", IF View(t)[n] \in ActiveStatuses THEN Write(t, n, "CANCELLED") ELSE tx[t].writes,
                tx[t].todo \ {n}, tx[t].verdict)
    /\ UNCHANGED <<rows, execRow>>

\* Last statement, the unconditional UPDATE of the execution row, and COMMIT.
MarkAndCommit(t) ==
    /\ \/ tx[t].pc = "mark"
       \/ tx[t].pc = "cancelling" /\ tx[t].todo = {}
    /\ rows' = View(t)
    /\ execRow' = [execRow EXCEPT ![tx[t].exec] = tx[t].verdict]
    /\ tx' = [tx EXCEPT ![t] = NoTx]

\* The session is lost, or the deadlock detector picks this transaction.
Rollback(t) ==
    /\ Open(t)
    /\ tx' = [tx EXCEPT ![t] = NoTx]
    /\ UNCHANGED <<rows, execRow>>

TxNext == \E t \in Txns :
    \/ \E n \in Nodes, move \in Reconciling \cup Marking : SettleRow(t, n, move)
    \/ PromoteSnapshot(t)
    \/ \E n \in Nodes : PromoteRow(t, n) \/ CancelRow(t, n)
    \/ Summarize(t)
    \/ CancelSnapshot(t)
    \/ MarkAndCommit(t)
    \/ Rollback(t)

TxSpec == TxInit /\ [][TxNext]_txVars

-----------------------------------------------------------------------------
(* Properties *)

\* However the statements of concurrent settlements interleave, the committed
\* rows agree: a failed node means a FAILED execution, and an execution that
\* ended has no row left for a worker or a person to act on.
CommittedOutcome ==
    \A e \in Executions :
        /\ HasFailed(rows, e) <=> execRow[e] = "FAILED"
        /\ execRow[e] \in TerminalExecution => ActiveNodes(rows, e) = {}

\* No interleaving lets a node row leave PENDING, other than by cancellation,
\* before every row it depends on has committed SUCCEEDED.
StartsAfterDependencies ==
    \A n \in Nodes : rows[n] \notin {"PENDING", "CANCELLED"} =>
        \A d \in Deps[n] : rows[d] = "SUCCEEDED"

\* What the transactions of concurrent workers leave behind agrees, whichever
\* statements of theirs interleave (reconcileSOARExecution at READ COMMITTED).
CommittedRowsAgree == CommittedOutcome /\ StartsAfterDependencies

\* docs/runbooks/soar-human-approval.md: once the last approval a protected
\* action waits for is APPROVED, the action is READY; so when no transaction
\* is open, no PENDING node has all its dependencies SUCCEEDED.
DependentReady ==
    (\A t \in Txns : ~Open(t)) => \A e \in Executions : Promotable(rows, e) = {}
=============================================================================
