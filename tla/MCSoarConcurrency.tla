------------------------ MODULE MCSoarConcurrency ------------------------
(* SOAR under concurrency, one part at a time: the statements of store       *)
(* transactions on a diamond of nodes, the control plane of a connector, and *)
(* a LIVE action through the adapter of each kind. The parts share no state. *)
EXTENDS ConnectorControl, ConnectorCall, SoarIsolation

VARIABLE part

\* Two branches of one execution and the node that joins them.
DiamondNodes == {"left", "right", "join"}
DiamondExecution == [n \in DiamondNodes |-> "e1"]
DiamondDeps == [n \in DiamondNodes |-> IF n = "join" THEN {"left", "right"} ELSE {}]

ConfFields == {"endpoint", "secret"}
ConfValues == {1, 2}

Conf(endpoint, secret) ==
    [f \in ConfFields |-> IF f = "endpoint" THEN endpoint ELSE secret]

\* Endpoint 1 needs a secret and endpoint 2 takes none; secret 1 refers to the
\* vault and secret 2 is empty.
BoundConf == Conf(1, 1)
UnboundConf == Conf(1, 2)
AnonymousConf == Conf(2, 2)

ValidConfs == {BoundConf, UnboundConf, AnonymousConf}
AnonymousConfs == {AnonymousConf}
UnboundConfs == {UnboundConf}

MCInit ==
    /\ part \in {"transactions", "control", "call"}
    /\ Init /\ TxInit /\ CallInit /\ (part # "call" => kind = "GENERIC")
MCNext ==
    \/ part = "transactions" /\ TxNext /\ UNCHANGED <<part, vars, callVars>>
    \/ part = "control" /\ Next /\ UNCHANGED <<part, callVars, txVars>>
    \/ part = "call" /\ CallNext /\ UNCHANGED <<part, vars, txVars>>
MCSpec == MCInit /\ [][MCNext]_<<part, vars, callVars, txVars>>

(* LIVE calls are sound: they use a configuration that passed its test, or   *)
(* that an edit slipped in under a running one; each attempt writes once and *)
(* attempts beyond the policy are reclaims of a node left RUNNING; a success *)
(* is the external system's; and what is carried out twice was in doubt, was *)
(* reclaimed, or is of a kind that may be repeated (Execute, the adapters,   *)
(* the worker's retries, ClaimSOARNode and the action ledger).               *)
LiveCallsAreSound ==
    /\ CallsAreTestedOrRaced
    /\ AttemptsAreBounded /\ SuccessIsReal
    /\ AcknowledgedNotRepeated /\ DuplicatesAreExplained
=============================================================================
