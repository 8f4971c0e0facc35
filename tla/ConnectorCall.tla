---------------------------- MODULE ConnectorCall ----------------------------
(***************************************************************************)
(* One LIVE action of a playbook as the workers carry it out through the   *)
(* managed connector executor: the claim and the reclaim of its node, the  *)
(* ledger of the action, the checks and the rate limit, the adapter of the *)
(* connector's kind, its write to the external system and the read-back,   *)
(* the classification of every failure as permanent or transient, and the  *)
(* settlement of the node that follows from it.                            *)
(*                                                                         *)
(* The adapters differ in the calls around the write (a session for SMTP   *)
(* and LDAP, an OAuth token for EDR, a read-back) and in how a failed      *)
(* read-back is classified.  Two things make this hard.  A write may be    *)
(* carried out although its answer is an error or is lost.  And a lease is *)
(* not renewed: while its holder is still calling, or after it stopped or  *)
(* lost the store, another worker claims the node and calls again.         *)
(***************************************************************************)
EXTENDS Integers, Sequences

CONSTANTS
    Kinds,           \* the adapters of the run
    MaximumAttempts, \* the node's retry policy
    Callers,         \* the workers that claim the node
    MaxReclaims      \* bound on claims of a RUNNING node

AllKinds == {"GENERIC", "ITSM", "NOTIFICATION", "EDR", "LDAP", "SMTP"}

ASSUME CallAssumption ==
    /\ Kinds \subseteq AllKinds /\ MaximumAttempts \in Nat \ {0}
    /\ MaxReclaims \in Nat

VARIABLES
    kind,      \* the adapter of the connector
    status,    \* the node's row: its status,
    attempt,   \*   how often it was claimed,
    owner,     \*   and the holder of its lease, as a set
    ledger,    \* the action's row, found by its idempotency key
    call,      \* each worker: the next call it makes and the attempt it is in
    token,     \* workers with an OAuth token in their cache
    writes,    \* history: the writes sent to the external system
    reclaims,  \* history: claims of a node another claim had left RUNNING
    unverified \* history: writes when a read-back first failed, 0 if none has

nodeRow == <<status, attempt, owner, reclaims>>
callVars == <<kind, nodeRow, ledger, call, token, writes, unverified>>

\* What a call ends with: the verification status of a success, or an error.
Successes == {"VERIFIED", "ACKNOWLEDGED"}
Errors == {"permanent", "transient"}

\* What becomes of a write: not carried out; carried out and not acknowledged;
\* carried out and acknowledged.
WriteOutcomes == {"refused", "doubt", "acked"}

CallInit ==
    /\ kind \in Kinds
    /\ status = "READY" /\ attempt = 0 /\ owner = {}
    /\ ledger = "none"
    /\ call = [w \in Callers |-> [at |-> "idle", attempt |-> 0]]
    /\ token = {}
    /\ writes = <<>> /\ reclaims = 0 /\ unverified = 0

\* The calls of the adapter Execute selects, in order.
Stages(k) ==
    CASE k = "GENERIC" -> <<"plan", "write">>
      [] k = "SMTP" -> <<"plan", "session", "write", "quit">>
      [] k = "LDAP" -> <<"session", "plan", "write", "verify">>
      [] k = "EDR" -> <<"token", "plan", "write", "verify">>
      [] OTHER -> <<"plan", "write", "verify">>

\* The call after the one the worker is in.
Following(k, stage) ==
    Stages(k)[1 + CHOOSE i \in 1..Len(Stages(k)) : Stages(k)[i] = stage]

At(w, stage) == call[w].at = stage
Go(w, stage) == call' = [call EXCEPT ![w].at = stage]

\* A step of worker w that only takes it from one call to another.
Proceed(w, stage, stages) ==
    /\ At(w, stage) /\ \E s \in stages : Go(w, s)
    /\ UNCHANGED <<kind, nodeRow, ledger, token, writes, unverified>>

-----------------------------------------------------------------------------
(* The node and the ledger.                                                *)

\* A READY node, or a RUNNING one whose lease has run out: the lease is shorter
\* than a call may take, and nothing renews it.
ClaimNode(w) ==
    /\ At(w, "idle")
    /\ \/ status = "READY" /\ UNCHANGED reclaims
       \/ status = "RUNNING" /\ reclaims < MaxReclaims /\ reclaims' = reclaims + 1
    /\ status' = "RUNNING" /\ attempt' = attempt + 1 /\ owner' = {w}
    /\ call' = [call EXCEPT ![w] = [at |-> "begin", attempt |-> attempt + 1]]
    /\ UNCHANGED <<kind, ledger, token, writes, unverified>>

\* The row of the action is inserted once; one that has SUCCEEDED ends the call,
\* and one that is RUNNING or FAILED does not.
BeginSOARAction(w) ==
    /\ At(w, "begin")
    /\ ledger' = IF ledger = "none" THEN "RUNNING" ELSE ledger
    /\ Go(w, IF ledger \in Successes THEN "complete" ELSE "preflight")
    /\ UNCHANGED <<kind, nodeRow, token, writes, unverified>>

\* How the worker settles the node: an error is retried if it is transient and
\* the attempt the worker was given is not the last one.
AfterError(w) ==
    IF At(w, "transient") /\ call[w].attempt < MaximumAttempts THEN "retry" ELSE "fail"

FinishSOARAction(w) ==
    /\ \/ /\ call[w].at \in Successes
          /\ ledger' = call[w].at /\ Go(w, "complete")
       \/ /\ call[w].at \in Errors
          /\ ledger' = "FAILED" /\ Go(w, AfterError(w))
    /\ UNCHANGED <<kind, nodeRow, token, writes, unverified>>

\* The settlement is refused to a worker that no longer holds the lease.
Settle(w, stage, outcome) ==
    /\ At(w, stage) /\ Go(w, "idle")
    /\ \/ /\ status = "RUNNING" /\ owner = {w}
          /\ status' = outcome /\ owner' = {}
       \/ ~(status = "RUNNING" /\ owner = {w}) /\ UNCHANGED <<status, owner>>
    /\ UNCHANGED <<kind, attempt, ledger, token, writes, reclaims, unverified>>

CompleteSOARNode(w) == Settle(w, "complete", "SUCCEEDED")
RetrySOARNode(w) == Settle(w, "retry", "READY")
FailSOARNode(w) == Settle(w, "fail", "FAILED")

\* The store answers BeginSOARAction, FinishSOARAction or the settlement with an
\* error: it is no NodeError, and the node is left RUNNING.
StoreFails(w) ==
    /\ call[w].at \in {"begin", "complete", "retry", "fail"} \union Successes \union Errors
    /\ Go(w, "idle")
    /\ UNCHANGED <<kind, nodeRow, ledger, token, writes, unverified>>

CallerStops(w) ==
    /\ ~At(w, "idle") /\ Go(w, "idle")
    /\ token' = token \ {w}
    /\ UNCHANGED <<kind, nodeRow, ledger, writes, unverified>>

-----------------------------------------------------------------------------
(* The calls before the write.                                             *)

\* A connector that is missing, of the wrong kind, not READY, without the
\* action, its secret or a valid payload: permanent.
PreflightRefused(w) == Proceed(w, "preflight", {"permanent"})

\* The reservation fails or the minute is spent: transient.
RateLimited(w) == Proceed(w, "preflight", {"transient"})

Dispatch(w) == Proceed(w, "preflight", {Stages(kind)[1]})

\* SMTP and LDAP: dial, TLS and authentication, and for LDAP the lookup.
OpenSession(w) == Proceed(w, "session", {Following(kind, "session")} \union Errors)

\* EDR: the cached token, or a new one that is then cached.
NativeEDRAccessToken(w) ==
    /\ At(w, "token")
    /\ \/ Go(w, Following(kind, "token")) /\ token' = token \union {w}
       \/ w \notin token /\ UNCHANGED token /\ \E e \in Errors : Go(w, e)
    /\ UNCHANGED <<kind, nodeRow, ledger, writes, unverified>>

TokenExpires(w) ==
    /\ At(w, "idle") /\ w \in token /\ token' = token \ {w}
    /\ UNCHANGED <<kind, nodeRow, ledger, call, writes, unverified>>

\* The adapter's own request: parameters that do not make one are permanent.
BuildRequest(w) == Proceed(w, "plan", {Following(kind, "plan"), "permanent"})

-----------------------------------------------------------------------------
(* The write.                                                              *)

Send(w, outcome) ==
    /\ At(w, "write")
    /\ writes' = Append(writes, [attempt |-> call[w].attempt, outcome |-> outcome])
    /\ UNCHANGED <<kind, nodeRow, ledger, token, unverified>>

\* A write that is carried out and whose answer is lost, cannot be read, is a
\* redirect or a 5xx: mostly transient, permanent for a TLS error, a redirect
\* and an LDAP connection that broke.
WriteUncertain(w) == Send(w, "doubt") /\ \E e \in Errors : Go(w, e)

\* A write that is not carried out.  It does not reach the system: network and
\* time out are transient, TLS, a redirect and a forbidden address permanent.
\* Or the answer refuses it: 429 and 5xx are transient, other statuses permanent;
\* SMTP and LDAP by their own codes.
WriteFails(w) == Send(w, "refused") /\ \E e \in Errors : Go(w, e)

WriteAcknowledged(w) ==
    /\ Send(w, "acked")
    /\ \/ kind = "GENERIC" /\ \E result \in Successes : Go(w, result)
       \/ kind # "GENERIC" /\ Go(w, Following(kind, "write"))

\* A 2xx without the identifier the read-back needs, or a generic answer above
\* 64 KiB: permanent.
WriteUnusable(w) ==
    /\ kind \notin {"LDAP", "SMTP"}
    /\ Send(w, "acked") /\ Go(w, "permanent")

-----------------------------------------------------------------------------
(* The read-back.                                                          *)

\* EDR actions may still be pending when they are read back.
Verified(k) == IF k = "EDR" THEN Successes ELSE {"VERIFIED"}

VerifySucceeds(w) == Proceed(w, "verify", Verified(kind))

\* Mistake: the read-back's failure is classified like any other request's.
VerifyVerdictsTransient(k) == Errors

\* How a failed read-back is classified.  A ticket or message is not written
\* again; the state of a host or account is.
VerifyVerdicts(k) ==
    CASE k \in {"ITSM", "NOTIFICATION"} -> {"permanent"}
      [] k = "LDAP" -> {"transient"}
      [] OTHER -> Errors

VerifyFails(w) ==
    /\ At(w, "verify") /\ \E e \in VerifyVerdicts(kind) : Go(w, e)
    /\ unverified' = IF unverified = 0 THEN Len(writes) ELSE unverified
    /\ UNCHANGED <<kind, nodeRow, ledger, token, writes>>

\* SMTP: QUIT after the message was accepted.
Quit(w) == Proceed(w, "quit", {"ACKNOWLEDGED"} \union Errors)

-----------------------------------------------------------------------------
SendWrite(w) ==
    WriteFails(w) \/ WriteUncertain(w) \/ WriteAcknowledged(w) \/ WriteUnusable(w)

Prepare(w) ==
    \/ PreflightRefused(w) \/ RateLimited(w) \/ Dispatch(w)
    \/ OpenSession(w) \/ NativeEDRAccessToken(w) \/ BuildRequest(w)

Settlement(w) == CompleteSOARNode(w) \/ RetrySOARNode(w) \/ FailSOARNode(w)

CallNext == \E w \in Callers :
    \/ ClaimNode(w) \/ BeginSOARAction(w)
    \/ Prepare(w) \/ SendWrite(w) \/ VerifySucceeds(w) \/ VerifyFails(w) \/ Quit(w)
    \/ FinishSOARAction(w) \/ Settlement(w)
    \/ TokenExpires(w) \/ StoreFails(w) \/ CallerStops(w)

-----------------------------------------------------------------------------
Sent == 1..Len(writes)

\* Kinds of which no acknowledged write is repeated by a retry.
WrittenOnce == {"GENERIC", "ITSM", "NOTIFICATION"}

\* Every attempt sends at most one write, two workers in one attempt included;
\* and the node is attempted more often than its policy says only by claims of
\* a node that was left RUNNING, one each.
AttemptsAreBounded ==
    /\ \A i, j \in Sent : writes[i].attempt = writes[j].attempt => i = j
    /\ \A i \in Sent : writes[i].attempt \in 1..attempt
    /\ attempt <= MaximumAttempts + reclaims
    /\ status = "READY" => attempt < MaximumAttempts

\* Without a reclaim, a ticket, a message or a generic call that was acknowledged
\* is not sent again, whatever becomes of its read-back and of the worker.
AcknowledgedNotRepeated ==
    kind \in WrittenOnce /\ reclaims = 0 =>
        \A i \in Sent : writes[i].outcome = "acked" => i = Len(writes)

\* A node that succeeds, and an action the ledger counts as a success, was
\* carried out and acknowledged by the external system.
SuccessIsReal ==
    status = "SUCCEEDED" \/ ledger \in Successes =>
        \E i \in Sent : writes[i].outcome = "acked"

\* Twice carried out means that some write was carried out without our knowing,
\* that the node was reclaimed, or that the adapter is one whose acknowledged
\* writes may be repeated.
DuplicatesAreExplained ==
    (\E i, j \in Sent : i # j /\ "refused" \notin {writes[i].outcome, writes[j].outcome}) =>
        \/ \E i \in Sent : writes[i].outcome = "doubt"
        \/ reclaims > 0 \/ kind \notin WrittenOnce

\* What the runbook of the native notification connectors says: there is "no
\* automatic replay after a provider acknowledged a write but verification failed".
NoAutomaticReplay ==
    kind \in {"ITSM", "NOTIFICATION"} /\ unverified # 0 => Len(writes) = unverified
=============================================================================
