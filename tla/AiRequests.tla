------------------------------ MODULE AiRequests ------------------------------
(***************************************************************************)
(* AI SOC requests: submitted under a policy the tenant may change at any  *)
(* time, claimed under a lease by workers that may die, answered by a      *)
(* gateway, decided on by an analyst.  internal/aisoc,                     *)
(* internal/store/ai_soc.go, internal/httpapi/ai_soc.go, cmd/ai-worker.    *)
(* Workers have different ids.  A context is "clean", "injected" (it looks *)
(* like instructions) or "missing"; what a gateway returns is arbitrary.   *)
(***************************************************************************)
EXTENDS Integers, Sequences, FiniteSets

CONSTANTS
    AiKeys,            \* idempotency keys of the requests
    AiWorkers,
    AiContexts,        \* contexts that requests refer to
    MaxAiPolicies,     \* bound on the versions of the policy
    MaxAiAttempts      \* bound on the attempts that end without a result

ASSUME AiRequestsAssumption == AiContexts \subseteq {"clean", "injected", "missing"}

VARIABLES
    aiPolicy,      \* the versions of the policy, the last is in force
    aiSubmit,      \* key -> the submission that has passed the checks, or {}
    aiRequest,     \* key -> row
    aiWorker,      \* worker -> what it is doing
    aiCalls,       \* the calls to a gateway
    aiAudit,       \* outcomes that were audited, per request, in order
    aiDecisions    \* key -> decisions

aiVars == <<aiPolicy, aiSubmit, aiRequest, aiWorker, aiCalls, aiAudit, aiDecisions>>

Providers == {"LOCAL", "CLOUD"}
Policies == [enabled : BOOLEAN, cloudAllowed : BOOLEAN]
NoAiRow == [status |-> "ABSENT"]
NoAiWork == [at |-> "idle"]
aiEnded == {"SUCCEEDED", "FAILED", "BLOCKED"}

policyNow == aiPolicy[Len(aiPolicy)]

AiInit ==
    /\ aiPolicy = <<[enabled |-> TRUE, cloudAllowed |-> TRUE]>>
    /\ aiSubmit = [k \in AiKeys |-> {}]
    /\ aiRequest = [k \in AiKeys |-> NoAiRow]
    /\ aiWorker = [w \in AiWorkers |-> NoAiWork]
    /\ aiCalls = {} /\ aiAudit = [k \in AiKeys |-> <<>>]
    /\ aiDecisions = [k \in AiKeys |-> {}]

policyAllows(policy, provider) == policy.enabled /\ (provider = "CLOUD" => policy.cloudAllowed)

-----------------------------------------------------------------------------
(* A version of the policy that is not the one the request names is        *)
(* refused; the fields left out are those of the version named.            *)
UpdateAISOCPolicy(policy) ==
    /\ Len(aiPolicy) < MaxAiPolicies /\ policy # policyNow
    /\ aiPolicy' = Append(aiPolicy, policy)
    /\ UNCHANGED <<aiSubmit, aiRequest, aiWorker, aiCalls, aiAudit, aiDecisions>>

(* Submit checks the draft against the policy, *)
Submit(k, provider, ctx) ==
    /\ aiSubmit[k] = {} /\ policyAllows(policyNow, provider)
    /\ aiSubmit' = [aiSubmit EXCEPT ![k] = {[provider |-> provider, context |-> ctx]}]
    /\ UNCHANGED <<aiPolicy, aiRequest, aiWorker, aiCalls, aiAudit, aiDecisions>>

(* and inserts it unless the key is taken; a repetition is answered with   *)
(* the request that has the key if it says the same, otherwise refused.    *)
CreateAISOCRequest(k) ==
    \E draft \in aiSubmit[k] :
        /\ aiRequest' = IF aiRequest[k] # NoAiRow THEN aiRequest
              ELSE [aiRequest EXCEPT ![k] = [status |-> "QUEUED", draft |-> draft, owner |-> {}, leased |-> FALSE, attempt |-> 0]]
        /\ aiSubmit' = [aiSubmit EXCEPT ![k] = {}]
        /\ UNCHANGED <<aiPolicy, aiWorker, aiCalls, aiAudit, aiDecisions>>

(* Decide looks at the request; the insert asks again for its success, and *)
(* a request has at most one decision.                                     *)
CreateAISOCDecision(k, decision) ==
    /\ aiRequest[k].status = "SUCCEEDED" /\ aiDecisions[k] = {}
    /\ aiDecisions' = [aiDecisions EXCEPT ![k] = {decision}]
    /\ UNCHANGED <<aiPolicy, aiSubmit, aiRequest, aiWorker, aiCalls, aiAudit>>

-----------------------------------------------------------------------------
onlyQueued(k) == aiRequest[k].status = "QUEUED"
claimable(k) == aiRequest[k].status = "QUEUED" \/ (aiRequest[k].status = "RUNNING" /\ ~aiRequest[k].leased)

ClaimAISOCRequest(w, k) ==
    /\ aiWorker[w].at = "idle" /\ claimable(k)
    /\ aiRequest' = [aiRequest EXCEPT ![k] = [status |-> "RUNNING", draft |-> @.draft, owner |-> {w}, leased |-> TRUE, attempt |-> @.attempt + 1]]
    /\ aiWorker' = [aiWorker EXCEPT ![w] = [at |-> "claimed", key |-> k, since |-> Len(aiPolicy)]]
    /\ UNCHANGED <<aiPolicy, aiSubmit, aiCalls, aiAudit, aiDecisions>>

aiGoes(w, at) == aiWorker' = [aiWorker EXCEPT ![w] = [at |-> at, key |-> aiWorker[w].key, since |-> aiWorker[w].since]]
draftOf(w) == aiRequest[aiWorker[w].key].draft

(* ProcessOne reads the policy again; what it forbids is blocked.          *)
trustsSubmit(w) == TRUE
stillAllowed(w) == policyAllows(policyNow, draftOf(w).provider)

GetAISOCPolicy(w) ==
    /\ aiWorker[w].at = "claimed"
    /\ aiGoes(w, IF stillAllowed(w) THEN "allowed" ELSE "BLOCKED") \/ aiGoes(w, "FAILED")
    /\ UNCHANGED <<aiPolicy, aiSubmit, aiRequest, aiCalls, aiAudit, aiDecisions>>

BuildContext(w) ==
    /\ aiWorker[w].at = "allowed"
    /\ aiGoes(w, CASE draftOf(w).context = "clean" -> "built"
                   [] draftOf(w).context = "injected" -> "BLOCKED"
                   [] draftOf(w).context = "missing" -> "FAILED")
    /\ UNCHANGED <<aiPolicy, aiSubmit, aiRequest, aiCalls, aiAudit, aiDecisions>>

(* The gateway fails, answers with another model or with an answer that    *)
(* ValidateRecommendation rejects, or with a recommendation.               *)
Generate(w) ==
    /\ aiWorker[w].at = "built"
    /\ aiCalls' = aiCalls \cup {[draft |-> draftOf(w), since |-> aiWorker[w].since, until |-> Len(aiPolicy)]}
    /\ aiGoes(w, "SUCCEEDED") \/ aiGoes(w, "FAILED")
    /\ UNCHANGED <<aiPolicy, aiSubmit, aiRequest, aiAudit, aiDecisions>>

anyWorker(w, k) == aiRequest[k].status \in {"RUNNING", "SUCCEEDED", "FAILED", "BLOCKED"}
holdsRequest(w, k) == aiRequest[k].status = "RUNNING" /\ aiRequest[k].owner = {w}

finish(w, ends, action) ==
    LET k == aiWorker[w].key IN
    /\ aiWorker[w].at \in ends
    /\ IF holdsRequest(w, k)
       THEN /\ aiRequest' = [aiRequest EXCEPT ![k] = [status |-> aiWorker[w].at, draft |-> @.draft, owner |-> {}, leased |-> FALSE, attempt |-> @.attempt]]
            /\ aiWorker' = [aiWorker EXCEPT ![w] = [at |-> "finished", key |-> k, outcome |-> action]]
       ELSE aiWorker' = [aiWorker EXCEPT ![w] = NoAiWork] /\ UNCHANGED aiRequest
    /\ UNCHANGED <<aiPolicy, aiSubmit, aiCalls, aiAudit, aiDecisions>>

CompleteAISOCRequest(w) == finish(w, {"SUCCEEDED"}, "SUCCEEDED")
FinishAISOCRequestFailure(w) == finish(w, {"FAILED", "BLOCKED"}, aiWorker[w].at)

(* The outcome is audited by a call of its own.                            *)
auditOutcome(w) ==
    /\ aiWorker[w].at = "finished"
    /\ aiAudit' = [aiAudit EXCEPT ![aiWorker[w].key] = Append(@, aiWorker[w].outcome)]
    /\ aiWorker' = [aiWorker EXCEPT ![w] = NoAiWork]
    /\ UNCHANGED <<aiPolicy, aiSubmit, aiRequest, aiCalls, aiDecisions>>

ProcessOne(w) ==
    \/ \E k \in AiKeys : ClaimAISOCRequest(w, k)
    \/ GetAISOCPolicy(w) \/ BuildContext(w) \/ Generate(w)
    \/ CompleteAISOCRequest(w) \/ FinishAISOCRequestFailure(w) \/ auditOutcome(w)

mayFail(k) == aiRequest[k].attempt < MaxAiAttempts
worksOn(w, k) == aiWorker[w].at # "idle" /\ aiWorker[w].key = k

(* The worker dies, or the database does not answer it.                    *)
aiWorkerDies(w) ==
    /\ aiWorker[w].at # "idle" /\ (mayFail(aiWorker[w].key) \/ aiWorker[w].at = "finished")
    /\ aiWorker' = [aiWorker EXCEPT ![w] = NoAiWork]
    /\ UNCHANGED <<aiPolicy, aiSubmit, aiRequest, aiCalls, aiAudit, aiDecisions>>

(* The lease ends: because its holder is gone, or because it is slow.      *)
aiLeaseEnds(k) ==
    /\ aiRequest[k].status = "RUNNING" /\ aiRequest[k].leased
    /\ mayFail(k) \/ ~\E w \in aiRequest[k].owner : worksOn(w, k)
    /\ aiRequest' = [aiRequest EXCEPT ![k].leased = FALSE]
    /\ UNCHANGED <<aiPolicy, aiSubmit, aiWorker, aiCalls, aiAudit, aiDecisions>>

aiLeaseStep == \E k \in AiKeys : aiLeaseEnds(k)

AiNext ==
    \/ \E policy \in Policies : UpdateAISOCPolicy(policy)
    \/ \E k \in AiKeys :
          \/ \E provider \in Providers, ctx \in AiContexts : Submit(k, provider, ctx)
          \/ CreateAISOCRequest(k)
          \/ \E decision \in {"ACCEPTED", "REJECTED"} : CreateAISOCDecision(k, decision)
    \/ \E w \in AiWorkers : ProcessOne(w) \/ aiWorkerDies(w)
    \/ aiLeaseStep

AiSpec == AiInit /\ [][AiNext]_aiVars /\ (\A w \in AiWorkers : WF_aiVars(ProcessOne(w))) /\ WF_aiVars(aiLeaseStep)

-----------------------------------------------------------------------------
(* Whatever the policy and the leases do in the meantime, a context goes   *)
(* to a gateway only if the policy allowed it at some moment after the     *)
(* request was claimed, and only a clean one; a request has one outcome,   *)
(* the one that was audited; and a decision is about a recommendation.     *)
AiIsGoverned ==
    /\ \A call \in aiCalls :
          /\ \E v \in call.since .. call.until : policyAllows(aiPolicy[v], call.draft.provider)
          /\ call.draft.context = "clean"
    /\ \A k \in AiKeys :
          /\ Len(aiAudit[k]) <= 1 /\ (aiAudit[k] # <<>> => aiAudit[k] = <<aiRequest[k].status>>)
          /\ aiDecisions[k] # {} => aiRequest[k].status = "SUCCEEDED"

(* A request that is queued ends, also when workers die and leases are     *)
(* lost on the way.                                                        *)
AiRequestEnds == \A k \in AiKeys : aiRequest[k].status = "QUEUED" ~> aiRequest[k].status \in aiEnded
=============================================================================
