--------------------------- MODULE LicenseQuota ---------------------------
(* Admission of telemetry under a tenant's licence: the licence table, the  *)
(* tenant's suspension, and the day's ingest quota, which the replicas of   *)
(* the API share through a Valkey ledger whose keys may be lost at any time *)
(* (eviction, restart) and are then rebuilt from the events already stored. *)
(* One tenant and one UTC day: both are part of every key.                  *)
EXTENDS Integers, Sequences, FiniteSets, FiniteSetsExt

CONSTANTS
    Replicas,       \* API replicas, each serving one request at a time
    Licenses,       \* licences an administrator may install
    Trusted,        \* the ones signed with a trusted key
    Bound,          \* the ones whose payload is valid for this tenant
    DayLimit,       \* events_per_day of each licence
    AfterExpiry,    \* ingest_after_expiry of each licence
    MaxLosses,      \* bound: times the ledger's keys are lost
    MaxAccepted     \* bound: events accepted in the day

ASSUME LicenseAssumption ==
    /\ IsFiniteSet(Replicas)
    /\ Trusted \subseteq Licenses /\ Bound \subseteq Licenses
    /\ DayLimit \in [Licenses -> Nat \ {0}]
    /\ \E l \in Trusted \cap Bound :      \* one licence is valid, and one is the largest
         \A k \in Trusted \cap Bound : DayLimit[k] <= DayLimit[l]
    /\ AfterExpiry \in [Licenses -> {"ALLOW", "BLOCK", "BUFFER"}]
    /\ MaxLosses \in Nat /\ MaxAccepted \in Nat

VARIABLES
    license,    \* tenant_licenses: each licence's row
    phase,      \* where the clock stands in each licence's validity window
    tenant,     \* tenants.state
    ledger,     \* the day's events key, or Missing
    queued,     \* events accepted by the gateway and not yet stored
    stored,     \* events the processor has stored, what IngestUsage counts
    request,    \* what each replica is doing
    losses,     \* times the ledger was lost
    late        \* history: events accepted since the tenant was suspended

licenseVars == <<license, phase, tenant, ledger, queued, stored, request, losses, late>>

Missing == -1
NoRequest == [pc |-> "idle", limit |-> 0, baseline |-> 0]
Phases == <<"NOT_YET_VALID", "ACTIVE", "GRACE", "EXPIRED">>

LicenseInit ==
    /\ license = [l \in Licenses |-> "none"]
    /\ phase = [l \in Licenses |-> 1]
    /\ tenant = "ACTIVE"
    /\ ledger = Missing
    /\ queued = 0 /\ stored = 0 /\ losses = 0 /\ late = 0
    /\ request = [r \in Replicas |-> NoRequest]

licenseState(l) == Phases[phase[l]]
accepted == queued + stored
CurrentLicense == {l \in Licenses : license[l] = "active"}

\* The fields, the validity window, the tenant binding, the modules and the
\* limits of the payload.
validatePayload(l) == l \in Bound

verify(l) == l \in Trusted /\ validatePayload(l)

\* A licence seen before is reactivated in one UPDATE of all the rows, which
\* the unique index on the active row checks row by row: the statement fails
\* when it reaches the old active row last, and then nothing changes.
InstallLicense(l) ==
    /\ verify(l)
    /\ license[l] # "active"
    /\ license' = [k \in Licenses |-> IF k = l THEN "active"
                                      ELSE IF license[k] = "active" THEN "inactive"
                                      ELSE license[k]]
    /\ UNCHANGED <<phase, tenant, ledger, queued, stored, request, losses, late>>

SetTenantState(s) ==
    /\ s # tenant
    /\ tenant' = s
    /\ late' = 0
    /\ UNCHANGED <<license, phase, ledger, queued, stored, request, losses>>

TimePasses(l) ==
    /\ verify(l) /\ phase[l] < Len(Phases)
    /\ phase' = [phase EXCEPT ![l] = @ + 1]
    /\ UNCHANGED <<license, tenant, ledger, queued, stored, request, losses, late>>

----------------------------------------------------------------------------
(* One ingest request, in the steps between which another replica may run.  *)

requestHas(r, pc, limit, baseline) ==
    request' = [request EXCEPT ![r] = [pc |-> pc, limit |-> limit, baseline |-> baseline]]
requestTo(r, pc) == requestHas(r, pc, request[r].limit, request[r].baseline)
requestDone(r) == request' = [request EXCEPT ![r] = NoRequest]

\* Authorize, in the middleware: the tenant and the licence of this moment.
mayIngest(l) ==
    \/ licenseState(l) \in {"ACTIVE", "GRACE"}
    \/ licenseState(l) = "EXPIRED" /\ AfterExpiry[l] = "ALLOW"

Authorize ==
    /\ tenant = "ACTIVE"
    /\ \E l \in CurrentLicense : mayIngest(l)

protectIngest(r) ==
    /\ request[r].pc = "idle"
    /\ accepted < MaxAccepted
    /\ Authorize
    /\ requestTo(r, "authorized")
    /\ UNCHANGED <<license, phase, tenant, ledger, queued, stored, losses, late>>

\* ReserveIngestBatch reads the licence again, for its limits only.
ReadLimits(r) ==
    /\ request[r].pc = "authorized"
    /\ IF CurrentLicense = {} THEN requestDone(r)
       ELSE \E l \in CurrentLicense : requestHas(r, "reserve", DayLimit[l], request[r].baseline)
    /\ UNCHANGED <<license, phase, tenant, ledger, queued, stored, losses, late>>

\* The Valkey script runs atomically; its answer may be lost on the way back
\* (operation timeout), and the request is then refused though it is counted.
quotaScript(r, current) ==
    IF current + 1 > request[r].limit
    THEN ledger' = current /\ requestDone(r)
    ELSE ledger' = current + 1 /\ (requestTo(r, "reserved") \/ requestDone(r))

ReserveIngest(r) ==
    /\ request[r].pc = "reserve"
    /\ IF ledger = Missing THEN requestTo(r, "bootstrap") /\ UNCHANGED ledger
       ELSE quotaScript(r, ledger)
    /\ UNCHANGED <<license, phase, tenant, queued, stored, losses, late>>

IngestUsage(r) ==
    /\ request[r].pc = "bootstrap"
    /\ requestHas(r, "rebase", request[r].limit, stored)
    /\ UNCHANGED <<license, phase, tenant, ledger, queued, stored, losses, late>>

BaselineOverwrites(r) ==    \* mutant of ReserveWithBaseline
    /\ request[r].pc = "rebase"
    /\ quotaScript(r, request[r].baseline)
    /\ UNCHANGED <<license, phase, tenant, queued, stored, losses, late>>

\* The baseline is used only when the key is still missing.
ReserveWithBaseline(r) ==
    /\ request[r].pc = "rebase"
    /\ quotaScript(r, IF ledger = Missing THEN request[r].baseline ELSE ledger)
    /\ UNCHANGED <<license, phase, tenant, queued, stored, losses, late>>

\* The gateway takes the event, or fails and leaves it counted.
queueEvent(r) ==
    /\ request[r].pc = "reserved"
    /\ requestDone(r)
    /\ \/ /\ queued' = queued + 1
          /\ late' = IF tenant = "SUSPENDED" THEN late + 1 ELSE late
       \/ UNCHANGED <<queued, late>>
    /\ UNCHANGED <<license, phase, tenant, ledger, stored, losses>>

\* External: the stream processor and the Valkey server.
Store ==
    /\ queued > 0
    /\ queued' = queued - 1 /\ stored' = stored + 1
    /\ UNCHANGED <<license, phase, tenant, ledger, request, losses, late>>

LoseLedger ==
    /\ ledger # Missing /\ losses < MaxLosses
    /\ ledger' = Missing /\ losses' = losses + 1
    /\ UNCHANGED <<license, phase, tenant, queued, stored, request, late>>

LicenseNext ==
    \/ \E l \in Licenses : InstallLicense(l) \/ TimePasses(l)
    \/ \E s \in {"ACTIVE", "SUSPENDED"} : SetTenantState(s)
    \/ \E r \in Replicas : \/ protectIngest(r) \/ ReadLimits(r) \/ ReserveIngest(r)
                           \/ IngestUsage(r) \/ ReserveWithBaseline(r) \/ queueEvent(r)
    \/ Store
    \/ LoseLedger

LicenseSpec == LicenseInit /\ [][LicenseNext]_licenseVars

----------------------------------------------------------------------------
LargestLimit == Max({DayLimit[l] : l \in {k \in Licenses : verify(k)}})

(* However the replicas interleave their first reservations, and however    *)
(* old the baseline each of them read, the events accepted in a day stay    *)
(* within the largest licensed limit; every loss of the ledger forgives at  *)
(* most one more day's worth, because the rebuilt total may lag what was    *)
(* accepted (ReserveIngestBatch, ingestQuotaScript).                        *)
QuotaHonoured == accepted <= LargestLimit * (losses + 1)

(* Suspending a tenant stops its telemetry: after it, only the requests that *)
(* passed the middleware before it, one per replica, are still accepted      *)
(* (Authorize reads the tenant, ReserveIngestBatch no longer does).          *)
SuspensionBinds == late <= Cardinality(Replicas)

(* The gateway admits what the licence and the tenant's state allow          *)
(* (Server.protect and ReserveIngestBatch).                                  *)
AdmissionIsBounded == QuotaHonoured /\ SuspensionBinds
=============================================================================
