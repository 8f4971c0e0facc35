----------------------------- MODULE ApiRequests -----------------------------
(***************************************************************************)
(* The way of a request through the API: the credential becomes a          *)
(* principal, the principal needs the permission of the route and          *)
(* membership of the tenant, the tenant a licence; the handler takes its   *)
(* effect and its entry in the audit log in one of three orders, and       *)
(* answers.  The server may die, or the client go away, between any two of *)
(* these, and the client may send the request again.  Service accounts are *)
(* issued, rotated and revoked meanwhile.  internal/httpapi,               *)
(* internal/platform/auth, internal/serviceaccount,                        *)
(* internal/store/service_accounts.go.                                     *)
(*                                                                         *)
(* What an operation does with a repeated request (refuse, replay or       *)
(* repeat it) is left open here; the operations have modules of their own. *)
(***************************************************************************)
EXTENDS Integers, FiniteSets

CONSTANTS
    Users,          \* user -> the roles, tenants and assurance its token claims
    ServiceNames,   \* names of service accounts
    ScopeRequests,  \* sets of scopes asked for
    Routes,         \* the handlers requests are sent to
    ApiTenants,
    ApiClients,
    MaxTokens,      \* bound on the tokens of a service account
    MaxSends        \* bound on how often a client sends its request

VARIABLES
    serviceAccounts,  \* name -> row, if there is one
    apiRequest,       \* client -> its request and how far it is
    effects,          \* what took effect
    auditLog          \* the entries that requests left

apiVars == <<serviceAccounts, apiRequest, effects, auditLog>>

-----------------------------------------------------------------------------
(* The routes that change or disclose something: the permission each asks  *)
(* for, and whether its audit entry is written after the effect, with it,  *)
(* or first. *)
route(permission, order) == [permission |-> permission, audit |-> order]

detectionRoutes ==
    [createDetectionDraft |-> route("siem.rules.write", "after"), validateDetectionContent |-> route("siem.rules.write", "after"),
     publishDetectionContent |-> route("siem.rules.publish", "after"), disableDetectionContent |-> route("siem.rules.publish", "after"),
     rollbackDetectionContent |-> route("siem.rules.publish", "after")]
parserRoutes ==
    [createParserDraft |-> route("siem.parsers.write", "after"), createParserVersion |-> route("siem.parsers.write", "after"),
     validateParser |-> route("siem.parsers.write", "after"), publishParser |-> route("siem.parsers.publish", "after"), disableParser |-> route("siem.parsers.publish", "after")]
playbookRoutes ==
    [createSOARPlaybook |-> route("soar.playbooks.write", "after"), createSOARVersion |-> route("soar.playbooks.write", "after"),
     validateSOARVersion |-> route("soar.playbooks.write", "after"), publishSOARVersion |-> route("soar.playbooks.write", "after"),
     disableSOARPlaybook |-> route("soar.playbooks.write", "after")]
executionRoutes ==
    [startSOARExecution |-> route("soar.playbooks.execute", "after"), completeSOARManualTask |-> route("soar.playbooks.execute", "after"),
     decideSOARApproval |-> route("soar.actions.approve", "within")]
connectorRoutes ==
    [createSOARConnector |-> route("soar.connectors.manage", "after"), updateSOARConnector |-> route("soar.connectors.manage", "after"),
     disableSOARConnector |-> route("soar.connectors.manage", "after"), queueSOARConnectorTest |-> route("soar.connectors.test", "after")]
feedRoutes ==
    [createThreatIntelFeed |-> route("ti.indicators.manage", "after"), updateThreatIntelFeed |-> route("ti.indicators.manage", "after"),
     queueThreatIntelFeedSync |-> route("ti.indicators.manage", "after"), testThreatIntelFeed |-> route("ti.indicators.manage", "after")]
indicatorRoutes ==
    [upsertThreatIndicator |-> route("ti.indicators.manage", "after"), updateThreatIndicatorState |-> route("ti.indicators.manage", "after"),
     importThreatIntelSTIX |-> route("ti.indicators.manage", "after"), retrosearchThreatIndicator |-> route("ti.indicators.manage", "after")]
huntRoutes ==
    [createSavedHunt |-> route("siem.hunt.manage", "after"), updateSavedHunt |-> route("siem.hunt.manage", "after"),
     deleteSavedHunt |-> route("siem.hunt.manage", "after"), executeSavedHunt |-> route("siem.hunt.execute", "after"),
     searchHunt |-> route("siem.hunt.execute", "after")]
licenseRoutes ==
    [installLicense |-> route("licenses.install", "after"), createAdminTenant |-> route("admin.tenants.manage", "after"),
     updateAdminTenant |-> route("admin.tenants.manage", "after")]
reportRoutes ==
    [generateReport |-> route("reports.generate", "after"), downloadReport |-> route("reports.read", "first")]
evidenceRoutes ==
    [uploadEvidence |-> route("soc.evidence.write", "after"), downloadEvidence |-> route("soc.evidence.read", "first"),
     verifyEvidence |-> route("soc.evidence.read", "after")]
aiRoutes ==
    [updateAISOCPolicy |-> route("ai.policy.manage", "after"), createAISOCRequest |-> route("ai.request", "after"),
     decideAISOCRequest |-> route("ai.decide", "after")]
socRoutes ==
    [updateAlert |-> route("soc.alerts.manage", "after"), createIncident |-> route("soc.incidents.create", "after"),
     updateIncident |-> route("soc.incidents.manage", "after")]
caseRoutes ==
    [createCase |-> route("soc.cases.manage", "after"), updateCase |-> route("soc.cases.manage", "after"),
     addCaseComment |-> route("soc.cases.manage", "after"), addCaseTask |-> route("soc.cases.manage", "after"),
     updateCaseTask |-> route("soc.cases.manage", "after"), addCaseParticipant |-> route("soc.cases.manage", "after"),
     addCaseObservable |-> route("soc.cases.manage", "after"), linkCaseIncident |-> route("soc.cases.manage", "after")]
collectorRoutes ==
    [registerCollector |-> route("platform.collectors.manage", "after"), updateCollector |-> route("platform.collectors.manage", "after")]
enrollmentRoutes ==
    [createAgentEnrollmentToken |-> route("platform.collectors.manage", "within"),
     revokeAgentEnrollmentToken |-> route("platform.collectors.manage", "within")]
retentionRoute == [updateRetentionPolicy |-> route("platform.retention.manage", "after")]
uebaRoute == [updateUEBAFeedback |-> route("ueba.feedback", "after")]

routeTables == {detectionRoutes, parserRoutes, playbookRoutes, executionRoutes, connectorRoutes, feedRoutes, indicatorRoutes, huntRoutes,
                licenseRoutes, reportRoutes,
                evidenceRoutes, aiRoutes, socRoutes, caseRoutes, collectorRoutes, enrollmentRoutes, retentionRoute, uebaRoute}
(* Of these, the ones that answer a repetition with what is there and      *)
(* leave no entry, the ones about the tenant their input names, for a      *)
(* principal of the platform, and what an entry may call the outcome. *)
silentRepeats == {"createCase", "createIncident"}
tenantRoutes == {"createAdminTenant", "updateAdminTenant"}
outcomesOf(r) == IF r = "testThreatIntelFeed" THEN {"SUCCESS", "FAILURE"} ELSE {"SUCCESS"}

tableOf(r) == CHOOSE t \in routeTables : r \in DOMAIN t
permissionOf(r) == tableOf(r)[r].permission
auditOrder(r) == tableOf(r)[r].audit

\* The id of a service account's principal has a prefix of its own.
ASSUME ApiAssumption ==
    /\ ServiceNames \cap DOMAIN Users = {}
    /\ Routes \subseteq UNION {DOMAIN t : t \in routeTables}

-----------------------------------------------------------------------------
(* The permissions of the roles that the routes above ask for. *)
analystPermissions ==
    {"reports.read", "soc.evidence.read", "siem.hunt.execute", "siem.hunt.manage", "soc.alerts.manage", "soc.incidents.create", "ai.request"}
seniorPermissions ==
    analystPermissions \cup {"reports.generate", "soc.incidents.manage", "soc.cases.manage", "soc.evidence.write",
                             "soar.playbooks.execute", "ueba.feedback", "ai.decide"}
managerPermissions == seniorPermissions \cup {"soar.playbooks.write", "soar.actions.approve", "soar.connectors.manage", "soar.connectors.test"}
rolePermissions ==
    [platform_super_admin |-> {"*"}, platform_administrator |-> {"*"},
     tenant_admin |-> managerPermissions \cup {"platform.service_accounts.write", "platform.collectors.manage", "siem.parsers.write",
                          "siem.parsers.publish", "licenses.install", "platform.retention.manage", "ti.indicators.manage", "ai.policy.manage"},
     soc_manager |-> managerPermissions, soc_l1 |-> analystPermissions, soc_l2 |-> seniorPermissions,
     soc_l3 |-> seniorPermissions \cup {"soar.actions.approve", "soar.connectors.test"},
     threat_hunter |-> {"siem.hunt.execute", "siem.hunt.manage", "soc.incidents.create", "soc.cases.manage", "soc.evidence.read",
                        "soc.evidence.write", "ueba.feedback", "ai.request", "ai.decide"},
     detection_engineer |-> {"siem.rules.write", "siem.rules.publish", "siem.parsers.write", "siem.parsers.publish", "siem.hunt.execute", "ai.request"},
     threat_intelligence_analyst |-> {"ti.indicators.manage", "ai.request"},
     soar_engineer |-> {"soar.playbooks.write", "soar.playbooks.execute", "soar.actions.approve", "soar.connectors.manage", "soar.connectors.test"},
     auditor |-> {"soc.evidence.read", "reports.read"}, mssp_manager |-> {"reports.read"}]

(* A permission brings others with it, and those theirs; no chain is       *)
(* longer than two. *)
permissionImplications ==
    {<<"siem.rules.publish", "siem.rules.write">>, <<"siem.parsers.publish", "siem.parsers.write">>,
     <<"soc.evidence.write", "soc.evidence.read">>, <<"reports.generate", "reports.read">>}
withImplied(permissions) == permissions \cup {i[2] : i \in {j \in permissionImplications : j[1] \in permissions}}
grantPermission(permissions) == withImplied(withImplied(permissions))
namedPermissions == (UNION {rolePermissions[role] : role \in DOMAIN rolePermissions}) \ {"*"}
knownPermissions == grantPermission(namedPermissions)

permissionsForRoles(roles) == grantPermission(UNION {rolePermissions[role] : role \in roles \cap DOMAIN rolePermissions})
platformRole(role) == role = "mssp_manager" \/ (role \in DOMAIN rolePermissions /\ "*" \in rolePermissions[role])

Can(principal, permission) == "*" \in principal.permissions \/ permission \in principal.permissions
CanAccessTenant(principal, tenant) == principal.platform \/ tenant \in principal.tenants

-----------------------------------------------------------------------------
(* Who a credential stands for.  A user's token is verified, needs the     *)
(* second factor, and a tenant unless a role is for the platform; a        *)
(* service account's token is looked up. *)
principalOf(id, permissions, tenants, platform) ==
    [id |-> id, permissions |-> permissions, tenants |-> tenants, platform |-> platform]

AuthenticateUser(user) ==
    LET claims == Users[user]
        platform == \E role \in claims.roles : platformRole(role)
    IN IF claims.mfa /\ (platform \/ claims.tenants # {})
       THEN {principalOf(user, permissionsForRoles(claims.roles), claims.tenants, platform)} ELSE {}
AuthenticateServiceAccount(name, token) ==
    {principalOf(name, grantPermission(row.scopes), {row.tenant}, FALSE) :
        row \in {r \in serviceAccounts[name] : r.state = "ACTIVE" /\ r.token = token}}
Authenticate(credential) ==
    IF credential.kind = "user" THEN AuthenticateUser(credential.id)
    ELSE AuthenticateServiceAccount(credential.id, credential.token)

-----------------------------------------------------------------------------
(* Service accounts.  Their scopes are known ones that their creator has   *)
(* and that are not for humans only. *)
humanOnlyScopes == {"platform.service_accounts.write", "licenses.install", "soar.actions.approve", "ai.decide"}
onlyHeld(actor, scopes) == \A scope \in scopes : scope \in knownPermissions /\ Can(actor, scope)
grantableScopes(actor, scopes) ==
    /\ scopes # {}
    /\ \A scope \in scopes : scope \in knownPermissions /\ scope \notin humanOnlyScopes /\ Can(actor, scope)

managers(tenant) ==
    {p \in UNION {AuthenticateUser(user) : user \in DOMAIN Users} :
        Can(p, "platform.service_accounts.write") /\ CanAccessTenant(p, tenant)}

CreateServiceAccount(actor, name, tenant, scopes) ==
    /\ serviceAccounts[name] = {} /\ grantableScopes(actor, scopes)
    /\ serviceAccounts' = [serviceAccounts EXCEPT ![name] =
          {[state |-> "ACTIVE", token |-> 1, scopes |-> scopes, tenant |-> tenant, createdBy |-> actor.id]}]
    /\ UNCHANGED <<apiRequest, effects, auditLog>>
changed(row, state, token) ==
    [state |-> state, token |-> token, scopes |-> row.scopes, tenant |-> row.tenant, createdBy |-> row.createdBy]
RotateServiceAccountToken(name) ==
    /\ \E row \in serviceAccounts[name] : row.state = "ACTIVE" /\ row.token < MaxTokens
    /\ serviceAccounts' = [serviceAccounts EXCEPT ![name] = {changed(row, row.state, row.token + 1) : row \in @}]
    /\ UNCHANGED <<apiRequest, effects, auditLog>>
(* Revoked, or past its expiry. *)
RevokeServiceAccount(name) ==
    /\ \E row \in serviceAccounts[name] : row.state = "ACTIVE"
    /\ serviceAccounts' = [serviceAccounts EXCEPT ![name] = {changed(row, "REVOKED", row.token) : row \in @}]
    /\ UNCHANGED <<apiRequest, effects, auditLog>>

-----------------------------------------------------------------------------
(* Requests. *)
credentials ==
    {[kind |-> "user", id |-> user] : user \in DOMAIN Users}
        \cup {[kind |-> "service", id |-> name, token |-> token] : name \in ServiceNames, token \in 1 .. MaxTokens}
NoApiRequest == [at |-> "idle"]
ApiInit ==
    /\ serviceAccounts = [name \in ServiceNames |-> {}]
    /\ apiRequest = [c \in ApiClients |-> NoApiRequest]
    /\ effects = {} /\ auditLog = {}

(* A token can be sent once it was issued. *)
wasIssued(credential) == credential.kind = "service" => \E row \in serviceAccounts[credential.id] : credential.token <= row.token
Send(c, credential, r, tenant) ==
    /\ apiRequest[c].at = "idle" /\ wasIssued(credential)
    /\ apiRequest' = [apiRequest EXCEPT ![c] =
          [at |-> "arrived", send |-> 1, credential |-> credential, route |-> r, tenant |-> tenant, principal |-> {}, status |-> "",
           live |-> Authenticate(credential) # {}]]
    /\ UNCHANGED <<serviceAccounts, effects, auditLog>>
advance(c, at, send, principal, status, live) ==
    LET r == apiRequest[c] IN
    [apiRequest EXCEPT ![c] = [at |-> at, send |-> send, credential |-> r.credential, route |-> r.route, tenant |-> r.tenant,
                               principal |-> principal, status |-> status, live |-> live]]
reaches(c, at) == advance(c, at, apiRequest[c].send, apiRequest[c].principal, apiRequest[c].status, apiRequest[c].live)
SendAgain(c) ==
    /\ apiRequest[c].at = "answered" /\ apiRequest[c].status \in {"error", "lost"} /\ apiRequest[c].send < MaxSends
    /\ apiRequest' = advance(c, "arrived", apiRequest[c].send + 1, {}, "", Authenticate(apiRequest[c].credential) # {})
    /\ UNCHANGED <<serviceAccounts, effects, auditLog>>

reply(c, status) == advance(c, "answered", apiRequest[c].send, apiRequest[c].principal, status, apiRequest[c].live)
actorOf(c) == CHOOSE p \in apiRequest[c].principal : TRUE
entry(c, actor, outcome) == [client |-> c, send |-> apiRequest[c].send, actor |-> actor, outcome |-> outcome]

(* A refused approval decision is audited if that works. *)
auditSOARApprovalAccessDenied(c, actor) ==
    IF apiRequest[c].route = "decideSOARApproval"
    THEN auditLog' \in {auditLog, auditLog \cup {entry(c, actor, "DENIED")}}
    ELSE auditLog' = auditLog

protect(c) ==
    /\ apiRequest[c].at = "arrived"
    /\ LET r == apiRequest[c]
           found == Authenticate(r.credential)
           admitted == {p \in found : Can(p, permissionOf(r.route)) /\ CanAccessTenant(p, r.tenant)}
       IN IF admitted = {}
          THEN /\ apiRequest' = reply(c, IF found = {} THEN "unauthenticated" ELSE "denied")
               /\ auditSOARApprovalAccessDenied(c, IF found = {} THEN "anonymous" ELSE r.credential.id)
          ELSE /\ apiRequest' = advance(c, "admitted", r.send, admitted, r.status, r.live)
               /\ auditLog' = auditLog
    /\ UNCHANGED <<serviceAccounts, effects>>
requirePlatformScope(c) == apiRequest[c].route \in tenantRoutes => actorOf(c).platform
(* Refused for want of a licence, or of the platform's scope. *)
handleLicenseAuthorization(c) ==
    /\ apiRequest[c].at = "admitted" /\ apiRequest' = reply(c, "denied")
    /\ UNCHANGED <<serviceAccounts, effects, auditLog>>

(* The operation takes effect, or is refused.  A repetition may be         *)
(* answered with what was done before: by the same request or, for         *)
(* incidents, by any request for these alerts.  Some write their entry in  *)
(* the same transaction, some have written it before. *)
effectOf(c, tenant, expiry) ==
    [client |-> c, send |-> apiRequest[c].send, actor |-> actorOf(c), tenant |-> tenant,
     route |-> apiRequest[c].route, live |-> apiRequest[c].live, expiry |-> expiry]
actedOn(c) == IF apiRequest[c].route \in tenantRoutes THEN ApiTenants ELSE {apiRequest[c].tenant}
doneBefore(c) ==
    {e \in effects : /\ e.client = c \/ e.route = "createIncident"
                     /\ e.route = apiRequest[c].route /\ e.tenant \in actedOn(c)}
auditsFirst(c) == auditOrder(apiRequest[c].route) = "first"
Operate(c) ==
    /\ apiRequest[c].at \in {"admitted", "audited"} /\ (apiRequest[c].at = "audited" <=> auditsFirst(c))
    /\ requirePlatformScope(c)
    /\ \E tenant \in actedOn(c) : effects' = effects \cup {effectOf(c, tenant, FALSE)}
    /\ IF auditOrder(apiRequest[c].route) = "within"
       THEN auditLog' = auditLog \cup {entry(c, actorOf(c).id, "SUCCESS")} ELSE auditLog' = auditLog
    /\ apiRequest' = reaches(c, IF auditOrder(apiRequest[c].route) = "after" THEN "auditing" ELSE "done")
    /\ UNCHANGED serviceAccounts
Repeat(c) ==
    /\ apiRequest[c].at = "admitted" /\ requirePlatformScope(c)
    /\ auditOrder(apiRequest[c].route) = "after" /\ doneBefore(c) # {}
    /\ apiRequest' = reaches(c, IF apiRequest[c].route \in silentRepeats THEN "done" ELSE "auditing")
    /\ UNCHANGED <<serviceAccounts, effects, auditLog>>

(* A decision that comes too late ends the approval, and is an error.      *)
lateDecision(c) ==
    /\ apiRequest[c].route = "decideSOARApproval"
    /\ effects' = effects \cup {effectOf(c, apiRequest[c].tenant, TRUE)}
(* An error: the operation is refused, or is done and could not read again *)
(* what it is to report.  Whichever it was, the log calls a decision       *)
(* denied, if that can be written. *)
handleDomainError(c) ==
    /\ \/ apiRequest[c].at = "admitted" /\ requirePlatformScope(c) /\ effects' = effects
       \/ apiRequest[c].at = "admitted" /\ lateDecision(c)
       \/ apiRequest[c].at = "done" /\ ~auditsFirst(c) /\ effects' = effects
    /\ apiRequest' = reply(c, "error")
    /\ auditSOARApprovalAccessDenied(c, actorOf(c).id)
    /\ UNCHANGED serviceAccounts

(* The audit entry is written in a call of its own: only then is the       *)
(* request answered, or the content handed out.  An entry that cannot be   *)
(* written makes the reply an error, whatever the operation has done. *)
ignoresFailedAudit(c) == reply(c, "ok")
auditFailed(c) == reply(c, "error")
AppendAudit(c) ==
    /\ apiRequest[c].at \in {"admitted", "auditing"} /\ (apiRequest[c].at = "admitted" <=> auditsFirst(c))
    /\ \/ /\ \E outcome \in outcomesOf(apiRequest[c].route) : auditLog' = auditLog \cup {entry(c, actorOf(c).id, outcome)}
          /\ apiRequest' = reaches(c, IF auditsFirst(c) THEN "audited" ELSE "done")
       \/ auditLog' = auditLog /\ apiRequest' = auditFailed(c)
    /\ UNCHANGED <<serviceAccounts, effects>>
Respond(c) ==
    /\ apiRequest[c].at = "done" /\ apiRequest' = reply(c, "ok")
    /\ UNCHANGED <<serviceAccounts, effects, auditLog>>

(* The server dies or the client's connection breaks: the rest of the      *)
(* handler does not happen. *)
Lose(c) ==
    /\ apiRequest[c].at \in {"arrived", "admitted", "audited", "auditing", "done"} /\ apiRequest' = reply(c, "lost")
    /\ UNCHANGED <<serviceAccounts, effects, auditLog>>

ApiNext ==
    \/ \E name \in ServiceNames : \/ \E tenant \in ApiTenants, scopes \in ScopeRequests : \E actor \in managers(tenant) :
                                        CreateServiceAccount(actor, name, tenant, scopes)
                                  \/ RotateServiceAccountToken(name) \/ RevokeServiceAccount(name)
    \/ \E c \in ApiClients : \/ \E credential \in credentials, r \in Routes, tenant \in ApiTenants : Send(c, credential, r, tenant)
                             \/ SendAgain(c) \/ protect(c) \/ handleLicenseAuthorization(c) \/ Operate(c) \/ Repeat(c)
                             \/ handleDomainError(c) \/ AppendAudit(c) \/ Respond(c) \/ Lose(c)

ApiSpec == ApiInit /\ [][ApiNext]_apiVars

-----------------------------------------------------------------------------
audited(c, send) == \E e \in auditLog : e.client = c /\ e.send = send /\ e.outcome # "DENIED"

(* A request that was answered as done is in the audit log under its       *)
(* actor, or repeated the creation of a case or an incident that is there. *)
(* Content is handed out only after its entry; another effect is without   *)
(* one only while its request is under way or was answered with an error   *)
(* or not at all; and a request the log calls denied did nothing, unless   *)
(* its success is in the log as well or it ended an approval whose time    *)
(* was over. (the order of operation, AppendAudit and reply in the handlers) *)
RequestsAreAccounted ==
    /\ \A c \in ApiClients : apiRequest[c].at = "answered" /\ apiRequest[c].status = "ok" =>
          \/ \E e \in auditLog : e.client = c /\ e.send = apiRequest[c].send /\ e.outcome # "DENIED" /\ e.actor = apiRequest[c].credential.id
          \/ /\ apiRequest[c].route \in silentRepeats
             /\ \E e \in effects : e.route = apiRequest[c].route /\ e.tenant = apiRequest[c].tenant
                                   /\ (e.client = c => e.send < apiRequest[c].send)
    /\ \A e \in effects : audited(e.client, e.send)
          \/ /\ auditOrder(e.route) = "after" \/ e.expiry
             /\ apiRequest[e.client].at = "auditing" \/ apiRequest[e.client].send > e.send
                   \/ apiRequest[e.client].status \in {"error", "lost"}
    /\ \A e \in auditLog : e.outcome = "DENIED" =>
          \A f \in effects : <<f.client, f.send>> = <<e.client, e.send>> => f.expiry \/ audited(f.client, f.send)

(* Whatever takes effect was asked for by a principal with the permission  *)
(* of the route in a tenant of its own.  A service account acts in one     *)
(* tenant, within what its creator may do, and never takes a decision kept *)
(* for humans, whichever permissions its scopes bring with them; and a     *)
(* token that was replaced or revoked when the request came does nothing.  *)
(* (protect, grantPermission, grantableScopes, ServiceAccountByTokenHash)  *)
EffectsAreEntitled ==
    /\ \A e \in effects : e.live /\ Can(e.actor, permissionOf(e.route)) /\ CanAccessTenant(e.actor, e.tenant)
    /\ \A e \in effects, name \in ServiceNames : e.actor.id = name =>
          /\ permissionOf(e.route) \notin humanOnlyScopes
          /\ \A row \in serviceAccounts[name] :
                /\ e.tenant = row.tenant
                /\ \A creator \in AuthenticateUser(row.createdBy) : Can(creator, permissionOf(e.route)) /\ CanAccessTenant(creator, e.tenant)

=============================================================================
