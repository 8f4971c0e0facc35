# KCSP in TLA+

A verification development for the KCSP platform of this repository: a SIEM
(agents, ingest gateway, stream processor, detection), a SOC desk (alerts,
incidents, audit) and a SOAR engine (playbooks, approvals, connectors).  The
modules model the parts whose correctness depends on interleaving, failure and
order; TLC checks them on small instances and TLAPS proves the main invariants
for every value of the constants.  Paths below are relative to `src/`.

To run it: `tlc -workers 2 -config X.cfg MCModule` for a row of the table of runs
(the longest take about two minutes on two cores) and `tlapm MProofs.tla` for
a proof module.  `PROJECT.json` lists components, runs, the source lines behind
every definition, the hazards and, for each property, a plausible mistake in the
code that breaks it.

## 1. The system

Telemetry goes from a host through the agent (`cmd/agent`, `internal/agent`) and
the batch endpoint of the API (`internal/httpapi`, `internal/ingest`) into a
Kafka topic.  The processor (`cmd/processor`, `internal/ingest/processor.go`)
reads the topic and runs each record through the pipeline
(`internal/pipeline`), which writes ClickHouse (events, raw events, findings)
and PostgreSQL (entities, alerts, audit).  Analysts work on alerts and incidents
through the API (`internal/soc`, `internal/store/postgres.go`).  Playbooks
(`internal/soar`) are executed by SOAR workers (`cmd/soar-worker`), which share
the queue of node executions in PostgreSQL, wait for human decisions and call
external systems through connectors.

### Inventory

| Component | State | Operations | Interacts with | Hard behaviour | What makes it correct |
|---|---|---|---|---|---|
| SOAR runtime (`soar/worker.go`, `store/soar_runtime.go`) | executions, node executions with leases, approvals and decisions, action ledger | claim, complete, retry, fail, defer, request approval or manual task, decide, finish a task, cancel, expire | connectors, people, PostgreSQL | competing workers, leases that run out, workers that stop, decisions against deadlines, statements of two transactions interleaving | no action without its approval; an execution ends consistently and settles; a finished row stays finished; a success is real |
| SOAR connector control (`soar/connectors.go`, `store/soar_connectors.go`) | connector row with state and version, connection tests, rate window | create, edit, disable, queue, claim and finish a test, reserve a call | SOAR workers, editors | an edit during a test, two edits at once, expired leases | no lost edit, disabled is final, LIVE calls only to what was tested |
| SOAR connector adapters (`soar/connector_*.go`) | an action's attempt, token, provider's state | login, write, read-back, classify, retry | providers | lost answers, writes that cannot be verified | what was acknowledged is not sent again; duplicates have a cause |
| SOAR playbooks (`soar/validate.go`, `store/soar.go`) | playbooks, versions, executions | create, validate, publish, retire, start | runtime | publication against edits, idempotent start | only validated graphs run |
| Agent store-and-forward (`agent/queue.go`, `agent/forwarder.go`, `cmd/agent`) | source checkpoint, queue directory, cached occupancy | read, enqueue, checkpoint, send, acknowledge | gateway | stop between any two, lost answers, full queue | nothing checkpointed is lost; everything arrives |
| Agent credentials and enrolment (`agent/credential.go`, `enrollment`) | enrolment token, collector row, credentials, credential file | enrol, persist, renew, rotate, revoke | API | a lost answer to a rotation, a stop between two renames | an agent that was given a credential keeps one the server accepts |
| Ingest gateway (`ingest/envelope.go`, `kafka.go`, `httpapi/server.go`) | none of its own | admit, publish, answer | licensing, Kafka | partial publication | an accepted batch is in the topic |
| Stream processor (`ingest/processor.go`) | offsets, worker pool | poll, process, commit, rewind, dead-letter | pipeline, Kafka | concurrent workers, cancellation of siblings, replay | no acknowledged record is lost |
| Pipeline and event store (`pipeline/engine.go`, `store/clickhouse.go`, `store/hybrid.go`) | raw and normalized events, findings | Ingest: parse, put, project, detect | alerts, entities | several durable writes without a transaction | an alert has its evidence; an event is detected |
| SOC desk (`soc/service.go`, `store/postgres.go`) | alerts, incidents, audit chain | upsert, edit, create and link, append | detection, analysts | stale views, several transactions per request | a whole audit chain, consistent incidents, no reopening |
| Cases (`cases`) | case row with tasks, participants, comments; links | create once, change under the row's lock, audit | SOC desk | overlapping changes, failed audit calls | nothing answered as done is lost or unaudited |
| Evidence (`evidence`) | row, immutable object, custody chain | reserve, put, finalise, read, verify | object store | row and object are in two systems | what is available has its object and an unbroken chain |
| Detection content (`detection`) | rules and their versions, correlation observations | compile, validate, publish, disable, roll back, correlate | pipeline | late validations, events out of order | one version in force; correlations neither made up nor missed |
| Threat intelligence (`threatintel`) | feed row with lease and cursor, indicators | claim, fetch, merge, finish, edit, import, revoke | providers, analysts | overrun leases, partial pages | a cursor never passes what was not taken; a revocation sticks |
| UEBA (`ueba`) | profiles of entities and peer groups, anomalies, feedback | observe, decay, alert | pipeline | redelivery after a commit | a value is new exactly when it was not learnt; no anomaly is lost |
| AI SOC (`aisoc`) | policy versions, requests with leases, decisions | submit, claim, call, complete, decide | external model | lost leases, policy changed meanwhile | a context leaves only as the policy allows; one outcome, the audited one |
| Licensing and quota (`licensing`, `ephemeral`) | licences, tenant, the day's ledger in Valkey | install, reserve, bootstrap, settle, suspend | gateway | loss of the ledger, two replicas | the quota is exceeded only by what a loss explains |
| HTTP API, authentication, service accounts (`httpapi`, `platform/auth`, `serviceaccount`) | service accounts and tokens | authenticate, authorise, operate, audit, answer | all services | a stop between effect and audit, repeated requests, rotation meanwhile | effects are entitled and accounted for |
| Collectors (`collector`) | API cursor, file checkpoint, spool | poll, tail, receive, flush | gateway | rotation, crashes, full spool | a checkpoint never passes what is not on disk |
| Disaster recovery (`dr`) | snapshots, targets, work directories, report | back up, prune, restore, drill | databases, bucket | a stop between any two objects | a snapshot offered is whole; a restore touches only its own targets |
| Hunting (`hunt`) | events, cursor | validate, compile, page | event store | events arrive and expire between pages | pages hold all of what the query means, once |
| Parsers (`parser`) | parser versions per format | draft, validate, publish, disable | pipeline | publications for one format | one published parser per format |
| MITRE, reporting, rate limits, observability, web console, deployment | derived data | reads, counters, configuration | all | none of their own | not modelled |

## 2. What is modelled

### SoarDag, SoarRuntime, SoarIsolation

`SoarDag` holds the graph and the rules by which `promoteAndReconcileSOAR`
advances it, as operators from the statuses of all nodes to new ones: promotion
of nodes whose dependencies succeeded, cancellation after a failure, the
verdict over the execution.  `SoarRuntime` and `SoarIsolation` extend it.

`SoarRuntime` has one action per committed transaction of
`store/soar_runtime.go`, per call of a connector and per passing deadline.

| Variable | Code |
|---|---|
| `execStatus`, `nodeStatus` | `soar_executions.status`, `soar_node_executions.status` |
| `attempt`, `leaseOwner`, `leaseLive`, `available`, `deferred` | the node row's `attempt`, `lease_owner`, `lease_until > now()`, `available_at <= now()`, the output that marks a delay already waited for |
| `approval`, `version`, `approvalDue`, `decisions` | `soar_approvals` and `soar_approval_decisions` |
| `ledger` | `soar_action_attempts` |
| `worker` | where `Worker.RunOnce` is, with the claimed node and attempt |
| `effect`, `slips` | history of what the provider acknowledged; bounded stops and overrun leases |

`ClaimSOARNode` includes the expiry of overdue approvals that the same
transaction runs, and rolls it back with the rest when nothing is claimable, as
the code does.  `CompleteSOARNode`, `FailSOARNode`, `RetrySOARNode`,
`DeferSOARNode`, `RequestSOARApproval`, `RequestSOARManualTask`,
`BeginSOARAction`, `Execute`, `FinishSOARAction`, `DecideSOARApproval` and
`CompleteSOARManualTask` are the other operations; each settling one includes
the promotion and reconciliation that its transaction ends with.

`SoarIsolation` takes the same settlement apart into its statements at READ
COMMITTED: a row update waits for its lock and re-reads the row, each statement
has its own snapshot, and a deadlock or error rolls a transaction back.

### ConnectorControl, ConnectorCall

`ConnectorControl` is one connector row: editors that load, merge and write
with a version, `DisableSOARConnector`, connection tests claimed under a lease,
and the two steps before a LIVE call (the READY check and the rate window).  A
configuration is a function from fields to values; which ones the profile checks
accept, which need no secret and which lack it are the constants `Valid`,
`Anonymous` and `Unbound`.  `ConnectorCall` is one LIVE action
through one of the six adapters: each request of the adapter is a step whose
answer may be a success, a failure of each class the adapter tells apart, or
lost after it took effect.  Around the adapter are the node's row and the action's
ledger: several workers claim the node, also when an earlier claim left it RUNNING
(its lease of 30 seconds is shorter than a call's 60 and is not renewed), begin and
finish the ledger's row and settle the node if they still hold it; any of them may
stop at any call or get an error from the store, which is no `NodeError` and leaves
the node RUNNING.  `writes` is the history of what was sent, by attempt.

### AgentDelivery

The agent's loop (`drain`, then poll) with the source's checkpoint, the queue
directory `files`, the cached occupancy `cache`, one request at a time and the
ones it gave up on, the gateway's quota, publication item by item, and the
answer.  Removal of acknowledged files is one step per file.  The agent may stop
at any step and restarts from its disk.

### TelemetryProcessor

One consumer of one partition.  `PollFetches` takes a block, `TakeJob` hands its
records to workers, each call of the pipeline is a step, and `CommitRecords`
follows once the block is done.  `PutEvent` is a lookup and an insert, as in
`store/clickhouse.go`.  A pipeline error sends the record to the dead-letter
topic; any other error cancels the block and ends the process
(`RecordFails`, `CallCancelled`, `Restart`), which may also stop by itself (`ProcessorCrash`).

### SocDesk

Alerts of one deduplication key, incidents, and the audit chain.  A transaction
is a step, except that appending to the chain first waits for the head's lock.  A
request is several transactions and may fail between any two; `unaudited` counts
the changes that lost their entry in this way and no others, so `AuditAccounts` is
an equation.  That a change should not be able to lose its entry at all is what the
comment on `Repository` requires, and `soc_desk_audit` shows violated.  `session`
holds what each client sees or does; a patch carries the version the client saw or
none.  `CreateIncident` searches for an incident of the same alerts, reads the
alerts, inserts and links in separate steps, so two may overlap.  `UpsertAlert` is what detection does to the same rows meanwhile.

### LicenseQuota, AgentIdentity

`LicenseQuota`: `protect` (tenant and licence) and `ReserveIngestBatch` are two
steps of a request at a replica; the reservation is the script of
`ephemeral/valkey.go`, preceded by a bootstrap from stored events when the keys
are missing.  `LoseLedger` drops the keys, `Store` moves accepted events to
the store, so a rebuilt ledger knows only what was processed by then.  Licences
are installed, pass through the phases of their validity and bind only when
signed and issued for the tenant.

`AgentIdentity`: the agent's credential manager against the server's tables over
a network that delays requests past the agent's timeout and loses answers.  The
file is replaced by one rename on Unix and by several on Windows; the agent may
stop between any two.  `cut` is the history of who was legitimately cut off: the
server gave a new credential and the answer was lost, or the credential expired.

### Collectors, ThreatIntel

`Collectors` is one process with its sources: the API poller (`pollSource`: page,
spool each event, commit the cursor), the file tailer (fingerprint of the first
64 bytes, offset, rotation; a rotated file that is too short for a fingerprint is
the exception the code cannot tell from its predecessor), the HTTP receiver (202 after spooling), the syslog
receiver (a bounded channel, no promise) and the main loop that drains the channel
and flushes the spool.

`ThreatIntel` is a feed's row and the workers of the API replicas:
`ClaimThreatIntelFeedSync`, one step per page and per record, and
`FinishThreatIntelFeedSync` guarded by worker, lease and version.  Editors,
analysts and STIX imports change the row and the indicators meanwhile.

### PlaybookVersions, DetectionContent, ParserStudio, VersionedContent

`VersionedContent` says what released content promises: at most one version in
force, a version is released once, and what is out of force for good does not
return.  It has four actions (Release, Withdraw, Restore, Serve) and no
transactions.  `PlaybookVersions` implements it with the statements of
`PublishSOARPlaybookVersion` at READ COMMITTED, the unique index and the three
reads of `StartExecution`; `DetectionContent` with publications under an advisory
lock, disabling, rollback and validations that are saved late.  The refinement
mappings are `PlaybookContent` and `BaseContent` (INSTANCE ... WITH) and the
contracts are properties of the run `sources`: the version in force is the
PUBLISHED row (of a playbook, while the playbook itself is), `spent` the ones
retired or disabled, `kept` the SUPERSEDED ones that a rollback may return.
`ParserStudio` has an index over formats instead of versions and keeps its own
invariant.

### PlaybookValidator, SigmaRules, CorrelationWindow, Hunting, HuntQuery

Algorithms against a reference definition.  `PlaybookValidator` has the
depth-first search and the collection of approvals of `soar/validate.go`; its
reference is the existence of an execution order and the approvals on every path.
`SigmaRules` has the expansion of quantifiers and the recursive descent of
`detection/compiler.go`; a quantifier is over all selections or over those its
pattern finds (`Patterns`, the outcome of `path.Match`), and one that finds none
refuses the rule.  The reference reads a condition by precedence without a parser,
a quantifier as a term of its own, and a selection by where its values occur in the
event's.  `CorrelationWindow` is a group of a correlation: insertion, pruning,
window, emission in either store; the reference looks at all events that ever
came.  An emission of a count names its first `maximumEvidenceIDs` events (1000 in
the code) while a threshold may be 1,000,000, so that the events named need not be
a correlation: the property asks it of the window, and of the events named unless
a count has more of them than an emission names.  `Hunting` has the events' rows, merged by a read into the one of the
highest version, the request's range and the pages with their cursor over
(time, id).  What an expression is, is left to three constants: the validation
`Accepts` it, the compiled condition `Meets` an event, the hunter `Means` an event;
`HuntAssumption` says that of an accepted expression the last two agree, and the
property is stated with `Means`.  `HuntQuery` gives the three: the validation of
nested expressions, the condition they are compiled to, with the two-valued negation
of the generated SQL, and as the reference the set of events an expression stands
for.  The assumption is then what TLC evaluates for every query of the run
`records`; it fails, for example, when an expression of two forms is accepted.
`PlaybookValidator`, `SigmaRules` and `HuntQuery` use RECURSIVE operators where the
code recurses and are only model-checked; `CorrelationWindow` and `Hunting` are
written without them, and proved about.

### AiRequests, Ueba

`AiRequests`: a submission checks the policy, inserts a row once per key; a worker
claims it, checks the policy again, calls a gateway whose answer is arbitrary,
completes under its lease and then audits.  `Ueba`: an observation is one
transaction that locks the baselines of the entity and of its peer group in the
order of their keys, reads both, and decays, compares, learns and keeps the
anomaly; what follows may fail and the event then comes again.  Devices stand for the
features that compare a value with the entity's profile and processes for those that
also ask the peer group; whether the volume or the hour of the day deviates
(`ueba/model.go:194-220`) is an input of the event.

### CaseDesk, EvidenceLocker, BackupRestore

`CaseDesk`: a change is one transaction on the locked row and an audit call after
it; a request carries the version its client saw or none.  `EvidenceLocker`:
reserve, put, finalise as separate steps on two systems, a Put whose error hides
a success, and the verification that reads chain and head in two statements.
`BackupRestore`: one step per object put or removed, the lock that ends with its
process, targets that may exist beforehand, and the cleanup of a drill.

### ApiRequests

A request from its credential to its answer.  `route` gives each route that changes
or discloses something its permission and whether its audit entry is written
after the effect, with it or first; roles and scopes are those of
`platform/auth/auth.go`.  Whether an operation repeats, replays or refuses a
request that comes again is left open, the operations have their own modules; but
a repetition goes through `Repeat`, which for cases and incidents answers with
what is there and writes no entry (`silentRepeats`).  `handleDomainError` covers
an operation that refuses, one that is done and fails to read its result again, and
the decision that comes too late and commits the expiry (`lateDecision`): a
decision is logged as DENIED in each of them.  The routes about tenants need the
platform's scope and act on the tenant of their input (`requirePlatformScope`,
`actedOn`), and a feed's test may be logged as a FAILURE and answered with 200
(`outcomesOf`).

### How the modules fit together

`AgentDelivery` ends at the raw topic and `TelemetryProcessor` starts there: an
event that the first puts into the topic twice is a record of the second with
the same `EventOf`.  `LicenseQuota` is the reservation that `AgentDelivery` sees
as a window of size `Quota`, and `AgentIdentity` where the credential comes from
that its requests carry; `Collectors` has the same flush for its own spool.
`TelemetryProcessor` ends with an alert for an event and `SocDesk` starts with
it; the two copies of an event that its lookup and insert allow are the stored
copies of `Hunting`, and the redelivery that it performs is that of `Ueba` and
`CorrelationWindow`.  What `PlaybookValidator` shows of an accepted graph is what
`SoarDag` assumes of it, and `PlaybookVersions` shows that only published versions
start.  `SoarRuntime.Execute` is `ConnectorCall` seen as one step: its outcomes are
the classes that the adapters report.  `ConnectorControl` decides whether that
call may start.  The graph rules of `SoarRuntime` and `SoarIsolation` are the same
operators, so the atomic and the interleaved views cannot drift apart.
`ApiRequests` is the frame around the operations of the services.

Modules that share no state are checked in one run: the MC module extends them, a variable `part` is chosen initially and
only that part moves, so that the state spaces add.  A property of a part holds
trivially in the behaviours of the others.

## 3. Runs

| Run | Instance | Shows |
|---|---|---|
| `soar_runtime` | two executions (two-person approval then action with two attempts; manual task beside a delay and an unsupported node), two workers, three people, one stop or overrun lease | approvals gate effects, outcome agrees with nodes, success has an effect, finished is final, straight executions settle |
| `soar_concurrency` | a diamond with three transactions; a connector with two workers, two editors, one test, three configurations, one slip; six adapters, two workers, three attempts and one reclaim | committed rows agree and a node starts after its dependencies; no lost edit; LIVE calls are sound |
| `soar_call_replay` (violation) | a generic and a notification adapter, two workers, one reclaim | a message whose read-back failed is sent again by the worker that reclaims the node |
| `soar_isolation_join` (violation) | a diamond, two transactions | two branches finished at once leave the join PENDING |
| `delivery` | three events of two sizes that overfill the queue, requests of two, quota two, three faults; four records (two copies of a matching event, a tampered and an unparsable one), two workers, one soft and two hard failures; one AI request, two workers, two policies | nothing lost, occupancy honest, copies only from faults, all delivered; nothing acknowledged is lost, alerts have evidence, detection complete unless replayed, findings bounded, all committed; AI governed and ending |
| `processor_lost_detection` (violation) | three good records, one hard failure | a stop between storing an event and its alert loses the detection |
| `control_plane` | two replicas, four licences (one forged, one of another tenant), one loss of the ledger, four events; two agents (one Windows), a token of two uses, three credentials each, two faults; five users, a service account, ten routes; three parser versions for one format; six matches in every order; all conditions of three tokens and some longer; all graphs of three nodes with four kinds of node | the quota is exceeded only by what a loss hid and by nothing after a suspension but requests under way; an agent's credential stays in step with the server and survives stops; requests accounted for and entitled; one parser per format, correlations and conditions as defined, validation sound |
| `sources` | three API pages (one empty), a file of two lines per generation, two HTTP requests, one message, a spool of two; two replicas on a feed of each kind with malformed and withdrawn records, two sources, one fault; two publishers, two clients, three versions of a playbook; a rule and a correlation with two versions each | checkpoints are covered by disk or gateway, API events arrive; results are of the current source, cursors cover what was taken, revocations stick, feeds settle; the contracts of playbooks and rules |
| `feed_lost_records` (violation) | four records, pages of two | a MISP feed's cursor passes records that no page contained |
| `records` | two clients, two events further apart than the window that come in either order, two alerts, two incidents, three changes, one request that fails after its change; two analysts with nine changes; two uploads under one key; two processes, two backups; two processors with four events; four rows of three events and twenty-three hunts | the audit chain is whole and accounts for changes, incidents are backed and explain their status, versions name what was seen; cases and evidence keep their record, recovery is possible, restores are contained, baselines faithful, hunts complete, their queries compiled to what they mean |
| `soc_desk_audit` (violation) | two clients, one change that may fail before its entry | a change whose request failed afterwards has no audit entry, where the `Repository` must make the two atomic |
| `soc_desk_twins` (violation) | two clients, two incidents | two overlapping requests create two incidents of one set of alerts |

### Bounds, and why they are enough

Every bound is a constant or a guard that names it.

* `SlipBound`, `MaxSlips`, `MaxFaults`, `MaxHard`, `MaxSoft`, `MaxTrouble`,
  `MaxUnaudited`, `MaxSyncFaults`, `MaxLosses` limit faults.  One
  is enough for a step to be cut off and repeated; the agent gets three because
  a request given up on, its repetition and a restart may overlap; the processor
  two, so that the replay of a replay happens; an agent's identity two, for a stop
  during the recovery from a timeout.
* Two workers, editors, replicas or clients are the least that race.  A third
  transaction is in `soar_concurrency` because two settle and one may read in
  between.
* The two SOAR executions together have every kind of node but the pass-through,
  a guarded path, a failing branch beside a waiting one, and a retry.  A
  cancelled node whose approval is still pending does not occur in this
  instance; theorem `FinishedStaysFinished` covers it.
* Three events with sizes 2, 1, 2 and a queue of 4 make the queue overflow in
  the middle of a page; the estimates make one event just fit its request.
* The times of the SOC instance (0 and 2 with a window of 1) give, in one order, an
  event that opens a second alert and, in the other, one that arrives late and
  aggregates.  Three changes allow an incident, an edit of it and an edit of an
  alert, or two incidents created at once and an edit.
* Two versions of a connector beyond the first: an edit and one that is based on it
  or lost to it.  Three versions of a playbook: two that race to replace a third.
* A spool of two is filled by one API page; a page of two records and three
  records in the feed give a full and a short page.
* The matches of the correlation lie around a window of two with ties, an event of
  both rules, an empty value and one so late that pruning drops the others.  The
  thresholds are 2 and 3 and an emission names two events, so that one of them is
  above what is named.
* Three selections, of which a pattern finds two and another none, and four events
  that meet different ones of them.
* Two backups with one to keep make the older one prunable while it is restored.
* The days of the UEBA events include a silence long enough to forget.  Counts are
  percentages left after decay, so the rounding of the code stays.

`CHECK_DEADLOCK FALSE` stands where the system may rest: executions that wait
for a person or are over, an action that ended, a desk whose bounded changes are
used up, an AI request that is answered, the algorithms after their answer.  A
processor or an agent that got stuck would violate its liveness property.
`records` uses the symmetry of the desk's clients; it checks no liveness.

### Fairness

* `SoarRuntime`: weak fairness of "some worker steps" and of time.  One
  polling loop that runs on is what a deployment keeps up; any single worker may
  be gone for good.  Nothing is assumed of people, so `RunsSettle` speaks of
  executions that need none.
* `AgentDelivery`: weak fairness of the agent's loop, of the gateway's handler
  and of the quota window's end.  Faults are not fair and are bounded: the agent
  retries for as long as it takes.
* `TelemetryProcessor`: weak fairness of the poll loop and of every worker; the
  supervisor restarts a process that ended.  (`MCDelivery` states the same of the
  behaviours of the agent and of the processor.)
* `MCSources`: weak fairness of the poller's goroutine, the main loop, each feed
  worker's loop and of the end of a lease nobody finishes.  Nothing is assumed of
  editors or providers.
* `AiRequests` (in `MCDelivery`): weak fairness of each AI worker's loop and of the end of a lease.
  Attempts that end without a result are bounded (`MaxAiAttempts`): the code
  repeats them for ever, so a gateway that never answers keeps a request open.

## 4. Proofs

Eight modules, checked by TLAPS for all constants that satisfy the named
assumptions: any graph, any number of workers, people, events, records, editors,
clients and accounts, and any bounds.  The assumptions are `DagAssumption`,
`RuntimeAssumption`, `ControlAssumption`, `CallAssumption`, `DeliveryAssumption`,
`ProcessorAssumption` (a finite, nonempty pool), `PlaybookVersionsAssumption`,
`DetectionContentAssumption`, `AiRequestsAssumption`, `BackupRestoreAssumption`,
`CaseChangesAssumption`, `CollectorsAssumption` (every page fits the spool),
`ThreatIntelAssumption`, `LicenseAssumption` (finitely many replicas, and among
the valid licences one with the largest limit), `IdentityAssumption`,
`ApiAssumption` (the ids of service accounts are no user's, every route is in one
of the tables), `DeskAssumption` (finitely many requests at a time),
`UebaAssumption`, `CorrelationAssumption` and `CorrelationEventsAssumption` (what the
compiler of correlations accepts; an id tells an event) and `HuntAssumption` (an
event delivered again keeps its id, time and fields, a limit is positive, and an
accepted expression is compiled to what it means).  TLC
evaluates each of them on the instance of its run.

Hardly a safety property of the runs is inductive by itself.  Each proof has an
inductive invariant that says what a request, worker or transaction relies on
between two of its steps, while others change the same rows; the step lemma has
one case per action.

Three proofs need more than a step: what holds of every element of a sequence, a
sum or a search.  The induction theorems of the library cannot be used (their
parameter is an operator), so these proofs argue by the least number: if a claim
fails for some number it fails for a least one, and the step before that one
contradicts it.  `LeastNumber` is that principle, from the well-foundedness of the
natural numbers.

### SoarRuntimeProofs

`TypeCorrect`, `ApprovalsGateEffects`, `OutcomesAgree`, `FinishedStaysFinished`,
`WaitsAreBacked`, `LeaseCheckSuffices` and `SuccessIsReal`.  It begins with lemmas on
the graph operators of `SoarDag`: promotion touches only pending nodes whose
dependencies succeeded, cancellation only active ones of the failed execution,
the verdict agrees with the statuses.  In the invariant `RuntimeInv`,
`NodesInOrder` (a node left PENDING only after its dependencies, or by a
cancellation after a failure) carries the approval from node to node along the
graph: `ApprovalGate` alone says nothing of a node that is merely claimed.
`ApprovalTracksNode` ties the approval row to its node, with the quorum counted
over distinct deciders other than the initiator.  `WorkInOrder` and
`SuccessReported` describe what a worker still holds when its lease may be gone,
so that a late settlement is refused or harmless.

### SoarConcurrencyProofs

* `ControlInvHolds`, `UpdatesAreNotLost` (`NoLostUpdate`), `DisabledStaysDisabled`
  and `VerdictsAreFinal` for the connector's row.  `EditsAreBased` relates what an
  editor loaded to the versions since; `ClaimsAreOpen` says that a test a worker
  has selected is still open and that a test with a verdict has no lease.
* `InterleavedCommitsAgree` (`CommittedRowsAgree`): the statements of concurrent
  settlements at READ COMMITTED.  `TxSound` says what the statements of an open
  transaction have established and that the rows it wrote were active and stay
  so until it commits; `WritesApart` that no two transactions write the same row, which is what
  the row locks give.
* `LiveCallsStaySound` (`LiveCallsAreSound`), of the specification `MCSpec` that puts
  control plane and calls together.  `ReadyIsCleared` and `VerdictsFit`: a worker
  that still owns its test finds in the row the configuration it probed, one that
  passed, or one that an edit installed under the test.  `ClaimsAreNumbered` gives
  every claim an attempt of its own, the lease's holder the last one, and says that
  only a reclaim puts a second worker on the node or an attempt beyond the policy;
  `WritesAreNumbered` that a write carries the number of a claim that had not
  written; `AcksAreKnown` ties successes to an acknowledgement and keeps, while
  nothing was reclaimed, whoever acknowledged a write from coming back to it.

### AgentDeliveryProofs, TelemetryProcessorProofs

`DeliveryInvHolds` and `CheckpointedEventsSurvive` (`NoLoss`): every event at or
before the checkpoint is in the queue or in the topic.  It needs `BeforeCommit`
(the event the checkpoint is about to pass is on disk), `Awaiting` (the request's
items are the head of the queue, and an accepted request's items are in the
topic) and `Acknowledging` (the files still to be removed are in the topic).

`SpoolStaysHonest` (`SpoolIsHonest`) has two halves.  `OccupancyInv`: the count and
the bytes the agent believes in are those of the files whenever it trusts them;
the lemmas on `Total` say how a sum over the queue changes when a file is added or
removed.  `CopiesInv` bounds how often an event reaches the topic: its copies
there, those still to be sent, those in requests that were given up on and the one
that the source would still yield are together at most two to the number of
faults.  Without a fault a step only moves copies between these; a fault makes at
most one more of each that was there, and `PowerDoubles` pays for it.

`ProcessorInvHolds`, `NothingAcknowledgedIsLost` (`CommittedIsKept`),
`AlertsHaveEvidence` and `DetectionStaysAccounted` (`DetectionIsAccounted`).
`HandedOut` says that a record of the block is kept or with a worker,
`WorkerProgress` what a worker at a given call has already stored, and `Offsets`
orders the committed, handed-out and polled positions.  `UnlessReplayed` follows
an event from its row to its alert as long as no replay cut in between, and
`FindingsCounted` adds the workers that may still add a finding of an event to the
findings it has.

`BaselineStaysFaithful` (`BaselineIsFaithful`), of the module `Ueba` that the same
processors run.  `LearntOf` relates the stored baseline of an entity to the
committed history: a known device was observed, the count is that of the
observations unless a silence decayed it, and every observed device is known
unless one was forgotten or the profile was full.  `ObserverOK` and `LocksExclude`
say that what a processor read under both locks is still stored when it commits;
`NovelAt` is the claim at one observation, which later ones do not disturb.
`AnomalyInv` adds that anomaly, feedback and alert of an event are those of its
observations (`KeptOf`, `AlertedOf`).

### ContentProofs

* `PlaybookIsVersionedContent` and `DetectionRulesAreVersionedContent`: the
  refinement of `VersionedContent`, by the initial states and one step at a time.
  For playbooks the interleaved statements of a publication implement an atomic
  Release because of `OnePublishedRow`, `PublicationHolds` (the row a
  publication locked stays VALIDATED and those it is to retire stay PUBLISHED),
  `PublicationsApart` (two publications have different ones) and
  `StartsNameVersion` (a start names a version).  For rules
  `OneRuleInForce` suffices, as a publication is one transaction.
* `ParserChoiceIsUnique` (`OneParserPerFormat`), from `ValidIsEarned` and
  `LockedIsValid`: a publication publishes the row it locked.
* `AiStaysGoverned` (`AiIsGoverned`): `CallsGoverned` and `WorkersGoverned` keep what a
  worker checked before its call, `OneReport` that one completion wins, and
  `OutcomesAudited` its audit entry.
* `CorrelationStaysFaithful` (`CorrelationIsFaithful`).  What is alerted is real: the
  events a pass takes are of the rules in turn, in order and within the window
  (`PassIsReal`); a count names all of its events when they are few enough
  (`BoundedNames`), and is one of the window in any case.  What is real is alerted: against any choice of events in order
  the pass over the sorted records is never behind, as it takes the first one it
  can (`Ahead`, `PassGoesOn`, `PassFinds`).  `StoredOf` says what a store still has
  when an event arrives late: a row is missing only when it is two windows old.

### RecordsProofs

* `EvidenceStaysKept` (`EvidenceIsKept`).  `UploadsKnow` says what an upload under way
  knows of row and object, `RowAndChain` that the object is the one reserved for
  and the custody entries are linked up to the head, `ListingIsPrefix` that a
  verification holds a beginning of the chain.
* `RecoveryStaysPossible` and `RestoreStaysContained`.  `OneJob` is the lock;
  `JobKnows` says which objects of a snapshot a backup has put, a pruning removed and
  which targets a restore created.
* `CaseRecordIsKept` (`CaseKeepsItsRecord`).  `VersionsApart` gives every change a
  version of its own, `DoneIsKept` finds the change in the row that replaced the
  one it wrote, by `CallsKnow` and `OneLock`.
* `DeskRecordStays` (`DeskKeepsItsRecord`).  `HeadIsLocked`: the hash that a
  transaction read under the lock is the head until it appends.  `Knows` says of
  a request what it has on its screen (the row, if the version is still the
  same), gathered (events that its alerts hold), linked (alerts that left the
  queue) or is to record.  Rows only grow under everyone else's steps
  (`AlertsGrow`, `IncidentsGrow`), and a new row takes nobody's place because ids
  have no gaps (`RowsInOrder`).  The count of `AuditAccounts` moves with one
  request at a time (`OwingMoves`).
* `HuntStaysComplete` (`HuntIsComplete`).  The rows a page may show have the ranks 1 up
  to their number, each once (`RankFinds`), so that a page is the first of them in
  order and its end tells what is left (`PageIsFirst`); of the rows of an event one
  has the highest version and is shown (`StoredIsVisible`).  In `HuntInv` an event that
  was asked for and has been there since the first page is among those seen or
  behind the cursor (`OpenAt`), by its id: the row that is shown may be another one
  than at the first page.  `Understood` carries the assumption on accepted
  expressions from the validation to the end of the hunt.

### SourcesProofs

* `FeedLosesNothing` (`CursorCovers`), `OvertakenSyncsWriteNothing`
  (`ResultIsCurrent`) and `RevocationsStick` (`RevocationSticks`).  `LeaseHolds` says
  that a sync whose lease, worker and version still match works on the source
  and cursor of the row; `CoverInv` that what it has read lies behind its cursor.
* `CheckpointsAreCovered` (`SpoolCoversCheckpoint`), one part per source:
  `PagesKept`, `FileKept`, `RequestsKept`, over `Acknowledged` (what left the spool
  is at the gateway).

### AdmissionProofs

* `AdmissionStaysBounded` (`AdmissionIsBounded`).  `PaidFor`: what was accepted is at
  most what the ledger admitted and a largest limit for every ledger that was
  lost; `SuspensionCounted`: one request per replica can be past the check of the
  tenant; `LimitsAreLicensed`: a replica's limit is that of a valid licence.
* `CredentialStaysKept` (`CredentialIsKept`).  `NewestIsLive` and `MemoryMatchesFiles`
  relate server, memory and files.  The Windows replacement needs
  `BackupIsSuperseded` (a credential moved to the backup beside a new file was
  revoked before) and `FileIsLive`; `RequestInv` says what a delayed request can still
  do.
* `RequestsStayAccounted` and `EffectsStayEntitled`.  A service account's row keeps
  its scopes, tenant and creator, its tokens only grow and a revoked one stays
  revoked: a token that was not good on arrival never comes to life while its
  request is under way.  A request has an effect only at stages before which it
  had neither an effect nor a denial; one that is done has an entry, or met an
  effect that is not its own (`settled`), so that a denial written after it finds
  whatever it did in the log.  The permissions of a role or scope are
  closed under what they imply, and no scope is the wildcard.

`TypeCorrect`, `WaitsAreBacked`, `LeaseCheckSuffices`, `DisabledStaysDisabled` and
`VerdictsAreFinal` state facts that are parts of the inductive invariants and not
checked by a run of their own; the runs' other properties rest on them.

### Only model-checked

* Liveness (`RunsSettle`, `AgentDelivers`, `ProcessorCommits`, `ApiEventsArrive`,
  `ActiveFeedSettles`, `AiRequestEnds`): TLAPS does not reason about fairness and
  ENABLED.
* `ValidationIsSound` (`PlaybookValidator`), `ConditionIsRead` (`SigmaRules`) and
  the part of `HuntAssumption` about expressions (`HuntQuery`): the code recurses over graphs, conditions and
  expressions, and so do the operators.  TLAPS has no SMT backend in a module with
  a RECURSIVE operator, and a recursive function on trees cannot be unfolded
  without the induction theorems it cannot use.

## 5. Where code and documentation disagree

Six runs exhibit a disagreement; `PROJECT.json` quotes both sides.

* A node that joins two branches may stay PENDING for ever when both finish at
  once (`store/soar_runtime.go:544`).
* A write that was acknowledged and could not be verified is repeated by the worker
  that reclaims its node (`soar/worker.go:266`), where the runbook of the
  notification connectors promises that it is not.
* Detection is lost when processing stops after the event was stored
  (`pipeline/engine.go:161`).
* A MISP feed narrows its query by the timestamp of the page it has just read and
  advances the page number as well; the records in between are never read
  (`threatintel/sync.go:176`).
* A change at the SOC desk and its audit entry are two transactions; a request that
  fails between them leaves a mutation without its record (`soc/service.go:98`,
  against the comment on `Repository` at `:26`).
* Two overlapping requests for the same alerts create two incidents
  (`soc/service.go:126`, against `docs/architecture/vertical-slice.md:162`).

Others the models contain or the reading met, without a run of their own:

SOAR
* the expiry of approvals is rolled back whenever no node is claimable
  (`store/soar_runtime.go:47`, against `docs/runbooks/soar-human-approval.md:30`);
* a connection test's verdict is applied to a configuration edited meanwhile
  (`store/soar_connectors.go:255`), which a LIVE call then uses
  (`soar/connector_runtime.go:121`); a connector disabled after it was loaded is
  still called (`:119`);
* a late FAILED result overwrites SUCCEEDED in the action ledger
  (`store/soar_runtime.go:308`); reclaimed leases are not bounded by
  `maximum_attempts` (`:54`);
* a decision that was committed and could not be read again, or that came too late
  and ended its approval, is logged as DENIED (`store/soar_runtime.go:394`, `:487`,
  `httpapi/soar.go:206`);
* a publication and the start of an execution may deadlock in PostgreSQL, which
  aborts one of them.

Agent, collector, processor
* two copies of an event in one block both pass the lookup and both produce
  findings (`store/clickhouse.go:145`, against `docs/security/threat-model.md:84`);
* a batch shortened by its byte limit ends the agent's drain, although the comment
  says a short batch means the queue is drained (`cmd/agent/main.go:372`), and an
  event too large for a request blocks the smaller ones before it;
* an agent whose stored credential expired stays locked out until an operator
  removes the file and the collector (`agent/credential.go:300`);
* a page larger than the spool's room never fits (`collector/apipoll.go:254`);
  files with a generated name sort after the ones named by time;
* slow loaders of the retention cache (`store/hybrid.go:485`) and of the parser
  registry (`parser/registry.go:77`) may put an older version back;
* after a loss of the ledger accepted events that are not processed yet are not
  counted again (`ephemeral/valkey.go:71`).

SOC, cases, evidence
* `VerifyAudit` (`store/postgres.go:685`) and `VerifyEvidenceCustody` read entries
  and head in two statements and may report an intact chain as broken;
* a blank disposition replaces a given one on a closed incident
  (`soc/service.go:238`);
* a case or an incident whose creation was not audited is answered as a repetition
  afterwards, with 200 and no entry (`httpapi/cases.go:45`, `httpapi/server.go:1125`),
  and stays unaudited; a change without a version applies to whatever the row holds,
  also after closing; `AddParticipant` may demote the owner;
* a stop between reservation and object leaves evidence PENDING; a Put that stored
  and failed leaves an object beside a FAILED row.

Content, AI, UEBA, threat intelligence
* a parser's validation is saved without a guard on its state; a correlation's
  rules are looked at only when it is validated;
* a count's alert names its first 1000 events, where its threshold may be 1,000,000
  (`detection/correlation.go:112`, `detection/compiler.go:223`): the evidence kept
  need not satisfy the rule;
* the model is fixed when a request is submitted; a stop between completion and
  audit leaves a recommendation unaudited; attempts are unbounded;
* an observation is counted again when its event is redelivered; forgotten and
  evicted values are new again; the peer group is that of the first observation;
* a feed's changed source keeps the old cursor; a feed's test is recorded without
  a version; an indicator belongs to the feed that imported it last.

Operations
* a drill that dies leaves its databases and directory, and the next drill of that
  backup fails; a failed ClickHouse restore is not dropped (`dr/service.go:571`);
  partial snapshots are never pruned; a drill's resources are deleted before its
  report is uploaded (`dr/service.go:391`), where
  `docs/runbooks/backup-restore.md:19` says afterwards;
* a report reads at most 500 rows by `updated_at` and filters them afterwards; it
  looks for `events_24h` at the top level of an overview that nests it under
  `metrics`; a key used again for another type returns the old run; reads that fail
  are left out silently.

## 6. Assumptions and limits

* Queue files are ordered by the clock at enqueue; one telemetry source; the
  quota window starts empty.
* A failed process is started again by its supervisor.
* Worker identities are distinct.
* `TelemetryProcessor` keeps one open alert per key and one match per event;
  the window of the key is in `SocDesk`.
* One connector with a constant rate limit; clients send versions they saw.
* `ConnectorCall` is one node of an execution that is not cancelled meanwhile;
  cancellation is in `SoarRuntime`.
* `SocDesk` has one deduplication key; identifiers are in the order of creation;
  the limit of 500 incidents in the search for an equal one is not reached;
  entries of the chain, and of custody, are named instead of hashed.
* Times are deadlines that pass; durations are compared only for the
  deduplication window, the correlation window and the decay of baselines.
* `LicenseQuota` is one tenant and one day, `AgentIdentity` one token,
  `EvidenceLocker` one idempotency key, `CaseDesk` one case, `BackupRestore`
  restores one backup, `AiRequests` has distinct workers.  In each of these the
  key is part of every statement, so items do not interact.
* `Hunting` assumes that the driver binds times in inserts, ranges and cursors in
  the same way, and takes numbers for ids, whose order is all it uses; in
  `HuntQuery` `exists` on a numeric field is left out.
* Every API page fits the spool (`CollectorsAssumption`).

### Not modelled

The components `PROJECT.json` lists as `not_modelled`, and the parts its notes
leave out: text processing (parsers, the YAML reader, message formats) has no
state a model checker would exhaust usefully; cryptography, operating-system calls
and database tools are external; reporting, MITRE coverage, observability and
the console read, count or format; rate limiting is one atomic counter that
nothing else reads; retention and the reset of a tenant delete by time or tenant
without a protocol; bootstrap and deployment are wiring.

## 7. Next

Every safety property of the passing runs is stated by a theorem except the two
about recursive algorithms.  To prove `ValidationIsSound` the search of
`detectCycle` would have to become a state machine with an explicit stack, whose
invariant colours the graph; the same step, a stack of open parentheses, would
make `ConditionIsRead` provable.
