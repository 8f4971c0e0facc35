------------------------- MODULE TelemetryProcessor -------------------------
(***************************************************************************)
(* The stream processor: one consumer of a partition of the raw topic, its *)
(* pool of workers, and the stores the detection pipeline writes.          *)
(*                                                                         *)
(* Run polls a block of records, hands them to the workers and commits the *)
(* block's offsets once every record is done.  A worker's work on a record *)
(* is a sequence of calls to other systems (ClickHouse, PostgreSQL, Kafka);*)
(* each is a step here, so workers interleave between any two and the      *)
(* process may stop between any two.  PutEvent is a lookup and an insert.  *)
(*                                                                         *)
(* A failure before the pipeline, or of the dead-letter publication, is    *)
(* hard: it cancels the block and ends the process, which is started again *)
(* and polls from the committed offset.  A failure in the pipeline is soft:*)
(* the record goes to the dead-letter topic and counts as done.            *)
(***************************************************************************)
EXTENDS Integers, FiniteSets

CONSTANTS
    NRecords,  \* the partition holds the records 1..NRecords
    EventOf,   \* the event_id a record carries (a record may be a second copy)
    Kind,      \* "good", "tampered" (Verify fails) or "unparsable"
    Matching,  \* the event_ids for which detect returns a match
    Workers,   \* the worker goroutines
    MaxSoft,   \* bound on failures inside the pipeline
    MaxHard    \* bound on hard failures and process stops

Records == 1..NRecords
EventIds == {EventOf[r] : r \in Records}

ASSUME ProcessorAssumption ==
    /\ NRecords \in Nat
    /\ EventOf \in [Records -> Nat]
    /\ Kind \in [Records -> {"good", "tampered", "unparsable"}]
    /\ Matching \subseteq EventIds
    /\ Workers # {} /\ IsFiniteSet(Workers)
    /\ MaxSoft \in Nat /\ MaxHard \in Nat

VARIABLES
    committed, \* the consumer group's committed offset
    pollTo,    \* the last record of the block
    next,      \* the next record of the block to hand to a worker
    at,        \* the call each worker is about to make
    rec,       \* the record each worker has
    failed,    \* the block's context is cancelled
    raw,       \* records in raw_events
    events,    \* event_ids in normalized_events
    entities,  \* event_ids projected to the entity graph
    findings,  \* findings per event_id
    alerted,   \* event_ids listed by an alert
    audits,    \* audit entries of alerts, per event_id
    dlq,       \* records in the dead-letter topic
    soft, hard \* failures so far

telemetryVars == <<committed, pollTo, next, at, rec, failed, raw, events, entities,
                 findings, alerted, audits, dlq, soft, hard>>
store == <<raw, events, entities, findings, alerted, audits, dlq>>
stream == <<committed, pollTo, next>>

\* The calls of the pipeline: their errors are soft.
PipelineCalls == {"lookup", "insert", "entity", "entity_duplicate", "detect",
                  "finding", "alert", "audit"}
Calls == {"idle", "stopped", "raw", "dlq"} \union PipelineCalls

Event(w) == EventOf[rec[w]]

TelemetryInit ==
    /\ committed = 0 /\ pollTo = 0 /\ next = 1
    /\ at = [w \in Workers |-> "idle"]
    /\ rec = [w \in Workers |-> 0]
    /\ failed = FALSE
    /\ raw = {} /\ events = {} /\ entities = {} /\ alerted = {} /\ dlq = {}
    /\ findings = [e \in EventIds |-> 0]
    /\ audits = [e \in EventIds |-> 0]
    /\ soft = 0 /\ hard = 0

-----------------------------------------------------------------------------
(* Run.                                                                    *)

AllIdle == \A w \in Workers : at[w] = "idle"

\* PollFetches: some records after the committed offset.
PollFetches ==
    /\ AllIdle /\ ~failed /\ pollTo = committed
    /\ pollTo' \in (committed + 1)..NRecords
    /\ next' = committed + 1
    /\ UNCHANGED <<committed, at, rec, failed, soft, hard>>
    /\ UNCHANGED store

\* PollFetches on a partition that is read to its end.
PollNothing == AllIdle /\ committed = NRecords /\ UNCHANGED telemetryVars

\* Mistakes: the block is committed when its last record is handed out; the
\* last record of a block is left out.
CommitRecordsEarly ==
    /\ ~failed /\ pollTo > committed /\ next > pollTo
    /\ committed' = pollTo
    /\ UNCHANGED <<pollTo, next, at, rec, failed, soft, hard>>
    /\ UNCHANGED store

CommitRecordsAllButLast ==
    /\ AllIdle /\ ~failed /\ pollTo > committed /\ next > pollTo
    /\ committed' = pollTo - 1 /\ pollTo' = pollTo - 1
    /\ UNCHANGED <<next, at, rec, failed, soft, hard>>
    /\ UNCHANGED store

\* CommitRecords of the whole block.
CommitRecords ==
    /\ AllIdle /\ ~failed /\ pollTo > committed /\ next > pollTo
    /\ committed' = pollTo
    /\ UNCHANGED <<pollTo, next, at, rec, failed, soft, hard>>
    /\ UNCHANGED store

\* processRecords returned an error, Run and the process end; started again,
\* the consumer polls from the committed offset.
Rewind ==
    /\ pollTo' = committed /\ next' = committed + 1
    /\ at' = [w \in Workers |-> "idle"]
    /\ rec' = [w \in Workers |-> 0]
    /\ failed' = FALSE

Restart ==
    /\ failed
    /\ \A w \in Workers : at[w] \in {"idle", "stopped"}
    /\ Rewind
    /\ UNCHANGED <<committed, soft, hard>>
    /\ UNCHANGED store

\* The process stops anywhere, a failed CommitRecords included.
ProcessorCrash ==
    /\ hard < MaxHard
    /\ hard' = hard + 1
    /\ Rewind
    /\ UNCHANGED <<committed, soft>>
    /\ UNCHANGED store

-----------------------------------------------------------------------------
(* The workers of processRecords.                                          *)

\* A worker takes the next job; processRecord verifies the envelope.
TakeJob(w) ==
    /\ at[w] = "idle" /\ ~failed /\ next <= pollTo
    /\ rec' = [rec EXCEPT ![w] = next]
    /\ next' = next + 1
    /\ at' = [at EXCEPT ![w] = IF Kind[next] = "tampered" THEN "dlq" ELSE "raw"]
    /\ UNCHANGED <<committed, pollTo, failed, soft, hard>>
    /\ UNCHANGED store

\* PutRawEnvelope, and the parser after it.
PutRawEnvelope(w) ==
    /\ at[w] = "raw"
    /\ raw' = raw \union {rec[w]}
    /\ at' = [at EXCEPT ![w] = IF Kind[rec[w]] = "unparsable" THEN "dlq" ELSE "lookup"]
    /\ UNCHANGED <<stream, rec, failed, soft, hard>>
    /\ UNCHANGED <<events, entities, findings, alerted, audits, dlq>>

\* PutEvent, first half: GetEvent decides whether the event is a duplicate.
LookupEvent(w) ==
    /\ at[w] = "lookup"
    /\ at' = [at EXCEPT ![w] = IF Event(w) \in events THEN "entity_duplicate" ELSE "insert"]
    /\ UNCHANGED <<stream, rec, failed, soft, hard>>
    /\ UNCHANGED store

\* PutEvent, second half.
InsertEvent(w) ==
    /\ at[w] = "insert"
    /\ events' = events \union {Event(w)}
    /\ at' = [at EXCEPT ![w] = "entity"]
    /\ UNCHANGED <<stream, rec, failed, soft, hard>>
    /\ UNCHANGED <<raw, entities, findings, alerted, audits, dlq>>

\* ObserveEntityEvent; Ingest returns here for a duplicate.
ObserveEntityEvent(w) ==
    /\ at[w] \in {"entity", "entity_duplicate"}
    /\ entities' = entities \union {Event(w)}
    /\ at' = [at EXCEPT ![w] = IF at[w] = "entity" THEN "detect" ELSE "idle"]
    /\ UNCHANGED <<stream, rec, failed, soft, hard>>
    /\ UNCHANGED <<raw, events, findings, alerted, audits, dlq>>

\* A mistake: the alert is written before its finding.
DetectAlertsFirst(w) ==
    /\ at[w] = "detect"
    /\ at' = [at EXCEPT ![w] = IF Event(w) \in Matching THEN "alert" ELSE "idle"]
    /\ UNCHANGED <<stream, rec, failed, soft, hard>>
    /\ UNCHANGED store

\* detect, by its outcome for the event.
Detect(w) ==
    /\ at[w] = "detect"
    /\ at' = [at EXCEPT ![w] = IF Event(w) \in Matching THEN "finding" ELSE "idle"]
    /\ UNCHANGED <<stream, rec, failed, soft, hard>>
    /\ UNCHANGED store

\* PutFinding under a new finding id.
PutFinding(w) ==
    /\ at[w] = "finding"
    /\ findings' = [findings EXCEPT ![Event(w)] = @ + 1]
    /\ at' = [at EXCEPT ![w] = "alert"]
    /\ UNCHANGED <<stream, rec, failed, soft, hard>>
    /\ UNCHANGED <<raw, events, entities, alerted, audits, dlq>>

\* UpsertAlert: the alert of the deduplication key lists the event.
UpsertAlert(w) ==
    /\ at[w] = "alert"
    /\ alerted' = alerted \union {Event(w)}
    /\ at' = [at EXCEPT ![w] = "audit"]
    /\ UNCHANGED <<stream, rec, failed, soft, hard>>
    /\ UNCHANGED <<raw, events, entities, findings, audits, dlq>>

AppendAudit(w) ==
    /\ at[w] = "audit"
    /\ audits' = [audits EXCEPT ![Event(w)] = @ + 1]
    /\ at' = [at EXCEPT ![w] = "idle"]
    /\ UNCHANGED <<stream, rec, failed, soft, hard>>
    /\ UNCHANGED <<raw, events, entities, findings, alerted, dlq>>

\* deadLetter succeeds: the record is done.
PublishDeadLetter(w) ==
    /\ at[w] = "dlq"
    /\ dlq' = dlq \union {rec[w]}
    /\ at' = [at EXCEPT ![w] = "idle"]
    /\ UNCHANGED <<stream, rec, failed, soft, hard>>
    /\ UNCHANGED <<raw, events, entities, findings, alerted, audits>>

\* A mistake: an error of detection is logged and the record counts as done.
PipelineFailsIgnored(w) ==
    /\ at[w] \in PipelineCalls /\ soft < MaxSoft
    /\ soft' = soft + 1
    /\ at' = [at EXCEPT ![w] =
                IF @ \in {"detect", "finding", "alert", "audit"} THEN "idle" ELSE "dlq"]
    /\ UNCHANGED <<stream, rec, failed, hard>>
    /\ UNCHANGED store

\* Ingest returns an error.
PipelineFails(w) ==
    /\ at[w] \in PipelineCalls /\ soft < MaxSoft
    /\ soft' = soft + 1
    /\ at' = [at EXCEPT ![w] = "dlq"]
    /\ UNCHANGED <<stream, rec, failed, hard>>
    /\ UNCHANGED store

\* PutRawEnvelope or the dead-letter publication fails: the first error
\* cancels the block's context and the worker returns.
RecordFails(w) ==
    /\ at[w] \in {"raw", "dlq"} /\ hard < MaxHard
    /\ hard' = hard + 1
    /\ at' = [at EXCEPT ![w] = "stopped"]
    /\ failed' = TRUE
    /\ UNCHANGED <<stream, rec, soft>>
    /\ UNCHANGED store

\* A worker's call is cancelled with the block: its error, and the dead letter
\* it is turned into, fail with the same context.
CallCancelled(w) ==
    /\ failed /\ at[w] \notin {"idle", "stopped"}
    /\ at' = [at EXCEPT ![w] = "stopped"]
    /\ UNCHANGED <<stream, rec, failed, soft, hard>>
    /\ UNCHANGED store

-----------------------------------------------------------------------------
Work(w) ==
    \/ TakeJob(w) \/ PutRawEnvelope(w) \/ LookupEvent(w) \/ InsertEvent(w)
    \/ ObserveEntityEvent(w) \/ Detect(w) \/ PutFinding(w) \/ UpsertAlert(w)
    \/ AppendAudit(w) \/ PublishDeadLetter(w)

Poll == PollFetches \/ CommitRecords \/ Restart

TelemetryNext ==
    \/ Poll \/ PollNothing \/ ProcessorCrash
    \/ \E w \in Workers :
          Work(w) \/ PipelineFails(w) \/ RecordFails(w) \/ CallCancelled(w)

TelemetrySpec == TelemetryInit /\ [][TelemetryNext]_telemetryVars

\* The poll loop and every worker run on; failures are not fair.
TelemetryFairSpec == TelemetrySpec /\ WF_telemetryVars(Poll) /\ \A w \in Workers : WF_telemetryVars(Work(w))

-----------------------------------------------------------------------------
TelemetryTypeOK ==
    /\ committed \in 0..NRecords /\ pollTo \in committed..NRecords
    /\ next \in 1..(NRecords + 1)
    /\ at \in [Workers -> Calls]
    /\ rec \in [Workers -> 0..NRecords]
    /\ failed \in BOOLEAN
    /\ raw \subseteq Records /\ dlq \subseteq Records
    /\ events \subseteq EventIds /\ entities \subseteq EventIds
    /\ alerted \subseteq EventIds
    /\ findings \in [EventIds -> Nat] /\ audits \in [EventIds -> Nat]
    /\ soft \in 0..MaxSoft /\ hard \in 0..MaxHard

DeadLettered(e) == \E r \in dlq : EventOf[r] = e

\* A record is kept: quarantined if it cannot be trusted; otherwise stored as
\* received, and either normalised or in the dead-letter topic.
Kept(r) ==
    IF Kind[r] = "tampered" THEN r \in dlq
    ELSE r \in raw /\ (r \in dlq \/ (Kind[r] = "good" /\ EventOf[r] \in events))

\* No record behind the committed offset is lost, whatever fails or stops
\* (offsets are committed only after every worker of the block is done).
CommittedIsKept == \A r \in 1..committed : Kept(r)

\* An alert has its evidence: the event it lists is stored, in the entity
\* graph and in a finding, and only then is the alert audited.
AlertHasEvidence ==
    \A e \in EventIds :
        /\ e \in alerted => e \in events /\ e \in entities /\ findings[e] > 0
        /\ audits[e] > 0 => e \in alerted

Detected(e) == findings[e] > 0 /\ e \in alerted /\ audits[e] > 0

\* "A hard failure replays the block rather than acknowledging partially
\* processed security telemetry" (processRecords): an acknowledged event that
\* detection matches has its finding, alert and audit entry, or a copy of it
\* waits in the dead-letter topic.
DetectionComplete ==
    \A r \in 1..committed :
        (Kind[r] = "good" /\ EventOf[r] \in Matching)
            => (Detected(EventOf[r]) \/ DeadLettered(EventOf[r]))

\* As long as no hard failure or stop has replayed a block, detection is
\* complete, however workers interleave and pipeline calls fail (Ingest reports
\* every error, and processRecord turns it into a dead letter).
DetectedUnlessReplayed == hard = 0 => DetectionComplete

\* However often a block is replayed, the duplicate check of PutEvent leaves at
\* most one finding of an event per worker: only workers that looked the event
\* up before its first insert go on to detection.
FindingsBounded == \A e \in EventIds : findings[e] <= Cardinality(Workers)

\* Detection of an acknowledged event is neither lost without a replay nor
\* repeated without end by one (Ingest and its duplicate check).
DetectionIsAccounted == DetectedUnlessReplayed /\ FindingsBounded

\* Every record is acknowledged in the end, once failures end.
AllCommitted == <>[](committed = NRecords)
=============================================================================
